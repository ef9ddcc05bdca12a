------------------------ MODULE RequestIntakeProofs ------------------------
(***************************************************************************)
(* Proofs about RequestIntake for every set of profiles, models, tables,    *)
(* editors, clients and requests.  The first part is about the state: the   *)
(* types, that the table in force and the one on disk agree between saves,  *)
(* and that no gap between the steps of a save and the two reads of Resolve *)
(* lets a blocked model through.  Nothing in it depends on how messages are *)
(* shaped.  The second part is about the shaping: what each stage, from the *)
(* three protocols to what upstream is sent, returns and preserves.  The    *)
(* third follows each parser turn by turn and compares the messages it has  *)
(* made with the conversation told so far, and the last counts the pictures *)
(* from there to what upstream is sent.  The theorems at the end put the    *)
(* parts together.                                                          *)
(***************************************************************************)
EXTENDS RequestIntake, TLAPS, WellFoundedInduction, FiniteSetTheorems, SequenceTheorems

AnyDoc == Docs \cup {NoDoc, Torn}

\* The table and the document in force are records of routes and blocked models.
TableShape ==
    /\ DOMAIN table = {"routes", "blocked"}
    /\ table.blocked \subseteq Models
    /\ ruling.blocked = table.blocked

\* A save is under way with a document that was accepted.
SavesShape ==
    /\ DOMAIN saves = Editors
    /\ \A e \in Editors :
          /\ DOMAIN saves[e] = {"pc", "doc"}
          /\ saves[e].pc \in {"idle", "writing", "written", "renamed", "replaced"}
          /\ saves[e].doc \in AnyDoc
          /\ saves[e].pc # "idle" => saves[e].doc \in Docs /\ DOMAIN saves[e].doc.routes # {}

\* What a request carries once it has been parsed.
Pending == {"pc", "request", "model", "msgs", "wasOpen"}
CallShape(x) ==
    /\ x.pc \in {"idle", "parsed", "allowed", "sent", "refused"}
    /\ x.pc \in {"parsed", "allowed"} => DOMAIN x = Pending /\ x.wasOpen \in BOOLEAN
    /\ x.pc = "sent" => x.family \in registered \cup {BuiltIn}
CallsShape == DOMAIN call = Clients /\ \A c \in Clients : CallShape(call[c])

Shapes ==
    /\ file \in AnyDoc /\ tmp \in AnyDoc
    /\ registered \in Registrations /\ env \in Environments
    /\ overlapped \in BOOLEAN /\ saved \in 0..MaxSaves /\ boots \in 0..MaxBoots
    /\ TableShape /\ SavesShape /\ CallsShape

\* Where a save that is alone has brought the two files and the table.
Settled == file # Torn /\ table = Boot(file)
Progress(e) ==
    /\ saves[e].pc = "writing" => Settled /\ tmp = Torn
    /\ saves[e].pc = "written" => Settled /\ tmp = saves[e].doc
    /\ saves[e].pc \in {"renamed", "replaced"} => file = saves[e].doc
    /\ saves[e].pc = "replaced" => table.routes = saves[e].doc.routes

Alone ==
    ~overlapped =>
        /\ \A e, f \in Editors : saves[e].pc # "idle" /\ saves[f].pc # "idle" => e = f
        /\ \A e \in Editors : Progress(e)
        /\ (\A e \in Editors : saves[e].pc = "idle") => Settled

\* A request whose model was blocked all along is still waiting, and every save
\* under way keeps the model blocked.
Guarded(x) ==
    /\ x.pc = "parsed" /\ ~x.wasOpen =>
          /\ x.model \in ruling.blocked
          /\ \A e \in Editors : saves[e].pc # "idle" => x.model \in saves[e].doc.blocked
    /\ x.pc = "allowed" => x.wasOpen
    /\ x.pc = "sent" /\ x.request.explicit \notin registered => x.wasOpen

IInv == Shapes /\ Alone /\ \A c \in Clients : Guarded(call[c])

-----------------------------------------------------------------------------
(* Documents. *)

LEMMA DocFacts ==
    /\ NoDoc # Torn
    /\ \A d \in AnyDoc : DOMAIN d = {"routes", "blocked"} /\ d.blocked \subseteq Models
    /\ \A d \in AnyDoc : DOMAIN d.routes # {} => d # NoDoc /\ d # Torn
<1>1. DOMAIN NoDoc.routes = {} /\ DOMAIN Torn.routes = {}
  <2>1. NoDoc.routes = <<>> /\ Torn.routes = <<>>
    BY DEF NoDoc, Torn
  <2>2. DOMAIN <<>> = {}
    OBVIOUS
  <2> QED BY <2>1, <2>2
<1>2. NoDoc.blocked = {} /\ Torn.blocked = Models
  BY DEF NoDoc, Torn
<1>3. DOMAIN NoDoc = {"routes", "blocked"} /\ DOMAIN Torn = {"routes", "blocked"}
  BY DEF NoDoc, Torn
<1>4. Models # {} /\ \A d \in Docs : DOMAIN d = {"routes", "blocked"} /\ d.blocked \subseteq Models
  <2> SUFFICES ASSUME NEW d \in Docs
               PROVE  DOMAIN d = {"routes", "blocked"} /\ d.blocked \subseteq Models
    BY IntakeAssumption
  <2>1. d = [routes |-> d.routes, blocked |-> d.blocked] /\ d.blocked \subseteq Models
    BY IntakeAssumption
  <2>2. DOMAIN [routes |-> d.routes, blocked |-> d.blocked] = {"routes", "blocked"}
    OBVIOUS
  <2> QED BY <2>1, <2>2
<1>5. NoDoc # Torn
  BY <1>2, <1>4
<1> QED BY <1>1, <1>2, <1>3, <1>4, <1>5 DEF AnyDoc

\* A boot puts a table in force whatever the file holds.
LEMMA BootFacts ==
    ASSUME NEW f \in AnyDoc
    PROVE  DOMAIN Boot(f) = {"routes", "blocked"} /\ Boot(f).blocked \subseteq Models
BY DocFacts DEF Boot

-----------------------------------------------------------------------------
(* One lemma per group of steps. *)

LEMMA IntakeStarts == IntakeInit => IInv
<1> SUFFICES ASSUME IntakeInit PROVE IInv
  OBVIOUS
<1> USE IntakeAssumption
<1>1. TableShape /\ SavesShape /\ CallsShape
  BY BootFacts DEF IntakeInit, TableShape, SavesShape, CallsShape, CallShape, AnyDoc, NoRequest
<1>2. Shapes
  <2>1. file \in AnyDoc /\ tmp \in AnyDoc /\ overlapped \in BOOLEAN
    BY DEF IntakeInit, AnyDoc
  <2>2. saved \in 0..MaxSaves /\ boots \in 0..MaxBoots
    BY DEF IntakeInit
  <2>3. registered \in Registrations /\ env \in Environments
    BY DEF IntakeInit
  <2> QED BY <1>1, <2>1, <2>2, <2>3 DEF Shapes
<1>3. Alone
  BY DocFacts DEF IntakeInit, Alone, Settled, Progress
<1>4. \A c \in Clients : Guarded(call[c])
  BY DEF IntakeInit, Guarded, NoRequest
<1> QED BY <1>2, <1>3, <1>4 DEF IInv

\* A step that leaves the requests alone and shortens the list of saves under
\* way, or the documents they carry, loosens no guard.
LEMMA GuardsKept ==
    ASSUME IInv, UNCHANGED <<registered, call>>, SavesShape',
           ruling'.blocked = ruling.blocked \/
              \E e \in Editors : saves[e].pc # "idle" /\ ruling'.blocked = saves[e].doc.blocked,
           \A e \in Editors : saves'[e].pc # "idle" =>
               saves[e].pc # "idle" /\ saves'[e].doc = saves[e].doc
    PROVE  \A c \in Clients : Guarded(call[c])'
BY DEF IInv, Guarded

LEMMA BeginSaveKeeps ==
    ASSUME IInv, NEW e \in Editors, NEW doc \in Docs, BeginSave(e, doc)
    PROVE  IInv'
<1> USE IntakeAssumption DEF IInv
<1>1. SavesShape'
  BY DEF BeginSave, Shapes, SavesShape, AnyDoc, Valid
<1>2. ASSUME NEW c \in Clients
      PROVE  /\ CallShape(call[c])' /\ Guarded(call[c])'
             /\ call'[c].pc = call[c].pc
  <2>1. call'[c] = UnblocksFrom(doc, c) /\ UNCHANGED <<registered, ruling>>
    BY DEF BeginSave
  <2>2. CASE call[c].pc \in {"parsed", "allowed"} /\ call[c].model \notin doc.blocked
    <3>1. call'[c] = [call[c] EXCEPT !.wasOpen = TRUE] /\ DOMAIN call[c] = Pending
      BY <2>1, <2>2 DEF UnblocksFrom, Shapes, CallsShape, CallShape
    <3>2. /\ DOMAIN call'[c] = Pending /\ call'[c].wasOpen = TRUE
          /\ call'[c].pc = call[c].pc
      BY <3>1 DEF Pending
    <3> QED BY <2>1, <2>2, <3>2 DEF CallShape, Guarded
  <2>3. CASE ~(call[c].pc \in {"parsed", "allowed"} /\ call[c].model \notin doc.blocked)
    <3>1. call'[c] = call[c]
      BY <2>1, <2>3 DEF UnblocksFrom
    <3>2. CallShape(call[c])'
      BY <2>1, <3>1 DEF Shapes, CallsShape, CallShape
    <3>3. Guarded(call[c])'
      BY <2>1, <2>3, <3>1 DEF Guarded, BeginSave, Shapes, SavesShape
    <3> QED BY <3>1, <3>2, <3>3
  <2> QED BY <2>2, <2>3
<1>3. CallsShape'
  BY <1>2 DEF CallsShape, BeginSave
<1>4. TableShape' /\ saved' \in 0..MaxSaves
  BY DEF BeginSave, Shapes, TableShape
<1>5. Shapes'
  BY <1>1, <1>3, <1>4 DEF Shapes, BeginSave, AnyDoc
<1>6. Alone'
  <2> SUFFICES ASSUME ~overlapped' PROVE Alone'
    BY DEF Alone
  <2>1. \A f \in Editors : saves[f].pc = "idle"
    BY DEF BeginSave, Busy, Shapes
  <2>2. Settled /\ Settled'
    BY <2>1 DEF Alone, BeginSave, Shapes, Settled
  <2>3. \A f \in Editors : saves'[f].pc = IF f = e THEN "writing" ELSE "idle"
    BY <2>1 DEF BeginSave, Shapes, SavesShape
  <2> QED BY <2>2, <2>3 DEF Alone, Progress, BeginSave
<1> QED BY <1>2, <1>5, <1>6

\* An editor's next step changes its own save and keeps the document.
LEMMA StepFacts ==
    ASSUME SavesShape, NEW e \in Editors, saves[e].pc # "idle",
           NEW pc \in {"written", "renamed", "replaced"}, Step(e, pc)
    PROVE  /\ SavesShape'
           /\ saves'[e].pc = pc /\ saves'[e].doc = saves[e].doc
           /\ \A f \in Editors \ {e} : saves'[f] = saves[f]
BY DEF Step, SavesShape

LEMMA DoneFacts ==
    ASSUME SavesShape, NEW e \in Editors, Done(e)
    PROVE  /\ SavesShape' /\ saves'[e].pc = "idle"
           /\ \A f \in Editors \ {e} : saves'[f] = saves[f]
BY DEF Done, SavesShape, AnyDoc

\* What becomes of the other saves when one of them has been alone.
LEMMA OthersIdle ==
    ASSUME Alone, ~overlapped, NEW e \in Editors, saves[e].pc # "idle"
    PROVE  /\ \A f \in Editors \ {e} : saves[f].pc = "idle"
           /\ Progress(e)
BY DEF Alone

LEMMA WriteKeeps ==
    ASSUME IInv, NEW e \in Editors, Write(e)
    PROVE  IInv'
<1> USE DEF IInv
<1>1. /\ SavesShape' /\ saves'[e].pc = "written" /\ saves'[e].doc = saves[e].doc
      /\ \A f \in Editors \ {e} : saves'[f] = saves[f]
  BY StepFacts DEF Write, Shapes
<1>2. file' \in AnyDoc /\ tmp' \in AnyDoc
  BY DEF Write, Shapes, SavesShape, AnyDoc
<1>3. Shapes'
  BY <1>1, <1>2 DEF Write, Shapes, TableShape, CallsShape, CallShape
<1>4. \A c \in Clients : Guarded(call[c])'
  BY <1>1, GuardsKept DEF Write
<1>5. Alone'
  <2> SUFFICES ASSUME ~overlapped' PROVE Alone'
    BY DEF Alone
  <2>1. /\ \A f \in Editors \ {e} : saves[f].pc = "idle"
        /\ Settled /\ tmp = Torn
    BY OthersIdle DEF Write, Progress
  <2>2. Busy = {e}
    BY <2>1 DEF Write, Busy
  <2>3. tmp' = saves[e].doc /\ file' = file
    BY <2>1, <2>2, DocFacts DEF Write
  <2>4. Settled' /\ Progress(e)'
    BY <1>1, <2>1, <2>3 DEF Settled, Progress, Write
  <2>5. \A f \in Editors \ {e} : saves'[f].pc = "idle"
    BY <1>1, <2>1
  <2> QED BY <1>1, <2>4, <2>5 DEF Alone, Progress
<1> QED BY <1>3, <1>4, <1>5

LEMMA RenameKeeps ==
    ASSUME IInv, NEW e \in Editors, Rename(e)
    PROVE  IInv'
<1> USE DEF IInv
<1>1. CASE tmp = NoDoc
  <2>1. /\ SavesShape' /\ saves'[e].pc = "idle"
        /\ \A f \in Editors \ {e} : saves'[f] = saves[f]
    BY <1>1, DoneFacts DEF Rename, Shapes
  <2>2. Shapes'
    BY <1>1, <2>1 DEF Rename, Shapes, TableShape, CallsShape, CallShape
  <2>3. \A c \in Clients : Guarded(call[c])'
    BY <2>1, GuardsKept DEF Rename
  <2>4. overlapped'
    <3>1. CASE ~overlapped
      <4>1. tmp = saves[e].doc
        BY <3>1, OthersIdle DEF Rename, Progress
      <4>2. saves[e].doc # NoDoc
        BY DocFacts DEF Shapes, SavesShape, Rename
      <4> QED BY <1>1, <4>1, <4>2
    <3> QED BY <3>1 DEF Rename
  <2> QED BY <2>2, <2>3, <2>4 DEF Alone
<1>2. CASE tmp # NoDoc
  <2>1. /\ SavesShape' /\ saves'[e].pc = "renamed" /\ saves'[e].doc = saves[e].doc
        /\ \A f \in Editors \ {e} : saves'[f] = saves[f]
    BY <1>2, StepFacts DEF Rename, Shapes
  <2>2. Shapes'
    BY <1>2, <2>1 DEF Rename, Shapes, AnyDoc, TableShape, CallsShape, CallShape
  <2>3. \A c \in Clients : Guarded(call[c])'
    BY <1>2, <2>1, GuardsKept DEF Rename
  <2>4. Alone'
    <3> SUFFICES ASSUME ~overlapped' PROVE Alone'
      BY DEF Alone
    <3>1. /\ \A f \in Editors \ {e} : saves'[f].pc = "idle"
          /\ tmp = saves[e].doc
      BY <1>2, <2>1, OthersIdle DEF Rename, Progress
    <3>2. file' = saves[e].doc
      BY <1>2, <3>1 DEF Rename
    <3> QED BY <2>1, <3>1, <3>2 DEF Alone, Progress
  <2> QED BY <2>2, <2>3, <2>4
<1> QED BY <1>1, <1>2

LEMMA SaveFailsKeeps ==
    ASSUME IInv, NEW e \in Editors, SaveFails(e)
    PROVE  IInv'
<1> USE DEF IInv
<1>1. /\ SavesShape' /\ saves'[e].pc = "idle"
      /\ \A f \in Editors \ {e} : saves'[f] = saves[f]
  BY DoneFacts DEF SaveFails, Shapes
<1>2. Shapes'
  BY <1>1 DEF SaveFails, Shapes, TableShape, CallsShape, CallShape
<1>3. \A c \in Clients : Guarded(call[c])'
  BY <1>1, GuardsKept DEF SaveFails
<1>4. Alone'
  <2> SUFFICES ASSUME ~overlapped' PROVE Alone'
    BY DEF Alone
  <2>1. Settled /\ \A f \in Editors \ {e} : saves'[f].pc = "idle"
    BY <1>1, OthersIdle DEF SaveFails, Progress
  <2>2. Settled'
    BY <2>1 DEF SaveFails, Settled
  <2> QED BY <1>1, <2>1, <2>2 DEF Alone, Progress
<1> QED BY <1>2, <1>3, <1>4

LEMMA ReplaceKeeps ==
    ASSUME IInv, NEW e \in Editors, Replace(e)
    PROVE  IInv'
<1> USE DEF IInv
<1>1. /\ SavesShape' /\ saves'[e].pc = "replaced" /\ saves'[e].doc = saves[e].doc
      /\ \A f \in Editors \ {e} : saves'[f] = saves[f]
  BY StepFacts DEF Replace, Shapes
<1>2. /\ DOMAIN table' = {"routes", "blocked"} /\ table'.blocked = table.blocked
      /\ table'.routes = saves[e].doc.routes
  BY DEF Replace, Shapes, TableShape
<1>3. Shapes'
  BY <1>1, <1>2 DEF Replace, Shapes, TableShape, CallsShape, CallShape
<1>4. \A c \in Clients : Guarded(call[c])'
  BY <1>1, GuardsKept DEF Replace
<1>5. Alone'
  <2> SUFFICES ASSUME ~overlapped' PROVE Alone'
    BY DEF Alone
  <2>1. /\ \A f \in Editors \ {e} : saves'[f].pc = "idle"
        /\ file = saves[e].doc
    BY <1>1, OthersIdle DEF Replace, Progress
  <2> QED BY <1>1, <1>2, <2>1 DEF Alone, Progress, Replace
<1> QED BY <1>3, <1>4, <1>5

LEMMA SetBlockedKeeps ==
    ASSUME IInv, NEW e \in Editors, SetBlocked(e)
    PROVE  IInv'
<1> USE DEF IInv
<1> DEFINE doc == saves[e].doc
<1>1. /\ SavesShape' /\ saves'[e].pc = "idle"
      /\ \A f \in Editors \ {e} : saves'[f] = saves[f]
  BY DoneFacts DEF SetBlocked, Shapes
<1>2. doc \in AnyDoc /\ DOMAIN doc.routes # {}
  BY DEF SetBlocked, Shapes, SavesShape
<1>3. /\ DOMAIN table' = {"routes", "blocked"} /\ table'.blocked = doc.blocked
      /\ table'.routes = table.routes /\ doc.blocked \subseteq Models
  BY <1>2, DocFacts DEF SetBlocked, Shapes, TableShape
<1>4. Shapes'
  BY <1>1, <1>3 DEF SetBlocked, Shapes, TableShape, CallsShape, CallShape
<1>5. \A c \in Clients : Guarded(call[c])'
  BY <1>1, GuardsKept DEF SetBlocked
<1>6. Alone'
  <2> SUFFICES ASSUME ~overlapped' PROVE Alone'
    BY DEF Alone
  <2>1. /\ \A f \in Editors \ {e} : saves'[f].pc = "idle"
        /\ file = doc /\ table.routes = doc.routes
    BY <1>1, OthersIdle DEF SetBlocked, Progress
  <2>2. doc # NoDoc /\ doc # Torn /\ DOMAIN doc = {"routes", "blocked"}
    BY <1>2, DocFacts
  <2>3. table' = doc
    <3>1. doc = [routes |-> doc.routes, blocked |-> doc.blocked]
      BY <1>2, <2>2, IntakeAssumption DEF AnyDoc
    <3>2. table' = [x \in {"routes", "blocked"} |->
                      IF x = "blocked" THEN doc.blocked ELSE table[x]]
      BY DEF SetBlocked, Shapes, TableShape
    <3> QED BY <2>1, <3>1, <3>2
  <2>4. Settled'
    BY <2>1, <2>2, <2>3 DEF Settled, Boot, SetBlocked
  <2> QED BY <1>1, <2>1, <2>4 DEF Alone, Progress
<1> QED BY <1>4, <1>5, <1>6

LEMMA RestartKeeps ==
    ASSUME IInv, Restart
    PROVE  IInv'
<1> USE DEF IInv
<1>1. SavesShape' /\ \A e \in Editors : saves'[e].pc = "idle"
  BY DEF Restart, SavesShape, AnyDoc
<1>2. CallsShape' /\ \A c \in Clients : call'[c].pc = "idle"
  BY DEF Restart, CallsShape, CallShape, NoRequest
<1>3. TableShape' /\ Settled'
  <2>1. ruling'.blocked = table'.blocked
    BY DEF Restart, Boot
  <2> QED BY <2>1, BootFacts DEF Restart, Shapes, TableShape, Settled
<1>4. boots' \in 0..MaxBoots
  BY IntakeAssumption DEF Restart, Shapes
<1>5. Shapes'
  BY <1>1, <1>2, <1>3, <1>4 DEF Restart, Shapes
<1>6. Alone'
  BY <1>1, <1>3 DEF Alone, Progress
<1>7. \A c \in Clients : Guarded(call[c])'
  BY <1>2 DEF Guarded
<1> QED BY <1>5, <1>6, <1>7

\* A step of a request touches nothing else.
LEMMA RequestKeeps ==
    ASSUME IInv, UNCHANGED <<routeVars, registered, env, boots>>, NEW c \in Clients,
           NEW x, call' = [call EXCEPT ![c] = x], CallShape(x), Guarded(x)
    PROVE  IInv'
<1> USE DEF IInv, routeVars
<1>1. \A d \in Clients : call'[d] = IF d = c THEN x ELSE call[d]
  BY DEF Shapes, CallsShape
<1>2. CallsShape'
  BY <1>1 DEF Shapes, CallsShape, CallShape
<1>3. \A d \in Clients : Guarded(call[d])'
  BY <1>1 DEF Guarded
<1>4. Alone'
  BY DEF Alone, Settled, Progress
<1>5. Shapes'
  BY <1>2 DEF Shapes, TableShape, SavesShape
<1> QED BY <1>3, <1>4, <1>5

\* However a request is shaped, what is recorded of it is a sent or a refused one.
LEMMA ServeFacts ==
    ASSUME IInv, UNCHANGED <<routeVars, registered, env, boots>>, NEW c \in Clients,
           call[c].pc \in {"parsed", "allowed"},
           NEW family \in registered \cup {BuiltIn}, Serve(c, family),
           call[c].request.explicit \in registered \/ call[c].wasOpen
    PROVE  IInv'
<1> DEFINE r == call[c].request
           p == Profiles[family]
           shaped == PreparePipeline(call[c].msgs, r.tool = "agentic", p, env.chain, env.media)
           out == BuildUpstreamMessages(shaped, p, r.tool # "none", r.known)
           sent == [pc |-> "sent", request |-> r, model |-> r.model, msgs |-> call[c].msgs,
                    wasOpen |-> call[c].wasOpen, family |-> family, out |-> out]
<1>1. call' = [call EXCEPT ![c] = IF r.proto \notin p.protocols THEN [pc |-> "refused"] ELSE sent]
  BY DEF Serve
<1>2. CASE r.proto \notin p.protocols
  <2>1. CallShape([pc |-> "refused"]) /\ Guarded([pc |-> "refused"])
    BY DEF CallShape, Guarded
  <2> QED BY <1>1, <1>2, <2>1, RequestKeeps
<1>3. CASE r.proto \in p.protocols
  <2> HIDE DEF out
  <2>1. /\ sent.pc = "sent" /\ sent.family = family /\ sent.request = r
        /\ sent.wasOpen = call[c].wasOpen
    OBVIOUS
  <2> HIDE DEF sent
  <2>2. CallShape(sent) /\ Guarded(sent)
    BY <2>1 DEF CallShape, Guarded
  <2> QED BY <1>1, <1>3, <2>2, RequestKeeps
<1> QED BY <1>2, <1>3

LEMMA ArriveKeeps ==
    ASSUME IInv, NEW c \in Clients, NEW r, Arrive(c, r)
    PROVE  IInv'
<1> DEFINE open == \/ r.model \notin ruling.blocked
                   \/ \E e \in Busy : r.model \notin saves[e].doc.blocked
           arrived == [pc |-> "parsed", request |-> r, model |-> r.model, msgs |-> Parsed(r),
                       wasOpen |-> open]
<1>1. /\ UNCHANGED <<routeVars, registered, env, boots>>
      /\ \/ call' = [call EXCEPT ![c] = [pc |-> "refused"]]
         \/ call' = [call EXCEPT ![c] = arrived]
  BY DEF Arrive
<1>2. CallShape([pc |-> "refused"]) /\ Guarded([pc |-> "refused"])
  BY DEF CallShape, Guarded
<1>3. /\ arrived.pc = "parsed" /\ DOMAIN arrived = Pending
      /\ arrived.model = r.model /\ arrived.wasOpen = open
  BY DEF Pending
<1>4. CallShape(arrived) /\ Guarded(arrived)
  <2>1. open \in BOOLEAN
    OBVIOUS
  <2> HIDE DEF arrived
  <2>2. ~open => /\ r.model \in ruling.blocked
                 /\ \A e \in Editors : saves[e].pc # "idle" => r.model \in saves[e].doc.blocked
    BY DEF Busy
  <2> QED BY <1>3, <2>1, <2>2 DEF CallShape, Guarded
<1> QED BY <1>1, <1>2, <1>4, RequestKeeps

LEMMA CheckBlockedKeeps ==
    ASSUME IInv, NEW c \in Clients, CheckBlocked(c)
    PROVE  IInv'
<1> DEFINE on == [call[c] EXCEPT !.pc = "allowed"]
<1>1. CallShape([pc |-> "refused"]) /\ Guarded([pc |-> "refused"])
  BY DEF CallShape, Guarded
<1>2. CASE call[c].model \in table.blocked
  <2>1. call' = [call EXCEPT ![c] = [pc |-> "refused"]]
    BY <1>2 DEF CheckBlocked
  <2> QED BY <1>1, <2>1, RequestKeeps DEF CheckBlocked
<1>3. CASE call[c].model \notin table.blocked
  <2>1. call' = [call EXCEPT ![c] = on]
    BY <1>3 DEF CheckBlocked
  <2>2. /\ on.pc = "allowed" /\ DOMAIN on = Pending /\ on.wasOpen = call[c].wasOpen
        /\ call[c].wasOpen \in BOOLEAN
    BY DEF CheckBlocked, IInv, Shapes, CallsShape, CallShape, Pending
  <2>3. call[c].wasOpen
    BY <1>3 DEF CheckBlocked, IInv, Guarded, Shapes, TableShape, CallsShape, CallShape
  <2> HIDE DEF on
  <2>4. CallShape(on) /\ Guarded(on)
    BY <2>2, <2>3 DEF CallShape, Guarded
  <2> QED BY <2>1, <2>4, RequestKeeps DEF CheckBlocked
<1> QED BY <1>2, <1>3

\* What the table names is served by a profile that is there, or the built-in one.
LEMMA LookUpKeeps ==
    ASSUME IInv, NEW c \in Clients, LookUp(c)
    PROVE  IInv'
<1> DEFINE named == FamilyOf(call[c].model)
           family == IF named \in registered THEN named ELSE BuiltIn
<1>1. family \in registered \cup {BuiltIn}
  OBVIOUS
<1>2. call[c].pc = "allowed" /\ Serve(c, family)
      /\ UNCHANGED <<routeVars, registered, env, boots>>
  BY DEF LookUp
<1>3. call[c].wasOpen
  BY <1>2 DEF IInv, Guarded
<1> HIDE DEF family
<1> QED BY <1>1, <1>2, <1>3, ServeFacts

LEMMA StepKeeps == IInv /\ [IntakeNext]_intakeVars => IInv'
<1> SUFFICES ASSUME IInv, [IntakeNext]_intakeVars PROVE IInv'
  OBVIOUS
<1>1. ASSUME NEW e \in Editors, NEW doc \in Docs, BeginSave(e, doc) PROVE IInv'
  BY <1>1, BeginSaveKeeps
<1>2. ASSUME NEW e \in Editors,
             Write(e) \/ Rename(e) \/ SaveFails(e) \/ Replace(e) \/ SetBlocked(e)
      PROVE  IInv'
  BY <1>2, WriteKeeps, RenameKeeps, SaveFailsKeeps, ReplaceKeeps, SetBlockedKeeps
<1>3. CASE Restart
  BY <1>3, RestartKeeps
<1>4. ASSUME NEW c \in Clients, NEW r, Arrive(c, r) PROVE IInv'
  BY <1>4, ArriveKeeps
<1>5. ASSUME NEW c \in Clients, ResolveExplicit(c) PROVE IInv'
  BY <1>5, ServeFacts DEF ResolveExplicit
<1>6. ASSUME NEW c \in Clients, CheckBlocked(c) \/ LookUp(c) PROVE IInv'
  BY <1>6, CheckBlockedKeeps, LookUpKeeps
<1>7. ASSUME NEW c \in Clients, Leave(c) PROVE IInv'
  <2>1. CallShape(NoRequest) /\ Guarded(NoRequest)
    BY DEF CallShape, Guarded, NoRequest
  <2> QED BY <1>7, <2>1, RequestKeeps DEF Leave
<1>8. CASE UNCHANGED intakeVars
  BY <1>8 DEF intakeVars, routeVars, IInv, Shapes, TableShape, SavesShape, CallsShape, CallShape,
              Alone, Settled, Progress, Guarded
<1> QED
  BY <1>1, <1>2, <1>3, <1>4, <1>5, <1>6, <1>7, <1>8 DEF IntakeNext

LEMMA IntakeInductive == IntakeSpec => []IInv
<1> QED BY IntakeStarts, StepKeeps, PTL DEF IntakeSpec

-----------------------------------------------------------------------------
(* Induction over the numbers up to n, and recursion over them: the library's *)
(* theorems about both take operators, these take sets and functions.        *)

\* A set of numbers that holds 0, and k whenever it holds k - 1, holds all up to n.
LEMMA UpTo ==
    ASSUME NEW n \in Nat, NEW T, 0 \in T,
           \A k \in 1 .. n : k - 1 \in T => k \in T
    PROVE  0 .. n \subseteq T
<1> DEFINE R == (0 .. n) \ T
<1>1. SUFFICES ASSUME R # {} PROVE FALSE
  OBVIOUS
<1>2. R \subseteq Nat
  OBVIOUS
<1>3. PICK k \in R : \A e \in R : ~(<<e, k>> \in OpToRel(<, Nat))
  <2> HIDE DEF R
  <2> QED BY <1>1, <1>2, NatLessThanWellFounded, WFMin
<1>4. k \in 1 .. n /\ k - 1 \in 0 .. n
  OBVIOUS
<1>5. k - 1 \notin R
  <2>1. k - 1 < k /\ k - 1 \in Nat /\ k \in Nat
    BY <1>4
  <2>2. <<k - 1, k>> \in OpToRel(<, Nat)
    BY <2>1 DEF OpToRel
  <2> QED BY <1>3, <2>2
<1> QED BY <1>4, <1>5

\* Some of the first n positions have a first one
LEMMA FirstPosition ==
    ASSUME NEW n \in Nat, NEW T \in SUBSET (1 .. n), T # {}
    PROVE  \E i \in T : \A j \in T : i <= j
<1> DEFINE R == {k \in 0 .. n : \A j \in T : j > k}
<1>1. SUFFICES ASSUME ~\E i \in T : \A j \in T : i <= j PROVE FALSE
  OBVIOUS
<1>2. 0 \in R
  OBVIOUS
<1>3. ASSUME NEW k \in 1 .. n, k - 1 \in R PROVE k \in R
  <2>1. \A j \in T : j >= k
    BY <1>3
  <2>2. k \notin T
    BY <1>1, <2>1
  <2> QED BY <2>1, <2>2
<1>4. 0 .. n \subseteq R
  <2> HIDE DEF R
  <2> QED BY <1>2, <1>3, UpTo
<1>5. n \in R
  <2>1. n \in 0 .. n
    OBVIOUS
  <2> HIDE DEF R
  <2> QED BY <1>4, <2>1
<1>6. PICK j \in T : TRUE
  OBVIOUS
<1>7. j > n /\ j <= n /\ j \in Nat
  BY <1>5, <1>6
<1> QED BY <1>7

\* ... and a last one.
LEMMA LastPosition ==
    ASSUME NEW n \in Nat, NEW T \in SUBSET (1 .. n), T # {}
    PROVE  \E i \in T : \A j \in T : j <= i
<1> DEFINE U == {k \in 1 .. n : n + 1 - k \in T}
<1>1. U \in SUBSET (1 .. n) /\ U # {}
  <2>1. PICK i \in T : TRUE
    OBVIOUS
  <2>2. n + 1 - i \in 1 .. n /\ n + 1 - (n + 1 - i) = i
    OBVIOUS
  <2> QED BY <2>1, <2>2
<1>2. PICK k \in U : \A j \in U : k <= j
  <2> HIDE DEF U
  <2> QED BY <1>1, FirstPosition
<1>3. ASSUME NEW j \in T PROVE j <= n + 1 - k
  <2>1. n + 1 - j \in 1 .. n /\ n + 1 - (n + 1 - j) = j
    OBVIOUS
  <2>2. k <= n + 1 - j
    BY <1>2, <2>1
  <2> QED BY <2>2
<1> QED BY <1>2, <1>3

\* The largest of some of the first n positions.
LEMMA MaxIs ==
    ASSUME NEW n \in Nat, NEW S \in SUBSET (1 .. n), S # {}
    PROVE  Max(S) \in S /\ \A j \in S : j <= Max(S)
<1>1. PICK i \in S : \A j \in S : j <= i
  BY LastPosition
<1>2. \A j \in S : i >= j
  BY <1>1
<1>3. \E x \in S : \A y \in S : x >= y
  BY <1>2
<1> DEFINE mx == CHOOSE x \in S : \A y \in S : x >= y
<1>4. mx \in S /\ \A y \in S : mx >= y
  BY <1>3
<1>5. Max(S) = mx
  BY DEF Max
<1> HIDE DEF mx
<1> QED BY <1>4, <1>5

\* Folding goes through the sets of positions; this is the step g takes there.
Stepped(n, base, g, h) ==
    h = [S \in SUBSET (1 .. n) |->
            IF S = {} THEN base ELSE g[<<h[S \ {Max(S)}], Max(S)>>]]

\* The function that folds step g over the positions of a sequence of length n exists.
LEMMA FoldExists ==
    ASSUME NEW n \in Nat, NEW A, NEW base \in A, NEW g \in [A \X (1 .. n) -> A]
    PROVE  \E h \in [SUBSET (1 .. n) -> A] : Stepped(n, base, g, h)
<1> DEFINE T == {k \in 0 .. n : \E h \in [SUBSET (1 .. k) -> A] : Stepped(k, base, g, h)}
<1>1. 0 \in T
  <2>1. SUBSET (1 .. 0) = {{}}
    OBVIOUS
  <2> DEFINE h == [S \in SUBSET (1 .. 0) |-> base]
  <2>2. h \in [SUBSET (1 .. 0) -> A] /\ Stepped(0, base, g, h)
    BY <2>1 DEF Stepped
  <2> HIDE DEF h
  <2>3. \E f \in [SUBSET (1 .. 0) -> A] : Stepped(0, base, g, f)
    BY <2>2
  <2>4. 0 \in 0 .. n
    OBVIOUS
  <2> QED BY <2>3, <2>4, Zenon
<1>2. ASSUME NEW k \in 1 .. n, k - 1 \in T PROVE k \in T
  <2>1. PICK h \in [SUBSET (1 .. (k - 1)) -> A] : Stepped(k - 1, base, g, h)
    BY <1>2
  <2> DEFINE h2 == [S \in SUBSET (1 .. k) |->
                      IF k \in S THEN g[<<h[S \ {k}], k>>] ELSE h[S]]
  <2>2. ASSUME NEW S \in SUBSET (1 .. k)
        PROVE  /\ S \ {k} \in SUBSET (1 .. (k - 1))
               /\ k \in S => Max(S) = k
               /\ k \notin S => S \in SUBSET (1 .. (k - 1))
    <3>1. \A x \in 1 .. k : x # k => x \in 1 .. (k - 1)
      OBVIOUS
    <3>2. k \in S => Max(S) = k
      <4> SUFFICES ASSUME k \in S PROVE Max(S) = k
        OBVIOUS
      <4>0. k \in Nat /\ S # {}
        OBVIOUS
      <4>1. Max(S) \in S /\ \A j \in S : j <= Max(S)
        BY <4>0, MaxIs
      <4>2. Max(S) \in 1 .. k /\ k <= Max(S)
        BY <4>1
      <4> QED BY <4>2
    <3> QED BY <3>1, <3>2
  <2>3. h2 \in [SUBSET (1 .. k) -> A]
    <3> SUFFICES ASSUME NEW S \in SUBSET (1 .. k)
                 PROVE  (IF k \in S THEN g[<<h[S \ {k}], k>>] ELSE h[S]) \in A
      OBVIOUS
    <3> QED BY <2>2
  <2>4. ASSUME NEW S \in SUBSET (1 .. k)
        PROVE  h2[S] = IF S = {} THEN base ELSE g[<<h2[S \ {Max(S)}], Max(S)>>]
    <3>1. CASE k \in S
      <4>1. h2[S] = g[<<h[S \ {k}], k>>]
        BY <3>1
      <4>2. h2[S \ {k}] = h[S \ {k}]
        OBVIOUS
      <4> HIDE DEF h2
      <4> QED BY <2>2, <3>1, <4>1, <4>2
    <3>2. CASE k \notin S
      <4>1. h2[S] = h[S] /\ S \in SUBSET (1 .. (k - 1))
        BY <2>2, <3>2
      <4>2. h2[S \ {Max(S)}] = h[S \ {Max(S)}]
        BY <3>2
      <4>3. h[S] = IF S = {} THEN base ELSE g[<<h[S \ {Max(S)}], Max(S)>>]
        BY <2>1, <4>1 DEF Stepped
      <4> HIDE DEF h2
      <4> QED BY <4>1, <4>2, <4>3
    <3> QED BY <3>1, <3>2
  <2>5. Stepped(k, base, g, h2)
    <3>1. h2 = [S \in SUBSET (1 .. k) |-> h2[S]]
      OBVIOUS
    <3> HIDE DEF h2
    <3> QED BY <2>4, <3>1 DEF Stepped
  <2> HIDE DEF h2
  <2> QED BY <2>3, <2>5
<1>3. n \in 0 .. n
  OBVIOUS
<1>4. 0 .. n \subseteq T
  <2> HIDE DEF T
  <2> QED BY <1>1, <1>2, UpTo
<1>5. n \in T
  BY <1>3, <1>4
<1> QED BY <1>5

\* The last of the first k positions is k, and without it the first k - 1 are left.
LEMMA MaxUpTo == ASSUME NEW k \in Nat, k # 0
                 PROVE  Max(1 .. k) = k /\ (1 .. k) \ {k} = 1 .. (k - 1)
<1>0. 1 .. k \in SUBSET (1 .. k) /\ 1 .. k # {} /\ k \in 1 .. k
  OBVIOUS
<1>1. Max(1 .. k) \in 1 .. k /\ \A j \in 1 .. k : j <= Max(1 .. k)
  BY <1>0, MaxIs
<1> QED BY <1>0, <1>1

-----------------------------------------------------------------------------
(* Words, texts and messages, and folding over the parts of a message.     *)

\* A word of a text: one a client sends, or one of the marks the code itself writes.
\* The provers do not take a literal for a string, so that the marks are listed.
Word == STRING \cup {"-", "", "system", "assistant", "user", "tool", "data", "[oversize]",
                     "[image]", "[file]", "[cut]", "[summary]", "[tools]", "[unreachable]",
                     "t~rigger", "c~laude", "[neutral]", "[assistant]", "developer"}
Text == Seq(Word)
Message == [role : Word, text : Text, calls : Text, callId : Word,
            images : Text, deferred : Text]
Part == [type : {"text"}, text : Text] \cup [type : {"image"}, image : Word]

\* What the code itself writes into a message is a word.
LEMMA MarksAreWords ==
    /\ "-" \in Word /\ "" \in Word /\ "system" \in Word /\ "assistant" \in Word
    /\ "user" \in Word /\ "tool" \in Word /\ "data" \in Word /\ "[oversize]" \in Word
    /\ "[image]" \in Word /\ "[file]" \in Word /\ "[cut]" \in Word
    /\ "[summary]" \in Word /\ "[tools]" \in Word /\ "[unreachable]" \in Word
    /\ "t~rigger" \in Word /\ "c~laude" \in Word /\ "[neutral]" \in Word
    /\ "[assistant]" \in Word /\ "developer" \in Word
BY DEF Word

\* Texts are closed under what the code does with them.
LEMMA TextFacts ==
    /\ <<>> \in Text /\ \A w \in Word : <<w>> \in Text
    /\ \A t \in Text, w \in Word : Append(t, w) \in Text
    /\ \A t, u \in Text : t \o u \in Text
BY DEF Text

\* What a fold keeps at every position holds of its result.
LEMMA FoldIn ==
    ASSUME NEW n \in Nat, NEW A, NEW h, h[{}] \in A,
           \A S \in SUBSET (1 .. n) : S # {} /\ h[S \ {Max(S)}] \in A => h[S] \in A
    PROVE  h[1 .. n] \in A
<1> DEFINE T == {k \in 0 .. n : h[1 .. k] \in A}
<1>1. 0 \in T
  OBVIOUS
<1>2. ASSUME NEW k \in 1 .. n, k - 1 \in T PROVE k \in T
  <2>1. Max(1 .. k) = k /\ (1 .. k) \ {k} = 1 .. (k - 1)
    BY MaxUpTo
  <2>2. 1 .. k \in SUBSET (1 .. n) /\ 1 .. k # {}
    OBVIOUS
  <2>3. h[1 .. (k - 1)] \in A
    BY <1>2
  <2>4. h[1 .. k] \in A
    BY <2>1, <2>2, <2>3
  <2> QED BY <2>4
<1>3. 0 .. n \subseteq T
  <2> HIDE DEF T
  <2> QED BY <1>1, <1>2, UpTo
<1>4. n \in T
  BY <1>3
<1> QED BY <1>4

\* A message starts out blank.
LEMMA BlankIs == \A role \in Word : Blank(role) \in Message
BY MarksAreWords, TextFacts DEF Blank, Message, NoCall

\* A message of which one field is written anew is a message.
LEMMA Rewritten ==
    ASSUME NEW m \in Message, NEW t \in Text, NEW w \in Word
    PROVE  /\ [m EXCEPT !.text = t] \in Message /\ [m EXCEPT !.calls = t] \in Message
           /\ [m EXCEPT !.images = t] \in Message /\ [m EXCEPT !.deferred = t] \in Message
           /\ [m EXCEPT !.role = w] \in Message /\ [m EXCEPT !.callId = w] \in Message
           /\ m.text \in Text /\ m.calls \in Text /\ m.images \in Text /\ m.deferred \in Text
           /\ m.role \in Word /\ m.callId \in Word
BY DEF Message

\* Attaching an image, or deferring it, leaves a message (appendImage).
LEMMA Attaching ==
    ASSUME NEW m \in Message, NEW image \in Word
    PROVE  AppendImage(m, image) \in Message /\ AppendSource(m, image) \in Message
<1>1. Refusal(image) \in Word
  BY MarksAreWords DEF Refusal
<1>2. Defer(m, Refusal(image)) \in Message /\ Defer(m, "[image]") \in Message
  BY <1>1, MarksAreWords, TextFacts, Rewritten DEF Defer
<1>3. Attach(m, image) \in Message
  BY <1>2, TextFacts, Rewritten DEF Attach
<1> QED BY <1>2, <1>3 DEF AppendImage, AppendSource

\* So does taking one part of the content
LEMMA PartTaken ==
    ASSUME NEW m \in Message, NEW part \in Part
    PROVE  TakePart(m, part) \in Message /\ TakeResultPart(m, part) \in Message
<1>1. CASE part \in [type : {"text"}, text : Text]
  <2>1. part.text \in Text /\ part.type = "text"
    BY <1>1
  <2>2. m.text \o part.text \in Text
    BY <2>1, TextFacts, Rewritten, MarksAreWords
  <2>3. [m EXCEPT !.text = m.text \o part.text] \in Message
    BY <2>2, Rewritten, MarksAreWords
  <2> QED BY <2>1, <2>3 DEF TakePart, TakeResultPart
<1>2. CASE part \in [type : {"image"}, image : Word]
  <2>1. part.image \in Word /\ part.type = "image"
    BY <1>2
  <2> QED BY <2>1, Attaching DEF TakePart, TakeResultPart
<1> QED BY <1>1, <1>2 DEF Part

\* ... and all of them (parseMessage).
LEMMA PartsTaken ==
    ASSUME NEW m \in Message, NEW parts \in Seq(Part)
    PROVE  FoldLeft(TakePart, m, parts) \in Message
<1> DEFINE n == Len(parts)
           g == [x \in Message \X (1 .. n) |-> TakePart(x[1], parts[x[2]])]
           Is(h) == h = [S \in SUBSET DOMAIN parts |->
                           IF S = {} THEN m ELSE TakePart(h[S \ {Max(S)}], parts[Max(S)])]
           f == CHOOSE h : Is(h)
<1>0. n \in Nat /\ DOMAIN parts = 1 .. n
  OBVIOUS
<1>1. ASSUME NEW a \in Message, NEW k \in 1 .. n PROVE TakePart(a, parts[k]) \in Message
  BY PartTaken
<1>2. g \in [Message \X (1 .. n) -> Message]
  BY <1>1
<1>3. PICK h \in [SUBSET (1 .. n) -> Message] : Stepped(n, m, g, h)
  <2> HIDE DEF g
  <2> QED BY <1>0, <1>2, FoldExists
<1>4. Is(h)
  <2>1. \A S \in SUBSET (1 .. n) : S # {} => Max(S) \in 1 .. n /\ S \ {Max(S)} \in SUBSET (1 .. n)
    BY <1>0, MaxIs
  <2>2. \A S \in SUBSET (1 .. n) : S # {} =>
          g[<<h[S \ {Max(S)}], Max(S)>>] = TakePart(h[S \ {Max(S)}], parts[Max(S)])
    BY <2>1
  <2> HIDE DEF g
  <2> QED BY <1>0, <1>3, <2>2 DEF Stepped
<1>5. Is(f)
  BY <1>4
<1>6. f[1 .. n] \in Message
  <2>1. f[{}] = m
    BY <1>5
  <2>2. \A S \in SUBSET (1 .. n) : S # {} =>
           f[S] = TakePart(f[S \ {Max(S)}], parts[Max(S)]) /\ Max(S) \in 1 .. n
    BY <1>0, <1>5, MaxIs
  <2> HIDE DEF f, Is, g
  <2>3. \A S \in SUBSET (1 .. n) : S # {} /\ f[S \ {Max(S)}] \in Message => f[S] \in Message
    BY <1>1, <2>2
  <2>4. f[{}] \in Message
    BY <2>1
  <2> QED BY <1>0, <2>3, <2>4, FoldIn
<1>7. FoldLeft(TakePart, m, parts) = f[DOMAIN parts]
  BY DEF FoldLeft, MapThenFoldSet
<1> HIDE DEF f
<1> QED BY <1>0, <1>6, <1>7

-----------------------------------------------------------------------------
(* What a filter keeps.                                                    *)

\* Where the elements of kept come from among the first k of s.
Places(kept, s, I, k) ==
    \E p \in [1 .. Len(kept) -> 1 .. k] :
        /\ \A j \in 1 .. Len(kept) : p[j] \in I /\ kept[j] = s[p[j]]
        /\ \A i, j \in 1 .. Len(kept) : i < j => p[i] < p[j]
        /\ \A i \in I : i <= k => \E j \in 1 .. Len(kept) : p[j] = i

\* Keep leaves the elements at the positions I, in order, and no others.
LEMMA KeepIs ==
    ASSUME NEW A, NEW s \in Seq(A), NEW I \in SUBSET (1 .. Len(s))
    PROVE  Keep(s, I) \in Seq(A) /\ Places(Keep(s, I), s, I, Len(s))
<1> DEFINE n == Len(s)
           g == [x \in Seq(A) \X (1 .. n) |->
                    IF x[2] \in I THEN Append(x[1], s[x[2]]) ELSE x[1]]
           here == [i \in DOMAIN s |-> i]
           Is(h) == h = [S \in SUBSET DOMAIN here |->
                           IF S = {} THEN <<>>
                           ELSE IF here[Max(S)] \in I THEN Append(h[S \ {Max(S)}], s[here[Max(S)]])
                                ELSE h[S \ {Max(S)}]]
           f == CHOOSE h : Is(h)
<1>0. n \in Nat /\ DOMAIN s = 1 .. n /\ DOMAIN here = 1 .. n /\ \A i \in 1 .. n : here[i] = i
  OBVIOUS
<1>1. g \in [Seq(A) \X (1 .. n) -> Seq(A)] /\ <<>> \in Seq(A)
  OBVIOUS
<1>2. PICK h \in [SUBSET (1 .. n) -> Seq(A)] : Stepped(n, <<>>, g, h)
  <2> HIDE DEF g
  <2> QED BY <1>0, <1>1, FoldExists
<1>3. Is(h)
  <2>1. \A S \in SUBSET (1 .. n) : S # {} => Max(S) \in 1 .. n /\ S \ {Max(S)} \in SUBSET (1 .. n)
    BY <1>0, MaxIs
  <2>2. \A S \in SUBSET (1 .. n) : S # {} =>
          g[<<h[S \ {Max(S)}], Max(S)>>] =
             IF Max(S) \in I THEN Append(h[S \ {Max(S)}], s[Max(S)]) ELSE h[S \ {Max(S)}]
    BY <2>1
  <2>3. \A S \in SUBSET (1 .. n) : S # {} => here[Max(S)] = Max(S)
    BY <1>0, <2>1
  <2>4. h = [S \in SUBSET (1 .. n) |-> IF S = {} THEN <<>> ELSE g[<<h[S \ {Max(S)}], Max(S)>>]]
    BY <1>2 DEF Stepped
  <2> HIDE DEF g, here
  <2>5. \A S \in SUBSET DOMAIN here :
           h[S] = IF S = {} THEN <<>>
                  ELSE IF here[Max(S)] \in I THEN Append(h[S \ {Max(S)}], s[here[Max(S)]])
                       ELSE h[S \ {Max(S)}]
    <3> SUFFICES ASSUME NEW S \in SUBSET (1 .. n)
                 PROVE  h[S] = IF S = {} THEN <<>>
                               ELSE IF here[Max(S)] \in I
                                    THEN Append(h[S \ {Max(S)}], s[here[Max(S)]])
                                    ELSE h[S \ {Max(S)}]
      BY <1>0
    <3>1. h[S] = IF S = {} THEN <<>> ELSE g[<<h[S \ {Max(S)}], Max(S)>>]
      BY <2>4
    <3> QED BY <2>2, <2>3, <3>1
  <2>6. h = [S \in SUBSET DOMAIN here |-> h[S]]
    BY <1>0, <2>4
  <2> QED BY <2>5, <2>6
<1>4. Is(f)
  BY <1>3
<1>5. f[{}] = <<>> /\ \A k \in 1 .. n :
        f[1 .. k] = IF k \in I THEN Append(f[1 .. (k - 1)], s[k]) ELSE f[1 .. (k - 1)]
  <2>1. f[{}] = <<>>
    BY <1>0, <1>4
  <2>2. ASSUME NEW k \in 1 .. n
        PROVE  f[1 .. k] = IF k \in I THEN Append(f[1 .. (k - 1)], s[k]) ELSE f[1 .. (k - 1)]
    <3>1. Max(1 .. k) = k /\ (1 .. k) \ {k} = 1 .. (k - 1) /\ 1 .. k # {}
      BY MaxUpTo
    <3>2. 1 .. k \in SUBSET DOMAIN here /\ here[k] = k
      BY <1>0
    <3> HIDE DEF f, here
    <3>3. f[1 .. k] = IF here[k] \in I THEN Append(f[1 .. (k - 1)], s[here[k]])
                      ELSE f[1 .. (k - 1)]
      BY <1>4, <3>1, <3>2
    <3> QED BY <3>2, <3>3
  <2> HIDE DEF f
  <2> QED BY <2>1, <2>2
<1> HIDE DEF f
<1> DEFINE T == {k \in 0 .. n : f[1 .. k] \in Seq(A) /\ Places(f[1 .. k], s, I, k)}
<1>6. 0 \in T
  <2>1. 1 .. 0 = {} /\ f[1 .. 0] = <<>> /\ Len(<<>>) = 0
    BY <1>5
  <2>2. /\ [i \in {} |-> 0] \in [1 .. 0 -> 1 .. 0]
        /\ \A i \in I : ~(i <= 0)
    BY <2>1
  <2>3. Places(<<>>, s, I, 0)
    BY <2>1, <2>2 DEF Places
  <2>4. 0 \in 0 .. n /\ <<>> \in Seq(A)
    BY <1>0
  <2> QED BY <2>1, <2>3, <2>4
<1>7. ASSUME NEW k \in 1 .. n, k - 1 \in T PROVE k \in T
  <2> DEFINE a == f[1 .. (k - 1)]
  <2>0. a \in Seq(A) /\ Places(a, s, I, k - 1)
    BY <1>7
  <2>1. PICK p \in [1 .. Len(a) -> 1 .. (k - 1)] :
        /\ \A j \in 1 .. Len(a) : p[j] \in I /\ a[j] = s[p[j]]
        /\ \A i, j \in 1 .. Len(a) : i < j => p[i] < p[j]
        /\ \A i \in I : i <= k - 1 => \E j \in 1 .. Len(a) : p[j] = i
    BY <2>0 DEF Places
  <2> HIDE DEF a
  <2>2. CASE k \notin I
    <3>1. p \in [1 .. Len(a) -> 1 .. k]
      OBVIOUS
    <3>2. \A i \in I : i <= k => i <= k - 1
      BY <2>2
    <3>3. Places(a, s, I, k)
      BY <2>1, <3>1, <3>2 DEF Places
    <3> QED BY <1>5, <2>0, <2>2, <3>3 DEF a
  <2>3. CASE k \in I
    <3> DEFINE b == Append(a, s[k])
               q == [j \in 1 .. Len(b) |-> IF j = Len(b) THEN k ELSE p[j]]
    <3>1. /\ b \in Seq(A) /\ Len(b) = Len(a) + 1 /\ b[Len(b)] = s[k]
          /\ \A j \in 1 .. Len(a) : b[j] = a[j]
      BY <1>0, <2>0
    <3>2. Len(a) \in Nat
      BY <2>0
    <3> HIDE DEF b
    <3>3. q \in [1 .. Len(b) -> 1 .. k]
      BY <3>1, <3>2
    <3>4. \A j \in 1 .. Len(b) : q[j] \in I /\ b[j] = s[q[j]]
      BY <2>1, <2>3, <3>1, <3>2
    <3>5. \A i, j \in 1 .. Len(b) : i < j => q[i] < q[j]
      BY <2>1, <3>1, <3>2
    <3>6. \A i \in I : i <= k => \E j \in 1 .. Len(b) : q[j] = i
      <4> SUFFICES ASSUME NEW i \in I, i <= k PROVE \E j \in 1 .. Len(b) : q[j] = i
        OBVIOUS
      <4>1. CASE i = k
        <5>1. Len(b) \in 1 .. Len(b) /\ q[Len(b)] = k
          BY <3>1, <3>2
        <5> QED BY <4>1, <5>1
      <4>2. CASE i # k
        <5>1. PICK j \in 1 .. Len(a) : p[j] = i
          BY <2>1, <4>2
        <5>2. j \in 1 .. Len(b) /\ q[j] = i
          BY <3>1, <3>2, <5>1
        <5> QED BY <5>2
      <4> QED BY <4>1, <4>2
    <3> HIDE DEF q
    <3>7. Places(b, s, I, k)
      BY <3>3, <3>4, <3>5, <3>6 DEF Places
    <3>8. f[1 .. k] = b
      BY <1>5, <2>3 DEF a, b
    <3> QED BY <3>1, <3>7, <3>8
  <2> QED BY <2>2, <2>3
<1>8. 0 .. n \subseteq T
  <2> HIDE DEF T
  <2> QED BY <1>0, <1>6, <1>7, UpTo
<1>9. n \in T
  BY <1>0, <1>8
<1>10. Keep(s, I) = f[DOMAIN here]
  BY DEF Keep, FoldLeftDomain, FoldLeft, MapThenFoldSet, f
<1> QED BY <1>0, <1>9, <1>10

-----------------------------------------------------------------------------
(* Extending the tail of a conversation until its results are answered.    *)

\* Stepping down from positions outside D until one in D is reached.
Descending(n, D, nxt) == \A t \in 1 .. n : t \notin D => nxt[t] \in 1 .. (t - 1)
Descends(f, n, D, nxt) == f = [t \in 1 .. n |-> IF t \in D THEN t ELSE f[nxt[t]]]

\* A function that is defined by stepping down until a good position is reached.
LEMMA DescentExists ==
    ASSUME NEW n \in Nat, NEW D, NEW nxt, Descending(n, D, nxt)
    PROVE  \E f : Descends(f, n, D, nxt)
<1> USE DEF Descending
<1> DEFINE Good(f, k) == f = [t \in 1 .. k |-> f[t]]
                         /\ \A t \in 1 .. k : f[t] = IF t \in D THEN t ELSE f[nxt[t]]
           T == {k \in 0 .. n : \E f : Good(f, k)}
<1>1. 0 \in T
  <2>1. Good([t \in {} |-> t], 0)
    OBVIOUS
  <2> HIDE DEF Good
  <2> QED BY <2>1
<1>2. ASSUME NEW k \in 1 .. n, k - 1 \in T PROVE k \in T
  <2>1. PICK f : Good(f, k - 1)
    BY <1>2
  <2> DEFINE h == [t \in 1 .. k |-> IF t = k THEN IF k \in D THEN k ELSE f[nxt[k]] ELSE f[t]]
  <2>2. \A t \in 1 .. (k - 1) : h[t] = f[t]
    OBVIOUS
  <2>3. h[k] = IF k \in D THEN k ELSE f[nxt[k]]
    OBVIOUS
  <2>4. h = [t \in 1 .. k |-> h[t]]
    OBVIOUS
  <2> HIDE DEF h
  <2>5. ASSUME NEW t \in 1 .. k PROVE h[t] = IF t \in D THEN t ELSE h[nxt[t]]
    <3>1. t \notin D => nxt[t] \in 1 .. (t - 1) /\ nxt[t] \in 1 .. (k - 1)
      OBVIOUS
    <3>2. CASE t = k
      BY <2>2, <2>3, <3>1, <3>2
    <3>3. CASE t # k
      <4>1. t \in 1 .. (k - 1)
        BY <3>3
      <4>2. f[t] = IF t \in D THEN t ELSE f[nxt[t]]
        BY <2>1, <4>1
      <4> QED BY <2>2, <3>1, <4>1, <4>2
    <3> QED BY <3>2, <3>3
  <2>6. Good(h, k)
    BY <2>4, <2>5
  <2> HIDE DEF Good
  <2> QED BY <2>6
<1>3. 0 .. n \subseteq T
  <2> HIDE DEF T
  <2> QED BY <1>1, <1>2, UpTo
<1>4. n \in T
  BY <1>3
<1>5. PICK f : Good(f, n)
  BY <1>4
<1> QED BY <1>5 DEF Descends

\* Where it ends up.
LEMMA DescentEnds ==
    ASSUME NEW n \in Nat, NEW D, NEW nxt, Descending(n, D, nxt),
           NEW f, Descends(f, n, D, nxt), NEW start \in 1 .. n
    PROVE  f[start] \in D /\ f[start] \in 1 .. start
<1>0. /\ \A t \in 1 .. n : f[t] = IF t \in D THEN t ELSE f[nxt[t]]
      /\ \A t \in 1 .. n : t \notin D => nxt[t] \in 1 .. (t - 1)
  BY DEF Descending, Descends
<1> DEFINE T == {k \in 0 .. n : \A t \in 1 .. k : f[t] \in D /\ f[t] \in 1 .. t}
<1>1. 0 \in T
  OBVIOUS
<1>2. ASSUME NEW k \in 1 .. n, k - 1 \in T PROVE k \in T
  <2>1. \A t \in 1 .. (k - 1) : f[t] \in D /\ f[t] \in 1 .. t
    BY <1>2
  <2>2. f[k] \in D /\ f[k] \in 1 .. k
    <3>1. CASE k \in D
      BY <1>0, <3>1
    <3>2. CASE k \notin D
      <4>1. nxt[k] \in 1 .. (k - 1) /\ f[k] = f[nxt[k]]
        BY <1>0, <3>2
      <4>2. f[nxt[k]] \in D /\ f[nxt[k]] \in 1 .. nxt[k]
        BY <2>1, <4>1
      <4> QED BY <4>1, <4>2
    <3> QED BY <3>1, <3>2
  <2>3. ASSUME NEW t \in 1 .. k PROVE f[t] \in D /\ f[t] \in 1 .. t
    <3>1. t = k \/ t \in 1 .. (k - 1)
      OBVIOUS
    <3> QED BY <2>1, <2>2, <3>1
  <2> QED BY <2>3
<1>3. 0 .. n \subseteq T
  <2> HIDE DEF T
  <2> QED BY <1>1, <1>2, UpTo
<1>4. start \in T
  <2>1. start \in 0 .. n
    OBVIOUS
  <2> HIDE DEF T
  <2> QED BY <1>3, <2>1
<1>5. start \in 1 .. start
  OBVIOUS
<1> QED BY <1>4, <1>5

\* Extended, the tail holds every call that one of its results answers.
LEMMA TailExtended ==
    ASSUME NEW c \in Seq(Message), NEW start \in 1 .. (Len(c) + 1)
    PROVE  /\ ExtendTail(c, start) \in 1 .. start
           /\ \A j \in ExtendTail(c, start) .. Len(c), i \in 1 .. (ExtendTail(c, start) - 1) :
                 ~Answers(c[j], c[i])
<1> DEFINE n == Len(c) + 1
           Missing(t) == {j \in t .. Len(c) : \E i \in 1 .. (t - 1) : Answers(c[j], c[i])}
           Callers(j, t) == {i \in 1 .. (t - 1) : Answers(c[j], c[i])}
           First(t) == CHOOSE j \in Missing(t) : \A k \in Missing(t) : j <= k
           Next(t) == CHOOSE i \in Callers(First(t), t) : \A k \in Callers(First(t), t) : k <= i
           D == {t \in 1 .. n : Missing(t) = {}}
           nxt == [t \in 1 .. n |-> Next(t)]
           Is(f) == f = [t \in 1 .. n |-> IF Missing(t) = {} THEN t ELSE f[Next(t)]]
           from == CHOOSE f : Is(f)
<1>0. n \in Nat /\ Len(c) \in Nat
  OBVIOUS
<1>1. ASSUME NEW t \in 1 .. n, Missing(t) # {} PROVE Next(t) \in 1 .. (t - 1)
  <2>1. Missing(t) \in SUBSET (1 .. Len(c))
    BY <1>0
  <2>2. \E j \in Missing(t) : \A k \in Missing(t) : j <= k
    <3> HIDE DEF Missing
    <3> QED BY <1>0, <1>1, <2>1, FirstPosition
  <2>3. First(t) \in Missing(t)
    <3> HIDE DEF Missing
    <3> QED BY <2>2
  <2> HIDE DEF First
  <2>4. Callers(First(t), t) # {} /\ Callers(First(t), t) \in SUBSET (1 .. (t - 1)) /\ t - 1 \in Nat
    BY <2>3
  <2>5. \E i \in Callers(First(t), t) : \A k \in Callers(First(t), t) : k <= i
    <3> HIDE DEF Callers
    <3> QED BY <2>4, LastPosition
  <2>6. Next(t) \in Callers(First(t), t)
    <3> HIDE DEF Callers
    <3> QED BY <2>5
  <2> QED BY <2>4, <2>6
<1> HIDE DEF Next
<1>2. Descending(n, D, nxt)
  BY <1>1 DEF Descending
<1>3. \E f : Is(f)
  <2>1. PICK f : Descends(f, n, D, nxt)
    <3> HIDE DEF D, nxt, n
    <3> QED BY <1>0, <1>2, DescentExists
  <2>2. \A t \in 1 .. n : (IF t \in D THEN t ELSE f[nxt[t]])
                          = IF Missing(t) = {} THEN t ELSE f[Next(t)]
    OBVIOUS
  <2>3. Is(f)
    <3> HIDE DEF D, nxt, n, Missing
    <3> QED BY <2>1, <2>2 DEF Descends
  <2> QED BY <2>3
<1>4. Is(from)
  BY <1>3
<1>5. Descends(from, n, D, nxt)
  <2>1. \A t \in 1 .. n : (IF t \in D THEN t ELSE from[nxt[t]])
                          = IF Missing(t) = {} THEN t ELSE from[Next(t)]
    OBVIOUS
  <2> HIDE DEF from, D, nxt, n, Missing
  <2> QED BY <1>4, <2>1 DEF Descends
<1>6. from[start] \in D /\ from[start] \in 1 .. start
  <2> HIDE DEF from, D, nxt, n
  <2>1. start \in 1 .. n
    BY DEF n
  <2> QED BY <1>0, <1>2, <1>5, <2>1, DescentEnds
<1>7. ExtendTail(c, start) = from[start]
  BY DEF ExtendTail, Next
<1> HIDE DEF from
<1>8. Missing(from[start]) = {}
  BY <1>6
<1> QED BY <1>6, <1>7, <1>8

-----------------------------------------------------------------------------
(* Weights, cuts and the tail.                                             *)

\* The characters of a text are a number of characters.
LEMMA CharsFacts == Chars(<<>>) = 0 /\ \A text \in Text : Chars(text) \in Nat
<1>1. LongWeight - 1 \in Nat
  BY LimitsAssumption
<1>2. Chars(<<>>) = 0
  <2>1. {i \in DOMAIN <<>> : <<>>[i] = "long"} = {} /\ Len(<<>>) = 0
    OBVIOUS
  <2>2. (LongWeight - 1) * 0 = 0
    BY <1>1
  <2>3. Cardinality({}) = 0
    BY FS_EmptySet
  <2> QED BY <2>1, <2>2, <2>3 DEF Chars
<1>3. ASSUME NEW text \in Text PROVE Chars(text) \in Nat
  <2> DEFINE long == {i \in DOMAIN text : text[i] = "long"}
  <2>1. Len(text) \in Nat /\ long \subseteq 1 .. Len(text)
    BY DEF Text
  <2>2. Cardinality(long) \in Nat
    <3>1. IsFiniteSet(1 .. Len(text))
      BY <2>1, FS_Interval
    <3> QED BY <2>1, <3>1, FS_Subset, FS_CardinalityType
  <2> DEFINE k == Cardinality(long)
  <2> HIDE DEF k
  <2>3. (LongWeight - 1) * k \in Nat
    BY <1>1, <2>2 DEF k
  <2>4. Chars(text) = Len(text) + (LongWeight - 1) * k
    BY DEF Chars, k
  <2> QED BY <2>1, <2>3, <2>4
<1> QED BY <1>2, <1>3

\* A text cut short is a text (truncateText).
LEMMA TruncateTyped ==
    ASSUME NEW text \in Text, NEW limit \in Nat
    PROVE  /\ TruncateText(text, limit) \in Text
           /\ \/ TruncateText(text, limit) = text
              \/ \E k \in 0 .. Len(text) :
                    TruncateText(text, limit) = Append(SubSeq(text, 1, k), "[cut]")
<1> DEFINE n == Len(text)
           Cut(k) == /\ Chars(SubSeq(text, 1, k)) <= limit
                     /\ Chars(SubSeq(text, 1, k + 1)) > limit
           T == {k \in 0 .. n : Chars(SubSeq(text, 1, k)) <= limit}
<1>0. n \in Nat
  BY DEF Text
<1>1. CASE Chars(text) <= limit
  BY <1>1 DEF TruncateText
<1>2. CASE ~(Chars(text) <= limit)
  <2>1. \A k \in 0 .. n : SubSeq(text, 1, k) \in Text /\ Chars(SubSeq(text, 1, k)) \in Nat
    <3>1. \A k \in 0 .. n : SubSeq(text, 1, k) \in Text
      BY DEF Text
    <3> QED BY <3>1, CharsFacts
  <2>2. 0 \in T
    <3>1. SubSeq(text, 1, 0) = <<>>
      BY DEF Text
    <3>2. Chars(SubSeq(text, 1, 0)) = 0
      BY <3>1, CharsFacts
    <3> QED BY <1>0, <3>2
  <2>3. n \notin T
    <3>1. SubSeq(text, 1, n) = text
      BY DEF Text
    <3> QED BY <1>2, <3>1
  <2>4. \E k \in 1 .. n : k - 1 \in T /\ k \notin T
    <3>1. SUFFICES ASSUME \A k \in 1 .. n : k - 1 \in T => k \in T PROVE FALSE
      OBVIOUS
    <3>2. 0 .. n \subseteq T
      <4> HIDE DEF T
      <4> QED BY <1>0, <2>2, <3>1, UpTo
    <3> QED BY <1>0, <2>3, <3>2
  <2>5. PICK k \in 1 .. n : k - 1 \in T /\ k \notin T
    BY <2>4
  <2>6. k - 1 \in 0 .. (n - 1) /\ Cut(k - 1)
    <3>1. k - 1 \in 0 .. (n - 1) /\ k \in 0 .. n /\ k - 1 + 1 = k
      OBVIOUS
    <3>2. Chars(SubSeq(text, 1, k)) \in Nat /\ ~(Chars(SubSeq(text, 1, k)) <= limit)
      BY <2>1, <2>5, <3>1
    <3> QED BY <2>5, <3>1, <3>2
  <2> DEFINE at == CHOOSE i \in 0 .. (n - 1) : Cut(i)
  <2>7. at \in 0 .. (n - 1)
    <3> HIDE DEF Cut
    <3> QED BY <2>6
  <2>8. TruncateText(text, limit) = Append(SubSeq(text, 1, at), "[cut]")
    BY <1>2 DEF TruncateText
  <2> HIDE DEF at
  <2>9. SubSeq(text, 1, at) \in Text /\ at \in 0 .. Len(text)
    BY <2>1, <2>7
  <2> QED BY <2>8, <2>9, TextFacts, MarksAreWords
<1> QED BY <1>1, <1>2

\* No messages have no characters.
LEMMA NothingWeighsNothing == CharsOf(<<>>) = 0
<1> DEFINE Is(h) == h = [S \in SUBSET DOMAIN <<>> |->
                           IF S = {} THEN 0 ELSE h[S \ {Max(S)}] + Chars(<<>>[Max(S)].text)]
           f == CHOOSE h : Is(h)
<1>1. SUBSET DOMAIN <<>> = {{}} /\ DOMAIN <<>> = {}
  OBVIOUS
<1>2. Is([S \in {{}} |-> 0])
  BY <1>1
<1>3. Is(f)
  BY <1>2
<1>4. f[{}] = 0
  <2> HIDE DEF f
  <2> QED BY <1>1, <1>3
<1>5. CharsOf(<<>>) = f[DOMAIN <<>>]
  BY DEF CharsOf, FoldLeft, MapThenFoldSet
<1> HIDE DEF f
<1> QED BY <1>1, <1>4, <1>5

\* The tail starts at one of the messages or is empty, for any limits.
LEMMA TailStarts ==
    ASSUME NEW c \in Seq(Message)
    PROVE  TailStart(c) \in 1 .. (Len(c) + 1)
<1> DEFINE n == Len(c) + 1
           Fits(t) == /\ Len(c) + 1 - t <= TailMessages
                      /\ CharsOf(SubSeq(c, t, Len(c))) <= TailChars
           F == {t \in 1 .. n : Fits(t)}
           OK(t) == Fits(t) /\ \A u \in 1 .. (t - 1) : ~Fits(u)
<1>0. n \in Nat /\ Len(c) \in Nat
  OBVIOUS
<1>1. n \in F
  <2>1. SubSeq(c, n, Len(c)) = <<>>
    OBVIOUS
  <2>2. TailMessages \in Nat /\ TailChars \in Nat
    BY LimitsAssumption
  <2>3. Len(c) + 1 - n = 0 /\ n \in 1 .. n
    BY <1>0
  <2>4. CharsOf(SubSeq(c, n, Len(c))) = 0
    BY <2>1, NothingWeighsNothing
  <2>5. Fits(n)
    <3> HIDE DEF n
    <3> QED BY <2>2, <2>3, <2>4
  <2> HIDE DEF Fits
  <2> QED BY <2>3, <2>5
<1>2. PICK t \in F : \A u \in F : t <= u
  <2> HIDE DEF F, n
  <2>1. F \in SUBSET (1 .. n)
    BY DEF F
  <2> QED BY <1>0, <1>1, <2>1, FirstPosition
<1>3. t \in 1 .. n /\ OK(t)
  <2> HIDE DEF Fits
  <2>1. t \in 1 .. n /\ Fits(t)
    BY <1>2
  <2>2. ASSUME NEW u \in 1 .. (t - 1) PROVE ~Fits(u)
    <3>1. u \in 1 .. n /\ ~(t <= u)
      BY <2>1
    <3> QED BY <1>2, <3>1
  <2> QED BY <2>1, <2>2
<1>4. TailStart(c) = CHOOSE u \in 1 .. n : OK(u)
  BY DEF TailStart
<1> HIDE DEF OK, n
<1>5. (CHOOSE u \in 1 .. n : OK(u)) \in 1 .. n
  BY <1>3
<1> QED BY <1>4, <1>5 DEF n

-----------------------------------------------------------------------------
(* Calls in front of their results.                                        *)

\* Lists of messages, as every stage takes and returns them.
Messages == Seq(Message)

\* What the fields that tie results to calls say carries over ...
LEMMA AnswersCarry ==
    ASSUME NEW r1, NEW m1, NEW r2, NEW m2, Answers(r1, m1),
           r2.role = r1.role, r2.callId = r1.callId, m2.role = m1.role, m2.calls = m1.calls
    PROVE  Answers(r2, m2)
BY DEF Answers

\* ... from a list to one that changes other fields only,
LEMMA RewritingKeepsAnswers ==
    ASSUME NEW ms \in Messages, NEW out \in Messages, DOMAIN out = DOMAIN ms,
           \A i \in DOMAIN ms : /\ out[i].role = ms[i].role /\ out[i].callId = ms[i].callId
                                /\ out[i].calls = ms[i].calls,
           NEW id, ResultsAnswered(ms, id)
    PROVE  ResultsAnswered(out, id)
<1> SUFFICES ASSUME NEW j \in DOMAIN out, out[j].role = "tool", out[j].callId = id
             PROVE  \E i \in 1 .. (j - 1) : Answers(out[j], out[i])
  BY DEF ResultsAnswered
<1>1. PICK i \in 1 .. (j - 1) : Answers(ms[j], ms[i])
  BY DEF ResultsAnswered
<1>2. i \in DOMAIN ms
  BY DEF Messages
<1> QED BY <1>1, <1>2, AnswersCarry

\* ... to the messages that are left when no result and no call is left out,
LEMMA KeepingKeepsAnswers ==
    ASSUME NEW ms \in Messages, NEW I \in SUBSET DOMAIN ms,
           \A i \in DOMAIN ms \ I : ms[i].role = "assistant" => ms[i].calls = <<>>,
           NEW id, ResultsAnswered(ms, id)
    PROVE  ResultsAnswered(Keep(ms, I), id)
<1> DEFINE out == Keep(ms, I)
<1>0. DOMAIN ms = 1 .. Len(ms) /\ Len(ms) \in Nat
  BY DEF Messages
<1>1. out \in Messages /\ Places(out, ms, I, Len(ms))
  BY <1>0, KeepIs DEF Messages
<1> HIDE DEF out
<1>2. PICK p \in [1 .. Len(out) -> 1 .. Len(ms)] :
        /\ \A j \in 1 .. Len(out) : p[j] \in I /\ out[j] = ms[p[j]]
        /\ \A i, j \in 1 .. Len(out) : i < j => p[i] < p[j]
        /\ \A i \in I : i <= Len(ms) => \E j \in 1 .. Len(out) : p[j] = i
  BY <1>1 DEF Places
<1>3. ASSUME NEW j \in DOMAIN out, out[j].role = "tool", out[j].callId = id
      PROVE  \E i \in 1 .. (j - 1) : Answers(out[j], out[i])
  <2>0. j \in 1 .. Len(out) /\ Len(out) \in Nat
    BY <1>1 DEF Messages
  <2>1. p[j] \in DOMAIN ms /\ out[j] = ms[p[j]]
    BY <1>0, <1>2, <2>0
  <2>2. PICK a \in 1 .. (p[j] - 1) : Answers(ms[p[j]], ms[a])
    BY <1>3, <2>1 DEF ResultsAnswered
  <2>3. a \in DOMAIN ms /\ a < p[j] /\ a <= Len(ms)
    BY <1>0, <2>1
  <2>4. a \in I
    <3>1. ms[a].role = "assistant" /\ ms[a].calls # <<>>
      BY <2>2 DEF Answers
    <3> QED BY <2>3, <3>1
  <2>5. PICK i \in 1 .. Len(out) : p[i] = a
    BY <1>2, <2>3, <2>4
  <2>6. i < j
    <3>1. i = j \/ j < i \/ i < j
      BY <2>0
    <3>2. p[i] \in Nat /\ p[j] \in Nat
      BY <1>2, <2>0
    <3> QED BY <1>2, <2>0, <2>3, <2>5, <3>1, <3>2
  <2>7. i \in 1 .. (j - 1) /\ out[i] = ms[a]
    BY <1>2, <2>0, <2>5, <2>6
  <2> QED BY <2>1, <2>2, <2>7
<1> QED BY <1>3 DEF ResultsAnswered, out

\* ... and to one list after another.
LEMMA JoiningKeepsAnswers ==
    ASSUME NEW s \in Messages, NEW t \in Messages, NEW id,
           ResultsAnswered(s, id), ResultsAnswered(t, id)
    PROVE  ResultsAnswered(s \o t, id)
<1> DEFINE out == s \o t
<1>1. /\ Len(s) \in Nat /\ Len(t) \in Nat /\ DOMAIN out = 1 .. (Len(s) + Len(t))
      /\ DOMAIN s = 1 .. Len(s) /\ DOMAIN t = 1 .. Len(t)
      /\ \A i \in 1 .. Len(s) : out[i] = s[i]
      /\ \A i \in 1 .. Len(t) : out[Len(s) + i] = t[i]
  BY DEF Messages
<1> HIDE DEF out
<1>2. ASSUME NEW j \in DOMAIN out, out[j].role = "tool", out[j].callId = id
      PROVE  \E i \in 1 .. (j - 1) : Answers(out[j], out[i])
  <2>1. CASE j \in 1 .. Len(s)
    <3>1. PICK i \in 1 .. (j - 1) : Answers(s[j], s[i])
      BY <1>1, <1>2, <2>1 DEF ResultsAnswered
    <3>2. i \in 1 .. Len(s)
      BY <1>1, <2>1
    <3> QED BY <1>1, <2>1, <3>1, <3>2
  <2>2. CASE j \notin 1 .. Len(s)
    <3> DEFINE k == j - Len(s)
    <3>1. k \in 1 .. Len(t) /\ j = Len(s) + k
      BY <1>1, <2>2
    <3>2. PICK i \in 1 .. (k - 1) : Answers(t[k], t[i])
      BY <1>1, <1>2, <3>1 DEF ResultsAnswered
    <3>3. i \in 1 .. Len(t) /\ Len(s) + i \in 1 .. (j - 1)
      BY <1>1, <3>1
    <3>4. out[j] = t[k] /\ out[Len(s) + i] = t[i]
      BY <1>1, <3>1, <3>3
    <3> QED BY <3>2, <3>3, <3>4
  <2> QED BY <2>1, <2>2
<1> QED BY <1>2 DEF ResultsAnswered, out

\* A list without results has nothing to answer.
LEMMA NoResults ==
    ASSUME NEW ms, \A i \in DOMAIN ms : ms[i].role # "tool", NEW id
    PROVE  ResultsAnswered(ms, id)
BY DEF ResultsAnswered

\* Every role has a limit.
LEMMA LimitIs == \A role : Limit(role) \in Nat
BY LimitsAssumption DEF Limit

\* Cutting texts short disturbs no call, no result and no role (projectConservative).
LEMMA ConservativeKeeps ==
    ASSUME NEW ms \in Messages
    PROVE  /\ ProjectConservative(ms) \in Messages
           /\ \A id : ResultsAnswered(ms, id) => ResultsAnswered(ProjectConservative(ms), id)
<1> DEFINE Cut(m) == [m EXCEPT !.text = TruncateText(m.text, Limit(m.role))]
           out == ProjectConservative(ms)
<1>1. \A m \in Message : /\ Cut(m) \in Message /\ Cut(m).role = m.role
                         /\ Cut(m).callId = m.callId /\ Cut(m).calls = m.calls
  <2> SUFFICES ASSUME NEW m \in Message
               PROVE  /\ Cut(m) \in Message /\ Cut(m).role = m.role
                      /\ Cut(m).callId = m.callId /\ Cut(m).calls = m.calls
    OBVIOUS
  <2>1. TruncateText(m.text, Limit(m.role)) \in Text
    BY LimitIs, TruncateTyped, Rewritten, TextFacts, MarksAreWords
  <2>2. Cut(m) \in Message
    BY <2>1, Rewritten, MarksAreWords
  <2>3. Cut(m).role = m.role /\ Cut(m).callId = m.callId /\ Cut(m).calls = m.calls
    BY DEF Message
  <2> QED BY <2>2, <2>3
<1>2. out = [i \in DOMAIN ms |-> Cut(ms[i])]
  BY DEF ProjectConservative
<1> HIDE DEF out, Cut
<1>3. \A i \in DOMAIN ms : ms[i] \in Message
  BY DEF Messages
<1>4. out \in Messages /\ DOMAIN out = DOMAIN ms
  BY <1>1, <1>2, <1>3 DEF Messages
<1>5. \A i \in DOMAIN ms : /\ out[i].role = ms[i].role /\ out[i].callId = ms[i].callId
                           /\ out[i].calls = ms[i].calls
  BY <1>1, <1>2, <1>3
<1>6. ASSUME NEW id, ResultsAnswered(ms, id) PROVE ResultsAnswered(out, id)
  BY <1>4, <1>5, <1>6, RewritingKeepsAnswers
<1> QED BY <1>4, <1>6 DEF out

-----------------------------------------------------------------------------
(* The pieces a condensed conversation is made of.                         *)

\* What the list between the guidance and the tail is made of.
Anchored(c, start) == [k \in 1 .. Cardinality(Anchor(c, start)) |->
                          c[CHOOSE a \in Anchor(c, start) : TRUE]]

\* The guidance is made of instructions
LEMMA GuidanceIs ==
    ASSUME NEW ms \in Messages
    PROVE  /\ Guidance(ms) \in Messages
           /\ \A i \in DOMAIN Guidance(ms) : Guidance(ms)[i].role = "system"
<1> DEFINE I == {i \in DOMAIN ms : /\ IsSystem(ms[i]) /\ ~IsHarness(ms[i])
                                   /\ ms[i].text # <<>>}
           kept == Keep(ms, I)
           Cut(m) == [Blank("system") EXCEPT !.text = TruncateText(m.text, SystemChars)]
           cut == [i \in DOMAIN kept |-> Cut(kept[i])]
           n == Len(cut)
           from == IF n > 2 THEN n - 1 ELSE 1
<1>1. kept \in Messages
  <2>1. DOMAIN ms = 1 .. Len(ms)
    BY DEF Messages
  <2>2. I \in SUBSET (1 .. Len(ms))
    BY <2>1
  <2> HIDE DEF I
  <2> QED BY <2>2, KeepIs DEF Messages
<1>2. ASSUME NEW m \in Message PROVE Cut(m) \in Message /\ Cut(m).role = "system"
  <2>1. SystemChars \in Nat
    BY LimitsAssumption
  <2>2. TruncateText(m.text, SystemChars) \in Text
    BY <2>1, TruncateTyped, Rewritten, TextFacts, MarksAreWords
  <2>3. Blank("system") \in Message /\ Blank("system").role = "system"
    BY BlankIs, MarksAreWords DEF Blank
  <2>4. Cut(m) \in Message
    BY <2>2, <2>3, Rewritten, MarksAreWords
  <2>5. Cut(m).role = Blank("system").role
    BY <2>3 DEF Message
  <2> QED BY <2>3, <2>4, <2>5
<1> HIDE DEF kept, Cut
<1>3. cut \in Messages /\ \A i \in DOMAIN cut : cut[i].role = "system"
  BY <1>1, <1>2 DEF Messages
<1>4. Guidance(ms) = SubSeq(cut, from, n)
  BY DEF Guidance, kept, Cut
<1> HIDE DEF cut
<1>5. n \in Nat /\ from \in 1 .. (n + 1) /\ DOMAIN cut = 1 .. n
  BY <1>3 DEF Messages
<1> HIDE DEF from, n
<1>6. SubSeq(cut, from, n) \in Messages
      /\ \A i \in DOMAIN SubSeq(cut, from, n) : SubSeq(cut, from, n)[i].role = "system"
  BY <1>3, <1>5 DEF Messages, n
<1> QED BY <1>4, <1>6

\* ... the conversation of the other messages, with every call in front of its results
LEMMA ConversationIs ==
    ASSUME NEW ms \in Messages
    PROVE  /\ Conversation(ms) \in Messages
           /\ Places(Conversation(ms), ms,
                     {i \in DOMAIN ms : ~IsSystem(ms[i]) /\ ~IsHarness(ms[i])}, Len(ms))
           /\ \A id : ResultsAnswered(ms, id) => ResultsAnswered(Conversation(ms), id)
<1> DEFINE I == {i \in DOMAIN ms : ~IsSystem(ms[i]) /\ ~IsHarness(ms[i])}
<1>1. I \in SUBSET DOMAIN ms /\ DOMAIN ms = 1 .. Len(ms)
  BY DEF Messages
<1>2. \A i \in DOMAIN ms \ I : ms[i].role # "assistant"
  BY DEF IsSystem, IsHarness
<1> HIDE DEF I
<1>3. Keep(ms, I) \in Messages /\ Places(Keep(ms, I), ms, I, Len(ms))
  BY <1>1, KeepIs DEF Messages
<1>4. \A id : ResultsAnswered(ms, id) => ResultsAnswered(Keep(ms, I), id)
  BY <1>1, <1>2, KeepingKeepsAnswers
<1>5. Conversation(ms) = Keep(ms, I)
  BY DEF Conversation, I
<1> QED BY <1>3, <1>4, <1>5 DEF I

\* ... and the summary is an instruction.
LEMMA SummaryIs ==
    ASSUME NEW c, NEW start
    PROVE  Summary(c, start) \in Messages
           /\ \A i \in DOMAIN Summary(c, start) : Summary(c, start)[i].role = "system"
<1> DEFINE m == [Blank("system") EXCEPT !.text = <<"[summary]">>]
<1>1. m \in Message /\ m.role = "system"
  <2>1. <<"[summary]">> \in Text
    BY MarksAreWords, TextFacts
  <2>2. Blank("system") \in Message /\ Blank("system").role = "system"
    BY BlankIs, MarksAreWords DEF Blank
  <2>3. m \in Message
    BY <2>1, <2>2, Rewritten, MarksAreWords
  <2>4. m.role = Blank("system").role
    BY <2>2 DEF Message
  <2> QED BY <2>2, <2>3, <2>4
<1>2. Summary(c, start) = <<>> \/ Summary(c, start) = <<m>>
  BY DEF Summary
<1> HIDE DEF m
<1>3. <<m>> \in Seq(Message) /\ <<>> \in Seq(Message)
  BY <1>1
<1>4. (\A i \in DOMAIN <<m>> : <<m>>[i].role = "system") /\ DOMAIN <<>> = {}
  BY <1>1
<1> QED BY <1>2, <1>3, <1>4 DEF Messages

\* At most one question is the anchor, and it is the first.
LEMMA AnchoredIs ==
    ASSUME NEW c \in Messages, NEW start \in 1 .. (Len(c) + 1)
    PROVE  /\ Anchored(c, start) \in Messages
           /\ \A i \in DOMAIN Anchored(c, start) : Anchored(c, start)[i].role = "user"
           /\ \A a \in Anchor(c, start) :
                 1 \in DOMAIN Anchored(c, start) /\ Anchored(c, start)[1] = c[a]
<1> DEFINE S == Anchor(c, start)
           a == CHOOSE x \in S : TRUE
           n == Cardinality(S)
<1>0. Len(c) \in Nat /\ DOMAIN c = 1 .. Len(c) /\ \A i \in DOMAIN c : c[i] \in Message
  BY DEF Messages
<1>1. S \subseteq 1 .. (start - 1) /\ S \subseteq DOMAIN c
  BY <1>0 DEF Anchor
<1>2. IsFiniteSet(S)
  <2>1. start - 1 \in Int /\ 1 \in Int
    BY <1>0
  <2>2. IsFiniteSet(1 .. (start - 1))
    BY <2>1, FS_Interval
  <2> QED BY <1>1, <2>2, FS_Subset
<1>3. n \in Nat /\ (n = 0 <=> S = {})
  BY <1>2, FS_CardinalityType, FS_EmptySet
<1>4. \A x, y \in S : x = y
  <2> SUFFICES ASSUME NEW x \in S, NEW y \in S, x # y PROVE FALSE
    OBVIOUS
  <2>1. x \in 1 .. (start - 1) /\ y \in 1 .. (start - 1)
    BY <1>1
  <2>2. x < y \/ y < x
    BY <2>1
  <2>3. /\ c[x].role = "user" /\ \A b \in 1 .. (x - 1) : c[b].role # "user"
        /\ c[y].role = "user" /\ \A b \in 1 .. (y - 1) : c[b].role # "user"
    BY DEF Anchor
  <2> QED BY <2>1, <2>2, <2>3
<1>5. S # {} => a \in S /\ c[a] \in Message /\ c[a].role = "user"
  <2>1. S # {} => a \in S
    OBVIOUS
  <2>2. \A x \in S : c[x].role = "user"
    BY DEF Anchor
  <2> HIDE DEF a, S
  <2> QED BY <1>0, <1>1, <2>1, <2>2
<1>6. Anchored(c, start) = [k \in 1 .. n |-> c[a]]
  BY DEF Anchored
<1> HIDE DEF a, S, n
<1>7. CASE S = {}
  <2>1. 1 .. n = {}
    BY <1>3, <1>7
  <2> QED BY <1>3, <1>6, <1>7, <2>1 DEF Messages, S
<1>8. CASE S # {}
  <2>1. 1 \in 1 .. n
    BY <1>3, <1>8
  <2>2. \A x \in S : c[x] = c[a]
    BY <1>4, <1>5
  <2>3. [k \in 1 .. n |-> c[a]] \in Messages
    BY <1>3, <1>5, <1>8 DEF Messages
  <2> QED BY <1>5, <1>6, <1>8, <2>1, <2>2, <2>3 DEF S
<1> QED BY <1>7, <1>8

\* A tail that holds the calls its results answer hangs together as the conversation does.
LEMMA TailIs ==
    ASSUME NEW c \in Messages, NEW start \in 1 .. (Len(c) + 1),
           \A j \in start .. Len(c), i \in 1 .. (start - 1) : ~Answers(c[j], c[i])
    PROVE  /\ SubSeq(c, start, Len(c)) \in Messages
           /\ Len(SubSeq(c, start, Len(c))) = Len(c) + 1 - start
           /\ \A i \in 1 .. (Len(c) + 1 - start) :
                 SubSeq(c, start, Len(c))[i] = c[start - 1 + i]
           /\ \A id : ResultsAnswered(c, id) => ResultsAnswered(SubSeq(c, start, Len(c)), id)
<1> DEFINE t == SubSeq(c, start, Len(c))
           n == Len(c) + 1 - start
<1>1. /\ Len(c) \in Nat /\ DOMAIN c = 1 .. Len(c) /\ n \in Nat
      /\ t \in Messages /\ Len(t) = n /\ DOMAIN t = 1 .. n
  BY DEF Messages
<1>2. \A i \in 1 .. n : t[i] = c[start - 1 + i]
  <2> SUFFICES ASSUME NEW i \in 1 .. n PROVE t[i] = c[start - 1 + i]
    OBVIOUS
  <2>1. t[i] = c[start + i - 1] /\ start + i - 1 = start - 1 + i
    BY DEF Messages
  <2> QED BY <2>1
<1> HIDE DEF t, n
<1>3. ASSUME NEW id, ResultsAnswered(c, id) PROVE ResultsAnswered(t, id)
  <2> SUFFICES ASSUME NEW j \in DOMAIN t, t[j].role = "tool", t[j].callId = id
               PROVE  \E i \in 1 .. (j - 1) : Answers(t[j], t[i])
    BY DEF ResultsAnswered
  <2> DEFINE k == start - 1 + j
  <2>1. k \in start .. Len(c) /\ k \in DOMAIN c /\ t[j] = c[k] /\ j \in 1 .. n
    <3>1. j \in 1 .. n
      BY <1>1
    <3>2. t[j] = c[k]
      BY <1>2, <3>1
    <3>3. k \in start .. Len(c) /\ k \in 1 .. Len(c)
      BY <1>1, <3>1 DEF n
    <3> QED BY <1>1, <3>1, <3>2, <3>3
  <2> HIDE DEF k
  <2>2. PICK a \in 1 .. (k - 1) : Answers(c[k], c[a])
    BY <1>3, <2>1 DEF ResultsAnswered
  <2>3. a \notin 1 .. (start - 1)
    BY <2>1, <2>2
  <2> DEFINE i == a - (start - 1)
  <2>4. i \in 1 .. (j - 1) /\ i \in 1 .. n /\ start - 1 + i = a
    BY <1>1, <2>1, <2>3 DEF k, n
  <2> HIDE DEF i
  <2>5. t[i] = c[a]
    BY <1>2, <2>4
  <2> QED BY <2>1, <2>2, <2>4, <2>5
<1> QED BY <1>1, <1>2, <1>3 DEF t, n

-----------------------------------------------------------------------------
(* Condensing, and the first question.                                     *)

\* The text is what a user message says, word for word.
Quoted(ms, text) == \E i \in DOMAIN ms : ms[i].role = "user" /\ ms[i].text = text

\* The first message of the conversation that a person asked.
FirstQuestion(ms) ==
    {i \in DOMAIN ms : /\ ms[i].role = "user" /\ ~IsHarness(ms[i])
                       /\ \A j \in 1 .. (i - 1) : ms[j].role = "user" => IsHarness(ms[j])}

\* A list that is joined to another still quotes what it quoted.
LEMMA JoiningQuotes ==
    ASSUME NEW s \in Messages, NEW t \in Messages, NEW text,
           Quoted(s, text) \/ Quoted(t, text)
    PROVE  Quoted(s \o t, text)
<1> DEFINE out == s \o t
<1>1. /\ Len(s) \in Nat /\ Len(t) \in Nat /\ DOMAIN out = 1 .. (Len(s) + Len(t))
      /\ DOMAIN s = 1 .. Len(s) /\ DOMAIN t = 1 .. Len(t)
      /\ \A i \in 1 .. Len(s) : out[i] = s[i]
      /\ \A i \in 1 .. Len(t) : out[Len(s) + i] = t[i]
  BY DEF Messages
<1> HIDE DEF out
<1>2. CASE Quoted(s, text)
  <2>1. PICK i \in 1 .. Len(s) : s[i].role = "user" /\ s[i].text = text
    BY <1>1, <1>2 DEF Quoted
  <2>2. i \in DOMAIN out /\ out[i] = s[i]
    BY <1>1
  <2> QED BY <2>1, <2>2 DEF Quoted, out
<1>3. CASE Quoted(t, text)
  <2>1. PICK i \in 1 .. Len(t) : t[i].role = "user" /\ t[i].text = text
    BY <1>1, <1>3 DEF Quoted
  <2>2. Len(s) + i \in DOMAIN out /\ out[Len(s) + i] = t[i]
    BY <1>1
  <2> QED BY <2>1, <2>2 DEF Quoted, out
<1> QED BY <1>2, <1>3

\* Condensing keeps calls in front of their results, and quotes the first question
\* (projectAggressive).
LEMMA AggressiveIs ==
    ASSUME NEW ms \in Messages
    PROVE  /\ ProjectAggressive(ms) \in Messages
           /\ \A id : ResultsAnswered(ms, id) => ResultsAnswered(ProjectAggressive(ms), id)
           /\ \A q \in FirstQuestion(ms) : Quoted(ProjectAggressive(ms), ms[q].text)
<1> DEFINE c == Conversation(ms)
           start == ExtendTail(c, TailStart(c))
           g == Guidance(ms)
           y == Summary(c, start)
           a == Anchored(c, start)
           t == SubSeq(c, start, Len(c))
           out == g \o y \o a \o t
<1>1. c \in Messages /\ \A id : ResultsAnswered(ms, id) => ResultsAnswered(c, id)
  BY ConversationIs
<1>2. /\ start \in 1 .. (Len(c) + 1)
      /\ \A j \in start .. Len(c), i \in 1 .. (start - 1) : ~Answers(c[j], c[i])
  <2> HIDE DEF c
  <2>1. TailStart(c) \in 1 .. (Len(c) + 1)
    BY <1>1, TailStarts DEF Messages
  <2>2. /\ start \in 1 .. TailStart(c)
        /\ \A j \in start .. Len(c), i \in 1 .. (start - 1) : ~Answers(c[j], c[i])
    BY <1>1, <2>1, TailExtended DEF Messages
  <2> HIDE DEF start
  <2> QED BY <2>1, <2>2
<1>3. PICK p \in [1 .. Len(c) -> 1 .. Len(ms)] :
        /\ \A j \in 1 .. Len(c) : /\ p[j] \in {i \in DOMAIN ms : ~IsSystem(ms[i]) /\ ~IsHarness(ms[i])}
                                  /\ c[j] = ms[p[j]]
        /\ \A i, j \in 1 .. Len(c) : i < j => p[i] < p[j]
        /\ \A i \in {i \in DOMAIN ms : ~IsSystem(ms[i]) /\ ~IsHarness(ms[i])} :
              i <= Len(ms) => \E j \in 1 .. Len(c) : p[j] = i
  BY ConversationIs DEF Places
<1>4. ProjectAggressive(ms) = IF out = <<>> THEN ProjectConservative(ms) ELSE out
  BY DEF ProjectAggressive, Anchored
<1> HIDE DEF start, c
<1>5. /\ g \in Messages /\ \A i \in DOMAIN g : g[i].role = "system"
      /\ y \in Messages /\ \A i \in DOMAIN y : y[i].role = "system"
      /\ a \in Messages /\ \A i \in DOMAIN a : a[i].role = "user"
  BY <1>1, <1>2, GuidanceIs, SummaryIs, AnchoredIs
<1>6. t \in Messages /\ \A id : ResultsAnswered(c, id) => ResultsAnswered(t, id)
  BY <1>1, <1>2, TailIs
<1>7. ASSUME NEW q \in FirstQuestion(ms)
      PROVE  Quoted(a, ms[q].text) \/ Quoted(t, ms[q].text)
  <2>0. DOMAIN ms = 1 .. Len(ms) /\ Len(c) \in Nat
    BY <1>1 DEF Messages
  <2>1. PICK j \in 1 .. Len(c) : p[j] = q
    <3>1. q \in DOMAIN ms /\ ~IsSystem(ms[q]) /\ ~IsHarness(ms[q])
      BY DEF FirstQuestion, IsSystem
    <3> QED BY <1>3, <2>0, <3>1
  <2>2. c[j] = ms[q] /\ c[j].role = "user"
    BY <1>3, <2>1 DEF FirstQuestion
  <2>3. CASE j < start
    <3>1. j \in 1 .. (start - 1)
      BY <1>2, <2>0, <2>3
    <3>2. ASSUME NEW b \in 1 .. (j - 1) PROVE c[b].role # "user"
      <4>1. b \in 1 .. Len(c) /\ b < j
        BY <2>0
      <4>2. p[b] < q /\ p[b] \in 1 .. Len(ms) /\ q \in 1 .. Len(ms)
        BY <1>3, <2>1, <4>1
      <4>3. p[b] \in 1 .. (q - 1) /\ c[b] = ms[p[b]] /\ ~IsHarness(ms[p[b]])
        BY <1>3, <4>1, <4>2
      <4> QED BY <4>3 DEF FirstQuestion
    <3>3. j \in Anchor(c, start)
      BY <2>2, <3>1, <3>2 DEF Anchor
    <3>4. 1 \in DOMAIN a /\ a[1] = c[j]
      BY <1>1, <1>2, <3>3, AnchoredIs
    <3> HIDE DEF a
    <3> QED BY <2>2, <3>4 DEF Quoted
  <2>4. CASE ~(j < start)
    <3> DEFINE i == j - (start - 1)
    <3>1. i \in 1 .. (Len(c) + 1 - start) /\ start - 1 + i = j
      BY <1>2, <2>0, <2>4
    <3>2. Len(t) = Len(c) + 1 - start /\ t[i] = c[start - 1 + i]
      BY <1>1, <1>2, <3>1, TailIs
    <3> HIDE DEF t, i
    <3>3. i \in DOMAIN t /\ t[i] = c[j]
      BY <1>6, <3>1, <3>2 DEF Messages
    <3> QED BY <2>2, <3>3 DEF Quoted
  <2> QED BY <2>3, <2>4
<1> HIDE DEF g, y, a, t
<1>8. g \o y \in Messages /\ g \o y \o a \in Messages /\ out \in Messages
  BY <1>5, <1>6 DEF Messages
<1>9. ASSUME NEW id, ResultsAnswered(ms, id) PROVE ResultsAnswered(out, id)
  <2>1. ResultsAnswered(g, id) /\ ResultsAnswered(y, id) /\ ResultsAnswered(a, id)
    BY <1>5, NoResults
  <2>2. ResultsAnswered(g \o y, id)
    BY <1>5, <2>1, JoiningKeepsAnswers
  <2>3. ResultsAnswered(g \o y \o a, id)
    BY <1>5, <1>8, <2>1, <2>2, JoiningKeepsAnswers
  <2>4. ResultsAnswered(t, id)
    BY <1>1, <1>6, <1>9
  <2> QED BY <1>6, <1>8, <2>3, <2>4, JoiningKeepsAnswers
<1>10. ASSUME NEW q \in FirstQuestion(ms) PROVE Quoted(out, ms[q].text) /\ out # <<>>
  <2>1. Quoted(g \o y \o a, ms[q].text) \/ Quoted(t, ms[q].text)
    BY <1>5, <1>7, <1>8, JoiningQuotes
  <2>2. Quoted(out, ms[q].text)
    BY <1>6, <1>8, <2>1, JoiningQuotes
  <2> HIDE DEF out
  <2> QED BY <2>2 DEF Quoted
<1> HIDE DEF out
<1> QED BY <1>4, <1>8, <1>9, <1>10, ConservativeKeeps

-----------------------------------------------------------------------------
(* Sanitising and rendering images.                                        *)

\* Sequences joined are a sequence.
LEMMA FlattenIs ==
    ASSUME NEW A, NEW seqs \in Seq(Seq(A))
    PROVE  FlattenSeq(seqs) \in Seq(A)
<1> DEFINE n == Len(seqs)
           nxt(f, i) == IF i = 1 THEN seqs[i] ELSE f[i - 1] \o seqs[i]
           Is(f) == f = [i \in 1 .. n |-> nxt(f, i)]
           Good(f, k) == f \in [1 .. k -> Seq(A)] /\ \A i \in 1 .. k : f[i] = nxt(f, i)
           f0 == CHOOSE f : Is(f)
           T == {k \in 0 .. n : \E f : Good(f, k)}
<1>0. n \in Nat /\ \A i \in 1 .. n : seqs[i] \in Seq(A)
  OBVIOUS
<1>1. 0 \in T
  <2>1. Good([i \in {} |-> <<>>], 0)
    OBVIOUS
  <2> HIDE DEF Good
  <2> QED BY <1>0, <2>1
<1>2. ASSUME NEW k \in 1 .. n, k - 1 \in T PROVE k \in T
  <2>1. PICK f : Good(f, k - 1)
    BY <1>2
  <2> DEFINE h == [i \in 1 .. k |-> IF i = k THEN nxt(f, k) ELSE f[i]]
  <2>2. nxt(f, k) \in Seq(A)
    <3>1. CASE k = 1
      BY <1>0, <3>1
    <3>2. CASE k # 1
      <4>1. k - 1 \in 1 .. (k - 1)
        BY <3>2
      <4>2. f[k - 1] \in Seq(A)
        BY <2>1, <4>1
      <4> QED BY <1>0, <3>2, <4>2
    <3> QED BY <3>1, <3>2
  <2>3. h \in [1 .. k -> Seq(A)]
    BY <2>1, <2>2
  <2>4. ASSUME NEW i \in 1 .. k PROVE h[i] = nxt(h, i)
    <3>1. i # 1 => i - 1 \in 1 .. k /\ i - 1 # k
      OBVIOUS
    <3>2. i # 1 => h[i - 1] = f[i - 1]
      BY <3>1
    <3>3. nxt(h, i) = nxt(f, i)
      BY <3>2
    <3>4. i # k => i \in 1 .. (k - 1)
      OBVIOUS
    <3>5. i # k => f[i] = nxt(f, i)
      BY <2>1, <3>4
    <3>6. h[i] = IF i = k THEN nxt(f, k) ELSE f[i]
      OBVIOUS
    <3> HIDE DEF h, nxt
    <3> QED BY <3>3, <3>5, <3>6
  <2> HIDE DEF h
  <2>5. Good(h, k)
    BY <2>3, <2>4
  <2> HIDE DEF Good
  <2> QED BY <2>5
<1>3. 0 .. n \subseteq T
  <2> HIDE DEF T
  <2> QED BY <1>0, <1>1, <1>2, UpTo
<1>4. PICK f : Good(f, n)
  <2>1. n \in T
    <3> HIDE DEF T
    <3>1. n \in 0 .. n
      BY <1>0
    <3> QED BY <1>3, <3>1
  <2> QED BY <2>1
<1>5. Is(f)
  <2>1. f = [i \in 1 .. n |-> f[i]]
    BY <1>4
  <2>2. \A i \in 1 .. n : f[i] = nxt(f, i)
    BY <1>4
  <2> HIDE DEF nxt
  <2> QED BY <2>1, <2>2
<1>6. Is(f0)
  BY <1>5
<1>7. FlattenSeq(seqs) = IF n = 0 THEN seqs ELSE f0[n]
  BY DEF FlattenSeq
<1> HIDE DEF f0
<1> DEFINE R == {k \in 0 .. n : k # 0 => f0[k] \in Seq(A)}
<1>8. 0 \in R
  BY <1>0
<1>9. ASSUME NEW k \in 1 .. n, k - 1 \in R PROVE k \in R
  <2>1. f0[k] = nxt(f0, k)
    <3> HIDE DEF nxt
    <3> QED BY <1>6
  <2>2. CASE k = 1
    BY <1>0, <2>1, <2>2
  <2>3. CASE k # 1
    <3>1. f0[k - 1] \in Seq(A)
      BY <1>9, <2>3
    <3>2. f0[k] = f0[k - 1] \o seqs[k] /\ seqs[k] \in Seq(A)
      BY <1>0, <2>1, <2>3
    <3>3. f0[k] \in Seq(A)
      <4> HIDE DEF n
      <4> QED BY <3>1, <3>2
    <3> QED BY <3>3
  <2> QED BY <2>2, <2>3
<1>10. 0 .. n \subseteq R
  <2> HIDE DEF R
  <2> QED BY <1>0, <1>8, <1>9, UpTo
<1>11. n # 0 => f0[n] \in Seq(A)
  <2>1. n \in R
    BY <1>0, <1>10
  <2> QED BY <2>1
<1>12. n = 0 => seqs \in Seq(A)
  <2>1. n = 0 => seqs = <<>>
    OBVIOUS
  <2> QED BY <2>1
<1> HIDE DEF n
<1> QED BY <1>7, <1>11, <1>12

\* A word said n times is a text.
LEMMA RepeatTyped == ASSUME NEW n \in Nat, NEW w \in Word PROVE [i \in 1 .. n |-> w] \in Text
BY DEF Text

\* A text sanitised is a text (sanitizeText).
LEMMA SanitizeTyped ==
    ASSUME NEW text \in Text
    PROVE  SanitizeText(text) \in Text
<1> DEFINE Clean(w) == CASE w = "trigger" -> <<"t~rigger">>
                         [] w = "claude"  -> <<"c~laude">>
                         [] w = "print"   -> <<>>
                         [] w = "harness" -> <<"[neutral]">>
                         [] OTHER         -> <<w>>
           clean == FlattenSeq([i \in DOMAIN text |-> Clean(text[i])])
<1>1. \A w \in Word : Clean(w) \in Text
  BY MarksAreWords, TextFacts
<1>2. SanitizeText(text) = IF Has(clean, {"claude", "codex"}) THEN <<"[assistant]">> ELSE clean
  BY DEF SanitizeText
<1> HIDE DEF Clean
<1>3. [i \in DOMAIN text |-> Clean(text[i])] \in Seq(Seq(Word))
  <2>1. Len(text) \in Nat /\ DOMAIN text = 1 .. Len(text)
    BY DEF Text
  <2>2. \A i \in DOMAIN text : Clean(text[i]) \in Seq(Word)
    BY <1>1 DEF Text
  <2> QED BY <2>1, <2>2
<1>4. clean \in Text
  <2> HIDE DEF Clean
  <2> QED BY <1>3, FlattenIs DEF Text
<1> HIDE DEF clean
<1> QED BY <1>2, <1>4, TextFacts, MarksAreWords

\* Sanitising disturbs no call and no result, and no text but that of a harness
\* (sanitizeRequest).
LEMMA SanitizeIs ==
    ASSUME NEW ms \in Messages, NEW harnessUser
    PROVE  /\ SanitizeRequest(ms, harnessUser) \in Messages
           /\ \A id : ResultsAnswered(ms, id)
                         => ResultsAnswered(SanitizeRequest(ms, harnessUser), id)
           /\ \A text : Quoted(ms, text) /\ ~IsHarnessText(text)
                         => Quoted(SanitizeRequest(ms, harnessUser), text)
<1> DEFINE Clean(m) == [m EXCEPT !.text = SanitizeText(m.text)]
           In(m) == IsSystem(m) \/ (m.role = "user" /\ harnessUser /\ IsHarnessText(m.text))
           out == SanitizeRequest(ms, harnessUser)
<1>1. \A m \in Message : /\ Clean(m) \in Message /\ Clean(m).role = m.role
                         /\ Clean(m).callId = m.callId /\ Clean(m).calls = m.calls
  <2> SUFFICES ASSUME NEW m \in Message
               PROVE  /\ Clean(m) \in Message /\ Clean(m).role = m.role
                      /\ Clean(m).callId = m.callId /\ Clean(m).calls = m.calls
    OBVIOUS
  <2>1. SanitizeText(m.text) \in Text
    BY SanitizeTyped, Rewritten, TextFacts, MarksAreWords
  <2>2. Clean(m) \in Message
    BY <2>1, Rewritten, MarksAreWords
  <2>3. Clean(m).role = m.role /\ Clean(m).callId = m.callId /\ Clean(m).calls = m.calls
    BY DEF Message
  <2> QED BY <2>2, <2>3
<1>2. out = [i \in DOMAIN ms |-> IF In(ms[i]) THEN Clean(ms[i]) ELSE ms[i]]
  BY DEF SanitizeRequest
<1>3. ASSUME NEW m, m.role = "user", ~IsHarnessText(m.text) PROVE ~In(m)
  BY <1>3 DEF IsSystem
<1> HIDE DEF out, Clean, In
<1>4. \A i \in DOMAIN ms : ms[i] \in Message
  BY DEF Messages
<1>5. out \in Messages /\ DOMAIN out = DOMAIN ms
  BY <1>1, <1>2, <1>4 DEF Messages
<1>6. \A i \in DOMAIN ms : /\ out[i].role = ms[i].role /\ out[i].callId = ms[i].callId
                           /\ out[i].calls = ms[i].calls
  BY <1>1, <1>2, <1>4
<1>7. ASSUME NEW id, ResultsAnswered(ms, id) PROVE ResultsAnswered(out, id)
  BY <1>5, <1>6, <1>7, RewritingKeepsAnswers
<1>8. ASSUME NEW text, Quoted(ms, text), ~IsHarnessText(text) PROVE Quoted(out, text)
  <2>1. PICK i \in DOMAIN ms : ms[i].role = "user" /\ ms[i].text = text
    BY <1>8 DEF Quoted
  <2>2. out[i] = ms[i]
    BY <1>2, <1>3, <1>8, <2>1
  <2> QED BY <1>5, <2>1, <2>2 DEF Quoted
<1> QED BY <1>5, <1>7, <1>8 DEF out

\* The text stands at the beginning of something the user says.
Asked(ms, text) ==
    \E i \in DOMAIN ms : ms[i].role = "user" /\ \E u \in Text : ms[i].text = text \o u

\* Rendering images adds to a text at its end only.
LEMMA MediaIs ==
    ASSUME NEW m \in Message, NEW mode
    PROVE  /\ RenderMedia(m, mode) \in Message
           /\ RenderMedia(m, mode).role = m.role /\ RenderMedia(m, mode).callId = m.callId
           /\ RenderMedia(m, mode).calls = m.calls
           /\ \E u \in Text : RenderMedia(m, mode).text = m.text \o u
<1> DEFINE I == {i \in DOMAIN m.images : m.images[i] # "dead"}
           kept == IF mode = "passthrough" THEN Keep(m.images, I) ELSE <<>>
           lost == IF mode = "passthrough"
                   THEN [i \in 1 .. (Len(m.images) - Len(kept)) |-> "[unreachable]"]
                   ELSE [i \in DOMAIN m.images |-> "[image]"]
           images == [i \in DOMAIN kept |-> "data"]
           text == m.text \o m.deferred \o lost
           out == [m EXCEPT !.images = images, !.deferred = <<>>, !.text = text]
<1>0. m.images \in Seq(Word) /\ m.text \in Seq(Word) /\ m.deferred \in Seq(Word)
  BY DEF Message, Text
<1>1. kept \in Seq(Word)
  <2>1. I \in SUBSET (1 .. Len(m.images))
    BY <1>0
  <2> HIDE DEF I
  <2>2. Keep(m.images, I) \in Seq(Word)
    BY <1>0, <2>1, KeepIs
  <2> QED BY <2>2
<1>2. RenderMedia(m, mode) = out
  BY DEF RenderMedia
<1> HIDE DEF kept
<1>3. images \in Text
  <2>1. DOMAIN kept = 1 .. Len(kept) /\ Len(kept) \in Nat
    BY <1>1
  <2> QED BY <2>1, MarksAreWords, RepeatTyped
<1>4. lost \in Text
  <2>1. [i \in DOMAIN m.images |-> "[image]"] \in Text
    <3>1. DOMAIN m.images = 1 .. Len(m.images) /\ Len(m.images) \in Nat
      BY <1>0
    <3> QED BY <3>1, MarksAreWords, RepeatTyped
  <2> DEFINE k == Len(m.images) - Len(kept)
  <2>2. k \in Int
    BY <1>0, <1>1
  <2> HIDE DEF k
  <2>3. [i \in 1 .. k |-> "[unreachable]"] \in Text
    <3>1. CASE k \in Nat
      BY <3>1, MarksAreWords, RepeatTyped
    <3>2. CASE k \notin Nat
      <4>1. 1 .. k = 1 .. 0
        BY <2>2, <3>2
      <4>2. [i \in 1 .. 0 |-> "[unreachable]"] \in Text
        BY MarksAreWords, RepeatTyped
      <4> QED BY <4>1, <4>2
    <3> QED BY <3>1, <3>2
  <2> QED BY <2>1, <2>3 DEF k
<1> HIDE DEF images, lost
<1>5. text = m.text \o (m.deferred \o lost) /\ m.deferred \o lost \in Text /\ text \in Text
  <2>1. lost \in Seq(Word)
    BY <1>4 DEF Text
  <2>2. text = m.text \o (m.deferred \o lost)
    <3>1. \A s, t, u \in Seq(Word) : (s \o t) \o u = s \o (t \o u)
      BY ConcatAssociative
    <3> QED BY <1>0, <2>1, <3>1
  <2>3. m.deferred \o lost \in Seq(Word)
    BY <1>0, <2>1
  <2>4. m.text \o (m.deferred \o lost) \in Seq(Word)
    BY <1>0, <2>3
  <2> QED BY <2>2, <2>3, <2>4 DEF Text
<1> HIDE DEF text
<1>6. out \in Message /\ out.role = m.role /\ out.callId = m.callId /\ out.calls = m.calls
      /\ out.text = text
  BY <1>3, <1>5, TextFacts DEF Message
<1> QED BY <1>2, <1>5, <1>6

-----------------------------------------------------------------------------
(* The pipeline, and transcripts.                                          *)

\* Laws of texts put one after another.
LEMMA ConcatAgain ==
    /\ \A s, t, u \in Text : (s \o t) \o u = s \o (t \o u)
    /\ \A s, t \in Text, w \in Word : Append(s \o t, w) = s \o Append(t, w)
    /\ \A s \in Text : s \o <<>> = s
<1>1. \A s, t, u \in Text : (s \o t) \o u = s \o (t \o u)
  BY ConcatAssociative DEF Text
<1>2. ASSUME NEW s \in Text, NEW t \in Text, NEW w \in Word
      PROVE  Append(s \o t, w) = s \o Append(t, w)
  BY DEF Text
<1>3. \A s \in Text : s \o <<>> = s
  BY DEF Text
<1> QED BY <1>1, <1>2, <1>3

\* The pipeline keeps calls in front of their results, and what it condenses still
\* asks the first question (preparePipeline).
LEMMA PipelineIs ==
    ASSUME NEW ms \in Messages, NEW agenticTool, NEW profile, NEW chain, NEW media
    PROVE  /\ PreparePipeline(ms, agenticTool, profile, chain, media) \in Messages
           /\ \A id : ResultsAnswered(ms, id) =>
                 ResultsAnswered(PreparePipeline(ms, agenticTool, profile, chain, media), id)
           /\ ProjectOn(profile, chain) /\ LooksAgentic(ms, agenticTool) =>
                 \A q \in FirstQuestion(ms) :
                    Asked(PreparePipeline(ms, agenticTool, profile, chain, media), ms[q].text)
<1> DEFINE projected == IF ProjectOn(profile, chain) THEN ProjectRequest(ms, agenticTool) ELSE ms
           clean == IF SanitizeOn(profile, chain)
                    THEN SanitizeRequest(projected, profile.harnessUser) ELSE projected
           mode == MediaMode(profile, media)
           out == [i \in DOMAIN clean |-> RenderMedia(clean[i], mode)]
           condensed == ProjectOn(profile, chain) /\ LooksAgentic(ms, agenticTool)
<1>1. /\ projected \in Messages
      /\ \A id : ResultsAnswered(ms, id) => ResultsAnswered(projected, id)
      /\ condensed => \A q \in FirstQuestion(ms) : Quoted(projected, ms[q].text)
  BY AggressiveIs, ConservativeKeeps DEF ProjectRequest
<1> HIDE DEF projected
<1>2. \A q \in FirstQuestion(ms) : ~IsHarnessText(ms[q].text)
  BY DEF FirstQuestion, IsHarness
<1>3. /\ clean \in Messages
      /\ \A id : ResultsAnswered(ms, id) => ResultsAnswered(clean, id)
      /\ condensed => \A q \in FirstQuestion(ms) : Quoted(clean, ms[q].text)
  BY <1>1, <1>2, SanitizeIs
<1>4. PreparePipeline(ms, agenticTool, profile, chain, media) = out
  BY DEF PreparePipeline, projected
<1> HIDE DEF clean, mode, condensed
<1>5. \A i \in DOMAIN clean : clean[i] \in Message
  BY <1>3 DEF Messages
<1>6. \A i \in DOMAIN clean :
         /\ RenderMedia(clean[i], mode) \in Message
         /\ RenderMedia(clean[i], mode).role = clean[i].role
         /\ RenderMedia(clean[i], mode).callId = clean[i].callId
         /\ RenderMedia(clean[i], mode).calls = clean[i].calls
         /\ \E u \in Text : RenderMedia(clean[i], mode).text = clean[i].text \o u
  BY <1>5, MediaIs
<1>7. out \in Messages /\ DOMAIN out = DOMAIN clean
  BY <1>3, <1>6 DEF Messages
<1>8. \A i \in DOMAIN clean :
         /\ out[i].role = clean[i].role /\ out[i].callId = clean[i].callId
         /\ out[i].calls = clean[i].calls
         /\ \E u \in Text : out[i].text = clean[i].text \o u
  BY <1>6
<1> HIDE DEF out
<1>9. ASSUME NEW id, ResultsAnswered(ms, id) PROVE ResultsAnswered(out, id)
  <2>1. ResultsAnswered(clean, id)
    BY <1>3, <1>9
  <2> QED BY <1>3, <1>7, <1>8, <2>1, RewritingKeepsAnswers
<1>10. ASSUME condensed, NEW q \in FirstQuestion(ms) PROVE Asked(out, ms[q].text)
  <2>1. PICK i \in DOMAIN clean : clean[i].role = "user" /\ clean[i].text = ms[q].text
    BY <1>3, <1>10 DEF Quoted
  <2> QED BY <1>7, <1>8, <2>1 DEF Asked
<1> QED BY <1>4, <1>7, <1>9, <1>10 DEF condensed

\* Announcing the tools adds to the last text at its end, or one message.
LEMMA AnnounceIs ==
    ASSUME NEW ms \in Messages
    PROVE  /\ Announce(ms) \in Messages
           /\ \A id : ResultsAnswered(ms, id) => ResultsAnswered(Announce(ms), id)
           /\ \A text \in Text : Asked(ms, text) => Asked(Announce(ms), text)
<1> DEFINE Reported(m) == [m EXCEPT !.text = Append(m.text, "[tools]")]
           Here(i) == ms[i].role = "user" /\ \A j \in (i + 1)..Len(ms) : ms[j].role # "user"
           out == Announce(ms)
<1>1. \A m \in Message : /\ Reported(m) \in Message /\ Reported(m).role = m.role
                         /\ Reported(m).callId = m.callId /\ Reported(m).calls = m.calls
                         /\ Reported(m).text = Append(m.text, "[tools]")
  <2> SUFFICES ASSUME NEW m \in Message
               PROVE  /\ Reported(m) \in Message /\ Reported(m).role = m.role
                      /\ Reported(m).callId = m.callId /\ Reported(m).calls = m.calls
                      /\ Reported(m).text = Append(m.text, "[tools]")
    OBVIOUS
  <2>1. Append(m.text, "[tools]") \in Text
    BY Rewritten, TextFacts, MarksAreWords
  <2>2. Reported(m) \in Message
    BY <2>1, Rewritten, MarksAreWords
  <2>3. Reported(m).role = m.role /\ Reported(m).callId = m.callId /\ Reported(m).calls = m.calls
        /\ Reported(m).text = Append(m.text, "[tools]")
    BY DEF Message
  <2> QED BY <2>2, <2>3
<1>2. out = [i \in DOMAIN ms |-> IF Here(i) THEN Reported(ms[i]) ELSE ms[i]]
  BY DEF Announce
<1> HIDE DEF out, Reported, Here
<1>3. \A i \in DOMAIN ms : ms[i] \in Message
  BY DEF Messages
<1>4. out \in Messages /\ DOMAIN out = DOMAIN ms
  BY <1>1, <1>2, <1>3 DEF Messages
<1>5. \A i \in DOMAIN ms :
         /\ out[i].role = ms[i].role /\ out[i].callId = ms[i].callId
         /\ out[i].calls = ms[i].calls
         /\ out[i].text = ms[i].text \/ out[i].text = Append(ms[i].text, "[tools]")
  BY <1>1, <1>2, <1>3
<1>6. ASSUME NEW id, ResultsAnswered(ms, id) PROVE ResultsAnswered(out, id)
  BY <1>4, <1>5, <1>6, RewritingKeepsAnswers
<1>7. ASSUME NEW text \in Text, Asked(ms, text) PROVE Asked(out, text)
  <2>1. PICK i \in DOMAIN ms, u \in Text : ms[i].role = "user" /\ ms[i].text = text \o u
    BY <1>7 DEF Asked
  <2>2. \E v \in Text : out[i].text = text \o v
    <3>1. Append(u, "[tools]") \in Text /\ Append(text \o u, "[tools]") = text \o Append(u, "[tools]")
      <4>1. "[tools]" \in Word
        BY MarksAreWords
      <4>2. Append(u, "[tools]") \in Text
        BY <4>1, TextFacts
      <4>3. Append(text \o u, "[tools]") = text \o Append(u, "[tools]")
        BY <4>1, ConcatAgain
      <4> QED BY <4>2, <4>3
    <3> QED BY <1>5, <2>1, <3>1
  <2> QED BY <1>4, <1>5, <2>1, <2>2 DEF Asked
<1> QED BY <1>4, <1>6, <1>7 DEF out

\* Messages kept and then put next to each other.
LEMMA KeepingAsks ==
    ASSUME NEW ms \in Messages, NEW I \in SUBSET DOMAIN ms, NEW text,
           \E i \in I : ms[i].role = "user" /\ \E u \in Text : ms[i].text = text \o u
    PROVE  Asked(Keep(ms, I), text)
<1> DEFINE out == Keep(ms, I)
<1>0. DOMAIN ms = 1 .. Len(ms) /\ Len(ms) \in Nat
  BY DEF Messages
<1>1. out \in Messages /\ Places(out, ms, I, Len(ms))
  BY <1>0, KeepIs DEF Messages
<1> HIDE DEF out
<1>2. PICK i \in I : ms[i].role = "user" /\ \E u \in Text : ms[i].text = text \o u
  OBVIOUS
<1>3. \E j \in 1 .. Len(out) : out[j] = ms[i]
  BY <1>0, <1>1, <1>2 DEF Places
<1>4. DOMAIN out = 1 .. Len(out)
  BY <1>1 DEF Messages
<1> QED BY <1>2, <1>3, <1>4 DEF Asked, out

\* What is kept was there.
LEMMA KeptAreIn ==
    ASSUME NEW ms \in Messages, NEW I \in SUBSET DOMAIN ms
    PROVE  /\ Keep(ms, I) \in Messages
           /\ \A j \in DOMAIN Keep(ms, I) : \E i \in I : Keep(ms, I)[j] = ms[i]
<1> DEFINE out == Keep(ms, I)
<1>0. DOMAIN ms = 1 .. Len(ms) /\ Len(ms) \in Nat
  BY DEF Messages
<1>1. out \in Messages /\ Places(out, ms, I, Len(ms))
  BY <1>0, KeepIs DEF Messages
<1> HIDE DEF out
<1>2. DOMAIN out = 1 .. Len(out)
  BY <1>1 DEF Messages
<1>3. \A j \in 1 .. Len(out) : \E i \in I : out[j] = ms[i]
  BY <1>1 DEF Places
<1> QED BY <1>1, <1>2, <1>3 DEF out

\* A transcript keeps the roles, the calls, and what is asked.
LEMMA TranscribeIs ==
    ASSUME NEW ms \in Messages
    PROVE  /\ Transcribe(ms) \in Messages
           /\ \A j \in DOMAIN Transcribe(ms) : \E i \in DOMAIN ms :
                 Transcribe(ms)[j].role = ms[i].role
           /\ \A id : ResultsAnswered(ms, id) => ResultsAnswered(Transcribe(ms), id)
           /\ \A text \in Text : text # <<>> /\ Asked(ms, text) => Asked(Transcribe(ms), text)
<1> DEFINE I == {i \in DOMAIN ms : Speaks(ms[i])}
           said == Keep(ms, I)
           Bare(m) == [m EXCEPT !.images = <<>>]
           out == [i \in DOMAIN said |-> Bare(said[i])]
<1>1. \A m \in Message : /\ Bare(m) \in Message /\ Bare(m).role = m.role
                         /\ Bare(m).callId = m.callId /\ Bare(m).calls = m.calls
                         /\ Bare(m).text = m.text
  <2> SUFFICES ASSUME NEW m \in Message
               PROVE  /\ Bare(m) \in Message /\ Bare(m).role = m.role
                      /\ Bare(m).callId = m.callId /\ Bare(m).calls = m.calls
                      /\ Bare(m).text = m.text
    OBVIOUS
  <2>1. Bare(m) \in Message
    BY TextFacts, Rewritten, MarksAreWords
  <2>2. Bare(m).role = m.role /\ Bare(m).callId = m.callId /\ Bare(m).calls = m.calls
        /\ Bare(m).text = m.text
    BY DEF Message
  <2> QED BY <2>1, <2>2
<1>2. Transcribe(ms) = out
  BY DEF Transcribe
<1>3. I \in SUBSET DOMAIN ms /\ \A i \in DOMAIN ms \ I : ms[i].calls = <<>>
  BY DEF Speaks
<1>4. ASSUME NEW text \in Text, text # <<>>, Asked(ms, text)
      PROVE  \E i \in I : ms[i].role = "user" /\ \E u \in Text : ms[i].text = text \o u
  <2>1. PICK i \in DOMAIN ms, u \in Text : ms[i].role = "user" /\ ms[i].text = text \o u
    BY <1>4 DEF Asked
  <2>2. text \o u # <<>>
    BY <1>4 DEF Text
  <2>3. i \in I
    BY <2>1, <2>2 DEF Speaks
  <2> QED BY <2>1, <2>3
<1> HIDE DEF I
<1>5. said \in Messages /\ \A j \in DOMAIN said : \E i \in I : said[j] = ms[i]
  BY <1>3, KeptAreIn
<1>6. \A id : ResultsAnswered(ms, id) => ResultsAnswered(said, id)
  BY <1>3, KeepingKeepsAnswers
<1>7. \A text \in Text : text # <<>> /\ Asked(ms, text) => Asked(said, text)
  BY <1>3, <1>4, KeepingAsks
<1> HIDE DEF said, Bare
<1>8. \A i \in DOMAIN said : said[i] \in Message
  BY <1>5 DEF Messages
<1>9. out \in Messages /\ DOMAIN out = DOMAIN said
  BY <1>1, <1>5, <1>8 DEF Messages
<1>10. \A i \in DOMAIN said :
          /\ out[i].role = said[i].role /\ out[i].callId = said[i].callId
          /\ out[i].calls = said[i].calls /\ out[i].text = said[i].text
  BY <1>1, <1>8
<1> HIDE DEF out
<1>11. ASSUME NEW id, ResultsAnswered(ms, id) PROVE ResultsAnswered(out, id)
  BY <1>5, <1>6, <1>9, <1>10, <1>11, RewritingKeepsAnswers
<1>12. ASSUME NEW text \in Text, text # <<>>, Asked(ms, text) PROVE Asked(out, text)
  <2>1. PICK i \in DOMAIN said : said[i].role = "user" /\ \E u \in Text : said[i].text = text \o u
    BY <1>7, <1>12 DEF Asked
  <2>2. i \in DOMAIN out /\ out[i].role = "user" /\ \E u \in Text : out[i].text = text \o u
    BY <1>9, <1>10, <2>1
  <2> QED BY <2>2 DEF Asked
<1>13. \A j \in DOMAIN out : \E i \in DOMAIN ms : out[j].role = ms[i].role
  BY <1>3, <1>5, <1>9, <1>10
<1> QED BY <1>2, <1>9, <1>11, <1>12, <1>13

-----------------------------------------------------------------------------
(* What upstream is sent.                                                  *)

\* A list that is joined to another still asks what it asked.
LEMMA JoiningAsks ==
    ASSUME NEW s \in Messages, NEW t \in Messages, NEW text,
           Asked(s, text) \/ Asked(t, text)
    PROVE  Asked(s \o t, text)
<1> DEFINE out == s \o t
           Says(m) == m.role = "user" /\ \E u \in Text : m.text = text \o u
<1>1. /\ Len(s) \in Nat /\ Len(t) \in Nat /\ DOMAIN out = 1 .. (Len(s) + Len(t))
      /\ DOMAIN s = 1 .. Len(s) /\ DOMAIN t = 1 .. Len(t)
      /\ \A i \in 1 .. Len(s) : out[i] = s[i]
      /\ \A i \in 1 .. Len(t) : out[Len(s) + i] = t[i]
  BY DEF Messages
<1>2. \A ms : Asked(ms, text) <=> \E i \in DOMAIN ms : Says(ms[i])
  BY DEF Asked
<1> HIDE DEF out, Says
<1>3. CASE Asked(s, text)
  <2>1. PICK i \in 1 .. Len(s) : Says(s[i])
    BY <1>1, <1>2, <1>3
  <2>2. i \in DOMAIN out /\ Says(out[i])
    BY <1>1, <2>1
  <2> QED BY <1>2, <2>2 DEF out
<1>4. CASE Asked(t, text)
  <2>1. PICK i \in 1 .. Len(t) : Says(t[i])
    BY <1>1, <1>2, <1>4
  <2>2. Len(s) + i \in DOMAIN out /\ Says(out[Len(s) + i])
    BY <1>1, <2>1
  <2> QED BY <1>2, <2>2 DEF out
<1> QED BY <1>3, <1>4

\* The transcript with the instructions in front keeps all that too: instructions
\* make no calls and are no results (renderFullPrompt).
LEMMA FullPromptIs ==
    ASSUME NEW ms \in Messages
    PROVE  /\ RenderFullPrompt(ms) \in Messages
           /\ \A id : ResultsAnswered(ms, id) => ResultsAnswered(RenderFullPrompt(ms), id)
           /\ \A text \in Text : text # <<>> /\ Asked(ms, text) =>
                 Asked(RenderFullPrompt(ms), text)
<1> DEFINE systems == {i \in DOMAIN ms : IsSystem(ms[i])}
           others == DOMAIN ms \ systems
           first == Keep(ms, systems)
           rest == Keep(ms, others)
<1>1. systems \in SUBSET DOMAIN ms /\ others \in SUBSET DOMAIN ms
  OBVIOUS
<1>2. /\ \A i \in systems : ms[i].role # "tool" /\ ms[i].role # "user" /\ ms[i].role # "assistant"
      /\ \A i \in DOMAIN ms \ others : ms[i].role # "assistant"
      /\ \A i \in DOMAIN ms : ms[i].role = "user" => i \in others
  BY DEF IsSystem
<1>3. RenderFullPrompt(ms) = Transcribe(first) \o Transcribe(rest)
  BY DEF RenderFullPrompt
<1> HIDE DEF systems, others
<1>4. /\ first \in Messages /\ \A j \in DOMAIN first : first[j].role # "tool"
      /\ rest \in Messages
  BY <1>1, <1>2, KeptAreIn
<1>5. \A id : ResultsAnswered(ms, id) => ResultsAnswered(rest, id)
  BY <1>1, <1>2, KeepingKeepsAnswers
<1>6. ASSUME NEW text \in Text, Asked(ms, text) PROVE Asked(rest, text)
  <2>1. \E i \in others : ms[i].role = "user" /\ \E u \in Text : ms[i].text = text \o u
    BY <1>2, <1>6 DEF Asked
  <2> QED BY <1>1, <2>1, KeepingAsks
<1> HIDE DEF first, rest
<1>7. /\ Transcribe(first) \in Messages /\ Transcribe(rest) \in Messages
      /\ \A j \in DOMAIN Transcribe(first) : Transcribe(first)[j].role # "tool"
  BY <1>4, TranscribeIs
<1>8. Transcribe(first) \o Transcribe(rest) \in Messages
  BY <1>7 DEF Messages
<1>9. ASSUME NEW id, ResultsAnswered(ms, id)
      PROVE  ResultsAnswered(Transcribe(first) \o Transcribe(rest), id)
  <2>1. ResultsAnswered(Transcribe(first), id)
    BY <1>7, NoResults
  <2>2. ResultsAnswered(Transcribe(rest), id)
    BY <1>4, <1>5, <1>9, TranscribeIs
  <2> QED BY <1>7, <2>1, <2>2, JoiningKeepsAnswers
<1>10. ASSUME NEW text \in Text, text # <<>>, Asked(ms, text)
       PROVE  Asked(Transcribe(first) \o Transcribe(rest), text)
  <2>1. Asked(Transcribe(rest), text)
    BY <1>4, <1>6, <1>10, TranscribeIs
  <2> QED BY <1>7, <2>1, JoiningAsks
<1> QED BY <1>3, <1>8, <1>9, <1>10

\* What upstream is sent of messages it is sent whole.
LEMMA UpstreamIs ==
    ASSUME NEW ms \in Messages, NEW profile, NEW toolsOn, NEW continueChat,
           ~(continueChat /\ profile.model # "roles")
    PROVE  /\ BuildUpstreamMessages(ms, profile, toolsOn, continueChat) \in Messages
           /\ \A id : ResultsAnswered(ms, id) =>
                 ResultsAnswered(BuildUpstreamMessages(ms, profile, toolsOn, continueChat), id)
           /\ \A text \in Text : text # <<>> /\ Asked(ms, text) =>
                 Asked(BuildUpstreamMessages(ms, profile, toolsOn, continueChat), text)
<1> DEFINE m == [Blank("system") EXCEPT !.text = <<"[tools]">>]
           told == IF toolsOn THEN <<m>> ELSE <<>>
           full == RenderFullPrompt(ms)
<1>1. CASE profile.model = "roles"
  <2>1. BuildUpstreamMessages(ms, profile, toolsOn, continueChat)
          = IF toolsOn /\ profile.fence THEN Announce(ms) ELSE ms
    BY <1>1 DEF BuildUpstreamMessages
  <2> QED BY <2>1, AnnounceIs
<1>2. CASE profile.model # "roles"
  <2>1. BuildUpstreamMessages(ms, profile, toolsOn, continueChat) = full \o told
    BY <1>2 DEF BuildUpstreamMessages
  <2>2. m \in Message /\ m.role = "system"
    <3>1. <<"[tools]">> \in Text
      BY MarksAreWords, TextFacts
    <3>2. Blank("system") \in Message /\ Blank("system").role = "system"
      BY BlankIs, MarksAreWords DEF Blank
    <3>3. m \in Message
      BY <3>1, <3>2, Rewritten, MarksAreWords
    <3>4. m.role = Blank("system").role
      BY <3>2 DEF Message
    <3> QED BY <3>2, <3>3, <3>4
  <2> HIDE DEF m
  <2>3. told \in Messages /\ \A i \in DOMAIN told : told[i].role # "tool"
    <3>1. <<m>> \in Seq(Message) /\ \A i \in DOMAIN <<m>> : <<m>>[i].role # "tool"
      BY <2>2
    <3>2. <<>> \in Seq(Message) /\ DOMAIN <<>> = {}
      OBVIOUS
    <3> QED BY <3>1, <3>2 DEF Messages
  <2> HIDE DEF told
  <2>4. full \in Messages
    BY FullPromptIs
  <2>5. full \o told \in Messages
    BY <2>3, <2>4 DEF Messages
  <2>6. ASSUME NEW id, ResultsAnswered(ms, id) PROVE ResultsAnswered(full \o told, id)
    <3>1. ResultsAnswered(full, id) /\ ResultsAnswered(told, id)
      BY <2>3, <2>6, FullPromptIs, NoResults
    <3> QED BY <2>3, <2>4, <3>1, JoiningKeepsAnswers
  <2>7. ASSUME NEW text \in Text, text # <<>>, Asked(ms, text) PROVE Asked(full \o told, text)
    <3>1. Asked(full, text)
      BY <2>7, FullPromptIs
    <3> QED BY <2>3, <2>4, <3>1, JoiningAsks
  <2> HIDE DEF full
  <2> QED BY <2>1, <2>5, <2>6, <2>7
<1> QED BY <1>1, <1>2

-----------------------------------------------------------------------------
(* Parsing: the chat protocol.                                             *)

\* A turn with its text, calls and images as texts.
Turn == [who : {"system", "developer", "user", "assistant", "results"}, text : Text,
         calls : Text, images : Text, thought : BOOLEAN]
Parties == [role : Word, parts : Seq(Part), calls : Text, callId : Word]

\* The fields of a turn.
LEMMA TurnFacts ==
    ASSUME NEW t \in Turn
    PROVE  /\ t.text \in Text /\ t.calls \in Text /\ t.images \in Text
           /\ t.who \in Word \cup {"results"} /\ t.thought \in BOOLEAN
           /\ DOMAIN t.calls = 1 .. Len(t.calls) /\ Len(t.calls) \in Nat
           /\ \A k \in DOMAIN t.calls : t.calls[k] \in Word
<1>1. /\ t.text \in Text /\ t.calls \in Text /\ t.images \in Text
      /\ t.who \in {"system", "developer", "user", "assistant", "results"}
      /\ t.thought \in BOOLEAN
  BY DEF Turn
<1>2. /\ DOMAIN t.calls = 1 .. Len(t.calls) /\ Len(t.calls) \in Nat
      /\ \A k \in DOMAIN t.calls : t.calls[k] \in Word
  BY <1>1 DEF Text
<1> QED BY <1>1, <1>2, MarksAreWords

\* The parts of its content.
LEMMA PartsTyped ==
    ASSUME NEW t \in Turn
    PROVE  Parts(t) \in Seq(Part)
<1> DEFINE p == [type |-> "text", text |-> t.text]
           images == [i \in DOMAIN t.images |-> [type |-> "image", image |-> t.images[i]]]
<1>1. p \in Part
  BY TurnFacts DEF Part
<1>2. images \in Seq(Part)
  <2>1. /\ DOMAIN t.images = 1 .. Len(t.images) /\ Len(t.images) \in Nat
        /\ \A i \in DOMAIN t.images : t.images[i] \in Word
    BY TurnFacts DEF Text
  <2>2. \A w \in Word : [type |-> "image", image |-> w] \in Part
    BY DEF Part
  <2> QED BY <2>1, <2>2
<1>3. Parts(t) = (IF t.text = <<>> THEN <<>> ELSE <<p>>) \o images
  BY DEF Parts
<1> HIDE DEF p, images
<1>4. <<p>> \in Seq(Part) /\ <<>> \in Seq(Part)
  BY <1>1
<1> QED BY <1>2, <1>3, <1>4

\* A turn of the chat protocol is a list of wire messages
LEMMA ChatTurnTyped ==
    ASSUME NEW t \in Turn
    PROVE  ChatTurn(t) \in Seq(Parties)
<1>1. CASE t.who = "results"
  <2> DEFINE w(k) == [role |-> "tool", parts |-> Parts(t), calls |-> <<>>,
                      callId |-> t.calls[k]]
  <2>1. \A k \in DOMAIN t.calls : w(k) \in Parties
    BY PartsTyped, TurnFacts, TextFacts, MarksAreWords DEF Parties
  <2>2. ChatTurn(t) = [k \in DOMAIN t.calls |-> w(k)]
    BY <1>1 DEF ChatTurn
  <2> HIDE DEF w
  <2>3. DOMAIN t.calls = 1 .. Len(t.calls) /\ Len(t.calls) \in Nat
    BY TurnFacts
  <2> QED BY <2>1, <2>2, <2>3
<1>2. CASE t.who # "results"
  <2> DEFINE w == [role |-> t.who, parts |-> Parts(t), calls |-> t.calls, callId |-> NoCall]
  <2>1. t.who \in Word
    BY <1>2, TurnFacts
  <2>2. w \in Parties
    BY <2>1, PartsTyped, TurnFacts, TextFacts, MarksAreWords DEF Parties, NoCall
  <2>3. ChatTurn(t) = <<w>>
    BY <1>2 DEF ChatTurn
  <2> HIDE DEF w
  <2> QED BY <2>2, <2>3
<1> QED BY <1>1, <1>2

\* ... and what they are parsed into is a list of messages (parseChatRequest).
LEMMA ChatTyped ==
    ASSUME NEW conv \in Seq(Turn)
    PROVE  ParseChatRequest(ChatWire(conv)) \in Messages
<1> DEFINE wire == ChatWire(conv)
           turns == [i \in DOMAIN conv |-> ChatTurn(conv[i])]
<1>1. wire \in Seq(Parties)
  <2>1. \A i \in DOMAIN conv : conv[i] \in Turn
    OBVIOUS
  <2>2. \A i \in DOMAIN conv : ChatTurn(conv[i]) \in Seq(Parties)
    BY <2>1, ChatTurnTyped
  <2>3. turns \in Seq(Seq(Parties))
    BY <2>2
  <2>4. wire = FlattenSeq(turns)
    BY DEF ChatWire
  <2> HIDE DEF turns, wire
  <2> QED BY <2>3, <2>4, FlattenIs
<1> HIDE DEF wire
<1>2. ASSUME NEW w \in Parties PROVE ParseMessage(w) \in Message
  <2> DEFINE a == [Blank(w.role) EXCEPT !.calls = w.calls]
             b == [a EXCEPT !.callId = w.callId]
  <2>1. w.role \in Word /\ w.calls \in Text /\ w.callId \in Word /\ w.parts \in Seq(Part)
    BY DEF Parties
  <2>2. Blank(w.role) \in Message
    BY <2>1, BlankIs
  <2>3. a \in Message
    BY <2>1, <2>2, Rewritten
  <2>4. b \in Message
    <3> HIDE DEF a
    <3> QED BY <2>1, <2>3, Rewritten, TextFacts
  <2>5. [Blank(w.role) EXCEPT !.calls = w.calls, !.callId = w.callId] = b
    OBVIOUS
  <2> HIDE DEF b
  <2>6. FoldLeft(TakePart, b, w.parts) \in Message
    BY <2>1, <2>4, PartsTaken
  <2> QED BY <2>5, <2>6 DEF ParseMessage
<1>3. \A i \in DOMAIN wire : ParseMessage(wire[i]) \in Message
  BY <1>1, <1>2
<1>4. ParseChatRequest(wire) = [i \in DOMAIN wire |-> ParseMessage(wire[i])]
  BY DEF ParseChatRequest
<1> QED BY <1>1, <1>3, <1>4 DEF Messages, wire

-----------------------------------------------------------------------------
(* Parsing: the responses protocol.                                        *)

\* Items of the responses protocol.
OutputItems == [type : {"function_call_output"}, id : Word, text : Text]
ThoughtItems == [type : {"reasoning"}]
MessageItems == [type : {"message"}, role : Word, parts : Seq(Part)]
CallItems == [type : {"function_call"}, id : Word]
Item == OutputItems \cup ThoughtItems \cup MessageItems \cup CallItems

\* A turn of the responses protocol is a list of items
LEMMA ResponsesTurnTyped ==
    ASSUME NEW t \in Turn
    PROVE  ResponsesTurn(t) \in Seq(Item)
<1> DEFINE output(k) == [type |-> "function_call_output", id |-> t.calls[k], text |-> t.text]
           ask(k) == [type |-> "function_call", id |-> t.calls[k]]
           say == [type |-> "message", role |-> t.who, parts |-> Parts(t)]
           asks == [k \in DOMAIN t.calls |-> ask(k)]
           thought == IF t.thought THEN << [type |-> "reasoning"] >> ELSE <<>>
           said == IF Parts(t) = <<>> THEN <<>> ELSE <<say>>
<1>1. CASE t.who = "results"
  <2>1. \A k \in DOMAIN t.calls : output(k) \in Item
    BY TurnFacts DEF Item, OutputItems
  <2>2. ResponsesTurn(t) = [k \in DOMAIN t.calls |-> output(k)]
    BY <1>1 DEF ResponsesTurn
  <2> HIDE DEF output
  <2>3. DOMAIN t.calls = 1 .. Len(t.calls) /\ Len(t.calls) \in Nat
    BY TurnFacts
  <2> QED BY <2>1, <2>2, <2>3
<1>2. CASE t.who # "results"
  <2>1. asks \in Seq(Item)
    <3>1. \A k \in DOMAIN t.calls : ask(k) \in Item
      BY TurnFacts DEF Item, CallItems
    <3> HIDE DEF ask
    <3>2. DOMAIN t.calls = 1 .. Len(t.calls) /\ Len(t.calls) \in Nat
      BY TurnFacts
    <3> QED BY <3>1, <3>2
  <2>2. thought \in Seq(Item)
    <3>1. [type |-> "reasoning"] \in Item
      BY DEF Item, ThoughtItems
    <3> QED BY <3>1
  <2>3. said \in Seq(Item)
    <3>1. t.who \in Word /\ Parts(t) \in Seq(Part)
      BY <1>2, TurnFacts, PartsTyped
    <3>2. say \in Item
      BY <3>1 DEF Item, MessageItems
    <3> HIDE DEF say
    <3> QED BY <3>2
  <2>4. ResponsesTurn(t) = thought \o said \o asks
    BY <1>2 DEF ResponsesTurn
  <2> HIDE DEF thought, said, asks
  <2> QED BY <2>1, <2>2, <2>3, <2>4
<1> QED BY <1>1, <1>2

\* ... each of which is parsed into at most one message
LEMMA ItemTyped ==
    ASSUME NEW it \in Item
    PROVE  ParseResponsesItem(it) \in Messages
<1>0. \A m \in Message : <<m>> \in Messages
  BY DEF Messages
<1>1. CASE it \in MessageItems
  <2> DEFINE role == IF it.role = "developer" THEN "system" ELSE it.role
  <2>1. it.type = "message" /\ it.role \in Word /\ it.parts \in Seq(Part)
    BY <1>1 DEF MessageItems
  <2>2. role \in Word
    BY <2>1, MarksAreWords
  <2>3. Blank(role) \in Message
    BY <2>2, BlankIs
  <2>4. FoldLeft(TakePart, Blank(role), it.parts) \in Message
    BY <2>1, <2>3, PartsTaken
  <2>5. ParseResponsesItem(it) = << FoldLeft(TakePart, Blank(role), it.parts) >>
    BY <2>1 DEF ParseResponsesItem
  <2> QED BY <1>0, <2>4, <2>5
<1>2. CASE it \in CallItems
  <2>1. it.type = "function_call" /\ it.id \in Word
    BY <1>2 DEF CallItems
  <2>2. <<it.id>> \in Text /\ Blank("assistant") \in Message
    BY <2>1, TextFacts, BlankIs, MarksAreWords
  <2>3. [Blank("assistant") EXCEPT !.calls = <<it.id>>] \in Message
    BY <2>2, Rewritten, MarksAreWords
  <2>4. ParseResponsesItem(it) = << [Blank("assistant") EXCEPT !.calls = <<it.id>>] >>
    BY <2>1 DEF ParseResponsesItem
  <2> QED BY <1>0, <2>3, <2>4
<1>3. CASE it \in OutputItems
  <2> DEFINE a == [Blank("tool") EXCEPT !.callId = it.id]
             b == [a EXCEPT !.text = it.text]
  <2>1. it.type = "function_call_output" /\ it.id \in Word /\ it.text \in Text
    BY <1>3 DEF OutputItems
  <2>2. Blank("tool") \in Message
    BY BlankIs, MarksAreWords
  <2>3. a \in Message
    BY <2>1, <2>2, Rewritten
  <2>4. b \in Message
    <3> HIDE DEF a
    <3> QED BY <2>1, <2>3, Rewritten
  <2>5. ParseResponsesItem(it) = <<b>>
    BY <2>1 DEF ParseResponsesItem
  <2> HIDE DEF b
  <2> QED BY <1>0, <2>4, <2>5
<1>4. CASE it \in ThoughtItems
  <2>1. it.type = "reasoning"
    BY <1>4 DEF ThoughtItems
  <2> QED BY <2>1 DEF ParseResponsesItem, Messages
<1> QED BY <1>1, <1>2, <1>3, <1>4 DEF Item

\* ... that joins the one in front of it or is put behind it
LEMMA ItemJoined ==
    ASSUME NEW ms \in Messages, NEW m \in Message
    PROVE  JoinItem(ms, m) \in Messages
<1> DEFINE k == Len(ms)
           joined == [ms[k] EXCEPT !.calls = Last(ms).calls \o m.calls]
<1>1. Append(ms, m) \in Messages
  BY DEF Messages
<1>2. CASE ms # <<>>
  <2>1. k \in DOMAIN ms /\ ms[k] \in Message /\ Last(ms) = ms[k]
    BY <1>2 DEF Messages, Last
  <2>2. Last(ms).calls \o m.calls \in Text
    BY <2>1, Rewritten, TextFacts, MarksAreWords
  <2>3. joined \in Message
    BY <2>1, <2>2, Rewritten, MarksAreWords
  <2>4. [ms EXCEPT ![Len(ms)].calls = Last(ms).calls \o m.calls] = [ms EXCEPT ![k] = joined]
    OBVIOUS
  <2> HIDE DEF joined
  <2>5. [ms EXCEPT ![k] = joined] \in Messages
    BY <2>1, <2>3 DEF Messages
  <2> HIDE DEF k
  <2> QED BY <1>1, <2>4, <2>5 DEF JoinItem
<1>3. CASE ms = <<>>
  BY <1>1, <1>3 DEF JoinItem
<1> QED BY <1>2, <1>3

\* ... for all of them
LEMMA ItemsJoined ==
    ASSUME NEW ms \in Messages, NEW more \in Messages
    PROVE  FoldLeft(JoinItem, ms, more) \in Messages
<1> DEFINE n == Len(more)
           g == [x \in Messages \X (1 .. n) |-> JoinItem(x[1], more[x[2]])]
           Is(h) == h = [S \in SUBSET DOMAIN more |->
                           IF S = {} THEN ms ELSE JoinItem(h[S \ {Max(S)}], more[Max(S)])]
           f == CHOOSE h : Is(h)
<1>0. n \in Nat /\ DOMAIN more = 1 .. n /\ \A k \in 1 .. n : more[k] \in Message
  BY DEF Messages
<1>1. ASSUME NEW a \in Messages, NEW k \in 1 .. n PROVE JoinItem(a, more[k]) \in Messages
  BY <1>0, ItemJoined
<1>2. g \in [Messages \X (1 .. n) -> Messages]
  BY <1>1
<1>3. PICK h \in [SUBSET (1 .. n) -> Messages] : Stepped(n, ms, g, h)
  <2> HIDE DEF g
  <2> QED BY <1>0, <1>2, FoldExists
<1>4. Is(h)
  <2>1. \A S \in SUBSET (1 .. n) : S # {} => Max(S) \in 1 .. n /\ S \ {Max(S)} \in SUBSET (1 .. n)
    BY <1>0, MaxIs
  <2>2. \A S \in SUBSET (1 .. n) : S # {} =>
          g[<<h[S \ {Max(S)}], Max(S)>>] = JoinItem(h[S \ {Max(S)}], more[Max(S)])
    BY <2>1
  <2> HIDE DEF g
  <2> QED BY <1>0, <1>3, <2>2 DEF Stepped
<1>5. Is(f)
  BY <1>4
<1>6. f[1 .. n] \in Messages
  <2>1. f[{}] = ms
    BY <1>5
  <2>2. \A S \in SUBSET (1 .. n) : S # {} =>
           f[S] = JoinItem(f[S \ {Max(S)}], more[Max(S)]) /\ Max(S) \in 1 .. n
    BY <1>0, <1>5, MaxIs
  <2> HIDE DEF f, Is, g
  <2>3. \A S \in SUBSET (1 .. n) : S # {} /\ f[S \ {Max(S)}] \in Messages => f[S] \in Messages
    BY <1>1, <2>2
  <2>4. f[{}] \in Messages
    BY <2>1
  <2> QED BY <1>0, <2>3, <2>4, FoldIn
<1>7. FoldLeft(JoinItem, ms, more) = f[DOMAIN more]
  BY DEF FoldLeft, MapThenFoldSet
<1> HIDE DEF f
<1> QED BY <1>0, <1>6, <1>7

\* ... which makes a list of messages (parseResponsesRequest).
LEMMA ResponsesTyped ==
    ASSUME NEW conv \in Seq(Turn), conv # <<>>
    PROVE  ParseResponsesRequest(ResponsesWire(conv)) \in Messages
<1> DEFINE wire == ResponsesWire(conv)
           turns == AfterOpening(conv)
           items == FlattenSeq([i \in DOMAIN turns |-> ResponsesTurn(turns[i])])
           base == IF wire.instructions = <<>> THEN <<>>
                   ELSE << [Blank("system") EXCEPT !.text = wire.instructions] >>
           n == Len(items)
           g == [x \in Messages \X (1 .. n) |->
                    FoldLeft(JoinItem, x[1], ParseResponsesItem(items[x[2]]))]
           Is(h) == h = [S \in SUBSET DOMAIN items |->
                           IF S = {} THEN base
                           ELSE FoldLeft(JoinItem, h[S \ {Max(S)}],
                                         ParseResponsesItem(items[Max(S)]))]
           f == CHOOSE h : Is(h)
<1>a. turns \in Seq(Turn)
  BY DEF AfterOpening
<1>b. items \in Seq(Item)
  <2> HIDE DEF turns
  <2>1. [i \in DOMAIN turns |-> ResponsesTurn(turns[i])] \in Seq(Seq(Item))
    <3>1. \A i \in DOMAIN turns : ResponsesTurn(turns[i]) \in Seq(Item)
      BY <1>a, ResponsesTurnTyped
    <3> QED BY <1>a, <3>1
  <2> QED BY <2>1, FlattenIs
<1>c. wire.input = items /\ wire.instructions = Opening(conv)
  BY DEF ResponsesWire
<1>d. base \in Messages
  <2>1. conv[1] \in Turn
    OBVIOUS
  <2>2. Opening(conv) \in Text
    BY <2>1, TurnFacts, TextFacts DEF Opening
  <2>3. Blank("system") \in Message
    BY BlankIs, MarksAreWords
  <2>4. [Blank("system") EXCEPT !.text = wire.instructions] \in Message
    BY <1>c, <2>2, <2>3, Rewritten, MarksAreWords
  <2> HIDE DEF wire
  <2> QED BY <2>4 DEF Messages
<1> HIDE DEF items, base, wire
<1>0. n \in Nat /\ DOMAIN items = 1 .. n /\ \A k \in 1 .. n : items[k] \in Item
  BY <1>b
<1>1. ASSUME NEW a \in Messages, NEW k \in 1 .. n
      PROVE  FoldLeft(JoinItem, a, ParseResponsesItem(items[k])) \in Messages
  BY <1>0, ItemTyped, ItemsJoined
<1>2. g \in [Messages \X (1 .. n) -> Messages]
  BY <1>1
<1>3. PICK h \in [SUBSET (1 .. n) -> Messages] : Stepped(n, base, g, h)
  <2> HIDE DEF g
  <2> QED BY <1>0, <1>d, <1>2, FoldExists
<1>4. Is(h)
  <2>1. \A S \in SUBSET (1 .. n) : S # {} => Max(S) \in 1 .. n /\ S \ {Max(S)} \in SUBSET (1 .. n)
    BY <1>0, MaxIs
  <2>2. \A S \in SUBSET (1 .. n) : S # {} =>
          g[<<h[S \ {Max(S)}], Max(S)>>]
             = FoldLeft(JoinItem, h[S \ {Max(S)}], ParseResponsesItem(items[Max(S)]))
    BY <2>1
  <2> HIDE DEF g
  <2> QED BY <1>0, <1>3, <2>2 DEF Stepped
<1>5. Is(f)
  BY <1>4
<1>6. f[1 .. n] \in Messages
  <2>1. f[{}] = base
    BY <1>5
  <2>2. \A S \in SUBSET (1 .. n) : S # {} =>
           f[S] = FoldLeft(JoinItem, f[S \ {Max(S)}], ParseResponsesItem(items[Max(S)]))
           /\ Max(S) \in 1 .. n
    BY <1>0, <1>5, MaxIs
  <2> HIDE DEF f, Is, g
  <2>3. \A S \in SUBSET (1 .. n) : S # {} /\ f[S \ {Max(S)}] \in Messages => f[S] \in Messages
    BY <1>1, <2>2
  <2>4. f[{}] \in Messages
    BY <1>d, <2>1
  <2> QED BY <1>0, <2>3, <2>4, FoldIn
<1>7. ParseResponsesRequest(wire) = f[DOMAIN items]
  BY <1>c DEF ParseResponsesRequest, FoldLeft, MapThenFoldSet, base
<1> HIDE DEF f
<1> QED BY <1>0, <1>6, <1>7 DEF wire

-----------------------------------------------------------------------------
(* Parsing: the messages protocol.                                         *)

\* Blocks and messages of the messages protocol.
Results == [type : {"tool_result"}, id : Word, parts : Seq(Part)]
Uses    == [type : {"tool_use"}, id : Word]
Block == Part \cup [type : {"thinking"}] \cup Results \cup Uses
Group == [role : Word, blocks : Seq(Block)]
Plain == [role : Word, plain : {TRUE}, text : Text]
Mixed == [role : Word, plain : {FALSE}, blocks : Seq(Block)]

\* A turn of the messages protocol is a list of blocks
LEMMA BlocksTyped ==
    ASSUME NEW t \in Turn
    PROVE  AnthropicBlocks(t) \in Seq(Block)
<1> DEFINE result(k) == [type |-> "tool_result", id |-> t.calls[k], parts |-> Parts(t)]
           use(k) == [type |-> "tool_use", id |-> t.calls[k]]
           thought == IF t.thought THEN << [type |-> "thinking"] >> ELSE <<>>
           results == [k \in DOMAIN t.calls |-> result(k)]
           uses == [k \in DOMAIN t.calls |-> use(k)]
<1>0. DOMAIN t.calls = 1 .. Len(t.calls) /\ Len(t.calls) \in Nat
  BY TurnFacts
<1>1. \A k \in DOMAIN t.calls : result(k) \in Block
  BY TurnFacts, PartsTyped DEF Block, Results
<1>2. \A k \in DOMAIN t.calls : use(k) \in Block
  BY TurnFacts DEF Block, Uses
<1> HIDE DEF result, use
<1>3. results \in Seq(Block) /\ uses \in Seq(Block)
  BY <1>0, <1>1, <1>2
<1>4. thought \in Seq(Block)
  <2>1. [type |-> "thinking"] \in Block
    BY DEF Block
  <2> QED BY <2>1
<1>5. Parts(t) \in Seq(Block)
  <2>1. Part \subseteq Block
    BY DEF Block
  <2> QED BY <2>1, PartsTyped, SeqMonotonic
<1>6. AnthropicBlocks(t)
        = thought \o (IF t.who = "results" THEN results ELSE Parts(t) \o uses)
  BY DEF AnthropicBlocks, result, use
<1> HIDE DEF thought, results, uses
<1>7. Parts(t) \o uses \in Seq(Block)
  BY <1>3, <1>5
<1> QED BY <1>3, <1>4, <1>6, <1>7

\* ... grouped with the turn in front of it when the sender is the same
LEMMA AnthropicTurnTyped ==
    ASSUME NEW gs \in Seq(Group), NEW t \in Turn
    PROVE  AnthropicTurn(gs, t) \in Seq(Group)
<1> DEFINE role == IF t.who = "results" THEN "user" ELSE t.who
           k == Len(gs)
           all == Last(gs).blocks \o AnthropicBlocks(t)
           grown == [gs[k] EXCEPT !.blocks = all]
           fresh == [role |-> role, blocks |-> AnthropicBlocks(t)]
           Joins == gs # <<>> /\ t.who = "user" /\ Last(Last(gs).blocks).type = "tool_result"
<1>1. role \in Word
  BY TurnFacts, MarksAreWords
<1>2. Append(gs, fresh) \in Seq(Group)
  <2>1. fresh \in Group
    BY <1>1, BlocksTyped DEF Group
  <2> HIDE DEF fresh
  <2> QED BY <2>1
<1>3. CASE gs # <<>>
  <2>1. k \in DOMAIN gs /\ gs[k] \in Group /\ Last(gs) = gs[k]
    BY <1>3 DEF Last
  <2>2. Last(gs).blocks \in Seq(Block)
    BY <2>1 DEF Group
  <2>3. all \in Seq(Block)
    BY <2>2, BlocksTyped
  <2> HIDE DEF all
  <2>4. grown \in Group
    BY <2>1, <2>3 DEF Group
  <2>5. [gs EXCEPT ![Len(gs)].blocks = all] = [gs EXCEPT ![k] = grown]
    OBVIOUS
  <2> HIDE DEF grown
  <2>6. [gs EXCEPT ![k] = grown] \in Seq(Group)
    BY <2>1, <2>4
  <2>7. AnthropicTurn(gs, t) = IF Joins THEN [gs EXCEPT ![Len(gs)].blocks = all]
                               ELSE Append(gs, fresh)
    BY DEF AnthropicTurn, all
  <2> HIDE DEF k, Joins, fresh
  <2> QED BY <1>2, <2>5, <2>6, <2>7
<1>4. CASE gs = <<>>
  <2>1. AnthropicTurn(gs, t) = Append(gs, fresh)
    BY <1>4 DEF AnthropicTurn
  <2> QED BY <1>2, <2>1
<1> QED BY <1>3, <1>4

\* ... for all turns
LEMMA TurnsGrouped ==
    ASSUME NEW turns \in Seq(Turn)
    PROVE  FoldLeft(AnthropicTurn, <<>>, turns) \in Seq(Group)
<1> DEFINE n == Len(turns)
           g == [x \in Seq(Group) \X (1 .. n) |-> AnthropicTurn(x[1], turns[x[2]])]
           Is(h) == h = [S \in SUBSET DOMAIN turns |->
                           IF S = {} THEN <<>> ELSE AnthropicTurn(h[S \ {Max(S)}], turns[Max(S)])]
           f == CHOOSE h : Is(h)
<1>0. n \in Nat /\ DOMAIN turns = 1 .. n /\ \A k \in 1 .. n : turns[k] \in Turn
  OBVIOUS
<1>1. ASSUME NEW a \in Seq(Group), NEW k \in 1 .. n
      PROVE  AnthropicTurn(a, turns[k]) \in Seq(Group)
  BY <1>0, AnthropicTurnTyped
<1>2. g \in [Seq(Group) \X (1 .. n) -> Seq(Group)] /\ <<>> \in Seq(Group)
  BY <1>1
<1>3. PICK h \in [SUBSET (1 .. n) -> Seq(Group)] : Stepped(n, <<>>, g, h)
  <2> HIDE DEF g
  <2> QED BY <1>0, <1>2, FoldExists
<1>4. Is(h)
  <2>1. \A S \in SUBSET (1 .. n) : S # {} => Max(S) \in 1 .. n /\ S \ {Max(S)} \in SUBSET (1 .. n)
    BY <1>0, MaxIs
  <2>2. \A S \in SUBSET (1 .. n) : S # {} =>
          g[<<h[S \ {Max(S)}], Max(S)>>] = AnthropicTurn(h[S \ {Max(S)}], turns[Max(S)])
    BY <2>1
  <2> HIDE DEF g
  <2> QED BY <1>0, <1>3, <2>2 DEF Stepped
<1>5. Is(f)
  BY <1>4
<1>6. f[1 .. n] \in Seq(Group)
  <2>1. f[{}] = <<>>
    BY <1>5
  <2>2. \A S \in SUBSET (1 .. n) : S # {} =>
           f[S] = AnthropicTurn(f[S \ {Max(S)}], turns[Max(S)]) /\ Max(S) \in 1 .. n
    BY <1>0, <1>5, MaxIs
  <2> HIDE DEF f, Is, g
  <2>3. \A S \in SUBSET (1 .. n) : S # {} /\ f[S \ {Max(S)}] \in Seq(Group) => f[S] \in Seq(Group)
    BY <1>1, <2>2
  <2>4. f[{}] \in Seq(Group)
    BY <2>1
  <2> QED BY <1>0, <2>3, <2>4, FoldIn
<1>7. FoldLeft(AnthropicTurn, <<>>, turns) = f[DOMAIN turns]
  BY DEF FoldLeft, MapThenFoldSet
<1> HIDE DEF f
<1> QED BY <1>0, <1>6, <1>7

\* ... and plain when it says nothing but text.
LEMMA AnthropicMessageTyped ==
    ASSUME NEW m \in Group
    PROVE  AnthropicMessage(m) \in Plain \cup Mixed
<1>0. m.role \in Word /\ m.blocks \in Seq(Block)
  BY DEF Group
<1>1. CASE Len(m.blocks) = 1 /\ m.blocks[1].type = "text"
  <2>1. m.blocks[1] \in Block /\ m.blocks[1].type = "text"
    BY <1>0, <1>1
  <2> DEFINE b == m.blocks[1]
  <2> HIDE DEF b
  <2>2. b \in Block /\ b.type = "text"
    BY <2>1 DEF b
  <2>3. b \in [type : {"text"}, text : Text]
    BY <2>2 DEF Block, Part, Results, Uses
  <2>4. b.text \in Text
    BY <2>3
  <2>5. AnthropicMessage(m) = [role |-> m.role, plain |-> TRUE, text |-> b.text]
    BY <1>1 DEF AnthropicMessage, b
  <2> QED BY <1>0, <2>4, <2>5 DEF Plain
<1>2. CASE ~(Len(m.blocks) = 1 /\ m.blocks[1].type = "text")
  <2>1. AnthropicMessage(m) = [role |-> m.role, plain |-> FALSE, blocks |-> m.blocks]
    BY <1>2 DEF AnthropicMessage
  <2> QED BY <1>0, <2>1 DEF Mixed
<1> QED BY <1>1, <1>2

\* The parts of a result are taken into one message.
LEMMA ResultPartsTaken ==
    ASSUME NEW m \in Message, NEW parts \in Seq(Part)
    PROVE  FoldLeft(TakeResultPart, m, parts) \in Message
<1> DEFINE n == Len(parts)
           g == [x \in Message \X (1 .. n) |-> TakeResultPart(x[1], parts[x[2]])]
           Is(h) == h = [S \in SUBSET DOMAIN parts |->
                           IF S = {} THEN m ELSE TakeResultPart(h[S \ {Max(S)}], parts[Max(S)])]
           f == CHOOSE h : Is(h)
<1>0. n \in Nat /\ DOMAIN parts = 1 .. n
  OBVIOUS
<1>1. ASSUME NEW a \in Message, NEW k \in 1 .. n PROVE TakeResultPart(a, parts[k]) \in Message
  BY PartTaken
<1>2. g \in [Message \X (1 .. n) -> Message]
  BY <1>1
<1>3. PICK h \in [SUBSET (1 .. n) -> Message] : Stepped(n, m, g, h)
  <2> HIDE DEF g
  <2> QED BY <1>0, <1>2, FoldExists
<1>4. Is(h)
  <2>1. \A S \in SUBSET (1 .. n) : S # {} => Max(S) \in 1 .. n /\ S \ {Max(S)} \in SUBSET (1 .. n)
    BY <1>0, MaxIs
  <2>2. \A S \in SUBSET (1 .. n) : S # {} =>
          g[<<h[S \ {Max(S)}], Max(S)>>] = TakeResultPart(h[S \ {Max(S)}], parts[Max(S)])
    BY <2>1
  <2> HIDE DEF g
  <2> QED BY <1>0, <1>3, <2>2 DEF Stepped
<1>5. Is(f)
  BY <1>4
<1>6. f[1 .. n] \in Message
  <2>1. f[{}] = m
    BY <1>5
  <2>2. \A S \in SUBSET (1 .. n) : S # {} =>
           f[S] = TakeResultPart(f[S \ {Max(S)}], parts[Max(S)]) /\ Max(S) \in 1 .. n
    BY <1>0, <1>5, MaxIs
  <2> HIDE DEF f, Is, g
  <2>3. \A S \in SUBSET (1 .. n) : S # {} /\ f[S \ {Max(S)}] \in Message => f[S] \in Message
    BY <1>1, <2>2
  <2>4. f[{}] \in Message
    BY <2>1
  <2> QED BY <1>0, <2>3, <2>4, FoldIn
<1>7. FoldLeft(TakeResultPart, m, parts) = f[DOMAIN parts]
  BY DEF FoldLeft, MapThenFoldSet
<1> HIDE DEF f
<1> QED BY <1>0, <1>6, <1>7

\* Messages that are done, and the one under way.
Collected == [out : Messages, cur : Message]

\* Flushing the message under way
LEMMA FlushTyped ==
    ASSUME NEW s \in Collected
    PROVE  Flush(s) \in Collected
<1>1. s.out \in Messages /\ s.cur \in Message
  BY DEF Collected
<1>2. Append(s.out, [s.cur EXCEPT !.role = Speaker(s.cur.role)]) \in Messages
  <2>1. [s.cur EXCEPT !.role = Speaker(s.cur.role)] \in Message
    BY <1>1, MarksAreWords DEF Message, Speaker
  <2> QED BY <1>1, <2>1 DEF Messages
<1>3. Blank(s.cur.role) \in Message
  <2>1. s.cur.role \in Word
    BY <1>1 DEF Message
  <2> QED BY <2>1, BlankIs
<1> QED BY <1>1, <1>2, <1>3 DEF Flush, Collected

\* ... taking a block
LEMMA BlockTaken ==
    ASSUME NEW s \in Collected, NEW block \in Block
    PROVE  TakeBlock(s, block) \in Collected
<1>0. /\ s.out \in Messages /\ s.cur \in Message
      /\ \A m \in Message : [s EXCEPT !.cur = m] \in Collected
  BY DEF Collected
<1>1. s.cur.text \in Text /\ s.cur.calls \in Text
  BY <1>0, Rewritten, TextFacts, MarksAreWords
<1>2. CASE block \in [type : {"text"}, text : Text]
  <2> DEFINE cur == [s.cur EXCEPT !.text = s.cur.text \o block.text]
  <2>1. block.type = "text" /\ block.text \in Text
    BY <1>2
  <2>2. s.cur.text \o block.text \in Text
    BY <1>1, <2>1, TextFacts
  <2>3. cur \in Message
    BY <1>0, <2>2, Rewritten, MarksAreWords
  <2>4. [s EXCEPT !.cur.text = s.cur.text \o block.text] = [s EXCEPT !.cur = cur]
    OBVIOUS
  <2>5. TakeBlock(s, block) = [s EXCEPT !.cur.text = s.cur.text \o block.text]
    BY <2>1 DEF TakeBlock
  <2> HIDE DEF cur
  <2> QED BY <1>0, <2>3, <2>4, <2>5
<1>3. CASE block \in Uses
  <2> DEFINE cur == [s.cur EXCEPT !.calls = Append(s.cur.calls, block.id)]
  <2>1. block.type = "tool_use" /\ block.id \in Word
    BY <1>3 DEF Uses
  <2>2. Append(s.cur.calls, block.id) \in Text
    BY <1>1, <2>1, TextFacts
  <2>3. cur \in Message
    BY <1>0, <2>2, Rewritten, MarksAreWords
  <2>4. [s EXCEPT !.cur.calls = Append(s.cur.calls, block.id)] = [s EXCEPT !.cur = cur]
    OBVIOUS
  <2>5. TakeBlock(s, block) = IF s.cur.role = "assistant"
                              THEN [s EXCEPT !.cur.calls = Append(s.cur.calls, block.id)] ELSE s
    BY <2>1 DEF TakeBlock
  <2> HIDE DEF cur
  <2> QED BY <1>0, <2>3, <2>4, <2>5
<1>4. CASE block \in Results
  <2> DEFINE f == Flush(s)
             r == FoldLeft(TakeResultPart, Blank("tool"), block.parts)
  <2>1. block.type = "tool_result" /\ block.id \in Word /\ block.parts \in Seq(Part)
    BY <1>4 DEF Results
  <2>2. r \in Message
    BY <2>1, ResultPartsTaken, BlankIs, MarksAreWords
  <2>3. ToolResult(block) \in Message
    <3>1. ToolResult(block) = [r EXCEPT !.callId = block.id]
      BY DEF ToolResult
    <3> HIDE DEF r
    <3> QED BY <2>1, <2>2, <3>1, Rewritten, TextFacts
  <2>4. f \in Collected
    BY FlushTyped
  <2>5. TakeBlock(s, block) = IF s.cur.role = "user"
                              THEN [f EXCEPT !.out = Append(f.out, ToolResult(block))] ELSE s
    BY <2>1 DEF TakeBlock
  <2> HIDE DEF f
  <2>6. Append(f.out, ToolResult(block)) \in Messages
    BY <2>3, <2>4 DEF Collected, Messages
  <2>7. [f EXCEPT !.out = Append(f.out, ToolResult(block))] \in Collected
    BY <2>4, <2>6 DEF Collected
  <2> QED BY <2>5, <2>7
<1>5. CASE block \in [type : {"image"}, image : Word]
  <2>1. block.type = "image" /\ block.image \in Word
    BY <1>5
  <2>2. AppendSource(s.cur, block.image) \in Message
    BY <1>0, <2>1, Attaching
  <2>3. TakeBlock(s, block) = IF s.cur.role = "user"
                              THEN [s EXCEPT !.cur = AppendSource(s.cur, block.image)] ELSE s
    BY <2>1 DEF TakeBlock
  <2> QED BY <1>0, <2>2, <2>3
<1>6. CASE block \in [type : {"thinking"}]
  <2>1. block.type = "thinking"
    BY <1>6
  <2> QED BY <2>1 DEF TakeBlock
<1> QED BY <1>2, <1>3, <1>4, <1>5, <1>6 DEF Block, Part

\* ... and taking all of them leave messages and a message under way
LEMMA BlocksTaken ==
    ASSUME NEW s \in Collected, NEW blocks \in Seq(Block)
    PROVE  FoldLeft(TakeBlock, s, blocks) \in Collected
<1> DEFINE n == Len(blocks)
           g == [x \in Collected \X (1 .. n) |-> TakeBlock(x[1], blocks[x[2]])]
           Is(h) == h = [S \in SUBSET DOMAIN blocks |->
                           IF S = {} THEN s ELSE TakeBlock(h[S \ {Max(S)}], blocks[Max(S)])]
           f == CHOOSE h : Is(h)
<1>0. n \in Nat /\ DOMAIN blocks = 1 .. n
  OBVIOUS
<1>1. ASSUME NEW a \in Collected, NEW k \in 1 .. n PROVE TakeBlock(a, blocks[k]) \in Collected
  BY BlockTaken
<1>2. g \in [Collected \X (1 .. n) -> Collected]
  BY <1>1
<1>3. PICK h \in [SUBSET (1 .. n) -> Collected] : Stepped(n, s, g, h)
  <2> HIDE DEF g
  <2> QED BY <1>0, <1>2, FoldExists
<1>4. Is(h)
  <2>1. \A S \in SUBSET (1 .. n) : S # {} => Max(S) \in 1 .. n /\ S \ {Max(S)} \in SUBSET (1 .. n)
    BY <1>0, MaxIs
  <2>2. \A S \in SUBSET (1 .. n) : S # {} =>
          g[<<h[S \ {Max(S)}], Max(S)>>] = TakeBlock(h[S \ {Max(S)}], blocks[Max(S)])
    BY <2>1
  <2> HIDE DEF g
  <2> QED BY <1>0, <1>3, <2>2 DEF Stepped
<1>5. Is(f)
  BY <1>4
<1>6. f[1 .. n] \in Collected
  <2>1. f[{}] = s
    BY <1>5
  <2>2. \A S \in SUBSET (1 .. n) : S # {} =>
           f[S] = TakeBlock(f[S \ {Max(S)}], blocks[Max(S)]) /\ Max(S) \in 1 .. n
    BY <1>0, <1>5, MaxIs
  <2> HIDE DEF f, Is, g
  <2>3. \A S \in SUBSET (1 .. n) : S # {} /\ f[S \ {Max(S)}] \in Collected => f[S] \in Collected
    BY <1>1, <2>2
  <2>4. f[{}] \in Collected
    BY <2>1
  <2> QED BY <1>0, <2>3, <2>4, FoldIn
<1>7. FoldLeft(TakeBlock, s, blocks) = f[DOMAIN blocks]
  BY DEF FoldLeft, MapThenFoldSet
<1> HIDE DEF f
<1> QED BY <1>0, <1>6, <1>7

\* ... so that a message parsed is a list of messages
LEMMA MessageParsed ==
    ASSUME NEW w \in Plain \cup Mixed
    PROVE  ParseAnthropicMessage(w) \in Messages
<1>1. CASE w \in Plain
  <2>1. w.role \in Word /\ w.plain /\ w.text \in Text
    BY <1>1 DEF Plain
  <2>2. [Blank(w.role) EXCEPT !.text = w.text] \in Message
    BY <2>1, BlankIs, Rewritten, MarksAreWords
  <2>3. ParseAnthropicMessage(w) = << [Blank(w.role) EXCEPT !.text = w.text] >>
    BY <2>1 DEF ParseAnthropicMessage
  <2> QED BY <2>2, <2>3 DEF Messages
<1>2. CASE w \in Mixed
  <2> DEFINE s == [out |-> <<>>, cur |-> Blank(w.role)]
             t == FoldLeft(TakeBlock, s, w.blocks)
  <2>1. w.role \in Word /\ ~w.plain /\ w.blocks \in Seq(Block)
    BY <1>2 DEF Mixed
  <2>2. s \in Collected
    <3>1. <<>> \in Messages
      BY DEF Messages
    <3> QED BY <2>1, <3>1, BlankIs DEF Collected
  <2>3. ParseAnthropicMessage(w) = Flush(t).out
    BY <2>1 DEF ParseAnthropicMessage
  <2> HIDE DEF s
  <2>4. t \in Collected
    BY <2>1, <2>2, BlocksTaken
  <2> HIDE DEF t
  <2>5. Flush(t) \in Collected
    BY <2>4, FlushTyped
  <2> QED BY <2>3, <2>5 DEF Collected
<1> QED BY <1>1, <1>2

\* ... and so is a request (parseAnthropicRequest).
LEMMA AnthropicTyped ==
    ASSUME NEW conv \in Seq(Turn), conv # <<>>
    PROVE  ParseAnthropicRequest(AnthropicWire(conv)) \in Messages
<1> DEFINE gs == FoldLeft(AnthropicTurn, <<>>, AfterOpening(conv))
           wire == AnthropicWire(conv)
           base == IF wire.system = <<>> THEN <<>>
                   ELSE << [Blank("system") EXCEPT !.text = wire.system] >>
           parsed == [i \in DOMAIN wire.messages |-> ParseAnthropicMessage(wire.messages[i])]
<1>1. gs \in Seq(Group)
  <2>1. AfterOpening(conv) \in Seq(Turn)
    BY DEF AfterOpening
  <2> QED BY <2>1, TurnsGrouped
<1>2. /\ wire.system = Opening(conv)
      /\ wire.messages = [i \in DOMAIN gs |-> AnthropicMessage(gs[i])]
  BY DEF AnthropicWire
<1>3. ParseAnthropicRequest(wire) = base \o FlattenSeq(parsed)
  BY DEF ParseAnthropicRequest
<1>4. base \in Messages
  <2>1. conv[1] \in Turn
    OBVIOUS
  <2>2. Opening(conv) \in Text
    BY <2>1, TurnFacts, TextFacts DEF Opening
  <2>3. Blank("system") \in Message
    BY BlankIs, MarksAreWords
  <2>4. [Blank("system") EXCEPT !.text = wire.system] \in Message
    BY <1>2, <2>2, <2>3, Rewritten, MarksAreWords
  <2> HIDE DEF wire
  <2> QED BY <2>4 DEF Messages
<1> HIDE DEF wire, gs
<1>5. parsed \in Seq(Messages)
  <2>1. \A i \in DOMAIN gs : AnthropicMessage(gs[i]) \in Plain \cup Mixed
    BY <1>1, AnthropicMessageTyped
  <2>2. \A i \in DOMAIN gs : ParseAnthropicMessage(AnthropicMessage(gs[i])) \in Messages
    BY <2>1, MessageParsed
  <2>3. parsed = [i \in DOMAIN gs |-> ParseAnthropicMessage(AnthropicMessage(gs[i]))]
    BY <1>2
  <2> HIDE DEF parsed
  <2> QED BY <1>1, <2>2, <2>3
<1> HIDE DEF base, parsed
<1>6. FlattenSeq(parsed) \in Messages
  BY <1>5, FlattenIs DEF Messages
<1> QED BY <1>3, <1>4, <1>6 DEF Messages, wire

-----------------------------------------------------------------------------
(* What a request carries through the steps of Resolve.                    *)

\* A request carries what it was parsed into, and what is sent was made of that.
Outgoing(x, e) ==
    LET p == Profiles[x.family] IN
    BuildUpstreamMessages(
        PreparePipeline(x.msgs, x.request.tool = "agentic", p, e.chain, e.media),
        p, x.request.tool # "none", x.request.known)
Faithful(x, e) ==
    /\ x.pc \in {"parsed", "allowed", "sent"} =>
          x.request \in Requests \cup Quick /\ x.msgs = Parsed(x.request)
    /\ x.pc = "sent" => x.out = Outgoing(x, e)

Carried == \A c \in Clients : Faithful(call[c], env)

\* What is sent is made of what was parsed, under the settings then in force.
LEMMA FaithfulServe ==
    ASSUME IInv, Carried, UNCHANGED env, NEW c \in Clients,
           call[c].pc \in {"parsed", "allowed"}, NEW family, Serve(c, family)
    PROVE  Carried'
<1> DEFINE r == call[c].request
           p == Profiles[family]
           shaped == PreparePipeline(call[c].msgs, r.tool = "agentic", p, env.chain, env.media)
           out == BuildUpstreamMessages(shaped, p, r.tool # "none", r.known)
           sent == [pc |-> "sent", request |-> r, model |-> r.model, msgs |-> call[c].msgs,
                    wasOpen |-> call[c].wasOpen, family |-> family, out |-> out]
           x == IF r.proto \notin p.protocols THEN [pc |-> "refused"] ELSE sent
<1>1. call' = [call EXCEPT ![c] = x]
  BY DEF Serve
<1>2. r \in Requests \cup Quick /\ call[c].msgs = Parsed(r)
  BY DEF Carried, Faithful
<1>3. /\ sent.pc = "sent" /\ sent.request = r /\ sent.msgs = call[c].msgs
      /\ sent.family = family /\ sent.out = out
  <2> HIDE DEF out
  <2> QED OBVIOUS
<1>4. Faithful(sent, env)
  <2>1. out = Outgoing(sent, env)
    BY <1>3 DEF Outgoing
  <2> HIDE DEF out, sent
  <2> QED BY <1>2, <1>3, <2>1 DEF Faithful
<1>5. Faithful([pc |-> "refused"], env)
  BY DEF Faithful
<1> HIDE DEF sent
<1>6. Faithful(x, env)
  BY <1>4, <1>5
<1> HIDE DEF x
<1>7. \A d \in Clients : call'[d] = IF d = c THEN x ELSE call[d]
  BY <1>1 DEF IInv, Shapes, CallsShape
<1>8. \A d \in Clients : Faithful(call'[d], env')
  BY <1>6, <1>7 DEF Carried, Faithful, Outgoing
<1> QED BY <1>8 DEF Carried

\* No step of an operator, of another client or of a restart changes that.
LEMMA CarriedKeeps == IInv /\ Carried /\ [IntakeNext]_intakeVars => Carried'
<1> SUFFICES ASSUME IInv, Carried, [IntakeNext]_intakeVars PROVE Carried'
  OBVIOUS
<1>0. DOMAIN call = Clients /\ \A c \in Clients : CallShape(call[c])
  BY DEF IInv, Shapes, CallsShape
<1>1. ASSUME UNCHANGED <<env, call>> PROVE Carried'
  BY <1>1 DEF Carried, Faithful, Outgoing
<1>2. ASSUME NEW e \in Editors, NEW doc \in Docs, BeginSave(e, doc) PROVE Carried'
  <2>1. env' = env /\ call' = [c \in Clients |-> UnblocksFrom(doc, c)]
    BY <1>2 DEF BeginSave
  <2>2. ASSUME NEW c \in Clients PROVE Faithful(call'[c], env')
    <3>1. call'[c] = UnblocksFrom(doc, c)
      BY <2>1
    <3>2. CASE call'[c] = call[c]
      BY <2>1, <3>2 DEF Carried, Faithful, Outgoing
    <3>3. CASE call[c].pc \in {"parsed", "allowed"} /\ call'[c] = [call[c] EXCEPT !.wasOpen = TRUE]
      <4>1. DOMAIN call[c] = Pending
        BY <1>0, <3>3 DEF CallShape
      <4>2. call'[c].pc = call[c].pc /\ call'[c].request = call[c].request
            /\ call'[c].msgs = call[c].msgs
        BY <3>3, <4>1 DEF Pending
      <4> QED BY <3>3, <4>2 DEF Carried, Faithful
    <3> QED BY <3>1, <3>2, <3>3 DEF UnblocksFrom
  <2> QED BY <2>2 DEF Carried
<1>3. ASSUME NEW e \in Editors,
             Write(e) \/ Rename(e) \/ SaveFails(e) \/ Replace(e) \/ SetBlocked(e)
      PROVE  Carried'
  BY <1>1, <1>3 DEF Write, Rename, SaveFails, Replace, SetBlocked
<1>4. CASE Restart
  BY <1>4 DEF Restart, Carried, Faithful, NoRequest
<1>5. ASSUME NEW c \in Clients, NEW r \in Arriving, Arrive(c, r) PROVE Carried'
  <2> DEFINE open == \/ r.model \notin ruling.blocked
                     \/ \E e \in Busy : r.model \notin saves[e].doc.blocked
             arrived == [pc |-> "parsed", request |-> r, model |-> r.model, msgs |-> Parsed(r),
                         wasOpen |-> open]
  <2>1. env' = env /\ \/ call' = [call EXCEPT ![c] = [pc |-> "refused"]]
                      \/ call' = [call EXCEPT ![c] = arrived]
    BY <1>5 DEF Arrive
  <2>2. r \in Requests \cup Quick
    BY DEF Arriving
  <2>3. Faithful([pc |-> "refused"], env)
    BY DEF Faithful
  <2>4. arrived.pc = "parsed" /\ arrived.request = r /\ arrived.msgs = Parsed(r)
    OBVIOUS
  <2> HIDE DEF arrived
  <2>5. Faithful(arrived, env)
    BY <2>2, <2>4 DEF Faithful
  <2>6. PICK x : Faithful(x, env) /\ call' = [call EXCEPT ![c] = x]
    BY <2>1, <2>3, <2>5
  <2>7. \A d \in Clients : Faithful(call'[d], env')
    BY <1>0, <2>1, <2>6 DEF Carried, Faithful, Outgoing
  <2> QED BY <2>7 DEF Carried
<1>6. ASSUME NEW c \in Clients, ResolveExplicit(c) \/ LookUp(c) PROVE Carried'
  BY <1>6, FaithfulServe DEF ResolveExplicit, LookUp
<1>7. ASSUME NEW c \in Clients, CheckBlocked(c) PROVE Carried'
  <2> DEFINE on == [call[c] EXCEPT !.pc = "allowed"]
  <2>1. env' = env /\ call[c].pc = "parsed"
        /\ \/ call' = [call EXCEPT ![c] = [pc |-> "refused"]]
           \/ call' = [call EXCEPT ![c] = on]
    BY <1>7 DEF CheckBlocked
  <2>2. DOMAIN call[c] = Pending
    BY <1>0, <2>1 DEF CallShape
  <2>3. on.pc = "allowed" /\ on.request = call[c].request /\ on.msgs = call[c].msgs
    BY <2>2 DEF Pending
  <2> HIDE DEF on
  <2>4. Faithful(on, env) /\ Faithful([pc |-> "refused"], env)
    BY <2>1, <2>3 DEF Carried, Faithful
  <2>5. PICK x : Faithful(x, env) /\ call' = [call EXCEPT ![c] = x]
    BY <2>1, <2>4
  <2>6. \A d \in Clients : Faithful(call'[d], env')
    BY <1>0, <2>1, <2>5 DEF Carried, Faithful, Outgoing
  <2> QED BY <2>6 DEF Carried
<1>8. ASSUME NEW c \in Clients, Leave(c) PROVE Carried'
  <2>1. env' = env /\ call' = [call EXCEPT ![c] = NoRequest]
    BY <1>8 DEF Leave
  <2>2. Faithful(NoRequest, env)
    BY DEF Faithful, NoRequest
  <2>3. \A d \in Clients : Faithful(call'[d], env')
    BY <1>0, <1>8, <2>2 DEF Leave, Carried, Faithful, Outgoing
  <2> QED BY <2>3 DEF Carried
<1>9. CASE UNCHANGED intakeVars
  BY <1>1, <1>9 DEF intakeVars
<1> QED
  BY <1>2, <1>3, <1>4, <1>5, <1>6, <1>7, <1>8, <1>9 DEF IntakeNext

\* So a request always carries what it was parsed into.
LEMMA CarriedAlways == IntakeSpec => []Carried
<1>1. IntakeInit => Carried
  BY DEF IntakeInit, Carried, Faithful, NoRequest
<1> QED BY <1>1, CarriedKeeps, IntakeInductive, PTL DEF IntakeSpec

\* What a request is parsed into is a list of messages, in every protocol.
LEMMA ParsedTyped ==
    ASSUME NEW r \in Requests \cup Quick
    PROVE  Parsed(r) \in Messages
<1>1. r.conv \in Seq(AnyTurn) /\ r.conv # <<>>
  BY IntakeAssumption
<1>2. Seq(STRING) \subseteq Text
  <2>1. STRING \subseteq Word
    BY DEF Word
  <2> HIDE DEF Word
  <2> QED BY <2>1, SeqMonotonic DEF Text
<1>3. AnyTurn \subseteq Turn
  BY <1>2 DEF AnyTurn, Turn
<1>4. r.conv \in Seq(Turn)
  BY <1>1, <1>3, SeqMonotonic
<1> QED BY <1>1, <1>4, ChatTyped, AnthropicTyped, ResponsesTyped DEF Parsed

-----------------------------------------------------------------------------
(* The folds of the three parsers, followed element by element.            *)

\* The first k of n positions.
LEMMA Within ==
    ASSUME NEW n \in Nat, NEW k \in 1 .. n
    PROVE  /\ Max(1 .. k) = k /\ (1 .. k) \ {k} = 1 .. (k - 1)
           /\ 1 .. k \in SUBSET (1 .. n) /\ 1 .. k # {}
<1>1. k \in 1 .. k /\ 1 .. k \in SUBSET (1 .. n)
  OBVIOUS
<1>2. k \in Nat /\ k # 0
  OBVIOUS
<1> QED BY <1>1, <1>2, MaxUpTo

\* ... and all of them, one after the other (parseMessage).
LEMMA PartsTraced ==
    ASSUME NEW m \in Message, NEW parts \in Seq(Part)
    PROVE  \E F \in [0 .. Len(parts) -> Message] :
              /\ F[0] = m
              /\ \A k \in 1 .. Len(parts) : F[k] = TakePart(F[k - 1], parts[k])
              /\ FoldLeft(TakePart, m, parts) = F[Len(parts)]
<1> DEFINE n == Len(parts)
           g == [x \in Message \X (1 .. n) |-> TakePart(x[1], parts[x[2]])]
           Is(h) == h = [S \in SUBSET DOMAIN parts |->
                           IF S = {} THEN m ELSE TakePart(h[S \ {Max(S)}], parts[Max(S)])]
           f == CHOOSE h : Is(h)
           F == [k \in 0 .. n |-> f[1 .. k]]
<1>a. n \in Nat
  OBVIOUS
<1>0. n \in Nat /\ DOMAIN parts = 1 .. n /\ \A k \in 1 .. n : parts[k] \in Part
  OBVIOUS
<1>1. ASSUME NEW a \in Message, NEW k \in 1 .. n PROVE TakePart(a, parts[k]) \in Message
  BY <1>0, PartTaken
<1>2. g \in [Message \X (1 .. n) -> Message]
  BY <1>1
<1>3. PICK h \in [SUBSET (1 .. n) -> Message] : Stepped(n, m, g, h)
  <2> HIDE DEF g
  <2> QED BY <1>0, <1>2, FoldExists
<1>4. Is(h)
  <2>1. \A S \in SUBSET (1 .. n) : S # {} => Max(S) \in 1 .. n /\ S \ {Max(S)} \in SUBSET (1 .. n)
    BY <1>0, MaxIs
  <2>2. \A S \in SUBSET (1 .. n) : S # {} =>
          g[<<h[S \ {Max(S)}], Max(S)>>] = TakePart(h[S \ {Max(S)}], parts[Max(S)])
    BY <2>1
  <2> HIDE DEF g
  <2> QED BY <1>0, <1>3, <2>2 DEF Stepped
<1>5. Is(f)
  BY <1>4
<1>6. f[{}] = m
  BY <1>5
<1>7. \A S \in SUBSET (1 .. n) : S # {} =>
         f[S] = TakePart(f[S \ {Max(S)}], parts[Max(S)]) /\ Max(S) \in 1 .. n
  BY <1>0, <1>5, MaxIs
<1>8. FoldLeft(TakePart, m, parts) = f[DOMAIN parts]
  BY DEF FoldLeft, MapThenFoldSet
<1> HIDE DEF f, Is, g
<1>9. ASSUME NEW k \in 0 .. n PROVE f[1 .. k] \in Message
  <2>1. k \in Nat /\ \A S \in SUBSET (1 .. k) : S \in SUBSET (1 .. n)
    <3> HIDE DEF n
    <3> QED BY <1>a
  <2>2. \A S \in SUBSET (1 .. k) : S # {} /\ f[S \ {Max(S)}] \in Message => f[S] \in Message
    BY <1>1, <1>7, <2>1
  <2> QED BY <1>6, <2>1, <2>2, FoldIn
<1>10. ASSUME NEW k \in 1 .. n PROVE f[1 .. k] = TakePart(f[1 .. (k - 1)], parts[k])
  <2>1. /\ Max(1 .. k) = k /\ (1 .. k) \ {k} = 1 .. (k - 1)
        /\ 1 .. k \in SUBSET (1 .. n) /\ 1 .. k # {}
    BY <1>a, Within
  <2> QED BY <1>7, <2>1
<1>11. F \in [0 .. n -> Message] /\ F[0] = m /\ F[n] = f[1 .. n]
  <2>1. 1 .. 0 = {}
    OBVIOUS
  <2> QED BY <1>a, <1>6, <1>9, <2>1
<1>12. \A k \in 1 .. n : F[k] = f[1 .. k] /\ F[k - 1] = f[1 .. (k - 1)]
  BY <1>a
<1> HIDE DEF F
<1>13. \A k \in 1 .. n : F[k] = TakePart(F[k - 1], parts[k])
  BY <1>10, <1>12
<1> QED BY <1>0, <1>8, <1>11, <1>13

\* ... one after the other
LEMMA ItemsTraced ==
    ASSUME NEW ms \in Messages, NEW more \in Seq(Message)
    PROVE  \E F \in [0 .. Len(more) -> Messages] :
              /\ F[0] = ms
              /\ \A k \in 1 .. Len(more) : F[k] = JoinItem(F[k - 1], more[k])
              /\ FoldLeft(JoinItem, ms, more) = F[Len(more)]
<1> DEFINE n == Len(more)
           g == [x \in Messages \X (1 .. n) |-> JoinItem(x[1], more[x[2]])]
           Is(h) == h = [S \in SUBSET DOMAIN more |->
                           IF S = {} THEN ms ELSE JoinItem(h[S \ {Max(S)}], more[Max(S)])]
           f == CHOOSE h : Is(h)
           F == [k \in 0 .. n |-> f[1 .. k]]
<1>a. n \in Nat
  OBVIOUS
<1>0. n \in Nat /\ DOMAIN more = 1 .. n /\ \A k \in 1 .. n : more[k] \in Message
  OBVIOUS
<1>1. ASSUME NEW a \in Messages, NEW k \in 1 .. n PROVE JoinItem(a, more[k]) \in Messages
  BY <1>0, ItemJoined
<1>2. g \in [Messages \X (1 .. n) -> Messages]
  BY <1>1
<1>3. PICK h \in [SUBSET (1 .. n) -> Messages] : Stepped(n, ms, g, h)
  <2> HIDE DEF g
  <2> QED BY <1>0, <1>2, FoldExists
<1>4. Is(h)
  <2>1. \A S \in SUBSET (1 .. n) : S # {} => Max(S) \in 1 .. n /\ S \ {Max(S)} \in SUBSET (1 .. n)
    BY <1>0, MaxIs
  <2>2. \A S \in SUBSET (1 .. n) : S # {} =>
          g[<<h[S \ {Max(S)}], Max(S)>>] = JoinItem(h[S \ {Max(S)}], more[Max(S)])
    BY <2>1
  <2> HIDE DEF g
  <2> QED BY <1>0, <1>3, <2>2 DEF Stepped
<1>5. Is(f)
  BY <1>4
<1>6. f[{}] = ms
  BY <1>5
<1>7. \A S \in SUBSET (1 .. n) : S # {} =>
         f[S] = JoinItem(f[S \ {Max(S)}], more[Max(S)]) /\ Max(S) \in 1 .. n
  BY <1>0, <1>5, MaxIs
<1>8. FoldLeft(JoinItem, ms, more) = f[DOMAIN more]
  BY DEF FoldLeft, MapThenFoldSet
<1> HIDE DEF f, Is, g
<1>9. ASSUME NEW k \in 0 .. n PROVE f[1 .. k] \in Messages
  <2>1. k \in Nat /\ \A S \in SUBSET (1 .. k) : S \in SUBSET (1 .. n)
    <3> HIDE DEF n
    <3> QED BY <1>a
  <2>2. \A S \in SUBSET (1 .. k) : S # {} /\ f[S \ {Max(S)}] \in Messages => f[S] \in Messages
    BY <1>1, <1>7, <2>1
  <2> QED BY <1>6, <2>1, <2>2, FoldIn
<1>10. ASSUME NEW k \in 1 .. n PROVE f[1 .. k] = JoinItem(f[1 .. (k - 1)], more[k])
  <2>1. /\ Max(1 .. k) = k /\ (1 .. k) \ {k} = 1 .. (k - 1)
        /\ 1 .. k \in SUBSET (1 .. n) /\ 1 .. k # {}
    BY <1>a, Within
  <2> QED BY <1>7, <2>1
<1>11. F \in [0 .. n -> Messages] /\ F[0] = ms /\ F[n] = f[1 .. n]
  <2>1. 1 .. 0 = {}
    OBVIOUS
  <2> QED BY <1>a, <1>6, <1>9, <2>1
<1>12. \A k \in 1 .. n : F[k] = f[1 .. k] /\ F[k - 1] = f[1 .. (k - 1)]
  BY <1>a
<1> HIDE DEF F
<1>13. \A k \in 1 .. n : F[k] = JoinItem(F[k - 1], more[k])
  BY <1>10, <1>12
<1> QED BY <1>0, <1>8, <1>11, <1>13

\* The items of a request are taken one after the other
LEMMA InputTraced ==
    ASSUME NEW base \in Messages, NEW items \in Seq(Item)
    PROVE  \E F \in [0 .. Len(items) -> Messages] :
              /\ F[0] = base
              /\ \A k \in 1 .. Len(items) : F[k] = FoldLeft(JoinItem, F[k - 1], ParseResponsesItem(items[k]))
              /\ FoldLeft(LAMBDA msgs, it : FoldLeft(JoinItem, msgs, ParseResponsesItem(it)), base, items) = F[Len(items)]
<1> DEFINE n == Len(items)
           g == [x \in Messages \X (1 .. n) |-> FoldLeft(JoinItem, x[1], ParseResponsesItem(items[x[2]]))]
           Is(h) == h = [S \in SUBSET DOMAIN items |->
                           IF S = {} THEN base ELSE FoldLeft(JoinItem, h[S \ {Max(S)}], ParseResponsesItem(items[Max(S)]))]
           f == CHOOSE h : Is(h)
           F == [k \in 0 .. n |-> f[1 .. k]]
<1>a. n \in Nat
  OBVIOUS
<1>0. n \in Nat /\ DOMAIN items = 1 .. n /\ \A k \in 1 .. n : items[k] \in Item
  OBVIOUS
<1>1. ASSUME NEW a \in Messages, NEW k \in 1 .. n PROVE FoldLeft(JoinItem, a, ParseResponsesItem(items[k])) \in Messages
  BY <1>0, ItemTyped, ItemsJoined
<1>2. g \in [Messages \X (1 .. n) -> Messages]
  BY <1>1
<1>3. PICK h \in [SUBSET (1 .. n) -> Messages] : Stepped(n, base, g, h)
  <2> HIDE DEF g
  <2> QED BY <1>0, <1>2, FoldExists
<1>4. Is(h)
  <2>1. \A S \in SUBSET (1 .. n) : S # {} => Max(S) \in 1 .. n /\ S \ {Max(S)} \in SUBSET (1 .. n)
    BY <1>0, MaxIs
  <2>2. \A S \in SUBSET (1 .. n) : S # {} =>
          g[<<h[S \ {Max(S)}], Max(S)>>] = FoldLeft(JoinItem, h[S \ {Max(S)}], ParseResponsesItem(items[Max(S)]))
    BY <2>1
  <2> HIDE DEF g
  <2> QED BY <1>0, <1>3, <2>2 DEF Stepped
<1>5. Is(f)
  BY <1>4
<1>6. f[{}] = base
  BY <1>5
<1>7. \A S \in SUBSET (1 .. n) : S # {} =>
         f[S] = FoldLeft(JoinItem, f[S \ {Max(S)}], ParseResponsesItem(items[Max(S)])) /\ Max(S) \in 1 .. n
  BY <1>0, <1>5, MaxIs
<1>8. FoldLeft(LAMBDA msgs, it : FoldLeft(JoinItem, msgs, ParseResponsesItem(it)), base, items) = f[DOMAIN items]
  BY DEF FoldLeft, MapThenFoldSet
<1> HIDE DEF f, Is, g
<1>9. ASSUME NEW k \in 0 .. n PROVE f[1 .. k] \in Messages
  <2>1. k \in Nat /\ \A S \in SUBSET (1 .. k) : S \in SUBSET (1 .. n)
    <3> HIDE DEF n
    <3> QED BY <1>a
  <2>2. \A S \in SUBSET (1 .. k) : S # {} /\ f[S \ {Max(S)}] \in Messages => f[S] \in Messages
    BY <1>1, <1>7, <2>1
  <2> QED BY <1>6, <2>1, <2>2, FoldIn
<1>10. ASSUME NEW k \in 1 .. n PROVE f[1 .. k] = FoldLeft(JoinItem, f[1 .. (k - 1)], ParseResponsesItem(items[k]))
  <2>1. /\ Max(1 .. k) = k /\ (1 .. k) \ {k} = 1 .. (k - 1)
        /\ 1 .. k \in SUBSET (1 .. n) /\ 1 .. k # {}
    BY <1>a, Within
  <2> QED BY <1>7, <2>1
<1>11. F \in [0 .. n -> Messages] /\ F[0] = base /\ F[n] = f[1 .. n]
  <2>1. 1 .. 0 = {}
    OBVIOUS
  <2> QED BY <1>a, <1>6, <1>9, <2>1
<1>12. \A k \in 1 .. n : F[k] = f[1 .. k] /\ F[k - 1] = f[1 .. (k - 1)]
  BY <1>a
<1> HIDE DEF F
<1>13. \A k \in 1 .. n : F[k] = FoldLeft(JoinItem, F[k - 1], ParseResponsesItem(items[k]))
  BY <1>10, <1>12
<1> QED BY <1>0, <1>8, <1>11, <1>13

\* ... one turn after the other
LEMMA TurnsTraced ==
    ASSUME NEW gs \in Seq(Group), NEW turns \in Seq(Turn)
    PROVE  \E F \in [0 .. Len(turns) -> Seq(Group)] :
              /\ F[0] = gs
              /\ \A k \in 1 .. Len(turns) : F[k] = AnthropicTurn(F[k - 1], turns[k])
              /\ FoldLeft(AnthropicTurn, gs, turns) = F[Len(turns)]
<1> DEFINE n == Len(turns)
           g == [x \in Seq(Group) \X (1 .. n) |-> AnthropicTurn(x[1], turns[x[2]])]
           Is(h) == h = [S \in SUBSET DOMAIN turns |->
                           IF S = {} THEN gs ELSE AnthropicTurn(h[S \ {Max(S)}], turns[Max(S)])]
           f == CHOOSE h : Is(h)
           F == [k \in 0 .. n |-> f[1 .. k]]
<1>a. n \in Nat
  OBVIOUS
<1>0. n \in Nat /\ DOMAIN turns = 1 .. n /\ \A k \in 1 .. n : turns[k] \in Turn
  OBVIOUS
<1>1. ASSUME NEW a \in Seq(Group), NEW k \in 1 .. n PROVE AnthropicTurn(a, turns[k]) \in Seq(Group)
  BY <1>0, AnthropicTurnTyped
<1>2. g \in [Seq(Group) \X (1 .. n) -> Seq(Group)]
  BY <1>1
<1>3. PICK h \in [SUBSET (1 .. n) -> Seq(Group)] : Stepped(n, gs, g, h)
  <2> HIDE DEF g
  <2> QED BY <1>0, <1>2, FoldExists
<1>4. Is(h)
  <2>1. \A S \in SUBSET (1 .. n) : S # {} => Max(S) \in 1 .. n /\ S \ {Max(S)} \in SUBSET (1 .. n)
    BY <1>0, MaxIs
  <2>2. \A S \in SUBSET (1 .. n) : S # {} =>
          g[<<h[S \ {Max(S)}], Max(S)>>] = AnthropicTurn(h[S \ {Max(S)}], turns[Max(S)])
    BY <2>1
  <2> HIDE DEF g
  <2> QED BY <1>0, <1>3, <2>2 DEF Stepped
<1>5. Is(f)
  BY <1>4
<1>6. f[{}] = gs
  BY <1>5
<1>7. \A S \in SUBSET (1 .. n) : S # {} =>
         f[S] = AnthropicTurn(f[S \ {Max(S)}], turns[Max(S)]) /\ Max(S) \in 1 .. n
  BY <1>0, <1>5, MaxIs
<1>8. FoldLeft(AnthropicTurn, gs, turns) = f[DOMAIN turns]
  BY DEF FoldLeft, MapThenFoldSet
<1> HIDE DEF f, Is, g
<1>9. ASSUME NEW k \in 0 .. n PROVE f[1 .. k] \in Seq(Group)
  <2>1. k \in Nat /\ \A S \in SUBSET (1 .. k) : S \in SUBSET (1 .. n)
    <3> HIDE DEF n
    <3> QED BY <1>a
  <2>2. \A S \in SUBSET (1 .. k) : S # {} /\ f[S \ {Max(S)}] \in Seq(Group) => f[S] \in Seq(Group)
    BY <1>1, <1>7, <2>1
  <2> QED BY <1>6, <2>1, <2>2, FoldIn
<1>10. ASSUME NEW k \in 1 .. n PROVE f[1 .. k] = AnthropicTurn(f[1 .. (k - 1)], turns[k])
  <2>1. /\ Max(1 .. k) = k /\ (1 .. k) \ {k} = 1 .. (k - 1)
        /\ 1 .. k \in SUBSET (1 .. n) /\ 1 .. k # {}
    BY <1>a, Within
  <2> QED BY <1>7, <2>1
<1>11. F \in [0 .. n -> Seq(Group)] /\ F[0] = gs /\ F[n] = f[1 .. n]
  <2>1. 1 .. 0 = {}
    OBVIOUS
  <2> QED BY <1>a, <1>6, <1>9, <2>1
<1>12. \A k \in 1 .. n : F[k] = f[1 .. k] /\ F[k - 1] = f[1 .. (k - 1)]
  BY <1>a
<1> HIDE DEF F
<1>13. \A k \in 1 .. n : F[k] = AnthropicTurn(F[k - 1], turns[k])
  BY <1>10, <1>12
<1> QED BY <1>0, <1>8, <1>11, <1>13

\* The parts of a result are taken one after the other
LEMMA ResultPartsTraced ==
    ASSUME NEW m \in Message, NEW parts \in Seq(Part)
    PROVE  \E F \in [0 .. Len(parts) -> Message] :
              /\ F[0] = m
              /\ \A k \in 1 .. Len(parts) : F[k] = TakeResultPart(F[k - 1], parts[k])
              /\ FoldLeft(TakeResultPart, m, parts) = F[Len(parts)]
<1> DEFINE n == Len(parts)
           g == [x \in Message \X (1 .. n) |-> TakeResultPart(x[1], parts[x[2]])]
           Is(h) == h = [S \in SUBSET DOMAIN parts |->
                           IF S = {} THEN m ELSE TakeResultPart(h[S \ {Max(S)}], parts[Max(S)])]
           f == CHOOSE h : Is(h)
           F == [k \in 0 .. n |-> f[1 .. k]]
<1>a. n \in Nat
  OBVIOUS
<1>0. n \in Nat /\ DOMAIN parts = 1 .. n /\ \A k \in 1 .. n : parts[k] \in Part
  OBVIOUS
<1>1. ASSUME NEW a \in Message, NEW k \in 1 .. n PROVE TakeResultPart(a, parts[k]) \in Message
  BY <1>0, PartTaken
<1>2. g \in [Message \X (1 .. n) -> Message]
  BY <1>1
<1>3. PICK h \in [SUBSET (1 .. n) -> Message] : Stepped(n, m, g, h)
  <2> HIDE DEF g
  <2> QED BY <1>0, <1>2, FoldExists
<1>4. Is(h)
  <2>1. \A S \in SUBSET (1 .. n) : S # {} => Max(S) \in 1 .. n /\ S \ {Max(S)} \in SUBSET (1 .. n)
    BY <1>0, MaxIs
  <2>2. \A S \in SUBSET (1 .. n) : S # {} =>
          g[<<h[S \ {Max(S)}], Max(S)>>] = TakeResultPart(h[S \ {Max(S)}], parts[Max(S)])
    BY <2>1
  <2> HIDE DEF g
  <2> QED BY <1>0, <1>3, <2>2 DEF Stepped
<1>5. Is(f)
  BY <1>4
<1>6. f[{}] = m
  BY <1>5
<1>7. \A S \in SUBSET (1 .. n) : S # {} =>
         f[S] = TakeResultPart(f[S \ {Max(S)}], parts[Max(S)]) /\ Max(S) \in 1 .. n
  BY <1>0, <1>5, MaxIs
<1>8. FoldLeft(TakeResultPart, m, parts) = f[DOMAIN parts]
  BY DEF FoldLeft, MapThenFoldSet
<1> HIDE DEF f, Is, g
<1>9. ASSUME NEW k \in 0 .. n PROVE f[1 .. k] \in Message
  <2>1. k \in Nat /\ \A S \in SUBSET (1 .. k) : S \in SUBSET (1 .. n)
    <3> HIDE DEF n
    <3> QED BY <1>a
  <2>2. \A S \in SUBSET (1 .. k) : S # {} /\ f[S \ {Max(S)}] \in Message => f[S] \in Message
    BY <1>1, <1>7, <2>1
  <2> QED BY <1>6, <2>1, <2>2, FoldIn
<1>10. ASSUME NEW k \in 1 .. n PROVE f[1 .. k] = TakeResultPart(f[1 .. (k - 1)], parts[k])
  <2>1. /\ Max(1 .. k) = k /\ (1 .. k) \ {k} = 1 .. (k - 1)
        /\ 1 .. k \in SUBSET (1 .. n) /\ 1 .. k # {}
    BY <1>a, Within
  <2> QED BY <1>7, <2>1
<1>11. F \in [0 .. n -> Message] /\ F[0] = m /\ F[n] = f[1 .. n]
  <2>1. 1 .. 0 = {}
    OBVIOUS
  <2> QED BY <1>a, <1>6, <1>9, <2>1
<1>12. \A k \in 1 .. n : F[k] = f[1 .. k] /\ F[k - 1] = f[1 .. (k - 1)]
  BY <1>a
<1> HIDE DEF F
<1>13. \A k \in 1 .. n : F[k] = TakeResultPart(F[k - 1], parts[k])
  BY <1>10, <1>12
<1> QED BY <1>0, <1>8, <1>11, <1>13

\* ... one block after the other
LEMMA BlocksTraced ==
    ASSUME NEW s \in Collected, NEW blocks \in Seq(Block)
    PROVE  \E F \in [0 .. Len(blocks) -> Collected] :
              /\ F[0] = s
              /\ \A k \in 1 .. Len(blocks) : F[k] = TakeBlock(F[k - 1], blocks[k])
              /\ FoldLeft(TakeBlock, s, blocks) = F[Len(blocks)]
<1> DEFINE n == Len(blocks)
           g == [x \in Collected \X (1 .. n) |-> TakeBlock(x[1], blocks[x[2]])]
           Is(h) == h = [S \in SUBSET DOMAIN blocks |->
                           IF S = {} THEN s ELSE TakeBlock(h[S \ {Max(S)}], blocks[Max(S)])]
           f == CHOOSE h : Is(h)
           F == [k \in 0 .. n |-> f[1 .. k]]
<1>a. n \in Nat
  OBVIOUS
<1>0. n \in Nat /\ DOMAIN blocks = 1 .. n /\ \A k \in 1 .. n : blocks[k] \in Block
  OBVIOUS
<1>1. ASSUME NEW a \in Collected, NEW k \in 1 .. n PROVE TakeBlock(a, blocks[k]) \in Collected
  BY <1>0, BlockTaken
<1>2. g \in [Collected \X (1 .. n) -> Collected]
  BY <1>1
<1>3. PICK h \in [SUBSET (1 .. n) -> Collected] : Stepped(n, s, g, h)
  <2> HIDE DEF g
  <2> QED BY <1>0, <1>2, FoldExists
<1>4. Is(h)
  <2>1. \A S \in SUBSET (1 .. n) : S # {} => Max(S) \in 1 .. n /\ S \ {Max(S)} \in SUBSET (1 .. n)
    BY <1>0, MaxIs
  <2>2. \A S \in SUBSET (1 .. n) : S # {} =>
          g[<<h[S \ {Max(S)}], Max(S)>>] = TakeBlock(h[S \ {Max(S)}], blocks[Max(S)])
    BY <2>1
  <2> HIDE DEF g
  <2> QED BY <1>0, <1>3, <2>2 DEF Stepped
<1>5. Is(f)
  BY <1>4
<1>6. f[{}] = s
  BY <1>5
<1>7. \A S \in SUBSET (1 .. n) : S # {} =>
         f[S] = TakeBlock(f[S \ {Max(S)}], blocks[Max(S)]) /\ Max(S) \in 1 .. n
  BY <1>0, <1>5, MaxIs
<1>8. FoldLeft(TakeBlock, s, blocks) = f[DOMAIN blocks]
  BY DEF FoldLeft, MapThenFoldSet
<1> HIDE DEF f, Is, g
<1>9. ASSUME NEW k \in 0 .. n PROVE f[1 .. k] \in Collected
  <2>1. k \in Nat /\ \A S \in SUBSET (1 .. k) : S \in SUBSET (1 .. n)
    <3> HIDE DEF n
    <3> QED BY <1>a
  <2>2. \A S \in SUBSET (1 .. k) : S # {} /\ f[S \ {Max(S)}] \in Collected => f[S] \in Collected
    BY <1>1, <1>7, <2>1
  <2> QED BY <1>6, <2>1, <2>2, FoldIn
<1>10. ASSUME NEW k \in 1 .. n PROVE f[1 .. k] = TakeBlock(f[1 .. (k - 1)], blocks[k])
  <2>1. /\ Max(1 .. k) = k /\ (1 .. k) \ {k} = 1 .. (k - 1)
        /\ 1 .. k \in SUBSET (1 .. n) /\ 1 .. k # {}
    BY <1>a, Within
  <2> QED BY <1>7, <2>1
<1>11. F \in [0 .. n -> Collected] /\ F[0] = s /\ F[n] = f[1 .. n]
  <2>1. 1 .. 0 = {}
    OBVIOUS
  <2> QED BY <1>a, <1>6, <1>9, <2>1
<1>12. \A k \in 1 .. n : F[k] = f[1 .. k] /\ F[k - 1] = f[1 .. (k - 1)]
  BY <1>a
<1> HIDE DEF F
<1>13. \A k \in 1 .. n : F[k] = TakeBlock(F[k - 1], blocks[k])
  BY <1>10, <1>12
<1> QED BY <1>0, <1>8, <1>11, <1>13

\* A filter goes from element to element.
LEMMA KeepTraced ==
    ASSUME NEW A, NEW s \in Seq(A), NEW I \in SUBSET (1 .. Len(s))
    PROVE  \E F \in [0 .. Len(s) -> Seq(A)] :
              /\ F[0] = <<>> /\ F[Len(s)] = Keep(s, I)
              /\ \A k \in 1 .. Len(s) :
                    F[k] = IF k \in I THEN Append(F[k - 1], s[k]) ELSE F[k - 1]
<1> DEFINE n == Len(s)
           g == [x \in Seq(A) \X (1 .. n) |->
                    IF x[2] \in I THEN Append(x[1], s[x[2]]) ELSE x[1]]
           here == [i \in DOMAIN s |-> i]
           Is(h) == h = [S \in SUBSET DOMAIN here |->
                           IF S = {} THEN <<>>
                           ELSE IF here[Max(S)] \in I THEN Append(h[S \ {Max(S)}], s[here[Max(S)]])
                                ELSE h[S \ {Max(S)}]]
           f == CHOOSE h : Is(h)
<1>0. n \in Nat /\ DOMAIN s = 1 .. n /\ DOMAIN here = 1 .. n /\ \A i \in 1 .. n : here[i] = i
  OBVIOUS
<1>1. g \in [Seq(A) \X (1 .. n) -> Seq(A)] /\ <<>> \in Seq(A)
  OBVIOUS
<1>2. PICK h \in [SUBSET (1 .. n) -> Seq(A)] : Stepped(n, <<>>, g, h)
  <2> HIDE DEF g
  <2> QED BY <1>0, <1>1, FoldExists
<1>3. Is(h)
  <2>1. \A S \in SUBSET (1 .. n) : S # {} => Max(S) \in 1 .. n /\ S \ {Max(S)} \in SUBSET (1 .. n)
    BY <1>0, MaxIs
  <2>2. \A S \in SUBSET (1 .. n) : S # {} =>
          g[<<h[S \ {Max(S)}], Max(S)>>] =
             IF Max(S) \in I THEN Append(h[S \ {Max(S)}], s[Max(S)]) ELSE h[S \ {Max(S)}]
    BY <2>1
  <2>3. \A S \in SUBSET (1 .. n) : S # {} => here[Max(S)] = Max(S)
    BY <1>0, <2>1
  <2>4. h = [S \in SUBSET (1 .. n) |-> IF S = {} THEN <<>> ELSE g[<<h[S \ {Max(S)}], Max(S)>>]]
    BY <1>2 DEF Stepped
  <2> HIDE DEF g, here
  <2>5. \A S \in SUBSET DOMAIN here :
           h[S] = IF S = {} THEN <<>>
                  ELSE IF here[Max(S)] \in I THEN Append(h[S \ {Max(S)}], s[here[Max(S)]])
                       ELSE h[S \ {Max(S)}]
    <3> SUFFICES ASSUME NEW S \in SUBSET (1 .. n)
                 PROVE  h[S] = IF S = {} THEN <<>>
                               ELSE IF here[Max(S)] \in I
                                    THEN Append(h[S \ {Max(S)}], s[here[Max(S)]])
                                    ELSE h[S \ {Max(S)}]
      BY <1>0
    <3>1. h[S] = IF S = {} THEN <<>> ELSE g[<<h[S \ {Max(S)}], Max(S)>>]
      BY <2>4
    <3> QED BY <2>2, <2>3, <3>1
  <2>6. h = [S \in SUBSET DOMAIN here |-> h[S]]
    BY <1>0, <2>4
  <2> QED BY <2>5, <2>6
<1>4. Is(f)
  BY <1>3
<1>5. f[{}] = <<>> /\ \A k \in 1 .. n :
        f[1 .. k] = IF k \in I THEN Append(f[1 .. (k - 1)], s[k]) ELSE f[1 .. (k - 1)]
  <2>1. f[{}] = <<>>
    BY <1>0, <1>4
  <2>2. ASSUME NEW k \in 1 .. n
        PROVE  f[1 .. k] = IF k \in I THEN Append(f[1 .. (k - 1)], s[k]) ELSE f[1 .. (k - 1)]
    <3>1. Max(1 .. k) = k /\ (1 .. k) \ {k} = 1 .. (k - 1) /\ 1 .. k # {}
      BY MaxUpTo
    <3>2. 1 .. k \in SUBSET DOMAIN here /\ here[k] = k
      BY <1>0
    <3> HIDE DEF f, here
    <3>3. f[1 .. k] = IF here[k] \in I THEN Append(f[1 .. (k - 1)], s[here[k]])
                      ELSE f[1 .. (k - 1)]
      BY <1>4, <3>1, <3>2
    <3> QED BY <3>2, <3>3
  <2> HIDE DEF f
  <2> QED BY <2>1, <2>2
<1>6. Keep(s, I) = f[DOMAIN here]
  BY DEF Keep, FoldLeftDomain, FoldLeft, MapThenFoldSet, f
<1> HIDE DEF f, here
<1> DEFINE F == [k \in 0 .. n |-> f[1 .. k]]
           T == {k \in 0 .. n : f[1 .. k] \in Seq(A)}
<1>7. 0 \in T
  <2>1. 1 .. 0 = {} /\ <<>> \in Seq(A)
    OBVIOUS
  <2>2. f[1 .. 0] \in Seq(A)
    BY <1>5, <2>1
  <2>3. 0 \in 0 .. n
    BY <1>0
  <2> QED BY <2>2, <2>3
<1>8. ASSUME NEW k \in 1 .. n, k - 1 \in T PROVE k \in T
  <2>1. f[1 .. (k - 1)] \in Seq(A) /\ s[k] \in A
    BY <1>0, <1>8
  <2>2. Append(f[1 .. (k - 1)], s[k]) \in Seq(A)
    BY <2>1
  <2>3. f[1 .. k] \in Seq(A)
    BY <1>5, <2>1, <2>2
  <2>4. k \in 0 .. n
    OBVIOUS
  <2> QED BY <2>3, <2>4
<1>9. 0 .. n \subseteq T
  <2> HIDE DEF T
  <2> QED BY <1>0, <1>7, <1>8, UpTo
<1>10. F \in [0 .. n -> Seq(A)]
  BY <1>9
<1>11. F[0] = <<>> /\ F[n] = f[1 .. n]
  <2>1. 1 .. 0 = {}
    OBVIOUS
  <2> QED BY <1>0, <1>5, <2>1
<1>12. \A k \in 1 .. n : F[k] = f[1 .. k] /\ F[k - 1] = f[1 .. (k - 1)]
  <2> HIDE DEF n
  <2> QED BY <1>0
<1> HIDE DEF F
<1>13. \A k \in 1 .. n : F[k] = IF k \in I THEN Append(F[k - 1], s[k]) ELSE F[k - 1]
  BY <1>5, <1>12
<1> QED BY <1>0, <1>6, <1>10, <1>11, <1>13

\* ... one after the other.
LEMMA FlattenTraced ==
    ASSUME NEW A, NEW seqs \in Seq(Seq(A))
    PROVE  \E F \in [0 .. Len(seqs) -> Seq(A)] :
              /\ F[0] = <<>> /\ F[Len(seqs)] = FlattenSeq(seqs)
              /\ \A k \in 1 .. Len(seqs) : F[k] = F[k - 1] \o seqs[k]
<1> DEFINE n == Len(seqs)
           nxt(f, i) == IF i = 1 THEN seqs[i] ELSE f[i - 1] \o seqs[i]
           Is(f) == f = [i \in 1 .. n |-> nxt(f, i)]
           Good(f, k) == f \in [1 .. k -> Seq(A)] /\ \A i \in 1 .. k : f[i] = nxt(f, i)
           f0 == CHOOSE f : Is(f)
           T == {k \in 0 .. n : \E f : Good(f, k)}
<1>0. n \in Nat /\ \A i \in 1 .. n : seqs[i] \in Seq(A)
  OBVIOUS
<1>1. 0 \in T
  <2>1. Good([i \in {} |-> <<>>], 0)
    OBVIOUS
  <2> HIDE DEF Good
  <2> QED BY <1>0, <2>1
<1>2. ASSUME NEW k \in 1 .. n, k - 1 \in T PROVE k \in T
  <2>1. PICK f : Good(f, k - 1)
    BY <1>2
  <2> DEFINE h == [i \in 1 .. k |-> IF i = k THEN nxt(f, k) ELSE f[i]]
  <2>2. nxt(f, k) \in Seq(A)
    <3>1. CASE k = 1
      BY <1>0, <3>1
    <3>2. CASE k # 1
      <4>1. k - 1 \in 1 .. (k - 1)
        BY <3>2
      <4>2. f[k - 1] \in Seq(A)
        BY <2>1, <4>1
      <4> QED BY <1>0, <3>2, <4>2
    <3> QED BY <3>1, <3>2
  <2>3. h \in [1 .. k -> Seq(A)]
    BY <2>1, <2>2
  <2>4. ASSUME NEW i \in 1 .. k PROVE h[i] = nxt(h, i)
    <3>1. i # 1 => i - 1 \in 1 .. k /\ i - 1 # k
      OBVIOUS
    <3>2. i # 1 => h[i - 1] = f[i - 1]
      BY <3>1
    <3>3. nxt(h, i) = nxt(f, i)
      BY <3>2
    <3>4. i # k => i \in 1 .. (k - 1)
      OBVIOUS
    <3>5. i # k => f[i] = nxt(f, i)
      BY <2>1, <3>4
    <3>6. h[i] = IF i = k THEN nxt(f, k) ELSE f[i]
      OBVIOUS
    <3> HIDE DEF h, nxt
    <3> QED BY <3>3, <3>5, <3>6
  <2> HIDE DEF h
  <2>5. Good(h, k)
    BY <2>3, <2>4
  <2> HIDE DEF Good
  <2> QED BY <2>5
<1>3. 0 .. n \subseteq T
  <2> HIDE DEF T
  <2> QED BY <1>0, <1>1, <1>2, UpTo
<1>4. PICK f : Good(f, n)
  <2>1. n \in T
    <3> HIDE DEF T
    <3>1. n \in 0 .. n
      BY <1>0
    <3> QED BY <1>3, <3>1
  <2> QED BY <2>1
<1>5. Is(f)
  <2>1. f = [i \in 1 .. n |-> f[i]]
    BY <1>4
  <2>2. \A i \in 1 .. n : f[i] = nxt(f, i)
    BY <1>4
  <2> HIDE DEF nxt
  <2> QED BY <2>1, <2>2
<1>6. Is(f0)
  BY <1>5
<1>7. FlattenSeq(seqs) = IF n = 0 THEN seqs ELSE f0[n]
  BY DEF FlattenSeq
<1> HIDE DEF f0
<1> DEFINE F == [k \in 0 .. n |-> IF k = 0 THEN <<>> ELSE f0[k]]
           R == {k \in 0 .. n : F[k] \in Seq(A)}
<1>8. \A k \in 1 .. n : f0[k] = IF k = 1 THEN seqs[k] ELSE f0[k - 1] \o seqs[k]
  BY <1>6
<1>9. 0 \in 0 .. n /\ F[0] = <<>> /\ \A k \in 1 .. n : F[k] = f0[k]
  BY <1>0
<1>10. ASSUME NEW k \in 1 .. n PROVE F[k] = F[k - 1] \o seqs[k]
  <2>1. CASE k = 1
    <3>1. <<>> \o seqs[k] = seqs[k]
      <4>1. seqs[k] \in Seq(A)
        BY <1>0
      <4> QED BY <4>1
    <3> QED BY <1>8, <1>9, <2>1, <3>1
  <2>2. CASE k # 1
    <3>1. k - 1 \in 1 .. n
      BY <1>0, <2>2
    <3> HIDE DEF F, n
    <3> QED BY <1>8, <1>9, <2>2, <3>1
  <2> QED BY <2>1, <2>2
<1>14. F = [k \in 0 .. n |-> F[k]]
  OBVIOUS
<1> HIDE DEF F, n
<1>11. 0 \in R /\ \A k \in 1 .. n : k - 1 \in R => k \in R
  <2>1. 0 \in R
    <3>1. <<>> \in Seq(A)
      OBVIOUS
    <3> QED BY <1>9, <3>1
  <2>2. ASSUME NEW k \in 1 .. n, k - 1 \in R PROVE k \in R
    <3>1. F[k - 1] \in Seq(A) /\ seqs[k] \in Seq(A) /\ k \in 0 .. n
      BY <1>0, <2>2
    <3>2. F[k - 1] \o seqs[k] \in Seq(A)
      BY <3>1
    <3> QED BY <1>10, <3>1, <3>2
  <2> QED BY <2>1, <2>2
<1>12. 0 .. n \subseteq R
  <2> HIDE DEF R
  <2> QED BY <1>0, <1>11, UpTo
<1>13. F \in [0 .. n -> Seq(A)]
  BY <1>12, <1>14
<1>15. F[n] = FlattenSeq(seqs)
  <2>1. CASE n = 0
    <3>1. seqs = <<>>
      BY <2>1 DEF n
    <3> QED BY <1>7, <1>9, <2>1, <3>1
  <2>2. CASE n # 0
    <3>1. n \in 1 .. n
      BY <1>0, <2>2
    <3> QED BY <1>7, <1>9, <2>2, <3>1
  <2> QED BY <2>1, <2>2
<1> QED BY <1>9, <1>10, <1>13, <1>15 DEF n

-----------------------------------------------------------------------------
(* Sums over sequences, and the marks of a text.                           *)

\* The sum so far, number after number.
Sums(F, s) == /\ F[0] = 0 /\ F[Len(s)] = Total(s)
              /\ \A k \in 1 .. Len(s) : F[k] = F[k - 1] + s[k]

\* Every sum can be followed number by number.
LEMMA SumsExist ==
    ASSUME NEW s \in Seq(Int)
    PROVE  \E F \in [0 .. Len(s) -> Int] : Sums(F, s)
<1> DEFINE n == Len(s)
           g == [x \in Int \X (1 .. n) |-> x[1] + s[x[2]]]
           Is(h) == h = [S \in SUBSET DOMAIN s |->
                           IF S = {} THEN 0 ELSE h[S \ {Max(S)}] + s[Max(S)]]
           f == CHOOSE h : Is(h)
           F == [k \in 0 .. n |-> f[1 .. k]]
<1>a. n \in Nat
  OBVIOUS
<1>0. n \in Nat /\ DOMAIN s = 1 .. n /\ \A k \in 1 .. n : s[k] \in Int
  OBVIOUS
<1>1. ASSUME NEW a \in Int, NEW k \in 1 .. n PROVE a + s[k] \in Int
  BY <1>0
<1>2. g \in [Int \X (1 .. n) -> Int]
  BY <1>1
<1>3. PICK h \in [SUBSET (1 .. n) -> Int] : Stepped(n, 0, g, h)
  <2> DEFINE Z == Int
  <2>1. 0 \in Z /\ g \in [Z \X (1 .. n) -> Z]
    BY <1>2
  <2> HIDE DEF g, Z, n
  <2>2. \E h \in [SUBSET (1 .. n) -> Z] : Stepped(n, 0, g, h)
    BY <1>a, <2>1, FoldExists
  <2> QED BY <2>2 DEF Z
<1>4. Is(h)
  <2>1. \A S \in SUBSET (1 .. n) : S # {} => Max(S) \in 1 .. n /\ S \ {Max(S)} \in SUBSET (1 .. n)
    BY <1>0, MaxIs
  <2>2. \A S \in SUBSET (1 .. n) : S # {} =>
          g[<<h[S \ {Max(S)}], Max(S)>>] = h[S \ {Max(S)}] + s[Max(S)]
    BY <2>1
  <2> HIDE DEF g
  <2> QED BY <1>0, <1>3, <2>2 DEF Stepped
<1>5. Is(f)
  BY <1>4
<1>6. f[{}] = 0
  BY <1>5
<1>7. \A S \in SUBSET (1 .. n) : S # {} =>
         f[S] = f[S \ {Max(S)}] + s[Max(S)] /\ Max(S) \in 1 .. n
  BY <1>0, <1>5, MaxIs
<1>8. Total(s) = f[DOMAIN s]
  BY DEF Total, FoldLeft, MapThenFoldSet
<1> HIDE DEF f, Is, g
<1>9. ASSUME NEW k \in 0 .. n PROVE f[1 .. k] \in Int
  <2>1. k \in Nat /\ \A S \in SUBSET (1 .. k) : S \in SUBSET (1 .. n)
    <3> HIDE DEF n
    <3> QED BY <1>a
  <2>2. \A S \in SUBSET (1 .. k) : S # {} /\ f[S \ {Max(S)}] \in Int => f[S] \in Int
    BY <1>1, <1>7, <2>1
  <2> DEFINE Z == Int
  <2>3. f[{}] \in Z /\ \A S \in SUBSET (1 .. k) : S # {} /\ f[S \ {Max(S)}] \in Z => f[S] \in Z
    BY <1>6, <2>2
  <2> HIDE DEF Z
  <2>4. f[1 .. k] \in Z
    BY <2>1, <2>3, FoldIn
  <2> QED BY <2>4 DEF Z
<1>10. ASSUME NEW k \in 1 .. n PROVE f[1 .. k] = f[1 .. (k - 1)] + s[k]
  <2>1. /\ Max(1 .. k) = k /\ (1 .. k) \ {k} = 1 .. (k - 1)
        /\ 1 .. k \in SUBSET (1 .. n) /\ 1 .. k # {}
    BY <1>a, Within
  <2> QED BY <1>7, <2>1
<1>11. F \in [0 .. n -> Int] /\ F[0] = 0 /\ F[n] = f[1 .. n]
  <2>1. 1 .. 0 = {}
    OBVIOUS
  <2> QED BY <1>a, <1>6, <1>9, <2>1
<1>12. \A k \in 1 .. n : F[k] = f[1 .. k] /\ F[k - 1] = f[1 .. (k - 1)]
  BY <1>a
<1> HIDE DEF F
<1>13. \A k \in 1 .. n : F[k] = F[k - 1] + s[k]
  BY <1>10, <1>12
<1>14. F[Len(s)] = Total(s)
  BY <1>0, <1>8, <1>11
<1>15. Sums(F, s)
  BY <1>11, <1>13, <1>14 DEF Sums
<1> QED BY <1>11, <1>15

\* A sum is a number.
LEMMA TotalTyped == \A s \in Seq(Int) : Total(s) \in Int
<1> SUFFICES ASSUME NEW s \in Seq(Int) PROVE Total(s) \in Int
  OBVIOUS
<1>1. PICK F \in [0 .. Len(s) -> Int] : Sums(F, s)
  BY SumsExist
<1>2. Len(s) \in 0 .. Len(s)
  OBVIOUS
<1> QED BY <1>1, <1>2 DEF Sums

\* The sum of nothing and of one number.
LEMMA TotalOne == Total(<<>>) = 0 /\ \A x \in Int : Total(<<x>>) = x
<1>1. Total(<<>>) = 0
  <2> DEFINE z == <<>>
  <2>1. z \in Seq(Int) /\ Len(z) = 0
    OBVIOUS
  <2> HIDE DEF z
  <2>2. PICK F \in [0 .. Len(z) -> Int] : Sums(F, z)
    BY <2>1, SumsExist
  <2>3. Total(z) = 0
    BY <2>1, <2>2 DEF Sums
  <2> QED BY <2>3 DEF z
<1>2. ASSUME NEW x \in Int PROVE Total(<<x>>) = x
  <2> DEFINE z == <<x>>
  <2>1. z \in Seq(Int) /\ Len(z) = 1 /\ z[1] = x
    OBVIOUS
  <2> HIDE DEF z
  <2>2. PICK F \in [0 .. Len(z) -> Int] : Sums(F, z)
    BY <2>1, SumsExist
  <2>3. F[0] = 0 /\ F[1] = Total(z)
    BY <2>1, <2>2 DEF Sums
  <2>4. F[1] = F[1 - 1] + z[1]
    BY <2>1, <2>2 DEF Sums
  <2>5. Total(z) = x
    BY <2>1, <2>3, <2>4
  <2> QED BY <2>5 DEF z
<1> QED BY <1>1, <1>2

\* Sums add up.
LEMMA TotalsJoin ==
    ASSUME NEW u \in Seq(Int), NEW v \in Seq(Int)
    PROVE  Total(u \o v) = Total(u) + Total(v)
<1> DEFINE w == u \o v
           m == Len(u)
           n == Len(v)
<1>1. /\ m \in Nat /\ n \in Nat /\ w \in Seq(Int) /\ Len(w) = m + n
      /\ \A i \in 1 .. m : w[i] = u[i] /\ u[i] \in Int
      /\ \A i \in 1 .. n : w[m + i] = v[i] /\ v[i] \in Int
  OBVIOUS
<1> HIDE DEF w
<1>2. PICK F \in [0 .. Len(u) -> Int] : Sums(F, u)
  BY SumsExist
<1>3. PICK G \in [0 .. Len(v) -> Int] : Sums(G, v)
  BY SumsExist
<1>4. PICK H \in [0 .. Len(w) -> Int] : Sums(H, w)
  BY <1>1, SumsExist
<1> DEFINE S == {k \in 0 .. m : H[k] = F[k]}
           T == {k \in 0 .. n : H[m + k] = F[m] + G[k]}
<1>5. m \in S
  <2>1. 0 \in S
    BY <1>1, <1>2, <1>4 DEF Sums
  <2>2. ASSUME NEW k \in 1 .. m, k - 1 \in S PROVE k \in S
    <3>1. k \in 1 .. Len(w) /\ w[k] = u[k] /\ H[k - 1] = F[k - 1] /\ k \in 0 .. m
      BY <1>1, <2>2
    <3>2. F[k] = F[k - 1] + u[k]
      BY <1>2 DEF Sums
    <3>3. H[k] = H[k - 1] + w[k]
      BY <1>4, <3>1 DEF Sums
    <3> QED BY <3>1, <3>2, <3>3
  <2>3. m \in 0 .. m
    BY <1>1
  <2> HIDE DEF S, m
  <2> QED BY <1>1, <2>1, <2>2, <2>3, UpTo
<1>6. F[m] = Total(u) /\ G[n] = Total(v) /\ G[0] = 0 /\ F[m] \in Int
  <2>1. m \in 0 .. Len(u)
    BY <1>1
  <2> QED BY <1>2, <1>3, <2>1 DEF Sums
<1>7. n \in T
  <2> HIDE DEF m, n
  <2>1. 0 \in T
    <3>1. m + 0 = m /\ 0 \in 0 .. n /\ H[m] = F[m]
      BY <1>1, <1>5
    <3>2. F[m] + 0 = F[m]
      BY <1>6
    <3> QED BY <1>6, <3>1, <3>2
  <2>2. ASSUME NEW k \in 1 .. n, k - 1 \in T PROVE k \in T
    <3>1. /\ m + k \in 1 .. Len(w) /\ w[m + k] = v[k] /\ v[k] \in Int
          /\ (m + k) - 1 = m + (k - 1) /\ k \in 0 .. n /\ k - 1 \in 0 .. n
      BY <1>1
    <3>2. H[m + (k - 1)] = F[m] + G[k - 1]
      BY <2>2
    <3>3. G[k] = G[k - 1] + v[k]
      BY <1>3 DEF Sums, n
    <3>4. H[m + k] = H[(m + k) - 1] + w[m + k]
      BY <1>4, <3>1 DEF Sums
    <3>5. G[k - 1] \in Int
      BY <1>3, <3>1 DEF n
    <3>6. H[m + k] = (F[m] + G[k - 1]) + v[k]
      BY <3>1, <3>2, <3>4
    <3>7. (F[m] + G[k - 1]) + v[k] = F[m] + G[k]
      BY <1>6, <3>1, <3>3, <3>5
    <3> QED BY <3>1, <3>6, <3>7
  <2>3. n \in 0 .. n
    BY <1>1
  <2> HIDE DEF T
  <2> QED BY <1>1, <2>1, <2>2, <2>3, UpTo
<1>8. H[m + n] = Total(w)
  BY <1>1, <1>4 DEF Sums
<1>9. Total(w) = Total(u) + Total(v)
  BY <1>6, <1>7, <1>8
<1> QED BY <1>9 DEF w

\* The sums of two sequences of one length, number by number.
LEMMA TotalsAdd ==
    ASSUME NEW n \in Nat, NEW u \in [1 .. n -> Int], NEW v \in [1 .. n -> Int]
    PROVE  Total([i \in 1 .. n |-> u[i] + v[i]]) = Total(u) + Total(v)
<1> DEFINE w == [i \in 1 .. n |-> u[i] + v[i]]
<1>1. /\ w \in Seq(Int) /\ Len(w) = n /\ u \in Seq(Int) /\ Len(u) = n /\ v \in Seq(Int) /\ Len(v) = n
      /\ \A i \in 1 .. n : w[i] = u[i] + v[i] /\ u[i] \in Int /\ v[i] \in Int
  OBVIOUS
<1> HIDE DEF w
<1>2. PICK F \in [0 .. Len(u) -> Int] : Sums(F, u)
  BY <1>1, SumsExist
<1>3. PICK G \in [0 .. Len(v) -> Int] : Sums(G, v)
  BY <1>1, SumsExist
<1>4. PICK H \in [0 .. Len(w) -> Int] : Sums(H, w)
  BY <1>1, SumsExist
<1> DEFINE T == {k \in 0 .. n : H[k] = F[k] + G[k]}
<1>5. 0 \in T
  BY <1>2, <1>3, <1>4 DEF Sums
<1>6. ASSUME NEW k \in 1 .. n, k - 1 \in T PROVE k \in T
  <2>1. H[k - 1] = F[k - 1] + G[k - 1] /\ k \in 0 .. n /\ k - 1 \in 0 .. n
    BY <1>6
  <2>2. F[k] = F[k - 1] + u[k]
    BY <1>1, <1>2 DEF Sums
  <2>3. G[k] = G[k - 1] + v[k]
    BY <1>1, <1>3 DEF Sums
  <2>4. H[k] = H[k - 1] + w[k]
    BY <1>1, <1>4 DEF Sums
  <2>5. F[k - 1] \in Int /\ G[k - 1] \in Int /\ u[k] \in Int /\ v[k] \in Int
    BY <1>1, <1>2, <1>3, <2>1
  <2>6. w[k] = u[k] + v[k]
    BY <1>1
  <2>7. H[k] = (F[k - 1] + G[k - 1]) + (u[k] + v[k])
    BY <2>1, <2>4, <2>6
  <2>8. H[k] = F[k] + G[k]
    BY <2>2, <2>3, <2>5, <2>7
  <2> QED BY <2>1, <2>8
<1>7. n \in T
  <2>1. n \in 0 .. n
    OBVIOUS
  <2> HIDE DEF T
  <2> QED BY <1>5, <1>6, <2>1, UpTo
<1>8. F[n] = Total(u) /\ G[n] = Total(v) /\ H[n] = Total(w)
  BY <1>1, <1>2, <1>3, <1>4 DEF Sums
<1>9. Total(w) = Total(u) + Total(v)
  BY <1>7, <1>8
<1> QED BY <1>9 DEF w

\* A sum of numbers that are not negative, and one of equal numbers.
LEMMA TotalOfNat == \A s \in Seq(Nat) : Total(s) \in Nat
<1> SUFFICES ASSUME NEW s \in Seq(Nat) PROVE Total(s) \in Nat
  OBVIOUS
<1>1. s \in Seq(Int) /\ Len(s) \in Nat /\ \A k \in 1 .. Len(s) : s[k] \in Nat
  OBVIOUS
<1>2. PICK F \in [0 .. Len(s) -> Int] : Sums(F, s)
  BY <1>1, SumsExist
<1> DEFINE T == {k \in 0 .. Len(s) : F[k] \in Nat}
<1>3. 0 \in T
  BY <1>2 DEF Sums
<1>4. ASSUME NEW k \in 1 .. Len(s), k - 1 \in T PROVE k \in T
  <2>1. F[k] = F[k - 1] + s[k]
    BY <1>2 DEF Sums
  <2>2. F[k - 1] \in Nat /\ s[k] \in Nat /\ k \in 0 .. Len(s)
    BY <1>1, <1>4
  <2>3. F[k] \in Nat
    BY <2>1, <2>2
  <2> QED BY <2>2, <2>3
<1>5. Len(s) \in T
  <2>1. Len(s) \in 0 .. Len(s)
    BY <1>1
  <2> HIDE DEF T
  <2> QED BY <1>1, <1>3, <1>4, <2>1, UpTo
<1> QED BY <1>2, <1>5 DEF Sums

\* ... and one of equal numbers.
LEMMA TotalOfEqual ==
    ASSUME NEW n \in Nat, NEW x \in Int, NEW s \in Seq(Int), Len(s) = n,
           \A i \in 1 .. n : s[i] = x
    PROVE  Total(s) = x * n
<1>1. PICK F \in [0 .. Len(s) -> Int] : Sums(F, s)
  BY SumsExist
<1> DEFINE T == {k \in 0 .. n : F[k] = x * k}
<1>2. 0 \in T
  BY <1>1 DEF Sums
<1>3. ASSUME NEW k \in 1 .. n, k - 1 \in T PROVE k \in T
  <2>1. F[k] = F[k - 1] + x
    BY <1>1 DEF Sums
  <2>2. F[k - 1] = x * (k - 1) /\ k \in 0 .. n
    BY <1>3
  <2>3. x * (k - 1) + x = x * k
    OBVIOUS
  <2> QED BY <2>1, <2>2, <2>3
<1>4. n \in T
  <2>1. n \in 0 .. n
    OBVIOUS
  <2> HIDE DEF T
  <2> QED BY <1>2, <1>3, <2>1, UpTo
<1> QED BY <1>1, <1>4 DEF Sums

-----------------------------------------------------------------------------
(* Marks in a text.                                                        *)

\* A function over the first n numbers.
Ranges(c, n) == c = [i \in 1 .. n |-> c[i]]

\* A function that goes through one list and then through another is both, joined.
LEMMA JoinedIs ==
    ASSUME NEW A, NEW a \in Seq(A), NEW b \in Seq(A), NEW m \in Nat, NEW n \in Nat,
           Len(a) = m, Len(b) = n, NEW c, Ranges(c, m + n),
           \A i \in 1 .. m : c[i] = a[i], \A i \in 1 .. n : c[m + i] = b[i]
    PROVE  c = a \o b
<1> DEFINE d == a \o b
<1>1. /\ d \in Seq(A) /\ Len(d) = m + n
      /\ \A i \in 1 .. m : d[i] = a[i]
      /\ \A i \in 1 .. n : d[m + i] = b[i]
  <2>1. d \in Seq(A) /\ Len(d) = m + n
    OBVIOUS
  <2>2. \A i \in 1 .. m : d[i] = a[i]
    OBVIOUS
  <2>3. ASSUME NEW i \in 1 .. n PROVE d[m + i] = b[i]
    <3>1. m + i \in 1 .. (Len(a) + Len(b)) /\ m + i > Len(a) /\ (m + i) - Len(a) = i
      OBVIOUS
    <3> QED BY <3>1
  <2> QED BY <2>1, <2>2, <2>3
<1> HIDE DEF d
<1>2. d = [i \in 1 .. (m + n) |-> d[i]]
  BY <1>1
<1>3. ASSUME NEW i \in 1 .. (m + n) PROVE c[i] = d[i]
  <2>1. CASE i \in 1 .. m
    BY <1>1, <2>1
  <2>2. CASE i \notin 1 .. m
    <3>1. i - m \in 1 .. n /\ m + (i - m) = i
      BY <2>2
    <3> QED BY <1>1, <3>1
  <2> QED BY <2>1, <2>2
<1> QED BY <1>2, <1>3 DEF d, Ranges

\* Which words of a text are marks, as numbers.
Marked(text) == [i \in DOMAIN text |-> IF text[i] \in PictureMarks THEN 1 ELSE 0]

\* They are numbers.
LEMMA MarkedTyped ==
    ASSUME NEW t \in Text
    PROVE  Marked(t) \in Seq(Nat) /\ Len(Marked(t)) = Len(t) /\ Len(t) \in Nat
BY DEF Text, Marked

\* Marks add up, and one more word is one more mark or none.
LEMMA MarksAdd ==
    /\ Marks(<<>>) = 0
    /\ \A t \in Text : Marks(t) \in Nat
    /\ \A t, u \in Text : Marks(t \o u) = Marks(t) + Marks(u)
    /\ \A w \in Word : Marks(<<w>>) = IF w \in PictureMarks THEN 1 ELSE 0
<1>1. \A t : Marks(t) = Total(Marked(t))
  BY DEF Marks, Marked
<1>2. Marked(<<>>) = <<>>
  BY DEF Marked
<1>3. \A t \in Text : Marks(t) \in Nat
  BY <1>1, MarkedTyped, TotalOfNat
<1>4. ASSUME NEW t \in Text, NEW u \in Text PROVE Marks(t \o u) = Marks(t) + Marks(u)
  <2> DEFINE a == Marked(t)
             b == Marked(u)
             c == Marked(t \o u)
             m == Len(t)
             n == Len(u)
  <2>1. /\ m \in Nat /\ n \in Nat /\ a \in Seq(Int) /\ b \in Seq(Int) /\ Len(a) = m /\ Len(b) = n
    BY MarkedTyped
  <2>2. /\ DOMAIN (t \o u) = 1 .. (m + n)
        /\ \A i \in 1 .. m : (t \o u)[i] = t[i]
        /\ \A i \in 1 .. n : (t \o u)[m + i] = u[i]
        /\ DOMAIN t = 1 .. m /\ DOMAIN u = 1 .. n
    BY DEF Text
  <2>3. /\ DOMAIN c = 1 .. (m + n)
        /\ \A i \in 1 .. m : c[i] = a[i]
        /\ \A i \in 1 .. n : c[m + i] = b[i]
    <3> DEFINE x == t \o u
    <3>1. DOMAIN x = 1 .. (m + n)
      BY <2>2
    <3>2. \A i \in 1 .. m : x[i] = t[i] /\ i \in DOMAIN x /\ i \in DOMAIN t
      BY <2>1, <2>2
    <3>3. \A i \in 1 .. n : x[m + i] = u[i] /\ m + i \in DOMAIN x /\ i \in DOMAIN u
      BY <2>1, <2>2
    <3> HIDE DEF x, m, n
    <3> QED BY <3>1, <3>2, <3>3 DEF Marked, x
  <2>4. c = a \o b
    <3>1. Ranges(c, m + n)
      <4>1. c = [i \in DOMAIN c |-> c[i]]
        BY DEF Marked
      <4> HIDE DEF c, m, n
      <4> QED BY <2>3, <4>1 DEF Ranges
    <3> HIDE DEF c, a, b, m, n
    <3>2. /\ \A i \in 1 .. m : c[i] = a[i]
          /\ \A i \in 1 .. n : c[m + i] = b[i]
      BY <2>3
    <3> DEFINE Z == Int
    <3>3. a \in Seq(Z) /\ b \in Seq(Z) /\ m \in Nat /\ n \in Nat /\ Len(a) = m /\ Len(b) = n
      BY <2>1
    <3> HIDE DEF Z
    <3> QED BY ONLY <3>1, <3>2, <3>3, JoinedIs
  <2> HIDE DEF a, b, c
  <2>5. Total(c) = Total(a) + Total(b)
    BY <2>1, <2>4, TotalsJoin
  <2> QED BY <1>1, <2>5 DEF a, b, c
<1>5. ASSUME NEW w \in Word PROVE Marks(<<w>>) = IF w \in PictureMarks THEN 1 ELSE 0
  <2> DEFINE x == IF w \in PictureMarks THEN 1 ELSE 0
  <2>1. Marked(<<w>>) = <<x>>
    BY DEF Marked
  <2>2. x \in Int
    OBVIOUS
  <2> HIDE DEF x
  <2>3. Total(<<x>>) = x
    BY <2>2, TotalOne
  <2> QED BY <1>1, <2>1, <2>3 DEF x
<1> QED BY <1>1, <1>2, <1>3, <1>4, <1>5, TotalOne

\* A text of marks only, and one without marks.
LEMMA MarksOf ==
    ASSUME NEW t \in Text
    PROVE  /\ (\A i \in DOMAIN t : t[i] \in PictureMarks) => Marks(t) = Len(t)
           /\ (\A i \in DOMAIN t : t[i] \notin PictureMarks) => Marks(t) = 0
<1> DEFINE s == Marked(t)
           n == Len(t)
<1>1. s \in Seq(Int) /\ Len(s) = n /\ n \in Nat /\ DOMAIN t = 1 .. n
  BY MarkedTyped DEF Text
<1>2. Marks(t) = Total(s)
  BY DEF Marks, Marked
<1>3. \A i \in 1 .. n : s[i] = IF t[i] \in PictureMarks THEN 1 ELSE 0
  BY <1>1 DEF Marked
<1> HIDE DEF s, n
<1>4. ASSUME \A i \in DOMAIN t : t[i] \in PictureMarks PROVE Marks(t) = n
  <2>1. \A i \in 1 .. n : s[i] = 1
    BY <1>1, <1>3, <1>4
  <2>2. Total(s) = 1 * n
    BY <1>1, <2>1, TotalOfEqual
  <2> QED BY <1>1, <1>2, <2>2
<1>5. ASSUME \A i \in DOMAIN t : t[i] \notin PictureMarks PROVE Marks(t) = 0
  <2>1. \A i \in 1 .. n : s[i] = 0
    BY <1>1, <1>3, <1>5
  <2>2. Total(s) = 0 * n
    BY <1>1, <2>1, TotalOfEqual
  <2> QED BY <1>1, <1>2, <2>2
<1> QED BY <1>4, <1>5 DEF n

\* What a picture that is not passed on leaves is a mark.
LEMMA MarkLeft ==
    /\ "[image]" \in PictureMarks /\ "[oversize]" \in PictureMarks /\ "[unreachable]" \in PictureMarks
    /\ \A t \in Text, w \in PictureMarks : w \in Word => Marks(Append(t, w)) = Marks(t) + 1
<1>1. "[image]" \in PictureMarks /\ "[oversize]" \in PictureMarks /\ "[unreachable]" \in PictureMarks
  BY DEF PictureMarks
<1>2. ASSUME NEW t \in Text, NEW w \in PictureMarks, w \in Word
      PROVE  Marks(Append(t, w)) = Marks(t) + 1
  <2>1. Append(t, w) = t \o <<w>> /\ <<w>> \in Text
    BY <1>2 DEF Text
  <2> QED BY <1>2, <2>1, MarksAdd
<1> QED BY <1>1, <1>2

-----------------------------------------------------------------------------
(* What the parts of a turn are parsed into, in any protocol.              *)

\* The first pictures of a list, as many as a message may hold.
FirstOf(s) == SubSeq(s, 1, IF Len(s) < MaxImages THEN Len(s) ELSE MaxImages)

\* Appending beyond the limit changes nothing.
LEMMA FirstOfFacts ==
    /\ MaxImages \in Nat \ {0}
    /\ FirstOf(<<>>) = <<>>
    /\ \A s \in Text : /\ FirstOf(s) \in Text /\ Len(FirstOf(s)) \in Nat /\ Len(s) \in Nat
                       /\ Len(s) < MaxImages => FirstOf(s) = s
                       /\ Len(s) >= MaxImages => Len(FirstOf(s)) = MaxImages
    /\ \A s \in Text, w \in Word :
          FirstOf(Append(s, w)) = IF Len(s) < MaxImages THEN Append(s, w) ELSE FirstOf(s)
<1>1. MaxImages \in Nat \ {0}
  BY LimitsAssumption
<1>2. FirstOf(<<>>) = <<>>
  BY <1>1 DEF FirstOf
<1>3. ASSUME NEW s \in Text
      PROVE  /\ FirstOf(s) \in Text /\ Len(FirstOf(s)) \in Nat /\ Len(s) \in Nat
             /\ Len(s) < MaxImages => FirstOf(s) = s
             /\ Len(s) >= MaxImages => Len(FirstOf(s)) = MaxImages
  <2> DEFINE n == IF Len(s) < MaxImages THEN Len(s) ELSE MaxImages
  <2>1. s \in Seq(Word) /\ Len(s) \in Nat /\ n \in 0 .. Len(s)
    BY <1>1 DEF Text
  <2>2. FirstOf(s) = SubSeq(s, 1, n)
    BY DEF FirstOf
  <2> HIDE DEF n
  <2>3. SubSeq(s, 1, n) \in Seq(Word) /\ Len(SubSeq(s, 1, n)) = n
    BY <2>1
  <2>4. n = Len(s) => SubSeq(s, 1, n) = s
    BY <2>1
  <2> QED BY <1>1, <2>1, <2>2, <2>3, <2>4 DEF n, Text
<1>4. ASSUME NEW s \in Text, NEW w \in Word
      PROVE  FirstOf(Append(s, w)) = IF Len(s) < MaxImages THEN Append(s, w) ELSE FirstOf(s)
  <2>1. s \in Seq(Word) /\ Append(s, w) \in Text /\ Len(Append(s, w)) = Len(s) + 1
    BY TextFacts DEF Text
  <2>2. CASE Len(s) < MaxImages
    <3>1. Len(Append(s, w)) < MaxImages \/ Len(Append(s, w)) = MaxImages
      BY <1>1, <2>1, <2>2
    <3>2. FirstOf(Append(s, w)) = SubSeq(Append(s, w), 1, Len(Append(s, w)))
      BY <1>1, <2>1, <3>1 DEF FirstOf
    <3>3. SubSeq(Append(s, w), 1, Len(Append(s, w))) = Append(s, w)
      BY <2>1
    <3> QED BY <2>2, <3>2, <3>3
  <2>3. CASE ~(Len(s) < MaxImages)
    <3>1. Len(s) >= MaxImages /\ ~(Len(s) + 1 < MaxImages)
      BY <1>1, <2>1, <2>3
    <3>2. FirstOf(Append(s, w)) = SubSeq(Append(s, w), 1, MaxImages)
      BY <2>1, <3>1 DEF FirstOf
    <3>3. FirstOf(s) = SubSeq(s, 1, MaxImages)
      BY <2>3 DEF FirstOf
    <3>4. SubSeq(Append(s, w), 1, MaxImages) = SubSeq(s, 1, MaxImages)
      BY <1>1, <2>1, <3>1
    <3> QED BY <2>3, <3>2, <3>3, <3>4
  <2> QED BY <2>2, <2>3
<1> QED BY <1>1, <1>2, <1>3, <1>4

\* The fields of a message.
LEMMA MessageFields ==
    ASSUME NEW m \in Message
    PROVE  /\ m.role \in Word /\ m.callId \in Word /\ m.text \in Text /\ m.calls \in Text
           /\ m.images \in Text /\ m.deferred \in Text
           /\ Len(m.images) \in Nat /\ Marks(m.deferred) \in Nat
<1>1. /\ m.role \in Word /\ m.callId \in Word /\ m.text \in Text /\ m.calls \in Text
      /\ m.images \in Text /\ m.deferred \in Text
  BY DEF Message
<1>2. \A u \in Text : Len(u) \in Nat
  BY DEF Text
<1>3. Marks(m.deferred) \in Nat
  BY <1>1, MarksAdd
<1> QED BY <1>1, <1>2, <1>3

\* One more word makes a text longer by one.
LEMMA OneMore ==
    ASSUME NEW u \in Text, NEW w \in Word
    PROVE  Len(Append(u, w)) = Len(u) + 1
BY DEF Text

\* A picture that can be passed on, and what that decides.
Passes(image) == Refusal(image) = ""

\* What the two ways to take a picture decide by.
LEMMA AttachIs ==
    ASSUME NEW m, NEW image
    PROVE  /\ Attach(m, image) = IF Passes(image) THEN [m EXCEPT !.images = Append(m.images, image)]
                                 ELSE Defer(m, Refusal(image))
           /\ AppendSource(m, image) = IF ~Passes(image) \/ Len(m.images) < MaxImages
                                       THEN Attach(m, image) ELSE Defer(m, "[image]")
BY DEF Attach, AppendSource, Passes

\* What refuses a picture is one of two marks.
LEMMA RefusalIs ==
    ASSUME NEW image, ~Passes(image)
    PROVE  Refusal(image) = "[oversize]" \/ Refusal(image) = "[image]"
BY DEF Passes, Refusal

\* One more picture is passed on when it can be and there is room, and else leaves
\* a mark: both protocols' order of the two checks comes to the same.
TakesImage(a, fit, image, b, now) ==
    /\ a \in Message /\ fit \in Text /\ a.images = FirstOf(fit) /\ image \in Word
    /\ b = AppendImage(a, image) \/ b = AppendSource(a, image)
    /\ now = IF Passes(image) THEN Append(fit, image) ELSE fit
WithImage(a, b, now) ==
    /\ b \in Message /\ b.images = FirstOf(now) /\ now \in Text
    /\ b.role = a.role /\ b.text = a.text /\ b.calls = a.calls /\ b.callId = a.callId
    /\ Len(b.images) + Marks(b.deferred) = Len(a.images) + Marks(a.deferred) + 1

\* Such a picture leaves the rest of the message alone, and one more is accounted for.
LEMMA ImageTaken ==
    ASSUME NEW a, NEW fit, NEW image, NEW b, NEW now, TakesImage(a, fit, image, b, now)
    PROVE  WithImage(a, b, now)
<1>0. /\ a \in Message /\ fit \in Text /\ a.images = FirstOf(fit) /\ image \in Word
      /\ b = AppendImage(a, image) \/ b = AppendSource(a, image)
      /\ now = IF Passes(image) THEN Append(fit, image) ELSE fit
  BY DEF TakesImage
<1>1. b \in Message /\ now \in Text /\ Refusal(image) \in Word /\ "[image]" \in Word
  <2>1. Refusal(image) \in Word /\ "[image]" \in Word
    BY MarksAreWords DEF Refusal
  <2> QED BY <1>0, <2>1, Attaching, TextFacts
<1>2. /\ a.images \in Text /\ a.deferred \in Text
      /\ Len(a.images) \in Nat /\ Marks(a.deferred) \in Nat
  BY <1>0, MessageFields
<1>3. /\ Len(fit) \in Nat /\ MaxImages \in Nat
      /\ Len(fit) < MaxImages => FirstOf(fit) = fit
      /\ Len(fit) >= MaxImages => Len(FirstOf(fit)) = MaxImages
  BY <1>0, FirstOfFacts
<1>4. Len(a.images) >= MaxImages <=> ~(Len(fit) < MaxImages)
  BY <1>0, <1>3
<1>5. CASE Passes(image) /\ Len(fit) < MaxImages
  <2>1. b = [a EXCEPT !.images = Append(a.images, image)]
    BY <1>0, <1>2, <1>3, <1>4, <1>5, AttachIs DEF AppendImage
  <2>2. /\ b.images = Append(a.images, image) /\ b.deferred = a.deferred
        /\ b.role = a.role /\ b.text = a.text /\ b.calls = a.calls /\ b.callId = a.callId
    BY <1>0, <2>1 DEF Message
  <2>3. FirstOf(now) = Append(a.images, image)
    BY <1>0, <1>3, <1>5, FirstOfFacts
  <2>4. Len(Append(a.images, image)) = Len(a.images) + 1
    BY <1>0, <1>2, OneMore
  <2>5. Len(b.images) = Len(a.images) + 1 /\ Marks(b.deferred) = Marks(a.deferred)
    BY <2>2, <2>4
  <2>6. Len(b.images) + Marks(b.deferred) = Len(a.images) + Marks(a.deferred) + 1
    <3> DEFINE p == Len(a.images)
               q == Marks(a.deferred)
    <3>1. p \in Nat /\ q \in Nat /\ Len(b.images) = p + 1 /\ Marks(b.deferred) = q
      BY <1>2, <2>5
    <3> HIDE DEF p, q
    <3>2. Len(b.images) + Marks(b.deferred) = (p + 1) + q
      BY <3>1
    <3>3. (p + 1) + q = p + q + 1
      BY <3>1
    <3> QED BY <3>2, <3>3 DEF p, q
  <2>7. b.images = FirstOf(now)
    BY <1>0, <2>2, <2>3
  <2> QED BY <1>1, <2>2, <2>6, <2>7 DEF WithImage
<1>6. CASE ~(Passes(image) /\ Len(fit) < MaxImages)
  <2>1. PICK mark \in Word : /\ b = [a EXCEPT !.deferred = Append(a.deferred, mark)]
                             /\ mark \in PictureMarks
    <3>1. b = Defer(a, "[image]") \/ (b = Defer(a, Refusal(image)) /\ ~Passes(image))
      BY <1>0, <1>2, <1>3, <1>4, <1>6, AttachIs DEF AppendImage
    <3>2. ~Passes(image) => Refusal(image) \in PictureMarks
      BY MarkLeft, RefusalIs
    <3>3. "[image]" \in PictureMarks
      BY MarkLeft
    <3> QED BY <1>1, <3>1, <3>2, <3>3 DEF Defer
  <2>2. /\ b.images = a.images /\ b.deferred = Append(a.deferred, mark)
        /\ b.role = a.role /\ b.text = a.text /\ b.calls = a.calls /\ b.callId = a.callId
    BY <1>0, <2>1 DEF Message
  <2>3. FirstOf(now) = FirstOf(fit)
    BY <1>0, <1>6, FirstOfFacts
  <2>4. Marks(b.deferred) = Marks(a.deferred) + 1
    BY <1>2, <2>1, <2>2, MarkLeft
  <2>5. Len(b.images) + Marks(b.deferred) = Len(a.images) + Marks(a.deferred) + 1
    <3> DEFINE p == Len(a.images)
               q == Marks(a.deferred)
    <3>1. p \in Nat /\ q \in Nat /\ Len(b.images) = p /\ Marks(b.deferred) = q + 1
      BY <1>2, <2>2, <2>4
    <3> HIDE DEF p, q
    <3>2. Len(b.images) + Marks(b.deferred) = p + (q + 1)
      BY <3>1
    <3>3. p + (q + 1) = p + q + 1
      BY <3>1
    <3> QED BY <3>2, <3>3 DEF p, q
  <2>6. b.images = FirstOf(now)
    BY <1>0, <2>2, <2>3
  <2> QED BY <1>1, <2>2, <2>5, <2>6 DEF WithImage
<1> QED BY <1>5, <1>6

\* The pictures of a turn that can be passed on.
Fit(images) == {i \in DOMAIN images : Passes(images[i])}

\* The pictures that can be passed on, one after the other.
Filters(F, n, s, I) ==
    /\ F[0] = <<>> /\ F[n] = Keep(s, I)
    /\ \A k \in 1 .. n : F[k] = IF k \in I THEN Append(F[k - 1], s[k]) ELSE F[k - 1]

\* Every filter can be followed element by element.
LEMMA FiltersExist ==
    ASSUME NEW A, NEW s \in Seq(A), NEW I \in SUBSET (1 .. Len(s))
    PROVE  \E F \in [0 .. Len(s) -> Seq(A)] : Filters(F, Len(s), s, I)
<1>1. PICK F \in [0 .. Len(s) -> Seq(A)] :
        /\ F[0] = <<>> /\ F[Len(s)] = Keep(s, I)
        /\ \A k \in 1 .. Len(s) :
              F[k] = IF k \in I THEN Append(F[k - 1], s[k]) ELSE F[k - 1]
  BY KeepTraced
<1> QED BY <1>1 DEF Filters

\* So can the choice of the pictures that can be passed on.
LEMMA FitTraced ==
    ASSUME NEW t \in Turn
    PROVE  \E F \in [0 .. Len(t.images) -> Seq(Word)] :
              Filters(F, Len(t.images), t.images, Fit(t.images))
<1>1. t.images \in Seq(Word) /\ Fit(t.images) \in SUBSET (1 .. Len(t.images))
  BY TurnFacts DEF Text, Fit
<1> QED BY ONLY <1>1, FiltersExist

\* A message says what a turn says.
Says(b, t, role, id, calls) ==
    /\ b \in Message /\ b.role = role /\ b.text = t.text /\ b.calls = calls /\ b.callId = id
    /\ b.images = PassedOn(t.images)
    /\ Len(b.images) + Marks(b.deferred) = Len(t.images)

\* Counted, such a message is the turn as it was written.
LEMMA SaysWhole ==
    ASSUME NEW t \in Turn, NEW b, NEW role, NEW id, NEW calls, Says(b, t, role, id, calls)
    PROVE  Counted(b) = Whole(t, role, id, calls)
<1>1. /\ b \in Message /\ b.role = role /\ b.text = t.text /\ b.calls = calls /\ b.callId = id
      /\ b.images = PassedOn(t.images)
      /\ Len(b.images) + Marks(b.deferred) = Len(t.images)
  BY DEF Says
<1>2. Len(b.images) \in Nat /\ Marks(b.deferred) \in Nat
  BY <1>1, MessageFields
<1>3. Marks(b.deferred) = Len(t.images) - Len(PassedOn(t.images))
  <2> DEFINE p == Len(b.images)
             q == Marks(b.deferred)
             n == Len(t.images)
  <2>1. n \in Nat
    BY TurnFacts DEF Text
  <2>2. p \in Nat /\ q \in Nat /\ p + q = n /\ p = Len(PassedOn(t.images))
    BY <1>1, <1>2
  <2> HIDE DEF p, q, n
  <2>3. q = n - p
    BY <2>1, <2>2
  <2> QED BY <2>2, <2>3 DEF q, n
<1>4. b = [role |-> b.role, text |-> b.text, calls |-> b.calls, callId |-> b.callId,
           images |-> b.images, deferred |-> b.deferred]
  BY <1>1 DEF Message
<1>5. Counted(b) = [role |-> b.role, text |-> b.text, calls |-> b.calls, callId |-> b.callId,
                    images |-> b.images, deferred |-> Marks(b.deferred)]
  BY <1>4 DEF Counted
<1> QED BY <1>1, <1>3, <1>5 DEF Whole

\* Where the parts of a turn are.
Before(t) == IF t.text = <<>> THEN 0 ELSE 1

\* The text comes first, then the pictures.
LEMMA PartsAre ==
    ASSUME NEW t \in Turn
    PROVE  /\ Before(t) \in {0, 1} /\ Len(t.images) \in Nat
           /\ Parts(t) \in Seq(Part)
           /\ Len(Parts(t)) = Before(t) + Len(t.images)
           /\ Before(t) = 1 => Parts(t)[1] = [type |-> "text", text |-> t.text]
           /\ \A i \in 1 .. Len(t.images) :
                 /\ Parts(t)[i + Before(t)] = [type |-> "image", image |-> t.images[i]]
                 /\ t.images[i] \in Word
<1> DEFINE p == [type |-> "text", text |-> t.text]
           images == [i \in DOMAIN t.images |-> [type |-> "image", image |-> t.images[i]]]
           before == IF t.text = <<>> THEN <<>> ELSE <<p>>
           n == Len(t.images)
<1>1. /\ n \in Nat /\ DOMAIN t.images = 1 .. n
      /\ \A i \in 1 .. n : t.images[i] \in Word
  BY TurnFacts DEF Text
<1>2. Parts(t) = before \o images
  BY DEF Parts
<1>3. /\ DOMAIN images = 1 .. n
      /\ \A i \in 1 .. n : images[i] = [type |-> "image", image |-> t.images[i]]
  BY <1>1
<1>4. p \in Part /\ \A w \in Word : [type |-> "image", image |-> w] \in Part
  BY TurnFacts DEF Part
<1> HIDE DEF p, images
<1>5. images \in Seq(Part) /\ Len(images) = n
  <2>1. \A i \in 1 .. n : images[i] \in Part
    BY <1>1, <1>3, <1>4
  <2> HIDE DEF n
  <2>2. images = [i \in 1 .. n |-> images[i]]
    BY <1>1 DEF images, n
  <2> QED BY <1>1, <1>3, <2>1, <2>2
<1>6. CASE t.text = <<>>
  <2>1. before = <<>> /\ Before(t) = 0
    BY <1>6 DEF Before
  <2>2. Parts(t) = images
    BY <1>2, <1>5, <2>1
  <2> HIDE DEF n, before
  <2> QED BY <1>1, <1>3, <1>5, <2>1, <2>2, PartsTyped DEF n
<1>7. CASE t.text # <<>>
  <2>1. before = <<p>> /\ Before(t) = 1 /\ before \in Seq(Part) /\ Len(before) = 1 /\ before[1] = p
    BY <1>4, <1>7 DEF Before
  <2> HIDE DEF n, before
  <2>2. /\ Len(Parts(t)) = 1 + n /\ Parts(t)[1] = p
        /\ \A i \in 1 .. n : Parts(t)[i + 1] = images[i]
    BY <1>1, <1>2, <1>5, <2>1
  <2> QED BY <1>1, <1>3, <2>1, <2>2, PartsTyped DEF n, p
<1> QED BY <1>6, <1>7

\* Taken one after the other, by either parser, the parts of a turn make a message
\* that says what the turn says (parseContent, parseAnthropicContent).
Fresh(m) == m.text = <<>> /\ m.images = <<>> /\ m.deferred = <<>>
TakesParts(F, m, t) ==
    /\ F[0] = m
    /\ \A k \in 1 .. Len(Parts(t)) :
          F[k] = TakePart(F[k - 1], Parts(t)[k]) \/ F[k] = TakeResultPart(F[k - 1], Parts(t)[k])

\* Whichever way the parts are taken, a fresh message says what the turn says.
LEMMA PartsSay ==
    ASSUME NEW t \in Turn, NEW m \in Message, Fresh(m),
           NEW F \in [0 .. Len(Parts(t)) -> Message], TakesParts(F, m, t)
    PROVE  Says(F[Len(Parts(t))], t, m.role, m.callId, m.calls)
<1> DEFINE d == Before(t)
           n == Len(t.images)
<1>1. /\ d \in {0, 1} /\ n \in Nat /\ Len(Parts(t)) = d + n
      /\ d = 1 => Parts(t)[1] = [type |-> "text", text |-> t.text]
      /\ \A i \in 1 .. n : /\ Parts(t)[i + d] = [type |-> "image", image |-> t.images[i]]
                           /\ t.images[i] \in Word
  BY PartsAre
<1>2. t.images \in Seq(Word) /\ Fit(t.images) \in SUBSET (1 .. n)
  BY TurnFacts DEF Text, Fit
<1>3. PICK K \in [0 .. n -> Seq(Word)] :
        /\ K[0] = <<>> /\ K[n] = Keep(t.images, Fit(t.images))
        /\ \A k \in 1 .. n : K[k] = IF k \in Fit(t.images) THEN Append(K[k - 1], t.images[k])
                                    ELSE K[k - 1]
  <2>1. PICK K \in [0 .. Len(t.images) -> Seq(Word)] :
          Filters(K, Len(t.images), t.images, Fit(t.images))
    BY FitTraced
  <2> QED BY <2>1 DEF Filters
<1>4. F[d] = [m EXCEPT !.text = t.text]
  <2>1. CASE d = 0
    <3>1. t.text = <<>>
      BY <2>1 DEF Before
    <3>2. m = [m EXCEPT !.text = <<>>] /\ F[0] = m
      BY DEF Message, Fresh, TakesParts
    <3> QED BY <2>1, <3>1, <3>2
  <2>2. CASE d = 1
    <3> DEFINE p == Parts(t)[1]
    <3>1. p.type = "text" /\ p.text = t.text
      BY <1>1, <2>2
    <3>2. 1 \in 1 .. Len(Parts(t)) /\ 1 - 1 = 0
      BY <1>1, <2>2
    <3>3. F[1] = TakePart(m, p) \/ F[1] = TakeResultPart(m, p)
      BY <3>2 DEF TakesParts
    <3>4. <<>> \o t.text = t.text
      BY TurnFacts DEF Text
    <3> HIDE DEF p
    <3>5. F[1] = [m EXCEPT !.text = m.text \o p.text]
      BY <3>1, <3>3 DEF TakePart, TakeResultPart
    <3> QED BY <2>2, <3>1, <3>4, <3>5 DEF Fresh
  <2> QED BY <1>1, <2>1, <2>2
<1> DEFINE Goes(i) == /\ F[i + d].role = m.role /\ F[i + d].text = t.text
                      /\ F[i + d].calls = m.calls /\ F[i + d].callId = m.callId
                      /\ F[i + d].images = FirstOf(K[i])
                      /\ Len(F[i + d].images) + Marks(F[i + d].deferred) = i
           T == {i \in 0 .. n : Goes(i)}
<1>5. 0 \in T
  <2>1. /\ F[d].role = m.role /\ F[d].text = t.text /\ F[d].calls = m.calls
        /\ F[d].callId = m.callId /\ F[d].images = <<>> /\ F[d].deferred = <<>>
    BY <1>4 DEF Message, Fresh
  <2>2. 0 + d = d /\ 0 \in 0 .. n
    BY <1>1
  <2> HIDE DEF d, n
  <2>3. FirstOf(K[0]) = <<>> /\ Len(F[d].images) + Marks(F[d].deferred) = 0
    <3>1. FirstOf(K[0]) = <<>>
      BY <1>3, FirstOfFacts
    <3>2. Marks(F[d].deferred) = 0
      <4>1. F[d].deferred = <<>>
        BY <2>1
      <4> QED BY <4>1, MarksAdd
    <3>3. Len(F[d].images) = 0
      BY <2>1
    <3> QED BY <3>1, <3>2, <3>3
  <2>4. Goes(0)
    <3> DEFINE x == F[0 + d]
    <3>1. x = F[d]
      BY <2>2
    <3> HIDE DEF x
    <3>2. /\ x.role = m.role /\ x.text = t.text /\ x.calls = m.calls /\ x.callId = m.callId
          /\ x.images = FirstOf(K[0]) /\ Len(x.images) + Marks(x.deferred) = 0
      BY <2>1, <2>3, <3>1
    <3> QED BY <3>2 DEF x
  <2> QED BY <2>2, <2>4
<1>6. ASSUME NEW i \in 1 .. n, i - 1 \in T PROVE i \in T
  <2> DEFINE p == Parts(t)[i + d]
             a == F[(i - 1) + d]
             b == F[i + d]
  <2>1. i + d \in 1 .. Len(Parts(t)) /\ (i + d) - 1 = (i - 1) + d /\ (i - 1) + d \in 0 .. Len(Parts(t))
        /\ i - 1 \in 0 .. n
    BY <1>1
  <2>2. a \in Message /\ Goes(i - 1)
    BY <1>6, <2>1
  <2>3. b = TakePart(a, p) \/ b = TakeResultPart(a, p)
    <3> HIDE DEF d
    <3> QED BY <2>1 DEF TakesParts
  <2>4. p.type = "image" /\ p.image = t.images[i] /\ t.images[i] \in Word
    <3>1. p = [type |-> "image", image |-> t.images[i]] /\ t.images[i] \in Word
      <4> HIDE DEF d, n
      <4> QED BY <1>1
    <3> QED BY <3>1
  <2>5. b = AppendImage(a, t.images[i]) \/ b = AppendSource(a, t.images[i])
    <3> HIDE DEF a, b, p
    <3> QED BY <2>3, <2>4 DEF TakePart, TakeResultPart
  <2>6. K[i] = IF Passes(t.images[i]) THEN Append(K[i - 1], t.images[i]) ELSE K[i - 1]
    BY <1>2, <1>3 DEF Fit
  <2>7. K[i - 1] \in Text
    BY <1>3, <2>1 DEF Text
  <2> HIDE DEF p, d, n
  <2>8. /\ a.role = m.role /\ a.text = t.text /\ a.calls = m.calls /\ a.callId = m.callId
        /\ a.images = FirstOf(K[i - 1]) /\ Len(a.images) + Marks(a.deferred) = i - 1
    BY <2>2
  <2>9. a \in Message
    BY <2>2
  <2> HIDE DEF a, b
  <2>10. /\ b.images = FirstOf(K[i]) /\ b.role = a.role /\ b.text = a.text
         /\ b.calls = a.calls /\ b.callId = a.callId
         /\ Len(b.images) + Marks(b.deferred) = Len(a.images) + Marks(a.deferred) + 1
    <3> DEFINE fit == K[i - 1]
               image == t.images[i]
               now == K[i]
    <3>1. TakesImage(a, fit, image, b, now)
      BY <2>4, <2>5, <2>6, <2>7, <2>8, <2>9 DEF TakesImage
    <3> HIDE DEF fit, image, now
    <3>2. WithImage(a, b, now)
      BY <3>1, ImageTaken
    <3> QED BY <3>2 DEF now, WithImage
  <2>11. Len(b.images) + Marks(b.deferred) = i
    <3> DEFINE x == Len(a.images) + Marks(a.deferred)
    <3>1. x = i - 1 /\ Len(b.images) + Marks(b.deferred) = x + 1
      BY <2>8, <2>10
    <3> HIDE DEF x
    <3>2. x + 1 = i
      BY <3>1
    <3> QED BY <3>1, <3>2
  <2>12. Goes(i)
    BY <2>8, <2>10, <2>11 DEF b
  <2>13. i \in 0 .. n
    BY <1>1 DEF n
  <2> QED BY <2>12, <2>13
<1>7. 0 .. n \subseteq T
  <2> HIDE DEF T, n
  <2> QED BY <1>1, <1>5, <1>6, UpTo
<1>8. Goes(n) /\ F[n + d] \in Message /\ n + d = Len(Parts(t))
  <2>1. n \in 0 .. n /\ n + d = Len(Parts(t)) /\ n + d \in 0 .. Len(Parts(t))
    BY <1>1
  <2> HIDE DEF n, d
  <2> QED BY <1>7, <2>1
<1>9. FirstOf(K[n]) = PassedOn(t.images)
  BY <1>3 DEF PassedOn, FirstOf, Fit, Passes
<1> HIDE DEF n, d
<1> QED BY <1>8, <1>9 DEF Says, n

-----------------------------------------------------------------------------
(* One conversation, turn by turn.                                         *)

\* The lists of a list, one after the other.
Flattens(F, ss) == /\ F[0] = <<>> /\ F[Len(ss)] = FlattenSeq(ss)
                   /\ \A k \in 1 .. Len(ss) : F[k] = F[k - 1] \o ss[k]

\* Every list of lists can be followed list by list.
LEMMA FlattensExist ==
    ASSUME NEW A, NEW ss \in Seq(Seq(A))
    PROVE  \E F \in [0 .. Len(ss) -> Seq(A)] : Flattens(F, ss)
<1>1. PICK F \in [0 .. Len(ss) -> Seq(A)] :
        /\ F[0] = <<>> /\ F[Len(ss)] = FlattenSeq(ss)
        /\ \A k \in 1 .. Len(ss) : F[k] = F[k - 1] \o ss[k]
  BY FlattenTraced
<1> QED BY <1>1 DEF Flattens

\* One list more comes behind the others.
LEMMA FlattenAppended ==
    ASSUME NEW A, NEW ss \in Seq(Seq(A)), NEW s \in Seq(A)
    PROVE  FlattenSeq(Append(ss, s)) = FlattenSeq(ss) \o s
<1> DEFINE n == Len(ss)
           tt == Append(ss, s)
<1>0. n \in Nat /\ tt \in Seq(Seq(A)) /\ Len(tt) = n + 1 /\ tt[n + 1] = s
      /\ \A k \in 1 .. n : tt[k] = ss[k]
  OBVIOUS
<1>1. PICK F \in [0 .. Len(ss) -> Seq(A)] : Flattens(F, ss)
  BY FlattensExist
<1> HIDE DEF tt
<1>2. PICK H \in [0 .. Len(tt) -> Seq(A)] : Flattens(H, tt)
  BY <1>0, FlattensExist
<1> DEFINE T == {k \in 0 .. n : H[k] = F[k]}
<1>3. 0 \in T
  BY <1>0, <1>1, <1>2 DEF Flattens
<1>4. ASSUME NEW k \in 1 .. n, k - 1 \in T PROVE k \in T
  <2>1. F[k] = F[k - 1] \o ss[k]
    BY <1>1 DEF Flattens
  <2>2. k \in 1 .. Len(tt)
    BY <1>0
  <2>3. H[k] = H[k - 1] \o tt[k]
    BY <1>2, <2>2 DEF Flattens
  <2>4. H[k - 1] = F[k - 1]
    BY <1>4
  <2>5. H[k] = F[k]
    BY <1>0, <2>1, <2>3, <2>4
  <2> QED BY <1>0, <2>5
<1>5. n \in T
  <2>1. n \in 0 .. n
    BY <1>0
  <2> HIDE DEF T, n
  <2> QED BY <1>0, <1>3, <1>4, <2>1, UpTo
<1>6. H[n + 1] = H[n] \o s
  <2>1. n + 1 \in 1 .. Len(tt) /\ (n + 1) - 1 = n
    BY <1>0
  <2> HIDE DEF n
  <2> QED BY <1>0, <1>2, <2>1 DEF Flattens
<1>7. H[n + 1] = FlattenSeq(tt) /\ F[n] = FlattenSeq(ss)
  <2> HIDE DEF n
  <2> QED BY <1>0, <1>1, <1>2 DEF Flattens, n
<1> QED BY <1>5, <1>6, <1>7 DEF tt

\* Messages with their marks counted.
Counts(ms) == [i \in DOMAIN ms |-> Counted(ms[i])]
Count == [role : Word, text : Text, calls : Text, callId : Word, images : Text,
          deferred : Int]

\* A counted message is of a type of its own.
LEMMA CountedTyped == \A m \in Message : Counted(m) \in Count
<1> SUFFICES ASSUME NEW m \in Message PROVE Counted(m) \in Count
  OBVIOUS
<1>1. /\ m.role \in Word /\ m.callId \in Word /\ m.text \in Text /\ m.calls \in Text
      /\ m.images \in Text /\ Marks(m.deferred) \in Int
  BY MessageFields
<1>2. Counted(m) = [role |-> m.role, text |-> m.text, calls |-> m.calls, callId |-> m.callId,
                    images |-> m.images, deferred |-> Marks(m.deferred)]
  BY DEF Counted, Message
<1> QED BY <1>1, <1>2 DEF Count

\* Counting goes message by message.
LEMMA CountsJoin ==
    /\ Counts(<<>>) = <<>>
    /\ \A m \in Message : Counts(<<m>>) = <<Counted(m)>>
    /\ \A s \in Messages : Counts(s) \in Seq(Count) /\ Len(Counts(s)) = Len(s)
    /\ \A s, t \in Messages : s \o t \in Messages /\ Counts(s \o t) = Counts(s) \o Counts(t)
<1>1. Counts(<<>>) = <<>>
  BY DEF Counts
<1>2. ASSUME NEW m \in Message PROVE Counts(<<m>>) = <<Counted(m)>>
  BY DEF Counts
<1>3. ASSUME NEW s \in Messages
      PROVE  Counts(s) \in Seq(Count) /\ Len(Counts(s)) = Len(s)
  <2>1. Len(s) \in Nat /\ DOMAIN s = 1 .. Len(s) /\ \A i \in 1 .. Len(s) : s[i] \in Message
    BY DEF Messages
  <2>2. \A i \in 1 .. Len(s) : Counted(s[i]) \in Count
    BY <2>1, CountedTyped
  <2>3. Counts(s) = [i \in 1 .. Len(s) |-> Counted(s[i])]
    BY <2>1 DEF Counts
  <2> QED BY <2>1, <2>2, <2>3
<1>4. ASSUME NEW s \in Messages, NEW t \in Messages
      PROVE  Counts(s \o t) = Counts(s) \o Counts(t)
  <2> DEFINE u == s \o t
             a == Counts(s)
             b == Counts(t)
  <2>1. /\ Len(s) \in Nat /\ Len(t) \in Nat /\ u \in Messages /\ Len(u) = Len(s) + Len(t)
        /\ \A i \in 1 .. Len(s) : u[i] = s[i]
        /\ \A i \in 1 .. Len(t) : u[Len(s) + i] = t[i]
    BY DEF Messages
  <2>2. /\ a \in Seq(Count) /\ Len(a) = Len(s) /\ b \in Seq(Count) /\ Len(b) = Len(t)
        /\ Counts(u) \in Seq(Count) /\ Len(Counts(u)) = Len(u)
    BY <1>3, <2>1
  <2>3. \A i \in 1 .. Len(s) : a[i] = Counted(s[i])
    BY DEF Counts, Messages
  <2>4. \A i \in 1 .. Len(t) : b[i] = Counted(t[i])
    BY DEF Counts, Messages
  <2>5. \A i \in 1 .. Len(u) : Counts(u)[i] = Counted(u[i])
    BY <2>1 DEF Counts, Messages
  <2> HIDE DEF u, a, b
  <2>6. \A i \in 1 .. Len(u) : Counts(u)[i] = (a \o b)[i]
    <3> SUFFICES ASSUME NEW i \in 1 .. Len(u) PROVE Counts(u)[i] = (a \o b)[i]
      OBVIOUS
    <3>1. CASE i <= Len(s)
      BY <2>1, <2>2, <2>3, <2>5, <3>1
    <3>2. CASE i > Len(s)
      <4> DEFINE j == i - Len(s)
      <4>1. j \in 1 .. Len(t) /\ i = Len(s) + j
        BY <2>1, <3>2
      <4> HIDE DEF j
      <4>2. Counts(u)[i] = b[j]
        BY <2>1, <2>4, <2>5, <4>1
      <4>3. (a \o b)[i] = b[j]
        BY <2>1, <2>2, <4>1
      <4> QED BY <4>2, <4>3
    <3>3. i <= Len(s) \/ i > Len(s)
      BY <2>1
    <3> QED BY <3>1, <3>2, <3>3
  <2>7. Counts(u) = a \o b
    <3>1. Counts(u) = [i \in 1 .. Len(u) |-> Counts(u)[i]]
      BY <2>2
    <3>2. a \o b = [i \in 1 .. Len(u) |-> (a \o b)[i]]
      <4>1. a \o b \in Seq(Count) /\ Len(a \o b) = Len(u)
        BY <2>1, <2>2
      <4> DEFINE c == a \o b
      <4>2. c \in Seq(Count) /\ Len(c) = Len(u)
        BY <4>1
      <4> HIDE DEF c
      <4>3. c = [i \in 1 .. Len(u) |-> c[i]]
        BY <4>2
      <4> QED BY <4>3 DEF c
    <3> QED BY <2>6, <3>1, <3>2
  <2> QED BY <2>7 DEF u, a, b
<1>5. \A s, t \in Messages : s \o t \in Messages
  BY DEF Messages
<1> QED BY <1>1, <1>2, <1>3, <1>4, <1>5

\* What a turn comes to is messages, their marks counted.
LEMMA PassedOnTyped ==
    /\ \A t \in Turn : PassedOn(t.images) \in Text
    /\ PassedOn(<<>>) = <<>>
<1>1. ASSUME NEW t \in Turn PROVE PassedOn(t.images) \in Text
  <2>1. PICK K \in [0 .. Len(t.images) -> Seq(Word)] :
          Filters(K, Len(t.images), t.images, Fit(t.images))
    BY FitTraced
  <2>2. Len(t.images) \in 0 .. Len(t.images)
    BY TurnFacts DEF Text
  <2>3. Keep(t.images, Fit(t.images)) \in Text
    BY <2>1, <2>2 DEF Filters, Text
  <2>4. PassedOn(t.images) = FirstOf(Keep(t.images, Fit(t.images)))
    BY DEF PassedOn, FirstOf, Fit, Passes
  <2> QED BY <2>3, <2>4, FirstOfFacts
<1>2. PassedOn(<<>>) = <<>>
  <2> DEFINE e == <<>>
  <2>1. e \in Seq(Word) /\ Fit(e) \in SUBSET (1 .. Len(e)) /\ Len(e) = 0 /\ e = <<>>
    BY DEF Fit
  <2> HIDE DEF e
  <2>2. PICK K \in [0 .. Len(e) -> Seq(Word)] : Filters(K, Len(e), e, Fit(e))
    BY <2>1, FiltersExist
  <2>3. Keep(e, Fit(e)) = <<>>
    BY <2>1, <2>2 DEF Filters
  <2>4. PassedOn(e) = FirstOf(Keep(e, Fit(e)))
    BY DEF PassedOn, FirstOf, Fit, Passes
  <2> QED BY <2>1, <2>3, <2>4, FirstOfFacts
<1> QED BY <1>1, <1>2

\* So is a turn as one message.
LEMMA WholeTyped ==
    ASSUME NEW t \in Turn, NEW role \in Word, NEW id \in Word, NEW calls \in Text
    PROVE  Whole(t, role, id, calls) \in Count
<1>1. t.text \in Text /\ PassedOn(t.images) \in Text /\ Len(t.images) \in Nat
  BY PassedOnTyped, TurnFacts DEF Text
<1>2. Len(PassedOn(t.images)) \in Nat
  BY <1>1 DEF Text
<1>3. Len(t.images) - Len(PassedOn(t.images)) \in Int
  <2> DEFINE p == Len(t.images)
             q == Len(PassedOn(t.images))
  <2>1. p \in Nat /\ q \in Nat
    BY <1>1, <1>2
  <2> HIDE DEF p, q
  <2>2. p - q \in Int
    BY <2>1
  <2> QED BY <2>2 DEF p, q
<1> QED BY <1>1, <1>3 DEF Whole, Count

\* The role of a turn's message.
LEMMA VoiceIs ==
    ASSUME NEW t \in Turn
    PROVE  /\ t.who # "results" => Voice(t) \in Word
           /\ t.who # "developer" => Voice(t) = t.who
           /\ Voice(t) = "assistant" <=> t.who = "assistant"
BY TurnFacts, MarksAreWords DEF Voice

\* The messages of a turn.
LEMMA ToldIs ==
    ASSUME NEW t \in Turn
    PROVE  /\ Told(t) \in Seq(Count)
           /\ t.who = "results" => /\ Len(Told(t)) = Len(t.calls)
                                   /\ \A k \in 1 .. Len(t.calls) :
                                         Told(t)[k] = Whole(t, "tool", t.calls[k], <<>>)
           /\ t.who # "results" => Told(t) = <<Whole(t, Voice(t), NoCall, t.calls)>>
<1>1. /\ DOMAIN t.calls = 1 .. Len(t.calls) /\ Len(t.calls) \in Nat
      /\ \A k \in 1 .. Len(t.calls) : t.calls[k] \in Word
      /\ t.calls \in Text /\ <<>> \in Text /\ t.who \in Word \cup {"results"}
  BY TurnFacts, TextFacts
<1>2. "tool" \in Word /\ NoCall \in Word
  BY MarksAreWords DEF NoCall
<1>3. CASE t.who = "results"
  <2> DEFINE n == Len(t.calls)
  <2>1. Told(t) = [k \in 1 .. n |-> Whole(t, "tool", t.calls[k], <<>>)]
    BY <1>1, <1>3 DEF Told
  <2>2. \A k \in 1 .. n : Whole(t, "tool", t.calls[k], <<>>) \in Count
    BY <1>1, <1>2, WholeTyped
  <2>3. n \in Nat
    BY <1>1
  <2> HIDE DEF n
  <2>4. Told(t) \in Seq(Count) /\ Len(Told(t)) = n
    BY <2>1, <2>2, <2>3
  <2> QED BY <1>3, <2>1, <2>4 DEF n
<1>4. CASE t.who # "results"
  <2>1. Told(t) = <<Whole(t, Voice(t), NoCall, t.calls)>>
    BY <1>4 DEF Told
  <2>2. Whole(t, Voice(t), NoCall, t.calls) \in Count
    BY <1>1, <1>2, <1>4, VoiceIs, WholeTyped
  <2> HIDE DEF NoCall
  <2> QED BY <1>4, <2>1, <2>2
<1> QED BY <1>3, <1>4

\* A conversation, one turn after the other.
Tells(C, conv) == /\ C[0] = <<>> /\ C[Len(conv)] = Canonical(conv)
                  /\ \A k \in 1 .. Len(conv) : C[k] = C[k - 1] \o Told(conv[k])

\* Every conversation can be told turn by turn.
LEMMA TellsExists ==
    ASSUME NEW conv \in Seq(Turn)
    PROVE  \E C \in [0 .. Len(conv) -> Seq(Count)] : Tells(C, conv)
<1> DEFINE ss == [i \in DOMAIN conv |-> Told(conv[i])]
<1>1. /\ Len(conv) \in Nat /\ DOMAIN conv = 1 .. Len(conv)
      /\ \A i \in 1 .. Len(conv) : conv[i] \in Turn
  OBVIOUS
<1>2. \A i \in 1 .. Len(conv) : Told(conv[i]) \in Seq(Count)
  BY <1>1, ToldIs
<1>3. ss \in Seq(Seq(Count)) /\ Len(ss) = Len(conv)
      /\ \A i \in 1 .. Len(conv) : ss[i] = Told(conv[i])
  BY <1>1, <1>2
<1>4. Canonical(conv) = FlattenSeq(ss)
  BY DEF Canonical
<1> HIDE DEF ss
<1>5. PICK C \in [0 .. Len(ss) -> Seq(Count)] : Flattens(C, ss)
  BY <1>3, FlattensExist
<1>6. Tells(C, conv)
  BY <1>3, <1>4, <1>5 DEF Flattens, Tells
<1> QED BY <1>3, <1>5, <1>6

\* A fresh message that takes the parts of a turn says it, in either order of the checks.
LEMMA MadeOfParts ==
    ASSUME NEW t \in Turn, NEW m \in Message, Fresh(m)
    PROVE  /\ Says(FoldLeft(TakePart, m, Parts(t)), t, m.role, m.callId, m.calls)
           /\ Says(FoldLeft(TakeResultPart, m, Parts(t)), t, m.role, m.callId, m.calls)
<1> DEFINE parts == Parts(t)
<1>1. parts \in Seq(Part)
  BY PartsTyped
<1> HIDE DEF parts
<1>2. PICK F \in [0 .. Len(parts) -> Message] :
        /\ F[0] = m
        /\ \A k \in 1 .. Len(parts) : F[k] = TakePart(F[k - 1], parts[k])
        /\ FoldLeft(TakePart, m, parts) = F[Len(parts)]
  BY <1>1, PartsTraced
<1>3. PICK G \in [0 .. Len(parts) -> Message] :
        /\ G[0] = m
        /\ \A k \in 1 .. Len(parts) : G[k] = TakeResultPart(G[k - 1], parts[k])
        /\ FoldLeft(TakeResultPart, m, parts) = G[Len(parts)]
  BY <1>1, ResultPartsTraced
<1>4. TakesParts(F, m, t) /\ TakesParts(G, m, t)
  BY <1>2, <1>3 DEF TakesParts, parts
<1>5. /\ Says(F[Len(Parts(t))], t, m.role, m.callId, m.calls)
      /\ Says(G[Len(Parts(t))], t, m.role, m.callId, m.calls)
  BY <1>2, <1>3, <1>4, PartsSay DEF parts
<1> QED BY <1>2, <1>3, <1>5 DEF parts

\* A message of no parts yet.
LEMMA BlankFacts ==
    ASSUME NEW role \in Word
    PROVE  /\ Blank(role) \in Message /\ Fresh(Blank(role)) /\ Blank(role).role = role
           /\ Blank(role).callId = NoCall /\ Blank(role).calls = <<>>
<1>1. Blank(role) \in Message
  BY BlankIs
<1> QED BY <1>1 DEF Blank, Fresh

Begun(role, calls, id) == [Blank(role) EXCEPT !.calls = calls, !.callId = id]

\* What a message that was only begun holds.
LEMMA BegunFacts ==
    ASSUME NEW role \in Word, NEW calls \in Text, NEW id \in Word
    PROVE  /\ Begun(role, calls, id) \in Message /\ Fresh(Begun(role, calls, id))
           /\ Begun(role, calls, id).role = role /\ Begun(role, calls, id).calls = calls
           /\ Begun(role, calls, id).callId = id
<1> DEFINE x == Blank(role)
           m == [x EXCEPT !.calls = calls, !.callId = id]
<1>1. x \in Message /\ Fresh(x) /\ x.role = role
  BY BlankFacts
<1> HIDE DEF x
<1>2. m \in Message /\ m.role = x.role /\ m.calls = calls /\ m.callId = id
      /\ m.text = x.text /\ m.images = x.images /\ m.deferred = x.deferred
  BY <1>1 DEF Message
<1>3. m = Begun(role, calls, id)
  BY DEF Begun, x
<1> HIDE DEF m
<1>4. Fresh(m)
  BY <1>1, <1>2 DEF Fresh
<1> QED BY <1>1, <1>2, <1>3, <1>4

-----------------------------------------------------------------------------
(* The chat protocol.                                                      *)

\* A turn's messages in the chat protocol.
LEMMA ChatTurnTold ==
    ASSUME NEW t \in Turn, t.who # "developer"
    PROVE  /\ ParseChatRequest(ChatTurn(t)) \in Messages
           /\ Counts(ParseChatRequest(ChatTurn(t))) = Told(t)
<1> DEFINE w(role, calls, id) == [role |-> role, parts |-> Parts(t), calls |-> calls,
                                  callId |-> id]
           wire == ChatTurn(t)
           parsed == ParseChatRequest(wire)
<1>1. ASSUME NEW role \in Word, NEW calls \in Text, NEW id \in Word
      PROVE  /\ ParseMessage(w(role, calls, id)) \in Message
             /\ Counted(ParseMessage(w(role, calls, id))) = Whole(t, role, id, calls)
  <2> DEFINE m == Begun(role, calls, id)
             b == FoldLeft(TakePart, m, Parts(t))
  <2>1. m \in Message /\ Fresh(m) /\ m.role = role /\ m.calls = calls /\ m.callId = id
    BY BegunFacts
  <2>2. ParseMessage(w(role, calls, id)) = b
    BY DEF ParseMessage, Begun
  <2> HIDE DEF m
  <2>3. Says(b, t, role, id, calls)
    BY <2>1, MadeOfParts
  <2> HIDE DEF b
  <2>4. b \in Message
    BY <2>3 DEF Says
  <2>5. Counted(b) = Whole(t, role, id, calls)
    BY <2>3, SaysWhole
  <2> HIDE DEF w
  <2> QED BY <2>2, <2>4, <2>5
<1>2. /\ DOMAIN t.calls = 1 .. Len(t.calls) /\ Len(t.calls) \in Nat
      /\ \A k \in 1 .. Len(t.calls) : t.calls[k] \in Word
      /\ t.calls \in Text /\ <<>> \in Text /\ t.who \in Word \cup {"results"}
      /\ "tool" \in Word /\ NoCall \in Word
  BY TurnFacts, TextFacts, MarksAreWords DEF NoCall
<1>3. parsed = [i \in DOMAIN wire |-> ParseMessage(wire[i])]
  BY DEF ParseChatRequest
<1>4. CASE t.who = "results"
  <2> DEFINE n == Len(t.calls)
  <2>1. DOMAIN wire = 1 .. n /\ \A k \in 1 .. n : wire[k] = w("tool", <<>>, t.calls[k])
    BY <1>2, <1>4 DEF ChatTurn
  <2> HIDE DEF w, wire
  <2>2. DOMAIN parsed = 1 .. n /\ \A k \in 1 .. n : parsed[k] = ParseMessage(w("tool", <<>>, t.calls[k]))
    BY <1>3, <2>1
  <2> HIDE DEF parsed, n
  <2>3. \A k \in 1 .. n : /\ parsed[k] \in Message
                          /\ Counted(parsed[k]) = Whole(t, "tool", t.calls[k], <<>>)
    BY <1>1, <1>2, <2>2 DEF n
  <2>4. parsed = [k \in 1 .. n |-> parsed[k]] /\ n \in Nat
    <3>1. parsed = [k \in DOMAIN parsed |-> parsed[k]]
      BY <1>3 DEF parsed
    <3> QED BY <1>2, <2>2, <3>1 DEF n
  <2>5. parsed \in Messages
    BY <2>3, <2>4 DEF Messages
  <2>6. Counts(parsed) = [k \in 1 .. n |-> Whole(t, "tool", t.calls[k], <<>>)]
    BY <2>2, <2>3 DEF Counts
  <2>7. Told(t) = [k \in 1 .. n |-> Whole(t, "tool", t.calls[k], <<>>)]
    BY <1>2, <1>4 DEF Told, n
  <2> QED BY <2>5, <2>6, <2>7 DEF parsed, wire
<1>5. CASE t.who # "results"
  <2> DEFINE m == ParseMessage(w(t.who, t.calls, NoCall))
  <2>1. m \in Message /\ Counted(m) = Whole(t, t.who, NoCall, t.calls)
    BY <1>1, <1>2, <1>5
  <2>2. parsed = <<m>>
    <3>1. wire = <<w(t.who, t.calls, NoCall)>>
      BY <1>5 DEF ChatTurn
    <3> HIDE DEF w, wire
    <3>2. DOMAIN wire = {1} /\ wire[1] = w(t.who, t.calls, NoCall)
      BY <3>1
    <3> QED BY <1>3, <3>2
  <2> HIDE DEF m, parsed, wire, w
  <2>3. parsed \in Messages /\ Counts(parsed) = <<Counted(m)>>
    BY <2>1, <2>2, CountsJoin DEF Messages
  <2>4. Told(t) = <<Counted(m)>>
    BY <1>5, <2>1, ToldIs, VoiceIs
  <2> QED BY <2>3, <2>4 DEF parsed, wire
<1> QED BY <1>4, <1>5

\* The chat protocol parses message by message.
LEMMA ChatJoins ==
    ASSUME NEW u \in Seq(Parties), NEW v \in Seq(Parties),
           ParseChatRequest(u) \in Messages, ParseChatRequest(v) \in Messages
    PROVE  ParseChatRequest(u \o v) = ParseChatRequest(u) \o ParseChatRequest(v)
<1> DEFINE a == ParseChatRequest(u)
           b == ParseChatRequest(v)
           w == u \o v
           c == ParseChatRequest(w)
<1>1. /\ Len(u) \in Nat /\ Len(v) \in Nat /\ Len(w) = Len(u) + Len(v) /\ Len(w) \in Nat
      /\ DOMAIN w = 1 .. Len(w) /\ DOMAIN u = 1 .. Len(u) /\ DOMAIN v = 1 .. Len(v)
      /\ \A i \in 1 .. Len(u) : w[i] = u[i]
      /\ \A i \in 1 .. Len(v) : w[Len(u) + i] = v[i]
  OBVIOUS
<1>2. /\ a = [i \in 1 .. Len(u) |-> ParseMessage(u[i])]
      /\ b = [i \in 1 .. Len(v) |-> ParseMessage(v[i])]
      /\ c = [i \in 1 .. Len(w) |-> ParseMessage(w[i])]
  BY <1>1 DEF ParseChatRequest
<1>3. a \in Seq(Message) /\ b \in Seq(Message)
  BY DEF Messages
<1> HIDE DEF a, b, c, w
<1>4. Len(a) = Len(u) /\ Len(b) = Len(v)
  BY <1>1, <1>2
<1>5. \A i \in 1 .. Len(w) : c[i] = (a \o b)[i]
  <2> SUFFICES ASSUME NEW i \in 1 .. Len(w) PROVE c[i] = (a \o b)[i]
    OBVIOUS
  <2>0. c[i] = ParseMessage(w[i])
    BY <1>2
  <2>1. CASE i <= Len(u)
    <3>1. i \in 1 .. Len(u)
      BY <1>1, <2>1
    <3>2. (a \o b)[i] = a[i]
      BY <1>1, <1>3, <1>4, <3>1
    <3>3. a[i] = ParseMessage(u[i]) /\ w[i] = u[i]
      BY <1>1, <1>2, <3>1
    <3> QED BY <2>0, <3>2, <3>3
  <2>2. CASE i > Len(u)
    <3> DEFINE j == i - Len(u)
    <3>1. j \in 1 .. Len(v) /\ i = Len(u) + j
      BY <1>1, <2>2
    <3> HIDE DEF j
    <3>2. (a \o b)[i] = b[j]
      BY <1>1, <1>3, <1>4, <3>1
    <3>3. b[j] = ParseMessage(v[j]) /\ w[i] = v[j]
      BY <1>1, <1>2, <3>1
    <3> QED BY <2>0, <3>2, <3>3
  <2>3. i <= Len(u) \/ i > Len(u)
    BY <1>1
  <2> QED BY <2>1, <2>2, <2>3
<1>6. a \o b = [i \in 1 .. Len(w) |-> (a \o b)[i]]
  <2> DEFINE d == a \o b
  <2>1. d \in Seq(Message) /\ Len(d) = Len(a) + Len(b)
    BY <1>3
  <2>3. Len(d) = Len(w)
    BY <1>1, <1>4, <2>1
  <2> HIDE DEF d
  <2>2. d = [i \in 1 .. Len(w) |-> d[i]]
    BY <2>1, <2>3
  <2> QED BY <2>2 DEF d
<1>7. c = [i \in 1 .. Len(w) |-> c[i]]
  BY <1>2
<1>8. c = a \o b
  BY <1>5, <1>6, <1>7
<1> QED BY <1>8 DEF a, b, c, w

\* What comes in by the chat protocol is the conversation.
LEMMA ChatTold ==
    ASSUME NEW conv \in Seq(Turn), Carries("chat", conv)
    PROVE  Counts(ParseChatRequest(ChatWire(conv))) = Canonical(conv)
<1> DEFINE ss == [i \in DOMAIN conv |-> ChatTurn(conv[i])]
           n == Len(conv)
<1>1. n \in Nat /\ DOMAIN conv = 1 .. n /\ \A i \in 1 .. n : conv[i] \in Turn
  OBVIOUS
<1>2. ss \in Seq(Seq(Parties)) /\ Len(ss) = n /\ \A i \in 1 .. n : ss[i] = ChatTurn(conv[i])
  <2>1. \A i \in 1 .. n : ChatTurn(conv[i]) \in Seq(Parties)
    BY <1>1, ChatTurnTyped
  <2> QED BY <1>1, <2>1
<1>3. ChatWire(conv) = FlattenSeq(ss)
  BY DEF ChatWire
<1>4. PICK C \in [0 .. Len(conv) -> Seq(Count)] : Tells(C, conv)
  BY TellsExists
<1> HIDE DEF ss
<1>5. PICK W \in [0 .. Len(ss) -> Seq(Parties)] : Flattens(W, ss)
  BY <1>2, FlattensExist
<1> DEFINE P(k) == ParseChatRequest(W[k])
           T == {k \in 0 .. n : P(k) \in Messages /\ Counts(P(k)) = C[k]}
<1>6. 0 \in T
  <2>1. W[0] = <<>> /\ C[0] = <<>>
    BY <1>4, <1>5 DEF Flattens, Tells
  <2>2. ParseChatRequest(<<>>) = <<>>
    BY DEF ParseChatRequest
  <2>3. P(0) = <<>>
    BY <2>1, <2>2
  <2>4. <<>> \in Messages
    BY DEF Messages
  <2> HIDE DEF P
  <2> QED BY <1>1, <2>1, <2>3, <2>4, CountsJoin
<1>7. ASSUME NEW k \in 1 .. n, k - 1 \in T PROVE k \in T
  <2>1. /\ k - 1 \in 0 .. n /\ k \in 0 .. n /\ k \in 1 .. Len(ss) /\ conv[k] \in Turn
        /\ ss[k] = ChatTurn(conv[k])
    BY <1>1, <1>2
  <2>2. W[k] = W[k - 1] \o ChatTurn(conv[k]) /\ C[k] = C[k - 1] \o Told(conv[k])
    BY <1>4, <1>5, <2>1 DEF Flattens, Tells
  <2>3. W[k - 1] \in Seq(Parties) /\ ChatTurn(conv[k]) \in Seq(Parties)
    BY <1>2, <2>1, ChatTurnTyped
  <2>4. P(k - 1) \in Messages /\ Counts(P(k - 1)) = C[k - 1]
    BY <1>7
  <2> DEFINE a == P(k - 1)
             b == ParseChatRequest(ChatTurn(conv[k]))
  <2>5. b \in Messages /\ Counts(b) = Told(conv[k])
    <3>1. conv[k].who # "developer"
      BY <1>1 DEF Carries
    <3> QED BY <2>1, <3>1, ChatTurnTold
  <2>6. P(k) = a \o b
    BY <2>2, <2>3, <2>4, <2>5, ChatJoins
  <2>7. a \in Messages /\ Counts(a) = C[k - 1]
    BY <2>4
  <2> HIDE DEF P, a, b
  <2>8. a \o b \in Messages /\ Counts(a \o b) = Counts(a) \o Counts(b)
    BY <2>5, <2>7, CountsJoin
  <2> QED BY <2>1, <2>2, <2>5, <2>6, <2>7, <2>8
<1>8. n \in T
  <2>1. n \in 0 .. n
    BY <1>1
  <2> HIDE DEF T, n
  <2> QED BY <1>1, <1>6, <1>7, <2>1, UpTo
<1>9. W[n] = ChatWire(conv) /\ C[n] = Canonical(conv)
  BY <1>2, <1>3, <1>4, <1>5 DEF Flattens, Tells
<1> HIDE DEF n
<1> QED BY <1>8, <1>9

\* The items of a request, read on top of the messages there are already ...
ReadInput(base, items) == FoldLeft(LAMBDA msgs, it : FoldLeft(JoinItem, msgs, ParseResponsesItem(it)), base, items)
Reads(F, base, items) ==
    /\ F[0] = base /\ F[Len(items)] = ReadInput(base, items)
    /\ \A k \in 1 .. Len(items) : F[k] = FoldLeft(JoinItem, F[k - 1], ParseResponsesItem(items[k]))

\* Every list of items can be followed item by item.
LEMMA ReadsExists ==
    ASSUME NEW base \in Messages, NEW items \in Seq(Item)
    PROVE  \E F \in [0 .. Len(items) -> Messages] : Reads(F, base, items)
<1>1. PICK F \in [0 .. Len(items) -> Messages] :
        /\ F[0] = base
        /\ \A k \in 1 .. Len(items) : F[k] = FoldLeft(JoinItem, F[k - 1], ParseResponsesItem(items[k]))
        /\ FoldLeft(LAMBDA msgs, it : FoldLeft(JoinItem, msgs, ParseResponsesItem(it)), base, items) = F[Len(items)]
  BY InputTraced
<1> QED BY <1>1 DEF Reads, ReadInput

\* No item, one item, and any number of them.
LEMMA ReadsOne ==
    ASSUME NEW x \in Messages
    PROVE  /\ ReadInput(x, <<>>) = x
           /\ \A e \in Item : ReadInput(x, <<e>>) = FoldLeft(JoinItem, x, ParseResponsesItem(e))
           /\ \A s \in Seq(Item) : ReadInput(x, s) \in Messages
<1>1. ReadInput(x, <<>>) = x
  <2> DEFINE z == <<>>
  <2>1. z \in Seq(Item) /\ Len(z) = 0
    OBVIOUS
  <2> HIDE DEF z
  <2>2. PICK F \in [0 .. Len(z) -> Messages] : Reads(F, x, z)
    BY <2>1, ReadsExists
  <2>3. ReadInput(x, z) = x
    BY <2>1, <2>2 DEF Reads
  <2> QED BY <2>3 DEF z
<1>2. ASSUME NEW e \in Item PROVE ReadInput(x, <<e>>) = FoldLeft(JoinItem, x, ParseResponsesItem(e))
  <2> DEFINE z == <<e>>
  <2>1. z \in Seq(Item) /\ Len(z) = 1 /\ z[1] = e
    OBVIOUS
  <2> HIDE DEF z
  <2>2. PICK F \in [0 .. Len(z) -> Messages] : Reads(F, x, z)
    BY <2>1, ReadsExists
  <2>3. F[0] = x /\ F[1] = ReadInput(x, z)
    BY <2>1, <2>2 DEF Reads
  <2>4. F[1] = FoldLeft(JoinItem, F[1 - 1], ParseResponsesItem(z[1]))
    BY <2>1, <2>2 DEF Reads
  <2>5. 1 - 1 = 0
    OBVIOUS
  <2>6. ReadInput(x, z) = FoldLeft(JoinItem, x, ParseResponsesItem(e))
    BY <2>1, <2>3, <2>4, <2>5
  <2> QED BY <2>6 DEF z
<1>3. ASSUME NEW s \in Seq(Item) PROVE ReadInput(x, s) \in Messages
  <2>1. PICK F \in [0 .. Len(s) -> Messages] : Reads(F, x, s)
    BY ReadsExists
  <2>2. Len(s) \in 0 .. Len(s)
    OBVIOUS
  <2> QED BY <2>1, <2>2 DEF Reads
<1> QED BY <1>1, <1>2, <1>3

\* ... and what is read of two lists of items is read of one after the other.
LEMMA ReadsJoins ==
    ASSUME NEW x \in Messages, NEW u \in Seq(Item), NEW v \in Seq(Item)
    PROVE  ReadInput(x, u \o v) = ReadInput(ReadInput(x, u), v)
<1> DEFINE w == u \o v
           y == ReadInput(x, u)
           m == Len(u)
           n == Len(v)
<1>1. /\ m \in Nat /\ n \in Nat /\ w \in Seq(Item) /\ Len(w) = m + n
      /\ \A i \in 1 .. m : w[i] = u[i]
      /\ \A i \in 1 .. n : w[m + i] = v[i]
  OBVIOUS
<1>2. y \in Messages
  BY ReadsOne
<1> HIDE DEF w, y
<1>3. PICK F \in [0 .. Len(u) -> Messages] : Reads(F, x, u)
  BY ReadsExists
<1>4. PICK G \in [0 .. Len(v) -> Messages] : Reads(G, y, v)
  BY <1>2, ReadsExists
<1>5. PICK H \in [0 .. Len(w) -> Messages] : Reads(H, x, w)
  BY <1>1, ReadsExists
<1> DEFINE S == {k \in 0 .. m : H[k] = F[k]}
           T == {k \in 0 .. n : H[m + k] = G[k]}
<1>6. m \in S
  <2>1. 0 \in S
    BY <1>1, <1>3, <1>5 DEF Reads
  <2>2. ASSUME NEW k \in 1 .. m, k - 1 \in S PROVE k \in S
    <3>1. k \in 1 .. Len(w) /\ w[k] = u[k] /\ H[k - 1] = F[k - 1] /\ k \in 0 .. m
      BY <1>1, <2>2
    <3>2. F[k] = FoldLeft(JoinItem, F[k - 1], ParseResponsesItem(u[k]))
      BY <1>3 DEF Reads
    <3>3. H[k] = FoldLeft(JoinItem, H[k - 1], ParseResponsesItem(w[k]))
      BY <1>5, <3>1 DEF Reads
    <3>4. H[k] = F[k]
      BY <3>1, <3>2, <3>3
    <3> QED BY <3>1, <3>4
  <2>3. m \in 0 .. m
    BY <1>1
  <2> HIDE DEF S, m
  <2> QED BY <1>1, <2>1, <2>2, <2>3, UpTo
<1>7. n \in T
  <2>1. 0 \in T
    <3>1. m + 0 = m /\ 0 \in 0 .. n
      BY <1>1
    <3>2. F[m] = y /\ G[0] = y
      BY <1>3, <1>4 DEF Reads, y
    <3>3. H[m] = F[m]
      BY <1>6
    <3>4. H[m + 0] = G[0]
      <4> HIDE DEF m
      <4> QED BY <3>1, <3>2, <3>3
    <3> QED BY <3>1, <3>4
  <2>2. ASSUME NEW k \in 1 .. n, k - 1 \in T PROVE k \in T
    <3> HIDE DEF m, n
    <3>1. m + k \in 1 .. Len(w) /\ w[m + k] = v[k] /\ (m + k) - 1 = m + (k - 1) /\ k \in 0 .. n
      BY <1>1
    <3>5. H[m + (k - 1)] = G[k - 1]
      BY <2>2
    <3>2. G[k] = FoldLeft(JoinItem, G[k - 1], ParseResponsesItem(v[k]))
      BY <1>4 DEF Reads, n
    <3>3. H[m + k] = FoldLeft(JoinItem, H[(m + k) - 1], ParseResponsesItem(w[m + k]))
      BY <1>5, <3>1 DEF Reads
    <3>4. H[m + k] = G[k]
      BY <3>1, <3>2, <3>3, <3>5
    <3> QED BY <3>1, <3>4
  <2>3. n \in 0 .. n
    BY <1>1
  <2> HIDE DEF T, n
  <2> QED BY <1>1, <2>1, <2>2, <2>3, UpTo
<1>8. H[m + n] = ReadInput(x, w) /\ G[n] = ReadInput(y, v)
  <2>1. H[Len(w)] = ReadInput(x, w) /\ G[Len(v)] = ReadInput(y, v)
    BY <1>4, <1>5 DEF Reads
  <2> QED BY <1>1, <2>1
<1>9. H[m + n] = G[n]
  BY <1>7
<1> HIDE DEF m, n
<1> QED BY <1>8, <1>9 DEF w, y

\* The blocks of a message, collected on top of what there is already ...
ReadBlocks(s, blocks) == FoldLeft(TakeBlock, s, blocks)
Collects(F, s, blocks) ==
    /\ F[0] = s /\ F[Len(blocks)] = ReadBlocks(s, blocks)
    /\ \A k \in 1 .. Len(blocks) : F[k] = TakeBlock(F[k - 1], blocks[k])

\* Every list of blocks can be followed block by block.
LEMMA CollectsExists ==
    ASSUME NEW s \in Collected, NEW blocks \in Seq(Block)
    PROVE  \E F \in [0 .. Len(blocks) -> Collected] : Collects(F, s, blocks)
<1>1. PICK F \in [0 .. Len(blocks) -> Collected] :
        /\ F[0] = s
        /\ \A k \in 1 .. Len(blocks) : F[k] = TakeBlock(F[k - 1], blocks[k])
        /\ FoldLeft(TakeBlock, s, blocks) = F[Len(blocks)]
  BY BlocksTraced
<1> QED BY <1>1 DEF Collects, ReadBlocks

\* No block, one block, and any number of them.
LEMMA CollectsOne ==
    ASSUME NEW x \in Collected
    PROVE  /\ ReadBlocks(x, <<>>) = x
           /\ \A e \in Block : ReadBlocks(x, <<e>>) = TakeBlock(x, e)
           /\ \A s \in Seq(Block) : ReadBlocks(x, s) \in Collected
<1>1. ReadBlocks(x, <<>>) = x
  <2> DEFINE z == <<>>
  <2>1. z \in Seq(Block) /\ Len(z) = 0
    OBVIOUS
  <2> HIDE DEF z
  <2>2. PICK F \in [0 .. Len(z) -> Collected] : Collects(F, x, z)
    BY <2>1, CollectsExists
  <2>3. ReadBlocks(x, z) = x
    BY <2>1, <2>2 DEF Collects
  <2> QED BY <2>3 DEF z
<1>2. ASSUME NEW e \in Block PROVE ReadBlocks(x, <<e>>) = TakeBlock(x, e)
  <2> DEFINE z == <<e>>
  <2>1. z \in Seq(Block) /\ Len(z) = 1 /\ z[1] = e
    OBVIOUS
  <2> HIDE DEF z
  <2>2. PICK F \in [0 .. Len(z) -> Collected] : Collects(F, x, z)
    BY <2>1, CollectsExists
  <2>3. F[0] = x /\ F[1] = ReadBlocks(x, z)
    BY <2>1, <2>2 DEF Collects
  <2>4. F[1] = TakeBlock(F[1 - 1], z[1])
    BY <2>1, <2>2 DEF Collects
  <2>5. 1 - 1 = 0
    OBVIOUS
  <2>6. ReadBlocks(x, z) = TakeBlock(x, e)
    BY <2>1, <2>3, <2>4, <2>5
  <2> QED BY <2>6 DEF z
<1>3. ASSUME NEW s \in Seq(Block) PROVE ReadBlocks(x, s) \in Collected
  <2>1. PICK F \in [0 .. Len(s) -> Collected] : Collects(F, x, s)
    BY CollectsExists
  <2>2. Len(s) \in 0 .. Len(s)
    OBVIOUS
  <2> QED BY <2>1, <2>2 DEF Collects
<1> QED BY <1>1, <1>2, <1>3

\* ... and of two lists of blocks one after the other.
LEMMA CollectsJoins ==
    ASSUME NEW x \in Collected, NEW u \in Seq(Block), NEW v \in Seq(Block)
    PROVE  ReadBlocks(x, u \o v) = ReadBlocks(ReadBlocks(x, u), v)
<1> DEFINE w == u \o v
           y == ReadBlocks(x, u)
           m == Len(u)
           n == Len(v)
<1>1. /\ m \in Nat /\ n \in Nat /\ w \in Seq(Block) /\ Len(w) = m + n
      /\ \A i \in 1 .. m : w[i] = u[i]
      /\ \A i \in 1 .. n : w[m + i] = v[i]
  OBVIOUS
<1>2. y \in Collected
  BY CollectsOne
<1> HIDE DEF w, y
<1>3. PICK F \in [0 .. Len(u) -> Collected] : Collects(F, x, u)
  BY CollectsExists
<1>4. PICK G \in [0 .. Len(v) -> Collected] : Collects(G, y, v)
  BY <1>2, CollectsExists
<1>5. PICK H \in [0 .. Len(w) -> Collected] : Collects(H, x, w)
  BY <1>1, CollectsExists
<1> DEFINE S == {k \in 0 .. m : H[k] = F[k]}
           T == {k \in 0 .. n : H[m + k] = G[k]}
<1>6. m \in S
  <2>1. 0 \in S
    BY <1>1, <1>3, <1>5 DEF Collects
  <2>2. ASSUME NEW k \in 1 .. m, k - 1 \in S PROVE k \in S
    <3>1. k \in 1 .. Len(w) /\ w[k] = u[k] /\ H[k - 1] = F[k - 1] /\ k \in 0 .. m
      BY <1>1, <2>2
    <3>2. F[k] = TakeBlock(F[k - 1], u[k])
      BY <1>3 DEF Collects
    <3>3. H[k] = TakeBlock(H[k - 1], w[k])
      BY <1>5, <3>1 DEF Collects
    <3>4. H[k] = F[k]
      BY <3>1, <3>2, <3>3
    <3> QED BY <3>1, <3>4
  <2>3. m \in 0 .. m
    BY <1>1
  <2> HIDE DEF S, m
  <2> QED BY <1>1, <2>1, <2>2, <2>3, UpTo
<1>7. n \in T
  <2>1. 0 \in T
    <3>1. m + 0 = m /\ 0 \in 0 .. n
      BY <1>1
    <3>2. F[m] = y /\ G[0] = y
      BY <1>3, <1>4 DEF Collects, y
    <3>3. H[m] = F[m]
      BY <1>6
    <3>4. H[m + 0] = G[0]
      <4> HIDE DEF m
      <4> QED BY <3>1, <3>2, <3>3
    <3> QED BY <3>1, <3>4
  <2>2. ASSUME NEW k \in 1 .. n, k - 1 \in T PROVE k \in T
    <3> HIDE DEF m, n
    <3>1. m + k \in 1 .. Len(w) /\ w[m + k] = v[k] /\ (m + k) - 1 = m + (k - 1) /\ k \in 0 .. n
      BY <1>1
    <3>5. H[m + (k - 1)] = G[k - 1]
      BY <2>2
    <3>2. G[k] = TakeBlock(G[k - 1], v[k])
      BY <1>4 DEF Collects, n
    <3>3. H[m + k] = TakeBlock(H[(m + k) - 1], w[m + k])
      BY <1>5, <3>1 DEF Collects
    <3>4. H[m + k] = G[k]
      BY <3>1, <3>2, <3>3, <3>5
    <3> QED BY <3>1, <3>4
  <2>3. n \in 0 .. n
    BY <1>1
  <2> HIDE DEF T, n
  <2> QED BY <1>1, <2>1, <2>2, <2>3, UpTo
<1>8. H[m + n] = ReadBlocks(x, w) /\ G[n] = ReadBlocks(y, v)
  <2>1. H[Len(w)] = ReadBlocks(x, w) /\ G[Len(v)] = ReadBlocks(y, v)
    BY <1>4, <1>5 DEF Collects
  <2> QED BY <1>1, <2>1
<1>9. H[m + n] = G[n]
  BY <1>7
<1> HIDE DEF m, n
<1> QED BY <1>8, <1>9 DEF w, y

-----------------------------------------------------------------------------
(* The responses protocol.                                                 *)

\* The first of a list.
Firsts(s, k) == SubSeq(s, 1, k)

\* The first ones grow one by one.
LEMMA FirstsFacts ==
    ASSUME NEW A, NEW s \in Seq(A)
    PROVE  /\ Firsts(s, 0) = <<>> /\ Firsts(s, Len(s)) = s
           /\ \A k \in 0 .. Len(s) : Firsts(s, k) \in Seq(A) /\ Len(Firsts(s, k)) = k
           /\ \A k \in 1 .. Len(s) : /\ Firsts(s, k) = Firsts(s, k - 1) \o <<s[k]>>
                                     /\ Firsts(s, k) # <<>>
<1>1. Firsts(s, 0) = <<>> /\ Firsts(s, Len(s)) = s
  BY DEF Firsts
<1>2. ASSUME NEW k \in 0 .. Len(s)
      PROVE  Firsts(s, k) \in Seq(A) /\ Len(Firsts(s, k)) = k
  BY DEF Firsts
<1>3. ASSUME NEW k \in 1 .. Len(s)
      PROVE  Firsts(s, k) = Firsts(s, k - 1) \o <<s[k]>>
  BY DEF Firsts
<1>4. ASSUME NEW k \in 1 .. Len(s) PROVE Firsts(s, k) # <<>>
  <2>1. k \in 0 .. Len(s) /\ k # 0
    OBVIOUS
  <2>2. Len(Firsts(s, k)) = k
    BY <1>2, <2>1
  <2> QED BY <2>1, <2>2
<1> QED BY <1>1, <1>2, <1>3, <1>4

\* Lists that are joined one after the other.
LEMMA JoinedAgain ==
    ASSUME NEW A, NEW s \in Seq(A), NEW u \in Seq(A), NEW v \in Seq(A)
    PROVE  /\ (s \o u) \o v = s \o (u \o v) /\ s \o <<>> = s /\ <<>> \o s = s
           /\ s \o u \in Seq(A)
OBVIOUS

\* A message behind the others.
SetLast(a, x) == [a EXCEPT ![Len(a)] = x]

\* Only the last message changes when it is replaced.
LEMMA Behind ==
    ASSUME NEW ms \in Messages, NEW m \in Message
    PROVE  /\ Append(ms, m) \in Messages /\ Append(ms, m) = ms \o <<m>>
           /\ Append(ms, m) # <<>> /\ Last(Append(ms, m)) = m
           /\ Counts(Append(ms, m)) = Counts(ms) \o <<Counted(m)>>
           /\ \A x \in Message : SetLast(Append(ms, m), x) = Append(ms, x)
<1> DEFINE a == Append(ms, m)
           n == Len(ms)
<1>1. /\ n \in Nat /\ a \in Seq(Message) /\ Len(a) = n + 1 /\ a[n + 1] = m
      /\ \A i \in 1 .. n : a[i] = ms[i]
      /\ a = ms \o <<m>> /\ <<m>> \in Seq(Message)
  BY DEF Messages
<1>2. a # <<>> /\ Last(a) = m
  BY <1>1 DEF Last
<1>3. Counts(a) = Counts(ms) \o <<Counted(m)>>
  <2>1. <<m>> \in Messages /\ Counts(<<m>>) = <<Counted(m)>>
    BY <1>1, CountsJoin DEF Messages
  <2> HIDE DEF a
  <2> QED BY <1>1, <2>1, CountsJoin
<1>4. ASSUME NEW x \in Message
      PROVE  SetLast(a, x) = Append(ms, x)
  <2> DEFINE b == Append(ms, x)
             c == [a EXCEPT ![Len(a)] = x]
  <2>1. b \in Seq(Message) /\ Len(b) = n + 1 /\ b[n + 1] = x /\ \A i \in 1 .. n : b[i] = ms[i]
    BY DEF Messages
  <2> HIDE DEF a, b, n
  <2>2. a = [i \in 1 .. (n + 1) |-> a[i]] /\ b = [i \in 1 .. (n + 1) |-> b[i]]
    BY <1>1, <2>1
  <2>3. c = [i \in 1 .. (n + 1) |-> IF i = n + 1 THEN x ELSE a[i]]
    BY <1>1, <2>2
  <2>4. \A i \in 1 .. (n + 1) : i = n + 1 \/ i \in 1 .. n
    BY <1>1
  <2>5. \A i \in 1 .. (n + 1) : (IF i = n + 1 THEN x ELSE a[i]) = b[i]
    BY <1>1, <2>1, <2>4
  <2>6. c = b
    BY <2>2, <2>3, <2>5
  <2> QED BY <2>6 DEF b, SetLast
<1> HIDE DEF a
<1>5. a \in Messages
  BY <1>1 DEF Messages
<1> QED BY <1>1, <1>2, <1>3, <1>4, <1>5 DEF a

\* How a message comes in behind the others.
WithCalls(m, calls) == [m EXCEPT !.calls = calls]

\* Calls join the assistant's last message; everything else goes behind it.
LEMMA JoinsBehind ==
    ASSUME NEW ms \in Messages, NEW m \in Message
    PROVE  /\ m.calls = <<>> => JoinItem(ms, m) = Append(ms, m)
           /\ ms = <<>> \/ Last(ms).role # "assistant" => JoinItem(ms, m) = Append(ms, m)
           /\ \A x \in Message : x.role = "assistant" /\ m.calls # <<>> =>
                 JoinItem(Append(ms, x), m) = Append(ms, WithCalls(x, x.calls \o m.calls))
<1>1. m.calls = <<>> => JoinItem(ms, m) = Append(ms, m)
  BY DEF JoinItem
<1>2. ms = <<>> \/ Last(ms).role # "assistant" => JoinItem(ms, m) = Append(ms, m)
  BY DEF JoinItem
<1>3. ASSUME NEW x \in Message, x.role = "assistant", m.calls # <<>>
      PROVE  JoinItem(Append(ms, x), m) = Append(ms, WithCalls(x, x.calls \o m.calls))
  <2> DEFINE a == Append(ms, x)
             y == WithCalls(x, x.calls \o m.calls)
             n == Len(a)
  <2>1. a \in Messages /\ a # <<>> /\ Last(a) = x
    BY Behind
  <2>2. y \in Message
    <3> DEFINE cs == x.calls \o m.calls
    <3>1. cs \in Text
      BY MessageFields, TextFacts
    <3> HIDE DEF cs
    <3>2. [x EXCEPT !.calls = cs] \in Message
      BY <3>1, Rewritten, MarksAreWords
    <3> QED BY <3>2 DEF WithCalls, cs
  <2> HIDE DEF y
  <2>3. SetLast(a, y) = Append(ms, y)
    BY <2>2, Behind
  <2>4. a[n] = x
    BY <2>1 DEF Last
  <2> HIDE DEF a, n
  <2>5. JoinItem(a, m) = [a EXCEPT ![Len(a)].calls = x.calls \o m.calls]
    BY <1>3, <2>1 DEF JoinItem
  <2>6. [a EXCEPT ![Len(a)].calls = x.calls \o m.calls] = [a EXCEPT ![Len(a)] = y]
    BY <2>4 DEF WithCalls, n, y
  <2> QED BY <2>3, <2>5, <2>6 DEF a, y, SetLast
<1> QED BY <1>1, <1>2, <1>3

\* The role of a message of the responses protocol.
Named(role) == IF role = "developer" THEN "system" ELSE role

\* What each item of a turn brings.
LEMMA ItemBrings ==
    ASSUME NEW ms \in Messages
    PROVE  /\ \A it \in ThoughtItems : ReadInput(ms, <<it>>) = ms
           /\ \A it \in MessageItems :
                 ReadInput(ms, <<it>>)
                    = JoinItem(ms, FoldLeft(TakePart, Blank(Named(it.role)), it.parts))
           /\ \A it \in CallItems :
                 FoldLeft(JoinItem, ms, ParseResponsesItem(it))
                    = JoinItem(ms, WithCalls(Blank("assistant"), <<it.id>>))
           /\ \A it \in OutputItems :
                 FoldLeft(JoinItem, ms, ParseResponsesItem(it))
                    = JoinItem(ms, [Blank("tool") EXCEPT !.callId = it.id, !.text = it.text])
<1>1. \A it \in Item :
         ReadInput(ms, <<it>>) = FoldLeft(JoinItem, ms, ParseResponsesItem(it))
  BY ReadsOne
<1>2. FoldLeft(JoinItem, ms, <<>>) = ms
  <2> DEFINE z == <<>>
  <2>1. z \in Messages /\ Len(z) = 0
    BY DEF Messages
  <2> HIDE DEF z
  <2>2. FoldLeft(JoinItem, ms, z) = ms
    <3>1. PICK F \in [0 .. Len(z) -> Messages] :
            /\ F[0] = ms
            /\ \A k \in 1 .. Len(z) : F[k] = JoinItem(F[k - 1], z[k])
            /\ FoldLeft(JoinItem, ms, z) = F[Len(z)]
      BY <2>1, ItemsTraced DEF Messages
    <3> QED BY <2>1, <3>1
  <2> QED BY <2>2 DEF z
<1>3. ASSUME NEW m \in Message PROVE FoldLeft(JoinItem, ms, <<m>>) = JoinItem(ms, m)
  <2> DEFINE z == <<m>>
  <2>1. z \in Messages /\ Len(z) = 1 /\ z[1] = m
    BY DEF Messages
  <2> HIDE DEF z
  <2>2. PICK F \in [0 .. Len(z) -> Messages] :
            /\ F[0] = ms
            /\ \A k \in 1 .. Len(z) : F[k] = JoinItem(F[k - 1], z[k])
            /\ FoldLeft(JoinItem, ms, z) = F[Len(z)]
    BY <2>1, ItemsTraced DEF Messages
  <2>3. F[1] = JoinItem(F[1 - 1], z[1]) /\ 1 - 1 = 0
    BY <2>1, <2>2
  <2>4. FoldLeft(JoinItem, ms, z) = JoinItem(ms, m)
    BY <2>1, <2>2, <2>3
  <2> QED BY <2>4 DEF z
<1>4. ASSUME NEW it \in ThoughtItems PROVE ReadInput(ms, <<it>>) = ms
  <2>1. it \in Item /\ it.type = "reasoning"
    BY DEF ThoughtItems, Item
  <2>2. ParseResponsesItem(it) = <<>>
    BY <2>1 DEF ParseResponsesItem
  <2> QED BY <1>1, <1>2, <2>1, <2>2
<1>5. ASSUME NEW it \in MessageItems
      PROVE  ReadInput(ms, <<it>>)
                = JoinItem(ms, FoldLeft(TakePart, Blank(Named(it.role)), it.parts))
  <2> DEFINE m == FoldLeft(TakePart, Blank(Named(it.role)), it.parts)
  <2>1. it \in Item /\ it.type = "message" /\ it.role \in Word /\ it.parts \in Seq(Part)
    BY DEF MessageItems, Item
  <2>2. m \in Message
    <3>1. Named(it.role) \in Word
      BY <2>1, MarksAreWords DEF Named
    <3> QED BY <2>1, <3>1, BlankFacts, PartsTaken
  <2>3. ParseResponsesItem(it) = <<m>>
    BY <2>1 DEF ParseResponsesItem, Named
  <2> HIDE DEF m
  <2>4. ReadInput(ms, <<it>>) = JoinItem(ms, m)
    BY <1>1, <1>3, <2>1, <2>2, <2>3
  <2> QED BY <2>4 DEF m
<1>6. ASSUME NEW it \in CallItems
      PROVE  FoldLeft(JoinItem, ms, ParseResponsesItem(it))
                = JoinItem(ms, WithCalls(Blank("assistant"), <<it.id>>))
  <2> DEFINE m == WithCalls(Blank("assistant"), <<it.id>>)
  <2>1. it.type = "function_call" /\ it.id \in Word
    BY DEF CallItems
  <2>2. m \in Message
    <3>1. <<it.id>> \in Text /\ "assistant" \in Word
      BY <2>1, TextFacts, MarksAreWords
    <3> QED BY <3>1, BlankFacts, Rewritten DEF WithCalls
  <2>3. ParseResponsesItem(it) = <<m>>
    BY <2>1 DEF ParseResponsesItem, WithCalls
  <2> HIDE DEF m
  <2> QED BY <1>3, <2>2, <2>3 DEF m
<1>7. ASSUME NEW it \in OutputItems
      PROVE  FoldLeft(JoinItem, ms, ParseResponsesItem(it))
                = JoinItem(ms, [Blank("tool") EXCEPT !.callId = it.id, !.text = it.text])
  <2> DEFINE b == [Blank("tool") EXCEPT !.callId = it.id]
             m == [b EXCEPT !.text = it.text]
             m2 == [Blank("tool") EXCEPT !.callId = it.id, !.text = it.text]
  <2>1. it.type = "function_call_output" /\ it.id \in Word /\ it.text \in Text
    BY DEF OutputItems
  <2>2. m \in Message
    <3>1. b \in Message
      BY <2>1, BlankFacts, MarksAreWords, Rewritten
    <3> HIDE DEF b
    <3> QED BY <2>1, <3>1, Rewritten
  <2>3. m = m2
    OBVIOUS
  <2>4. ParseResponsesItem(it) = <<m2>>
    BY <2>1 DEF ParseResponsesItem
  <2> HIDE DEF m, m2
  <2> QED BY <1>3, <2>2, <2>3, <2>4 DEF m2
<1> QED BY <1>4, <1>5, <1>6, <1>7

\* A message of a turn without pictures, and a message with other calls.
LEMMA SaysBare ==
    ASSUME NEW t \in Turn, t.images = <<>>, NEW m \in Message,
           m.text = t.text, m.images = <<>>, m.deferred = <<>>
    PROVE  Says(m, t, m.role, m.callId, m.calls)
<1>1. PassedOn(t.images) = <<>>
  BY PassedOnTyped
<1>2. Len(m.images) + Marks(m.deferred) = Len(t.images)
  BY MarksAdd
<1> QED BY <1>1, <1>2 DEF Says

\* Other calls leave what it says alone.
LEMMA SaysWithCalls ==
    ASSUME NEW t, NEW m, NEW role, NEW id, NEW before, Says(m, t, role, id, before),
           NEW calls \in Text
    PROVE  /\ WithCalls(m, calls) \in Message /\ WithCalls(m, calls).role = role
           /\ WithCalls(m, calls).calls = calls
           /\ Says(WithCalls(m, calls), t, role, id, calls)
<1> DEFINE b == WithCalls(m, calls)
<1>1. m \in Message
  BY DEF Says
<1>2. b \in Message /\ b.role = m.role /\ b.text = m.text /\ b.calls = calls
      /\ b.callId = m.callId /\ b.images = m.images /\ b.deferred = m.deferred
  BY <1>1 DEF Message, WithCalls
<1> HIDE DEF b
<1>3. b.role = role
  BY <1>2 DEF Says
<1>4. Says(b, t, role, id, calls)
  BY <1>2 DEF Says
<1> QED BY <1>2, <1>3, <1>4 DEF b

\* What a turn adds to the messages in front of it.
Grown(now, ms, t) ==
    /\ now \in Messages /\ now # <<>> /\ Counts(now) = Counts(ms) \o Told(t)
    /\ Last(now).role = "assistant" => t.who = "assistant"

\* A turn that is one message adds that message.
LEMMA GrownByOne ==
    ASSUME NEW ms \in Messages, NEW t \in Turn, t.who # "results", NEW m,
           Says(m, t, Voice(t), NoCall, t.calls)
    PROVE  Grown(Append(ms, m), ms, t)
<1>1. m \in Message /\ m.role = Voice(t)
  BY DEF Says
<1>2. Counted(m) = Whole(t, Voice(t), NoCall, t.calls)
  BY SaysWhole
<1>3. Told(t) = <<Counted(m)>>
  BY <1>2, ToldIs
<1> DEFINE a == Append(ms, m)
<1>4. a \in Messages /\ a # <<>> /\ Last(a) = m /\ Counts(a) = Counts(ms) \o <<Counted(m)>>
  BY <1>1, Behind
<1> HIDE DEF a
<1>5. Grown(a, ms, t)
  BY <1>1, <1>3, <1>4, VoiceIs DEF Grown
<1> QED BY <1>5 DEF a

\* Results come in one behind the other.
LEMMA ResponsesResults ==
    ASSUME NEW ms \in Messages, NEW t \in Turn, t.who = "results", t.calls # <<>>,
           t.images = <<>>
    PROVE  Grown(ReadInput(ms, ResponsesTurn(t)), ms, t)
<1> DEFINE items == ResponsesTurn(t)
           n == Len(t.calls)
           told == Told(t)
           it(k) == [type |-> "function_call_output", id |-> t.calls[k], text |-> t.text]
           made(k) == [Blank("tool") EXCEPT !.callId = t.calls[k], !.text = t.text]
<1>1. /\ DOMAIN t.calls = 1 .. n /\ n \in Nat /\ \A k \in 1 .. n : t.calls[k] \in Word
      /\ t.text \in Text /\ "tool" \in Word /\ t.calls \in Text
  BY TurnFacts, MarksAreWords
<1>2. n # 0
  BY <1>1 DEF Text
<1>3. items \in Seq(Item)
  BY ResponsesTurnTyped
<1>4. items = [k \in 1 .. n |-> it(k)]
  BY <1>1 DEF ResponsesTurn
<1>5. Len(items) = n /\ \A k \in 1 .. n : items[k] = it(k)
  BY <1>1, <1>4
<1>6. ASSUME NEW k \in 1 .. n
      PROVE  /\ it(k) \in OutputItems /\ it(k).id = t.calls[k] /\ it(k).text = t.text
             /\ made(k) \in Message /\ made(k).role = "tool" /\ made(k).calls = <<>>
             /\ Counted(made(k)) = Whole(t, "tool", t.calls[k], <<>>)
  <2> DEFINE x == Blank("tool")
             id == t.calls[k]
             u == t.text
             m == [x EXCEPT !.callId = id, !.text = u]
  <2>1. it(k) \in OutputItems /\ it(k).id = id /\ it(k).text = u
    BY <1>1 DEF OutputItems
  <2>2. x \in Message /\ x.role = "tool" /\ x.calls = <<>> /\ x.images = <<>> /\ x.deferred = <<>>
    BY <1>1, BlankFacts DEF Fresh
  <2>3. id \in Word /\ u \in Text
    BY <1>1
  <2> HIDE DEF x, id, u
  <2>4. /\ m \in Message /\ m.role = "tool" /\ m.calls = <<>> /\ m.text = u /\ m.callId = id
        /\ m.images = <<>> /\ m.deferred = <<>>
    BY <2>2, <2>3 DEF Message
  <2>5. m = made(k)
    BY DEF x, id, u
  <2> HIDE DEF m, made
  <2>6. Says(m, t, m.role, m.callId, m.calls)
    BY <2>4, SaysBare DEF u
  <2>7. Counted(m) = Whole(t, "tool", id, <<>>)
    BY <2>4, <2>6, SaysWhole
  <2> HIDE DEF it
  <2> QED BY <2>1, <2>4, <2>5, <2>7 DEF id, u
<1>7. told \in Seq(Count) /\ Len(told) = n
      /\ \A k \in 1 .. n : told[k] = Whole(t, "tool", t.calls[k], <<>>)
  BY ToldIs
<1> HIDE DEF items, it, made, told, n
<1>8. PICK F \in [0 .. Len(items) -> Messages] : Reads(F, ms, items)
  BY <1>3, ReadsExists
<1> DEFINE Goes(k) == /\ Counts(F[k]) = Counts(ms) \o Firsts(told, k)
                      /\ k # 0 => F[k] # <<>> /\ Last(F[k]).role = "tool"
           T == {k \in 0 .. n : Goes(k)}
<1>9. 0 \in T
  <2>1. F[0] = ms /\ Counts(ms) \in Seq(Count)
    BY <1>8, CountsJoin DEF Reads
  <2>2. Firsts(told, 0) = <<>> /\ Counts(ms) \o <<>> = Counts(ms)
    BY <1>7, <2>1, FirstsFacts
  <2> QED BY <1>1, <2>1, <2>2
<1>10. ASSUME NEW k \in 1 .. n, k - 1 \in T PROVE k \in T
  <2> DEFINE a == F[k - 1]
             m == made(k)
  <2>1. k \in 0 .. n /\ k - 1 \in 0 .. n /\ k # 0 /\ k \in 1 .. Len(items) /\ k - 1 \in 0 .. Len(items)
    BY <1>1, <1>5
  <2>2. F[k] = FoldLeft(JoinItem, a, ParseResponsesItem(it(k)))
    BY <1>5, <1>8, <2>1 DEF Reads
  <2>3. a \in Messages /\ Goes(k - 1)
    BY <1>8, <1>10, <2>1
  <2>4. F[k] = JoinItem(a, m)
    <3> HIDE DEF a
    <3> QED BY <1>6, <2>2, <2>3, ItemBrings DEF made
  <2>5. m \in Message /\ m.role = "tool" /\ m.calls = <<>> /\ Counted(m) = told[k]
    BY <1>6, <1>7
  <2>6. Counts(a) = Counts(ms) \o Firsts(told, k - 1)
    BY <2>3
  <2> HIDE DEF a, m
  <2>7. F[k] = Append(a, m)
    BY <2>3, <2>4, <2>5, JoinsBehind
  <2>8. F[k] # <<>> /\ Last(F[k]) = m /\ Counts(F[k]) = Counts(a) \o <<told[k]>>
    BY <2>3, <2>5, <2>7, Behind
  <2>9. Firsts(told, k) = Firsts(told, k - 1) \o <<told[k]>> /\ Firsts(told, k - 1) \in Seq(Count)
        /\ <<told[k]>> \in Seq(Count)
    <3>1. k \in 1 .. Len(told) /\ k - 1 \in 0 .. Len(told) /\ told[k] \in Count
      BY <1>7, <2>1
    <3> QED BY <1>7, <3>1, FirstsFacts
  <2>10. Counts(ms) \in Seq(Count)
    BY CountsJoin
  <2>11. Counts(F[k]) = Counts(ms) \o Firsts(told, k)
    BY <2>6, <2>8, <2>9, <2>10, JoinedAgain
  <2> QED BY <2>1, <2>5, <2>8, <2>11
<1>11. Goes(n)
  <2>1. n \in 0 .. n
    BY <1>1
  <2>2. n \in T
    <3> HIDE DEF T
    <3> QED BY <1>1, <1>9, <1>10, <2>1, UpTo
  <2> QED BY <2>2
<1>12. F[n] = ReadInput(ms, items) /\ F[n] \in Messages
  <2>1. n \in 0 .. Len(items)
    BY <1>1, <1>5
  <2> QED BY <1>5, <1>8, <2>1 DEF Reads
<1>13. Firsts(told, n) = told
  BY <1>7, FirstsFacts
<1>14. Grown(F[n], ms, t)
  BY <1>2, <1>11, <1>12, <1>13 DEF Grown, told
<1> QED BY <1>12, <1>14 DEF items

\* Calls join the assistant's message in front of them, or make one.
Calling(calls) == [k \in DOMAIN calls |-> [type |-> "function_call", id |-> calls[k]]]

\* The calls of a turn, item by item.
LEMMA CallsJoin ==
    ASSUME NEW ms \in Messages, NEW m \in Message, m.role = "assistant", m.calls = <<>>,
           NEW calls \in Text
    PROVE  /\ Calling(calls) \in Seq(Item)
           /\ ReadInput(Append(ms, m), Calling(calls)) = Append(ms, WithCalls(m, calls))
           /\ m = Blank("assistant") /\ calls # <<>>
                 /\ (ms = <<>> \/ Last(ms).role # "assistant") =>
                 ReadInput(ms, Calling(calls)) = Append(ms, WithCalls(m, calls))
<1> DEFINE items == Calling(calls)
           n == Len(calls)
           it(k) == [type |-> "function_call", id |-> calls[k]]
           made(k) == WithCalls(Blank("assistant"), <<calls[k]>>)
           Now(k) == Append(ms, WithCalls(m, Firsts(calls, k)))
<1>1. DOMAIN calls = 1 .. n /\ n \in Nat /\ \A k \in 1 .. n : calls[k] \in Word /\ <<calls[k]>> \in Text
  BY DEF Text
<1>2. items = [k \in 1 .. n |-> it(k)]
  BY <1>1 DEF Calling
<1>3. \A k \in 1 .. n : it(k) \in CallItems /\ it(k).id = calls[k] /\ it(k) \in Item
  BY <1>1 DEF CallItems, Item
<1>4. ASSUME NEW k \in 1 .. n
      PROVE  made(k) \in Message /\ made(k).calls = <<calls[k]>> /\ made(k).calls # <<>>
  <2> DEFINE x == Blank("assistant")
             cs == <<calls[k]>>
             y == WithCalls(x, cs)
  <2>1. x \in Message /\ cs \in Text /\ cs # <<>>
    BY <1>1, BlankFacts, MarksAreWords
  <2> HIDE DEF x, cs
  <2>2. y \in Message /\ y.calls = cs
    BY <2>1 DEF Message, WithCalls
  <2> QED BY <2>1, <2>2 DEF x, cs
<1>5. items \in Seq(Item) /\ Len(items) = n /\ \A k \in 1 .. n : items[k] = it(k)
  <2> HIDE DEF it, n, items
  <2> QED BY <1>1, <1>2, <1>3
<1>6. \A k \in 0 .. n : /\ Firsts(calls, k) \in Text
                        /\ WithCalls(m, Firsts(calls, k)) \in Message
                        /\ WithCalls(m, Firsts(calls, k)).role = "assistant"
                        /\ WithCalls(m, Firsts(calls, k)).calls = Firsts(calls, k)
  <2> SUFFICES ASSUME NEW k \in 0 .. n
               PROVE  /\ Firsts(calls, k) \in Text
                      /\ WithCalls(m, Firsts(calls, k)) \in Message
                      /\ WithCalls(m, Firsts(calls, k)).role = "assistant"
                      /\ WithCalls(m, Firsts(calls, k)).calls = Firsts(calls, k)
    OBVIOUS
  <2> DEFINE cs == Firsts(calls, k)
             y == WithCalls(m, cs)
  <2>1. cs \in Text
    BY FirstsFacts DEF Text
  <2> HIDE DEF cs
  <2>2. y \in Message /\ y.role = m.role /\ y.calls = cs
    BY <2>1 DEF Message, WithCalls
  <2> QED BY <2>1, <2>2 DEF cs
<1>7. \A k \in 1 .. n : /\ Firsts(calls, k) = Firsts(calls, k - 1) \o <<calls[k]>>
                        /\ k - 1 \in 0 .. n /\ k \in 0 .. n
  <2>1. \A k \in 1 .. n : Firsts(calls, k) = Firsts(calls, k - 1) \o <<calls[k]>>
    BY FirstsFacts DEF Text
  <2>2. \A k \in 1 .. n : k - 1 \in 0 .. n /\ k \in 0 .. n
    BY <1>1
  <2> QED BY <2>1, <2>2
<1>8. Firsts(calls, 0) = <<>> /\ Firsts(calls, n) = calls
  BY FirstsFacts DEF Text
<1> HIDE DEF items, it, made, n
\* The message takes one call more.
<1>9. ASSUME NEW k \in 1 .. n
      PROVE  FoldLeft(JoinItem, Now(k - 1), ParseResponsesItem(it(k))) = Now(k)
  <2> DEFINE x == WithCalls(m, Firsts(calls, k - 1))
             a == Append(ms, x)
  <2>1. x \in Message /\ x.role = "assistant" /\ x.calls = Firsts(calls, k - 1)
    BY <1>6, <1>7
  <2>2. a \in Messages
    <3> HIDE DEF x
    <3> QED BY <2>1, Behind
  <2>3. WithCalls(x, Firsts(calls, k)) = WithCalls(m, Firsts(calls, k))
    BY DEF Message, WithCalls
  <2> HIDE DEF x, a
  <2>4. FoldLeft(JoinItem, a, ParseResponsesItem(it(k))) = JoinItem(a, made(k))
    BY <1>3, <2>2, ItemBrings DEF made
  <2>5. JoinItem(Append(ms, x), made(k)) = Append(ms, WithCalls(x, x.calls \o made(k).calls))
    BY <1>4, <2>1, JoinsBehind
  <2>6. x.calls \o made(k).calls = Firsts(calls, k)
    BY <1>4, <1>7, <2>1
  <2> QED BY <2>3, <2>4, <2>5, <2>6 DEF a, x
<1>10. ReadInput(Append(ms, m), items) = Append(ms, WithCalls(m, calls))
  <2> DEFINE base == Append(ms, m)
  <2>1. base \in Messages
    BY Behind
  <2>2. base = Now(0)
    <3>1. WithCalls(m, <<>>) = m
      BY DEF WithCalls, Message
    <3> QED BY <1>8, <3>1
  <2> HIDE DEF base, Now
  <2>3. PICK F \in [0 .. Len(items) -> Messages] : Reads(F, base, items)
    BY <1>5, <2>1, ReadsExists
  <2> DEFINE T == {k \in 0 .. n : F[k] = Now(k)}
  <2>4. 0 \in T
    BY <1>1, <2>2, <2>3 DEF Reads
  <2>5. ASSUME NEW k \in 1 .. n, k - 1 \in T PROVE k \in T
    <3>1. F[k] = FoldLeft(JoinItem, F[k - 1], ParseResponsesItem(it(k)))
      BY <1>5, <2>3 DEF Reads
    <3>2. F[k - 1] = Now(k - 1)
      BY <2>5
    <3> QED BY <1>7, <1>9, <3>1, <3>2
  <2>6. n \in T
    <3>1. n \in 0 .. n
      BY <1>1
    <3> HIDE DEF T
    <3> QED BY <1>1, <2>4, <2>5, <3>1, UpTo
  <2> QED BY <1>5, <1>8, <2>3, <2>6 DEF Reads, base, Now
<1>11. ASSUME m = Blank("assistant"), calls # <<>>, ms = <<>> \/ Last(ms).role # "assistant"
       PROVE  ReadInput(ms, items) = Append(ms, WithCalls(m, calls))
  <2>1. PICK F \in [0 .. Len(items) -> Messages] : Reads(F, ms, items)
    BY <1>5, ReadsExists
  <2>2. n # 0 /\ 1 \in 1 .. n
    BY <1>1, <1>11 DEF Text, n
  <2>3. FoldLeft(JoinItem, ms, ParseResponsesItem(it(1))) = Now(1)
    <3>1. FoldLeft(JoinItem, ms, ParseResponsesItem(it(1))) = JoinItem(ms, made(1))
      BY <1>3, <2>2, ItemBrings DEF made
    <3>2. JoinItem(ms, made(1)) = Append(ms, made(1))
      BY <1>4, <1>11, <2>2, JoinsBehind
    <3>3. Firsts(calls, 1) = <<calls[1]>>
      <4>1. Firsts(calls, 1) = Firsts(calls, 0) \o <<calls[1]>> /\ <<calls[1]>> \in Text
        <5>1. 1 - 1 = 0
          OBVIOUS
        <5> QED BY <1>1, <1>7, <2>2, <5>1
      <4> QED BY <1>8, <4>1 DEF Text
    <3> QED BY <1>11, <3>1, <3>2, <3>3 DEF made
  <2> HIDE DEF Now
  <2> DEFINE T == {k \in 0 .. n : k # 0 => F[k] = Now(k)}
  <2>4. 0 \in T
    BY <1>1
  <2>5. ASSUME NEW k \in 1 .. n, k - 1 \in T PROVE k \in T
    <3>1. F[k] = FoldLeft(JoinItem, F[k - 1], ParseResponsesItem(it(k)))
      BY <1>5, <2>1 DEF Reads
    <3>2. CASE k = 1
      <4>1. F[k - 1] = ms
        BY <2>1, <3>2 DEF Reads
      <4> QED BY <1>7, <2>3, <3>1, <3>2, <4>1
    <3>3. CASE k # 1
      <4>1. F[k - 1] = Now(k - 1)
        BY <2>5, <3>3
      <4> QED BY <1>7, <1>9, <3>1, <4>1
    <3> QED BY <3>2, <3>3
  <2>6. n \in T
    <3>1. n \in 0 .. n
      BY <1>1
    <3> HIDE DEF T
    <3> QED BY <1>1, <2>4, <2>5, <3>1, UpTo
  <2> QED BY <1>5, <1>8, <2>1, <2>2, <2>6 DEF Reads, Now
<1> QED BY <1>5, <1>10, <1>11 DEF items

\* A turn that the responses protocol can say, after the messages there are.
ResponsesFits(ms, t) ==
    /\ t.text # <<>> \/ t.calls # <<>> \/ t.images # <<>>
    /\ t.who \in {"system", "developer", "user"} => t.calls = <<>>
    /\ t.who = "results" => t.calls # <<>> /\ t.images = <<>>
    /\ t.who = "assistant" /\ Parts(t) = <<>> => ms = <<>> \/ Last(ms).role # "assistant"

\* A turn's items add the turn's messages.
LEMMA ResponsesTurnTold ==
    ASSUME NEW ms \in Messages, NEW t \in Turn, ResponsesFits(ms, t)
    PROVE  Grown(ReadInput(ms, ResponsesTurn(t)), ms, t)
<1>1. CASE t.who = "results"
  BY <1>1, ResponsesResults DEF ResponsesFits
<1>2. CASE t.who # "results"
  <2> DEFINE thought == IF t.thought THEN << [type |-> "reasoning"] >> ELSE <<>>
             said == IF Parts(t) = <<>> THEN <<>>
                     ELSE << [type |-> "message", role |-> t.who, parts |-> Parts(t)] >>
             calls == Calling(t.calls)
             m == FoldLeft(TakePart, Blank(Voice(t)), Parts(t))
  <2>1. ResponsesTurn(t) = (thought \o said) \o calls
    BY <1>2 DEF ResponsesTurn, Calling
  <2>2. /\ t.who \in Word /\ Voice(t) \in Word /\ Named(t.who) = Voice(t)
        /\ t.calls \in Text /\ Parts(t) \in Seq(Part)
        /\ Voice(t) = "assistant" <=> t.who = "assistant"
    BY <1>2, TurnFacts, PartsTyped, VoiceIs DEF Named, Voice
  <2>3. Says(m, t, Voice(t), NoCall, <<>>)
    <3> DEFINE x == Blank(Voice(t))
    <3>1. x \in Message /\ Fresh(x) /\ x.role = Voice(t) /\ x.callId = NoCall /\ x.calls = <<>>
      BY <2>2, BlankFacts
    <3> HIDE DEF x
    <3>2. Says(FoldLeft(TakePart, x, Parts(t)), t, x.role, x.callId, x.calls)
      BY <3>1, MadeOfParts
    <3> QED BY <3>1, <3>2 DEF x
  <2>4. thought \in Seq(Item) /\ ReadInput(ms, thought) = ms
    <3>1. CASE t.thought
      <4> DEFINE it == [type |-> "reasoning"]
      <4>1. it \in ThoughtItems /\ it \in Item
        BY DEF ThoughtItems, Item
      <4> HIDE DEF it
      <4>2. ReadInput(ms, <<it>>) = ms /\ <<it>> \in Seq(Item)
        <5>1. ReadInput(ms, <<it>>) = ms
          BY <4>1, ItemBrings
        <5>2. <<it>> \in Seq(Item)
          BY <4>1
        <5> QED BY <5>1, <5>2
      <4> QED BY <3>1, <4>2 DEF it
    <3>2. CASE ~t.thought
      BY <3>2, ReadsOne
    <3> QED BY <3>1, <3>2
  <2>5. said \in Seq(Item) /\ (Parts(t) # <<>> => ReadInput(ms, said) = Append(ms, m))
    <3>1. CASE Parts(t) # <<>>
      <4> DEFINE it == [type |-> "message", role |-> t.who, parts |-> Parts(t)]
      <4>1. it \in MessageItems /\ it \in Item /\ it.role = t.who /\ it.parts = Parts(t)
        BY <2>2 DEF MessageItems, Item
      <4> HIDE DEF it
      <4>2. ReadInput(ms, <<it>>) = JoinItem(ms, m) /\ <<it>> \in Seq(Item)
        <5>1. ReadInput(ms, <<it>>)
                = JoinItem(ms, FoldLeft(TakePart, Blank(Named(it.role)), it.parts))
          BY <4>1, ItemBrings
        <5>2. <<it>> \in Seq(Item)
          BY <4>1
        <5> QED BY <2>2, <4>1, <5>1, <5>2
      <4>3. m \in Message /\ m.calls = <<>>
        BY <2>3 DEF Says
      <4> HIDE DEF m
      <4>4. JoinItem(ms, m) = Append(ms, m)
        BY <4>3, JoinsBehind
      <4> QED BY <3>1, <4>2, <4>4 DEF it
    <3>2. CASE Parts(t) = <<>>
      BY <3>2
    <3> QED BY <3>1, <3>2
  <2> HIDE DEF thought, m
  <2>6. calls \in Seq(Item)
    <3>1. /\ DOMAIN t.calls = 1 .. Len(t.calls) /\ Len(t.calls) \in Nat
          /\ \A k \in 1 .. Len(t.calls) : t.calls[k] \in Word
      BY TurnFacts
    <3>2. \A k \in 1 .. Len(t.calls) : [type |-> "function_call", id |-> t.calls[k]] \in Item
      BY <3>1 DEF Item, CallItems
    <3> QED BY <3>1, <3>2 DEF Calling
  <2>7. ReadInput(ms, ResponsesTurn(t)) = ReadInput(ReadInput(ms, said), calls)
    <3> HIDE DEF said, calls
    <3>1. thought \o said \in Seq(Item)
      BY <2>4, <2>5
    <3>2. ReadInput(ms, thought \o said) = ReadInput(ms, said)
      BY <2>4, <2>5, ReadsJoins
    <3>3. ReadInput(ms, (thought \o said) \o calls) = ReadInput(ReadInput(ms, thought \o said), calls)
      BY <2>6, <3>1, ReadsJoins
    <3> QED BY <2>1, <3>2, <3>3
  <2>8. CASE Parts(t) # <<>> /\ t.who = "assistant"
    <3>1. m \in Message /\ m.role = "assistant" /\ m.calls = <<>>
      BY <2>2, <2>3, <2>8 DEF Says
    <3>2. ReadInput(Append(ms, m), calls) = Append(ms, WithCalls(m, t.calls))
      BY <2>2, <3>1, CallsJoin
    <3>3. Says(WithCalls(m, t.calls), t, Voice(t), NoCall, t.calls)
      BY <2>2, <2>3, SaysWithCalls
    <3>4. Grown(Append(ms, WithCalls(m, t.calls)), ms, t)
      BY <1>2, <3>3, GrownByOne
    <3> HIDE DEF said, calls
    <3> QED BY <2>5, <2>7, <2>8, <3>2, <3>4
  <2>9. CASE Parts(t) # <<>> /\ t.who # "assistant"
    <3>1. t.calls = <<>>
      BY <1>2, <2>9 DEF ResponsesFits, Turn
    <3>2. calls = <<>>
      BY <3>1 DEF Calling
    <3>3. Append(ms, m) \in Messages
      BY <2>3, Behind DEF Says
    <3>4. Grown(Append(ms, m), ms, t)
      BY <1>2, <2>3, <3>1, GrownByOne
    <3>5. ReadInput(Append(ms, m), <<>>) = Append(ms, m)
      BY <3>3, ReadsOne
    <3> HIDE DEF said, calls
    <3> QED BY <2>5, <2>7, <2>9, <3>2, <3>4, <3>5
  <2>10. CASE Parts(t) = <<>>
    <3>1. t.text = <<>> /\ t.images = <<>>
      <4>1. Before(t) = 0 /\ Len(t.images) = 0
        <5> DEFINE p == Before(t)
                   q == Len(t.images)
        <5>1. Len(Parts(t)) = 0
          BY <2>10
        <5>2. p \in {0, 1} /\ q \in Nat /\ Len(Parts(t)) = p + q
          BY PartsAre
        <5> HIDE DEF p, q
        <5>3. p = 0 /\ q = 0
          BY <5>1, <5>2
        <5> QED BY <5>3 DEF p, q
      <4>2. t.images \in Seq(Word)
        BY TurnFacts DEF Text
      <4> QED BY <4>1, <4>2 DEF Before
    <3>2. t.calls # <<>> /\ t.who = "assistant"
      BY <1>2, <3>1 DEF ResponsesFits, Turn
    <3> DEFINE x == Blank("assistant")
    <3>3. /\ x \in Message /\ Fresh(x) /\ x.role = "assistant" /\ x.callId = NoCall
          /\ x.calls = <<>> /\ x = Blank("assistant")
      BY BlankFacts, MarksAreWords
    <3> HIDE DEF x
    <3>4. Says(x, t, x.role, x.callId, x.calls)
      BY <3>1, <3>3, SaysBare DEF Fresh
    <3>5. Says(WithCalls(x, t.calls), t, Voice(t), NoCall, t.calls)
      BY <2>2, <3>2, <3>3, <3>4, SaysWithCalls
    <3>6. ReadInput(ms, calls) = Append(ms, WithCalls(x, t.calls))
      <4>1. ms = <<>> \/ Last(ms).role # "assistant"
        BY <2>10, <3>2 DEF ResponsesFits
      <4> QED BY <2>2, <3>2, <3>3, <4>1, CallsJoin
    <3>7. Grown(Append(ms, WithCalls(x, t.calls)), ms, t)
      BY <1>2, <3>5, GrownByOne
    <3>8. ReadInput(ms, said) = ms
      BY <2>10, ReadsOne
    <3> HIDE DEF said, calls
    <3> QED BY <2>7, <3>6, <3>7, <3>8
  <2> QED BY <2>8, <2>9, <2>10
<1> QED BY <1>1, <1>2

-----------------------------------------------------------------------------
(* The instructions in front.                                              *)

Instructions(text) == IF text = <<>> THEN <<>>
                      ELSE << [Blank("system") EXCEPT !.text = text] >>
Offset(conv) == IF conv[1].who = "system" THEN 1 ELSE 0

\* A system turn in front becomes the instructions and leaves the rest of the turns.
LEMMA OpeningTold ==
    ASSUME NEW conv \in Seq(Turn), conv # <<>>,
           conv[1].who = "system" => conv[1].text # <<>> /\ conv[1].images = <<>>
                                     /\ conv[1].calls = <<>>,
           NEW C, Tells(C, conv)
    PROVE  /\ Instructions(Opening(conv)) \in Messages
           /\ Counts(Instructions(Opening(conv))) = C[Offset(conv)]
           /\ \/ Instructions(Opening(conv)) = <<>>
              \/ Last(Instructions(Opening(conv))).role = "system"
           /\ AfterOpening(conv) \in Seq(Turn) /\ Offset(conv) \in {0, 1}
           /\ Len(AfterOpening(conv)) + Offset(conv) = Len(conv)
           /\ \A j \in 1 .. Len(AfterOpening(conv)) :
                 AfterOpening(conv)[j] = conv[j + Offset(conv)]
<1>1. Len(conv) \in Nat /\ Len(conv) # 0 /\ 1 \in 1 .. Len(conv) /\ conv[1] \in Turn
  OBVIOUS
<1>2. CASE conv[1].who # "system"
  <2>1. Opening(conv) = <<>> /\ AfterOpening(conv) = conv /\ Offset(conv) = 0
    BY <1>2 DEF Opening, AfterOpening, Offset
  <2>2. Instructions(Opening(conv)) = <<>>
    BY <2>1 DEF Instructions
  <2>3. C[0] = <<>>
    BY DEF Tells
  <2>4. <<>> \in Messages
    BY DEF Messages
  <2>5. \A j \in 1 .. Len(conv) : conv[j] = conv[j + 0]
    BY <1>1
  <2> QED BY <1>1, <2>1, <2>2, <2>3, <2>4, <2>5, CountsJoin
<1>3. CASE conv[1].who = "system"
  <2> DEFINE t == conv[1]
             x == Blank("system")
             m == [x EXCEPT !.text = t.text]
             ms == <<m>>
             rest == Tail(conv)
  <2>1. Opening(conv) = t.text /\ AfterOpening(conv) = rest /\ Offset(conv) = 1
    BY <1>3 DEF Opening, AfterOpening, Offset
  <2>2. Instructions(Opening(conv)) = ms
    BY <1>3, <2>1 DEF Instructions
  <2>3. rest \in Seq(Turn) /\ Len(rest) + 1 = Len(conv) /\ \A j \in 1 .. Len(rest) : rest[j] = conv[j + 1]
    BY <1>1
  <2>4. m \in Message /\ m.role = "system" /\ Counted(m) = Whole(t, "system", NoCall, <<>>)
    <3> DEFINE u == t.text
    <3>1. x \in Message /\ Fresh(x) /\ x.role = "system" /\ x.callId = NoCall /\ x.calls = <<>>
      BY BlankFacts, MarksAreWords
    <3>2. u \in Text
      BY <1>1, TurnFacts
    <3> HIDE DEF x, u
    <3>3. /\ m \in Message /\ m.role = "system" /\ m.text = u /\ m.callId = NoCall
          /\ m.calls = <<>> /\ m.images = <<>> /\ m.deferred = <<>>
      BY <3>1, <3>2 DEF Message, Fresh, u
    <3> HIDE DEF m
    <3>4. Says(m, t, m.role, m.callId, m.calls)
      BY <1>1, <1>3, <3>3, SaysBare DEF u
    <3>5. Counted(m) = Whole(t, m.role, m.callId, m.calls)
      BY <1>1, <3>4, SaysWhole
    <3> QED BY <3>3, <3>5
  <2> HIDE DEF m
  <2>5. ms \in Messages /\ Counts(ms) = <<Counted(m)>> /\ Last(ms).role = "system"
    BY <2>4, CountsJoin DEF Messages, Last
  <2>6. Told(t) = <<Counted(m)>>
    BY <1>1, <1>3, <2>4, ToldIs, VoiceIs
  <2>7. C[1] = Told(t)
    <3> DEFINE k == 1
    <3>1. k \in 1 .. Len(conv) /\ k - 1 = 0 /\ k = 1
      BY <1>1
    <3> HIDE DEF k, t
    <3>2. C[k] = C[k - 1] \o Told(conv[k]) /\ C[0] = <<>>
      BY <3>1 DEF Tells
    <3>3. Told(t) \in Seq(Count)
      BY <1>1, ToldIs DEF t
    <3>4. <<>> \o Told(t) = Told(t)
      BY <3>3
    <3>5. conv[k] = t
      BY <3>1 DEF t
    <3> QED BY <3>1, <3>2, <3>4, <3>5
  <2> HIDE DEF ms, rest, t
  <2> QED BY <2>1, <2>2, <2>3, <2>5, <2>6, <2>7
<1> QED BY <1>2, <1>3

\* What a protocol that carries a conversation says of a turn of it.
LEMMA CarriesTurn ==
    ASSUME NEW conv \in Seq(Turn), NEW proto, proto # "chat", Carries(proto, conv),
           NEW i \in 1 .. Len(conv)
    PROVE  /\ conv[i] \in Turn
           /\ conv[i].text # <<>> \/ conv[i].calls # <<>> \/ conv[i].images # <<>>
           /\ conv[i].who = "system" => conv[i].text # <<>> /\ conv[i].images = <<>>
           /\ conv[i].who \in {"system", "developer", "user"} => conv[i].calls = <<>>
           /\ conv[i].who = "system" => i = 1
           /\ conv[i].who = "results" => conv[i].calls # <<>>
           /\ proto = "anthropic" =>
                 /\ conv[i].who # "developer"
                 /\ conv[i].who = "assistant" => conv[i].images = <<>>
           /\ proto = "responses" =>
                 /\ conv[i].who = "results" => conv[i].images = <<>>
                 /\ conv[i].who = "assistant" /\ Parts(conv[i]) = <<>> /\ i > 1
                       => conv[i - 1].who # "assistant"
<1>1. i \in DOMAIN conv /\ conv[i] \in Turn
  OBVIOUS
<1> QED BY <1>1 DEF Carries

\* What comes in by the responses protocol is the conversation.
LEMMA ResponsesTold ==
    ASSUME NEW conv \in Seq(Turn), conv # <<>>, Carries("responses", conv)
    PROVE  Counts(ParseResponsesRequest(ResponsesWire(conv))) = Canonical(conv)
<1> DEFINE turns == AfterOpening(conv)
           base == Instructions(Opening(conv))
           d == Offset(conv)
           n == Len(turns)
           ss == [i \in DOMAIN turns |-> ResponsesTurn(turns[i])]
<1>1. PICK C \in [0 .. Len(conv) -> Seq(Count)] : Tells(C, conv)
  BY TellsExists
<1>2. conv[1].who = "system" => conv[1].text # <<>> /\ conv[1].images = <<>> /\ conv[1].calls = <<>>
  <2>1. 1 \in 1 .. Len(conv) /\ "responses" # "chat"
    OBVIOUS
  <2> QED BY <2>1, CarriesTurn
<1>3. /\ base \in Messages /\ Counts(base) = C[d] /\ (base = <<>> \/ Last(base).role = "system")
      /\ turns \in Seq(Turn) /\ d \in {0, 1} /\ n + d = Len(conv)
      /\ \A j \in 1 .. n : turns[j] = conv[j + d]
  BY <1>1, <1>2, OpeningTold
<1>4. ParseResponsesRequest(ResponsesWire(conv)) = ReadInput(base, FlattenSeq(ss))
  BY DEF ParseResponsesRequest, ResponsesWire, ReadInput, Instructions
<1> HIDE DEF turns, base, d
<1>5. ss \in Seq(Seq(Item)) /\ Len(ss) = n /\ n \in Nat
      /\ \A j \in 1 .. n : ss[j] = ResponsesTurn(turns[j]) /\ ss[j] \in Seq(Item)
  <2>1. DOMAIN turns = 1 .. n /\ n \in Nat /\ \A j \in 1 .. n : ResponsesTurn(turns[j]) \in Seq(Item)
    BY <1>3, ResponsesTurnTyped
  <2> QED BY <2>1
<1> HIDE DEF ss, n
<1>6. PICK W \in [0 .. Len(ss) -> Seq(Item)] : Flattens(W, ss)
  BY <1>5, FlattensExist
<1> DEFINE P(j) == ReadInput(base, W[j])
           Goes(j) == /\ P(j) \in Messages /\ Counts(P(j)) = C[j + d]
                      /\ \/ P(j) = <<>>
                         \/ Last(P(j)).role = "assistant" => j # 0 /\ turns[j].who = "assistant"
           T == {j \in 0 .. n : Goes(j)}
<1>7. 0 \in T
  <2>1. W[0] = <<>>
    BY <1>6 DEF Flattens
  <2>2. P(0) = base
    BY <1>3, <2>1, ReadsOne
  <2>3. 0 \in 0 .. n /\ 0 + d = d
    BY <1>3, <1>5
  <2> HIDE DEF P
  <2> QED BY <1>3, <2>2, <2>3
<1>8. ASSUME NEW j \in 1 .. n, j - 1 \in T PROVE j \in T
  <2> DEFINE t == turns[j]
             ms == P(j - 1)
             i == j + d
  <2>1. /\ j - 1 \in 0 .. n /\ j \in 0 .. n /\ j # 0 /\ i \in 1 .. Len(conv) /\ t \in Turn
        /\ t = conv[i] /\ (j - 1) + d = i - 1 /\ j \in 1 .. Len(ss) /\ j - 1 \in 0 .. Len(ss)
    <3>1. j \in 1 .. n /\ n \in Nat /\ d \in {0, 1} /\ n + d = Len(conv) /\ Len(ss) = n
      BY <1>3, <1>5
    <3>2. t = conv[i] /\ t \in Turn
      BY <1>3 DEF n
    <3> HIDE DEF t
    <3> QED BY <3>1, <3>2
  <2>2. W[j] = W[j - 1] \o ResponsesTurn(t) /\ W[j - 1] \in Seq(Item)
        /\ ResponsesTurn(t) \in Seq(Item)
    BY <1>5, <1>6, <2>1 DEF Flattens
  <2>3. Goes(j - 1)
    BY <1>8
  <2>4. P(j) = ReadInput(ms, ResponsesTurn(t))
    BY <1>3, <2>2, ReadsJoins
  <2>5. ms \in Messages /\ Counts(ms) = C[i - 1]
    <3> HIDE DEF P, i
    <3> QED BY <2>1, <2>3
  <2>6. ms = <<>> \/ (Last(ms).role = "assistant" => j - 1 # 0 /\ turns[j - 1].who = "assistant")
    <3> HIDE DEF P
    <3> QED BY <2>3
  <2> HIDE DEF ms
  <2>7. ResponsesFits(ms, t)
    <3>1. /\ t.text # <<>> \/ t.calls # <<>> \/ t.images # <<>>
          /\ t.who \in {"system", "developer", "user"} => t.calls = <<>>
          /\ t.who = "results" => t.calls # <<>> /\ t.images = <<>>
          /\ t.who = "assistant" /\ Parts(t) = <<>> /\ i > 1 => conv[i - 1].who # "assistant"
      <4>1. "responses" # "chat"
        OBVIOUS
      <4> HIDE DEF t, i
      <4> QED BY <2>1, <4>1, CarriesTurn
    <3>2. ASSUME t.who = "assistant", Parts(t) = <<>>, ms # <<>>, Last(ms).role = "assistant"
          PROVE  FALSE
      <4>1. j - 1 # 0 /\ turns[j - 1].who = "assistant"
        BY <2>6, <3>2
      <4>2. j - 1 \in 1 .. n /\ i > 1
        BY <1>3, <1>5, <4>1
      <4>3. turns[j - 1] = conv[i - 1]
        BY <1>3, <2>1, <4>2 DEF n
      <4> HIDE DEF i, t
      <4> QED BY <3>1, <3>2, <4>1, <4>2, <4>3
    <3> HIDE DEF t
    <3> QED BY <3>1, <3>2 DEF ResponsesFits
  <2>8. Grown(P(j), ms, t)
    BY <2>1, <2>4, <2>5, <2>7, ResponsesTurnTold
  <2>9. C[i] = C[i - 1] \o Told(t)
    BY <1>1, <2>1 DEF Tells
  <2> HIDE DEF P, i
  <2>10. /\ P(j) \in Messages /\ Counts(P(j)) = C[i]
         /\ Last(P(j)).role = "assistant" => t.who = "assistant"
    BY <2>5, <2>8, <2>9 DEF Grown
  <2>11. Goes(j)
    BY <2>1, <2>10 DEF i
  <2> QED BY <2>1, <2>11
<1>9. Goes(n)
  <2>1. n \in 0 .. n
    BY <1>5
  <2>2. n \in T
    <3> HIDE DEF T
    <3> QED BY <1>5, <1>7, <1>8, <2>1, UpTo
  <2> QED BY <2>2
<1>10. W[n] = FlattenSeq(ss) /\ C[n + d] = Canonical(conv)
  BY <1>1, <1>3, <1>5, <1>6 DEF Flattens, Tells, n
<1> QED BY <1>4, <1>9, <1>10

-----------------------------------------------------------------------------
(* The messages protocol.                                                  *)

\* What has been collected of a message.
State(out, m) == [out |-> out, cur |-> m]

\* Flushing adds what has been collected unless nothing has.
LEMMA StateFacts ==
    ASSUME NEW out \in Messages, NEW m \in Message
    PROVE  /\ State(out, m) \in Collected
           /\ m = Blank(m.role) => Flush(State(out, m)).out = out
           /\ m # Blank(m.role) /\ m.role \in {"user", "assistant"} =>
                 Flush(State(out, m)).out = Append(out, m)
<1> DEFINE s == State(out, m)
           by == [m EXCEPT !.role = Speaker(m.role)]
<1>1. s \in Collected /\ s.out = out /\ s.cur = m
  BY DEF State, Collected
<1> HIDE DEF s
<1>2. Flush(s).out = IF m = Blank(m.role) THEN out ELSE Append(out, by)
  BY <1>1 DEF Flush
<1>3. m.role \in {"user", "assistant"} => by = m
  BY DEF Speaker, Message
<1> HIDE DEF by
<1> QED BY <1>1, <1>2, <1>3 DEF s

\* Taking a part leaves everything but text and pictures alone.
LEMMA PartLeaves ==
    ASSUME NEW m \in Message, NEW part
    PROVE  TakeResultPart(m, part).role = m.role
<1>1. \A w : Defer(m, w).role = m.role
  BY DEF Defer, Message
<1>2. ASSUME NEW image PROVE Attach(m, image).role = m.role
  <2>1. [m EXCEPT !.images = Append(m.images, image)].role = m.role
    BY DEF Message
  <2> QED BY <1>1, <2>1, AttachIs
<1>3. ASSUME NEW image PROVE AppendSource(m, image).role = m.role
  BY <1>1, <1>2, AttachIs
<1>4. [m EXCEPT !.text = m.text \o part.text].role = m.role
  BY DEF Message
<1> QED BY <1>3, <1>4 DEF TakeResultPart

\* What a block of each kind does.
LEMMA BlockDoes ==
    ASSUME NEW out \in Messages, NEW m \in Message
    PROVE  /\ TakeBlock(State(out, m), [type |-> "thinking"]) = State(out, m)
           /\ \A part \in Part : part.type = "text" \/ m.role = "user" =>
                 TakeBlock(State(out, m), part) = State(out, TakeResultPart(m, part))
           /\ m.role = "assistant" => \A use \in Uses :
                 TakeBlock(State(out, m), use) = State(out, WithCalls(m, m.calls \o <<use.id>>))
           /\ m = Blank("user") => \A result \in Results :
                 TakeBlock(State(out, m), result) = State(Append(out, ToolResult(result)), m)
<1> DEFINE s == State(out, m)
<1>1. s.out = out /\ s.cur = m /\ s = [out |-> out, cur |-> m]
  BY DEF State
<1>2. TakeBlock(s, [type |-> "thinking"]) = s
  BY DEF TakeBlock
<1>3. ASSUME NEW part \in Part, part.type = "text" \/ m.role = "user"
      PROVE  TakeBlock(s, part) = State(out, TakeResultPart(m, part))
  <2>1. CASE part.type = "text"
    <3>1. TakeResultPart(m, part) = [m EXCEPT !.text = m.text \o part.text]
      BY <2>1 DEF TakeResultPart
    <3> HIDE DEF s
    <3>2. TakeBlock(s, part) = [s EXCEPT !.cur.text = m.text \o part.text]
      BY <1>1, <2>1 DEF TakeBlock
    <3>3. [s EXCEPT !.cur.text = m.text \o part.text]
            = [out |-> out, cur |-> [m EXCEPT !.text = m.text \o part.text]]
      <4> DEFINE u == m.text \o part.text
                 c == [s.cur EXCEPT !.text = u]
      <4>1. [s EXCEPT !.cur.text = u] = [s EXCEPT !.cur = c]
        OBVIOUS
      <4>2. c = [m EXCEPT !.text = u]
        BY <1>1
      <4> HIDE DEF c, u
      <4>3. [s EXCEPT !.cur = c] = [out |-> out, cur |-> c]
        BY <1>1
      <4> QED BY <4>1, <4>2, <4>3 DEF u
    <3> QED BY <3>1, <3>2, <3>3 DEF State
  <2>2. CASE part.type # "text"
    <3>1. part.type = "image" /\ m.role = "user"
      BY <1>3, <2>2 DEF Part
    <3>2. TakeResultPart(m, part) = AppendSource(m, part.image)
      BY <3>1 DEF TakeResultPart
    <3> HIDE DEF s
    <3>3. TakeBlock(s, part) = [s EXCEPT !.cur = AppendSource(m, part.image)]
      BY <1>1, <3>1 DEF TakeBlock
    <3> QED BY <1>1, <3>2, <3>3 DEF State
  <2> QED BY <2>1, <2>2
<1>4. ASSUME m.role = "assistant", NEW use \in Uses
      PROVE  TakeBlock(s, use) = State(out, WithCalls(m, m.calls \o <<use.id>>))
  <2>1. use.type = "tool_use" /\ use.id \in Word
    BY DEF Uses
  <2>2. Append(m.calls, use.id) = m.calls \o <<use.id>>
    <3>1. m.calls \in Text
      BY MessageFields
    <3> QED BY <2>1, <3>1 DEF Text
  <2> HIDE DEF s
  <2>3. TakeBlock(s, use) = [s EXCEPT !.cur.calls = Append(m.calls, use.id)]
    BY <1>1, <1>4, <2>1 DEF TakeBlock
  <2>4. [s EXCEPT !.cur.calls = Append(m.calls, use.id)]
          = [out |-> out, cur |-> [m EXCEPT !.calls = Append(m.calls, use.id)]]
    <3> DEFINE u == Append(m.calls, use.id)
               c == [s.cur EXCEPT !.calls = u]
    <3>1. [s EXCEPT !.cur.calls = u] = [s EXCEPT !.cur = c]
      OBVIOUS
    <3>2. c = [m EXCEPT !.calls = u]
      BY <1>1
    <3> HIDE DEF c, u
    <3>3. [s EXCEPT !.cur = c] = [out |-> out, cur |-> c]
      BY <1>1
    <3> QED BY <3>1, <3>2, <3>3 DEF u
  <2> QED BY <2>2, <2>3, <2>4 DEF State, WithCalls
<1>5. ASSUME m = Blank("user"), NEW result \in Results
      PROVE  TakeBlock(s, result) = State(Append(out, ToolResult(result)), m)
  <2>1. result.type = "tool_result"
    BY DEF Results
  <2>2. m.role = "user"
    BY <1>5, BlankFacts, MarksAreWords
  <2> HIDE DEF s
  <2>3. TakeBlock(s, result) = [Flush(s) EXCEPT !.out = Append(Flush(s).out, ToolResult(result))]
    BY <1>1, <2>1, <2>2 DEF TakeBlock
  <2>4. Flush(s) = [out |-> out, cur |-> m]
    BY <1>1, <1>5, <2>2 DEF Flush
  <2> DEFINE f == Flush(s)
             all == Append(f.out, ToolResult(result))
  <2>5. f = [out |-> out, cur |-> m] /\ all = Append(out, ToolResult(result))
    BY <2>4
  <2>6. TakeBlock(s, result) = [f EXCEPT !.out = all]
    BY <2>3
  <2> HIDE DEF f, all
  <2>7. TakeBlock(s, result) = [out |-> all, cur |-> m]
    BY <2>5, <2>6
  <2> QED BY <2>5, <2>7 DEF State
<1> QED BY <1>2, <1>3, <1>4, <1>5

\* The parts of a turn, collected.
LEMMA PartsCollected ==
    ASSUME NEW out \in Messages, NEW m \in Message, NEW t \in Turn,
           t.images = <<>> \/ m.role = "user"
    PROVE  ReadBlocks(State(out, m), Parts(t)) = State(out, FoldLeft(TakeResultPart, m, Parts(t)))
<1> DEFINE parts == Parts(t)
           n == Len(parts)
           s == State(out, m)
<1>1. parts \in Seq(Part) /\ parts \in Seq(Block) /\ n \in Nat
      /\ \A k \in 1 .. n : parts[k] \in Part
  BY PartsTyped DEF Block
<1>2. \A k \in 1 .. n : parts[k].type = "text" \/ m.role = "user"
  <2> SUFFICES ASSUME NEW k \in 1 .. n, t.images = <<>>
               PROVE  parts[k].type = "text"
    OBVIOUS
  <2>1. /\ Before(t) \in {0, 1} /\ n = Before(t) + Len(t.images)
        /\ Before(t) = 1 => parts[1] = [type |-> "text", text |-> t.text]
    BY PartsAre
  <2>2. Len(t.images) = 0
    BY <2>1
  <2> HIDE DEF n, parts
  <2>3. Before(t) = 1 /\ k = 1
    BY <2>1, <2>2
  <2> QED BY <2>1, <2>3
<1>3. s \in Collected
  BY StateFacts
<1> HIDE DEF parts, s
<1>4. PICK F \in [0 .. Len(parts) -> Collected] : Collects(F, s, parts)
  BY <1>1, <1>3, CollectsExists
<1>5. PICK G \in [0 .. Len(parts) -> Message] :
        /\ G[0] = m
        /\ \A k \in 1 .. Len(parts) : G[k] = TakeResultPart(G[k - 1], parts[k])
        /\ FoldLeft(TakeResultPart, m, parts) = G[Len(parts)]
  BY <1>1, ResultPartsTraced
<1> DEFINE T == {k \in 0 .. n : F[k] = State(out, G[k]) /\ G[k].role = m.role}
<1>6. 0 \in T
  BY <1>1, <1>4, <1>5 DEF Collects, s
<1>7. ASSUME NEW k \in 1 .. n, k - 1 \in T PROVE k \in T
  <2>1. k - 1 \in 0 .. n /\ k \in 0 .. n /\ G[k - 1] \in Message
    BY <1>1, <1>5
  <2>2. F[k] = TakeBlock(F[k - 1], parts[k]) /\ G[k] = TakeResultPart(G[k - 1], parts[k])
    BY <1>4, <1>5 DEF Collects
  <2>3. F[k - 1] = State(out, G[k - 1]) /\ G[k - 1].role = m.role
    BY <1>7
  <2>4. parts[k] \in Part /\ (parts[k].type = "text" \/ G[k - 1].role = "user")
    BY <1>1, <1>2, <2>3
  <2> DEFINE a == G[k - 1]
             p == parts[k]
  <2>5. a \in Message /\ p \in Part /\ (p.type = "text" \/ a.role = "user")
    BY <2>1, <2>4
  <2> HIDE DEF a, p
  <2>6. TakeBlock(State(out, a), p) = State(out, TakeResultPart(a, p))
        /\ TakeResultPart(a, p).role = a.role
    BY <2>5, BlockDoes, PartLeaves
  <2>7. F[k] = State(out, G[k]) /\ G[k].role = m.role
    BY <2>2, <2>3, <2>6 DEF a, p
  <2> QED BY <2>1, <2>7
<1>8. n \in T
  <2>1. n \in 0 .. n
    BY <1>1
  <2> HIDE DEF T, n
  <2> QED BY <1>1, <1>6, <1>7, <2>1, UpTo
<1>9. F[n] = ReadBlocks(s, parts) /\ G[n] = FoldLeft(TakeResultPart, m, parts)
  BY <1>4, <1>5 DEF Collects
<1> QED BY <1>8, <1>9 DEF s, parts

\* The calls of a turn, collected.
Using(calls) == [k \in DOMAIN calls |-> [type |-> "tool_use", id |-> calls[k]]]

\* Call by call, they join the message being collected.
LEMMA UsesCollected ==
    ASSUME NEW out \in Messages, NEW m \in Message, m.role = "assistant", m.calls = <<>>,
           NEW calls \in Text
    PROVE  /\ Using(calls) \in Seq(Block)
           /\ ReadBlocks(State(out, m), Using(calls)) = State(out, WithCalls(m, calls))
<1> DEFINE blocks == Using(calls)
           n == Len(calls)
           use(k) == [type |-> "tool_use", id |-> calls[k]]
           s == State(out, m)
           Now(k) == State(out, WithCalls(m, Firsts(calls, k)))
<1>1. DOMAIN calls = 1 .. n /\ n \in Nat /\ \A k \in 1 .. n : calls[k] \in Word
  BY DEF Text
<1>2. blocks = [k \in 1 .. n |-> use(k)]
  BY <1>1 DEF Using
<1>3. \A k \in 1 .. n : use(k) \in Uses /\ use(k).id = calls[k] /\ use(k) \in Block
  BY <1>1 DEF Uses, Block
<1>4. blocks \in Seq(Block) /\ Len(blocks) = n /\ \A k \in 1 .. n : blocks[k] = use(k)
  <2> HIDE DEF use, n, blocks
  <2> QED BY <1>1, <1>2, <1>3
<1>5. s \in Collected
  BY StateFacts
<1>6. Firsts(calls, 0) = <<>> /\ Firsts(calls, n) = calls
  BY FirstsFacts DEF Text
<1>7. Now(0) = s
  <2>1. WithCalls(m, <<>>) = m
    BY DEF WithCalls, Message
  <2> QED BY <1>6, <2>1
<1> HIDE DEF blocks, use, n, s
<1>8. ASSUME NEW k \in 1 .. n
      PROVE  TakeBlock(Now(k - 1), use(k)) = Now(k)
  <2> DEFINE cs == Firsts(calls, k - 1)
             x == WithCalls(m, cs)
  <2>1. cs \in Text /\ Firsts(calls, k) = cs \o <<calls[k]>>
    <3>1. k - 1 \in 0 .. n /\ n = Len(calls)
      BY <1>1 DEF n
    <3> QED BY <3>1, FirstsFacts DEF Text, n
  <2> HIDE DEF cs
  <2>2. x \in Message /\ x.role = "assistant" /\ x.calls = cs
    BY <2>1 DEF Message, WithCalls
  <2>3. WithCalls(x, Firsts(calls, k)) = WithCalls(m, Firsts(calls, k))
    BY DEF Message, WithCalls
  <2> HIDE DEF x
  <2>4. TakeBlock(State(out, x), use(k)) = State(out, WithCalls(x, x.calls \o <<use(k).id>>))
    BY <1>3, <2>2, BlockDoes
  <2>5. x.calls \o <<use(k).id>> = Firsts(calls, k)
    BY <1>3, <2>1, <2>2
  <2> QED BY <2>3, <2>4, <2>5 DEF cs, x
<1> HIDE DEF Now
<1>9. PICK F \in [0 .. Len(blocks) -> Collected] : Collects(F, s, blocks)
  BY <1>4, <1>5, CollectsExists
<1> DEFINE T == {k \in 0 .. n : F[k] = Now(k)}
<1>10. 0 \in T
  BY <1>1, <1>7, <1>9 DEF Collects
<1>11. ASSUME NEW k \in 1 .. n, k - 1 \in T PROVE k \in T
  <2>1. F[k] = TakeBlock(F[k - 1], use(k))
    BY <1>4, <1>9 DEF Collects
  <2>2. F[k - 1] = Now(k - 1) /\ k \in 0 .. n
    BY <1>1, <1>11
  <2> QED BY <1>8, <2>1, <2>2
<1>12. n \in T
  <2>1. n \in 0 .. n
    BY <1>1
  <2> HIDE DEF T
  <2> QED BY <1>1, <1>10, <1>11, <2>1, UpTo
<1> QED BY <1>4, <1>6, <1>9, <1>12 DEF Collects, Now, blocks, s

\* The results of a turn, collected.
Resulting(t) == [k \in DOMAIN t.calls |->
                    [type |-> "tool_result", id |-> t.calls[k], parts |-> Parts(t)]]

\* Each result is a message of its own.
LEMMA ResultsCollected ==
    ASSUME NEW t \in Turn, t.who = "results"
    PROVE  /\ Resulting(t) \in Seq(Block)
           /\ \E out \in Messages :
                 /\ ReadBlocks(State(<<>>, Blank("user")), Resulting(t)) = State(out, Blank("user"))
                 /\ Counts(out) = Told(t)
<1> DEFINE blocks == Resulting(t)
           n == Len(t.calls)
           told == Told(t)
           user == Blank("user")
           result(k) == [type |-> "tool_result", id |-> t.calls[k], parts |-> Parts(t)]
           made(k) == ToolResult(result(k))
           s == State(<<>>, user)
<1>1. DOMAIN t.calls = 1 .. n /\ n \in Nat /\ \A k \in 1 .. n : t.calls[k] \in Word
  BY TurnFacts
<1>2. blocks = [k \in 1 .. n |-> result(k)]
  BY <1>1 DEF Resulting
<1>3. \A k \in 1 .. n : result(k) \in Results /\ result(k) \in Block
  BY <1>1, PartsTyped DEF Results, Block
<1>4. ASSUME NEW k \in 1 .. n
      PROVE  made(k) \in Message /\ Counted(made(k)) = Whole(t, "tool", t.calls[k], <<>>)
  <2> DEFINE x == Blank("tool")
             y == FoldLeft(TakeResultPart, x, Parts(t))
             id == t.calls[k]
             m == [y EXCEPT !.callId = id]
  <2>1. x \in Message /\ Fresh(x) /\ x.role = "tool" /\ x.callId = NoCall /\ x.calls = <<>>
    BY BlankFacts, MarksAreWords
  <2>2. made(k) = m
    BY DEF ToolResult
  <2>3. id \in Word
    BY <1>1
  <2> HIDE DEF x, id, made
  <2>4. Says(y, t, "tool", NoCall, <<>>)
    BY <2>1, MadeOfParts
  <2> HIDE DEF y
  <2>5. y \in Message
    BY <2>4 DEF Says
  <2>6. /\ m \in Message /\ m.role = y.role /\ m.text = y.text /\ m.calls = y.calls
        /\ m.callId = id /\ m.images = y.images /\ m.deferred = y.deferred
    BY <2>3, <2>5 DEF Message
  <2> HIDE DEF m
  <2>7. Says(m, t, "tool", id, <<>>)
    BY <2>4, <2>6 DEF Says
  <2>8. Counted(m) = Whole(t, "tool", id, <<>>)
    BY <2>7, SaysWhole
  <2> QED BY <2>2, <2>6, <2>8 DEF id
<1>5. blocks \in Seq(Block) /\ Len(blocks) = n /\ \A k \in 1 .. n : blocks[k] = result(k)
  <2> HIDE DEF result, n, blocks
  <2> QED BY <1>1, <1>2, <1>3
<1>6. user \in Message /\ s \in Collected /\ <<>> \in Messages
  <2>1. user \in Message
    BY BlankFacts, MarksAreWords
  <2>2. <<>> \in Messages
    BY DEF Messages
  <2> HIDE DEF user
  <2> QED BY <2>1, <2>2, StateFacts
<1>7. told \in Seq(Count) /\ Len(told) = n
      /\ \A k \in 1 .. n : told[k] = Whole(t, "tool", t.calls[k], <<>>)
  BY ToldIs
<1> HIDE DEF blocks, result, made, told, n, s, user
<1>8. PICK F \in [0 .. Len(blocks) -> Collected] : Collects(F, s, blocks)
  BY <1>5, <1>6, CollectsExists
<1> DEFINE Goes(k) == \E out \in Messages : /\ F[k] = State(out, user)
                                            /\ Counts(out) = Firsts(told, k)
           T == {k \in 0 .. n : Goes(k)}
<1>9. 0 \in T
  <2>1. F[0] = State(<<>>, user)
    BY <1>8 DEF Collects, s
  <2>2. Counts(<<>>) = Firsts(told, 0)
    BY <1>7, CountsJoin, FirstsFacts
  <2> QED BY <1>1, <1>6, <2>1, <2>2
<1>10. ASSUME NEW k \in 1 .. n, k - 1 \in T PROVE k \in T
  <2>1. k \in 0 .. n /\ k - 1 \in 0 .. Len(told) /\ k \in 1 .. Len(told) /\ k \in 1 .. Len(blocks)
    BY <1>1, <1>5, <1>7
  <2>2. PICK out \in Messages : F[k - 1] = State(out, user) /\ Counts(out) = Firsts(told, k - 1)
    BY <1>10
  <2>3. F[k] = TakeBlock(State(out, user), result(k))
    BY <1>5, <1>8, <2>1, <2>2 DEF Collects
  <2>4. F[k] = State(Append(out, made(k)), user)
    BY <1>3, <1>6, <2>3, BlockDoes DEF made, user
  <2>5. made(k) \in Message /\ Counted(made(k)) = told[k]
    BY <1>4, <1>7
  <2> DEFINE more == Append(out, made(k))
  <2>6. more \in Messages /\ Counts(more) = Firsts(told, k - 1) \o <<told[k]>>
    <3> DEFINE m == made(k)
    <3>1. m \in Message /\ Counted(m) = told[k]
      BY <2>5
    <3> HIDE DEF m, more
    <3>2. Append(out, m) \in Messages /\ Counts(Append(out, m)) = Counts(out) \o <<Counted(m)>>
      BY <3>1, Behind
    <3>3. more = Append(out, m)
      BY DEF m, more
    <3> QED BY <2>2, <3>1, <3>2, <3>3
  <2> HIDE DEF more
  <2>7. Counts(more) = Firsts(told, k)
    BY <1>7, <2>1, <2>6, FirstsFacts
  <2>8. Goes(k)
    BY <2>4, <2>6, <2>7 DEF more
  <2> QED BY <2>1, <2>8
<1>11. Goes(n)
  <2>1. n \in 0 .. n
    BY <1>1
  <2>2. n \in T
    <3> HIDE DEF T
    <3> QED BY <1>1, <1>9, <1>10, <2>1, UpTo
  <2> QED BY <2>2
<1>12. Firsts(told, n) = told
  BY <1>7, FirstsFacts
<1> QED BY <1>5, <1>8, <1>11, <1>12 DEF Collects, blocks, s, user, told

\* A turn that the messages protocol can say.
AnthropicFits(t) ==
    /\ t.text # <<>> \/ t.calls # <<>> \/ t.images # <<>>
    /\ t.who \in {"user", "assistant", "results"}
    /\ t.who = "user" => t.calls = <<>>
    /\ t.who = "assistant" => t.images = <<>>
    /\ t.who = "results" => t.calls # <<>>

\* A turn's blocks: whether there is a thought in front changes nothing.
Thought(t) == IF t.thought THEN << [type |-> "thinking"] >> ELSE <<>>

\* A thought is skipped.
LEMMA ThoughtIs ==
    ASSUME NEW t \in Turn
    PROVE  /\ Thought(t) \in Seq(Block)
           /\ t.who = "results" => AnthropicBlocks(t) = Thought(t) \o Resulting(t)
           /\ t.who # "results" => AnthropicBlocks(t) = Thought(t) \o (Parts(t) \o Using(t.calls))
           /\ \A out \in Messages, m \in Message :
                 ReadBlocks(State(out, m), Thought(t)) = State(out, m)
<1>1. t.who = "results" => AnthropicBlocks(t) = Thought(t) \o Resulting(t)
  BY DEF AnthropicBlocks, Thought, Resulting
<1>2. t.who # "results" => AnthropicBlocks(t) = Thought(t) \o (Parts(t) \o Using(t.calls))
  BY DEF AnthropicBlocks, Thought, Using
<1>3. CASE t.thought
  <2> DEFINE b == [type |-> "thinking"]
  <2>1. b \in Block
    BY DEF Block
  <2>2. ASSUME NEW out \in Messages, NEW m \in Message
        PROVE  ReadBlocks(State(out, m), <<b>>) = State(out, m)
    <3>1. TakeBlock(State(out, m), b) = State(out, m)
      BY BlockDoes
    <3>2. State(out, m) \in Collected
      BY StateFacts
    <3> HIDE DEF b
    <3> QED BY <2>1, <3>1, <3>2, CollectsOne
  <2> HIDE DEF b
  <2>3. Thought(t) = <<b>> /\ <<b>> \in Seq(Block)
    BY <1>3, <2>1 DEF Thought, b
  <2> QED BY <1>1, <1>2, <2>2, <2>3
<1>4. CASE ~t.thought
  <2>1. Thought(t) = <<>>
    BY <1>4 DEF Thought
  <2>2. ASSUME NEW out \in Messages, NEW m \in Message
        PROVE  ReadBlocks(State(out, m), <<>>) = State(out, m)
    BY StateFacts, CollectsOne
  <2> QED BY <1>1, <1>2, <2>1, <2>2
<1> QED BY <1>3, <1>4

\* A turn that is not empty does not come to an empty message.
LEMMA SaysSomething ==
    ASSUME NEW t \in Turn, t.text # <<>> \/ t.calls # <<>> \/ t.images # <<>>,
           NEW m, NEW role \in Word, Says(m, t, role, NoCall, t.calls)
    PROVE  m # Blank(role)
<1> SUFFICES ASSUME m = Blank(role) PROVE FALSE
  OBVIOUS
<1>1. m.text = <<>> /\ m.images = <<>> /\ m.deferred = <<>> /\ m.calls = <<>>
  BY BlankFacts DEF Fresh
<1>2. t.text = <<>> /\ t.calls = <<>> /\ Len(m.images) + Marks(m.deferred) = Len(t.images)
  BY <1>1 DEF Says
<1>3. Len(t.images) = 0
  BY <1>1, <1>2, MarksAdd
<1>4. t.images = <<>>
  BY <1>3, TurnFacts DEF Text
<1> QED BY <1>2, <1>4

\* What is collected of a turn of one message, whatever was collected before it.
LEMMA TurnCollected ==
    ASSUME NEW t \in Turn, t.who # "results", AnthropicFits(t), NEW out \in Messages
    PROVE  \E m : /\ Says(m, t, t.who, NoCall, t.calls) /\ m # Blank(t.who)
                  /\ ReadBlocks(State(out, Blank(t.who)), AnthropicBlocks(t)) = State(out, m)
<1> DEFINE x == Blank(t.who)
           m == FoldLeft(TakeResultPart, x, Parts(t))
           uses == Using(t.calls)
<1>1. t.who \in Word /\ t.calls \in Text /\ t.who \in {"user", "assistant"}
  BY TurnFacts DEF AnthropicFits
<1>2. x \in Message /\ Fresh(x) /\ x.role = t.who /\ x.callId = NoCall /\ x.calls = <<>>
  BY <1>1, BlankFacts
<1> HIDE DEF x
<1>3. Says(m, t, t.who, NoCall, <<>>)
  BY <1>2, MadeOfParts
<1>4. ReadBlocks(State(out, x), Parts(t)) = State(out, m)
  <2>1. t.images = <<>> \/ x.role = "user"
    BY <1>1, <1>2 DEF AnthropicFits
  <2> QED BY <1>2, <2>1, PartsCollected
<1> HIDE DEF m
<1>5. m \in Message /\ m.role = t.who /\ m.calls = <<>>
  BY <1>3 DEF Says
<1>6. uses \in Seq(Block) /\ Parts(t) \in Seq(Block)
  <2>1. DOMAIN t.calls = 1 .. Len(t.calls) /\ Len(t.calls) \in Nat
        /\ \A k \in 1 .. Len(t.calls) : t.calls[k] \in Word
    BY TurnFacts
  <2>2. \A k \in 1 .. Len(t.calls) : [type |-> "tool_use", id |-> t.calls[k]] \in Block
    BY <2>1 DEF Block, Uses
  <2>3. uses \in Seq(Block)
    BY <2>1, <2>2 DEF Using
  <2>4. Part \subseteq Block
    BY DEF Block
  <2> QED BY <2>3, <2>4, PartsTyped, SeqMonotonic
<1> DEFINE b == WithCalls(m, t.calls)
<1>7. ReadBlocks(State(out, m), uses) = State(out, b)
  <2>1. CASE t.who = "assistant"
    BY <1>1, <1>5, <2>1, UsesCollected
  <2>2. CASE t.who # "assistant"
    <3>1. t.calls = <<>>
      BY <1>1, <2>2 DEF AnthropicFits
    <3>2. uses = <<>>
      BY <3>1 DEF Using
    <3>3. b = m
      BY <1>5, <3>1 DEF WithCalls, Message
    <3>4. State(out, m) \in Collected
      BY <1>5, StateFacts
    <3> HIDE DEF uses, b
    <3> QED BY <3>2, <3>3, <3>4, CollectsOne
  <2> QED BY <2>1, <2>2
<1>8. Says(b, t, t.who, NoCall, t.calls)
  BY <1>1, <1>3, SaysWithCalls
<1>9. b # x
  <2> HIDE DEF b
  <2> QED BY <1>1, <1>8, SaysSomething DEF AnthropicFits, x
<1> HIDE DEF uses, b
<1>10. ReadBlocks(State(out, x), Parts(t) \o uses) = State(out, b)
  <2>1. State(out, x) \in Collected
    BY <1>2, StateFacts
  <2> QED BY <1>4, <1>6, <1>7, <2>1, CollectsJoins
<1>11. ReadBlocks(State(out, x), AnthropicBlocks(t)) = State(out, b)
  <2>1. State(out, x) \in Collected
    BY <1>2, StateFacts
  <2>2. AnthropicBlocks(t) = Thought(t) \o (Parts(t) \o uses) /\ Thought(t) \in Seq(Block)
        /\ ReadBlocks(State(out, x), Thought(t)) = State(out, x)
    BY <1>2, ThoughtIs DEF uses
  <2>3. Parts(t) \o uses \in Seq(Block)
    BY <1>6
  <2>4. ReadBlocks(State(out, x), AnthropicBlocks(t))
          = ReadBlocks(ReadBlocks(State(out, x), Thought(t)), Parts(t) \o uses)
    BY <2>1, <2>2, <2>3, CollectsJoins
  <2> QED BY <1>10, <2>2, <2>4
<1> QED BY <1>8, <1>9, <1>11 DEF x

\* Results, with or without a thought in front, are the messages of their turn.
LEMMA ResultsTurnCollected ==
    ASSUME NEW t \in Turn, t.who = "results"
    PROVE  \E out \in Messages :
              /\ ReadBlocks(State(<<>>, Blank("user")), AnthropicBlocks(t)) = State(out, Blank("user"))
              /\ Counts(out) = Told(t)
<1> DEFINE x == Blank("user")
           s == State(<<>>, x)
<1>1. x \in Message /\ <<>> \in Messages
  <2>1. x \in Message
    BY BlankFacts, MarksAreWords
  <2>2. <<>> \in Messages
    BY DEF Messages
  <2> QED BY <2>1, <2>2
<1>2. PICK out \in Messages :
        /\ ReadBlocks(s, Resulting(t)) = State(out, x)
        /\ Counts(out) = Told(t)
  BY ResultsCollected
<1>3. Resulting(t) \in Seq(Block)
  BY ResultsCollected
<1> HIDE DEF x
<1>4. AnthropicBlocks(t) = Thought(t) \o Resulting(t) /\ Thought(t) \in Seq(Block)
      /\ ReadBlocks(s, Thought(t)) = s
  BY <1>1, ThoughtIs
<1>5. s \in Collected
  BY <1>1, StateFacts
<1> HIDE DEF s
<1>6. ReadBlocks(s, AnthropicBlocks(t)) = ReadBlocks(ReadBlocks(s, Thought(t)), Resulting(t))
  BY <1>3, <1>4, <1>5, CollectsJoins
<1> QED BY <1>2, <1>4, <1>6 DEF s, x

\* What a group of blocks is read as, and what all groups are.
ReadGroup(g) == Flush(ReadBlocks(State(<<>>, Blank(g.role)), g.blocks)).out
ReadGroups(gs) == FlattenSeq([i \in DOMAIN gs |-> ReadGroup(gs[i])])

\* Nothing collected yet.
LEMMA StartTyped ==
    ASSUME NEW role \in Word
    PROVE  State(<<>>, Blank(role)) \in Collected
<1>1. <<>> \in Messages
  BY DEF Messages
<1> QED BY <1>1, BlankFacts, StateFacts

\* A group is read as messages.
LEMMA GroupTyped ==
    ASSUME NEW g \in Group
    PROVE  ReadGroup(g) \in Messages
<1> DEFINE s == ReadBlocks(State(<<>>, Blank(g.role)), g.blocks)
<1>1. g.role \in Word /\ g.blocks \in Seq(Block)
  BY DEF Group
<1>2. s \in Collected
  BY <1>1, StartTyped, CollectsOne
<1> HIDE DEF s
<1>3. Flush(s).out \in Messages
  BY <1>2, FlushTyped DEF Collected
<1> QED BY <1>3 DEF ReadGroup, s

\* Groups are read one by one.
LEMMA GroupsAppended ==
    ASSUME NEW gs \in Seq(Group), NEW g \in Group
    PROVE  /\ ReadGroups(gs) \in Messages
           /\ ReadGroups(Append(gs, g)) = ReadGroups(gs) \o ReadGroup(g)
<1> DEFINE ss == [i \in DOMAIN gs |-> ReadGroup(gs[i])]
           more == Append(gs, g)
           tt == [i \in DOMAIN more |-> ReadGroup(more[i])]
           n == Len(gs)
<1>1. /\ n \in Nat /\ DOMAIN gs = 1 .. n /\ DOMAIN more = 1 .. (n + 1)
      /\ \A i \in 1 .. n : gs[i] \in Group /\ more[i] = gs[i]
      /\ more[n + 1] = g
  OBVIOUS
<1>2. /\ \A i \in 1 .. n : ReadGroup(gs[i]) \in Messages
      /\ ReadGroup(g) \in Messages
  BY <1>1, GroupTyped
<1> HIDE DEF more, n
<1>3. ss = [i \in 1 .. n |-> ReadGroup(gs[i])] /\ tt = [i \in 1 .. (n + 1) |-> ReadGroup(more[i])]
  BY <1>1
<1>4. ss \in Seq(Messages) /\ Len(ss) = n /\ \A i \in 1 .. n : ss[i] = ReadGroup(gs[i])
  BY <1>1, <1>2
<1>5. tt = Append(ss, ReadGroup(g))
  <2> DEFINE m == ReadGroup(g)
             uu == Append(ss, m)
  <2> HIDE DEF ss, m
  <2>1. uu = [i \in 1 .. (n + 1) |-> IF i = n + 1 THEN m ELSE ss[i]]
    <3>1. uu \in Seq(Messages) /\ Len(uu) = n + 1 /\ uu[n + 1] = m
          /\ \A i \in 1 .. n : uu[i] = ss[i]
      <4>1. m \in Messages
        BY <1>2 DEF m
      <4> QED BY <1>4, <4>1
    <3> HIDE DEF uu
    <3>2. uu = [i \in 1 .. (n + 1) |-> uu[i]]
      BY <3>1
    <3>3. \A i \in 1 .. (n + 1) : uu[i] = IF i = n + 1 THEN m ELSE ss[i]
      BY <1>1, <3>1
    <3> QED BY <3>2, <3>3
  <2>2. \A i \in 1 .. (n + 1) : i = n + 1 \/ i \in 1 .. n
    BY <1>1
  <2>3. \A i \in 1 .. (n + 1) : ReadGroup(more[i]) = IF i = n + 1 THEN m ELSE ss[i]
    BY <1>1, <1>4, <2>2 DEF m
  <2> HIDE DEF uu, tt
  <2>4. tt = uu
    BY <1>3, <2>1, <2>3
  <2> QED BY <2>4 DEF uu, m
<1> HIDE DEF ss, tt
<1>6. FlattenSeq(ss) \in Messages
  BY <1>4, FlattenIs DEF Messages
<1>7. FlattenSeq(Append(ss, ReadGroup(g))) = FlattenSeq(ss) \o ReadGroup(g)
  BY <1>2, <1>4, FlattenAppended DEF Messages
<1>8. ReadGroups(gs) = FlattenSeq(ss) /\ ReadGroups(more) = FlattenSeq(tt)
  BY DEF ReadGroups, ss, tt
<1> QED BY <1>5, <1>6, <1>7, <1>8 DEF more

\* Blocks among which no text is empty.
Worded(blocks) == \A p \in DOMAIN blocks : blocks[p].type = "text" => blocks[p].text # <<>>

\* A message that is sent as a string is read like one that is sent as blocks.
LEMMA GroupRead ==
    ASSUME NEW g \in Group, Worded(g.blocks), g.role \in {"user", "assistant"}
    PROVE  ParseAnthropicMessage(AnthropicMessage(g)) = ReadGroup(g)
<1>1. g.role \in Word /\ g.blocks \in Seq(Block)
  BY DEF Group
<1>2. CASE Len(g.blocks) = 1 /\ g.blocks[1].type = "text"
  <2> DEFINE b == g.blocks[1]
             x == Blank(g.role)
             m == [x EXCEPT !.text = b.text]
             w == [role |-> g.role, plain |-> TRUE, text |-> b.text]
  <2>1. AnthropicMessage(g) = w
    BY <1>2 DEF AnthropicMessage
  <2>2. ParseAnthropicMessage(w) = <<m>>
    BY DEF ParseAnthropicMessage
  <2>3. b \in Part /\ b \in Block /\ b.type = "text" /\ b.text # <<>> /\ g.blocks = <<b>>
    <3>1. 1 \in DOMAIN g.blocks /\ g.blocks = <<b>> /\ b \in Block
      BY <1>1, <1>2
    <3>2. b.type = "text"
      BY <1>2
    <3>3. b.text # <<>>
      BY <3>1, <3>2 DEF Worded
    <3> HIDE DEF b
    <3>4. b \in Part
      BY <3>1, <3>2 DEF Block, Results, Uses
    <3> QED BY <3>1, <3>2, <3>3, <3>4
  <2>4. b.text \in Text
    <3> HIDE DEF b
    <3> QED BY <2>3 DEF Part
  <2>5. x \in Message /\ Fresh(x) /\ x.role = g.role /\ x = Blank(g.role)
    BY <1>1, BlankFacts
  <2> HIDE DEF b, x, w
  <2>6. m \in Message /\ m.text = b.text /\ m.role = x.role
    BY <2>4, <2>5 DEF Message
  <2>7. TakeResultPart(x, b) = m
    <3>1. TakeResultPart(x, b) = [x EXCEPT !.text = x.text \o b.text]
      BY <2>3 DEF TakeResultPart
    <3>2. x.text \o b.text = b.text
      BY <2>4, <2>5 DEF Fresh, Text
    <3> QED BY <3>1, <3>2
  <2>8. <<>> \in Messages
    BY DEF Messages
  <2>9. TakeBlock(State(<<>>, x), b) = State(<<>>, m)
    BY <2>3, <2>5, <2>7, <2>8, BlockDoes
  <2>10. ReadBlocks(State(<<>>, x), g.blocks) = State(<<>>, m)
    BY <1>1, <2>3, <2>5, <2>9, StartTyped, CollectsOne
  <2>11. m # Blank(m.role)
    <3>1. x.text = <<>> /\ m.role = g.role
      BY <2>5, <2>6 DEF Fresh
    <3> HIDE DEF m
    <3> QED BY <2>3, <2>5, <2>6, <3>1
  <2> HIDE DEF m
  <2>12. Flush(State(<<>>, m)).out = Append(<<>>, m)
    <3>1. m.role \in {"user", "assistant"}
      BY <2>5, <2>6
    <3> QED BY <2>6, <2>8, <2>11, <3>1, StateFacts
  <2>13. ReadGroup(g) = <<m>>
    BY <2>5, <2>10, <2>12 DEF ReadGroup
  <2> QED BY <2>1, <2>2, <2>13 DEF m
<1>3. CASE ~(Len(g.blocks) = 1 /\ g.blocks[1].type = "text")
  <2>1. AnthropicMessage(g) = [role |-> g.role, plain |-> FALSE, blocks |-> g.blocks]
    BY <1>3 DEF AnthropicMessage
  <2> QED BY <2>1 DEF ParseAnthropicMessage, ReadGroup, ReadBlocks, State
<1> QED BY <1>2, <1>3

\* The group that a turn begins.
GroupOf(t) == [role |-> IF t.who = "results" THEN "user" ELSE t.who,
               blocks |-> AnthropicBlocks(t)]

\* A group of one turn is read as the turn's messages.
LEMMA TurnRead ==
    ASSUME NEW t \in Turn, AnthropicFits(t)
    PROVE  /\ GroupOf(t) \in Group /\ ReadGroup(GroupOf(t)) \in Messages
           /\ Counts(ReadGroup(GroupOf(t))) = Told(t)
<1> DEFINE g == GroupOf(t)
<1>1. g \in Group
  <2>1. (IF t.who = "results" THEN "user" ELSE t.who) \in Word
    BY TurnFacts, MarksAreWords
  <2> QED BY <2>1, BlocksTyped DEF GroupOf, Group
<1>2. g.blocks = AnthropicBlocks(t) /\ g.role = IF t.who = "results" THEN "user" ELSE t.who
  BY DEF GroupOf
<1> HIDE DEF g
<1>3. ReadGroup(g) \in Messages
  BY <1>1, GroupTyped
<1>4. Counts(ReadGroup(g)) = Told(t)
  <2>1. CASE t.who = "results"
    <3>1. PICK out \in Messages :
            /\ ReadBlocks(State(<<>>, Blank("user")), AnthropicBlocks(t)) = State(out, Blank("user"))
            /\ Counts(out) = Told(t)
      BY <2>1, ResultsTurnCollected
    <3> DEFINE x == Blank("user")
    <3>2. x \in Message /\ x = Blank(x.role)
      BY BlankFacts, MarksAreWords
    <3>3. ReadGroup(g) = Flush(State(out, x)).out
      BY <1>2, <2>1, <3>1 DEF ReadGroup
    <3> HIDE DEF x
    <3>4. ReadGroup(g) = out
      BY <3>2, <3>3, StateFacts
    <3> QED BY <3>1, <3>4
  <2>2. CASE t.who # "results"
    <3>1. <<>> \in Messages
      BY DEF Messages
    <3>2. PICK m : /\ Says(m, t, t.who, NoCall, t.calls) /\ m # Blank(t.who)
                   /\ ReadBlocks(State(<<>>, Blank(t.who)), AnthropicBlocks(t)) = State(<<>>, m)
      BY <2>2, <3>1, TurnCollected
    <3>3. m \in Message /\ m.role = t.who /\ m.role \in {"user", "assistant"}
      BY <2>2, <3>2 DEF Says, AnthropicFits
    <3>4. ReadGroup(g) = Append(<<>>, m)
      <4>1. ReadGroup(g) = Flush(State(<<>>, m)).out
        BY <1>2, <2>2, <3>2 DEF ReadGroup
      <4> QED BY <3>1, <3>2, <3>3, <4>1, StateFacts
    <3>5. Counted(m) = Whole(t, t.who, NoCall, t.calls)
      BY <3>2, SaysWhole
    <3>6. Append(<<>>, m) = <<m>> /\ Counts(<<m>>) = <<Counted(m)>>
      BY <3>3, CountsJoin
    <3>7. Voice(t) = t.who
      BY VoiceIs DEF AnthropicFits
    <3> QED BY <2>2, <3>4, <3>5, <3>6, <3>7, ToldIs
  <2> QED BY <2>1, <2>2
<1> QED BY <1>1, <1>3, <1>4 DEF g

\* Results, and what the user says after them, in one group.
After(r, t) == [role |-> "user", blocks |-> AnthropicBlocks(r) \o AnthropicBlocks(t)]

\* And one of two turns as those of both.
LEMMA TurnReadAfter ==
    ASSUME NEW r \in Turn, r.who = "results", NEW t \in Turn, t.who = "user", AnthropicFits(t)
    PROVE  /\ After(r, t) \in Group /\ ReadGroup(After(r, t)) \in Messages
           /\ Counts(ReadGroup(After(r, t))) = Told(r) \o Told(t)
<1> DEFINE g == After(r, t)
           a == AnthropicBlocks(r)
           b == AnthropicBlocks(t)
           x == Blank("user")
<1>1. a \in Seq(Block) /\ b \in Seq(Block) /\ "user" \in Word
  BY BlocksTyped, MarksAreWords
<1>2. g = [role |-> "user", blocks |-> a \o b]
  BY DEF After
<1> HIDE DEF g, a, b
<1>3. g \in Group /\ g.role = "user" /\ g.blocks = a \o b
  BY <1>1, <1>2 DEF Group
<1>4. PICK out \in Messages :
        ReadBlocks(State(<<>>, Blank("user")), a) = State(out, Blank("user")) /\ Counts(out) = Told(r)
  BY ResultsTurnCollected DEF a
<1>5. PICK m : /\ Says(m, t, t.who, NoCall, t.calls) /\ m # Blank(t.who)
               /\ ReadBlocks(State(out, Blank(t.who)), b) = State(out, m)
  BY TurnCollected DEF b
<1>6. m \in Message /\ m.role = "user" /\ m # Blank(m.role)
  BY <1>5 DEF Says
<1>7. ReadBlocks(State(<<>>, Blank("user")), g.blocks) = State(out, m)
  BY <1>1, <1>3, <1>4, <1>5, StartTyped, CollectsJoins
<1>8. ReadGroup(g) = Append(out, m)
  BY <1>3, <1>6, <1>7, StateFacts DEF ReadGroup
<1>9. Counted(m) = Whole(t, t.who, NoCall, t.calls)
  BY <1>5, SaysWhole
<1>10. Told(t) = <<Counted(m)>>
  BY <1>9, ToldIs, VoiceIs
<1>11. Append(out, m) \in Messages /\ Counts(Append(out, m)) = Counts(out) \o <<Counted(m)>>
  BY <1>6, Behind
<1> QED BY <1>3, <1>4, <1>8, <1>10, <1>11 DEF g

\* Blocks that hold neither an empty text nor a result.
Talk(blocks) == Worded(blocks) /\ \A p \in DOMAIN blocks : blocks[p].type # "tool_result"

\* Joining blocks keeps both.
LEMMA TalkJoins ==
    ASSUME NEW a \in Seq(Block), NEW b \in Seq(Block)
    PROVE  /\ Worded(a) /\ Worded(b) => Worded(a \o b)
           /\ Talk(a) /\ Talk(b) => Talk(a \o b)
<1>1. \A p \in DOMAIN (a \o b) : \/ \E q \in DOMAIN a : (a \o b)[p] = a[q]
                                 \/ \E q \in DOMAIN b : (a \o b)[p] = b[q]
  <2> SUFFICES ASSUME NEW p \in DOMAIN (a \o b)
               PROVE  \/ \E q \in DOMAIN a : (a \o b)[p] = a[q]
                      \/ \E q \in DOMAIN b : (a \o b)[p] = b[q]
    OBVIOUS
  <2>1. p \in 1 .. (Len(a) + Len(b)) /\ Len(a) \in Nat /\ Len(b) \in Nat
    OBVIOUS
  <2>2. CASE p <= Len(a)
    <3>1. p \in DOMAIN a /\ (a \o b)[p] = a[p]
      BY <2>1, <2>2
    <3> QED BY <3>1
  <2>3. CASE p > Len(a)
    <3>1. p - Len(a) \in DOMAIN b /\ (a \o b)[p] = b[p - Len(a)]
      BY <2>1, <2>3
    <3> QED BY <3>1
  <2>4. p <= Len(a) \/ p > Len(a)
    BY <2>1
  <2> QED BY <2>2, <2>3, <2>4
<1> DEFINE c == a \o b
<1>2. \A p \in DOMAIN c : (\E q \in DOMAIN a : c[p] = a[q]) \/ (\E q \in DOMAIN b : c[p] = b[q])
  BY <1>1
<1> HIDE DEF c
<1>3. Worded(a) /\ Worded(b) => Worded(c)
  BY <1>2 DEF Worded
<1>4. Talk(a) /\ Talk(b) => Talk(c)
  BY <1>2, <1>3 DEF Talk
<1> QED BY <1>3, <1>4 DEF c

\* What the blocks of a turn hold and end in.
LEMMA BlocksOfTurn ==
    ASSUME NEW t \in Turn, AnthropicFits(t)
    PROVE  /\ AnthropicBlocks(t) \in Seq(Block) /\ AnthropicBlocks(t) # <<>>
           /\ Worded(AnthropicBlocks(t))
           /\ Last(AnthropicBlocks(t)).type = "tool_result" <=> t.who = "results"
<1> DEFINE all == AnthropicBlocks(t)
           thought == Thought(t)
<1>1. DOMAIN t.calls = 1 .. Len(t.calls) /\ Len(t.calls) \in Nat /\ t.calls \in Seq(Word)
  BY TurnFacts DEF Text
<1>2. thought \in Seq(Block) /\ Talk(thought)
  <2>1. thought \in Seq(Block)
    BY ThoughtIs
  <2>2. \A p \in DOMAIN thought : thought[p].type = "thinking"
    BY DEF Thought
  <2> HIDE DEF thought
  <2> QED BY <2>1, <2>2 DEF Talk, Worded
<1>3. all \in Seq(Block)
  BY BlocksTyped
<1> HIDE DEF thought
<1>4. CASE t.who = "results"
  <2> DEFINE rs == Resulting(t)
             n == Len(t.calls)
  <2>1. n # 0
    BY <1>1, <1>4 DEF AnthropicFits
  <2>2. rs \in Seq(Block)
    BY <1>4, ResultsCollected
  <2>3. DOMAIN rs = 1 .. n /\ \A k \in 1 .. n : rs[k].type = "tool_result"
    BY <1>1 DEF Resulting
  <2>4. all = thought \o rs
    BY <1>4, ThoughtIs DEF thought
  <2> HIDE DEF rs, all, n
  <2>5. Len(rs) = n /\ n \in Nat
    BY <1>1, <2>2, <2>3 DEF n
  <2>6. Worded(rs)
    BY <2>3 DEF Worded
  <2>7. Worded(all)
    BY <1>2, <2>2, <2>4, <2>6, TalkJoins DEF Talk
  <2>8. Len(all) = Len(thought) + n /\ Len(thought) \in Nat /\ all[Len(thought) + n] = rs[n]
    <3>1. n \in 1 .. Len(rs)
      BY <2>1, <2>5
    <3>2. Len(thought \o rs) = Len(thought) + Len(rs) /\ (thought \o rs)[Len(thought) + n] = rs[n]
          /\ Len(thought) \in Nat
      BY <1>2, <2>2, <3>1
    <3> QED BY <2>4, <2>5, <3>2
  <2>9. all # <<>> /\ Last(all).type = "tool_result"
    <3>1. Len(all) # 0
      BY <2>1, <2>5, <2>8
    <3>2. all # <<>>
      BY <3>1
    <3>3. n \in 1 .. n
      BY <2>1, <2>5
    <3> QED BY <2>3, <2>8, <3>2, <3>3 DEF Last
  <2> QED BY <1>3, <1>4, <2>7, <2>9 DEF all
<1>5. CASE t.who # "results"
  <2> DEFINE parts == Parts(t)
             uses == Using(t.calls)
             d == Before(t)
             n == Len(t.images)
  <2>1. /\ parts \in Seq(Part) /\ Len(parts) = d + n /\ d \in {0, 1} /\ n \in Nat
        /\ d = 1 => parts[1] = [type |-> "text", text |-> t.text]
        /\ \A i \in 1 .. n : parts[i + d] = [type |-> "image", image |-> t.images[i]]
    BY PartsAre
  <2>2. parts \in Seq(Block) /\ uses \in Seq(Block)
    <3>1. Part \subseteq Block
      BY DEF Block
    <3>2. \A k \in 1 .. Len(t.calls) : [type |-> "tool_use", id |-> t.calls[k]] \in Block
      BY TurnFacts DEF Block, Uses
    <3>3. uses \in Seq(Block)
      BY <1>1, <3>2 DEF Using
    <3> QED BY <2>1, <3>1, <3>3, SeqMonotonic
  <2>3. Talk(parts)
    <3>1. ASSUME NEW p \in DOMAIN parts
          PROVE  /\ parts[p].type = "text" => parts[p].text # <<>>
                 /\ parts[p].type # "tool_result"
      <4> HIDE DEF parts, n
      <4>1. p \in 1 .. (d + n)
        BY <2>1
      <4>2. CASE d = 1 /\ p = 1
        <5>1. parts[p] = [type |-> "text", text |-> t.text] /\ t.text # <<>>
          BY <2>1, <4>2 DEF Before
        <5> QED BY <5>1
      <4>3. CASE ~(d = 1 /\ p = 1)
        <5> HIDE DEF d
        <5>1. p - d \in 1 .. n /\ (p - d) + d = p
          BY <2>1, <4>1, <4>3
        <5>2. parts[p] = [type |-> "image", image |-> t.images[p - d]]
          BY <2>1, <5>1
        <5> QED BY <5>2
      <4> QED BY <4>2, <4>3
    <3> HIDE DEF parts
    <3> QED BY <3>1 DEF Talk, Worded
  <2>4. Talk(uses)
    <3>1. \A p \in DOMAIN uses : uses[p].type = "tool_use"
      BY DEF Using
    <3> HIDE DEF uses
    <3> QED BY <3>1 DEF Talk, Worded
  <2>5. all = thought \o (parts \o uses)
    BY <1>5, ThoughtIs DEF thought
  <2>6. parts # <<>> \/ uses # <<>>
    <3>1. CASE t.text # <<>> \/ t.images # <<>>
      <4>1. d # 0 \/ n # 0
        <5>1. t.images \in Seq(Word)
          BY TurnFacts DEF Text
        <5> QED BY <3>1, <5>1 DEF Before
      <4>2. Len(parts) # 0
        <5> HIDE DEF parts, n, d
        <5> QED BY <2>1, <4>1
      <4> HIDE DEF parts
      <4> QED BY <4>2
    <3>2. CASE t.calls # <<>>
      <4>1. DOMAIN uses = 1 .. Len(t.calls) /\ Len(t.calls) # 0
        BY <1>1, <3>2 DEF Using
      <4>2. 1 \in DOMAIN uses
        <5> HIDE DEF uses
        <5> QED BY <1>1, <4>1
      <4> HIDE DEF uses
      <4> QED BY <4>2
    <3> QED BY <3>1, <3>2 DEF AnthropicFits
  <2> HIDE DEF parts, uses, all
  <2>7. Talk(all)
    <3>1. Talk(parts \o uses) /\ parts \o uses \in Seq(Block)
      BY <2>2, <2>3, <2>4, TalkJoins
    <3> QED BY <1>2, <2>5, <3>1, TalkJoins
  <2>8. all # <<>> /\ Len(all) \in DOMAIN all
    <3>1. Len(parts) \in Nat /\ Len(uses) \in Nat /\ Len(thought) \in Nat
          /\ (Len(parts) # 0 \/ Len(uses) # 0)
      BY <1>2, <2>2, <2>6
    <3>2. Len(all) = Len(thought) + (Len(parts) + Len(uses))
      BY <1>2, <2>2, <2>5
    <3>3. Len(all) # 0 /\ Len(all) \in Nat /\ DOMAIN all = 1 .. Len(all)
      BY <1>3, <3>1, <3>2 DEF all
    <3> QED BY <3>3
  <2>9. Last(all).type # "tool_result"
    BY <2>7, <2>8 DEF Talk, Last
  <2> QED BY <1>3, <1>5, <2>7, <2>8, <2>9 DEF Talk, all
<1> QED BY <1>4, <1>5

\* A group of the user's or of the assistant's, without an empty text.
Spoken(g) == Worded(g.blocks) /\ g.role \in {"user", "assistant"}

\* Groups that say, behind the messages of base, what c says.
Tied(base, gs, c) ==
    /\ gs \in Seq(Group) /\ \A i \in DOMAIN gs : Spoken(gs[i])
    /\ Counts(base \o ReadGroups(gs)) = c

\* The last group ends in turn t.
Ends(gs, t) ==
    /\ gs # <<>> /\ (Last(Last(gs).blocks).type = "tool_result" <=> t.who = "results")
    /\ t.who = "results" => Last(gs) = GroupOf(t)

\* One more group.
LEMMA GroupAdded ==
    ASSUME NEW base \in Messages, NEW gs \in Seq(Group), NEW g \in Group, NEW told \in Seq(Count),
           \A i \in DOMAIN gs : Spoken(gs[i]), Spoken(g),
           Counts(ReadGroup(g)) = told
    PROVE  /\ Append(gs, g) \in Seq(Group) /\ Append(gs, g) # <<>> /\ Last(Append(gs, g)) = g
           /\ Tied(base, Append(gs, g), Counts(base \o ReadGroups(gs)) \o told)
<1> DEFINE hs == Append(gs, g)
           a == ReadGroups(gs)
           b == ReadGroup(g)
<1>1. /\ hs \in Seq(Group) /\ Len(hs) = Len(gs) + 1 /\ Len(gs) \in Nat /\ hs[Len(gs) + 1] = g
      /\ DOMAIN hs = 1 .. (Len(gs) + 1) /\ \A i \in 1 .. Len(gs) : hs[i] = gs[i]
  OBVIOUS
<1>2. a \in Messages /\ b \in Messages /\ ReadGroups(hs) = a \o b
  BY GroupsAppended, GroupTyped
<1>3. hs # <<>> /\ Last(hs) = g
  BY <1>1 DEF Last
<1>4. \A i \in DOMAIN hs : Spoken(hs[i])
  <2>1. \A i \in DOMAIN hs : i = Len(gs) + 1 \/ i \in DOMAIN gs
    BY <1>1
  <2> HIDE DEF hs
  <2> QED BY <1>1, <2>1
<1> HIDE DEF hs, a, b
<1>5. base \o (a \o b) = (base \o a) \o b /\ base \o a \in Messages
  BY <1>2 DEF Messages
<1>6. Counts((base \o a) \o b) = Counts(base \o a) \o Counts(b)
  BY <1>2, <1>5, CountsJoin
<1>7. Tied(base, hs, Counts(base \o a) \o told)
  BY <1>1, <1>2, <1>4, <1>5, <1>6 DEF Tied, b
<1> QED BY <1>1, <1>3, <1>7 DEF hs, a

\* A turn adds a group, or goes on with the user's after the results.
LEMMA TurnTied ==
    ASSUME NEW base \in Messages, NEW gs, NEW c, Tied(base, gs, c),
           NEW t \in Turn, AnthropicFits(t),
           gs # <<>> => \E r \in Turn : AnthropicFits(r) /\ Ends(gs, r)
    PROVE  /\ Tied(base, AnthropicTurn(gs, t), c \o Told(t))
           /\ Ends(AnthropicTurn(gs, t), t)
<1> DEFINE role == IF t.who = "results" THEN "user" ELSE t.who
           Goes == gs # <<>> /\ t.who = "user" /\ Last(Last(gs).blocks).type = "tool_result"
<1>1. /\ gs \in Seq(Group) /\ (\A i \in DOMAIN gs : Spoken(gs[i]))
      /\ Counts(base \o ReadGroups(gs)) = c
  BY DEF Tied
<1>2. Told(t) \in Seq(Count)
  BY ToldIs
<1>3. CASE ~Goes
  <2> DEFINE g == GroupOf(t)
  <2>1. AnthropicTurn(gs, t) = Append(gs, g)
    BY <1>3 DEF AnthropicTurn, GroupOf
  <2>2. g \in Group /\ Counts(ReadGroup(g)) = Told(t)
    BY TurnRead
  <2>3. g.blocks = AnthropicBlocks(t) /\ g.role \in {"user", "assistant"}
    BY DEF GroupOf, AnthropicFits
  <2>4. Spoken(g) /\ (Last(g.blocks).type = "tool_result" <=> t.who = "results")
    BY <2>3, BlocksOfTurn DEF Spoken
  <2> HIDE DEF g
  <2>5. Last(Append(gs, g)) = g /\ Append(gs, g) # <<>> /\ Tied(base, Append(gs, g), c \o Told(t))
    BY <1>1, <1>2, <2>2, <2>4, GroupAdded
  <2>6. Ends(Append(gs, g), t)
    BY <2>4, <2>5 DEF Ends, g
  <2> QED BY <2>1, <2>5, <2>6
<1>4. CASE Goes
  <2>1. PICK r \in Turn : AnthropicFits(r) /\ Ends(gs, r)
    BY <1>4
  <2>2. r.who = "results" /\ Last(gs) = GroupOf(r) /\ t.who = "user" /\ gs # <<>>
    BY <1>4, <2>1 DEF Ends
  <2> DEFINE n == Len(gs)
             front == SubSeq(gs, 1, n - 1)
             old == GroupOf(r)
             new == After(r, t)
             hs == Append(front, new)
  <2>3. n \in Nat /\ n # 0 /\ gs[n] = old /\ n \in 1 .. n
    BY <1>1, <2>2 DEF Last
  <2>4. /\ front \in Seq(Group) /\ Len(front) = n - 1
        /\ \A i \in 1 .. (n - 1) : front[i] = gs[i]
    <3> DEFINE k == n - 1
    <3>1. k \in 0 .. Len(gs) /\ gs \in Seq(Group)
      BY <1>1, <2>3
    <3> HIDE DEF n, k
    <3>2. /\ SubSeq(gs, 1, k) \in Seq(Group) /\ Len(SubSeq(gs, 1, k)) = k
          /\ \A i \in 1 .. k : SubSeq(gs, 1, k)[i] = gs[i]
      BY <3>1
    <3> QED BY <3>2 DEF k
  <2>5. old \in Group /\ Counts(ReadGroup(old)) = Told(r) /\ ReadGroup(old) \in Messages
        /\ new \in Group /\ Counts(ReadGroup(new)) = Told(r) \o Told(t)
    BY <2>1, <2>2, TurnRead, TurnReadAfter
  <2>6. /\ old.role = "user" /\ old.blocks = AnthropicBlocks(r)
        /\ old = [role |-> "user", blocks |-> AnthropicBlocks(r)]
        /\ new = [role |-> "user", blocks |-> AnthropicBlocks(r) \o AnthropicBlocks(t)]
        /\ new.role = "user" /\ new.blocks = AnthropicBlocks(r) \o AnthropicBlocks(t)
    BY <2>2 DEF GroupOf, After
  <2> HIDE DEF old, new, front, n
  <2>7. gs = Append(front, old)
    <3> DEFINE fs == Append(front, old)
    <3>1. fs \in Seq(Group) /\ Len(fs) = (n - 1) + 1 /\ fs[(n - 1) + 1] = old
          /\ \A i \in 1 .. (n - 1) : fs[i] = front[i]
      BY <2>4, <2>5
    <3> HIDE DEF fs
    <3>2. (n - 1) + 1 = n /\ \A i \in 1 .. n : i = n \/ i \in 1 .. (n - 1)
      BY <2>3
    <3>3. \A i \in 1 .. n : fs[i] = gs[i]
      BY <2>3, <2>4, <3>1, <3>2
    <3>4. fs = [i \in 1 .. n |-> fs[i]] /\ gs = [i \in 1 .. n |-> gs[i]]
      BY <1>1, <3>1, <3>2 DEF n
    <3>5. fs = gs
      BY <3>3, <3>4
    <3> QED BY <3>5 DEF fs
  <2>8. AnthropicTurn(gs, t) = hs
    <3> DEFINE all == AnthropicBlocks(r) \o AnthropicBlocks(t)
    <3>1. AnthropicTurn(gs, t) = [gs EXCEPT ![n].blocks = Last(gs).blocks \o AnthropicBlocks(t)]
      BY <1>4 DEF AnthropicTurn, n
    <3>2. Last(gs).blocks = AnthropicBlocks(r)
      BY <2>2, <2>6 DEF old
    <3>3. AnthropicTurn(gs, t) = [gs EXCEPT ![n].blocks = all]
      BY <3>1, <3>2
    <3> HIDE DEF all
    <3>4. [gs EXCEPT ![n].blocks = all] = [gs EXCEPT ![n] = [gs[n] EXCEPT !.blocks = all]]
      OBVIOUS
    <3>5. [gs[n] EXCEPT !.blocks = all] = new
      <4>1. gs[n] = [role |-> "user", blocks |-> AnthropicBlocks(r)]
        BY <2>3, <2>6
      <4> DEFINE x == gs[n]
      <4>2. x.role = "user" /\ x = [role |-> "user", blocks |-> x.blocks]
        BY <4>1
      <4> HIDE DEF x
      <4>3. [x EXCEPT !.blocks = all] = [role |-> "user", blocks |-> all]
        BY <4>2
      <4> QED BY <2>6, <4>3 DEF all, x
    <3> DEFINE ks == [gs EXCEPT ![n] = new]
    <3>6. ks = [i \in 1 .. n |-> IF i = n THEN new ELSE gs[i]]
      BY <1>1, <2>3 DEF n
    <3>7. hs \in Seq(Group) /\ Len(hs) = (n - 1) + 1 /\ hs[(n - 1) + 1] = new
          /\ \A i \in 1 .. (n - 1) : hs[i] = front[i]
      BY <2>4, <2>5
    <3> HIDE DEF hs, ks
    <3>8. (n - 1) + 1 = n /\ \A i \in 1 .. n : i = n \/ i \in 1 .. (n - 1)
      BY <2>3
    <3>9. \A i \in 1 .. n : hs[i] = IF i = n THEN new ELSE gs[i]
      BY <2>4, <3>7, <3>8
    <3>10. hs = [i \in 1 .. n |-> hs[i]]
      BY <3>7, <3>8
    <3>11. ks = hs
      BY <3>6, <3>9, <3>10
    <3> QED BY <3>3, <3>4, <3>5, <3>11 DEF ks
  <2>9. \A i \in DOMAIN front : Spoken(front[i])
    <3>1. DOMAIN front = 1 .. (n - 1) /\ \A i \in 1 .. (n - 1) : i \in DOMAIN gs
      BY <1>1, <2>3, <2>4 DEF n
    <3> QED BY <1>1, <2>4, <3>1
  <2> DEFINE lead == Counts(base \o ReadGroups(front))
             a == Told(r)
             b == Told(t)
  <2>10. Spoken(old) /\ Spoken(new)
         /\ Last(new.blocks).type # "tool_result"
    <3> DEFINE u == AnthropicBlocks(r)
               v == AnthropicBlocks(t)
    <3>1. /\ u \in Seq(Block) /\ v \in Seq(Block) /\ v # <<>> /\ Worded(u) /\ Worded(v)
          /\ Last(v).type # "tool_result"
      BY <2>1, <2>2, BlocksOfTurn
    <3> HIDE DEF u, v
    <3>2. Worded(u \o v)
      BY <3>1, TalkJoins
    <3>3. Last(u \o v) = Last(v)
      <4>1. Len(v) \in Nat /\ Len(v) # 0 /\ Len(u) \in Nat
        BY <3>1
      <4>2. Len(u \o v) = Len(u) + Len(v) /\ (u \o v)[Len(u) + Len(v)] = v[Len(v)]
        BY <3>1, <4>1
      <4> QED BY <4>2 DEF Last
    <3>4. new.blocks = u \o v /\ old.blocks = u /\ new.role = "user" /\ old.role = "user"
      BY <2>6 DEF u, v
    <3> QED BY <3>1, <3>2, <3>3, <3>4 DEF Spoken
  <2>11. a \in Seq(Count) /\ b \in Seq(Count)
    BY ToldIs
  <2>12. lead \in Seq(Count)
    <3>1. ReadGroups(front) \in Messages
      BY <2>4, <2>5, GroupsAppended
    <3> QED BY <3>1, CountsJoin
  <2> HIDE DEF lead, a, b, hs
  <2>13. c = lead \o a
    <3>1. Tied(base, Append(front, old), lead \o a)
      <4>1. Counts(ReadGroup(old)) = a
        BY <2>5 DEF a
      <4> QED BY <2>4, <2>5, <2>9, <2>10, <2>11, <4>1, GroupAdded DEF lead
    <3> QED BY <1>1, <2>7, <3>1 DEF Tied
  <2>14. Tied(base, hs, lead \o (a \o b)) /\ hs # <<>> /\ Last(hs) = new
    <3>1. Counts(ReadGroup(new)) = a \o b /\ a \o b \in Seq(Count)
      BY <2>5, <2>11 DEF a, b
    <3> QED BY <2>4, <2>5, <2>9, <2>10, <3>1, GroupAdded DEF lead, hs
  <2>15. lead \o (a \o b) = c \o b
    BY <2>11, <2>12, <2>13
  <2>16. Ends(hs, t)
    BY <2>2, <2>10, <2>14 DEF Ends
  <2> QED BY <2>8, <2>14, <2>15, <2>16 DEF b
<1> QED BY <1>3, <1>4

\* What comes in by the messages protocol is the conversation.
LEMMA AnthropicTold ==
    ASSUME NEW conv \in Seq(Turn), conv # <<>>, Carries("anthropic", conv)
    PROVE  /\ Counts(ParseAnthropicRequest(AnthropicWire(conv))) = Canonical(conv)
           /\ \A i \in DOMAIN AnthropicWire(conv).messages :
                 AnthropicWire(conv).messages[i].role \in {"user", "assistant"}
<1> DEFINE turns == AfterOpening(conv)
           base == Instructions(Opening(conv))
           d == Offset(conv)
           n == Len(turns)
           gs == FoldLeft(AnthropicTurn, <<>>, turns)
<1>1. PICK C \in [0 .. Len(conv) -> Seq(Count)] : Tells(C, conv)
  BY TellsExists
<1>2. conv[1].who = "system" => conv[1].text # <<>> /\ conv[1].images = <<>> /\ conv[1].calls = <<>>
  <2>1. 1 \in 1 .. Len(conv) /\ "anthropic" # "chat"
    OBVIOUS
  <2> QED BY <2>1, CarriesTurn
<1>3. /\ base \in Messages /\ Counts(base) = C[d]
      /\ turns \in Seq(Turn) /\ d \in {0, 1} /\ n + d = Len(conv)
      /\ \A j \in 1 .. n : turns[j] = conv[j + d]
  BY <1>1, <1>2, OpeningTold
<1>a. d = 0 => conv[1].who # "system"
  BY DEF Offset
<1> HIDE DEF turns, base, d
<1>4. ASSUME NEW j \in 1 .. n
      PROVE  turns[j] \in Turn /\ AnthropicFits(turns[j]) /\ turns[j] = conv[j + d]
             /\ j + d \in 1 .. Len(conv)
  <2>1. j + d \in 1 .. Len(conv) /\ turns[j] \in Turn /\ turns[j] = conv[j + d]
    BY <1>3
  <2>2. "anthropic" # "chat"
    OBVIOUS
  <2> DEFINE i == j + d
  <2> HIDE DEF i
  <2>3. /\ conv[i].text # <<>> \/ conv[i].calls # <<>> \/ conv[i].images # <<>>
        /\ conv[i].who = "user" => conv[i].calls = <<>>
        /\ conv[i].who = "system" => i = 1
        /\ conv[i].who = "results" => conv[i].calls # <<>>
        /\ conv[i].who # "developer" /\ (conv[i].who = "assistant" => conv[i].images = <<>>)
        /\ conv[i] \in Turn
    BY <2>1, <2>2, CarriesTurn DEF i
  <2>4. i = 1 => d = 0
    BY <1>3 DEF i
  <2>5. AnthropicFits(conv[i])
    BY <1>a, <2>3, <2>4 DEF AnthropicFits, Turn
  <2> QED BY <2>1, <2>5 DEF i
<1>5. PICK G \in [0 .. Len(turns) -> Seq(Group)] :
        /\ G[0] = <<>>
        /\ \A k \in 1 .. Len(turns) : G[k] = AnthropicTurn(G[k - 1], turns[k])
        /\ FoldLeft(AnthropicTurn, <<>>, turns) = G[Len(turns)]
  <2> DEFINE z == <<>>
  <2>1. z \in Seq(Group)
    OBVIOUS
  <2> HIDE DEF z
  <2>2. \E G \in [0 .. Len(turns) -> Seq(Group)] :
          /\ G[0] = z
          /\ \A k \in 1 .. Len(turns) : G[k] = AnthropicTurn(G[k - 1], turns[k])
          /\ FoldLeft(AnthropicTurn, z, turns) = G[Len(turns)]
    BY <1>3, <2>1, TurnsTraced
  <2> QED BY <2>2 DEF z
<1>6. n \in Nat
  BY <1>3
<1> HIDE DEF n
<1> DEFINE Goes(j) == /\ Tied(base, G[j], C[j + d])
                      /\ j # 0 => Ends(G[j], turns[j])
                      /\ j = 0 => G[j] = <<>>
           T == {j \in 0 .. n : Goes(j)}
<1>7. 0 \in T
  <2>1. ReadGroups(<<>>) = <<>>
    <3> DEFINE z == <<>>
    <3>1. z \in Seq(Seq(Message)) /\ Len(z) = 0
      OBVIOUS
    <3>2. ReadGroups(<<>>) = FlattenSeq(z)
      BY DEF ReadGroups
    <3> HIDE DEF z
    <3>3. PICK F \in [0 .. Len(z) -> Seq(Message)] : Flattens(F, z)
      BY <3>1, FlattensExist
    <3> QED BY <3>1, <3>2, <3>3 DEF Flattens
  <2>2. base \o <<>> = base
    BY <1>3 DEF Messages
  <2>3. 0 + d = d /\ 0 \in 0 .. n
    BY <1>3, <1>6
  <2>4. Tied(base, <<>>, C[d])
    <3> DEFINE z == <<>>
    <3>1. z \in Seq(Group) /\ DOMAIN z = {}
      OBVIOUS
    <3>2. Counts(base \o ReadGroups(z)) = C[d]
      BY <1>3, <2>1, <2>2
    <3> HIDE DEF z
    <3>3. Tied(base, z, C[d])
      BY <3>1, <3>2 DEF Tied
    <3> QED BY <3>3 DEF z
  <2> QED BY <1>5, <2>3, <2>4
<1>8. ASSUME NEW j \in 1 .. n, j - 1 \in T PROVE j \in T
  <2> DEFINE t == turns[j]
             hs == G[j - 1]
             i == j + d
             r == turns[j - 1]
  <2>1. t \in Turn /\ AnthropicFits(t) /\ t = conv[i] /\ i \in 1 .. Len(conv)
    BY <1>4
  <2>2. (j - 1) + d = i - 1 /\ j \in 0 .. n /\ j # 0 /\ (j - 1 # 0 => j - 1 \in 1 .. n)
    BY <1>3, <1>6
  <2>3. G[j] = AnthropicTurn(hs, t)
    BY <1>5 DEF n
  <2>4. C[i] = C[i - 1] \o Told(t)
    BY <1>1, <2>1 DEF Tells
  <2>5. Goes(j - 1)
    BY <1>8
  <2> HIDE DEF t, i
  <2>6. Tied(base, hs, C[i - 1])
    BY <2>2, <2>5
  <2>7. hs # <<>> => \E x \in Turn : AnthropicFits(x) /\ Ends(hs, x)
    <3>1. CASE j - 1 = 0
      BY <2>5, <3>1
    <3>2. CASE j - 1 # 0
      <4>1. Ends(hs, r)
        BY <2>5, <3>2
      <4>2. r \in Turn /\ AnthropicFits(r)
        BY <1>4, <2>2, <3>2
      <4> QED BY <4>1, <4>2
    <3> QED BY <3>1, <3>2
  <2> HIDE DEF hs
  <2>8. Tied(base, G[j], C[i]) /\ Ends(G[j], t)
    BY <1>3, <2>1, <2>3, <2>4, <2>6, <2>7, TurnTied
  <2>9. Goes(j)
    BY <2>2, <2>8 DEF t, i
  <2> QED BY <2>2, <2>9
<1>9. Goes(n)
  <2>1. n \in 0 .. n
    BY <1>6
  <2>2. n \in T
    <3> HIDE DEF T
    <3> QED BY <1>6, <1>7, <1>8, <2>1, UpTo
  <2> QED BY <2>2
<1>10. gs = G[n] /\ C[n + d] = Canonical(conv)
  BY <1>1, <1>3, <1>5 DEF Tells, n
<1> HIDE DEF gs
<1>11. /\ gs \in Seq(Group) /\ \A i \in DOMAIN gs : Spoken(gs[i])
       /\ Counts(base \o ReadGroups(gs)) = Canonical(conv)
  BY <1>9, <1>10 DEF Tied
<1>12. /\ ParseAnthropicRequest(AnthropicWire(conv)) = base \o ReadGroups(gs)
       /\ \A i \in DOMAIN AnthropicWire(conv).messages :
             AnthropicWire(conv).messages[i].role \in {"user", "assistant"}
  <2> DEFINE messages == [i \in DOMAIN gs |-> AnthropicMessage(gs[i])]
  <2>1. AnthropicWire(conv) = [system |-> Opening(conv), messages |-> messages]
    BY DEF AnthropicWire, gs, turns
  <2>2. ParseAnthropicRequest(AnthropicWire(conv))
          = base \o FlattenSeq([i \in DOMAIN messages |-> ParseAnthropicMessage(messages[i])])
    BY <2>1 DEF ParseAnthropicRequest, base, Instructions
  <2>3. DOMAIN messages = DOMAIN gs
    OBVIOUS
  <2>4. \A i \in DOMAIN gs : ParseAnthropicMessage(messages[i]) = ReadGroup(gs[i])
    <3>1. \A i \in DOMAIN gs : gs[i] \in Group
      BY <1>11
    <3> QED BY <1>11, <3>1, GroupRead DEF Spoken
  <2>6. \A i \in DOMAIN messages : messages[i].role \in {"user", "assistant"}
    <3>1. \A g \in Group : AnthropicMessage(g).role = g.role
      BY DEF AnthropicMessage
    <3>2. \A i \in DOMAIN gs : messages[i] = AnthropicMessage(gs[i]) /\ gs[i] \in Group
      BY <1>11
    <3> HIDE DEF messages
    <3> QED BY <1>11, <2>3, <3>1, <3>2 DEF Spoken
  <2>7. AnthropicWire(conv).messages = messages
    BY <2>1
  <2> HIDE DEF messages
  <2>5. [i \in DOMAIN messages |-> ParseAnthropicMessage(messages[i])]
          = [i \in DOMAIN gs |-> ReadGroup(gs[i])]
    BY <2>3, <2>4
  <2> QED BY <2>2, <2>5, <2>6, <2>7 DEF ReadGroups
<1> QED BY <1>11, <1>12

\* What is parsed of a conversation that its protocol can carry is the conversation,
\* turn by turn, in whichever protocol it comes in.
LEMMA ParsedTold ==
    ASSUME NEW r \in Requests \cup Quick, Carries(r.proto, r.conv)
    PROVE  Counts(Parsed(r)) = Canonical(r.conv)
<1>1. r.proto \in {"chat", "anthropic", "responses"} /\ r.conv \in Seq(AnyTurn) /\ r.conv # <<>>
  BY IntakeAssumption
<1>2. Seq(STRING) \subseteq Text
  <2>1. STRING \subseteq Word
    BY DEF Word
  <2> HIDE DEF Word
  <2> QED BY <2>1, SeqMonotonic DEF Text
<1>3. AnyTurn \subseteq Turn
  BY <1>2 DEF AnyTurn, Turn
<1> DEFINE conv == r.conv
<1>4. conv \in Seq(Turn) /\ conv # <<>>
  BY <1>1, <1>3, SeqMonotonic
<1>5. CASE r.proto = "chat"
  <2>1. Parsed(r) = ParseChatRequest(ChatWire(conv))
    BY <1>5 DEF Parsed
  <2>2. Carries("chat", conv)
    BY <1>5
  <2> HIDE DEF conv
  <2> QED BY <1>4, <2>1, <2>2, ChatTold DEF conv
<1>6. CASE r.proto = "anthropic"
  <2>1. Parsed(r) = ParseAnthropicRequest(AnthropicWire(conv))
    BY <1>6 DEF Parsed
  <2>2. Carries("anthropic", conv)
    BY <1>6
  <2> HIDE DEF conv
  <2> QED BY <1>4, <2>1, <2>2, AnthropicTold DEF conv
<1>7. CASE r.proto = "responses"
  <2>1. Parsed(r) = ParseResponsesRequest(ResponsesWire(conv))
    BY <1>7 DEF Parsed
  <2>2. Carries("responses", conv)
    BY <1>7
  <2> HIDE DEF conv
  <2> QED BY <1>4, <2>1, <2>2, ResponsesTold DEF conv
<1> QED BY <1>1, <1>5, <1>6, <1>7

\* The turns of a request are turns.
LEMMA WrittenTyped == \A r \in Requests \cup Quick : r.conv \in Seq(Turn)
<1>1. \A r \in Requests \cup Quick : r.conv \in Seq(AnyTurn)
  BY IntakeAssumption
<1>2. Seq(STRING) \subseteq Text
  <2>1. STRING \subseteq Word
    BY DEF Word
  <2> HIDE DEF Word
  <2> QED BY <2>1, SeqMonotonic DEF Text
<1>3. AnyTurn \subseteq Turn
  BY <1>2 DEF AnyTurn, Turn
<1> QED BY <1>1, <1>3, SeqMonotonic

\* Items that parseResponsesItem does not refuse.
Allowed == {it \in Item : AcceptsItem(it)}

\* A turn that the responses protocol can say is made of such items.
LEMMA TurnAllowed ==
    ASSUME NEW t \in Turn, t.who # "system",
           t.who = "results" => \A k \in DOMAIN t.calls : t.calls[k] # NoCall
    PROVE  ResponsesTurn(t) \in Seq(Allowed)
<1> DEFINE output(k) == [type |-> "function_call_output", id |-> t.calls[k], text |-> t.text]
           ask(k) == [type |-> "function_call", id |-> t.calls[k]]
           say == [type |-> "message", role |-> t.who, parts |-> Parts(t)]
           think == [type |-> "reasoning"]
           asks == [k \in DOMAIN t.calls |-> ask(k)]
           thought == IF t.thought THEN <<think>> ELSE <<>>
           said == IF Parts(t) = <<>> THEN <<>> ELSE <<say>>
<1>0. DOMAIN t.calls = 1 .. Len(t.calls) /\ Len(t.calls) \in Nat
  BY TurnFacts
<1>1. CASE t.who = "results"
  <2>1. \A k \in DOMAIN t.calls : output(k) \in Item /\ AcceptsItem(output(k))
    BY <1>1, TurnFacts DEF Item, OutputItems, AcceptsItem, Dropped
  <2>2. ResponsesTurn(t) = [k \in DOMAIN t.calls |-> output(k)]
    BY <1>1 DEF ResponsesTurn
  <2> HIDE DEF output
  <2>3. \A k \in DOMAIN t.calls : output(k) \in Allowed
    BY <2>1 DEF Allowed
  <2> QED BY <1>0, <2>2, <2>3
<1>2. CASE t.who # "results"
  <2>1. \A k \in DOMAIN t.calls : ask(k) \in Item /\ AcceptsItem(ask(k))
    BY TurnFacts DEF Item, CallItems, AcceptsItem, Dropped
  <2>2. think \in Item /\ AcceptsItem(think)
    BY DEF Item, ThoughtItems, AcceptsItem, Dropped
  <2>3. say \in Item /\ AcceptsItem(say)
    <3>1. t.who \in {"developer", "user", "assistant"} /\ t.who \in Word
          /\ Parts(t) \in Seq(Part)
      BY <1>2, TurnFacts, PartsTyped DEF Turn
    <3> QED BY <3>1 DEF Item, MessageItems, AcceptsItem, Dropped
  <2> HIDE DEF ask, think, say
  <2>4. /\ \A k \in DOMAIN t.calls : ask(k) \in Allowed
        /\ think \in Allowed /\ say \in Allowed
    BY <2>1, <2>2, <2>3 DEF Allowed
  <2>5. asks \in Seq(Allowed) /\ thought \in Seq(Allowed) /\ said \in Seq(Allowed)
    <3> DEFINE n == Len(t.calls)
               one == <<think>>
               two == <<say>>
               none == <<>>
    <3>1. one \in Seq(Allowed) /\ two \in Seq(Allowed) /\ none \in Seq(Allowed)
      BY <2>4
    <3>2. asks \in Seq(Allowed)
      <4>1. DOMAIN t.calls = 1 .. n /\ n \in Nat
        BY <1>0
      <4> HIDE DEF n
      <4> QED BY <2>4, <4>1
    <3> QED BY <3>1, <3>2
  <2>6. ResponsesTurn(t) = thought \o said \o asks
    BY <1>2 DEF ResponsesTurn, ask, think, say
  <2> HIDE DEF thought, said, asks
  <2> QED BY <2>5, <2>6
<1> QED BY <1>1, <1>2

\* So are all turns behind an opening.
LEMMA WireAllowed ==
    ASSUME NEW conv \in Seq(Turn), conv # <<>>, Carries("responses", conv)
    PROVE  AcceptsResponses(ResponsesWire(conv))
<1> DEFINE turns == AfterOpening(conv)
           ss == [j \in DOMAIN turns |-> ResponsesTurn(turns[j])]
           input == FlattenSeq(ss)
<1>1. turns \in Seq(Turn) /\ \A j \in DOMAIN turns : \E i \in 1 .. Len(conv) :
         turns[j] = conv[i] /\ (i = 1 => conv[1].who # "system")
  <2>1. CASE conv[1].who = "system"
    <3> DEFINE rest == Tail(conv)
    <3>1. rest \in Seq(Turn) /\ DOMAIN rest = 1 .. (Len(conv) - 1)
          /\ \A j \in DOMAIN rest : rest[j] = conv[j + 1]
      OBVIOUS
    <3>2. turns = rest
      BY <2>1 DEF AfterOpening
    <3> HIDE DEF rest, turns
    <3>3. \A j \in DOMAIN rest : j + 1 \in 1 .. Len(conv) /\ j + 1 # 1
      BY <3>1
    <3> QED BY <3>1, <3>2, <3>3
  <2>2. CASE conv[1].who # "system"
    BY <2>2 DEF AfterOpening
  <2> QED BY <2>1, <2>2
<1> HIDE DEF turns
<1>2. ASSUME NEW j \in DOMAIN turns PROVE ResponsesTurn(turns[j]) \in Seq(Allowed)
  <2>1. PICK i \in 1 .. Len(conv) : turns[j] = conv[i] /\ (i = 1 => conv[1].who # "system")
    BY <1>1
  <2>2. "responses" # "chat"
    OBVIOUS
  <2>3. conv[i] \in Turn /\ (conv[i].who = "system" => i = 1)
    BY <2>2, CarriesTurn
  <2>4. conv[i].who = "results" => \A k \in DOMAIN conv[i].calls : conv[i].calls[k] # NoCall
    BY DEF Carries
  <2> HIDE DEF NoCall
  <2> QED BY <2>1, <2>3, <2>4, TurnAllowed
<1>3. ss \in Seq(Seq(Allowed))
  <2>1. DOMAIN turns = 1 .. Len(turns) /\ Len(turns) \in Nat
    BY <1>1
  <2> QED BY <1>2, <2>1
<1> HIDE DEF ss
<1>4. input \in Seq(Allowed)
  BY <1>3, FlattenIs
<1>5. ResponsesWire(conv).input = input
  BY DEF ResponsesWire, turns, ss
<1> HIDE DEF input
<1> QED BY <1>4, <1>5 DEF AcceptsResponses, Allowed

\* What a protocol can say is not refused for the way it is said: the roles, the
\* kinds of items and the names of calls are those its parser takes
\* (parseAnthropicMessage, parseResponsesItem).
THEOREM CarriedIsAccepted ==
    ASSUME NEW r \in Requests \cup Quick, Carries(r.proto, r.conv),
           r.proto = "anthropic" => "max_tokens" \in DOMAIN r.params
    PROVE  Accepted(r)
<1> DEFINE conv == r.conv
<1>1. r.proto \in {"chat", "anthropic", "responses"} /\ conv \in Seq(Turn) /\ conv # <<>>
  BY IntakeAssumption, WrittenTyped
<1>2. CASE r.proto = "chat"
  BY <1>2 DEF Accepted
<1>3. CASE r.proto = "anthropic"
  <2>1. Carries("anthropic", conv)
    BY <1>3
  <2> HIDE DEF conv
  <2>2. \A i \in DOMAIN AnthropicWire(conv).messages :
           AnthropicWire(conv).messages[i].role \in {"user", "assistant"}
    BY <1>1, <2>1, AnthropicTold
  <2>3. AcceptsAnthropic(AnthropicWire(conv), r.params)
    BY <1>3, <2>2 DEF AcceptsAnthropic
  <2> QED BY <1>3, <2>3 DEF Accepted, conv
<1>4. CASE r.proto = "responses"
  <2>1. Carries("responses", conv)
    BY <1>4
  <2> HIDE DEF conv
  <2>2. AcceptsResponses(ResponsesWire(conv))
    BY <1>1, <2>1, WireAllowed
  <2> QED BY <1>4, <2>2 DEF Accepted, conv
<1> QED BY <1>1, <1>2, <1>3, <1>4

-----------------------------------------------------------------------------
(* The pictures of a conversation, from what is parsed to what is sent.    *)

\* The pictures of each message of a list, those that only left a mark included.
Weights(cs) == [i \in DOMAIN cs |-> Len(cs[i].images) + cs[i].deferred]

\* Weights are numbers, message by message.
LEMMA WeightsJoin ==
    /\ \A s \in Seq(Count) : /\ Weights(s) \in Seq(Int) /\ Len(Weights(s)) = Len(s)
                             /\ Len(s) \in Nat
                             /\ \A i \in 1 .. Len(s) :
                                   Weights(s)[i] = Len(s[i].images) + s[i].deferred
    /\ \A s, t \in Seq(Count) : Weights(s \o t) = Weights(s) \o Weights(t)
<1>1. ASSUME NEW s \in Seq(Count)
      PROVE  /\ Weights(s) \in Seq(Int) /\ Len(Weights(s)) = Len(s) /\ Len(s) \in Nat
             /\ Weights(s) = [i \in 1 .. Len(s) |-> Weights(s)[i]]
             /\ \A i \in 1 .. Len(s) : Weights(s)[i] = Len(s[i].images) + s[i].deferred
  <2> DEFINE w == Weights(s)
             n == Len(s)
  <2>1. n \in Nat /\ DOMAIN s = 1 .. n /\ \A i \in 1 .. n : s[i] \in Count
    OBVIOUS
  <2>2. ASSUME NEW c \in Count PROVE Len(c.images) + c.deferred \in Int
    <3>1. c.images \in Seq(Word) /\ c.deferred \in Int
      BY DEF Count, Text
    <3> DEFINE p == Len(c.images)
               q == c.deferred
    <3>2. p \in Int /\ q \in Int
      BY <3>1
    <3> HIDE DEF p, q
    <3>3. p + q \in Int
      BY <3>2
    <3> QED BY <3>3 DEF p, q
  <2>3. w = [i \in 1 .. n |-> Len(s[i].images) + s[i].deferred]
    BY <2>1 DEF Weights
  <2> HIDE DEF w, n
  <2>4. \A i \in 1 .. n : w[i] = Len(s[i].images) + s[i].deferred /\ w[i] \in Int
    BY <2>1, <2>2, <2>3
  <2>5. w = [i \in 1 .. n |-> w[i]]
    BY <2>3
  <2>6. w \in Seq(Int) /\ Len(w) = n
    BY <2>1, <2>4, <2>5
  <2> QED BY <2>1, <2>4, <2>5, <2>6 DEF w, n
<1>2. ASSUME NEW s \in Seq(Count), NEW t \in Seq(Count)
      PROVE  Weights(s \o t) = Weights(s) \o Weights(t)
  <2> DEFINE u == s \o t
             a == Weights(s)
             b == Weights(t)
             c == Weights(u)
             m == Len(s)
             n == Len(t)
             Z == Int
  <2>1. /\ m \in Nat /\ n \in Nat /\ u \in Seq(Count) /\ Len(u) = m + n
        /\ \A i \in 1 .. m : u[i] = s[i]
        /\ \A i \in 1 .. n : u[m + i] = t[i]
    OBVIOUS
  <2> HIDE DEF u
  <2>2. /\ a \in Seq(Z) /\ Len(a) = m
        /\ \A i \in 1 .. m : a[i] = Len(s[i].images) + s[i].deferred
    BY <1>1
  <2>3. /\ b \in Seq(Z) /\ Len(b) = n
        /\ \A i \in 1 .. n : b[i] = Len(t[i].images) + t[i].deferred
    BY <1>1
  <2>4. /\ c = [i \in 1 .. Len(u) |-> c[i]]
        /\ \A i \in 1 .. Len(u) : c[i] = Len(u[i].images) + u[i].deferred
    BY <1>1, <2>1
  <2> HIDE DEF a, b, c, m, n, Z
  <2>5. Ranges(c, m + n)
    BY <2>1, <2>4 DEF Ranges
  <2>6. /\ \A i \in 1 .. m : i \in 1 .. Len(u)
        /\ \A i \in 1 .. n : m + i \in 1 .. Len(u)
    BY <2>1
  <2>7. \A i \in 1 .. m : c[i] = a[i]
    BY <2>1, <2>2, <2>4, <2>6
  <2>8. \A i \in 1 .. n : c[m + i] = b[i]
    BY <2>1, <2>3, <2>4, <2>6
  <2>9. c = a \o b
    BY <2>1, <2>2, <2>3, <2>5, <2>7, <2>8, JoinedIs
  <2> QED BY <2>9 DEF a, b, c, u
<1> QED BY <1>1, <1>2

\* The pictures of a turn: those of results come once for each call.
Brings(t) == Len(t.images) * (IF t.who = "results" THEN Len(t.calls) ELSE 1)

\* Told, a turn has the pictures it brings.
LEMMA ToldWeighs ==
    ASSUME NEW t \in Turn
    PROVE  Total(Weights(Told(t))) = Brings(t)
<1> DEFINE x == Len(t.images)
           n == Len(Told(t))
           s == Weights(Told(t))
<1>1. /\ s \in Seq(Int) /\ Len(s) = n /\ n \in Nat
      /\ \A i \in 1 .. n : s[i] = Len(Told(t)[i].images) + Told(t)[i].deferred
  BY ToldIs, WeightsJoin
<1>2. x \in Nat
  BY TurnFacts DEF Text
<1>3. ASSUME NEW role, NEW id, NEW calls
      PROVE  Len(Whole(t, role, id, calls).images) + Whole(t, role, id, calls).deferred = x
  <2> DEFINE p == Len(PassedOn(t.images))
             w == Whole(t, role, id, calls)
  <2>1. p \in Nat
    BY PassedOnTyped DEF Text
  <2>2. Len(w.images) = p /\ w.deferred = x - p
    BY DEF Whole
  <2> HIDE DEF p, x, w
  <2>3. p + (x - p) = x
    BY <1>2, <2>1
  <2> QED BY <2>2, <2>3 DEF w
<1>4. \A i \in 1 .. n : s[i] = x
  <2>1. CASE t.who = "results"
    <3>1. n = Len(t.calls) /\ \A k \in 1 .. n : Told(t)[k] = Whole(t, "tool", t.calls[k], <<>>)
      BY <2>1, ToldIs
    <3> HIDE DEF x, s, n
    <3> QED BY <1>1, <1>3, <3>1
  <2>2. CASE t.who # "results"
    <3>1. Told(t) = <<Whole(t, Voice(t), NoCall, t.calls)>>
      BY <2>2, ToldIs
    <3>2. n = 1 /\ Told(t)[1] = Whole(t, Voice(t), NoCall, t.calls)
      BY <3>1
    <3>3. s[1] = Len(Told(t)[1].images) + Told(t)[1].deferred
      <4> HIDE DEF s, n
      <4> QED BY <1>1, <3>2
    <3> HIDE DEF x, s, n, NoCall
    <3>4. s[1] = x
      BY <1>3, <3>2, <3>3
    <3> QED BY <3>2, <3>4
  <2> QED BY <2>1, <2>2
<1> HIDE DEF x, s, n
<1>5. Total(s) = x * n
  BY <1>1, <1>2, <1>4, TotalOfEqual
<1>6. n = IF t.who = "results" THEN Len(t.calls) ELSE 1
  <2>1. CASE t.who = "results"
    BY <2>1, ToldIs DEF n
  <2>2. CASE t.who # "results"
    <3>1. Told(t) = <<Whole(t, Voice(t), NoCall, t.calls)>>
      BY <2>2, ToldIs
    <3> QED BY <2>2, <3>1 DEF n
  <2> QED BY <2>1, <2>2
<1> QED BY <1>5, <1>6 DEF Brings, s, x

\* Told turn by turn, a conversation has the pictures it was written with.
LEMMA CanonicalWeighs ==
    ASSUME NEW conv \in Seq(Turn)
    PROVE  Total(Weights(Canonical(conv))) = Pictures(conv)
<1> DEFINE n == Len(conv)
           s == [i \in DOMAIN conv |-> Brings(conv[i])]
<1>1. n \in Nat /\ DOMAIN conv = 1 .. n /\ \A i \in 1 .. n : conv[i] \in Turn
  OBVIOUS
<1>2. ASSUME NEW t \in Turn PROVE Brings(t) \in Int
  BY ToldIs, ToldWeighs, WeightsJoin, TotalTyped
<1>3. Pictures(conv) = Total(s)
  BY DEF Pictures, Brings
<1>4. s \in Seq(Int) /\ Len(s) = n /\ \A i \in 1 .. n : s[i] = Brings(conv[i])
  BY <1>1, <1>2
<1>5. PICK C \in [0 .. Len(conv) -> Seq(Count)] : Tells(C, conv)
  BY TellsExists
<1> HIDE DEF s
<1>6. PICK F \in [0 .. Len(s) -> Int] : Sums(F, s)
  BY <1>4, SumsExist
<1> DEFINE T == {k \in 0 .. n : Total(Weights(C[k])) = F[k]}
<1>7. 0 \in T
  <2>1. C[0] = <<>> /\ F[0] = 0 /\ 0 \in 0 .. n
    BY <1>1, <1>5, <1>6 DEF Tells, Sums
  <2>2. Weights(<<>>) = <<>>
    BY DEF Weights
  <2> QED BY <2>1, <2>2, TotalOne
<1>8. ASSUME NEW k \in 1 .. n, k - 1 \in T PROVE k \in T
  <2>1. k \in 0 .. n /\ k - 1 \in 0 .. n /\ Total(Weights(C[k - 1])) = F[k - 1]
    BY <1>8
  <2>2. C[k] = C[k - 1] \o Told(conv[k])
    BY <1>5 DEF Tells
  <2>3. C[k - 1] \in Seq(Count) /\ Told(conv[k]) \in Seq(Count)
    BY <1>1, <1>5, <2>1, ToldIs
  <2> DEFINE a == Weights(C[k - 1])
             b == Weights(Told(conv[k]))
  <2>4. Weights(C[k]) = a \o b /\ a \in Seq(Int) /\ b \in Seq(Int)
    BY <2>2, <2>3, WeightsJoin
  <2>5. Total(b) = s[k]
    BY <1>1, <1>4, ToldWeighs
  <2>6. Total(a) = F[k - 1]
    BY <2>1
  <2> HIDE DEF a, b
  <2>7. Total(a \o b) = Total(a) + Total(b)
    BY <2>4, TotalsJoin
  <2>8. F[k] = F[k - 1] + s[k]
    BY <1>4, <1>6 DEF Sums
  <2>9. Total(Weights(C[k])) = F[k]
    BY <2>4, <2>5, <2>6, <2>7, <2>8
  <2> QED BY <2>1, <2>9
<1>9. n \in T
  <2>1. n \in 0 .. n
    BY <1>1
  <2> HIDE DEF T, n
  <2> QED BY <1>1, <1>7, <1>8, <2>1, UpTo
<1>10. C[n] = Canonical(conv) /\ F[n] = Total(s)
  BY <1>4, <1>5, <1>6 DEF Tells, Sums
<1> QED BY <1>3, <1>9, <1>10

\* Words that are no marks.
Quiet == Word \ PictureMarks

\* A conversation of such words is told in such words.
LEMMA CanonicalQuiet ==
    ASSUME NEW conv \in Seq(Turn), Unmarked(conv)
    PROVE  \A j \in DOMAIN Canonical(conv) : Canonical(conv)[j].text \in Seq(Quiet)
<1> DEFINE n == Len(conv)
           Still(cs) == \A j \in 1 .. Len(cs) : cs[j].text \in Seq(Quiet)
<1>1. n \in Nat /\ DOMAIN conv = 1 .. n /\ \A i \in 1 .. n : conv[i] \in Turn
  OBVIOUS
<1>2. ASSUME NEW i \in 1 .. n PROVE conv[i].text \in Seq(Quiet)
  <2> DEFINE x == conv[i].text
  <2>1. x \in Seq(Word)
    BY <1>1, TurnFacts DEF Text
  <2>2. \A j \in DOMAIN x : x[j] \notin PictureMarks
    BY <1>1 DEF Unmarked, Has
  <2> HIDE DEF x
  <2>3. x = [j \in 1 .. Len(x) |-> x[j]] /\ Len(x) \in Nat /\ DOMAIN x = 1 .. Len(x)
        /\ \A j \in 1 .. Len(x) : x[j] \in Word
    BY <2>1
  <2>4. \A j \in 1 .. Len(x) : x[j] \in Quiet
    BY <2>2, <2>3 DEF Quiet
  <2>5. x \in Seq(Quiet)
    BY <2>3, <2>4
  <2> QED BY <2>5 DEF x
<1>3. ASSUME NEW i \in 1 .. n PROVE Still(Told(conv[i]))
  <2> DEFINE t == conv[i]
  <2>1. t \in Turn /\ t.text \in Seq(Quiet)
    BY <1>1, <1>2
  <2> HIDE DEF t
  <2>2. \A role, id, calls : Whole(t, role, id, calls).text \in Seq(Quiet)
    BY <2>1 DEF Whole
  <2>3. CASE t.who = "results"
    <3>1. /\ Len(Told(t)) = Len(t.calls)
          /\ \A k \in 1 .. Len(t.calls) : Told(t)[k] = Whole(t, "tool", t.calls[k], <<>>)
      BY <2>1, <2>3, ToldIs
    <3> QED BY <2>2, <3>1 DEF t
  <2>4. CASE t.who # "results"
    <3>1. Told(t) = <<Whole(t, Voice(t), NoCall, t.calls)>>
      BY <2>1, <2>4, ToldIs
    <3> DEFINE w == Whole(t, Voice(t), NoCall, t.calls)
    <3>2. w.text \in Seq(Quiet) /\ Told(t) = <<w>>
      BY <2>2, <3>1
    <3> HIDE DEF w
    <3> QED BY <3>2 DEF t
  <2> QED BY <2>3, <2>4
<1>4. PICK C \in [0 .. Len(conv) -> Seq(Count)] : Tells(C, conv)
  BY TellsExists
<1> DEFINE T == {k \in 0 .. n : Still(C[k])}
<1>5. 0 \in T
  <2>1. C[0] = <<>> /\ 0 \in 0 .. n
    BY <1>1, <1>4 DEF Tells
  <2> QED BY <2>1
<1>6. ASSUME NEW k \in 1 .. n, k - 1 \in T PROVE k \in T
  <2> DEFINE a == C[k - 1]
             b == Told(conv[k])
  <2>1. k \in 0 .. n /\ k - 1 \in 0 .. n /\ Still(a) /\ Still(b)
    BY <1>3, <1>6
  <2>2. C[k] = a \o b
    BY <1>4 DEF Tells
  <2>3. a \in Seq(Count) /\ b \in Seq(Count)
    BY <1>1, <1>4, <2>1, ToldIs
  <2>4. /\ \A j \in 1 .. Len(a) : a[j].text \in Seq(Quiet)
        /\ \A j \in 1 .. Len(b) : b[j].text \in Seq(Quiet)
    BY <2>1
  <2> HIDE DEF a, b
  <2>5. /\ Len(a) \in Nat /\ Len(b) \in Nat /\ Len(a \o b) = Len(a) + Len(b)
        /\ \A j \in 1 .. Len(a) : (a \o b)[j] = a[j]
        /\ \A j \in 1 .. Len(b) : (a \o b)[Len(a) + j] = b[j]
    BY <2>3
  <2>6. ASSUME NEW j \in 1 .. Len(a \o b) PROVE (a \o b)[j].text \in Seq(Quiet)
    <3>1. CASE j \in 1 .. Len(a)
      BY <2>4, <2>5, <3>1
    <3>2. CASE j \notin 1 .. Len(a)
      <4> DEFINE i == j - Len(a)
      <4>1. i \in 1 .. Len(b) /\ j = Len(a) + i
        BY <2>5, <3>2
      <4> HIDE DEF i
      <4> QED BY <2>4, <2>5, <4>1
    <3> QED BY <3>1, <3>2
  <2> QED BY <2>1, <2>2, <2>6
<1>7. n \in T
  <2>1. n \in 0 .. n
    BY <1>1
  <2> HIDE DEF T, n
  <2> QED BY <1>1, <1>5, <1>6, <2>1, UpTo
<1>8. Canonical(conv) = C[n] /\ C[n] \in Seq(Count) /\ Still(C[n])
  <2>1. n \in 0 .. n
    BY <1>1
  <2> QED BY <1>4, <1>7, <2>1 DEF Tells
<1>9. DOMAIN C[n] = 1 .. Len(C[n])
  BY <1>8
<1> QED BY <1>8, <1>9

\* The same of a list of messages.
PicturesOf(ms) == [i \in DOMAIN ms |-> Len(ms[i].images) + Marks(ms[i].deferred)]

\* Parsed, a conversation has the pictures it was written with, and says no mark
\* that it does not hold.
LEMMA ParsedPictures ==
    ASSUME NEW conv \in Seq(Turn), NEW ms \in Messages, Counts(ms) = Canonical(conv)
    PROVE  /\ Total(PicturesOf(ms)) = Pictures(conv)
           /\ Unmarked(conv) => \A i \in DOMAIN ms : ms[i].text \in Seq(Quiet)
<1> DEFINE cs == Counts(ms)
<1>1. DOMAIN cs = DOMAIN ms /\ \A i \in DOMAIN ms : cs[i] = Counted(ms[i]) /\ ms[i] \in Message
  BY DEF Counts, Messages
<1>2. \A m \in Message : /\ Counted(m).images = m.images /\ Counted(m).text = m.text
                         /\ Counted(m).deferred = Marks(m.deferred)
  BY DEF Counted, Message
<1> HIDE DEF cs
<1>3. Weights(cs) = PicturesOf(ms)
  BY <1>1, <1>2 DEF Weights, PicturesOf
<1>4. cs = Canonical(conv)
  BY DEF cs
<1>5. Total(PicturesOf(ms)) = Pictures(conv)
  BY <1>3, <1>4, CanonicalWeighs
<1>6. ASSUME Unmarked(conv), NEW i \in DOMAIN ms PROVE ms[i].text \in Seq(Quiet)
  <2>1. cs[i].text = ms[i].text
    BY <1>1, <1>2
  <2> QED BY <1>1, <1>4, <1>6, <2>1, CanonicalQuiet
<1> QED BY <1>5, <1>6

\* A list of messages with the same pictures and no new marks.
SameMedia(ms, out) ==
    /\ out \in Messages /\ DOMAIN out = DOMAIN ms
    /\ \A i \in DOMAIN ms : /\ out[i].images = ms[i].images /\ out[i].deferred = ms[i].deferred
                            /\ ms[i].text \in Seq(Quiet) => out[i].text \in Seq(Quiet)

\* The words that the code itself writes, but for pictures, are no marks.
LEMMA QuietWords ==
    /\ "[cut]" \in Quiet /\ "t~rigger" \in Quiet /\ "c~laude" \in Quiet /\ "[neutral]" \in Quiet
    /\ "[assistant]" \in Quiet /\ "[tools]" \in Quiet /\ Quiet \subseteq Word
    /\ Seq(Quiet) \subseteq Text
<1>1. /\ "[cut]" \in Quiet /\ "t~rigger" \in Quiet /\ "c~laude" \in Quiet /\ "[neutral]" \in Quiet
      /\ "[assistant]" \in Quiet /\ "[tools]" \in Quiet
  BY MarksAreWords DEF Quiet, PictureMarks
<1>2. Quiet \subseteq Word
  BY DEF Quiet
<1>3. Seq(Quiet) \subseteq Text
  BY <1>2, SeqMonotonic DEF Text
<1> QED BY <1>1, <1>2, <1>3

\* A text cut short, or sanitised, has no new marks.
LEMMA CutQuiet ==
    ASSUME NEW text \in Seq(Quiet), NEW limit \in Nat
    PROVE  TruncateText(text, limit) \in Seq(Quiet)
<1>1. text \in Text
  BY QuietWords
<1>2. CASE TruncateText(text, limit) = text
  BY <1>2
<1>3. ASSUME NEW k \in 0 .. Len(text),
             TruncateText(text, limit) = Append(SubSeq(text, 1, k), "[cut]")
      PROVE  TruncateText(text, limit) \in Seq(Quiet)
  <2>1. SubSeq(text, 1, k) \in Seq(Quiet)
    OBVIOUS
  <2> DEFINE x == SubSeq(text, 1, k)
  <2>2. x \in Seq(Quiet) /\ "[cut]" \in Quiet
    BY <2>1, QuietWords
  <2> HIDE DEF x
  <2>3. Append(x, "[cut]") \in Seq(Quiet)
    BY <2>2
  <2> QED BY <1>3, <2>3 DEF x
<1> QED BY <1>1, <1>2, <1>3, TruncateTyped

\* Sanitised, it has no new marks either.
LEMMA CleanQuiet ==
    ASSUME NEW text \in Seq(Quiet)
    PROVE  SanitizeText(text) \in Seq(Quiet)
<1> DEFINE Clean(w) == CASE w = "trigger" -> <<"t~rigger">>
                         [] w = "claude"  -> <<"c~laude">>
                         [] w = "print"   -> <<>>
                         [] w = "harness" -> <<"[neutral]">>
                         [] OTHER         -> <<w>>
           clean == FlattenSeq([i \in DOMAIN text |-> Clean(text[i])])
<1>0. <<>> \in Seq(Quiet) /\ \A w \in Quiet : <<w>> \in Seq(Quiet)
  OBVIOUS
<1>1. \A w \in Quiet : Clean(w) \in Seq(Quiet)
  BY <1>0, QuietWords
<1>2. SanitizeText(text) = IF Has(clean, {"claude", "codex"}) THEN <<"[assistant]">> ELSE clean
  BY DEF SanitizeText
<1> HIDE DEF Clean
<1>3. [i \in DOMAIN text |-> Clean(text[i])] \in Seq(Seq(Quiet))
  <2>1. Len(text) \in Nat /\ DOMAIN text = 1 .. Len(text)
    OBVIOUS
  <2>2. \A i \in DOMAIN text : Clean(text[i]) \in Seq(Quiet)
    BY <1>1
  <2> QED BY <2>1, <2>2
<1>4. clean \in Seq(Quiet)
  BY <1>3, FlattenIs
<1> HIDE DEF clean
<1>5. <<"[assistant]">> \in Seq(Quiet)
  BY <1>0, QuietWords
<1> QED BY <1>2, <1>4, <1>5

\* Neither projecting a conversation that is not condensed nor sanitising it
\* touches a picture (projectConservative, sanitizeRequest).
LEMMA CutsMedia ==
    ASSUME NEW ms \in Messages
    PROVE  SameMedia(ms, ProjectConservative(ms))
<1> DEFINE Cut(m) == [m EXCEPT !.text = TruncateText(m.text, Limit(m.role))]
           out == ProjectConservative(ms)
<1>1. ASSUME NEW m \in Message
      PROVE  /\ Cut(m).images = m.images /\ Cut(m).deferred = m.deferred
             /\ m.text \in Seq(Quiet) => Cut(m).text \in Seq(Quiet)
  <2>1. /\ Cut(m).images = m.images /\ Cut(m).deferred = m.deferred
        /\ Cut(m).text = TruncateText(m.text, Limit(m.role))
    BY DEF Message
  <2>2. Limit(m.role) \in Nat
    BY LimitIs
  <2> QED BY <2>1, <2>2, CutQuiet
<1>2. out = [i \in DOMAIN ms |-> Cut(ms[i])]
  BY DEF ProjectConservative
<1> HIDE DEF Cut
<1>3. \A i \in DOMAIN ms : ms[i] \in Message
  BY DEF Messages
<1>4. out \in Messages
  BY ConservativeKeeps
<1> HIDE DEF out
<1>5. DOMAIN out = DOMAIN ms /\ \A i \in DOMAIN ms : out[i] = Cut(ms[i])
  BY <1>2
<1>6. SameMedia(ms, out)
  BY <1>1, <1>3, <1>4, <1>5 DEF SameMedia
<1> QED BY <1>6 DEF out

\* Nor does sanitising it.
LEMMA CleansMedia ==
    ASSUME NEW ms \in Messages, NEW harnessUser
    PROVE  SameMedia(ms, SanitizeRequest(ms, harnessUser))
<1> DEFINE Clean(m) == [m EXCEPT !.text = SanitizeText(m.text)]
           In(m) == IsSystem(m) \/ (m.role = "user" /\ harnessUser /\ IsHarnessText(m.text))
           out == SanitizeRequest(ms, harnessUser)
<1>1. ASSUME NEW m \in Message
      PROVE  /\ Clean(m).images = m.images /\ Clean(m).deferred = m.deferred
             /\ m.text \in Seq(Quiet) => Clean(m).text \in Seq(Quiet)
  <2>1. /\ Clean(m).images = m.images /\ Clean(m).deferred = m.deferred
        /\ Clean(m).text = SanitizeText(m.text)
    BY DEF Message
  <2> QED BY <2>1, CleanQuiet
<1>2. out = [i \in DOMAIN ms |-> IF In(ms[i]) THEN Clean(ms[i]) ELSE ms[i]]
  BY DEF SanitizeRequest
<1> HIDE DEF Clean, In
<1>3. \A i \in DOMAIN ms : ms[i] \in Message
  BY DEF Messages
<1>4. out \in Messages
  BY SanitizeIs
<1> HIDE DEF out
<1>5. DOMAIN out = DOMAIN ms /\ \A i \in DOMAIN ms : out[i] = Clean(ms[i]) \/ out[i] = ms[i]
  BY <1>2
<1>6. SameMedia(ms, out)
  BY <1>1, <1>3, <1>4, <1>5 DEF SameMedia
<1> QED BY <1>6 DEF out

\* What is kept is no more than there was.
LEMMA KeptFewer ==
    ASSUME NEW A, NEW s \in Seq(A), NEW I \in SUBSET (1 .. Len(s))
    PROVE  Keep(s, I) \in Seq(A) /\ Len(Keep(s, I)) \in 0 .. Len(s)
<1> DEFINE n == Len(s)
<1>0. n \in Nat /\ \A k \in 1 .. n : s[k] \in A
  OBVIOUS
<1>1. PICK F \in [0 .. Len(s) -> Seq(A)] : Filters(F, Len(s), s, I)
  BY FiltersExist
<1> DEFINE T == {k \in 0 .. n : Len(F[k]) \in 0 .. k}
<1>2. 0 \in T
  <2>1. F[0] = <<>> /\ 0 \in 0 .. n
    BY <1>0, <1>1 DEF Filters
  <2> QED BY <2>1
<1>3. ASSUME NEW k \in 1 .. n, k - 1 \in T PROVE k \in T
  <2>1. k \in 0 .. n /\ k - 1 \in 0 .. n /\ Len(F[k - 1]) \in 0 .. (k - 1) /\ s[k] \in A
    BY <1>0, <1>3
  <2>2. F[k] = Append(F[k - 1], s[k]) \/ F[k] = F[k - 1]
    BY <1>1 DEF Filters
  <2> DEFINE a == F[k - 1]
  <2>3. a \in Seq(A) /\ Len(a) \in 0 .. (k - 1)
    BY <1>1, <2>1
  <2>4. F[k] = Append(a, s[k]) \/ F[k] = a
    BY <2>2
  <2> HIDE DEF a, n
  <2>5. Len(Append(a, s[k])) = Len(a) + 1
    BY <2>1, <2>3
  <2>6. Len(F[k]) = Len(a) + 1 \/ Len(F[k]) = Len(a)
    BY <2>4, <2>5
  <2>7. Len(F[k]) \in 0 .. k
    BY <2>3, <2>6
  <2> QED BY <2>1, <2>7
<1>4. n \in T
  <2>1. n \in 0 .. n
    BY <1>0
  <2> HIDE DEF T, n
  <2> QED BY <1>0, <1>2, <1>3, <2>1, UpTo
<1>5. F[n] = Keep(s, I) /\ F[n] \in Seq(A)
  <2>1. n \in 0 .. n
    BY <1>0
  <2> QED BY <1>1, <2>1 DEF Filters
<1> QED BY <1>4, <1>5

\* Rendered, a picture is passed on or a mark of the text, and so is what was
\* only a mark before (renderMedia).
LEMMA MediaFound ==
    ASSUME NEW m \in Message, NEW mode
    PROVE  /\ Len(RenderMedia(m, mode).images) + Marks(RenderMedia(m, mode).text)
                = (Len(m.images) + Marks(m.deferred)) + Marks(m.text)
           /\ mode # "passthrough" => RenderMedia(m, mode).images = <<>>
<1> DEFINE I == {i \in DOMAIN m.images : m.images[i] # "dead"}
           kept == IF mode = "passthrough" THEN Keep(m.images, I) ELSE <<>>
           lost == IF mode = "passthrough"
                   THEN [i \in 1 .. (Len(m.images) - Len(kept)) |-> "[unreachable]"]
                   ELSE [i \in DOMAIN m.images |-> "[image]"]
           images == [i \in DOMAIN kept |-> "data"]
           text == m.text \o m.deferred \o lost
           out == [m EXCEPT !.images = images, !.deferred = <<>>, !.text = text]
           n == Len(m.images)
<1>0. /\ m.images \in Seq(Word) /\ m.text \in Text /\ m.deferred \in Text
      /\ n \in Nat /\ DOMAIN m.images = 1 .. n
  BY DEF Message, Text
<1>1. RenderMedia(m, mode) = out
  BY DEF RenderMedia
<1>2. out.images = images /\ out.text = text
  BY DEF Message
<1>3. kept \in Seq(Word) /\ Len(kept) \in 0 .. n /\ (mode # "passthrough" => kept = <<>>)
  <2>1. I \in SUBSET (1 .. Len(m.images))
    BY <1>0
  <2> HIDE DEF I
  <2>2. Keep(m.images, I) \in Seq(Word) /\ Len(Keep(m.images, I)) \in 0 .. n
    BY <1>0, <2>1, KeptFewer
  <2> HIDE DEF n
  <2>3. <<>> \in Seq(Word) /\ Len(<<>>) \in 0 .. n
    BY <1>0
  <2> QED BY <2>2, <2>3
<1> HIDE DEF kept
<1>4. Len(images) = Len(kept) /\ (kept = <<>> => images = <<>>)
  <2>1. DOMAIN kept = 1 .. Len(kept) /\ Len(kept) \in Nat
    BY <1>3
  <2>2. Len(images) = Len(kept)
    BY <2>1
  <2> QED BY <2>2
<1>5. lost \in Text /\ Marks(lost) = n - Len(kept)
  <2> DEFINE k == n - Len(kept)
  <2>0. k \in Nat
    <3> DEFINE q == Len(kept)
    <3>1. q \in 0 .. n /\ n \in Nat
      BY <1>0, <1>3
    <3> HIDE DEF q, n
    <3>2. n - q \in Nat
      BY <3>1
    <3> QED BY <3>2 DEF q, n
  <2>1. CASE mode = "passthrough"
    <3>1. lost = [i \in 1 .. k |-> "[unreachable]"]
      BY <2>1
    <3> HIDE DEF k, lost
    <3>2. [i \in 1 .. k |-> "[unreachable]"] \in Text
      BY <2>0, MarksAreWords, RepeatTyped
    <3>3. Len(lost) = k /\ \A i \in DOMAIN lost : lost[i] = "[unreachable]"
      BY <2>0, <3>1
    <3>4. Marks(lost) = Len(lost)
      BY <3>1, <3>2, <3>3, MarksOf, MarkLeft
    <3> QED BY <3>1, <3>2, <3>3, <3>4 DEF k
  <2>2. CASE mode # "passthrough"
    <3>1. lost = [i \in 1 .. n |-> "[image]"]
      BY <1>0, <2>2
    <3>2. k = n
      <4>1. Len(kept) = 0
        BY <1>3, <2>2
      <4> HIDE DEF n
      <4> QED BY <1>0, <4>1
    <3> HIDE DEF k, lost, n
    <3>3. [i \in 1 .. n |-> "[image]"] \in Text
      BY <1>0, MarksAreWords, RepeatTyped
    <3>4. Len(lost) = n /\ \A i \in DOMAIN lost : lost[i] = "[image]"
      BY <1>0, <3>1
    <3>5. Marks(lost) = Len(lost)
      BY <3>1, <3>3, <3>4, MarksOf, MarkLeft
    <3> QED BY <3>1, <3>2, <3>3, <3>4, <3>5 DEF k
  <2> QED BY <2>1, <2>2
<1> HIDE DEF images, lost
<1>6. Marks(text) = (Marks(m.text) + Marks(m.deferred)) + Marks(lost)
  <2>1. m.text \o m.deferred \in Text /\ Marks(m.text \o m.deferred) = Marks(m.text) + Marks(m.deferred)
    BY <1>0, MarksAdd, TextFacts
  <2> QED BY <1>5, <2>1, MarksAdd
<1>7. Len(images) + Marks(text) = (n + Marks(m.deferred)) + Marks(m.text)
  <2> DEFINE q == Len(kept)
             a == Marks(m.text)
             b == Marks(m.deferred)
  <2>1. q \in Int /\ a \in Int /\ b \in Int /\ n \in Int
    BY <1>0, <1>3, MarksAdd
  <2>2. Len(images) = q /\ Marks(text) = (a + b) + (n - q)
    BY <1>4, <1>5, <1>6
  <2> HIDE DEF q, a, b, n, text
  <2>3. q + ((a + b) + (n - q)) = (n + b) + a
    BY <2>1
  <2> QED BY <2>2, <2>3 DEF a, b
<1>8. mode # "passthrough" => images = <<>>
  BY <1>3, <1>4
<1> HIDE DEF text
<1> QED BY <1>1, <1>2, <1>7, <1>8

\* The pictures and marks of a message, and of each message of a list.
Holds(m) == Len(m.images) + Marks(m.text)
Showing(ms) == [i \in DOMAIN ms |-> Holds(ms[i])]

\* They are numbers.
LEMMA HoldsTyped ==
    ASSUME NEW m \in Message
    PROVE  /\ Len(m.images) \in Nat /\ Marks(m.text) \in Nat /\ Marks(m.deferred) \in Nat
           /\ Holds(m) \in Nat
           /\ m.images = <<>> => Holds(m) = Marks(m.text)
<1>1. m.images \in Text /\ m.text \in Text /\ m.deferred \in Text
  BY DEF Message
<1> DEFINE p == Len(m.images)
           q == Marks(m.text)
<1>2. p \in Nat /\ (m.images = <<>> => p = 0)
  BY <1>1 DEF Text
<1>3. q \in Nat /\ Marks(m.deferred) \in Nat
  BY <1>1, MarksAdd
<1>4. Holds(m) = p + q
  BY DEF Holds
<1> HIDE DEF p, q
<1>5. p + q \in Nat /\ 0 + q = q
  BY <1>2, <1>3
<1> QED BY <1>2, <1>3, <1>4, <1>5 DEF p, q

\* ... message by message.
LEMMA ShowingIs ==
    ASSUME NEW ms \in Messages
    PROVE  /\ Showing(ms) \in Seq(Nat) /\ Showing(ms) \in Seq(Int)
           /\ Len(Showing(ms)) = Len(ms) /\ Len(ms) \in Nat /\ DOMAIN ms = 1 .. Len(ms)
           /\ Ranges(Showing(ms), Len(ms))
           /\ \A i \in 1 .. Len(ms) : Showing(ms)[i] = Holds(ms[i]) /\ ms[i] \in Message
           /\ Found(ms) = Total(Showing(ms))
<1> DEFINE s == Showing(ms)
           n == Len(ms)
<1>1. n \in Nat /\ DOMAIN ms = 1 .. n /\ \A i \in 1 .. n : ms[i] \in Message
  BY DEF Messages
<1>2. \A i \in 1 .. n : Holds(ms[i]) \in Nat
  BY <1>1, HoldsTyped
<1>3. s = [i \in 1 .. n |-> Holds(ms[i])]
  BY <1>1 DEF Showing
<1>4. Found(ms) = Total(s)
  BY DEF Found, Showing, Holds
<1> HIDE DEF s, n
<1>5. s \in Seq(Nat) /\ s \in Seq(Int) /\ Len(s) = n /\ \A i \in 1 .. n : s[i] = Holds(ms[i])
  BY <1>1, <1>2, <1>3
<1>6. Ranges(s, n)
  BY <1>3 DEF Ranges
<1> QED BY <1>1, <1>4, <1>5, <1>6 DEF s, n

\* What a list holds is a number.
LEMMA FoundTyped == \A ms \in Messages : Found(ms) \in Nat
BY ShowingIs, TotalOfNat

\* Lists that hold the same, message by message, hold the same.
LEMMA FoundSame ==
    ASSUME NEW ms \in Messages, NEW out \in Messages, DOMAIN out = DOMAIN ms,
           \A i \in DOMAIN ms : Holds(out[i]) = Holds(ms[i])
    PROVE  Found(out) = Found(ms)
<1>1. Showing(out) = Showing(ms)
  BY DEF Showing
<1> QED BY <1>1, ShowingIs

\* What two lists hold is held when they are joined.
LEMMA FoundJoin ==
    ASSUME NEW a \in Messages, NEW b \in Messages
    PROVE  Found(a \o b) = Found(a) + Found(b) /\ a \o b \in Messages
<1> DEFINE u == a \o b
           x == Showing(a)
           y == Showing(b)
           z == Showing(u)
           m == Len(a)
           n == Len(b)
           Z == Int
<1>1. /\ m \in Nat /\ n \in Nat /\ u \in Messages /\ Len(u) = m + n
      /\ \A i \in 1 .. m : u[i] = a[i]
      /\ \A i \in 1 .. n : u[m + i] = b[i]
  BY DEF Messages
<1> HIDE DEF u
<1>2. x \in Seq(Z) /\ Len(x) = m /\ Total(x) = Found(a) /\ \A i \in 1 .. m : x[i] = Holds(a[i])
  BY ShowingIs
<1>3. y \in Seq(Z) /\ Len(y) = n /\ Total(y) = Found(b) /\ \A i \in 1 .. n : y[i] = Holds(b[i])
  BY ShowingIs
<1>4. /\ Ranges(z, Len(u)) /\ Total(z) = Found(u)
      /\ \A i \in 1 .. Len(u) : z[i] = Holds(u[i])
  BY <1>1, ShowingIs
<1> HIDE DEF x, y, z, m, n
<1>5. Total(x \o y) = Total(x) + Total(y)
  BY <1>2, <1>3, TotalsJoin DEF Z
<1> HIDE DEF Z
<1>6. Ranges(z, m + n)
  BY <1>1, <1>4
<1>7. /\ \A i \in 1 .. m : i \in 1 .. Len(u)
      /\ \A i \in 1 .. n : m + i \in 1 .. Len(u)
  BY <1>1
<1>8. \A i \in 1 .. m : z[i] = x[i]
  BY <1>1, <1>2, <1>4, <1>7
<1>9. \A i \in 1 .. n : z[m + i] = y[i]
  BY <1>1, <1>3, <1>4, <1>7
<1>10. z = x \o y
  BY <1>1, <1>2, <1>3, <1>6, <1>8, <1>9, JoinedIs
<1> QED BY <1>1, <1>2, <1>3, <1>4, <1>5, <1>10 DEF u

\* Nothing holds nothing, and one more message what it holds.
LEMMA FoundOneMore ==
    /\ Found(<<>>) = 0
    /\ \A a \in Messages, m \in Message : /\ Append(a, m) \in Messages
                                          /\ Found(Append(a, m)) = Found(a) + Holds(m)
<1>1. Found(<<>>) = 0
  <2>1. <<>> \in Messages /\ Showing(<<>>) = <<>>
    BY DEF Messages, Showing
  <2> QED BY <2>1, ShowingIs, TotalOne
<1>2. ASSUME NEW a \in Messages, NEW m \in Message
      PROVE  Append(a, m) \in Messages /\ Found(Append(a, m)) = Found(a) + Holds(m)
  <2>1. <<m>> \in Messages /\ Append(a, m) = a \o <<m>>
    BY DEF Messages
  <2>2. Found(<<m>>) = Holds(m)
    <3>1. Showing(<<m>>) = <<Holds(m)>> /\ Holds(m) \in Int
      BY HoldsTyped DEF Showing
    <3>2. Total(<<Holds(m)>>) = Holds(m)
      BY <3>1, TotalOne
    <3> QED BY <2>1, <3>1, <3>2, ShowingIs
  <2> QED BY <2>1, <2>2, FoundJoin
<1> QED BY <1>1, <1>2

\* A list holds what is kept of it and what is not.
LEMMA KeepFound ==
    ASSUME NEW ms \in Messages, NEW I \in SUBSET DOMAIN ms
    PROVE  Found(Keep(ms, I)) + Found(Keep(ms, DOMAIN ms \ I)) = Found(ms)
<1> DEFINE n == Len(ms)
           J == DOMAIN ms \ I
           s == Showing(ms)
<1>1. /\ n \in Nat /\ ms \in Seq(Message) /\ I \in SUBSET (1 .. Len(ms)) /\ J \in SUBSET (1 .. Len(ms))
      /\ \A k \in 1 .. n : (k \in I <=> k \notin J) /\ ms[k] \in Message
  BY DEF Messages
<1>2. s \in Seq(Int) /\ Len(s) = n /\ Total(s) = Found(ms) /\ \A k \in 1 .. n : s[k] = Holds(ms[k])
  BY ShowingIs
<1> HIDE DEF J, s
<1>3. PICK F \in [0 .. Len(ms) -> Seq(Message)] : Filters(F, Len(ms), ms, I)
  BY <1>1, FiltersExist
<1>4. PICK G \in [0 .. Len(ms) -> Seq(Message)] : Filters(G, Len(ms), ms, J)
  BY <1>1, FiltersExist
<1>5. PICK H \in [0 .. Len(s) -> Int] : Sums(H, s)
  BY <1>2, SumsExist
<1> DEFINE T == {k \in 0 .. n : Found(F[k]) + Found(G[k]) = H[k]}
<1>6. 0 \in T
  <2>1. F[0] = <<>> /\ G[0] = <<>> /\ H[0] = 0 /\ 0 \in 0 .. n
    BY <1>1, <1>3, <1>4, <1>5 DEF Filters, Sums
  <2> QED BY <2>1, FoundOneMore
<1>7. ASSUME NEW k \in 1 .. n, k - 1 \in T PROVE k \in T
  <2> DEFINE a == F[k - 1]
             b == G[k - 1]
             m == ms[k]
  <2>1. k \in 0 .. n /\ k - 1 \in 0 .. n /\ Found(a) + Found(b) = H[k - 1] /\ m \in Message
    BY <1>1, <1>7
  <2>2. a \in Messages /\ b \in Messages
    BY <1>3, <1>4, <2>1 DEF Messages
  <2>3. F[k] = IF k \in I THEN Append(a, m) ELSE a
    BY <1>3 DEF Filters
  <2>4. G[k] = IF k \in J THEN Append(b, m) ELSE b
    BY <1>4 DEF Filters
  <2>5. H[k] = H[k - 1] + Holds(m)
    BY <1>2, <1>5 DEF Sums
  <2> HIDE DEF a, b, m
  <2>6. /\ Found(a) \in Nat /\ Found(b) \in Nat /\ Holds(m) \in Nat
        /\ Found(Append(a, m)) = Found(a) + Holds(m)
        /\ Found(Append(b, m)) = Found(b) + Holds(m)
    BY <2>1, <2>2, FoundTyped, FoundOneMore, HoldsTyped
  <2>7. Found(F[k]) + Found(G[k]) = H[k]
    <3>1. CASE k \in I
      <4>1. F[k] = Append(a, m) /\ G[k] = b
        BY <1>1, <2>3, <2>4, <3>1
      <4> QED BY <2>1, <2>5, <2>6, <4>1
    <3>2. CASE k \notin I
      <4>1. F[k] = a /\ G[k] = Append(b, m)
        BY <1>1, <2>3, <2>4, <3>2
      <4> QED BY <2>1, <2>5, <2>6, <4>1
    <3> QED BY <3>1, <3>2
  <2> QED BY <2>1, <2>7
<1>8. n \in T
  <2>1. n \in 0 .. n
    BY <1>1
  <2> HIDE DEF T, n
  <2> QED BY <1>1, <1>6, <1>7, <2>1, UpTo
<1>9. F[n] = Keep(ms, I) /\ G[n] = Keep(ms, J) /\ H[n] = Total(s)
  BY <1>2, <1>3, <1>4, <1>5 DEF Filters, Sums
<1> QED BY <1>2, <1>8, <1>9 DEF J

-----------------------------------------------------------------------------
(* From what is parsed to what is sent.                                    *)

\* A list holds every picture that another was parsed with, and nothing else
\* unless the other says marks itself.
Accounts(out, ms) ==
    /\ Found(out) >= Total(PicturesOf(ms))
    /\ (\A i \in DOMAIN ms : ms[i].text \in Seq(Quiet)) => Found(out) = Total(PicturesOf(ms))

\* Rendered message by message, every picture is accounted for.
LEMMA RenderedFound ==
    ASSUME NEW ms \in Messages, NEW clean, SameMedia(ms, clean), NEW mode, NEW out \in Messages,
           DOMAIN out = DOMAIN clean,
           \A i \in DOMAIN clean : out[i] = RenderMedia(clean[i], mode)
    PROVE  Accounts(out, ms)
<1> DEFINE n == Len(ms)
           u == PicturesOf(ms)
           v == [i \in 1 .. n |-> Marks(clean[i].text)]
           s == Showing(out)
<1>1. n \in Nat /\ DOMAIN ms = 1 .. n /\ \A i \in 1 .. n : ms[i] \in Message
  BY ShowingIs
<1>2. /\ clean \in Messages /\ DOMAIN clean = 1 .. n
      /\ \A i \in 1 .. n : clean[i].images = ms[i].images /\ clean[i].deferred = ms[i].deferred
  BY <1>1 DEF SameMedia
<1>3. \A i \in 1 .. n : clean[i] \in Message
  BY <1>2, ShowingIs
<1>4. ASSUME NEW m \in Message PROVE Len(m.images) + Marks(m.deferred) \in Int
  <2> DEFINE p == Len(m.images)
             q == Marks(m.deferred)
  <2>1. p \in Nat /\ q \in Nat
    BY HoldsTyped
  <2> HIDE DEF p, q
  <2>2. p + q \in Int
    BY <2>1
  <2> QED BY <2>2 DEF p, q
<1>5. u \in [1 .. n -> Int] /\ \A i \in 1 .. n : u[i] = Len(ms[i].images) + Marks(ms[i].deferred)
  <2>1. u = [i \in 1 .. n |-> Len(ms[i].images) + Marks(ms[i].deferred)]
    BY <1>1 DEF PicturesOf
  <2> HIDE DEF u, n
  <2> QED BY <1>1, <1>4, <2>1
<1>6. v \in [1 .. n -> Int] /\ v \in Seq(Nat) /\ Len(v) = n /\ \A i \in 1 .. n : v[i] = Marks(clean[i].text)
  <2>1. \A i \in 1 .. n : Marks(clean[i].text) \in Nat
    BY <1>3, HoldsTyped
  <2> HIDE DEF n
  <2> QED BY <1>1, <2>1
<1>7. /\ Ranges(s, n) /\ Total(s) = Found(out)
      /\ \A i \in 1 .. n : s[i] = Holds(out[i])
  <2>1. Len(out) = n
    <3>1. DOMAIN out = 1 .. Len(out) /\ Len(out) \in Nat /\ DOMAIN out = 1 .. n
      BY <1>2, ShowingIs
    <3> DEFINE k == Len(out)
    <3>2. k \in Nat /\ n \in Nat /\ 1 .. k = 1 .. n
      BY <1>1, <3>1
    <3> HIDE DEF n, k
    <3>3. k \in 1 .. n \/ k = 0
      BY <3>2
    <3>4. n \in 1 .. k \/ n = 0
      BY <3>2
    <3>5. k = n
      BY <3>2, <3>3, <3>4
    <3> QED BY <3>5 DEF k
  <2> QED BY <2>1, ShowingIs
<1> HIDE DEF u, v, s, n
<1>8. ASSUME NEW i \in 1 .. n PROVE s[i] = u[i] + v[i]
  <2>1. out[i] = RenderMedia(clean[i], mode) /\ clean[i] \in Message
    BY <1>2, <1>3
  <2>2. Holds(out[i]) = (Len(clean[i].images) + Marks(clean[i].deferred)) + Marks(clean[i].text)
    BY <2>1, MediaFound DEF Holds
  <2> QED BY <1>2, <1>5, <1>6, <1>7, <2>2
<1>9. s = [i \in 1 .. n |-> u[i] + v[i]]
  BY <1>7, <1>8 DEF Ranges
<1>10. Total(s) = Total(u) + Total(v)
  BY <1>1, <1>5, <1>6, <1>9, TotalsAdd
<1>11. Total(v) \in Nat /\ Total(u) \in Int
  <2>1. u \in Seq(Int)
    BY <1>1, <1>5
  <2> QED BY <1>6, <2>1, TotalOfNat, TotalTyped
<1>12. ASSUME \A i \in DOMAIN ms : ms[i].text \in Seq(Quiet) PROVE Total(v) = 0
  <2>1. ASSUME NEW i \in 1 .. n PROVE v[i] = 0
    <3> DEFINE x == clean[i].text
    <3>1. x \in Seq(Quiet)
      BY <1>1, <1>12 DEF SameMedia
    <3> HIDE DEF x
    <3>2. x \in Text /\ \A j \in DOMAIN x : x[j] \in Quiet
      BY <3>1, QuietWords
    <3>3. \A j \in DOMAIN x : x[j] \notin PictureMarks
      BY <3>2 DEF Quiet
    <3>4. Marks(x) = 0
      BY <3>2, <3>3, MarksOf
    <3> QED BY <1>6, <3>4 DEF x
  <2>2. v \in Seq(Int)
    BY <1>1, <1>6
  <2>3. Total(v) = 0 * n
    BY <1>1, <1>6, <2>1, <2>2, TotalOfEqual
  <2> QED BY <1>1, <2>3
<1>13. Found(out) >= Total(u)
  BY <1>7, <1>10, <1>11
<1>14. ASSUME \A i \in DOMAIN ms : ms[i].text \in Seq(Quiet) PROVE Found(out) = Total(u)
  BY <1>7, <1>10, <1>11, <1>12, <1>14
<1> QED BY <1>13, <1>14 DEF Accounts, u

\* No picture is left where pictures are not passed on.
Bared(ms) == \A i \in DOMAIN ms : ms[i].images = <<>>

\* The pipeline accounts for every picture of a conversation it does not condense
\* (preparePipeline).
LEMMA PipelineFound ==
    ASSUME NEW ms \in Messages, NEW agenticTool, NEW profile, NEW chain, NEW media,
           ~(ProjectOn(profile, chain) /\ LooksAgentic(ms, agenticTool))
    PROVE  /\ Accounts(PreparePipeline(ms, agenticTool, profile, chain, media), ms)
           /\ MediaMode(profile, media) # "passthrough" =>
                 Bared(PreparePipeline(ms, agenticTool, profile, chain, media))
<1> DEFINE projected == IF ProjectOn(profile, chain) THEN ProjectRequest(ms, agenticTool) ELSE ms
           clean == IF SanitizeOn(profile, chain)
                    THEN SanitizeRequest(projected, profile.harnessUser) ELSE projected
           mode == MediaMode(profile, media)
           out == [i \in DOMAIN clean |-> RenderMedia(clean[i], mode)]
           sent == PreparePipeline(ms, agenticTool, profile, chain, media)
<1>1. sent = out /\ sent \in Messages
  BY PipelineIs DEF PreparePipeline
<1>2. SameMedia(ms, ms)
  BY DEF SameMedia
<1>3. SameMedia(ms, projected)
  BY <1>2, CutsMedia DEF ProjectRequest
<1> HIDE DEF projected
<1>4. projected \in Messages
  BY <1>3 DEF SameMedia
<1>5. SameMedia(projected, SanitizeRequest(projected, profile.harnessUser))
  BY <1>4, CleansMedia
<1>6. SameMedia(ms, clean)
  <2>1. CASE SanitizeOn(profile, chain)
    BY <1>3, <1>5, <2>1 DEF SameMedia
  <2>2. CASE ~SanitizeOn(profile, chain)
    BY <1>3, <2>2
  <2> QED BY <2>1, <2>2
<1> HIDE DEF clean, mode, sent
<1>7. DOMAIN sent = DOMAIN clean /\ \A i \in DOMAIN clean : sent[i] = RenderMedia(clean[i], mode)
  BY <1>1
<1>8. Accounts(sent, ms)
  BY <1>1, <1>6, <1>7, RenderedFound
<1>9. ASSUME mode # "passthrough" PROVE Bared(sent)
  <2>1. \A i \in DOMAIN clean : clean[i] \in Message
    BY <1>6 DEF SameMedia, Messages
  <2>2. \A i \in DOMAIN clean : RenderMedia(clean[i], mode).images = <<>>
    BY <1>9, <2>1, MediaFound
  <2> QED BY <1>7, <2>2 DEF Bared
<1> QED BY <1>8, <1>9 DEF sent, mode

\* Announcing the tools adds no mark of a picture (announceTools).
LEMMA AnnounceFound ==
    ASSUME NEW ms \in Messages
    PROVE  Found(Announce(ms)) = Found(ms)
<1> DEFINE Shown(m) == [m EXCEPT !.text = Append(m.text, "[tools]")]
           Here(i) == ms[i].role = "user" /\ \A j \in (i + 1)..Len(ms) : ms[j].role # "user"
           out == Announce(ms)
<1>1. ASSUME NEW m \in Message PROVE Holds(Shown(m)) = Holds(m)
  <2>1. /\ Shown(m).images = m.images /\ Shown(m).text = Append(m.text, "[tools]")
        /\ m.text \in Text
    BY DEF Message
  <2> DEFINE x == m.text
             y == <<"[tools]">>
  <2>2. Append(x, "[tools]") = x \o y /\ y \in Text
    <3>1. x \in Text
      BY <2>1
    <3> HIDE DEF x
    <3>2. Append(x, "[tools]") = x \o <<"[tools]">>
      BY <3>1 DEF Text
    <3>3. y \in Text
      BY MarksAreWords, TextFacts
    <3> QED BY <3>2, <3>3
  <2>3. Marks(y) = 0
    <3>1. "[tools]" \in Word /\ "[tools]" \notin PictureMarks
      BY QuietWords DEF Quiet
    <3> QED BY <3>1, MarksAdd
  <2> HIDE DEF x, y
  <2>4. x \in Text
    BY <2>1 DEF x
  <2>5. Marks(x \o y) = Marks(x) + Marks(y) /\ Marks(x) \in Nat
    BY <2>2, <2>4, MarksAdd
  <2>6. Marks(x \o y) = Marks(x)
    BY <2>3, <2>5
  <2>7. Shown(m).text = x \o y
    BY <2>1, <2>2 DEF x
  <2> HIDE DEF Shown
  <2> QED BY <2>1, <2>6, <2>7 DEF Holds, x
<1>2. out = [i \in DOMAIN ms |-> IF Here(i) THEN Shown(ms[i]) ELSE ms[i]]
  BY DEF Announce
<1>3. out \in Messages
  BY AnnounceIs
<1>4. \A i \in DOMAIN ms : ms[i] \in Message
  BY DEF Messages
<1> HIDE DEF out, Shown, Here
<1>5. DOMAIN out = DOMAIN ms /\ \A i \in DOMAIN ms : Holds(out[i]) = Holds(ms[i])
  BY <1>1, <1>2, <1>4
<1>6. Found(out) = Found(ms)
  BY <1>3, <1>5, FoundSame
<1> QED BY <1>6 DEF out

\* A transcript without pictures leaves out only what says nothing (renderTranscript).
LEMMA TranscribeFound ==
    ASSUME NEW ms \in Messages, Bared(ms)
    PROVE  Found(Transcribe(ms)) = Found(ms)
<1> DEFINE I == {i \in DOMAIN ms : Speaks(ms[i])}
           J == DOMAIN ms \ I
           said == Keep(ms, I)
           mute == Keep(ms, J)
           Bare(m) == [m EXCEPT !.images = <<>>]
           out == Transcribe(ms)
<1>1. I \in SUBSET DOMAIN ms /\ J \in SUBSET DOMAIN ms /\ \A i \in J : ms[i].text = <<>>
  BY DEF Speaks
<1>2. out = [i \in DOMAIN said |-> Bare(said[i])] /\ out \in Messages
  BY TranscribeIs DEF Transcribe
<1>3. Found(said) + Found(mute) = Found(ms)
  BY <1>1, KeepFound
<1> HIDE DEF I
<1>4. said \in Messages /\ \A j \in DOMAIN said : \E i \in I : said[j] = ms[i]
  BY <1>1, KeptAreIn
<1> HIDE DEF J
<1>5. mute \in Messages /\ \A j \in DOMAIN mute : \E i \in J : mute[j] = ms[i]
  BY <1>1, KeptAreIn
<1> HIDE DEF said, mute, out
<1>6. \A j \in DOMAIN said : said[j].images = <<>> /\ said[j] \in Message
  BY <1>1, <1>4, ShowingIs DEF Bared
<1>7. \A j \in DOMAIN mute : mute[j].images = <<>> /\ mute[j].text = <<>> /\ mute[j] \in Message
  BY <1>1, <1>5, ShowingIs DEF Bared
<1>8. Found(mute) = 0
  <2> DEFINE s == Showing(mute)
             n == Len(mute)
  <2>1. /\ s \in Seq(Int) /\ Len(s) = n /\ n \in Nat /\ Total(s) = Found(mute)
        /\ DOMAIN mute = 1 .. n /\ \A i \in 1 .. n : s[i] = Holds(mute[i])
    BY <1>5, ShowingIs
  <2>2. \A i \in 1 .. n : Holds(mute[i]) = Marks(<<>>)
    BY <1>7, <2>1, HoldsTyped
  <2>3. \A i \in 1 .. n : s[i] = 0
    BY <2>1, <2>2, MarksAdd
  <2> HIDE DEF s, n
  <2>4. Total(s) = 0 * n
    BY <2>1, <2>3, TotalOfEqual
  <2> QED BY <2>1, <2>4
<1>9. \A m \in Message : Bare(m).images = <<>> /\ Bare(m).text = m.text
  BY DEF Message
<1> HIDE DEF Bare
<1>10. \A m \in Message : m.images = <<>> => Holds(Bare(m)) = Holds(m)
  BY <1>9 DEF Holds
<1>11. DOMAIN out = DOMAIN said /\ \A i \in DOMAIN said : Holds(out[i]) = Holds(said[i])
  BY <1>2, <1>6, <1>10
<1>12. Found(out) = Found(said)
  BY <1>2, <1>4, <1>11, FoundSame
<1>13. Found(said) \in Nat
  BY <1>4, FoundTyped
<1>14. Found(out) = Found(ms)
  BY <1>3, <1>8, <1>12, <1>13
<1> QED BY <1>14 DEF out

\* With the instructions in front it holds the same (renderFullPrompt).
LEMMA FullPromptFound ==
    ASSUME NEW ms \in Messages, Bared(ms)
    PROVE  Found(RenderFullPrompt(ms)) = Found(ms)
<1> DEFINE systems == {i \in DOMAIN ms : IsSystem(ms[i])}
           others == DOMAIN ms \ systems
           first == Keep(ms, systems)
           rest == Keep(ms, others)
<1>1. systems \in SUBSET DOMAIN ms /\ others \in SUBSET DOMAIN ms
  OBVIOUS
<1>2. RenderFullPrompt(ms) = Transcribe(first) \o Transcribe(rest)
  BY DEF RenderFullPrompt
<1>3. Found(first) + Found(rest) = Found(ms)
  BY <1>1, KeepFound
<1> HIDE DEF systems, others
<1>4. first \in Messages /\ Bared(first) /\ rest \in Messages /\ Bared(rest)
  BY <1>1, KeptAreIn DEF Bared
<1> HIDE DEF first, rest
<1>5. Found(Transcribe(first)) = Found(first) /\ Found(Transcribe(rest)) = Found(rest)
  BY <1>4, TranscribeFound
<1>6. Transcribe(first) \in Messages /\ Transcribe(rest) \in Messages
  BY <1>4, TranscribeIs
<1> QED BY <1>2, <1>3, <1>5, <1>6, FoundJoin

\* What upstream is sent whole holds what was prepared: as it is where messages keep
\* their roles, and as a transcript where no picture was left to pass on.
LEMMA UpstreamFound ==
    ASSUME NEW ms \in Messages, NEW profile, NEW toolsOn, NEW continueChat,
           ~(continueChat /\ profile.model # "roles"),
           profile.model # "roles" => Bared(ms)
    PROVE  Found(BuildUpstreamMessages(ms, profile, toolsOn, continueChat)) = Found(ms)
<1> DEFINE m == [Blank("system") EXCEPT !.text = <<"[tools]">>]
           told == IF toolsOn THEN <<m>> ELSE <<>>
           full == RenderFullPrompt(ms)
<1>1. CASE profile.model = "roles"
  <2>1. BuildUpstreamMessages(ms, profile, toolsOn, continueChat)
          = IF toolsOn /\ profile.fence THEN Announce(ms) ELSE ms
    BY <1>1 DEF BuildUpstreamMessages
  <2> QED BY <2>1, AnnounceFound
<1>2. CASE profile.model # "roles"
  <2>1. BuildUpstreamMessages(ms, profile, toolsOn, continueChat) = full \o told
    BY <1>2 DEF BuildUpstreamMessages
  <2>2. m \in Message /\ Holds(m) = 0
    <3>1. <<"[tools]">> \in Text /\ "[tools]" \in Word /\ "[tools]" \notin PictureMarks
      BY MarksAreWords, TextFacts, QuietWords DEF Quiet
    <3>2. Blank("system") \in Message /\ Blank("system").images = <<>>
      BY BlankIs, MarksAreWords DEF Blank
    <3>3. m \in Message
      BY <3>1, <3>2, Rewritten, MarksAreWords
    <3>4. m.images = Blank("system").images /\ m.text = <<"[tools]">>
      BY <3>2 DEF Message
    <3>5. Holds(m) = Marks(<<"[tools]">>)
      BY <3>2, <3>3, <3>4, HoldsTyped
    <3>6. Marks(<<"[tools]">>) = 0
      BY <3>1, MarksAdd
    <3> QED BY <3>3, <3>5, <3>6
  <2> HIDE DEF m
  <2>3. told \in Messages /\ Found(told) = 0
    <3>1. <<>> \in Messages /\ Append(<<>>, m) = <<m>>
      BY DEF Messages
    <3>2. Found(<<>>) = 0
      BY FoundOneMore
    <3>3. <<m>> \in Messages /\ Found(<<m>>) = Found(<<>>) + Holds(m)
      BY <2>2, <3>1, FoundOneMore
    <3> QED BY <2>2, <3>1, <3>2, <3>3
  <2> HIDE DEF told
  <2>4. full \in Messages /\ Found(full) = Found(ms)
    BY <1>2, FullPromptIs, FullPromptFound
  <2> HIDE DEF full
  <2>5. Found(ms) \in Nat
    BY FoundTyped
  <2> QED BY <2>1, <2>3, <2>4, <2>5, FoundJoin
<1> QED BY <1>1, <1>2

\* Where neither the profile nor the deployment passes pictures on, they are not.
LEMMA NotPassedOn ==
    ASSUME NEW profile, NEW media, profile.media # "passthrough", media # "passthrough"
    PROVE  MediaMode(profile, media) # "passthrough"
BY Zenon DEF MediaMode

-----------------------------------------------------------------------------
(* Theorems. *)

\* Documents, saves and requests keep their shape, and what is sent is shaped by
\* a profile that is registered or built in (resolveProfile's fallback).
THEOREM IntakeTypeCorrect == IntakeSpec => []IntakeTypeOK
<1>1. IInv => IntakeTypeOK
  <2> SUFFICES ASSUME IInv PROVE IntakeTypeOK
    OBVIOUS
  <2>1. table.blocked \subseteq Models /\ ruling.blocked \subseteq Models
    BY DEF IInv, Shapes, TableShape
  <2>2. \A e \in Editors :
          /\ saves[e].pc \in {"idle", "writing", "written", "renamed", "replaced"}
          /\ saves[e].doc \in AnyDoc
    BY DEF IInv, Shapes, SavesShape
  <2>3. \A c \in Clients : CallShape(call[c])
    BY DEF IInv, Shapes, CallsShape
  <2> QED BY <2>1, <2>2, <2>3 DEF IntakeTypeOK, IInv, Shapes, CallShape, AnyDoc
<1> QED BY <1>1, IntakeInductive, PTL

\* As long as no two saves were under way at once, the table in force between
\* saves is the one a restart would load, whatever failed or crashed.
THEOREM RoutesAlwaysSurvive == IntakeSpec => []RoutesSurviveRestart
<1>1. IInv => RoutesSurviveRestart
  BY DEF IInv, Alone, Settled, RoutesSurviveRestart, Busy
<1> QED BY <1>1, IntakeInductive, PTL

\* A request that leaves the choice to the table is sent only if its model was
\* open in some table in force while it was being decided, for any number of
\* operators saving at once.
THEOREM BlockedNeverServed == IntakeSpec => []BlockedNotServed
<1>1. IInv => BlockedNotServed
  BY DEF IInv, Guarded, BlockedNotServed
<1> QED BY <1>1, IntakeInductive, PTL

\* What is sent of a conversation hangs together, for every conversation in any
\* of the three protocols, every profile and every limit (projectRequest,
\* sanitizeRequest, buildUpstreamMessages).
THEOREM ThreadAlwaysKept == IntakeSpec => []ThreadKept
<1>1. ASSUME Carried PROVE ThreadKept
  <2> SUFFICES ASSUME NEW c \in Clients, call[c].pc = "sent", ~TailOnly(c)
               PROVE  LET msgs == call[c].msgs
                          out  == call[c].out
                      IN  /\ \A j \in DOMAIN out :
                                ResultsAnswered(msgs, out[j].callId)
                                   => ResultsAnswered(out, out[j].callId)
                          /\ Condensed(c) =>
                                \A q \in FirstQuestion(msgs) : msgs[q].text # <<>> =>
                                    \E i \in DOMAIN out :
                                        out[i].role = "user" /\ IsPrefix(msgs[q].text, out[i].text)
    BY DEF ThreadKept, FirstQuestion
  <2> DEFINE r == call[c].request
             msgs == call[c].msgs
             p == Profiles[call[c].family]
             shaped == PreparePipeline(msgs, r.tool = "agentic", p, env.chain, env.media)
             out == call[c].out
  <2>1. r \in Requests \cup Quick /\ msgs = Parsed(r) /\ out = Outgoing(call[c], env)
    BY <1>1 DEF Carried, Faithful
  <2>2. msgs \in Messages
    BY <2>1, ParsedTyped
  <2>3. out = BuildUpstreamMessages(shaped, p, r.tool # "none", r.known)
    BY <2>1 DEF Outgoing
  <2>4. ~(r.known /\ p.model # "roles")
    BY DEF TailOnly
  <2>5. Condensed(c) <=> ProjectOn(p, env.chain) /\ LooksAgentic(msgs, r.tool = "agentic")
    BY DEF Condensed
  <2> HIDE DEF r, msgs, p, out
  <2>6. /\ shaped \in Messages
        /\ \A id : ResultsAnswered(msgs, id) => ResultsAnswered(shaped, id)
        /\ Condensed(c) => \A q \in FirstQuestion(msgs) : Asked(shaped, msgs[q].text)
    BY <2>2, <2>5, PipelineIs
  <2> HIDE DEF shaped
  <2>7. /\ out \in Messages
        /\ \A id : ResultsAnswered(shaped, id) => ResultsAnswered(out, id)
        /\ \A text \in Text : text # <<>> /\ Asked(shaped, text) => Asked(out, text)
    BY <2>3, <2>4, <2>6, UpstreamIs
  <2>8. ASSUME Condensed(c), NEW q \in FirstQuestion(msgs), msgs[q].text # <<>>
        PROVE  \E i \in DOMAIN out :
                  out[i].role = "user" /\ IsPrefix(msgs[q].text, out[i].text)
    <3> DEFINE text == msgs[q].text
    <3>1. text \in Text
      <4>1. q \in DOMAIN msgs /\ msgs[q] \in Message
        BY <2>2 DEF FirstQuestion, Messages
      <4> QED BY <4>1 DEF Message
    <3>2. Asked(out, text)
      BY <2>6, <2>7, <2>8, <3>1
    <3> HIDE DEF text
    <3>3. PICK i \in DOMAIN out, u \in Text : out[i].role = "user" /\ out[i].text = text \o u
      BY <3>2 DEF Asked
    <3>4. IsPrefix(text, text \o u)
      BY <3>1 DEF IsPrefix, Text
    <3> QED BY <3>3, <3>4 DEF text
  <2> QED BY <2>6, <2>7, <2>8 DEF msgs, out
<1> QED BY <1>1, CarriedAlways, PTL

\* A conversation that a protocol can say is one list of messages, the same in all of
\* them, at any length and with any texts, calls and pictures.  What a protocol
\* cannot say is spelled out in Carries: above all, only the chat protocol has a
\* system turn after the start (parseChatRequest, parseAnthropicRequest,
\* parseResponsesRequest).
THEOREM SameListInEveryProtocol == IntakeSpec => []SameInEveryProtocol
<1>1. ASSUME Carried PROVE SameInEveryProtocol
  <2> SUFFICES ASSUME NEW c \in Clients, call[c].pc = "parsed",
                      Carries(call[c].request.proto, call[c].request.conv)
               PROVE  [i \in DOMAIN call[c].msgs |-> Counted(call[c].msgs[i])]
                         = Canonical(call[c].request.conv)
    BY DEF SameInEveryProtocol
  <2> DEFINE r == call[c].request
  <2>1. r \in Requests \cup Quick /\ call[c].msgs = Parsed(r)
    BY <1>1 DEF Carried, Faithful
  <2>2. Carries(r.proto, r.conv)
    OBVIOUS
  <2> HIDE DEF r
  <2>3. Counts(Parsed(r)) = Canonical(r.conv)
    BY <2>1, <2>2, ParsedTold
  <2> QED BY <2>1, <2>3 DEF Counts, r
<1> QED BY <1>1, CarriedAlways, PTL

\* Every picture a client sends is passed on or leaves a mark, for conversations of
\* any length and turns of any text, calls and pictures, on every profile whose
\* declaration the registry accepts (appendImage, renderMedia, preparePipeline,
\* buildUpstreamMessages).
THEOREM ImagesAlwaysAccountedFor == IntakeSpec => []ImagesAccountedFor
<1>1. ASSUME IInv, Carried PROVE ImagesAccountedFor
  <2> SUFFICES ASSUME NEW c \in Clients, call[c].pc = "sent", ~TailOnly(c), ~Condensed(c),
                      Carries(call[c].request.proto, call[c].request.conv),
                      Profiles[call[c].family].model # "roles" => env.media # "passthrough"
               PROVE  /\ Found(call[c].out) >= Pictures(call[c].request.conv)
                      /\ Unmarked(call[c].request.conv) =>
                            Found(call[c].out) = Pictures(call[c].request.conv)
    BY DEF ImagesAccountedFor
  <2> DEFINE r == call[c].request
             conv == r.conv
             msgs == call[c].msgs
             f == call[c].family
             p == Profiles[f]
             shaped == PreparePipeline(msgs, r.tool = "agentic", p, env.chain, env.media)
             out == call[c].out
  <2>1. r \in Requests \cup Quick /\ msgs = Parsed(r) /\ out = Outgoing(call[c], env)
    BY <1>1 DEF Carried, Faithful
  <2>2. msgs \in Messages
    BY <2>1, ParsedTyped
  <2>3. out = BuildUpstreamMessages(shaped, p, r.tool # "none", r.known)
    BY <2>1 DEF Outgoing
  <2>4. ~(r.known /\ p.model # "roles")
    BY DEF TailOnly
  <2>5. ~(ProjectOn(p, env.chain) /\ LooksAgentic(msgs, r.tool = "agentic"))
    BY DEF Condensed
  <2>6. f \in Families
    <3>1. f \in registered \cup {BuiltIn} /\ registered \in Registrations
      BY <1>1 DEF IInv, Shapes, CallsShape, CallShape
    <3> QED BY <3>1, IntakeAssumption
  <2>7. p.model # "roles" => p.media # "passthrough" /\ env.media # "passthrough"
    BY <2>6, IntakeAssumption
  <2>8. Carries(r.proto, conv)
    OBVIOUS
  <2>9. conv \in Seq(Turn)
    BY <2>1, WrittenTyped
  <2> HIDE DEF r, msgs, f, p, out
  <2>10. Counts(msgs) = Canonical(conv)
    BY <2>1, <2>8, ParsedTold
  <2> HIDE DEF conv
  <2>11. /\ Total(PicturesOf(msgs)) = Pictures(conv)
         /\ Unmarked(conv) => \A i \in DOMAIN msgs : msgs[i].text \in Seq(Quiet)
    BY <2>2, <2>9, <2>10, ParsedPictures
  <2>12. shaped \in Messages /\ Accounts(shaped, msgs)
    BY <2>2, <2>5, PipelineIs, PipelineFound
  <2>13. p.model # "roles" => Bared(shaped)
    BY <2>2, <2>5, <2>7, NotPassedOn, PipelineFound
  <2> HIDE DEF shaped
  <2>14. Found(out) = Found(shaped)
    BY <2>3, <2>4, <2>12, <2>13, UpstreamFound
  <2>15. Found(out) >= Pictures(conv) /\ (Unmarked(conv) => Found(out) = Pictures(conv))
    BY <2>11, <2>12, <2>14 DEF Accounts
  <2> QED BY <2>15 DEF out, conv, r
<1> QED BY <1>1, IntakeInductive, CarriedAlways, PTL
=============================================================================
