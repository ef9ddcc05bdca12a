--------------------------- MODULE RequestIntake ---------------------------
(***************************************************************************)
(* From a request's arrival to the messages that leave for an upstream     *)
(* (Handler.serveCompletion): it is parsed, a profile is chosen by the     *)
(* route table (adapt/routes.go, server/routes.go), and what was parsed is *)
(* shaped as that profile asks (RequestShaping).  Meanwhile an operator    *)
(* replaces the table (Handler.adminRoutesPut): the file first, then the   *)
(* routes, then the blocked models, each a step that a request, another    *)
(* save or a crash can come between.                                       *)
(***************************************************************************)
EXTENDS RequestShaping

CONSTANTS
    Families,       \* every profile there may be
    BuiltIn,        \* the one that is compiled in, adapt.Codearts, whatever profile a
                    \* directory puts under its name
    Profiles,       \* what each of them declares
    Registrations,  \* the sets of profiles that a boot may find
    Models,
    DefaultRoutes,  \* buildDefaultRoutes
    Docs,           \* the tables an operator may send
    Editors,        \* saves that may be under way at once
    Clients,
    Requests,       \* what clients may send
    Quick,          \* bound: those that an operator or a crash may interrupt
    Environments,   \* OMNIGATE_TOOLCHAIN and OMNIGATE_MEDIA
    MaxSaves,       \* bound on the saves
    MaxBoots        \* bound on the restarts

\* A turn of a conversation, before it takes the wire form of a protocol.
AnyTurn == [who : {"system", "developer", "user", "assistant", "results"},
            text : Seq(STRING), calls : Seq(STRING), images : Seq(STRING),
            thought : BOOLEAN]

ASSUME IntakeAssumption ==
    /\ BuiltIn \in Families
    /\ \A R \in Registrations : "codearts" \in R /\ R \subseteq Families
    /\ \A f \in Families : Profiles[f].model # "roles" => Profiles[f].media # "passthrough"
    /\ Models # {}
    /\ \A d \in Docs : /\ d = [routes |-> d.routes, blocked |-> d.blocked]
                       /\ d.blocked \subseteq Models
    /\ \A r \in Requests \cup Quick : /\ r.proto \in {"chat", "anthropic", "responses"}
                                    /\ r.conv \in Seq(AnyTurn) /\ r.conv # <<>>
    /\ MaxSaves \in Nat /\ MaxBoots \in Nat

NoDoc == [routes |-> <<>>, blocked |-> {}]
Torn  == [routes |-> <<>>, blocked |-> Models]   \* a file that does not parse
NoRequest == [pc |-> "idle"]

VARIABLES
    file,       \* the saved table: NoDoc, Torn or a document
    tmp,        \* its temporary file
    table,      \* Handler.routes: the table that decides
    registered, \* adapt.Registry
    env,
    saves,      \* each editor's request
    ruling,     \* history: the document that the last finished save or boot put in force
    overlapped, \* history: two saves have been under way at once
    call,       \* each client's request
    saved, boots

routeVars == <<file, tmp, table, saves, ruling, overlapped, saved>>
intakeVars == <<routeVars, registered, env, call, boots>>

-----------------------------------------------------------------------------
(* The clients: one conversation in the wire form of each protocol. *)

Parts(t) ==
    (IF t.text = <<>> THEN <<>> ELSE << [type |-> "text", text |-> t.text] >>)
    \o [i \in DOMAIN t.images |-> [type |-> "image", image |-> t.images[i]]]

ChatTurn(t) ==
    IF t.who = "results"
    THEN [k \in DOMAIN t.calls |-> [role |-> "tool", parts |-> Parts(t),
                                    calls |-> <<>>, callId |-> t.calls[k]]]
    ELSE << [role |-> t.who, parts |-> Parts(t), calls |-> t.calls, callId |-> NoCall] >>

ChatWire(conv) == FlattenSeq([i \in DOMAIN conv |-> ChatTurn(conv[i])])

Opening(conv) == IF conv[1].who = "system" THEN conv[1].text ELSE <<>>
AfterOpening(conv) == IF conv[1].who = "system" THEN Tail(conv) ELSE conv

AnthropicBlocks(t) ==
    (IF t.thought THEN << [type |-> "thinking"] >> ELSE <<>>)
    \o (IF t.who = "results"
        THEN [k \in DOMAIN t.calls |->
                [type |-> "tool_result", id |-> t.calls[k], parts |-> Parts(t)]]
        ELSE Parts(t) \o [k \in DOMAIN t.calls |->
                            [type |-> "tool_use", id |-> t.calls[k]]])

\* Results and what the user says after them are one message of the user.
AnthropicTurn(ms, t) ==
    LET role == IF t.who = "results" THEN "user" ELSE t.who
    IN  IF ms # <<>> /\ t.who = "user" /\ Last(Last(ms).blocks).type = "tool_result"
        THEN [ms EXCEPT ![Len(ms)].blocks = Last(ms).blocks \o AnthropicBlocks(t)]
        ELSE Append(ms, [role |-> role, blocks |-> AnthropicBlocks(t)])

\* A message of nothing but text may be sent as a string.
AnthropicMessage(m) ==
    IF Len(m.blocks) = 1 /\ m.blocks[1].type = "text"
    THEN [role |-> m.role, plain |-> TRUE, text |-> m.blocks[1].text]
    ELSE [role |-> m.role, plain |-> FALSE, blocks |-> m.blocks]

AnthropicWire(conv) ==
    LET ms == FoldLeft(AnthropicTurn, <<>>, AfterOpening(conv))
    IN  [system |-> Opening(conv), messages |-> [i \in DOMAIN ms |-> AnthropicMessage(ms[i])]]

ResponsesTurn(t) ==
    IF t.who = "results"
    THEN [k \in DOMAIN t.calls |->
            [type |-> "function_call_output", id |-> t.calls[k], text |-> t.text]]
    ELSE (IF t.thought THEN << [type |-> "reasoning"] >> ELSE <<>>)
         \o (IF Parts(t) = <<>> THEN <<>>
             ELSE << [type |-> "message", role |-> t.who, parts |-> Parts(t)] >>)
         \o [k \in DOMAIN t.calls |-> [type |-> "function_call", id |-> t.calls[k]]]

ResponsesWire(conv) ==
    LET turns == AfterOpening(conv)
    IN  [instructions |-> Opening(conv),
         input |-> FlattenSeq([i \in DOMAIN turns |-> ResponsesTurn(turns[i])])]

-----------------------------------------------------------------------------
(* The route table. *)

\* What adminRoutesPut accepts: some route, and every family registered.
Valid(doc) == /\ DOMAIN doc.routes # {}
              /\ \A m \in DOMAIN doc.routes : doc.routes[m] \in registered

\* Mutant of Boot: the blocked models are not loaded.
BootUnblocked(f) ==
    IF f = NoDoc THEN [routes |-> DefaultRoutes, blocked |-> {}]
    ELSE [routes |-> f.routes, blocked |-> {}]

\* Boot: a saved table with its blocked models, or the built-in routes.
Boot(f) == IF f = NoDoc THEN [routes |-> DefaultRoutes, blocked |-> {}] ELSE f

FamilyOf(model) == IF model \in DOMAIN table.routes THEN table.routes[model] ELSE "codearts"

Busy == {e \in Editors : saves[e].pc # "idle"}
Done(e) == saves' = [saves EXCEPT ![e] = [pc |-> "idle", doc |-> NoDoc]]
Step(e, pc) == saves' = [saves EXCEPT ![e].pc = pc]
UnblocksFrom(doc, c) ==
    IF call[c].pc \in {"parsed", "allowed"} /\ call[c].model \notin doc.blocked
    THEN [call[c] EXCEPT !.wasOpen = TRUE] ELSE call[c]

\* The request is checked and SaveRouteTableFile empties the temporary file.
BeginSave(e, doc) ==
    /\ saves[e].pc = "idle" /\ saved < MaxSaves /\ Valid(doc)
    /\ saves' = [saves EXCEPT ![e] = [pc |-> "writing", doc |-> doc]]
    /\ overlapped' = (overlapped \/ Busy # {})
    /\ call' = [c \in Clients |-> UnblocksFrom(doc, c)]
    /\ tmp' = Torn /\ saved' = saved + 1
    /\ UNCHANGED <<file, table, ruling, registered, env, boots>>

\* Two saves write through one temporary file: what one writes may mix with
\* the other's, or reach the file the other has already renamed.
Write(e) ==
    /\ saves[e].pc = "writing"
    /\ \E d \in {saves[e].doc} \cup (IF Busy = {e} THEN {} ELSE {Torn}) :
          IF tmp = NoDoc THEN file' = d /\ UNCHANGED tmp ELSE tmp' = d /\ UNCHANGED file
    /\ Step(e, "written")
    /\ UNCHANGED <<table, ruling, overlapped, saved, registered, env, call, boots>>

\* Renaming fails when the other save has taken the temporary file away.
Rename(e) ==
    /\ saves[e].pc = "written"
    /\ IF tmp = NoDoc THEN Done(e) /\ UNCHANGED <<file, tmp>>
       ELSE Step(e, "renamed") /\ file' = tmp /\ tmp' = NoDoc
    /\ UNCHANGED <<table, ruling, overlapped, saved, registered, env, call, boots>>

\* The disk refuses: the operator is told, and the table stays.
SaveFails(e) ==
    /\ saves[e].pc \in {"writing", "written"}
    /\ Done(e)
    /\ UNCHANGED <<file, tmp, table, ruling, overlapped, saved, registered, env, call, boots>>

\* Mutant of Replace: the whole table is replaced, blocked models included.
ReplaceWhole(e) ==
    /\ saves[e].pc = "renamed"
    /\ table' = [routes |-> saves[e].doc.routes, blocked |-> {}]
    /\ Step(e, "replaced")
    /\ UNCHANGED <<file, tmp, ruling, overlapped, saved, registered, env, call, boots>>

\* RouteTable.Replace, which leaves the blocked models alone.
Replace(e) ==
    /\ saves[e].pc = "renamed"
    /\ table' = [table EXCEPT !.routes = saves[e].doc.routes]
    /\ Step(e, "replaced")
    /\ UNCHANGED <<file, tmp, ruling, overlapped, saved, registered, env, call, boots>>

\* RouteTable.SetBlocked, and the operator is answered.
SetBlocked(e) ==
    /\ saves[e].pc = "replaced"
    /\ table' = [table EXCEPT !.blocked = saves[e].doc.blocked]
    /\ ruling' = saves[e].doc
    /\ Done(e)
    /\ UNCHANGED <<file, tmp, overlapped, saved, registered, env, call, boots>>

\* A crash or a stop at any point, and a start over whatever profiles directory
\* there is then.  A table that does not parse keeps the server from starting.
Restart ==
    /\ boots < MaxBoots /\ file # Torn
    /\ table' = Boot(file) /\ ruling' = (IF file = NoDoc THEN Boot(file) ELSE file)
    /\ registered' \in Registrations
    /\ saves' = [e \in Editors |-> [pc |-> "idle", doc |-> NoDoc]]
    /\ call' = [c \in Clients |-> NoRequest]
    /\ boots' = boots + 1
    /\ UNCHANGED <<file, tmp, overlapped, saved, env>>

-----------------------------------------------------------------------------
(* Requests. *)

\* What the parser of a protocol does not refuse.
Accepted(r) == CASE r.proto = "chat"      -> TRUE
                 [] r.proto = "anthropic" -> AcceptsAnthropic(AnthropicWire(r.conv), r.params)
                 [] OTHER                 -> AcceptsResponses(ResponsesWire(r.conv))

Parsed(r) == CASE r.proto = "chat"      -> ParseChatRequest(ChatWire(r.conv))
               [] r.proto = "anthropic" -> ParseAnthropicRequest(AnthropicWire(r.conv))
               [] OTHER                 -> ParseResponsesRequest(ResponsesWire(r.conv))

\* parseInbound: a request that its protocol does not know, with nothing to send,
\* or with parameters that the official clients do not send, is refused.
Arrive(c, r) ==
    /\ call[c].pc = "idle"
    /\ LET msgs == Parsed(r) IN
       call' = [call EXCEPT ![c] =
          IF ~Accepted(r) \/ ~HasSendable(msgs) \/ Rejected(r.params) # {}
          THEN [pc |-> "refused"]
          ELSE [pc |-> "parsed", request |-> r, model |-> r.model, msgs |-> msgs,
                wasOpen |-> \/ r.model \notin ruling.blocked
                            \/ \E e \in Busy : r.model \notin saves[e].doc.blocked]]
    /\ UNCHANGED <<routeVars, registered, env, boots>>

\* resolveRoute and everything up to buildUpstreamMessages, once the profile is known.
Serve(c, family) ==
    LET r == call[c].request
        p == Profiles[family]
        shaped == PreparePipeline(call[c].msgs, r.tool = "agentic", p, env.chain, env.media)
    IN  call' = [call EXCEPT ![c] =
            IF r.proto \notin p.protocols THEN [pc |-> "refused"]
            ELSE [pc |-> "sent", request |-> r, model |-> r.model, msgs |-> call[c].msgs,
                  wasOpen |-> call[c].wasOpen, family |-> family,
                  out |-> BuildUpstreamMessages(shaped, p, r.tool # "none", r.known)]]

\* A registered channel the client names is taken without a look at the table.
ResolveExplicit(c) ==
    /\ call[c].pc = "parsed" /\ call[c].request.explicit \in registered
    /\ Serve(c, call[c].request.explicit)
    /\ UNCHANGED <<routeVars, registered, env, boots>>

\* RouteTable.Resolve looks at the blocked models under the table's lock ...
CheckBlocked(c) ==
    /\ call[c].pc = "parsed" /\ call[c].request.explicit \notin registered
    /\ call' = [call EXCEPT ![c] = IF call[c].model \in table.blocked THEN [pc |-> "refused"]
                                   ELSE [call[c] EXCEPT !.pc = "allowed"]]
    /\ UNCHANGED <<routeVars, registered, env, boots>>

\* Mutant of LookUp: the family of a route is taken to be registered.
LookUpUnchecked(c) ==
    /\ call[c].pc = "allowed"
    /\ Serve(c, FamilyOf(call[c].model))
    /\ UNCHANGED <<routeVars, registered, env, boots>>

\* ... and at the routes after it has let the lock go.
LookUp(c) ==
    /\ call[c].pc = "allowed"
    /\ LET family == FamilyOf(call[c].model)
       IN  Serve(c, IF family \in registered THEN family ELSE BuiltIn)
    /\ UNCHANGED <<routeVars, registered, env, boots>>

Leave(c) ==
    /\ call[c].pc \in {"sent", "refused"}
    /\ call' = [call EXCEPT ![c] = NoRequest]
    /\ UNCHANGED <<routeVars, registered, env, boots>>

-----------------------------------------------------------------------------
IntakeInit ==
    /\ file = NoDoc /\ tmp = NoDoc
    /\ table = Boot(NoDoc) /\ ruling = Boot(NoDoc)
    /\ registered \in Registrations /\ env \in Environments
    /\ saves = [e \in Editors |-> [pc |-> "idle", doc |-> NoDoc]]
    /\ call = [c \in Clients |-> NoRequest]
    /\ overlapped = FALSE /\ saved = 0 /\ boots = 0

\* Bound: an operator and a crash come between the steps of Quick requests only.
\* How a request is shaped depends on the profile it was given, not on when.
Arriving == IF saved = 0 /\ boots = 0 THEN Requests ELSE Quick
Interruptible == \A c \in Clients : call[c].pc \in {"parsed", "allowed", "sent"}
                                        => call[c].request \in Quick

IntakeNext ==
    \/ \E e \in Editors :
          \/ Interruptible /\ \E doc \in Docs : BeginSave(e, doc)
          \/ Write(e) \/ Rename(e) \/ SaveFails(e) \/ Replace(e) \/ SetBlocked(e)
    \/ Interruptible /\ Restart
    \/ \E c \in Clients :
          \/ \E r \in Arriving : Arrive(c, r)
          \/ ResolveExplicit(c) \/ CheckBlocked(c) \/ LookUp(c) \/ Leave(c)

IntakeSpec == IntakeInit /\ [][IntakeNext]_intakeVars

-----------------------------------------------------------------------------
\* Documents, saves and requests are of the right shape, and what is sent was
\* shaped by a profile that is registered or compiled in.
IntakeTypeOK ==
    LET AnyDoc == Docs \cup {NoDoc, Torn} IN
    /\ file \in AnyDoc /\ tmp \in AnyDoc
    /\ table.blocked \subseteq Models /\ ruling.blocked \subseteq Models
    /\ registered \in Registrations /\ env \in Environments
    /\ \A e \in Editors :
          /\ saves[e].pc \in {"idle", "writing", "written", "renamed", "replaced"}
          /\ saves[e].doc \in AnyDoc
    /\ \A c \in Clients :
          /\ call[c].pc \in {"idle", "parsed", "allowed", "sent", "refused"}
          /\ call[c].pc = "sent" => call[c].family \in registered \cup {BuiltIn}
    /\ overlapped \in BOOLEAN /\ saved \in 0..MaxSaves /\ boots \in 0..MaxBoots

\* Unless two saves have been under way at once, the table that decides between
\* saves is the one on disk, blocked models included, so that neither a restart
\* nor a crash in the middle of a save brings back a model that was taken out
\* (adminRoutesPut, SaveRouteTableFile, LoadRouteTableFile).
RoutesSurviveRestart ==
    ~overlapped /\ Busy = {} =>
        /\ file # Torn
        /\ table = Boot(file)

\* A request that leaves the choice to the table is never sent for a model that
\* every table in force while it was being decided had blocked: neither the
\* two reads of Resolve nor the three steps of a save open a gap.
BlockedNotServed ==
    \A c \in Clients :
        call[c].pc = "sent" /\ call[c].request.explicit \notin registered
            => call[c].wasOpen

\* The marks that stand for a picture, and how many of them a text holds.
PictureMarks == {"[image]", "[oversize]", "[unreachable]"}
Total(numbers) == FoldLeft(LAMBDA sum, n : sum + n, 0, numbers)
Marks(text) == Total([i \in DOMAIN text |-> IF text[i] \in PictureMarks THEN 1 ELSE 0])

\* What a protocol can say.  The chat protocol says any turn as it stands, but
\* keeps a developer's apart from the system's.  In the others the system speaks
\* at most once, at the start; instructions are text, only the assistant calls,
\* results belong to calls and no turn is empty.  The messages protocol knows no
\* developer and no pictures of the assistant's.  In the responses protocol a
\* developer's turn is the system's, a result has no pictures and names its call,
\* and a turn of nothing but calls right after another of the assistant's becomes
\* part of it.
Carries(proto, conv) ==
    \A i \in DOMAIN conv :
        LET t == conv[i] IN
        /\ proto # "responses" => t.who # "developer"
        /\ proto # "chat" =>
              /\ t.text # <<>> \/ t.calls # <<>> \/ t.images # <<>>
              /\ t.who \in {"system", "developer"} => t.text # <<>> /\ t.images = <<>>
              /\ t.who \in {"system", "developer", "user"} => t.calls = <<>>
              /\ t.who = "system" => i = 1
              /\ t.who = "results" => t.calls # <<>>
        /\ proto = "anthropic" => (t.who = "assistant" => t.images = <<>>)
        /\ proto = "responses" =>
              /\ t.who = "results" => t.images = <<>>
              /\ t.who = "results" => \A k \in DOMAIN t.calls : t.calls[k] # NoCall
              /\ t.who = "assistant" /\ Parts(t) = <<>> /\ i > 1 => conv[i - 1].who # "assistant"

\* The pictures of a turn that are passed on: the first MaxImages that can be.
PassedOn(images) ==
    LET fit == Keep(images, {i \in DOMAIN images : Refusal(images[i]) = ""})
    IN  SubSeq(fit, 1, IF Len(fit) < MaxImages THEN Len(fit) ELSE MaxImages)

\* A turn as messages, and a conversation, without a look at the wire forms; a
\* picture that cannot be passed on only counts.
Whole(t, role, id, calls) ==
    [role |-> role, text |-> t.text, calls |-> calls, callId |-> id,
     images |-> PassedOn(t.images), deferred |-> Len(t.images) - Len(PassedOn(t.images))]
Voice(t) == IF t.who = "developer" THEN "system" ELSE t.who
Told(t) ==
    IF t.who = "results"
    THEN [k \in DOMAIN t.calls |-> Whole(t, "tool", t.calls[k], <<>>)]
    ELSE << Whole(t, Voice(t), NoCall, t.calls) >>
Canonical(conv) == FlattenSeq([i \in DOMAIN conv |-> Told(conv[i])])
Counted(m) == [m EXCEPT !.deferred = Marks(m.deferred)]

\* One conversation is one list of messages, whichever protocol it comes in, so
\* that a history that is sent again is recognised.
SameInEveryProtocol ==
    \A c \in Clients :
        call[c].pc = "parsed" /\ Carries(call[c].request.proto, call[c].request.conv) =>
            [i \in DOMAIN call[c].msgs |-> Counted(call[c].msgs[i])]
            = Canonical(call[c].request.conv)

\* What upstream is sent of a conversation it does not remember still hangs
\* together.  Where every result of a call id has the call in front of it in the
\* history, it has so in what is sent: neither the cut that condensing makes nor
\* the transcript, which moves the instructions to the front, comes between.
\* And however much of the history is condensed, the first question that a
\* person put in words is there word for word.
Condensed(c) == /\ ProjectOn(Profiles[call[c].family], env.chain)
                /\ LooksAgentic(call[c].msgs, call[c].request.tool = "agentic")
TailOnly(c) == call[c].request.known /\ Profiles[call[c].family].model # "roles"

ThreadKept ==
    \A c \in Clients : call[c].pc = "sent" /\ ~TailOnly(c) =>
        LET msgs == call[c].msgs
            out  == call[c].out
            first == {i \in DOMAIN msgs :
                        /\ msgs[i].role = "user" /\ ~IsHarness(msgs[i])
                        /\ \A j \in 1..(i - 1) : msgs[j].role = "user" => IsHarness(msgs[j])}
        IN  /\ \A j \in DOMAIN out :
                  ResultsAnswered(msgs, out[j].callId) => ResultsAnswered(out, out[j].callId)
            /\ Condensed(c) =>
                  \A q \in first : msgs[q].text # <<>> =>
                      \E i \in DOMAIN out :
                          out[i].role = "user" /\ IsPrefix(msgs[q].text, out[i].text)

\* No picture goes missing without a word: each one the client sent is passed
\* on or leaves a mark in the text, unless the message it came in was condensed
\* away or upstream has it already; and a client that writes no such marks itself
\* finds none beyond those.  (A deployment that forces passthrough on a
\* transcript profile is the exception: README, Findings.)
Pictures(conv) ==
    Total([i \in DOMAIN conv |->
              Len(conv[i].images) * (IF conv[i].who = "results" THEN Len(conv[i].calls) ELSE 1)])
Found(msgs) == Total([i \in DOMAIN msgs |-> Len(msgs[i].images) + Marks(msgs[i].text)])
Unmarked(conv) == \A i \in DOMAIN conv : ~Has(conv[i].text, PictureMarks)

ImagesAccountedFor ==
    \A c \in Clients :
        /\ call[c].pc = "sent" /\ ~TailOnly(c) /\ ~Condensed(c)
        /\ Carries(call[c].request.proto, call[c].request.conv)
        /\ Profiles[call[c].family].model # "roles" => env.media # "passthrough"
        => LET conv == call[c].request.conv
           IN  /\ Found(call[c].out) >= Pictures(conv)
               /\ Unmarked(conv) => Found(call[c].out) = Pictures(conv)
=============================================================================
