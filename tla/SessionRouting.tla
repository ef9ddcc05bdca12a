---------------------------- MODULE SessionRouting ----------------------------
(***************************************************************************)
(* Conversation continuation (internal/server: routeSession, sessionIndex,   *)
(* and the parts of serveWithAccounts that carry a routed turn out).         *)
(*                                                                         *)
(* A client sends its whole message list every turn.  When the list extends  *)
(* one that a former turn registered, only the tail is sent, to the chat the *)
(* upstream account is believed to remember.  The model keeps what upstream   *)
(* has really been told, per account and chat, to compare that belief with.   *)
(*                                                                         *)
(* A hash chain entry stands for the message list it hashes, so a key IS a    *)
(* list.  A message is a unit of dialogue: a user message, or a tool round    *)
(* (an assistant call and its results, no user message in it).               *)
(*                                                                         *)
(* Bounds: MaxUnits messages per conversation, Chats chat ids, MaxRotate     *)
(* rounds per turn.  An explicit conversation id is a chat id that an answer  *)
(* named; ids a client makes up are not here.                                *)
(***************************************************************************)
EXTENDS CircuitBreaker, SequencesExt

CONSTANTS
    Convs,          \* client conversations; each waits for its turn to end
    IdConvs,        \* those whose client sends the id of the last answer's chat
    Accounts,       \* upstream accounts
    Nobody,         \* "no account", not a member of Accounts
    UserUnits,      \* user messages
    ToolUnits,      \* tool rounds
    Increments,     \* what a client adds to its list between two turns
    MaxUnits,       \* bound: length of a message list
    Chats,          \* bound: chat ids, 1 .. Chats
    MaxRotate,      \* accounts one turn may try
    ReanchorEvery,  \* tails in a row before a full prompt is forced
    FpMaxEntries,   \* entries of the index
    LossyTools      \* whether the tool chain may drop parts of a request

ASSUME SessionAssumption ==
    /\ Nobody \notin Accounts
    /\ IdConvs \subseteq Convs
    /\ UserUnits \cap ToolUnits = {}
    /\ Increments \subseteq Seq(UserUnits \cup ToolUnits) \ {<<>>}
    /\ {MaxUnits, Chats, MaxRotate, ReanchorEvery, FpMaxEntries} \subseteq Nat \ {0}
    /\ LossyTools \in BOOLEAN

Units == UserUnits \cup ToolUnits

Lists == UNION {[1 .. n -> Units] : n \in 0 .. MaxUnits}

NoChat == 0

VARIABLES
    turn,           \* the turn of each conversation
    entries,        \* sessionIndex.entries: list -> reference
    order,          \* sessionIndex.order
    breaker,        \* the profile's circuit breaker
    healthy,        \* accounts the pool would hand out
    told,           \* lists' prefixes upstream was told, per account and chat
    fresh,          \* chat ids drawn so far
    convAcct        \* the account of each explicit conversation

vars == <<turn, entries, order, breaker, healthy, told, fresh, convAcct>>

Turn ==
    [pc : {"idle", "asked", "routed", "upstream", "failed"},
     msgs : Lists, from : 1 .. MaxUnits + 1,
     chat : 0 .. Chats, sticky : Accounts \cup {Nobody},
     at : Accounts \cup {Nobody}, tried : SUBSET Accounts, round : 0 .. MaxRotate,
     matched : Lists, register : BOOLEAN,
     id : 0 .. Chats, explicit : BOOLEAN]   \* id: the chat the last answer named

Ref == [account : Accounts, chat : 1 .. Chats, tails : Nat, contended : BOOLEAN]

NoTurn ==
    [pc |-> "idle", msgs |-> <<>>, from |-> 1, chat |-> NoChat, sticky |-> Nobody,
     at |-> Nobody, tried |-> {}, round |-> 0, matched |-> <<>>, register |-> FALSE,
     id |-> NoChat, explicit |-> FALSE]

TypeOK ==
    /\ turn \in [Convs -> Turn]
    /\ DOMAIN entries \subseteq Lists
    /\ \A k \in DOMAIN entries : entries[k] \in Ref
    /\ Cardinality(DOMAIN entries) <= FpMaxEntries
    /\ \A i \in DOMAIN order : order[i] \in Lists
    /\ breaker \in BreakerState
    /\ healthy \subseteq Accounts
    /\ told \in [Accounts \X (1 .. Chats) -> SUBSET Lists]
    /\ fresh \in 0 .. Chats
    /\ convAcct \in [1 .. Chats -> Accounts \cup {Nobody}]

Init ==
    /\ turn = [c \in Convs |-> NoTurn]
    /\ entries = <<>>
    /\ order = <<>>
    /\ breaker = NewCircuitBreaker
    /\ healthy = Accounts
    /\ told = [p \in Accounts \X (1 .. Chats) |-> {}]
    /\ fresh = 0
    /\ convAcct = [h \in 1 .. Chats |-> Nobody]

\* The id a client keeps of an answer.
Named(c) == IF c \in IdConvs THEN turn[c].chat ELSE NoChat

\* Between turns only the list is left of a turn, and the id the client has.
Rest(c, pc, id) == [NoTurn EXCEPT !.pc = pc, !.msgs = turn[c].msgs, !.id = id]
Ended(c, pc, id) == turn' = [turn EXCEPT ![c] = Rest(c, pc, id)]

-----------------------------------------------------------------------------
(* The client. *)

\* The next turn: the list so far and something more.  A tool round never
\* starts a conversation.
Ask(c, more) ==
    /\ turn[c].pc = "idle"
    /\ Len(turn[c].msgs) + Len(more) <= MaxUnits
    /\ turn[c].msgs = <<>> => more[1] \in UserUnits
    /\ turn' = [turn EXCEPT ![c].pc = "asked", ![c].msgs = @ \o more]
    /\ UNCHANGED <<entries, order, breaker, healthy, told, fresh, convAcct>>

\* After a failure the client sends the same list again, or edits its end.
AskAgain(c, last) ==
    LET m == turn[c].msgs
    IN  /\ turn[c].pc = "failed"
        /\ last = m[Len(m)] \/ {last, m[Len(m)]} \subseteq UserUnits
        /\ turn' = [turn EXCEPT ![c].pc = "asked", ![c].msgs[Len(m)] = last]
        /\ UNCHANGED <<entries, order, breaker, healthy, told, fresh, convAcct>>

-----------------------------------------------------------------------------
(* sessionIndex. *)

\* match: the longest strictly shorter registered prefix.  Two entries of one
\* length cannot both be prefixes of m, so there is never a tie.
Matches(m) == {n \in 1 .. Len(m) - 1 : SubSeq(m, 1, n) \in DOMAIN entries}

Best(m) == SubSeq(m, 1, CHOOSE n \in Matches(m) : \A k \in Matches(m) : k <= n)

Contended(m) == Matches(m) # {} /\ entries[Best(m)].contended

Reanchors(m) == Matches(m) # {} /\ entries[Best(m)].tails >= ReanchorEvery

Usable(m) == Matches(m) # {} /\ ~Contended(m) /\ ~Reanchors(m)

\* The last user message, the first message if there is none.
LastUser(m) ==
    LET said == {i \in DOMAIN m : m[i] \in UserUnits}
    IN  IF said = {} THEN 1 ELSE CHOOSE i \in said : \A j \in said : j <= i

\* Mutant of TailAnchor: the last user message, whatever came before it.
TailAnchorAtLast(m, k) == LastUser(m)

\* tailAnchorIndex: the first user message of the increment, else the last
\* one before it, so that the tail never lacks an instruction.
TailAnchor(m, k) ==
    LET after  == {i \in k + 1 .. Len(m) : m[i] \in UserUnits}
        before == {i \in 1 .. k : m[i] \in UserUnits}
    IN  CASE after # {}                  -> CHOOSE i \in after : \A j \in after : i <= j
          [] after = {} /\ before # {}   -> CHOOSE i \in before : \A j \in before : j <= i
          [] after = {} /\ before = {}   -> k + 1

Dropped(es, keys) == [k \in DOMAIN es \ keys |-> es[k]]

\* The eviction at the limit: the first key of `order` that still is an entry,
\* which is the oldest registration of that key, not of an entry.
Oldest ==
    LET live == {i \in DOMAIN order : order[i] \in DOMAIN entries}
    IN  CHOOSE i \in live : \A j \in live : i <= j

Evicts == Cardinality(DOMAIN entries) >= FpMaxEntries

\* Mutant of Register: the chat's former entry is kept.
RegisterBesides(key, n, chat) ==
    LET kept == IF Evicts THEN Dropped(entries, {order[Oldest]}) ELSE entries
        ref  == [account |-> n, chat |-> chat, tails |-> 0, contended |-> FALSE]
    IN  /\ entries' = [k \in DOMAIN kept \cup {key} |-> IF k = key THEN ref ELSE kept[k]]
        /\ order' = Append(IF Evicts THEN RemoveAt(order, Oldest) ELSE order, key)

\* register: one entry per chat and account, the newest; a list registered
\* from another chat too is contended.
Register(key, n, chat) ==
    LET kept  == IF Evicts THEN Dropped(entries, {order[Oldest]}) ELSE entries
        ours  == {k \in DOMAIN kept : kept[k].account = n /\ kept[k].chat = chat}
        ref   == [account |-> n, chat |-> chat,
                  tails |-> IF ours = {} THEN 0
                            ELSE kept[CHOOSE k \in ours : TRUE].tails + 1,
                  contended |-> key \in DOMAIN kept \ ours]
        rest  == Dropped(kept, ours \cup {key})
    IN  /\ entries' = [k \in DOMAIN rest \cup {key} |-> IF k = key THEN ref ELSE rest[k]]
        /\ order' = Append(IF Evicts THEN RemoveAt(order, Oldest) ELSE order, key)

-----------------------------------------------------------------------------
(* routeSession. *)

RouteFull(c, register) ==
    turn' = [turn EXCEPT ![c] =
               [@ EXCEPT !.pc = "routed", !.from = 1, !.register = register]]

\* Mutant of RouteTail: the tail goes to a new chat.
RouteTailInNewChat(c) ==
    LET m == turn[c].msgs
        k == Best(m)
    IN  turn' = [turn EXCEPT ![c] =
                   [@ EXCEPT !.pc = "routed", !.from = TailAnchor(m, Len(k)),
                             !.sticky = entries[k].account,
                             !.matched = k, !.register = TRUE]]

RouteTail(c) ==
    LET m == turn[c].msgs
        k == Best(m)
    IN  turn' = [turn EXCEPT ![c] =
                   [@ EXCEPT !.pc = "routed", !.from = TailAnchor(m, Len(k)),
                             !.chat = entries[k].chat, !.sticky = entries[k].account,
                             !.matched = k, !.register = TRUE]]

\* A conversation id: to that chat, neither the tool chain nor the breaker is
\* asked.  A text-only profile sends the list from its last user message on, one
\* with roles all of it.
RouteExplicit(c, first) ==
    /\ turn[c].pc = "asked"
    /\ turn[c].id # NoChat
    /\ first \in {1, LastUser(turn[c].msgs)}
    /\ turn' = [turn EXCEPT ![c] =
                  [@ EXCEPT !.pc = "routed", !.from = first,
                            !.chat = turn[c].id, !.sticky = convAcct[turn[c].id],
                            !.explicit = TRUE]]
    /\ UNCHANGED <<entries, order, breaker, healthy, told, fresh, convAcct>>

\* A lossy tool chain or an open breaker: full prompt, left unregistered.
RouteNative(c) ==
    /\ turn[c].pc = "asked" /\ turn[c].id = NoChat
    /\ LossyTools \/ IsOpen(breaker)
    /\ RouteFull(c, FALSE)
    /\ UNCHANGED <<entries, order, breaker, healthy, told, fresh, convAcct>>

Continue(c) ==
    /\ turn[c].pc = "asked" /\ turn[c].id = NoChat
    /\ ~IsOpen(breaker)
    /\ Usable(turn[c].msgs)
    /\ entries[Best(turn[c].msgs)].account \in healthy
    /\ RouteTail(c)
    /\ breaker' = Looked(breaker)
    /\ UNCHANGED <<entries, order, healthy, told, fresh, convAcct>>

\* The remembered account is not healthy: the entry goes.
RouteAway(c) ==
    LET k == Best(turn[c].msgs)
    IN  /\ turn[c].pc = "asked" /\ turn[c].id = NoChat
        /\ ~IsOpen(breaker)
        /\ Usable(turn[c].msgs)
        /\ entries[k].account \notin healthy
        /\ entries' = Dropped(entries, {k})
        /\ RouteFull(c, TRUE)
        /\ breaker' = Recorded(Looked(breaker), "miss")
        /\ UNCHANGED <<order, healthy, told, fresh, convAcct>>

\* No entry, or one that must not be continued; a re-anchor is reported as
\* such even if the entry is contended too.
RouteUnmatched(c) ==
    LET m == turn[c].msgs
    IN  /\ turn[c].pc = "asked" /\ turn[c].id = NoChat
        /\ ~IsOpen(breaker)
        /\ ~Usable(m)
        /\ RouteFull(c, TRUE)
        /\ breaker' = Recorded(Looked(breaker),
                               IF Contended(m) /\ ~Reanchors(m) THEN "cross" ELSE "miss")
        /\ UNCHANGED <<entries, order, healthy, told, fresh, convAcct>>

-----------------------------------------------------------------------------
(* serveWithAccounts, seen from the conversation. *)

\* pickAccount: the bound account while it is healthy, else an untried one.
Candidates(c) ==
    IF turn[c].sticky \in healthy THEN {turn[c].sticky} ELSE healthy \ turn[c].tried

\* A message in its context: the list up to it.
Context(m) == {SubSeq(m, 1, n) : n \in 1 .. Len(m)}

\* The messages that travel: those from the anchor on.
Payload(c) ==
    {p \in Context(turn[c].msgs) : Len(p) >= turn[c].from}

\* A turn keeps its prompt and its chat id over all its rounds.
Attempt(c, n) ==
    /\ turn[c].pc = "routed"
    /\ turn[c].round < MaxRotate
    /\ n \in Candidates(c)
    /\ turn[c].chat # NoChat \/ fresh < Chats
    /\ fresh' = IF turn[c].chat = NoChat THEN fresh + 1 ELSE fresh

Attempted(c, n, pc) ==
    turn' = [turn EXCEPT ![c] =
               [turn[c] EXCEPT !.pc = pc, !.round = @ + 1, !.tried = @ \cup {n},
                         !.chat = IF @ = NoChat THEN fresh' ELSE @,
                         !.at = IF pc = "upstream" THEN n ELSE Nobody,
                         !.sticky = IF @ = n THEN n ELSE Nobody]]

\* Upstream takes the prompt.
Send(c, n) ==
    /\ Attempt(c, n)
    /\ Attempted(c, n, "upstream")
    /\ told' = [told EXCEPT ![<<n, turn'[c].chat>>] = @ \cup Payload(c)]
    /\ UNCHANGED <<entries, order, breaker, healthy, convAcct>>

\* No slot, no valid credentials, or openStream failed: the next round, with
\* the index as it is.
NotSent(c, n) ==
    /\ Attempt(c, n)
    /\ Attempted(c, n, "routed")
    /\ UNCHANGED <<entries, order, breaker, healthy, told, convAcct>>

NobodyLeft(c) ==
    /\ turn[c].pc = "routed"
    /\ turn[c].round = MaxRotate \/ Candidates(c) = {}
    /\ Ended(c, "failed", turn[c].id)
    /\ UNCHANGED <<entries, order, breaker, healthy, told, fresh, convAcct>>

\* storeChat and turnSuccess; a streamed answer may sound as if the context were missing.
Succeed(c) ==
    /\ turn[c].pc = "upstream"
    /\ IF turn[c].register
       THEN Register(turn[c].msgs, turn[c].at, turn[c].chat)
       ELSE UNCHANGED <<entries, order>>
    /\ breaker' \in {breaker, Recorded(breaker, "noinstruction")}
    /\ convAcct' = IF turn[c].explicit
                   THEN [convAcct EXCEPT ![turn[c].chat] = turn[c].at] ELSE convAcct
    /\ Ended(c, "idle", Named(c))
    /\ UNCHANGED <<healthy, told, fresh>>

\* turnFailure: the stream broke, upstream reported an error in it, the
\* client left.
Fail(c) ==
    /\ turn[c].pc = "upstream"
    /\ entries' = Dropped(entries, {turn[c].matched})
    /\ Ended(c, "failed", Named(c))
    /\ UNCHANGED <<order, breaker, healthy, told, fresh, convAcct>>

\* The last frames could not be written: no turnFailure on this path.
FailWriting(c) ==
    /\ turn[c].pc = "upstream"
    /\ Ended(c, "failed", Named(c))
    /\ UNCHANGED <<entries, order, breaker, healthy, told, fresh, convAcct>>

\* completeChat cools the account and lets the next round try.
Rotate(c) ==
    /\ turn[c].pc = "upstream"
    /\ healthy' = healthy \ {turn[c].at}
    /\ turn' = [turn EXCEPT ![c].pc = "routed", ![c].at = Nobody]
    /\ UNCHANGED <<entries, order, breaker, told, fresh, convAcct>>

-----------------------------------------------------------------------------
\* Accounts cool down and recover.
HealthChange(n) ==
    /\ healthy' = IF n \in healthy THEN healthy \ {n} ELSE healthy \cup {n}
    /\ UNCHANGED <<turn, entries, order, breaker, told, fresh, convAcct>>

\* The process restarts: the index, the breaker and convAcct are in memory only.
Restart ==
    /\ turn' = [c \in Convs |-> IF turn[c].pc = "idle" THEN turn[c]
                                ELSE Rest(c, "failed", turn[c].id)]
    /\ entries' = <<>> /\ order' = <<>>
    /\ breaker' = NewCircuitBreaker
    /\ convAcct' = [h \in 1 .. Chats |-> Nobody]
    /\ UNCHANGED <<healthy, told, fresh>>

Tick ==
    /\ breaker' = BreakerAged(breaker)
    /\ UNCHANGED <<turn, entries, order, healthy, told, fresh, convAcct>>

Next ==
    \/ \E c \in Convs :
         \/ \E more \in Increments : Ask(c, more)
         \/ \E last \in Units : AskAgain(c, last)
         \/ \E first \in 1 .. MaxUnits : RouteExplicit(c, first)
         \/ RouteNative(c) \/ Continue(c) \/ RouteAway(c) \/ RouteUnmatched(c)
         \/ \E n \in Accounts : Send(c, n) \/ NotSent(c, n)
         \/ NobodyLeft(c)
         \/ Succeed(c) \/ Fail(c) \/ FailWriting(c) \/ Rotate(c)
    \/ \E n \in Accounts : HealthChange(n)
    \/ Restart \/ Tick

Spec == Init /\ [][Next]_vars

-----------------------------------------------------------------------------
(* Properties. *)

Instructions(m) == {p \in Context(m) : Last(p) \in UserUnits}

\* Whatever upstream is asked to answer, it has been told every message of the
\* client's list, in this chat, now or before.
NothingLost ==
    \A c \in Convs :
        turn[c].pc = "upstream" =>
            Context(turn[c].msgs) \subseteq told[turn[c].at, turn[c].chat]

\* The same for user messages alone: as long as one account serves the
\* conversations, the tail that is sent leaves out no instruction, whatever
\* turns fail, cross or go unregistered in between.
InstructionsNotLost ==
    \A c \in Convs :
        turn[c].pc = "upstream" =>
            Instructions(turn[c].msgs) \subseteq told[turn[c].at, turn[c].chat]

\* An entry is true: its chat has been told the instructions it stands for.
EntriesRemembered ==
    \A k \in DOMAIN entries :
        Instructions(k) \subseteq told[entries[k].account, entries[k].chat]

\* One chat of an account is never reachable through two entries.
OneEntryPerChat ==
    \A j, k \in DOMAIN entries :
        entries[j].account = entries[k].account /\ entries[j].chat = entries[k].chat
            => j = k
=============================================================================
