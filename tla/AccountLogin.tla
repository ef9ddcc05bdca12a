----------------------------- MODULE AccountLogin -----------------------------
(***************************************************************************)
(* Logins through the panel (internal/server: adminOAuthStart,              *)
(* adminOAuthPoll, oauthCallback and the Tencent device flow's start and     *)
(* poll) with the guard that throttles them.                                *)
(*                                                                         *)
(* The guard's tables are keyed by channel and nothing crosses from one      *)
(* channel to another, so one channel is modelled; which flow it runs is     *)
(* chosen at the start.  Every handler runs in a goroutine of its own: the   *)
(* gate, the new session and the record of the start are critical sections   *)
(* of their own, and so are the look at a session and what upstream's answer *)
(* does to it.  That answer's mark on the session and its entry in the guard *)
(* are one step here: nobody reads both.                                    *)
(*                                                                         *)
(* Bounds: Ids sessions are alive or held by a handler at once.  Not here:   *)
(* what a login does to the pool (AccountPool).                             *)
(***************************************************************************)
EXTENDS LoginGuard, FiniteSets

CONSTANTS
    Handlers,       \* handler calls that may be in progress at once
    Ids,            \* session ids / states
    NoId,           \* "no session", not a member of Ids
    SessionTTL      \* ticks a session lives

ASSUME LoginAssumption ==
    /\ IsFiniteSet(Handlers)
    /\ NoId \notin Ids
    /\ SessionTTL \in Nat \ {0}

VARIABLES
    flow,           \* "ticket" (Huawei) or "device" (Tencent)
    guard,          \* the channel's guard
    store,          \* oauthStore.byID, tencentStates
    call,           \* the handler calls
    unfinished,     \* history: starts since the last success and the last pause
    late            \* history: starts recorded during the present pause

vars == <<flow, guard, store, call, unfinished, late>>

Status == {"none", "pending", "done", "error"}

NoSession == [status |-> "none", left |-> 0]

Idle == [pc |-> "idle", id |-> NoId]

TypeOK ==
    /\ flow \in {"ticket", "device"}
    /\ guard \in GuardState
    /\ store \in [Ids -> [status : Status, left : 0 .. SessionTTL]]
    /\ call \in [Handlers -> [pc : {"idle", "starting", "kept", "token", "account",
                                    "ticket", "exchange"},
                              id : Ids \cup {NoId}]]
    /\ unfinished \in Nat
    /\ late \in Nat

Init ==
    /\ flow \in {"ticket", "device"}
    /\ guard = NewLoginGuard
    /\ store = [i \in Ids |-> NoSession]
    /\ call = [c \in Handlers |-> Idle]
    /\ unfinished = 0
    /\ late = 0

-----------------------------------------------------------------------------
(* The guard changes, and with it what the history variables count. *)

Becomes(g) ==
    /\ guard' = g
    /\ unfinished' = IF g.coolLeft > 0 THEN 0 ELSE unfinished
    /\ late' = IF g.coolLeft > 0 THEN late ELSE 0

RecordStart ==
    LET g == StartRecorded(guard, SessionTTL)
    IN  /\ guard' = g
        /\ unfinished' = IF g.coolLeft > 0 THEN 0 ELSE unfinished + 1
        /\ late' = IF g.coolLeft > 0 THEN late + 1 ELSE 0

RecordDone ==
    /\ guard' = DoneRecorded(guard)
    /\ unfinished' = 0
    /\ UNCHANGED late

RecordFailed == Becomes(FailedRecorded(guard))

-----------------------------------------------------------------------------
(* Start. *)

At(c, pc) == call[c].pc = pc

Enter(c, pc, id) == call' = [call EXCEPT ![c] = [pc |-> pc, id |-> id]]

Return(c) == call' = [call EXCEPT ![c] = Idle]

StartAllowed(c) ==
    /\ At(c, "idle")
    /\ Gate(LoginSettled(guard))
    /\ Becomes(LoginSettled(guard))
    /\ Enter(c, "starting", NoId)
    /\ UNCHANGED <<flow, store>>

StartRefused(c) ==
    /\ At(c, "idle")
    /\ ~Gate(LoginSettled(guard))
    /\ Becomes(LoginSettled(guard))
    /\ UNCHANGED <<flow, store, call>>

\* No random numbers, no key, or upstream does not hand out a state.
StartAborted(c) ==
    /\ At(c, "starting")
    /\ Return(c)
    /\ UNCHANGED <<flow, guard, store, unfinished, late>>

\* Ids are random: a new one is nobody's.
Unused(id) == store[id] = NoSession /\ \A c \in Handlers : call[c].id # id

SessionKept(c, id) ==
    /\ At(c, "starting")
    /\ Unused(id)
    /\ store' = [store EXCEPT ![id] = [status |-> "pending", left |-> SessionTTL]]
    /\ Enter(c, "kept", NoId)
    /\ UNCHANGED <<flow, guard, unfinished, late>>

\* The guard hears of the session after the store; another handler may get in
\* between.
StartNoted(c) ==
    /\ At(c, "kept")
    /\ RecordStart
    /\ Return(c)
    /\ UNCHANGED <<flow, store>>

-----------------------------------------------------------------------------
(* What becomes of a session.  A handler may still hold one that is gone. *)

Mark(id, status) ==
    store' = IF store[id] = NoSession THEN store
             ELSE [store EXCEPT ![id].status = status]

Del(id) == store' = [store EXCEPT ![id] = NoSession]

\* Upstream is still waiting for the browser, or a step after the token
\* failed: the panel will poll again.
PollInVain(c) ==
    /\ call[c].pc \in {"token", "account", "ticket"}
    /\ Return(c)
    /\ UNCHANGED <<flow, guard, store, unfinished, late>>

-----------------------------------------------------------------------------
(* adminTencentOAuthPoll. *)

DevicePoll(c, id) ==
    /\ flow = "device"
    /\ At(c, "idle")
    /\ store[id] # NoSession
    /\ Enter(c, "token", id)
    /\ UNCHANGED <<flow, guard, store, unfinished, late>>

\* A failed request counts as a failed login; the state stays usable.
TokenFailed(c) ==
    /\ At(c, "token")
    /\ RecordFailed
    /\ Return(c)
    /\ UNCHANGED <<flow, store>>

TokenGranted(c) ==
    /\ At(c, "token")
    /\ Enter(c, "account", call[c].id)
    /\ UNCHANGED <<flow, guard, store, unfinished, late>>

DeviceLoggedIn(c) ==
    /\ At(c, "account")
    /\ Del(call[c].id)
    /\ RecordDone
    /\ Return(c)
    /\ UNCHANGED flow

-----------------------------------------------------------------------------
(* adminOAuthPoll. *)

TicketPoll(c, id) ==
    /\ flow = "ticket"
    /\ At(c, "idle")
    /\ store[id].status = "pending"
    /\ Enter(c, "ticket", id)
    /\ UNCHANGED <<flow, guard, store, unfinished, late>>

\* The callback was successful; the panel has now been told.
ResultFetched(c, id) ==
    /\ At(c, "idle")
    /\ store[id].status = "done"
    /\ Del(id)
    /\ UNCHANGED <<flow, guard, call, unfinished, late>>

TicketNotSaved(c) ==
    /\ At(c, "ticket")
    /\ RecordFailed
    /\ Mark(call[c].id, "error")
    /\ Return(c)
    /\ UNCHANGED flow

TicketLoggedIn(c) ==
    /\ At(c, "ticket")
    /\ Del(call[c].id)
    /\ RecordDone
    /\ Return(c)
    /\ UNCHANGED flow

-----------------------------------------------------------------------------
(* oauthCallback: finds a session by the state the portal echoes, whatever  *)
(* its status, or else the sole unfinished one.                             *)

Callback(c, id) ==
    /\ flow = "ticket"
    /\ At(c, "idle")
    /\ store[id] # NoSession
    /\ Enter(c, "exchange", id)
    /\ UNCHANGED <<flow, guard, store, unfinished, late>>

ExchangeFailed(c) ==
    /\ At(c, "exchange")
    /\ Mark(call[c].id, "error")
    /\ RecordFailed
    /\ Return(c)
    /\ UNCHANGED flow

\* The guard is not told; it will see the session time out.
CallbackNotSaved(c) ==
    /\ At(c, "exchange")
    /\ Mark(call[c].id, "error")
    /\ Return(c)
    /\ UNCHANGED <<flow, guard, unfinished, late>>

CallbackLoggedIn(c) ==
    /\ At(c, "exchange")
    /\ Mark(call[c].id, "done")
    /\ RecordDone
    /\ Return(c)
    /\ UNCHANGED flow

-----------------------------------------------------------------------------
\* Sessions past their time to live are dropped before anybody finds them.
SessionAged(s) == IF s.left > 1 THEN [s EXCEPT !.left = s.left - 1] ELSE NoSession

Tick ==
    /\ Becomes(GuardAged(guard))
    /\ store' = [i \in Ids |-> SessionAged(store[i])]
    /\ UNCHANGED <<flow, call>>

TryStart(c) == StartAllowed(c) \/ StartRefused(c)

Proceed(c) ==
    \/ StartAborted(c)
    \/ \E id \in Ids : SessionKept(c, id)
    \/ StartNoted(c)
    \/ PollInVain(c)
    \/ TokenFailed(c) \/ TokenGranted(c) \/ DeviceLoggedIn(c)
    \/ TicketNotSaved(c) \/ TicketLoggedIn(c)
    \/ ExchangeFailed(c) \/ CallbackNotSaved(c) \/ CallbackLoggedIn(c)

Look(c) ==
    \E id \in Ids :
        DevicePoll(c, id) \/ TicketPoll(c, id) \/ ResultFetched(c, id) \/ Callback(c, id)

Next ==
    \/ \E c \in Handlers : TryStart(c) \/ Proceed(c) \/ Look(c)
    \/ Tick

\* Time passes, handlers return (upstream calls have timeouts), and an
\* operator who is refused tries again.
Spec ==
    /\ Init
    /\ [][Next]_vars
    /\ WF_vars(Tick)
    /\ \A c \in Handlers : WF_vars(Proceed(c)) /\ SF_vars(TryStart(c))

-----------------------------------------------------------------------------
(* Properties. *)

\* Starts that have passed the gate and are not recorded yet.
InFlight == {c \in Handlers : call[c].pc \in {"starting", "kept"}}

\* Of the starts on a channel, at most FailureThreshold in a row go without a
\* success before the channel is paused: no unfinished authorisation escapes
\* the count, however starts, polls and callbacks overlap.
RetryStormStops == unfinished <= FailureThreshold

\* Once the channel is paused, only starts already past the gate come through.
PauseHolds == late + Cardinality(InFlight) <= Cardinality(Handlers)

\* The cap on starts per window is exceeded at most by starts that overlap; a
\* single operator never exceeds it.
WindowCap ==
    Len(guard.history) + Cardinality(InFlight) <= MaxPerWindow + Cardinality(Handlers) - 1

\* No channel is locked for good: whatever failed, the gate opens again for
\* an operator who keeps trying.
ChannelReopens == []<>Gate(guard)
=============================================================================
