---------------------------- MODULE RequestServing ----------------------------
(***************************************************************************)
(* The request path (internal/server: serveWithAccounts and what it calls): *)
(* concurrent requests rotate over the accounts of one upstream family,     *)
(* queue for a concurrency slot of the account they picked, validate it,    *)
(* open an upstream chat, relay the answer and settle the account.          *)
(*                                                                         *)
(* A request gives up the processor wherever the code blocks or lets go of  *)
(* the pool's lock: between picking and holding the slot, around the        *)
(* validation, around the upstream call, while backing off, and between      *)
(* releasing the slot and settling the account.  Each such stretch is one    *)
(* action.  Upstream's answers are free choices.                            *)
(*                                                                         *)
(* Bounds: the pool's membership is fixed (AccountPool changes it), every    *)
(* request is for an account of one family.                                 *)
(***************************************************************************)
EXTENDS AccountRecord

CONSTANTS
    Accounts,       \* names of the accounts in the pool
    Order,          \* the same accounts, in the order Pool.accounts lists them
    NoAccount,      \* "no account", not a member of Accounts
    Requests,       \* requests being served
    MaxConcurrent,  \* upstream chats one account may run at a time
    MaxRotate,      \* accounts one request may try
    OpenRetries     \* openStream's attempts under upstream's own limit

ASSUME ServingAssumption ==
    /\ NoAccount \notin Accounts
    /\ Order \in Seq(Accounts)
    /\ MaxConcurrent \in Nat \ {0}
    /\ MaxRotate \in Nat
    /\ OpenRetries \in Nat \ {0}
    /\ IsFiniteSet(Requests)

VARIABLES
    acct,           \* health record of each account
    active,         \* Account.activeConcurrent
    req,            \* where each request is
    doubled         \* history: releases of a slot its request no longer held

vars == <<acct, active, req, doubled>>

PC == {"pick", "slot", "validate", "renewing", "open", "backoff", "reacquire",
       "stream", "settle", "done"}

\* What an answer of upstream means for the account.
Verdict == {"ok", "none", "soft", "err", "hard", "model", "errored", "disable", "ban"}

Reply == {"pending", "served", "failed", "refused", "cancelled", "unavailable"}

Request ==
    [pc : PC, at : Accounts \cup {NoAccount},
     model : Models, stream : BOOLEAN,
     sticky : Accounts \cup {NoAccount},     \* stickyAcct
     tried : SUBSET Accounts, round : 0 .. MaxRotate,
     retry : 0 .. OpenRetries, verdict : Verdict, reply : Reply]

TypeOK ==
    /\ acct \in [Accounts -> AccountState]
    /\ active \in [Accounts -> 0 .. MaxConcurrent]
    /\ req \in [Requests -> Request]
    /\ doubled \in [Accounts -> Nat]
    /\ \A r \in Requests :
         req[r].pc \notin {"pick", "done"} => req[r].at \in Accounts

Arrived ==
    [pc : {"pick"}, at : {NoAccount}, model : Models, stream : BOOLEAN,
     sticky : Accounts \cup {NoAccount}, tried : {{}}, round : {0},
     retry : {0}, verdict : {"none"}, reply : {"pending"}]

Init ==
    /\ acct = [n \in Accounts |-> Fresh]
    /\ active = [n \in Accounts |-> 0]
    /\ req \in [Requests -> Arrived]
    /\ doubled = [n \in Accounts |-> 0]

-----------------------------------------------------------------------------
(* Slots. *)

\* Mutant of Acquire: the limit is compared off by one.
AcquireOneMore(n) ==
    /\ active[n] <= MaxConcurrent
    /\ active' = [active EXCEPT ![n] = @ + 1]

\* AcquireLockWait sees a slot free on one of its polls.
Acquire(n) ==
    /\ active[n] < MaxConcurrent
    /\ active' = [active EXCEPT ![n] = @ + 1]

\* Its deadline passes: the last poll before it found no slot.
WaitExpired(n) == active[n] >= MaxConcurrent

\* ReleaseLock does not know who calls it and stops at zero.
ReleaseLock(n) == active' = [active EXCEPT ![n] = Dec(@)]

-----------------------------------------------------------------------------
(* Picking. *)

StaysBound(r) ==
    LET n == req[r].sticky
    IN  /\ n # NoAccount
        /\ Healthy(acct[n])
        /\ ~ModelCooled(acct[n], req[r].model)

\* Mutant of Choice: the accounts tried before are not excluded.
ChoiceForgetful(r) ==
    IF StaysBound(r) THEN req[r].sticky
    ELSE PickForModel(Order, acct, req[r].model, {}, NoAccount)

\* pickAccount: the account the conversation is bound to, tried before or not,
\* otherwise an untried one.
Choice(r) ==
    IF StaysBound(r) THEN req[r].sticky
    ELSE PickForModel(Order, acct, req[r].model, req[r].tried, NoAccount)

Pick(r) ==
    /\ req[r].pc = "pick"
    /\ req[r].round < MaxRotate
    /\ Choice(r) # NoAccount
    /\ req' = [req EXCEPT
                 ![r].pc = "slot", ![r].at = Choice(r), ![r].round = @ + 1,
                 ![r].tried = @ \cup {Choice(r)}, ![r].retry = 0,
                 ![r].sticky = IF StaysBound(r) THEN @ ELSE NoAccount]
    /\ UNCHANGED <<acct, active, doubled>>

\* Mutant of GiveUp: waits for an account instead of saying there is none.
GiveUpOnlyWhenRotated(r) ==
    /\ req[r].pc = "pick"
    /\ req[r].round = MaxRotate
    /\ req' = [req EXCEPT ![r].pc = "done", ![r].reply = "unavailable"]
    /\ UNCHANGED <<acct, active, doubled>>

\* 503: rotations used up, or nobody left to try.
GiveUp(r) ==
    /\ req[r].pc = "pick"
    /\ req[r].round = MaxRotate \/ Choice(r) = NoAccount
    /\ req' = [req EXCEPT ![r].pc = "done", ![r].reply = "unavailable"]
    /\ UNCHANGED <<acct, active, doubled>>

-----------------------------------------------------------------------------
(* Queueing and validation. *)

Goto(r, pc) == req' = [req EXCEPT ![r].pc = pc]

\* The end of a round: the request forgets the account it was at.
NextRound(r) == req' = [req EXCEPT ![r].pc = "pick", ![r].at = NoAccount]

TakeSlot(r) ==
    /\ req[r].pc = "slot"
    /\ Acquire(req[r].at)
    /\ Goto(r, "validate")
    /\ UNCHANGED <<acct, doubled>>

\* Mutant of SlotTimeout: the result of AcquireLockWait is ignored.
SlotTimeoutIgnored(r) ==
    /\ req[r].pc = "slot"
    /\ WaitExpired(req[r].at)
    /\ Goto(r, "validate")
    /\ UNCHANGED <<acct, active, doubled>>

SlotTimeout(r) ==
    /\ req[r].pc = "slot"
    /\ WaitExpired(req[r].at)
    /\ NextRound(r)
    /\ UNCHANGED <<acct, active, doubled>>

\* Validate's cache answers, or the credentials go through the renewal path.
Validate(r) ==
    /\ req[r].pc = "validate"
    /\ Goto(r, IF ValidationCached(acct[req[r].at]) THEN "open" ELSE "renewing")
    /\ UNCHANGED <<acct, active, doubled>>

Validated(r) ==
    /\ req[r].pc = "renewing"
    /\ \E a \in {Revalidated(acct[req[r].at]), ValidationNoted(acct[req[r].at])} :
         acct' = [acct EXCEPT ![req[r].at] = a]
    /\ Goto(r, "open")
    /\ UNCHANGED <<active, doubled>>

\* Mutant of ValidationFailed: the early exit forgets the slot.
ValidationFailedKeepingSlot(r) ==
    /\ req[r].pc = "renewing"
    /\ acct' = [acct EXCEPT ![req[r].at] = Disabled(@)]
    /\ NextRound(r)
    /\ UNCHANGED <<active, doubled>>

\* Validate disables the account and says no; the slot is given back.
ValidationFailed(r) ==
    /\ req[r].pc = "renewing"
    /\ acct' = [acct EXCEPT ![req[r].at] = Disabled(@)]
    /\ ReleaseLock(req[r].at)
    /\ NextRound(r)
    /\ UNCHANGED doubled

-----------------------------------------------------------------------------
(* openStream and what serveWithAccounts does with its error. *)

Opened(r) ==
    /\ req[r].pc = "open"
    /\ Goto(r, "stream")
    /\ UNCHANGED <<acct, active, doubled>>

\* Upstream's own limit on concurrent chats: the slot is lent to others.
BackOff(r) ==
    /\ req[r].pc = "open"
    /\ ReleaseLock(req[r].at)
    /\ Goto(r, "backoff")
    /\ UNCHANGED <<acct, doubled>>

BackOffOver(r) ==
    /\ req[r].pc = "backoff"
    /\ Goto(r, "reacquire")
    /\ UNCHANGED <<acct, active, doubled>>

\* Slot regained; the attempt just counted may have been the last one.
Reacquired(r) ==
    /\ req[r].pc = "reacquire"
    /\ req[r].retry + 1 < OpenRetries
    /\ Acquire(req[r].at)
    /\ req' = [req EXCEPT ![r].pc = "open", ![r].retry = @ + 1]
    /\ UNCHANGED <<acct, doubled>>

\* The loop is over: serveWithAccounts gives the regained slot back at once
\* and upstream's limit is no fault of the account.
RetriesExhausted(r) ==
    /\ req[r].pc = "reacquire"
    /\ req[r].retry + 1 = OpenRetries
    /\ active[req[r].at] < MaxConcurrent
    /\ NextRound(r)
    /\ UNCHANGED <<acct, active, doubled>>

\* serveWithAccounts releases on every error of openStream, also on the two
\* that openStream returns without holding the slot.
ReleaseAgain(r) ==
    LET n == req[r].at
    IN  /\ ReleaseLock(n)
        /\ doubled' = [doubled EXCEPT ![n] = IF active[n] > 0 THEN @ + 1 ELSE @]

ReacquireTimeout(r) ==
    /\ req[r].pc = "reacquire"
    /\ WaitExpired(req[r].at)
    /\ ReleaseAgain(r)
    /\ NextRound(r)
    /\ UNCHANGED acct

CancelledInBackOff(r) ==
    /\ req[r].pc = "backoff"
    /\ ReleaseAgain(r)
    /\ req' = [req EXCEPT ![r].pc = "done", ![r].reply = "cancelled"]
    /\ UNCHANGED acct

\* The client went away or sent parameters upstream refuses: nobody's fault.
OpenRejected(r) ==
    /\ req[r].pc = "open"
    /\ ReleaseLock(req[r].at)
    /\ \E reply \in {"cancelled", "refused"} :
         req' = [req EXCEPT ![r].pc = "done", ![r].reply = reply]
    /\ UNCHANGED <<acct, doubled>>

\* Release first, settle afterwards.
OpenFailed(r) ==
    /\ req[r].pc = "open"
    /\ ReleaseLock(req[r].at)
    /\ \E v \in Verdict \ {"ok"} : req' = [req EXCEPT ![r].pc = "settle", ![r].verdict = v]
    /\ UNCHANGED <<acct, doubled>>

-----------------------------------------------------------------------------
(* The answer: streamOut relays frames, completeChat collects them. *)

\* turnSuccess follows, also after the slot is released.
Answered(r) ==
    /\ req[r].pc = "stream"
    /\ ReleaseLock(req[r].at)
    /\ req' = [req EXCEPT ![r].pc = "settle", ![r].verdict = "ok", ![r].reply = "served"]
    /\ UNCHANGED <<acct, doubled>>

\* Ends the request without a verdict on the account: the client left or, of
\* an answer sent whole, upstream refused its parameters.
AnswerDropped(r) ==
    /\ req[r].pc = "stream"
    /\ ReleaseLock(req[r].at)
    /\ \E reply \in IF req[r].stream THEN {"cancelled"} ELSE {"cancelled", "refused"} :
         req' = [req EXCEPT ![r].pc = "done", ![r].reply = reply]
    /\ UNCHANGED <<acct, doubled>>

\* A stream that breaks is over, part of it is at the client already; an
\* answer that was to be sent whole can still come from another account.
AnswerFailed(r) ==
    /\ req[r].pc = "stream"
    /\ ReleaseLock(req[r].at)
    /\ \/ /\ req[r].stream
          /\ \E v \in {"none", "soft", "model", "errored", "disable", "ban"} :
               req' = [req EXCEPT ![r].pc = "settle", ![r].verdict = v,
                                  ![r].reply = "failed"]
       \/ /\ ~req[r].stream
          /\ \E v \in {"soft", "err"} :
               req' = [req EXCEPT ![r].pc = "settle", ![r].verdict = v]
    /\ UNCHANGED <<acct, doubled>>

-----------------------------------------------------------------------------
(* Settling: turnSuccess, handleUpstreamError, settleTencentKind,           *)
(* settleModelRateLimit.                                                    *)

Settled(a, v, m) ==
    CASE v = "none"    -> a
      [] v = "ok"      -> Succeeded(a)
      [] v = "soft"    -> Cooled(a, "soft", SoftCool)
      [] v = "err"     -> Cooled(a, "err", ErrCool)
      [] v = "hard"    -> Cooled(a, "hard", HardCool)
      [] v = "model"   -> ModelLimited(a, m)
      [] v = "errored" -> Errored(a)
      [] v = "disable" -> Disabled(a)
      [] v = "ban"     -> StickyDisabled(a)

Settle(r) ==
    /\ req[r].pc = "settle"
    /\ acct' = [acct EXCEPT ![req[r].at] = Settled(@, req[r].verdict, req[r].model)]
    /\ req' = [req EXCEPT
                 ![r].at = NoAccount, ![r].verdict = "none",
                 ![r].pc = IF req[r].reply = "pending" THEN "pick" ELSE "done"]
    /\ UNCHANGED <<active, doubled>>

-----------------------------------------------------------------------------
(* Time, and the scheduler's validation of an account in the background.    *)

Tick ==
    /\ acct' = [n \in Accounts |-> Aged(acct[n])]
    /\ UNCHANGED <<active, req, doubled>>

Watchdog(n) ==
    /\ ~ValidationCached(acct[n])
    /\ \E a \in {Revalidated(acct[n]), ValidationNoted(acct[n]), Disabled(acct[n])} :
         acct' = [acct EXCEPT ![n] = a]
    /\ UNCHANGED <<active, req, doubled>>

Step(r) ==
    \/ Pick(r) \/ GiveUp(r)
    \/ TakeSlot(r) \/ SlotTimeout(r)
    \/ Validate(r) \/ Validated(r) \/ ValidationFailed(r)
    \/ Opened(r) \/ OpenRejected(r) \/ OpenFailed(r)
    \/ BackOff(r) \/ BackOffOver(r) \/ CancelledInBackOff(r)
    \/ Reacquired(r) \/ RetriesExhausted(r) \/ ReacquireTimeout(r)
    \/ Answered(r) \/ AnswerDropped(r) \/ AnswerFailed(r)
    \/ Settle(r)

Next ==
    \/ \E r \in Requests : Step(r)
    \/ \E n \in Accounts : Watchdog(n)
    \/ Tick

\* Every request runs in a goroutine of its own and blocks only in calls that
\* have a deadline (AcquireLockWait, the HTTP client's timeouts, the back-off).
Spec == Init /\ [][Next]_vars /\ \A r \in Requests : WF_vars(Step(r))

-----------------------------------------------------------------------------
(* Properties. *)

\* Between a successful AcquireLockWait and the release that goes with it.
Holding == {"validate", "renewing", "open", "stream"}

Holders(n) == {r \in Requests : req[r].at = n /\ req[r].pc \in Holding}

\* Every slot in use has a request that will give it back: no path through
\* the rotation, the back-off or the error handling loses one, which would
\* shut the account down slowly without a trace in its health.
NoSlotLeak == \A n \in Accounts : active[n] <= Cardinality(Holders(n))

\* What a request is to the slots of its account.
Role(r) ==
    CASE req[r].pc = "slot"                    -> "queued"
      [] req[r].pc \in Holding                 -> "holding"
      [] req[r].pc \in {"backoff", "reacquire"} -> "lent"
      [] OTHER                                 -> "away"

At(r) == IF Role(r) = "away" THEN NoAccount ELSE req[r].at

Slots ==
    INSTANCE SlotContract WITH
        role   <- [r \in Requests |-> Role(r)],
        at     <- [r \in Requests |-> At(r)],
        strays <- doubled

\* The counter of Pool keeps the promise of SlotContract: the queue admits a
\* request only while fewer chats run than the account has slots, counting a
\* slot more for each release by a request that held none (which is thus the
\* only way to run more chats than the limit), and nobody is turned away
\* from an account that runs fewer than its limit.
SlotsPromised == Slots!Promised

\* A request that no conversation binds to an account never comes back to an
\* account it has tried: each rotation is a new account.
EachRoundNewAccount ==
    [][\A r \in Requests :
         req[r].sticky = NoAccount /\ req'[r].round > req[r].round =>
             req'[r].at \notin req[r].tried]_vars

\* Every request is answered, one way or another, however upstream behaves.
EveryRequestAnswered == \A r \in Requests : <>(req[r].pc = "done")
=============================================================================
