------------------------- MODULE RequestServingProofs -------------------------
(***************************************************************************)
(* Proofs about RequestServing for every number of accounts, requests,       *)
(* slots, rotations and retries: the types, that no slot leaks, that more     *)
(* chats than slots run on an account only by as many as it had slots         *)
(* released twice, and that the counters implement the contract of the slots. *)
(***************************************************************************)
EXTENDS RequestServing, FiniteSetTheorems, WellFoundedInduction, TLAPS

-----------------------------------------------------------------------------
(* The record of one account. *)

\* A countdown never leaves the naturals.
LEMMA DecType == \A k \in Nat : Dec(k) \in Nat
BY DEF Dec

\* Every health transition of an account yields an account record.
LEMMA TransitionTypes ==
    ASSUME NEW a \in AccountState
    PROVE  /\ Disabled(a) \in AccountState
           /\ StickyDisabled(a) \in AccountState
           /\ Enabled(a) \in AccountState
           /\ LoggedIn(a) \in AccountState
           /\ CooldownCleared(a) \in AccountState
           /\ \A m \in Models : ModelLimited(a, m) \in AccountState
           /\ Errored(a) \in AccountState
           /\ Succeeded(a) \in AccountState
           /\ ValidationNoted(a) \in AccountState
           /\ Revalidated(a) \in AccountState
           /\ Aged(a) \in AccountState
<1> USE DurationsAssumption DEF AccountState, CoolKind
<1>1. Disabled(a) \in AccountState /\ StickyDisabled(a) \in AccountState
      /\ LoggedIn(a) \in AccountState
  BY DEF Disabled, StickyDisabled, LoggedIn
<1>2. Enabled(a) \in AccountState /\ CooldownCleared(a) \in AccountState
  BY DEF Enabled, CooldownCleared, NoModelCools
<1>3. \A m \in Models : ModelLimited(a, m) \in AccountState
  BY DEF ModelLimited
<1>4. Errored(a) \in AccountState
  <2>0. a.errCount \in 0 .. ErrThreshold /\ ErrThreshold \in Nat /\ ErrCool \in Nat
    OBVIOUS
  <2>1. CASE a.errCount + 1 < ErrThreshold
    <3>1. a.errCount + 1 \in 0 .. ErrThreshold
      BY <2>0, <2>1
    <3> QED BY <2>1, <3>1 DEF Errored
  <2>2. CASE ~(a.errCount + 1 < ErrThreshold)
    <3>1. ErrThreshold \in 0 .. ErrThreshold
      BY <2>0
    <3> QED BY <2>0, <2>2, <3>1 DEF Errored
  <2> QED BY <2>1, <2>2
<1>8. Succeeded(a) \in AccountState
  BY DEF Succeeded
<1>5. ValidationNoted(a) \in AccountState
  BY DEF ValidationNoted
<1>6. Revalidated(a) \in AccountState
  BY DEF Revalidated, ValidationNoted
<1>7. Aged(a) \in AccountState
  BY DecType DEF Aged
<1> QED BY <1>1, <1>2, <1>3, <1>4, <1>5, <1>6, <1>7, <1>8

\* A cooldown of a positive length yields an account record.
LEMMA CooledType ==
    ASSUME NEW a \in AccountState, NEW kind \in CoolKind, NEW ticks \in Nat
    PROVE  Cooled(a, kind, ticks) \in AccountState
BY DEF Cooled, AccountState

\* The blank record, and the passage to the state file and back.
LEMMA FileTypes ==
    /\ Fresh \in AccountState
    /\ \A a \in AccountState : Persisted(a) \in PersistedState
    /\ \A p \in PersistedState :
         Restored(p) \in AccountState /\ AgedEntry(p) \in PersistedState
<1> USE DurationsAssumption DEF AccountState, PersistedState, CoolKind
<1>1. Fresh \in AccountState
  BY DEF Fresh, NoModelCools
<1>2. \A a \in AccountState : Persisted(a) \in PersistedState
  BY DEF Persisted
<1>3. \A p \in PersistedState :
        Restored(p) \in AccountState /\ AgedEntry(p) \in PersistedState
  BY DecType DEF Restored, AgedEntry
<1> QED BY <1>1, <1>2, <1>3

-----------------------------------------------------------------------------
(* The picker. *)

\* A non-empty set of naturals has a least member.
LEMMA LeastNat ==
    ASSUME NEW T \in SUBSET Nat, T # {}
    PROVE  \E i \in T : \A j \in T : i <= j
<1>1. PICK i \in T : \A j \in T : ~(<<j, i>> \in OpToRel(<, Nat))
  <2>1. \E x \in T : \A y \in T : ~(<<y, x>> \in OpToRel(<, Nat))
    BY NatLessThanWellFounded, WFMin
  <2> QED BY <2>1
<1>2. ASSUME NEW j \in T PROVE i <= j
  <2>1. ~(j < i)
    BY <1>1 DEF OpToRel
  <2> QED BY <2>1
<1> QED BY <1>2

\* PickForModel hands out an account only if it is healthy and untried, one
\* cooled on the model only if every such account is, and gives up only if
\* there is none.
THEOREM PickIsRight ==
    ASSUME NEW S, NEW order \in Seq(S), NEW state, NEW m, NEW tried, NEW none,
           none \notin S
    PROVE  LET picked == PickForModel(order, state, m, tried, none)
               ready  == {i \in DOMAIN order :
                            order[i] \notin tried /\ Healthy(state[order[i]])}
           IN  /\ picked = none <=> ready = {}
               /\ picked # none =>
                     /\ picked \in S /\ picked \notin tried /\ Healthy(state[picked])
                     /\ ModelCooled(state[picked], m) =>
                           \A i \in ready : ModelCooled(state[order[i]], m)
<1> DEFINE ready == {i \in DOMAIN order :
                       order[i] \notin tried /\ Healthy(state[order[i]])}
           open  == {i \in ready : ~ModelCooled(state[order[i]], m)}
           from  == IF open # {} THEN open ELSE ready
           least == CHOOSE i \in from : \A j \in from : i <= j
<1> HIDE DEF ready
<1>1. ready \subseteq DOMAIN order /\ DOMAIN order \subseteq Nat
  BY DEF ready
<1>2. from = {} <=> ready = {}
  OBVIOUS
<1>3. ASSUME from # {} PROVE least \in from
  <2>1. from \in SUBSET Nat
    BY <1>1
  <2>2. \E i \in from : \A j \in from : i <= j
    BY <1>3, <2>1, LeastNat
  <2> QED BY <2>2
<1>4. PickForModel(order, state, m, tried, none) = IF from = {} THEN none ELSE order[least]
  BY DEF PickForModel, ready
<1>5. ASSUME from # {}
      PROVE  /\ order[least] \in S /\ order[least] # none
             /\ order[least] \notin tried /\ Healthy(state[order[least]])
             /\ ModelCooled(state[order[least]], m) =>
                   \A i \in ready : ModelCooled(state[order[i]], m)
  <2>1. least \in ready
    BY <1>3, <1>5
  <2>2. order[least] \in S
    BY <1>1, <2>1
  <2>3. order[least] \notin tried /\ Healthy(state[order[least]])
    BY <2>1 DEF ready
  <2>4. ASSUME ModelCooled(state[order[least]], m) PROVE open = {}
    BY <1>3, <1>5, <2>4
  <2> QED BY <2>2, <2>3, <2>4
<1> HIDE DEF from, least
<1>6. LET picked == IF from = {} THEN none ELSE order[least]
      IN  /\ picked = none <=> ready = {}
          /\ picked # none =>
                /\ picked \in S /\ picked \notin tried /\ Healthy(state[picked])
                /\ ModelCooled(state[picked], m) =>
                      \A i \in ready : ModelCooled(state[order[i]], m)
  BY <1>2, <1>5
<1> QED BY <1>4, <1>6 DEF ready

-----------------------------------------------------------------------------
(* Types. *)

\* Whom pickAccount chooses is an account or nobody.
LEMMA ChoiceType ==
    ASSUME TypeOK, NEW r \in Requests
    PROVE  /\ Choice(r) \in Accounts \cup {NoAccount}
           /\ req[r].sticky = NoAccount /\ Choice(r) # NoAccount =>
                 Choice(r) \notin req[r].tried
<1> DEFINE p == PickForModel(Order, acct, req[r].model, req[r].tried, NoAccount)
<1>1. p \in Accounts \cup {NoAccount} /\ (p # NoAccount => p \notin req[r].tried)
  <2> HIDE DEF p
  <2>1. p # NoAccount => p \in Accounts /\ p \notin req[r].tried
    BY ServingAssumption, PickIsRight DEF p
  <2> QED BY <2>1
<1>2. req[r].sticky \in Accounts \cup {NoAccount}
  BY DEF TypeOK, Request
<1> HIDE DEF p
<1>3. Choice(r) = IF StaysBound(r) THEN req[r].sticky ELSE p
  BY DEF Choice, p
<1>4. StaysBound(r) => req[r].sticky # NoAccount
  BY DEF StaysBound
<1> QED BY <1>1, <1>2, <1>3, <1>4

\* A request replaced by a well-formed request.
LEMMA RequestReplaced ==
    ASSUME TypeOK, NEW r \in Requests, NEW q \in Request,
           q.pc \notin {"pick", "done"} => q.at \in Accounts,
           req' = [req EXCEPT ![r] = q]
    PROVE  /\ req' \in [Requests -> Request]
           /\ \A s \in Requests :
                req'[s].pc \notin {"pick", "done"} => req'[s].at \in Accounts
BY DEF TypeOK

\* Taking and giving back a slot keep the counters between 0 and the limit.
LEMMA SlotTypes ==
    ASSUME TypeOK, NEW n \in Accounts
    PROVE  /\ Acquire(n) => active' \in [Accounts -> 0 .. MaxConcurrent]
           /\ ReleaseLock(n) => active' \in [Accounts -> 0 .. MaxConcurrent]
<1>1. active[n] \in 0 .. MaxConcurrent /\ MaxConcurrent \in Nat
  BY ServingAssumption DEF TypeOK
<1>2. Dec(active[n]) \in 0 .. MaxConcurrent
  BY <1>1 DEF Dec
<1>3. active[n] < MaxConcurrent => active[n] + 1 \in 0 .. MaxConcurrent
  BY <1>1
<1> QED BY <1>2, <1>3 DEF TypeOK, Acquire, ReleaseLock

\* What a verdict does to an account leaves an account record.
LEMMA SettledType ==
    ASSUME NEW a \in AccountState, NEW v \in Verdict, NEW m \in Models
    PROVE  Settled(a, v, m) \in AccountState
<1>1. /\ SoftCool \in Nat /\ ErrCool \in Nat /\ HardCool \in Nat
      /\ {"soft", "err", "hard"} \subseteq CoolKind
  BY DurationsAssumption DEF CoolKind
<1>2. /\ Cooled(a, "soft", SoftCool) \in AccountState
      /\ Cooled(a, "err", ErrCool) \in AccountState
      /\ Cooled(a, "hard", HardCool) \in AccountState
  BY <1>1, CooledType
<1>3. /\ ModelLimited(a, m) \in AccountState /\ Errored(a) \in AccountState
      /\ Disabled(a) \in AccountState /\ StickyDisabled(a) \in AccountState
      /\ Succeeded(a) \in AccountState
  BY TransitionTypes
<1>4. v \in {"ok", "none", "soft", "err", "hard", "model", "errored", "disable", "ban"}
  BY DEF Verdict
<1> QED BY <1>2, <1>3, <1>4 DEF Settled

\* Every variable keeps its type; in particular a slot counter stays within
\* the limit whatever is released twice.
THEOREM ServingTypes == Spec => []TypeOK
<1>1. Init => TypeOK
  BY ServingAssumption, FileTypes
     DEF Init, TypeOK, Arrived, Request, PC, Verdict, Reply
<1>2. TypeOK /\ [Next]_vars => TypeOK'
  <2> SUFFICES ASSUME TypeOK, [Next]_vars PROVE TypeOK'
    OBVIOUS
  <2> USE ServingAssumption
  <2>1. ASSUME NEW r \in Requests, Step(r) PROVE TypeOK'
    <3> DEFINE n == req[r].at
    <3>0. /\ req[r] \in Request
          /\ req[r].pc \notin {"pick", "done"} => n \in Accounts /\ acct[n] \in AccountState
      BY DEF TypeOK
    <3>a. ASSUME NEW q \in Request, q.pc \notin {"pick", "done"} => q.at \in Accounts,
                 req' = [req EXCEPT ![r] = q],
                 acct' \in [Accounts -> AccountState],
                 active' \in [Accounts -> 0 .. MaxConcurrent],
                 doubled' \in [Accounts -> Nat]
          PROVE  TypeOK'
      BY <3>a, RequestReplaced DEF TypeOK
    <3>b. /\ acct \in [Accounts -> AccountState]
          /\ active \in [Accounts -> 0 .. MaxConcurrent]
          /\ doubled \in [Accounts -> Nat]
      BY DEF TypeOK
    <3>c. ASSUME n \in Accounts, ReleaseLock(n), UNCHANGED <<acct, doubled>>
          PROVE  /\ acct' \in [Accounts -> AccountState]
                 /\ active' \in [Accounts -> 0 .. MaxConcurrent]
                 /\ doubled' \in [Accounts -> Nat]
      BY <3>b, <3>c, SlotTypes
    <3>1. CASE Pick(r)
      <4> DEFINE q == [req[r] EXCEPT
                         !.pc = "slot", !.at = Choice(r), !.round = req[r].round + 1,
                         !.tried = req[r].tried \cup {Choice(r)}, !.retry = 0,
                         !.sticky = IF StaysBound(r) THEN req[r].sticky ELSE NoAccount]
      <4>1. Choice(r) \in Accounts
        BY <3>1, ChoiceType DEF Pick
      <4>2. req[r].round + 1 \in 0 .. MaxRotate /\ 0 \in 0 .. OpenRetries
        BY <3>0, <3>1 DEF Pick, Request
      <4>3. q \in Request /\ q.at \in Accounts
        BY <3>0, <4>1, <4>2 DEF Request, PC
      <4>4. req' = [req EXCEPT ![r] = q]
        BY <3>1 DEF Pick, TypeOK, Request
      <4>5. UNCHANGED <<acct, active, doubled>>
        BY <3>1 DEF Pick
      <4> HIDE DEF q
      <4> QED BY <3>a, <3>b, <4>3, <4>4, <4>5
    <3>2. CASE GiveUp(r)
      BY <3>0, <3>2 DEF GiveUp, TypeOK, Request, PC, Reply
    <3>3. CASE TakeSlot(r)
      BY <3>0, <3>3, SlotTypes DEF TakeSlot, Goto, TypeOK, Request, PC
    <3>4. CASE SlotTimeout(r)
      BY <3>0, <3>4 DEF SlotTimeout, NextRound, TypeOK, Request, PC
    <3>5. CASE Validate(r)
      BY <3>0, <3>5 DEF Validate, Goto, TypeOK, Request, PC
    <3>6. CASE Validated(r)
      <4>1. acct' \in [Accounts -> AccountState]
        BY <3>0, <3>6, TransitionTypes DEF Validated, TypeOK
      <4> QED BY <3>0, <3>6, <4>1 DEF Validated, Goto, TypeOK, Request, PC
    <3>7. CASE ValidationFailed(r)
      <4>1. acct' \in [Accounts -> AccountState]
        BY <3>0, <3>7, TransitionTypes DEF ValidationFailed, TypeOK
      <4> QED BY <3>0, <3>7, <4>1, SlotTypes
              DEF ValidationFailed, NextRound, TypeOK, Request, PC
    <3>8. CASE Opened(r) \/ BackOffOver(r)
      <4>1. PICK pc \in {"stream", "reacquire"} : Goto(r, pc)
        BY <3>8 DEF Opened, BackOffOver
      <4> DEFINE q == [req[r] EXCEPT !.pc = pc]
      <4>2. q \in Request /\ q.at \in Accounts
        BY <3>0, <3>8 DEF Opened, BackOffOver, Request, PC
      <4>3. req' = [req EXCEPT ![r] = q]
        BY <4>1 DEF Goto, TypeOK, Request
      <4>4. UNCHANGED <<acct, active, doubled>>
        BY <3>8 DEF Opened, BackOffOver
      <4> HIDE DEF q
      <4> QED BY <3>a, <3>b, <4>2, <4>3, <4>4
    <3>9. CASE BackOff(r)
      <4> DEFINE q == [req[r] EXCEPT !.pc = "backoff"]
      <4>1. n \in Accounts /\ ReleaseLock(n) /\ UNCHANGED <<acct, doubled>>
        BY <3>0, <3>9 DEF BackOff
      <4>2. q \in Request /\ q.at \in Accounts
        BY <3>0, <4>1 DEF Request, PC
      <4>3. req' = [req EXCEPT ![r] = q]
        BY <3>9 DEF BackOff, Goto, TypeOK, Request
      <4> HIDE DEF q
      <4> QED BY <3>a, <3>c, <4>1, <4>2, <4>3
    <3>10. CASE Reacquired(r)
      <4>1. req[r].retry + 1 \in 0 .. OpenRetries
        BY <3>0, <3>10 DEF Reacquired, Request
      <4> QED BY <3>0, <3>10, <4>1, SlotTypes DEF Reacquired, TypeOK, Request, PC
    <3>11. CASE RetriesExhausted(r)
      BY <3>0, <3>11 DEF RetriesExhausted, NextRound, TypeOK, Request, PC
    <3>12. ASSUME ReleaseAgain(r), n \in Accounts
           PROVE  /\ active' \in [Accounts -> 0 .. MaxConcurrent]
                  /\ doubled' \in [Accounts -> Nat]
      BY <3>12, SlotTypes DEF ReleaseAgain, TypeOK
    <3>13. CASE ReacquireTimeout(r)
      BY <3>0, <3>12, <3>13 DEF ReacquireTimeout, NextRound, TypeOK, Request, PC
    <3>14. CASE CancelledInBackOff(r)
      BY <3>0, <3>12, <3>14 DEF CancelledInBackOff, TypeOK, Request, PC, Reply
    <3>15. CASE OpenRejected(r)
      <4>1. PICK reply \in {"cancelled", "refused"} :
              req' = [req EXCEPT ![r].pc = "done", ![r].reply = reply]
        BY <3>15 DEF OpenRejected
      <4> DEFINE q == [req[r] EXCEPT !.pc = "done", !.reply = reply]
      <4>2. q \in Request /\ q.pc = "done"
        BY <3>0 DEF Request, PC, Reply
      <4>3. req' = [req EXCEPT ![r] = q]
        BY <4>1 DEF TypeOK, Request
      <4>4. n \in Accounts /\ ReleaseLock(n) /\ UNCHANGED <<acct, doubled>>
        BY <3>0, <3>15 DEF OpenRejected
      <4> HIDE DEF q
      <4> QED BY <3>a, <3>c, <4>2, <4>3, <4>4
    <3>16. CASE OpenFailed(r)
      <4>1. PICK v \in Verdict :
              req' = [req EXCEPT ![r].pc = "settle", ![r].verdict = v]
        BY <3>16 DEF OpenFailed
      <4> DEFINE q == [req[r] EXCEPT !.pc = "settle", !.verdict = v]
      <4>2. n \in Accounts /\ ReleaseLock(n) /\ UNCHANGED <<acct, doubled>>
        BY <3>0, <3>16 DEF OpenFailed
      <4>3. q \in Request /\ q.at \in Accounts
        BY <3>0, <4>2 DEF Request, PC
      <4>4. req' = [req EXCEPT ![r] = q]
        BY <4>1 DEF TypeOK, Request
      <4> HIDE DEF q
      <4> QED BY <3>a, <3>c, <4>2, <4>3, <4>4
    <3>17. CASE Answered(r)
      <4> DEFINE q == [req[r] EXCEPT !.pc = "settle", !.verdict = "ok", !.reply = "served"]
      <4>1. n \in Accounts /\ ReleaseLock(n) /\ UNCHANGED <<acct, doubled>>
        BY <3>0, <3>17 DEF Answered
      <4>2. q \in Request /\ q.at \in Accounts
        BY <3>0, <4>1 DEF Request, PC, Reply, Verdict
      <4>3. req' = [req EXCEPT ![r] = q]
        BY <3>17 DEF Answered, TypeOK, Request
      <4> HIDE DEF q
      <4> QED BY <3>a, <3>c, <4>1, <4>2, <4>3
    <3>18. CASE AnswerDropped(r)
      <4>1. PICK reply \in {"cancelled", "refused"} :
              req' = [req EXCEPT ![r].pc = "done", ![r].reply = reply]
        BY <3>18 DEF AnswerDropped
      <4> DEFINE q == [req[r] EXCEPT !.pc = "done", !.reply = reply]
      <4>2. q \in Request /\ q.pc = "done"
        BY <3>0 DEF Request, PC, Reply
      <4>3. req' = [req EXCEPT ![r] = q]
        BY <4>1 DEF TypeOK, Request
      <4>4. n \in Accounts /\ ReleaseLock(n) /\ UNCHANGED <<acct, doubled>>
        BY <3>0, <3>18 DEF AnswerDropped
      <4> HIDE DEF q
      <4> QED BY <3>a, <3>c, <4>2, <4>3, <4>4
    <3>19. CASE AnswerFailed(r)
      <4>1. PICK v \in Verdict, reply \in Reply :
              req' = [req EXCEPT ![r] = [req[r] EXCEPT !.pc = "settle", !.verdict = v,
                                                       !.reply = reply]]
        <5>1. CASE req[r].stream
          <6>1. PICK v \in Verdict :
                  req' = [req EXCEPT ![r].pc = "settle", ![r].verdict = v,
                                     ![r].reply = "failed"]
            BY <3>19, <5>1 DEF AnswerFailed, Verdict
          <6> QED BY <6>1 DEF TypeOK, Request, Reply
        <5>2. CASE ~req[r].stream
          <6>1. PICK v \in Verdict :
                  req' = [req EXCEPT ![r].pc = "settle", ![r].verdict = v]
            BY <3>19, <5>2 DEF AnswerFailed, Verdict
          <6>2. req[r].reply \in Reply
                /\ [req[r] EXCEPT !.pc = "settle", !.verdict = v]
                   = [req[r] EXCEPT !.pc = "settle", !.verdict = v, !.reply = req[r].reply]
            BY <3>0 DEF Request
          <6>3. req' = [req EXCEPT ![r] = [req[r] EXCEPT !.pc = "settle", !.verdict = v]]
            BY <6>1 DEF TypeOK, Request
          <6> QED BY <6>2, <6>3
        <5> QED BY <5>1, <5>2
      <4> DEFINE q == [req[r] EXCEPT !.pc = "settle", !.verdict = v, !.reply = reply]
      <4>2. n \in Accounts /\ ReleaseLock(n) /\ UNCHANGED <<acct, doubled>>
        BY <3>0, <3>19 DEF AnswerFailed
      <4>3. q \in Request /\ q.at \in Accounts
        BY <3>0, <4>2 DEF Request, PC
      <4>4. req' = [req EXCEPT ![r] = q]
        BY <4>1
      <4> HIDE DEF q
      <4> QED BY <3>a, <3>c, <4>2, <4>3, <4>4
    <3>20. CASE Settle(r)
      <4>1. Settled(acct[n], req[r].verdict, req[r].model) \in AccountState
        BY <3>0, <3>20, SettledType DEF Settle, Request
      <4>2. acct' \in [Accounts -> AccountState]
        BY <3>0, <3>20, <4>1 DEF Settle, TypeOK
      <4> QED BY <3>0, <3>20, <4>2 DEF Settle, TypeOK, Request, PC, Verdict
    <3> QED BY <2>1, <3>1, <3>2, <3>3, <3>4, <3>5, <3>6, <3>7, <3>8, <3>9, <3>10,
               <3>11, <3>13, <3>14, <3>15, <3>16, <3>17, <3>18, <3>19, <3>20 DEF Step
  <2>2. ASSUME NEW n \in Accounts, Watchdog(n) PROVE TypeOK'
    <3>1. acct[n] \in AccountState
      BY DEF TypeOK
    <3>2. acct' \in [Accounts -> AccountState]
      BY <2>2, <3>1, TransitionTypes DEF Watchdog, TypeOK
    <3> QED BY <2>2, <3>2 DEF Watchdog, TypeOK
  <2>3. CASE Tick
    <3>1. acct' \in [Accounts -> AccountState]
      BY <2>3, TransitionTypes DEF Tick, TypeOK
    <3> QED BY <2>3, <3>1 DEF Tick, TypeOK
  <2>4. CASE UNCHANGED vars
    BY <2>4 DEF vars, TypeOK
  <2> QED BY <2>1, <2>2, <2>3, <2>4 DEF Next
<1> QED BY <1>1, <1>2, PTL DEF Spec

-----------------------------------------------------------------------------
(* Slots. *)

\* Of an account with h holders: what the two slot invariants say together.
Accounted(n) ==
    /\ active[n] <= Cardinality(Holders(n))
    /\ Cardinality(Holders(n)) <= active[n] + doubled[n]

LEMMA HoldersFinite ==
    \A n : IsFiniteSet(Holders(n)) /\ Cardinality(Holders(n)) \in Nat
<1> SUFFICES ASSUME NEW n
             PROVE  IsFiniteSet(Holders(n)) /\ Cardinality(Holders(n)) \in Nat
  OBVIOUS
<1>1. Holders(n) \in SUBSET Requests /\ IsFiniteSet(Requests)
  BY ServingAssumption DEF Holders
<1>2. IsFiniteSet(Holders(n))
  BY <1>1, FS_Subset
<1> QED BY <1>2, FS_CardinalityType

\* A step of one request moves nobody else in or out of the holders.
LEMMA HoldersStep ==
    ASSUME NEW r \in Requests, NEW n,
           \A s \in Requests \ {r} : req'[s] = req[s]
    PROVE  Holders(n)' = IF req'[r].at = n /\ req'[r].pc \in Holding
                         THEN Holders(n) \cup {r} ELSE Holders(n) \ {r}
BY DEF Holders

LEMMA CountersAreNaturals ==
    ASSUME TypeOK, NEW k \in Accounts
    PROVE  active[k] \in Nat /\ doubled[k] \in Nat
<1>1. MaxConcurrent \in Nat
  BY ServingAssumption
<1>2. active[k] \in 0 .. MaxConcurrent /\ doubled[k] \in Nat
  BY DEF TypeOK
<1> QED BY <1>1, <1>2

\* A request that takes a slot joins the holders of its account.
LEMMA Joining ==
    ASSUME TypeOK, NEW r \in Requests, NEW n \in Accounts,
           req[r].pc \notin Holding, req'[r].pc \in Holding, req'[r].at = n,
           \A s \in Requests \ {r} : req'[s] = req[s],
           Acquire(n), UNCHANGED doubled, NEW k \in Accounts, Accounted(k)
    PROVE  Accounted(k)'
<1>0. /\ active[k] \in Nat /\ doubled[k] \in Nat /\ Cardinality(Holders(k)) \in Nat
      /\ IsFiniteSet(Holders(k)) /\ r \notin Holders(k)
  <2>1. r \notin Holders(k)
    BY DEF Holders
  <2> QED BY <2>1, HoldersFinite, CountersAreNaturals
<1>1. CASE k = n
  <2>1. Cardinality(Holders(k)') = Cardinality(Holders(k)) + 1
    BY <1>0, <1>1, HoldersStep, FS_AddElement
  <2>2. active'[k] = active[k] + 1 /\ doubled'[k] = doubled[k]
    BY <1>1 DEF Acquire, TypeOK
  <2> QED BY <1>0, <2>1, <2>2 DEF Accounted
<1>2. CASE k # n
  <2>1. Holders(k)' = Holders(k)
    BY <1>0, <1>2, HoldersStep
  <2>2. active'[k] = active[k] /\ doubled'[k] = doubled[k]
    BY <1>2 DEF Acquire, TypeOK
  <2> QED BY <2>1, <2>2 DEF Accounted
<1> QED BY <1>1, <1>2

\* A holder that releases leaves them, even if another release came first.
LEMMA Leaving ==
    ASSUME TypeOK, NEW r \in Requests, NEW n \in Accounts,
           req[r].at = n, req[r].pc \in Holding, req'[r].pc \notin Holding,
           \A s \in Requests \ {r} : req'[s] = req[s],
           ReleaseLock(n), UNCHANGED doubled, NEW k \in Accounts, Accounted(k)
    PROVE  Accounted(k)'
<1>0. /\ active[k] \in Nat /\ doubled[k] \in Nat /\ Cardinality(Holders(k)) \in Nat
      /\ IsFiniteSet(Holders(k)) /\ (r \in Holders(k) <=> k = n)
  <2>1. r \in Holders(k) <=> k = n
    BY DEF Holders
  <2> QED BY <2>1, HoldersFinite, CountersAreNaturals
<1>1. CASE k = n
  <2>1. Cardinality(Holders(k)') = Cardinality(Holders(k)) - 1
    BY <1>0, <1>1, HoldersStep, FS_RemoveElement
  <2>2. active'[k] = Dec(active[k]) /\ doubled'[k] = doubled[k]
    BY <1>1 DEF ReleaseLock, TypeOK
  <2>3. Cardinality(Holders(k)) # 0
    BY <1>0, <1>1, FS_EmptySet
  <2> QED BY <1>0, <2>1, <2>2, <2>3 DEF Accounted, Dec
<1>2. CASE k # n
  <2>1. Holders(k)' = Holders(k)
    BY <1>0, <1>2, HoldersStep
  <2>2. active'[k] = active[k] /\ doubled'[k] = doubled[k]
    BY <1>2 DEF ReleaseLock, TypeOK
  <2> QED BY <2>1, <2>2 DEF Accounted
<1> QED BY <1>1, <1>2

\* A release by a request that holds nothing is counted.
LEMMA ReleasingAgain ==
    ASSUME TypeOK, NEW r \in Requests, req[r].at \in Accounts,
           req[r].pc \notin Holding, req'[r].pc \notin Holding,
           \A s \in Requests \ {r} : req'[s] = req[s],
           ReleaseAgain(r), NEW k \in Accounts, Accounted(k)
    PROVE  Accounted(k)'
<1> DEFINE n == req[r].at
<1>0. /\ active[k] \in Nat /\ doubled[k] \in Nat /\ Cardinality(Holders(k)) \in Nat
      /\ r \notin Holders(k)
  <2>1. r \notin Holders(k)
    BY DEF Holders
  <2> QED BY <2>1, HoldersFinite, CountersAreNaturals
<1>1. Holders(k)' = Holders(k)
  BY <1>0, HoldersStep
<1>2. CASE k = n
  <2>1. /\ active'[k] = Dec(active[k])
        /\ doubled'[k] = IF active[k] > 0 THEN doubled[k] + 1 ELSE doubled[k]
    BY <1>2 DEF ReleaseAgain, ReleaseLock, TypeOK
  <2> QED BY <1>0, <1>1, <2>1 DEF Accounted, Dec
<1>3. CASE k # n
  <2>1. active'[k] = active[k] /\ doubled'[k] = doubled[k]
    BY <1>3 DEF ReleaseAgain, ReleaseLock, TypeOK
  <2> QED BY <1>1, <2>1 DEF Accounted
<1> QED BY <1>2, <1>3

\* Any other step of a request.
LEMMA Staying ==
    ASSUME TypeOK, NEW r \in Requests,
           \/ req[r].pc \notin Holding /\ req'[r].pc \notin Holding
           \/ /\ req[r].pc \in Holding /\ req'[r].pc \in Holding
              /\ req'[r].at = req[r].at,
           \A s \in Requests \ {r} : req'[s] = req[s],
           UNCHANGED <<active, doubled>>, NEW k \in Accounts, Accounted(k)
    PROVE  Accounted(k)'
<1>1. Holders(k)' = Holders(k)
  BY HoldersStep DEF Holders
<1> QED BY <1>1 DEF Accounted

\* The slot counter of an account is never above the number of requests that
\* will release it, and below it by at most the releases made twice.
THEOREM SlotsAccounted ==
    Spec => [](\A n \in Accounts : Accounted(n))
<1> DEFINE I == \A n \in Accounts : Accounted(n)
<1>1. Init => I
  <2> SUFFICES ASSUME Init, NEW n \in Accounts PROVE Accounted(n)
    OBVIOUS
  <2>1. Holders(n) = {}
    BY DEF Init, Holders, Arrived, Holding
  <2> QED BY <2>1, FS_EmptySet DEF Init, Accounted
<1>2. TypeOK /\ I /\ [Next]_vars => I'
  <2> SUFFICES ASSUME TypeOK, I, [Next]_vars, NEW k \in Accounts PROVE Accounted(k)'
    OBVIOUS
  <2>0. Accounted(k)
    OBVIOUS
  <2>1. ASSUME NEW r \in Requests, Step(r) PROVE Accounted(k)'
    <3>0. /\ req[r].pc \notin {"pick", "done"} => req[r].at \in Accounts
          /\ req \in [Requests -> Request]
      BY DEF TypeOK
    <3>1. CASE TakeSlot(r) \/ Reacquired(r)
      <4>1. /\ req[r].pc \notin Holding /\ req'[r].pc \in Holding
            /\ req[r].at \in Accounts /\ req'[r].at = req[r].at
            /\ \A s \in Requests \ {r} : req'[s] = req[s]
            /\ Acquire(req[r].at) /\ UNCHANGED doubled
        BY <3>0, <3>1 DEF TakeSlot, Reacquired, Goto, Holding, Request
      <4> QED BY <2>0, <4>1, Joining
    <3>2. CASE ValidationFailed(r) \/ BackOff(r) \/ Answered(r)
      <4>1. /\ req[r].pc \in Holding /\ req'[r].pc \notin Holding
            /\ req[r].at \in Accounts
            /\ \A s \in Requests \ {r} : req'[s] = req[s]
            /\ ReleaseLock(req[r].at) /\ UNCHANGED doubled
        BY <3>0, <3>2 DEF ValidationFailed, BackOff, Answered, NextRound, Goto,
                          Holding, Request
      <4> QED BY <2>0, <4>1, Leaving
    <3>3. CASE OpenRejected(r) \/ OpenFailed(r) \/ AnswerDropped(r) \/ AnswerFailed(r)
      <4>1. /\ req[r].pc \in {"open", "stream"} /\ req'[r].pc \in {"done", "settle"}
            /\ \A s \in Requests \ {r} : req'[s] = req[s]
        BY <3>0, <3>3 DEF OpenRejected, OpenFailed, AnswerDropped, AnswerFailed, Request
      <4>2. ReleaseLock(req[r].at) /\ UNCHANGED doubled
        BY <3>3 DEF OpenRejected, OpenFailed, AnswerDropped, AnswerFailed
      <4>3. req[r].pc \in Holding /\ req'[r].pc \notin Holding /\ req[r].at \in Accounts
        BY <3>0, <4>1 DEF Holding
      <4> QED BY <2>0, <4>1, <4>2, <4>3, Leaving
    <3>4. CASE ReacquireTimeout(r) \/ CancelledInBackOff(r)
      <4>1. /\ req[r].pc \notin Holding /\ req'[r].pc \notin Holding
            /\ req[r].at \in Accounts
            /\ \A s \in Requests \ {r} : req'[s] = req[s]
            /\ ReleaseAgain(r)
        BY <3>0, <3>4 DEF ReacquireTimeout, CancelledInBackOff, NextRound, Holding, Request
      <4> QED BY <2>0, <4>1, ReleasingAgain
    <3>5. CASE Pick(r) \/ GiveUp(r) \/ SlotTimeout(r) \/ Settle(r)
               \/ BackOffOver(r) \/ RetriesExhausted(r)
      <4>1. /\ req[r].pc \notin Holding /\ req'[r].pc \notin Holding
            /\ \A s \in Requests \ {r} : req'[s] = req[s]
            /\ UNCHANGED <<active, doubled>>
        BY <3>0, <3>5 DEF Pick, GiveUp, SlotTimeout, Settle, BackOffOver,
                          RetriesExhausted, NextRound, Goto, Holding, Request
      <4> QED BY <2>0, <4>1, Staying
    <3>6. CASE Validate(r) \/ Validated(r) \/ Opened(r)
      <4>1. /\ req[r].pc \in Holding /\ req'[r].pc \in Holding
            /\ req'[r].at = req[r].at
            /\ \A s \in Requests \ {r} : req'[s] = req[s]
            /\ UNCHANGED <<active, doubled>>
        BY <3>0, <3>6 DEF Validate, Validated, Opened, Goto, Holding, Request
      <4> QED BY <2>0, <4>1, Staying
    <3> QED BY <2>1, <3>1, <3>2, <3>3, <3>4, <3>5, <3>6 DEF Step
  <2>2. CASE (\E n \in Accounts : Watchdog(n)) \/ Tick \/ UNCHANGED vars
    <3>1. UNCHANGED <<active, req, doubled>>
      BY <2>2 DEF Watchdog, Tick, vars
    <3> QED BY <2>0, <3>1 DEF Accounted, Holders
  <2> QED BY <2>1, <2>2 DEF Next
<1> QED BY <1>1, <1>2, ServingTypes, PTL DEF Spec

\* No path through the rotation, the back-off or the error handling loses a
\* slot: every slot in use has a request that will give it back.
THEOREM SlotsNeverLeak == Spec => []NoSlotLeak
<1>1. (\A n \in Accounts : Accounted(n)) => NoSlotLeak
  BY DEF NoSlotLeak, Accounted
<1> QED BY <1>1, SlotsAccounted, PTL

\* More chats than slots run on an account only after a release by a request
\* that held nothing (openStream's back-off and serveWithAccounts' error path).
THEOREM OverCommitExplained ==
    Spec => [](\A n \in Accounts :
                 Cardinality(Holders(n)) <= MaxConcurrent + doubled[n])
<1> DEFINE Limit == \A n \in Accounts :
                      Cardinality(Holders(n)) <= MaxConcurrent + doubled[n]
<1>1. TypeOK /\ (\A n \in Accounts : Accounted(n)) => Limit
  <2> SUFFICES ASSUME TypeOK, NEW n \in Accounts, Accounted(n)
               PROVE  Cardinality(Holders(n)) <= MaxConcurrent + doubled[n]
    OBVIOUS
  <2>1. active[n] \in Nat /\ active[n] <= MaxConcurrent /\ doubled[n] \in Nat
    BY CountersAreNaturals, ServingAssumption DEF TypeOK
  <2> QED BY <2>1, HoldersFinite, ServingAssumption DEF Accounted
<1> HIDE DEF Limit
<1>2. Spec => []Limit
  BY <1>1, ServingTypes, SlotsAccounted, PTL
<1> QED BY <1>2 DEF Limit

\* Without a binding, every round of a request is at an account it has not
\* tried.
THEOREM RoundsAdvance == Spec => EachRoundNewAccount
<1>1. TypeOK /\ [Next]_vars =>
        [\A r \in Requests :
            req[r].sticky = NoAccount /\ req'[r].round > req[r].round =>
                req'[r].at \notin req[r].tried]_vars
  <2> SUFFICES ASSUME TypeOK, Next, NEW r \in Requests,
                      req[r].sticky = NoAccount, req'[r].round > req[r].round
               PROVE  req'[r].at \notin req[r].tried
    OBVIOUS
  <2>0. req \in [Requests -> Request] /\ \A s \in Requests : req[s].round \in Int
    BY ServingAssumption DEF TypeOK, Request
  <2>1. ASSUME NEW s \in Requests, Step(s) PROVE Pick(r)
    <3>1. ASSUME GiveUp(s) \/ TakeSlot(s) \/ SlotTimeout(s) \/ Validate(s) \/ Validated(s)
          PROVE  req'[r].round = req[r].round
      BY <2>0, <3>1 DEF GiveUp, TakeSlot, SlotTimeout, Validate, Validated, Goto,
                        NextRound, Request
    <3>2. ASSUME ValidationFailed(s) \/ Opened(s) \/ OpenRejected(s) \/ OpenFailed(s)
          PROVE  req'[r].round = req[r].round
      BY <2>0, <3>2 DEF ValidationFailed, Opened, OpenRejected, OpenFailed, Goto,
                        NextRound, Request
    <3>3. ASSUME BackOff(s) \/ BackOffOver(s) \/ CancelledInBackOff(s) \/ Reacquired(s)
                 \/ RetriesExhausted(s) \/ ReacquireTimeout(s)
          PROVE  req'[r].round = req[r].round
      BY <2>0, <3>3 DEF BackOff, BackOffOver, CancelledInBackOff, Reacquired,
                        RetriesExhausted, ReacquireTimeout, Goto, NextRound, Request
    <3>4. ASSUME Answered(s) \/ AnswerDropped(s) \/ AnswerFailed(s) \/ Settle(s)
          PROVE  req'[r].round = req[r].round
      BY <2>0, <3>4 DEF Answered, AnswerDropped, AnswerFailed, Settle, Goto, NextRound,
                        Request
    <3>5. ASSUME Pick(s), s # r
          PROVE  req'[r].round = req[r].round
      BY <2>0, <3>5 DEF Pick, Request
    <3>6. req[r].round \in Int /\ req'[r].round # req[r].round
      BY <2>0
    <3> QED BY <2>1, <3>1, <3>2, <3>3, <3>4, <3>5, <3>6 DEF Step
  <2>2. CASE (\E n \in Accounts : Watchdog(n)) \/ Tick
    BY <2>0, <2>2 DEF Watchdog, Tick
  <2>3. CASE Pick(r)
    <3>1. req'[r].at = Choice(r) /\ Choice(r) # NoAccount
      BY <2>0, <2>3 DEF Pick, Request
    <3> QED BY <3>1, ChoiceType
  <2> QED BY <2>1, <2>2, <2>3 DEF Next
<1> QED BY <1>1, ServingTypes, PTL DEF Spec, EachRoundNewAccount
-----------------------------------------------------------------------------
(* The contract of the slots. *)

\* The state of SlotContract that a state of the requests stands for.
Roles == [r \in Requests |-> Role(r)]
Ats   == [r \in Requests |-> At(r)]

LEMMA RoleIs ==
    ASSUME NEW r \in Requests
    PROVE  /\ Role(r) = "queued" <=> req[r].pc = "slot"
           /\ Role(r) = "holding" <=> req[r].pc \in Holding
           /\ Role(r) = "lent" <=> req[r].pc \in {"backoff", "reacquire"}
           /\ Role(r) \in {"queued", "holding", "lent", "away"}
BY DEF Role, Holding

\* The contract's holders are the requests between a successful
\* AcquireLockWait and the release that goes with it.
LEMMA HeldAre == \A n : Slots!Held(n) = Holders(n)
<1> SUFFICES ASSUME NEW n, NEW r \in Requests
             PROVE  Ats[r] = n /\ Roles[r] = "holding" <=>
                      req[r].at = n /\ req[r].pc \in Holding
  BY DEF Slots!Held, Holders, Roles, Ats
<1> QED BY RoleIs DEF Roles, Ats, At

\* A step of one request is a step of one role.
LEMMA Becoming ==
    ASSUME NEW r \in Requests, \A s \in Requests \ {r} : req'[s] = req[s],
           NEW from, NEW to, Role(r) \in from, Role(r)' = to,
           to # "away" => Role(r) # "away" /\ req'[r].at = req[r].at
    PROVE  Slots!Becomes(r, from, to)
<1>1. /\ Roles' = [Roles EXCEPT ![r] = to]
      /\ Ats' = [Ats EXCEPT ![r] = At(r)']
  <2>1. \A s \in Requests \ {r} : Role(s)' = Role(s) /\ At(s)' = At(s)
    BY DEF Role, At
  <2>2. /\ Roles' = [s \in Requests |-> Role(s)']
        /\ Ats' = [s \in Requests |-> At(s)']
    BY DEF Roles, Ats
  <2> QED BY <2>1, <2>2 DEF Roles, Ats
<1>2. At(r)' = IF to = "away" THEN NoAccount ELSE At(r)
  BY DEF At
<1>3. [Ats EXCEPT ![r] = At(r)] = Ats
  BY DEF Ats
<1>4. Ats' = IF to = "away" THEN [Ats EXCEPT ![r] = NoAccount] ELSE Ats
  BY <1>1, <1>2, <1>3
<1>5. Roles[r] \in from
  BY DEF Roles
<1> QED BY <1>1, <1>4, <1>5 DEF Slots!Becomes, Roles, Ats

\* Other steps of a request leave the slots alone.
LEMMA NotSeen ==
    ASSUME NEW r \in Requests, \A s \in Requests \ {r} : req'[s] = req[s],
           Role(r)' = Role(r), At(r)' = At(r), UNCHANGED doubled
    PROVE  UNCHANGED Slots!slots
<1>1. Roles' = Roles /\ Ats' = Ats
  BY DEF Roles, Ats, Role, At
<1> QED BY <1>1 DEF Slots!slots, Roles, Ats

\* Where the counter is below the limit there is room; where it has reached
\* the limit, the account is full.
LEMMA CounterIsRight ==
    ASSUME TypeOK, NEW n \in Accounts, Accounted(n)
    PROVE  /\ active[n] < MaxConcurrent => Slots!Room(n)
           /\ active[n] >= MaxConcurrent => Slots!Full(n)
           /\ active[n] > 0 => Slots!Held(n) # {}
<1>1. /\ active[n] \in Nat /\ doubled[n] \in Nat /\ MaxConcurrent \in Nat
      /\ Cardinality(Holders(n)) \in Nat
  BY CountersAreNaturals, HoldersFinite, ServingAssumption
<1>2. Slots!Held(n) = Holders(n)
  BY HeldAre
<1>3. active[n] < MaxConcurrent => Cardinality(Holders(n)) < MaxConcurrent + doubled[n]
  BY <1>1 DEF Accounted
<1>4. active[n] >= MaxConcurrent => Cardinality(Holders(n)) >= MaxConcurrent
  BY <1>1 DEF Accounted
<1>6. Slots!Cardinality(Holders(n)) = Cardinality(Holders(n))
  BY DEF Slots!Cardinality, Cardinality
<1>5. active[n] > 0 => Holders(n) # {}
  BY <1>1, FS_EmptySet DEF Accounted
<1> QED BY <1>2, <1>3, <1>4, <1>5, <1>6 DEF Slots!Room, Slots!Full

\* In a state whose slots are accounted for, every step is one the contract
\* allows, or none of its business.
LEMMA ContractStep ==
    ASSUME TypeOK, \A n \in Accounts : Accounted(n), [Next]_vars
    PROVE  [Slots!SlotNext]_(Slots!slots)
<1>1. ASSUME NEW r \in Requests, Step(r) PROVE [Slots!SlotNext]_(Slots!slots)
  <2> DEFINE n == req[r].at
  <2>0. /\ req[r].pc \notin {"pick", "done"} => n \in Accounts
        /\ req \in [Requests -> Request] /\ doubled \in [Accounts -> Nat]
        /\ active \in [Accounts -> 0 .. MaxConcurrent]
    BY DEF TypeOK
  <2>a. Role(r) # "away" => Ats[r] = n
    BY DEF Ats, At
  <2>1. CASE Pick(r)
    <3>1. /\ Choice(r) \in Accounts
          /\ req[r].pc = "pick" /\ req'[r].pc = "slot" /\ req'[r].at = Choice(r)
          /\ \A s \in Requests \ {r} : req'[s] = req[s]
          /\ UNCHANGED doubled
      BY <2>0, <2>1, ChoiceType DEF Pick, Request
    <3>2. Role(r) = "away" /\ Role(r)' = "queued"
      BY <3>1 DEF Role, Holding
    <3>3. At(r)' = Choice(r)
      BY <3>1, <3>2 DEF At
    <3>4. \A s \in Requests \ {r} : Role(s)' = Role(s) /\ At(s)' = At(s)
      BY <3>1 DEF Role, At
    <3>5. /\ Roles' = [s \in Requests |-> Role(s)']
          /\ Ats' = [s \in Requests |-> At(s)']
      BY DEF Roles, Ats
    <3>6. /\ Roles' = [Roles EXCEPT ![r] = "queued"]
          /\ Ats' = [Ats EXCEPT ![r] = Choice(r)]
      BY <3>2, <3>3, <3>4, <3>5 DEF Roles, Ats
    <3>7. Roles[r] = "away"
      BY <3>2 DEF Roles
    <3>8. Slots!Ask(r)
      BY <3>1, <3>6, <3>7 DEF Slots!Ask, Roles, Ats
    <3> QED BY <3>8 DEF Slots!SlotNext
  <2>2. CASE TakeSlot(r) \/ Reacquired(r)
    <3>1. /\ req[r].pc \in {"slot", "reacquire"} /\ req'[r].pc \in Holding
          /\ req'[r].at = n /\ active[n] < MaxConcurrent
          /\ \A s \in Requests \ {r} : req'[s] = req[s]
          /\ UNCHANGED doubled
      BY <2>0, <2>2 DEF TakeSlot, Reacquired, Acquire, Goto, Holding, Request
    <3>2. Role(r) \in {"queued", "lent"} /\ Role(r)' = "holding"
      BY <3>1 DEF Role, Holding
    <3>3. Slots!Becomes(r, {"queued", "lent"}, "holding")
      BY <3>1, <3>2, Becoming
    <3>4. Slots!Room(n)
      BY <2>0, <3>1, CounterIsRight
    <3>5. Slots!Grant(r)
      BY <2>a, <3>1, <3>2, <3>3, <3>4 DEF Slots!Grant, Ats
    <3> QED BY <3>5 DEF Slots!SlotNext
  <2>3. CASE SlotTimeout(r)
    <3>1. /\ req[r].pc = "slot" /\ req'[r].pc = "pick"
          /\ active[n] >= MaxConcurrent
          /\ \A s \in Requests \ {r} : req'[s] = req[s]
          /\ UNCHANGED doubled
      BY <2>0, <2>3 DEF SlotTimeout, WaitExpired, NextRound, Request
    <3>2. Role(r) = "queued" /\ Role(r)' = "away"
      BY <3>1 DEF Role, Holding
    <3>3. Slots!Becomes(r, {"queued"}, "away")
      BY <3>1, <3>2, Becoming
    <3>4. Slots!Full(n)
      BY <2>0, <3>1, CounterIsRight
    <3>5. Slots!Refuse(r)
      BY <2>a, <3>1, <3>2, <3>3, <3>4 DEF Slots!Refuse, Ats
    <3> QED BY <3>5 DEF Slots!SlotNext
  <2>4. CASE BackOff(r)
    <3>1. /\ req[r].pc = "open" /\ req'[r].pc = "backoff" /\ req'[r].at = n
          /\ \A s \in Requests \ {r} : req'[s] = req[s]
          /\ UNCHANGED doubled
      BY <2>0, <2>4 DEF BackOff, Goto, Request
    <3>2. Role(r) = "holding" /\ Role(r)' = "lent"
      BY <3>1 DEF Role, Holding
    <3>3. Slots!Becomes(r, {"holding"}, "lent")
      BY <3>1, <3>2, Becoming
    <3> QED BY <3>1, <3>3 DEF Slots!Lend, Slots!SlotNext
  <2>5. CASE \/ ValidationFailed(r) \/ OpenRejected(r) \/ OpenFailed(r)
             \/ Answered(r) \/ AnswerDropped(r) \/ AnswerFailed(r)
    <3>1. /\ req[r].pc \in Holding /\ req'[r].pc \in {"pick", "done", "settle"}
          /\ \A s \in Requests \ {r} : req'[s] = req[s]
          /\ UNCHANGED doubled
      <4>1. CASE ValidationFailed(r) \/ Answered(r)
        BY <2>0, <4>1 DEF ValidationFailed, Answered, NextRound, Holding, Request
      <4>2. CASE OpenRejected(r) \/ OpenFailed(r)
        BY <2>0, <4>2 DEF OpenRejected, OpenFailed, Holding, Request
      <4>3. CASE AnswerDropped(r) \/ AnswerFailed(r)
        BY <2>0, <4>3 DEF AnswerDropped, AnswerFailed, Holding, Request
      <4> QED BY <2>5, <4>1, <4>2, <4>3
    <3>2. Role(r) = "holding" /\ Role(r)' = "away"
      BY <3>1 DEF Role, Holding
    <3>3. Slots!Becomes(r, {"holding"}, "away")
      BY <3>1, <3>2, Becoming
    <3> QED BY <3>1, <3>3 DEF Slots!GiveBack, Slots!SlotNext
  <2>6. CASE ReacquireTimeout(r) \/ CancelledInBackOff(r) \/ RetriesExhausted(r)
    <3>1. /\ req[r].pc \in {"backoff", "reacquire"} /\ req'[r].pc \in {"pick", "done"}
          /\ \A s \in Requests \ {r} : req'[s] = req[s]
      BY <2>0, <2>6 DEF ReacquireTimeout, CancelledInBackOff, RetriesExhausted,
                        NextRound, Request
    <3>2. Role(r) = "lent" /\ Role(r)' = "away"
      BY <3>1 DEF Role, Holding
    <3>3. Slots!Becomes(r, {"lent"}, "away")
      BY <3>1, <3>2, Becoming
    <3>4. \/ UNCHANGED doubled
          \/ Slots!Held(n) # {} /\ doubled' = [doubled EXCEPT ![n] = @ + 1]
      <4>1. CASE RetriesExhausted(r)
        BY <4>1 DEF RetriesExhausted
      <4>2. CASE ReleaseAgain(r) /\ active[n] > 0
        <5>1. Slots!Held(n) # {}
          BY <2>0, <3>1, <4>2, CounterIsRight
        <5> QED BY <4>2, <5>1 DEF ReleaseAgain
      <4>3. CASE ReleaseAgain(r) /\ ~(active[n] > 0)
        BY <2>0, <4>3 DEF ReleaseAgain
      <4> QED BY <2>6, <4>1, <4>2, <4>3 DEF ReacquireTimeout, CancelledInBackOff
    <3>5. Ats[r] = n
      BY <2>a, <3>2
    <3>6. Slots!Abandon(r)
      BY <3>3, <3>4, <3>5 DEF Slots!Abandon, Ats
    <3> QED BY <3>6 DEF Slots!SlotNext
  <2>7. CASE \/ GiveUp(r) \/ Settle(r) \/ BackOffOver(r)
             \/ Validate(r) \/ Validated(r) \/ Opened(r)
    <3>1. /\ \A s \in Requests \ {r} : req'[s] = req[s]
          /\ UNCHANGED doubled
          /\ \/ req[r].pc \in {"pick", "settle"} /\ req'[r].pc \in {"pick", "done"}
             \/ /\ req'[r].at = n
                /\ \/ req[r].pc = "backoff" /\ req'[r].pc = "reacquire"
                   \/ req[r].pc \in Holding /\ req'[r].pc \in Holding
      <4>1. CASE GiveUp(r) \/ Settle(r)
        BY <2>0, <4>1 DEF GiveUp, Settle, Request
      <4>2. CASE BackOffOver(r) \/ Opened(r)
        BY <2>0, <4>2 DEF BackOffOver, Opened, Goto, Holding, Request
      <4>3. CASE Validate(r) \/ Validated(r)
        BY <2>0, <4>3 DEF Validate, Validated, Goto, Holding, Request
      <4> QED BY <2>7, <4>1, <4>2, <4>3
    <3>2. Role(r)' = Role(r) /\ (Role(r) # "away" => req'[r].at = n)
      BY <3>1 DEF Role, Holding
    <3>3. At(r)' = At(r)
      BY <3>2 DEF At
    <3>4. UNCHANGED Slots!slots
      BY <3>1, <3>2, <3>3, NotSeen
    <3> QED BY <3>4
  <2> QED BY <1>1, <2>1, <2>2, <2>3, <2>4, <2>5, <2>6, <2>7 DEF Step
<1>2. CASE (\E n \in Accounts : Watchdog(n)) \/ Tick \/ UNCHANGED vars
  <2>1. UNCHANGED <<req, doubled>>
    BY <1>2 DEF Watchdog, Tick, vars
  <2>2. \A r \in Requests : Role(r)' = Role(r) /\ At(r)' = At(r)
    BY <2>1 DEF Role, At
  <2>3. /\ Roles' = [s \in Requests |-> Role(s)']
        /\ Ats' = [s \in Requests |-> At(s)']
    BY DEF Roles, Ats
  <2>4. Roles' = Roles /\ Ats' = Ats
    BY <2>2, <2>3 DEF Roles, Ats
  <2>5. UNCHANGED Slots!slots
    BY <2>1, <2>4 DEF Slots!slots, Roles, Ats
  <2> QED BY <2>5
<1> QED BY <1>1, <1>2 DEF Next

\* The requests and the counters of Pool implement the contract of the slots:
\* a slot is granted only where there is room, refused only where there is
\* none, and only a stray release makes room for one more.
THEOREM SlotsKept == Spec => SlotsPromised
<1> DEFINE I == \A n \in Accounts : Accounted(n)
<1>1. Init => Slots!SlotInit
  <2> SUFFICES ASSUME Init PROVE Slots!SlotInit
    OBVIOUS
  <2>1. \A r \in Requests : req[r].pc = "pick"
    BY DEF Init, Arrived
  <2>2. \A r \in Requests : Role(r) = "away" /\ At(r) = NoAccount
    BY <2>1 DEF Role, At, Holding
  <2> QED BY <2>2 DEF Init, Slots!SlotInit
<1>2. Spec => []I
  BY SlotsAccounted
<1>3. TypeOK /\ I /\ [Next]_vars => [Slots!SlotNext]_(Slots!slots)
  BY ContractStep
<1> HIDE DEF I
<1> QED BY <1>1, <1>2, <1>3, ServingTypes, PTL DEF Spec, SlotsPromised, Slots!Promised
=============================================================================
