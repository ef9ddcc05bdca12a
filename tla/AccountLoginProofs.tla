-------------------------- MODULE AccountLoginProofs --------------------------
(***************************************************************************)
(* Proofs about AccountLogin, for any number of handlers and sessions and   *)
(* any setting of the guard: failed logins cannot go on unnoticed, and the   *)
(* pause they lead to holds.                                                *)
(***************************************************************************)
EXTENDS AccountLogin, TLAPS, FiniteSetTheorems, WellFoundedInduction

USE LoginGuardAssumption, LoginAssumption

-----------------------------------------------------------------------------
(* Sliding windows. *)

\* A non-empty set of positions has a last one.
LEMMA LastPosition ==
    ASSUME NEW k \in Nat, NEW T \in SUBSET (1 .. k), T # {}
    PROVE  \E i \in T : \A j \in T : j <= i
  <1> DEFINE R == {d \in 0 .. k : \E i \in T : d = k - i}
  <1>1. R \in SUBSET Nat
    OBVIOUS
  <1>2. R # {}
    <2>1. PICK i \in T : TRUE
      OBVIOUS
    <2>2. k - i \in R
      BY <2>1
    <2> QED
      BY <2>2
  <1>3. PICK d \in R : \A e \in R : ~(<<e, d>> \in OpToRel(<, Nat))
    <2> HIDE DEF R
    <2>1. \E d \in R : \A e \in R : ~(<<e, d>> \in OpToRel(<, Nat))
      BY <1>1, <1>2, NatLessThanWellFounded, WFMin
    <2> QED
      BY <2>1
  <1>4. PICK i \in T : d = k - i
    BY <1>3
  <1>5. ASSUME NEW j \in T
        PROVE  j <= i
    <2>1. k - j \in R /\ d \in Nat /\ k - j \in Nat
      OBVIOUS
    <2>2. ~(k - j < d)
      BY <2>1, <1>3 DEF OpToRel
    <2> QED
      BY <2>1, <2>2, <1>4
  <1> QED
    BY <1>5

\* How much one tick removes from a list of stamps: a prefix that ends in a
\* stamp that is over, and no stamp behind it is.
LEMMA PrefixIsOver ==
    ASSUME NEW n \in Nat, NEW h \in Seq(1 .. n)
    PROVE  \E k \in 0 .. Len(h) :
              /\ k > 0 => h[k] <= 1
              /\ \A i \in k + 1 .. Len(h) : h[i] > 1
              /\ WindowAged(h) = [i \in 1 .. Len(h) - k |-> h[i + k] - 1]
  <1> DEFINE over == WindowOver(h)
             k    == Max(over \cup {0})
  <1>1. over \in SUBSET (1 .. Len(h)) /\ Len(h) \in Nat
    BY DEF WindowOver
  <1>2. PICK m \in over \cup {0} : \A j \in over \cup {0} : m >= j
    <2> HIDE DEF over
    <2>1. CASE over = {}
      BY <2>1
    <2>2. CASE over # {}
      <3>1. PICK i \in over : \A j \in over : j <= i
        BY <2>2, <1>1, LastPosition
      <3> QED
        BY <3>1, <1>1
    <2> QED
      BY <2>1, <2>2
  <1>3. k \in over \cup {0} /\ \A j \in over \cup {0} : k >= j
    <2> HIDE DEF over
    <2> QED
      BY <1>2 DEF Max
  <1>4. WindowAged(h) = [i \in 1 .. Len(h) - k |-> h[i + k] - 1]
    BY DEF WindowAged
  <1> HIDE DEF k
  <1>5. k \in 0 .. Len(h)
    BY <1>1, <1>3
  <1>6. k > 0 => h[k] <= 1
    BY <1>1, <1>3 DEF WindowOver
  <1>7. ASSUME NEW i \in k + 1 .. Len(h)
        PROVE  h[i] > 1
    <2>1. i \notin over
      BY <1>1, <1>3, <1>5
    <2>2. i \in DOMAIN h /\ h[i] \in 1 .. n
      BY <1>5
    <2> QED
      BY <2>1, <2>2 DEF WindowOver
  <1> QED
    BY <1>4, <1>5, <1>6, <1>7

\* Stamps in order of age, oldest first.
OldestFirst(h) == \A i, j \in DOMAIN h : i <= j => h[i] <= h[j]

\* One tick leaves a list of stamps that still count, in order, no longer than
\* before.
LEMMA WindowKept ==
    ASSUME NEW n \in Nat, NEW h \in Seq(1 .. n)
    PROVE  /\ WindowAged(h) \in Seq(1 .. n)
           /\ Len(WindowAged(h)) <= Len(h)
           /\ OldestFirst(h) => OldestFirst(WindowAged(h))
  <1>1. PICK k \in 0 .. Len(h) :
              /\ \A i \in k + 1 .. Len(h) : h[i] > 1
              /\ WindowAged(h) = [i \in 1 .. Len(h) - k |-> h[i + k] - 1]
    BY PrefixIsOver
  <1> DEFINE l == Len(h) - k
  <1>2. l \in Nat /\ l <= Len(h)
    OBVIOUS
  <1>3. \A i \in 1 .. l : i + k \in DOMAIN h /\ i + k \in k + 1 .. Len(h) /\ h[i + k] \in 1 .. n
    OBVIOUS
  <1>4. \A i \in 1 .. l : h[i + k] - 1 \in 1 .. n
    BY <1>1, <1>3
  <1>5. WindowAged(h) \in Seq(1 .. n) /\ Len(WindowAged(h)) = l
    BY <1>1, <1>2, <1>4
  <1>6. ASSUME OldestFirst(h), NEW i \in 1 .. l, NEW j \in 1 .. l, i <= j
        PROVE  h[i + k] - 1 <= h[j + k] - 1
    <2> DEFINE a == i + k
               b == j + k
    <2>1. a \in DOMAIN h /\ b \in DOMAIN h /\ a <= b /\ h[a] \in 1 .. n /\ h[b] \in 1 .. n
      BY <1>3, <1>6
    <2> HIDE DEF a, b
    <2>2. h[a] <= h[b]
      BY <2>1, <1>6 DEF OldestFirst
    <2>3. h[a] - 1 <= h[b] - 1
      BY <2>1, <2>2
    <2> QED
      BY <2>3 DEF a, b
  <1> QED
    BY <1>1, <1>2, <1>5, <1>6 DEF OldestFirst

\* pruneLocked looks at every stamp and keeps those inside the window.  On a
\* list in order, dropping a prefix is the same: what goes is over, what stays is
\* not, and it stays in its order.
THEOREM PruneDropsWhatIsOver ==
    ASSUME NEW n \in Nat, NEW h \in Seq(1 .. n), OldestFirst(h)
    PROVE  \E k \in 0 .. Len(h) :
              /\ \A i \in DOMAIN h : h[i] <= 1 <=> i <= k
              /\ WindowAged(h) = [i \in 1 .. Len(h) - k |-> h[i + k] - 1]
  <1>1. PICK k \in 0 .. Len(h) :
              /\ k > 0 => h[k] <= 1
              /\ \A i \in k + 1 .. Len(h) : h[i] > 1
              /\ WindowAged(h) = [i \in 1 .. Len(h) - k |-> h[i + k] - 1]
    BY PrefixIsOver
  <1>2. ASSUME NEW i \in DOMAIN h
        PROVE  h[i] <= 1 <=> i <= k
    <2>1. CASE i <= k
      <3>1. k > 0 /\ k \in DOMAIN h /\ h[i] <= h[k] /\ h[k] \in 1 .. n /\ h[i] \in 1 .. n
        BY <2>1 DEF OldestFirst
      <3> QED
        BY <2>1, <3>1, <1>1
    <2>2. CASE ~(i <= k)
      <3>1. i \in k + 1 .. Len(h) /\ h[i] \in 1 .. n
        BY <2>2
      <3> QED
        BY <2>2, <3>1, <1>1
    <2> QED
      BY <2>1, <2>2
  <1> QED
    BY <1>1, <1>2

-----------------------------------------------------------------------------
(* The part of a guard the proofs are about. *)

Guard(g) ==
    /\ DOMAIN g = {"history", "waitLeft", "open", "openLeft", "streak", "coolLeft"}
    /\ g.open \in BOOLEAN
    /\ g.streak \in 0 .. FailureThreshold - 1
    /\ g.coolLeft \in Nat

\* Starts the guard knows of: the failures it counted and the one still open.
Counted(g) == g.streak + (IF g.open THEN 1 ELSE 0)

\* A failure keeps the shape of the guard; it is counted, or the pause begins.
LEMMA FailureIsCounted ==
    ASSUME NEW g, Guard(g)
    PROVE  /\ Guard(FailureNoted(g))
           /\ FailureNoted(g).open = g.open
           /\ \/ FailureNoted(g).coolLeft > 0
              \/ FailureNoted(g).streak = g.streak + 1
           /\ g.coolLeft > 0 => FailureNoted(g).coolLeft > 0
  BY DEF Guard, FailureNoted

\* A login that timed out moves from "open" to "failed", none disappears.
LEMMA SettledKeepsCount ==
    ASSUME NEW g, Guard(g)
    PROVE  /\ Guard(LoginSettled(g))
           /\ \/ LoginSettled(g).coolLeft > 0
              \/ Counted(LoginSettled(g)) >= Counted(g)
  <1> DEFINE c == [g EXCEPT !.open = FALSE]
  <1>1. Guard(c) /\ c.open = FALSE /\ c.streak = g.streak
    BY DEF Guard
  <1>2. LoginSettled(g) = IF g.open /\ g.openLeft = 0 THEN FailureNoted(c) ELSE g
    BY DEF LoginSettled
  <1> HIDE DEF c
  <1> QED
    BY <1>1, <1>2, FailureIsCounted DEF Guard, Counted

\* A start is counted as open; one that was open before becomes a failure.
LEMMA StartIsCounted ==
    ASSUME NEW g, Guard(g)
    PROVE  /\ Guard(StartRecorded(g, SessionTTL))
           /\ \/ StartRecorded(g, SessionTTL).coolLeft > 0
              \/ Counted(StartRecorded(g, SessionTTL)) >= Counted(g) + 1
           /\ g.coolLeft > 0 => StartRecorded(g, SessionTTL).coolLeft > 0
  <1>1. CASE g.open
    <2> DEFINE f == FailureNoted(g)
    <2>1. StartRecorded(g, SessionTTL) =
              [f EXCEPT !.history = Append(g.history, LoginWindow),
                        !.waitLeft = MinInterval, !.open = TRUE, !.openLeft = SessionTTL]
      BY <1>1 DEF StartRecorded
    <2>2. /\ Guard(f)
          /\ f.coolLeft > 0 \/ f.streak = g.streak + 1
          /\ g.coolLeft > 0 => f.coolLeft > 0
      BY FailureIsCounted
    <2> HIDE DEF f
    <2> QED
      BY <1>1, <2>1, <2>2 DEF Guard, Counted
  <1>2. CASE ~g.open
    <2>1. StartRecorded(g, SessionTTL) =
              [g EXCEPT !.history = Append(g.history, LoginWindow),
                        !.waitLeft = MinInterval, !.open = TRUE, !.openLeft = SessionTTL]
      BY <1>2 DEF StartRecorded
    <2> QED
      BY <1>2, <2>1 DEF Guard, Counted
  <1> QED
    BY <1>1, <1>2

\* A reported failure is counted, whichever login was open.
LEMMA FailedIsCounted ==
    ASSUME NEW g, Guard(g)
    PROVE  /\ Guard(FailedRecorded(g))
           /\ \/ FailedRecorded(g).coolLeft > 0
              \/ Counted(FailedRecorded(g)) >= Counted(g)
  <1> DEFINE c == [g EXCEPT !.open = FALSE, !.openLeft = 0]
  <1>1. Guard(c) /\ c.open = FALSE /\ c.streak = g.streak
    BY DEF Guard
  <1>2. FailedRecorded(g) = FailureNoted(c)
    BY DEF FailedRecorded
  <1> HIDE DEF c
  <1> QED
    BY <1>1, <1>2, FailureIsCounted DEF Guard, Counted

\* A success closes the login and forgets the failures.
LEMMA DoneKeepsPause ==
    ASSUME NEW g, Guard(g)
    PROVE  Guard(DoneRecorded(g)) /\ DoneRecorded(g).coolLeft = g.coolLeft
  BY DEF Guard, DoneRecorded

\* Time changes nothing that is counted.
LEMMA AgeingKeepsCount ==
    ASSUME NEW g, Guard(g)
    PROVE  Guard(GuardAged(g)) /\ Counted(GuardAged(g)) = Counted(g)
  <1>1. GuardDec(g.coolLeft) \in Nat
    BY DEF Guard, GuardDec
  <1> QED
    BY <1>1 DEF GuardAged, Guard, Counted

-----------------------------------------------------------------------------
(* No failed login escapes the count. *)

\* Inductive: while the channel is not paused, every start since the last
\* success is either counted as a failure or is the open one.
CountInv ==
    /\ Guard(guard)
    /\ unfinished \in Nat
    /\ unfinished <= Counted(guard)

LEMMA CountInvInit == Init => CountInv
  BY DEF Init, CountInv, Guard, Counted, NewLoginGuard

\* Whatever the guard becomes, the count follows if it lost no start.
LEMMA BecomesKeepsCount ==
    ASSUME CountInv, NEW g, Guard(g), Becomes(g),
           g.coolLeft > 0 \/ Counted(g) >= Counted(guard)
    PROVE  CountInv'
  BY DEF CountInv, Becomes, Guard, Counted

LEMMA RecordStartKeepsCount ==
    ASSUME CountInv, RecordStart
    PROVE  CountInv'
  <1> DEFINE g == StartRecorded(guard, SessionTTL)
  <1>1. Guard(g) /\ (g.coolLeft > 0 \/ Counted(g) >= Counted(guard) + 1)
    BY StartIsCounted DEF CountInv
  <1>2. guard' = g /\ unfinished' = IF g.coolLeft > 0 THEN 0 ELSE unfinished + 1
    BY DEF RecordStart
  <1> HIDE DEF g
  <1> QED
    BY <1>1, <1>2 DEF CountInv, Guard, Counted

LEMMA RecordDoneKeepsCount ==
    ASSUME CountInv, RecordDone
    PROVE  CountInv'
  <1>1. Guard(DoneRecorded(guard))
    BY DoneKeepsPause DEF CountInv
  <1> QED
    BY <1>1 DEF CountInv, RecordDone, Guard, Counted

LEMMA RecordFailedKeepsCount ==
    ASSUME CountInv, RecordFailed
    PROVE  CountInv'
  BY FailedIsCounted, BecomesKeepsCount DEF RecordFailed, CountInv

LEMMA CountInvStep == CountInv /\ [Next]_vars => CountInv'
  <1> SUFFICES ASSUME CountInv, [Next]_vars
               PROVE  CountInv'
    OBVIOUS
  <1>1. ASSUME UNCHANGED <<guard, unfinished>>
        PROVE  CountInv'
    BY <1>1 DEF CountInv
  <1>2. ASSUME NEW c \in Handlers, TryStart(c)
        PROVE  CountInv'
    <2>1. Becomes(LoginSettled(guard))
      BY <1>2 DEF TryStart, StartAllowed, StartRefused
    <2> QED
      BY <2>1, SettledKeepsCount, BecomesKeepsCount DEF CountInv
  <1>3. ASSUME NEW c \in Handlers, Proceed(c)
        PROVE  CountInv'
    <2>1. CASE StartNoted(c)
      BY <2>1, RecordStartKeepsCount DEF StartNoted
    <2>2. CASE TokenFailed(c) \/ TicketNotSaved(c) \/ ExchangeFailed(c)
      BY <2>2, RecordFailedKeepsCount DEF TokenFailed, TicketNotSaved, ExchangeFailed
    <2>3. CASE DeviceLoggedIn(c) \/ TicketLoggedIn(c) \/ CallbackLoggedIn(c)
      BY <2>3, RecordDoneKeepsCount DEF DeviceLoggedIn, TicketLoggedIn, CallbackLoggedIn
    <2>4. CASE \/ StartAborted(c) \/ PollInVain(c) \/ TokenGranted(c) \/ CallbackNotSaved(c)
               \/ \E id \in Ids : SessionKept(c, id)
      BY <2>4, <1>1
         DEF StartAborted, PollInVain, TokenGranted, CallbackNotSaved, SessionKept
    <2> QED
      BY <1>3, <2>1, <2>2, <2>3, <2>4 DEF Proceed
  <1>4. ASSUME NEW c \in Handlers, Look(c)
        PROVE  CountInv'
    BY <1>4, <1>1 DEF Look, DevicePoll, TicketPoll, ResultFetched, Callback
  <1>5. CASE Tick
    BY <1>5, AgeingKeepsCount, BecomesKeepsCount DEF Tick, CountInv, Guard, Counted
  <1>6. CASE UNCHANGED vars
    BY <1>6, <1>1 DEF vars
  <1> QED
    BY <1>2, <1>3, <1>4, <1>5, <1>6 DEF Next

\* For any number of concurrent starts, polls and callbacks: FailureThreshold
\* authorisations without a success pause the channel.
THEOREM StormIsCounted == Spec => []RetryStormStops
  <1>1. CountInv => RetryStormStops
    BY DEF CountInv, RetryStormStops, Guard, Counted
  <1> QED
    BY CountInvInit, CountInvStep, <1>1, PTL DEF Spec

-----------------------------------------------------------------------------
(* The pause holds. *)

\* Inductive: a start past the gate is either still under way or, if the pause
\* has begun meanwhile, counted as late.
PauseInv ==
    /\ Guard(guard)
    /\ DOMAIN call = Handlers
    /\ late \in Nat
    /\ late > 0 => guard.coolLeft > 0
    /\ late + Cardinality(InFlight) <= Cardinality(Handlers)

LEMMA InFlightFinite ==
    /\ IsFiniteSet(Handlers)
    /\ Cardinality(Handlers) \in Nat
    /\ IsFiniteSet(InFlight)
    /\ Cardinality(InFlight) \in Nat
    /\ Cardinality(InFlight) <= Cardinality(Handlers)
  BY FS_Subset, FS_CardinalityType DEF InFlight

LEMMA PauseInvInit == Init => PauseInv
  BY InFlightFinite DEF Init, PauseInv, Guard, NewLoginGuard

\* Handlers that leave the start alone, as seen by the count of starts.
LEMMA OthersNotCounted ==
    ASSUME PauseInv, NEW c \in Handlers, NEW pc, NEW id, Enter(c, pc, id),
           pc \in {"starting", "kept"} => c \in InFlight
    PROVE  /\ DOMAIN call' = Handlers
           /\ InFlight' \subseteq InFlight
           /\ Cardinality(InFlight') \in Nat
           /\ Cardinality(InFlight') <= Cardinality(InFlight)
  <1>1. DOMAIN call' = Handlers /\ InFlight' \subseteq InFlight
    BY DEF PauseInv, Enter, InFlight
  <1> QED
    BY <1>1, InFlightFinite, FS_Subset, FS_CardinalityType

LEMMA ReturnNotCounted ==
    ASSUME PauseInv, NEW c \in Handlers, Return(c)
    PROVE  /\ DOMAIN call' = Handlers
           /\ InFlight' = InFlight \ {c}
           /\ Cardinality(InFlight') \in Nat
           /\ Cardinality(InFlight') =
                  IF c \in InFlight THEN Cardinality(InFlight) - 1 ELSE Cardinality(InFlight)
  <1>1. DOMAIN call' = Handlers /\ InFlight' = InFlight \ {c}
    BY DEF PauseInv, Return, Idle, InFlight
  <1> QED
    BY <1>1, InFlightFinite, FS_RemoveElement, FS_CardinalityType

\* What happens to the guard never hides a late start.
LEMMA GuardStepKeepsPause ==
    ASSUME PauseInv,
           \/ \E g : Guard(g) /\ Becomes(g)
           \/ RecordDone
           \/ UNCHANGED <<guard, late>>
    PROVE  /\ Guard(guard')
           /\ late' \in Nat
           /\ late' > 0 => guard'.coolLeft > 0
           /\ late' <= late
  BY DoneKeepsPause DEF PauseInv, Becomes, RecordDone, Guard

LEMMA PauseInvStep == PauseInv /\ [Next]_vars => PauseInv'
  <1> SUFFICES ASSUME PauseInv, [Next]_vars
               PROVE  PauseInv'
    OBVIOUS
  <1>1. ASSUME \/ \E g : Guard(g) /\ Becomes(g)
               \/ RecordDone
               \/ UNCHANGED <<guard, late>>,
               DOMAIN call' = Handlers,
               Cardinality(InFlight') \in Nat,
               Cardinality(InFlight') <= Cardinality(InFlight)
        PROVE  PauseInv'
    BY <1>1, GuardStepKeepsPause, InFlightFinite DEF PauseInv
  <1>2. ASSUME UNCHANGED call
        PROVE  /\ DOMAIN call' = Handlers
               /\ Cardinality(InFlight') \in Nat
               /\ Cardinality(InFlight') <= Cardinality(InFlight)
    <2>1. InFlight' = InFlight
      BY <1>2 DEF InFlight
    <2> QED
      BY <1>2, <2>1, InFlightFinite DEF PauseInv
  <1>3. Guard(LoginSettled(guard)) /\ Guard(FailedRecorded(guard)) /\ Guard(GuardAged(guard))
    BY SettledKeepsCount, FailedIsCounted, AgeingKeepsCount DEF PauseInv
  <1>4. ASSUME NEW c \in Handlers, StartAllowed(c)
        PROVE  PauseInv'
    <2>1. DOMAIN call' = Handlers
      BY <1>4 DEF StartAllowed, Enter, PauseInv
    <2>2. LoginSettled(guard).coolLeft = 0 /\ Becomes(LoginSettled(guard))
      BY <1>4 DEF StartAllowed, Gate
    <2>3. late' = 0 /\ guard' = LoginSettled(guard)
      BY <2>2 DEF Becomes
    <2>4. Cardinality(InFlight') \in Nat /\ Cardinality(InFlight') <= Cardinality(Handlers)
      BY InFlightFinite, FS_Subset, FS_CardinalityType DEF InFlight
    <2> QED
      BY <1>3, <2>1, <2>3, <2>4, InFlightFinite DEF PauseInv
  <1>5. ASSUME NEW c \in Handlers, StartRefused(c)
        PROVE  PauseInv'
    BY <1>5, <1>1, <1>2, <1>3 DEF StartRefused
  <1>6. ASSUME NEW c \in Handlers, NEW id \in Ids, SessionKept(c, id)
        PROVE  PauseInv'
    <2>1. c \in InFlight /\ Enter(c, "kept", NoId) /\ UNCHANGED <<guard, late>>
      BY <1>6 DEF SessionKept, At, InFlight
    <2> QED
      BY <2>1, <1>1, OthersNotCounted
  <1>7. ASSUME NEW c \in Handlers, StartNoted(c)
        PROVE  PauseInv'
    <2> DEFINE g == StartRecorded(guard, SessionTTL)
    <2>1. c \in InFlight /\ Return(c)
      BY <1>7 DEF StartNoted, At, InFlight
    <2>2. guard' = g /\ late' = IF g.coolLeft > 0 THEN late + 1 ELSE 0
      BY <1>7 DEF StartNoted, RecordStart
    <2>3. Guard(g)
      BY StartIsCounted DEF PauseInv
    <2> HIDE DEF g
    <2> QED
      BY <2>1, <2>2, <2>3, ReturnNotCounted, InFlightFinite DEF PauseInv, Guard
  <1>8. ASSUME NEW c \in Handlers,
               \/ StartAborted(c) \/ PollInVain(c) \/ TokenFailed(c) \/ DeviceLoggedIn(c)
               \/ TicketNotSaved(c) \/ TicketLoggedIn(c)
               \/ ExchangeFailed(c) \/ CallbackNotSaved(c) \/ CallbackLoggedIn(c)
        PROVE  PauseInv'
    <2>1. Return(c)
      BY <1>8 DEF StartAborted, PollInVain, TokenFailed, DeviceLoggedIn, TicketNotSaved,
                  TicketLoggedIn, ExchangeFailed, CallbackNotSaved, CallbackLoggedIn
    <2>2. RecordFailed \/ RecordDone \/ UNCHANGED <<guard, late>>
      BY <1>8 DEF StartAborted, PollInVain, TokenFailed, DeviceLoggedIn, TicketNotSaved,
                  TicketLoggedIn, ExchangeFailed, CallbackNotSaved, CallbackLoggedIn
    <2> QED
      BY <2>1, <2>2, <1>1, <1>3, ReturnNotCounted, InFlightFinite DEF RecordFailed
  <1>9. ASSUME NEW c \in Handlers,
               \/ TokenGranted(c)
               \/ \E id \in Ids : DevicePoll(c, id) \/ TicketPoll(c, id) \/ Callback(c, id)
        PROVE  PauseInv'
    <2>1. /\ UNCHANGED <<guard, late>>
          /\ \E pc \in {"account", "token", "ticket", "exchange"} :
                \E id : Enter(c, pc, id)
      BY <1>9 DEF TokenGranted, DevicePoll, TicketPoll, Callback
    <2> QED
      BY <2>1, <1>1, OthersNotCounted
  <1>10. ASSUME NEW c \in Handlers, NEW id \in Ids, ResultFetched(c, id)
         PROVE  PauseInv'
    BY <1>10, <1>1, <1>2 DEF ResultFetched
  <1>11. CASE Tick
    BY <1>11, <1>1, <1>2, <1>3 DEF Tick
  <1>12. CASE UNCHANGED vars
    BY <1>12, <1>1, <1>2 DEF vars
  <1> QED
    BY <1>4, <1>5, <1>6, <1>7, <1>8, <1>9, <1>10, <1>11, <1>12
       DEF Next, TryStart, Proceed, Look

\* For any number of handlers: after the pause has begun, no start comes
\* through that was not already past the gate.
THEOREM PauseKept == Spec => []PauseHolds
  <1>1. PauseInv => PauseHolds
    BY DEF PauseInv, PauseHolds
  <1> QED
    BY PauseInvInit, PauseInvStep, <1>1, PTL DEF Spec

-----------------------------------------------------------------------------
(* Types, the order of the starts, and the cap per window. *)

LEMMA FailureNotedType ==
    ASSUME NEW g \in GuardState
    PROVE  FailureNoted(g) \in GuardState /\ FailureNoted(g).history = g.history
  <1>1. CASE g.streak + 1 < FailureThreshold
    <2>1. g.streak + 1 \in 0 .. FailureThreshold - 1
      BY <1>1 DEF GuardState
    <2> QED
      BY <1>1, <2>1 DEF GuardState, FailureNoted
  <1>2. CASE ~(g.streak + 1 < FailureThreshold)
    <2>1. 0 \in 0 .. FailureThreshold - 1
      OBVIOUS
    <2> QED
      BY <1>2, <2>1 DEF GuardState, FailureNoted
  <1> QED
    BY <1>1, <1>2

\* Every method of the guard yields a guard.  Only recordStart adds to the
\* history, one start, and only the clock takes from it.
LEMMA GuardTypes ==
    ASSUME NEW g \in GuardState
    PROVE  /\ LoginSettled(g) \in GuardState /\ LoginSettled(g).history = g.history
           /\ DoneRecorded(g) \in GuardState /\ DoneRecorded(g).history = g.history
           /\ FailedRecorded(g) \in GuardState /\ FailedRecorded(g).history = g.history
           /\ StartRecorded(g, SessionTTL) \in GuardState
           /\ StartRecorded(g, SessionTTL).history = Append(g.history, LoginWindow)
           /\ GuardAged(g) \in GuardState /\ GuardAged(g).history = WindowAged(g.history)
  <1>1. LoginSettled(g) \in GuardState /\ LoginSettled(g).history = g.history
    <2> DEFINE c == [g EXCEPT !.open = FALSE]
    <2>1. c \in GuardState /\ c.history = g.history
      BY DEF GuardState
    <2> HIDE DEF c
    <2>2. FailureNoted(c) \in GuardState /\ FailureNoted(c).history = g.history
      BY <2>1, FailureNotedType
    <2> QED
      BY <2>2 DEF LoginSettled, c
  <1>2. DoneRecorded(g) \in GuardState /\ DoneRecorded(g).history = g.history
    <2>1. 0 \in 0 .. FailureThreshold - 1
      OBVIOUS
    <2> QED
      BY <2>1 DEF DoneRecorded, GuardState
  <1>3. FailedRecorded(g) \in GuardState /\ FailedRecorded(g).history = g.history
    <2> DEFINE c == [g EXCEPT !.open = FALSE, !.openLeft = 0]
    <2>1. c \in GuardState /\ c.history = g.history
      BY DEF GuardState
    <2> HIDE DEF c
    <2>2. FailureNoted(c) \in GuardState /\ FailureNoted(c).history = g.history
      BY <2>1, FailureNotedType
    <2> QED
      BY <2>2 DEF FailedRecorded, c
  <1>4. /\ StartRecorded(g, SessionTTL) \in GuardState
        /\ StartRecorded(g, SessionTTL).history = Append(g.history, LoginWindow)
    <2> DEFINE f == IF g.open THEN FailureNoted(g) ELSE g
    <2>1. f \in GuardState
      BY FailureNotedType
    <2>2. g.history \in Seq(1 .. LoginWindow) /\ LoginWindow \in 1 .. LoginWindow
      BY DEF GuardState
    <2>3. Append(g.history, LoginWindow) \in Seq(1 .. LoginWindow)
      BY <2>2
    <2>4. StartRecorded(g, SessionTTL) =
              [f EXCEPT !.history = Append(g.history, LoginWindow),
                        !.waitLeft = MinInterval, !.open = TRUE, !.openLeft = SessionTTL]
      BY DEF StartRecorded
    <2> HIDE DEF f
    <2> QED
      BY <2>1, <2>3, <2>4 DEF GuardState
  <1>5. GuardAged(g) \in GuardState /\ GuardAged(g).history = WindowAged(g.history)
    <2>1. WindowAged(g.history) \in Seq(1 .. LoginWindow)
      BY WindowKept DEF GuardState
    <2>2. \A k \in Nat : GuardDec(k) \in Nat
      BY DEF GuardDec
    <2> QED
      BY <2>1, <2>2 DEF GuardAged, GuardState
  <1> QED
    BY <1>1, <1>2, <1>3, <1>4, <1>5

\* What a step may do to the guard and the history variables.
LEMMA GuardStep ==
    ASSUME TypeOK, [Next]_vars
    PROVE  /\ guard' \in GuardState /\ unfinished' \in Nat /\ late' \in Nat
           /\ \/ guard'.history = guard.history
              \/ Tick /\ guard'.history = WindowAged(guard.history)
              \/ /\ \E c \in Handlers : StartNoted(c)
                 /\ guard'.history = Append(guard.history, LoginWindow)
  <1> DEFINE Kept == guard'.history = guard.history
             Typed == guard' \in GuardState /\ unfinished' \in Nat /\ late' \in Nat
  <1>1. guard \in GuardState /\ unfinished \in Nat /\ late \in Nat
    BY DEF TypeOK
  <1>2. ASSUME NEW g \in GuardState, Becomes(g)
        PROVE  Typed /\ guard' = g
    BY <1>1, <1>2 DEF Becomes
  <1>3. ASSUME UNCHANGED <<guard, unfinished, late>>
        PROVE  Typed /\ Kept
    BY <1>1, <1>3
  <1>4. ASSUME RecordFailed
        PROVE  Typed /\ Kept
    BY <1>1, <1>2, <1>4, GuardTypes DEF RecordFailed
  <1>5. ASSUME RecordDone
        PROVE  Typed /\ Kept
    BY <1>1, <1>5, GuardTypes DEF RecordDone
  <1>6. ASSUME RecordStart
        PROVE  Typed /\ guard'.history = Append(guard.history, LoginWindow)
    <2>1. \A g : g = StartRecorded(guard, SessionTTL) =>
               g \in GuardState /\ g.history = Append(guard.history, LoginWindow)
      BY <1>1, GuardTypes
    <2> QED
      BY <1>1, <1>6, <2>1 DEF RecordStart
  <1> HIDE DEF Typed, Kept
  <1>7. ASSUME NEW c \in Handlers, TryStart(c)
        PROVE  Typed /\ Kept
    <2>1. Becomes(LoginSettled(guard))
      BY <1>7 DEF TryStart, StartAllowed, StartRefused
    <2> QED
      BY <2>1, <1>1, <1>2, GuardTypes DEF Kept
  <1>8. ASSUME NEW c \in Handlers, Proceed(c)
        PROVE  /\ Typed
               /\ \/ Kept
                  \/ StartNoted(c) /\ guard'.history = Append(guard.history, LoginWindow)
    <2>1. CASE StartNoted(c)
      BY <2>1, <1>6 DEF StartNoted
    <2>2. CASE TokenFailed(c) \/ TicketNotSaved(c) \/ ExchangeFailed(c)
      <3>1. RecordFailed
        BY <2>2 DEF TokenFailed, TicketNotSaved, ExchangeFailed
      <3> QED
        BY <3>1, <1>4
    <2>3. CASE DeviceLoggedIn(c) \/ TicketLoggedIn(c) \/ CallbackLoggedIn(c)
      <3>1. RecordDone
        BY <2>3 DEF DeviceLoggedIn, TicketLoggedIn, CallbackLoggedIn
      <3> QED
        BY <3>1, <1>5
    <2>4. CASE \/ StartAborted(c) \/ PollInVain(c) \/ TokenGranted(c) \/ CallbackNotSaved(c)
               \/ \E id \in Ids : SessionKept(c, id)
      <3>1. UNCHANGED <<guard, unfinished, late>>
        BY <2>4 DEF StartAborted, PollInVain, TokenGranted, CallbackNotSaved, SessionKept
      <3> QED
        BY <3>1, <1>3
    <2> QED
      BY <1>8, <2>1, <2>2, <2>3, <2>4 DEF Proceed
  <1>9. ASSUME NEW c \in Handlers, Look(c)
        PROVE  Typed /\ Kept
    BY <1>9, <1>3 DEF Look, DevicePoll, TicketPoll, ResultFetched, Callback
  <1>10. ASSUME Tick
         PROVE  Typed /\ guard'.history = WindowAged(guard.history)
    BY <1>10, <1>1, <1>2, GuardTypes DEF Tick
  <1>11. ASSUME UNCHANGED vars
         PROVE  Typed /\ Kept
    BY <1>11, <1>3 DEF vars
  <1> QED
    BY <1>7, <1>8, <1>9, <1>10, <1>11 DEF Next, Typed, Kept

\* What a step may do to the calls and the sessions.
LEMMA StoreStep ==
    ASSUME TypeOK, [Next]_vars
    PROVE  /\ flow' \in {"ticket", "device"}
           /\ store' \in [Ids -> [status : Status, left : 0 .. SessionTTL]]
           /\ call' \in [Handlers -> [pc : {"idle", "starting", "kept", "token", "account",
                                            "ticket", "exchange"},
                                      id : Ids \cup {NoId}]]
  <1> DEFINE Session == [status : Status, left : 0 .. SessionTTL]
             Pc      == {"idle", "starting", "kept", "token", "account", "ticket", "exchange"}
             Call    == [pc : Pc, id : Ids \cup {NoId}]
             Stored  == store' \in [Ids -> Session]
             Called  == call' \in [Handlers -> Call]
  <1>1. flow \in {"ticket", "device"} /\ store \in [Ids -> Session] /\ call \in [Handlers -> Call]
    BY DEF TypeOK
  <1>2. NoSession \in Session /\ Idle \in Call
    BY DEF NoSession, Idle, Status
  <1>3. ASSUME NEW c \in Handlers, Return(c)
        PROVE  Called
    BY <1>1, <1>2, <1>3 DEF Return
  <1>4. ASSUME NEW c \in Handlers, NEW pc \in Pc, NEW id \in Ids \cup {NoId}, Enter(c, pc, id)
        PROVE  Called
    BY <1>1, <1>4 DEF Enter
  <1>5. ASSUME NEW id \in Ids \cup {NoId}, NEW status \in Status, Mark(id, status)
        PROVE  Stored
    BY <1>1, <1>5, LoginAssumption DEF Mark
  <1>6. ASSUME NEW id \in Ids \cup {NoId}, Del(id)
        PROVE  Stored
    BY <1>1, <1>2, <1>6 DEF Del
  <1>7. \A c \in Handlers : call[c].id \in Ids \cup {NoId}
    BY <1>1
  <1> HIDE DEF Session, Call, Stored, Called
  <1>8. ASSUME NEW c \in Handlers, TryStart(c)
        PROVE  UNCHANGED <<flow, store>> /\ (Called \/ UNCHANGED call)
    BY <1>8, <1>4 DEF TryStart, StartAllowed, StartRefused
  <1>9. ASSUME NEW c \in Handlers, Proceed(c)
        PROVE  UNCHANGED flow /\ (Stored \/ UNCHANGED store) /\ Called
    <2>1. CASE \E id \in Ids : SessionKept(c, id)
      <3>1. PICK id \in Ids : SessionKept(c, id)
        BY <2>1
      <3>2. [status |-> "pending", left |-> SessionTTL] \in Session
        BY DEF Session, Status
      <3>3. store' = [store EXCEPT ![id] = [status |-> "pending", left |-> SessionTTL]]
        BY <3>1 DEF SessionKept
      <3>4. Stored
        BY <1>1, <3>2, <3>3 DEF Stored
      <3> QED
        BY <3>1, <3>4, <1>4 DEF SessionKept
    <2>2. CASE StartAborted(c) \/ StartNoted(c) \/ PollInVain(c) \/ TokenFailed(c)
      BY <2>2, <1>3 DEF StartAborted, StartNoted, PollInVain, TokenFailed
    <2>3. CASE TokenGranted(c)
      BY <2>3, <1>4, <1>7 DEF TokenGranted
    <2>4. CASE DeviceLoggedIn(c) \/ TicketLoggedIn(c)
      BY <2>4, <1>3, <1>6, <1>7 DEF DeviceLoggedIn, TicketLoggedIn
    <2>5. CASE TicketNotSaved(c) \/ ExchangeFailed(c) \/ CallbackNotSaved(c) \/ CallbackLoggedIn(c)
      <3>1. UNCHANGED flow /\ Return(c)
        BY <2>5 DEF TicketNotSaved, ExchangeFailed, CallbackNotSaved, CallbackLoggedIn
      <3>2. \E status \in Status : Mark(call[c].id, status)
        BY <2>5 DEF TicketNotSaved, ExchangeFailed, CallbackNotSaved, CallbackLoggedIn, Status
      <3> QED
        BY <3>1, <3>2, <1>3, <1>5, <1>7
    <2> QED
      BY <1>9, <2>1, <2>2, <2>3, <2>4, <2>5 DEF Proceed
  <1>10. ASSUME NEW c \in Handlers, Look(c)
         PROVE  UNCHANGED flow /\ (Stored \/ UNCHANGED store) /\ (Called \/ UNCHANGED call)
    <2>1. PICK id \in Ids : DevicePoll(c, id) \/ TicketPoll(c, id) \/ ResultFetched(c, id)
                              \/ Callback(c, id)
      BY <1>10 DEF Look
    <2>2. CASE ResultFetched(c, id)
      BY <2>2, <1>6 DEF ResultFetched
    <2>3. CASE DevicePoll(c, id) \/ TicketPoll(c, id) \/ Callback(c, id)
      BY <2>3, <1>4 DEF DevicePoll, TicketPoll, Callback
    <2> QED
      BY <2>1, <2>2, <2>3
  <1>11. ASSUME Tick
         PROVE  UNCHANGED <<flow, call>> /\ Stored
    <2>1. \A i \in Ids : SessionAged(store[i]) \in Session
      <3> TAKE i \in Ids
      <3>1. store[i] \in Session
        BY <1>1
      <3>2. CASE store[i].left > 1
        <4>1. store[i].left - 1 \in 0 .. SessionTTL
          BY <3>1, <3>2 DEF Session
        <4> QED
          BY <3>1, <3>2, <4>1 DEF SessionAged, Session
      <3>3. CASE ~(store[i].left > 1)
        BY <3>3, <1>2 DEF SessionAged
      <3> QED
        BY <3>2, <3>3
    <2> QED
      BY <1>11, <2>1 DEF Tick, Stored
  <1> QED
    BY <1>1, <1>8, <1>9, <1>10, <1>11 DEF Next, vars, Session, Call, Stored, Called

LEMMA TypeInit == Init => TypeOK
  <1> SUFFICES ASSUME Init
               PROVE  TypeOK
    OBVIOUS
  <1>1. NewLoginGuard \in GuardState
    <2>1. 0 \in 0 .. FailureThreshold - 1 /\ <<>> \in Seq(1 .. LoginWindow)
      OBVIOUS
    <2> QED
      BY <2>1 DEF NewLoginGuard, GuardState
  <1> QED
    BY <1>1 DEF Init, TypeOK, NoSession, Idle, Status

LEMMA TypeStep == TypeOK /\ [Next]_vars => TypeOK'
  BY GuardStep, StoreStep DEF TypeOK

\* Whatever handlers overlap, guard, sessions and calls keep their types; in
\* particular a series of failures is never counted beyond the threshold.
THEOREM LoginTypes == Spec => []TypeOK
  BY TypeInit, TypeStep, PTL DEF Spec

\* The starts are recorded in the order in which they leave the window again,
\* which is what pruneLocked's caller relies on when it takes the first for the
\* oldest.
HistoryInOrder == OldestFirst(guard.history)

LEMMA OrderStep == TypeOK /\ HistoryInOrder /\ [Next]_vars => HistoryInOrder'
  <1> SUFFICES ASSUME TypeOK, HistoryInOrder, [Next]_vars
               PROVE  HistoryInOrder'
    OBVIOUS
  <1>1. guard.history \in Seq(1 .. LoginWindow)
    BY DEF TypeOK, GuardState
  <1>2. OldestFirst(Append(guard.history, LoginWindow))
    <2> DEFINE h == guard.history
               a == Append(h, LoginWindow)
    <2>1. Len(h) \in Nat /\ DOMAIN h = 1 .. Len(h) /\ DOMAIN a = 1 .. Len(h) + 1
      BY <1>1
    <2>2. \A i \in 1 .. Len(h) : a[i] = h[i] /\ h[i] \in 1 .. LoginWindow
      BY <1>1
    <2>3. a[Len(h) + 1] = LoginWindow
      BY <1>1
    <2> HIDE DEF h, a
    <2>4. ASSUME NEW i \in DOMAIN a, NEW j \in DOMAIN a, i <= j
          PROVE  a[i] <= a[j]
      <3>1. CASE j = Len(h) + 1
        BY <3>1, <2>1, <2>2, <2>3, <2>4
      <3>2. CASE j \in 1 .. Len(h)
        <4>1. i \in 1 .. Len(h) /\ h[i] <= h[j]
          BY <3>2, <2>1, <2>4 DEF HistoryInOrder, OldestFirst, h
        <4> QED
          BY <3>2, <4>1, <2>2
      <3> QED
        BY <3>1, <3>2, <2>1, <2>4
    <2> QED
      BY <2>4 DEF OldestFirst, h, a
  <1>3. OldestFirst(WindowAged(guard.history))
    BY <1>1, WindowKept DEF HistoryInOrder
  <1> QED
    BY <1>2, <1>3, GuardStep DEF HistoryInOrder

\* In every reachable state the starts are in order, so that
\* PruneDropsWhatIsOver applies to every tick.
THEOREM StartsInOrder == Spec => []HistoryInOrder
  <1>1. Init => HistoryInOrder
    BY DEF Init, NewLoginGuard, HistoryInOrder, OldestFirst
  <1> QED
    BY <1>1, OrderStep, LoginTypes, PTL DEF Spec

LEMMA CapStep == TypeOK /\ WindowCap /\ [Next]_vars => WindowCap'
  <1> SUFFICES ASSUME TypeOK, WindowCap, [Next]_vars
               PROVE  WindowCap'
    OBVIOUS
  <1>1. guard.history \in Seq(1 .. LoginWindow) /\ DOMAIN call = Handlers
    BY DEF TypeOK, GuardState
  <1>2. Len(guard.history) \in Nat /\ Len(Append(guard.history, LoginWindow)) = Len(guard.history) + 1
    BY <1>1
  <1>3. Len(WindowAged(guard.history)) \in Nat /\ Len(WindowAged(guard.history)) <= Len(guard.history)
    BY <1>1, WindowKept, <1>2
  <1>4. ASSUME NEW c \in Handlers, StartAllowed(c)
        PROVE  WindowCap'
    <2>1. guard' = LoginSettled(guard) /\ LoginSettled(guard).history = guard.history
      BY <1>4, GuardTypes DEF StartAllowed, Becomes, TypeOK
    <2>2. Len(guard.history) < MaxPerWindow
      BY <1>4, <2>1 DEF StartAllowed, Gate
    <2>3. IsFiniteSet(InFlight') /\ InFlight' \subseteq Handlers
          /\ Cardinality(InFlight') \in Nat /\ Cardinality(InFlight') <= Cardinality(Handlers)
      BY FS_Subset, FS_CardinalityType DEF InFlight
    <2>4. guard'.history = guard.history
      BY <2>1
    <2> QED
      BY <2>2, <2>3, <2>4, <1>2, InFlightFinite DEF WindowCap
  <1>5. ASSUME NEW c \in Handlers, StartNoted(c)
        PROVE  WindowCap'
    <2>1. guard'.history = Append(guard.history, LoginWindow)
      BY <1>5, GuardTypes DEF StartNoted, RecordStart, TypeOK
    <2>2. c \in InFlight /\ InFlight' = InFlight \ {c}
      BY <1>1, <1>5 DEF StartNoted, Return, Idle, At, InFlight
    <2>3. Cardinality(InFlight') = Cardinality(InFlight) - 1
      BY <2>2, InFlightFinite, FS_RemoveElement
    <2> QED
      BY <2>1, <2>3, <1>2, InFlightFinite DEF WindowCap
  <1>6. ASSUME ~ \E c \in Handlers : StartAllowed(c) \/ StartNoted(c)
        PROVE  WindowCap'
    <2>1. InFlight' \subseteq InFlight
      <3>1. ASSUME NEW c \in Handlers, NEW pc, NEW id, Enter(c, pc, id),
                   pc \in {"starting", "kept"} => c \in InFlight
            PROVE  InFlight' \subseteq InFlight
        BY <1>1, <3>1 DEF Enter, InFlight
      <3>2. ASSUME NEW c \in Handlers, Return(c)
            PROVE  InFlight' \subseteq InFlight
        BY <1>1, <3>2 DEF Return, Idle, InFlight
      <3>3. ASSUME UNCHANGED call
            PROVE  InFlight' \subseteq InFlight
        BY <3>3 DEF InFlight
      <3>4. ASSUME NEW c \in Handlers, NEW id \in Ids, SessionKept(c, id)
            PROVE  InFlight' \subseteq InFlight
        <4>1. c \in InFlight /\ Enter(c, "kept", NoId)
          BY <3>4 DEF SessionKept, At, InFlight
        <4> QED
          BY <4>1, <3>1
      <3>5. ASSUME NEW c \in Handlers,
                   \/ StartAborted(c) \/ PollInVain(c) \/ TokenFailed(c) \/ DeviceLoggedIn(c)
                   \/ TicketNotSaved(c) \/ TicketLoggedIn(c)
                   \/ ExchangeFailed(c) \/ CallbackNotSaved(c) \/ CallbackLoggedIn(c)
            PROVE  InFlight' \subseteq InFlight
        BY <3>5, <3>2 DEF StartAborted, PollInVain, TokenFailed, DeviceLoggedIn, TicketNotSaved,
                          TicketLoggedIn, ExchangeFailed, CallbackNotSaved, CallbackLoggedIn
      <3>6. ASSUME NEW c \in Handlers,
                   \/ TokenGranted(c)
                   \/ \E id \in Ids : DevicePoll(c, id) \/ TicketPoll(c, id) \/ Callback(c, id)
            PROVE  InFlight' \subseteq InFlight
        <4>1. \E pc \in {"account", "token", "ticket", "exchange"} : \E id : Enter(c, pc, id)
          BY <3>6 DEF TokenGranted, DevicePoll, TicketPoll, Callback
        <4> QED
          BY <4>1, <3>1
      <3>7. ASSUME NEW c \in Handlers,
                   StartRefused(c) \/ \E id \in Ids : ResultFetched(c, id)
            PROVE  InFlight' \subseteq InFlight
        BY <3>7, <3>3 DEF StartRefused, ResultFetched
      <3>8. Tick \/ UNCHANGED vars => InFlight' \subseteq InFlight
        BY <3>3 DEF Tick, vars
      <3> QED
        BY <1>6, <3>4, <3>5, <3>6, <3>7, <3>8 DEF Next, TryStart, Proceed, Look
    <2>2. Cardinality(InFlight') \in Nat /\ Cardinality(InFlight') <= Cardinality(InFlight)
      BY <2>1, InFlightFinite, FS_Subset, FS_CardinalityType
    <2>3. guard'.history = guard.history \/ guard'.history = WindowAged(guard.history)
      BY <1>6, GuardStep
    <2>4. Len(guard'.history) \in Nat /\ Len(guard'.history) <= Len(guard.history)
      BY <2>3, <1>2, <1>3
    <2> QED
      BY <2>2, <2>4, <1>2, InFlightFinite DEF WindowCap
  <1> QED
    BY <1>4, <1>5, <1>6

\* For any number of handlers and any cap: the starts in a window exceed the cap
\* at most by those that passed the gate side by side.
THEOREM CapKept == Spec => []WindowCap
  <1>1. Init => WindowCap
    <2>1. ASSUME Init
          PROVE  InFlight = {} /\ guard.history = <<>>
      BY <2>1 DEF Init, InFlight, Idle, NewLoginGuard
    <2> QED
      BY <2>1, InFlightFinite, FS_EmptySet DEF WindowCap
  <1> QED
    BY <1>1, CapStep, LoginTypes, PTL DEF Spec
=============================================================================
