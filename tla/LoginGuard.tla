------------------------------ MODULE LoginGuard ------------------------------
(***************************************************************************)
(* The throttle on authorisations of one channel (internal/server:          *)
(* loginGuard) as a record and the functions applied to it under its lock.   *)
(* Time stamps are kept as the ticks left until they stop counting.          *)
(***************************************************************************)
EXTENDS SlidingWindow

CONSTANTS
    MinInterval,        \* ticks between two starts
    LoginWindow,        \* ticks a start counts against the cap
    MaxPerWindow,       \* starts per window
    FailureThreshold,   \* unfinished authorisations in a row that pause the channel
    FailureCooldown     \* ticks of that pause

ASSUME LoginGuardAssumption ==
    /\ MinInterval \in Nat \ {0}
    /\ LoginWindow \in Nat \ {0}
    /\ MaxPerWindow \in Nat \ {0}
    /\ FailureThreshold \in Nat \ {0}
    /\ FailureCooldown \in Nat \ {0}

\* history: starts in the window, oldest first; open: one was started and is
\* not known to be over; the other *Left fields are countdowns.
GuardState ==
    [history : Seq(1 .. LoginWindow), waitLeft : Nat, open : BOOLEAN, openLeft : Nat,
     streak : 0 .. FailureThreshold - 1, coolLeft : Nat]

NewLoginGuard ==
    [history |-> <<>>, waitLeft |-> 0, open |-> FALSE, openLeft |-> 0,
     streak |-> 0, coolLeft |-> 0]

\* Mutant of FailureNoted: the count goes on after the pause began.
FailureNotedOnAndOn(g) ==
    IF g.streak + 1 < FailureThreshold
    THEN [g EXCEPT !.streak = g.streak + 1]
    ELSE [g EXCEPT !.streak = g.streak + 1, !.coolLeft = FailureCooldown]

\* noteFailureLocked: the last failure of a series starts (or restarts) the
\* pause and the count begins anew.
FailureNoted(g) ==
    IF g.streak + 1 < FailureThreshold
    THEN [g EXCEPT !.streak = g.streak + 1]
    ELSE [g EXCEPT !.streak = 0, !.coolLeft = FailureCooldown]

\* Mutant of LoginSettled: a session that timed out stays open.
LoginNeverSettled(g) == g

\* settleLocked: a session past its time to live is a failure, noticed by the
\* next caller of allow.
LoginSettled(g) ==
    IF g.open /\ g.openLeft = 0 THEN FailureNoted([g EXCEPT !.open = FALSE]) ELSE g

\* Mutant of Gate: the pause after failures is not looked at.
GateInPause(g) ==
    ~g.open /\ g.waitLeft = 0 /\ Len(g.history) < MaxPerWindow

\* Mutant of Gate: the cap is compared off by one.
GateOneMore(g) ==
    g.coolLeft = 0 /\ ~g.open /\ g.waitLeft = 0 /\ Len(g.history) <= MaxPerWindow

\* allow, on a settled record.
Gate(g) ==
    /\ g.coolLeft = 0
    /\ ~g.open
    /\ g.waitLeft = 0
    /\ Len(g.history) < MaxPerWindow

\* Mutant of StartRecorded: a start on top of an open one just replaces it.
StartRecordedOver(g, ttl) ==
    [g EXCEPT !.history = Append(g.history, LoginWindow), !.waitLeft = MinInterval,
              !.open = TRUE, !.openLeft = ttl]

\* recordStart: if a session is open in spite of allow, that one has failed.
StartRecorded(g, ttl) ==
    LET h == IF g.open THEN FailureNoted(g) ELSE g
    IN  [h EXCEPT !.history = Append(g.history, LoginWindow), !.waitLeft = MinInterval,
                  !.open = TRUE, !.openLeft = ttl]

DoneRecorded(g) == [g EXCEPT !.open = FALSE, !.openLeft = 0, !.streak = 0]

\* Whoever failed: the record does not know which session is meant.
FailedRecorded(g) == FailureNoted([g EXCEPT !.open = FALSE, !.openLeft = 0])

GuardDec(k) == IF k > 0 THEN k - 1 ELSE 0

\* One tick.
GuardAged(g) ==
    [g EXCEPT !.history = WindowAged(g.history), !.waitLeft = GuardDec(g.waitLeft),
              !.openLeft = GuardDec(g.openLeft), !.coolLeft = GuardDec(g.coolLeft)]
=============================================================================
