---------------------------- MODULE CircuitBreaker ----------------------------
(***************************************************************************)
(* The guard breaker of an upstream profile (adapt.CircuitBreaker) as a      *)
(* record and the functions applied to it under its lock: Threshold guard   *)
(* events of one kind inside the window force full prompts for a while.      *)
(* Event ages and the open period count down in clock ticks.                 *)
(***************************************************************************)
EXTENDS SlidingWindow

CONSTANTS
    Window,         \* ticks an event counts
    Threshold,      \* events of one kind that open the breaker
    Duration        \* ticks the breaker stays open

ASSUME BreakerAssumption ==
    Window \in Nat \ {0} /\ Threshold \in Nat \ {0} /\ Duration \in Nat \ {0}

GuardEvent == {"noinstruction", "cross", "miss"}

\* tripped: openUntil is set; it stays set after the period until Open looks.
BreakerState ==
    [events : [GuardEvent -> Seq(1 .. Window)], openLeft : 0 .. Duration, tripped : BOOLEAN]

NoEvents == [e \in GuardEvent |-> <<>>]

NewCircuitBreaker == [events |-> NoEvents, openLeft |-> 0, tripped |-> FALSE]

Expired(b) == b.tripped /\ b.openLeft = 0

IsOpen(b) == b.openLeft > 0

\* What Open leaves behind: the first look after the period forgets the past.
Looked(b) == IF Expired(b) THEN NewCircuitBreaker ELSE b

\* Events beyond the newest Threshold cannot change a later comparison and
\* are not kept.  An event while open restarts the period.
Recorded(b, e) ==
    LET all   == Append(b.events[e], Window)
        kept  == IF Len(all) > Threshold THEN Tail(all) ELSE all
        trips == Len(kept) >= Threshold
    IN  [b EXCEPT !.events[e] = kept,
                  !.openLeft = IF trips THEN Duration ELSE @,
                  !.tripped = @ \/ trips]

\* Mutant of BreakerAged: an event at the very edge of the window still counts.
BreakerAgedAtEdge(b) ==
    [b EXCEPT !.openLeft = IF @ > 0 THEN @ - 1 ELSE 0,
              !.events = [e \in GuardEvent |->
                  [i \in DOMAIN b.events[e] |-> b.events[e][i] - 1]]]

\* One tick: events leave the window, the open period runs out.
BreakerAged(b) ==
    [b EXCEPT !.openLeft = IF @ > 0 THEN @ - 1 ELSE 0,
              !.events = [e \in GuardEvent |-> WindowAged(b.events[e])]]
=============================================================================
