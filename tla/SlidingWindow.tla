---------------------------- MODULE SlidingWindow ----------------------------
(***************************************************************************)
(* The lists of time stamps of which only those inside a window count: the   *)
(* starts of loginGuard.history and the guard events of CircuitBreaker.      *)
(* A stamp is kept as the ticks left until it leaves the window.  Stamps are  *)
(* appended as they happen, so a list is sorted, oldest first, and what the   *)
(* code's pass over all of them removes is a prefix.                        *)
(***************************************************************************)
EXTENDS Integers, Sequences, FiniteSetsExt

\* What is over after one tick.
WindowOver(h) == {i \in DOMAIN h : h[i] <= 1}

\* The list one tick later.
WindowAged(h) ==
    LET k == Max(WindowOver(h) \cup {0})
    IN  [i \in 1 .. Len(h) - k |-> h[i + k] - 1]
=============================================================================
