----------------------------- MODULE SlotContract -----------------------------
(***************************************************************************)
(* What the concurrency slots of the accounts promise to the requests that   *)
(* queue for them, without the counter that keeps the promise: a slot is      *)
(* granted only where there is room, and refused only where there is none.   *)
(* A request may lend its slot while it backs off; one that gives up then     *)
(* may, as a stray, give back a slot that another request holds, and from     *)
(* then on there is room for one more.                                      *)
(***************************************************************************)
EXTENDS Integers, FiniteSets

CONSTANTS Requests, Accounts, NoAccount, MaxConcurrent

VARIABLES
    role,       \* of each request: "away", "queued", "holding" or "lent"
    at,         \* the account it is at, NoAccount when it is away
    strays      \* of each account: slots given back by requests without one

slots == <<role, at, strays>>

Held(n) == {r \in Requests : at[r] = n /\ role[r] = "holding"}

Room(n) == Cardinality(Held(n)) < MaxConcurrent + strays[n]

Full(n) == Cardinality(Held(n)) >= MaxConcurrent

SlotInit ==
    /\ role = [r \in Requests |-> "away"]
    /\ at = [r \in Requests |-> NoAccount]
    /\ strays = [n \in Accounts |-> 0]

Becomes(r, from, to) ==
    /\ role[r] \in from
    /\ role' = [role EXCEPT ![r] = to]
    /\ at' = IF to = "away" THEN [at EXCEPT ![r] = NoAccount] ELSE at

Ask(r) ==
    /\ role[r] = "away"
    /\ role' = [role EXCEPT ![r] = "queued"]
    /\ \E n \in Accounts : at' = [at EXCEPT ![r] = n]
    /\ UNCHANGED strays

Grant(r) ==
    /\ Becomes(r, {"queued", "lent"}, "holding")
    /\ Room(at[r])
    /\ UNCHANGED strays

Refuse(r) ==
    /\ Becomes(r, {"queued"}, "away")
    /\ Full(at[r])
    /\ UNCHANGED strays

Lend(r) == Becomes(r, {"holding"}, "lent") /\ UNCHANGED strays

GiveBack(r) == Becomes(r, {"holding"}, "away") /\ UNCHANGED strays

\* Gives up while its slot is lent; at most one slot of a holder goes astray.
Abandon(r) ==
    /\ Becomes(r, {"lent"}, "away")
    /\ \/ UNCHANGED strays
       \/ Held(at[r]) # {} /\ strays' = [strays EXCEPT ![at[r]] = @ + 1]

SlotNext ==
    \E r \in Requests :
        Ask(r) \/ Grant(r) \/ Refuse(r) \/ Lend(r) \/ GiveBack(r) \/ Abandon(r)

Promised == SlotInit /\ [][SlotNext]_slots
=============================================================================
