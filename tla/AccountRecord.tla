---------------------------- MODULE AccountRecord ----------------------------
(***************************************************************************)
(* The health record of one upstream account (pool.Account) and the pure   *)
(* functions the pool applies to it.  No variables: AccountPool gives the   *)
(* records a home, a state file and interleaving callers; RequestServing    *)
(* uses the same functions on the request path.                             *)
(*                                                                         *)
(* A deadline (coolUntil, modelCool[m], lastValidated + 5min) is kept as    *)
(* the number of clock ticks left until it, so the clock needs no bound.    *)
(* lastErr, disabledReason, quota, keepalive and the transient/retry         *)
(* counters only feed the panel and are left out.                           *)
(***************************************************************************)
EXTENDS Integers, Sequences, FiniteSets

CONSTANTS
    Models,         \* model names an account can be rate-limited on
    ErrThreshold,   \* Config.ErrThreshold
    SoftCool,       \* soft cooldown, in ticks
    ErrCool,        \* Config.ErrCooldown, in ticks
    HardCool,       \* ticks to 04:00 of the next day
    ModelCool,      \* ticks to the model's declared reset
    CacheTTL        \* ticks a validation stays cached (5 minutes)

ASSUME DurationsAssumption ==
    /\ ErrThreshold \in Nat \ {0}
    /\ SoftCool \in Nat \ {0}
    /\ ErrCool \in Nat \ {0}
    /\ HardCool \in Nat \ {0}
    /\ ModelCool \in Nat \ {0}
    /\ CacheTTL \in Nat \ {0}

CoolKind == {"soft", "err", "hard", "cleared"}

AccountState ==
    [disabled : BOOLEAN, sticky : BOOLEAN,
     coolLeft : Nat, coolKind : CoolKind, errCount : 0 .. ErrThreshold,
     modelLeft : [Models -> Nat], cacheLeft : Nat]

\* What saveState writes of an account: neither coolKind nor the validation
\* cache is persisted.
PersistedState ==
    [disabled : BOOLEAN, sticky : BOOLEAN,
     coolLeft : Nat, errCount : 0 .. ErrThreshold, modelLeft : [Models -> Nat]]

NoModelCools == [m \in Models |-> 0]

\* newAccount: zero-valued health fields.
Fresh ==
    [disabled |-> FALSE, sticky |-> FALSE,
     coolLeft |-> 0, coolKind |-> "soft", errCount |-> 0,
     modelLeft |-> NoModelCools, cacheLeft |-> 0]

Persisted(a) ==
    [disabled |-> a.disabled, sticky |-> a.sticky,
     coolLeft |-> a.coolLeft, errCount |-> a.errCount, modelLeft |-> a.modelLeft]

Restored(p) ==
    [disabled |-> p.disabled, sticky |-> p.sticky,
     coolLeft |-> p.coolLeft, coolKind |-> "soft", errCount |-> p.errCount,
     modelLeft |-> p.modelLeft, cacheLeft |-> 0]

-----------------------------------------------------------------------------
(* Predicates the pickers read. *)

Healthy(a) == ~a.disabled /\ a.coolLeft = 0

ModelCooled(a, m) == a.modelLeft[m] > 0

\* Validate returns at once, touching nothing, while this holds.
ValidationCached(a) == a.cacheLeft > 0 /\ ~a.disabled

-----------------------------------------------------------------------------
(* One operator per health transition. *)

Disabled(a) == [a EXCEPT !.disabled = TRUE]

StickyDisabled(a) == [a EXCEPT !.disabled = TRUE, !.sticky = TRUE]

\* Mutant of Enabled: one of the two block flags is forgotten.
EnabledStillSticky(a) ==
    [a EXCEPT !.disabled = FALSE, !.modelLeft = NoModelCools]

\* Does not end a running account-level cooldown.
Enabled(a) ==
    [a EXCEPT !.disabled = FALSE, !.sticky = FALSE, !.modelLeft = NoModelCools]

\* AddAccount on an account the pool already has.
LoggedIn(a) == [a EXCEPT !.disabled = FALSE, !.sticky = FALSE]

\* Overwrites whatever cooldown was running, a longer one included.
Cooled(a, kind, ticks) == [a EXCEPT !.coolLeft = ticks, !.coolKind = kind]

CooldownCleared(a) ==
    [a EXCEPT !.coolLeft = 0, !.coolKind = "soft", !.modelLeft = NoModelCools]

ModelLimited(a, m) == [a EXCEPT !.modelLeft[m] = ModelCool]

\* errCount saturates at the threshold: the code only compares it with >=.
Errored(a) ==
    IF a.errCount + 1 < ErrThreshold
    THEN [a EXCEPT !.errCount = a.errCount + 1]
    ELSE [a EXCEPT !.errCount = ErrThreshold, !.coolLeft = ErrCool]

Succeeded(a) == [a EXCEPT !.errCount = 0]

ValidationNoted(a) == [a EXCEPT !.cacheLeft = CacheTTL]

\* Mutant of Revalidated: a ban is forgotten like any other disable.
RevalidatedWhateverBlock(a) ==
    [ValidationNoted(a) EXCEPT !.disabled = FALSE, !.sticky = FALSE, !.coolLeft = 0]

\* Mutant of Revalidated: only the cooldown is reset.
RevalidatedStillDisabled(a) ==
    IF a.disabled THEN ValidationNoted(a)
    ELSE [ValidationNoted(a) EXCEPT !.coolLeft = 0]

\* The last critical section of Validate, reached with usable credentials: a
\* sticky block stays, any other disable or cooldown is forgotten.
Revalidated(a) ==
    IF (a.disabled /\ a.sticky) \/ (~a.disabled /\ a.coolLeft = 0)
    THEN ValidationNoted(a)
    ELSE [ValidationNoted(a) EXCEPT !.disabled = FALSE, !.sticky = FALSE,
                                    !.coolLeft = 0, !.coolKind = "cleared"]

-----------------------------------------------------------------------------
(* Time. *)

\* Mutant of Dec: a deadline in the past still counts as running.
DecWithoutFloor(k) == k - 1

Dec(k) == IF k > 0 THEN k - 1 ELSE 0

Aged(a) ==
    [a EXCEPT !.coolLeft = Dec(a.coolLeft), !.cacheLeft = Dec(a.cacheLeft),
              !.modelLeft = [m \in Models |-> Dec(a.modelLeft[m])]]

AgedEntry(p) ==
    [p EXCEPT !.coolLeft = Dec(p.coolLeft),
              !.modelLeft = [m \in Models |-> Dec(p.modelLeft[m])]]

-----------------------------------------------------------------------------
(* PickForModel: the first healthy untried account, in pool order, whose    *)
(* (account, model) pair is not cooled; if every healthy one is cooled on   *)
(* the model, the first of those.  None when no account is healthy.         *)

PickForModel(order, acct, m, tried, none) ==
    LET ready == {i \in DOMAIN order :
                    order[i] \notin tried /\ Healthy(acct[order[i]])}
        open  == {i \in ready : ~ModelCooled(acct[order[i]], m)}
        from  == IF open # {} THEN open ELSE ready
    IN  IF from = {} THEN none
        ELSE order[CHOOSE i \in from : \A j \in from : i <= j]
=============================================================================
