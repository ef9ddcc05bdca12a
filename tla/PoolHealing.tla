----------------------------- MODULE PoolHealing -----------------------------
(***************************************************************************)
(* AccountPool under the scheduler's watchdog (scheduler.Tick), with a      *)
(* budget on what can go wrong, to ask whether the pool repairs itself.     *)
(* No login runs here: AccountPool is checked with logins on its own.       *)
(***************************************************************************)
EXTENDS AccountPool

CONSTANTS
    Scheduler,      \* the caller that runs scheduler.Tick
    MaxFaults       \* bound: penalties, failed renewals, failed saves and
                    \* crashes together

ASSUME HealingAssumption ==
    Scheduler \in Callers /\ MaxFaults \in Nat /\ Logins = {}

VARIABLE faults     \* how much of the budget is spent

healVars == <<vars, faults>>

HealInit == Init /\ faults = 0

Fault ==
    \/ \E n \in Accounts : Penalty(n)
    \/ \E c \in Callers : ValidateNoRenewalPath(c) \/ ValidateDead(c)
    \/ \E n \in Accounts : Relief(n) /\ owed'
    \/ Restart

\* Tick validates every account of the pool in turn, every PollInterval.
ScheduledValidate(n) == ValidateStart(Scheduler, n) /\ UNCHANGED faults

Finish(c) == ValidateDone(c) /\ UNCHANGED faults

Pass == Tick /\ UNCHANGED faults

\* The scheduler and the other callers, an operator and the rest of the pool.
Quiet ==
    /\ \/ \E n \in Accounts : (Relief(n) /\ (owed' => owed)) \/ AuthFileChange(n)
       \/ \E c \in Callers \ {Scheduler}, n \in Accounts : ValidateStart(c, n)
       \/ SyncToDir
    /\ UNCHANGED faults

HealNext ==
    \/ faults < MaxFaults /\ Fault /\ faults' = faults + 1
    \/ \E n \in Accounts : ScheduledValidate(n)
    \/ \E c \in Callers : Finish(c)
    \/ Pass
    \/ Quiet

\* Time passes and a started validation returns (weak fairness); the watchdog
\* loops over all accounts for ever, so an account that keeps needing
\* validation is visited again and again (strong fairness, because the loop
\* is busy with another account in between).  Nothing else is fair.
HealSpec ==
    /\ HealInit
    /\ [][HealNext]_healVars
    /\ WF_healVars(Pass)
    /\ \A c \in Callers : WF_healVars(Finish(c))
    /\ \A n \in Accounts : SF_healVars(ScheduledValidate(n))

\* Once upstream and the credentials stop failing, every account of the pool
\* ends up healthy without an operator, except the ones blocked by a ban:
\* disables are forgotten by the next validation, cooldowns run out.
PoolHeals ==
    \A n \in Accounts :
        <>[](n \in members => Healthy(acct[n]) \/ acct[n].sticky)
=============================================================================
