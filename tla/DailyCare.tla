------------------------------ MODULE DailyCare ------------------------------
(***************************************************************************)
(* What scheduler.Tick does for the accounts once their tokens are checked: *)
(* the benefit claim (codearts), the check-in, the desktop report, the      *)
(* growth tasks and the pet (workbuddy), one stage after the other over the *)
(* accounts of the pool; and InitAccount, which does the day's actions for  *)
(* an account the panel has just logged in, beside the scheduler.           *)
(*                                                                         *)
(* The three daily stages run once per natural day: lastDaily remembers the *)
(* day in memory only and is stamped with the day the stage began.  Every   *)
(* failure is logged and skipped.                                           *)
(***************************************************************************)
EXTENDS Naturals, FiniteSets

CONSTANTS
    Huawei, Tencent,    \* accounts of the two channels
    Tasks,              \* growth task codes
    WebTasks,           \* those completed by the second report, to the web domain
    MaxDay,             \* bound: natural days
    MaxEnergy,          \* bound: pet energy
    MaxOpenCount,       \* boxes upstream opens at once
    MaxEvents           \* bound: logins, reloads, restarts and failed calls together

Accounts == Huawei \cup Tencent

ASSUME CareAssumption ==
    /\ Huawei \cap Tencent = {} /\ WebTasks \subseteq Tasks /\ IsFiniteSet(Tasks)
    /\ MaxDay \in Nat \ {0} /\ MaxEnergy \in Nat /\ MaxOpenCount \in Nat \ {0}
    /\ MaxEvents \in Nat

VARIABLES
    day,        \* today, in Beijing
    pool,       \* accounts in the pool
    stage,      \* where the scheduler's pass is
    todo,       \* accounts of the stage still to come
    today,      \* the day the stage began
    lastDaily,  \* Scheduler.lastDaily
    inits,      \* accounts whose InitAccount is still to run
    served,     \* upstream: last day each daily action was done, per account
    task,       \* upstream: state of each growth task
    pet,        \* upstream: the pet and what it needs
    trial,      \* upstream: accounts whose trial is open, or need none (domestic)
    joined,     \* history: accounts that joined the pool today, by a panel login
    reloaded,   \* history: accounts that joined it today by a reload
    missed,     \* history: actions that failed today, or died with the process
    events      \* events so far

scheduler == <<stage, todo, today, lastDaily>>
garden == <<task, pet, trial>>
history == <<joined, reloaded, missed, events>>
careVars == <<day, pool, scheduler, inits, served, garden, history>>

Daily == {"benefit", "checkin", "report"}
Stages == Daily \cup {"tasks", "pet"}
FamilyOf(s) == IF s = "benefit" THEN Huawei ELSE Tencent
After(s) ==
    CASE s = "rest" -> "benefit" [] s = "benefit" -> "checkin" [] s = "checkin" -> "report"
      [] s = "report" -> "tasks" [] s = "tasks" -> "pet" [] s = "pet" -> "rest"

\* Locked tasks are left alone and not modelled.
TaskStates == {"not_accepted", "accepted", "completed", "claimed"}
PetStates == {"none", "idle", "traveling", "arrived"}
Pets == [state : PetStates, adoptable : BOOLEAN, limit : BOOLEAN, energy : 0..MaxEnergy]

CareTypeOK ==
    /\ day \in 1..MaxDay
    /\ pool \subseteq Accounts
    /\ stage \in Stages \cup {"rest"}
    /\ todo \subseteq Accounts
    /\ today \in 1..MaxDay
    /\ lastDaily \in [Daily -> 0..MaxDay]
    /\ inits \subseteq Accounts
    /\ served \in [Daily -> [Accounts -> 0..MaxDay]]
    /\ task \in [Tencent -> [Tasks -> TaskStates]]
    /\ pet \in [Tencent -> Pets]
    /\ trial \subseteq Tencent
    /\ joined \subseteq Accounts /\ reloaded \subseteq Accounts
    /\ missed \subseteq (Daily \cup {"trial"}) \X Accounts
    /\ events \in 0..MaxEvents

CareInit ==
    /\ day = 1
    /\ pool \in SUBSET Accounts
    /\ stage = "rest" /\ todo = {} /\ today = 1
    /\ lastDaily = [l \in Daily |-> 0]
    /\ inits = {}
    /\ served = [l \in Daily |-> [a \in Accounts |-> 0]]
    /\ task = [a \in Tencent |-> [t \in Tasks |-> "not_accepted"]]
    /\ \E adoptable \in BOOLEAN :
         pet = [a \in Tencent |-> [state |-> "none", adoptable |-> adoptable,
                                   limit |-> FALSE, energy |-> 0]]
    /\ trial = {}
    /\ joined = {} /\ reloaded = {} /\ missed = {} /\ events = 0

Event == events < MaxEvents /\ events' = events + 1

-----------------------------------------------------------------------------
(* The pass. *)

\* A daily stage whose day is stamped has nothing to do.
Open(s) ==
    /\ stage' = s
    /\ today' = day
    /\ todo' = IF s = "rest" \/ (s \in Daily /\ lastDaily'[s] = day) THEN {}
               ELSE pool \cap FamilyOf(s)

BeginPass ==
    /\ stage = "rest"
    /\ UNCHANGED lastDaily
    /\ Open(After("rest"))
    /\ UNCHANGED <<day, pool, inits, served, garden, history>>

\* Mutant of EndStage: the stamp is the day the stage ends.
EndStageLate ==
    /\ stage # "rest"
    /\ todo = {}
    /\ lastDaily' = IF stage \in Daily THEN [lastDaily EXCEPT ![stage] = day] ELSE lastDaily
    /\ Open(After(stage))
    /\ UNCHANGED <<day, pool, inits, served, garden, history>>

EndStage ==
    /\ stage # "rest"
    /\ todo = {}
    /\ lastDaily' = IF stage \in Daily THEN [lastDaily EXCEPT ![stage] = today] ELSE lastDaily
    /\ Open(After(stage))
    /\ UNCHANGED <<day, pool, inits, served, garden, history>>

Take(s, a) ==
    /\ stage = s
    /\ a \in todo
    /\ todo' = todo \ {a}
    /\ UNCHANGED <<day, pool, stage, today, lastDaily, inits, joined, reloaded>>

\* claimBenefitFor, claimTencentCheckinFor: "already", an inactive activity and
\* a failed balance query count as done.
ClaimDaily(l, a) ==
    /\ l # "report"
    /\ Take(l, a)
    /\ served' = [served EXCEPT ![l][a] = day]
    /\ UNCHANGED <<garden, missed, events>>

\* ReportTaskEvents: a failure of the second report is logged and no error.
Report(a) ==
    /\ Take("report", a)
    /\ served' = [served EXCEPT !["report"][a] = day]
    /\ \E web \in BOOLEAN :
         /\ task' = [task EXCEPT ![a] = [t \in Tasks |->
                       IF @[t] = "accepted" /\ (t \in WebTasks => web) THEN "completed" ELSE @[t]]]
         /\ IF web THEN UNCHANGED events ELSE Event
    /\ UNCHANGED <<pet, trial, missed>>

\* Any failure is logged and the stage goes on.
MissDaily(l, a) ==
    /\ Take(l, a)
    /\ Event
    /\ missed' = missed \cup {<<l, a>>}
    /\ UNCHANGED <<served, garden>>

-----------------------------------------------------------------------------
(* Growth tasks: one listing, then accept what can be accepted and claim    *)
(* what the listing showed completed; either call may fail on its own.      *)

\* The energy of a reward.
WithEnergy(p, n) == [p EXCEPT !.energy = IF @ + n > MaxEnergy THEN MaxEnergy ELSE @ + n]

\* Mutant of CollectTasks: rewards are left uncollected.
AcceptOnly(a) ==
    /\ Take("tasks", a)
    /\ task' = [task EXCEPT ![a] = [t \in Tasks |->
                  IF @[t] = "not_accepted" THEN "accepted" ELSE @[t]]]
    /\ UNCHANGED <<served, pet, trial, missed, events>>

CollectTasks(a) ==
    /\ Take("tasks", a)
    /\ \E accepts, claims \in BOOLEAN :
         LET gained == IF claims THEN Cardinality({t \in Tasks : task[a][t] = "completed"}) ELSE 0
         IN
         /\ task' = [task EXCEPT ![a] = [t \in Tasks |->
               CASE @[t] = "not_accepted" /\ accepts -> "accepted"
                 [] @[t] = "completed" /\ claims -> "claimed"
                 [] OTHER -> @[t]]]
         /\ pet' = [pet EXCEPT ![a] = WithEnergy(@, gained)]
         /\ IF accepts /\ claims THEN UNCHANGED events ELSE Event
    /\ UNCHANGED <<served, trial, missed>>

-----------------------------------------------------------------------------
(* The pet. *)

\* Mutant of BoxesOpened: the largest count upstream allows, affordable or not.
BoxesOpenedAll(p) ==
    [p EXCEPT !.state = "idle", !.energy = @ - MaxOpenCount]

\* PetQuota, PetOpenBox: as many boxes as the energy buys, up to a maximum.
BoxesOpened(p) ==
    [p EXCEPT !.state = "idle", !.energy = IF @ > MaxOpenCount THEN @ - MaxOpenCount ELSE 0]

\* PetAdopt: the first pet is free and brings energy.
Adopted(p) == WithEnergy([p EXCEPT !.state = "idle", !.adoptable = FALSE], 1)

\* activateBuddy: adopt the first one, or else open boxes.
Activated(p) ==
    CASE p.adoptable -> Adopted(p)
      [] ~p.adoptable /\ p.energy > 0 -> BoxesOpened(p)
      [] OTHER -> p

\* PetDepart: one journey a day.
Departed(p) == [p EXCEPT !.state = "traveling", !.limit = TRUE]

\* PetClaim: the reward is fetched (or had been), the pet is home.
Fetched(p) == [p EXCEPT !.state = "idle"]

\* Mutant of Tended: an arrived pet is left waiting, as a travelling one is.
TendedIdleOnly(p) ==
    CASE p.state = "none" -> Activated(p)
      [] p.state = "idle" /\ ~p.limit -> Departed(p)
      [] OTHER -> p

\* petTravel: no pet (whether the status says so or the departure), arrived,
\* idle below the daily limit, or nothing to do.
Tended(p) ==
    CASE p.state = "none" -> Activated(p)
      [] p.state = "arrived" -> Fetched(p)
      [] p.state = "idle" /\ ~p.limit -> Departed(p)
      [] OTHER -> p

\* A call fails: nothing done, or the adoption alone and a box opened instead.
PetTravel(a) ==
    /\ Take("pet", a)
    /\ \/ pet' = [pet EXCEPT ![a] = Tended(@)] /\ UNCHANGED events
       \/ Event /\ UNCHANGED pet
       \/ /\ Event
          /\ pet[a].state = "none" /\ pet[a].adoptable /\ pet[a].energy > 0
          /\ pet' = [pet EXCEPT ![a] = BoxesOpened(@)]
    /\ UNCHANGED <<served, task, trial, missed>>

-----------------------------------------------------------------------------
(* InitAccount, once Validate has looked at the new credential. *)

Started(a) == IF a \in Huawei THEN {"benefit"} ELSE {"trial", "checkin"}

TrialCalls == {"register", "region", "claim"}
CallsOf(action) == IF action = "trial" THEN TrialCalls ELSE {action}

\* Mutant of TrialDone: only the registration may ask for a country.
TrialDoneAtRegister(asks, failing) ==
    /\ failing \cap {"register", "claim"} = {}
    /\ asks # "claim"
    /\ asks = "register" => "region" \notin failing

\* EnsureGlobalTrial: register, then claim; the one that asks for a country gets
\* it set (setTrialRegion) and is called once more.
TrialDone(asks, failing) ==
    /\ failing \cap {"register", "claim"} = {}
    /\ asks # "none" => "region" \notin failing

\* Each action is tried whether or not the one before it failed.
InitAccount(a) ==
    /\ a \in inits
    /\ inits' = inits \ {a}
    /\ \E failing \in SUBSET UNION {CallsOf(x) : x \in Started(a)},
          asks \in {"none", "register", "claim"} :
         LET done == {x \in Started(a) : IF x = "trial" THEN TrialDone(asks, failing)
                                        ELSE x \notin failing}
             hit == {x \in Started(a) : CallsOf(x) \cap failing # {}}
         IN
         /\ served' = [l \in Daily |->
                         IF l \in done THEN [served[l] EXCEPT ![a] = day] ELSE served[l]]
         /\ trial' = IF "trial" \in done THEN trial \cup {a} ELSE trial
         /\ missed' = missed \cup (hit \X {a})
         /\ IF failing = {} THEN UNCHANGED events ELSE Event
    /\ UNCHANGED <<day, pool, scheduler, task, pet, joined, reloaded>>

-----------------------------------------------------------------------------
(* The surroundings. *)

\* A panel login adds the account and starts InitAccount.
PanelLogin(a) ==
    /\ Event
    /\ pool' = pool \cup {a}
    /\ inits' = inits \cup {a}
    /\ joined' = IF a \in pool \ reloaded THEN joined ELSE joined \cup {a}
    /\ reloaded' = reloaded \ {a}
    /\ UNCHANGED <<day, scheduler, served, garden, missed>>

\* A reload adds and drops accounts and starts nothing.
Reload ==
    /\ Event
    /\ pool' \in (SUBSET Accounts) \ {pool}
    /\ reloaded' = (reloaded \cup (pool' \ pool)) \cap pool'
    /\ joined' = joined \cap pool \cap pool'
    /\ UNCHANGED <<day, scheduler, inits, served, garden, missed>>

\* Crash and start: lastDaily is empty again, a running InitAccount is gone.
RestartCare ==
    /\ Event
    /\ stage' = "rest" /\ todo' = {} /\ today' = day
    /\ lastDaily' = [l \in Daily |-> 0]
    /\ inits' = {}
    /\ missed' = missed \cup UNION {Started(a) \X {a} : a \in inits}
    /\ UNCHANGED <<day, pool, served, garden, joined, reloaded>>

Midnight ==
    /\ day < MaxDay
    /\ day' = day + 1
    /\ pet' = [a \in Tencent |-> [pet[a] EXCEPT !.limit = FALSE]]
    /\ joined' = {} /\ reloaded' = {} /\ missed' = {}
    /\ UNCHANGED <<pool, scheduler, inits, served, task, trial, events>>

Arrive(a) ==
    /\ pet[a].state = "traveling"
    /\ pet' = [pet EXCEPT ![a].state = "arrived"]
    /\ UNCHANGED <<day, pool, scheduler, inits, served, task, trial, history>>

Pass ==
    \/ BeginPass
    \/ EndStage
    \/ \E a \in todo :
         (\E l \in Daily : ClaimDaily(l, a)) \/ Report(a) \/ CollectTasks(a) \/ PetTravel(a)

CareNext ==
    \/ Pass
    \/ \E a \in todo, l \in Daily : MissDaily(l, a)
    \/ \E a \in Accounts : InitAccount(a) \/ PanelLogin(a)
    \/ Reload \/ RestartCare \/ Midnight
    \/ \E a \in Tencent : Arrive(a)

\* The scheduler's loop goes on, every upstream call returns, a journey ends.
CareSpec ==
    /\ CareInit /\ [][CareNext]_careVars
    /\ WF_careVars(Pass)
    /\ \A a \in Tencent : WF_careVars(Arrive(a))

-----------------------------------------------------------------------------
(* Properties. *)

\* Once a daily stage is stamped for today, no account of its channel goes
\* without: its call was answered or failed today, or it joined later by a panel
\* login whose InitAccount is running or has stood in for the stage (for the
\* report nothing does), or by a reload, which nothing makes up for.
EveryoneServed ==
    \A l \in Daily, a \in Accounts :
        lastDaily[l] = day /\ a \in pool \cap FamilyOf(l) =>
            \/ served[l][a] = day
            \/ <<l, a>> \in missed
            \/ a \in reloaded \/ a \in inits
            \/ l = "report" /\ a \in joined

\* An international account that joined by a panel login today has its trial
\* opened, whichever step asked for a country, unless a call failed or the
\* process died first: no later pass tries again.
TrialOpened ==
    \A a \in joined \cap Tencent :
        a \in inits \/ a \in trial \/ <<"trial", a>> \in missed

\* A completed task is rewarded in the end, whatever failed before, as long as
\* the account stays in the pool.
RewardsCollected ==
    \A a \in Tencent, t \in Tasks :
        (task[a][t] = "completed") ~> (task[a][t] = "claimed" \/ a \notin pool)

\* A pet never waits for ever: it is fetched when it arrives, and an account
\* that can adopt or pay for a box gets one.
PetsTended ==
    \A a \in Tencent :
        /\ (pet[a].state = "arrived") ~> (pet[a].state # "arrived" \/ a \notin pool)
        /\ (pet[a].state = "none" /\ (pet[a].adoptable \/ pet[a].energy > 0))
              ~> (pet[a].state # "none" \/ a \notin pool)
=============================================================================
