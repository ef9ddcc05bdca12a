--------------------------- MODULE DailyCareProofs ---------------------------
(***************************************************************************)
(* Proofs about DailyCare for every set of accounts and tasks, any number   *)
(* of days and any number of logins, reloads, restarts and failed calls:    *)
(* the types, and that neither a stage's stamp nor InitAccount leaves an    *)
(* account behind.                                                          *)
(***************************************************************************)
EXTENDS DailyCare, FiniteSetTheorems, TLAPS

\* What makes up for a daily stage.  It is stronger than what EveryoneServed
\* says: an InitAccount stands in for a stage only for an account that joined
\* today.
Handled(l, a) ==
    \/ served[l][a] = day
    \/ <<l, a>> \in missed
    \/ a \in reloaded
    \/ a \in joined /\ (l = "report" \/ a \in inits)

\* Nobody has been stamped into the future.
Dated == today <= day /\ \A l \in Daily : lastDaily[l] <= day

\* A stamped stage has handled its accounts, and a running one those it has
\* behind it, as long as its day lasts.
Stamped ==
    \A l \in Daily : \A a \in pool \cap FamilyOf(l) : lastDaily[l] = day => Handled(l, a)
Running ==
    stage \in Daily /\ today = day =>
        \A a \in pool \cap FamilyOf(stage) : a \in todo \/ Handled(stage, a)

IInv == CareTypeOK /\ Dated /\ Stamped /\ Running

USE CareAssumption

LEMMA AccountFacts ==
    /\ \A l \in Daily : FamilyOf(l) \subseteq Accounts
    /\ Tencent \subseteq Accounts
    /\ \A l \in Daily : l # "report" => \A a \in FamilyOf(l) : l \in Started(a)
BY DEF Daily, FamilyOf, Accounts, Started

-----------------------------------------------------------------------------
(* Types. *)

LEMMA EnergyType ==
    ASSUME NEW p \in Pets, NEW n \in Nat
    PROVE  WithEnergy(p, n) \in Pets
BY DEF WithEnergy, Pets

LEMMA TendedType ==
    ASSUME NEW p \in Pets
    PROVE  Tended(p) \in Pets /\ BoxesOpened(p) \in Pets
<1>1. BoxesOpened(p) \in Pets
  <2> DEFINE left == IF p.energy > MaxOpenCount THEN p.energy - MaxOpenCount ELSE 0
  <2>1. left \in 0..MaxEnergy
    BY DEF Pets
  <2>2. BoxesOpened(p) = [p EXCEPT !.state = "idle", !.energy = left]
    BY DEF BoxesOpened
  <2> HIDE DEF left
  <2>3. [p EXCEPT !.state = "idle", !.energy = left] \in Pets
    BY <2>1 DEF Pets, PetStates
  <2> QED BY <2>2, <2>3
<1>2. [p EXCEPT !.state = "idle", !.adoptable = FALSE] \in Pets
  BY DEF Pets, PetStates
<1>3. Adopted(p) \in Pets
  BY <1>2, EnergyType DEF Adopted
<1>4. Departed(p) \in Pets /\ Fetched(p) \in Pets
  BY DEF Departed, Fetched, Pets, PetStates
<1>5. Activated(p) \in Pets
  BY <1>1, <1>3 DEF Activated
<1> QED BY <1>1, <1>4, <1>5 DEF Tended

LEMMA EventType == CareTypeOK /\ (Event \/ UNCHANGED events) => events' \in 0..MaxEvents
BY DEF CareTypeOK, Event

LEMMA StageType ==
    ASSUME NEW s \in Stages \cup {"rest"}
    PROVE  After(s) \in Stages \cup {"rest"}
BY DEF After, Stages, Daily

\* A step of the pass changes the place in it, and the services it does.
LEMMA OpenType ==
    ASSUME CareTypeOK, NEW s \in Stages \cup {"rest"}, Open(s)
    PROVE  stage' = s /\ today' = day /\ todo' \subseteq Accounts
BY DEF Open, CareTypeOK

LEMMA CareTypeStep == CareTypeOK /\ [CareNext]_careVars => CareTypeOK'
<1> SUFFICES ASSUME CareTypeOK, [CareNext]_careVars PROVE CareTypeOK'
  OBVIOUS
<1> USE DEF CareTypeOK
<1>1. CASE BeginPass
  <2>1. Open(After(stage)) /\ After(stage) \in Stages \cup {"rest"}
    BY <1>1, StageType DEF BeginPass
  <2>2. today' \in 1..MaxDay /\ stage' \in Stages \cup {"rest"} /\ todo' \subseteq Accounts
    BY <2>1, OpenType
  <2> QED BY <1>1, <2>2 DEF BeginPass, garden, history
<1>2. CASE EndStage
  <2>1. Open(After(stage)) /\ After(stage) \in Stages \cup {"rest"}
    BY <1>2, StageType DEF EndStage
  <2>2. today' \in 1..MaxDay /\ stage' \in Stages \cup {"rest"} /\ todo' \subseteq Accounts
    BY <2>1, OpenType
  <2>3. lastDaily' \in [Daily -> 0..MaxDay]
    BY <1>2 DEF EndStage
  <2>4. UNCHANGED <<day, pool, inits, served, task, pet, trial, joined, reloaded, missed, events>>
    BY <1>2 DEF EndStage, garden, history
  <2> QED BY <2>2, <2>3, <2>4
<1>3. ASSUME NEW a \in todo, NEW l \in Daily, ClaimDaily(l, a) PROVE CareTypeOK'
  <2>1. served' \in [Daily -> [Accounts -> 0..MaxDay]]
    BY <1>3 DEF ClaimDaily
  <2>2. /\ UNCHANGED <<day, pool, stage, today, lastDaily, inits, joined, reloaded, task, pet,
                       trial, missed, events>>
        /\ todo' \subseteq todo
    BY <1>3 DEF ClaimDaily, Take, garden
  <2> QED BY <2>1, <2>2
<1>4. ASSUME NEW a \in todo, Report(a) PROVE CareTypeOK'
  <2>1. served' \in [Daily -> [Accounts -> 0..MaxDay]]
    <3>1. served' = [served EXCEPT !["report"][a] = day] /\ day \in 0..MaxDay
      BY <1>4 DEF Report
    <3>2. [served["report"] EXCEPT ![a] = day] \in [Accounts -> 0..MaxDay]
      BY <3>1 DEF Daily
    <3> QED BY <3>1, <3>2
  <2>2. task' \in [Tencent -> [Tasks -> TaskStates]]
    <3>1. PICK web \in BOOLEAN :
            task' = [task EXCEPT ![a] = [t \in Tasks |->
               IF task[a][t] = "accepted" /\ (t \in WebTasks => web) THEN "completed" ELSE task[a][t]]]
      BY <1>4 DEF Report
    <3> DEFINE row == [t \in Tasks |->
               IF task[a][t] = "accepted" /\ (t \in WebTasks => web) THEN "completed" ELSE task[a][t]]
    <3>2. CASE a \in Tencent
      <4>1. row \in [Tasks -> TaskStates]
        BY <3>2 DEF TaskStates
      <4> QED BY <3>1, <4>1
    <3>3. CASE a \notin Tencent
      BY <3>1, <3>3
    <3> QED BY <3>2, <3>3
  <2>3. events' \in 0..MaxEvents
    BY <1>4, EventType DEF Report
  <2> QED BY <1>4, <2>1, <2>2, <2>3 DEF Report, Take
<1>5. ASSUME NEW a \in todo, CollectTasks(a) PROVE CareTypeOK'
  <2>1. PICK accepts \in BOOLEAN, claims \in BOOLEAN :
          /\ task' = [task EXCEPT ![a] = [t \in Tasks |->
               CASE task[a][t] = "not_accepted" /\ accepts -> "accepted"
                 [] task[a][t] = "completed" /\ claims -> "claimed"
                 [] OTHER -> task[a][t]]]
          /\ pet' = [pet EXCEPT ![a] = WithEnergy(pet[a],
               IF claims THEN Cardinality({t \in Tasks : task[a][t] = "completed"}) ELSE 0)]
    BY <1>5 DEF CollectTasks
  <2> DEFINE row == [t \in Tasks |->
               CASE task[a][t] = "not_accepted" /\ accepts -> "accepted"
                 [] task[a][t] = "completed" /\ claims -> "claimed"
                 [] OTHER -> task[a][t]]
             gained == IF claims THEN Cardinality({t \in Tasks : task[a][t] = "completed"}) ELSE 0
  <2>2. task' \in [Tencent -> [Tasks -> TaskStates]]
    <3>1. CASE a \in Tencent
      <4>1. row \in [Tasks -> TaskStates]
        BY <3>1 DEF TaskStates
      <4> QED BY <2>1, <4>1
    <3>2. CASE a \notin Tencent
      BY <2>1, <3>2
    <3> QED BY <3>1, <3>2
  <2>3. gained \in Nat
    <3>1. IsFiniteSet({t \in Tasks : task[a][t] = "completed"})
      BY FS_Subset
    <3> QED BY <3>1, FS_CardinalityType
  <2>4. pet' \in [Tencent -> Pets]
    <3>1. CASE a \in Tencent
      <4>1. WithEnergy(pet[a], gained) \in Pets
        BY <3>1, <2>3, EnergyType
      <4> QED BY <2>1, <4>1
    <3>2. CASE a \notin Tencent
      BY <2>1, <3>2
    <3> QED BY <3>1, <3>2
  <2>5. events' \in 0..MaxEvents
    BY <1>5, EventType DEF CollectTasks
  <2> QED BY <1>5, <2>2, <2>4, <2>5 DEF CollectTasks, Take
<1>6. ASSUME NEW a \in todo, PetTravel(a) PROVE CareTypeOK'
  <2>1. pet' \in [Tencent -> Pets]
    <3>1. CASE a \in Tencent
      <4>1. Tended(pet[a]) \in Pets /\ BoxesOpened(pet[a]) \in Pets
        BY <3>1, TendedType
      <4> QED BY <1>6, <4>1 DEF PetTravel
    <3>2. CASE a \notin Tencent
      BY <1>6, <3>2 DEF PetTravel
    <3> QED BY <3>1, <3>2
  <2>2. events' \in 0..MaxEvents
    BY <1>6, EventType DEF PetTravel
  <2> QED BY <1>6, <2>1, <2>2 DEF PetTravel, Take
<1>7. ASSUME NEW a \in todo, NEW l \in Daily, MissDaily(l, a) PROVE CareTypeOK'
  <2>1. events' \in 0..MaxEvents
    BY <1>7, EventType DEF MissDaily
  <2>2. missed' \subseteq (Daily \cup {"trial"}) \X Accounts
    BY <1>7 DEF MissDaily
  <2> QED BY <1>7, <2>1, <2>2 DEF MissDaily, Take, garden
<1>8. ASSUME NEW a \in Accounts, InitAccount(a) PROVE CareTypeOK'
  <2>1. Started(a) \subseteq Daily \cup {"trial"} /\ ("trial" \in Started(a) => a \in Tencent)
    BY DEF Started, Daily, Accounts
  <2>2. served' \in [Daily -> [Accounts -> 0..MaxDay]]
    <3>1. \A l \in Daily : [served[l] EXCEPT ![a] = day] \in [Accounts -> 0..MaxDay]
      OBVIOUS
    <3> QED BY <1>8, <3>1 DEF InitAccount
  <2>3. trial' \subseteq Tencent
    BY <1>8, <2>1 DEF InitAccount
  <2>4. missed' \subseteq (Daily \cup {"trial"}) \X Accounts
    BY <1>8, <2>1 DEF InitAccount
  <2>5. events' \in 0..MaxEvents
    BY <1>8, EventType DEF InitAccount
  <2> QED BY <1>8, <2>2, <2>3, <2>4, <2>5 DEF InitAccount, scheduler
<1>9. ASSUME NEW a \in Accounts, PanelLogin(a) PROVE CareTypeOK'
  <2>1. events' \in 0..MaxEvents
    BY <1>9, EventType DEF PanelLogin
  <2> QED BY <1>9, <2>1 DEF PanelLogin, scheduler, garden
<1>10. CASE Reload
  <2>1. events' \in 0..MaxEvents
    BY <1>10, EventType DEF Reload
  <2> QED BY <1>10, <2>1 DEF Reload, scheduler, garden
<1>11. CASE RestartCare
  <2>1. events' \in 0..MaxEvents
    BY <1>11, EventType DEF RestartCare
  <2>2. \A a \in Accounts : Started(a) \subseteq Daily \cup {"trial"}
    BY DEF Started, Daily
  <2>3. missed' \subseteq (Daily \cup {"trial"}) \X Accounts
    BY <1>11, <2>2 DEF RestartCare
  <2>4. lastDaily' \in [Daily -> 0..MaxDay]
    BY <1>11 DEF RestartCare
  <2> QED BY <1>11, <2>1, <2>3, <2>4 DEF RestartCare, garden
<1>12. CASE Midnight
  <2>1. \A a \in Tencent : [pet[a] EXCEPT !.limit = FALSE] \in Pets
    BY DEF Pets
  <2>2. pet' \in [Tencent -> Pets]
    BY <1>12, <2>1 DEF Midnight
  <2> QED BY <1>12, <2>2 DEF Midnight, scheduler
<1>13. ASSUME NEW a \in Tencent, Arrive(a) PROVE CareTypeOK'
  <2>1. [pet[a] EXCEPT !.state = "arrived"] \in Pets
    BY DEF Pets, PetStates
  <2>2. pet' \in [Tencent -> Pets]
    BY <1>13, <2>1 DEF Arrive
  <2> QED BY <1>13, <2>2 DEF Arrive, scheduler, history
<1>14. CASE UNCHANGED careVars
  BY <1>14 DEF careVars, scheduler, garden, history
<1> QED
  BY <1>1, <1>2, <1>3, <1>4, <1>5, <1>6, <1>7, <1>8, <1>9, <1>10, <1>11, <1>12, <1>13, <1>14
     DEF CareNext, Pass
LEMMA DatedStep == CareTypeOK /\ Dated /\ [CareNext]_careVars => Dated'
<1> SUFFICES ASSUME CareTypeOK, Dated, [CareNext]_careVars PROVE Dated'
  OBVIOUS
<1>0. /\ day \in Nat /\ today \in Nat /\ \A l \in Daily : lastDaily[l] \in Nat
      /\ DOMAIN lastDaily = Daily
  BY DEF CareTypeOK
<1>1. CASE BeginPass
  BY <1>0, <1>1 DEF BeginPass, Open, Dated
<1>2. CASE EndStage
  BY <1>0, <1>2 DEF EndStage, Open, Dated
<1>3. ASSUME NEW a \in todo, NEW l \in Daily, ClaimDaily(l, a) \/ MissDaily(l, a)
      PROVE  Dated'
  BY <1>3 DEF ClaimDaily, MissDaily, Take, Dated
<1>4. ASSUME NEW a \in todo, Report(a) \/ CollectTasks(a) \/ PetTravel(a) PROVE Dated'
  BY <1>4 DEF Report, CollectTasks, PetTravel, Take, Dated
<1>5. ASSUME NEW a \in Accounts, InitAccount(a) \/ PanelLogin(a) PROVE Dated'
  BY <1>5 DEF InitAccount, PanelLogin, scheduler, Dated
<1>6. CASE Reload
  BY <1>6 DEF Reload, scheduler, Dated
<1>7. CASE RestartCare
  BY <1>0, <1>7 DEF RestartCare, Dated
<1>8. CASE Midnight
  BY <1>0, <1>8 DEF Midnight, scheduler, Dated
<1>9. ASSUME NEW a \in Tencent, Arrive(a) PROVE Dated'
  BY <1>9 DEF Arrive, scheduler, Dated
<1>10. CASE UNCHANGED careVars
  BY <1>10 DEF careVars, scheduler, Dated
<1> QED BY <1>1, <1>2, <1>3, <1>4, <1>5, <1>6, <1>7, <1>8, <1>9, <1>10 DEF CareNext, Pass

-----------------------------------------------------------------------------
(* The daily actions. *)

\* InitAccount does the daily actions it starts, or notes that it missed them.
LEMMA InitSettles ==
    ASSUME CareTypeOK, NEW a \in Accounts, InitAccount(a), NEW x \in Started(a)
    PROVE  \/ x \in Daily /\ served'[x][a] = day
           \/ x = "trial" /\ a \in trial'
           \/ <<x, a>> \in missed'
<1>1. PICK failing \in SUBSET UNION {CallsOf(y) : y \in Started(a)},
           asks \in {"none", "register", "claim"} :
        /\ served' = [l \in Daily |->
              IF l \in {y \in Started(a) : IF y = "trial" THEN TrialDone(asks, failing)
                                           ELSE y \notin failing}
              THEN [served[l] EXCEPT ![a] = day] ELSE served[l]]
        /\ trial' = IF "trial" \in {y \in Started(a) : IF y = "trial"
                                        THEN TrialDone(asks, failing) ELSE y \notin failing}
                    THEN trial \cup {a} ELSE trial
        /\ missed' = missed \cup ({y \in Started(a) : CallsOf(y) \cap failing # {}} \X {a})
  BY DEF InitAccount
<1>2. CASE CallsOf(x) \cap failing # {}
  BY <1>1, <1>2
<1>3. CASE CallsOf(x) \cap failing = {} /\ x = "trial"
  <2>1. TrialDone(asks, failing)
    BY <1>3 DEF TrialDone, CallsOf, TrialCalls
  <2> QED BY <1>1, <1>3, <2>1
<1>4. CASE CallsOf(x) \cap failing = {} /\ x # "trial"
  <2>1. x \notin failing /\ x \in Daily
    BY <1>4 DEF CallsOf, Started, Daily
  <2>2. served'[x] = [served[x] EXCEPT ![a] = day] /\ served[x] \in [Accounts -> 0..MaxDay]
    BY <1>1, <1>4, <2>1 DEF CareTypeOK
  <2> QED BY <2>1, <2>2
<1> QED BY <1>2, <1>3, <1>4

\* Nothing but a crash, a midnight and leaving the pool undoes what has been
\* made up for.
LEMMA HandledKept ==
    ASSUME CareTypeOK, [CareNext]_careVars, ~RestartCare, ~Midnight,
           NEW l \in Daily, NEW a \in pool \cap FamilyOf(l), a \in pool', Handled(l, a)
    PROVE  Handled(l, a)'
<1>0. /\ a \in Accounts
      /\ served \in [Daily -> [Accounts -> 0..MaxDay]]
  BY AccountFacts DEF CareTypeOK
<1>1. CASE BeginPass \/ EndStage
  BY <1>1 DEF BeginPass, EndStage, Open, history, Handled
<1>2. ASSUME NEW b \in todo, NEW k \in Daily, ClaimDaily(k, b) PROVE Handled(l, a)'
  <2>1. b \in Accounts
    BY DEF CareTypeOK
  <2>2. served'[l][a] = served[l][a] \/ served'[l][a] = day
    BY <1>0, <1>2, <2>1 DEF ClaimDaily
  <2> QED BY <1>2, <2>2 DEF ClaimDaily, Take, Handled
<1>3. ASSUME NEW b \in todo, Report(b) PROVE Handled(l, a)'
  <2>1. b \in Accounts
    BY DEF CareTypeOK
  <2>2. served'[l][a] = served[l][a] \/ served'[l][a] = day
    BY <1>0, <1>3, <2>1 DEF Report
  <2> QED BY <1>3, <2>2 DEF Report, Take, Handled
<1>4. ASSUME NEW b \in todo, CollectTasks(b) \/ PetTravel(b) PROVE Handled(l, a)'
  BY <1>4 DEF CollectTasks, PetTravel, Take, Handled
<1>5. ASSUME NEW b \in todo, NEW k \in Daily, MissDaily(k, b) PROVE Handled(l, a)'
  BY <1>5 DEF MissDaily, Take, garden, Handled
<1>6. ASSUME NEW b \in Accounts, InitAccount(b) PROVE Handled(l, a)'
  <2>1. missed \subseteq missed' /\ joined' = joined /\ reloaded' = reloaded
        /\ inits' = inits \ {b} /\ day' = day
    BY <1>6 DEF InitAccount
  <2>2. served'[l][a] = served[l][a] \/ served'[l][a] = day
    <3>1. served'[l] = served[l] \/ served'[l] = [served[l] EXCEPT ![b] = day]
      BY <1>6 DEF InitAccount
    <3> QED BY <1>0, <3>1
  <2>3. CASE a = b /\ l # "report"
    <3>1. l \in Started(b)
      BY <2>3, AccountFacts
    <3>2. l # "trial"
      BY DEF Daily
    <3>3. served'[l][b] = day \/ <<l, b>> \in missed'
      BY <1>6, <3>1, <3>2, InitSettles
    <3> QED BY <2>1, <2>3, <3>3 DEF Handled
  <2> QED BY <2>1, <2>2, <2>3 DEF Handled
<1>7. ASSUME NEW b \in Accounts, PanelLogin(b) PROVE Handled(l, a)'
  BY <1>7 DEF PanelLogin, Handled
<1>8. CASE Reload
  BY <1>8 DEF Reload, Handled
<1>9. ASSUME NEW b \in Tencent, Arrive(b) PROVE Handled(l, a)'
  BY <1>9 DEF Arrive, history, Handled
<1>10. CASE UNCHANGED careVars
  BY <1>10 DEF careVars, history, Handled
<1> QED BY <1>1, <1>2, <1>3, <1>4, <1>5, <1>6, <1>7, <1>8, <1>9, <1>10 DEF CareNext, Pass

\* An account that joins the pool joins it by a login or by a reload.
LEMMA NewcomerHandled ==
    ASSUME CareTypeOK, [CareNext]_careVars, NEW l \in Daily,
           NEW a \in pool' \cap FamilyOf(l), a \notin pool
    PROVE  Handled(l, a)' /\ UNCHANGED <<day, scheduler>>
<1>1. CASE Reload
  BY <1>1 DEF Reload, Handled
<1>2. ASSUME NEW b \in Accounts, PanelLogin(b)
      PROVE  Handled(l, a)' /\ UNCHANGED <<day, scheduler>>
  BY <1>2 DEF PanelLogin, Handled
<1>3. CASE BeginPass \/ EndStage
  BY <1>3 DEF BeginPass, EndStage
<1>4. ASSUME NEW b \in todo, NEW k \in Daily, ClaimDaily(k, b) \/ MissDaily(k, b) PROVE FALSE
  BY <1>4 DEF ClaimDaily, MissDaily, Take
<1>5. ASSUME NEW b \in todo, Report(b) \/ CollectTasks(b) \/ PetTravel(b) PROVE FALSE
  BY <1>5 DEF Report, CollectTasks, PetTravel, Take
<1>6. ASSUME NEW b \in Accounts, InitAccount(b) PROVE FALSE
  BY <1>6 DEF InitAccount
<1>7. CASE RestartCare \/ Midnight
  BY <1>7 DEF RestartCare, Midnight
<1>8. ASSUME NEW b \in Tencent, Arrive(b) PROVE FALSE
  BY <1>8 DEF Arrive
<1>9. CASE UNCHANGED careVars
  BY <1>9 DEF careVars
<1> QED BY <1>1, <1>2, <1>3, <1>4, <1>5, <1>6, <1>7, <1>8, <1>9 DEF CareNext, Pass

\* The account a stage has just dealt with is handled.
LEMMA PassedHandled ==
    ASSUME CareTypeOK, [CareNext]_careVars, stage \in Daily, stage' = stage,
           today' = today, today = day, ~Midnight, ~RestartCare,
           NEW a \in pool \cap FamilyOf(stage), a \in todo, a \notin todo'
    PROVE  Handled(stage, a)'
<1>0. /\ a \in Accounts
      /\ served \in [Daily -> [Accounts -> 0..MaxDay]]
      /\ day \in 1..MaxDay
  BY AccountFacts DEF CareTypeOK
<1>1. ASSUME NEW b \in todo, NEW k \in Daily, ClaimDaily(k, b) PROVE Handled(stage, a)'
  <2>1. a = b /\ k = stage
    BY <1>1 DEF ClaimDaily, Take
  <2>2. served'[stage][a] = day /\ day' = day
    BY <1>0, <1>1, <2>1 DEF ClaimDaily, Take
  <2> QED BY <1>1, <2>2 DEF ClaimDaily, Take, Handled
<1>2. ASSUME NEW b \in todo, Report(b) PROVE Handled(stage, a)'
  <2>1. a = b /\ stage = "report"
    BY <1>2 DEF Report, Take
  <2>2. served'[stage][a] = day /\ day' = day
    BY <1>0, <1>2, <2>1 DEF Report, Take
  <2> QED BY <1>2, <2>2 DEF Report, Take, Handled
<1>3. ASSUME NEW b \in todo, NEW k \in Daily, MissDaily(k, b) PROVE Handled(stage, a)'
  BY <1>3 DEF MissDaily, Take, Handled
<1>4. ASSUME NEW b \in todo, CollectTasks(b) \/ PetTravel(b) PROVE FALSE
  BY <1>4 DEF CollectTasks, PetTravel, Take, Daily
<1>5. CASE BeginPass
  BY <1>5 DEF BeginPass, Daily
<1>6. CASE EndStage
  BY <1>6 DEF EndStage
<1>7. ASSUME NEW b \in Accounts, InitAccount(b) \/ PanelLogin(b) PROVE FALSE
  BY <1>7 DEF InitAccount, PanelLogin, scheduler
<1>8. CASE Reload
  BY <1>8 DEF Reload, scheduler
<1>9. ASSUME NEW b \in Tencent, Arrive(b) PROVE FALSE
  BY <1>9 DEF Arrive, scheduler
<1>10. CASE UNCHANGED careVars
  BY <1>10 DEF careVars, scheduler
<1> QED BY <1>1, <1>2, <1>3, <1>4, <1>5, <1>6, <1>7, <1>8, <1>9, <1>10 DEF CareNext, Pass

\* What a step does to the place of the pass.
LEMMA PassMoves ==
    ASSUME CareTypeOK, [CareNext]_careVars
    PROVE  \/ BeginPass \/ EndStage \/ RestartCare
           \/ stage' = stage /\ today' = today /\ lastDaily' = lastDaily
<1>1. ASSUME NEW b \in todo, NEW k \in Daily, ClaimDaily(k, b) \/ MissDaily(k, b)
      PROVE  stage' = stage /\ today' = today /\ lastDaily' = lastDaily
  BY <1>1 DEF ClaimDaily, MissDaily, Take
<1>2. ASSUME NEW b \in todo, Report(b) \/ CollectTasks(b) \/ PetTravel(b)
      PROVE  stage' = stage /\ today' = today /\ lastDaily' = lastDaily
  BY <1>2 DEF Report, CollectTasks, PetTravel, Take
<1>3. ASSUME NEW b \in Accounts, InitAccount(b) \/ PanelLogin(b)
      PROVE  stage' = stage /\ today' = today /\ lastDaily' = lastDaily
  BY <1>3 DEF InitAccount, PanelLogin, scheduler
<1>4. CASE Reload \/ Midnight \/ UNCHANGED careVars
  BY <1>4 DEF Reload, Midnight, careVars, scheduler
<1>5. ASSUME NEW b \in Tencent, Arrive(b)
      PROVE  stage' = stage /\ today' = today /\ lastDaily' = lastDaily
  BY <1>5 DEF Arrive, scheduler
<1> QED BY <1>1, <1>2, <1>3, <1>4, <1>5 DEF CareNext, Pass

\* Only a midnight changes the day.
LEMMA DayMoves == [CareNext]_careVars /\ ~Midnight => day' = day
<1> SUFFICES ASSUME [CareNext]_careVars, ~Midnight PROVE day' = day
  OBVIOUS
<1>1. ASSUME NEW b \in todo, NEW k \in Daily, ClaimDaily(k, b) \/ MissDaily(k, b)
      PROVE  day' = day
  BY <1>1 DEF ClaimDaily, MissDaily, Take
<1>2. ASSUME NEW b \in todo, Report(b) \/ CollectTasks(b) \/ PetTravel(b)
      PROVE  day' = day
  BY <1>2 DEF Report, CollectTasks, PetTravel, Take
<1>3. ASSUME NEW b \in Accounts, InitAccount(b) \/ PanelLogin(b)
      PROVE  day' = day
  BY <1>3 DEF InitAccount, PanelLogin
<1>4. CASE Reload \/ RestartCare \/ BeginPass \/ EndStage \/ UNCHANGED careVars
  BY <1>4 DEF Reload, RestartCare, BeginPass, EndStage, careVars
<1>5. ASSUME NEW b \in Tencent, Arrive(b)
      PROVE  day' = day
  BY <1>5 DEF Arrive
<1> QED BY <1>1, <1>2, <1>3, <1>4, <1>5 DEF CareNext, Pass

LEMMA ServedStep == IInv /\ [CareNext]_careVars => Stamped' /\ Running'
<1> SUFFICES ASSUME IInv, [CareNext]_careVars PROVE Stamped' /\ Running'
  OBVIOUS
<1>0. /\ CareTypeOK /\ Dated /\ Stamped /\ Running
      /\ day \in Nat \ {0} /\ lastDaily \in [Daily -> 0..MaxDay]
  BY DEF IInv, CareTypeOK
<1>1. CASE RestartCare
  <2>1. stage' = "rest" /\ day' = day /\ \A l \in Daily : lastDaily'[l] = 0
    BY <1>1 DEF RestartCare
  <2> QED BY <1>0, <2>1 DEF Stamped, Running, Daily
<1>2. CASE Midnight
  <2>1. day' = day + 1 /\ today' = today /\ lastDaily' = lastDaily
    BY <1>2 DEF Midnight, scheduler
  <2>2. today' # day' /\ \A l \in Daily : lastDaily'[l] # day'
    BY <1>0, <2>1 DEF Dated, CareTypeOK
  <2> QED BY <2>2 DEF Stamped, Running
<1>3. CASE BeginPass
  <2>1. /\ UNCHANGED <<day, pool, lastDaily, served, missed, reloaded, joined, inits>>
        /\ todo' = IF stage' = "rest" \/ (stage' \in Daily /\ lastDaily'[stage'] = day) THEN {}
                   ELSE pool \cap FamilyOf(stage')
    BY <1>3 DEF BeginPass, Open, history
  <2>2. Stamped'
    BY <1>0, <2>1 DEF Stamped, Handled
  <2>3. Running'
    BY <2>1, <2>2 DEF Running, Stamped, Daily
  <2> QED BY <2>2, <2>3
<1>4. CASE EndStage
  <2>1. /\ UNCHANGED <<day, pool, served, missed, reloaded, joined, inits>>
        /\ todo' = IF stage' = "rest" \/ (stage' \in Daily /\ lastDaily'[stage'] = day) THEN {}
                   ELSE pool \cap FamilyOf(stage')
        /\ todo = {}
        /\ lastDaily' = IF stage \in Daily THEN [lastDaily EXCEPT ![stage] = today] ELSE lastDaily
    BY <1>4 DEF EndStage, Open, history
  <2>2. ASSUME NEW l \in Daily, NEW a \in pool \cap FamilyOf(l), lastDaily'[l] = day
        PROVE  Handled(l, a)
    <3>1. CASE lastDaily[l] = day
      BY <1>0, <3>1 DEF Stamped
    <3>2. CASE lastDaily[l] # day
      <4>1. l = stage /\ today = day
        BY <1>0, <2>1, <2>2, <3>2
      <4> QED BY <1>0, <2>1, <4>1 DEF Running
    <3> QED BY <3>1, <3>2
  <2>3. Stamped'
    BY <2>1, <2>2 DEF Stamped, Handled
  <2>4. Running'
    BY <2>1, <2>3 DEF Running, Stamped, Daily
  <2> QED BY <2>3, <2>4
<1>5. CASE ~RestartCare /\ ~Midnight /\ ~BeginPass /\ ~EndStage
  <2>1. stage' = stage /\ today' = today /\ lastDaily' = lastDaily
    BY <1>0, <1>5, PassMoves
  <2>2. day' = day
    BY <1>5, DayMoves
  <2>3. ASSUME NEW l \in Daily, NEW a \in pool' \cap FamilyOf(l), lastDaily[l] = day
        PROVE  Handled(l, a)'
    <3>1. CASE a \in pool
      BY <1>0, <1>5, <2>3, <3>1, HandledKept DEF Stamped
    <3>2. CASE a \notin pool
      BY <1>0, <2>3, <3>2, NewcomerHandled
    <3> QED BY <3>1, <3>2
  <2>4. ASSUME NEW l \in Daily, stage = l, today = day, NEW a \in pool' \cap FamilyOf(l)
        PROVE  a \in todo' \/ Handled(l, a)'
    <3>1. CASE a \notin pool
      BY <1>0, <2>4, <3>1, NewcomerHandled
    <3>2. CASE a \in pool /\ Handled(l, a)
      BY <1>0, <1>5, <2>4, <3>2, HandledKept
    <3>3. CASE a \in pool /\ a \in todo /\ a \notin todo'
      <4>1. Handled(stage, a)'
        BY <1>0, <1>5, <2>1, <2>4, <3>3, PassedHandled
      <4> QED BY <2>1, <2>4, <4>1 DEF Handled
    <3>4. CASE a \in pool /\ a \in todo /\ a \in todo'
      BY <3>4
    <3>5. a \in pool => a \in todo \/ Handled(l, a)
      BY <1>0, <2>4 DEF Running
    <3> QED BY <3>1, <3>2, <3>3, <3>4, <3>5
  <2>5. Stamped'
    BY <2>1, <2>2, <2>3 DEF Stamped
  <2>6. Running'
    BY <2>1, <2>2, <2>4 DEF Running
  <2> QED BY <2>5, <2>6
<1> QED BY <1>1, <1>2, <1>3, <1>4, <1>5

LEMMA CareInductive == CareSpec => []IInv
<1>1. CareInit => IInv
  <2> SUFFICES ASSUME CareInit PROVE IInv
    OBVIOUS
  <2>1. CareTypeOK
    <3>1. \A b \in BOOLEAN :
            [state |-> "none", adoptable |-> b, limit |-> FALSE, energy |-> 0] \in Pets
      BY DEF Pets, PetStates
    <3>2. pet \in [Tencent -> Pets]
      BY <3>1 DEF CareInit
    <3>3. task \in [Tencent -> [Tasks -> TaskStates]]
      BY DEF CareInit, TaskStates
    <3>4. lastDaily \in [Daily -> 0..MaxDay] /\ served \in [Daily -> [Accounts -> 0..MaxDay]]
      BY DEF CareInit
    <3>5. /\ pool \subseteq Accounts /\ todo = {} /\ inits = {} /\ trial = {} /\ joined = {}
          /\ reloaded = {} /\ missed = {} /\ events = 0 /\ stage = "rest" /\ day = 1 /\ today = 1
      BY DEF CareInit
    <3> QED BY <3>2, <3>3, <3>4, <3>5 DEF CareTypeOK
  <2>2. Dated /\ Stamped /\ Running
    BY DEF CareInit, Dated, Stamped, Running, Daily
  <2> QED BY <2>1, <2>2 DEF IInv
<1>2. IInv /\ [CareNext]_careVars => IInv'
  BY CareTypeStep, DatedStep, ServedStep DEF IInv
<1> QED BY <1>1, <1>2, PTL DEF CareSpec

-----------------------------------------------------------------------------
(* Theorems. *)

\* Every variable of the daily pass keeps its type; energy never leaves its
\* range, however rewards, boxes and adoptions follow each other.
THEOREM CareTypeCorrect == CareSpec => []CareTypeOK
<1>1. IInv => CareTypeOK
  BY DEF IInv
<1> QED BY <1>1, CareInductive, PTL

\* claimDaily's stamp leaves nobody out: whoever is in the pool when a stage is
\* stamped for today was called for, joined by a login whose InitAccount makes
\* up for it, or joined by a reload.
THEOREM StampLeavesNobodyOut == CareSpec => []EveryoneServed
<1>1. IInv => EveryoneServed
  BY DEF IInv, Stamped, Handled, EveryoneServed
<1> QED BY <1>1, CareInductive, PTL

\* EnsureGlobalTrial is tried for every account that joins by a login, and no
\* way through its three calls ends without the trial or a failed call.
THEOREM TrialTriedOnce == CareSpec => []TrialOpened
<1>1. CareInit => TrialOpened
  BY DEF CareInit, TrialOpened
<1>2. CareTypeOK /\ TrialOpened /\ [CareNext]_careVars => TrialOpened'
  <2> SUFFICES ASSUME CareTypeOK, TrialOpened, [CareNext]_careVars, NEW a \in joined' \cap Tencent
               PROVE  a \in inits' \/ a \in trial' \/ <<"trial", a>> \in missed'
    BY DEF TrialOpened
  <2>0. a \in joined => a \in inits \/ a \in trial \/ <<"trial", a>> \in missed
    BY DEF TrialOpened
  <2>1. CASE BeginPass \/ EndStage
    BY <2>0, <2>1 DEF BeginPass, EndStage, garden, history
  <2>2. ASSUME NEW b \in todo, NEW l \in Daily, ClaimDaily(l, b) \/ MissDaily(l, b)
        PROVE  a \in inits' \/ a \in trial' \/ <<"trial", a>> \in missed'
    BY <2>0, <2>2 DEF ClaimDaily, MissDaily, Take, garden
  <2>3. ASSUME NEW b \in todo, Report(b) \/ CollectTasks(b) \/ PetTravel(b)
        PROVE  a \in inits' \/ a \in trial' \/ <<"trial", a>> \in missed'
    BY <2>0, <2>3 DEF Report, CollectTasks, PetTravel, Take
  <2>4. ASSUME NEW b \in Accounts, InitAccount(b)
        PROVE  a \in inits' \/ a \in trial' \/ <<"trial", a>> \in missed'
    <3>1. joined' = joined /\ trial \subseteq trial' /\ missed \subseteq missed'
          /\ inits' = inits \ {b}
      BY <2>4 DEF InitAccount
    <3>2. CASE a = b
      <4>1. "trial" \in Started(b) /\ "trial" \notin Daily
        BY <3>2 DEF Started, Daily
      <4>2. b \in trial' \/ <<"trial", b>> \in missed'
        BY <2>4, <4>1, InitSettles
      <4> QED BY <3>2, <4>2
    <3> QED BY <2>0, <3>1, <3>2
  <2>5. ASSUME NEW b \in Accounts, PanelLogin(b)
        PROVE  a \in inits' \/ a \in trial' \/ <<"trial", a>> \in missed'
    BY <2>0, <2>5 DEF PanelLogin, garden
  <2>6. CASE Reload
    BY <2>0, <2>6 DEF Reload, garden
  <2>7. CASE RestartCare
    <3>1. "trial" \in Started(a)
      BY DEF Started
    <3> QED BY <2>0, <2>7, <3>1 DEF RestartCare, garden
  <2>8. CASE Midnight
    BY <2>8 DEF Midnight
  <2>9. ASSUME NEW b \in Tencent, Arrive(b)
        PROVE  a \in inits' \/ a \in trial' \/ <<"trial", a>> \in missed'
    BY <2>0, <2>9 DEF Arrive, history
  <2>10. CASE UNCHANGED careVars
    BY <2>0, <2>10 DEF careVars, garden, history
  <2> QED
    BY <2>1, <2>2, <2>3, <2>4, <2>5, <2>6, <2>7, <2>8, <2>9, <2>10 DEF CareNext, Pass
<1> QED BY <1>1, <1>2, CareTypeCorrect, PTL DEF CareSpec
=============================================================================
