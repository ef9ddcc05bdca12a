-------------------------- MODULE CredentialsProofs --------------------------
(***************************************************************************)
(* Proofs about Credentials for every set of callers, every life of a token *)
(* and every bound: the types, that only an expired credential is called    *)
(* dead, that no refresh token is presented twice, and that the file holds  *)
(* what the account uses.                                                   *)
(***************************************************************************)
EXTENDS Credentials, TLAPS, FiniteSetTheorems

-----------------------------------------------------------------------------
(* The inductive invariant. *)

\* Objects and logins are numbered from 1.
Counted == Made \in Nat /\ Logins \in Nat

\* Whoever is between the lock and the end of the write holds refreshMu.
Locked == \A c \in Callers : Renewing(c) => mu = c

\* Every credential comes from a login.
Granted ==
    /\ \A o \in DOMAIN heap : heap[o].grant \in DOMAIN accepted
    /\ disk.grant \in DOMAIN accepted

\* Upstream would take the credential, or has withdrawn it.
Fresh(cred) == cred.gen = 0 \/ accepted[cred.grant] \in {0, cred.gen}

\* Upstream is one renewal ahead of the credential.
Rotated(cred) == cred.gen = 0 \/ accepted[cred.grant] \in {0, cred.gen + 1}

Answered == \E c \in Callers : call[c].pc = "answered"
Saving == \E c \in Callers : call[c].pc = "saving"

\* As long as nothing went wrong, a renewal works on the object in use, which is
\* at most the one answer behind that is on its way, and the file holds that
\* object or the one a login has just saved.
Calm ==
    /\ held # 0 /\ ~disk.blank /\ \A o \in DOMAIN heap : ~heap[o].blank
    /\ login # 0 => reload = 0
    /\ \A c \in Callers : Renewing(c) => call[c].obj = held
    /\ \A c \in Callers : call[c].pc = "answered" =>
          /\ call[c].answer = "full" \/ (call[c].answer = "noExpiry" /\ heap[held].gen > 0)
          /\ Rotated(heap[held])
    /\ ~Answered => Fresh(heap[held])
    /\ ~Saving => disk = heap[held] \/ (login # 0 /\ disk = heap[login])
    /\ login # 0 => Fresh(heap[login]) /\ heap[login].grant # heap[held].grant

Base == TypeOK /\ Counted /\ Locked /\ Granted

IInv == Base /\ (~mishap => Calm)

-----------------------------------------------------------------------------
(* Data. *)

LEMMA CountTo == ASSUME NEW n \in Nat PROVE Cardinality(1..n) = n
BY FS_Interval, 1 \in Int, n \in Int, SMT

\* What a renewal makes of a credential.
LEMMA AppliedFacts ==
    ASSUME NEW cred \in Credential, NEW answer \in Answers, now \in 0..MaxTime
    PROVE  /\ Applied(cred, answer) \in Credential
           /\ Applied(cred, answer).grant = cred.grant
           /\ answer # "empty" => Applied(cred, answer).blank = cred.blank
           /\ answer = "full" => Applied(cred, answer).gen = IF cred.gen = 0 THEN 0 ELSE cred.gen + 1
           /\ answer = "noExpiry" => Applied(cred, answer).gen = cred.gen + 1
<1> USE CredentialAssumption
<1>1. Never \in 0..Never /\ now + Life \in 0..Never
  BY DEF Never
<1> DEFINE gen == IF cred.gen = 0 THEN 0 ELSE cred.gen + 1
<1>0. gen \in Nat /\ cred.gen + 1 \in Nat
  BY DEF Credential
<1> HIDE DEF gen
<1>2. CASE answer = "full"
  <2>1. Applied(cred, answer) = [cred EXCEPT !.gen = gen, !.expires = now + Life]
    BY <1>2 DEF Applied, gen
  <2>2. Applied(cred, answer) \in Credential /\ Applied(cred, answer).gen = gen
    BY <1>0, <1>1, <2>1 DEF Credential
  <2>3. /\ Applied(cred, answer).grant = cred.grant
        /\ Applied(cred, answer).blank = cred.blank
    BY <2>1 DEF Credential
  <2> QED BY <1>2, <2>2, <2>3 DEF gen
<1>3. CASE answer = "noExpiry"
  <2>1. Applied(cred, answer) = [cred EXCEPT !.gen = cred.gen + 1, !.expires = Never]
    BY <1>3 DEF Applied
  <2>2. Applied(cred, answer) \in Credential /\ Applied(cred, answer).gen = cred.gen + 1
    BY <1>0, <1>1, <2>1 DEF Credential
  <2>3. /\ Applied(cred, answer).grant = cred.grant
        /\ Applied(cred, answer).blank = cred.blank
    BY <2>1 DEF Credential
  <2> QED BY <1>3, <2>2, <2>3
<1>4. CASE answer = "empty"
  <2>1. Applied(cred, answer) = [cred EXCEPT !.expires = Never, !.blank = TRUE]
    BY <1>4 DEF Applied
  <2> QED BY <1>1, <1>4, <2>1 DEF Credential
<1> QED BY <1>2, <1>3, <1>4 DEF Answers

\* What a login brings.
LEMMA IssuedFacts ==
    ASSUME NEW grant \in Nat, NEW gen \in LoginGens, now \in 0..MaxTime
    PROVE  /\ Issued(grant, gen) \in Credential
           /\ Issued(grant, gen).grant = grant /\ Issued(grant, gen).gen = gen
           /\ Issued(grant, gen).blank = FALSE
           /\ gen \in {0, 1}
<1>1. now + Life \in 0..Never
  BY CredentialAssumption DEF Never
<1>2. gen \in {0, 1}
  BY DEF LoginGens
<1> QED BY <1>1, <1>2 DEF Issued, Credential

\* A new object gets the next number; the others stay.
LEMMA NewObjectFacts ==
    ASSUME Counted, heap \in [1..Made -> Credential], NEW cred \in Credential, NewObject(cred)
    PROVE  /\ Made' = Made + 1 /\ Made' \in Nat /\ heap' \in [1..Made' -> Credential]
           /\ DOMAIN heap = 1..Made /\ DOMAIN heap' = DOMAIN heap \cup {Made + 1}
           /\ Made + 1 \notin DOMAIN heap
           /\ heap'[Made + 1] = cred /\ \A o \in DOMAIN heap : heap'[o] = heap[o]
<1> DEFINE m == Made
<1>1. m \in Nat /\ DOMAIN heap = 1..m
  BY DEF Counted
<1>2. heap' = [o \in DOMAIN heap \cup {m + 1} |-> IF o = m + 1 THEN cred ELSE heap[o]]
  BY DEF NewObject
<1> HIDE DEF m
<1>3. 1..m \cup {m + 1} = 1..(m + 1)
  BY <1>1
<1>4. Cardinality(DOMAIN heap') = m + 1
  <2>1. DOMAIN heap' = 1..(m + 1)
    BY <1>1, <1>2, <1>3
  <2>2. m + 1 \in Nat
    BY <1>1
  <2> QED BY <2>1, <2>2, CountTo
<1>5. Made' = m + 1
  BY <1>4 DEF Made
<1>6. m + 1 \notin 1..m
  BY <1>1
<1>7. heap \in [1..m -> Credential]
  BY DEF m
<1>8. heap' \in [1..(m + 1) -> Credential]
  BY <1>1, <1>2, <1>3, <1>7
<1> QED BY <1>1, <1>2, <1>3, <1>5, <1>6, <1>8 DEF m

\* So does a new login.
LEMMA NewLoginFacts ==
    ASSUME Counted, accepted \in [1..Logins -> Nat], NewLogin
    PROVE  /\ Logins' = Logins + 1 /\ Logins' \in Nat /\ accepted' \in [1..Logins' -> Nat]
           /\ DOMAIN accepted = 1..Logins /\ DOMAIN accepted' = DOMAIN accepted \cup {Logins + 1}
           /\ Logins + 1 \notin DOMAIN accepted
           /\ accepted'[Logins + 1] = 1 /\ \A g \in DOMAIN accepted : accepted'[g] = accepted[g]
<1> DEFINE n == Logins
<1>1. n \in Nat /\ DOMAIN accepted = 1..n /\ accepted \in [1..n -> Nat]
  BY DEF Counted
<1>2. accepted' = [g \in 1..(n + 1) |-> IF g = n + 1 THEN 1 ELSE accepted[g]]
  BY DEF NewLogin
<1> HIDE DEF n
<1>3. 1..n \cup {n + 1} = 1..(n + 1) /\ n + 1 \notin 1..n
  BY <1>1
<1>4. DOMAIN accepted' = 1..(n + 1)
  BY <1>2
<1>5. Cardinality(DOMAIN accepted') = n + 1
  BY <1>1, <1>4, CountTo
<1>6. Logins' = n + 1
  BY <1>5 DEF Logins
<1>7. accepted' \in [1..(n + 1) -> Nat]
  BY <1>1, <1>2, <1>3
<1> QED BY <1>1, <1>2, <1>3, <1>4, <1>6, <1>7 DEF n

-----------------------------------------------------------------------------
(* Base: what holds whatever goes wrong. *)

LEMMA EventTypes ==
    ASSUME TypeOK, Event \/ UNCHANGED events
    PROVE  events' \in 0..MaxEvents
BY CredentialAssumption DEF TypeOK, Event

\* The record of a caller between two calls.
LEMMA IdleType == Idle \in Calls
BY DEF Idle, Calls, Answers

\* A step of one caller that leaves objects, file and clock alone, and takes
\* refreshMu only when it is free and gives it up only when it holds it.
LEMMA CallerStep ==
    ASSUME Base, UNCHANGED <<now, profile, heap, disk, pointers>>,
           DOMAIN accepted' = DOMAIN accepted, accepted' \in [DOMAIN accepted -> Nat],
           NEW c \in Callers, NEW x \in Calls, call' = [call EXCEPT ![c] = x],
           x.pc \in {"asking", "answered", "saving"} => mu' = c /\ x.obj \in DOMAIN heap,
           x.pc # "idle" => x.judged \in DOMAIN heap,
           mu' = mu \/ mu = Nobody \/ mu = c, mu' \in Callers \cup {Nobody},
           verdict' \in {"ok", "failed", "dead"}, Event \/ UNCHANGED events, mishap' \in BOOLEAN
    PROVE  Base'
<1> USE DEF Base, pointers
<1>1. \A d \in Callers : call'[d] = IF d = c THEN x ELSE call[d]
  BY DEF TypeOK
<1>2. call' \in [Callers -> Calls]
  BY DEF TypeOK
<1>3. Locked'
  BY <1>1, CredentialAssumption DEF Locked, Renewing
<1>4. /\ \A d \in Callers : Renewing(d)' => call'[d].obj \in DOMAIN heap
      /\ \A d \in Callers : call'[d].pc # "idle" => call'[d].judged \in DOMAIN heap
  BY <1>1 DEF TypeOK, Renewing
<1>5. Made' = Made /\ Logins' = Logins
  BY DEF Made, Logins
<1>6. accepted' \in [1..Logins' -> Nat]
  BY <1>5 DEF TypeOK
<1>7. TypeOK'
  <2>1. events' \in 0..MaxEvents
    BY EventTypes
  <2>2. heap' \in [1..Made' -> Credential] /\ disk' \in Credential
    BY <1>5 DEF TypeOK
  <2>3. DOMAIN heap' = DOMAIN heap
    OBVIOUS
  <2>4. /\ now' \in 0..MaxTime /\ profile' \in Profiles /\ held' \in {0} \cup DOMAIN heap'
        /\ login' \in {0} \cup DOMAIN heap' /\ reload' \in {0} \cup DOMAIN heap'
    BY DEF TypeOK
  <2> QED BY <1>2, <1>4, <1>6, <2>1, <2>2, <2>3, <2>4 DEF TypeOK, Renewing
<1>8. Counted' /\ Granted'
  BY <1>5 DEF Counted, Granted
<1> QED BY <1>3, <1>7, <1>8

\* What a caller's record is after each of its steps.
LEMMA AfterValidateFacts ==
    ASSUME Base, NEW c \in Callers
    PROVE  /\ AfterValidate(c) \in Calls /\ AfterValidate(c).pc \in {"idle", "waiting"}
           /\ AfterValidate(c).pc # "idle" => AfterValidate(c).judged \in DOMAIN heap
<1> DEFINE x == [Idle EXCEPT !.pc = "waiting", !.judged = held, !.proactive = TRUE]
<1>1. held # 0 => held \in DOMAIN heap /\ held \in Nat
  BY DEF Base, TypeOK, Counted
<1>2. held # 0 => x \in Calls /\ x.pc = "waiting" /\ x.judged = held
  BY <1>1 DEF Idle, Calls, Answers
<1>3. Idle \in Calls /\ Idle.pc = "idle"
  BY IdleType DEF Idle
<1> QED BY <1>1, <1>2, <1>3 DEF AfterValidate

AfterDone(c, error) ==
    IF call[c].proactive THEN Idle
    ELSE [Idle EXCEPT !.pc = "verdict", !.judged = call[c].judged, !.error = error]

LEMMA DoneFacts ==
    ASSUME Base, NEW c \in Callers, call[c].pc # "idle",
           NEW error \in {"none", "noPath", "failed"}, Done(c, error)
    PROVE  /\ call' = [call EXCEPT ![c] = AfterDone(c, error)]
           /\ AfterDone(c, error) \in Calls /\ AfterDone(c, error).pc \in {"idle", "verdict"}
           /\ AfterDone(c, error).pc # "idle" => AfterDone(c, error).judged \in DOMAIN heap
<1> DEFINE y == [Idle EXCEPT !.pc = "verdict", !.judged = call[c].judged, !.error = error]
<1>1. call[c].judged \in DOMAIN heap /\ call[c].judged \in Nat /\ call[c] \in Calls
  BY DEF Base, TypeOK, Counted, Calls
<1>2. y \in Calls /\ y.pc = "verdict" /\ y.judged = call[c].judged
  BY <1>1 DEF Idle, Calls, Answers
<1>3. Idle \in Calls /\ Idle.pc = "idle"
  BY IdleType DEF Idle
<1>4. call' = [call EXCEPT ![c] = IF call[c].proactive THEN Idle ELSE y]
  BY DEF Done
<1> HIDE DEF y
<1>5. AfterDone(c, error) = IF call[c].proactive THEN Idle ELSE y
  BY DEF AfterDone, y
<1> QED BY <1>1, <1>2, <1>3, <1>4, <1>5

LEMMA ValidationBase ==
    ASSUME Base, NEW c \in Callers, Validation(c)
    PROVE  Base'
<1> USE DEF upstream, history
<1>1. \E x \in Calls : /\ call' = [call EXCEPT ![c] = x] /\ x.pc \in {"idle", "waiting"}
                       /\ x.pc # "idle" => x.judged \in DOMAIN heap
  <2>1. CASE ValidateFresh(c)
    BY <2>1, AfterValidateFacts DEF ValidateFresh
  <2>2. CASE ValidateExpiring(c)
    <3> DEFINE x == [Idle EXCEPT !.pc = "waiting", !.judged = held]
    <3>1. held \in DOMAIN heap /\ held \in Nat
      BY <2>2 DEF ValidateExpiring, Base, TypeOK, Counted
    <3>2. x \in Calls /\ x.pc = "waiting" /\ x.judged = held
      BY <3>1 DEF Idle, Calls, Answers
    <3>3. call' = [call EXCEPT ![c] = x]
      BY <2>2 DEF ValidateExpiring
    <3> HIDE DEF x
    <3> QED BY <3>1, <3>2, <3>3
  <2>3. CASE Conclude(c)
    <3>1. Idle \in Calls /\ Idle.pc = "idle"
      BY IdleType DEF Idle
    <3> QED BY <2>3, <3>1, AfterValidateFacts DEF Conclude
  <2> QED BY <2>1, <2>2, <2>3 DEF Validation
<1>2. /\ UNCHANGED <<now, profile, accepted, heap, disk, pointers, mu, events, mishap>>
      /\ verdict' \in {"ok", "failed", "dead"}
  <2>1. CASE Conclude(c)
    <3>1. call[c].error \in {"none", "noPath", "failed"} /\ verdict \in {"ok", "failed", "dead"}
      BY DEF Base, TypeOK, Calls
    <3> QED BY <2>1, <3>1 DEF Conclude
  <2>2. CASE ValidateFresh(c) \/ ValidateExpiring(c)
    BY <2>2 DEF ValidateFresh, ValidateExpiring, Base, TypeOK
  <2> QED BY <2>1, <2>2 DEF Validation
<1>3. accepted' \in [DOMAIN accepted -> Nat] /\ mu' \in Callers \cup {Nobody} /\ mishap' \in BOOLEAN
  BY <1>2 DEF Base, TypeOK
<1> QED BY <1>1, <1>2, <1>3, CallerStep DEF pointers

\* What the steps of a renewal find.
LEMMA RenewingFacts ==
    ASSUME Base, NEW c \in Callers, Renewing(c)
    PROVE  /\ mu = c /\ call[c].obj \in DOMAIN heap /\ heap[call[c].obj] \in Credential
           /\ call[c] \in Calls /\ call[c].judged \in DOMAIN heap
           /\ heap[call[c].obj].grant \in DOMAIN accepted
           /\ \A d \in Callers \ {c} : ~Renewing(d)
<1> USE DEF Base
<1>1. mu = c /\ \A d \in Callers \ {c} : ~Renewing(d)
  BY DEF Locked
<1>2. call[c].obj \in DOMAIN heap /\ heap \in [DOMAIN heap -> Credential] /\ call[c] \in Calls
  BY DEF TypeOK
<1>3. call[c].judged \in DOMAIN heap
  BY DEF TypeOK, Renewing
<1> QED BY <1>1, <1>2, <1>3 DEF Granted

\* The lock, the object and the step of a caller that goes on.
Locking(c) ==
    [call[c] EXCEPT !.pc = "asking", !.obj = IF held = 0 THEN call[c].judged ELSE held]

LEMMA TakeLockFacts ==
    ASSUME Base, NEW c \in Callers, TakeLock(c)
    PROVE  /\ call' = [call EXCEPT ![c] = Locking(c)]
           /\ Locking(c) \in Calls /\ Locking(c).pc = "asking"
           /\ Locking(c).judged \in DOMAIN heap /\ Locking(c).obj \in DOMAIN heap
           /\ held # 0 => Locking(c).obj = held
<1> USE DEF Base
<1> DEFINE obj == IF held = 0 THEN call[c].judged ELSE held
           x == [call[c] EXCEPT !.pc = "asking", !.obj = obj]
<1>1. /\ call[c].judged \in DOMAIN heap /\ obj \in DOMAIN heap /\ obj \in Nat
      /\ call[c] \in Calls /\ call \in [Callers -> Calls]
  BY DEF TakeLock, TypeOK, Counted
<1>2. call' = [call EXCEPT ![c] = x] /\ x = Locking(c)
  BY <1>1 DEF TakeLock, Locking
<1> HIDE DEF obj
<1>3. x \in Calls /\ x.pc = "asking" /\ x.judged = call[c].judged /\ x.obj = obj
  BY <1>1 DEF Calls
<1>4. held # 0 => obj = held
  BY DEF obj
<1> HIDE DEF x
<1> QED BY <1>1, <1>2, <1>3, <1>4

\* An answer is on its way to the same object.
Answering(c, answer) == [call[c] EXCEPT !.pc = "answered", !.answer = answer]

LEMMA AnswerFacts ==
    ASSUME Base, NEW c \in Callers, call[c].pc = "asking", NEW answer \in Answers,
           call' = [call EXCEPT ![c].pc = "answered", ![c].answer = answer]
    PROVE  /\ call' = [call EXCEPT ![c] = Answering(c, answer)]
           /\ Answering(c, answer) \in Calls /\ Answering(c, answer).pc = "answered"
           /\ Answering(c, answer).answer = answer
           /\ Answering(c, answer).judged \in DOMAIN heap
           /\ Answering(c, answer).obj = call[c].obj
<1>1. call[c] \in Calls /\ call \in [Callers -> Calls] /\ call[c].judged \in DOMAIN heap
  BY RenewingFacts DEF Renewing, Base, TypeOK
<1>2. call' = [call EXCEPT ![c] = Answering(c, answer)]
  BY <1>1 DEF Answering
<1>3. /\ Answering(c, answer) \in Calls /\ Answering(c, answer).pc = "answered"
      /\ Answering(c, answer).answer = answer
      /\ Answering(c, answer).judged = call[c].judged /\ Answering(c, answer).obj = call[c].obj
  BY <1>1 DEF Calls, Answering
<1> QED BY <1>1, <1>2, <1>3

\* Upstream takes a token: the other logins do not notice.
LEMMA RotatedFacts ==
    ASSUME Base, NEW g \in DOMAIN accepted, NEW n \in Nat, accepted' = [accepted EXCEPT ![g] = n]
    PROVE  /\ DOMAIN accepted' = DOMAIN accepted /\ accepted' \in [DOMAIN accepted -> Nat]
           /\ accepted'[g] = n /\ \A h \in DOMAIN accepted \ {g} : accepted'[h] = accepted[h]
<1>1. accepted \in [DOMAIN accepted -> Nat]
  BY DEF Base, TypeOK
<1> QED BY <1>1

LEMMA ApplyBase ==
    ASSUME Base, NEW c \in Callers, ApplyAuthCreds(c)
    PROVE  Base'
<1> USE DEF Base, upstream, pointers, history
<1> DEFINE o == call[c].obj
           y == Applied(heap[o], call[c].answer)
           x == [call[c] EXCEPT !.pc = "saving", !.answer = "full"]
<1>1. /\ mu = c /\ o \in DOMAIN heap /\ heap[o] \in Credential /\ call[c] \in Calls
      /\ call[c].judged \in DOMAIN heap /\ heap[o].grant \in DOMAIN accepted
      /\ now \in 0..MaxTime /\ call \in [Callers -> Calls]
  BY RenewingFacts DEF Renewing, ApplyAuthCreds, TypeOK
<1>2. y \in Credential /\ y.grant = heap[o].grant
  BY <1>1, AppliedFacts DEF Calls
<1>3. heap' = [heap EXCEPT ![o] = y]
  BY DEF ApplyAuthCreds
<1>4. call' = [call EXCEPT ![c] = x]
  BY <1>1 DEF ApplyAuthCreds
<1>5. x \in Calls /\ x.pc = "saving" /\ x.obj = o /\ x.judged = call[c].judged
  BY <1>1 DEF Calls, Answers
<1> HIDE DEF x, y
<1>6. /\ DOMAIN heap' = DOMAIN heap
      /\ \A p \in DOMAIN heap : heap'[p] = IF p = o THEN y ELSE heap[p]
  BY <1>3, <1>1 DEF TypeOK
<1>7. Made' = Made /\ Logins' = Logins
  BY <1>6 DEF Made, Logins, ApplyAuthCreds
<1>8. heap' \in [1..Made' -> Credential]
  BY <1>1, <1>2, <1>3, <1>7 DEF TypeOK
<1>9. \A d \in Callers : call'[d] = IF d = c THEN x ELSE call[d]
  BY <1>1, <1>4
<1>10. call' \in [Callers -> Calls]
  BY <1>1, <1>4, <1>5
<1>11. Locked'
  BY <1>1, <1>9 DEF Locked, Renewing, ApplyAuthCreds
<1>12. Granted'
  BY <1>1, <1>2, <1>6 DEF Granted, ApplyAuthCreds
<1>13. TypeOK'
  <2>1. /\ \A d \in Callers : Renewing(d)' => call'[d].obj \in DOMAIN heap'
        /\ \A d \in Callers : call'[d].pc # "idle" => call'[d].judged \in DOMAIN heap'
    BY <1>1, <1>5, <1>6, <1>9 DEF TypeOK, Renewing
  <2>2. accepted' \in [1..Logins' -> Nat]
    BY <1>7 DEF ApplyAuthCreds, TypeOK
  <2>3. UNCHANGED <<now, profile, held, disk, mu, login, reload, verdict, events, mishap>>
    BY DEF ApplyAuthCreds
  <2> QED BY <1>6, <1>8, <1>10, <2>1, <2>2, <2>3 DEF TypeOK, Renewing
<1> QED BY <1>7, <1>11, <1>12, <1>13 DEF Counted

LEMMA SaveBase ==
    ASSUME Base, NEW c \in Callers, Save(c)
    PROVE  Base'
<1> USE DEF Base, upstream, pointers, history
<1>1. mu = c /\ heap[call[c].obj] \in Credential /\ heap[call[c].obj].grant \in DOMAIN accepted
  BY RenewingFacts DEF Renewing, Save
<1>2. disk' \in Credential /\ disk'.grant \in DOMAIN accepted
  BY <1>1 DEF Save, TypeOK, Granted
<1> DEFINE x == AfterDone(c, "none")
<1> HIDE DEF x
<1>3. /\ call' = [call EXCEPT ![c] = x] /\ x \in Calls /\ x.pc \in {"idle", "verdict"}
      /\ x.pc # "idle" => x.judged \in DOMAIN heap
  BY DoneFacts DEF Save, x
<1>4. \A d \in Callers : call'[d] = IF d = c THEN x ELSE call[d]
  BY <1>3 DEF TypeOK
<1>5. call' \in [Callers -> Calls]
  BY <1>3 DEF TypeOK
<1>6. Made' = Made /\ Logins' = Logins
  BY DEF Made, Logins, Save
<1>7. Locked'
  BY <1>1, <1>3, <1>4 DEF Locked, Renewing
<1>8. Granted' /\ Counted'
  BY <1>2, <1>6 DEF Granted, Counted, Save
<1>9. TypeOK'
  <2>1. /\ \A d \in Callers : Renewing(d)' => call'[d].obj \in DOMAIN heap'
        /\ \A d \in Callers : call'[d].pc # "idle" => call'[d].judged \in DOMAIN heap'
    BY <1>3, <1>4 DEF TypeOK, Renewing, Save
  <2>2. heap' \in [1..Made' -> Credential] /\ accepted' \in [1..Logins' -> Nat]
    BY <1>6 DEF Save, TypeOK
  <2>3. events' \in 0..MaxEvents /\ mishap' \in BOOLEAN
    BY EventTypes DEF Save, Fault, TypeOK
  <2>4. UNCHANGED <<now, profile, held, heap, login, reload, verdict>> /\ mu' = Nobody
    BY DEF Save
  <2> QED BY <1>2, <1>5, <2>1, <2>2, <2>3, <2>4 DEF TypeOK, Renewing
<1> QED BY <1>7, <1>8, <1>9

LEMMA RenewalBase ==
    ASSUME Base, NEW c \in Callers, Renewal(c) \/ LoseCall(c)
    PROVE  Base'
<1> USE DEF upstream, pointers, history
<1>1. /\ accepted \in [DOMAIN accepted -> Nat] /\ mu \in Callers \cup {Nobody}
      /\ mishap \in BOOLEAN /\ verdict \in {"ok", "failed", "dead"}
  BY DEF Base, TypeOK
<1>2. CASE TakeLock(c)
  <2>1. /\ call' = [call EXCEPT ![c] = Locking(c)] /\ Locking(c) \in Calls
        /\ Locking(c).pc = "asking"
        /\ Locking(c).judged \in DOMAIN heap /\ Locking(c).obj \in DOMAIN heap
    BY <1>2, TakeLockFacts
  <2> QED BY <1>1, <1>2, <2>1, CallerStep DEF TakeLock
<1>3. CASE Rotate(c)
  <2> DEFINE cred == Presented(c)
  <2>1. mu = c /\ cred \in Credential /\ cred.grant \in DOMAIN accepted /\ call[c].obj \in DOMAIN heap
    BY <1>3, RenewingFacts DEF Renewing, Rotate, Presented
  <2>2. accepted' = [accepted EXCEPT ![cred.grant] = cred.gen + 1] /\ cred.gen + 1 \in Nat
    BY <1>3, <2>1 DEF Rotate, Credential
  <2> HIDE DEF cred
  <2>3. DOMAIN accepted' = DOMAIN accepted /\ accepted' \in [DOMAIN accepted -> Nat]
    BY <2>1, <2>2, RotatedFacts
  <2>4. PICK answer \in Answers : call' = [call EXCEPT ![c].pc = "answered", ![c].answer = answer]
    BY <1>3 DEF Rotate, Answers
  <2> DEFINE x == Answering(c, answer)
  <2> HIDE DEF x
  <2>5. /\ call' = [call EXCEPT ![c] = x] /\ x \in Calls /\ x.pc = "answered"
        /\ x.judged \in DOMAIN heap /\ x.obj = call[c].obj
    <3>1. call[c].pc = "asking"
      BY <1>3 DEF Rotate
    <3> QED BY <2>4, <3>1, AnswerFacts DEF x
  <2> QED BY <1>1, <1>3, <2>1, <2>3, <2>5, CallerStep DEF Rotate
<1>4. CASE PollTicket(c)
  <2>1. mu = c /\ call[c].obj \in DOMAIN heap
    BY <1>4, RenewingFacts DEF Renewing, PollTicket
  <2>2. PICK answer \in Answers : call' = [call EXCEPT ![c].pc = "answered", ![c].answer = answer]
    BY <1>4 DEF PollTicket, Answers
  <2> DEFINE x == Answering(c, answer)
  <2> HIDE DEF x
  <2>3. /\ call' = [call EXCEPT ![c] = x] /\ x \in Calls /\ x.pc = "answered"
        /\ x.judged \in DOMAIN heap /\ x.obj = call[c].obj
    <3>1. call[c].pc = "asking"
      BY <1>4 DEF PollTicket
    <3> QED BY <2>2, <3>1, AnswerFacts DEF x
  <2>4. (Event \/ UNCHANGED events) /\ mishap' \in BOOLEAN
    BY <1>1, <1>4 DEF PollTicket, Fault
  <2> QED BY <1>1, <1>4, <2>1, <2>3, <2>4, CallerStep DEF PollTicket
<1>5. ASSUME NEW error \in {"none", "noPath", "failed"}, Done(c, error), Renewing(c),
             UNCHANGED <<now, profile, accepted, heap, disk, pointers, verdict>>,
             mu' = Nobody, Event \/ UNCHANGED events, mishap' \in BOOLEAN
      PROVE  Base'
  <2> DEFINE x == AfterDone(c, error)
  <2> HIDE DEF x
  <2>1. mu = c
    BY <1>5, RenewingFacts
  <2>2. /\ call' = [call EXCEPT ![c] = x] /\ x \in Calls /\ x.pc \in {"idle", "verdict"}
        /\ x.pc # "idle" => x.judged \in DOMAIN heap
    BY <1>5, DoneFacts DEF Renewing, x
  <2>3. DOMAIN accepted' = DOMAIN accepted /\ accepted' \in [DOMAIN accepted -> Nat]
    BY <1>1, <1>5
  <2> QED BY <1>1, <1>5, <2>1, <2>2, <2>3, CallerStep
<1>7. CASE Refuse(c) \/ LoseCall(c)
  BY <1>1, <1>5, <1>7 DEF Refuse, LoseCall, Fault, Renewing
<1>6. CASE ApplyAuthCreds(c) \/ Save(c)
  BY <1>6, ApplyBase, SaveBase
<1> QED BY <1>2, <1>3, <1>4, <1>6, <1>7 DEF Renewal

\* The callers are where they were, and what they point at is still there.
LEMMA CallersStay ==
    ASSUME Base, UNCHANGED <<call, mu>>, DOMAIN heap \subseteq DOMAIN heap'
    PROVE  /\ Locked' /\ call' \in [Callers -> Calls] /\ mu' \in Callers \cup {Nobody}
           /\ \A c \in Callers : Renewing(c)' => call'[c].obj \in DOMAIN heap'
           /\ \A c \in Callers : call'[c].pc # "idle" => call'[c].judged \in DOMAIN heap'
BY DEF Base, TypeOK, Locked, Renewing

\* A step of the environment on objects and logins that are there already.
LEMMA PointersMove ==
    ASSUME Base, UNCHANGED <<call, mu, heap, profile>>,
           now' \in 0..MaxTime, DOMAIN accepted' = DOMAIN accepted,
           accepted' \in [DOMAIN accepted -> Nat],
           disk' \in Credential, disk'.grant \in DOMAIN accepted,
           {held', login', reload'} \subseteq {0} \cup DOMAIN heap,
           verdict' \in {"ok", "failed", "dead"}, Event \/ UNCHANGED events, mishap' \in BOOLEAN
    PROVE  Base'
<1>1. Made' = Made /\ Logins' = Logins
  BY DEF Made, Logins
<1>2. Counted' /\ Granted'
  BY <1>1 DEF Base, Counted, Granted
<1>3. TypeOK'
  <2>1. heap' \in [1..Made' -> Credential] /\ accepted' \in [1..Logins' -> Nat]
    BY <1>1 DEF Base, TypeOK
  <2>2. events' \in 0..MaxEvents /\ profile' \in Profiles
    BY EventTypes DEF Base, TypeOK
  <2> QED BY <2>1, <2>2, CallersStay DEF Base, TypeOK
<1> QED BY <1>2, <1>3, CallersStay DEF Base

LEMMA SaveNewBase ==
    ASSUME Base, SaveNew
    PROVE  Base'
<1> USE DEF Base
<1>1. PICK gen \in LoginGens :
        NewLogin /\ NewObject(Issued(Logins + 1, gen)) /\ disk' = Issued(Logins + 1, gen)
  BY DEF SaveNew
<1>2. Issued(Logins + 1, gen) \in Credential /\ Issued(Logins + 1, gen).grant = Logins + 1
  <2>1. Logins + 1 \in Nat /\ now \in 0..MaxTime
    BY DEF Counted, TypeOK
  <2> QED BY <2>1, IssuedFacts
<1> DEFINE cred == Issued(Logins + 1, gen)
<1> HIDE DEF cred
<1>3. cred \in Credential /\ cred.grant = Logins + 1 /\ disk' = cred
  BY <1>1, <1>2 DEF cred
<1>4. /\ Made' \in Nat /\ heap' \in [1..Made' -> Credential]
      /\ DOMAIN heap' = DOMAIN heap \cup {Made + 1}
      /\ heap'[Made + 1] = cred /\ \A o \in DOMAIN heap : heap'[o] = heap[o]
  BY <1>1, <1>2, NewObjectFacts DEF TypeOK, cred
<1>5. /\ Logins' \in Nat /\ accepted' \in [1..Logins' -> Nat]
      /\ DOMAIN accepted' = DOMAIN accepted \cup {Logins + 1}
  BY <1>1, NewLoginFacts DEF TypeOK
<1>6. Granted'
  BY <1>3, <1>4, <1>5 DEF Granted
<1>7. TypeOK'
  <2>1. /\ UNCHANGED <<now, profile, held, mu, call, reload, verdict, mishap>>
        /\ login' = Made + 1 /\ Event
    BY DEF SaveNew
  <2>2. events' \in 0..MaxEvents
    BY <2>1, EventTypes
  <2>3. /\ held' \in {0} \cup DOMAIN heap' /\ login' \in {0} \cup DOMAIN heap'
        /\ reload' \in {0} \cup DOMAIN heap'
    BY <1>4, <2>1 DEF TypeOK
  <2> QED BY <1>3, <1>4, <1>5, <2>1, <2>2, <2>3, CallersStay DEF TypeOK
<1>8. Locked'
  BY <1>4, CallersStay DEF SaveNew
<1> QED BY <1>4, <1>5, <1>6, <1>7, <1>8 DEF Counted

LEMMA ToolLoginBase ==
    ASSUME Base, ToolLogin
    PROVE  Base'
<1> USE DEF Base, pointers
<1>1. PICK gen \in LoginGens : NewLogin /\ disk' = Issued(Logins + 1, gen)
  BY DEF ToolLogin
<1>2. disk' \in Credential /\ disk'.grant = Logins + 1
  <2>1. Logins + 1 \in Nat /\ now \in 0..MaxTime
    BY DEF Counted, TypeOK
  <2> QED BY <1>1, <2>1, IssuedFacts
<1>3. /\ Logins' \in Nat /\ accepted' \in [1..Logins' -> Nat]
      /\ DOMAIN accepted' = DOMAIN accepted \cup {Logins + 1}
  BY <1>1, NewLoginFacts DEF TypeOK
<1>4. UNCHANGED <<now, profile, held, login, reload, heap, mu, call, verdict>> /\ Made' = Made
  BY DEF ToolLogin, Made
<1>5. Granted' /\ Counted' /\ Locked'
  BY <1>2, <1>3, <1>4, CallersStay DEF Granted, Counted
<1>6. TypeOK'
  <2>1. events' \in 0..MaxEvents /\ mishap' \in BOOLEAN
    BY EventTypes DEF ToolLogin, Fault
  <2>2. heap' \in [1..Made' -> Credential]
    BY <1>4 DEF TypeOK
  <2> QED BY <1>2, <1>3, <1>4, <2>1, <2>2, CallersStay DEF TypeOK
<1> QED BY <1>5, <1>6

LEMMA LoadDirBase ==
    ASSUME Base, LoadDir
    PROVE  Base'
<1> USE DEF Base, upstream
<1>1. /\ Made' \in Nat /\ heap' \in [1..Made' -> Credential]
      /\ DOMAIN heap' = DOMAIN heap \cup {Made + 1}
      /\ heap'[Made + 1] = disk /\ \A o \in DOMAIN heap : heap'[o] = heap[o]
  BY NewObjectFacts DEF TypeOK, LoadDir
<1>2. /\ UNCHANGED <<now, profile, accepted, held, disk, mu, call, login, verdict>>
      /\ reload' = Made + 1 /\ Event /\ mishap' \in BOOLEAN /\ Logins' = Logins
  BY DEF LoadDir, TypeOK, Logins, SomeRenewal
<1>3. Granted' /\ Counted' /\ Locked'
  BY <1>1, <1>2, CallersStay DEF Granted, Counted
<1>4. TypeOK'
  <2>1. events' \in 0..MaxEvents
    BY <1>2, EventTypes
  <2>2. /\ held' \in {0} \cup DOMAIN heap' /\ login' \in {0} \cup DOMAIN heap'
        /\ reload' \in {0} \cup DOMAIN heap'
    BY <1>1, <1>2 DEF TypeOK
  <2>3. accepted' \in [1..Logins' -> Nat]
    BY <1>2 DEF TypeOK
  <2> QED BY <1>1, <1>2, <2>1, <2>2, <2>3, CallersStay DEF TypeOK
<1> QED BY <1>3, <1>4

\* What a start finds: the file, if it holds a token, and no one at work.
LEMMA RestartFacts ==
    ASSUME Base, Restart
    PROVE  /\ Made' \in Nat /\ heap' \in [1..Made' -> Credential]
           /\ DOMAIN heap' = IF disk.blank THEN {} ELSE {1}
           /\ ~disk.blank => heap'[1] = disk /\ held' = 1
           /\ call' \in [Callers -> Calls] /\ \A c \in Callers : call'[c].pc = "idle"
<1>1. disk \in Credential
  BY DEF Base, TypeOK
<1>2. CASE disk.blank
  <2>1. DOMAIN heap' = 1..0 /\ heap' \in [1..0 -> Credential]
    BY <1>2 DEF Restart
  <2>2. Made' = 0
    BY <2>1, CountTo DEF Made
  <2> QED BY <1>2, <2>1, <2>2, IdleType DEF Restart, Idle
<1>3. CASE ~disk.blank
  <2>1. DOMAIN heap' = 1..1 /\ heap' \in [1..1 -> Credential] /\ heap'[1] = disk /\ held' = 1
    BY <1>1, <1>3 DEF Restart
  <2>2. Made' = 1
    BY <2>1, CountTo DEF Made
  <2> QED BY <1>3, <2>1, <2>2, IdleType DEF Restart, Idle
<1> QED BY <1>2, <1>3

LEMMA RestartBase ==
    ASSUME Base, Restart
    PROVE  Base'
<1> USE DEF Base, upstream
<1>1. /\ UNCHANGED <<now, profile, accepted, disk, verdict>> /\ Logins' = Logins
      /\ mu' = Nobody /\ login' = 0 /\ reload' = 0 /\ Event /\ mishap' \in BOOLEAN
      /\ held' = IF disk.blank THEN 0 ELSE 1
  BY DEF Restart, Logins, TypeOK, SomeRenewal
<1>2. Locked' /\ Counted'
  BY <1>1, RestartFacts DEF Locked, Counted, Renewing
<1>3. Granted'
  BY <1>1, RestartFacts DEF Granted
<1>4. TypeOK'
  <2>1. events' \in 0..MaxEvents
    BY <1>1, EventTypes
  <2>2. /\ held' \in {0} \cup DOMAIN heap' /\ accepted' \in [1..Logins' -> Nat]
        /\ heap' \in [1..Made' -> Credential] /\ call' \in [Callers -> Calls]
    BY <1>1, RestartFacts DEF TypeOK
  <2>3. \A c \in Callers : call'[c].pc = "idle"
    BY RestartFacts
  <2> QED BY <1>1, <2>1, <2>2, <2>3 DEF TypeOK, Renewing
<1> QED BY <1>2, <1>3, <1>4

LEMMA EnvironmentBase ==
    ASSUME Base, Environment
    PROVE  Base'
<1> USE DEF upstream, pointers, history
<1>1. /\ accepted \in [DOMAIN accepted -> Nat] /\ mishap \in BOOLEAN /\ now \in 0..MaxTime
      /\ disk \in Credential /\ disk.grant \in DOMAIN accepted
      /\ {held, login, reload} \subseteq {0} \cup DOMAIN heap
      /\ verdict \in {"ok", "failed", "dead"}
  BY DEF Base, TypeOK, Granted
<1>2. CASE AddAccount \/ SyncToDir \/ DropAccount
  <2>1. /\ UNCHANGED <<call, mu, heap, profile, now, accepted, disk, events>>
        /\ mishap' \in BOOLEAN /\ verdict' \in {"ok", "failed", "dead"}
    BY <1>1, <1>2 DEF AddAccount, SyncToDir, DropAccount, SomeRenewal
  <2>2. {held', login', reload'} \subseteq {0} \cup DOMAIN heap
    BY <1>1, <1>2 DEF AddAccount, SyncToDir, DropAccount
  <2> QED BY <1>1, <2>1, <2>2, PointersMove
<1>3. CASE ToolRenew
  <2>1. disk.gen + 1 \in Nat
    BY <1>1 DEF Credential
  <2>2. DOMAIN accepted' = DOMAIN accepted /\ accepted' \in [DOMAIN accepted -> Nat]
    BY <1>1, <1>3, <2>1, RotatedFacts DEF ToolRenew
  <2>3. disk' \in Credential /\ disk'.grant \in DOMAIN accepted
    BY <1>1, <1>3, AppliedFacts DEF ToolRenew, Answers
  <2> QED BY <1>1, <1>3, <2>2, <2>3, PointersMove DEF ToolRenew, Fault
<1>4. ASSUME NEW g \in DOMAIN accepted, Revoke(g) PROVE Base'
  <2>1. DOMAIN accepted' = DOMAIN accepted /\ accepted' \in [DOMAIN accepted -> Nat]
    BY <1>4, RotatedFacts DEF Revoke
  <2> QED BY <1>1, <1>4, <2>1, PointersMove DEF Revoke
<1>5. CASE Tick
  <2>1. now' \in 0..MaxTime
    BY <1>1, <1>5, CredentialAssumption DEF Tick
  <2> QED BY <1>1, <1>5, <2>1, PointersMove DEF Tick
<1> QED
  BY <1>2, <1>3, <1>4, <1>5, SaveNewBase, ToolLoginBase, LoadDirBase, RestartBase DEF Environment

LEMMA InitBase == Init => Base
<1> SUFFICES ASSUME Init PROVE Base
  OBVIOUS
<1> USE CredentialAssumption
<1>1. PICK gen \in LoginGens : heap = [o \in {1} |-> Issued(1, gen)]
  BY DEF Init
<1>2. now \in 0..MaxTime /\ 1 \in Nat /\ 1..1 = {1} /\ 0 \in 0..MaxEvents
  BY DEF Init
<1>3. Issued(1, gen) \in Credential /\ Issued(1, gen).grant = 1
  BY <1>2, IssuedFacts
<1> DEFINE cred == Issued(1, gen)
<1> HIDE DEF cred
<1>4. heap = [o \in {1} |-> cred] /\ cred \in Credential /\ cred.grant = 1 /\ disk = cred
  BY <1>1, <1>3 DEF Init, cred
<1>5. accepted = [g \in {1} |-> 1]
  BY DEF Init
<1>6. DOMAIN heap = 1..1 /\ DOMAIN accepted = 1..1
  BY <1>2, <1>4, <1>5
<1>7. Made = 1 /\ Logins = 1
  BY <1>2, <1>6, CountTo DEF Made, Logins
<1>8. /\ heap \in [1..1 -> Credential] /\ accepted \in [1..1 -> Nat]
  BY <1>2, <1>4, <1>5
<1>9. call \in [Callers -> Calls] /\ \A c \in Callers : call[c].pc = "idle"
  BY IdleType DEF Init, Idle
<1>10. Counted /\ Granted /\ Locked
  BY <1>2, <1>4, <1>5, <1>7, <1>9 DEF Counted, Granted, Locked, Renewing
<1>11. TypeOK
  <2>1. /\ profile \in Profiles /\ held = 1 /\ login = 0 /\ reload = 0 /\ mu = Nobody
        /\ verdict = "ok" /\ events = 0 /\ mishap = FALSE
    BY DEF Init
  <2> QED BY <1>2, <1>4, <1>6, <1>7, <1>8, <1>9, <2>1 DEF TypeOK, Renewing
<1> QED BY <1>10, <1>11 DEF Base

LEMMA StepBase == Base /\ [Next]_vars => Base'
<1> SUFFICES ASSUME Base, [Next]_vars PROVE Base'
  OBVIOUS
<1>1. CASE UNCHANGED vars
  BY <1>1 DEF vars, upstream, pointers, history, Base, TypeOK, Counted, Locked, Granted,
              Made, Logins, Renewing
<1> QED BY <1>1, ValidationBase, RenewalBase, EnvironmentBase DEF Next

-----------------------------------------------------------------------------
(* Calm: what holds until something goes wrong. *)

\* A caller that is not between upstream's answer and the write changes nothing
\* of what Calm says, and a new renewal works on the object in use.
LEMMA CallerCalm ==
    ASSUME Base, Calm, UNCHANGED <<accepted, heap, disk, pointers>>,
           NEW c \in Callers, NEW x, call' = [call EXCEPT ![c] = x],
           call[c].pc \notin {"answered", "saving"}, x.pc \notin {"answered", "saving"},
           x.pc = "asking" => x.obj = held
    PROVE  Calm'
<1> USE DEF pointers
<1>1. \A d \in Callers : call'[d] = IF d = c THEN x ELSE call[d]
  BY DEF Base, TypeOK
<1>2. Answered' <=> Answered
  BY <1>1 DEF Answered
<1>3. Saving' <=> Saving
  BY <1>1 DEF Saving
<1>4. \A d \in Callers : Renewing(d)' => call'[d].obj = held'
  BY <1>1 DEF Calm, Renewing
<1>5. \A d \in Callers : call'[d].pc = "answered" =>
          /\ call'[d].answer = "full" \/ (call'[d].answer = "noExpiry" /\ heap'[held'].gen > 0)
          /\ Rotated(heap[held])'
  BY <1>1 DEF Calm, Rotated
<1> QED BY <1>2, <1>3, <1>4, <1>5 DEF Calm, Fresh

LEMMA ValidationCalm ==
    ASSUME Base, Calm, NEW c \in Callers, Validation(c) \/ TakeLock(c) \/ Refuse(c)
    PROVE  Calm'
<1> USE DEF upstream, pointers, history
<1>1. UNCHANGED <<accepted, heap, disk, held, login, reload>>
      /\ call[c].pc \notin {"answered", "saving"}
  BY DEF Validation, ValidateFresh, ValidateExpiring, Conclude, TakeLock, Refuse
<1>2. CASE ValidateFresh(c)
  BY <1>1, <1>2, AfterValidateFacts, CallerCalm DEF ValidateFresh
<1>3. CASE ValidateExpiring(c)
  <2> DEFINE x == [Idle EXCEPT !.pc = "waiting", !.judged = held]
  <2>1. call' = [call EXCEPT ![c] = x] /\ x.pc = "waiting"
    BY <1>3 DEF ValidateExpiring, Idle
  <2> HIDE DEF x
  <2> QED BY <1>1, <2>1, CallerCalm
<1>4. CASE Conclude(c)
  <2> DEFINE x == IF Usable(c) THEN AfterValidate(c) ELSE Idle
  <2>1. call' = [call EXCEPT ![c] = x]
    BY <1>4 DEF Conclude
  <2>2. x.pc \in {"idle", "waiting"}
    BY AfterValidateFacts DEF Idle
  <2> HIDE DEF x
  <2> QED BY <1>1, <2>1, <2>2, CallerCalm
<1>5. CASE TakeLock(c)
  BY <1>1, <1>5, TakeLockFacts, CallerCalm DEF Calm
<1>6. CASE Refuse(c)
  <2> DEFINE x == AfterDone(c, "noPath")
  <2> HIDE DEF x
  <2>1. call' = [call EXCEPT ![c] = x] /\ x.pc \in {"idle", "verdict"}
    BY <1>6, DoneFacts DEF Refuse, x
  <2> QED BY <1>1, <2>1, CallerCalm
<1> QED BY <1>2, <1>3, <1>4, <1>5, <1>6 DEF Validation

\* An answer leaves upstream: the object in use is one renewal behind.
LEMMA RotateCalm ==
    ASSUME Base, Calm, NEW c \in Callers, Rotate(c)
    PROVE  Calm'
<1> DEFINE cred == heap[held]
<1>1. /\ \A d \in Callers \ {c} : ~Renewing(d)
      /\ cred \in Credential /\ cred.grant \in DOMAIN accepted /\ call[c].obj = held
  BY RenewingFacts DEF Renewing, Rotate, Calm
<1>2. accepted' = [accepted EXCEPT ![cred.grant] = cred.gen + 1] /\ cred.gen > 0
      /\ cred.gen + 1 \in Nat
  BY <1>1 DEF Rotate, Presented, Current, Credential
<1>3. UNCHANGED <<heap, disk, held, login, reload>>
  BY DEF Rotate, pointers
<1>4. accepted'[cred.grant] = cred.gen + 1
      /\ \A h \in DOMAIN accepted \ {cred.grant} : accepted'[h] = accepted[h]
  BY <1>1, <1>2, RotatedFacts
<1>5. PICK answer \in {"full", "noExpiry"} :
        call' = [call EXCEPT ![c].pc = "answered", ![c].answer = answer]
  BY DEF Rotate
<1> DEFINE x == Answering(c, answer)
<1> HIDE DEF x
<1>6. /\ call' = [call EXCEPT ![c] = x] /\ x.pc = "answered"
      /\ x.answer = answer /\ x.obj = call[c].obj
  <2>1. answer \in Answers /\ call[c].pc = "asking"
    BY DEF Answers, Rotate
  <2> QED BY <1>5, <2>1, AnswerFacts DEF x
<1>7. \A d \in Callers : call'[d] = IF d = c THEN x ELSE call[d]
  BY <1>6 DEF Base, TypeOK
<1>8. Answered' /\ (Saving' <=> Saving)
  BY <1>6, <1>7 DEF Answered, Saving, Rotate
<1>9. Rotated(heap[held])'
  BY <1>3, <1>4 DEF Rotated
<1>10. \A d \in Callers :
          /\ Renewing(d)' => call'[d].obj = held'
          /\ call'[d].pc = "answered" =>
                call'[d].answer = "full" \/ (call'[d].answer = "noExpiry" /\ heap'[held'].gen > 0)
  BY <1>1, <1>2, <1>3, <1>6, <1>7 DEF Calm, Renewing
<1>11. login' # 0 => Fresh(heap[login])' /\ heap'[login'].grant # heap'[held'].grant
  <2> SUFFICES ASSUME login # 0 PROVE Fresh(heap[login])' /\ heap[login].grant # cred.grant
    BY <1>3
  <2>1. login \in DOMAIN heap /\ heap[login].grant \in DOMAIN accepted
        /\ heap[login].grant # cred.grant /\ Fresh(heap[login])
    BY DEF Calm, Base, TypeOK, Granted
  <2> QED BY <1>3, <1>4, <2>1 DEF Fresh
<1> QED BY <1>3, <1>8, <1>9, <1>10, <1>11 DEF Calm

LEMMA PollTicketCalm ==
    ASSUME Base, Calm, NEW c \in Callers, PollTicket(c), ~mishap'
    PROVE  Calm'
<1> USE DEF upstream, pointers, history
<1>1. /\ \A d \in Callers \ {c} : ~Renewing(d)
      /\ call[c].obj = held /\ heap[held].gen = 0
  BY RenewingFacts DEF Renewing, PollTicket, Presented, Calm
<1>2. call' = [call EXCEPT ![c].pc = "answered", ![c].answer = "full"]
  BY DEF PollTicket, Fault
<1> DEFINE x == Answering(c, "full")
<1> HIDE DEF x
<1>3. /\ call' = [call EXCEPT ![c] = x] /\ x.pc = "answered"
      /\ x.answer = "full" /\ x.obj = call[c].obj
  BY <1>2, AnswerFacts DEF PollTicket, Answers, x
<1>4. \A d \in Callers : call'[d] = IF d = c THEN x ELSE call[d]
  BY <1>3 DEF Base, TypeOK
<1>5. UNCHANGED <<accepted, heap, disk, held, login, reload>>
  BY DEF PollTicket
<1>6. Answered' /\ (Saving' <=> Saving)
  BY <1>3, <1>4 DEF Answered, Saving, PollTicket
<1>7. /\ Rotated(heap[held])'
      /\ \A d \in Callers : Renewing(d)' => call'[d].obj = held'
      /\ \A d \in Callers : call'[d].pc = "answered" => call'[d].answer = "full"
  BY <1>1, <1>3, <1>4, <1>5 DEF Calm, Renewing, Rotated
<1>8. login' # 0 => Fresh(heap[login])' /\ heap'[login'].grant # heap'[held'].grant
  BY <1>5 DEF Calm, Fresh
<1>9. /\ held' # 0 /\ ~disk'.blank /\ \A o \in DOMAIN heap' : ~heap'[o].blank
      /\ login' # 0 => reload' = 0
      /\ ~Saving' => disk' = heap'[held'] \/ (login' # 0 /\ disk' = heap'[login'])
  BY <1>5, <1>6 DEF Calm
<1>10. ~Answered' => Fresh(heap[held])'
  BY <1>6
<1>11. \A d \in Callers : call'[d].pc = "answered" =>
          /\ call'[d].answer = "full" \/ (call'[d].answer = "noExpiry" /\ heap'[held'].gen > 0)
          /\ Rotated(heap[held])'
  BY <1>7
<1> QED BY <1>7, <1>8, <1>9, <1>10, <1>11 DEF Calm

\* The object in use catches up with upstream; no other object changes.
LEMMA ApplyCalm ==
    ASSUME Base, Calm, NEW c \in Callers, ApplyAuthCreds(c)
    PROVE  Calm'
<1> USE DEF upstream, pointers, history
<1> DEFINE y == Applied(heap[held], call[c].answer)
           x == [call[c] EXCEPT !.pc = "saving", !.answer = "full"]
<1>1. /\ \A d \in Callers \ {c} : ~Renewing(d)
      /\ call[c].obj = held /\ heap[held] \in Credential /\ held \in DOMAIN heap
      /\ call[c] \in Calls /\ call[c].answer \in Answers /\ now \in 0..MaxTime
      /\ heap[held].grant \in DOMAIN accepted
  BY RenewingFacts DEF Renewing, ApplyAuthCreds, Calm, Calls, Base, TypeOK
<1>2. /\ call[c].answer = "full" \/ (call[c].answer = "noExpiry" /\ heap[held].gen > 0)
      /\ Rotated(heap[held]) /\ ~heap[held].blank
  BY <1>1 DEF Calm, ApplyAuthCreds
<1>3. y.grant = heap[held].grant /\ ~y.blank
  BY <1>1, <1>2, AppliedFacts
<1>4. Fresh(y)
  <2>1. heap[held].gen \in Nat
    BY <1>1 DEF Credential
  <2>2. y.gen = IF heap[held].gen = 0 THEN 0 ELSE heap[held].gen + 1
    BY <1>1, <1>2, <2>1, AppliedFacts
  <2> HIDE DEF y
  <2> QED BY <1>2, <1>3, <2>1, <2>2 DEF Fresh, Rotated
<1>5. heap' = [heap EXCEPT ![held] = y] /\ UNCHANGED <<accepted, disk, held, login, reload>>
  BY <1>1 DEF ApplyAuthCreds
<1>6. call' = [call EXCEPT ![c] = x] /\ x.pc = "saving" /\ x.obj = held
  BY <1>1 DEF ApplyAuthCreds, Calls, Base, TypeOK
<1> HIDE DEF x, y
<1>7. \A d \in Callers : call'[d] = IF d = c THEN x ELSE call[d]
  BY <1>6 DEF Base, TypeOK
<1>8. /\ DOMAIN heap' = DOMAIN heap
      /\ \A o \in DOMAIN heap : heap'[o] = IF o = held THEN y ELSE heap[o]
  BY <1>1, <1>5 DEF Base, TypeOK
<1>9. Saving' /\ ~Answered'
  BY <1>1, <1>6, <1>7 DEF Saving, Answered, Renewing
<1>10. Fresh(heap[held])'
  BY <1>1, <1>4, <1>5, <1>8 DEF Fresh
<1>11. \A d \in Callers : (Renewing(d)' => call'[d].obj = held') /\ call'[d].pc # "answered"
  BY <1>1, <1>5, <1>6, <1>7 DEF Renewing
<1>12. login' # 0 => Fresh(heap[login])' /\ heap'[login'].grant # heap'[held'].grant
  <2> SUFFICES ASSUME login # 0
               PROVE  Fresh(heap[login])' /\ heap'[login].grant # heap'[held].grant
    BY <1>5
  <2>1. login \in DOMAIN heap /\ heap[login].grant # heap[held].grant /\ Fresh(heap[login])
    BY DEF Calm, Base, TypeOK
  <2>2. heap'[login] = heap[login] /\ heap'[held] = y
    BY <1>1, <1>8, <2>1
  <2> QED BY <1>3, <1>5, <2>1, <2>2 DEF Fresh
<1>13. \A o \in DOMAIN heap' : ~heap'[o].blank
  BY <1>3, <1>8 DEF Calm
<1> QED BY <1>5, <1>9, <1>10, <1>11, <1>12, <1>13 DEF Calm

LEMMA SaveCalm ==
    ASSUME Base, Calm, NEW c \in Callers, Save(c), ~mishap'
    PROVE  Calm'
<1> USE DEF upstream, pointers, history
<1> DEFINE x == AfterDone(c, "none")
<1> HIDE DEF x
<1>1. /\ \A d \in Callers \ {c} : ~Renewing(d) /\ call[c].obj = held /\ held \in DOMAIN heap
  BY RenewingFacts DEF Renewing, Save, Calm
<1>2. /\ disk' = heap[held] /\ UNCHANGED <<accepted, heap, held, login, reload>>
  <2>1. call[c].obj = held
    BY DEF Calm, Renewing, Save
  <2> QED BY <2>1 DEF Save, Fault
<1>3. call' = [call EXCEPT ![c] = x] /\ x.pc \in {"idle", "verdict"}
  BY DoneFacts DEF Save, x
<1>4. \A d \in Callers : call'[d] = IF d = c THEN x ELSE call[d]
  BY <1>3 DEF Base, TypeOK
<1>5. ~Saving' /\ ~Answered' /\ ~Answered
  BY <1>1, <1>3, <1>4 DEF Saving, Answered, Renewing, Save
<1>6. \A d \in Callers : ~Renewing(d)' /\ call'[d].pc # "answered"
  BY <1>1, <1>3, <1>4 DEF Renewing
<1>7. held \in DOMAIN heap /\ ~disk'.blank
  BY <1>2 DEF Calm, Base, TypeOK
<1> QED BY <1>2, <1>5, <1>6, <1>7 DEF Calm, Fresh

LEMMA SaveNewCalm ==
    ASSUME Base, Calm, SaveNew
    PROVE  Calm'
<1>1. PICK gen \in LoginGens :
        NewLogin /\ NewObject(Issued(Logins + 1, gen)) /\ disk' = Issued(Logins + 1, gen)
  BY DEF SaveNew
<1> DEFINE cred == Issued(Logins + 1, gen)
<1> HIDE DEF cred
<1>2. /\ cred \in Credential /\ cred.grant = Logins + 1 /\ cred.gen \in {0, 1}
      /\ ~cred.blank /\ disk' = cred /\ NewObject(cred)
  <2>1. Logins + 1 \in Nat /\ now \in 0..MaxTime
    BY DEF Base, Counted, TypeOK
  <2>2. /\ cred \in Credential /\ cred.grant = Logins + 1 /\ cred.gen = gen
        /\ cred.blank = FALSE /\ gen \in {0, 1}
    BY <2>1, IssuedFacts DEF cred
  <2>3. disk' = cred /\ NewObject(cred)
    BY <1>1 DEF cred
  <2> QED BY <2>2, <2>3
<1>3. /\ DOMAIN heap' = DOMAIN heap \cup {Made + 1} /\ Made + 1 \notin DOMAIN heap
      /\ heap'[Made + 1] = cred /\ \A o \in DOMAIN heap : heap'[o] = heap[o]
  BY <1>2, NewObjectFacts DEF Base, TypeOK
<1>4. /\ Logins + 1 \notin DOMAIN accepted /\ accepted'[Logins + 1] = 1
      /\ \A g \in DOMAIN accepted : accepted'[g] = accepted[g]
  BY <1>1, NewLoginFacts DEF Base, TypeOK
<1>5. /\ UNCHANGED <<held, call, reload>> /\ login' = Made + 1 /\ login = 0 /\ reload = 0
  BY DEF SaveNew
<1>6. /\ held \in DOMAIN heap /\ heap'[held] = heap[held]
      /\ heap[held].grant \in DOMAIN accepted
      /\ accepted'[heap[held].grant] = accepted[heap[held].grant]
  <2>1. held \in DOMAIN heap
    BY DEF Calm, Base, TypeOK
  <2> QED BY <1>3, <1>4, <2>1 DEF Base, Granted
<1>7. /\ (Answered' <=> Answered)
      /\ (Fresh(heap[held])' <=> Fresh(heap[held])) /\ (Rotated(heap[held])' <=> Rotated(heap[held]))
  BY <1>5, <1>6 DEF Answered, Fresh, Rotated
<1>8. Fresh(heap[login])' /\ heap'[login'].grant # heap'[held'].grant /\ disk' = heap'[login']
  BY <1>2, <1>3, <1>4, <1>5, <1>6 DEF Fresh
<1>9. /\ held' # 0 /\ ~disk'.blank /\ \A o \in DOMAIN heap' : ~heap'[o].blank
      /\ login' # 0 /\ reload' = 0
  <2>1. Made + 1 # 0
    BY DEF Base, Counted
  <2> QED BY <1>2, <1>3, <1>5, <2>1 DEF Calm
<1>10. \A c \in Callers :
          /\ Renewing(c)' => call'[c].obj = held'
          /\ call'[c].pc = "answered" =>
                /\ call'[c].answer = "full" \/ (call'[c].answer = "noExpiry" /\ heap'[held'].gen > 0)
                /\ Rotated(heap[held])'
  BY <1>5, <1>6, <1>7 DEF Calm, Renewing
<1> QED BY <1>7, <1>8, <1>9, <1>10 DEF Calm

\* A pointer is swapped while nobody renews, for an object that is the file's.
LEMMA SwapCalm ==
    ASSUME Base, Calm, ~SomeRenewal, UNCHANGED <<accepted, heap, disk, call>>,
           held' \in DOMAIN heap \ {0}, disk = heap[held'], Fresh(heap[held']), login' = 0
    PROVE  Calm'
<1>1. \A c \in Callers : ~Renewing(c)' /\ call'[c].pc # "answered"
  BY DEF SomeRenewal, Renewing
<1>2. Fresh(heap[held])' /\ disk' = heap'[held']
  BY DEF Fresh
<1> QED BY <1>1, <1>2 DEF Calm

LEMMA LoadDirCalm ==
    ASSUME Base, Calm, LoadDir, ~mishap'
    PROVE  Calm'
<1>1. /\ DOMAIN heap' = DOMAIN heap \cup {Made + 1}
      /\ heap'[Made + 1] = disk /\ \A o \in DOMAIN heap : heap'[o] = heap[o]
  BY NewObjectFacts DEF Base, TypeOK, LoadDir
<1>2. /\ ~SomeRenewal /\ login = 0 /\ UNCHANGED <<held, disk, login, call, accepted>>
  BY DEF LoadDir, upstream, Base, TypeOK, SomeRenewal
<1>3. \A c \in Callers : ~Renewing(c) /\ ~Renewing(c)'
  BY <1>2 DEF SomeRenewal, Renewing
<1>4. ~Saving /\ ~Answered
  BY <1>3 DEF Saving, Answered, Renewing
<1>5. held \in DOMAIN heap /\ heap'[held] = heap[held] /\ disk = heap[held] /\ Fresh(heap[held])
  BY <1>1, <1>2, <1>4 DEF Calm, Base, TypeOK
<1>6. Fresh(heap[held])' /\ disk' = heap'[held']
  BY <1>2, <1>5 DEF Fresh
<1>7. \A o \in DOMAIN heap' : ~heap'[o].blank
  BY <1>1 DEF Calm
<1>8. \A c \in Callers : call'[c].pc # "answered"
  BY <1>3 DEF Renewing
<1> QED BY <1>2, <1>3, <1>6, <1>7, <1>8 DEF Calm

LEMMA RestartCalm ==
    ASSUME Base, Calm, Restart, ~mishap'
    PROVE  Calm'
<1>1. /\ ~SomeRenewal /\ UNCHANGED <<disk, accepted>> /\ login' = 0 /\ reload' = 0
  BY DEF Restart, upstream, Base, TypeOK, SomeRenewal
<1>2. ~Saving /\ ~Answered
  BY <1>1 DEF SomeRenewal, Saving, Answered, Renewing
<1>3. Fresh(disk)
  BY <1>2 DEF Calm
<1>4. /\ DOMAIN heap' = {1} /\ heap'[1] = disk /\ held' = 1
      /\ \A c \in Callers : call'[c].pc = "idle"
  BY RestartFacts DEF Calm
<1>5. Fresh(heap[held])' /\ disk' = heap'[held'] /\ ~disk'.blank
  BY <1>1, <1>3, <1>4 DEF Fresh, Calm
<1> QED BY <1>1, <1>4, <1>5 DEF Calm, Renewing

\* A login that upstream withdraws is refused, not used twice.
LEMMA RevokeCalm ==
    ASSUME Base, Calm, NEW g \in DOMAIN accepted, Revoke(g)
    PROVE  Calm'
<1>1. /\ accepted'[g] = 0 /\ \A h \in DOMAIN accepted \ {g} : accepted'[h] = accepted[h]
  BY RotatedFacts DEF Revoke
<1>2. UNCHANGED <<held, login, reload, heap, disk, call>>
  BY DEF Revoke, pointers
<1>3. held \in DOMAIN heap /\ heap[held].grant \in DOMAIN accepted
  BY DEF Calm, Base, TypeOK, Granted
<1>4. (Fresh(heap[held]) => Fresh(heap[held])') /\ (Rotated(heap[held]) => Rotated(heap[held])')
  BY <1>1, <1>2, <1>3 DEF Fresh, Rotated
<1>5. login # 0 => Fresh(heap[login])'
  <2> SUFFICES ASSUME login # 0 PROVE Fresh(heap[login])'
    OBVIOUS
  <2>1. heap[login].grant \in DOMAIN accepted /\ Fresh(heap[login])
    BY DEF Calm, Base, TypeOK, Granted
  <2> QED BY <1>1, <1>2, <2>1 DEF Fresh
<1>6. (Answered' <=> Answered) /\ (Saving' <=> Saving)
  BY <1>2 DEF Answered, Saving
<1> QED BY <1>2, <1>4, <1>5, <1>6 DEF Calm, Renewing

LEMMA EnvironmentCalm ==
    ASSUME Base, Calm, Environment, ~mishap'
    PROVE  Calm'
<1> USE DEF upstream, pointers, history
<1>1. ~(ToolLogin \/ ToolRenew)
  BY DEF ToolLogin, ToolRenew, Fault
<1>2. ~DropAccount
  BY DEF DropAccount, Calm
<1>3. CASE AddAccount
  <2>1. /\ ~SomeRenewal /\ disk = heap[login] /\ login # 0 /\ held' = login /\ login' = 0
        /\ UNCHANGED <<accepted, heap, disk, call>>
    BY <1>3 DEF AddAccount, Base, TypeOK, SomeRenewal
  <2>2. login \in DOMAIN heap /\ Fresh(heap[login])
    BY <2>1 DEF Base, TypeOK, Calm
  <2> QED BY <2>1, <2>2, SwapCalm
<1>4. CASE SyncToDir
  <2>1. /\ ~SomeRenewal /\ disk = heap[reload] /\ reload # 0 /\ held' = reload
        /\ UNCHANGED <<accepted, heap, disk, call, login>>
    BY <1>4 DEF SyncToDir, Base, TypeOK, SomeRenewal
  <2>2. reload \in DOMAIN heap /\ login = 0
    BY <2>1 DEF Base, TypeOK, Calm
  <2>3. ~Saving /\ ~Answered
    BY <2>1 DEF SomeRenewal, Saving, Answered, Renewing
  <2>4. Fresh(heap[reload])
    BY <2>1, <2>2, <2>3 DEF Calm
  <2> QED BY <2>1, <2>2, <2>4, SwapCalm
<1>5. CASE Tick
  <2>1. UNCHANGED <<accepted, heap, disk, held, login, reload, call>>
    BY <1>5 DEF Tick
  <2> QED BY <2>1 DEF Calm, Answered, Saving, Renewing, Fresh, Rotated
<1> QED
  BY <1>1, <1>2, <1>3, <1>4, <1>5, SaveNewCalm, LoadDirCalm, RestartCalm, RevokeCalm DEF Environment

LEMMA MishapStays == ASSUME Base, [Next]_vars, mishap PROVE mishap'
<1> USE DEF upstream, pointers, history, Fault
<1>1. ASSUME NEW c \in Callers, Validation(c) \/ Renewal(c) \/ LoseCall(c) PROVE mishap'
  BY <1>1 DEF Validation, ValidateFresh, ValidateExpiring, Conclude, Renewal, TakeLock, Rotate,
              PollTicket, Refuse, ApplyAuthCreds, Save, LoseCall
<1>2. ASSUME Environment PROVE mishap'
  BY <1>2 DEF Environment, SaveNew, AddAccount, ToolLogin, ToolRenew, LoadDir, DropAccount,
              SyncToDir, Revoke, Restart, Tick, SomeRenewal
<1> QED BY <1>1, <1>2 DEF Next, vars

LEMMA StepCalm == ASSUME IInv, [Next]_vars, ~mishap' PROVE Calm'
<1> USE DEF IInv
<1>1. Base /\ Calm
  BY MishapStays
<1>2. ASSUME NEW c \in Callers, Validation(c) \/ Renewal(c) PROVE Calm'
  BY <1>1, <1>2, ValidationCalm, RotateCalm, PollTicketCalm, ApplyCalm, SaveCalm DEF Renewal
<1>3. ASSUME NEW c \in Callers, LoseCall(c) PROVE FALSE
  BY <1>3 DEF LoseCall, Fault
<1>4. CASE UNCHANGED vars
  <2>1. UNCHANGED <<accepted, heap, disk, held, login, reload, call>>
    BY <1>4 DEF vars, upstream, pointers
  <2> QED BY <1>1, <2>1 DEF Calm, Answered, Saving, Renewing, Fresh, Rotated
<1> QED BY <1>1, <1>2, <1>3, <1>4, EnvironmentCalm DEF Next

LEMMA InitCalm == Init => Calm
<1> SUFFICES ASSUME Init PROVE Calm
  OBVIOUS
<1>1. PICK gen \in LoginGens : heap = [o \in {1} |-> Issued(1, gen)]
  BY DEF Init
<1> DEFINE cred == Issued(1, gen)
<1> HIDE DEF cred
<1>2. /\ heap = [o \in {1} |-> cred] /\ disk = cred /\ held = 1 /\ login = 0 /\ reload = 0
      /\ accepted = [g \in {1} |-> 1]
  BY <1>1 DEF Init, cred
<1>3. cred.grant = 1 /\ cred.gen \in {0, 1} /\ ~cred.blank
  <2>1. now \in 0..MaxTime /\ 1 \in Nat
    BY CredentialAssumption DEF Init
  <2> QED BY <2>1, IssuedFacts DEF cred
<1>4. \A c \in Callers : ~Renewing(c) /\ call[c].pc # "answered"
  BY DEF Init, Idle, Renewing
<1>5. Fresh(heap[held]) /\ disk = heap[held]
  BY <1>2, <1>3 DEF Fresh
<1> QED BY <1>2, <1>3, <1>4, <1>5 DEF Calm

LEMMA CredentialsInductive == Spec => []IInv
<1>1. Init => IInv
  BY InitBase, InitCalm DEF IInv
<1>2. IInv /\ [Next]_vars => IInv'
  BY StepBase, StepCalm DEF IInv
<1> QED BY <1>1, <1>2, PTL DEF Spec

-----------------------------------------------------------------------------
(* Theorems. *)

\* Every variable keeps its type; a caller that is under way always judges, and
\* renews, an object that was made since the last start.
THEOREM CredentialTypes == Spec => []TypeOK
<1>1. IInv => TypeOK
  BY DEF IInv, Base
<1> QED BY <1>1, CredentialsInductive, PTL

\* At most one caller is between reading the refresh token and writing the file
\* (Account.refreshMu).
OneRenewal == \A c, d \in Callers : Renewing(c) /\ Renewing(d) => c = d

THEOREM RenewalsExclude == Spec => []OneRenewal
<1>1. IInv => OneRenewal
  BY DEF IInv, Base, Locked, OneRenewal
<1> QED BY <1>1, CredentialsInductive, PTL

\* Until something goes wrong no renewal presents a refresh token that upstream
\* has already exchanged, whoever validates, logs in, reloads or restarts.
THEOREM TokensUsedOnce == Spec => []NoTokenReplayed
<1>1. IInv => NoTokenReplayed
  <2> SUFFICES ASSUME IInv, ~mishap, NEW c \in Callers, call[c].pc = "asking"
               PROVE  ~Used(Presented(c))
    BY DEF NoTokenReplayed
  <2>1. \A d \in Callers \ {c} : ~Renewing(d)
    BY RenewingFacts DEF IInv, Renewing
  <2>2. ~Answered
    BY <2>1 DEF Answered, Renewing
  <2>3. call[c].obj = held /\ Fresh(heap[held])
    BY <2>2 DEF IInv, Calm, Renewing
  <2>4. heap[held] \in Credential
    BY RenewingFacts, <2>3 DEF IInv, Renewing
  <2> QED BY <2>3, <2>4 DEF Used, Presented, Fresh, Credential
<1> QED BY <1>1, CredentialsInductive, PTL

\* Until something goes wrong a restart loses no rotated token.
THEOREM FileKeepsUp == Spec => []FileFollowsMemory
<1>1. IInv => FileFollowsMemory
  BY DEF IInv, Calm, Saving, FileFollowsMemory
<1> QED BY <1>1, CredentialsInductive, PTL

\* Whatever goes wrong, a credential that has not expired is never called dead
\* by a validation that has looked at it.
THEOREM OnlyExpiredDies == Spec => DeadIsExpired
<1> DEFINE A == verdict # "dead" /\ verdict' = "dead" =>
                  \/ held # 0 /\ Expired(heap[held])
                  \/ \E c \in Callers : /\ call[c].pc = "verdict" /\ call'[c].pc = "idle"
                                       /\ call[c].judged # held
<1>1. TypeOK /\ Counted /\ [Next]_vars => [A]_vars
  <2> SUFFICES ASSUME TypeOK, Counted, Next, verdict # "dead", verdict' = "dead"
               PROVE  A
    BY DEF vars
  <2> USE DEF upstream, pointers, history
  <2>1. PICK c \in Callers : Conclude(c)
    BY DEF Next, Validation, ValidateFresh, ValidateExpiring, Renewal, TakeLock, Rotate, PollTicket,
           Refuse, ApplyAuthCreds, Save, LoseCall, Environment, SaveNew, AddAccount, ToolLogin,
           ToolRenew, LoadDir, DropAccount, SyncToDir, Revoke, Restart, Tick
  <2>2. call[c].error = "noPath" /\ Expired(heap[call[c].judged])
    <3>1. call[c].error \in {"none", "noPath", "failed"}
      BY DEF TypeOK, Calls
    <3> QED BY <2>1, <3>1 DEF Conclude
  <2>3. call'[c].pc = "idle" /\ call[c].pc = "verdict"
    <3>1. ~Usable(c)
      BY <2>2 DEF Usable
    <3> QED BY <2>1, <3>1 DEF Conclude, Idle, TypeOK
  <2>4. call[c].judged \in DOMAIN heap /\ 0 \notin DOMAIN heap
    BY <2>3 DEF TypeOK, Counted
  <2> QED BY <2>2, <2>3, <2>4
<1>2. IInv => TypeOK /\ Counted
  BY DEF IInv, Base
<1>3. Spec => [][A]_vars
  BY <1>1, <1>2, CredentialsInductive, PTL DEF Spec
<1> QED BY <1>3 DEF DeadIsExpired
=============================================================================
