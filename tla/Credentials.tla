----------------------------- MODULE Credentials -----------------------------
(***************************************************************************)
(* The credential of one account: the file in auth_dir, the Auth object the *)
(* pool's account points at, and the one-time refresh token upstream        *)
(* rotates at every renewal.                                                *)
(*                                                                         *)
(* A renewal (refreshAuthCreds) holds the account's refreshMu from reading  *)
(* the token to writing the file, and talks to upstream in between.  What   *)
(* does not take that lock are the writers of the pointer and of the file:  *)
(* a login (SaveNew, then AddAccount), a reload of auth_dir (LoadDir, then  *)
(* SyncToDir) and the command line tools.                                   *)
(***************************************************************************)
EXTENDS Naturals, FiniteSets

CONSTANTS
    Callers,            \* goroutines that validate the account
    Scheduler,          \* the one of them that runs scheduler.Tick
    Nobody,             \* no holder of refreshMu
    Profiles,           \* subset of {"codearts", "workbuddy"}
    Life,               \* ticks a new token is valid for
    RefreshSkew,        \* Validate renews this many ticks before the expiry
    ProactiveWindow,    \* CheckAndRefreshToken renews this many (one hour) before
    MaxTime,            \* bound: ticks
    MaxLogins,          \* bound: logins, the first one included
    MaxEvents           \* bound: logins, reloads, restarts, tool runs, lost calls,
                        \* failed writes and withdrawn tokens together

ASSUME CredentialAssumption ==
    /\ Scheduler \in Callers /\ Nobody \notin Callers
    /\ Profiles \subseteq {"codearts", "workbuddy"}
    /\ Life \in Nat \ {0} /\ RefreshSkew \in Nat /\ ProactiveWindow \in Nat
    /\ MaxTime \in Nat /\ MaxLogins \in Nat /\ MaxEvents \in Nat

VARIABLES
    now,        \* the clock
    profile,    \* the account's channel
    accepted,   \* upstream: the token generation it takes, per login (0 = none)
    heap,       \* the Auth objects made so far
    held,       \* the one Account.Auth points at, 0 when the account left the pool
    disk,       \* the credential file
    mu,         \* holder of refreshMu
    call,       \* where each caller is
    login,      \* the object a panel login has saved and not yet added, or 0
    reload,     \* the object a reload has read and not yet installed, or 0
    verdict,    \* "ok", or why the account is disabled: "failed", "dead"
    events,     \* events of the environment so far
    mishap      \* history: one of them cut into a renewal, or was a fault

upstream == <<now, profile, accepted>>
pointers == <<held, login, reload>>
history == <<events, mishap>>

vars == <<upstream, pointers, history, heap, disk, mu, call, verdict>>

-----------------------------------------------------------------------------
(* Credentials. *)

\* An expiration that does not parse: Remaining answers 24h for ever.
Never == MaxTime + Life + RefreshSkew + ProactiveWindow + 1

\* grant: the login it came from; gen 0: no refresh token, only a ticket;
\* blank: no access token.
Credential ==
    [grant : Nat, gen : Nat, expires : 0..Never, blank : BOOLEAN]

Expired(c) == c.expires <= now
ExpiringSoon(c) == now < c.expires /\ c.expires <= now + RefreshSkew
NeedsRenewal(c) == ExpiringSoon(c) \/ Expired(c)

Issued(grant, gen) ==
    [grant |-> grant, gen |-> gen, expires |-> now + Life, blank |-> FALSE]

\* What a login leaves: an authorization code or device login brings a refresh
\* token, the old ticket channel (codearts only) does not.
LoginGens == IF profile = "codearts" THEN {0, 1} ELSE {1}

\* applyAuthCreds: token and expiration are overwritten whatever the answer
\* holds; the refresh token only when the answer brings one.
Applied(c, answer) ==
    CASE answer = "full"     -> [c EXCEPT !.gen = IF c.gen = 0 THEN 0 ELSE c.gen + 1,
                                          !.expires = now + Life]
      [] answer = "noExpiry" -> [c EXCEPT !.gen = c.gen + 1, !.expires = Never]
      [] answer = "empty"    -> [c EXCEPT !.expires = Never, !.blank = TRUE]

Answers == {"full", "noExpiry", "empty"}

\* Auth objects and logins are numbered as they are made, the objects anew
\* after a restart.
Made == Cardinality(DOMAIN heap)
NewObject(c) == heap' = [o \in DOMAIN heap \cup {Made + 1} |-> IF o = Made + 1 THEN c ELSE heap[o]]
Logins == Cardinality(DOMAIN accepted)

Idle == [pc |-> "idle", judged |-> 0, obj |-> 0, answer |-> "full", error |-> "none",
         proactive |-> FALSE]

Calls ==
    [pc : {"idle", "waiting", "asking", "answered", "saving", "verdict"},
     judged : Nat, obj : Nat, answer : Answers,
     error : {"none", "noPath", "failed"}, proactive : BOOLEAN]

Renewing(c) == call[c].pc \in {"asking", "answered", "saving"}
SomeRenewal == \E c \in Callers : Renewing(c)

TypeOK ==
    /\ now \in 0..MaxTime
    /\ profile \in Profiles
    /\ accepted \in [1..Logins -> Nat]
    /\ heap \in [1..Made -> Credential]
    /\ held \in {0} \cup DOMAIN heap
    /\ disk \in Credential
    /\ mu \in Callers \cup {Nobody}
    /\ call \in [Callers -> Calls]
    /\ \A c \in Callers : Renewing(c) => call[c].obj \in DOMAIN heap
    /\ \A c \in Callers : call[c].pc # "idle" => call[c].judged \in DOMAIN heap
    /\ login \in {0} \cup DOMAIN heap
    /\ reload \in {0} \cup DOMAIN heap
    /\ verdict \in {"ok", "failed", "dead"}
    /\ events \in 0..MaxEvents
    /\ mishap \in BOOLEAN

\* One login long ago, its file loaded at start.
Init ==
    /\ now = 0
    /\ profile \in Profiles
    /\ accepted = [g \in {1} |-> 1]
    /\ \E gen \in LoginGens : heap = [o \in {1} |-> Issued(1, gen)]
    /\ held = 1
    /\ disk = heap[1]
    /\ mu = Nobody
    /\ call = [c \in Callers |-> Idle]
    /\ login = 0
    /\ reload = 0
    /\ verdict = "ok"
    /\ events = 0
    /\ mishap = FALSE

Event == events < MaxEvents /\ events' = events + 1
Fault == Event /\ mishap' = TRUE

-----------------------------------------------------------------------------
(* Validate and the scheduler's CheckAndRefreshToken. *)

\* When Validate answers true the scheduler goes straight on to
\* CheckAndRefreshToken, which renews whatever ends within the hour.
AfterValidate(c) ==
    IF c = Scheduler /\ held # 0 /\ heap[held].expires <= now + ProactiveWindow
    THEN [Idle EXCEPT !.pc = "waiting", !.judged = held, !.proactive = TRUE]
    ELSE Idle

\* The token is not near its end: credentials count as good, a disable ends.
ValidateFresh(c) ==
    /\ call[c].pc = "idle"
    /\ held # 0
    /\ ~NeedsRenewal(heap[held])
    /\ verdict' = "ok"
    /\ call' = [call EXCEPT ![c] = AfterValidate(c)]
    /\ UNCHANGED <<upstream, pointers, history, heap, disk, mu>>

\* Mutant of ValidateExpiring: a disabled account is not validated again.
ValidateEnabledOnly(c) ==
    /\ call[c].pc = "idle"
    /\ held # 0
    /\ verdict = "ok"
    /\ NeedsRenewal(heap[held])
    /\ call' = [call EXCEPT ![c] = [Idle EXCEPT !.pc = "waiting", !.judged = held]]
    /\ UNCHANGED <<upstream, pointers, history, heap, disk, mu, verdict>>

\* authz := a.Auth is read here and judged again at the end.
ValidateExpiring(c) ==
    /\ call[c].pc = "idle"
    /\ held # 0
    /\ NeedsRenewal(heap[held])
    /\ call' = [call EXCEPT ![c] = [Idle EXCEPT !.pc = "waiting", !.judged = held]]
    /\ UNCHANGED <<upstream, pointers, history, heap, disk, mu, verdict>>

\* Validate returns true: renewed, or no renewal path and not expired yet.
Usable(c) ==
    call[c].error = "none" \/ (call[c].error = "noPath" /\ ~Expired(heap[call[c].judged]))

\* Mutant of Conclude: a terminal answer is believed without asking the expiry.
ConcludeAtOnce(c) ==
    /\ call[c].pc = "verdict"
    /\ verdict' =
         CASE call[c].error = "none" -> "ok"
           [] call[c].error = "failed" -> "failed"
           [] call[c].error = "noPath" -> "dead"
    /\ call' = [call EXCEPT ![c] = Idle]
    /\ UNCHANGED <<upstream, pointers, history, heap, disk, mu>>

\* The last part of Validate: the error decides, the object judged at the
\* start is asked once more whether it expired.
Conclude(c) ==
    /\ call[c].pc = "verdict"
    /\ verdict' =
         CASE call[c].error = "none" -> "ok"
           [] call[c].error = "failed" -> "failed"
           [] call[c].error = "noPath" ->
                IF Expired(heap[call[c].judged]) THEN "dead" ELSE verdict
    /\ call' = [call EXCEPT ![c] =
                  IF Usable(c) THEN AfterValidate(c) ELSE Idle]
    /\ UNCHANGED <<upstream, pointers, history, heap, disk, mu>>

-----------------------------------------------------------------------------
(* refreshAuthCreds, under refreshMu. *)

\* A proactive renewal only logs how it ended.
Done(c, error) ==
    call' = [call EXCEPT ![c] =
               IF @.proactive THEN Idle
               ELSE [Idle EXCEPT !.pc = "verdict", !.judged = call[c].judged, !.error = error]]

\* Mutant of TakeLock: the account's object even when the account lost it.
TakeLockHeld(c) ==
    /\ call[c].pc = "waiting"
    /\ mu = Nobody
    /\ mu' = c
    /\ call' = [call EXCEPT ![c].pc = "asking", ![c].obj = held]
    /\ UNCHANGED <<upstream, pointers, history, heap, disk, verdict>>

\* Mutant of TakeLock: no refreshMu, everyone goes ahead.
RenewUnlocked(c) ==
    /\ call[c].pc = "waiting"
    /\ call' = [call EXCEPT ![c].pc = "asking",
                            ![c].obj = IF held = 0 THEN call[c].judged ELSE held]
    /\ UNCHANGED <<upstream, pointers, history, heap, disk, mu, verdict>>

\* Mutant of TakeLock: the object is the one Validate looked at before waiting.
TakeLockJudged(c) ==
    /\ call[c].pc = "waiting"
    /\ mu = Nobody
    /\ mu' = c
    /\ call' = [call EXCEPT ![c].pc = "asking", ![c].obj = call[c].judged]
    /\ UNCHANGED <<upstream, pointers, history, heap, disk, verdict>>

\* acct.Auth is read anew, now that the lock is held.
TakeLock(c) ==
    /\ call[c].pc = "waiting"
    /\ mu = Nobody
    /\ mu' = c
    /\ call' = [call EXCEPT ![c].pc = "asking",
                            ![c].obj = IF held = 0 THEN call[c].judged ELSE held]
    /\ UNCHANGED <<upstream, pointers, history, heap, disk, verdict>>

Presented(c) == heap[call[c].obj]
Current(cred) == cred.gen > 0 /\ accepted[cred.grant] = cred.gen

\* Upstream takes the token once and rotates it; the answer is on its way.
\* Tencent may leave out expiresIn.
Rotate(c) ==
    /\ call[c].pc = "asking"
    /\ Current(Presented(c))
    /\ accepted' = [accepted EXCEPT ![Presented(c).grant] = Presented(c).gen + 1]
    /\ \E answer \in {"full"} \cup (IF profile = "workbuddy" THEN {"noExpiry"} ELSE {}) :
         call' = [call EXCEPT ![c].pc = "answered", ![c].answer = answer]
    /\ UNCHANGED <<pointers, history, now, profile, heap, disk, mu, verdict>>

\* The ticket channel re-issues the token, or answers with nothing in it.
PollTicket(c) ==
    /\ call[c].pc = "asking"
    /\ Presented(c).gen = 0
    /\ \/ /\ call' = [call EXCEPT ![c].pc = "answered", ![c].answer = "full"]
          /\ UNCHANGED history
       \/ /\ call' = [call EXCEPT ![c].pc = "answered", ![c].answer = "empty"]
          /\ Fault
    /\ UNCHANGED <<upstream, pointers, heap, disk, mu, verdict>>

\* A used or revoked refresh token, or a ticket out of its window: terminal.
Refuse(c) ==
    /\ call[c].pc = "asking"
    /\ ~Current(Presented(c))
    /\ mu' = Nobody
    /\ Done(c, "noPath")
    /\ UNCHANGED <<upstream, pointers, history, heap, disk, verdict>>

\* Time-out, 5xx, a reset connection: before upstream acted or after it did.
LoseCall(c) ==
    /\ call[c].pc \in {"asking", "answered"}
    /\ Presented(c).gen > 0
    /\ mu' = Nobody
    /\ Done(c, "failed")
    /\ Fault
    /\ UNCHANGED <<upstream, pointers, heap, disk, verdict>>

ApplyAuthCreds(c) ==
    /\ call[c].pc = "answered"
    /\ heap' = [heap EXCEPT ![call[c].obj] = Applied(@, call[c].answer)]
    /\ call' = [call EXCEPT ![c].pc = "saving", ![c].answer = "full"]
    /\ UNCHANGED <<upstream, pointers, history, disk, mu, verdict>>

\* Auth.Save: temporary file and rename, the whole object.  A failed write is
\* logged by Validate and changes nothing else.
Save(c) ==
    /\ call[c].pc = "saving"
    /\ mu' = Nobody
    /\ Done(c, "none")
    /\ \/ disk' = heap[call[c].obj] /\ UNCHANGED history
       \/ Fault /\ UNCHANGED disk
    /\ UNCHANGED <<upstream, pointers, heap, verdict>>

Renewal(c) ==
    TakeLock(c) \/ Rotate(c) \/ PollTicket(c) \/ Refuse(c) \/ ApplyAuthCreds(c) \/ Save(c)

-----------------------------------------------------------------------------
(* Logins, reloads, tools, restarts.  None of them takes refreshMu. *)

NewLogin ==
    /\ Logins < MaxLogins
    /\ accepted' = [g \in 1..(Logins + 1) |-> IF g = Logins + 1 THEN 1 ELSE accepted[g]]

\* saveLoginResult, first half: the new object is written over the file.
SaveNew ==
    /\ login = 0 /\ reload = 0
    /\ held = 0 => \A c \in Callers : call[c].pc = "idle"
    /\ \E gen \in LoginGens :
         LET cred == Issued(Logins + 1, gen) IN
         /\ NewLogin
         /\ NewObject(cred)
         /\ disk' = cred
    /\ login' = Made + 1
    /\ Event
    /\ UNCHANGED <<now, profile, held, mu, call, reload, verdict, mishap>>

\* Second half: the account points at the new object and is enabled.
AddAccount ==
    /\ login # 0
    /\ held' = login
    /\ login' = 0
    /\ verdict' = "ok"
    /\ mishap' = (mishap \/ SomeRenewal \/ disk # heap[login])
    /\ UNCHANGED <<upstream, heap, disk, mu, call, reload, events>>

\* cmd/login: another process writes the file; the pool learns by a reload.
ToolLogin ==
    /\ NewLogin
    /\ \E gen \in LoginGens : disk' = Issued(Logins + 1, gen)
    /\ Fault
    /\ UNCHANGED <<pointers, now, profile, heap, mu, call, verdict>>

\* cmd/apply: another process renews what the file holds and saves it.
ToolRenew ==
    /\ Current(disk)
    /\ accepted' = [accepted EXCEPT ![disk.grant] = disk.gen + 1]
    /\ disk' = Applied(disk, "full")
    /\ Fault
    /\ UNCHANGED <<pointers, now, profile, heap, mu, call, verdict>>

\* LoadDir skips a file without an access token.
LoadDir ==
    /\ reload = 0 /\ login = 0
    /\ ~disk.blank
    /\ NewObject(disk)
    /\ reload' = Made + 1
    /\ mishap' = (mishap \/ SomeRenewal)
    /\ Event
    /\ UNCHANGED <<upstream, held, disk, mu, call, login, verdict>>

\* A reload that finds no usable file drops the account.
DropAccount ==
    /\ reload = 0
    /\ disk.blank
    /\ held' = 0
    /\ UNCHANGED <<upstream, history, heap, disk, mu, call, login, reload, verdict>>

\* SyncToDir swaps the pointer and leaves the health alone.
SyncToDir ==
    /\ reload # 0
    /\ held' = reload
    /\ reload' = 0
    /\ mishap' = (mishap \/ SomeRenewal \/ disk # heap[reload])
    /\ UNCHANGED <<upstream, heap, disk, mu, call, login, verdict, events>>

\* Upstream withdraws the tokens of a login.
Revoke(g) ==
    /\ accepted[g] # 0
    /\ accepted' = [accepted EXCEPT ![g] = 0]
    /\ Event
    /\ UNCHANGED <<pointers, now, profile, heap, disk, mu, call, verdict, mishap>>

\* Crash and start; the disable is in the state file.
Restart ==
    /\ Event
    /\ mishap' = (mishap \/ SomeRenewal)
    /\ heap' = [o \in (IF disk.blank THEN {} ELSE {1}) |-> disk]
    /\ held' = IF disk.blank THEN 0 ELSE 1
    /\ mu' = Nobody
    /\ call' = [c \in Callers |-> Idle]
    /\ login' = 0
    /\ reload' = 0
    /\ UNCHANGED <<upstream, disk, verdict>>

Tick ==
    /\ now < MaxTime
    /\ now' = now + 1
    /\ UNCHANGED <<pointers, history, profile, accepted, heap, disk, mu, call, verdict>>

Environment ==
    \/ SaveNew \/ AddAccount \/ ToolLogin \/ ToolRenew
    \/ LoadDir \/ DropAccount \/ SyncToDir
    \/ \E g \in DOMAIN accepted : Revoke(g)
    \/ Restart \/ Tick

Validation(c) ==
    ValidateFresh(c) \/ ValidateExpiring(c) \/ Conclude(c)

Next ==
    \/ \E c \in Callers : Validation(c) \/ Renewal(c) \/ LoseCall(c)
    \/ Environment

Spec == Init /\ [][Next]_vars

\* Every call to upstream has a time limit and the scheduler's loop never ends,
\* so started renewals go on (weak fairness).  refreshMu is handed over in the
\* end however often others take it (a Go mutex does not starve a waiter), so
\* the scheduler's TakeLock gets strong fairness.
Fairness ==
    /\ \A c \in Callers : WF_vars(Renewal(c) \/ Conclude(c))
    /\ WF_vars(Validation(Scheduler))
    /\ SF_vars(TakeLock(Scheduler))

FairSpec == Spec /\ Fairness

-----------------------------------------------------------------------------
(* Properties. *)

\* A refresh token is used once: as long as no answer was lost, no write
\* failed, no crash, login, reload or tool cut into a renewal, no renewal
\* presents a token upstream has taken before, however many callers ask.
Used(cred) == cred.gen > 0 /\ accepted[cred.grant] \notin {0, cred.gen}

NoTokenReplayed ==
    ~mishap => \A c \in Callers : call[c].pc = "asking" => ~Used(Presented(c))

\* Under the same proviso the file holds what the account uses, whenever no
\* renewal is about to write it and no login about to be added: a restart
\* loses no rotated token.
FileFollowsMemory ==
    /\ ~mishap /\ login = 0 /\ held # 0
    /\ \A c \in Callers : call[c].pc # "saving"
    => disk = heap[held]

\* "Re-login required" is said only of an account whose credential in use has
\* expired, or by a validation under which the credential was exchanged.
DeadIsExpired ==
    [][verdict # "dead" /\ verdict' = "dead" =>
         \/ held # 0 /\ Expired(heap[held])
         \/ \E c \in Callers : /\ call[c].pc = "verdict" /\ call'[c].pc = "idle"
                              /\ call[c].judged # held]_vars

\* A renewal that failed for a passing reason is tried again: an account whose
\* refresh token upstream still takes does not stay disabled.
RenewableHeals ==
    (held # 0 /\ verdict # "ok" /\ Current(heap[held]))
        ~> (held = 0 \/ verdict = "ok" \/ ~Current(heap[held]))
=============================================================================
