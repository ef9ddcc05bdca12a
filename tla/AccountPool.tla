----------------------------- MODULE AccountPool -----------------------------
(***************************************************************************)
(* The account pool (internal/pool): the health of every account, the state *)
(* file that carries it over a restart, and the goroutines that validate    *)
(* accounts concurrently with everything else.                              *)
(*                                                                         *)
(* Every method that changes health runs under p.mu and ends with saveState *)
(* under that lock, so it is one action here, save included.  saveState      *)
(* gives up without a word when the disk refuses the write, and the change  *)
(* stays in memory alone.  Two paths are not like that and are split where  *)
(* the code lets others in:                                                 *)
(*   - Validate checks its cache, talks to the token endpoint without any   *)
(*     lock, and then edits the account under a.mu only, saving nothing;    *)
(*   - AddAccount changes the pool under p.mu but saves after releasing it, *)
(*     so its snapshot and its write are steps of their own.                *)
(***************************************************************************)
EXTENDS AccountRecord

CONSTANTS
    Accounts,       \* account names (UserIDs) that can ever exist
    Callers,        \* goroutines that may be inside Validate
    Logins,         \* accounts a login may add to the running pool
    NoAccount,      \* "no account", not a member of Accounts
    DiskFails       \* may a write of the state file fail?

ASSUME AccountsAssumption ==
    NoAccount \notin Accounts /\ Logins \subseteq Accounts /\ DiskFails \in BOOLEAN

VARIABLES
    authDir,        \* accounts with a credential file in auth_dir
    members,        \* accounts in Pool.accounts
    acct,           \* health record of each account (Fresh while not a member)
    file,           \* content of the state file, per account
    login,          \* AddAccount's save: where it is, what it has read, and
                    \* whether somebody saved since (late, history)
    val,            \* the Validate call each caller is inside of
    owed            \* history: the last save failed or was overwritten by a
                    \* login's older image, and nothing was saved after it

vars == <<authDir, members, acct, file, login, val, owed>>

StateFile == [Accounts -> PersistedState]

\* An absent entry restores to the same record as a blank one.
BlankFile == [n \in Accounts |-> Persisted(Fresh)]

NoLogin == [pc |-> "idle", image |-> BlankFile, late |-> FALSE]
NoCall  == [pc |-> "idle", at |-> NoAccount, live |-> FALSE]

TypeOK ==
    /\ authDir \subseteq Accounts
    /\ members \subseteq Accounts
    /\ acct \in [Accounts -> AccountState]
    /\ file \in StateFile
    /\ login \in [pc : {"idle", "snapshot", "write"}, image : StateFile, late : BOOLEAN]
    /\ val \in [Callers -> [pc : {"idle", "renewing"},
                            at : Accounts \cup {NoAccount}, live : BOOLEAN]]
    /\ \A c \in Callers : val[c].pc = "renewing" => val[c].at \in Accounts
    /\ owed \in BOOLEAN

\* New on an empty data directory, with any set of credential files.
Init ==
    /\ authDir \in SUBSET Accounts
    /\ members = authDir
    /\ acct = [n \in Accounts |-> Fresh]
    /\ file = BlankFile
    /\ login = NoLogin
    /\ val = [c \in Callers |-> NoCall]
    /\ owed = FALSE

-----------------------------------------------------------------------------
(* Methods under p.mu that end with saveState. *)

\* What saveState writes now: one entry per account in the pool.
Snapshot(who, state) ==
    [n \in Accounts |-> IF n \in who THEN Persisted(state[n]) ELSE Persisted(Fresh)]

\* saveState inside p.mu: write to .tmp and rename, seen by others as one step.
\* A failed write or rename is dropped silently: the change stays in memory.
SaveUnderLock ==
    /\ \/ file' = Snapshot(members, acct') /\ owed' = FALSE
       \/ DiskFails /\ UNCHANGED file /\ owed' = TRUE
    /\ login' = [login EXCEPT !.late = (login.pc = "write")]

Update(n, a) ==
    /\ n \in members
    /\ acct' = [acct EXCEPT ![n] = a]

Enable(n) ==
    /\ Update(n, Enabled(acct[n]))
    /\ SaveUnderLock
    /\ UNCHANGED <<authDir, members, val>>

ClearCooldown(n) ==
    /\ Update(n, CooldownCleared(acct[n]))
    /\ SaveUnderLock
    /\ UNCHANGED <<authDir, members, val>>

CoolModel(n, m) ==
    /\ Update(n, ModelLimited(acct[n], m))
    /\ SaveUnderLock
    /\ UNCHANGED <<authDir, members, val>>

Cooldown(n, kind, ticks) ==
    /\ Update(n, Cooled(acct[n], kind, ticks))
    /\ SaveUnderLock
    /\ UNCHANGED <<authDir, members, val>>

CooldownUntilTomorrow4AM(n) == Cooldown(n, "hard", HardCool)

\* Mutant of NoteError: the save at its end is missing.
NoteErrorUnsaved(n) ==
    /\ Update(n, Errored(acct[n]))
    /\ UNCHANGED <<authDir, members, file, login, val, owed>>

NoteError(n) ==
    /\ Update(n, Errored(acct[n]))
    /\ SaveUnderLock
    /\ UNCHANGED <<authDir, members, val>>

Disable(n) ==
    /\ Update(n, Disabled(acct[n]))
    /\ SaveUnderLock
    /\ UNCHANGED <<authDir, members, val>>

DisableSticky(n) ==
    /\ Update(n, StickyDisabled(acct[n]))
    /\ SaveUnderLock
    /\ UNCHANGED <<authDir, members, val>>

\* NoteSuccess changes memory only.
NoteSuccess(n) ==
    /\ Update(n, Succeeded(acct[n]))
    /\ UNCHANGED <<authDir, members, file, login, val, owed>>

-----------------------------------------------------------------------------
(* Validate: cache check, renewal without locks, final section under a.mu.  *)

ValidateStart(c, n) ==
    /\ val[c].pc = "idle"
    /\ n \in members
    /\ ~ValidationCached(acct[n])
    /\ val' = [val EXCEPT ![c] = [pc |-> "renewing", at |-> n, live |-> TRUE]]
    /\ UNCHANGED <<authDir, members, acct, file, login, owed>>

\* The caller holds a pointer: once the account left the pool, what it edits
\* is no longer the pool's record.
EditHeld(c, a) ==
    acct' = IF val[c].live THEN [acct EXCEPT ![val[c].at] = a] ELSE acct

\* Credentials are fresh, were renewed, or were renewed but not written to disk.
ValidateDone(c) ==
    /\ val[c].pc = "renewing"
    /\ EditHeld(c, Revalidated(acct[val[c].at]))
    /\ val' = [val EXCEPT ![c] = NoCall]
    /\ UNCHANGED <<authDir, members, file, login, owed>>

\* Expiring soon, no renewal path, not expired yet: usable, nothing reset.
ValidateNoRenewalPath(c) ==
    /\ val[c].pc = "renewing"
    /\ EditHeld(c, ValidationNoted(acct[val[c].at]))
    /\ val' = [val EXCEPT ![c] = NoCall]
    /\ UNCHANGED <<authDir, members, file, login, owed>>

\* Expired without a renewal path, or the renewal failed: Disable by name.
ValidateDead(c) ==
    /\ val[c].pc = "renewing"
    /\ acct' = IF val[c].at \in members
               THEN [acct EXCEPT ![val[c].at] = Disabled(acct[val[c].at])]
               ELSE acct
    /\ SaveUnderLock
    /\ val' = [val EXCEPT ![c] = NoCall]
    /\ UNCHANGED <<authDir, members>>

-----------------------------------------------------------------------------
(* Login: the credential file is written, then AddAccount runs.  One login  *)
(* saves at a time (bound).                                                 *)

AddAccount(n) ==
    /\ login.pc = "idle"
    /\ n \in Logins
    /\ authDir' = authDir \cup {n}
    /\ members' = members \cup {n}
    /\ acct' = [acct EXCEPT ![n] = IF n \in members THEN LoggedIn(@) ELSE Fresh]
    /\ login' = [login EXCEPT !.pc = "snapshot"]
    /\ UNCHANGED <<file, val, owed>>

LoginSnapshot ==
    /\ login.pc = "snapshot"
    /\ login' = [pc |-> "write", image |-> Snapshot(members, acct), late |-> FALSE]
    /\ UNCHANGED <<authDir, members, acct, file, val, owed>>

LoginWrite ==
    /\ login.pc = "write"
    /\ \/ file' = login.image /\ owed' = login.late
       \/ DiskFails /\ UNCHANGED <<file, owed>>
    /\ login' = NoLogin
    /\ UNCHANGED <<authDir, members, acct, val>>

-----------------------------------------------------------------------------
(* Reload, restart, time. *)

\* A login tool or the operator adds or removes a credential file on disk.
AuthFileChange(n) ==
    /\ authDir' = IF n \in authDir THEN authDir \ {n} ELSE authDir \cup {n}
    /\ UNCHANGED <<members, acct, file, login, val, owed>>

\* Known accounts keep their record, new ones start fresh, others are dropped.
SyncToDir ==
    /\ members' = authDir
    /\ acct' = [n \in Accounts |-> IF n \in members \cap authDir THEN acct[n] ELSE Fresh]
    /\ val' = [c \in Callers |->
                 IF val[c].at \in authDir THEN val[c] ELSE [val[c] EXCEPT !.live = FALSE]]
    /\ UNCHANGED <<authDir, file, login, owed>>

\* Crash and start: memory is lost, New overlays the state file.
Restart ==
    /\ members' = authDir
    /\ acct' = [n \in Accounts |-> IF n \in authDir THEN Restored(file[n]) ELSE Fresh]
    /\ login' = NoLogin
    /\ val' = [c \in Callers |-> NoCall]
    /\ owed' = FALSE
    /\ UNCHANGED <<authDir, file>>

Tick ==
    /\ acct' = [n \in Accounts |-> Aged(acct[n])]
    /\ file' = [n \in Accounts |-> AgedEntry(file[n])]
    /\ login' = [login EXCEPT !.image = [n \in Accounts |-> AgedEntry(login.image[n])]]
    /\ UNCHANGED <<authDir, members, val, owed>>

-----------------------------------------------------------------------------
\* What upstream answers and operators do to the health of account n.
Penalty(n) ==
    \/ Cooldown(n, "soft", SoftCool)
    \/ Cooldown(n, "err", ErrCool)
    \/ CooldownUntilTomorrow4AM(n)
    \/ \E m \in Models : CoolModel(n, m)
    \/ NoteError(n)
    \/ Disable(n)
    \/ DisableSticky(n)

Relief(n) == Enable(n) \/ ClearCooldown(n) \/ NoteSuccess(n)

Validation(c) ==
    \/ \E n \in Accounts : ValidateStart(c, n)
    \/ ValidateDone(c)
    \/ ValidateNoRenewalPath(c)
    \/ ValidateDead(c)

Login == (\E n \in Logins : AddAccount(n)) \/ LoginSnapshot \/ LoginWrite

Next ==
    \/ \E n \in Accounts : Penalty(n) \/ Relief(n) \/ AuthFileChange(n)
    \/ \E c \in Callers : Validation(c)
    \/ Login
    \/ SyncToDir
    \/ Restart
    \/ Tick

Spec == Init /\ [][Next]_vars

-----------------------------------------------------------------------------
(* Properties. *)

\* The pickers and List look at `disabled` only, and Validate keeps a block
\* only when both flags are set: a sticky account that is not disabled would
\* be served.  Holds of the records, of the state file a restart will load,
\* and of the snapshot a login is about to write over it.
StickyIsDisabled ==
    \A n \in Accounts : /\ acct[n].sticky => acct[n].disabled
                        /\ file[n].sticky => file[n].disabled
                        /\ login.image[n].sticky => login.image[n].disabled

\* A sticky block (upstream ban) is lifted in the running pool only by the
\* operator's Enable or by a login of that account: no validation, success,
\* cooldown, reload or other account's login lifts it.
BlockOnlyLiftedByHand ==
    [][\A n \in members \cap members' :
         acct[n].sticky /\ ~acct'[n].sticky =>
             Enable(n) \/ AddAccount(n) \/ Restart]_vars

\* "Until the re-login it must be held back all the time": the same, with a
\* restart of the process no longer excused.
BlockHeldUntilRelogin ==
    [][\A n \in members \cap members' :
         acct[n].sticky /\ ~acct'[n].sticky => Enable(n) \/ AddAccount(n)]_vars

\* What a restart loads is never rosier than what memory held: a crash at any
\* moment forgets no ban, no disable, no running cooldown and no error, unless
\* the file is owed a save: the last one failed, or a login wrote its older
\* image over it.  The next save of any account makes good for all of them.
\* (Validate and NoteSuccess edit memory without saving; they only forgive.)
RestartForgetsNothing ==
    ~owed => \A n \in members :
        /\ acct[n].disabled => file[n].disabled
        /\ acct[n].sticky => file[n].sticky
        /\ acct[n].coolLeft <= file[n].coolLeft
        /\ acct[n].errCount <= file[n].errCount
        /\ \A m \in Models : acct[n].modelLeft[m] <= file[n].modelLeft[m]
=============================================================================
