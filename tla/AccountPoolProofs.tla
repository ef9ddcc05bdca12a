-------------------------- MODULE AccountPoolProofs --------------------------
(***************************************************************************)
(* Proofs about AccountPool for every set of accounts, callers and models   *)
(* and every duration: the types, the link between the two block flags, who *)
(* may lift a block, and that the state file never forgets a restriction.   *)
(***************************************************************************)
EXTENDS AccountPool, TLAPS

-----------------------------------------------------------------------------
(* The record of one account. *)

\* A countdown never leaves the naturals.
LEMMA DecType == \A k \in Nat : Dec(k) \in Nat
BY DEF Dec

\* Every health transition of an account yields an account record.
LEMMA TransitionTypes ==
    ASSUME NEW a \in AccountState
    PROVE  /\ Disabled(a) \in AccountState
           /\ StickyDisabled(a) \in AccountState
           /\ Enabled(a) \in AccountState
           /\ LoggedIn(a) \in AccountState
           /\ CooldownCleared(a) \in AccountState
           /\ \A m \in Models : ModelLimited(a, m) \in AccountState
           /\ Errored(a) \in AccountState
           /\ Succeeded(a) \in AccountState
           /\ ValidationNoted(a) \in AccountState
           /\ Revalidated(a) \in AccountState
           /\ Aged(a) \in AccountState
<1> USE DurationsAssumption DEF AccountState, CoolKind
<1>1. Disabled(a) \in AccountState /\ StickyDisabled(a) \in AccountState
      /\ LoggedIn(a) \in AccountState
  BY DEF Disabled, StickyDisabled, LoggedIn
<1>2. Enabled(a) \in AccountState /\ CooldownCleared(a) \in AccountState
  BY DEF Enabled, CooldownCleared, NoModelCools
<1>3. \A m \in Models : ModelLimited(a, m) \in AccountState
  BY DEF ModelLimited
<1>4. Errored(a) \in AccountState
  <2>0. a.errCount \in 0 .. ErrThreshold /\ ErrThreshold \in Nat /\ ErrCool \in Nat
    OBVIOUS
  <2>1. CASE a.errCount + 1 < ErrThreshold
    <3>1. a.errCount + 1 \in 0 .. ErrThreshold
      BY <2>0, <2>1
    <3> QED BY <2>1, <3>1 DEF Errored
  <2>2. CASE ~(a.errCount + 1 < ErrThreshold)
    <3>1. ErrThreshold \in 0 .. ErrThreshold
      BY <2>0
    <3> QED BY <2>0, <2>2, <3>1 DEF Errored
  <2> QED BY <2>1, <2>2
<1>8. Succeeded(a) \in AccountState
  BY DEF Succeeded
<1>5. ValidationNoted(a) \in AccountState
  BY DEF ValidationNoted
<1>6. Revalidated(a) \in AccountState
  BY DEF Revalidated, ValidationNoted
<1>7. Aged(a) \in AccountState
  BY DecType DEF Aged
<1> QED BY <1>1, <1>2, <1>3, <1>4, <1>5, <1>6, <1>7, <1>8

\* A cooldown of a positive length yields an account record.
LEMMA CooledType ==
    ASSUME NEW a \in AccountState, NEW kind \in CoolKind, NEW ticks \in Nat
    PROVE  Cooled(a, kind, ticks) \in AccountState
BY DEF Cooled, AccountState

\* The blank record, and the passage to the state file and back.
LEMMA FileTypes ==
    /\ Fresh \in AccountState
    /\ \A a \in AccountState : Persisted(a) \in PersistedState
    /\ \A p \in PersistedState :
         Restored(p) \in AccountState /\ AgedEntry(p) \in PersistedState
<1> USE DurationsAssumption DEF AccountState, PersistedState, CoolKind
<1>1. Fresh \in AccountState
  BY DEF Fresh, NoModelCools
<1>2. \A a \in AccountState : Persisted(a) \in PersistedState
  BY DEF Persisted
<1>3. \A p \in PersistedState :
        Restored(p) \in AccountState /\ AgedEntry(p) \in PersistedState
  BY DecType DEF Restored, AgedEntry
<1> QED BY <1>1, <1>2, <1>3

-----------------------------------------------------------------------------
(* The state file. *)

\* What a save writes is a state file.
LEMMA SnapshotType ==
    ASSUME NEW who, NEW state \in [Accounts -> AccountState]
    PROVE  Snapshot(who, state) \in StateFile
BY FileTypes DEF Snapshot, StateFile

LEMMA BlankFileType == BlankFile \in StateFile
BY FileTypes DEF BlankFile, StateFile

-----------------------------------------------------------------------------
(* Types. *)

\* A record replaced by a record under p.mu keeps the types, save included.
LEMMA UpdateTypes ==
    ASSUME TypeOK, NEW n \in Accounts, NEW a \in AccountState, Update(n, a)
    PROVE  acct' \in [Accounts -> AccountState]
BY DEF TypeOK, Update

\* What the save of a handler sets: the file, its history and the login's.
SaveTypeOK ==
    /\ file \in StateFile
    /\ login \in [pc : {"idle", "snapshot", "write"}, image : StateFile, late : BOOLEAN]
    /\ owed \in BOOLEAN

\* A save that reaches the disk or not keeps their types.
LEMMA SaveTypes ==
    ASSUME TypeOK, acct' \in [Accounts -> AccountState], SaveUnderLock
    PROVE  SaveTypeOK'
<1>1. Snapshot(members, acct') \in StateFile
  BY SnapshotType
<1>2. file' \in StateFile /\ owed' \in BOOLEAN
  BY <1>1 DEF SaveUnderLock, TypeOK
<1>3. login' \in [pc : {"idle", "snapshot", "write"}, image : StateFile, late : BOOLEAN]
  BY DEF SaveUnderLock, TypeOK
<1> QED BY <1>2, <1>3 DEF SaveTypeOK

\* Every variable keeps its type.
THEOREM TypeCorrect == Spec => []TypeOK
<1>1. Init => TypeOK
  <2> SUFFICES ASSUME Init PROVE TypeOK
    OBVIOUS
  <2>1. acct \in [Accounts -> AccountState] /\ file \in StateFile
        /\ login.image \in StateFile
    BY FileTypes, BlankFileType DEF Init, NoLogin
  <2> QED BY <2>1 DEF Init, TypeOK, NoLogin, NoCall
<1>2. TypeOK /\ [Next]_vars => TypeOK'
  <2> SUFFICES ASSUME TypeOK, [Next]_vars PROVE TypeOK'
    OBVIOUS
  <2> USE DurationsAssumption
  <2>1. ASSUME NEW n \in Accounts, Penalty(n) PROVE TypeOK'
    <3>1. ASSUME NEW kind \in CoolKind, NEW ticks \in Nat, Cooldown(n, kind, ticks)
          PROVE  TypeOK'
      <4>1. acct[n] \in AccountState
        BY DEF TypeOK
      <4>2. Cooled(acct[n], kind, ticks) \in AccountState
        BY <4>1, CooledType
      <4>3. acct' \in [Accounts -> AccountState]
        BY <3>1, <4>2, UpdateTypes DEF Cooldown
      <4>4. SaveTypeOK'
        BY <3>1, <4>3, SaveTypes DEF Cooldown
      <4> QED BY <3>1, <4>3, <4>4 DEF Cooldown, TypeOK, SaveTypeOK
    <3>2. ASSUME NEW a \in AccountState, Update(n, a), SaveUnderLock,
                 UNCHANGED <<authDir, members, val>>
          PROVE  TypeOK'
      <4>1. acct' \in [Accounts -> AccountState]
        BY <3>2, UpdateTypes
      <4>2. SaveTypeOK'
        BY <3>2, <4>1, SaveTypes
      <4> QED BY <3>2, <4>1, <4>2 DEF TypeOK, SaveTypeOK
    <3>3. acct[n] \in AccountState
      BY DEF TypeOK
    <3>4. CASE Cooldown(n, "soft", SoftCool) \/ Cooldown(n, "err", ErrCool)
               \/ CooldownUntilTomorrow4AM(n)
      BY <3>1, <3>4 DEF CooldownUntilTomorrow4AM, CoolKind
    <3>5. CASE \E m \in Models : CoolModel(n, m)
      BY <3>2, <3>3, <3>5, TransitionTypes DEF CoolModel
    <3>6. CASE NoteError(n)
      BY <3>2, <3>3, <3>6, TransitionTypes DEF NoteError
    <3>7. CASE Disable(n) \/ DisableSticky(n)
      BY <3>2, <3>3, <3>7, TransitionTypes DEF Disable, DisableSticky
    <3> QED BY <2>1, <3>4, <3>5, <3>6, <3>7 DEF Penalty
  <2>2. ASSUME NEW n \in Accounts, Relief(n) PROVE TypeOK'
    <3>1. acct[n] \in AccountState
      BY DEF TypeOK
    <3>5. ASSUME NEW a \in AccountState, Update(n, a), SaveUnderLock,
                 UNCHANGED <<authDir, members, val>>
          PROVE  TypeOK'
      <4>1. acct' \in [Accounts -> AccountState]
        BY <3>5, UpdateTypes
      <4>2. SaveTypeOK'
        BY <3>5, <4>1, SaveTypes
      <4> QED BY <3>5, <4>1, <4>2 DEF TypeOK, SaveTypeOK
    <3>2. CASE Enable(n)
      BY <3>1, <3>2, <3>5, TransitionTypes DEF Enable
    <3>3. CASE ClearCooldown(n)
      BY <3>1, <3>3, <3>5, TransitionTypes DEF ClearCooldown
    <3>4. CASE NoteSuccess(n)
      BY <3>1, <3>4, TransitionTypes, UpdateTypes DEF NoteSuccess, TypeOK
    <3> QED BY <2>2, <3>2, <3>3, <3>4 DEF Relief
  <2>3. ASSUME NEW n \in Accounts, AuthFileChange(n) PROVE TypeOK'
    BY <2>3 DEF AuthFileChange, TypeOK
  <2>4. ASSUME NEW c \in Callers, Validation(c) PROVE TypeOK'
    <3>0. val[c].pc = "renewing" => val[c].at \in Accounts
      BY DEF TypeOK
    <3>1. ASSUME NEW n \in Accounts, ValidateStart(c, n) PROVE TypeOK'
      BY <3>1 DEF ValidateStart, TypeOK
    <3>2. ASSUME NEW a \in AccountState, val[c].pc = "renewing", EditHeld(c, a),
                 val' = [val EXCEPT ![c] = NoCall],
                 UNCHANGED <<authDir, members, file, login, owed>>
          PROVE  TypeOK'
      <4>1. acct' \in [Accounts -> AccountState]
        BY <3>0, <3>2 DEF EditHeld, TypeOK
      <4> QED BY <3>2, <4>1 DEF TypeOK, NoCall
    <3>3. CASE ValidateDone(c)
      <4>1. Revalidated(acct[val[c].at]) \in AccountState
        BY <3>0, <3>3, TransitionTypes DEF ValidateDone, TypeOK
      <4> QED BY <3>2, <3>3, <4>1 DEF ValidateDone
    <3>4. CASE ValidateNoRenewalPath(c)
      <4>1. ValidationNoted(acct[val[c].at]) \in AccountState
        BY <3>0, <3>4, TransitionTypes DEF ValidateNoRenewalPath, TypeOK
      <4> QED BY <3>2, <3>4, <4>1 DEF ValidateNoRenewalPath
    <3>5. CASE ValidateDead(c)
      <4>1. Disabled(acct[val[c].at]) \in AccountState
        BY <3>0, <3>5, TransitionTypes DEF ValidateDead, TypeOK
      <4>2. acct' \in [Accounts -> AccountState]
        BY <3>0, <3>5, <4>1 DEF ValidateDead, TypeOK
      <4>3. SaveTypeOK'
        BY <3>5, <4>2, SaveTypes DEF ValidateDead
      <4> QED BY <3>5, <4>2, <4>3 DEF ValidateDead, TypeOK, SaveTypeOK, NoCall
    <3> QED BY <2>4, <3>1, <3>3, <3>4, <3>5 DEF Validation
  <2>5. CASE Login
    <3>1. ASSUME NEW n \in Logins, AddAccount(n) PROVE TypeOK'
      <4>1. n \in Accounts /\ acct[n] \in AccountState
        BY AccountsAssumption DEF TypeOK
      <4>2. acct' \in [Accounts -> AccountState]
        BY <3>1, <4>1, TransitionTypes, FileTypes DEF AddAccount, TypeOK
      <4> QED BY <3>1, <4>1, <4>2 DEF AddAccount, TypeOK
    <3>2. CASE LoginSnapshot
      BY <3>2, SnapshotType DEF LoginSnapshot, TypeOK
    <3>3. CASE LoginWrite
      BY <3>3, BlankFileType DEF LoginWrite, TypeOK, NoLogin
    <3> QED BY <2>5, <3>1, <3>2, <3>3 DEF Login
  <2>6. CASE SyncToDir
    <3>1. acct' \in [Accounts -> AccountState]
      BY <2>6, FileTypes DEF SyncToDir, TypeOK
    <3>2. ASSUME NEW c \in Callers
          PROVE  /\ val'[c] = val[c] \/ val'[c] = [val[c] EXCEPT !.live = FALSE]
                 /\ val'[c] \in [pc : {"idle", "renewing"},
                                at : Accounts \cup {NoAccount}, live : BOOLEAN]
                 /\ val'[c].pc = val[c].pc /\ val'[c].at = val[c].at
      <4>1. val[c] \in [pc : {"idle", "renewing"},
                        at : Accounts \cup {NoAccount}, live : BOOLEAN]
        BY DEF TypeOK
      <4>2. val'[c] = IF val[c].at \in authDir THEN val[c]
                      ELSE [val[c] EXCEPT !.live = FALSE]
        BY <2>6 DEF SyncToDir
      <4> QED BY <4>1, <4>2
    <3>3. val' \in [Callers -> [pc : {"idle", "renewing"},
                                at : Accounts \cup {NoAccount}, live : BOOLEAN]]
      <4>1. val' = [c \in Callers |-> IF val[c].at \in authDir THEN val[c]
                                      ELSE [val[c] EXCEPT !.live = FALSE]]
        BY <2>6 DEF SyncToDir
      <4> QED BY <3>2, <4>1
    <3>4. \A c \in Callers : val'[c].pc = "renewing" => val'[c].at \in Accounts
      BY <3>2 DEF TypeOK
    <3>5. authDir' \subseteq Accounts /\ members' \subseteq Accounts
          /\ UNCHANGED <<file, login, owed>>
      BY <2>6 DEF SyncToDir, TypeOK
    <3> QED BY <3>1, <3>3, <3>4, <3>5 DEF TypeOK
  <2>7. CASE Restart
    <3>1. acct' \in [Accounts -> AccountState]
      BY <2>7, FileTypes DEF Restart, TypeOK, StateFile
    <3> QED BY <2>7, <3>1, BlankFileType DEF Restart, TypeOK, NoLogin, NoCall
  <2>8. CASE Tick
    <3>1. acct' \in [Accounts -> AccountState]
      BY <2>8, TransitionTypes DEF Tick, TypeOK
    <3>2. file' \in StateFile /\ [n \in Accounts |-> AgedEntry(login.image[n])] \in StateFile
      BY <2>8, FileTypes DEF Tick, TypeOK, StateFile
    <3> QED BY <2>8, <3>1, <3>2 DEF Tick, TypeOK
  <2>9. CASE UNCHANGED vars
    BY <2>9 DEF vars, TypeOK
  <2> QED BY <2>1, <2>2, <2>3, <2>4, <2>5, <2>6, <2>7, <2>8, <2>9 DEF Next
<1> QED BY <1>1, <1>2, PTL DEF Spec

-----------------------------------------------------------------------------
(* The two block flags. *)

\* The link between the flags, of one record or of one entry of the file.
Linked(a) == a.sticky => a.disabled

\* Every transition keeps the flags of an account linked.
LEMMA TransitionsLinked ==
    ASSUME NEW a \in AccountState, Linked(a)
    PROVE  /\ Linked(Disabled(a)) /\ Linked(StickyDisabled(a))
           /\ Linked(Enabled(a)) /\ Linked(LoggedIn(a))
           /\ Linked(CooldownCleared(a)) /\ Linked(Errored(a))
           /\ \A m \in Models : Linked(ModelLimited(a, m))
           /\ \A kind, ticks : Linked(Cooled(a, kind, ticks))
           /\ Linked(Succeeded(a)) /\ Linked(ValidationNoted(a))
           /\ Linked(Revalidated(a)) /\ Linked(Aged(a)) /\ Linked(Persisted(a))
BY DEF AccountState, Linked, Disabled, StickyDisabled, Enabled, LoggedIn,
       CooldownCleared, Errored, ModelLimited, Cooled, Succeeded,
       ValidationNoted, Revalidated, Aged, Persisted

LEMMA FileLinked ==
    /\ Linked(Fresh) /\ Linked(Persisted(Fresh))
    /\ \A p \in PersistedState :
         Linked(p) => Linked(Restored(p)) /\ Linked(AgedEntry(p))
BY DEF Linked, Fresh, Persisted, PersistedState, Restored, AgedEntry

\* StickyIsDisabled, read through Linked.
LEMMA StickyAsLinked ==
    StickyIsDisabled <=>
        \A n \in Accounts :
            Linked(acct[n]) /\ Linked(file[n]) /\ Linked(login.image[n])
BY DEF StickyIsDisabled, Linked

\* A save copies linked records to linked entries.
LEMMA SnapshotLinked ==
    ASSUME NEW who, NEW state \in [Accounts -> AccountState],
           \A n \in Accounts : Linked(state[n])
    PROVE  \A n \in Accounts : Linked(Snapshot(who, state)[n])
BY TransitionsLinked, FileLinked DEF Snapshot

\* A sticky account is disabled, in memory, on disk, and in every snapshot on
\* its way to the disk.
THEOREM StickyStaysDisabled == Spec => []StickyIsDisabled
<1> DEFINE L == \A n \in Accounts :
                   Linked(acct[n]) /\ Linked(file[n]) /\ Linked(login.image[n])
<1>1. Init => L
  BY FileLinked DEF Init, NoLogin, BlankFile
<1>2. TypeOK /\ TypeOK' /\ L /\ [Next]_vars => L'
  <2> SUFFICES ASSUME TypeOK, TypeOK', L, [Next]_vars PROVE L'
    OBVIOUS
  <2>t. /\ acct \in [Accounts -> AccountState]
        /\ acct' \in [Accounts -> AccountState]
        /\ file \in [Accounts -> PersistedState]
        /\ login.image \in [Accounts -> PersistedState]
    BY DEF TypeOK, StateFile
  <2>s. ASSUME SaveUnderLock, \A k \in Accounts : Linked(acct'[k]) PROVE L'
    <3>1. \A k \in Accounts : Linked(Snapshot(members, acct')[k])
      BY <2>t, <2>s, SnapshotLinked
    <3>2. \A k \in Accounts : Linked(file'[k])
      BY <2>s, <3>1 DEF SaveUnderLock
    <3>3. login'.image = login.image
      BY <2>s DEF SaveUnderLock, TypeOK
    <3> QED BY <2>s, <3>2, <3>3
  <2>u. ASSUME NEW n \in Accounts, NEW a, Linked(a), Update(n, a), SaveUnderLock
        PROVE  L'
    <3>1. \A k \in Accounts : Linked(acct'[k])
      BY <2>t, <2>u DEF Update
    <3> QED BY <2>s, <2>u, <3>1
  <2>1. ASSUME NEW n \in Accounts, Penalty(n) PROVE L'
    <3>1. acct[n] \in AccountState /\ Linked(acct[n])
      BY <2>t
    <3>2. ASSUME NEW kind, NEW ticks, Cooldown(n, kind, ticks) PROVE L'
      BY <2>u, <3>1, <3>2, TransitionsLinked DEF Cooldown
    <3>3. CASE \E m \in Models : CoolModel(n, m)
      BY <2>u, <3>1, <3>3, TransitionsLinked DEF CoolModel
    <3>4. CASE NoteError(n) \/ Disable(n) \/ DisableSticky(n)
      BY <2>u, <3>1, <3>4, TransitionsLinked DEF NoteError, Disable, DisableSticky
    <3> QED BY <2>1, <3>2, <3>3, <3>4 DEF Penalty, CooldownUntilTomorrow4AM
  <2>2. ASSUME NEW n \in Accounts, Relief(n) PROVE L'
    <3>1. acct[n] \in AccountState /\ Linked(acct[n])
      BY <2>t
    <3>2. CASE Enable(n) \/ ClearCooldown(n)
      BY <2>u, <3>1, <3>2, TransitionsLinked DEF Enable, ClearCooldown
    <3>3. CASE NoteSuccess(n)
      BY <2>t, <3>1, <3>3, TransitionsLinked DEF NoteSuccess, Update
    <3> QED BY <2>2, <3>2, <3>3 DEF Relief
  <2>3. ASSUME NEW n \in Accounts, AuthFileChange(n) PROVE L'
    BY <2>3 DEF AuthFileChange
  <2>4. ASSUME NEW c \in Callers, Validation(c) PROVE L'
    <3>0. val[c].pc = "renewing" =>
             /\ val[c].at \in Accounts
             /\ acct[val[c].at] \in AccountState /\ Linked(acct[val[c].at])
      BY <2>t DEF TypeOK
    <3>1. CASE \E n \in Accounts : ValidateStart(c, n)
      BY <3>1 DEF ValidateStart
    <3>2. CASE ValidateDone(c)
      BY <2>t, <3>0, <3>2, TransitionsLinked DEF ValidateDone, EditHeld
    <3>3. CASE ValidateNoRenewalPath(c)
      BY <2>t, <3>0, <3>3, TransitionsLinked DEF ValidateNoRenewalPath, EditHeld
    <3>4. CASE ValidateDead(c)
      <4>1. \A k \in Accounts : Linked(acct'[k])
        BY <2>t, <3>0, <3>4, TransitionsLinked DEF ValidateDead
      <4> QED BY <2>s, <3>4, <4>1 DEF ValidateDead
    <3> QED BY <2>4, <3>1, <3>2, <3>3, <3>4 DEF Validation
  <2>5. CASE Login
    <3>1. ASSUME NEW n \in Logins, AddAccount(n) PROVE L'
      <4>1. \A k \in Accounts : Linked(acct'[k])
        BY <2>t, <3>1, AccountsAssumption, TransitionsLinked, FileLinked DEF AddAccount
      <4>2. login'.image = login.image
        BY <3>1 DEF AddAccount, TypeOK
      <4> QED BY <3>1, <4>1, <4>2 DEF AddAccount
    <3>2. CASE LoginSnapshot
      BY <2>t, <3>2, SnapshotLinked DEF LoginSnapshot
    <3>3. CASE LoginWrite
      BY <3>3, FileLinked DEF LoginWrite, NoLogin, BlankFile
    <3> QED BY <2>5, <3>1, <3>2, <3>3 DEF Login
  <2>6. CASE SyncToDir
    BY <2>t, <2>6, FileLinked DEF SyncToDir
  <2>7. CASE Restart
    BY <2>t, <2>7, FileLinked DEF Restart, NoLogin, BlankFile
  <2>8. CASE Tick
    <3>1. \A n \in Accounts : Linked(acct'[n]) /\ Linked(file'[n])
      BY <2>t, <2>8, TransitionsLinked, FileLinked DEF Tick
    <3>2. login'.image = [n \in Accounts |-> AgedEntry(login.image[n])]
      BY <2>8 DEF Tick, TypeOK
    <3>3. \A n \in Accounts : Linked(login'.image[n])
      BY <2>t, <3>2, FileLinked
    <3> QED BY <3>1, <3>3
  <2>9. CASE UNCHANGED vars
    BY <2>9 DEF vars
  <2> QED BY <2>1, <2>2, <2>3, <2>4, <2>5, <2>6, <2>7, <2>8, <2>9 DEF Next
<1> QED BY <1>1, <1>2, TypeCorrect, StickyAsLinked, PTL DEF Spec

-----------------------------------------------------------------------------
(* Who lifts a block. *)

\* Of a linked record, the only transitions that take the sticky flag away
\* are the operator's enable and a login.
LEMMA StickyKept ==
    ASSUME NEW a \in AccountState, Linked(a), a.sticky
    PROVE  /\ Disabled(a).sticky /\ StickyDisabled(a).sticky
           /\ CooldownCleared(a).sticky /\ Errored(a).sticky
           /\ \A m \in Models : ModelLimited(a, m).sticky
           /\ \A kind, ticks : Cooled(a, kind, ticks).sticky
           /\ Succeeded(a).sticky /\ ValidationNoted(a).sticky
           /\ Revalidated(a).sticky /\ Aged(a).sticky
BY DEF AccountState, Linked, Disabled, StickyDisabled, CooldownCleared, Errored,
       ModelLimited, Cooled, Succeeded, ValidationNoted, Revalidated, Aged

\* A sticky block is lifted in the running pool only by Enable or by a login
\* of that very account (a restart may lose it with the state file).
THEOREM BlockLiftedByHand == Spec => BlockOnlyLiftedByHand
<1> DEFINE Lifted(n) == acct[n].sticky /\ ~acct'[n].sticky
<1>1. ASSUME TypeOK, StickyIsDisabled, Next, NEW k \in members \cap members', Lifted(k)
      PROVE  Enable(k) \/ AddAccount(k) \/ Restart
  <2>0. /\ k \in Accounts /\ acct[k] \in AccountState /\ Linked(acct[k])
        /\ acct \in [Accounts -> AccountState]
    BY <1>1, StickyAsLinked DEF TypeOK
  <2>u. ASSUME NEW n \in Accounts, NEW a, Update(n, a), acct[n].sticky => a.sticky
        PROVE  FALSE
    BY <1>1, <2>0, <2>u DEF Update
  <2>s. \A n \in Accounts : acct[n] \in AccountState /\ Linked(acct[n])
    BY <1>1, StickyAsLinked DEF TypeOK
  <2>1. ASSUME NEW n \in Accounts, Penalty(n) PROVE FALSE
    BY <2>1, <2>s, <2>u, StickyKept
       DEF Penalty, Cooldown, CooldownUntilTomorrow4AM, CoolModel, NoteError,
           Disable, DisableSticky
  <2>2. ASSUME NEW n \in Accounts, Relief(n) PROVE Enable(k)
    <3>1. CASE Enable(n)
      BY <1>1, <2>0, <3>1 DEF Enable, Update
    <3>2. CASE ClearCooldown(n) \/ NoteSuccess(n)
      BY <2>s, <2>u, <3>2, StickyKept DEF ClearCooldown, NoteSuccess
    <3> QED BY <2>2, <3>1, <3>2 DEF Relief
  <2>3. ASSUME NEW c \in Callers, Validation(c) PROVE FALSE
    <3>1. val[c].pc = "renewing" => val[c].at \in Accounts
      BY <1>1 DEF TypeOK
    <3>2. CASE \E n \in Accounts : ValidateStart(c, n)
      BY <1>1, <3>2 DEF ValidateStart
    <3>3. CASE ValidateDone(c) \/ ValidateNoRenewalPath(c) \/ ValidateDead(c)
      BY <1>1, <2>0, <2>s, <3>1, <3>3, StickyKept
         DEF ValidateDone, ValidateNoRenewalPath, ValidateDead, EditHeld
    <3> QED BY <2>3, <3>2, <3>3 DEF Validation
  <2>4. ASSUME Login PROVE AddAccount(k)
    <3>1. ASSUME NEW n \in Logins, AddAccount(n) PROVE AddAccount(k)
      BY <1>1, <2>0, <3>1, AccountsAssumption DEF AddAccount
    <3> QED BY <1>1, <2>4, <3>1 DEF Login, LoginSnapshot, LoginWrite
  <2>5. CASE SyncToDir
    BY <1>1, <2>0, <2>5 DEF SyncToDir
  <2>6. CASE Tick
    BY <1>1, <2>0, <2>6, StickyKept DEF Tick
  <2>7. ASSUME NEW n \in Accounts, AuthFileChange(n) PROVE FALSE
    BY <1>1, <2>7 DEF AuthFileChange
  <2> QED BY <1>1, <2>1, <2>2, <2>3, <2>4, <2>5, <2>6, <2>7 DEF Next
<1>2. TypeOK /\ StickyIsDisabled /\ [Next]_vars =>
        [\A n \in members \cap members' :
            acct[n].sticky /\ ~acct'[n].sticky =>
                Enable(n) \/ AddAccount(n) \/ Restart]_vars
  BY <1>1
<1> QED BY <1>2, TypeCorrect, StickyStaysDisabled, PTL DEF Spec, BlockOnlyLiftedByHand

-----------------------------------------------------------------------------
(* What a crash may forget. *)

\* An entry of the file is at least as strict as the record in memory.
Covers(p, a) ==
    /\ a.disabled => p.disabled
    /\ a.sticky => p.sticky
    /\ a.coolLeft <= p.coolLeft
    /\ a.errCount <= p.errCount
    /\ \A m \in Models : a.modelLeft[m] <= p.modelLeft[m]

\* A save covers what it saves, a restart is covered by what it loads, and
\* the changes nobody saves only forgive.
LEMMA Covering ==
    ASSUME NEW p \in PersistedState
    PROVE  /\ \A a \in AccountState : Covers(Persisted(a), a)
           /\ Covers(p, Fresh) /\ Covers(p, Restored(p))
           /\ \A a \in AccountState :
                Covers(p, a) => /\ Covers(p, Revalidated(a))
                                /\ Covers(p, ValidationNoted(a))
                                /\ Covers(p, Succeeded(a))
                                /\ Covers(p, LoggedIn(a))
                                /\ Covers(AgedEntry(p), Aged(a))
<1> USE DurationsAssumption DEF AccountState, PersistedState, Covers
<1>1. \A a \in AccountState : Covers(Persisted(a), a)
  BY DEF Persisted
<1>2. Covers(p, Fresh) /\ Covers(p, Restored(p))
  BY DEF Fresh, NoModelCools, Restored
<1>3. ASSUME NEW a \in AccountState, Covers(p, a)
      PROVE  Covers(p, Revalidated(a)) /\ Covers(p, ValidationNoted(a))
             /\ Covers(p, Succeeded(a)) /\ Covers(p, LoggedIn(a))
  BY <1>3 DEF Revalidated, ValidationNoted, Succeeded, LoggedIn
<1>4. ASSUME NEW a \in AccountState, Covers(p, a)
      PROVE  Covers(AgedEntry(p), Aged(a))
  <2>1. \A j, k \in Nat : j <= k => Dec(j) <= Dec(k)
    BY DEF Dec
  <2> QED BY <1>4, <2>1 DEF AgedEntry, Aged
<1> QED BY <1>1, <1>2, <1>3, <1>4

\* Every entry covers its account, for the accounts of the pool.
CoversAll(f) == \A n \in members : Covers(f[n], acct[n])

LEMMA ForgetsNothingAsCovers == RestartForgetsNothing <=> (~owed => CoversAll(file))
BY DEF RestartForgetsNothing, CoversAll, Covers

\* What is on its way to the disk covers the accounts until someone saves.
ImageCovers == login.pc = "write" /\ ~login.late => CoversAll(login.image)

\* A change of memory that nobody saves and that every entry survives keeps
\* the file and the image covering.
LEMMA Forgiven ==
    ASSUME TypeOK, TypeOK', UNCHANGED <<file, owed>>,
           UNCHANGED <<login.pc, login.image, login.late>>,
           \A p \in PersistedState : \A n \in members' :
               \/ n \in members /\ (Covers(p, acct[n]) => Covers(p, acct'[n]))
               \/ Covers(p, acct'[n])
    PROVE  ((~owed => CoversAll(file)) /\ ImageCovers)
             => ((~owed => CoversAll(file)) /\ ImageCovers)'
<1>1. ASSUME NEW f \in StateFile, CoversAll(f)
      PROVE  \A n \in members' : Covers(f[n], acct'[n])
  BY <1>1 DEF CoversAll, StateFile, TypeOK
<1>2. file \in StateFile /\ login.image \in StateFile
  BY DEF TypeOK
<1> QED BY <1>1, <1>2 DEF CoversAll, ImageCovers

\* A crash at any moment forgets no ban, disable, cooldown or error, however
\* saves fail and logins interleave, as long as the file is not owed a save:
\* what a failed save or a login's late image lost is lost only until the next
\* save of any account.
THEOREM FileNeverRosier == Spec => []RestartForgetsNothing
<1> DEFINE I == (~owed => CoversAll(file)) /\ ImageCovers
<1>1. Init => I
  <2> SUFFICES ASSUME Init PROVE I
    OBVIOUS
  <2>1. Persisted(Fresh) \in PersistedState
    BY FileTypes
  <2>2. CoversAll(file)
    BY <2>1, Covering, AccountsAssumption DEF Init, BlankFile, CoversAll
  <2> QED BY <2>2 DEF Init, NoLogin, ImageCovers
<1>2. TypeOK /\ TypeOK' /\ I /\ [Next]_vars => I'
  <2> SUFFICES ASSUME TypeOK, TypeOK', I, [Next]_vars PROVE I'
    OBVIOUS
  <2>t. /\ members \subseteq Accounts /\ members' \subseteq Accounts
        /\ acct \in [Accounts -> AccountState] /\ acct' \in [Accounts -> AccountState]
        /\ file \in [Accounts -> PersistedState] /\ file' \in [Accounts -> PersistedState]
        /\ login.image \in [Accounts -> PersistedState]
    BY DEF TypeOK, StateFile
  <2>s. ASSUME SaveUnderLock, UNCHANGED members PROVE I'
    <3>1. CASE file' = Snapshot(members, acct')
      <4>1. \A n \in members : file'[n] = Persisted(acct'[n])
        BY <2>t, <3>1 DEF Snapshot
      <4>2. CoversAll(file)'
        BY <2>s, <2>t, <4>1, Covering DEF CoversAll
      <4> QED BY <2>s, <4>2 DEF SaveUnderLock, ImageCovers, TypeOK
    <3>2. CASE owed' = TRUE
      BY <2>s, <3>2 DEF SaveUnderLock, ImageCovers, TypeOK
    <3> QED BY <2>s, <3>1, <3>2 DEF SaveUnderLock
  <2>1. ASSUME NEW n \in Accounts, Penalty(n) PROVE I'
    BY <2>1, <2>s DEF Penalty, Cooldown, CooldownUntilTomorrow4AM, CoolModel,
                      NoteError, Disable, DisableSticky, Update
  <2>2. ASSUME NEW n \in Accounts, Relief(n) PROVE I'
    <3>1. CASE Enable(n) \/ ClearCooldown(n)
      BY <2>s, <3>1 DEF Enable, ClearCooldown
    <3>2. CASE NoteSuccess(n)
      <4>1. \A p \in PersistedState : \A k \in members' :
              k \in members /\ (Covers(p, acct[k]) => Covers(p, acct'[k]))
        BY <2>t, <3>2, Covering DEF NoteSuccess, Update
      <4> QED BY <3>2, <4>1, Forgiven DEF NoteSuccess
    <3> QED BY <2>2, <3>1, <3>2 DEF Relief
  <2>3. ASSUME NEW n \in Accounts, AuthFileChange(n) PROVE I'
    BY <2>3 DEF AuthFileChange, CoversAll, ImageCovers
  <2>4. ASSUME NEW c \in Callers, Validation(c) PROVE I'
    <3>0. val[c].pc = "renewing" => val[c].at \in Accounts
      BY DEF TypeOK
    <3>1. CASE \E n \in Accounts : ValidateStart(c, n)
      BY <3>1 DEF ValidateStart, CoversAll, ImageCovers
    <3>2. CASE ValidateDone(c) \/ ValidateNoRenewalPath(c)
      <4>1. \A p \in PersistedState : \A k \in members' :
              k \in members /\ (Covers(p, acct[k]) => Covers(p, acct'[k]))
        BY <2>t, <3>0, <3>2, Covering
           DEF ValidateDone, ValidateNoRenewalPath, EditHeld
      <4> QED BY <3>2, <4>1, Forgiven DEF ValidateDone, ValidateNoRenewalPath
    <3>3. CASE ValidateDead(c)
      BY <2>s, <3>3 DEF ValidateDead
    <3> QED BY <2>4, <3>1, <3>2, <3>3 DEF Validation
  <2>5. CASE Login
    <3>1. ASSUME NEW n \in Logins, AddAccount(n) PROVE I'
      <4>1. n \in Accounts /\ login'.pc = "snapshot"
        BY <3>1, AccountsAssumption DEF AddAccount, TypeOK
      <4>2. \A p \in PersistedState : \A k \in members' :
               \/ k \in members /\ (Covers(p, acct[k]) => Covers(p, acct'[k]))
               \/ Covers(p, acct'[k])
        BY <2>t, <3>1, <4>1, Covering DEF AddAccount
      <4>3. CoversAll(file) => CoversAll(file)'
        BY <2>t, <3>1, <4>2 DEF AddAccount, CoversAll
      <4> QED BY <3>1, <4>1, <4>3 DEF AddAccount, ImageCovers
    <3>2. CASE LoginSnapshot
      <4>1. \A n \in members : Snapshot(members, acct)[n] = Persisted(acct[n])
        BY <2>t DEF Snapshot
      <4>2. \A n \in members : Covers(Snapshot(members, acct)[n], acct[n])
        BY <2>t, <4>1, Covering
      <4> QED BY <3>2, <4>2 DEF LoginSnapshot, CoversAll, ImageCovers
    <3>3. CASE LoginWrite
      BY <3>3 DEF LoginWrite, NoLogin, CoversAll, ImageCovers
    <3> QED BY <2>5, <3>1, <3>2, <3>3 DEF Login
  <2>6. CASE SyncToDir
    <3>1. \A p \in PersistedState : \A k \in members' :
             \/ k \in members /\ (Covers(p, acct[k]) => Covers(p, acct'[k]))
             \/ Covers(p, acct'[k])
      BY <2>t, <2>6, Covering DEF SyncToDir
    <3> QED BY <2>6, <3>1, Forgiven DEF SyncToDir
  <2>7. CASE Restart
    BY <2>t, <2>7, Covering DEF Restart, NoLogin, CoversAll, ImageCovers
  <2>8. CASE Tick
    <3>1. CoversAll(file) => CoversAll(file)'
      BY <2>t, <2>8, Covering DEF Tick, CoversAll
    <3>2. /\ login'.pc = login.pc /\ login'.late = login.late
          /\ login'.image = [n \in Accounts |-> AgedEntry(login.image[n])]
      BY <2>8 DEF Tick, TypeOK
    <3>3. CoversAll(login.image) => CoversAll(login.image)'
      BY <2>t, <2>8, <3>2, Covering DEF Tick, CoversAll
    <3> QED BY <2>8, <3>1, <3>2, <3>3 DEF Tick, ImageCovers
  <2>9. CASE UNCHANGED vars
    BY <2>9 DEF vars, CoversAll, ImageCovers
  <2> QED BY <2>1, <2>2, <2>3, <2>4, <2>5, <2>6, <2>7, <2>8, <2>9 DEF Next
<1> QED BY <1>1, <1>2, TypeCorrect, ForgetsNothingAsCovers, PTL DEF Spec

=============================================================================
