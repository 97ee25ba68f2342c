------------------------- MODULE FeatureFlagProofs -------------------------
(***************************************************************************)
(* Theorems about FeatureFlag, for every set of logins, names and gates    *)
(* and every value of the settings and bounds.                             *)
(***************************************************************************)
EXTENDS FeatureFlag, TLAPS

Rows == OwnershipRow(People, Logins)

\* Every request of the state machine turns a row into a row.
LEMMA TransitionsAreClosed ==
    ASSUME NEW o \in Rows
    PROVE  /\ \A e \in Engine : Assign(o, e) \in Rows /\ ForceAssign(o, e) \in Rows
           /\ \A e \in Writers, p \in People : StartShadow(o, e, p) \in Rows
           /\ BeginReconciliation(o) \in Rows
           /\ \A b \in BOOLEAN, n \in Nat : RecordReconciliation(o, b, n) \in Rows
           /\ HasShadow(o) => Cutover(o) \in Rows
           /\ AbortShadow(o) \in Rows /\ Pause(o) \in Rows /\ Resume(o) \in Rows
  <1> USE DEF Rows, OwnershipRow, Engine, CutoverState, ShadowState
  <1> o.epoch + 1 \in Nat
    OBVIOUS
  <1>1. ASSUME NEW e \in Engine
        PROVE  Assign(o, e) \in Rows /\ ForceAssign(o, e) \in Rows
    BY DEF Assign, ForceAssign
  <1>2. ASSUME NEW e \in Writers, NEW p \in People
        PROVE  StartShadow(o, e, p) \in Rows
    BY DEF StartShadow
  <1>3. BeginReconciliation(o) \in Rows
    BY DEF BeginReconciliation
  <1>4. ASSUME NEW b \in BOOLEAN, NEW n \in Nat
        PROVE  RecordReconciliation(o, b, n) \in Rows
    BY DEF RecordReconciliation
  <1>5. ASSUME HasShadow(o) PROVE Cutover(o) \in Rows
    BY <1>5 DEF Cutover, HasShadow
  <1>6. AbortShadow(o) \in Rows
    BY DEF AbortShadow
  <1>7. Pause(o) \in Rows
    BY DEF Pause
  <1>8. Resume(o) \in Rows
    BY DEF Resume
  <1> QED BY <1>1, <1>2, <1>3, <1>4, <1>5, <1>6, <1>7, <1>8

\* So does the trigger.
LEMMA StampIsClosed ==
    ASSUME NEW old \in Rows, NEW new \in Rows, NEW l \in Logins, NEW t \in Nat
    PROVE  GuardStamp(old, new, l, t) \in Rows
  BY DEF Rows, OwnershipRow, GuardStamp, HasShadow

-----------------------------------------------------------------------------
(***************************************************************************)
(* The inductive invariant.                                                *)
(***************************************************************************)

\* The columns about the current shadow tell who really started it.
StarterRecorded ==
    HasShadow(row) => row.dbUser = starter.login /\ row.requestedBy = starter.actor

\* An epoch e under which shadow number n could be approved.  No later
\* shadow shares an epoch with it.
ApprovableAt(e, n) ==
    /\ e <= row.epoch
    /\ e = row.epoch => HasShadow(row) /\ n = shadowNo

ApprovalsNameTheirShadow ==
    /\ \A a \in approvals : ApprovableAt(a.epoch, a.no)
    /\ \A l \in Logins : approving[l] # NotApproving =>
                             ApprovableAt(approving[l].epoch, approving[l].no)

\* ever_owned remembers.
OwnershipRemembered == owned = row.everOwned

FlagInv ==
    /\ TypeOK
    /\ ConstraintsNeverFire
    /\ StarterRecorded
    /\ ApprovalsNameTheirShadow
    /\ OwnershipRemembered

-----------------------------------------------------------------------------
\* What the trigger stores, column by column.
LEMMA StampColumns ==
    ASSUME NEW old \in Rows, NEW new \in Rows, NEW l \in Logins, NEW t \in Nat,
           NEW r, r = GuardStamp(old, new, l, t)
    PROVE  /\ r.engine = new.engine /\ r.shadow = new.shadow /\ r.state = new.state
           /\ r.epoch = new.epoch /\ r.recon = new.recon
           /\ r.everOwned = (old.everOwned \/ new.engine # "NONE")
           /\ HasShadow(new) => r.requestedBy = new.requestedBy
           /\ HasShadow(new) /\ HasShadow(old) => r.dbUser = old.dbUser /\ r.startedAt = old.startedAt
           /\ HasShadow(new) /\ ~HasShadow(old) => r.dbUser = l /\ r.startedAt = t
  BY DEF Rows, OwnershipRow, GuardStamp, HasShadow

\* The CHECK constraints hold of what each request returns.
LEMMA TransitionsKeepChecks ==
    ASSUME NEW o \in Rows, RowChecks(o)
    PROVE  /\ \A e \in Engine : CanAssign(o, e) => RowChecks(Assign(o, e))
           /\ \A e \in Engine : CanForceAssign(o, e) => RowChecks(ForceAssign(o, e))
           /\ \A e \in Writers, p \in People :
                CanStartShadow(o, e) => RowChecks(StartShadow(o, e, p)) /\ ~HasShadow(o)
           /\ CanBeginReconciliation(o) => RowChecks(BeginReconciliation(o))
           /\ \A b \in BOOLEAN, n \in Nat : CanRecordReconciliation(o) =>
                RowChecks(RecordReconciliation(o, b, n))
           /\ CanCutover(o) => RowChecks(Cutover(o))
           /\ CanAbortShadow(o) => RowChecks(AbortShadow(o))
           /\ RowChecks(Pause(o))
           /\ CanResume(o) => RowChecks(Resume(o))
  <1> USE DEF Rows, OwnershipRow, RowChecks, HasShadow, ShadowState, Writers
  <1>1. ASSUME NEW e \in Engine
        PROVE  /\ CanAssign(o, e) => RowChecks(Assign(o, e))
               /\ CanForceAssign(o, e) => RowChecks(ForceAssign(o, e))
    BY DEF CanAssign, CanForceAssign, Assign, ForceAssign
  <1>2. ASSUME NEW e \in Writers, NEW p \in People, CanStartShadow(o, e)
        PROVE  RowChecks(StartShadow(o, e, p)) /\ ~HasShadow(o)
    BY <1>2, NoEngineAssumption DEF CanStartShadow, StartShadow, Engine
  <1>3. CanBeginReconciliation(o) => RowChecks(BeginReconciliation(o))
    BY DEF CanBeginReconciliation, BeginReconciliation
  <1>4. ASSUME NEW b \in BOOLEAN, NEW n \in Nat, CanRecordReconciliation(o)
        PROVE  RowChecks(RecordReconciliation(o, b, n))
    BY <1>4 DEF CanRecordReconciliation, RecordReconciliation
  <1>5. CanCutover(o) => RowChecks(Cutover(o))
    BY DEF CanCutover, Cutover
  <1>6. CanAbortShadow(o) => RowChecks(AbortShadow(o))
    BY DEF CanAbortShadow, AbortShadow
  <1>7. RowChecks(Pause(o))
    BY DEF Pause
  <1>8. CanResume(o) => RowChecks(Resume(o))
    BY DEF CanResume, Resume
  <1> QED BY <1>1, <1>2, <1>3, <1>4, <1>5, <1>6, <1>7, <1>8

\* The effect of each request on the columns that identify the shadow.
LEMMA TransitionColumns ==
    ASSUME NEW o \in Rows
    PROVE  /\ \A e \in Engine : /\ Assign(o, e).epoch = o.epoch + 1
                                 /\ Assign(o, e).shadow = o.shadow
                                 /\ Assign(o, e).requestedBy = o.requestedBy
                                 /\ ForceAssign(o, e).epoch = o.epoch + 1
                                 /\ ForceAssign(o, e).shadow = o.shadow
                                 /\ ForceAssign(o, e).requestedBy = o.requestedBy
           /\ \A e \in Writers, p \in People : /\ StartShadow(o, e, p).epoch = o.epoch + 1
                                                /\ StartShadow(o, e, p).shadow = e
                                                /\ StartShadow(o, e, p).requestedBy = p
           /\ Cutover(o).epoch = o.epoch + 1 /\ Cutover(o).shadow = NoEngine
           /\ AbortShadow(o).epoch = o.epoch + 1 /\ AbortShadow(o).shadow = NoEngine
           /\ Pause(o).epoch = o.epoch + 1 /\ Pause(o).shadow = o.shadow
           /\ Pause(o).requestedBy = o.requestedBy
           /\ Resume(o).epoch = o.epoch + 1 /\ Resume(o).shadow = o.shadow
           /\ Resume(o).requestedBy = o.requestedBy
  BY DEF Rows, OwnershipRow, Assign, ForceAssign, StartShadow, Cutover, AbortShadow, Pause, Resume

\* Committing a row with a higher epoch, that starts no shadow.
LEMMA CommitKeepsInv ==
    ASSUME FlagInv, NEW l \in Logins, NEW new \in Rows, NEW p \in Names, NEW a \in Names,
           Commit(l, new, p, a), UNCHANGED <<generation, shadowNo, starter>>,
           RowChecks(new), new.epoch = row.epoch + 1,
           HasShadow(new) => HasShadow(row) /\ new.requestedBy = row.requestedBy
    PROVE  FlagInv'
  <1> USE DEF FlagInv
  <1> DEFINE t == txn[l]
  <1>1. row \in Rows /\ t \in Nat /\ row.epoch \in Nat
    BY DEF TypeOK, Rows, OwnershipRow
  <1>2. row' = GuardStamp(row, new, l, t)
    BY DEF Commit, Update
  <1> HIDE DEF t
  <1>3. row' \in Rows
    BY <1>1, <1>2, StampIsClosed
  <1>4. /\ row'.engine = new.engine /\ row'.shadow = new.shadow /\ row'.state = new.state
        /\ row'.epoch = new.epoch
        /\ row'.everOwned = (row.everOwned \/ new.engine # "NONE")
        /\ HasShadow(new) => row'.requestedBy = row.requestedBy /\ row'.dbUser = row.dbUser
    BY <1>1, <1>2, StampColumns
  <1>5. TypeOK'
    <2>1. /\ audit' \in [actor : Names, approvedBy : Names]
          /\ owned' \in BOOLEAN
      BY DEF Commit, Update, TypeOK
    <2>2. txn' \in [Logins -> Nat]
      BY DEF Commit, TypeOK
    <2> QED BY <1>3, <2>1, <2>2 DEF Commit, TypeOK, Rows
  <1>6. ConstraintsNeverFire'
    BY <1>4 DEF ConstraintsNeverFire, RowChecks, HasShadow
  <1>7. StarterRecorded'
    BY <1>4 DEF StarterRecorded, HasShadow
  <1>8. ApprovalsNameTheirShadow'
    <2>1. approvals' = approvals /\ approving' = approving
      BY DEF Commit
    <2>2. /\ \A b \in approvals : b.epoch \in Nat
          /\ \A k \in Logins : approving[k].epoch \in Nat
      BY DEF TypeOK
    <2> QED BY <1>1, <1>4, <2>1, <2>2 DEF ApprovalsNameTheirShadow, ApprovableAt
  <1>9. OwnershipRemembered'
    BY <1>4 DEF OwnershipRemembered, Commit, Update
  <1> QED BY <1>5, <1>6, <1>7, <1>8, <1>9

\* A step of the gate that writes the row keeps its epoch and its shadow.
LEMMA GateUpdateKeepsInv ==
    ASSUME FlagInv, NEW g \in Gates, NEW new \in Rows,
           NEW pc \in {"idle", "begun", "running", "ran"}, GateUpdate(g, new, pc),
           RowChecks(new), new.epoch = row.epoch, new.shadow = row.shadow,
           new.requestedBy = row.requestedBy
    PROVE  FlagInv'
  <1> USE DEF FlagInv
  <1>1. PICK l \in Logins, p \in People : Update(new, l, clock, p, NoOne)
    BY DEF GateUpdate
  <1>2. row \in Rows /\ clock \in Nat /\ row.epoch \in Nat
    BY DEF TypeOK, Rows, OwnershipRow
  <1>3. row' = GuardStamp(row, new, l, clock)
    BY <1>1 DEF Update
  <1>4. row' \in Rows
    BY <1>2, <1>3, StampIsClosed
  <1>5. /\ row'.engine = new.engine /\ row'.shadow = new.shadow /\ row'.state = new.state
        /\ row'.epoch = new.epoch
        /\ row'.everOwned = (row.everOwned \/ new.engine # "NONE")
        /\ HasShadow(new) => row'.requestedBy = new.requestedBy
        /\ HasShadow(new) /\ HasShadow(row) => row'.dbUser = row.dbUser
    BY <1>2, <1>3, StampColumns
  <1>6. TypeOK'
    <2>1. /\ audit' \in [actor : Names, approvedBy : Names]
          /\ owned' \in BOOLEAN
      BY <1>1 DEF Update, TypeOK, Names
    <2>2. gate' \in [Gates -> [pc : {"idle", "begun", "running", "ran"},
                              at : Nat, passed : BOOLEAN]]
      BY DEF GateUpdate, TypeOK
    <2> QED BY <1>4, <2>1, <2>2 DEF GateUpdate, TypeOK, Rows
  <1>7. ConstraintsNeverFire'
    BY <1>5 DEF ConstraintsNeverFire, RowChecks, HasShadow
  <1>8. StarterRecorded'
    BY <1>5 DEF StarterRecorded, HasShadow, GateUpdate
  <1>9. ApprovalsNameTheirShadow'
    <2>1. approvals' = approvals /\ approving' = approving /\ shadowNo' = shadowNo
      BY DEF GateUpdate
    <2> QED BY <1>5, <2>1 DEF ApprovalsNameTheirShadow, ApprovableAt, HasShadow
  <1>10. OwnershipRemembered'
    BY <1>1, <1>5 DEF OwnershipRemembered, Update
  <1> QED BY <1>6, <1>7, <1>8, <1>9, <1>10

\* Starting a shadow makes a new epoch, a new shadow number and a new starter.
LEMMA StartShadowKeepsInv ==
    ASSUME FlagInv, NEW l \in Logins, NEW e \in Writers, NEW p \in People,
           DoStartShadow(l, e, p)
    PROVE  FlagInv'
  <1> USE DEF FlagInv
  <1> DEFINE t == txn[l]
             new == StartShadow(row, e, p)
  <1>1. row \in Rows /\ t \in Nat /\ row.epoch \in Nat
    BY DEF TypeOK, Rows, OwnershipRow
  <1>2. /\ row' = GuardStamp(row, new, l, t)
        /\ owned' = (owned \/ new.engine # "NONE")
    BY DEF DoStartShadow, Commit, Update
  <1>3. /\ new \in Rows /\ new.epoch = row.epoch + 1
        /\ new.requestedBy = p /\ HasShadow(new)
    BY <1>1, TransitionsAreClosed, TransitionColumns, NoEngineAssumption
       DEF HasShadow, Engine
  <1>4. RowChecks(new) /\ ~HasShadow(row)
    BY <1>1, TransitionsKeepChecks DEF DoStartShadow, ConstraintsNeverFire
  <1> HIDE DEF t, new
  <1>5. row' \in Rows
    BY <1>1, <1>2, <1>3, StampIsClosed
  <1>6. /\ row'.engine = new.engine /\ row'.shadow = new.shadow /\ row'.state = new.state
        /\ row'.epoch = row.epoch + 1 /\ row'.requestedBy = p /\ row'.dbUser = l
        /\ row'.everOwned = (row.everOwned \/ new.engine # "NONE")
    BY <1>1, <1>2, <1>3, <1>4, StampColumns
  <1>7. TypeOK'
    <2>1. /\ audit' \in [actor : Names, approvedBy : Names]
          /\ owned' \in BOOLEAN
      BY DEF DoStartShadow, Commit, Update, TypeOK, Names
    <2>2. txn' \in [Logins -> Nat] /\ generation' \in Nat /\ shadowNo' \in Nat
      BY DEF DoStartShadow, Commit, TypeOK
    <2>3. starter' \in [login : Logins \cup {NoOne}, actor : People \cup {NoOne}]
      BY DEF DoStartShadow
    <2> QED BY <1>5, <2>1, <2>2, <2>3 DEF DoStartShadow, Commit, TypeOK, Rows
  <1>8. ConstraintsNeverFire'
    BY <1>4, <1>6 DEF ConstraintsNeverFire, RowChecks, HasShadow
  <1>9. StarterRecorded'
    BY <1>6 DEF StarterRecorded, DoStartShadow
  <1>10. ApprovalsNameTheirShadow'
    <2>1. approvals' = approvals /\ approving' = approving
      BY DEF DoStartShadow, Commit
    <2>2. /\ \A b \in approvals : b.epoch \in Nat
          /\ \A k \in Logins : approving[k].epoch \in Nat
      BY DEF TypeOK
    <2> QED BY <1>1, <1>6, <2>1, <2>2 DEF ApprovalsNameTheirShadow, ApprovableAt
  <1>11. OwnershipRemembered'
    BY <1>2, <1>6 DEF OwnershipRemembered
  <1> QED BY <1>7, <1>8, <1>9, <1>10, <1>11

-----------------------------------------------------------------------------
\* Every request of a login keeps the invariant.
LEMMA RequestKeepsInv ==
    ASSUME FlagInv, NEW l \in Logins, Request(l)
    PROVE  FlagInv'
  <1> USE DEF FlagInv
  <1>1. row \in Rows /\ RowChecks(row) /\ NoOne \in Names /\ People \subseteq Names
    BY DEF TypeOK, Rows, ConstraintsNeverFire, Names
  <1>2. ASSUME NEW e \in Writers, NEW p \in People, DoAssign(l, e, p) PROVE FlagInv'
    BY <1>1, <1>2, CommitKeepsInv, TransitionsAreClosed, TransitionsKeepChecks,
       TransitionColumns DEF DoAssign, HasShadow, Engine
  <1>3. ASSUME NEW p \in People, NEW a \in Names, DoCutover(l, p, a) PROVE FlagInv'
    BY <1>1, <1>3, CommitKeepsInv, TransitionsAreClosed, TransitionsKeepChecks,
       TransitionColumns DEF DoCutover, CanCutover, HasShadow
  <1>4. ASSUME NEW p \in People, DoAbortShadow(l, p) PROVE FlagInv'
    BY <1>1, <1>4, CommitKeepsInv, TransitionsAreClosed, TransitionsKeepChecks,
       TransitionColumns DEF DoAbortShadow, HasShadow
  <1>5. ASSUME NEW p \in People, DoPause(l, p) PROVE FlagInv'
    BY <1>1, <1>5, CommitKeepsInv, TransitionsAreClosed, TransitionsKeepChecks,
       TransitionColumns DEF DoPause, HasShadow
  <1>6. ASSUME NEW p \in People, DoResume(l, p) PROVE FlagInv'
    BY <1>1, <1>6, CommitKeepsInv, TransitionsAreClosed, TransitionsKeepChecks,
       TransitionColumns DEF DoResume, HasShadow
  <1>7. ASSUME NEW e \in Engine, NEW p \in People, NEW a \in Names,
               DoForceAssign(l, e, p, a)
        PROVE  FlagInv'
    BY <1>1, <1>7, CommitKeepsInv, TransitionsAreClosed, TransitionsKeepChecks,
       TransitionColumns DEF DoForceAssign, HasShadow
  <1> QED BY <1>2, <1>3, <1>4, <1>5, <1>6, <1>7, StartShadowKeepsInv DEF Request

\* So do the steps that leave the row alone, and the steps of the gate.
LEMMA OtherStepsKeepInv ==
    ASSUME FlagInv
    PROVE  /\ \A l \in Logins : Begin(l) \/ Rollback(l) \/ ApproveRead(l) \/ ApproveInsert(l)
                                  => FlagInv'
           /\ \A g \in Gates : \/ GateBegin(g) \/ GateStart(g) \/ GateRun(g)
                               \/ GateRecord(g) \/ GateFail(g)
                               => FlagInv'
  <1> USE DEF FlagInv
  <1>1. row \in Rows /\ RowChecks(row) /\ row.epoch \in Nat
    BY DEF TypeOK, Rows, OwnershipRow, ConstraintsNeverFire
  <1>2. ASSUME row' = row, owned' = owned, starter' = starter
        PROVE  ConstraintsNeverFire' /\ StarterRecorded' /\ OwnershipRemembered'
    BY <1>2 DEF ConstraintsNeverFire, StarterRecorded, OwnershipRemembered
  <1>3. ASSUME row' = row, shadowNo' = shadowNo, approvals' = approvals, approving' = approving
        PROVE  ApprovalsNameTheirShadow'
    BY <1>3 DEF ApprovalsNameTheirShadow, ApprovableAt
  <1>4. ASSUME NEW l \in Logins, Begin(l) PROVE FlagInv'
    BY <1>2, <1>3, <1>4 DEF Begin, TypeOK
  <1>5. ASSUME NEW l \in Logins, Rollback(l) PROVE FlagInv'
    BY <1>2, <1>3, <1>5 DEF Rollback, TypeOK
  <1>6. ASSUME NEW l \in Logins, ApproveRead(l) PROVE FlagInv'
    <2>1. TypeOK'
      BY <1>1, <1>6 DEF ApproveRead, TypeOK
    <2>2. HasShadow(row)
      BY <1>1, <1>6 DEF ApproveRead, RowChecks
    <2>3. ApprovalsNameTheirShadow'
      BY <1>1, <1>6, <2>2 DEF ApproveRead, ApprovalsNameTheirShadow, ApprovableAt, TypeOK
    <2> QED BY <1>2, <1>6, <2>1, <2>3 DEF ApproveRead
  <1>7. ASSUME NEW l \in Logins, ApproveInsert(l) PROVE FlagInv'
    <2>1. TypeOK'
      BY <1>7 DEF ApproveInsert, TypeOK, NotApproving
    <2>2. ApprovalsNameTheirShadow'
      BY <1>7 DEF ApproveInsert, ApprovalsNameTheirShadow, ApprovableAt, TypeOK
    <2> QED BY <1>2, <1>7, <2>1, <2>2 DEF ApproveInsert
  <1>8. ASSUME NEW g \in Gates, GateBegin(g) PROVE FlagInv'
    <2>1. /\ BeginReconciliation(row) \in Rows /\ RowChecks(BeginReconciliation(row))
      BY <1>1, <1>8, TransitionsAreClosed, TransitionsKeepChecks DEF GateBegin
    <2>2. /\ BeginReconciliation(row).epoch = row.epoch
          /\ BeginReconciliation(row).shadow = row.shadow
          /\ BeginReconciliation(row).requestedBy = row.requestedBy
      BY <1>1 DEF BeginReconciliation, Rows, OwnershipRow
    <2> QED BY <1>8, <2>1, <2>2, GateUpdateKeepsInv DEF GateBegin
  <1>9. ASSUME NEW g \in Gates, GateStart(g) PROVE FlagInv'
    <2>1. clock + 1 \in Nat
      BY DEF TypeOK
    <2>2. gate' \in [Gates -> [pc : {"idle", "begun", "running", "ran"},
                              at : Nat, passed : BOOLEAN]]
      BY <1>9, <2>1 DEF GateStart, TypeOK
    <2>3. TypeOK'
      BY <1>9, <2>1, <2>2 DEF GateStart, TypeOK
    <2> QED BY <1>2, <1>3, <1>9, <2>3 DEF GateStart
  <1>10. ASSUME NEW g \in Gates, GateRun(g) PROVE FlagInv'
    <2>1. PICK b \in BOOLEAN, strict \in BOOLEAN :
            /\ runs' = runs \cup {[at |-> gate[g].at, passed |-> b,
                                   no |-> IF HasShadow(row) THEN shadowNo ELSE 0]}
            /\ gate' = [gate EXCEPT ![g].pc = "ran", ![g].passed = b /\ ~strict]
      BY <1>10 DEF GateRun
    <2>2. runs' \subseteq [at : Nat, passed : BOOLEAN, no : Nat]
      BY <2>1 DEF TypeOK
    <2>3. (b /\ ~strict) \in BOOLEAN
      OBVIOUS
    <2>4. gate' \in [Gates -> [pc : {"idle", "begun", "running", "ran"},
                              at : Nat, passed : BOOLEAN]]
      BY <2>1, <2>3 DEF TypeOK
    <2>5. TypeOK'
      BY <1>10, <2>2, <2>4 DEF GateRun, TypeOK
    <2> QED BY <1>2, <1>3, <1>10, <2>5 DEF GateRun
  <1>11. ASSUME NEW g \in Gates, GateRecord(g) PROVE FlagInv'
    <2> DEFINE new == RecordReconciliation(row, gate[g].passed, gate[g].at)
    <2>1. gate[g].passed \in BOOLEAN /\ gate[g].at \in Nat
      BY DEF TypeOK
    <2>2. new \in Rows /\ RowChecks(new)
      BY <1>1, <1>11, <2>1, TransitionsAreClosed, TransitionsKeepChecks DEF GateRecord
    <2>3. new.epoch = row.epoch /\ new.shadow = row.shadow /\ new.requestedBy = row.requestedBy
      BY <1>1 DEF RecordReconciliation, Rows, OwnershipRow
    <2>4. GateUpdate(g, new, "idle")
      BY <1>11 DEF GateRecord
    <2> HIDE DEF new
    <2> QED BY <2>2, <2>3, <2>4, GateUpdateKeepsInv
  <1>12. ASSUME NEW g \in Gates, GateFail(g) PROVE FlagInv'
    BY <1>2, <1>3, <1>12 DEF GateFail, GateIdle, TypeOK
  <1> QED BY <1>4, <1>5, <1>6, <1>7, <1>8, <1>9, <1>10, <1>11, <1>12

LEMMA FlagInvIsInductive ==
    /\ Init => FlagInv
    /\ FlagInv /\ [Next]_vars => FlagInv'
  <1>1. Init => FlagInv
    <2> SUFFICES ASSUME Init PROVE FlagInv
      OBVIOUS
    <2>1. TypeOK
      BY DEF Init, TypeOK, OwnershipRow, FreshRow, Engine, Writers, CutoverState,
         ShadowState, GateIdle, NotApproving, Names
    <2>2. ConstraintsNeverFire /\ StarterRecorded /\ OwnershipRemembered
      BY DEF Init, FreshRow, ConstraintsNeverFire, RowChecks, HasShadow, StarterRecorded,
         OwnershipRemembered
    <2>3. ApprovalsNameTheirShadow
      BY DEF Init, ApprovalsNameTheirShadow
    <2> QED BY <2>1, <2>2, <2>3 DEF FlagInv
  <1>2. ASSUME FlagInv, Next PROVE FlagInv'
    BY <1>2, RequestKeepsInv, OtherStepsKeepInv DEF Next
  <1>3. ASSUME FlagInv, UNCHANGED vars PROVE FlagInv'
    BY <1>3 DEF vars, FlagInv, TypeOK, ConstraintsNeverFire, StarterRecorded,
       ApprovalsNameTheirShadow, ApprovableAt, OwnershipRemembered
  <1> QED BY <1>1, <1>2, <1>3

-----------------------------------------------------------------------------
\* Type correctness, for every instance.
THEOREM TypeCorrectness == Spec => []TypeOK
  <1>1. Spec => []FlagInv
    BY FlagInvIsInductive, PTL DEF Spec
  <1>2. FlagInv => TypeOK
    BY DEF FlagInv
  <1> QED BY <1>1, <1>2, PTL

\* The CHECK constraints of meta.ingestion_ownership never reject a row the
\* Python state machine produced.
THEOREM ChecksNeverFire == Spec => []ConstraintsNeverFire
  <1>1. Spec => []FlagInv
    BY FlagInvIsInductive, PTL DEF Spec
  <1>2. FlagInv => ConstraintsNeverFire
    BY DEF FlagInv
  <1> QED BY <1>1, <1>2, PTL

-----------------------------------------------------------------------------
\* A step either keeps the routing and the epoch (the gate does), or commits
\* a request that raises the epoch.
LEMMA RowMoves ==
    ASSUME FlagInv, [Next]_vars
    PROVE  \/ Routing(row') = Routing(row) /\ row'.epoch = row.epoch
           \/ \E l \in Logins, new \in Rows, p \in Names, a \in Names :
                Commit(l, new, p, a) /\ new.epoch = row.epoch + 1
  <1> DEFINE Keeps == Routing(row') = Routing(row) /\ row'.epoch = row.epoch
             Commits == \E l \in Logins, new \in Rows, p \in Names, a \in Names :
                           Commit(l, new, p, a) /\ new.epoch = row.epoch + 1
  <1>1. row \in Rows /\ RowChecks(row) /\ clock \in Nat /\ NoOne \in Names /\ People \subseteq Names
    BY DEF FlagInv, TypeOK, Rows, ConstraintsNeverFire, Names
  <1>2. ASSUME NEW l \in Logins, Request(l) PROVE Commits
    <2>1. ASSUME NEW e \in Writers, NEW p \in People, DoAssign(l, e, p) PROVE Commits
      BY <1>1, <2>1, TransitionsAreClosed, TransitionColumns DEF DoAssign, Engine
    <2>2. ASSUME NEW e \in Writers, NEW p \in People, DoStartShadow(l, e, p) PROVE Commits
      BY <1>1, <2>2, TransitionsAreClosed, TransitionColumns DEF DoStartShadow
    <2>3. ASSUME NEW p \in People, NEW a \in Names, DoCutover(l, p, a) PROVE Commits
      BY <1>1, <2>3, TransitionsAreClosed, TransitionColumns DEF DoCutover, CanCutover
    <2>4. ASSUME NEW p \in People, DoAbortShadow(l, p) PROVE Commits
      BY <1>1, <2>4, TransitionsAreClosed, TransitionColumns DEF DoAbortShadow
    <2>5. ASSUME NEW p \in People, DoPause(l, p) PROVE Commits
      BY <1>1, <2>5, TransitionsAreClosed, TransitionColumns DEF DoPause
    <2>6. ASSUME NEW p \in People, DoResume(l, p) PROVE Commits
      BY <1>1, <2>6, TransitionsAreClosed, TransitionColumns DEF DoResume
    <2>7. ASSUME NEW e \in Engine, NEW p \in People, NEW a \in Names,
                 DoForceAssign(l, e, p, a)
          PROVE  Commits
      BY <1>1, <2>7, TransitionsAreClosed, TransitionColumns DEF DoForceAssign
    <2> HIDE DEF Commits
    <2> QED BY <1>2, <2>1, <2>2, <2>3, <2>4, <2>5, <2>6, <2>7 DEF Request
  <1>3. ASSUME row' = row PROVE Keeps
    BY <1>3
  <1>4. ASSUME NEW g \in Gates, NEW new \in Rows, NEW pc, GateUpdate(g, new, pc),
               new.engine = row.engine, new.shadow = row.shadow, new.epoch = row.epoch,
               (new.state = "PAUSED") = (row.state = "PAUSED")
        PROVE  Keeps
    <2>1. PICK l \in Logins, p \in People : Update(new, l, clock, p, NoOne)
      BY <1>4 DEF GateUpdate
    <2>2. row' = GuardStamp(row, new, l, clock)
      BY <2>1 DEF Update
    <2>3. /\ row'.engine = new.engine /\ row'.shadow = new.shadow
          /\ row'.state = new.state /\ row'.epoch = new.epoch
      BY <1>1, <2>2, StampColumns
    <2> QED BY <1>4, <2>3 DEF Routing
  <1>5. ASSUME NEW g \in Gates, GateBegin(g) PROVE Keeps
    <2>1. BeginReconciliation(row) \in Rows
      BY <1>1, TransitionsAreClosed
    <2>2. /\ BeginReconciliation(row).engine = row.engine
          /\ BeginReconciliation(row).shadow = row.shadow
          /\ BeginReconciliation(row).epoch = row.epoch
          /\ (BeginReconciliation(row).state = "PAUSED") = (row.state = "PAUSED")
      BY <1>1, <1>5 DEF GateBegin, CanBeginReconciliation, BeginReconciliation,
         ShadowState, Rows, OwnershipRow
    <2> QED BY <1>4, <1>5, <2>1, <2>2 DEF GateBegin
  <1>6. ASSUME NEW g \in Gates, GateRecord(g) PROVE Keeps
    <2> DEFINE new == RecordReconciliation(row, gate[g].passed, gate[g].at)
    <2>1. new \in Rows
      BY <1>1, TransitionsAreClosed DEF FlagInv, TypeOK
    <2>2. /\ new.engine = row.engine /\ new.shadow = row.shadow /\ new.epoch = row.epoch
          /\ (new.state = "PAUSED") = (row.state = "PAUSED")
      BY <1>1, <1>6 DEF GateRecord, CanRecordReconciliation, RecordReconciliation,
         Rows, OwnershipRow
    <2>3. GateUpdate(g, new, "idle")
      BY <1>6 DEF GateRecord
    <2> HIDE DEF new
    <2> QED BY <1>4, <2>1, <2>2, <2>3
  <1> SUFFICES Keeps \/ Commits
    OBVIOUS
  <1> HIDE DEF Keeps, Commits
  <1>7. CASE Next
    BY <1>2, <1>3, <1>5, <1>6, <1>7 DEF Next, Begin, Rollback, ApproveRead, ApproveInsert, GateStart,
       GateRun, GateFail
  <1>8. CASE UNCHANGED vars
    BY <1>3, <1>8 DEF vars
  <1> QED BY <1>7, <1>8

\* Only the CUTOVER request promotes a shadow.
LEMMA OnlyCutoverPromotes ==
    ASSUME FlagInv, [Next]_vars, CutoverStep
    PROVE  \E l \in Logins, p \in People, a \in Names : DoCutover(l, p, a)
  <1>1. row \in Rows /\ RowChecks(row) /\ clock \in Nat /\ txn \in [Logins -> Nat]
    BY DEF FlagInv, TypeOK, Rows, ConstraintsNeverFire
  <1>2. row'.engine # row.engine /\ HasShadow(row)
    BY <1>1 DEF CutoverStep, RowChecks
  <1>3. ASSUME NEW l \in Logins, NEW new \in Rows, NEW p, NEW a, Commit(l, new, p, a)
        PROVE  new.engine # row.engine
    <2>1. row' = GuardStamp(row, new, l, txn[l])
      BY <1>3 DEF Commit, Update
    <2>2. row'.engine = new.engine
      BY <1>1, <1>3, <2>1, StampColumns
    <2> QED BY <1>2, <2>2
  <1>4. ~(row' = row) /\ Routing(row') # Routing(row)
    BY <1>2 DEF Routing
  <1>5. PICK l \in Logins : Request(l)
    <2>1. CASE Next
      <3>1. ASSUME NEW g \in Gates, NEW new \in Rows, NEW pc, GateUpdate(g, new, pc),
                   new.engine = row.engine
            PROVE  FALSE
        <4>1. PICK l \in Logins, p \in People : Update(new, l, clock, p, NoOne)
          BY <3>1 DEF GateUpdate
        <4>2. row' = GuardStamp(row, new, l, clock)
          BY <4>1 DEF Update
        <4> QED BY <1>1, <1>2, <3>1, <4>2, StampColumns
      <3>2. ASSUME NEW g \in Gates, GateBegin(g) PROVE FALSE
        <4>1. BeginReconciliation(row) \in Rows /\ BeginReconciliation(row).engine = row.engine
          BY <1>1, TransitionsAreClosed DEF BeginReconciliation, Rows, OwnershipRow
        <4> QED BY <3>1, <3>2, <4>1 DEF GateBegin
      <3>3. ASSUME NEW g \in Gates, GateRecord(g) PROVE FALSE
        <4> DEFINE new == RecordReconciliation(row, gate[g].passed, gate[g].at)
        <4>1. new \in Rows
          BY <1>1, TransitionsAreClosed DEF FlagInv, TypeOK
        <4>2. new.engine = row.engine
          BY <1>1 DEF RecordReconciliation, Rows, OwnershipRow
        <4> QED BY <3>1, <3>3, <4>1, <4>2 DEF GateRecord
      <3> QED BY <1>4, <2>1, <3>2, <3>3 DEF Next, Begin, Rollback, ApproveRead, ApproveInsert,
                 GateStart, GateRun, GateFail
    <2>2. CASE UNCHANGED vars
      BY <1>4, <2>2 DEF vars
    <2> QED BY <2>1, <2>2
  <1>6. ASSUME NEW e \in Writers, NEW p \in People PROVE ~DoAssign(l, e, p) /\ ~DoStartShadow(l, e, p)
    BY <1>1, <1>2, TransitionsKeepChecks DEF DoAssign, CanAssign, DoStartShadow
  <1>7. ASSUME NEW p \in People PROVE ~DoAbortShadow(l, p) /\ ~DoPause(l, p) /\ ~DoResume(l, p)
    <2>1. /\ AbortShadow(row).engine = row.engine
          /\ Pause(row).engine = row.engine /\ Resume(row).engine = row.engine
      BY <1>1 DEF AbortShadow, Pause, Resume, Rows, OwnershipRow
    <2> QED BY <1>1, <1>3, <2>1, TransitionsAreClosed DEF DoAbortShadow, DoPause, DoResume
  <1>8. ASSUME NEW e \in Engine, NEW p \in People, NEW a \in Names
        PROVE  ~DoForceAssign(l, e, p, a)
    BY <1>2 DEF DoForceAssign, CanForceAssign
  <1> QED BY <1>5, <1>6, <1>7, <1>8 DEF Request

-----------------------------------------------------------------------------
\* The epoch fences: no step reroutes a table without raising its epoch, and
\* none lowers it, whoever else is changing the row.
THEOREM EpochsFence == Spec => EpochFencesRouting
  <1>1. ASSUME FlagInv, [Next]_vars
        PROVE  /\ row'.epoch >= row.epoch
               /\ Routing(row') # Routing(row) => row'.epoch > row.epoch
    <2>1. row \in Rows /\ row.epoch \in Nat /\ txn \in [Logins -> Nat]
      BY <1>1 DEF FlagInv, TypeOK, Rows, OwnershipRow
    <2>2. ASSUME NEW l \in Logins, NEW new \in Rows, NEW p, NEW a, Commit(l, new, p, a)
          PROVE  row'.epoch = new.epoch
      <3>1. row' = GuardStamp(row, new, l, txn[l])
        BY <2>2 DEF Commit, Update
      <3> QED BY <2>1, <2>2, <3>1, StampColumns
    <2>3. \/ Routing(row') = Routing(row) /\ row'.epoch = row.epoch
          \/ row'.epoch = row.epoch + 1
      BY <1>1, <2>2, RowMoves
    <2> QED BY <2>1, <2>3
  <1> QED BY <1>1, FlagInvIsInductive, PTL DEF Spec, EpochFencesRouting

\* What the database has verified when a CUTOVER request commits.
LEMMA CutoverIsGuarded ==
    ASSUME FlagInv, NEW l \in Logins, NEW p, NEW a, DoCutover(l, p, a)
    PROVE  /\ DualMode = "database" => DatabaseApprovers(row, l) # {}
           /\ audit' = [actor |-> p, approvedBy |-> a]
           /\ \A k \in Logins : Executes(k) => k = l
  <1>1. row \in Rows /\ RowChecks(row) /\ txn \in [Logins -> Nat]
    BY DEF FlagInv, TypeOK, Rows, ConstraintsNeverFire
  <1>2. /\ Cutover(row).engine = row.shadow /\ ~HasShadow(Cutover(row))
        /\ Cutover(row).epoch = row.epoch + 1 /\ row.epoch \in Nat
    BY <1>1 DEF Cutover, HasShadow, Rows, OwnershipRow
  <1>3. Cutover(row).engine # row.engine /\ IsCutover(row, Cutover(row)) /\ ~NeverOwned(row)
    BY <1>1, <1>2 DEF DoCutover, CanCutover, RowChecks, IsCutover, NeverOwned
  <1>4. Cutover(row) # row
    BY <1>2
  <1>5. Update(Cutover(row), l, txn[l], p, a) /\ txn' = [txn EXCEPT ![l] = 0]
    BY DEF DoCutover, Commit
  <1>6. DualMode = "database" => DatabaseApprovers(row, l) # {}
    BY <1>3, <1>5 DEF Update, GuardAllows
  <1>7. audit' = [actor |-> p, approvedBy |-> a]
    BY <1>4, <1>5 DEF Update
  <1>8. \A k \in Logins : Executes(k) => k = l
    BY <1>1, <1>5 DEF Executes
  <1> QED BY <1>6, <1>7, <1>8

\* Database dual control: the shadow that is promoted was itself approved,
\* by a login that neither started it nor executes the cutover.
THEOREM ApprovalIsIndependent == Spec => IndependentApproval
  <1> DEFINE Approved ==
        DualMode = "database" /\ CutoverStep =>
          \E a \in approvals : /\ a.no = shadowNo
                               /\ a.login # starter.login
                               /\ \A l \in Logins : Executes(l) => a.login # l
  <1>1. ASSUME FlagInv, [Next]_vars PROVE Approved
    <2> SUFFICES ASSUME DualMode = "database", CutoverStep
                 PROVE  \E a \in approvals : /\ a.no = shadowNo
                                             /\ a.login # starter.login
                                             /\ \A l \in Logins : Executes(l) => a.login # l
      OBVIOUS
    <2>1. PICK l \in Logins, p \in People, n \in Names : DoCutover(l, p, n)
      BY <1>1, OnlyCutoverPromotes
    <2>2. /\ DatabaseApprovers(row, l) # {}
          /\ \A k \in Logins : Executes(k) => k = l
      BY <1>1, <2>1, CutoverIsGuarded
    <2>3. PICK a \in approvals : a.epoch = row.epoch /\ a.login # row.dbUser /\ a.login # l
      BY <2>2 DEF DatabaseApprovers
    <2>4. a.no = shadowNo
      BY <1>1, <2>3 DEF FlagInv, ApprovalsNameTheirShadow, ApprovableAt
    <2>5. row.dbUser = starter.login
      BY <1>1 DEF FlagInv, StarterRecorded, CutoverStep
    <2> QED BY <2>2, <2>3, <2>4, <2>5
  <1> QED BY <1>1, FlagInvIsInductive, PTL DEF Spec, IndependentApproval

\* Named dual control: the approver on record differs from the actor and
\* from whoever really started the promoted shadow.
THEOREM NamesAreIndependent == Spec => NamedDualControl
  <1> DEFINE Named ==
        DualMode = "parameter" /\ DualControl /\ CutoverStep =>
          audit'.approvedBy \notin {NoOne, audit'.actor, starter.actor}
  <1>1. ASSUME FlagInv, [Next]_vars PROVE Named
    <2> SUFFICES ASSUME DualMode = "parameter", DualControl, CutoverStep
                 PROVE  audit'.approvedBy \notin {NoOne, audit'.actor, starter.actor}
      OBVIOUS
    <2>1. PICK l \in Logins, p \in People, n \in Names : DoCutover(l, p, n)
      BY <1>1, OnlyCutoverPromotes
    <2>2. audit'.actor = p /\ audit'.approvedBy = n
      BY <1>1, <2>1, CutoverIsGuarded
    <2>3. n \notin {NoOne, p, row.requestedBy}
      BY <2>1 DEF DoCutover, ApproverAccepted, NamedApproval
    <2>4. row.requestedBy = starter.actor
      BY <1>1 DEF FlagInv, StarterRecorded, CutoverStep
    <2> QED BY <2>2, <2>3, <2>4
  <1> QED BY <1>1, FlagInvIsInductive, PTL DEF Spec, NamedDualControl

\* Break-glass authority: a table that has had an engine changes engine only
\* by a cutover or by the hand of a platform administrator.
THEOREM EngineChangesAreAuthorised == Spec => EngineChangeAuthorised
  <1> DEFINE Authorised ==
        row'.engine # row.engine /\ owned => CutoverStep \/ \E l \in Admins : Executes(l)
  <1>1. ASSUME FlagInv, [Next]_vars PROVE Authorised
    <2> SUFFICES ASSUME row'.engine # row.engine, owned
                 PROVE  CutoverStep \/ \E l \in Admins : Executes(l)
      OBVIOUS
    <2>1. row \in Rows /\ txn \in [Logins -> Nat] /\ row.everOwned
      BY <1>1 DEF FlagInv, TypeOK, Rows, OwnershipRemembered
    <2>2. PICK l \in Logins, new \in Rows, p \in Names, a \in Names : Commit(l, new, p, a)
      BY <1>1, RowMoves DEF Routing
    <2>3. row' = GuardStamp(row, new, l, txn[l])
      BY <2>2 DEF Commit, Update
    <2>4. row'.engine = new.engine
      BY <2>1, <2>2, <2>3, StampColumns
    <2>5. IsCutover(row, new) \/ l \in Admins
      BY <2>1, <2>2, <2>4 DEF Commit, Update, GuardAllows, NeverOwned
    <2>6. Executes(l)
      BY <2>1, <2>2 DEF Commit, Executes
    <2> QED BY <2>4, <2>5, <2>6 DEF IsCutover, CutoverStep
  <1> QED BY <1>1, FlagInvIsInductive, PTL DEF Spec, EngineChangeAuthorised

-----------------------------------------------------------------------------
(***************************************************************************)
(* Reconciled cutovers.  The rows of meta.reconciliation_run do not say    *)
(* which shadow was compared; the guard infers it from started_at and      *)
(* shadow_started_at.  The inference is right as long as no run of the     *)
(* gate has begun and ended while the transaction that starts the shadow   *)
(* waited for its lock.                                                    *)
(***************************************************************************)

\* When a shadow starts, every run that is stored is older than its NOW().
StartsAreNotOvertaken ==
    [][~HasShadow(row) /\ HasShadow(row') => \A r \in runs : r.at < row'.startedAt]_vars

\* A run that seems to be of this shadow is of this shadow.
RunsNameTheirShadow ==
    HasShadow(row) => \A r \in runs : r.at >= row.startedAt => r.no = shadowNo

\* A step leaves no shadow, starts one, or keeps the one there is; only the
\* gate stores runs.
LEMMA ShadowMoves ==
    ASSUME FlagInv, [Next]_vars, HasShadow(row')
    PROVE  /\ \/ runs' = runs
              \/ UNCHANGED <<row, shadowNo>> /\ \E g \in Gates : GateRun(g)
           /\ \/ \E l \in Logins, e \in Writers, p \in People : DoStartShadow(l, e, p)
              \/ /\ HasShadow(row) /\ row'.startedAt = row.startedAt
                 /\ shadowNo' = shadowNo
  <1> DEFINE Keeps == HasShadow(row) /\ row'.startedAt = row.startedAt /\ shadowNo' = shadowNo
             Starts == \E l \in Logins, e \in Writers, p \in People : DoStartShadow(l, e, p)
             Stores == UNCHANGED <<row, shadowNo>> /\ \E g \in Gates : GateRun(g)
  <1>1. row \in Rows /\ RowChecks(row) /\ clock \in Nat /\ txn \in [Logins -> Nat]
    BY DEF FlagInv, TypeOK, Rows, ConstraintsNeverFire
  <1>2. ASSUME NEW l \in Logins, NEW new \in Rows, NEW p, NEW a, Commit(l, new, p, a),
               shadowNo' = shadowNo, HasShadow(new) => HasShadow(row)
        PROVE  Keeps /\ runs' = runs
    <2>1. row' = GuardStamp(row, new, l, txn[l]) /\ txn[l] \in Nat /\ runs' = runs
      BY <1>1, <1>2 DEF Commit, Update
    <2>2. HasShadow(new)
      BY <1>1, <2>1, StampColumns DEF HasShadow
    <2> QED BY <1>1, <1>2, <2>1, <2>2, StampColumns
  <1>3. ASSUME NEW g \in Gates, NEW new \in Rows, NEW pc, GateUpdate(g, new, pc),
               new.shadow = row.shadow
        PROVE  Keeps /\ runs' = runs
    <2>1. PICK l \in Logins, p \in People : Update(new, l, clock, p, NoOne)
      BY <1>3 DEF GateUpdate
    <2>2. row' = GuardStamp(row, new, l, clock) /\ runs' = runs /\ shadowNo' = shadowNo
      BY <1>3, <2>1 DEF Update, GateUpdate
    <2>3. HasShadow(new) /\ HasShadow(row)
      BY <1>1, <1>3, <2>2, StampColumns DEF HasShadow
    <2> QED BY <1>1, <2>2, <2>3, StampColumns
  <1>4. ASSUME NEW l \in Logins, Request(l) PROVE (Keeps \/ Starts) /\ runs' = runs
    <2>1. ASSUME NEW e \in Writers, NEW p \in People, DoAssign(l, e, p) PROVE Keeps /\ runs' = runs
      <3>1. e \in Engine
        BY DEF Engine
      <3>2. Assign(row, e) \in Rows /\ Assign(row, e).shadow = row.shadow
        BY <1>1, <3>1, TransitionsAreClosed, TransitionColumns
      <3> QED BY <1>2, <2>1, <3>2 DEF DoAssign, HasShadow
    <2>2. ASSUME NEW e \in Writers, NEW p \in People, DoStartShadow(l, e, p) PROVE Starts /\ runs' = runs
      BY <2>2 DEF DoStartShadow, Commit
    <2>3. ASSUME NEW p \in People, NEW a \in Names, DoCutover(l, p, a) PROVE Keeps /\ runs' = runs
      BY <1>1, <1>2, <2>3, TransitionsAreClosed, TransitionColumns DEF DoCutover, CanCutover, HasShadow
    <2>4. ASSUME NEW p \in People, DoAbortShadow(l, p) PROVE Keeps /\ runs' = runs
      BY <1>1, <1>2, <2>4, TransitionsAreClosed, TransitionColumns DEF DoAbortShadow, HasShadow
    <2>5. ASSUME NEW p \in People, DoPause(l, p) PROVE Keeps /\ runs' = runs
      BY <1>1, <1>2, <2>5, TransitionsAreClosed, TransitionColumns DEF DoPause, HasShadow
    <2>6. ASSUME NEW p \in People, DoResume(l, p) PROVE Keeps /\ runs' = runs
      BY <1>1, <1>2, <2>6, TransitionsAreClosed, TransitionColumns DEF DoResume, HasShadow
    <2>7. ASSUME NEW e \in Engine, NEW p \in People, NEW a \in Names, DoForceAssign(l, e, p, a)
          PROVE  Keeps /\ runs' = runs
      BY <1>1, <1>2, <2>7, TransitionsAreClosed, TransitionColumns DEF DoForceAssign, HasShadow
    <2> HIDE DEF Keeps, Starts
    <2> QED BY <1>4, <2>1, <2>2, <2>3, <2>4, <2>5, <2>6, <2>7 DEF Request
  <1>5. ASSUME NEW g \in Gates, GateBegin(g) \/ GateRecord(g) PROVE Keeps /\ runs' = runs
    <2> DEFINE verdict == RecordReconciliation(row, gate[g].passed, gate[g].at)
    <2>1. BeginReconciliation(row) \in Rows /\ verdict \in Rows
      BY <1>1, TransitionsAreClosed DEF FlagInv, TypeOK
    <2>2. BeginReconciliation(row).shadow = row.shadow /\ verdict.shadow = row.shadow
      BY <1>1 DEF BeginReconciliation, RecordReconciliation, Rows, OwnershipRow
    <2>3. GateUpdate(g, BeginReconciliation(row), "begun") \/ GateUpdate(g, verdict, "idle")
      BY <1>5 DEF GateBegin, GateRecord
    <2> HIDE DEF verdict
    <2> QED BY <1>3, <2>1, <2>2, <2>3
  <1>6. ASSUME UNCHANGED <<row, shadowNo>> PROVE Keeps
    BY <1>6
  <1> SUFFICES (runs' = runs \/ Stores) /\ (Starts \/ Keeps)
    OBVIOUS
  <1> HIDE DEF Keeps, Starts
  <1>7. CASE Next
    BY <1>4, <1>5, <1>6, <1>7 DEF Next, Begin, Rollback, ApproveRead, ApproveInsert, GateStart,
       GateRun, GateFail
  <1>8. CASE UNCHANGED vars
    BY <1>6, <1>8 DEF vars
  <1> QED BY <1>7, <1>8

LEMMA StepNamesRuns ==
    ASSUME FlagInv, RunsNameTheirShadow, [Next]_vars,
           ~HasShadow(row) /\ HasShadow(row') => \A r \in runs : r.at < row'.startedAt,
           row'.startedAt \in Nat, \A r \in runs : r.at \in Nat
    PROVE  RunsNameTheirShadow'
  <1> SUFFICES ASSUME HasShadow(row'), NEW r \in runs', r.at >= row'.startedAt
               PROVE  r.no = shadowNo'
    BY DEF RunsNameTheirShadow
  <1>1. CASE HasShadow(row)
    <2>1. row'.startedAt = row.startedAt /\ shadowNo' = shadowNo
      <3>1. row \in Rows /\ RowChecks(row)
        BY DEF FlagInv, TypeOK, Rows, ConstraintsNeverFire
      <3>2. \A l \in Logins, e \in Writers, p \in People : ~DoStartShadow(l, e, p)
        BY <1>1, <3>1, TransitionsKeepChecks DEF DoStartShadow
      <3> QED BY <3>2, ShadowMoves
    <2>2. CASE runs' = runs
      BY <1>1, <2>1, <2>2 DEF RunsNameTheirShadow
    <2>3. CASE \E g \in Gates : GateRun(g)
      BY <1>1, <2>1, <2>3 DEF GateRun, RunsNameTheirShadow
    <2> QED BY <2>2, <2>3, ShadowMoves
  <1>2. CASE ~HasShadow(row)
    <2>1. runs' = runs
      BY <1>2, ShadowMoves
    <2> QED BY <1>2, <2>1
  <1> QED BY <1>1, <1>2

\* Every cutover promotes a shadow that itself passed the recorded
\* reconciliation (reconciliation_is_valid and guard_ownership_update), whatever
\* gates, aborted shadows and sessions overlap, if no run of an earlier shadow
\* came in between NOW() and the lock of the transaction that started this one.
THEOREM CutoversAreReconciled == Spec /\ StartsAreNotOvertaken => ReconciledCutover
  <1> DEFINE Older == ~HasShadow(row) /\ HasShadow(row') => \A r \in runs : r.at < row'.startedAt
             Checked == CutoverStep => \E r \in runs : r.at = row.recon /\ r.passed /\ r.no = shadowNo
  <1>1. Init => RunsNameTheirShadow
    BY DEF Init, RunsNameTheirShadow
  <1>2. ASSUME FlagInv, FlagInv', RunsNameTheirShadow, [Next]_vars, [Older]_vars
        PROVE  RunsNameTheirShadow'
    <2>1. row'.startedAt \in Nat /\ \A r \in runs : r.at \in Nat
      BY <1>2 DEF FlagInv, TypeOK, OwnershipRow
    <2>2. CASE Older
      BY <1>2, <2>1, <2>2, StepNamesRuns
    <2>3. CASE UNCHANGED vars
      BY <1>2, <2>3 DEF vars, RunsNameTheirShadow
    <2> QED BY <1>2, <2>2, <2>3
  <1>3. ASSUME FlagInv, RunsNameTheirShadow, [Next]_vars PROVE Checked
    <2> SUFFICES ASSUME CutoverStep
                 PROVE  \E r \in runs : r.at = row.recon /\ r.passed /\ r.no = shadowNo
      OBVIOUS
    <2>1. PICK l \in Logins, p \in People, a \in Names : DoCutover(l, p, a)
      BY <1>3, OnlyCutoverPromotes
    <2>2. PICK r \in runs : r.at = row.recon /\ r.passed /\ r.at >= row.startedAt
      BY <2>1 DEF DoCutover, Reconciled
    <2>3. r.no = shadowNo
      BY <1>3, <2>2 DEF RunsNameTheirShadow, CutoverStep
    <2> QED BY <2>2, <2>3
  <1> QED BY <1>1, <1>2, <1>3, FlagInvIsInductive, PTL
          DEF Spec, StartsAreNotOvertaken, ReconciledCutover

-----------------------------------------------------------------------------
\* Transactions and runs of the gate have ticks of their own.
TicksDiffer ==
    /\ \A l \in Logins : txn[l] <= clock
    /\ \A r \in runs : r.at # 0 /\ r.at <= clock /\ \A l \in Logins : r.at # txn[l]
    /\ \A g \in Gates : gate[g].pc = "running" =>
         gate[g].at # 0 /\ gate[g].at <= clock /\ \A l \in Logins : gate[g].at # txn[l]

LEMMA StepTicks ==
    ASSUME FlagInv, TicksDiffer, [Next]_vars
    PROVE  TicksDiffer'
  <1>1. /\ clock \in Nat /\ txn \in [Logins -> Nat]
        /\ gate \in [Gates -> [pc : {"idle", "begun", "running", "ran"}, at : Nat, passed : BOOLEAN]]
        /\ \A r \in runs : r.at \in Nat
    BY DEF FlagInv, TypeOK
  <1>2. ASSUME NEW l \in Logins, txn' = [txn EXCEPT ![l] = 0], UNCHANGED <<clock, runs, gate>>
        PROVE  TicksDiffer'
    BY <1>1, <1>2 DEF TicksDiffer
  <1>3. ASSUME NEW l \in Logins, Begin(l) PROVE TicksDiffer'
    <2>1. \A k \in Logins : txn'[k] = txn[k] \/ txn'[k] = clock + 1
      BY <1>1, <1>3 DEF Begin
    <2> QED BY <1>1, <1>3, <2>1 DEF Begin, TicksDiffer
  <1>4. ASSUME NEW l \in Logins, Request(l) PROVE TicksDiffer'
    BY <1>2, <1>4 DEF Request, DoAssign, DoStartShadow, DoCutover, DoAbortShadow, DoPause, DoResume,
       DoForceAssign, Commit
  <1>5. ASSUME NEW g \in Gates, gate' = [gate EXCEPT ![g].pc = gate'[g].pc], gate'[g].pc # "running",
               UNCHANGED <<clock, txn, runs>>
        PROVE  TicksDiffer'
    BY <1>1, <1>5 DEF TicksDiffer
  <1>6. ASSUME NEW g \in Gates, GateBegin(g) \/ GateRecord(g) PROVE TicksDiffer'
    BY <1>1, <1>5, <1>6 DEF GateBegin, GateRecord, GateUpdate
  <1>7. ASSUME NEW g \in Gates, GateStart(g) PROVE TicksDiffer'
    <2>1. /\ \A h \in Gates \ {g} : gate'[h] = gate[h]
          /\ gate'[g].at = clock + 1 /\ clock' = clock + 1 /\ txn' = txn /\ runs' = runs
      BY <1>1, <1>7 DEF GateStart
    <2> QED BY <1>1, <2>1 DEF TicksDiffer
  <1>8. ASSUME NEW g \in Gates, GateRun(g) PROVE TicksDiffer'
    <2>1. /\ \A h \in Gates \ {g} : gate'[h] = gate[h]
          /\ gate'[g].pc = "ran" /\ clock' = clock /\ txn' = txn
          /\ \A r \in runs' : r \in runs \/ r.at = gate[g].at
          /\ gate[g].pc = "running"
      BY <1>1, <1>8 DEF GateRun
    <2> QED BY <1>1, <2>1 DEF TicksDiffer
  <1>9. ASSUME NEW g \in Gates, GateFail(g) PROVE TicksDiffer'
    <2>1. /\ \A h \in Gates \ {g} : gate'[h] = gate[h]
          /\ gate'[g].pc = "idle" /\ clock' = clock /\ txn' = txn /\ runs' = runs
      BY <1>1, <1>9 DEF GateFail, GateIdle
    <2> QED BY <1>1, <2>1 DEF TicksDiffer
  <1>10. CASE UNCHANGED <<clock, txn, runs, gate>>
    BY <1>10 DEF TicksDiffer
  <1>11. CASE Next
    BY <1>2, <1>3, <1>4, <1>6, <1>7, <1>8, <1>9, <1>10, <1>11
       DEF Next, Rollback, ApproveRead, ApproveInsert
  <1>12. CASE UNCHANGED vars
    BY <1>10, <1>12 DEF vars
  <1> QED BY <1>11, <1>12

\* In particular all cutovers are reconciled where a transaction that starts a
\* shadow gets its lock at once (the run FlagPrompt).
THEOREM PromptCutoversAreReconciled == MaxWait = 0 /\ Spec => ReconciledCutover
  <1> DEFINE Older == ~HasShadow(row) /\ HasShadow(row') => \A r \in runs : r.at < row'.startedAt
  <1> SUFFICES ASSUME MaxWait = 0 PROVE Spec => ReconciledCutover
    OBVIOUS
  <1>1. Init => TicksDiffer
    BY DEF Init, TicksDiffer, GateIdle
  <1>2. FlagInv /\ TicksDiffer /\ [Next]_vars => TicksDiffer'
    BY StepTicks
  <1>3. ASSUME FlagInv, TicksDiffer, [Next]_vars PROVE Older
    <2> SUFFICES ASSUME ~HasShadow(row), HasShadow(row'), NEW r \in runs
                 PROVE  r.at < row'.startedAt
      OBVIOUS
    <2>1. PICK l \in Logins, e \in Writers, p \in People : DoStartShadow(l, e, p)
      BY <1>3, ShadowMoves
    <2> DEFINE new == StartShadow(row, e, p)
    <2>2. row \in Rows /\ txn[l] \in Nat /\ clock \in Nat /\ r.at \in Nat
      BY <1>3 DEF FlagInv, TypeOK, Rows
    <2>3. new \in Rows /\ HasShadow(new)
      <3>1. new \in Rows /\ new.shadow = e
        BY <2>2, TransitionsAreClosed, TransitionColumns
      <3> QED BY <3>1, NoEngineAssumption DEF HasShadow, Engine
    <2>4. row' = GuardStamp(row, new, l, txn[l]) /\ clock - txn[l] <= 0
      BY <1>3, <2>1 DEF DoStartShadow, Commit, Update
    <2> HIDE DEF new
    <2>5. row'.startedAt = txn[l]
      BY <2>2, <2>3, <2>4, StampColumns
    <2> QED BY <1>3, <2>2, <2>4, <2>5 DEF TicksDiffer
  <1>4. Spec => StartsAreNotOvertaken
    BY <1>1, <1>2, <1>3, FlagInvIsInductive, PTL DEF Spec, StartsAreNotOvertaken
  <1> QED BY <1>4, CutoversAreReconciled, PTL
=============================================================================
