---------------------------- MODULE FeatureFlag ----------------------------
(***************************************************************************)
(* The control plane of one (source, table): the row of                    *)
(* meta.ingestion_ownership, the sessions that change it, the cutover gate *)
(* and the approvals.                                                      *)
(*                                                                         *)
(* OwnershipRepository.apply runs one transaction: it takes the exclusive  *)
(* advisory lock of the row, reads the row, computes the next one in       *)
(* Python, writes it through the guard trigger and commits.  No one else   *)
(* sees or changes the row between the lock and the commit, so everything  *)
(* after the lock is one step; but NOW() is the time the transaction       *)
(* BEGAN, before it waited for the lock, so Begin is a step of its own.    *)
(* The gate (run_cutover_gate) and meta.approve_cutover take several       *)
(* transactions or read without the lock: they are several steps.          *)
(*                                                                         *)
(* A session is named by its database login.  Every transaction that uses  *)
(* NOW() begins at its own tick of clock, so a reconciliation run is       *)
(* identified by its started_at.                                           *)
(***************************************************************************)
EXTENDS Ownership

CONSTANTS Logins,       \* database logins (session_user)
          Admins,       \* the logins that are members of fbi_platform_admin
          People,       \* names passed as --actor and --approved-by
          Gates,        \* concurrent calls of run_cutover_gate
          DualControl,  \* setting require_dual_control
          DualMode,     \* setting dual_control_mode
          MaxAge,       \* setting reconciliation_max_age_minutes, in ticks
          MaxWait,      \* bound: ticks a transaction waits for its lock
          MaxClock,     \* bound: transactions that read NOW()
          MaxEpoch      \* bound: the largest epoch

ASSUME FlagAssumption ==
    /\ NoOne \notin Logins \cup People
    /\ Admins \subseteq Logins
    /\ DualControl \in BOOLEAN
    /\ DualMode \in {"parameter", "database"}
    /\ MaxAge \in Nat /\ MaxWait \in Nat /\ MaxClock \in Nat /\ MaxEpoch \in Nat

VARIABLES
    row,         \* the row of meta.ingestion_ownership
    clock,       \* the database clock
    txn,         \* txn[l]: NOW() of the open transaction of login l, 0 when none
    runs,        \* meta.reconciliation_run
    approvals,   \* meta.cutover_approval
    approving,   \* approving[l]: what approve_cutover of login l has read
    gate,        \* gate[g]: the progress of one cutover gate
    generation,  \* source_registry.capture_generation
    audit,       \* the newest row of meta.ingestion_ownership_audit
    shadowNo,    \* history: how many shadows have been started
    starter,     \* history: who started shadow number shadowNo
    owned        \* history: the table has had an engine

vars == <<row, clock, txn, runs, approvals, approving, gate, generation,
          audit, shadowNo, starter, owned>>

GateIdle == [pc |-> "idle", at |-> 0, passed |-> FALSE]
NotApproving == [epoch |-> 0, no |-> 0]
Names == People \cup Logins \cup {NoOne}

TypeOK ==
    /\ row \in OwnershipRow(People, Logins)
    /\ clock \in Nat
    /\ txn \in [Logins -> Nat]
    /\ runs \subseteq [at : Nat, passed : BOOLEAN, no : Nat]
    /\ approvals \subseteq [epoch : Nat, login : Logins, no : Nat]
    /\ approving \in [Logins -> [epoch : Nat, no : Nat]]
    /\ gate \in [Gates -> [pc : {"idle", "begun", "running", "ran"},
                           at : Nat, passed : BOOLEAN]]
    /\ generation \in Nat
    /\ audit \in [actor : Names, approvedBy : Names]
    /\ shadowNo \in Nat
    /\ starter \in [login : Logins \cup {NoOne}, actor : People \cup {NoOne}]
    /\ owned \in BOOLEAN

Init ==
    /\ row = FreshRow
    /\ clock = 0
    /\ txn = [l \in Logins |-> 0]
    /\ runs = {}
    /\ approvals = {}
    /\ approving = [l \in Logins |-> NotApproving]
    /\ gate = [g \in Gates |-> GateIdle]
    /\ generation = 1
    /\ audit = [actor |-> NoOne, approvedBy |-> NoOne]
    /\ shadowNo = 0
    /\ starter = [login |-> NoOne, actor |-> NoOne]
    /\ owned = FALSE

-----------------------------------------------------------------------------
(***************************************************************************)
(* The queries behind a cutover, used by apply() and by the guard trigger. *)
(***************************************************************************)

\* Fault: a run of an earlier shadow counts as well.
FaultyReconciled(o, now) ==
    \E r \in runs : r.at = o.recon /\ r.passed /\ r.at + MaxAge > now

\* reconciliation_is_valid: the recorded run passed, started during this
\* shadow and is young enough.
Reconciled(o, now) ==
    \E r \in runs : /\ r.at = o.recon
                    /\ r.passed
                    /\ r.at >= o.startedAt
                    /\ r.at + MaxAge > now

\* Fault: an approval outlives the epoch it was given for.
FaultyDatabaseApprovers(o, executor) ==
    {a.login : a \in approvals} \ {o.dbUser, executor}

\* database_approver: approvals of this epoch by a login that neither asked
\* for the shadow nor executes the cutover.
DatabaseApprovers(o, executor) ==
    {a.login : a \in {b \in approvals : b.epoch = o.epoch}} \ {o.dbUser, executor}

-----------------------------------------------------------------------------
(***************************************************************************)
(* A transaction of login l.                                               *)
(***************************************************************************)

Begin(l) ==
    /\ txn[l] = 0
    /\ clock < MaxClock
    /\ clock' = clock + 1
    /\ txn' = [txn EXCEPT ![l] = clock + 1]
    /\ UNCHANGED <<row, runs, approvals, approving, gate, generation, audit,
                   shadowNo, starter, owned>>

\* The request is refused or the connection is lost: nothing is kept.
Rollback(l) ==
    /\ txn[l] # 0
    /\ txn' = [txn EXCEPT ![l] = 0]
    /\ UNCHANGED <<row, clock, runs, approvals, approving, gate, generation,
                   audit, shadowNo, starter, owned>>

\* meta.transition_ownership: the guarded UPDATE, its trigger's stamps and
\* the audit row, written only when a column it watches has changed.
Update(new, login, now, actor, approvedBy) ==
    /\ GuardAllows(row, new, Reconciled(row, now),
                   DualMode = "database" => DatabaseApprovers(row, login) # {},
                   login \in Admins)
    /\ row' = GuardStamp(row, new, login, now)
    /\ audit' = IF new = row THEN audit
                             ELSE [actor |-> actor, approvedBy |-> approvedBy]
    /\ owned' = (owned \/ new.engine # "NONE")

\* The transaction of login l gets the lock, writes new and commits.
Commit(l, new, actor, approvedBy) ==
    /\ txn[l] # 0
    /\ clock - txn[l] <= MaxWait
    /\ new.epoch <= MaxEpoch
    /\ Update(new, l, txn[l], actor, approvedBy)
    /\ txn' = [txn EXCEPT ![l] = 0]
    /\ UNCHANGED <<clock, runs, approvals, approving, gate>>

DoAssign(l, e, actor) ==
    /\ CanAssign(row, e)
    /\ Commit(l, Assign(row, e), actor, NoOne)
    /\ UNCHANGED <<generation, shadowNo, starter>>

\* Starting a Kafka shadow also starts a capture generation.
DoStartShadow(l, e, actor) ==
    /\ CanStartShadow(row, e)
    /\ Commit(l, StartShadow(row, e, actor), actor, NoOne)
    /\ generation' = IF e = "KAFKA" THEN generation + 1 ELSE generation
    /\ shadowNo' = shadowNo + 1
    /\ starter' = [login |-> l, actor |-> actor]

\* The approver apply() works with: a recorded login when the database
\* enforces dual control, otherwise the name in the request.
ApproverAccepted(l, actor, approver) ==
    DualControl => IF DualMode = "database"
                   THEN approver \in DatabaseApprovers(row, l)
                   ELSE NamedApproval(row, actor, approver)

DoCutover(l, actor, approver) ==
    /\ CanCutover(row)
    /\ Reconciled(row, txn[l])
    /\ ApproverAccepted(l, actor, approver)
    /\ Commit(l, Cutover(row), actor, approver)
    /\ UNCHANGED <<generation, shadowNo, starter>>

DoAbortShadow(l, actor) ==
    /\ CanAbortShadow(row)
    /\ Commit(l, AbortShadow(row), actor, NoOne)
    /\ UNCHANGED <<generation, shadowNo, starter>>

DoPause(l, actor) ==
    /\ CanPause(row)
    /\ Commit(l, Pause(row), actor, NoOne)
    /\ UNCHANGED <<generation, shadowNo, starter>>

DoResume(l, actor) ==
    /\ CanResume(row)
    /\ Commit(l, Resume(row), actor, NoOne)
    /\ UNCHANGED <<generation, shadowNo, starter>>

DoForceAssign(l, e, actor, approver) ==
    /\ CanForceAssign(row, e)
    /\ approver # NoOne
    /\ DualControl => approver # actor
    /\ Commit(l, ForceAssign(row, e), actor, approver)
    /\ UNCHANGED <<generation, shadowNo, starter>>

-----------------------------------------------------------------------------
(***************************************************************************)
(* run_cutover_gate: BEGIN_RECONCILIATION, then the comparison in a        *)
(* transaction of its own that takes no lock, then RECORD_RECONCILIATION.  *)
(* Neither ownership action changes the engine, so the login of the gate   *)
(* and its NOW() do not matter to the guard.                               *)
(***************************************************************************)

GateUpdate(g, new, pc) ==
    /\ \E l \in Logins, p \in People : Update(new, l, clock, p, NoOne)
    /\ gate' = [gate EXCEPT ![g].pc = pc]
    /\ UNCHANGED <<clock, txn, runs, approvals, approving, generation,
                   shadowNo, starter>>

GateBegin(g) ==
    /\ gate[g].pc = "idle"
    /\ CanBeginReconciliation(row)
    /\ GateUpdate(g, BeginReconciliation(row), "begun")

\* The transaction of meta.run_shadow_reconciliation begins: started_at.
GateStart(g) ==
    /\ gate[g].pc = "begun"
    /\ clock < MaxClock
    /\ clock' = clock + 1
    /\ gate' = [gate EXCEPT ![g].pc = "running", ![g].at = clock + 1]
    /\ UNCHANGED <<row, txn, runs, approvals, approving, generation, audit,
                   shadowNo, starter, owned>>

\* It compares raw_shadow with raw, as they are now, and stores the verdict;
\* the gate may be stricter than the database (max_discrepancies).
GateRun(g) ==
    /\ gate[g].pc = "running"
    /\ \E dbPassed \in BOOLEAN, strict \in BOOLEAN :
         /\ runs' = runs \cup {[at |-> gate[g].at, passed |-> dbPassed,
                                no |-> IF HasShadow(row) THEN shadowNo ELSE 0]}
         /\ gate' = [gate EXCEPT ![g].pc = "ran", ![g].passed = dbPassed /\ ~strict]
    /\ UNCHANGED <<row, clock, txn, approvals, approving, generation, audit,
                   shadowNo, starter, owned>>

GateRecord(g) ==
    /\ gate[g].pc = "ran"
    /\ CanRecordReconciliation(row)
    /\ GateUpdate(g, RecordReconciliation(row, gate[g].passed, gate[g].at), "idle")

\* The gate dies, or RECORD_RECONCILIATION is refused; the row stays as it is.
GateFail(g) ==
    /\ gate[g].pc # "idle"
    /\ gate' = [gate EXCEPT ![g] = GateIdle]
    /\ UNCHANGED <<row, clock, txn, runs, approvals, approving, generation,
                   audit, shadowNo, starter, owned>>

-----------------------------------------------------------------------------
(***************************************************************************)
(* meta.approve_cutover reads the row without the lock and inserts an      *)
(* approval for the epoch it read.                                         *)
(***************************************************************************)

ApproveRead(l) ==
    /\ approving[l] = NotApproving
    /\ row.state = "CUTOVER_READY"
    /\ row.dbUser # l
    /\ approving' = [approving EXCEPT ![l] = [epoch |-> row.epoch, no |-> shadowNo]]
    /\ UNCHANGED <<row, clock, txn, runs, approvals, gate, generation, audit,
                   shadowNo, starter, owned>>

ApproveInsert(l) ==
    /\ approving[l] # NotApproving
    /\ approvals' = approvals \cup
         {[epoch |-> approving[l].epoch, login |-> l, no |-> approving[l].no]}
    /\ approving' = [approving EXCEPT ![l] = NotApproving]
    /\ UNCHANGED <<row, clock, txn, runs, gate, generation, audit, shadowNo,
                   starter, owned>>

-----------------------------------------------------------------------------
Request(l) ==
    \/ \E e \in Writers, p \in People : DoAssign(l, e, p) \/ DoStartShadow(l, e, p)
    \/ \E p \in People, a \in Names : DoCutover(l, p, a)
    \/ \E p \in People : DoAbortShadow(l, p) \/ DoPause(l, p) \/ DoResume(l, p)
    \/ \E e \in Engine, p \in People, a \in Names :
         DoForceAssign(l, e, p, a)

Next ==
    \/ \E l \in Logins : Begin(l) \/ Request(l) \/ Rollback(l)
    \/ \E l \in Logins : ApproveRead(l) \/ ApproveInsert(l)
    \/ \E g \in Gates : GateBegin(g) \/ GateStart(g) \/ GateRun(g)
                        \/ GateRecord(g) \/ GateFail(g)

Spec == Init /\ [][Next]_vars

-----------------------------------------------------------------------------
(***************************************************************************)
(* Properties.                                                             *)
(***************************************************************************)

\* No sequence of accepted requests builds a row the CHECK constraints
\* shadow_differs_from_engine and shadow_state_consistent would refuse: the
\* Python state machine and the table agree on the legal rows.
ConstraintsNeverFire == RowChecks(row)

Routing(o) == <<o.engine, o.shadow, o.state = "PAUSED">>

\* The epoch a writer carries names one routing for ever: whatever changes
\* who writes where also raises the epoch, and no step lowers it.  This is
\* what the fence of apply_staged_batch relies on.
EpochFencesRouting ==
    [][/\ row'.epoch >= row.epoch
       /\ Routing(row') # Routing(row) => row'.epoch > row.epoch]_vars

\* The shadow becomes the engine; login l executes the request that does it.
CutoverStep == HasShadow(row) /\ row'.engine = row.shadow
Executes(l) == txn[l] # 0 /\ txn'[l] = 0

\* dual_control_mode=database: every cutover has an approval that was given
\* to the very shadow being promoted, by a login other than the one that
\* started that shadow and the one that executes the cutover.
IndependentApproval ==
    [][DualMode = "database" /\ CutoverStep =>
         \E a \in approvals : /\ a.no = shadowNo
                              /\ a.login # starter.login
                              /\ \A l \in Logins : Executes(l) => a.login # l]_vars

\* dual_control_mode=parameter: the audited approver of a cutover is neither
\* the audited actor nor whoever started the shadow being promoted.
NamedDualControl ==
    [][DualMode = "parameter" /\ DualControl /\ CutoverStep =>
         audit'.approvedBy \notin {NoOne, audit'.actor, starter.actor}]_vars

\* Once a table has had an engine, only a cutover or a platform administrator
\* changes its engine, however the table got back to NONE.
EngineChangeAuthorised ==
    [][row'.engine # row.engine /\ owned =>
         CutoverStep \/ \E l \in Admins : Executes(l)]_vars

\* A cutover promotes a shadow whose contents, and not those of an earlier
\* shadow of the table, passed the recorded reconciliation ("taken during
\* the current shadow").
ReconciledCutover ==
    [][CutoverStep =>
         \E r \in runs : r.at = row.recon /\ r.passed /\ r.no = shadowNo]_vars
=============================================================================
