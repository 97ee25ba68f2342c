----------------------------- MODULE Ownership -----------------------------
(***************************************************************************)
(* The feature flag of one (source, table): the pure transition function   *)
(* of controlplane/ownership.py and the database side of the same row in   *)
(* warehouse/schema/platform.sql (the guard trigger and the CHECK          *)
(* constraints of meta.ingestion_ownership).                               *)
(*                                                                         *)
(* The module has no state.  FeatureFlag uses it to specify the control    *)
(* plane, SinkDelivery to move the flag under the feet of the Kafka sink.  *)
(*                                                                         *)
(* Every request of ownership.py has two operators: Can<Action>, the       *)
(* conjunction of its _require checks, and <Action>, the row it returns.   *)
(* NULL columns are the value NoEngine / NoOne / 0.                        *)
(***************************************************************************)
EXTENDS Naturals

CONSTANTS NoEngine,   \* shadow_engine IS NULL
          NoOne       \* a NULL user name

Writers == {"PYTHON", "KAFKA"}
Engine == Writers \cup {"NONE"}
ShadowState == {"SHADOWING", "RECONCILING", "CUTOVER_READY"}
CutoverState == {"STEADY", "PAUSED"} \cup ShadowState

ASSUME NoEngineAssumption == NoEngine \notin Engine

(***************************************************************************)
(* A row of meta.ingestion_ownership.  recon is last_reconciliation_id and *)
(* startedAt is shadow_started_at, both 0 when NULL; requestedBy and       *)
(* dbUser are shadow_requested_by (a name) and shadow_requested_db_user    *)
(* (a database login).                                                     *)
(***************************************************************************)
OwnershipRow(People, Logins) ==
    [engine : Engine, shadow : Writers \cup {NoEngine}, state : CutoverState,
     epoch : Nat, recon : Nat, startedAt : Nat, everOwned : BOOLEAN,
     requestedBy : People \cup {NoOne}, dbUser : Logins \cup {NoOne}]

\* The row meta.ensure_ownership_rows inserts for a newly registered table.
FreshRow ==
    [engine |-> "NONE", shadow |-> NoEngine, state |-> "STEADY", epoch |-> 1,
     recon |-> 0, startedAt |-> 0, everOwned |-> FALSE,
     requestedBy |-> NoOne, dbUser |-> NoOne]

HasShadow(o) == o.shadow # NoEngine

-----------------------------------------------------------------------------
(***************************************************************************)
(* transition(): one pair of operators per Action.                         *)
(***************************************************************************)

CanAssign(o, e) == e \in Writers /\ o.engine = "NONE" /\ ~HasShadow(o)

Assign(o, e) == [o EXCEPT !.engine = e, !.state = "STEADY", !.epoch = @ + 1]

CanStartShadow(o, e) ==
    e \in Writers /\ o.state = "STEADY" /\ o.engine # "NONE" /\ e # o.engine

\* Fault: two arguments swapped, the engine is stored as the requester.
FaultyStartShadow(o, e, actor) ==
    [o EXCEPT !.shadow = e, !.state = "SHADOWING", !.recon = 0,
              !.requestedBy = e, !.epoch = @ + 1]

StartShadow(o, e, actor) ==
    [o EXCEPT !.shadow = e, !.state = "SHADOWING", !.recon = 0,
              !.requestedBy = actor, !.epoch = @ + 1]

CanBeginReconciliation(o) == o.state \in ShadowState

BeginReconciliation(o) == [o EXCEPT !.state = "RECONCILING"]

CanRecordReconciliation(o) == o.state = "RECONCILING"

RecordReconciliation(o, passed, rid) ==
    [o EXCEPT !.state = IF passed THEN "CUTOVER_READY" ELSE "SHADOWING",
              !.recon = rid]

CanCutover(o) == o.state = "CUTOVER_READY" /\ HasShadow(o) /\ o.recon # 0

\* Fault: whoever started the shadow may approve its cutover.
FaultyNamedApproval(o, actor, approver) == approver \notin {NoOne, actor}

\* Dual control of a cutover when the approver is a name in the request.
NamedApproval(o, actor, approver) ==
    approver \notin {NoOne, actor, o.requestedBy}

Cutover(o) ==
    [o EXCEPT !.engine = o.shadow, !.shadow = NoEngine, !.state = "STEADY",
              !.requestedBy = NoOne, !.epoch = @ + 1]

CanAbortShadow(o) == HasShadow(o)

AbortShadow(o) ==
    [o EXCEPT !.shadow = NoEngine, !.state = "STEADY", !.recon = 0,
              !.requestedBy = NoOne, !.epoch = @ + 1]

CanPause(o) == o.state # "PAUSED"

\* Fault: pausing keeps the epoch, so batches in flight are not fenced.
FaultyPause(o) == [o EXCEPT !.state = "PAUSED"]

Pause(o) == [o EXCEPT !.state = "PAUSED", !.epoch = @ + 1]

CanResume(o) == o.state = "PAUSED"

\* Fault: resuming forgets that a shadow was in progress.
FaultyResume(o) == [o EXCEPT !.state = "STEADY", !.epoch = @ + 1]

Resume(o) ==
    [o EXCEPT !.state = IF HasShadow(o) THEN "SHADOWING" ELSE "STEADY",
              !.epoch = @ + 1]

CanForceAssign(o, e) == e \in Engine /\ ~HasShadow(o)

ForceAssign(o, e) ==
    [o EXCEPT !.engine = e, !.state = "STEADY", !.epoch = @ + 1]

-----------------------------------------------------------------------------
(***************************************************************************)
(* meta.guard_ownership_update(), the BEFORE UPDATE trigger.  reconciled   *)
(* and approved are the two EXISTS queries of the cutover branch; admin is *)
(* meta.is_platform_admin() of the session; now is NOW(), the start of the *)
(* updating transaction.                                                   *)
(***************************************************************************)

NeverOwned(old) ==
    old.engine = "NONE" /\ ~old.everOwned /\ ~HasShadow(old)

IsCutover(old, new) ==
    /\ HasShadow(old) /\ ~HasShadow(new)
    /\ new.engine = old.shadow
    /\ old.state = "CUTOVER_READY"

GuardAllows(old, new, reconciled, approved, admin) ==
    /\ new.engine # old.engine =>
         IF NeverOwned(old) THEN TRUE
         ELSE IF IsCutover(old, new) THEN reconciled /\ approved
         ELSE admin
    /\ (new.engine # old.engine \/ new.shadow # old.shadow) => new.epoch > old.epoch
    /\ HasShadow(old) /\ HasShadow(new) => new.shadow = old.shadow

\* Fault: ever_owned follows the engine instead of remembering.
FaultyGuardStamp(old, new, login, now) ==
    LET starts == HasShadow(new) /\ ~HasShadow(old)
    IN  [new EXCEPT
           !.dbUser      = IF starts THEN login ELSE IF HasShadow(new) THEN old.dbUser ELSE NoOne,
           !.startedAt   = IF starts THEN now ELSE IF HasShadow(new) THEN old.startedAt ELSE 0,
           !.requestedBy = IF HasShadow(new) THEN @ ELSE NoOne,
           !.everOwned   = new.engine # "NONE"]

\* The columns the trigger overwrites before the row is stored.
GuardStamp(old, new, login, now) ==
    LET starts == HasShadow(new) /\ ~HasShadow(old)
    IN  [new EXCEPT
           !.dbUser      = IF starts THEN login ELSE IF HasShadow(new) THEN old.dbUser ELSE NoOne,
           !.startedAt   = IF starts THEN now ELSE IF HasShadow(new) THEN old.startedAt ELSE 0,
           !.requestedBy = IF HasShadow(new) THEN @ ELSE NoOne,
           !.everOwned   = old.everOwned \/ new.engine # "NONE"]

\* The CHECK constraints shadow_differs_from_engine and shadow_state_consistent.
RowChecks(o) ==
    /\ HasShadow(o) => o.shadow # o.engine
    /\ IF HasShadow(o) THEN o.state \in ShadowState \cup {"PAUSED"}
                       ELSE o.state \in {"STEADY", "PAUSED"}

-----------------------------------------------------------------------------
(***************************************************************************)
(* What a writer may do with the row: the fence of meta.apply_staged_batch *)
(* accepts a batch of engine w for a target when the epochs agree, the row *)
(* is not PAUSED and w is the engine of that target.                       *)
(***************************************************************************)

\* Fault: the batch is applied without looking at the row.
FaultyFenceAccepts(o, w, target, epoch) == TRUE

FenceAccepts(o, w, target, epoch) ==
    /\ o.epoch = epoch
    /\ o.state # "PAUSED"
    /\ target = "prod" => o.engine = w
    /\ target = "shadow" => o.shadow = w

=============================================================================
