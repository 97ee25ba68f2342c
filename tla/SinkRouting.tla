---------------------------- MODULE SinkRouting ----------------------------
(***************************************************************************)
(* The decisions of the Kafka sink about one event and of the warehouse    *)
(* about one row: what OwnershipCache keeps of a flag, how                 *)
(* OwnershipSnapshot routes an event, how WarehouseWriter re-checks a skip *)
(* and how meta.apply_staged_batch upserts.  No state.                     *)
(***************************************************************************)
EXTENDS Ownership

\* A flag of a table that has no row yet: LEFT JOIN finds NULL, epoch 0.
NoFlag == [FreshRow EXCEPT !.epoch = 0]

(***************************************************************************)
(* OwnershipCache.load keeps the rows in which KAFKA plays a part.  route  *)
(* treats a missing entry as SKIP with epoch 0, which is how NoEntry       *)
(* routes.                                                                 *)
(***************************************************************************)
NoEntry == [engine |-> "NONE", shadow |-> NoEngine, state |-> "STEADY", epoch |-> 0]

CacheEntry(o) ==
    IF "KAFKA" \in {o.engine, o.shadow}
    THEN [engine |-> o.engine, shadow |-> o.shadow, state |-> o.state, epoch |-> o.epoch]
    ELSE NoEntry

\* OwnershipSnapshot.route of a source with cached generation g (0: unknown).
Route(g, e) ==
    IF g = 0 THEN "unknown"
    ELSE IF e.state = "PAUSED" THEN "hold"
    ELSE IF e.engine = "KAFKA" THEN "prod"
    ELSE IF e.shadow = "KAFKA" THEN "shadow"
    ELSE "skip"

\* Fault: the decision to skip is not re-checked.
FaultySkipIsCurrent(o, epoch) == TRUE

\* verifySkips: the epoch the skip was decided under is the row's epoch.
SkipIsCurrent(o, epoch) == o.epoch = epoch

-----------------------------------------------------------------------------
(***************************************************************************)
(* Rows of raw and raw_shadow: the generation and LSN they carry and       *)
(* whether they are soft-deleted.  Absent is "no row".                     *)
(***************************************************************************)
Absent == [gen |-> 0, lsn |-> 0, deleted |-> FALSE]

\* Fault: the ordering guard is missing, the last writer wins.
FaultyOrderingGuard(new, old) == TRUE

\* v_guard of a KAFKA batch: (generation, lsn) >= (generation, lsn).
OrderingGuard(new, old) ==
    new.gen > old.gen \/ (new.gen = old.gen /\ new.lsn >= old.lsn)

\* Fault: the guard protects the data of a row, but not its deletion mark.
FaultyUpsert(old, new) ==
    IF old = Absent \/ OrderingGuard(new, old) THEN new
    ELSE [old EXCEPT !.deleted = new.deleted]

\* INSERT ... ON CONFLICT DO UPDATE ... WHERE guard.
Upsert(old, new) == IF old = Absent \/ OrderingGuard(new, old) THEN new ELSE old
=============================================================================
