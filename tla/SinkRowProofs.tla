---------------------------- MODULE SinkRowProofs ----------------------------
(***************************************************************************)
(* The rows the sink writes, while a source is in its first capture        *)
(* generation: a row is at least as new as what was applied to it, and a   *)
(* deleted row does not come back.                                         *)
(*                                                                         *)
(* LSNs are comparable only within a generation: after bump-generation the *)
(* rows of the new one replace those of the old one whatever their LSNs    *)
(* are, and no fate says in which generation a record was applied.         *)
(***************************************************************************)
EXTENDS SinkProofs

FirstGeneration == \A s \in Sources : gen[s] <= 1

\* Caches hold generations that were current once, and rows those of caches.
CachedGenerations ==
    \A w \in Workers, s \in Sources :
        loading[w].gen[s] <= gen[s] /\ view[w].gen[s] <= gen[s] /\ snap[w].gen[s] <= gen[s]

Event(s, k) == {x \in Recs : At(x).source = s /\ At(x).key = k}
Change(s, k) == {x \in Event(s, k) : At(x).kind \notin {"poison", "empty"}}

\* A row is absent, or is the row of a change of the log.
RowIsOfLog(t, s, k) ==
    \/ raw[t][s][k] = Absent
    \/ /\ raw[t][s][k].gen = 1
       /\ \E x \in Change(s, k) : /\ raw[t][s][k].lsn = At(x).lsn
                                  /\ raw[t][s][k].deleted = At(x).deleted

\* A row is at least as new as the records applied to it.
RowIsNewest(t, s, k) ==
    \A x \in Event(s, k) : t \in fate[x[1]][x[2]] => raw[t][s][k].lsn >= At(x).lsn

RowsInOrder ==
    \A s \in Sources : gen[s] <= 1 =>
        \A t \in Targets, k \in Keys : RowIsOfLog(t, s, k) /\ RowIsNewest(t, s, k)

RowInv == TypeInv /\ CachedGenerations /\ RowsInOrder

-----------------------------------------------------------------------------
(***************************************************************************)
(* Generations.                                                            *)
(***************************************************************************)

LEMMA GenerationSteps ==
    ASSUME TypeInv, [Next]_vars
    PROVE  \A s \in Sources : gen[s] \in Nat /\ gen'[s] \in Nat /\ gen[s] <= gen'[s]
<1>0. gen \in [Sources -> Nat]
  BY DEF TypeInv, WarehouseType
<1>1. CASE UNCHANGED gen
  BY <1>0, <1>1
<1>2. CASE Operators
  <2>1. GenerationsGrow
    BY <1>2, OperatorsAre, OperatorSteps
  <2> QED
    BY <1>0, <2>1 DEF GenerationsGrow
<1>3. ASSUME NEW w \in Workers, Writes(w) \/ QuarantineCommits(w) PROVE UNCHANGED gen
  BY <1>3 DEF Writes, Write, QuarantineCommits
<1>4. ASSUME UNCHANGED <<warehouse, fate>> \/ Publishes PROVE UNCHANGED gen
  BY <1>4 DEF warehouse, Publishes
<1> QED
  BY <1>1, <1>2, <1>3, <1>4, WarehouseSteps

LoadingMoves ==
    \/ UNCHANGED loading
    \/ \E w \in Workers : \/ loading' = [loading EXCEPT ![w] = NotLoading]
                          \/ loading' = [loading EXCEPT ![w] = [on |-> TRUE, gen |-> gen]]

LEMMA LoadingSteps ==
    ASSUME TypeInv, [Next]_vars
    PROVE  LoadingMoves
<1>1. ASSUME NEW w \in Workers, NEW p \in Partitions,
             \/ AssignPartition(w, p) \/ RefusePartition(w, p) \/ RevokePartition(w, p)
             \/ AssignmentThrows(w, p) \/ Poll(w, p) \/ PollReset(w, p)
      PROVE  LoadingMoves
  BY <1>1 DEF AssignPartition, RefusePartition, RevokePartition, AssignmentThrows, Poll, PollReset,
              Stop, caches, LoadingMoves
<1>2. ASSUME NEW w \in Workers,
             \/ Evict(w) \/ LosePartitions(w) \/ RouteBatch(w) \/ WriteBatch(w) \/ Fenced(w)
             \/ RejectBatch(w) \/ Isolate(w) \/ LoadSources(w) \/ LoadFlags(w) \/ LoadFails(w)
             \/ PublishFails(w) \/ WriteInterrupted(w) \/ IsolateInterrupted(w) \/ Crash(w)
      PROVE  LoadingMoves
  BY <1>2 DEF Evict, LosePartitions, RouteBatch, WriteBatch, Fenced, RejectBatch, Isolate,
       IsolateApply, IsolateSplit, IsolateFenced, Quarantine, TripQuarantine, IsolateDone,
       LoadSources, LoadFlags, LoadFails, PublishFails, WriteInterrupted, IsolateInterrupted, Crash,
       Stop, caches, LoadingMoves
<1>3. ASSUME NEW p \in Partitions, Expire(p) PROVE LoadingMoves
  BY <1>3 DEF Expire, caches, LoadingMoves
<1>4. ASSUME Operators PROVE LoadingMoves
  BY <1>4, OperatorsTyped DEF Frame, caches, LoadingMoves
<1>5. ASSUME UNCHANGED vars PROVE LoadingMoves
  BY <1>5 DEF vars, caches, LoadingMoves
<1> QED
  BY <1>1, <1>2, <1>3, <1>4, <1>5 DEF Next, Group, Loop, Failure

LEMMA StepCachedGenerations ==
    ASSUME TypeInv, CachedGenerations, [Next]_vars
    PROVE  CachedGenerations'
<1> SUFFICES ASSUME NEW w \in Workers, NEW s \in Sources
             PROVE  /\ loading'[w].gen[s] <= gen'[s] /\ view'[w].gen[s] <= gen'[s]
                    /\ snap'[w].gen[s] <= gen'[s]
  BY DEF CachedGenerations
<1>0. /\ view \in [Workers -> View] /\ snap \in [Workers -> View]
      /\ loading \in [Workers -> [on : BOOLEAN, gen : [Sources -> Nat]]]
  BY DEF TypeInv, CacheType
<1>1. gen[s] \in Nat /\ gen'[s] \in Nat /\ gen[s] <= gen'[s]
  BY GenerationSteps
<1>2. /\ loading[w].gen[s] \in Nat /\ view[w].gen[s] \in Nat /\ snap[w].gen[s] \in Nat
      /\ loading[w].gen[s] <= gen[s] /\ view[w].gen[s] <= gen[s] /\ snap[w].gen[s] <= gen[s]
  BY <1>0 DEF CachedGenerations, View
<1>3. EmptyView.gen[s] = 0 /\ NotLoading.gen[s] = 0
  BY DEF EmptyView, NotLoading
<1>4. loading'[w].gen[s] \in {loading[w].gen[s], 0, gen[s]}
  BY <1>0, <1>3, LoadingSteps DEF LoadingMoves
<1>5. view'[w].gen[s] \in {view[w].gen[s], 0, loading[w].gen[s]}
  BY <1>0, <1>3, CacheMoves DEF ViewMoves
<1>6. snap'[w].gen[s] \in {snap[w].gen[s], 0, view[w].gen[s], view'[w].gen[s]}
  BY <1>0, <1>3, CacheMoves DEF SnapMoves
<1> QED
  BY <1>1, <1>2, <1>4, <1>5, <1>6

-----------------------------------------------------------------------------
(***************************************************************************)
(* Rows.                                                                   *)
(***************************************************************************)

\* The row a write leaves, when the source is in its first generation: the
\* ordering guard compares LSNs.
LEMMA WriteRow ==
    ASSUME WarehouseType, NEW b \in BatchType, NEW t \in Targets, NEW s \in Sources, NEW k \in Keys,
           gen[s] <= 1, b.snap.gen[s] <= gen[s], RowIsOfLog(t, s, k)
    PROVE  LET staged == {x \in TakenAs(b, t) : At(x).source = s /\ At(x).key = k}
               old == raw[t][s][k]
               new == Applied(b)[t][s][k]
           IN  /\ old.lsn <= new.lsn
               /\ \A x \in staged : At(x).lsn <= new.lsn
               /\ \/ new = old
                  \/ \E x \in staged : /\ new = [gen |-> 1, lsn |-> At(x).lsn, deleted |-> At(x).deleted]
                                       /\ x \in Change(s, k)
<1> DEFINE staged == {x \in TakenAs(b, t) : At(x).source = s /\ At(x).key = k}
           old == raw[t][s][k]
           new == Applied(b)[t][s][k]
<1>0. old \in Rows /\ gen[s] \in Nat /\ b.snap.gen[s] \in Nat
  BY DEF WarehouseType, Rows, BatchType, View
<1>1. staged \in SUBSET Recs /\ \A x \in staged : x \in Change(s, k) /\ At(x).lsn \in Nat
  <2>1. staged \in SUBSET Recs
    BY TakenIs
  <2>2. \A x \in staged : At(x).kind \notin {"poison", "empty"}
    BY DEF TakenAs, Disposition, Targets
  <2> QED
    BY <2>1, <2>2, LogType DEF Change, Event, Record
<1>2. old.lsn <= old.lsn
  BY <1>0 DEF Rows
<1>3. ASSUME NEW x \in staged, \A y \in staged : At(y).lsn <= At(x).lsn, new = Upsert(old, StagedRow(b, x))
      PROVE  /\ old.lsn <= new.lsn
             /\ \A y \in staged : At(y).lsn <= new.lsn
             /\ new = old \/ new = [gen |-> 1, lsn |-> At(x).lsn, deleted |-> At(x).deleted]
  <2>1. Disposition(b.snap, At(x)) = t /\ At(x).source = s
    BY DEF TakenAs
  <2>2. b.snap.gen[s] # 0
    BY <2>1 DEF Disposition, Route, Targets
  <2>3. b.snap.gen[s] = 1
    BY <1>0, <2>2
  <2>4. StagedRow(b, x) = [gen |-> 1, lsn |-> At(x).lsn, deleted |-> At(x).deleted]
    BY <2>1, <2>3 DEF StagedRow
  <2> DEFINE row == [gen |-> 1, lsn |-> At(x).lsn, deleted |-> At(x).deleted]
  <2>5. row.gen = 1 /\ row.lsn = At(x).lsn /\ At(x).lsn \in Nat /\ old.lsn \in Nat
        /\ \A y \in staged : At(y).lsn \in Nat
    BY <1>0, <1>1, <1>3 DEF Rows
  <2>6. new = IF old = Absent \/ OrderingGuard(row, old) THEN row ELSE old
    BY <1>3, <2>4 DEF Upsert
  <2>7. old = Absent \/ old.gen = 1
    BY DEF RowIsOfLog
  <2>8. Absent.lsn = 0
    BY DEF Absent
  <2> HIDE DEF row, staged, old, new
  <2>9. CASE old = Absent
    BY <1>3, <2>5, <2>6, <2>8, <2>9 DEF row
  <2>10. CASE old # Absent
    <3>1. OrderingGuard(row, old) <=> row.lsn >= old.lsn
      BY <2>5, <2>7, <2>10 DEF OrderingGuard
    <3>2. CASE row.lsn >= old.lsn
      <4>1. new = row
        BY <2>6, <3>1, <3>2
      <4> QED
        BY <1>3, <2>5, <3>2, <4>1 DEF row
    <3>3. CASE ~(row.lsn >= old.lsn)
      <4>1. new = old /\ At(x).lsn <= old.lsn
        BY <2>5, <2>6, <2>10, <3>1, <3>3
      <4>2. \A y \in staged : At(y).lsn <= old.lsn
        BY <1>3, <2>5, <4>1
      <4> QED
        BY <2>5, <4>1, <4>2
    <3> QED
      BY <3>2, <3>3
  <2> QED
    BY <2>9, <2>10
<1>4. \/ staged = {} /\ new = old
      \/ \E x \in staged : /\ \A y \in staged : At(y).lsn <= At(x).lsn
                           /\ new = Upsert(old, StagedRow(b, x))
  BY AppliedIs
<1> HIDE DEF staged, old, new
<1>5. /\ old.lsn <= new.lsn
      /\ \A x \in staged : At(x).lsn <= new.lsn
      /\ \/ new = old
         \/ \E x \in staged : /\ new = [gen |-> 1, lsn |-> At(x).lsn, deleted |-> At(x).deleted]
                              /\ x \in Change(s, k)
  <2>1. CASE staged = {} /\ new = old
    BY <1>2, <2>1
  <2>2. CASE \E x \in staged : /\ \A y \in staged : At(y).lsn <= At(x).lsn
                               /\ new = Upsert(old, StagedRow(b, x))
    BY <1>1, <1>3, <2>2
  <2> QED
    BY <1>4, <2>1, <2>2
<1> QED
  BY <1>5 DEF staged, old, new

\* What the transaction wrote is recorded as the fate of what it staged.
LEMMA WriteFate ==
    ASSUME NEW b \in BatchType, NEW before, Write(b, before),
           before = fate \/ before = Mark(Letters(b), "dead"),
           NEW x \in Recs, NEW t \in Targets, t \in fate'[x[1]][x[2]]
    PROVE  t \in fate[x[1]][x[2]] \/ x \in TakenAs(b, t)
<1>0. x = <<x[1], x[2]>> /\ x[1] \in Partitions /\ x[2] \in 1..Len(Log[x[1]])
  BY LogType
<1>1. fate'[x[1]][x[2]] = IF <<x[1], x[2]>> \in Taken(b)
                  THEN before[x[1]][x[2]] \cup ({Outcome(Disposition(b.snap, Log[x[1]][x[2]]))} \ {"dead"})
                  ELSE before[x[1]][x[2]]
  BY <1>0 DEF Write
<1>2. t \in before[x[1]][x[2]] => t \in fate[x[1]][x[2]]
  <2>1. Mark(Letters(b), "dead")[x[1]][x[2]] \subseteq fate[x[1]][x[2]] \cup {"dead"}
    BY <1>0 DEF Mark
  <2>2. t # "dead"
    BY DEF Targets
  <2> QED
    BY <2>1, <2>2
<1>3. ASSUME x \in Taken(b), Outcome(Disposition(b.snap, At(x))) = t PROVE x \in TakenAs(b, t)
  BY <1>3 DEF Outcome, Targets, TakenAs
<1>4. At(x) = Log[x[1]][x[2]]
  BY DEF At
<1>5. CASE t \in before[x[1]][x[2]]
  BY <1>2, <1>5
<1>6. CASE t \notin before[x[1]][x[2]]
  <2>1. <<x[1], x[2]>> \in Taken(b) /\ Outcome(Disposition(b.snap, Log[x[1]][x[2]])) = t
    BY <1>1, <1>6
  <2> QED
    BY <1>0, <1>3, <1>4, <2>1
<1> QED
  BY <1>5, <1>6

\* A worker writes by its snapshot.
LEMMA WritesBySnapshot ==
    ASSUME TypeInv, NEW w \in Workers, Writes(w)
    PROVE  \E b \in BatchType : \E before :
             /\ Write(b, before) /\ b.snap = snap[w]
             /\ before = fate \/ before = Mark(Letters(b), "dead")
<1>1. CASE pc[w] = "routed" /\ Write(Batch(w, snap[w]), fate)
  <2>1. Batch(w, snap[w]) \in BatchType /\ Batch(w, snap[w]).snap = snap[w]
    BY BatchTyped DEF TypeInv, CacheType, Batch
  <2> QED
    BY <1>1, <2>1
<1>2. CASE Isolating(w) /\ Write(Part(w), Published(w))
  <2>1. Part(w) \in BatchType /\ Part(w).snap = snap[w]
    BY <1>2, PartTyped DEF Part
  <2> QED
    BY <1>2, <2>1 DEF Published
<1> QED
  BY <1>1, <1>2 DEF Writes

\* The copies of a request's source stay, or the shadow is cleared or promoted.
LEMMA OperatorCopies ==
    ASSUME NEW s \in Sources, Operates(s)
    PROVE  UNCHANGED <<raw, fate>> \/ ClearShadow(s) \/ PromoteShadow(s)
<1>1. ASSUME AssignTable(s) \/ PauseTable(s) \/ ResumeTable(s) \/ ForceAssignTable(s)
      PROVE  UNCHANGED <<raw, fate>>
  BY <1>1 DEF AssignTable, PauseTable, ResumeTable, ForceAssignTable
<1>2. ASSUME RegisterSource(s) \/ EnsureRows(s) \/ BumpGeneration(s) PROVE UNCHANGED <<raw, fate>>
  BY <1>2 DEF RegisterSource, EnsureRows, BumpGeneration, history
<1>3. ASSUME StartShadowing(s) \/ AbortShadowing(s) PROVE ClearShadow(s)
  BY <1>3 DEF StartShadowing, AbortShadowing
<1>4. ASSUME ReconcileAndCutOver(s) PROVE PromoteShadow(s)
  BY <1>4 DEF ReconcileAndCutOver
<1> QED
  BY <1>1, <1>2, <1>3, <1>4 DEF Operates

\* Each copy after a request is empty, or was one of the copies, and so were
\* the fates that say what was applied to it.
LEMMA CopyOf ==
    ASSUME TypeInv, NEW s \in Sources, Operates(s), NEW t \in Targets, NEW r \in Sources, NEW k \in Keys
    PROVE  \/ raw'[t][r][k] = Absent /\ \A x \in Event(r, k) : t \notin fate'[x[1]][x[2]]
           \/ \E u \in Targets : /\ raw'[t][r][k] = raw[u][r][k]
                                 /\ \A x \in Event(r, k) : t \in fate'[x[1]][x[2]] => u \in fate[x[1]][x[2]]
<1> DEFINE Goal == \/ raw'[t][r][k] = Absent /\ \A x \in Event(r, k) : t \notin fate'[x[1]][x[2]]
                   \/ \E u \in Targets : /\ raw'[t][r][k] = raw[u][r][k]
                                         /\ \A x \in Event(r, k) : t \in fate'[x[1]][x[2]] => u \in fate[x[1]][x[2]]
<1>0. /\ raw \in [Targets -> [Sources -> [Keys -> Rows]]] /\ FateType(fate)
      /\ "prod" \in Targets /\ "shadow" \in Targets /\ (t = "prod" \/ t = "shadow")
      /\ NoKeys[k] = Absent
  BY DEF TypeInv, WarehouseType, Rows, Targets, NoKeys
<1>1. ASSUME NEW x \in Event(r, k)
      PROVE  /\ x[1] \in Partitions /\ x[2] \in 1..Len(Log[x[1]])
             /\ Log[x[1]][x[2]].source = r /\ fate[x[1]][x[2]] \in SUBSET Fates
  BY <1>0, <1>1, LogType DEF Event, At, FateType
<1>2. CASE UNCHANGED <<raw, fate>>
  BY <1>2
<1>3. ASSUME NEW becomes, fate' = Refate(s, becomes), NEW x \in Event(r, k)
      PROVE  fate'[x[1]][x[2]] = IF r = s THEN {becomes[f] : f \in fate[x[1]][x[2]]} ELSE fate[x[1]][x[2]]
  BY <1>1, <1>3 DEF Refate
<1>4. CASE ClearShadow(s)
  <2>1. raw' = [raw EXCEPT !["shadow"][s] = NoKeys] /\ fate' = Refate(s, WhenCleared)
    BY <1>4 DEF ClearShadow
  <2>2. CASE r # s
    <3>1. raw'[t][r][k] = raw[t][r][k]
      BY <1>0, <2>1, <2>2
    <3>2. \A x \in Event(r, k) : t \in fate'[x[1]][x[2]] => t \in fate[x[1]][x[2]]
      BY <1>3, <2>1, <2>2
    <3> QED
      BY <3>1, <3>2
  <2>3. CASE r = s /\ t = "shadow"
    <3>1. raw'[t][r][k] = Absent
      BY <1>0, <2>1, <2>3
    <3>2. \A f \in Fates : WhenCleared[f] # "shadow"
      BY DEF WhenCleared
    <3>3. \A x \in Event(r, k) : t \notin fate'[x[1]][x[2]]
      BY <1>1, <1>3, <2>1, <2>3, <3>2
    <3> QED
      BY <3>1, <3>3
  <2>4. CASE r = s /\ t = "prod"
    <3>1. raw'[t][r][k] = raw[t][r][k]
      BY <1>0, <2>1, <2>4
    <3>2. \A f \in Fates : WhenCleared[f] = "prod" => f = "prod"
      BY DEF WhenCleared
    <3>3. \A x \in Event(r, k) : t \in fate'[x[1]][x[2]] => t \in fate[x[1]][x[2]]
      BY <1>1, <1>3, <2>1, <2>4, <3>2
    <3> QED
      BY <3>1, <3>3
  <2> QED
    BY <1>0, <2>2, <2>3, <2>4
<1>5. CASE PromoteShadow(s)
  <2>1. /\ raw' = [raw EXCEPT !["prod"][s] = raw["shadow"][s], !["shadow"][s] = NoKeys]
        /\ fate' = Refate(s, WhenPromoted)
    BY <1>5 DEF PromoteShadow
  <2>2. CASE r # s
    <3>1. raw'[t][r][k] = raw[t][r][k]
      BY <1>0, <2>1, <2>2
    <3>2. \A x \in Event(r, k) : t \in fate'[x[1]][x[2]] => t \in fate[x[1]][x[2]]
      BY <1>3, <2>1, <2>2
    <3> QED
      BY <3>1, <3>2
  <2>3. CASE r = s /\ t = "shadow"
    <3>1. raw'[t][r][k] = Absent
      BY <1>0, <2>1, <2>3
    <3>2. \A f \in Fates : WhenPromoted[f] # "shadow"
      BY DEF WhenPromoted
    <3>3. \A x \in Event(r, k) : t \notin fate'[x[1]][x[2]]
      BY <1>1, <1>3, <2>1, <2>3, <3>2
    <3> QED
      BY <3>1, <3>3
  <2>4. CASE r = s /\ t = "prod"
    <3>1. raw'[t][r][k] = raw["shadow"][r][k]
      BY <1>0, <2>1, <2>4
    <3>2. \A f \in Fates : WhenPromoted[f] = "prod" => f = "shadow"
      BY DEF WhenPromoted
    <3>3. \A x \in Event(r, k) : t \in fate'[x[1]][x[2]] => "shadow" \in fate[x[1]][x[2]]
      BY <1>1, <1>3, <2>1, <2>4, <3>2
    <3> QED
      BY <1>0, <3>1, <3>3
  <2> QED
    BY <1>0, <2>2, <2>3, <2>4
<1> QED
  BY <1>2, <1>4, <1>5, OperatorCopies

LEMMA StepRows ==
    ASSUME RowInv, [Next]_vars
    PROVE  RowsInOrder'
<1> SUFFICES ASSUME NEW s \in Sources, gen'[s] <= 1, NEW t \in Targets, NEW k \in Keys
             PROVE  RowIsOfLog(t, s, k)' /\ RowIsNewest(t, s, k)'
  BY DEF RowsInOrder
<1>0. TypeInv /\ WarehouseType /\ FateType(fate)
  BY DEF RowInv, TypeInv, WarehouseType
<1>1. gen[s] \in Nat /\ gen[s] <= 1
  BY <1>0, GenerationSteps
<1>2. \A u \in Targets : RowIsOfLog(u, s, k) /\ RowIsNewest(u, s, k)
  BY <1>1 DEF RowInv, RowsInOrder
<1>3. ASSUME NEW u \in Targets, raw'[t][s][k] = raw[u][s][k],
             \A x \in Event(s, k) : t \in fate'[x[1]][x[2]] => u \in fate[x[1]][x[2]]
      PROVE  RowIsOfLog(t, s, k)' /\ RowIsNewest(t, s, k)'
  <2>1. RowIsOfLog(t, s, k)'
    BY <1>2, <1>3 DEF RowIsOfLog
  <2>2. RowIsNewest(t, s, k)'
    BY <1>2, <1>3 DEF RowIsNewest
  <2> QED
    BY <2>1, <2>2
<1>4. CASE UNCHANGED <<warehouse, fate>>
  BY <1>3, <1>4 DEF warehouse
<1>5. ASSUME NEW xs, fate' = Mark(xs, "dead"), UNCHANGED raw
      PROVE  RowIsOfLog(t, s, k)' /\ RowIsNewest(t, s, k)'
  <2>1. ASSUME NEW x \in Event(s, k), t \in fate'[x[1]][x[2]] PROVE t \in fate[x[1]][x[2]]
    <3>1. x[1] \in Partitions /\ x[2] \in 1..Len(Log[x[1]])
      BY LogType DEF Event
    <3>2. fate'[x[1]][x[2]] = IF <<x[1], x[2]>> \in xs THEN fate[x[1]][x[2]] \cup {"dead"}
                                                       ELSE fate[x[1]][x[2]]
      BY <1>5, <3>1 DEF Mark
    <3> QED
      BY <2>1, <3>2 DEF Targets
  <2> QED
    BY <1>3, <1>5, <2>1
<1>6. CASE Publishes
  BY <1>5, <1>6 DEF Publishes, warehouse
<1>7. ASSUME NEW w \in Workers, QuarantineCommits(w)
      PROVE  RowIsOfLog(t, s, k)' /\ RowIsNewest(t, s, k)'
  BY <1>5, <1>7 DEF QuarantineCommits
<1>8. ASSUME NEW w \in Workers, Writes(w)
      PROVE  RowIsOfLog(t, s, k)' /\ RowIsNewest(t, s, k)'
  <2>0. PICK b \in BatchType : \E before : /\ Write(b, before) /\ b.snap = snap[w]
                                           /\ before = fate \/ before = Mark(Letters(b), "dead")
    BY <1>0, <1>8, WritesBySnapshot
  <2>1. PICK before : /\ Write(b, before) /\ b.snap = snap[w]
                      /\ before = fate \/ before = Mark(Letters(b), "dead")
    BY <2>0
  <2>2. b.snap.gen[s] <= gen[s]
    BY <2>1 DEF RowInv, CachedGenerations
  <2> DEFINE staged == {x \in TakenAs(b, t) : At(x).source = s /\ At(x).key = k}
             old == raw[t][s][k]
             new == raw'[t][s][k]
  <2>3. /\ old.lsn <= new.lsn
        /\ \A x \in staged : At(x).lsn <= new.lsn
        /\ \/ new = old
           \/ \E x \in staged : /\ new = [gen |-> 1, lsn |-> At(x).lsn, deleted |-> At(x).deleted]
                                /\ x \in Change(s, k)
    <3>1. raw' = Applied(b)
      BY <2>1 DEF Write
    <3> QED
      BY <1>0, <1>1, <1>2, <2>2, <3>1, WriteRow
  <2>4. RowIsOfLog(t, s, k)'
    <3>1. CASE new = old
      BY <1>2, <3>1 DEF RowIsOfLog
    <3>2. CASE \E x \in Change(s, k) : new = [gen |-> 1, lsn |-> At(x).lsn, deleted |-> At(x).deleted]
      <4>1. PICK x \in Change(s, k) : new = [gen |-> 1, lsn |-> At(x).lsn, deleted |-> At(x).deleted]
        BY <3>2
      <4>2. new.gen = 1 /\ new.lsn = At(x).lsn /\ new.deleted = At(x).deleted
        BY <4>1
      <4> QED
        BY <4>2 DEF RowIsOfLog
    <3> QED
      BY <2>3, <3>1, <3>2
  <2>5. ASSUME NEW x \in Event(s, k), t \in fate'[x[1]][x[2]] PROVE new.lsn >= At(x).lsn
    <3>0. x \in Recs /\ At(x).lsn \in Nat
      BY LogType DEF Event, Record
    <3>1. t \in fate[x[1]][x[2]] \/ x \in TakenAs(b, t)
      BY <2>1, <2>5, <3>0, WriteFate
    <3>2. CASE x \in TakenAs(b, t)
      BY <2>3, <3>2 DEF Event
    <3>3. CASE t \in fate[x[1]][x[2]]
      <4>1. old.lsn >= At(x).lsn
        BY <1>2, <2>5, <3>3 DEF RowIsNewest
      <4>2. old.lsn \in Nat /\ new.lsn \in Nat
        BY <1>0, StepTypes DEF TypeInv, WarehouseType
      <4> QED
        BY <2>3, <3>0, <4>1, <4>2
    <3> QED
      BY <3>1, <3>2, <3>3
  <2> QED
    BY <2>4, <2>5 DEF RowIsNewest
<1>9. CASE Operators
  <2>1. PICK r \in Sources : Operates(r)
    BY <1>9, OperatorsAre
  <2>2. CASE raw'[t][s][k] = Absent /\ \A x \in Event(s, k) : t \notin fate'[x[1]][x[2]]
    BY <2>2 DEF RowIsOfLog, RowIsNewest
  <2>3. CASE \E u \in Targets : /\ raw'[t][s][k] = raw[u][s][k]
                                /\ \A x \in Event(s, k) : t \in fate'[x[1]][x[2]] => u \in fate[x[1]][x[2]]
    BY <1>3, <2>3
  <2> QED
    BY <1>0, <2>1, <2>2, <2>3, CopyOf
<1> QED
  BY <1>0, <1>4, <1>6, <1>7, <1>8, <1>9, WarehouseSteps

LEMMA InitRows ==
    ASSUME Init
    PROVE  RowInv
<1>1. TypeInv
  BY InitTypes
<1>2. CachedGenerations
  <2>1. ASSUME NEW s \in Sources PROVE gen[s] \in Nat /\ EmptyView.gen[s] = 0 /\ NotLoading.gen[s] = 0
    BY <1>1 DEF EmptyView, NotLoading, TypeInv, WarehouseType
  <2> QED
    BY <2>1 DEF Init, CachedGenerations
<1>3. RowsInOrder
  <2>1. ASSUME NEW t \in Targets, NEW s \in Sources, NEW k \in Keys PROVE raw[t][s][k] = Absent
    BY DEF Init, Nothing
  <2>2. ASSUME NEW x \in Recs PROVE fate[x[1]][x[2]] = {}
    BY LogType DEF Init
  <2> QED
    BY <2>1, <2>2 DEF RowsInOrder, RowIsOfLog, RowIsNewest, Event
<1> QED
  BY <1>1, <1>2, <1>3 DEF RowInv

LEMMA RowInvariant == Spec => []RowInv
<1>1. Init => RowInv
  BY InitRows
<1>2. RowInv /\ [Next]_vars => RowInv'
  BY StepTypes, StepCachedGenerations, StepRows DEF RowInv
<1> QED
  BY <1>1, <1>2, PTL DEF Spec

-----------------------------------------------------------------------------
(***************************************************************************)
(* What follows.                                                           *)
(***************************************************************************)

\* Every change that was applied to a copy and not discarded since is in the
\* row of its key or has been overtaken there by a newer one, whatever workers,
\* zombies, retries, halved batches and cutovers do: the ordering guard of
\* WarehouseWriter's upserts, for sources whose capture was never restarted.
THEOREM AppliedRowsAreVisible == Spec => [](FirstGeneration => AppliedIsVisible)
<1>1. ASSUME RowInv, FirstGeneration PROVE AppliedIsVisible
  <2> SUFFICES ASSUME NEW p \in Partitions, NEW i \in 1..Len(Log[p]), NEW t \in fate[p][i] \cap Targets
               PROVE  raw[t][Log[p][i].source][Log[p][i].key].lsn >= Log[p][i].lsn
    BY DEF AppliedIsVisible
  <2> DEFINE x == <<p, i>>
  <2>1. x \in Recs /\ At(x) = Log[p][i] /\ x[1] = p /\ x[2] = i /\ At(x) \in Record
    BY LogType DEF Recs, At
  <2>2. At(x).source \in Sources /\ At(x).key \in Keys
    BY <2>1 DEF Record
  <2>3. x \in Event(At(x).source, At(x).key)
    BY <2>1 DEF Event
  <2> HIDE DEF x
  <2>4. RowIsNewest(t, At(x).source, At(x).key)
    BY <1>1, <2>2 DEF RowInv, RowsInOrder, FirstGeneration
  <2> QED
    BY <2>1, <2>3, <2>4 DEF RowIsNewest
<1> QED
  BY <1>1, RowInvariant, PTL

\* Two changes of a row at the same LSN are one change, delivered twice.  (The
\* LSN is that of the change in the source's log.)
OneChangePerLsn ==
    \A s \in Sources, k \in Keys : \A x, y \in Change(s, k) :
        At(x).lsn = At(y).lsn => At(x).deleted = At(y).deleted

LEMMA StepNoResurrection ==
    ASSUME OneChangePerLsn, RowInv, RowInv', FirstGeneration, FirstGeneration', [Next]_vars,
           NEW t \in Targets, NEW s \in Sources, NEW k \in Keys,
           flag' = flag, raw[t][s][k].deleted, ~raw'[t][s][k].deleted
    PROVE  raw'[t][s][k].lsn > raw[t][s][k].lsn
<1> DEFINE old == raw[t][s][k]
           new == raw'[t][s][k]
<1>0. /\ TypeInv /\ WarehouseType /\ gen[s] \in Nat /\ gen[s] <= 1 /\ gen'[s] <= 1
      /\ old.lsn \in Nat /\ new.lsn \in Nat
  BY DEF RowInv, TypeInv, WarehouseType, FirstGeneration
<1>1. RowIsOfLog(t, s, k) /\ RowIsOfLog(t, s, k)'
  BY <1>0 DEF RowInv, RowsInOrder
<1>2. raw' # raw
  OBVIOUS
<1>3. ~Operators
  <2> SUFFICES ASSUME Operators PROVE FALSE
    OBVIOUS
  <2>1. PICK r \in Sources : Operates(r)
    BY OperatorsAre
  <2>2. FlagMoves(r) /\ flag \in [Sources -> OwnershipRow({}, {})]
    BY <1>0, <2>1, OperatorSteps DEF WarehouseType
  <2>3. PICK row : IsRequest(r, row)
    <3>1. FreshRow.epoch # 0
      BY DEF FreshRow
    <3> QED
      BY <1>2, <2>2, <3>1 DEF FlagMoves
  <2>4. flag[r].epoch \in Nat
    BY <2>2 DEF OwnershipRow
  <2> QED
    BY <2>2, <2>3, <2>4 DEF IsRequest
<1>4. PICK w \in Workers : Writes(w)
  <2>1. ASSUME NEW w \in Workers, QuarantineCommits(w) PROVE FALSE
    BY <1>2, <2>1 DEF QuarantineCommits
  <2>2. ASSUME UNCHANGED <<warehouse, fate>> \/ Publishes PROVE FALSE
    BY <1>2, <2>2 DEF warehouse, Publishes
  <2> QED
    BY <1>0, <1>3, <2>1, <2>2, WarehouseSteps
<1>5. PICK b \in BatchType : b.snap = snap[w] /\ \E before : Write(b, before)
  BY <1>0, <1>4, WritesBySnapshot
<1>6. b.snap.gen[s] <= gen[s] /\ raw' = Applied(b)
  BY <1>5 DEF RowInv, CachedGenerations, Write
<1>7. old.lsn <= new.lsn
  BY <1>0, <1>1, <1>6, WriteRow
<1>8. PICK x \in Change(s, k) : old.lsn = At(x).lsn /\ old.deleted = At(x).deleted
  <2>1. ~Absent.deleted
    BY DEF Absent
  <2> QED
    BY <1>1, <2>1 DEF RowIsOfLog
<1>9. PICK y \in Change(s, k) : new = [gen |-> 1, lsn |-> At(y).lsn, deleted |-> At(y).deleted]
  <2>1. new # old
    OBVIOUS
  <2> QED
    BY <1>0, <1>1, <1>6, <2>1, WriteRow
<1>10. new.lsn = At(y).lsn /\ new.deleted = At(y).deleted
  BY <1>9
<1>11. new.lsn # old.lsn
  BY <1>8, <1>10 DEF OneChangePerLsn
<1> QED
  BY <1>0, <1>7, <1>11

\* A late update cannot resurrect a deleted row, whichever worker writes it and
\* however late: while no flag moves, a row that was deleted comes back only by
\* a newer change (upsert's ordering guard in WarehouseWriter).  As for all that
\* the guard does, the LSNs of one capture generation are compared.
THEOREM NoRowIsResurrected == OneChangePerLsn /\ Spec /\ []FirstGeneration => NoResurrection
<1> DEFINE Step == \A t \in Targets, s \in Sources, k \in Keys :
                     flag' = flag /\ raw[t][s][k].deleted /\ ~raw'[t][s][k].deleted =>
                        raw'[t][s][k].lsn > raw[t][s][k].lsn
<1>1. OneChangePerLsn /\ RowInv /\ RowInv' /\ FirstGeneration /\ FirstGeneration' /\ [Next]_vars => [Step]_vars
  <2> SUFFICES ASSUME OneChangePerLsn, RowInv, RowInv', FirstGeneration, FirstGeneration', [Next]_vars,
                      NEW t \in Targets, NEW s \in Sources, NEW k \in Keys,
                      flag' = flag, raw[t][s][k].deleted, ~raw'[t][s][k].deleted
               PROVE  raw'[t][s][k].lsn > raw[t][s][k].lsn
    OBVIOUS
  <2> QED
    BY StepNoResurrection
<1>2. CASE OneChangePerLsn
  <2>1. RowInv /\ RowInv' /\ FirstGeneration /\ FirstGeneration' /\ [Next]_vars => [Step]_vars
    BY <1>1, <1>2
  <2>2. Spec /\ []FirstGeneration => [][Step]_vars
    BY <2>1, RowInvariant, PTL DEF Spec
  <2> QED
    BY <2>2 DEF NoResurrection
<1>3. CASE ~OneChangePerLsn
  BY <1>3
<1> QED
  BY <1>2, <1>3
=============================================================================
