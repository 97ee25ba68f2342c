----------------------------- MODULE SinkProofs -----------------------------
(***************************************************************************)
(* The sink, for any sources, partitions, workers and logs: it is well     *)
(* typed, stored offsets only grow, the warehouse is written only on       *)
(* behalf of the owner, events are skipped only where KAFKA has no part,   *)
(* and a breaker that tripped stops the dead letters.  SinkLossProofs and  *)
(* SinkRowProofs use the lemmas about types and steps.                     *)
(***************************************************************************)
EXTENDS SinkDelivery, Extremes

-----------------------------------------------------------------------------
(***************************************************************************)
(* Types, with the ranges that positions are in.                           *)
(***************************************************************************)

\* The records of the topic, by partition and offset.
Recs == {x \in Partitions \X Nat : x[2] \in 1..Len(Log[x[1]])}

BatchType == [snap : View, recs : SUBSET Recs, held : SUBSET Partitions]

FateType(f) == \A p \in Partitions : f[p] \in [1..Len(Log[p]) -> SUBSET Fates]

WarehouseType ==
    /\ flag \in [Sources -> OwnershipRow({}, {})]
    /\ gen \in [Sources -> Nat]
    /\ raw \in [Targets -> [Sources -> [Keys -> [gen : Nat, lsn : Nat, deleted : BOOLEAN]]]]
    /\ stored \in [Partitions -> Nat]
    /\ \A p \in Partitions : stored[p] <= Len(Log[p]) + 1
    /\ FateType(fate)

KafkaType ==
    /\ logStart \in [Partitions -> Nat]
    /\ \A p \in Partitions : 1 <= logStart[p] /\ logStart[p] <= Len(Log[p]) + 1
    /\ owner \in [Partitions -> Workers \cup {NoWorker}]
    /\ crossed \subseteq Partitions

BufferType ==
    /\ has \in [Workers -> SUBSET Partitions] /\ held \in [Workers -> SUBSET Partitions]
    /\ lo \in [Workers -> [Partitions -> Nat]] /\ hi \in [Workers -> [Partitions -> Nat]]
    /\ \A w \in Workers, p \in Partitions :
         1 <= lo[w][p] /\ lo[w][p] <= hi[w][p] /\ hi[w][p] <= Len(Log[p]) + 1

CacheType ==
    /\ view \in [Workers -> View] /\ snap \in [Workers -> View]
    /\ loading \in [Workers -> [on : BOOLEAN, gen : [Sources -> Nat]]]

WorkerType ==
    /\ pc \in [Workers -> {"reload", "idle", "routed", "isolating", "fenced", "stopped"}]
    /\ iso \in [Workers -> [work : Seq(SUBSET Recs), held : SUBSET Partitions, left : Nat]]
    /\ tripped \in [Workers -> BOOLEAN]

TypeInv ==
    /\ WarehouseType
    /\ KafkaType
    /\ BufferType
    /\ CacheType
    /\ WorkerType
    /\ faults \in 0..MaxFaults

-----------------------------------------------------------------------------
(***************************************************************************)
(* What the operators of the model return.                                 *)
(***************************************************************************)

LEMMA LogType ==
    /\ \A p \in Partitions : Len(Log[p]) \in Nat
    /\ \A x \in Recs : At(x) \in Record /\ x = <<x[1], x[2]>> /\ x[1] \in Partitions
                       /\ x[2] \in 1..Len(Log[x[1]]) /\ x[2] \in Nat
  BY SinkAssumption DEF SinkAssumption, Recs, At

LEMMA EmptyViewType == EmptyView \in View /\ NotLoading \in [on : BOOLEAN, gen : [Sources -> Nat]]
  BY DEF EmptyView, View, NotLoading, NoEntry, Engine, CutoverState

LEMMA CacheEntryType ==
    ASSUME NEW o \in OwnershipRow({}, {})
    PROVE  CacheEntry(o) \in [engine : Engine, shadow : Writers \cup {NoEngine},
                              state : CutoverState, epoch : Nat]
  BY DEF CacheEntry, OwnershipRow, NoEntry, Engine, CutoverState

LEMMA DispositionType ==
    ASSUME NEW v, NEW r
    PROVE  Disposition(v, r) \in {"dead", "empty", "unknown", "hold", "prod", "shadow", "skip"}
  BY DEF Disposition, Route

\* What the buffer of a worker holds.
LEMMA InBuffer ==
    ASSUME BufferType, NEW w \in Workers, NEW x
    PROVE  x \in Buffered(w) <=>
             /\ x \in Partitions \X Nat /\ x[1] \in has[w]
             /\ lo[w][x[1]] <= x[2] /\ x[2] < hi[w][x[1]]
<1>1. ASSUME x \in Buffered(w)
      PROVE  /\ x \in Partitions \X Nat /\ x[1] \in has[w]
             /\ lo[w][x[1]] <= x[2] /\ x[2] < hi[w][x[1]]
  <2>1. PICK p \in has[w] : x \in {p} \X (lo[w][p]..hi[w][p] - 1)
    BY <1>1 DEF Buffered
  <2>2. p \in Partitions /\ lo[w][p] \in Nat /\ hi[w][p] \in Nat
    BY DEF BufferType
  <2> QED
    BY <2>1, <2>2
<1>2. ASSUME x \in Partitions \X Nat, x[1] \in has[w],
             lo[w][x[1]] <= x[2], x[2] < hi[w][x[1]]
      PROVE  x \in Buffered(w)
  <2>1. lo[w][x[1]] \in Nat /\ hi[w][x[1]] \in Nat
    BY <1>2 DEF BufferType
  <2>2. x \in {x[1]} \X (lo[w][x[1]]..hi[w][x[1]] - 1)
    BY <1>2, <2>1
  <2> QED
    BY <1>2, <2>2 DEF Buffered
<1> QED
  BY <1>1, <1>2

LEMMA BatchTyped ==
    ASSUME BufferType, NEW w \in Workers, NEW v \in View
    PROVE  Buffered(w) \subseteq Recs /\ Batch(w, v) \in BatchType
<1>1. ASSUME NEW x \in Buffered(w) PROVE x \in Recs
  <2>1. /\ x \in Partitions \X Nat /\ x[1] \in has[w]
        /\ lo[w][x[1]] <= x[2] /\ x[2] < hi[w][x[1]]
    BY InBuffer
  <2>2. /\ lo[w][x[1]] \in Nat /\ hi[w][x[1]] \in Nat
        /\ 1 <= lo[w][x[1]] /\ hi[w][x[1]] <= Len(Log[x[1]]) + 1
    BY <2>1 DEF BufferType
  <2> QED
    BY <2>1, <2>2, LogType DEF Recs
<1> QED
  BY <1>1 DEF Batch, BatchType

LEMMA PartTyped ==
    ASSUME TypeInv, NEW w \in Workers, Isolating(w)
    PROVE  Head(iso[w].work) \in SUBSET Recs /\ Part(w) \in BatchType
<1>1. iso[w].work \in Seq(SUBSET Recs) /\ iso[w].work # <<>> /\ iso[w].held \in SUBSET Partitions
  BY DEF TypeInv, WorkerType, Isolating
<1>2. Head(iso[w].work) \in SUBSET Recs
  BY <1>1
<1> QED
  BY <1>1, <1>2 DEF Part, BatchType, TypeInv, CacheType

\* The offset after some records of a partition.
LEMMA AfterIs ==
    ASSUME NEW xs \in SUBSET Recs, NEW p \in Partitions, NEW otherwise
    PROVE  \/ After(xs, p, otherwise) = otherwise /\ \A y \in xs : y[1] # p
           \/ \E x \in xs : /\ x[1] = p /\ After(xs, p, otherwise) = x[2] + 1
                            /\ \A y \in xs : y[1] = p => y[2] <= x[2]
<1> DEFINE done == {x[2] : x \in {y \in xs : y[1] = p}}
<1>1. CASE done = {}
  <2>1. \A y \in xs : y[1] # p
    BY <1>1
  <2> QED
    BY <1>1, <2>1 DEF After
<1>2. CASE done # {}
  <2>1. done \in SUBSET Nat /\ \A n \in done : n <= Len(Log[p])
    BY LogType
  <2>2. Max(done) \in done /\ \A n \in done : n <= Max(done)
    BY <1>2, <2>1, LogType, MaxIsGreatest
  <2>3. PICK x \in xs : x[1] = p /\ Max(done) = x[2]
    BY <2>2
  <2>4. \A y \in xs : y[1] = p => y[2] <= x[2]
    BY <2>2, <2>3
  <2>5. After(xs, p, otherwise) = x[2] + 1
    BY <1>2, <2>3 DEF After
  <2> QED
    BY <2>3, <2>4, <2>5
<1> QED
  BY <1>1, <1>2

\* Marking a fate keeps the others.
LEMMA MarkIs ==
    ASSUME FateType(fate), NEW xs, NEW f \in Fates
    PROVE  /\ FateType(Mark(xs, f))
           /\ \A p \in Partitions : \A i \in 1..Len(Log[p]) :
                Mark(xs, f)[p][i] = IF <<p, i>> \in xs THEN fate[p][i] \cup {f} ELSE fate[p][i]
  BY DEF FateType, Mark

LEMMA TakenIs ==
    ASSUME NEW b \in BatchType
    PROVE  /\ Taken(b) \in SUBSET Recs /\ Letters(b) \in SUBSET Taken(b)
           /\ \A d : TakenAs(b, d) \in SUBSET Taken(b)
           /\ Holding(b) \in SUBSET Partitions
  BY LogType DEF Taken, TakenAs, Letters, Holding, HeldBack, BatchType

-----------------------------------------------------------------------------
(***************************************************************************)
(* Steps, by what they do to the warehouse and to the fates.               *)
(***************************************************************************)

\* A batch, or a part of one, is written.
Writes(w) ==
    \/ pc[w] = "routed" /\ Write(Batch(w, snap[w]), fate)
    \/ Isolating(w) /\ Write(Part(w), Published(w))

\* Dead letters are published, and nothing is written.
Publishes ==
    /\ UNCHANGED warehouse
    /\ \E xs \in SUBSET Recs : fate' = Mark(xs, "dead")

LEMMA WarehouseSteps ==
    ASSUME TypeInv, [Next]_vars
    PROVE  \/ UNCHANGED <<warehouse, fate>>
           \/ Publishes
           \/ \E w \in Workers : Writes(w) \/ QuarantineCommits(w)
           \/ Operators
<1>1. ASSUME NEW w \in Workers, NEW p \in Partitions,
             \/ AssignPartition(w, p) \/ RefusePartition(w, p)
             \/ RevokePartition(w, p) \/ AssignmentThrows(w, p)
             \/ Poll(w, p) \/ PollReset(w, p)
      PROVE  UNCHANGED <<warehouse, fate>>
  BY <1>1 DEF AssignPartition, RefusePartition, RevokePartition, AssignmentThrows,
              Poll, PollReset, Stop, history
<1>2. ASSUME NEW w \in Workers,
             \/ Evict(w) \/ LosePartitions(w) \/ LoadSources(w) \/ LoadFlags(w)
             \/ LoadFails(w) \/ Crash(w) \/ Fenced(w) \/ RejectBatch(w)
             \/ IsolateDone(w) \/ TripQuarantine(w)
      PROVE  UNCHANGED <<warehouse, fate>>
  BY <1>2 DEF Evict, LosePartitions, LoadSources, LoadFlags, LoadFails, Crash, Stop,
              Fenced, RejectBatch, IsolateDone, TripQuarantine, history
<1>3. ASSUME NEW p \in Partitions, Expire(p) PROVE UNCHANGED <<warehouse, fate>>
  BY <1>3 DEF Expire
<1>4. ASSUME NEW w \in Workers, RouteBatch(w) \/ PublishFails(w) PROVE Publishes
  <2>1. view[w] \in View
    BY DEF TypeInv, CacheType
  <2>2. Letters(Batch(w, view[w])) \in SUBSET Recs
    BY <2>1, BatchTyped, TakenIs DEF TypeInv
  <2> QED
    BY <1>4, <2>2 DEF RouteBatch, PublishFails, Publishes
<1>5. ASSUME NEW w \in Workers, Isolating(w)
      PROVE  Letters(Part(w)) \in SUBSET Recs /\ Part(w).recs \in SUBSET Recs
  <2>1. Part(w) \in BatchType
    BY <1>5, PartTyped
  <2> QED
    BY <2>1, TakenIs DEF BatchType
<1>6. ASSUME NEW w \in Workers, IsolateSplit(w) \/ IsolateFenced(w) PROVE Publishes
  BY <1>5, <1>6 DEF IsolateSplit, IsolateFenced, Published, Publishes
<1>7. ASSUME NEW w \in Workers, WriteBatch(w) \/ IsolateApply(w) PROVE Writes(w)
  BY <1>7 DEF WriteBatch, IsolateApply, Writes
<1>8. ASSUME NEW w \in Workers, WriteInterrupted(w)
      PROVE  Writes(w) \/ UNCHANGED <<warehouse, fate>>
  BY <1>8 DEF WriteInterrupted, Writes
<1>9. ASSUME NEW w \in Workers, Quarantine(w) PROVE QuarantineCommits(w)
  BY <1>9 DEF Quarantine
<1>10. ASSUME NEW w \in Workers, IsolateInterrupted(w)
       PROVE  Writes(w) \/ QuarantineCommits(w) \/ Publishes
  BY <1>5, <1>10 DEF IsolateInterrupted, Writes, Publishes
<1>11. CASE UNCHANGED vars
  BY <1>11 DEF vars, history
<1> QED
  BY <1>1, <1>2, <1>3, <1>4, <1>6, <1>7, <1>8, <1>9, <1>10, <1>11
     DEF Next, Group, Loop, Failure, Isolate

\* A write comes from a well-typed batch.
LEMMA WritesTyped ==
    ASSUME TypeInv, NEW w \in Workers, Writes(w)
    PROVE  \E b \in BatchType : \E before :
             /\ Write(b, before) /\ FateType(before)
             /\ before = fate \/ before = Mark(Letters(b), "dead")
<1>1. CASE pc[w] = "routed" /\ Write(Batch(w, snap[w]), fate)
  BY <1>1, BatchTyped DEF TypeInv, CacheType, WarehouseType
<1>2. CASE Isolating(w) /\ Write(Part(w), Published(w))
  BY <1>2, PartTyped, MarkIs DEF Published, TypeInv, WarehouseType, Fates
<1> QED
  BY <1>1, <1>2 DEF Writes

\* An offset that is stored for records of the log is one of the log.
LEMMA StoreOffsetsTyped ==
    ASSUME WarehouseType, NEW xs \in SUBSET Recs, StoreOffsets(xs)
    PROVE  /\ stored' \in [Partitions -> Nat]
           /\ \A p \in Partitions : stored[p] <= stored'[p] /\ stored'[p] <= Len(Log[p]) + 1
<1>1. ASSUME NEW p \in Partitions
      PROVE  /\ stored'[p] \in Nat
             /\ stored[p] <= stored'[p] /\ stored'[p] <= Len(Log[p]) + 1
  <2>1. stored'[p] = Greatest(stored[p], After(xs, p, stored[p]))
    BY DEF StoreOffsets
  <2>2. stored[p] \in Nat /\ stored[p] <= Len(Log[p]) + 1 /\ Len(Log[p]) \in Nat
    BY LogType DEF WarehouseType
  <2>3. /\ After(xs, p, stored[p]) \in Nat
        /\ After(xs, p, stored[p]) <= Len(Log[p]) + 1
    BY <2>2, AfterIs, LogType
  <2> QED
    BY <2>1, <2>2, <2>3 DEF Greatest
<1>2. stored' = [p \in Partitions |-> stored'[p]]
  BY DEF StoreOffsets
<1> QED
  BY <1>1, <1>2

\* The topic has finitely many records.
LEMMA RecsAreFinite == IsFiniteSet(Recs)
<1> DEFINE R(p) == {p} \X (1..Len(Log[p]))
           RR == {R(p) : p \in Partitions}
           f == [p \in Partitions |-> R(p)]
<1>1. IsFiniteSet(RR)
  <2>1. f \in Surjection(Partitions, RR)
    BY DEF Surjection
  <2> QED
    BY <2>1, FS_Surjection, SinkAssumption DEF SinkAssumption
<1>2. ASSUME NEW p \in Partitions PROVE IsFiniteSet(R(p))
  <2>1. 1 \in Int /\ Len(Log[p]) \in Int
    BY LogType
  <2>2. IsFiniteSet(1..Len(Log[p]))
    BY <2>1, FS_Interval
  <2>3. IsFiniteSet({p})
    BY FS_Singleton
  <2> QED
    BY <2>2, <2>3, FS_Product
<1>3. IsFiniteSet(UNION RR)
  BY <1>1, <1>2, FS_UNION
<1>4. Recs \subseteq UNION RR
  <2> SUFFICES ASSUME NEW x \in Recs PROVE x \in UNION RR
    OBVIOUS
  <2>1. x \in R(x[1]) /\ x[1] \in Partitions
    BY LogType
  <2> QED
    BY <2>1
<1> QED
  BY <1>3, <1>4, FS_Subset

\* Some records that are staged for one row have a newest.
LEMMA NewestIs ==
    ASSUME NEW xs \in SUBSET Recs, xs # {}
    PROVE  Newest(xs) \in xs /\ \A y \in xs : At(y).lsn <= At(Newest(xs)).lsn
<1>0. \A x \in xs : At(x).lsn \in Nat /\ x[2] \in Nat
  BY LogType DEF Record
<1> DEFINE lsn == [x \in xs |-> At(x).lsn]
<1>1. IsFiniteSet(xs)
  BY RecsAreFinite, FS_Subset
<1>2. PICK x \in xs : \A y \in xs : lsn[y] <= lsn[x]
  BY <1>0, <1>1, FiniteArgMax
<1> DEFINE top == {y \in xs : At(y).lsn = At(x).lsn}
           place == [y \in top |-> y[2]]
<1>3. IsFiniteSet(top) /\ top # {}
  BY <1>1, FS_Subset
<1>4. PICK z \in top : \A y \in top : place[y] <= place[z]
  BY <1>0, <1>3, FiniteArgMax
<1>5. ASSUME NEW y \in xs
      PROVE  At(z).lsn > At(y).lsn \/ (At(z).lsn = At(y).lsn /\ z[2] >= y[2])
  <2>1. At(y).lsn <= At(x).lsn /\ At(z).lsn = At(x).lsn
    BY <1>2, <1>4
  <2>2. CASE y \in top
    BY <1>0, <1>4, <2>2
  <2>3. CASE y \notin top
    BY <1>0, <2>1, <2>3
  <2> QED
    BY <2>2, <2>3
<1>6. \E c \in xs : \A y \in xs : At(c).lsn > At(y).lsn \/ (At(c).lsn = At(y).lsn /\ c[2] >= y[2])
  BY <1>4, <1>5
<1>7. /\ Newest(xs) \in xs
      /\ \A y \in xs : \/ At(Newest(xs)).lsn > At(y).lsn
                       \/ At(Newest(xs)).lsn = At(y).lsn
  BY <1>6 DEF Newest
<1> QED
  BY <1>0, <1>7

\* The row a write leaves: the old one, or a staged one the guard lets pass.
LEMMA AppliedIs ==
    ASSUME NEW b \in BatchType, NEW t \in Targets, NEW s \in Sources, NEW k \in Keys
    PROVE  LET staged == {x \in TakenAs(b, t) : At(x).source = s /\ At(x).key = k}
           IN  \/ staged = {} /\ Applied(b)[t][s][k] = raw[t][s][k]
               \/ /\ staged # {}
                  /\ \E x \in staged :
                       /\ \A y \in staged : At(y).lsn <= At(x).lsn
                       /\ Applied(b)[t][s][k] = Upsert(raw[t][s][k], StagedRow(b, x))
<1> DEFINE staged == {x \in TakenAs(b, t) : At(x).source = s /\ At(x).key = k}
<1>1. staged \in SUBSET Recs
  BY TakenIs
<1>2. Applied(b)[t][s][k] = IF staged = {} THEN raw[t][s][k]
                             ELSE Upsert(raw[t][s][k], StagedRow(b, Newest(staged)))
  BY DEF Applied
<1>3. CASE staged # {}
  BY <1>1, <1>2, <1>3, NewestIs
<1> QED
  BY <1>2, <1>3

\* A record that a batch takes is not held back.
LEMMA TakenIsRouted ==
    ASSUME NEW b \in BatchType, NEW x \in Taken(b)
    PROVE  Disposition(b.snap, At(x)) # "hold"
  BY TakenIs, LogType DEF Taken, HeldBack

LEMMA WriteTyped ==
    ASSUME WarehouseType, NEW b \in BatchType, NEW before, FateType(before),
           Write(b, before)
    PROVE  WarehouseType'
<1>1. flag' = flag /\ gen' = gen
  BY DEF Write
<1>2. FateType(fate')
  <2>1. ASSUME NEW p \in Partitions, NEW i \in 1..Len(Log[p])
        PROVE  /\ before[p][i] \in SUBSET Fates
               /\ <<p, i>> \in Taken(b) =>
                    {Outcome(Disposition(b.snap, Log[p][i]))} \ {"dead"} \in SUBSET Fates
    <3>1. before[p][i] \in SUBSET Fates
      BY DEF FateType
    <3>2. ASSUME <<p, i>> \in Taken(b)
          PROVE  Outcome(Disposition(b.snap, Log[p][i])) \in Fates
      <4>1. Disposition(b.snap, Log[p][i]) # "hold"
        BY <3>2, TakenIsRouted DEF At
      <4> QED
        BY <4>1, DispositionType DEF Outcome, Fates
    <3> QED
      BY <3>1, <3>2
  <2> QED
    BY <2>1 DEF Write, FateType
<1>3. raw' \in [Targets -> [Sources -> [Keys -> [gen : Nat, lsn : Nat, deleted : BOOLEAN]]]]
  <2> DEFINE Row == [gen : Nat, lsn : Nat, deleted : BOOLEAN]
  <2>1. ASSUME NEW t \in Targets, NEW s \in Sources, NEW k \in Keys
        PROVE  Applied(b)[t][s][k] \in Row
    <3>1. raw[t][s][k] \in Row
      BY DEF WarehouseType
    <3>2. ASSUME NEW x \in Recs PROVE StagedRow(b, x) \in Row
      <4>1. At(x).source \in Sources /\ At(x).lsn \in Nat /\ At(x).deleted \in BOOLEAN
        BY LogType DEF Record
      <4>2. b.snap.gen[At(x).source] \in Nat
        BY <4>1 DEF BatchType, View
      <4> QED
        BY <4>1, <4>2 DEF StagedRow
    <3>3. TakenAs(b, t) \in SUBSET Recs
      BY TakenIs
    <3> HIDE DEF Row
    <3> QED
      BY <3>1, <3>2, <3>3, AppliedIs DEF Upsert
  <2>2. raw' = Applied(b)
    BY DEF Write
  <2>3. Applied(b) = [t \in Targets |-> [s \in Sources |-> [k \in Keys |-> Applied(b)[t][s][k]]]]
    BY DEF Applied
  <2> HIDE DEF Row
  <2>4. Applied(b) \in [Targets -> [Sources -> [Keys -> Row]]]
    BY <2>1, <2>3
  <2> QED
    BY <2>2, <2>4 DEF Row
<1>4. /\ stored' \in [Partitions -> Nat]
      /\ \A p \in Partitions : stored'[p] <= Len(Log[p]) + 1
  BY StoreOffsetsTyped, TakenIs DEF Write
<1> QED
  BY <1>1, <1>2, <1>3, <1>4 DEF WarehouseType

-----------------------------------------------------------------------------
(***************************************************************************)
(* The requests.                                                           *)
(***************************************************************************)

\* A request replaces a row by one with the next epoch.
IsRequest(s, new) ==
    /\ flag[s].epoch # 0
    /\ flag' = [flag EXCEPT ![s] = new]
    /\ new \in OwnershipRow({}, {}) /\ new.epoch = flag[s].epoch + 1

\* The copies of other sources, and what became of their records, stay.
OnlyCopiesOf(s) ==
    /\ \A t \in Targets, r \in Sources : r # s => raw'[t][r] = raw[t][r]
    /\ \A t \in Targets, k \in Keys : raw'[t][s][k] \in {raw[u][s][k] : u \in Targets} \cup {Absent}

\* Fates change into fates, and none is forgotten.
FatesMove ==
    \A p \in Partitions : \A i \in 1..Len(Log[p]) :
        /\ fate[p][i] # {} => fate'[p][i] # {}
        /\ "skipped" \in fate'[p][i] => "skipped" \in fate[p][i]

Rows == [gen : Nat, lsn : Nat, deleted : BOOLEAN]

LEMMA RefateIs ==
    ASSUME FateType(fate), NEW s, NEW becomes \in [Fates -> Fates],
           \A x \in Fates : becomes[x] = "skipped" <=> x = "skipped",
           fate' = Refate(s, becomes)
    PROVE  FateType(fate') /\ FatesMove
<1>1. ASSUME NEW p \in Partitions, NEW i \in 1..Len(Log[p])
      PROVE  /\ fate'[p][i] \in SUBSET Fates
             /\ fate[p][i] # {} => fate'[p][i] # {}
             /\ "skipped" \in fate'[p][i] => "skipped" \in fate[p][i]
  <2>1. fate[p][i] \in SUBSET Fates
    BY DEF FateType
  <2>2. fate'[p][i] = IF Log[p][i].source = s THEN {becomes[x] : x \in fate[p][i]} ELSE fate[p][i]
    BY DEF Refate
  <2> QED
    BY <2>1, <2>2
<1>2. \A p \in Partitions : fate'[p] = [i \in 1..Len(Log[p]) |-> fate'[p][i]]
  BY DEF Refate
<1> QED
  BY <1>1, <1>2 DEF FateType, FatesMove

LEMMA CopiesMove ==
    ASSUME WarehouseType, NEW s \in Sources, ClearShadow(s) \/ PromoteShadow(s)
    PROVE  /\ raw' \in [Targets -> [Sources -> [Keys -> Rows]]]
           /\ OnlyCopiesOf(s) /\ FateType(fate') /\ FatesMove
<1>1. raw \in [Targets -> [Sources -> [Keys -> Rows]]] /\ NoKeys \in [Keys -> Rows]
      /\ \A k \in Keys : NoKeys[k] = Absent
  BY DEF WarehouseType, Rows, NoKeys, Absent
<1>2. "shadow" \in Targets /\ "prod" \in Targets
  BY DEF Targets
<1>3. CASE ClearShadow(s)
  <2>1. raw' = [raw EXCEPT !["shadow"][s] = NoKeys]
    BY <1>3 DEF ClearShadow
  <2>2. raw' \in [Targets -> [Sources -> [Keys -> Rows]]]
    BY <1>1, <1>2, <2>1
  <2>3. OnlyCopiesOf(s)
    BY <1>1, <1>2, <2>1 DEF OnlyCopiesOf
  <2>4. /\ WhenCleared \in [Fates -> Fates]
        /\ \A x \in Fates : WhenCleared[x] = "skipped" <=> x = "skipped"
    BY DEF WhenCleared, Fates
  <2> QED
    BY <1>3, <2>2, <2>3, <2>4, RefateIs DEF ClearShadow, WarehouseType
<1>4. CASE PromoteShadow(s)
  <2>1. raw' = [raw EXCEPT !["prod"][s] = raw["shadow"][s], !["shadow"][s] = NoKeys]
    BY <1>4 DEF PromoteShadow
  <2> DEFINE r1 == [raw EXCEPT !["prod"][s] = raw["shadow"][s]]
  <2>2. r1 \in [Targets -> [Sources -> [Keys -> Rows]]] /\ raw' = [r1 EXCEPT !["shadow"][s] = NoKeys]
    BY <1>1, <1>2, <2>1
  <2>5. raw' \in [Targets -> [Sources -> [Keys -> Rows]]]
    <3> HIDE DEF r1
    <3> QED
      BY <1>1, <1>2, <2>2
  <2>3. OnlyCopiesOf(s)
    BY <1>1, <1>2, <2>1 DEF OnlyCopiesOf, Targets
  <2>4. /\ WhenPromoted \in [Fates -> Fates]
        /\ \A x \in Fates : WhenPromoted[x] = "skipped" <=> x = "skipped"
    BY DEF WhenPromoted, Fates
  <2> QED
    BY <1>4, <2>3, <2>4, <2>5, RefateIs DEF PromoteShadow, WarehouseType
<1> QED
  BY <1>3, <1>4

\* Every request returns a row with the next epoch; the gate keeps the epoch.
LEMMA RequestRows ==
    ASSUME NEW o \in OwnershipRow({}, {}), NEW e \in Engine
    PROVE  /\ Assign(o, e) \in OwnershipRow({}, {}) /\ Assign(o, e).epoch = o.epoch + 1
           /\ ForceAssign(o, e) \in OwnershipRow({}, {}) /\ ForceAssign(o, e).epoch = o.epoch + 1
           /\ Pause(o) \in OwnershipRow({}, {}) /\ Pause(o).epoch = o.epoch + 1
           /\ Resume(o) \in OwnershipRow({}, {}) /\ Resume(o).epoch = o.epoch + 1
           /\ AbortShadow(o) \in OwnershipRow({}, {}) /\ AbortShadow(o).epoch = o.epoch + 1
           /\ e # "NONE" => /\ StartShadow(o, e, NoOne) \in OwnershipRow({}, {})
                            /\ StartShadow(o, e, NoOne).epoch = o.epoch + 1
           /\ CanCutover(o) => Cutover(o) \in OwnershipRow({}, {}) /\ Cutover(o).epoch = o.epoch + 1
<1>1. o.epoch + 1 \in Nat
  BY DEF OwnershipRow
<1>2. {"STEADY", "PAUSED", "SHADOWING", "RECONCILING", "CUTOVER_READY"} \subseteq CutoverState
  BY DEF CutoverState, ShadowState
<1>3. Assign(o, e) \in OwnershipRow({}, {}) /\ ForceAssign(o, e) \in OwnershipRow({}, {})
  BY <1>1, <1>2 DEF OwnershipRow, Assign, ForceAssign
<1>4. Pause(o) \in OwnershipRow({}, {}) /\ Resume(o) \in OwnershipRow({}, {})
  BY <1>1, <1>2 DEF OwnershipRow, Pause, Resume
<1>5. AbortShadow(o) \in OwnershipRow({}, {})
  BY <1>1, <1>2 DEF OwnershipRow, AbortShadow
<1>6. ASSUME e # "NONE" PROVE StartShadow(o, e, NoOne) \in OwnershipRow({}, {})
  <2>1. e \in Writers
    BY <1>6 DEF Engine
  <2> QED
    BY <1>1, <1>2, <2>1 DEF OwnershipRow, StartShadow
<1>7. ASSUME CanCutover(o) PROVE Cutover(o) \in OwnershipRow({}, {})
  <2>1. o.shadow \in Engine
    BY <1>7 DEF CanCutover, HasShadow, OwnershipRow, Engine
  <2> QED
    BY <1>1, <1>2, <2>1 DEF OwnershipRow, Cutover
<1>8. /\ Assign(o, e).epoch = o.epoch + 1 /\ ForceAssign(o, e).epoch = o.epoch + 1
      /\ Pause(o).epoch = o.epoch + 1 /\ Resume(o).epoch = o.epoch + 1
      /\ AbortShadow(o).epoch = o.epoch + 1 /\ StartShadow(o, e, NoOne).epoch = o.epoch + 1
      /\ Cutover(o).epoch = o.epoch + 1
  BY DEF OwnershipRow, Assign, ForceAssign, Pause, Resume, AbortShadow, StartShadow, Cutover
<1> QED
  BY <1>3, <1>4, <1>5, <1>6, <1>7, <1>8

LEMMA GateRows ==
    ASSUME NEW o \in OwnershipRow({}, {})
    PROVE  LET ready == RecordReconciliation(BeginReconciliation(o), TRUE, 1)
           IN  ready \in OwnershipRow({}, {}) /\ ready.epoch = o.epoch
<1>1. {"RECONCILING", "CUTOVER_READY", "SHADOWING"} \subseteq CutoverState
  BY DEF CutoverState, ShadowState
<1> QED
  BY <1>1 DEF OwnershipRow, RecordReconciliation, BeginReconciliation

\* What any of the operators' actions does to the flag of s, to the copies and
\* fates, to the generations and to the rest.
FlagMoves(s) ==
    \/ \E new : IsRequest(s, new) /\ OnlyCopiesOf(s)
    \/ /\ gen[s] # 0 /\ flag[s].epoch = 0
       /\ flag' = [flag EXCEPT ![s] = FreshRow] /\ UNCHANGED raw
    \/ UNCHANGED <<flag, raw>>

CopiesTyped ==
    /\ raw' \in [Targets -> [Sources -> [Keys -> Rows]]]
    /\ FateType(fate') /\ FatesMove

GenerationsGrow == gen' \in [Sources -> Nat] /\ \A r \in Sources : gen[r] <= gen'[r]

Frame == UNCHANGED <<stored, kafka, buffers, caches, snap, pc, isolation, crossed, faults>>

Operates(s) ==
    \/ AssignTable(s) \/ StartShadowing(s) \/ ReconcileAndCutOver(s)
    \/ AbortShadowing(s) \/ PauseTable(s) \/ ResumeTable(s)
    \/ ForceAssignTable(s) \/ RegisterSource(s) \/ EnsureRows(s)
    \/ BumpGeneration(s)

LEMMA OperatorSteps ==
    ASSUME TypeInv, NEW s \in Sources, Operates(s)
    PROVE  FlagMoves(s) /\ CopiesTyped /\ GenerationsGrow /\ Frame
<1> DEFINE o == flag[s]
<1>0. /\ o \in OwnershipRow({}, {}) /\ WarehouseType /\ gen \in [Sources -> Nat]
      /\ raw \in [Targets -> [Sources -> [Keys -> Rows]]] /\ FateType(fate)
  BY DEF TypeInv, WarehouseType, Rows
<1>1. ASSUME UNCHANGED <<raw, fate>> PROVE OnlyCopiesOf(s) /\ CopiesTyped
  BY <1>0, <1>1 DEF OnlyCopiesOf, CopiesTyped, FatesMove
<1>2. ASSUME UNCHANGED gen PROVE GenerationsGrow
  BY <1>0, <1>2 DEF GenerationsGrow
<1>3. ASSUME NEW request, NEW new, SetFlag(s, request, new), OnlyCopiesOf(s),
             new \in OwnershipRow({}, {}), new.epoch = o.epoch + 1
      PROVE  FlagMoves(s) /\ Frame
  BY <1>3 DEF SetFlag, IsRequest, FlagMoves, Frame
<1>4. CASE AssignTable(s)
  <2>1. PICK e \in Writers : SetFlag(s, "assign", Assign(o, e)) /\ UNCHANGED <<gen, raw, fate>>
    BY <1>4 DEF AssignTable
  <2>2. Assign(o, e) \in OwnershipRow({}, {}) /\ Assign(o, e).epoch = o.epoch + 1
    BY <1>0, RequestRows DEF Engine
  <2> HIDE DEF o
  <2> QED
    BY <1>1, <1>2, <1>3, <2>1, <2>2
<1>11. CASE ForceAssignTable(s)
  <2>1. PICK e \in Engine : SetFlag(s, "force_assign", ForceAssign(o, e)) /\ UNCHANGED <<gen, raw, fate>>
    BY <1>11 DEF ForceAssignTable
  <2>2. ForceAssign(o, e) \in OwnershipRow({}, {}) /\ ForceAssign(o, e).epoch = o.epoch + 1
    BY <1>0, RequestRows
  <2> HIDE DEF o
  <2> QED
    BY <1>1, <1>2, <1>3, <2>1, <2>2
<1>5. CASE PauseTable(s) \/ ResumeTable(s)
  <2>1. /\ Pause(o) \in OwnershipRow({}, {}) /\ Pause(o).epoch = o.epoch + 1
        /\ Resume(o) \in OwnershipRow({}, {}) /\ Resume(o).epoch = o.epoch + 1
    BY <1>0, RequestRows DEF Engine
  <2>2. UNCHANGED <<gen, raw, fate>>
    BY <1>5 DEF PauseTable, ResumeTable
  <2>3. SetFlag(s, "pause", Pause(o)) \/ SetFlag(s, "resume", Resume(o))
    BY <1>5 DEF PauseTable, ResumeTable
  <2> HIDE DEF o
  <2> QED
    BY <1>1, <1>2, <1>3, <2>1, <2>2, <2>3
<1>6. CASE StartShadowing(s)
  <2>1. PICK e \in Writers :
          /\ SetFlag(s, "start_shadow", StartShadow(o, e, NoOne))
          /\ gen' = IF e = "KAFKA" THEN [gen EXCEPT ![s] = @ + 1] ELSE gen
    BY <1>6 DEF StartShadowing
  <2>2. StartShadow(o, e, NoOne) \in OwnershipRow({}, {}) /\ StartShadow(o, e, NoOne).epoch = o.epoch + 1
    BY <1>0, RequestRows DEF Engine, Writers
  <2>3. GenerationsGrow
    BY <1>0, <2>1 DEF GenerationsGrow
  <2>4. ClearShadow(s)
    BY <1>6 DEF StartShadowing
  <2>5. OnlyCopiesOf(s) /\ CopiesTyped
    BY <1>0, <2>4, CopiesMove DEF CopiesTyped
  <2> HIDE DEF o
  <2> QED
    BY <1>3, <2>1, <2>2, <2>3, <2>5
<1>7. CASE ReconcileAndCutOver(s)
  <2> DEFINE ready == RecordReconciliation(BeginReconciliation(o), TRUE, 1)
  <2>1. SetFlag(s, "cutover", Cutover(ready)) /\ PromoteShadow(s) /\ UNCHANGED gen /\ CanCutover(ready)
    BY <1>7 DEF ReconcileAndCutOver
  <2>2. ready \in OwnershipRow({}, {}) /\ ready.epoch = o.epoch
    BY <1>0, GateRows
  <2>3. Cutover(ready) \in OwnershipRow({}, {}) /\ Cutover(ready).epoch = o.epoch + 1
    BY <2>1, <2>2, RequestRows DEF Engine
  <2>4. OnlyCopiesOf(s) /\ CopiesTyped
    BY <1>0, <2>1, CopiesMove DEF CopiesTyped
  <2> HIDE DEF ready, o
  <2> QED
    BY <1>2, <1>3, <2>1, <2>3, <2>4
<1>8. CASE AbortShadowing(s)
  <2>1. AbortShadow(o) \in OwnershipRow({}, {}) /\ AbortShadow(o).epoch = o.epoch + 1
    BY <1>0, RequestRows DEF Engine
  <2>2. SetFlag(s, "abort_shadow", AbortShadow(o)) /\ ClearShadow(s) /\ UNCHANGED gen
    BY <1>8 DEF AbortShadowing
  <2>3. OnlyCopiesOf(s) /\ CopiesTyped
    BY <1>0, <2>2, CopiesMove DEF CopiesTyped
  <2> HIDE DEF o
  <2> QED
    BY <1>2, <1>3, <2>1, <2>2, <2>3
<1>9. CASE RegisterSource(s) \/ BumpGeneration(s)
  <2>1. GenerationsGrow
    BY <1>0, <1>9 DEF RegisterSource, BumpGeneration, GenerationsGrow
  <2>2. UNCHANGED <<flag, raw, fate>> /\ Frame
    BY <1>9 DEF RegisterSource, BumpGeneration, history, Frame
  <2>3. FlagMoves(s)
    BY <2>2 DEF FlagMoves
  <2> QED
    BY <1>1, <2>1, <2>2, <2>3
<1>10. CASE EnsureRows(s)
  <2>1. FlagMoves(s) /\ UNCHANGED <<gen, raw, fate>> /\ Frame
    BY <1>10 DEF EnsureRows, history, FlagMoves, Frame
  <2> QED
    BY <1>1, <1>2, <2>1
<1> QED
  BY <1>4, <1>5, <1>6, <1>7, <1>8, <1>9, <1>10, <1>11 DEF Operates

LEMMA OperatorsAre ==
    ASSUME Operators
    PROVE  \E s \in Sources : Operates(s)
  BY SinkAssumption DEF Operators, Operates, SinkAssumption

LEMMA OperatorsTyped ==
    ASSUME TypeInv, Operators
    PROVE  WarehouseType' /\ Frame
<1>1. PICK s \in Sources : Operates(s)
  BY OperatorsAre
<1>2. FlagMoves(s) /\ CopiesTyped /\ GenerationsGrow /\ Frame
  BY <1>1, OperatorSteps
<1>3. flag' \in [Sources -> OwnershipRow({}, {})]
  <2>1. FreshRow \in OwnershipRow({}, {})
    BY DEF FreshRow, OwnershipRow, Engine, CutoverState
  <2> QED
    BY <1>2, <2>1 DEF FlagMoves, IsRequest, TypeInv, WarehouseType
<1> QED
  BY <1>2, <1>3 DEF TypeInv, WarehouseType, Rows, CopiesTyped, GenerationsGrow, Frame

-----------------------------------------------------------------------------
(***************************************************************************)
(* Every step keeps the types.                                             *)
(***************************************************************************)

LEMMA StepWarehouse ==
    ASSUME TypeInv, [Next]_vars
    PROVE  WarehouseType'
<1>0. WarehouseType /\ FateType(fate)
  BY DEF TypeInv, WarehouseType
<1>1. CASE UNCHANGED <<warehouse, fate>>
  BY <1>0, <1>1 DEF WarehouseType, FateType, warehouse
<1>2. CASE Publishes
  <2>1. UNCHANGED warehouse /\ FateType(fate')
    BY <1>0, <1>2, MarkIs DEF Publishes, Fates
  <2> QED
    BY <1>0, <2>1 DEF WarehouseType, warehouse
<1>3. ASSUME NEW w \in Workers, Writes(w) PROVE WarehouseType'
  BY <1>0, <1>3, WritesTyped, WriteTyped
<1>4. ASSUME NEW w \in Workers, QuarantineCommits(w) PROVE WarehouseType'
  <2>1. Part(w).recs \in SUBSET Recs
    BY <1>4, PartTyped DEF QuarantineCommits, Culprit, BatchType
  <2>2. FateType(fate') /\ UNCHANGED <<flag, gen, raw>>
    BY <1>0, <1>4, MarkIs DEF QuarantineCommits, Fates
  <2>3. /\ stored' \in [Partitions -> Nat]
        /\ \A p \in Partitions : stored'[p] <= Len(Log[p]) + 1
    BY <1>0, <1>4, <2>1, StoreOffsetsTyped DEF QuarantineCommits
  <2> QED
    BY <1>0, <2>2, <2>3 DEF WarehouseType
<1>5. CASE Operators
  BY <1>5, OperatorsTyped
<1> QED
  BY <1>1, <1>2, <1>3, <1>4, <1>5, WarehouseSteps

\* A worker ends, or loses partitions.
LEMMA StopTyped ==
    ASSUME TypeInv, NEW w \in Workers, NEW next \in {"reload", "stopped"}, Stop(w, next)
    PROVE  KafkaType' /\ BufferType' /\ CacheType' /\ WorkerType'
<1>1. KafkaType'
  BY DEF TypeInv, Stop, KafkaType, history
<1>2. BufferType'
  BY LogType DEF TypeInv, Stop, BufferType
<1>3. CacheType'
  BY EmptyViewType DEF TypeInv, Stop, CacheType
<1>4. WorkerType'
  BY DEF TypeInv, Stop, WorkerType, NotIsolating
<1> QED
  BY <1>1, <1>2, <1>3, <1>4

LEMMA DropTyped ==
    ASSUME TypeInv, NEW w \in Workers, NEW ps \in SUBSET Partitions, Drop(w, ps)
    PROVE  /\ BufferType'
           /\ iso' \in [Workers -> [work : Seq(SUBSET Recs), held : SUBSET Partitions, left : Nat]]
<1>1. BufferType'
  BY LogType DEF TypeInv, Drop, BufferType
<1> DEFINE work == [n \in DOMAIN iso[w].work |-> {x \in iso[w].work[n] : x[1] \notin ps}]
<1>2. iso[w].work \in Seq(SUBSET Recs)
  BY DEF TypeInv, WorkerType
<1>3. work \in Seq(SUBSET Recs)
  BY <1>2
<1>4. iso' = [iso EXCEPT ![w].work = work]
  BY DEF Drop
<1> HIDE DEF work
<1> QED
  BY <1>1, <1>3, <1>4 DEF TypeInv, WorkerType

\* The records a write has disposed of leave the buffer from the front.
LEMMA RemoveTyped ==
    ASSUME BufferType, NEW w \in Workers, NEW xs \in SUBSET Recs, RemoveProcessed(w, xs)
    PROVE  /\ lo' \in [Workers -> [Partitions -> Nat]]
           /\ \A v \in Workers, p \in Partitions : lo[v][p] <= lo'[v][p] /\ lo'[v][p] <= hi[v][p]
<1> DEFINE gone == xs \cap Buffered(w)
<1>1. lo \in [Workers -> [Partitions -> Nat]] /\ hi \in [Workers -> [Partitions -> Nat]]
      /\ \A v \in Workers, p \in Partitions : lo[v][p] <= hi[v][p]
  BY DEF BufferType
<1>2. ASSUME NEW p \in Partitions
      PROVE  /\ After(gone, p, lo[w][p]) \in Nat
             /\ lo[w][p] <= After(gone, p, lo[w][p]) /\ After(gone, p, lo[w][p]) <= hi[w][p]
  <2>1. CASE After(gone, p, lo[w][p]) = lo[w][p]
    BY <1>1, <2>1
  <2>2. ASSUME NEW x \in gone, x[1] = p, After(gone, p, lo[w][p]) = x[2] + 1
        PROVE  /\ After(gone, p, lo[w][p]) \in Nat
               /\ lo[w][p] <= After(gone, p, lo[w][p]) /\ After(gone, p, lo[w][p]) <= hi[w][p]
    <3>1. x \in Partitions \X Nat /\ lo[w][p] <= x[2] /\ x[2] < hi[w][p]
      BY <2>2, InBuffer
    <3> QED
      BY <1>1, <2>2, <3>1
  <2> QED
    BY <2>1, <2>2, AfterIs
<1>3. lo' = [lo EXCEPT ![w] = [p \in Partitions |-> After(gone, p, lo[w][p])]]
  BY DEF RemoveProcessed
<1>4. [p \in Partitions |-> After(gone, p, lo[w][p])] \in [Partitions -> Nat]
  BY <1>2
<1>5. ASSUME NEW v \in Workers, NEW p \in Partitions
      PROVE  lo[v][p] <= lo'[v][p] /\ lo'[v][p] <= hi[v][p]
  <2>1. lo[v][p] \in Nat /\ hi[v][p] \in Nat /\ lo[v][p] <= hi[v][p]
    BY <1>1
  <2>2. CASE v = w
    <3>1. lo'[v][p] = After(gone, p, lo[w][p])
      BY <1>1, <1>3, <2>2
    <3> HIDE DEF gone
    <3> QED
      BY <1>2, <2>2, <3>1
  <2>3. CASE v # w
    BY <1>1, <1>3, <2>1, <2>3
  <2> QED
    BY <2>2, <2>3
<1> HIDE DEF gone
<1> QED
  BY <1>1, <1>3, <1>4, <1>5

LEMMA StepKafka ==
    ASSUME TypeInv, [Next]_vars
    PROVE  KafkaType'
<1>0. KafkaType
  BY DEF TypeInv
<1>1. CASE UNCHANGED <<kafka, crossed>>
  BY <1>0, <1>1 DEF KafkaType, kafka
<1>2. ASSUME NEW w \in Workers, NEW p \in Partitions, AssignPartition(w, p) \/ AssignmentThrows(w, p)
      PROVE  KafkaType'
  BY <1>0, <1>2 DEF KafkaType, AssignPartition, AssignmentThrows
<1>3. ASSUME NEW w \in Workers, NEW p \in Partitions, RevokePartition(w, p) PROVE KafkaType'
  BY <1>0, <1>3 DEF KafkaType, RevokePartition, history
<1>4. ASSUME NEW w \in Workers, NEW p \in Partitions, RefusePartition(w, p) \/ Crash(w) PROVE KafkaType'
  BY <1>4, StopTyped DEF RefusePartition, Crash
<1>5. ASSUME NEW w \in Workers, Evict(w) PROVE KafkaType'
  BY <1>0, <1>5 DEF KafkaType, Evict, history
<1>6. ASSUME NEW p \in Partitions, Expire(p) PROVE KafkaType'
  BY <1>0, <1>6, LogType DEF KafkaType, Expire
<1>7. ASSUME NEW w \in Workers, NEW p \in Partitions, Poll(w, p) \/ PollReset(w, p) PROVE KafkaType'
  BY <1>1, <1>7 DEF Poll, PollReset, history
<1>8. ASSUME NEW w \in Workers,
             \/ LosePartitions(w) \/ RouteBatch(w) \/ WriteBatch(w) \/ Fenced(w) \/ RejectBatch(w)
             \/ Isolate(w) \/ LoadSources(w) \/ LoadFlags(w) \/ LoadFails(w) \/ PublishFails(w)
             \/ WriteInterrupted(w) \/ IsolateInterrupted(w)
      PROVE  KafkaType'
  BY <1>1, <1>8 DEF LosePartitions, RouteBatch, WriteBatch, Fenced, RejectBatch, Isolate,
       IsolateApply, IsolateSplit, IsolateFenced, Quarantine, TripQuarantine, IsolateDone,
       LoadSources, LoadFlags, LoadFails, PublishFails, WriteInterrupted, IsolateInterrupted, history
<1>9. CASE Operators
  BY <1>1, <1>9, OperatorsTyped DEF Frame
<1>10. CASE UNCHANGED vars
  BY <1>1, <1>10 DEF vars, history
<1>11. ASSUME NEW w \in Workers, Crash(w) PROVE KafkaType'
  BY <1>11, StopTyped DEF Crash
<1> QED
  BY <1>2, <1>3, <1>4, <1>5, <1>6, <1>7, <1>8, <1>9, <1>10, <1>11 DEF Next, Group, Loop, Failure

LEMMA StepBuffers ==
    ASSUME TypeInv, [Next]_vars
    PROVE  BufferType'
<1>0. BufferType /\ KafkaType /\ WarehouseType
  BY DEF TypeInv
<1>1. CASE UNCHANGED buffers
  BY <1>0, <1>1 DEF BufferType, buffers
<1>2. ASSUME NEW w \in Workers, NEW ps \in SUBSET Partitions, ApplyHolds(w, ps), UNCHANGED <<has, lo, hi>>
      PROVE  BufferType'
  BY <1>0, <1>2 DEF ApplyHolds, BufferType
<1>3. ASSUME NEW w \in Workers, NEW p \in Partitions, NEW position \in Nat,
             1 <= position, position <= Len(Log[p]) + 1,
             lo' = [lo EXCEPT ![w][p] = position], hi' = [hi EXCEPT ![w][p] = position],
             has' \in [Workers -> SUBSET Partitions], held' \in [Workers -> SUBSET Partitions]
      PROVE  BufferType'
  BY <1>0, <1>3 DEF BufferType
<1>4. ASSUME NEW w \in Workers, NEW p \in Partitions, AssignPartition(w, p) PROVE BufferType'
  <2>1. ResumeFrom(p) \in Nat /\ 1 <= ResumeFrom(p) /\ ResumeFrom(p) <= Len(Log[p]) + 1
    BY <1>0, LogType DEF KafkaType, WarehouseType, ResumeFrom
  <2>2. has' \in [Workers -> SUBSET Partitions] /\ held' \in [Workers -> SUBSET Partitions]
    BY <1>0, <1>4 DEF AssignPartition, BufferType
  <2> QED
    BY <1>3, <1>4, <2>1, <2>2 DEF AssignPartition
<1>5. ASSUME NEW w \in Workers, NEW p \in Partitions, AssignmentThrows(w, p) PROVE BufferType'
  <2>1. PICK position \in logStart[p]..Greatest(logStart[p], stored[p]) :
          lo' = [lo EXCEPT ![w][p] = position] /\ hi' = [hi EXCEPT ![w][p] = position]
    BY <1>5 DEF AssignmentThrows
  <2>2. position \in Nat /\ 1 <= position /\ position <= Len(Log[p]) + 1
    BY <1>0, <2>1, LogType DEF KafkaType, WarehouseType, Greatest
  <2>3. has' \in [Workers -> SUBSET Partitions] /\ held' \in [Workers -> SUBSET Partitions]
    BY <1>0, <1>5 DEF AssignmentThrows, LeaveIsolation, ApplyHolds, BufferType, TypeInv, WorkerType
  <2> QED
    BY <1>3, <2>1, <2>2, <2>3
<1>6. ASSUME NEW w \in Workers, NEW p \in Partitions, RefusePartition(w, p) PROVE BufferType'
  BY <1>6, StopTyped DEF RefusePartition
<1>7. ASSUME NEW w \in Workers, Crash(w) PROVE BufferType'
  BY <1>7, StopTyped DEF Crash
<1>8. ASSUME NEW w \in Workers, NEW p \in Partitions, RevokePartition(w, p) PROVE BufferType'
  BY <1>8, DropTyped DEF RevokePartition
<1>9. ASSUME NEW w \in Workers, LosePartitions(w) PROVE BufferType'
  <2> DEFINE lost == {p \in has[w] : owner[p] # w}
  <2>1. lost \in SUBSET Partitions
    BY <1>0 DEF BufferType
  <2>2. Drop(w, lost)
    BY <1>9 DEF LosePartitions
  <2> QED
    BY <2>1, <2>2, DropTyped
<1>10. ASSUME NEW w \in Workers, NEW p \in Partitions, Poll(w, p) PROVE BufferType'
  BY <1>0, <1>10, LogType DEF Poll, CanPoll, BufferType
<1>11. ASSUME NEW w \in Workers, NEW p \in Partitions, PollReset(w, p) PROVE BufferType'
  <2>1. logStart[p] \in Nat /\ 1 <= logStart[p] /\ logStart[p] <= Len(Log[p]) + 1
    BY <1>0 DEF KafkaType
  <2>2. has' \in [Workers -> SUBSET Partitions] /\ held' \in [Workers -> SUBSET Partitions]
    BY <1>0, <1>11 DEF PollReset, BufferType
  <2> QED
    BY <1>3, <1>11, <2>1, <2>2 DEF PollReset
<1>12. ASSUME NEW w \in Workers, NEW xs \in SUBSET Recs, RemoveProcessed(w, xs),
              UNCHANGED <<has, hi>>, held' \in [Workers -> SUBSET Partitions]
       PROVE  BufferType'
  <2>1. lo' \in [Workers -> [Partitions -> Nat]]
        /\ \A v \in Workers, p \in Partitions : lo[v][p] <= lo'[v][p] /\ lo'[v][p] <= hi[v][p]
    BY <1>0, <1>12, RemoveTyped
  <2> QED
    BY <1>0, <1>12, <2>1 DEF BufferType
<1>13. ASSUME NEW w \in Workers, WriteBatch(w) PROVE BufferType'
  <2>1. Batch(w, snap[w]) \in BatchType
    BY <1>0, BatchTyped DEF TypeInv, CacheType
  <2>2. held' \in [Workers -> SUBSET Partitions]
    BY <1>0, <1>13 DEF WriteBatch, ApplyHolds, BufferType
  <2> QED
    BY <1>12, <1>13, <2>1, <2>2, TakenIs DEF WriteBatch
<1>14. ASSUME NEW w \in Workers, IsolateApply(w) \/ Quarantine(w) PROVE BufferType'
  <2>1. Part(w) \in BatchType
    BY <1>14, PartTyped DEF IsolateApply, Quarantine, QuarantineCommits, Culprit
  <2>2. Taken(Part(w)) \in SUBSET Recs /\ Part(w).recs \in SUBSET Recs
    BY <2>1, TakenIs DEF BatchType
  <2> QED
    BY <1>0, <1>12, <1>14, <2>2 DEF IsolateApply, Quarantine, BufferType
<1>15. ASSUME NEW w \in Workers,
              \/ TripQuarantine(w) \/ IsolateDone(w) \/ IsolateFenced(w) \/ IsolateInterrupted(w)
       PROVE  BufferType'
  <2>1. ApplyHolds(w, iso[w].held) \/ UNCHANGED held
    BY <1>15 DEF TripQuarantine, IsolateDone, IsolateFenced, IsolateInterrupted, LeaveIsolation
  <2>2. UNCHANGED <<has, lo, hi>>
    BY <1>15 DEF TripQuarantine, IsolateDone, IsolateFenced, IsolateInterrupted
  <2>3. iso[w].held \in SUBSET Partitions
    BY DEF TypeInv, WorkerType
  <2> QED
    BY <1>1, <1>2, <2>1, <2>2, <2>3 DEF buffers
<1>16. ASSUME NEW w \in Workers,
              \/ Evict(w) \/ RouteBatch(w) \/ Fenced(w) \/ RejectBatch(w) \/ IsolateSplit(w)
              \/ LoadSources(w) \/ LoadFlags(w) \/ LoadFails(w) \/ PublishFails(w)
              \/ WriteInterrupted(w)
       PROVE  BufferType'
  BY <1>1, <1>16 DEF Evict, RouteBatch, Fenced, RejectBatch, IsolateSplit,
       LoadSources, LoadFlags, LoadFails, PublishFails, WriteInterrupted
<1>17. ASSUME NEW p \in Partitions, Expire(p) PROVE BufferType'
  BY <1>1, <1>17 DEF Expire
<1>18. CASE Operators
  BY <1>1, <1>18, OperatorsTyped DEF Frame
<1>19. CASE UNCHANGED vars
  BY <1>1, <1>19 DEF vars
<1> QED
  BY <1>4, <1>5, <1>6, <1>7, <1>8, <1>9, <1>10, <1>11, <1>13, <1>14, <1>15, <1>16, <1>17, <1>18, <1>19
     DEF Next, Group, Loop, Failure, Isolate

LEMMA StepCaches ==
    ASSUME TypeInv, [Next]_vars
    PROVE  CacheType'
<1>0. CacheType /\ gen \in [Sources -> Nat] /\ flag \in [Sources -> OwnershipRow({}, {})]
  BY DEF TypeInv, WarehouseType
<1>1. CASE UNCHANGED <<caches, snap>>
  BY <1>0, <1>1 DEF CacheType, caches
<1>2. ASSUME NEW w \in Workers, LoadSources(w) PROVE CacheType'
  BY <1>0, <1>2 DEF LoadSources, CacheType
<1>3. ASSUME NEW w \in Workers, LoadFlags(w) PROVE CacheType'
  <2> DEFINE new == [gen |-> loading[w].gen, entry |-> [s \in Sources |-> CacheEntry(flag[s])]]
  <2>1. new \in View
    BY <1>0, CacheEntryType DEF View, CacheType
  <2>2. view' = [view EXCEPT ![w] = new] /\ loading' = [loading EXCEPT ![w] = NotLoading]
        /\ (snap' = snap \/ snap' = [snap EXCEPT ![w] = view'[w]])
    BY <1>3 DEF LoadFlags, Refreshed
  <2> HIDE DEF new
  <2>3. view' \in [Workers -> View] /\ view'[w] \in View
    BY <1>0, <2>1, <2>2 DEF CacheType
  <2> QED
    BY <1>0, <2>2, <2>3, EmptyViewType DEF CacheType
<1>4. ASSUME NEW w \in Workers, LoadFails(w) PROVE CacheType'
  <2>1. loading' = [loading EXCEPT ![w] = NotLoading] /\ view' = view
        /\ (snap' = snap \/ snap' = [snap EXCEPT ![w] = view'[w]])
    BY <1>4 DEF LoadFails, Refreshed
  <2> QED
    BY <1>0, <2>1, EmptyViewType DEF CacheType
<1>5. ASSUME NEW w \in Workers, NEW v \in View, snap' = [snap EXCEPT ![w] = v],
             UNCHANGED view, UNCHANGED loading \/ loading' = [loading EXCEPT ![w] = NotLoading]
      PROVE  CacheType'
  BY <1>0, <1>5, EmptyViewType DEF CacheType
<1>6. ASSUME NEW w \in Workers,
             RouteBatch(w) \/ WriteBatch(w) \/ WriteInterrupted(w) \/ RejectBatch(w)
      PROVE  CacheType'
  <2>1. UNCHANGED caches
    BY <1>6 DEF RouteBatch, WriteBatch, WriteInterrupted, RejectBatch
  <2>2. snap' = [snap EXCEPT ![w] = EmptyView] \/ snap' = [snap EXCEPT ![w] = view[w]]
    BY <1>6 DEF RouteBatch, WriteBatch, WriteInterrupted, RejectBatch
  <2> QED
    BY <1>0, <1>5, <2>1, <2>2, EmptyViewType DEF caches, CacheType
<1>7. ASSUME NEW w \in Workers,
             \/ Fenced(w) \/ TripQuarantine(w) \/ IsolateDone(w) \/ IsolateFenced(w) \/ IsolateInterrupted(w)
      PROVE  CacheType'
  <2>1. UNCHANGED view /\ (UNCHANGED loading \/ loading' = [loading EXCEPT ![w] = NotLoading])
    BY <1>7 DEF Fenced, TripQuarantine, IsolateDone, IsolateFenced, IsolateInterrupted, caches
  <2>2. snap' = [snap EXCEPT ![w] = EmptyView] \/ snap' = [snap EXCEPT ![w] = snap[w]]
    BY <1>0, <1>7 DEF Fenced, TripQuarantine, IsolateDone, IsolateFenced, IsolateInterrupted,
                      LeaveIsolation, CacheType
  <2> QED
    BY <1>0, <1>5, <2>1, <2>2, EmptyViewType DEF CacheType
<1>8. ASSUME NEW w \in Workers, NEW p \in Partitions, AssignmentThrows(w, p) PROVE CacheType'
  BY <1>5, <1>8, EmptyViewType DEF AssignmentThrows, LeaveIsolation, caches
<1>9. ASSUME NEW w \in Workers, NEW p \in Partitions, RefusePartition(w, p) PROVE CacheType'
  BY <1>9, StopTyped DEF RefusePartition
<1>10. ASSUME NEW w \in Workers, Crash(w) PROVE CacheType'
  BY <1>10, StopTyped DEF Crash
<1>11. ASSUME NEW w \in Workers, NEW p \in Partitions,
              \/ AssignPartition(w, p) \/ RevokePartition(w, p) \/ Poll(w, p) \/ PollReset(w, p)
       PROVE  CacheType'
  BY <1>1, <1>11 DEF AssignPartition, RevokePartition, Poll, PollReset
<1>12. ASSUME NEW w \in Workers,
              \/ Evict(w) \/ LosePartitions(w) \/ PublishFails(w) \/ IsolateApply(w)
              \/ IsolateSplit(w) \/ Quarantine(w)
       PROVE  CacheType'
  BY <1>1, <1>12 DEF Evict, LosePartitions, PublishFails, IsolateApply, IsolateSplit, Quarantine
<1>13. ASSUME NEW p \in Partitions, Expire(p) PROVE CacheType'
  BY <1>1, <1>13 DEF Expire
<1>14. CASE Operators
  BY <1>1, <1>14, OperatorsTyped DEF Frame
<1>15. CASE UNCHANGED vars
  BY <1>1, <1>15 DEF vars
<1> QED
  BY <1>2, <1>3, <1>4, <1>6, <1>7, <1>8, <1>9, <1>10, <1>11, <1>12, <1>13, <1>14, <1>15
     DEF Next, Group, Loop, Failure, Isolate

\* The quarantine limit of a batch is a number.
LEMMA LimitIsNatural ==
    ASSUME NEW n \in Nat
    PROVE  QuarantineLimit(n) \in Nat
<1> DEFINE ratio == (QuarantinePercent * n + 99) \div 100
           rows == Min({QuarantineRows, ratio})
<1>1. ratio \in Nat /\ QuarantineRows \in Nat
  <2>1. QuarantinePercent * n \in Nat
    BY SinkAssumption DEF SinkAssumption
  <2> HIDE DEF SinkAssumption
  <2> QED
    BY <2>1, SinkAssumption DEF SinkAssumption
<1> HIDE DEF ratio
<1>2. \E x \in {QuarantineRows, ratio} : \A y \in {QuarantineRows, ratio} : x <= y
  BY <1>1
<1>3. rows \in {QuarantineRows, ratio}
  BY <1>2 DEF Min
<1>4. rows \in Nat
  BY <1>1, <1>3
<1> HIDE DEF rows
<1>5. \E x \in {1, rows} : \A y \in {1, rows} : x >= y
  BY <1>4
<1>6. Max({1, rows}) \in {1, rows}
  BY <1>5 DEF Max
<1> QED
  BY <1>4, <1>6 DEF QuarantineLimit, rows, ratio

LEMMA StepWorkers ==
    ASSUME TypeInv, [Next]_vars
    PROVE  WorkerType'
<1> DEFINE Iso == [work : Seq(SUBSET Recs), held : SUBSET Partitions, left : Nat]
           Pc == {"reload", "idle", "routed", "isolating", "fenced", "stopped"}
<1>0. WorkerType /\ pc \in [Workers -> Pc] /\ iso \in [Workers -> Iso] /\ tripped \in [Workers -> BOOLEAN]
  BY DEF TypeInv, WorkerType
<1>1. CASE UNCHANGED <<pc, isolation>>
  BY <1>0, <1>1 DEF WorkerType, isolation
<1>2. ASSUME NEW w \in Workers, NEW next \in Pc, NEW i \in Iso, NEW b \in BOOLEAN,
             pc' = [pc EXCEPT ![w] = next], iso' = [iso EXCEPT ![w] = i],
             tripped' = [tripped EXCEPT ![w] = b]
      PROVE  WorkerType'
  BY <1>0, <1>2 DEF WorkerType
<1>3. NotIsolating \in Iso
  BY DEF NotIsolating
<1>4. ASSUME NEW w \in Workers
      PROVE  /\ pc[w] \in Pc /\ iso[w] \in Iso /\ tripped[w] \in BOOLEAN
             /\ iso[w].work \in Seq(SUBSET Recs) /\ iso[w].held \in SUBSET Partitions /\ iso[w].left \in Nat
             /\ pc = [pc EXCEPT ![w] = pc[w]] /\ iso = [iso EXCEPT ![w] = iso[w]]
             /\ tripped = [tripped EXCEPT ![w] = tripped[w]]
  BY <1>0
<1>5. ASSUME NEW w \in Workers, LoadFlags(w) \/ LoadFails(w) PROVE WorkerType'
  <2>1. UNCHANGED isolation /\ (Refreshed(w) \/ UNCHANGED pc)
    BY <1>5 DEF LoadFlags, LoadFails
  <2>2. CASE Refreshed(w)
    <3>1. pc' \in [Workers -> Pc]
      BY <1>0, <2>2 DEF Refreshed
    <3> QED
      BY <1>0, <2>1, <3>1 DEF WorkerType, isolation
  <2> QED
    BY <1>1, <2>1, <2>2
<1>6. ASSUME NEW w \in Workers,
             RouteBatch(w) \/ WriteInterrupted(w) \/ Fenced(w)
      PROVE  WorkerType'
  <2>1. UNCHANGED isolation /\ \E next \in Pc : pc' = [pc EXCEPT ![w] = next]
    BY <1>6 DEF RouteBatch, WriteInterrupted, Fenced
  <2>2. pc' \in [Workers -> Pc]
    BY <1>0, <2>1
  <2> QED
    BY <1>0, <2>1, <2>2 DEF isolation, WorkerType
<1>7. ASSUME NEW w \in Workers, WriteBatch(w) PROVE WorkerType'
  BY <1>2, <1>4, <1>7 DEF WriteBatch
<1>8. ASSUME NEW w \in Workers, RejectBatch(w) PROVE WorkerType'
  <2> DEFINE i == [work |-> <<Buffered(w)>>, held |-> {},
                   left |-> QuarantineLimit(Cardinality(Buffered(w)))]
  <2>1. Buffered(w) \subseteq Recs
    BY BatchTyped, EmptyViewType DEF TypeInv
  <2>2. Cardinality(Buffered(w)) \in Nat
    BY <2>1, RecsAreFinite, FS_Subset, FS_CardinalityType
  <2>3. i \in Iso
    <3>1. <<Buffered(w)>> \in Seq(SUBSET Recs)
      BY <2>1
    <3> QED
      BY <2>2, <3>1, LimitIsNatural
  <2>4. /\ UNCHANGED tripped
        /\ \/ iso' = [iso EXCEPT ![w] = i] /\ pc' = [pc EXCEPT ![w] = "isolating"]
           \/ UNCHANGED iso /\ pc' = [pc EXCEPT ![w] = "idle"]
    BY <1>8 DEF RejectBatch
  <2> HIDE DEF i, Iso
  <2>5. iso' \in [Workers -> Iso] /\ pc' \in [Workers -> Pc]
    BY <1>0, <2>3, <2>4
  <2> QED
    BY <1>0, <2>4, <2>5 DEF WorkerType, Iso
<1>9. ASSUME NEW w \in Workers, IsolateApply(w) PROVE WorkerType'
  <2>1. Part(w) \in BatchType /\ iso[w].work # <<>>
    BY <1>9, PartTyped DEF IsolateApply, Isolating
  <2>2. Holding(Part(w)) \in SUBSET Partitions /\ Tail(iso[w].work) \in Seq(SUBSET Recs)
    BY <1>4, <2>1, TakenIs
  <2>3. UNCHANGED <<pc, tripped>> /\ iso' = [iso EXCEPT ![w].work = Tail(@), ![w].held = Holding(Part(w))]
    BY <1>9 DEF IsolateApply
  <2>4. iso' \in [Workers -> Iso]
    BY <1>0, <2>2, <2>3
  <2> QED
    BY <1>0, <2>3, <2>4 DEF WorkerType
<1>10. ASSUME NEW w \in Workers, Quarantine(w) PROVE WorkerType'
  <2>1. iso[w].work # <<>> /\ iso[w].left > 0
    BY <1>10 DEF Quarantine, QuarantineCommits, Culprit, Isolating
  <2>2. iso[w].left - 1 \in Nat /\ Tail(iso[w].work) \in Seq(SUBSET Recs)
    BY <1>4, <2>1
  <2>3. UNCHANGED <<pc, tripped>> /\ iso' = [iso EXCEPT ![w].work = Tail(@), ![w].left = @ - 1]
    BY <1>10 DEF Quarantine
  <2>4. iso' \in [Workers -> Iso]
    BY <1>0, <2>2, <2>3
  <2> QED
    BY <1>0, <2>3, <2>4 DEF WorkerType
<1>11. ASSUME NEW w \in Workers, IsolateSplit(w) PROVE WorkerType'
  <2> DEFINE part == Head(iso[w].work)
  <2>1. Isolating(w) /\ UNCHANGED <<pc, tripped>>
    BY <1>11 DEF IsolateSplit
  <2>2. PICK first \in SUBSET part : iso' = [iso EXCEPT ![w].work = <<first, part \ first>> \o Tail(@)]
    BY <1>11 DEF IsolateSplit
  <2>3. part \in SUBSET Recs /\ iso[w].work # <<>>
    BY <2>1, PartTyped DEF Isolating
  <2>4. first \in SUBSET Recs /\ part \ first \in SUBSET Recs
    BY <2>2, <2>3
  <2> DEFINE work == <<first, part \ first>> \o Tail(iso[w].work)
  <2>5. work \in Seq(SUBSET Recs)
    <3>1. <<first, part \ first>> \in Seq(SUBSET Recs)
      BY <2>4
    <3>2. Tail(iso[w].work) \in Seq(SUBSET Recs)
      BY <1>4, <2>3
    <3> HIDE DEF part
    <3> QED
      BY <3>1, <3>2
  <2>6. iso' = [iso EXCEPT ![w].work = work]
    BY <2>2
  <2> HIDE DEF work
  <2>7. iso' \in [Workers -> Iso]
    BY <1>0, <2>5, <2>6
  <2> QED
    BY <1>0, <2>1, <2>7 DEF WorkerType
<1>12. ASSUME NEW w \in Workers, NEW next \in Pc, LeaveIsolation(w, next),
              UNCHANGED tripped \/ tripped' = [tripped EXCEPT ![w] = TRUE]
       PROVE  WorkerType'
  BY <1>2, <1>3, <1>4, <1>12 DEF LeaveIsolation
<1>13. ASSUME NEW w \in Workers, TripQuarantine(w) \/ IsolateDone(w) \/ IsolateInterrupted(w)
       PROVE  WorkerType'
  BY <1>12, <1>13 DEF TripQuarantine, IsolateDone, IsolateInterrupted
<1>14. ASSUME NEW w \in Workers, IsolateFenced(w) PROVE WorkerType'
  <2>1. CASE LeaveIsolation(w, "reload")
    BY <1>12, <1>14, <2>1 DEF IsolateFenced
  <2>2. CASE pc' = [pc EXCEPT ![w] = "fenced"] /\ UNCHANGED iso
    BY <1>2, <1>4, <1>14, <2>2 DEF IsolateFenced
  <2> QED
    BY <1>14, <2>1, <2>2 DEF IsolateFenced
<1>15. ASSUME NEW w \in Workers, NEW p \in Partitions, AssignmentThrows(w, p) PROVE WorkerType'
  BY <1>12, <1>15 DEF AssignmentThrows
<1>16. ASSUME NEW w \in Workers, NEW p \in Partitions, RefusePartition(w, p) PROVE WorkerType'
  BY <1>16, StopTyped DEF RefusePartition
<1>17. ASSUME NEW w \in Workers, Crash(w) PROVE WorkerType'
  BY <1>17, StopTyped DEF Crash
<1>18. ASSUME NEW w \in Workers, NEW p \in Partitions, RevokePartition(w, p) PROVE WorkerType'
  BY <1>0, <1>18, DropTyped DEF RevokePartition, WorkerType
<1>19. ASSUME NEW w \in Workers, LosePartitions(w) PROVE WorkerType'
  <2> DEFINE lost == {p \in has[w] : owner[p] # w}
  <2>1. lost \in SUBSET Partitions
    BY DEF TypeInv, BufferType
  <2>2. Drop(w, lost) /\ UNCHANGED <<pc, tripped>>
    BY <1>19 DEF LosePartitions
  <2> HIDE DEF lost
  <2> QED
    BY <1>0, <2>1, <2>2, DropTyped DEF WorkerType
<1>20. ASSUME NEW w \in Workers, NEW p \in Partitions,
              AssignPartition(w, p) \/ Poll(w, p) \/ PollReset(w, p)
       PROVE  WorkerType'
  BY <1>1, <1>20 DEF AssignPartition, Poll, PollReset
<1>21. ASSUME NEW w \in Workers, Evict(w) \/ PublishFails(w) \/ LoadSources(w) PROVE WorkerType'
  BY <1>1, <1>21 DEF Evict, PublishFails, LoadSources
<1>22. ASSUME NEW p \in Partitions, Expire(p) PROVE WorkerType'
  BY <1>1, <1>22 DEF Expire
<1>23. CASE Operators
  BY <1>1, <1>23, OperatorsTyped DEF Frame
<1>24. CASE UNCHANGED vars
  BY <1>1, <1>24 DEF vars
<1> QED
  BY <1>5, <1>6, <1>7, <1>8, <1>9, <1>10, <1>11, <1>13, <1>14, <1>15, <1>16, <1>17, <1>18,
     <1>19, <1>20, <1>21, <1>22, <1>23, <1>24
     DEF Next, Group, Loop, Failure, Isolate

LEMMA StepFaults ==
    ASSUME TypeInv, [Next]_vars
    PROVE  faults' \in 0..MaxFaults
<1>1. MaxFaults \in Nat /\ faults \in 0..MaxFaults
  BY SinkAssumption DEF SinkAssumption, TypeInv
<1>2. ASSUME NEW w \in Workers, NEW p \in Partitions,
             \/ AssignPartition(w, p) \/ RefusePartition(w, p) \/ RevokePartition(w, p)
             \/ AssignmentThrows(w, p) \/ Poll(w, p) \/ PollReset(w, p)
      PROVE  faults' = faults \/ (faults < MaxFaults /\ faults' = faults + 1)
  BY <1>2 DEF AssignPartition, RefusePartition, RevokePartition, AssignmentThrows, Poll, PollReset
<1>3. ASSUME NEW w \in Workers,
             \/ Evict(w) \/ LosePartitions(w) \/ RouteBatch(w) \/ WriteBatch(w) \/ Fenced(w)
             \/ RejectBatch(w) \/ Isolate(w) \/ LoadSources(w) \/ LoadFlags(w) \/ LoadFails(w)
             \/ PublishFails(w) \/ WriteInterrupted(w) \/ IsolateInterrupted(w) \/ Crash(w)
      PROVE  faults' = faults \/ (faults < MaxFaults /\ faults' = faults + 1)
  BY <1>3 DEF Evict, LosePartitions, RouteBatch, WriteBatch, Fenced, RejectBatch, Isolate,
       IsolateApply, IsolateSplit, IsolateFenced, Quarantine, TripQuarantine, IsolateDone,
       LoadSources, LoadFlags, LoadFails, PublishFails, WriteInterrupted, IsolateInterrupted, Crash
<1>4. ASSUME NEW p \in Partitions, Expire(p) PROVE faults' = faults
  BY <1>4 DEF Expire
<1>5. CASE Operators
  BY <1>1, <1>5, OperatorsTyped DEF Frame
<1>6. CASE UNCHANGED vars
  BY <1>1, <1>6 DEF vars
<1>7. CASE faults' = faults \/ (faults < MaxFaults /\ faults' = faults + 1)
  BY <1>1, <1>7
<1> QED
  BY <1>2, <1>3, <1>4, <1>5, <1>6, <1>7 DEF Next, Group, Loop, Failure

LEMMA InitTypes ==
    ASSUME Init
    PROVE  TypeInv
<1>1. WarehouseType
  <2>1. ASSUME NEW e \in Engine \cup {"unregistered"}
        PROVE  FlagOf(e) \in OwnershipRow({}, {})
    <3>1. FreshRow \in OwnershipRow({}, {}) /\ NoFlag \in OwnershipRow({}, {})
      BY DEF FreshRow, NoFlag, OwnershipRow, Engine, CutoverState
    <3>2. e \in Engine => Assign(FreshRow, e) \in OwnershipRow({}, {})
      BY <3>1, RequestRows
    <3> QED
      BY <3>1, <3>2 DEF FlagOf
  <2>2. flag \in [Sources -> OwnershipRow({}, {})] /\ gen \in [Sources -> Nat]
    BY <2>1, SinkAssumption DEF Init, SinkAssumption
  <2>3. raw \in [Targets -> [Sources -> [Keys -> [gen : Nat, lsn : Nat, deleted : BOOLEAN]]]]
    BY DEF Init, Nothing, Absent
  <2> QED
    BY <2>2, <2>3, LogType DEF Init, WarehouseType, FateType
<1>2. KafkaType /\ BufferType
  BY LogType DEF Init, KafkaType, BufferType
<1>3. CacheType
  BY EmptyViewType DEF Init, CacheType
<1>4. WorkerType
  BY DEF Init, WorkerType, NotIsolating
<1> QED
  BY <1>1, <1>2, <1>3, <1>4, SinkAssumption DEF Init, TypeInv, SinkAssumption

LEMMA StepTypes ==
    ASSUME TypeInv, [Next]_vars
    PROVE  TypeInv'
  BY StepWarehouse, StepKafka, StepBuffers, StepCaches, StepWorkers, StepFaults DEF TypeInv

LEMMA TypesAreOK ==
    ASSUME TypeInv
    PROVE  TypeOK
<1>1. ASSUME NEW s \in Seq(SUBSET Recs) PROVE s \in Seq(SUBSET (Partitions \X Nat))
  BY DEF Recs
<1>2. iso \in [Workers -> [work : Seq(SUBSET (Partitions \X Nat)), held : SUBSET Partitions, left : Nat]]
  BY <1>1 DEF TypeInv, WorkerType
<1> QED
  BY <1>2 DEF TypeInv, TypeOK, WarehouseType, KafkaType, BufferType, CacheType, WorkerType, FateType

LEMMA TypesInvariant == Spec => []TypeInv
<1>1. Init => TypeInv
  BY InitTypes
<1>2. TypeInv /\ [Next]_vars => TypeInv'
  BY StepTypes
<1> QED
  BY <1>1, <1>2, PTL DEF Spec

\* The sink is well typed, for every topic, group of workers and policy: no
\* step leaves the values its variables may have, and positions, stored offsets
\* and parts of a batch stay within the log.
THEOREM SinkTypes == Spec => []TypeOK
<1>1. TypeInv => TypeOK
  BY TypesAreOK
<1> QED
  BY <1>1, TypesInvariant, PTL

-----------------------------------------------------------------------------
(***************************************************************************)
(* What a step may never do.                                               *)
(***************************************************************************)

LEMMA StepOffsets ==
    ASSUME TypeInv, [Next]_vars
    PROVE  \A p \in Partitions : stored'[p] >= stored[p]
<1>0. WarehouseType /\ \A p \in Partitions : stored[p] \in Nat
  BY DEF TypeInv, WarehouseType
<1>1. CASE UNCHANGED stored
  BY <1>0, <1>1
<1>2. ASSUME NEW xs \in SUBSET Recs, StoreOffsets(xs)
      PROVE  \A p \in Partitions : stored'[p] >= stored[p]
  BY <1>0, <1>2, StoreOffsetsTyped
<1>3. ASSUME NEW w \in Workers, Writes(w) PROVE \E xs \in SUBSET Recs : StoreOffsets(xs)
  BY <1>3, WritesTyped, TakenIs DEF Write
<1>4. ASSUME NEW w \in Workers, QuarantineCommits(w) PROVE \E xs \in SUBSET Recs : StoreOffsets(xs)
  BY <1>4, PartTyped DEF QuarantineCommits, Culprit, BatchType
<1>5. CASE Operators
  BY <1>1, <1>5, OperatorsTyped DEF Frame
<1>6. CASE UNCHANGED <<warehouse, fate>> \/ Publishes
  BY <1>1, <1>6 DEF warehouse, Publishes
<1> QED
  BY <1>2, <1>3, <1>4, <1>5, <1>6, WarehouseSteps

\* No worker, however stale, moves a stored offset back, for any number of
\* workers and whatever they believe to be assigned: the GREATEST of the upsert
\* into meta.consumer_offsets is enough.
THEOREM OffsetsOnlyGrow == Spec => OffsetsNeverRegress
<1>1. TypeInv /\ [Next]_vars => [\A p \in Partitions : stored'[p] >= stored[p]]_vars
  BY StepOffsets
<1> QED
  BY <1>1, TypesInvariant, PTL DEF Spec, OffsetsNeverRegress

\* A write changes a copy only if it staged an event for it.
LEMMA WriteChanges ==
    ASSUME WarehouseType, NEW b \in BatchType, NEW before, Write(b, before),
           NEW t \in Targets, NEW s \in Sources, raw'[t][s] # raw[t][s]
    PROVE  \E x \in TakenAs(b, t) : At(x).source = s
<1>1. raw' = Applied(b)
  BY DEF Write
<1>2. Applied(b)[t][s] = [k \in Keys |-> Applied(b)[t][s][k]]
  BY DEF Applied
<1>3. raw[t][s] = [k \in Keys |-> raw[t][s][k]]
  BY DEF WarehouseType
<1>4. PICK k \in Keys : Applied(b)[t][s][k] # raw[t][s][k]
  BY <1>1, <1>2, <1>3
<1> QED
  BY <1>4, AppliedIs

\* What OnlyTheOwnerWrites says of a step.
OwnerWrites ==
    \A s \in Sources : flag'[s] = flag[s] /\ flag[s].epoch # 0 =>
         /\ raw'["prod"][s] # raw["prod"][s] =>
              flag[s].engine = "KAFKA" /\ flag[s].state # "PAUSED"
         /\ raw'["shadow"][s] # raw["shadow"][s] =>
              flag[s].shadow = "KAFKA" /\ flag[s].state # "PAUSED"

LEMMA StepOwner ==
    ASSUME TypeInv, [Next]_vars
    PROVE  OwnerWrites
<1>0. WarehouseType /\ "prod" \in Targets /\ "shadow" \in Targets
  BY DEF TypeInv, Targets
<1>1. CASE UNCHANGED raw
  BY <1>1 DEF OwnerWrites
<1>2. ASSUME NEW w \in Workers, Writes(w) PROVE OwnerWrites
  <2>0. PICK b \in BatchType : \E before : Write(b, before)
    BY <1>2, WritesTyped
  <2>1. PICK before : Write(b, before)
    BY <2>0
  <2>2. ASSUME NEW s \in Sources, NEW t \in Targets, raw'[t][s] # raw[t][s]
        PROVE  /\ flag[s].state # "PAUSED"
               /\ t = "prod" => flag[s].engine = "KAFKA"
               /\ t = "shadow" => flag[s].shadow = "KAFKA"
    <3>1. PICK x \in TakenAs(b, t) : At(x).source = s
      BY <1>0, <2>1, <2>2, WriteChanges
    <3>2. FenceAccepts(flag[s], "KAFKA", t, EpochUsed(b, x))
      BY <2>1, <3>1 DEF Write, Accepted, FlagAt
    <3> QED
      BY <3>2 DEF FenceAccepts
  <2> QED
    BY <1>0, <2>2 DEF OwnerWrites
<1>3. ASSUME NEW w \in Workers, QuarantineCommits(w) PROVE OwnerWrites
  BY <1>1, <1>3 DEF QuarantineCommits
<1>4. CASE Operators
  <2>1. PICK s \in Sources : Operates(s)
    BY <1>4, OperatorsAre
  <2>2. FlagMoves(s)
    BY <2>1, OperatorSteps
  <2>3. ASSUME NEW new, IsRequest(s, new), OnlyCopiesOf(s) PROVE OwnerWrites
    <3>1. flag'[s].epoch # flag[s].epoch
      BY <1>0, <2>3 DEF IsRequest, WarehouseType, OwnershipRow
    <3> QED
      BY <1>0, <2>3, <3>1 DEF OnlyCopiesOf, OwnerWrites
  <2> QED
    BY <1>1, <2>2, <2>3 DEF FlagMoves
<1>5. CASE UNCHANGED <<warehouse, fate>> \/ Publishes
  BY <1>1, <1>5 DEF warehouse, Publishes
<1> QED
  BY <1>2, <1>3, <1>4, <1>5, WarehouseSteps

\* The sink writes a copy of a table only while its flag gives that copy to
\* KAFKA and is not PAUSED, whatever the caches of however many workers say: the
\* fence of meta.apply_staged_batch, inside the transaction, decides.
THEOREM SinkWritesAsOwner == Spec => OnlyTheOwnerWrites
<1>1. TypeInv /\ [Next]_vars => [OwnerWrites]_vars
  BY StepOwner
<1> QED
  BY <1>1, TypesInvariant, PTL DEF Spec, OnlyTheOwnerWrites, OwnerWrites

-----------------------------------------------------------------------------
(***************************************************************************)
(* Skips.  A cached entry either gives KAFKA a part in the table or is the *)
(* missing one, of epoch 0; a flag of epoch 0 is a row that does not exist *)
(* and gives no engine a part; a source that is not registered has no      *)
(* rows.                                                                   *)
(***************************************************************************)

KafkaEntries(v) == \A s \in Sources : v.entry[s] = NoEntry \/ "KAFKA" \in {v.entry[s].engine, v.entry[s].shadow}

FlagsStart ==
    \A s \in Sources :
        /\ flag[s].epoch = 0 => flag[s].engine = "NONE" /\ flag[s].shadow = NoEngine
        /\ gen[s] = 0 => flag[s].epoch = 0

CachesHoldKafka == \A w \in Workers : KafkaEntries(view[w]) /\ KafkaEntries(snap[w])

SkipInv == TypeInv /\ FlagsStart /\ CachesHoldKafka

LEMMA EmptyViewKafka == KafkaEntries(EmptyView)
  BY DEF KafkaEntries, EmptyView

LEMMA StepFlagsStart ==
    ASSUME TypeInv, FlagsStart, [Next]_vars
    PROVE  FlagsStart'
<1>0. flag \in [Sources -> OwnershipRow({}, {})] /\ gen \in [Sources -> Nat]
  BY DEF TypeInv, WarehouseType
<1>1. CASE UNCHANGED <<flag, gen>>
  BY <1>1 DEF FlagsStart
<1>2. CASE Operators
  <2>1. PICK s \in Sources : Operates(s)
    BY <1>2, OperatorsAre
  <2>2. FlagMoves(s) /\ GenerationsGrow
    BY <2>1, OperatorSteps
  <2>3. \A r \in Sources : gen[r] \in Nat /\ gen'[r] \in Nat /\ gen[r] <= gen'[r]
    BY <1>0, <2>2 DEF GenerationsGrow
  <2>4. \A r \in Sources : gen'[r] = 0 => gen[r] = 0
    BY <2>3
  <2>5. ASSUME NEW new, IsRequest(s, new) PROVE FlagsStart'
    <3>1. flag[s].epoch \in Nat /\ new.epoch # 0 /\ flag[s].epoch # 0
      BY <1>0, <2>5 DEF IsRequest, OwnershipRow
    <3> QED
      BY <1>0, <2>4, <2>5, <3>1 DEF IsRequest, FlagsStart
  <2>6. ASSUME gen[s] # 0, flag' = [flag EXCEPT ![s] = FreshRow] PROVE FlagsStart'
    <3>1. FreshRow.epoch = 1
      BY DEF FreshRow
    <3> QED
      BY <1>0, <2>4, <2>6, <3>1 DEF FlagsStart
  <2>7. ASSUME UNCHANGED flag PROVE FlagsStart'
    BY <2>4, <2>7 DEF FlagsStart
  <2> QED
    BY <2>2, <2>5, <2>6, <2>7 DEF FlagMoves
<1>3. ASSUME NEW w \in Workers, Writes(w) \/ QuarantineCommits(w) PROVE FlagsStart'
  BY <1>1, <1>3 DEF Writes, Write, QuarantineCommits
<1>4. CASE UNCHANGED <<warehouse, fate>> \/ Publishes
  BY <1>1, <1>4 DEF warehouse, Publishes
<1> QED
  BY <1>2, <1>3, <1>4, WarehouseSteps

\* What a step does to the caches: it reads the flags, or copies a view.
ViewMoves ==
    \/ UNCHANGED view
    \/ \E w \in Workers : view' = [view EXCEPT ![w] = EmptyView]
    \/ \E w \in Workers :
         /\ loading[w].on
         /\ view' = [view EXCEPT ![w] = [gen |-> loading[w].gen,
                                         entry |-> [s \in Sources |-> CacheEntry(flag[s])]]]

SnapMoves ==
    \/ UNCHANGED snap
    \/ \E w \in Workers : \/ snap' = [snap EXCEPT ![w] = EmptyView]
                          \/ snap' = [snap EXCEPT ![w] = view[w]]
                          \/ snap' = [snap EXCEPT ![w] = view'[w]]

LEMMA CacheMoves ==
    ASSUME TypeInv, [Next]_vars
    PROVE  ViewMoves /\ SnapMoves
<1>1. ASSUME NEW w \in Workers, LoadFlags(w) \/ LoadFails(w) PROVE ViewMoves /\ SnapMoves
  BY <1>1 DEF ViewMoves, SnapMoves, LoadFlags, LoadFails, Refreshed
<1>2. ASSUME NEW w \in Workers,
             RouteBatch(w) \/ WriteBatch(w) \/ WriteInterrupted(w) \/ RejectBatch(w)
      PROVE  ViewMoves /\ SnapMoves
  BY <1>2 DEF ViewMoves, SnapMoves, RouteBatch, WriteBatch, WriteInterrupted, RejectBatch, caches
<1>3. ASSUME NEW w \in Workers,
             \/ Fenced(w) \/ TripQuarantine(w) \/ IsolateDone(w) \/ IsolateFenced(w) \/ IsolateInterrupted(w)
      PROVE  ViewMoves /\ SnapMoves
  BY <1>3 DEF ViewMoves, SnapMoves, Fenced, TripQuarantine, IsolateDone, IsolateFenced, IsolateInterrupted, LeaveIsolation, caches
<1>4. ASSUME NEW w \in Workers, NEW p \in Partitions, AssignmentThrows(w, p) PROVE ViewMoves /\ SnapMoves
  BY <1>4 DEF ViewMoves, SnapMoves, AssignmentThrows, LeaveIsolation, caches
<1>5. ASSUME NEW w \in Workers, NEW next, Stop(w, next) PROVE ViewMoves /\ SnapMoves
  BY <1>5 DEF ViewMoves, SnapMoves, Stop
<1>6. ASSUME NEW w \in Workers, NEW p \in Partitions,
              \/ AssignPartition(w, p) \/ RevokePartition(w, p) \/ Poll(w, p) \/ PollReset(w, p)
              \/ RefusePartition(w, p)
       PROVE  ViewMoves /\ SnapMoves
  BY <1>5, <1>6 DEF ViewMoves, SnapMoves, AssignPartition, RevokePartition, Poll, PollReset, RefusePartition, caches
<1>7. ASSUME NEW w \in Workers,
              \/ Evict(w) \/ LosePartitions(w) \/ PublishFails(w) \/ IsolateApply(w)
              \/ IsolateSplit(w) \/ Quarantine(w) \/ LoadSources(w) \/ Crash(w)
       PROVE  ViewMoves /\ SnapMoves
  BY <1>5, <1>7 DEF ViewMoves, SnapMoves, Evict, LosePartitions, PublishFails, IsolateApply, IsolateSplit, Quarantine,
                    LoadSources, Crash, caches
<1>8. ASSUME NEW p \in Partitions, Expire(p) PROVE ViewMoves /\ SnapMoves
  BY <1>8 DEF ViewMoves, SnapMoves, Expire, caches
<1>9. ASSUME Operators PROVE ViewMoves /\ SnapMoves
  BY <1>9, OperatorsTyped DEF ViewMoves, SnapMoves, Frame, caches
<1>10. ASSUME UNCHANGED vars PROVE ViewMoves /\ SnapMoves
  BY <1>10 DEF ViewMoves, SnapMoves, vars, caches
<1> QED
  BY <1>1, <1>2, <1>3, <1>4, <1>6, <1>7, <1>8, <1>9, <1>10 DEF Next, Group, Loop, Failure, Isolate

LEMMA StepCachesHoldKafka ==
    ASSUME TypeInv, CachesHoldKafka, [Next]_vars
    PROVE  CachesHoldKafka'
<1>0. view \in [Workers -> View] /\ snap \in [Workers -> View]
  BY DEF TypeInv, CacheType
<1>1. ASSUME NEW w \in Workers PROVE KafkaEntries(view'[w])
  <2>1. CASE view'[w] = view[w] \/ view'[w] = EmptyView
    BY <2>1, EmptyViewKafka DEF CachesHoldKafka
  <2>2. ASSUME NEW g, view'[w] = [gen |-> g, entry |-> [s \in Sources |-> CacheEntry(flag[s])]]
        PROVE  KafkaEntries(view'[w])
    BY <2>2 DEF KafkaEntries, CacheEntry
  <2> QED
    BY <1>0, <2>1, <2>2, CacheMoves DEF ViewMoves
<1>2. ASSUME NEW w \in Workers PROVE KafkaEntries(snap'[w])
  <2>1. snap'[w] \in {snap[w], EmptyView, view[w], view'[w]}
    BY <1>0, CacheMoves DEF SnapMoves
  <2> QED
    BY <1>1, <2>1, EmptyViewKafka DEF CachesHoldKafka
<1>3. ASSUME NEW w \in Workers PROVE KafkaEntries(view[w])' /\ KafkaEntries(snap[w])'
  BY <1>1, <1>2 DEF KafkaEntries
<1> QED
  BY <1>3 DEF CachesHoldKafka

LEMMA SkipInvariant == Spec => []SkipInv
<1>1. Init => SkipInv
  <2> SUFFICES ASSUME Init PROVE SkipInv
    OBVIOUS
  <2>1. CachesHoldKafka
    BY EmptyViewKafka DEF Init, CachesHoldKafka
  <2>2. ASSUME NEW s \in Sources
        PROVE  /\ flag[s].epoch = 0 => flag[s].engine = "NONE" /\ flag[s].shadow = NoEngine
               /\ gen[s] = 0 => flag[s].epoch = 0
    <3>1. flag[s] = FlagOf(InitialOwner[s])
          /\ gen[s] = IF InitialOwner[s] = "unregistered" THEN 0 ELSE 1
      BY DEF Init
    <3>2. NoFlag.engine = "NONE" /\ NoFlag.shadow = NoEngine /\ NoFlag.epoch = 0
          /\ FreshRow.engine = "NONE" /\ FreshRow.shadow = NoEngine
          /\ FreshRow.epoch # 0 /\ \A e : Assign(FreshRow, e).epoch # 0
      BY DEF NoFlag, FreshRow, Assign
    <3>3. FlagOf(InitialOwner[s]) = IF InitialOwner[s] = "unregistered" THEN NoFlag
                                    ELSE IF InitialOwner[s] = "NONE" THEN FreshRow
                                    ELSE Assign(FreshRow, InitialOwner[s])
      BY DEF FlagOf
    <3> QED
      BY <3>1, <3>2, <3>3
  <2> QED
    BY <2>1, <2>2, InitTypes DEF SkipInv, FlagsStart
<1>2. SkipInv /\ [Next]_vars => SkipInv'
  BY StepTypes, StepFlagsStart, StepCachesHoldKafka DEF SkipInv
<1> QED
  BY <1>1, <1>2, PTL DEF Spec

\* A batch that is written under the flags, by a snapshot that holds only the
\* tables of KAFKA, skips no record of a table in which KAFKA has a part.
LEMMA SkipsStandMeans ==
    ASSUME FlagsStart, NEW b \in BatchType, KafkaEntries(b.snap), Accepted(b),
           NEW x \in Taken(b), Disposition(b.snap, At(x)) \in {"skip", "unknown"}
    PROVE  "KAFKA" \notin {flag[At(x).source].engine, flag[At(x).source].shadow}
<1> DEFINE s == At(x).source
<1>1. s \in Sources
  BY TakenIs, LogType DEF Record
<1>2. flag[s].epoch = 0
  <2>1. CASE Disposition(b.snap, At(x)) = "unknown"
    <3>1. gen[s] = 0
      BY <2>1 DEF Accepted, SkipsStand, TakenAs
    <3> QED
      BY <1>1, <3>1 DEF FlagsStart
  <2>2. CASE Disposition(b.snap, At(x)) = "skip"
    <3>1. Route(b.snap.gen[s], b.snap.entry[s]) = "skip"
      BY <2>2 DEF Disposition
    <3>2. "KAFKA" \notin {b.snap.entry[s].engine, b.snap.entry[s].shadow}
      BY <3>1 DEF Route
    <3>3. b.snap.entry[s] = NoEntry
      BY <1>1, <3>2 DEF KafkaEntries
    <3>4. flag[s].epoch = b.snap.entry[s].epoch
      BY <2>2 DEF Accepted, SkipsStand, TakenAs, SkipIsCurrent, FlagAt, EpochUsed
    <3> QED
      BY <3>3, <3>4 DEF NoEntry
  <2> QED
    BY <2>1, <2>2
<1>3. flag[s].engine = "NONE" /\ flag[s].shadow = NoEngine
  BY <1>1, <1>2 DEF FlagsStart
<1> QED
  BY <1>3, NoEngineAssumption DEF Engine, Writers

\* What SkipsAreCurrent says of a step.
CurrentSkips ==
    \A p \in Partitions : \A i \in 1..Len(Log[p]) :
         "skipped" \in fate'[p][i] \ fate[p][i] =>
            LET o == flag[Log[p][i].source] IN "KAFKA" \notin {o.engine, o.shadow}

LEMMA StepSkips ==
    ASSUME SkipInv, [Next]_vars
    PROVE  CurrentSkips
<1>0. TypeInv /\ FlagsStart /\ CachesHoldKafka /\ FateType(fate)
  BY DEF SkipInv, TypeInv, WarehouseType
<1>1. ASSUME \A p \in Partitions : \A i \in 1..Len(Log[p]) : "skipped" \in fate'[p][i] => "skipped" \in fate[p][i]
      PROVE  CurrentSkips
  BY <1>1 DEF CurrentSkips
<1>2. ASSUME NEW xs PROVE \A p \in Partitions : \A i \in 1..Len(Log[p]) :
                            "skipped" \in Mark(xs, "dead")[p][i] => "skipped" \in fate[p][i]
  <2> SUFFICES ASSUME NEW p \in Partitions, NEW i \in 1..Len(Log[p]),
                      "skipped" \in Mark(xs, "dead")[p][i]
               PROVE  "skipped" \in fate[p][i]
    OBVIOUS
  <2>1. Mark(xs, "dead")[p][i] = IF <<p, i>> \in xs THEN fate[p][i] \cup {"dead"} ELSE fate[p][i]
    BY DEF Mark
  <2> QED
    BY <2>1
<1>3. CASE UNCHANGED <<warehouse, fate>> \/ Publishes
  BY <1>1, <1>2, <1>3 DEF Publishes
<1>4. ASSUME NEW w \in Workers, QuarantineCommits(w) PROVE CurrentSkips
  BY <1>1, <1>2, <1>4 DEF QuarantineCommits
<1>5. CASE Operators
  <2>1. PICK s \in Sources : Operates(s)
    BY <1>5, OperatorsAre
  <2>2. FatesMove
    BY <1>0, <2>1, OperatorSteps DEF CopiesTyped
  <2> QED
    BY <1>1, <2>2 DEF FatesMove
<1>6. ASSUME NEW w \in Workers, Writes(w) PROVE CurrentSkips
  <2>0. PICK b \in BatchType : \E before :
          /\ Write(b, before) /\ KafkaEntries(b.snap)
          /\ before = fate \/ before = Mark(Letters(b), "dead")
    <3>1. CASE pc[w] = "routed" /\ Write(Batch(w, snap[w]), fate)
      <4>1. Batch(w, snap[w]) \in BatchType /\ Batch(w, snap[w]).snap = snap[w]
        BY <1>0, BatchTyped DEF TypeInv, CacheType, Batch
      <4> QED
        BY <1>0, <3>1, <4>1 DEF CachesHoldKafka
    <3>2. CASE Isolating(w) /\ Write(Part(w), Published(w))
      <4>1. Part(w) \in BatchType /\ Part(w).snap = snap[w]
        BY <1>0, <3>2, PartTyped DEF Part
      <4> QED
        BY <1>0, <3>2, <4>1 DEF CachesHoldKafka, Published
    <3> QED
      BY <1>6, <3>1, <3>2 DEF Writes
  <2>1. PICK before : /\ Write(b, before) /\ KafkaEntries(b.snap)
                      /\ before = fate \/ before = Mark(Letters(b), "dead")
    BY <2>0
  <2>2. ASSUME NEW p \in Partitions, NEW i \in 1..Len(Log[p]), "skipped" \in fate'[p][i] \ fate[p][i]
        PROVE  LET o == flag[Log[p][i].source] IN "KAFKA" \notin {o.engine, o.shadow}
    <3>1. "skipped" \notin before[p][i]
      BY <1>2, <2>1, <2>2
    <3>2. fate'[p][i] = IF <<p, i>> \in Taken(b)
                  THEN before[p][i] \cup ({Outcome(Disposition(b.snap, Log[p][i]))} \ {"dead"})
                  ELSE before[p][i]
      BY <2>1 DEF Write
    <3>3. <<p, i>> \in Taken(b) /\ Outcome(Disposition(b.snap, Log[p][i])) = "skipped"
      BY <2>2, <3>1, <3>2
    <3>4. Disposition(b.snap, Log[p][i]) \in {"skip", "unknown"}
      BY <3>3, DispositionType DEF Outcome
    <3>5. At(<<p, i>>) = Log[p][i]
      BY DEF At
    <3>6. Accepted(b)
      BY <2>1 DEF Write
    <3> QED
      BY <1>0, <2>1, <3>3, <3>4, <3>5, <3>6, SkipsStandMeans
  <2> QED
    BY <2>2 DEF CurrentSkips
<1> QED
  BY <1>0, <1>3, <1>4, <1>5, <1>6, WarehouseSteps

\* An event is skipped only while KAFKA has no part in its table: whatever a
\* worker's snapshot says, verifySkips lets no skip pass that an assignment, the
\* start of a shadow or a registration has overtaken.
THEOREM SkipsAreJustified == Spec => SkipsAreCurrent
<1>1. SkipInv /\ [Next]_vars => [CurrentSkips]_vars
  BY StepSkips
<1> QED
  BY <1>1, SkipInvariant, PTL DEF Spec, SkipsAreCurrent, CurrentSkips

-----------------------------------------------------------------------------
(***************************************************************************)
(* The breaker.  Dead letters come from routing, which finds only records  *)
(* that cannot be parsed when unknown sources are skipped, or from an      *)
(* isolation, which does not start, nor go on, once the breaker tripped.   *)
(***************************************************************************)

BreakerInv ==
    /\ TypeInv
    /\ \A w \in Workers : pc[w] \in {"isolating", "fenced"} => ~tripped[w]

LEMMA StepBreaker ==
    ASSUME BreakerInv, [Next]_vars
    PROVE  \A w \in Workers : pc'[w] \in {"isolating", "fenced"} => ~tripped'[w]
<1> DEFINE Closed(v) == pc'[v] \in {"isolating", "fenced"} => ~tripped'[v]
           Before(v) == pc[v] \in {"isolating", "fenced"} => ~tripped[v]
           Goal == \A v \in Workers : Closed(v)
<1>0. /\ pc \in [Workers -> {"reload", "idle", "routed", "isolating", "fenced", "stopped"}]
      /\ tripped \in [Workers -> BOOLEAN] /\ \A v \in Workers : Before(v)
  BY DEF BreakerInv, TypeInv, WorkerType
<1>1. CASE UNCHANGED <<pc, tripped>>
  BY <1>0, <1>1
<1>2. ASSUME NEW w \in Workers, NEW next \in {"reload", "idle", "routed", "stopped"},
             pc' = [pc EXCEPT ![w] = next],
             UNCHANGED tripped \/ \E b \in BOOLEAN : tripped' = [tripped EXCEPT ![w] = b]
      PROVE  Goal
  <2> SUFFICES ASSUME NEW v \in Workers PROVE Closed(v)
    OBVIOUS
  <2>1. CASE v = w
    BY <1>0, <1>2, <2>1
  <2>2. CASE v # w
    <3>1. pc'[v] = pc[v] /\ tripped'[v] = tripped[v]
      BY <1>0, <1>2, <2>2
    <3> QED
      BY <1>0, <3>1
  <2> QED
    BY <2>1, <2>2
<1>3. ASSUME NEW w \in Workers, NEW next, Stop(w, next), next \in {"reload", "stopped"} PROVE Goal
  BY <1>2, <1>3 DEF Stop
<1>4. ASSUME NEW w \in Workers, NEW p \in Partitions,
             \/ AssignPartition(w, p) \/ RefusePartition(w, p) \/ RevokePartition(w, p)
             \/ Poll(w, p) \/ PollReset(w, p)
      PROVE  Goal
  BY <1>1, <1>3, <1>4 DEF AssignPartition, RefusePartition, RevokePartition, Poll, PollReset, isolation
<1>5. ASSUME NEW w \in Workers, NEW p \in Partitions, AssignmentThrows(w, p) PROVE Goal
  BY <1>2, <1>5 DEF AssignmentThrows, LeaveIsolation
<1>6. ASSUME NEW w \in Workers, Evict(w) \/ LosePartitions(w) \/ LoadSources(w) \/ PublishFails(w)
      PROVE  Goal
  BY <1>1, <1>6 DEF Evict, LosePartitions, LoadSources, PublishFails, isolation
<1>7. ASSUME NEW w \in Workers, IsolateApply(w) \/ IsolateSplit(w) \/ Quarantine(w) PROVE Goal
  BY <1>1, <1>7 DEF IsolateApply, IsolateSplit, Quarantine
<1>8. ASSUME NEW w \in Workers, Crash(w) PROVE Goal
  BY <1>3, <1>8 DEF Crash
<1>9. ASSUME NEW w \in Workers, RouteBatch(w) \/ Fenced(w) \/ WriteInterrupted(w) PROVE Goal
  BY <1>2, <1>9 DEF RouteBatch, Fenced, WriteInterrupted, isolation
<1>10. ASSUME NEW w \in Workers, WriteBatch(w) PROVE Goal
  BY <1>2, <1>10 DEF WriteBatch
<1>11. ASSUME NEW w \in Workers, TripQuarantine(w) \/ IsolateDone(w) \/ IsolateInterrupted(w) PROVE Goal
  BY <1>2, <1>11 DEF TripQuarantine, IsolateDone, IsolateInterrupted, LeaveIsolation
<1>12. ASSUME NEW w \in Workers, LoadFlags(w) \/ LoadFails(w) PROVE Goal
  <2>1. UNCHANGED tripped /\ (UNCHANGED pc \/ Refreshed(w))
    BY <1>12 DEF LoadFlags, LoadFails, isolation
  <2>2. CASE Refreshed(w)
    <3> SUFFICES ASSUME NEW v \in Workers PROVE Closed(v)
      OBVIOUS
    <3>1. pc'[v] = pc[v] \/ (pc[v] = "fenced" /\ pc'[v] = "isolating") \/ pc'[v] = "idle"
      BY <1>0, <2>2 DEF Refreshed
    <3> QED
      BY <1>0, <2>1, <3>1
  <2> QED
    BY <1>1, <2>1, <2>2
<1>13. ASSUME NEW w \in Workers, RejectBatch(w) PROVE Goal
  <2>1. UNCHANGED tripped
    BY <1>13 DEF RejectBatch
  <2>2. CASE MayIsolate(w) /\ pc' = [pc EXCEPT ![w] = "isolating"]
    <3> SUFFICES ASSUME NEW v \in Workers PROVE Closed(v)
      OBVIOUS
    <3>1. v # w => pc'[v] = pc[v]
      BY <1>0, <2>2
    <3>2. ~tripped[w]
      BY <2>2 DEF MayIsolate
    <3> QED
      BY <1>0, <2>1, <3>1, <3>2
  <2>3. CASE pc' = [pc EXCEPT ![w] = "idle"]
    BY <1>2, <2>1, <2>3
  <2> QED
    BY <1>13, <2>2, <2>3 DEF RejectBatch
<1>14. ASSUME NEW w \in Workers, IsolateFenced(w) PROVE Goal
  <2>1. UNCHANGED tripped /\ Isolating(w)
    BY <1>14 DEF IsolateFenced
  <2>2. CASE pc' = [pc EXCEPT ![w] = "fenced"]
    <3> SUFFICES ASSUME NEW v \in Workers PROVE Closed(v)
      OBVIOUS
    <3>1. v # w => pc'[v] = pc[v]
      BY <1>0, <2>2
    <3>2. ~tripped[w]
      BY <1>0, <2>1 DEF Isolating
    <3> QED
      BY <1>0, <2>1, <3>1, <3>2
  <2>3. CASE pc' = [pc EXCEPT ![w] = "reload"]
    BY <1>2, <2>1, <2>3
  <2> QED
    BY <1>14, <2>2, <2>3 DEF IsolateFenced, LeaveIsolation
<1>15. ASSUME NEW p \in Partitions, Expire(p) PROVE Goal
  BY <1>1, <1>15 DEF Expire, isolation
<1>16. CASE Operators
  <2>1. Frame
    BY <1>16, OperatorsTyped DEF BreakerInv
  <2> QED
    BY <1>1, <2>1 DEF Frame, isolation
<1>17. CASE UNCHANGED vars
  BY <1>1, <1>17 DEF vars, isolation
<1> QED
  BY <1>4, <1>5, <1>6, <1>7, <1>8, <1>9, <1>10, <1>11, <1>12, <1>13, <1>14, <1>15, <1>16, <1>17
     DEF Next, Group, Loop, Failure, Isolate

LEMMA BreakerInvariant == Spec => []BreakerInv
<1>1. Init => BreakerInv
  BY InitTypes DEF Init, BreakerInv
<1>2. BreakerInv /\ [Next]_vars => BreakerInv'
  BY StepTypes, StepBreaker DEF BreakerInv
<1> QED
  BY <1>1, <1>2, PTL DEF Spec

LEMMA LettersArePoison ==
    ASSUME SkipUnknown, NEW b, NEW x \in Letters(b)
    PROVE  At(x).kind = "poison"
  BY DEF Letters, TakenAs, Disposition, Route

\* A step of a group whose breakers have all tripped publishes what cannot be
\* parsed, and nothing else.
LEMMA DeadLetterSteps ==
    ASSUME SkipUnknown, BreakerInv, [Next]_vars, \A w \in Workers : tripped[w] /\ tripped'[w],
           NEW p \in Partitions, NEW i \in 1..Len(Log[p]),
           "dead" \in fate'[p][i], "dead" \notin fate[p][i]
    PROVE  Log[p][i].kind = "poison"
<1>0. TypeInv /\ FateType(fate) /\ \A w \in Workers : pc[w] \notin {"isolating", "fenced"}
  BY DEF BreakerInv, TypeInv, WarehouseType
<1>1. fate' # fate
  OBVIOUS
<1>2. ASSUME NEW b, NEW xs \in SUBSET Letters(b), fate' = Mark(xs, "dead")
      PROVE  Log[p][i].kind = "poison"
  <2>1. <<p, i>> \in xs
    BY <1>2 DEF Mark
  <2> QED
    BY <2>1, LettersArePoison DEF At
<1>3. ASSUME NEW w \in Workers, RouteBatch(w) PROVE Log[p][i].kind = "poison"
  BY <1>2, <1>3 DEF RouteBatch
<1>4. ASSUME NEW w \in Workers, PublishFails(w) PROVE Log[p][i].kind = "poison"
  BY <1>2, <1>4 DEF PublishFails
<1>5. ASSUME NEW b, Write(b, fate) PROVE FALSE
  BY <1>5 DEF Write
<1>6. ASSUME NEW w \in Workers, WriteBatch(w) \/ WriteInterrupted(w) PROVE FALSE
  BY <1>1, <1>5, <1>6 DEF WriteBatch, WriteInterrupted
<1>7. ASSUME NEW w \in Workers, Isolate(w) \/ IsolateInterrupted(w) PROVE FALSE
  BY <1>0, <1>7 DEF Isolate, IsolateApply, IsolateSplit, IsolateFenced, Quarantine, QuarantineCommits,
       TripQuarantine, Culprit, IsolateDone, IsolateInterrupted, Isolating
<1>8. ASSUME NEW w \in Workers, NEW q \in Partitions,
             \/ AssignPartition(w, q) \/ RefusePartition(w, q) \/ RevokePartition(w, q)
             \/ AssignmentThrows(w, q) \/ Poll(w, q) \/ PollReset(w, q)
      PROVE  FALSE
  BY <1>1, <1>8 DEF AssignPartition, RefusePartition, RevokePartition, AssignmentThrows,
              Poll, PollReset, Stop, history
<1>9. ASSUME NEW w \in Workers,
             \/ Evict(w) \/ LosePartitions(w) \/ LoadSources(w) \/ LoadFlags(w)
             \/ LoadFails(w) \/ Crash(w) \/ Fenced(w) \/ RejectBatch(w)
      PROVE  FALSE
  BY <1>1, <1>9 DEF Evict, LosePartitions, LoadSources, LoadFlags, LoadFails, Crash, Stop,
              Fenced, RejectBatch, history
<1>10. ASSUME NEW q \in Partitions, Expire(q) PROVE FALSE
  BY <1>1, <1>10 DEF Expire
<1>11. CASE UNCHANGED vars
  BY <1>1, <1>11 DEF vars, history
<1>12. ASSUME NEW s \in Sources, Operates(s) PROVE FALSE
  <2>1. ASSUME NEW becomes, fate' = Refate(s, becomes),
               \A x \in Fates : becomes[x] = "dead" <=> x = "dead"
        PROVE  FALSE
    <3>1. fate[p][i] \in SUBSET Fates
      BY <1>0 DEF FateType
    <3>2. fate'[p][i] = IF Log[p][i].source = s THEN {becomes[x] : x \in fate[p][i]} ELSE fate[p][i]
      BY <2>1 DEF Refate
    <3> QED
      BY <2>1, <3>1, <3>2
  <2>2. ASSUME ClearShadow(s) PROVE FALSE
    BY <2>1, <2>2 DEF ClearShadow, WhenCleared
  <2>3. ASSUME PromoteShadow(s) PROVE FALSE
    BY <2>1, <2>3 DEF PromoteShadow, WhenPromoted
  <2>4. ASSUME StartShadowing(s) \/ AbortShadowing(s) PROVE FALSE
    BY <2>2, <2>4 DEF StartShadowing, AbortShadowing
  <2>5. ASSUME ReconcileAndCutOver(s) PROVE FALSE
    BY <2>3, <2>5 DEF ReconcileAndCutOver
  <2>6. ASSUME AssignTable(s) \/ PauseTable(s) \/ ResumeTable(s) \/ ForceAssignTable(s) PROVE FALSE
    BY <1>1, <2>6 DEF AssignTable, PauseTable, ResumeTable, ForceAssignTable
  <2>7. ASSUME RegisterSource(s) \/ EnsureRows(s) \/ BumpGeneration(s) PROVE FALSE
    BY <1>1, <2>7 DEF RegisterSource, EnsureRows, BumpGeneration, history
  <2> QED
    BY <1>12, <2>4, <2>5, <2>6, <2>7 DEF Operates
<1>13. ~Operators
  BY <1>12, OperatorsAre
<1> QED
  BY <1>3, <1>4, <1>6, <1>7, <1>8, <1>9, <1>10, <1>11, <1>13 DEF Next, Group, Loop, Failure

\* Once the breakers have tripped no refused record is published, until a batch
\* applies or a worker restarts, whatever the limits, the topic and the
\* interleaving are: isolate() is not entered again (processWithRetry checks
\* quarantineTripped) and routing publishes only what cannot be parsed.  The
\* policy for unknown sources must be skip: under dlt, an event of a source that
\* a stale cache does not know is published by its route.
THEOREM TrippedBreakerHolds == SkipUnknown /\ Spec => BreakerStopsDeadLetters
<1> DEFINE Step == (\A w \in Workers : tripped[w] /\ tripped'[w]) =>
                     \A p \in Partitions : \A i \in 1..Len(Log[p]) :
                        Log[p][i].kind = "rejected" /\ gen[Log[p][i].source] # 0 =>
                            "dead" \notin fate'[p][i] \ fate[p][i]
<1>1. SkipUnknown /\ BreakerInv /\ [Next]_vars => [Step]_vars
  BY DeadLetterSteps
<1>2. CASE SkipUnknown
  <2>1. BreakerInv /\ [Next]_vars => [Step]_vars
    BY <1>1, <1>2
  <2>2. Spec => [][Step]_vars
    BY <2>1, BreakerInvariant, PTL DEF Spec
  <2> QED
    BY <2>2 DEF BreakerStopsDeadLetters
<1>3. CASE ~SkipUnknown
  BY <1>3
<1> QED
  BY <1>2, <1>3
=============================================================================
