--------------------------- MODULE SinkLossProofs ---------------------------
(***************************************************************************)
(* The sink loses no record, for any sources, partitions, workers and      *)
(* logs: everything below a stored offset was applied, skipped or          *)
(* published as a dead letter.                                             *)
(*                                                                         *)
(* Two things can pass records over: retention, and a rebalance inside an  *)
(* isolation that fails to seek (AssignmentThrows).  A partition is whole  *)
(* while retention has taken nothing of it or, in a topic in which nothing *)
(* is refused, while no consumer of it was overtaken.                      *)
(***************************************************************************)
EXTENDS SinkProofs

NothingRefused == \A p \in Partitions : \A i \in 1..Len(Log[p]) : Log[p][i].kind # "rejected"

Whole(p) == logStart[p] = 1 \/ (NothingRefused /\ p \notin crossed)

\* Every record of p before n has come to some end.
Covered(p, n) == \A i \in 1..Len(Log[p]) : i < n => fate[p][i] # {}

StoredIsCovered == \A p \in Partitions : Whole(p) => Covered(p, stored[p])

\* What a worker has taken out of its buffer has come to an end.
ReadIsCovered(w) == \A p \in has[w] : Whole(p) => Covered(p, lo[w][p])

NotOvertaken(w) == \A p \in has[w] \ crossed : logStart[p] <= hi[w][p]

\* The dead letters of a batch are out before it is written.
LettersAreOut(w) ==
    pc[w] = "routed" => \A x \in Letters(Batch(w, snap[w])) : fate[x[1]][x[2]] # {}

\* The parts of an isolation come from the buffer, and what is in front of a
\* record in its partition, if it did not hold, is in its part or in one before.
InParts(w, x, n) == \E m \in 1..n : x \in iso[w].work[m]

PartsInOrder(w) ==
    \A n \in 1..Len(iso[w].work) : \A x \in iso[w].work[n] :
        /\ x[1] \in has[w] /\ x[2] < hi[w][x[1]]
        /\ x[1] \notin iso[w].held =>
             \A j \in lo[w][x[1]]..x[2] - 1 : InParts(w, <<x[1], j>>, n)

Isolates(w) == pc[w] \in {"isolating", "fenced"} => ~NothingRefused /\ PartsInOrder(w)

WorkerKeeps(w) == ReadIsCovered(w) /\ NotOvertaken(w) /\ LettersAreOut(w) /\ Isolates(w)

LossInv == TypeInv /\ StoredIsCovered /\ \A w \in Workers : WorkerKeeps(w)

-----------------------------------------------------------------------------
(***************************************************************************)
(* Steps, seen from a record, from Kafka and from a worker.                *)
(***************************************************************************)

FatesStay == \A p \in Partitions : \A i \in 1..Len(Log[p]) : fate[p][i] # {} => fate'[p][i] # {}

\* Whatever happens, a record that has come to an end has come to an end.
LEMMA FatesAreKept ==
    ASSUME TypeInv, [Next]_vars
    PROVE  FatesStay
<1>1. ASSUME NEW xs, NEW p \in Partitions, NEW i \in 1..Len(Log[p]), fate[p][i] # {}
      PROVE  Mark(xs, "dead")[p][i] # {}
  BY <1>1 DEF Mark
<1>2. CASE UNCHANGED <<warehouse, fate>> \/ Publishes
  BY <1>1, <1>2 DEF Publishes, FatesStay
<1>3. ASSUME NEW w \in Workers, QuarantineCommits(w) PROVE FatesStay
  BY <1>1, <1>3 DEF QuarantineCommits, FatesStay
<1>4. ASSUME NEW w \in Workers, Writes(w) PROVE FatesStay
  <2>0. PICK b \in BatchType : \E before :
          Write(b, before) /\ (before = fate \/ before = Mark(Letters(b), "dead"))
    BY <1>4, WritesTyped
  <2>1. PICK before : Write(b, before) /\ (before = fate \/ before = Mark(Letters(b), "dead"))
    BY <2>0
  <2>2. ASSUME NEW p \in Partitions, NEW i \in 1..Len(Log[p]), fate[p][i] # {}
        PROVE  fate'[p][i] # {}
    <3>1. before[p][i] # {}
      BY <1>1, <2>1, <2>2
    <3>2. before[p][i] \subseteq fate'[p][i]
      BY <2>1 DEF Write
    <3> QED
      BY <3>1, <3>2
  <2> QED
    BY <2>2 DEF FatesStay
<1>5. CASE Operators
  <2>1. FatesMove
    BY <1>5, OperatorsAre, OperatorSteps DEF CopiesTyped
  <2> QED
    BY <2>1 DEF FatesMove, FatesStay
<1> QED
  BY <1>2, <1>3, <1>4, <1>5, WarehouseSteps

\* Retention only moves on, and marks the consumers it overtakes.
RetentionMoves ==
    /\ \A p \in Partitions : logStart[p] <= logStart'[p]
    /\ crossed \subseteq crossed'
    /\ \A w \in Workers : \A p \in has[w] \ crossed' : logStart[p] <= hi[w][p] => logStart'[p] <= hi[w][p]

LEMMA RetentionSteps ==
    ASSUME TypeInv, [Next]_vars
    PROVE  RetentionMoves
<1>0. /\ \A p \in Partitions : logStart[p] \in Nat
      /\ logStart \in [Partitions -> Nat]
      /\ \A w \in Workers : has[w] \subseteq Partitions /\ \A p \in Partitions : hi[w][p] \in Nat
  BY DEF TypeInv, KafkaType, BufferType
<1>1. ASSUME UNCHANGED logStart, crossed \subseteq crossed' PROVE RetentionMoves
  BY <1>0, <1>1 DEF RetentionMoves
<1>2. ASSUME NEW p \in Partitions, Expire(p) PROVE RetentionMoves
  <2>1. logStart' = [logStart EXCEPT ![p] = @ + 1] /\ crossed \subseteq crossed'
    BY <1>2 DEF Expire
  <2>2. ASSUME NEW w \in Workers, NEW q \in has[w] \ crossed', logStart[q] <= hi[w][q]
        PROVE  logStart'[q] <= hi[w][q]
    <3>0. q \in Partitions /\ hi[w][q] \in Nat /\ logStart[q] \in Nat
      BY <1>0
    <3>1. CASE q = p
      <4>1. hi[w][p] # logStart[p]
        BY <1>2, <2>2, <3>1 DEF Expire
      <4> QED
        BY <1>0, <2>1, <2>2, <3>0, <3>1, <4>1
    <3>2. CASE q # p
      BY <1>0, <2>1, <2>2, <3>0, <3>2
    <3> QED
      BY <3>1, <3>2
  <2>3. \A q \in Partitions : logStart[q] <= logStart'[q]
    BY <1>0, <2>1
  <2> QED
    BY <2>1, <2>2, <2>3 DEF RetentionMoves
<1>3. ASSUME NEW w \in Workers, NEW p \in Partitions,
             \/ AssignPartition(w, p) \/ RefusePartition(w, p) \/ RevokePartition(w, p)
             \/ AssignmentThrows(w, p) \/ Poll(w, p) \/ PollReset(w, p)
      PROVE  UNCHANGED logStart /\ crossed \subseteq crossed'
  BY <1>3 DEF AssignPartition, RefusePartition, RevokePartition, AssignmentThrows, Poll, PollReset,
              Stop, kafka, history
<1>4. ASSUME NEW w \in Workers,
             \/ Evict(w) \/ LosePartitions(w) \/ RouteBatch(w) \/ WriteBatch(w) \/ Fenced(w)
             \/ RejectBatch(w) \/ Isolate(w) \/ LoadSources(w) \/ LoadFlags(w) \/ LoadFails(w)
             \/ PublishFails(w) \/ WriteInterrupted(w) \/ IsolateInterrupted(w) \/ Crash(w)
      PROVE  UNCHANGED logStart /\ crossed \subseteq crossed'
  BY <1>4 DEF Evict, LosePartitions, RouteBatch, WriteBatch, Fenced, RejectBatch, Isolate,
       IsolateApply, IsolateSplit, IsolateFenced, Quarantine, TripQuarantine, IsolateDone,
       LoadSources, LoadFlags, LoadFails, PublishFails, WriteInterrupted, IsolateInterrupted, Crash,
       Stop, kafka, history
<1>5. ASSUME Operators PROVE UNCHANGED logStart /\ crossed \subseteq crossed'
  BY <1>5, OperatorsTyped DEF Frame, kafka
<1>6. ASSUME UNCHANGED vars PROVE UNCHANGED logStart /\ crossed \subseteq crossed'
  BY <1>6 DEF vars, kafka, history
<1> QED
  BY <1>1, <1>2, <1>3, <1>4, <1>5, <1>6 DEF Next, Group, Loop, Failure

LEMMA WholeWas ==
    ASSUME TypeInv, [Next]_vars, NEW p \in Partitions, Whole(p)'
    PROVE  Whole(p)
<1>1. logStart[p] \in Nat /\ 1 <= logStart[p] /\ KafkaType'
  BY StepTypes DEF TypeInv, KafkaType
<1>2. logStart'[p] \in Nat /\ logStart[p] <= logStart'[p] /\ crossed \subseteq crossed'
  BY <1>1, RetentionSteps DEF KafkaType, RetentionMoves
<1> QED
  BY <1>1, <1>2 DEF Whole

\* The part of a worker's state that the invariant is about.
Untouched(w) ==
    /\ has'[w] = has[w] /\ lo'[w] = lo[w] /\ hi'[w] = hi[w]
    /\ pc'[w] = pc[w] /\ snap'[w] = snap[w] /\ iso'[w] = iso[w]

Moves(w) ==
    \/ \E p \in Partitions : \/ AssignPartition(w, p) \/ RefusePartition(w, p)
                             \/ RevokePartition(w, p) \/ AssignmentThrows(w, p)
                             \/ Poll(w, p) \/ PollReset(w, p)
    \/ LosePartitions(w) \/ Crash(w)
    \/ RouteBatch(w) \/ WriteBatch(w) \/ Fenced(w) \/ RejectBatch(w) \/ WriteInterrupted(w)
    \/ Isolate(w) \/ IsolateInterrupted(w)
    \/ LoadFlags(w) \/ LoadFails(w)

LEMMA WorkerSteps ==
    ASSUME TypeInv, [Next]_vars
    PROVE  \/ \A v \in Workers : Untouched(v)
           \/ \E w \in Workers : Moves(w) /\ \A v \in Workers \ {w} : Untouched(v)
<1>0. /\ \A w \in Workers : has[w] \subseteq Partitions
      /\ DOMAIN has = Workers /\ DOMAIN lo = Workers /\ DOMAIN hi = Workers
      /\ DOMAIN pc = Workers /\ DOMAIN snap = Workers /\ DOMAIN iso = Workers
  BY DEF TypeInv, BufferType, CacheType, WorkerType
<1>1. ASSUME UNCHANGED <<has, lo, hi, pc, snap, iso>> PROVE \A v \in Workers : Untouched(v)
  BY <1>1 DEF Untouched
<1>2. ASSUME NEW w \in Workers, Evict(w) \/ PublishFails(w) \/ LoadSources(w)
      PROVE  \A v \in Workers : Untouched(v)
  BY <1>1, <1>2 DEF Evict, PublishFails, LoadSources, buffers, isolation
<1>3. ASSUME NEW p \in Partitions, Expire(p) PROVE \A v \in Workers : Untouched(v)
  BY <1>1, <1>3 DEF Expire, buffers, isolation
<1>4. ASSUME Operators PROVE \A v \in Workers : Untouched(v)
  BY <1>1, <1>4, OperatorsTyped DEF Frame, buffers, isolation
<1>5. ASSUME UNCHANGED vars PROVE \A v \in Workers : Untouched(v)
  BY <1>1, <1>5 DEF vars, buffers, isolation
<1>6. ASSUME NEW w \in Workers, Moves(w) PROVE \A v \in Workers \ {w} : Untouched(v)
  <2>1. ASSUME NEW p \in Partitions, AssignPartition(w, p) \/ Poll(w, p) \/ PollReset(w, p)
        PROVE  \A v \in Workers \ {w} : Untouched(v)
    BY <1>0, <2>1 DEF AssignPartition, Poll, PollReset, isolation, Untouched
  <2>2. ASSUME NEW next, Stop(w, next) PROVE \A v \in Workers \ {w} : Untouched(v)
    BY <1>0, <2>2 DEF Stop, Untouched
  <2>3. ASSUME NEW ps, Drop(w, ps), UNCHANGED <<pc, snap>> PROVE \A v \in Workers \ {w} : Untouched(v)
    BY <1>0, <2>3 DEF Drop, Untouched
  <2>4. ASSUME NEW p \in Partitions, RefusePartition(w, p) \/ RevokePartition(w, p)
        PROVE  \A v \in Workers \ {w} : Untouched(v)
    BY <2>2, <2>3, <2>4 DEF RefusePartition, RevokePartition
  <2>5. ASSUME LosePartitions(w) \/ Crash(w) PROVE \A v \in Workers \ {w} : Untouched(v)
    BY <2>2, <2>3, <2>5 DEF LosePartitions, Crash
  <2>6. ASSUME NEW p \in Partitions, AssignmentThrows(w, p) PROVE \A v \in Workers \ {w} : Untouched(v)
    BY <1>0, <2>6 DEF AssignmentThrows, LeaveIsolation, Untouched
  <2>7. ASSUME RouteBatch(w) \/ Fenced(w) \/ RejectBatch(w) \/ WriteInterrupted(w)
        PROVE  \A v \in Workers \ {w} : Untouched(v)
    BY <1>0, <2>7 DEF RouteBatch, Fenced, RejectBatch, WriteInterrupted, buffers, isolation, Untouched
  <2>8. ASSUME WriteBatch(w) \/ IsolateApply(w) \/ Quarantine(w)
        PROVE  \A v \in Workers \ {w} : Untouched(v)
    BY <1>0, <2>8 DEF WriteBatch, IsolateApply, Quarantine, RemoveProcessed, Untouched
  <2>9. ASSUME IsolateSplit(w) PROVE \A v \in Workers \ {w} : Untouched(v)
    BY <1>0, <2>9 DEF IsolateSplit, buffers, Untouched
  <2>10. ASSUME TripQuarantine(w) \/ IsolateDone(w) \/ IsolateFenced(w) \/ IsolateInterrupted(w)
         PROVE  \A v \in Workers \ {w} : Untouched(v)
    BY <1>0, <2>10 DEF TripQuarantine, IsolateDone, IsolateFenced, IsolateInterrupted, LeaveIsolation, Untouched
  <2>11. ASSUME LoadFlags(w) \/ LoadFails(w) PROVE \A v \in Workers \ {w} : Untouched(v)
    BY <1>0, <2>11 DEF LoadFlags, LoadFails, Refreshed, buffers, isolation, Untouched
  <2> QED
    BY <1>6, <2>1, <2>4, <2>5, <2>6, <2>7, <2>8, <2>9, <2>10, <2>11 DEF Moves, Isolate
<1>7. (\E w \in Workers : Moves(w)) \/ \A v \in Workers : Untouched(v)
  BY <1>2, <1>3, <1>4, <1>5 DEF Next, Group, Loop, Failure, Moves
<1> QED
  BY <1>6, <1>7

-----------------------------------------------------------------------------
(***************************************************************************)
(* What a write disposes of covers the offsets it moves.                   *)
(***************************************************************************)

CoveredNext(p, n) == \A i \in 1..Len(Log[p]) : i < n => fate'[p][i] # {}

Covers(xs) == \A x \in xs : Whole(x[1]) => CoveredNext(x[1], x[2] + 1)

LEMMA StoreCovers ==
    ASSUME TypeInv, FatesStay, StoredIsCovered, NEW xs \in SUBSET Recs, StoreOffsets(xs), Covers(xs),
           NEW p \in Partitions, Whole(p)
    PROVE  CoveredNext(p, stored'[p])
<1>1. stored'[p] = Greatest(stored[p], After(xs, p, stored[p]))
  BY DEF StoreOffsets
<1>2. CASE stored'[p] = stored[p]
  BY <1>2 DEF StoredIsCovered, Covered, CoveredNext, FatesStay
<1>3. CASE stored'[p] = After(xs, p, stored[p]) /\ stored'[p] # stored[p]
  <2>1. PICK x \in xs : x[1] = p /\ stored'[p] = x[2] + 1
    BY <1>3, AfterIs
  <2> QED
    BY <2>1 DEF Covers
<1> QED
  BY <1>1, <1>2, <1>3 DEF Greatest

LEMMA RemoveCovers ==
    ASSUME TypeInv, FatesStay, NEW w \in Workers, ReadIsCovered(w), NEW xs \in SUBSET Recs,
           RemoveProcessed(w, xs), Covers(xs), NEW p \in has[w], Whole(p)
    PROVE  CoveredNext(p, lo'[w][p])
<1> DEFINE gone == xs \cap Buffered(w)
<1>0. p \in Partitions /\ lo \in [Workers -> [Partitions -> Nat]]
  BY DEF TypeInv, BufferType
<1>5. lo' = [lo EXCEPT ![w] = [q \in Partitions |-> After(gone, q, lo[w][q])]]
  BY DEF RemoveProcessed
<1> HIDE DEF gone
<1>1. lo'[w][p] = After(gone, p, lo[w][p])
  BY <1>0, <1>5
<1>2. CASE lo'[w][p] = lo[w][p]
  BY <1>0, <1>2 DEF ReadIsCovered, Covered, CoveredNext, FatesStay
<1>3. ASSUME NEW x \in gone, x[1] = p, lo'[w][p] = x[2] + 1 PROVE CoveredNext(p, lo'[w][p])
  BY <1>3 DEF Covers, gone
<1>4. gone \in SUBSET Recs
  BY DEF gone
<1> QED
  BY <1>0, <1>1, <1>2, <1>3, <1>4, AfterIs

\* A batch whose records are at the front of the buffer, or behind records of
\* the batch, covers what it takes: what is in front of a record that is taken
\* is not held back either.
LEMMA WriteCovers ==
    ASSUME TypeInv, FatesStay, NEW w \in Workers, ReadIsCovered(w),
           NEW b \in BatchType, NEW before, Write(b, before),
           \A x \in Letters(b) : before[x[1]][x[2]] # {},
           \A x \in Taken(b) : /\ x[1] \in has[w]
                               /\ \A j \in lo[w][x[1]]..x[2] - 1 : <<x[1], j>> \in b.recs
    PROVE  Covers(Taken(b))
<1> SUFFICES ASSUME NEW x \in Taken(b), Whole(x[1]), NEW i \in 1..Len(Log[x[1]]), i < x[2] + 1
             PROVE  fate'[x[1]][i] # {}
  BY DEF Covers, CoveredNext
<1> DEFINE p == x[1]
<1>0. x \in Recs /\ p \in Partitions /\ x[2] \in Nat /\ i \in Nat /\ x = <<p, x[2]>>
      /\ lo[w][p] \in Nat /\ p \in has[w] /\ x \in b.recs /\ Len(Log[p]) \in Nat
  BY LogType, TakenIs DEF Taken, TypeInv, BufferType
<1>1. ASSUME <<p, i>> \in Taken(b) PROVE fate'[p][i] # {}
  <2>1. fate'[p][i] = before[p][i] \cup ({Outcome(Disposition(b.snap, Log[p][i]))} \ {"dead"})
    BY <1>0, <1>1 DEF Write
  <2>2. CASE Disposition(b.snap, Log[p][i]) = "dead"
    <3>1. <<p, i>> \in Letters(b)
      BY <1>1, <2>2 DEF Letters, TakenAs, At
    <3>2. before[p][i] # {}
      BY <3>1
    <3> QED
      BY <2>1, <3>2
  <2>3. CASE Disposition(b.snap, Log[p][i]) # "dead"
    <3>1. Outcome(Disposition(b.snap, Log[p][i])) # "dead"
      BY <2>3 DEF Outcome
    <3> QED
      BY <2>1, <3>1
  <2> QED
    BY <2>2, <2>3
<1>2. CASE i < lo[w][p]
  BY <1>0, <1>2 DEF ReadIsCovered, Covered, FatesStay
<1>3. CASE lo[w][p] <= i
  <2>1. <<p, i>> \in b.recs
    BY <1>0, <1>3
  <2>2. <<p, i>> \notin HeldBack(b)
    <3>1. x \notin HeldBack(b)
      BY DEF Taken
    <3>2. x[1] \notin b.held
      BY <1>0, <3>1 DEF HeldBack
    <3>3. ASSUME NEW y \in b.recs, y[1] = p, y[2] <= i, Disposition(b.snap, At(y)) = "hold"
          PROVE  FALSE
      <4>1. y[2] \in Nat
        BY LogType DEF BatchType
      <4>2. y[2] <= x[2]
        BY <1>0, <3>3, <4>1
      <4> QED
        BY <1>0, <3>1, <3>3, <4>2 DEF HeldBack
    <3> QED
      BY <3>2, <3>3 DEF HeldBack
  <2>3. <<p, i>> \in Taken(b)
    BY <2>1, <2>2 DEF Taken
  <2> QED
    BY <1>1, <2>3
<1> QED
  BY <1>0, <1>2, <1>3

LEMMA BatchCovers ==
    ASSUME LossInv, FatesStay, NEW w \in Workers, pc[w] = "routed", Write(Batch(w, snap[w]), fate)
    PROVE  Covers(Taken(Batch(w, snap[w])))
<1> DEFINE b == Batch(w, snap[w])
<1>0. TypeInv /\ ReadIsCovered(w) /\ LettersAreOut(w) /\ BufferType
  BY DEF LossInv, WorkerKeeps, TypeInv
<1>1. b \in BatchType /\ b.recs = Buffered(w)
  BY <1>0, BatchTyped DEF TypeInv, CacheType, Batch
<1>2. \A x \in Letters(b) : fate[x[1]][x[2]] # {}
  BY <1>0 DEF LettersAreOut
<1>3. ASSUME NEW x \in Taken(b)
      PROVE  x[1] \in has[w] /\ \A j \in lo[w][x[1]]..x[2] - 1 : <<x[1], j>> \in b.recs
  <2>1. x \in Buffered(w)
    BY <1>1 DEF Taken
  <2>2. x \in Partitions \X Nat /\ x[1] \in has[w] /\ lo[w][x[1]] <= x[2] /\ x[2] < hi[w][x[1]]
        /\ lo[w][x[1]] \in Nat /\ hi[w][x[1]] \in Nat
    BY <1>0, <2>1, InBuffer DEF BufferType
  <2>3. ASSUME NEW j \in lo[w][x[1]]..x[2] - 1 PROVE <<x[1], j>> \in Buffered(w)
    <3> DEFINE y == <<x[1], j>>
    <3>1. y \in Partitions \X Nat /\ y[1] \in has[w] /\ lo[w][y[1]] <= y[2] /\ y[2] < hi[w][y[1]]
      BY <2>2
    <3> HIDE DEF y
    <3>2. y \in Buffered(w)
      BY <1>0, <3>1, InBuffer
    <3> QED
      BY <3>2 DEF y
  <2> QED
    BY <1>1, <2>2, <2>3
<1> HIDE DEF b
<1>4. Write(b, fate)
  BY DEF b
<1>5. Covers(Taken(b))
  BY <1>0, <1>1, <1>2, <1>3, <1>4, WriteCovers
<1> QED
  BY <1>5 DEF b

\* The records of the first part of an isolation.
LEMMA HeadInOrder ==
    ASSUME LossInv, NEW w \in Workers, Isolating(w), NEW x \in Head(iso[w].work)
    PROVE  /\ x[1] \in has[w] /\ x[2] < hi[w][x[1]] /\ x \in Recs
           /\ x[1] \notin iso[w].held =>
                \A j \in lo[w][x[1]]..x[2] - 1 : <<x[1], j>> \in Head(iso[w].work)
<1>1. PartsInOrder(w) /\ TypeInv
  BY DEF LossInv, WorkerKeeps, Isolates, Isolating
<1>2. iso[w].work \in Seq(SUBSET Recs) /\ iso[w].work # <<>>
  BY <1>1 DEF TypeInv, WorkerType, Isolating
<1>3. 1 \in 1..Len(iso[w].work) /\ Head(iso[w].work) = iso[w].work[1]
  BY <1>2
<1>4. /\ x[1] \in has[w] /\ x[2] < hi[w][x[1]]
      /\ x[1] \notin iso[w].held =>
             \A j \in lo[w][x[1]]..x[2] - 1 : InParts(w, <<x[1], j>>, 1)
  BY <1>1, <1>3 DEF PartsInOrder
<1>5. x \in Recs
  BY <1>1, PartTyped
<1> QED
  BY <1>3, <1>4, <1>5 DEF InParts

LEMMA PartCovers ==
    ASSUME LossInv, FatesStay, NEW w \in Workers, Isolating(w), Write(Part(w), Published(w))
    PROVE  Covers(Taken(Part(w)))
<1> DEFINE b == Part(w)
<1>0. TypeInv /\ ReadIsCovered(w)
  BY DEF LossInv, WorkerKeeps
<1>1. b \in BatchType /\ b.recs = Head(iso[w].work) /\ b.held = iso[w].held
  BY <1>0, PartTyped DEF Part
<1>2. \A x \in Letters(b) : Published(w)[x[1]][x[2]] # {}
  <2> SUFFICES ASSUME NEW x \in Letters(b) PROVE Published(w)[x[1]][x[2]] # {}
    OBVIOUS
  <2>1. x \in Recs
    BY <1>1, TakenIs
  <2>2. x = <<x[1], x[2]>> /\ x[1] \in Partitions /\ x[2] \in 1..Len(Log[x[1]])
    BY <2>1, LogType
  <2> QED
    BY <2>2 DEF Published, Mark
<1>3. ASSUME NEW x \in Taken(b)
      PROVE  x[1] \in has[w] /\ \A j \in lo[w][x[1]]..x[2] - 1 : <<x[1], j>> \in b.recs
  <2>1. x \in b.recs /\ x[1] \notin b.held
    BY DEF Taken, HeldBack
  <2> QED
    BY <1>1, <2>1, HeadInOrder
<1> HIDE DEF b
<1>4. Write(b, Published(w))
  BY DEF b
<1>5. Covers(Taken(b))
  BY <1>0, <1>1, <1>2, <1>3, <1>4, WriteCovers
<1> QED
  BY <1>5 DEF b

LEMMA CulpritCovers ==
    ASSUME LossInv, FatesStay, NEW w \in Workers, QuarantineCommits(w)
    PROVE  Part(w).recs \in SUBSET Recs /\ Covers(Part(w).recs)
<1>0. TypeInv /\ ReadIsCovered(w) /\ Isolating(w)
  BY DEF LossInv, WorkerKeeps, QuarantineCommits, Culprit
<1>1. PICK x \in Head(iso[w].work) : Head(iso[w].work) = {x}
  BY DEF QuarantineCommits, Culprit
<1>2. Part(w).recs = {x} /\ Part(w).held = iso[w].held
  BY <1>1 DEF Part
<1>3. x[1] \notin iso[w].held
  <2>1. x \in Taken(Part(w))
    BY <1>2 DEF QuarantineCommits, Culprit, Rejected, Refused, Taken
  <2> QED
    BY <1>2, <2>1 DEF Taken, HeldBack
<1>4. x \in Recs /\ x[1] \in has[w] /\ \A j \in lo[w][x[1]]..x[2] - 1 : <<x[1], j>> = x
  BY <1>0, <1>1, <1>3, HeadInOrder
<1>5. x = <<x[1], x[2]>> /\ x[1] \in Partitions /\ x[2] \in 1..Len(Log[x[1]]) /\ x[2] \in Nat
      /\ lo[w][x[1]] \in Nat /\ Len(Log[x[1]]) \in Nat
  BY <1>0, <1>4, LogType DEF TypeInv, BufferType
<1>6. ASSUME Whole(x[1]), NEW i \in 1..Len(Log[x[1]]), i < x[2] + 1
      PROVE  fate'[x[1]][i] # {}
  <2>1. CASE i = x[2]
    <3>1. <<x[1], i>> \in Part(w).recs
      BY <1>2, <1>5, <2>1
    <3> QED
      BY <1>5, <3>1 DEF QuarantineCommits, Mark
  <2>2. CASE i # x[2]
    <3>1. i < lo[w][x[1]]
      BY <1>4, <1>5, <1>6, <2>2
    <3> QED
      BY <1>0, <1>4, <1>5, <1>6, <3>1 DEF ReadIsCovered, Covered, FatesStay
  <2> QED
    BY <2>1, <2>2
<1> QED
  BY <1>2, <1>4, <1>6 DEF Covers, CoveredNext

LEMMA StepStored ==
    ASSUME LossInv, [Next]_vars
    PROVE  StoredIsCovered'
<1>0. TypeInv /\ FatesStay /\ StoredIsCovered
  BY FatesAreKept DEF LossInv
<1>1. ASSUME \A p \in Partitions : Whole(p) => CoveredNext(p, stored'[p]) PROVE StoredIsCovered'
  BY <1>0, <1>1, WholeWas DEF StoredIsCovered, Covered, CoveredNext
<1>2. CASE UNCHANGED stored
  BY <1>0, <1>1, <1>2 DEF StoredIsCovered, Covered, CoveredNext, FatesStay
<1>3. ASSUME NEW xs \in SUBSET Recs, StoreOffsets(xs), Covers(xs) PROVE StoredIsCovered'
  BY <1>0, <1>1, <1>3, StoreCovers
<1>4. ASSUME NEW w \in Workers, Writes(w) PROVE StoredIsCovered'
  <2>1. CASE pc[w] = "routed" /\ Write(Batch(w, snap[w]), fate)
    <3>1. Taken(Batch(w, snap[w])) \in SUBSET Recs
      BY <1>0, BatchTyped, TakenIs DEF TypeInv, CacheType
    <3> QED
      BY <1>0, <1>3, <2>1, <3>1, BatchCovers DEF Write
  <2>2. CASE Isolating(w) /\ Write(Part(w), Published(w))
    <3>1. Taken(Part(w)) \in SUBSET Recs
      BY <1>0, <2>2, PartTyped, TakenIs
    <3> QED
      BY <1>0, <1>3, <2>2, <3>1, PartCovers DEF Write
  <2> QED
    BY <1>4, <2>1, <2>2 DEF Writes
<1>5. ASSUME NEW w \in Workers, QuarantineCommits(w) PROVE StoredIsCovered'
  BY <1>0, <1>3, <1>5, CulpritCovers DEF QuarantineCommits
<1>6. CASE Operators
  BY <1>0, <1>2, <1>6, OperatorsTyped DEF Frame
<1>7. CASE UNCHANGED <<warehouse, fate>> \/ Publishes
  BY <1>2, <1>7 DEF warehouse, Publishes
<1> QED
  BY <1>0, <1>4, <1>5, <1>6, <1>7, WarehouseSteps

-----------------------------------------------------------------------------
(***************************************************************************)
(* A worker whose state a step leaves alone.                               *)
(***************************************************************************)

LEMMA UntouchedKeeps ==
    ASSUME LossInv, [Next]_vars, NEW w \in Workers, Untouched(w)
    PROVE  WorkerKeeps(w)'
<1>0. TypeInv /\ FatesStay /\ WorkerKeeps(w) /\ has[w] \subseteq Partitions /\ RetentionMoves
  BY FatesAreKept, RetentionSteps DEF LossInv, TypeInv, BufferType
<1>1. ReadIsCovered(w)'
  BY <1>0, WholeWas DEF WorkerKeeps, ReadIsCovered, Covered, FatesStay, Untouched
<1>2. NotOvertaken(w)'
  BY <1>0 DEF WorkerKeeps, NotOvertaken, RetentionMoves, Untouched
<1>3. LettersAreOut(w)'
  <2>1. Batch(w, snap[w])' = Batch(w, snap[w])
    BY DEF Batch, Buffered, Untouched
  <2>2. Letters(Batch(w, snap[w])) \in SUBSET Recs
    BY <1>0, BatchTyped, TakenIs DEF TypeInv, CacheType
  <2>3. Letters(Batch(w, snap[w]))' = Letters(Batch(w, snap[w]))
    BY <2>1 DEF Letters, TakenAs, Taken, HeldBack
  <2> QED
    BY <1>0, <2>2, <2>3, LogType DEF WorkerKeeps, LettersAreOut, FatesStay, Untouched
<1>4. Isolates(w)'
  BY <1>0 DEF WorkerKeeps, Isolates, PartsInOrder, InParts, Untouched
<1> QED
  BY <1>1, <1>2, <1>3, <1>4 DEF WorkerKeeps

-----------------------------------------------------------------------------
(***************************************************************************)
(* The worker that moves: what it has read is covered, and retention has   *)
(* not overtaken it.                                                       *)
(***************************************************************************)

\* The worker loses partitions, or reads on at their ends.
KeepsFront(w) ==
    \A p \in has'[w] : p \in has[w] /\ lo'[w][p] = lo[w][p] /\ hi[w][p] <= hi'[w][p]

LEMMA FrontSteps ==
    ASSUME TypeInv, [Next]_vars, NEW w \in Workers, Moves(w)
    PROVE  \/ KeepsFront(w)
           \/ \E p \in Partitions : AssignPartition(w, p) \/ AssignmentThrows(w, p) \/ PollReset(w, p)
           \/ WriteBatch(w) \/ IsolateApply(w) \/ Quarantine(w)
<1>0. /\ has \in [Workers -> SUBSET Partitions]
      /\ lo \in [Workers -> [Partitions -> Nat]] /\ hi \in [Workers -> [Partitions -> Nat]]
  BY DEF TypeInv, BufferType
<1>1. ASSUME UNCHANGED <<has, lo, hi>> PROVE KeepsFront(w)
  BY <1>0, <1>1 DEF KeepsFront
<1>2. ASSUME NEW next, Stop(w, next) PROVE KeepsFront(w)
  BY <1>0, <1>2 DEF Stop, KeepsFront
<1>3. ASSUME NEW ps, Drop(w, ps) PROVE KeepsFront(w)
  BY <1>0, <1>3 DEF Drop, KeepsFront
<1>4. ASSUME NEW p \in Partitions, RefusePartition(w, p) \/ RevokePartition(w, p) PROVE KeepsFront(w)
  BY <1>2, <1>3, <1>4 DEF RefusePartition, RevokePartition
<1>5. ASSUME LosePartitions(w) \/ Crash(w) PROVE KeepsFront(w)
  BY <1>2, <1>3, <1>5 DEF LosePartitions, Crash
<1>6. ASSUME NEW p \in Partitions, Poll(w, p) PROVE KeepsFront(w)
  BY <1>0, <1>6 DEF Poll, KeepsFront
<1>7. ASSUME \/ RouteBatch(w) \/ Fenced(w) \/ RejectBatch(w) \/ WriteInterrupted(w)
             \/ IsolateSplit(w) \/ TripQuarantine(w) \/ IsolateDone(w) \/ IsolateFenced(w)
             \/ IsolateInterrupted(w) \/ LoadFlags(w) \/ LoadFails(w)
      PROVE  KeepsFront(w)
  BY <1>1, <1>7 DEF RouteBatch, Fenced, RejectBatch, WriteInterrupted, IsolateSplit, TripQuarantine,
       IsolateDone, IsolateFenced, IsolateInterrupted, LoadFlags, LoadFails, buffers
<1> QED
  BY <1>4, <1>5, <1>6, <1>7 DEF Moves, Isolate

LEMMA MoverReads ==
    ASSUME LossInv, [Next]_vars, NEW w \in Workers, Moves(w)
    PROVE  ReadIsCovered(w)'
<1>0. /\ TypeInv /\ FatesStay /\ WorkerKeeps(w) /\ ReadIsCovered(w) /\ StoredIsCovered
      /\ has \in [Workers -> SUBSET Partitions] /\ has' \in [Workers -> SUBSET Partitions]
      /\ lo \in [Workers -> [Partitions -> Nat]] /\ logStart \in [Partitions -> Nat]
      /\ stored \in [Partitions -> Nat] /\ \A p \in Partitions : 1 <= logStart[p]
  <2>1. TypeInv /\ TypeInv'
    BY StepTypes DEF LossInv
  <2> QED
    BY <2>1, FatesAreKept DEF LossInv, WorkerKeeps, TypeInv, BufferType, KafkaType, WarehouseType
<1>1. ASSUME \A p \in has'[w] : Whole(p)' /\ Whole(p) => CoveredNext(p, lo'[w][p]) PROVE ReadIsCovered(w)'
  BY <1>0, <1>1, WholeWas DEF ReadIsCovered, Covered, CoveredNext
<1>2. ASSUME NEW p \in has[w], Whole(p) PROVE CoveredNext(p, lo[w][p])
  BY <1>0, <1>2 DEF ReadIsCovered, Covered, CoveredNext, FatesStay
<1>3. ASSUME NEW p \in Partitions, Whole(p), NEW n \in Nat, n <= 1 \/ n <= stored[p]
      PROVE  CoveredNext(p, n)
  <2> SUFFICES ASSUME NEW i \in 1..Len(Log[p]), i < n PROVE fate'[p][i] # {}
    BY DEF CoveredNext
  <2>1. i < stored[p]
    BY <1>0, <1>3, LogType
  <2> QED
    BY <1>0, <1>3, <2>1 DEF StoredIsCovered, Covered, FatesStay
<1>4. CASE KeepsFront(w)
  BY <1>1, <1>2, <1>4 DEF KeepsFront
<1>5. ASSUME NEW xs \in SUBSET Recs, RemoveProcessed(w, xs), Covers(xs), UNCHANGED has
      PROVE  ReadIsCovered(w)'
  BY <1>0, <1>1, <1>5, RemoveCovers
<1>6. CASE WriteBatch(w)
  <2>1. Taken(Batch(w, snap[w])) \in SUBSET Recs
    BY <1>0, BatchTyped, TakenIs DEF TypeInv, CacheType
  <2> QED
    BY <1>0, <1>5, <1>6, <2>1, BatchCovers DEF WriteBatch
<1>7. CASE IsolateApply(w)
  <2>1. Taken(Part(w)) \in SUBSET Recs
    BY <1>0, <1>7, PartTyped, TakenIs DEF IsolateApply
  <2> QED
    BY <1>0, <1>5, <1>7, <2>1, PartCovers DEF IsolateApply
<1>8. CASE Quarantine(w)
  BY <1>0, <1>5, <1>8, CulpritCovers DEF Quarantine
<1>9. ASSUME NEW p \in Partitions, NEW position \in Nat, has' = [has EXCEPT ![w] = @ \cup {p}],
             lo' = [lo EXCEPT ![w][p] = position],
             Whole(p)' /\ Whole(p) => position <= 1 \/ position <= stored[p]
      PROVE  ReadIsCovered(w)'
  <2>1. ASSUME NEW q \in has'[w], Whole(q)', Whole(q) PROVE CoveredNext(q, lo'[w][q])
    <3>1. CASE q = p
      <4>1. lo'[w][q] = position
        BY <1>0, <1>9, <3>1
      <4> QED
        BY <1>3, <1>9, <2>1, <3>1, <4>1
    <3>2. CASE q # p
      <4>1. q \in has[w] /\ lo'[w][q] = lo[w][q]
        BY <1>0, <1>9, <2>1, <3>2
      <4> QED
        BY <1>2, <2>1, <4>1
    <3> QED
      BY <3>1, <3>2
  <2> QED
    BY <1>1, <2>1
<1>10. ASSUME NEW p \in Partitions, AssignPartition(w, p) PROVE ReadIsCovered(w)'
  <2>1. ASSUME Whole(p)' PROVE ResumeFrom(p) <= 1 \/ ResumeFrom(p) <= stored[p]
    <3>1. logStart'[p] = logStart[p]
      BY <1>10 DEF AssignPartition
    <3>2. CASE logStart[p] = 1
      BY <1>0, <3>2 DEF ResumeFrom, OffsetGap
    <3>3. CASE p \notin crossed'
      <4>1. ~((stored[p] = 0 /\ logStart[p] > 1) \/ OffsetGap(p))
        BY <1>10, <3>3 DEF AssignPartition
      <4> QED
        BY <1>0, <4>1 DEF ResumeFrom
    <3> QED
      BY <2>1, <3>1, <3>2, <3>3 DEF Whole
  <2>2. ResumeFrom(p) \in Nat
    BY <1>0 DEF ResumeFrom
  <2>3. has' = [has EXCEPT ![w] = @ \cup {p}] /\ lo' = [lo EXCEPT ![w][p] = ResumeFrom(p)]
    BY <1>10 DEF AssignPartition
  <2> QED
    BY <1>9, <2>1, <2>2, <2>3
<1>11. ASSUME NEW p \in Partitions, AssignmentThrows(w, p) PROVE ReadIsCovered(w)'
  <2>1. PICK position \in logStart[p]..Greatest(logStart[p], stored[p]) :
          lo' = [lo EXCEPT ![w][p] = position]
    BY <1>11 DEF AssignmentThrows
  <2>2. ~NothingRefused
    BY <1>0, <1>11 DEF AssignmentThrows, Isolating, WorkerKeeps, Isolates
  <2>3. ASSUME Whole(p) PROVE position <= 1 \/ position <= stored[p]
    BY <1>0, <2>1, <2>2, <2>3 DEF Whole, Greatest
  <2>4. position \in Nat /\ has' = [has EXCEPT ![w] = @ \cup {p}]
    BY <1>0, <1>11, <2>1 DEF AssignmentThrows
  <2> QED
    BY <1>9, <2>1, <2>3, <2>4
<1>12. ASSUME NEW p \in Partitions, PollReset(w, p) PROVE ReadIsCovered(w)'
  <2>1. p \in has[w] /\ hi[w][p] < logStart[p] /\ 1 <= hi[w][p] /\ hi[w][p] \in Nat
    BY <1>0, <1>12 DEF PollReset, CanPoll, TypeInv, BufferType
  <2>2. p \in crossed /\ logStart[p] # 1
    BY <1>0, <2>1 DEF WorkerKeeps, NotOvertaken
  <2>3. ~Whole(p)
    BY <2>2 DEF Whole
  <2>4. has' = [has EXCEPT ![w] = @ \cup {p}] /\ lo' = [lo EXCEPT ![w][p] = logStart[p]]
    BY <1>0, <1>12, <2>1 DEF PollReset
  <2> QED
    BY <1>0, <1>9, <2>3, <2>4
<1> QED
  BY <1>0, <1>4, <1>6, <1>7, <1>8, <1>10, <1>11, <1>12, FrontSteps

LEMMA MoverNotOvertaken ==
    ASSUME LossInv, [Next]_vars, NEW w \in Workers, Moves(w)
    PROVE  NotOvertaken(w)'
<1>0. /\ TypeInv /\ NotOvertaken(w) /\ RetentionMoves /\ crossed \subseteq crossed'
      /\ has \in [Workers -> SUBSET Partitions] /\ hi \in [Workers -> [Partitions -> Nat]]
      /\ logStart \in [Partitions -> Nat] /\ hi' \in [Workers -> [Partitions -> Nat]]
      /\ logStart' \in [Partitions -> Nat] /\ stored \in [Partitions -> Nat]
  <2>1. TypeInv /\ TypeInv'
    BY StepTypes DEF LossInv
  <2> QED
    BY <2>1, RetentionSteps DEF LossInv, WorkerKeeps, TypeInv, BufferType, KafkaType, WarehouseType, RetentionMoves
<1>1. ASSUME NEW p \in has[w] \ crossed' PROVE logStart'[p] <= hi[w][p]
  BY <1>0, <1>1 DEF NotOvertaken, RetentionMoves
<1>2. ASSUME \A p \in has'[w] : p \in has[w] /\ hi[w][p] <= hi'[w][p] PROVE NotOvertaken(w)'
  <2>1. ASSUME NEW p \in has'[w] \ crossed' PROVE logStart'[p] <= hi'[w][p]
    <3>1. p \in Partitions /\ logStart'[p] <= hi[w][p] /\ hi[w][p] <= hi'[w][p]
      BY <1>0, <1>1, <1>2, <2>1
    <3> QED
      BY <1>0, <3>1
  <2> QED
    BY <2>1 DEF NotOvertaken
<1>3. CASE KeepsFront(w)
  BY <1>2, <1>3 DEF KeepsFront
<1>4. CASE WriteBatch(w) \/ IsolateApply(w) \/ Quarantine(w)
  BY <1>0, <1>2, <1>4 DEF WriteBatch, IsolateApply, Quarantine
<1>5. ASSUME NEW p \in Partitions, NEW position \in Nat, logStart[p] <= position,
             has' = [has EXCEPT ![w] = @ \cup {p}],
             hi' = [hi EXCEPT ![w][p] = position], UNCHANGED logStart
      PROVE  NotOvertaken(w)'
  <2>1. ASSUME NEW q \in has'[w] \ crossed' PROVE logStart'[q] <= hi'[w][q]
    <3>1. CASE q = p
      BY <1>0, <1>5, <3>1
    <3>2. CASE q # p
      <4>1. q \in has[w] /\ hi'[w][q] = hi[w][q]
        BY <1>0, <1>5, <2>1, <3>2
      <4> QED
        BY <1>1, <2>1, <4>1
    <3> QED
      BY <3>1, <3>2
  <2> QED
    BY <2>1 DEF NotOvertaken
<1>6. ASSUME NEW p \in Partitions, AssignPartition(w, p) PROVE NotOvertaken(w)'
  <2>1. ResumeFrom(p) \in Nat /\ logStart[p] <= ResumeFrom(p)
    BY <1>0 DEF ResumeFrom, OffsetGap
  <2> QED
    BY <1>5, <1>6, <2>1 DEF AssignPartition
<1>7. ASSUME NEW p \in Partitions, AssignmentThrows(w, p) PROVE NotOvertaken(w)'
  <2>1. PICK position \in logStart[p]..Greatest(logStart[p], stored[p]) :
          hi' = [hi EXCEPT ![w][p] = position]
    BY <1>7 DEF AssignmentThrows
  <2>2. position \in Nat /\ logStart[p] <= position
    BY <1>0, <2>1
  <2> QED
    BY <1>5, <1>7, <2>1, <2>2 DEF AssignmentThrows
<1>8. ASSUME NEW p \in Partitions, PollReset(w, p) PROVE NotOvertaken(w)'
  <2>1. has' = [has EXCEPT ![w] = @ \cup {p}] /\ UNCHANGED logStart
        /\ logStart[p] \in Nat /\ logStart[p] <= logStart[p] /\ hi' = [hi EXCEPT ![w][p] = logStart[p]]
    BY <1>0, <1>8 DEF PollReset, CanPoll, kafka
  <2> QED
    BY <1>5, <2>1
<1> QED
  BY <1>0, <1>3, <1>4, <1>6, <1>7, <1>8, FrontSteps

-----------------------------------------------------------------------------
(***************************************************************************)
(* The worker that moves: its dead letters and the parts of its isolation. *)
(***************************************************************************)

LEMMA MoverLetters ==
    ASSUME LossInv, [Next]_vars, NEW w \in Workers, Moves(w)
    PROVE  LettersAreOut(w)'
<1>0. /\ TypeInv /\ FatesStay /\ LettersAreOut(w) /\ pc \in [Workers -> {"reload", "idle", "routed", "isolating", "fenced", "stopped"}]
      /\ view \in [Workers -> View] /\ snap \in [Workers -> View]
  BY FatesAreKept DEF LossInv, WorkerKeeps, TypeInv, WorkerType, CacheType
<1>1. ASSUME pc'[w] # "routed" PROVE LettersAreOut(w)'
  BY <1>1 DEF LettersAreOut
<1>2. ASSUME NEW p \in Partitions,
             \/ AssignPartition(w, p) \/ RefusePartition(w, p) \/ RevokePartition(w, p)
             \/ AssignmentThrows(w, p) \/ Poll(w, p) \/ PollReset(w, p)
      PROVE  pc'[w] # "routed"
  BY <1>0, <1>2 DEF AssignPartition, RefusePartition, RevokePartition, AssignmentThrows, Poll, PollReset,
       CanPoll, Assignable, Polling, Isolating, Stop, LeaveIsolation
<1>3. ASSUME \/ LosePartitions(w) \/ Crash(w) \/ WriteBatch(w) \/ Fenced(w) \/ RejectBatch(w)
             \/ WriteInterrupted(w) \/ Isolate(w) \/ IsolateInterrupted(w)
      PROVE  pc'[w] # "routed"
  BY <1>0, <1>3 DEF LosePartitions, Crash, Stop, WriteBatch, Fenced, RejectBatch, WriteInterrupted, Isolate,
       IsolateApply, IsolateSplit, IsolateFenced, Quarantine, QuarantineCommits, Culprit, TripQuarantine,
       IsolateDone, IsolateInterrupted, LeaveIsolation, Polling, Isolating
<1>4. ASSUME LoadFlags(w) \/ LoadFails(w), pc'[w] = "routed" PROVE Untouched(w)
  <2>1. UNCHANGED <<has, lo, hi, iso>> /\ (Refreshed(w) \/ UNCHANGED <<pc, snap>>)
    BY <1>4 DEF LoadFlags, LoadFails, buffers, isolation
  <2>2. ASSUME Refreshed(w) PROVE pc[w] = "routed" /\ snap' = snap
    BY <1>0, <1>4, <2>2 DEF Refreshed
  <2> QED
    BY <1>4, <2>1, <2>2 DEF Untouched
<1>5. ASSUME RouteBatch(w) PROVE LettersAreOut(w)'
  <2>1. fate' = Mark(Letters(Batch(w, view[w])), "dead") /\ snap'[w] = view[w] /\ UNCHANGED <<has, lo, hi>>
    BY <1>0, <1>5 DEF RouteBatch, buffers
  <2>2. Batch(w, snap[w])' = Batch(w, view[w])
    BY <2>1 DEF Batch, Buffered
  <2>3. Letters(Batch(w, snap[w]))' = Letters(Batch(w, view[w]))
    BY <2>2 DEF Letters, TakenAs, Taken, HeldBack
  <2>4. Letters(Batch(w, view[w])) \in SUBSET Recs
    BY <1>0, BatchTyped, TakenIs DEF TypeInv
  <2>5. ASSUME NEW x \in Letters(Batch(w, view[w])) PROVE fate'[x[1]][x[2]] # {}
    <3>1. x = <<x[1], x[2]>> /\ x[1] \in Partitions /\ x[2] \in 1..Len(Log[x[1]])
      BY <2>4, LogType
    <3> QED
      BY <2>1, <3>1 DEF Mark
  <2> QED
    BY <2>3, <2>5 DEF LettersAreOut
<1> QED
  BY <1>1, <1>2, <1>3, <1>4, <1>5, UntouchedKeeps DEF Moves, WorkerKeeps

\* Records of the parts that are left, after a part was done with.
LEMMA TailInOrder ==
    ASSUME LossInv, NEW w \in Workers, Isolating(w), NEW xs \in SUBSET Recs,
           RemoveProcessed(w, xs), UNCHANGED <<has, hi>>,
           iso'[w].work = Tail(iso[w].work), iso[w].held \subseteq iso'[w].held,
           \A x \in Head(iso[w].work) : x[1] \notin iso'[w].held => x \in xs
    PROVE  PartsInOrder(w)'
<1> DEFINE work == iso[w].work
<1>0. TypeInv /\ PartsInOrder(w) /\ BufferType
  BY DEF LossInv, WorkerKeeps, Isolates, Isolating, TypeInv
<1>1. work \in Seq(SUBSET Recs) /\ work # <<>> /\ Len(work) \in Nat
  BY <1>0 DEF TypeInv, WorkerType, Isolating
<1>2. /\ Tail(work) \in Seq(SUBSET Recs) /\ Len(Tail(work)) = Len(work) - 1
      /\ \A n \in 1..Len(Tail(work)) : Tail(work)[n] = work[n + 1]
      /\ Head(work) = work[1]
  BY <1>1
<1>3. /\ lo' \in [Workers -> [Partitions -> Nat]]
      /\ \A p \in Partitions : lo[w][p] <= lo'[w][p]
      /\ \A p \in Partitions : lo[w][p] \in Nat /\ hi[w][p] \in Nat
  BY <1>0, RemoveTyped DEF BufferType
<1>4. ASSUME NEW n \in 1..Len(Tail(work)), NEW x \in Tail(work)[n]
      PROVE  /\ x[1] \in has[w] /\ x[2] < hi[w][x[1]]
             /\ x[1] \notin iso'[w].held =>
                  \A j \in lo'[w][x[1]]..x[2] - 1 : \E m \in 1..n : <<x[1], j>> \in Tail(work)[m]
  <2>1. n + 1 \in 1..Len(work) /\ x \in work[n + 1] /\ x \in Recs
    BY <1>1, <1>2, <1>4
  <2>2. /\ x[1] \in has[w] /\ x[2] < hi[w][x[1]]
        /\ x[1] \notin iso[w].held =>
             \A j \in lo[w][x[1]]..x[2] - 1 : InParts(w, <<x[1], j>>, n + 1)
    BY <1>0, <2>1 DEF PartsInOrder
  <2>3. x[1] \in Partitions /\ x[2] \in Nat
    BY <2>1, LogType
  <2>4. ASSUME x[1] \notin iso'[w].held, NEW j \in lo'[w][x[1]]..x[2] - 1
        PROVE  \E m \in 1..n : <<x[1], j>> \in Tail(work)[m]
    <3>0. j \in Nat /\ lo'[w][x[1]] <= j /\ lo[w][x[1]] <= j /\ j < x[2] /\ j < hi[w][x[1]]
      BY <1>3, <2>2, <2>3, <2>4
    <3>1. j \in lo[w][x[1]]..x[2] - 1
      BY <1>3, <2>3, <3>0
    <3>2. PICK m \in 1..n + 1 : <<x[1], j>> \in work[m]
      BY <2>2, <2>4, <3>1 DEF InParts
    <3>3. CASE m = 1
      <4> DEFINE y == <<x[1], j>>
      <4>1. y \in xs
        BY <1>2, <2>4, <3>2, <3>3
      <4>2. y \in Partitions \X Nat /\ y[1] \in has[w] /\ lo[w][y[1]] <= y[2] /\ y[2] < hi[w][y[1]]
        BY <2>2, <2>3, <3>0
      <4>3. y[1] = x[1] /\ y[2] = j
        OBVIOUS
      <4> HIDE DEF y
      <4>4. y \in Buffered(w)
        BY <1>0, <4>2, InBuffer
      <4> DEFINE gone == xs \cap Buffered(w)
      <4>5. y \in gone /\ gone \in SUBSET Recs
        BY <4>1, <4>4
      <4>6. lo' = [lo EXCEPT ![w] = [q \in Partitions |-> After(gone, q, lo[w][q])]]
        BY DEF RemoveProcessed
      <4> HIDE DEF gone
      <4>7. lo'[w][x[1]] = After(gone, x[1], lo[w][x[1]])
        BY <1>0, <2>3, <4>6 DEF BufferType
      <4>8. PICK z \in gone : z[1] = x[1] /\ lo'[w][x[1]] = z[2] + 1 /\ y[2] <= z[2]
        BY <2>3, <4>3, <4>5, <4>7, AfterIs
      <4>9. z[2] \in Nat
        BY <4>5, LogType
      <4> QED
        BY <3>0, <4>3, <4>8, <4>9
    <3>4. CASE m # 1
      <4>1. m - 1 \in 1..n /\ m - 1 \in 1..Len(Tail(work))
        BY <1>1, <1>2, <3>2, <3>4
      <4>2. Tail(work)[m - 1] = work[m]
        BY <1>2, <4>1
      <4> QED
        BY <3>2, <4>1, <4>2
    <3> QED
      BY <3>3, <3>4
  <2> QED
    BY <2>2, <2>4
<1> QED
  BY <1>4 DEF PartsInOrder, InParts

LEMMA ConcatIs ==
    ASSUME NEW S, NEW s \in Seq(S), NEW r \in Seq(S)
    PROVE  /\ Len(s \o r) = Len(s) + Len(r)
           /\ \A n \in 1..Len(s) + Len(r) :
                (s \o r)[n] = IF n <= Len(s) THEN s[n] ELSE r[n - Len(s)]
  OBVIOUS

\* A part is halved.
LEMMA HalvesInOrder ==
    ASSUME LossInv, NEW w \in Workers, IsolateSplit(w)
    PROVE  PartsInOrder(w)'
<1> DEFINE work == iso[w].work
           part == Head(work)
<1>0. TypeInv /\ PartsInOrder(w) /\ Isolating(w)
  BY DEF LossInv, WorkerKeeps, Isolates, Isolating, IsolateSplit
<1>1. work \in Seq(SUBSET Recs) /\ work # <<>> /\ Len(work) \in Nat /\ part \in SUBSET Recs
  BY <1>0, PartTyped DEF TypeInv, WorkerType, Isolating
<1>2. /\ Tail(work) \in Seq(SUBSET Recs) /\ Len(Tail(work)) = Len(work) - 1
      /\ \A n \in 1..Len(Tail(work)) : Tail(work)[n] = work[n + 1]
      /\ part = work[1]
  BY <1>1
<1>3. PICK first \in SUBSET part :
        /\ IsFirstHalf(first, part)
        /\ iso' = [iso EXCEPT ![w].work = <<first, part \ first>> \o Tail(@)]
  BY DEF IsolateSplit
<1> DEFINE new == <<first, part \ first>> \o Tail(work)
<1>4. /\ Len(new) = Len(work) + 1 /\ new[1] = first /\ new[2] = part \ first
      /\ \A n \in 2..Len(work) : new[n + 1] = work[n]
  <2>1. first \in SUBSET Recs /\ part \ first \in SUBSET Recs
    BY <1>1, <1>3
  <2>2. <<first, part \ first>> \in Seq(SUBSET Recs) /\ Len(<<first, part \ first>>) = 2
        /\ <<first, part \ first>>[1] = first /\ <<first, part \ first>>[2] = part \ first
    BY <2>1
  <2> DEFINE two == <<first, part \ first>>
             rest == Tail(work)
  <2> HIDE DEF two, rest
  <2>3. two \in Seq(SUBSET Recs) /\ Len(two) = 2 /\ two[1] = first /\ two[2] = part \ first
        /\ rest \in Seq(SUBSET Recs) /\ Len(rest) = Len(work) - 1
        /\ \A n \in 1..Len(rest) : rest[n] = work[n + 1]
    BY <1>2, <2>2 DEF two, rest
  <2> HIDE DEF part, work
  <2>4. Len(two \o rest) = Len(work) + 1
        /\ \A n \in 1..Len(work) + 1 : (two \o rest)[n] = IF n <= 2 THEN two[n] ELSE rest[n - 2]
    <3>1. /\ Len(two \o rest) = Len(two) + Len(rest)
          /\ \A n \in 1..Len(two) + Len(rest) :
               (two \o rest)[n] = IF n <= Len(two) THEN two[n] ELSE rest[n - Len(two)]
      <4>1. two \in Seq(SUBSET Recs) /\ rest \in Seq(SUBSET Recs)
        BY <2>3
      <4> QED
        BY <4>1, ConcatIs
    <3>2. Len(two) + Len(rest) = Len(work) + 1 /\ Len(two) = 2
      BY <1>1, <2>3
    <3> QED
      BY <3>1, <3>2
  <2>5. 1 \in 1..Len(work) + 1 /\ 2 \in 1..Len(work) + 1 /\ Len(work) >= 1
    BY <1>1 DEF work
  <2>6. (two \o rest)[1] = first /\ (two \o rest)[2] = part \ first
    BY <2>3, <2>4, <2>5
  <2>7. ASSUME NEW n \in 2..Len(work) PROVE (two \o rest)[n + 1] = work[n]
    <3>1. n + 1 \in 1..Len(work) + 1 /\ ~(n + 1 <= 2) /\ n + 1 - 2 = n - 1 /\ n - 1 \in 1..Len(rest)
          /\ n - 1 + 1 = n
      BY <1>1, <2>3
    <3> QED
      BY <2>3, <2>4, <3>1
  <2> QED
    BY <2>4, <2>6, <2>7 DEF two, rest
<1>8. iso' = [iso EXCEPT ![w].work = new]
  BY <1>3
<1>5. iso'[w].work = new /\ iso'[w].held = iso[w].held /\ UNCHANGED <<has, lo, hi>>
  <2> HIDE DEF new
  <2> QED
    BY <1>0, <1>8 DEF TypeInv, WorkerType, IsolateSplit, buffers
<1>6. \A p \in Partitions : lo[w][p] \in Nat /\ hi[w][p] \in Nat
  BY <1>0 DEF TypeInv, BufferType
<1> HIDE DEF new
<1>7. ASSUME NEW n \in 1..Len(new), NEW x \in new[n]
      PROVE  /\ x[1] \in has[w] /\ x[2] < hi[w][x[1]]
             /\ x[1] \notin iso[w].held =>
                  \A j \in lo[w][x[1]]..x[2] - 1 : \E m \in 1..n : <<x[1], j>> \in new[m]
  <2>1. CASE n <= 2
    <3>1. x \in part
      BY <1>3, <1>4, <1>7, <2>1
    <3>2. /\ x[1] \in has[w] /\ x[2] < hi[w][x[1]] /\ x \in Recs
          /\ x[1] \notin iso[w].held =>
               \A j \in lo[w][x[1]]..x[2] - 1 : <<x[1], j>> \in part
      BY <1>0, <3>1, HeadInOrder
    <3>3. x[1] \in Partitions /\ x[2] \in Nat
      BY <3>2, LogType
    <3>4. ASSUME x[1] \notin iso[w].held, NEW j \in lo[w][x[1]]..x[2] - 1
          PROVE  \E m \in 1..n : <<x[1], j>> \in new[m]
      <4> DEFINE y == <<x[1], j>>
      <4>1. y \in part /\ y[1] = x[1] /\ y[2] = j /\ j \in Int /\ j < x[2]
        BY <1>6, <3>2, <3>3, <3>4
      <4> HIDE DEF y
      <4>2. CASE y \in first
        BY <1>4, <1>7, <4>2 DEF y
      <4>3. CASE y \notin first
        <5>1. x \notin first
          <6> SUFFICES ASSUME x \in first PROVE FALSE
            OBVIOUS
          <6>1. x[2] < y[2]
            BY <1>3, <4>1, <4>3 DEF IsFirstHalf
          <6> QED
            BY <3>3, <4>1, <6>1
        <5>2. n = 2
          BY <1>4, <1>7, <2>1, <5>1
        <5> QED
          BY <1>4, <4>1, <4>3, <5>2 DEF y
      <4> QED
        BY <4>2, <4>3
    <3> QED
      BY <3>2, <3>4
  <2>2. CASE ~(n <= 2)
    <3>1. n - 1 \in 2..Len(work) /\ n - 1 \in 1..Len(work) /\ x \in work[n - 1]
      <4>1. n - 1 \in 2..Len(work) /\ n - 1 + 1 = n
        BY <1>1, <1>4, <2>2
      <4>2. new[n - 1 + 1] = work[n - 1]
        BY <1>4, <4>1
      <4> QED
        BY <1>7, <4>1, <4>2
    <3>2. /\ x[1] \in has[w] /\ x[2] < hi[w][x[1]]
          /\ x[1] \notin iso[w].held =>
               \A j \in lo[w][x[1]]..x[2] - 1 : InParts(w, <<x[1], j>>, n - 1)
      BY <1>0, <3>1 DEF PartsInOrder
    <3>3. ASSUME x[1] \notin iso[w].held, NEW j \in lo[w][x[1]]..x[2] - 1
          PROVE  \E m \in 1..n : <<x[1], j>> \in new[m]
      <4>1. PICK m \in 1..n - 1 : <<x[1], j>> \in work[m]
        BY <3>2, <3>3 DEF InParts
      <4>2. CASE m = 1
        <5>1. <<x[1], j>> \in new[1] \/ <<x[1], j>> \in new[2]
          BY <1>2, <1>4, <4>1, <4>2
        <5>2. 1 \in 1..n /\ 2 \in 1..n
          BY <2>2
        <5> QED
          BY <5>1, <5>2
      <4>3. CASE m # 1
        <5>1. m \in 2..Len(work) /\ m + 1 \in 1..n
          BY <1>1, <3>1, <4>1, <4>3
        <5>2. new[m + 1] = work[m]
          BY <1>4, <5>1
        <5> QED
          BY <4>1, <5>1, <5>2
      <4> QED
        BY <4>2, <4>3
    <3> QED
      BY <3>2, <3>3
  <2> QED
    BY <2>1, <2>2
<1> QED
  BY <1>5, <1>7 DEF PartsInOrder, InParts

\* Partitions leave the buffer and, with them, their records the parts.
LEMMA DropInOrder ==
    ASSUME LossInv, NEW w \in Workers, PartsInOrder(w), NEW ps, Drop(w, ps)
    PROVE  PartsInOrder(w)'
<1> DEFINE work == iso[w].work
           new == [n \in DOMAIN work |-> {x \in work[n] : x[1] \notin ps}]
<1>0. /\ TypeInv /\ has \in [Workers -> SUBSET Partitions]
      /\ lo \in [Workers -> [Partitions -> Nat]] /\ hi \in [Workers -> [Partitions -> Nat]]
      /\ work \in Seq(SUBSET Recs)
  BY DEF LossInv, TypeInv, BufferType, WorkerType
<1>1. new \in Seq(SUBSET Recs) /\ Len(new) = Len(work)
      /\ \A n \in 1..Len(work) : new[n] = {x \in work[n] : x[1] \notin ps}
  <2>1. DOMAIN work = 1..Len(work) /\ Len(work) \in Nat
    BY <1>0
  <2>2. new = [n \in 1..Len(work) |-> {x \in work[n] : x[1] \notin ps}]
    BY <2>1
  <2>3. \A n \in 1..Len(work) : work[n] \in SUBSET Recs
    BY <1>0
  <2>4. \A n \in 1..Len(work) : new[n] = {x \in work[n] : x[1] \notin ps} /\ new[n] \in SUBSET Recs
    BY <2>2, <2>3
  <2> HIDE DEF work
  <2>5. new = [n \in 1..Len(work) |-> new[n]]
    BY <2>2
  <2> HIDE DEF new
  <2> QED
    BY <2>1, <2>4, <2>5
<1>2. iso' = [iso EXCEPT ![w].work = new]
  BY DEF Drop
<1>3. iso'[w].work = new /\ iso'[w].held = iso[w].held
  <2> HIDE DEF new
  <2> QED
    BY <1>0, <1>2 DEF TypeInv, WorkerType
<1>4. ASSUME NEW p \in has[w], p \notin ps
      PROVE  p \in has'[w] /\ lo'[w][p] = lo[w][p] /\ hi'[w][p] = hi[w][p]
  BY <1>0, <1>4 DEF Drop
<1> HIDE DEF new
<1>5. ASSUME NEW n \in 1..Len(new), NEW x \in new[n]
      PROVE  /\ x[1] \in has'[w] /\ x[2] < hi'[w][x[1]]
             /\ x[1] \notin iso'[w].held =>
                  \A j \in lo'[w][x[1]]..x[2] - 1 : \E m \in 1..n : <<x[1], j>> \in new[m]
  <2>1. n \in 1..Len(work) /\ x \in work[n] /\ x[1] \notin ps
    BY <1>1, <1>5
  <2>2. /\ x[1] \in has[w] /\ x[2] < hi[w][x[1]]
        /\ x[1] \notin iso[w].held =>
             \A j \in lo[w][x[1]]..x[2] - 1 : \E m \in 1..n : <<x[1], j>> \in work[m]
    BY <2>1 DEF PartsInOrder, InParts
  <2>3. x[1] \in has'[w] /\ lo'[w][x[1]] = lo[w][x[1]] /\ hi'[w][x[1]] = hi[w][x[1]]
    BY <1>4, <2>1, <2>2
  <2>4. ASSUME x[1] \notin iso'[w].held, NEW j \in lo'[w][x[1]]..x[2] - 1
        PROVE  \E m \in 1..n : <<x[1], j>> \in new[m]
    <3>1. PICK m \in 1..n : <<x[1], j>> \in work[m]
      BY <1>3, <2>2, <2>3, <2>4
    <3>2. m \in 1..Len(work)
      BY <1>0, <2>1, <3>1
    <3>3. <<x[1], j>> \in new[m]
      BY <1>1, <2>1, <3>1, <3>2
    <3> QED
      BY <3>3
  <2> QED
    BY <2>2, <2>3, <2>4
<1> QED
  BY <1>3, <1>5 DEF PartsInOrder, InParts

LEMMA MoverIsolates ==
    ASSUME LossInv, [Next]_vars, NEW w \in Workers, Moves(w)
    PROVE  Isolates(w)'
<1> DEFINE In == {"isolating", "fenced"}
<1>0. /\ TypeInv /\ Isolates(w)
      /\ pc \in [Workers -> {"reload", "idle", "routed", "isolating", "fenced", "stopped"}]
      /\ iso \in [Workers -> [work : Seq(SUBSET Recs), held : SUBSET Partitions, left : Nat]]
      /\ has \in [Workers -> SUBSET Partitions]
      /\ lo \in [Workers -> [Partitions -> Nat]] /\ hi \in [Workers -> [Partitions -> Nat]]
  BY DEF LossInv, WorkerKeeps, TypeInv, WorkerType, BufferType
<1>1. ASSUME pc'[w] \notin In PROVE Isolates(w)'
  BY <1>1 DEF Isolates
<1>2. ASSUME pc[w] \in In, PartsInOrder(w)' PROVE Isolates(w)'
  BY <1>0, <1>2 DEF Isolates
<1>3. ASSUME NEW p \in Partitions,
             RefusePartition(w, p) \/ AssignmentThrows(w, p) \/ Poll(w, p) \/ PollReset(w, p)
      PROVE  pc'[w] \notin In
  BY <1>0, <1>3 DEF RefusePartition, AssignmentThrows, Poll, PollReset, CanPoll, Stop, LeaveIsolation
<1>4. ASSUME \/ Crash(w) \/ RouteBatch(w) \/ WriteBatch(w) \/ Fenced(w) \/ WriteInterrupted(w)
             \/ TripQuarantine(w) \/ IsolateDone(w) \/ IsolateInterrupted(w)
      PROVE  pc'[w] \notin In
  BY <1>0, <1>4 DEF Crash, Stop, RouteBatch, WriteBatch, Fenced, WriteInterrupted, TripQuarantine,
                    IsolateDone, IsolateInterrupted, LeaveIsolation
<1>5. ASSUME NEW p \in Partitions, AssignPartition(w, p) PROVE Isolates(w)'
  <2>1. pc' = pc /\ iso' = iso /\ p \notin has[w]
    BY <1>5 DEF AssignPartition, isolation, Assignable
  <2>2. ASSUME NEW q \in has[w] PROVE q \in has'[w] /\ lo'[w][q] = lo[w][q] /\ hi'[w][q] = hi[w][q]
    BY <1>0, <1>5, <2>1, <2>2 DEF AssignPartition
  <2>3. ASSUME PartsInOrder(w) PROVE PartsInOrder(w)'
    BY <2>1, <2>2, <2>3 DEF PartsInOrder, InParts
  <2> QED
    BY <1>0, <2>1, <2>3 DEF Isolates
<1>6. ASSUME NEW ps, Drop(w, ps), UNCHANGED pc PROVE Isolates(w)'
  BY <1>0, <1>6, DropInOrder DEF Isolates
<1>7. ASSUME NEW p \in Partitions, RevokePartition(w, p) PROVE Isolates(w)'
  BY <1>6, <1>7 DEF RevokePartition
<1>8. ASSUME LosePartitions(w) PROVE Isolates(w)'
  BY <1>6, <1>8 DEF LosePartitions
<1>9. ASSUME RejectBatch(w) PROVE Isolates(w)'
  <2>1. CASE pc' = [pc EXCEPT ![w] = "idle"]
    BY <1>0, <1>1, <2>1
  <2>2. CASE iso'[w].work = <<Buffered(w)>> /\ iso'[w].held = {}
    <3>1. ~NothingRefused
      <4>1. Batch(w, snap[w]) \in BatchType
        BY <1>0, BatchTyped DEF TypeInv, CacheType
      <4>2. PICK x \in Taken(Batch(w, snap[w])) : At(x).kind = "rejected"
        BY <1>9 DEF RejectBatch, Rejected, Refused
      <4>3. x \in Recs
        BY <4>1, <4>2, TakenIs
      <4> QED
        BY <4>2, <4>3, LogType DEF NothingRefused, At
    <3>2. UNCHANGED <<has, lo, hi>>
      BY <1>9 DEF RejectBatch, buffers
    <3>3. ASSUME NEW n \in 1..Len(iso'[w].work), NEW x \in iso'[w].work[n]
          PROVE  /\ x[1] \in has[w] /\ x[2] < hi[w][x[1]]
                 /\ \A j \in lo[w][x[1]]..x[2] - 1 : \E m \in 1..n : <<x[1], j>> \in iso'[w].work[m]
      <4>1. n = 1 /\ x \in Buffered(w) /\ iso'[w].work[1] = Buffered(w)
        BY <2>2, <3>3
      <4>2. x \in Partitions \X Nat /\ x[1] \in has[w] /\ lo[w][x[1]] <= x[2] /\ x[2] < hi[w][x[1]]
        BY <1>0, <4>1, InBuffer DEF TypeInv
      <4>3. ASSUME NEW j \in lo[w][x[1]]..x[2] - 1 PROVE <<x[1], j>> \in Buffered(w)
        <5> DEFINE y == <<x[1], j>>
        <5>1. y \in Partitions \X Nat /\ y[1] \in has[w] /\ lo[w][y[1]] <= y[2] /\ y[2] < hi[w][y[1]]
          BY <1>0, <4>2
        <5> HIDE DEF y
        <5>2. y \in Buffered(w)
          BY <1>0, <5>1, InBuffer DEF TypeInv
        <5> QED
          BY <5>2 DEF y
      <4> QED
        BY <4>1, <4>2, <4>3
    <3>4. PartsInOrder(w)'
      BY <3>2, <3>3 DEF PartsInOrder, InParts
    <3> QED
      BY <3>1, <3>4 DEF Isolates
  <2>3. ASSUME iso' = [iso EXCEPT ![w] = [work |-> <<Buffered(w)>>, held |-> {},
                                        left |-> QuarantineLimit(Cardinality(Buffered(w)))]]
        PROVE  iso'[w].work = <<Buffered(w)>> /\ iso'[w].held = {}
    BY <1>0, <2>3
  <2> QED
    BY <1>9, <2>1, <2>2, <2>3 DEF RejectBatch
<1>10. ASSUME IsolateApply(w) PROVE Isolates(w)'
  <2>1. Isolating(w) /\ Part(w) \in BatchType /\ Part(w).recs = Head(iso[w].work) /\ Part(w).held = iso[w].held
    BY <1>0, <1>10, PartTyped DEF IsolateApply, Part
  <2>2. iso'[w].work = Tail(iso[w].work) /\ iso'[w].held = Holding(Part(w))
    BY <1>0, <1>10 DEF IsolateApply
  <2>3. iso[w].held \subseteq iso'[w].held
    BY <2>1, <2>2 DEF Holding
  <2>4. ASSUME NEW x \in Head(iso[w].work), x[1] \notin iso'[w].held PROVE x \in Taken(Part(w))
    BY <2>1, <2>2, <2>4 DEF Holding, Taken
  <2>5. Taken(Part(w)) \in SUBSET Recs
    BY <2>1, TakenIs
  <2>6. RemoveProcessed(w, Taken(Part(w))) /\ UNCHANGED <<has, hi>>
    BY <1>10 DEF IsolateApply
  <2>7. PartsInOrder(w)'
    BY <2>1, <2>2, <2>3, <2>4, <2>5, <2>6, TailInOrder
  <2> QED
    BY <1>2, <2>1, <2>7 DEF Isolating
<1>11. ASSUME Quarantine(w) PROVE Isolates(w)'
  <2>1. Isolating(w) /\ Part(w) \in BatchType /\ Part(w).recs = Head(iso[w].work)
    BY <1>0, <1>11, PartTyped DEF Quarantine, QuarantineCommits, Culprit, Part
  <2>2. iso'[w].work = Tail(iso[w].work) /\ iso'[w].held = iso[w].held
    BY <1>0, <1>11 DEF Quarantine
  <2>3. Part(w).recs \in SUBSET Recs
    BY <2>1 DEF BatchType
  <2>4. RemoveProcessed(w, Part(w).recs) /\ UNCHANGED <<has, hi>>
    BY <1>11 DEF Quarantine
  <2>5. PartsInOrder(w)'
    BY <2>1, <2>2, <2>3, <2>4, TailInOrder
  <2> QED
    BY <1>2, <2>1, <2>5 DEF Isolating
<1>12. ASSUME IsolateSplit(w) PROVE Isolates(w)'
  BY <1>2, <1>12, HalvesInOrder DEF IsolateSplit, Isolating
<1>13. ASSUME UNCHANGED <<has, lo, hi, iso>>, pc'[w] \in In => pc[w] \in In PROVE Isolates(w)'
  BY <1>0, <1>13 DEF Isolates, PartsInOrder, InParts
<1>14. ASSUME IsolateFenced(w) PROVE Isolates(w)'
  <2>1. CASE LeaveIsolation(w, "reload")
    BY <1>0, <1>1, <2>1 DEF LeaveIsolation
  <2>2. CASE UNCHANGED iso
    BY <1>13, <1>14, <2>2 DEF IsolateFenced, Isolating
  <2> QED
    BY <1>14, <2>1, <2>2 DEF IsolateFenced
<1>15. ASSUME LoadFlags(w) \/ LoadFails(w) PROVE Isolates(w)'
  <2>1. UNCHANGED <<has, lo, hi, iso>> /\ (Refreshed(w) \/ UNCHANGED pc)
    BY <1>15 DEF LoadFlags, LoadFails, buffers, isolation
  <2>2. pc'[w] \in In => pc[w] \in In
    BY <1>0, <2>1 DEF Refreshed
  <2> QED
    BY <1>13, <2>1, <2>2
<1> QED
  BY <1>1, <1>3, <1>4, <1>5, <1>7, <1>8, <1>9, <1>10, <1>11, <1>12, <1>14, <1>15 DEF Moves, Isolate

-----------------------------------------------------------------------------
(***************************************************************************)
(* Nothing vanishes.                                                       *)
(***************************************************************************)

LEMMA StepLoss ==
    ASSUME LossInv, [Next]_vars
    PROVE  LossInv'
<1>0. TypeInv /\ TypeInv'
  BY StepTypes DEF LossInv
<1>1. ASSUME NEW w \in Workers, Moves(w) PROVE WorkerKeeps(w)'
  BY <1>1, MoverReads, MoverNotOvertaken, MoverLetters, MoverIsolates DEF WorkerKeeps
<1>2. \A w \in Workers : WorkerKeeps(w)'
  BY <1>0, <1>1, WorkerSteps, UntouchedKeeps
<1> QED
  BY <1>0, <1>2, StepStored DEF LossInv

LEMMA InitLoss ==
    ASSUME Init
    PROVE  LossInv
<1>1. TypeInv
  BY InitTypes
<1>2. StoredIsCovered
  BY LogType DEF Init, StoredIsCovered, Covered
<1>3. \A w \in Workers : WorkerKeeps(w)
  BY DEF Init, WorkerKeeps, ReadIsCovered, NotOvertaken, LettersAreOut, Isolates
<1> QED
  BY <1>1, <1>2, <1>3 DEF LossInv

LEMMA LossInvariant == Spec => []LossInv
<1>1. Init => LossInv
  BY InitLoss
<1>2. LossInv /\ [Next]_vars => LossInv'
  BY StepLoss
<1> QED
  BY <1>1, <1>2, PTL DEF Spec

\* Retention has taken nothing.
Retained == \A p \in Partitions : logStart[p] = 1

\* consumed = applied + skipped + dead-lettered, for every topic, every number
\* of workers and whatever they do: while the topic still has its first records,
\* every record below a stored offset was applied, skipped or published as a
\* dead letter, through holds, zombies, crashes between publishing and writing,
\* interrupted writes, moving flags and the isolation of refused records.
THEOREM NoRecordVanishes == Spec => [](Retained => NothingVanishes)
<1>1. LossInv => (Retained => NothingVanishes)
  <2> SUFFICES ASSUME LossInv, Retained, NEW p \in Partitions, NEW i \in Below(p)
               PROVE  fate[p][i] # {}
    BY DEF NothingVanishes
  <2>1. stored[p] \in Nat /\ stored[p] <= Len(Log[p]) + 1 /\ Len(Log[p]) \in Nat
    BY LogType DEF LossInv, TypeInv, WarehouseType
  <2>2. i \in 1..Len(Log[p]) /\ i < stored[p]
    BY <2>1 DEF Below
  <2> QED
    BY <2>2 DEF LossInv, StoredIsCovered, Covered, Whole, Retained
<1> QED
  BY <1>1, LossInvariant, PTL

\* With retention, in a topic none of whose records the warehouse refuses:
\* records are passed over only in partitions in which a running consumer was
\* overtaken or that are read for the first time after records expired; an
\* assignment that resumes from a stored offset (onPartitionsAssigned) passes
\* over none.
THEOREM GapsOnlyWhereOvertaken == NothingRefused /\ Spec => []GapsOnlyByReset
<1>1. NothingRefused /\ LossInv => GapsOnlyByReset
  <2> SUFFICES ASSUME LossInv, NothingRefused, NEW p \in Partitions \ crossed, NEW i \in Below(p)
               PROVE  fate[p][i] # {}
    BY DEF GapsOnlyByReset
  <2>1. stored[p] \in Nat /\ stored[p] <= Len(Log[p]) + 1 /\ Len(Log[p]) \in Nat
    BY LogType DEF LossInv, TypeInv, WarehouseType
  <2>2. i \in 1..Len(Log[p]) /\ i < stored[p]
    BY <2>1 DEF Below
  <2> QED
    BY <2>2 DEF LossInv, StoredIsCovered, Covered, Whole
<1>2. CASE NothingRefused
  <2>1. LossInv => GapsOnlyByReset
    BY <1>1, <1>2
  <2> QED
    BY <2>1, LossInvariant, PTL
<1>3. CASE ~NothingRefused
  BY <1>3
<1> QED
  BY <1>2, <1>3
=============================================================================
