---------------------------- MODULE SinkDelivery ----------------------------
(***************************************************************************)
(* The Kafka sink of one table: workers that read the partitions of its    *)
(* topic, route every event by a cached copy of the feature flags, and     *)
(* write events and offsets to the warehouse in one transaction, while     *)
(* operators move the flags, the consumer group rebalances and processes   *)
(* fail.                                                                   *)
(*                                                                         *)
(* A topic is shared by all sources.  Its log is a constant: what a worker *)
(* has not polled yet might as well not have been produced.  Positions     *)
(* count from 1 and 0 is "no stored offset".  Each worker is a sink        *)
(* process of its own, with its own OwnershipCache.  A worker can lose a   *)
(* partition to another one without noticing until it next polls; what it  *)
(* then writes is the work of a zombie.                                    *)
(*                                                                         *)
(* Between two attempts at a batch the code polls with its partitions      *)
(* paused; here more records may join the batch, which only adds cases.    *)
(*                                                                         *)
(* An event of kind "rejected" is one whose data the warehouse refuses      *)
(* (SQLSTATE 22 or 23) whenever a transaction tries to write it.           *)
(***************************************************************************)
EXTENDS SinkRouting, Sequences, FiniteSets, FiniteSetsExt

CONSTANTS
    Sources, Keys, Partitions, Workers,
    NoWorker,        \* the partition is assigned to nobody
    Log,             \* Log[p]: the records of partition p
    InitialOwner,    \* engine of the table per source, "unregistered" when unknown
    SkipUnknown,     \* SINK_UNKNOWN_SOURCE_POLICY = skip
    OffsetReset,     \* SINK_ALLOW_OFFSET_RESET
    MaxBatch,        \* SINK_MAX_BATCH_EVENTS
    QuarantineRows,  \* SINK_QUARANTINE_MAX_ROWS
    QuarantinePercent, \* SINK_QUARANTINE_MAX_RATIO, in percent
    Requests,        \* bound: the operator requests that happen
    Operated,        \* bound: the sources they are about
    MaxEpoch,        \* bound: the largest epoch
    MaxGeneration,   \* bound: the largest capture generation
    MaxFaults,       \* bound: crashes, rebalances and failed calls
    MaxExpired       \* bound: records of a partition lost to retention

Targets == {"prod", "shadow"}
Record == [kind : {"event", "poison", "empty", "rejected"}, source : Sources, key : Keys,
           lsn : Nat, deleted : BOOLEAN]

ASSUME SinkAssumption ==
    /\ NoWorker \notin Workers /\ IsFiniteSet(Partitions)
    /\ \A p \in Partitions : Log[p] \in Seq(Record)
    /\ InitialOwner \in [Sources -> Engine \cup {"unregistered"}]
    /\ SkipUnknown \in BOOLEAN /\ OffsetReset \in BOOLEAN
    /\ MaxBatch \in Nat \ {0} /\ Operated \subseteq Sources
    /\ QuarantineRows \in Nat /\ QuarantinePercent \in Nat
    /\ MaxEpoch \in Nat /\ MaxGeneration \in Nat
    /\ MaxFaults \in Nat /\ MaxExpired \in Nat

VARIABLES
    \* the warehouse
    flag,       \* flag[s]: the row of meta.ingestion_ownership
    gen,        \* gen[s]: capture_generation, 0 while s is not registered
    raw,        \* raw["prod"][s][k] and raw["shadow"][s][k]
    stored,     \* stored[p]: meta.consumer_offsets.next_offset
    \* Kafka
    logStart,   \* logStart[p]: the oldest record retention has kept
    owner,      \* owner[p]: the worker the group coordinator assigned p to
    \* the workers
    has,        \* has[w]: the partitions w believes it is assigned
    lo, hi,     \* w buffers the records lo[w][p] .. hi[w][p] - 1 of p
    held,       \* held[w]: partitions w has paused because of a HOLD
    view,       \* view[w]: the OwnershipSnapshot w routes by
    loading,    \* loading[w]: the source half of a snapshot being loaded
    snap,       \* snap[w]: the snapshot the batch in progress was routed by
    pc,         \* where w is in its loop
    iso,        \* iso[w]: what isolate() has left to do
    tripped,    \* tripped[w]: quarantineTripped
    \* history and bounds
    fate,       \* fate[p][i]: what became of record i of partition p
    crossed,    \* partitions that lost a record no assignment could have noticed
    faults

warehouse == <<flag, gen, raw, stored>>
kafka == <<logStart, owner>>
buffers == <<has, lo, hi, held>>
caches == <<view, loading>>
isolation == <<iso, tripped>>
history == <<fate, crossed>>
vars == <<warehouse, kafka, buffers, caches, snap, pc, isolation, history, faults>>

View == [gen : [Sources -> Nat],
         entry : [Sources -> [engine : Engine, shadow : Writers \cup {NoEngine},
                              state : CutoverState, epoch : Nat]]]
EmptyView == [gen |-> [s \in Sources |-> 0], entry |-> [s \in Sources |-> NoEntry]]
NotLoading == [on |-> FALSE, gen |-> [s \in Sources |-> 0]]
\* The deque of parts, each a set of records (their order is that of their
\* partitions and otherwise any), the partitions found to hold, and how many more
\* records may be quarantined.
NotIsolating == [work |-> <<>>, held |-> {}, left |-> 0]
Fates == {"prod", "shadow", "discarded", "skipped", "empty", "dead"}

TypeOK ==
    /\ flag \in [Sources -> OwnershipRow({}, {})]
    /\ gen \in [Sources -> Nat]
    /\ raw \in [Targets -> [Sources -> [Keys -> [gen : Nat, lsn : Nat, deleted : BOOLEAN]]]]
    /\ stored \in [Partitions -> Nat]
    /\ logStart \in [Partitions -> Nat]
    /\ owner \in [Partitions -> Workers \cup {NoWorker}]
    /\ has \in [Workers -> SUBSET Partitions]
    /\ lo \in [Workers -> [Partitions -> Nat]] /\ hi \in [Workers -> [Partitions -> Nat]]
    /\ held \in [Workers -> SUBSET Partitions]
    /\ view \in [Workers -> View] /\ snap \in [Workers -> View]
    /\ loading \in [Workers -> [on : BOOLEAN, gen : [Sources -> Nat]]]
    /\ pc \in [Workers -> {"reload", "idle", "routed", "isolating", "fenced", "stopped"}]
    /\ iso \in [Workers -> [work : Seq(SUBSET (Partitions \X Nat)), held : SUBSET Partitions, left : Nat]]
    /\ tripped \in [Workers -> BOOLEAN]
    /\ \A p \in Partitions : fate[p] \in [1..Len(Log[p]) -> SUBSET Fates]
    /\ crossed \subseteq Partitions
    /\ faults \in 0..MaxFaults

FlagOf(e) == CASE e = "unregistered" -> NoFlag
               [] e = "NONE"         -> FreshRow
               [] OTHER              -> Assign(FreshRow, e)

Nothing == [s \in Sources |-> [k \in Keys |-> Absent]]

Init ==
    /\ flag = [s \in Sources |-> FlagOf(InitialOwner[s])]
    /\ gen = [s \in Sources |-> IF InitialOwner[s] = "unregistered" THEN 0 ELSE 1]
    /\ raw = [t \in Targets |-> Nothing]
    /\ stored = [p \in Partitions |-> 0]
    /\ logStart = [p \in Partitions |-> 1]
    /\ owner = [p \in Partitions |-> NoWorker]
    /\ has = [w \in Workers |-> {}] /\ held = [w \in Workers |-> {}]
    /\ lo = [w \in Workers |-> [p \in Partitions |-> 1]] /\ hi = lo
    /\ view = [w \in Workers |-> EmptyView] /\ snap = view
    /\ loading = [w \in Workers |-> NotLoading]
    /\ pc = [w \in Workers |-> "reload"]
    /\ iso = [w \in Workers |-> NotIsolating]
    /\ tripped = [w \in Workers |-> FALSE]
    /\ fate = [p \in Partitions |-> [i \in 1..Len(Log[p]) |-> {}]]
    /\ crossed = {}
    /\ faults = 0

-----------------------------------------------------------------------------
(***************************************************************************)
(* OwnershipCache.load: two statements outside a transaction, first the    *)
(* sources, then the flags.  The timer starts one at any moment; a worker  *)
(* that starts or was fenced waits for one (pc "reload", or "fenced" when   *)
(* it is isolating a batch).                                               *)
(***************************************************************************)

LoadSources(w) ==
    /\ pc[w] # "stopped"
    /\ ~loading[w].on
    /\ loading' = [loading EXCEPT ![w] = [on |-> TRUE, gen |-> gen]]
    /\ UNCHANGED <<warehouse, kafka, buffers, view, snap, pc, isolation, history, faults>>

\* Where w goes on after a refresh; an isolation takes the new snapshot.
Refreshed(w) ==
    /\ pc' = [pc EXCEPT ![w] = CASE @ = "reload" -> "idle"
                                 [] @ = "fenced" -> "isolating"
                                 [] OTHER        -> @]
    /\ snap' = IF pc[w] = "fenced" THEN [snap EXCEPT ![w] = view'[w]] ELSE snap

LoadFlags(w) ==
    /\ loading[w].on
    /\ view' = [view EXCEPT ![w] = [gen |-> loading[w].gen,
                                    entry |-> [s \in Sources |-> CacheEntry(flag[s])]]]
    /\ loading' = [loading EXCEPT ![w] = NotLoading]
    /\ Refreshed(w)
    /\ UNCHANGED <<warehouse, kafka, buffers, isolation, history, faults>>

\* A refresh fails: the old snapshot stays; a worker that was fenced goes on
\* with it, one that starts has none and keeps trying.
LoadFails(w) ==
    /\ loading[w].on
    /\ faults < MaxFaults
    /\ faults' = faults + 1
    /\ loading' = [loading EXCEPT ![w] = NotLoading]
    /\ UNCHANGED view
    /\ IF view[w] # EmptyView THEN Refreshed(w) ELSE UNCHANGED <<pc, snap>>
    /\ UNCHANGED <<warehouse, kafka, buffers, isolation, history>>

-----------------------------------------------------------------------------
(***************************************************************************)
(* The consumer group.  Its callbacks run inside a poll: one of loop(), or *)
(* the one of keepAlive() before a part of a batch that is isolated.       *)
(***************************************************************************)

\* Fault: the stored offset is not compared with the log start.
FaultyOffsetGap(p) == FALSE

\* The stored offset of p is older than the log start.
OffsetGap(p) == stored[p] # 0 /\ stored[p] < logStart[p]

\* The warehouse's offset, or the beginning when there is none or it expired.
ResumeFrom(p) == IF stored[p] = 0 \/ OffsetGap(p) THEN logStart[p] ELSE stored[p]

Isolating(w) == pc[w] = "isolating" /\ iso[w].work # <<>>

Polling(w) == pc[w] = "idle" \/ Isolating(w)

Assignable(w, p) == owner[p] = NoWorker /\ p \notin has[w] /\ Polling(w)

\* onPartitionsAssigned: resume, unless a gap forbids it.
AssignPartition(w, p) ==
    /\ Assignable(w, p)
    /\ OffsetGap(p) => OffsetReset
    /\ lo' = [lo EXCEPT ![w][p] = ResumeFrom(p)]
    /\ hi' = [hi EXCEPT ![w][p] = ResumeFrom(p)]
    /\ owner' = [owner EXCEPT ![p] = w]
    /\ has' = [has EXCEPT ![w] = @ \cup {p}]
    /\ crossed' = IF (stored[p] = 0 /\ logStart[p] > 1) \/ OffsetGap(p)
                  THEN crossed \cup {p} ELSE crossed
    /\ UNCHANGED <<warehouse, logStart, held, caches, snap, pc, isolation, fate, faults>>

\* The process ends.  Its partitions go back to the group.
Stop(w, next) ==
    /\ pc' = [pc EXCEPT ![w] = next]
    /\ owner' = [p \in Partitions |-> IF owner[p] = w THEN NoWorker ELSE owner[p]]
    /\ has' = [has EXCEPT ![w] = {}] /\ held' = [held EXCEPT ![w] = {}]
    /\ lo' = [lo EXCEPT ![w] = [p \in Partitions |-> 1]]
    /\ hi' = [hi EXCEPT ![w] = [p \in Partitions |-> 1]]
    /\ view' = [view EXCEPT ![w] = EmptyView] /\ snap' = [snap EXCEPT ![w] = EmptyView]
    /\ loading' = [loading EXCEPT ![w] = NotLoading]
    /\ iso' = [iso EXCEPT ![w] = NotIsolating]
    /\ tripped' = [tripped EXCEPT ![w] = FALSE]
    /\ UNCHANGED <<warehouse, logStart, history>>

\* SinkFatalException: the gap stops the sink until someone reconciles.
RefusePartition(w, p) ==
    /\ Assignable(w, p) /\ pc[w] = "idle"
    /\ OffsetGap(p) /\ ~OffsetReset
    /\ Stop(w, "stopped")
    /\ UNCHANGED faults

Crash(w) ==
    /\ pc[w] # "stopped" /\ faults < MaxFaults
    /\ faults' = faults + 1
    /\ Stop(w, "reload")

\* dropBuffered and, in keepAlive, the same for the parts still to do.
Drop(w, ps) ==
    /\ iso' = [iso EXCEPT ![w].work =
                 [n \in DOMAIN @ |-> {x \in @[n] : x[1] \notin ps}]]
    /\ has' = [has EXCEPT ![w] = @ \ ps]
    /\ held' = [held EXCEPT ![w] = @ \ ps]
    /\ lo' = [lo EXCEPT ![w] = [p \in Partitions |-> IF p \in ps THEN 1 ELSE @[p]]]
    /\ hi' = [hi EXCEPT ![w] = [p \in Partitions |-> IF p \in ps THEN 1 ELSE @[p]]]

\* onPartitionsRevoked, inside a poll of w.
RevokePartition(w, p) ==
    /\ owner[p] = w /\ p \in has[w] /\ Polling(w)
    /\ faults < MaxFaults
    /\ faults' = faults + 1
    /\ owner' = [owner EXCEPT ![p] = NoWorker]
    /\ Drop(w, {p})
    /\ UNCHANGED <<warehouse, logStart, caches, snap, pc, tripped, history>>

\* max.poll.interval expires: the coordinator gives up on w, which does not
\* know it yet.
Evict(w) ==
    /\ \E p \in Partitions : owner[p] = w
    /\ faults < MaxFaults
    /\ faults' = faults + 1
    /\ owner' = [p \in Partitions |-> IF owner[p] = w THEN NoWorker ELSE owner[p]]
    /\ UNCHANGED <<warehouse, logStart, buffers, caches, snap, pc, isolation, history>>

\* onPartitionsLost: a later poll of w finds out.
LosePartitions(w) ==
    LET lost == {p \in has[w] : owner[p] # w}
    IN  /\ Polling(w) /\ lost # {}
        /\ Drop(w, lost)
        /\ UNCHANGED <<warehouse, kafka, caches, snap, pc, tripped, history, faults>>

\* Retention removes the oldest record of p, perhaps one that the consumer
\* reading p has not fetched.
Expire(p) ==
    /\ logStart[p] <= MaxExpired
    /\ logStart[p] <= Len(Log[p])
    /\ logStart' = [logStart EXCEPT ![p] = @ + 1]
    /\ crossed' = IF \E w \in Workers : p \in has[w] /\ hi[w][p] = logStart[p]
                  THEN crossed \cup {p} ELSE crossed
    /\ UNCHANGED <<warehouse, owner, buffers, caches, snap, pc, isolation, fate, faults>>

-----------------------------------------------------------------------------
(***************************************************************************)
(* loop(): poll, then process the buffer.                                  *)
(***************************************************************************)

Buffered(w) == UNION {{p} \X (lo[w][p]..hi[w][p] - 1) : p \in has[w]}

CanPoll(w, p) ==
    /\ pc[w] = "idle" /\ p \in has[w] \ held[w]
    /\ Cardinality(Buffered(w)) < MaxBatch
    /\ hi[w][p] <= Len(Log[p])

Poll(w, p) ==
    /\ CanPoll(w, p)
    /\ hi[w][p] >= logStart[p]
    /\ hi' = [hi EXCEPT ![w][p] = @ + 1]
    /\ UNCHANGED <<warehouse, kafka, has, lo, held, caches, snap, pc, isolation, history, faults>>

\* auto.offset.reset = earliest: a position retention has overtaken moves to
\* the log start.  (Taken once the records before the gap are processed.)
PollReset(w, p) ==
    /\ CanPoll(w, p)
    /\ hi[w][p] < logStart[p] /\ lo[w][p] = hi[w][p]
    /\ lo' = [lo EXCEPT ![w][p] = logStart[p]]
    /\ hi' = [hi EXCEPT ![w][p] = logStart[p]]
    /\ UNCHANGED <<warehouse, kafka, has, held, caches, snap, pc, isolation, history, faults>>

-----------------------------------------------------------------------------
(***************************************************************************)
(* process(): a batch is the snapshot it is routed by, its records, and    *)
(* the partitions in which an earlier part of it met a HOLD.               *)
(***************************************************************************)

Batch(w, v) == [snap |-> v, recs |-> Buffered(w), held |-> {}]

At(x) == Log[x[1]][x[2]]

Disposition(v, r) ==
    IF r.kind = "poison" THEN "dead"
    ELSE IF r.kind = "empty" THEN "empty"
    ELSE LET route == Route(v.gen[r.source], v.entry[r.source])
         IN  IF route = "unknown" /\ ~SkipUnknown THEN "dead" ELSE route

\* Fault: a part does not know of the holds of the parts before it.
FaultyHeldBack(b) ==
    {x \in b.recs : \E y \in b.recs :
        y[1] = x[1] /\ y[2] <= x[2] /\ Disposition(b.snap, At(y)) = "hold"}

\* The records a HOLD keeps back: it and what follows it in its partition.
HeldBack(b) ==
    {x \in b.recs : \/ x[1] \in b.held
                    \/ \E y \in b.recs : /\ y[1] = x[1] /\ y[2] <= x[2]
                                         /\ Disposition(b.snap, At(y)) = "hold"}

\* heldFrom.keySet()
Holding(b) == b.held \cup {x[1] : x \in HeldBack(b)}

\* The records the batch disposes of.
Taken(b) == b.recs \ HeldBack(b)

TakenAs(b, d) == {x \in Taken(b) : Disposition(b.snap, At(x)) = d}

\* What is recorded of the records xs, once they have come to the fate f.
Mark(xs, f) ==
    [p \in Partitions |-> [i \in 1..Len(Log[p]) |->
        IF <<p, i>> \in xs THEN fate[p][i] \cup {f} ELSE fate[p][i]]]

Letters(b) == TakenAs(b, "dead")

\* A batch takes the current snapshot, is routed, and its dead letters are
\* published and acknowledged before anything is written.
RouteBatch(w) ==
    /\ pc[w] = "idle" /\ Buffered(w) # {}
    /\ snap' = [snap EXCEPT ![w] = view[w]]
    /\ fate' = Mark(Letters(Batch(w, view[w])), "dead")
    /\ pc' = [pc EXCEPT ![w] = "routed"]
    /\ UNCHANGED <<warehouse, kafka, buffers, caches, isolation, crossed, faults>>

\* Publishing fails half way; the batch will be tried again.
PublishFails(w) ==
    /\ pc[w] = "idle" /\ faults < MaxFaults
    /\ LET letters == Letters(Batch(w, view[w]))
       IN  \E sent \in (SUBSET letters) \ {letters} : fate' = Mark(sent, "dead")
    /\ faults' = faults + 1
    /\ UNCHANGED <<warehouse, kafka, buffers, caches, snap, pc, isolation, crossed>>

-----------------------------------------------------------------------------
(***************************************************************************)
(* WarehouseWriter.write: one transaction that re-checks the skips, fences *)
(* and applies the events and moves the offsets.  It holds the shared      *)
(* locks of the flags it depends on until it commits, so a flag cannot     *)
(* move in between: one step.                                              *)
(***************************************************************************)

EpochUsed(b, x) == b.snap.entry[At(x).source].epoch
FlagAt(x) == flag[At(x).source]

\* verifySkips
SkipsStand(b) ==
    /\ \A x \in TakenAs(b, "skip") : SkipIsCurrent(FlagAt(x), EpochUsed(b, x))
    /\ \A x \in TakenAs(b, "unknown") : gen[At(x).source] = 0

Accepted(b) ==
    /\ SkipsStand(b)
    /\ \A t \in Targets : \A x \in TakenAs(b, t) :
         FenceAccepts(FlagAt(x), "KAFKA", t, EpochUsed(b, x))

\* The events of the batch whose data the warehouse refuses.
Refused(b) == {x \in Taken(b) : At(x).kind = "rejected" /\ Disposition(b.snap, At(x)) \in Targets}

\* A data error, which may come before the fence (COPY) or after it.
Rejected(b) == SkipsStand(b) /\ Refused(b) # {}

\* The row an event is staged as: its generation is the cached one.
StagedRow(b, x) ==
    [gen |-> b.snap.gen[At(x).source], lsn |-> At(x).lsn, deleted |-> At(x).deleted]

\* DISTINCT ON ... ORDER BY generation DESC, lsn DESC, _stage_seq DESC.
Newest(xs) ==
    CHOOSE x \in xs : \A y \in xs :
        At(x).lsn > At(y).lsn \/ (At(x).lsn = At(y).lsn /\ x[2] >= y[2])

Applied(b) ==
    [t \in Targets |-> [s \in Sources |-> [k \in Keys |->
        LET staged == {x \in TakenAs(b, t) : At(x).source = s /\ At(x).key = k}
        IN  IF staged = {} THEN raw[t][s][k]
                           ELSE Upsert(raw[t][s][k], StagedRow(b, Newest(staged)))]]]

\* Fault: the offset of the last writer wins.
FaultyGreatest(old, new) == new

\* GREATEST(consumer_offsets.next_offset, EXCLUDED.next_offset)
Greatest(old, new) == IF new > old THEN new ELSE old

\* The offset after the records xs of partition p, or otherwise.
After(xs, p, otherwise) ==
    LET done == {x[2] : x \in {y \in xs : y[1] = p}}
    IN  IF done = {} THEN otherwise ELSE Max(done) + 1

StoreOffsets(xs) ==
    stored' = [p \in Partitions |-> Greatest(stored[p], After(xs, p, stored[p]))]

\* Fault: an event of an unknown source keeps its route as its fate.
FaultyOutcome(d) == d

Outcome(d) == IF d = "unknown" \/ d = "skip" THEN "skipped" ELSE d

\* The transaction commits; before is the fate of the records before it.
Write(b, before) ==
    /\ Accepted(b) /\ Refused(b) = {}
    /\ raw' = Applied(b)
    /\ StoreOffsets(Taken(b))
    /\ fate' = [p \in Partitions |-> [i \in 1..Len(Log[p]) |->
                  IF <<p, i>> \in Taken(b)
                  THEN before[p][i] \cup ({Outcome(Disposition(b.snap, Log[p][i]))} \ {"dead"})
                  ELSE before[p][i]]]
    /\ UNCHANGED <<flag, gen>>

\* Fault: a partition that held once is never resumed.
FaultyApplyHolds(w, ps) == held' = [held EXCEPT ![w] = (@ \cup ps) \cap has[w]]

\* Pause the partitions ps that are still assigned; all others are resumed.
ApplyHolds(w, ps) == held' = [held EXCEPT ![w] = ps \cap has[w]]

\* The records xs leave the buffer.
RemoveProcessed(w, xs) ==
    lo' = [lo EXCEPT ![w] = [p \in Partitions |-> After(xs \cap Buffered(w), p, @[p])]]

\* The transaction commits and settle() drops what was processed and pauses
\* the partitions that hold.
WriteBatch(w) ==
    LET b == Batch(w, snap[w])
    IN  /\ pc[w] = "routed"
        /\ Write(b, fate)
        /\ RemoveProcessed(w, Taken(b))
        /\ ApplyHolds(w, Holding(b))
        /\ snap' = [snap EXCEPT ![w] = EmptyView]
        /\ pc' = [pc EXCEPT ![w] = "idle"]
        /\ tripped' = [tripped EXCEPT ![w] = FALSE]
        /\ UNCHANGED <<kafka, has, hi, caches, iso, crossed, faults>>

\* FencedWriteException: rolled back, reload the snapshot, route again.  A
\* refresh of the timer that is under way comes first, but the worker waits for
\* its own (refresh is synchronized), so only the latter matters.
Fenced(w) ==
    /\ pc[w] = "routed"
    /\ ~Accepted(Batch(w, snap[w]))
    /\ snap' = [snap EXCEPT ![w] = EmptyView]
    /\ pc' = [pc EXCEPT ![w] = "reload"]
    /\ loading' = [loading EXCEPT ![w] = NotLoading]
    /\ UNCHANGED <<warehouse, kafka, buffers, view, isolation, history, faults>>

\* The connection breaks before or after the commit: the worker cannot tell
\* and keeps the batch in its buffer.
WriteInterrupted(w) ==
    /\ pc[w] = "routed" /\ faults < MaxFaults
    /\ \/ Write(Batch(w, snap[w]), fate)
       \/ UNCHANGED <<warehouse, fate>>
    /\ faults' = faults + 1
    /\ snap' = [snap EXCEPT ![w] = EmptyView]
    /\ pc' = [pc EXCEPT ![w] = "idle"]
    /\ UNCHANGED <<kafka, buffers, caches, isolation, crossed>>

-----------------------------------------------------------------------------
(***************************************************************************)
(* isolate(): a batch with data the warehouse refuses is halved until the  *)
(* record is alone, and that record is published as a dead letter.  Parts  *)
(* are processed in order; publishing and writing a part is one step,      *)
(* since the snapshot is fixed before and the write checks it.             *)
(***************************************************************************)

QuarantineLimit(n) ==
    Max({1, Min({QuarantineRows, (QuarantinePercent * n + 99) \div 100})})

\* Fault: the breaker does not last beyond the batch that tripped it.
FaultyMayIsolate(w) == TRUE

MayIsolate(w) == ~tripped[w]

\* A data error: isolate with a snapshot of its own, or, once the breaker has
\* tripped, try the same batch again.
RejectBatch(w) ==
    /\ pc[w] = "routed"
    /\ Rejected(Batch(w, snap[w]))
    /\ \/ /\ MayIsolate(w)
          /\ iso' = [iso EXCEPT ![w] = [work |-> <<Buffered(w)>>, held |-> {},
                                        left |-> QuarantineLimit(Cardinality(Buffered(w)))]]
          /\ snap' = [snap EXCEPT ![w] = view[w]]
          /\ pc' = [pc EXCEPT ![w] = "isolating"]
       \/ /\ ~MayIsolate(w)
          /\ snap' = [snap EXCEPT ![w] = EmptyView]
          /\ pc' = [pc EXCEPT ![w] = "idle"]
          /\ UNCHANGED iso
    /\ UNCHANGED <<warehouse, kafka, buffers, caches, tripped, history, faults>>

Part(w) == [snap |-> snap[w], recs |-> Head(iso[w].work), held |-> iso[w].held]
Published(w) == Mark(Letters(Part(w)), "dead")

\* The part is written; one that keepAlive has emptied is passed over.
IsolateApply(w) ==
    LET b == Part(w)
    IN  /\ Isolating(w)
        /\ Write(b, Published(w))
        /\ RemoveProcessed(w, Taken(b))
        /\ iso' = [iso EXCEPT ![w].work = Tail(@), ![w].held = Holding(b)]
        /\ UNCHANGED <<kafka, has, hi, held, caches, snap, pc, tripped, crossed, faults>>

\* Half of a part comes first: any half that the buffer, which keeps the order
\* of each partition, may have in front.
IsFirstHalf(first, part) ==
    /\ Cardinality(first) = Cardinality(part) \div 2
    /\ \A x \in first, y \in part \ first : x[1] = y[1] => x[2] < y[2]

IsolateSplit(w) ==
    LET part == Head(iso[w].work)
    IN  /\ Isolating(w) /\ Rejected(Part(w)) /\ Cardinality(part) > 1
        /\ \E first \in SUBSET part :
             /\ IsFirstHalf(first, part)
             /\ iso' = [iso EXCEPT ![w].work = <<first, part \ first>> \o Tail(@)]
        /\ fate' = Published(w)
        /\ UNCHANGED <<warehouse, kafka, buffers, caches, snap, pc, tripped, crossed, faults>>

\* A record that is refused on its own.
Culprit(w) ==
    /\ Isolating(w) /\ Rejected(Part(w))
    /\ \E x \in Head(iso[w].work) : Head(iso[w].work) = {x}

\* Fault: the offset after the record is stored, but no letter was published.
FaultyQuarantineCommits(w) ==
    /\ Culprit(w) /\ iso[w].left > 0
    /\ StoreOffsets(Part(w).recs)
    /\ UNCHANGED <<flag, gen, raw, fate>>

\* The letter is acknowledged, then the offset after the record is stored.
QuarantineCommits(w) ==
    /\ Culprit(w) /\ iso[w].left > 0
    /\ fate' = Mark(Part(w).recs, "dead")
    /\ StoreOffsets(Part(w).recs)
    /\ UNCHANGED <<flag, gen, raw>>

Quarantine(w) ==
    /\ QuarantineCommits(w)
    /\ RemoveProcessed(w, Part(w).recs)
    /\ iso' = [iso EXCEPT ![w].work = Tail(@), ![w].left = @ - 1]
    /\ UNCHANGED <<kafka, has, hi, held, caches, snap, pc, tripped, crossed, faults>>

\* isolate() returns or throws; its holds are applied either way.
LeaveIsolation(w, next) ==
    /\ iso' = [iso EXCEPT ![w] = NotIsolating]
    /\ snap' = [snap EXCEPT ![w] = EmptyView]
    /\ pc' = [pc EXCEPT ![w] = next]
    /\ ApplyHolds(w, iso[w].held)

IsolateDone(w) ==
    /\ pc[w] = "isolating" /\ iso[w].work = <<>>
    /\ LeaveIsolation(w, "idle")
    /\ UNCHANGED <<warehouse, kafka, has, lo, hi, caches, tripped, history, faults>>

\* QuarantineLimitException
TripQuarantine(w) ==
    /\ Culprit(w) /\ iso[w].left = 0
    /\ tripped' = [tripped EXCEPT ![w] = TRUE]
    /\ LeaveIsolation(w, "idle")
    /\ UNCHANGED <<warehouse, kafka, has, lo, hi, caches, history, faults>>

\* Fenced: reload and repeat the part or, the fifth time, give up.
IsolateFenced(w) ==
    /\ Isolating(w) /\ ~Accepted(Part(w))
    /\ fate' = Published(w)
    /\ loading' = [loading EXCEPT ![w] = NotLoading]
    /\ \/ /\ pc' = [pc EXCEPT ![w] = "fenced"]
          /\ UNCHANGED <<iso, snap, held>>
       \/ LeaveIsolation(w, "reload")
    /\ UNCHANGED <<warehouse, kafka, has, lo, hi, view, tripped, crossed, faults>>

\* Publishing or writing a part fails, the latter perhaps after the commit.
IsolateInterrupted(w) ==
    /\ Isolating(w) /\ Head(iso[w].work) # {} /\ faults < MaxFaults
    /\ \/ Write(Part(w), Published(w))
       \/ QuarantineCommits(w)
       \/ /\ \E sent \in SUBSET (IF Culprit(w) /\ iso[w].left > 0
                                 THEN Part(w).recs ELSE Letters(Part(w))) :
               fate' = Mark(sent, "dead")
          /\ UNCHANGED warehouse
    /\ faults' = faults + 1
    /\ LeaveIsolation(w, "idle")
    /\ UNCHANGED <<kafka, has, lo, hi, caches, tripped, crossed>>

\* onPartitionsAssigned throws inside keepAlive(), for a gap or because the
\* offsets cannot be loaded.  The client reports a KafkaException, which
\* processWithRetry takes for a failure to publish: the worker goes on, with
\* the partition assigned and no seek.  External: the client then starts from
\* its own commit, at most the stored offset, or from the log start.
AssignmentThrows(w, p) ==
    /\ Assignable(w, p) /\ Isolating(w)
    /\ \/ OffsetGap(p) /\ ~OffsetReset /\ UNCHANGED faults
       \/ faults < MaxFaults /\ faults' = faults + 1
    /\ \E position \in logStart[p]..Greatest(logStart[p], stored[p]) :
         /\ lo' = [lo EXCEPT ![w][p] = position]
         /\ hi' = [hi EXCEPT ![w][p] = position]
    /\ owner' = [owner EXCEPT ![p] = w]
    /\ has' = [has EXCEPT ![w] = @ \cup {p}]
    /\ crossed' = IF stored[p] = 0 /\ logStart[p] > 1 THEN crossed \cup {p} ELSE crossed
    /\ LeaveIsolation(w, "idle")
    /\ UNCHANGED <<warehouse, logStart, caches, tripped, fate>>

-----------------------------------------------------------------------------
(***************************************************************************)
(* The operators: requests on the flags, as FeatureFlag specifies them,    *)
(* reduced to what the sink can see, with their effect on the two copies   *)
(* of the table.  They take the exclusive lock of the flag.                *)
(***************************************************************************)

SetFlag(s, request, new) ==
    /\ request \in Requests
    /\ flag[s].epoch # 0
    /\ new.epoch <= MaxEpoch
    /\ flag' = [flag EXCEPT ![s] = new]
    /\ UNCHANGED <<stored, kafka, buffers, caches, snap, pc, isolation, crossed, faults>>

\* The fates of the records of s when every fate x is now becomes[x].
Refate(s, becomes) ==
    [p \in Partitions |-> [i \in 1..Len(Log[p]) |->
        IF Log[p][i].source = s THEN {becomes[x] : x \in fate[p][i]} ELSE fate[p][i]]]

NoKeys == [k \in Keys |-> Absent]

WhenCleared == [x \in Fates |-> IF x = "shadow" THEN "discarded" ELSE x]
WhenPromoted == [x \in Fates |-> CASE x = "prod"   -> "discarded"
                                   [] x = "shadow" -> "prod"
                                   [] OTHER        -> x]

\* meta.clear_shadow and meta.promote_shadow
ClearShadow(s) ==
    /\ raw' = [raw EXCEPT !["shadow"][s] = NoKeys]
    /\ fate' = Refate(s, WhenCleared)

\* Fault: the shadow is emptied, but production keeps the old rows.
FaultyPromoteShadow(s) ==
    /\ raw' = [raw EXCEPT !["shadow"][s] = NoKeys]
    /\ fate' = Refate(s, WhenPromoted)

PromoteShadow(s) ==
    /\ raw' = [raw EXCEPT !["prod"][s] = raw["shadow"][s], !["shadow"][s] = NoKeys]
    /\ fate' = Refate(s, WhenPromoted)

AssignTable(s) ==
    \E e \in Writers : /\ CanAssign(flag[s], e)
                       /\ SetFlag(s, "assign", Assign(flag[s], e))
                       /\ UNCHANGED <<gen, raw, fate>>

StartShadowing(s) ==
    \E e \in Writers :
        /\ CanStartShadow(flag[s], e)
        /\ SetFlag(s, "start_shadow", StartShadow(flag[s], e, NoOne))
        /\ ClearShadow(s)
        /\ gen' = IF e = "KAFKA" THEN [gen EXCEPT ![s] = @ + 1] ELSE gen
        /\ gen'[s] <= MaxGeneration

\* A gate that passes and the cutover that follows it.
ReconcileAndCutOver(s) ==
    /\ CanBeginReconciliation(flag[s])
    /\ LET ready == RecordReconciliation(BeginReconciliation(flag[s]), TRUE, 1)
       IN  CanCutover(ready) /\ SetFlag(s, "cutover", Cutover(ready))
    /\ PromoteShadow(s)
    /\ UNCHANGED gen

AbortShadowing(s) ==
    /\ CanAbortShadow(flag[s])
    /\ SetFlag(s, "abort_shadow", AbortShadow(flag[s]))
    /\ ClearShadow(s)
    /\ UNCHANGED gen

PauseTable(s) ==
    /\ CanPause(flag[s])
    /\ SetFlag(s, "pause", Pause(flag[s]))
    /\ UNCHANGED <<gen, raw, fate>>

ResumeTable(s) ==
    /\ CanResume(flag[s])
    /\ SetFlag(s, "resume", Resume(flag[s]))
    /\ UNCHANGED <<gen, raw, fate>>

ForceAssignTable(s) ==
    \E e \in Engine : /\ CanForceAssign(flag[s], e)
                      /\ SetFlag(s, "force_assign", ForceAssign(flag[s], e))
                      /\ UNCHANGED <<gen, raw, fate>>

\* registry.create, then ensure_rows in a transaction of its own.
RegisterSource(s) ==
    /\ "register" \in Requests /\ gen[s] = 0
    /\ gen' = [gen EXCEPT ![s] = 1]
    /\ UNCHANGED <<flag, raw, stored, kafka, buffers, caches, snap, pc, isolation, history, faults>>

EnsureRows(s) ==
    /\ "register" \in Requests /\ gen[s] # 0 /\ flag[s].epoch = 0
    /\ flag' = [flag EXCEPT ![s] = FreshRow]
    /\ UNCHANGED <<gen, raw, stored, kafka, buffers, caches, snap, pc, isolation, history, faults>>

\* bump-generation, or start_shadow KAFKA on another table of the source: the
\* generation moves and the epoch of this table does not.
BumpGeneration(s) ==
    /\ "bump_generation" \in Requests /\ gen[s] \in 1..MaxGeneration - 1
    /\ gen' = [gen EXCEPT ![s] = @ + 1]
    /\ UNCHANGED <<flag, raw, stored, kafka, buffers, caches, snap, pc, isolation, history, faults>>

-----------------------------------------------------------------------------
Operators ==
    \E s \in Operated :
        \/ AssignTable(s) \/ StartShadowing(s) \/ ReconcileAndCutOver(s)
        \/ AbortShadowing(s) \/ PauseTable(s) \/ ResumeTable(s)
        \/ ForceAssignTable(s) \/ RegisterSource(s) \/ EnsureRows(s)
        \/ BumpGeneration(s)

Group ==
    \/ \E w \in Workers, p \in Partitions :
          \/ AssignPartition(w, p) \/ RefusePartition(w, p)
          \/ RevokePartition(w, p) \/ AssignmentThrows(w, p)
    \/ \E w \in Workers : Evict(w) \/ LosePartitions(w)
    \/ \E p \in Partitions : Expire(p)

Isolate(w) ==
    \/ IsolateApply(w) \/ IsolateSplit(w) \/ IsolateFenced(w)
    \/ Quarantine(w) \/ TripQuarantine(w) \/ IsolateDone(w)

Loop(w) ==
    \/ \E p \in Partitions : Poll(w, p) \/ PollReset(w, p)
    \/ RouteBatch(w) \/ WriteBatch(w) \/ Fenced(w) \/ RejectBatch(w)
    \/ Isolate(w)
    \/ LoadSources(w) \/ LoadFlags(w)

Failure(w) ==
    \/ Crash(w) \/ LoadFails(w) \/ PublishFails(w)
    \/ WriteInterrupted(w) \/ IsolateInterrupted(w)

Next == Operators \/ Group \/ \E w \in Workers : Loop(w) \/ Failure(w)

Spec == Init /\ [][Next]_vars

(***************************************************************************)
(* Fairness.  The timer refreshes the cache for ever and a batch in        *)
(* progress comes to an end (WF).  Every iteration of loop() polls, and a  *)
(* poll is where records, assignments and losses arrive, so what a poll    *)
(* can deliver again and again is delivered (SF).  Failures and operators  *)
(* need not act.                                                           *)
(***************************************************************************)
Fairness ==
    \A w \in Workers :
        /\ WF_vars(LoadSources(w)) /\ WF_vars(LoadFlags(w))
        /\ WF_vars(RouteBatch(w)) /\ WF_vars(WriteBatch(w) \/ Fenced(w) \/ RejectBatch(w))
        /\ WF_vars(Isolate(w))
        /\ SF_vars(LosePartitions(w))
        /\ \A p \in Partitions : /\ SF_vars(Poll(w, p) \/ PollReset(w, p))
                                  /\ SF_vars(AssignPartition(w, p))

FairSpec == Spec /\ Fairness

-----------------------------------------------------------------------------
(***************************************************************************)
(* Properties.                                                             *)
(***************************************************************************)

Below(p) == 1..stored[p] - 1

\* "consumed = applied + skipped + dead-lettered": every record below a stored
\* offset was applied (to a copy that may have been discarded on request
\* since), skipped, or published as a dead letter.  Holds, zombies, crashes,
\* retries and moving flags let none slip.
NothingVanishes ==
    \A p \in Partitions : \A i \in Below(p) : fate[p][i] # {}

\* With retention: records are passed over only where a running consumer was
\* overtaken, or a partition without a stored offset is read for the first
\* time; an assignment that resumes from a stored offset passes over none.
GapsOnlyByReset ==
    \A p \in Partitions \ crossed : \A i \in Below(p) : fate[p][i] # {}

\* What was applied is visible: a row is at least as new as every event that
\* was applied to its copy, in whatever order workers, zombies and retries
\* wrote them.
AppliedIsVisible ==
    \A p \in Partitions : \A i \in 1..Len(Log[p]) : \A t \in fate[p][i] \cap Targets :
        raw[t][Log[p][i].source][Log[p][i].key].lsn >= Log[p][i].lsn

\* No worker, however stale, moves a stored offset back.
OffsetsNeverRegress == [][\A p \in Partitions : stored'[p] >= stored[p]]_vars

\* The sink writes a copy of a table only while the flag of the table gives
\* that copy to KAFKA and is not PAUSED, whatever its cache says.
OnlyTheOwnerWrites ==
    [][\A s \in Sources : flag'[s] = flag[s] /\ flag[s].epoch # 0 =>
         /\ raw'["prod"][s] # raw["prod"][s] =>
              flag[s].engine = "KAFKA" /\ flag[s].state # "PAUSED"
         /\ raw'["shadow"][s] # raw["shadow"][s] =>
              flag[s].shadow = "KAFKA" /\ flag[s].state # "PAUSED"]_vars

\* An event is skipped only while KAFKA has no part in its table: a snapshot
\* from before an assignment or the start of a shadow skips nothing.
SkipsAreCurrent ==
    [][\A p \in Partitions : \A i \in 1..Len(Log[p]) :
         "skipped" \in fate'[p][i] \ fate[p][i] =>
            LET o == flag[Log[p][i].source] IN "KAFKA" \notin {o.engine, o.shadow}]_vars

\* "a late update cannot resurrect a deleted row": unless an operator replaces
\* the copy, a deleted row comes back only by a newer event.
NoResurrection ==
    [][\A t \in Targets, s \in Sources, k \in Keys :
         flag' = flag /\ raw[t][s][k].deleted /\ ~raw'[t][s][k].deleted =>
            raw'[t][s][k].lsn > raw[t][s][k].lsn]_vars

Consumed == \A p \in Partitions : stored[p] > Len(Log[p])

\* A source whose events the sink can dispose of: it writes them, or the
\* source is not registered, or its tables have no flags yet.
Disposable(s) ==
    \/ gen[s] = 0 \/ flag[s].epoch = 0
    \/ Route(gen[s], CacheEntry(flag[s])) \in Targets

\* Every record is eventually consumed, records that cannot be parsed or that
\* the warehouse refuses included, after any of the modelled failures: once the
\* operators leave every table of the topic disposable, and no sink that has
\* suspended its dead-lettering is left without the restart it asks for.
EverythingIsConsumed ==
    <>[](/\ \A s \in Sources : Disposable(s)
         /\ \A w \in Workers : ~tripped[w]) => <>Consumed

\* "Above the limit the error is treated as systemic: dead-lettering stops, the
\* batch is retried": a worker whose breaker has tripped publishes no refused
\* record of a registered source until a batch applies or it restarts.
BreakerStopsDeadLetters ==
    [][(\A w \in Workers : tripped[w] /\ tripped'[w]) =>
         \A p \in Partitions : \A i \in 1..Len(Log[p]) :
            Log[p][i].kind = "rejected" /\ gen[Log[p][i].source] # 0 =>
                "dead" \notin fate'[p][i] \ fate[p][i]]_vars

\* Tables that KAFKA has no part in are skipped, so the topic is consumed once
\* no table is PAUSED.
UnownedTablesAreSkipped ==
    <>[](\A s \in Sources : flag[s].state # "PAUSED") => <>Consumed
=============================================================================
