----------------------------- MODULE Extractor -----------------------------
(***************************************************************************)
(* The Python engine on one (source, table): overlapping runs that page    *)
(* through a source table that keeps changing, and copy it to raw or       *)
(* raw_shadow by a watermark, while operators move the flag.               *)
(*                                                                         *)
(* The source stamps a row with the time its transaction writes it (the    *)
(* cursor column) and the row becomes visible when that transaction        *)
(* commits, up to CommitDelay later: what is visible does not grow in the  *)
(* order of the cursor.  Every page is read by a statement of its own.     *)
(*                                                                         *)
(* A run is for one assignment; the assignments of a run are independent.  *)
(* It is refused while an obstacle stands: a replica that lags too far, or *)
(* a close-of-business job that has not completed lately.                  *)
(* KAFKA's own writes are not here: they never touch a copy while PYTHON   *)
(* writes it.  Cutovers are not here either.                               *)
(***************************************************************************)
EXTENDS Ownership, Integers, FiniteSets

CONSTANTS
    Keys,          \* primary keys
    Runs,          \* concurrent runs of the extractor
    NoRun,         \* nobody holds the lock of a target
    Starts,        \* initial engine, keys with a NULL cursor, cursor_is_usable
    PageSize,      \* EXTRACT_PAGE_SIZE
    Lookback,      \* EXTRACT_LOOKBACK_SECONDS, in ticks
    CommitDelay,   \* bound: ticks from the stamp of a row to its visibility
    RunTime,       \* bound: ticks from the first page of a run to its last
    Obstacles,     \* bound: the obstacles that come and go
    Requests,      \* bound: the operator requests that happen
    MaxClock,      \* bound: ticks
    MaxWrites,     \* bound: the largest row version
    MaxEpoch,      \* bound: the largest epoch
    MaxFaults      \* bound: failed runs

Targets == {"prod", "shadow"}
Modes == {"backfill", "incremental", "reconcile"}

\* Unreachable or lagging, COB not done, lifecycle not one of the running states.
PossibleObstacles == {"lag", "cob", "dormant"}

ASSUME ExtractorAssumption ==
    /\ Keys \subseteq Nat \ {0} /\ IsFiniteSet(Keys)
    /\ NoRun \notin Runs
    /\ Obstacles \subseteq PossibleObstacles
    /\ Starts \subseteq [engine : Writers, legacy : SUBSET Keys, usable : BOOLEAN]
    /\ PageSize \in Nat \ {0}
    /\ Lookback \in Nat /\ CommitDelay \in Nat /\ RunTime \in Nat
    /\ MaxClock \in Nat /\ MaxWrites \in Nat /\ MaxEpoch \in Nat /\ MaxFaults \in Nat

VARIABLES
    flag,      \* the row of meta.ingestion_ownership
    usable,    \* cursor_is_usable of the table's contract
    clock,
    src,       \* src[k]: the visible row of the source
    pending,   \* source rows written by transactions that have not committed
    writes,    \* how many rows the source has committed
    copy,      \* copy["prod"][k] in raw, copy["shadow"][k] in raw_shadow
    wm,        \* wm[t]: meta.extract_watermarks
    lock,      \* lock[t]: the run that holds the advisory lock of target t
    run,       \* run[r]: the progress of run r
    obstacles, \* what stands in the way of runs at this moment
    faults

source == <<src, pending, writes>>
vars == <<flag, usable, clock, source, copy, wm, lock, run, obstacles, faults>>

\* A NULL cursor (less than any start), and the cursor 1970-01-01; a last_pk of
\* 0 is none.
Null == -Lookback - 1
EpochCursor == 0
NoWatermark == [cur |-> Null, pk |-> 0]

\* A row of the source and of a copy; version 0 is no row.
NoRow == [cur |-> Null, ver |-> 0]
NoCopy == [ver |-> 0, deleted |-> FALSE]

Watermarks == [cur : Nat \cup {Null}, pk : Nat]
SourceRows == [cur : Nat \cup {Null}, ver : Nat]
Idle == [pc |-> "idle", mode |-> "incremental", target |-> "prod", epoch |-> 0,
         start |-> NoWatermark, nulls |-> FALSE, page |-> <<>>, gone |-> {}, began |-> 0]

Present(k) == src[k].ver # 0
Live(t) == {k \in Keys : copy[t][k].ver # 0 /\ ~copy[t][k].deleted}

TypeOK ==
    /\ flag \in OwnershipRow({}, {})
    /\ usable \in BOOLEAN
    /\ clock \in Nat /\ writes \in Nat /\ faults \in Nat
    /\ src \in [Keys -> SourceRows]
    /\ pending \subseteq [key : Keys, cur : Nat]
    /\ copy \in [Targets -> [Keys -> [ver : Nat, deleted : BOOLEAN]]]
    /\ wm \in [Targets -> Watermarks]
    /\ lock \in [Targets -> Runs \cup {NoRun}]
    /\ obstacles \subseteq Obstacles
    /\ \A r \in Runs :
         /\ run[r].pc \in {"idle", "planned", "open", "read", "write", "switch",
                           "count", "list", "recheck", "delete", "done"}
         /\ run[r].mode \in Modes /\ run[r].target \in Targets
         /\ run[r].start \in [cur : Int, pk : Nat]
         /\ DOMAIN run[r].page \subseteq Keys /\ run[r].gone \subseteq Keys

Init ==
    /\ \E s \in Starts :
         /\ flag = Assign(FreshRow, s.engine)
         /\ usable = s.usable
         /\ src = [k \in Keys |-> IF k \in s.legacy THEN [cur |-> Null, ver |-> 1] ELSE NoRow]
    /\ clock = 1
    /\ pending = {} /\ writes = 1
    /\ copy = [t \in Targets |-> [k \in Keys |-> NoCopy]]
    /\ wm = [t \in Targets |-> NoWatermark]
    /\ lock = [t \in Targets |-> NoRun]
    /\ run = [r \in Runs |-> Idle]
    /\ obstacles = {}
    /\ faults = 0

-----------------------------------------------------------------------------
(***************************************************************************)
(* The source database and the passage of time.  A row being written is    *)
(* locked, and a stamp is set when the row is written.                     *)
(***************************************************************************)

Extracting(r) == run[r].pc \in {"read", "write", "switch"}

Tick ==
    /\ clock < MaxClock
    /\ \A p \in pending : clock < p.cur + CommitDelay
    /\ \A r \in Runs : Extracting(r) => clock < run[r].began + RunTime
    /\ clock' = clock + 1
    /\ UNCHANGED <<flag, usable, source, copy, wm, lock, run, obstacles, faults>>

BeingWritten(k) == \E p \in pending : p.key = k

SourceWrites(k) ==
    /\ ~BeingWritten(k)
    /\ writes + Cardinality(pending) < MaxWrites
    /\ pending' = pending \cup {[key |-> k, cur |-> clock]}
    /\ UNCHANGED <<flag, usable, clock, src, writes, copy, wm, lock, run, obstacles, faults>>

SourceCommits(p) ==
    /\ src' = [src EXCEPT ![p.key] = [cur |-> p.cur, ver |-> writes + 1]]
    /\ writes' = writes + 1
    /\ pending' = pending \ {p}
    /\ UNCHANGED <<flag, usable, clock, copy, wm, lock, run, obstacles, faults>>

SourceDeletes(k) ==
    /\ Present(k) /\ ~BeingWritten(k)
    /\ src' = [src EXCEPT ![k] = NoRow]
    /\ UNCHANGED <<flag, usable, clock, pending, writes, copy, wm, lock, run, obstacles, faults>>

\* Something comes in the way of runs, or goes.  Bound: one thing at a time.
Obstructs(o) ==
    /\ obstacles \subseteq {o}
    /\ obstacles' = {o} \ obstacles
    /\ UNCHANGED <<flag, usable, clock, source, copy, wm, lock, run, faults>>

-----------------------------------------------------------------------------
(***************************************************************************)
(* What a run reads.                                                       *)
(***************************************************************************)

\* in_null_cursor_phase
NullPhase(start) == usable /\ start.cur = Null

\* Fault: the lookback window is not re-read.
FaultyStartFrom(stored) == IF usable THEN stored ELSE NoWatermark

\* Where _extract starts, given the stored watermark.
StartFrom(stored) ==
    IF ~usable THEN NoWatermark
    ELSE IF stored.cur # Null /\ Lookback > 0 THEN [cur |-> stored.cur - Lookback, pk |-> 0]
    ELSE stored

\* The WHERE clause of build_page_query.
Selected(start, nulls, k) ==
    /\ Present(k)
    /\ IF ~usable THEN k > start.pk
       ELSE IF nulls THEN src[k].cur = Null /\ k > start.pk
       ELSE /\ src[k].cur # Null
            /\ src[k].cur > start.cur \/ (src[k].cur = start.cur /\ k > start.pk)

\* Its ORDER BY.
Before(j, k) == IF usable /\ src[j].cur # src[k].cur THEN src[j].cur < src[k].cur ELSE j < k

\* Its LIMIT.
PageKeys(start, nulls) ==
    LET selected == {k \in Keys : Selected(start, nulls, k)}
    IN  {k \in selected : Cardinality({j \in selected : Before(j, k)}) < PageSize}

-----------------------------------------------------------------------------
(***************************************************************************)
(* A run: plan_assignments, then _process under the advisory lock of the   *)
(* target: _extract and _reconcile_deletes.                                *)
(***************************************************************************)

At(r, pc) == run[r].pc = pc
Step(r, pc) == run' = [run EXCEPT ![r].pc = pc]
Enter(r) == IF run[r].mode = "reconcile" THEN "count" ELSE "open"

\* After the last page: deletes are detected where the mode asks for it.
AfterExtract(r) ==
    IF run[r].mode = "backfill" \/ ~usable THEN "count" ELSE "done"

\* plan_assignments: PAUSED tables are left out; the epoch is kept for hours.
Plan(r, mode, t) ==
    /\ At(r, "idle")
    /\ flag.state # "PAUSED"
    /\ "PYTHON" = IF t = "prod" THEN flag.engine ELSE flag.shadow
    /\ run' = [run EXCEPT ![r] = [Idle EXCEPT !.pc = "planned", !.mode = mode, !.target = t,
                                              !.epoch = flag.epoch]]
    /\ UNCHANGED <<flag, usable, clock, source, copy, wm, lock, obstacles, faults>>

\* ensure_replica_safe and _ensure_cob_completed, which reconcile runs skip.  A
\* run changes nothing between them and the lock, so they are looked at there.
Blocked(r) ==
    "lag" \in obstacles \/ ("cob" \in obstacles /\ run[r].mode # "reconcile")

Refused(r) ==
    /\ At(r, "planned") /\ Blocked(r)
    /\ run' = [run EXCEPT ![r] = Idle]
    /\ UNCHANGED <<flag, usable, clock, source, copy, wm, lock, obstacles, faults>>

\* The lock, and the reset of a backfill.
Lock(r) ==
    LET t == run[r].target
    IN  /\ At(r, "planned") /\ ~Blocked(r) /\ lock[t] = NoRun
        /\ lock' = [lock EXCEPT ![t] = r]
        /\ wm' = IF run[r].mode = "backfill" THEN [wm EXCEPT ![t] = NoWatermark] ELSE wm
        /\ Step(r, Enter(r))
        /\ UNCHANGED <<flag, usable, clock, source, copy, obstacles, faults>>

Open(r) ==
    LET start == StartFrom(wm[run[r].target])
    IN  /\ At(r, "open")
        /\ run' = [run EXCEPT ![r].pc = "read", ![r].start = start,
                              ![r].nulls = NullPhase(start), ![r].began = clock]
        /\ UNCHANGED <<flag, usable, clock, source, copy, wm, lock, obstacles, faults>>

ReadPage(r) ==
    /\ At(r, "read")
    /\ run' = [run EXCEPT ![r].pc = "write",
                          ![r].page = [k \in PageKeys(run[r].start, run[r].nulls) |-> src[k]]]
    /\ UNCHANGED <<flag, usable, clock, source, copy, wm, lock, obstacles, faults>>

LastOf(page) ==
    CHOOSE k \in DOMAIN page : \A j \in DOMAIN page :
        IF usable /\ page[j].cur # page[k].cur THEN page[j].cur < page[k].cur ELSE j <= k

\* Fault: the lookback is subtracted from what is stored.
FaultyMarkOf(page) == StartFrom([cur |-> page[LastOf(page)].cur, pk |-> LastOf(page)])

\* next_wm
MarkOf(page) == [cur |-> IF usable THEN page[LastOf(page)].cur ELSE Null, pk |-> LastOf(page)]

AfterPage(r) ==
    IF Cardinality(DOMAIN run[r].page) = PageSize THEN "read"
    ELSE IF run[r].nulls THEN "switch" ELSE AfterExtract(r)

Fence(r) == FenceAccepts(flag, "PYTHON", run[r].target, run[r].epoch)

\* _write_page and the watermark in one transaction, which holds the shared
\* lock of the flag; an empty page writes nothing.
WritePage(r) ==
    LET t == run[r].target
        page == run[r].page
    IN  /\ At(r, "write")
        /\ IF DOMAIN page = {} THEN
                /\ run' = [run EXCEPT ![r].pc = AfterPage(r)]
                /\ UNCHANGED <<copy, wm>>
           ELSE /\ Fence(r)
                /\ copy' = [copy EXCEPT ![t] = [k \in Keys |->
                      IF k \in DOMAIN page THEN [ver |-> page[k].ver, deleted |-> FALSE] ELSE @[k]]]
                /\ wm' = IF usable THEN [wm EXCEPT ![t] = MarkOf(page)] ELSE wm
                /\ run' = [run EXCEPT ![r].pc = AfterPage(r), ![r].start = MarkOf(page),
                                      ![r].page = <<>>]
        /\ UNCHANGED <<flag, usable, clock, source, lock, obstacles, faults>>

\* The NULL pass is over: the watermark moves to the epoch in a transaction of
\* its own, which nothing fences.
SwitchPhase(r) ==
    LET from == [cur |-> EpochCursor, pk |-> 0]
    IN  /\ At(r, "switch")
        /\ wm' = [wm EXCEPT ![run[r].target] = from]
        /\ run' = [run EXCEPT ![r].pc = "read", ![r].start = from, ![r].nulls = FALSE]
        /\ UNCHANGED <<flag, usable, clock, source, copy, lock, obstacles, faults>>

\* source_vs_warehouse on keys only: first the counts are compared (one bucket),
\* then, if they differ, the keys, by statements of their own.
CompareCounts(r) ==
    /\ At(r, "count")
    /\ Step(r, IF Cardinality({k \in Keys : Present(k)}) = Cardinality(Live(run[r].target))
               THEN "done" ELSE "list")
    /\ UNCHANGED <<flag, usable, clock, source, copy, wm, lock, obstacles, faults>>

\* Fault: the difference is taken the wrong way round.
FaultyMissingInSource(here, there) == here \ there

MissingInSource(here, there) == there \ here

ListMissing(r) ==
    /\ At(r, "list")
    /\ run' = [run EXCEPT ![r].pc = "recheck", ![r].gone =
                 MissingInSource({k \in Keys : Present(k)}, Live(run[r].target))]
    /\ UNCHANGED <<flag, usable, clock, source, copy, wm, lock, obstacles, faults>>

\* _still_missing
Recheck(r) ==
    LET gone == {k \in run[r].gone : ~Present(k)}
    IN  /\ At(r, "recheck")
        /\ run' = [run EXCEPT ![r].gone = gone,
                              ![r].pc = IF gone = {} THEN "done" ELSE "delete"]
        /\ UNCHANGED <<flag, usable, clock, source, copy, wm, lock, obstacles, faults>>

\* One chunk of keys is soft-deleted.
WriteDeletes(r) ==
    LET t == run[r].target
        gone == run[r].gone
        chunk == {k \in gone : Cardinality({j \in gone : j < k}) < PageSize}
    IN  /\ At(r, "delete") /\ Fence(r)
        /\ copy' = [copy EXCEPT ![t] = [k \in Keys |->
                      IF k \in chunk THEN [@[k] EXCEPT !.deleted = TRUE] ELSE @[k]]]
        /\ run' = [run EXCEPT ![r].gone = gone \ chunk,
                              ![r].pc = IF gone = chunk THEN "done" ELSE "delete"]
        /\ UNCHANGED <<flag, usable, clock, source, wm, lock, obstacles, faults>>

\* FencedError: the page is rolled back and the assignment is given up.
Fenced(r) ==
    /\ \/ At(r, "write") /\ DOMAIN run[r].page # {}
       \/ At(r, "delete")
    /\ ~Fence(r)
    /\ Step(r, "done")
    /\ UNCHANGED <<flag, usable, clock, source, copy, wm, lock, obstacles, faults>>

Leave(r) ==
    /\ run' = [run EXCEPT ![r] = Idle]
    /\ lock' = [t \in Targets |-> IF lock[t] = r THEN NoRun ELSE lock[t]]
    /\ UNCHANGED <<flag, usable, clock, source, copy, wm, obstacles>>

Unlock(r) == At(r, "done") /\ Leave(r) /\ UNCHANGED faults

\* The source or the warehouse fails, or the process dies.  What was committed
\* stays, the lock goes with the session.
Fail(r) ==
    /\ ~At(r, "idle") /\ faults < MaxFaults
    /\ faults' = faults + 1
    /\ Leave(r)

-----------------------------------------------------------------------------
(***************************************************************************)
(* The operators, under the exclusive lock of the flag.                    *)
(***************************************************************************)

SetFlag(request, new) ==
    /\ request \in Requests
    /\ new.epoch <= MaxEpoch
    /\ flag' = new
    /\ UNCHANGED <<usable, clock, source, lock, run, obstacles, faults>>

\* meta.clear_shadow: the rows and the watermark of the shadow.
ClearShadow ==
    /\ copy' = [copy EXCEPT !["shadow"] = [k \in Keys |-> NoCopy]]
    /\ wm' = [wm EXCEPT !["shadow"] = NoWatermark]

StartShadowing ==
    \E e \in Writers : /\ CanStartShadow(flag, e)
                       /\ SetFlag("start_shadow", StartShadow(flag, e, NoOne))
                       /\ ClearShadow

AbortShadowing ==
    /\ CanAbortShadow(flag)
    /\ SetFlag("abort_shadow", AbortShadow(flag))
    /\ ClearShadow

PauseTable ==
    /\ CanPause(flag)
    /\ SetFlag("pause", Pause(flag))
    /\ UNCHANGED <<copy, wm>>

ResumeTable ==
    /\ CanResume(flag)
    /\ SetFlag("resume", Resume(flag))
    /\ UNCHANGED <<copy, wm>>

-----------------------------------------------------------------------------
Source ==
    \/ Tick
    \/ \E k \in Keys : SourceWrites(k) \/ SourceDeletes(k)
    \/ \E p \in pending : SourceCommits(p)
    \/ \E o \in Obstacles : Obstructs(o)

Operators == StartShadowing \/ AbortShadowing \/ PauseTable \/ ResumeTable

Process(r) ==
    \/ Refused(r) \/ Lock(r) \/ Open(r) \/ ReadPage(r) \/ WritePage(r) \/ SwitchPhase(r)
    \/ CompareCounts(r) \/ ListMissing(r) \/ Recheck(r) \/ WriteDeletes(r) \/ Fenced(r) \/ Unlock(r)

Next ==
    \/ Source \/ Operators
    \/ \E r \in Runs, mode \in Modes, t \in Targets : Plan(r, mode, t)
    \/ \E r \in Runs : Process(r) \/ Fail(r)

Spec == Init /\ [][Next]_vars

(***************************************************************************)
(* Fairness: a transaction of the source ends, a run goes on until it is   *)
(* done, and the scheduler starts incremental and reconcile runs for ever, *)
(* of the sources that run_sources lists.                                  *)
(***************************************************************************)
Scheduled(mode, t) == "dormant" \notin obstacles /\ \E r \in Runs : Plan(r, mode, t)

Fairness ==
    /\ WF_vars(\E p \in pending : SourceCommits(p))
    /\ \A r \in Runs : WF_vars(Process(r))
    /\ \A mode \in {"incremental", "reconcile"}, t \in Targets :
         SF_vars(Scheduled(mode, t))

FairSpec == Spec /\ Fairness

-----------------------------------------------------------------------------
(***************************************************************************)
(* Properties.                                                             *)
(***************************************************************************)

Owns(t) == "PYTHON" = IF t = "prod" THEN flag.engine ELSE flag.shadow

Reflects(t, k) == copy[t][k] = [ver |-> src[k].ver, deleted |-> FALSE]

\* Some page of a run that starts from the stored watermark selects k.
NextRunReads(t, k) ==
    LET start == StartFrom(wm[t])
    IN  \/ Selected(start, NullPhase(start), k)
        \/ NullPhase(start) /\ Selected([cur |-> EpochCursor, pk |-> 0], FALSE, k)

\* _extract: while PYTHON owns or shadows a table, a source row that its copy
\* does not show, because it is new, changed, was committed late or was wrongly
\* taken for deleted, lies where the next run will read it.  Pages, lookback,
\* crashes, fences and restarted shadows leave no row behind the watermark.
NothingLeftBehind ==
    \A t \in Targets, k \in Keys :
        Owns(t) /\ Present(k) => Reflects(t, k) \/ NextRunReads(t, k)

\* run, _extract and _reconcile_deletes: if PYTHON keeps a target, the obstacles
\* clear and the source comes to rest, the target comes to equal the source,
\* deletions included, whatever was refused, fenced or cut short before.
CopyConverges ==
    \A t \in Targets : <>[](Owns(t) /\ flag.state # "PAUSED" /\ obstacles = {}) =>
        <>[](\A k \in Keys : IF Present(k) THEN Reflects(t, k) ELSE k \notin Live(t))
=============================================================================
