-------------------------- MODULE ExtractorProofs --------------------------
(***************************************************************************)
(* The Python engine, for any keys, runs, page size and numbers of ticks   *)
(* and writes: it is well typed, and the watermark leaves no row behind.   *)
(*                                                                         *)
(* A row may be passed over by the pages of a run, because it becomes      *)
(* visible behind them; what matters is that it is not older than the      *)
(* lookback of the runs that follow.  A run that has read up to a position *)
(* therefore has copied every row before it, or the row is "late": it was  *)
(* committed since the run began, and has a stamp of at most CommitDelay   *)
(* before that.  The watermark a run stores is at most RunTime after its   *)
(* beginning.                                                              *)
(***************************************************************************)
EXTENDS Extractor, Extremes

Pages == {<<>>} \cup UNION {[S -> SourceRows] : S \in SUBSET Keys}

RunType ==
    [pc : {"idle", "planned", "open", "read", "write", "switch",
           "count", "list", "recheck", "delete", "done"},
     mode : Modes, target : Targets, epoch : Nat,
     start : [cur : Int, pk : Nat], nulls : BOOLEAN,
     page : Pages, gone : SUBSET Keys, began : Nat]

TypeInv ==
    /\ flag \in OwnershipRow({}, {})
    /\ usable \in BOOLEAN
    /\ clock \in Nat /\ writes \in Nat /\ faults \in Nat
    /\ src \in [Keys -> SourceRows]
    /\ pending \subseteq [key : Keys, cur : Nat]
    /\ copy \in [Targets -> [Keys -> [ver : Nat, deleted : BOOLEAN]]]
    /\ wm \in [Targets -> Watermarks]
    /\ lock \in [Targets -> Runs \cup {NoRun}]
    /\ obstacles \subseteq Obstacles
    /\ run \in [Runs -> RunType]

\* A run beyond the lock of its target holds it.
Locked == \A r \in Runs : run[r].pc \notin {"idle", "planned"} => lock[run[r].target] = r

\* No stamp lies in the future, transactions of the source do not wait longer
\* than CommitDelay, and runs do not read longer than RunTime.
Timely ==
    /\ \A k \in Keys : src[k].cur <= clock
    /\ \A p \in pending : p.cur <= clock /\ clock <= p.cur + CommitDelay
    /\ \A t \in Targets : wm[t].cur <= clock
    /\ \A r \in Runs : Extracting(r) => run[r].began <= clock /\ clock <= run[r].began + RunTime
    /\ \A r \in Runs : \A k \in DOMAIN run[r].page : run[r].page[k].cur <= clock

\* The flag has not moved since run r was planned: the fence lets it write.
Current(r) == run[r].epoch = flag.epoch

\* A run that is not fenced owns its target; production stays with its engine.
Planned ==
    /\ flag.engine \in Writers /\ flag.shadow # flag.engine
    /\ \A r \in Runs : run[r].pc # "idle" =>
         /\ run[r].epoch <= flag.epoch
         /\ Current(r) => Owns(run[r].target)
         /\ run[r].target = "prod" => flag.engine = "PYTHON"

\* Rows without a cursor are those the table had at first: the source stamps
\* what it writes.
Legacy(k) == Present(k) /\ src[k].cur = Null

LegacyRows ==
    \A k \in Keys : Legacy(k) => flag.engine = "PYTHON"

\* A row of the page or of the source, after a position in the order of pages.
After(cur, k, start) == cur > start.cur \/ (cur = start.cur /\ k > start.pk)

\* Row k was committed since run r began.
Late(r, k) == src[k].cur >= run[r].began - CommitDelay

\* The run is in its pass over the rows with a cursor.
Cursors(r) == usable /\ ~run[r].nulls

\* What lies before the position of a run is copied, or late.
ReadIsCopied(r) ==
    run[r].pc \in {"read", "write"} /\ Cursors(r) /\ Current(r) =>
        \A k \in Keys : Present(k) /\ src[k].cur # Null /\ ~After(src[k].cur, k, run[r].start) =>
            Reflects(run[r].target, k) \/ Late(r, k)

\* What lies after it is on the page, after a page that is full, or late.
PageIsNext(r) ==
    run[r].pc = "write" /\ Cursors(r) =>
        \A k \in Keys : Present(k) /\ src[k].cur # Null /\ After(src[k].cur, k, run[r].start) =>
            \/ k \in DOMAIN run[r].page
            \/ /\ Cardinality(DOMAIN run[r].page) = PageSize
               /\ \A j \in DOMAIN run[r].page :
                    After(src[k].cur, k, [cur |-> run[r].page[j].cur, pk |-> j])
            \/ Late(r, k)

\* A row on the page is the row of the source, unless that has changed since.
PageIsRecent(r) ==
    run[r].pc = "write" /\ usable =>
        \A k \in DOMAIN run[r].page :
            /\ run[r].nulls <=> run[r].page[k].cur = Null
            /\ Present(k) => run[r].page[k] = src[k] \/ (src[k].cur # Null /\ Late(r, k))

\* The pass over the rows without a cursor goes by the stored watermark.
NullPass(r) ==
    /\ run[r].nulls => usable
    /\ run[r].pc = "switch" => run[r].nulls
    /\ Extracting(r) /\ Cursors(r) /\ run[r].target = "prod" => wm["prod"].cur # Null
    /\ Extracting(r) /\ run[r].nulls =>
         /\ wm[run[r].target].cur = Null
         /\ run[r].target = "prod" =>
              /\ run[r].pc # "switch" => run[r].start = wm["prod"]
              /\ run[r].pc = "write" =>
                   \A k \in Keys : Legacy(k) /\ k > run[r].start.pk =>
                      \/ k \in DOMAIN run[r].page
                      \/ /\ Cardinality(DOMAIN run[r].page) = PageSize
                         /\ \A j \in DOMAIN run[r].page : j < k
              /\ run[r].pc = "switch" => \A k \in Keys : Legacy(k) => Reflects("prod", k)

\* A run that starts from watermark m will read the row of key k.
Ahead(m, row, k) ==
    IF m.cur = Null THEN row.cur = Null => k > m.pk
                    ELSE row.cur # Null /\ row.cur + Lookback >= m.cur

\* A row that is about to be deleted and is there again will be read again.
GoneIsAhead(r) ==
    run[r].pc \in {"recheck", "delete"} /\ usable =>
        \A k \in run[r].gone : Present(k) => Ahead(wm[run[r].target], src[k], k)

Progress(r) ==
    ReadIsCopied(r) /\ PageIsNext(r) /\ PageIsRecent(r) /\ NullPass(r) /\ GoneIsAhead(r)

NoneBehind ==
    usable => \A t \in Targets, k \in Keys :
        Owns(t) /\ Present(k) => Reflects(t, k) \/ Ahead(wm[t], src[k], k)

ExtractorInv ==
    /\ TypeInv /\ Locked /\ Timely /\ Planned /\ LegacyRows
    /\ \A r \in Runs : Progress(r)
    /\ NoneBehind

\* The settings under which lookback does what it is for, and the tables to
\* which the unfenced end of a NULL pass can do nothing.
LookbackCovers == Lookback > 0 /\ CommitDelay + RunTime <= Lookback
NoLegacyShadow == \A s \in Starts : s.engine = "KAFKA" => s.legacy = {}

-----------------------------------------------------------------------------
(***************************************************************************)
(* Pages.                                                                  *)
(***************************************************************************)

LEMMA Bounds ==
    /\ Lookback \in Nat /\ CommitDelay \in Nat /\ RunTime \in Nat
    /\ Null \in Int /\ Null < 0 /\ PageSize \in Nat /\ PageSize # 0
    /\ IsFiniteSet(Keys) /\ \A k \in Keys : k \in Nat /\ k > 0
    /\ MaxFaults \in Nat /\ NoRun \notin Runs
  BY ExtractorAssumption DEF ExtractorAssumption, Null

LEMMA PageType ==
    ASSUME NEW page \in Pages
    PROVE  /\ DOMAIN page \subseteq Keys /\ IsFiniteSet(DOMAIN page)
           /\ \A k \in DOMAIN page : page[k] \in SourceRows
<1>1. DOMAIN page \subseteq Keys /\ \A k \in DOMAIN page : page[k] \in SourceRows
  <2>1. CASE page = <<>>
    BY <2>1
  <2>2. CASE \E S \in SUBSET Keys : page \in [S -> SourceRows]
    BY <2>2
  <2> QED
    BY <2>1, <2>2 DEF Pages
<1> QED
  BY <1>1, Bounds, FS_Subset

\* The last row of a page that is not empty.
LEMMA LastIs ==
    ASSUME NEW page \in Pages, DOMAIN page # {}
    PROVE  /\ LastOf(page) \in DOMAIN page
           /\ \A j \in DOMAIN page :
                IF usable /\ page[j].cur # page[LastOf(page)].cur
                THEN page[j].cur < page[LastOf(page)].cur ELSE j <= LastOf(page)
<1> DEFINE S == DOMAIN page
           IsLast(k) == \A j \in S : IF usable /\ page[j].cur # page[k].cur THEN page[j].cur < page[k].cur ELSE j <= k
           shifted == [k \in S |-> page[k].cur - Null]
<1>1. /\ IsFiniteSet(S) /\ \A k \in S : k \in Nat /\ page[k].cur \in Int /\ page[k].cur >= Null
  BY PageType, Bounds DEF SourceRows
<1>2. shifted \in [S -> Nat]
  BY <1>1, Bounds
<1>3. ASSUME NEW T \in SUBSET S, T # {} PROVE \E k \in T : \A j \in T : j <= k
  <2> DEFINE id == [k \in T |-> k]
  <2>1. id \in [T -> Nat] /\ IsFiniteSet(T)
    BY <1>1, FS_Subset
  <2>2. PICK k \in T : \A j \in T : id[j] <= id[k]
    BY <1>3, <2>1, FiniteArgMax
  <2> QED
    BY <2>2
<1>6. S # {}
  OBVIOUS
<1>4. CASE ~usable
  <2>1. \E k \in S : IsLast(k)
    <3>1. \E k \in S : \A j \in S : j <= k
      <4> HIDE DEF S
      <4> QED
        BY <1>3, <1>6
    <3> QED
      BY <1>4, <3>1
  <2> QED
    BY <2>1 DEF LastOf
<1>5. CASE usable
  <2>1. PICK x \in S : \A y \in S : shifted[y] <= shifted[x]
    BY <1>1, <1>2, FiniteArgMax
  <2>2. \A y \in S : page[y].cur <= page[x].cur
    BY <1>1, <2>1, Bounds
  <2> DEFINE T == {y \in S : page[y].cur = page[x].cur}
  <2>3. PICK k \in T : \A j \in T : j <= k
    BY <1>3
  <2>4. k \in S /\ page[k].cur = page[x].cur
    BY <2>3
  <2>5. ASSUME NEW j \in S
        PROVE  IF usable /\ page[j].cur # page[k].cur THEN page[j].cur < page[k].cur ELSE j <= k
    <3>1. CASE page[j].cur = page[k].cur
      BY <1>5, <2>3, <2>4, <3>1
    <3>2. CASE page[j].cur # page[k].cur
      <4>1. page[j].cur <= page[k].cur /\ page[j].cur \in Int /\ page[k].cur \in Int
        BY <1>1, <2>2, <2>4
      <4> QED
        BY <1>5, <3>2, <4>1
    <3> QED
      BY <3>1, <3>2
  <2> QED
    BY <2>4, <2>5 DEF LastOf
<1> QED
  BY <1>4, <1>5

\* The first elements of an order, as many as fit on a page: all, or a full
\* page that is before the others.  lower[k] is what is before k.
LEMMA FirstRows ==
    ASSUME NEW S \in SUBSET Keys, NEW lower \in [S -> SUBSET S],
           \A j, k \in S : j # k => j \in lower[k] \/ k \in lower[j],
           \A j \in S : j \notin lower[j],
           \A i, j, k \in S : i \in lower[j] /\ j \in lower[k] => i \in lower[k],
           NEW page, page = {k \in S : Cardinality(lower[k]) < PageSize}
    PROVE  \A k \in S \ page : Cardinality(page) = PageSize /\ \A j \in page : j \in lower[k]
<1> DEFINE rank == [k \in S |-> Cardinality(lower[k])]
<1>0. /\ IsFiniteSet(S) /\ IsFiniteSet(page) /\ PageSize \in Nat /\ PageSize # 0
      /\ Cardinality(page) \in Nat
      /\ \A k \in S : IsFiniteSet(lower[k]) /\ rank[k] \in Nat
  <2>1. IsFiniteSet(S) /\ PageSize \in Nat /\ PageSize # 0
    BY Bounds, FS_Subset
  <2>2. page \subseteq S /\ \A k \in S : lower[k] \subseteq S
    OBVIOUS
  <2>3. IsFiniteSet(page) /\ \A k \in S : IsFiniteSet(lower[k])
    BY <2>1, <2>2, FS_Subset
  <2> QED
    BY <2>1, <2>3, FS_CardinalityType
<1>1. ASSUME NEW j \in S, NEW k \in S, j \in lower[k] PROVE rank[j] < rank[k]
  <2>1. lower[j] \subseteq lower[k] /\ j \notin lower[j]
    BY <1>1
  <2>2. lower[j] # lower[k]
    BY <1>1, <2>1
  <2>3. Cardinality(lower[j]) <= Cardinality(lower[k]) /\ Cardinality(lower[j]) # Cardinality(lower[k])
    BY <1>0, <2>1, <2>2, FS_Subset
  <2> QED
    BY <1>0, <2>3
<1>2. ASSUME NEW k \in S \ page, NEW j \in page PROVE j \in lower[k]
  <2>1. j \in S /\ rank[j] < PageSize /\ ~(rank[k] < PageSize)
    BY <1>2
  <2>2. j # k /\ k \notin lower[j]
    <3>1. rank[k] \in Nat /\ rank[j] \in Nat
      BY <1>0, <2>1
    <3>2. k \in lower[j] => rank[k] < rank[j]
      BY <1>1, <2>1
    <3> HIDE DEF rank
    <3> QED
      BY <1>0, <2>1, <3>1, <3>2
  <2> QED
    BY <1>2, <2>1, <2>2
<1>3. ASSUME NEW k \in S \ page PROVE Cardinality(page) >= PageSize
  <2> DEFINE ranks == {rank[i] : i \in S \ page}
  <2>1. PICK n \in ranks : \A m \in ranks : n <= m
    <3>1. ranks \in SUBSET Nat /\ ranks # {}
      BY <1>0, <1>3
    <3> HIDE DEF ranks
    <3> QED
      BY <3>1, LeastNatural
  <2>2. PICK i \in S \ page : n = rank[i]
    BY <2>1
  <2>3. lower[i] \subseteq page
    <3> SUFFICES ASSUME NEW j \in lower[i], j \notin page PROVE FALSE
      OBVIOUS
    <3>0. j \in S
      OBVIOUS
    <3>1. rank[j] < rank[i] /\ rank[j] \in ranks
      BY <1>1, <2>2, <3>0
    <3>2. rank[i] <= rank[j] /\ rank[i] \in Nat /\ rank[j] \in Nat
      BY <1>0, <2>1, <2>2, <3>0, <3>1
    <3> HIDE DEF rank
    <3> QED
      BY <3>1, <3>2
  <2>4. Cardinality(lower[i]) <= Cardinality(page) /\ Cardinality(page) \in Nat
    BY <1>0, <2>3, FS_Subset, FS_CardinalityType
  <2>5. ~(rank[i] < PageSize) /\ rank[i] = Cardinality(lower[i]) /\ rank[i] \in Nat
    BY <1>0, <2>2
  <2> HIDE DEF rank
  <2> QED
    BY <1>0, <2>4, <2>5
<1>4. Cardinality(page) <= PageSize
  <2>1. CASE page = {}
    BY <1>0, <2>1, FS_EmptySet
  <2>2. CASE page # {}
    <3> DEFINE f == [k \in page |-> rank[k]]
    <3>1. f \in [page -> Nat]
      BY <1>0
    <3> HIDE DEF f
    <3>2. PICK x \in page : \A y \in page : f[y] <= f[x]
      BY <1>0, <2>2, <3>1, FiniteArgMax
    <3>3. \A y \in page : rank[y] <= rank[x]
      BY <3>2 DEF f
    <3>4. page \subseteq lower[x] \cup {x}
      <4> SUFFICES ASSUME NEW y \in page, y # x, y \notin lower[x] PROVE FALSE
        OBVIOUS
      <4>1. x \in S /\ y \in S
        OBVIOUS
      <4>2. rank[x] < rank[y] /\ rank[y] <= rank[x] /\ rank[x] \in Nat /\ rank[y] \in Nat
        BY <1>0, <1>1, <3>3, <4>1
      <4> HIDE DEF rank
      <4> QED
        BY <4>2
    <3>5. /\ IsFiniteSet(lower[x] \cup {x})
          /\ Cardinality(lower[x] \cup {x}) = Cardinality(lower[x]) + 1
      BY <1>0, FS_AddElement
    <3>6. Cardinality(page) <= Cardinality(lower[x]) + 1
      BY <3>4, <3>5, FS_Subset
    <3>7. Cardinality(lower[x]) < PageSize /\ Cardinality(lower[x]) \in Nat
      BY <1>0
    <3> QED
      BY <1>0, <3>6, <3>7
  <2> QED
    BY <2>1, <2>2
<1> QED
  BY <1>0, <1>2, <1>3, <1>4

\* A page of PageKeys: what it leaves out of what is selected comes after a
\* full page.
LEMMA PageIsFirst ==
    ASSUME src \in [Keys -> SourceRows], NEW start, NEW nulls
    PROVE  /\ PageKeys(start, nulls) \subseteq Keys
           /\ \A k \in PageKeys(start, nulls) : Selected(start, nulls, k)
           /\ \A k \in Keys \ PageKeys(start, nulls) : Selected(start, nulls, k) =>
                /\ Cardinality(PageKeys(start, nulls)) = PageSize
                /\ \A j \in PageKeys(start, nulls) : Before(j, k)
<1> DEFINE S == {k \in Keys : Selected(start, nulls, k)}
           lower == [k \in S |-> {j \in S : Before(j, k)}]
           page == PageKeys(start, nulls)
<1>1. S \in SUBSET Keys /\ lower \in [S -> SUBSET S]
  OBVIOUS
<1>2. \A k \in S : k \in Nat /\ src[k].cur \in Int
  BY Bounds DEF SourceRows
<1>3. \A j, k \in S : j # k => j \in lower[k] \/ k \in lower[j]
  BY <1>2 DEF Before
<1>4. \A j \in S : j \notin lower[j]
  BY <1>2 DEF Before
<1>5. \A i, j, k \in S : i \in lower[j] /\ j \in lower[k] => i \in lower[k]
  <2> SUFFICES ASSUME NEW i \in S, NEW j \in S, NEW k \in S, Before(i, j), Before(j, k)
               PROVE  Before(i, k)
    OBVIOUS
  <2> QED
    BY <1>2 DEF Before
<1>6. page = {k \in S : Cardinality(lower[k]) < PageSize}
  BY DEF PageKeys
<1>7. \A k \in S \ page : Cardinality(page) = PageSize /\ \A j \in page : j \in lower[k]
  <2> HIDE DEF S, lower, page
  <2> QED
    BY <1>1, <1>3, <1>4, <1>5, <1>6, FirstRows
<1> QED
  BY <1>6, <1>7

-----------------------------------------------------------------------------
(***************************************************************************)
(* Types, and what each step does to the progress of its run.              *)
(***************************************************************************)

LEMMA FlagRows ==
    ASSUME NEW o \in OwnershipRow({}, {}), NEW e \in Writers
    PROVE  /\ Assign(o, e) \in OwnershipRow({}, {}) /\ StartShadow(o, e, NoOne) \in OwnershipRow({}, {})
           /\ AbortShadow(o) \in OwnershipRow({}, {}) /\ Pause(o) \in OwnershipRow({}, {})
           /\ Resume(o) \in OwnershipRow({}, {})
<1>1. o.epoch + 1 \in Nat
  BY DEF OwnershipRow
<1> QED
  BY <1>1 DEF OwnershipRow, Assign, StartShadow, AbortShadow, Pause, Resume, Engine, CutoverState, ShadowState

LEMMA IdleType == Idle \in RunType /\ NoWatermark \in Watermarks /\ NoRow \in SourceRows
  BY Bounds DEF Idle, RunType, NoWatermark, Watermarks, NoRow, SourceRows, Modes, Targets, Pages

\* A step of the flag: its epoch rises, the engine of production stays, and so
\* does the shadow unless it is cleared.
FlagMoves ==
    /\ flag' \in OwnershipRow({}, {})
    /\ flag'.epoch = flag.epoch + 1 /\ flag'.engine = flag.engine
    /\ flag'.shadow # flag.engine \/ flag'.shadow = flag.shadow
    /\ \/ flag'.shadow = flag.shadow /\ UNCHANGED <<copy, wm>>
       \/ ClearShadow
    /\ UNCHANGED <<usable, clock, source, lock, run, obstacles, faults>>

LEMMA OperatorsMoveFlag == ASSUME TypeInv, Operators PROVE FlagMoves
<1>0. flag \in OwnershipRow({}, {}) /\ flag.epoch \in Nat
  BY DEF TypeInv, OwnershipRow
<1>1. CASE StartShadowing
  <2>1. PICK e \in Writers : /\ CanStartShadow(flag, e)
                             /\ SetFlag("start_shadow", StartShadow(flag, e, NoOne))
                             /\ ClearShadow
    BY <1>1 DEF StartShadowing
  <2> QED
    BY <1>0, <2>1, FlagRows DEF FlagMoves, SetFlag, CanStartShadow, StartShadow, OwnershipRow
<1>2. CASE AbortShadowing
  <2>1. AbortShadow(flag) \in OwnershipRow({}, {}) /\ flag' = AbortShadow(flag)
    BY <1>0, <1>2, FlagRows DEF AbortShadowing, SetFlag, Writers
  <2>2. flag'.shadow = NoEngine /\ flag'.epoch = flag.epoch + 1 /\ flag'.engine = flag.engine
    BY <1>0, <2>1 DEF AbortShadow, OwnershipRow
  <2>3. flag.engine # NoEngine
    BY <1>0, NoEngineAssumption DEF OwnershipRow
  <2> QED
    BY <1>2, <2>1, <2>2, <2>3 DEF FlagMoves, SetFlag, AbortShadowing
<1>3. CASE PauseTable
  BY <1>0, <1>3, FlagRows DEF PauseTable, FlagMoves, SetFlag, Pause, OwnershipRow, Writers
<1>4. CASE ResumeTable
  BY <1>0, <1>4, FlagRows DEF ResumeTable, FlagMoves, SetFlag, Resume, OwnershipRow, Writers
<1> QED
  BY <1>1, <1>2, <1>3, <1>4 DEF Operators

\* A step of run r leaves the flag, the source and the other runs alone.
Alone(r) ==
    /\ UNCHANGED <<flag, usable, clock, source, obstacles>>
    /\ \A q \in Runs \ {r} : run'[q] = run[q]

\* It goes on with what it has read so far.
Keeps(r) ==
    /\ run'[r].mode = run[r].mode /\ run'[r].target = run[r].target
    /\ run'[r].epoch = run[r].epoch /\ run'[r].nulls = run[r].nulls
    /\ run'[r].began = run[r].began /\ run'[r].start = run[r].start

LEMMA RunFields ==
    ASSUME TypeInv, NEW r \in Runs
    PROVE  /\ run \in [Runs -> RunType] /\ run[r] \in RunType
           /\ run[r].target \in Targets /\ run[r].mode \in Modes /\ run[r].epoch \in Nat
           /\ run[r].start \in [cur : Int, pk : Nat] /\ run[r].nulls \in BOOLEAN
           /\ run[r].page \in Pages /\ run[r].gone \in SUBSET Keys /\ run[r].began \in Nat
  BY DEF TypeInv, RunType

\* Steps that begin and end a run.
LEMMA PlanEffect ==
    ASSUME TypeInv, NEW r \in Runs, NEW mode \in Modes, NEW t \in Targets, Plan(r, mode, t)
    PROVE  /\ run' \in [Runs -> RunType] /\ Alone(r) /\ UNCHANGED <<copy, wm, lock, faults>>
           /\ run'[r].pc = "planned" /\ run'[r].target = t /\ run'[r].epoch = flag.epoch
           /\ ~run'[r].nulls /\ run'[r].page = <<>> /\ Owns(t)
<1> DEFINE new == [Idle EXCEPT !.pc = "planned", !.mode = mode, !.target = t, !.epoch = flag.epoch]
<1>1. new \in RunType
  BY IdleType DEF RunType, TypeInv, OwnershipRow
<1>2. new.pc = "planned" /\ new.target = t /\ new.epoch = flag.epoch /\ ~new.nulls /\ new.page = <<>>
  BY DEF Idle
<1>3. run' = [run EXCEPT ![r] = new]
  BY DEF Plan
<1> HIDE DEF new
<1> QED
  BY <1>1, <1>2, <1>3, RunFields DEF Alone, Plan, Owns, source

LEMMA IdleEffect ==
    ASSUME TypeInv, NEW r \in Runs, run' = [run EXCEPT ![r] = Idle]
    PROVE  /\ run' \in [Runs -> RunType] /\ \A q \in Runs \ {r} : run'[q] = run[q]
           /\ run'[r].pc = "idle" /\ ~run'[r].nulls /\ run'[r].page = <<>>
<1>1. run'[r] = Idle /\ run' \in [Runs -> RunType] /\ \A q \in Runs \ {r} : run'[q] = run[q]
  BY RunFields, IdleType
<1> QED
  BY <1>1 DEF Idle

LEMMA StepEffect ==
    ASSUME TypeInv, NEW r \in Runs, NEW pc, Step(r, pc),
           pc \in {"open", "read", "switch", "count", "list", "recheck", "delete", "done"}
    PROVE  /\ run' \in [Runs -> RunType] /\ \A q \in Runs \ {r} : run'[q] = run[q]
           /\ run'[r].pc = pc /\ Keeps(r)
           /\ run'[r].page = run[r].page /\ run'[r].gone = run[r].gone
  BY RunFields DEF Step, RunType, Keeps

\* Where a run starts.
LEMMA StartType ==
    ASSUME NEW m \in Watermarks
    PROVE  StartFrom(m) \in [cur : Int, pk : Nat]
  BY Bounds DEF StartFrom, Watermarks, NoWatermark

LEMMA OpenEffect ==
    ASSUME TypeInv, NEW r \in Runs, Open(r)
    PROVE  /\ run' \in [Runs -> RunType] /\ Alone(r) /\ UNCHANGED <<copy, wm, lock, faults>>
           /\ run'[r].pc = "read" /\ run'[r].target = run[r].target /\ run'[r].epoch = run[r].epoch
           /\ run'[r].start = StartFrom(wm[run[r].target]) /\ run'[r].began = clock
           /\ run'[r].nulls = NullPhase(StartFrom(wm[run[r].target]))
           /\ run'[r].page = run[r].page
<1>1. wm[run[r].target] \in Watermarks /\ clock \in Nat
  BY RunFields DEF TypeInv
<1> DEFINE start == StartFrom(wm[run[r].target])
           nulls == NullPhase(start)
<1>2. start \in [cur : Int, pk : Nat]
  BY <1>1, StartType
<1>3. nulls \in BOOLEAN
  BY DEF NullPhase
<1>4. /\ run' = [run EXCEPT ![r].pc = "read", ![r].start = start, ![r].nulls = nulls, ![r].began = clock]
      /\ UNCHANGED <<flag, usable, clock, source, copy, wm, lock, obstacles, faults>>
  BY DEF Open
<1> HIDE DEF nulls, start
<1> DEFINE new == [run[r] EXCEPT !.pc = "read", !.start = start, !.nulls = nulls, !.began = clock]
<1>6. run' = [run EXCEPT ![r] = new]
  BY <1>4, RunFields
<1>7. new \in RunType
  BY <1>1, <1>2, <1>3, RunFields DEF RunType
<1>8. /\ new.pc = "read" /\ new.target = run[r].target /\ new.epoch = run[r].epoch
      /\ new.start = start /\ new.began = clock
      /\ new.nulls = nulls /\ new.page = run[r].page
  BY <1>1, <1>2, <1>3, RunFields DEF RunType
<1> HIDE DEF new
<1>5. /\ run' \in [Runs -> RunType] /\ \A q \in Runs \ {r} : run'[q] = run[q]
      /\ run'[r].pc = "read" /\ run'[r].target = run[r].target /\ run'[r].epoch = run[r].epoch
      /\ run'[r].start = start /\ run'[r].began = clock
      /\ run'[r].nulls = nulls /\ run'[r].page = run[r].page
  BY <1>6, <1>7, <1>8, RunFields
<1> QED
  BY <1>4, <1>5 DEF Alone, nulls, start

LEMMA ReadPageEffect ==
    ASSUME TypeInv, NEW r \in Runs, ReadPage(r)
    PROVE  /\ run' \in [Runs -> RunType] /\ Alone(r) /\ UNCHANGED <<copy, wm, lock, faults>>
           /\ run'[r].pc = "write" /\ Keeps(r)
           /\ run'[r].page = [k \in PageKeys(run[r].start, run[r].nulls) |-> src[k]]
<1>1. src \in [Keys -> SourceRows] /\ PageKeys(run[r].start, run[r].nulls) \subseteq Keys
  BY PageIsFirst DEF TypeInv
<1>2. [k \in PageKeys(run[r].start, run[r].nulls) |-> src[k]] \in Pages
  BY <1>1 DEF Pages
<1> QED
  BY <1>2, RunFields DEF ReadPage, Alone, RunType, source, Keeps

LEMMA MarkType ==
    ASSUME TypeInv, NEW page \in Pages, DOMAIN page # {}
    PROVE  /\ MarkOf(page) \in Watermarks /\ MarkOf(page).pk \in DOMAIN page
           /\ MarkOf(page).pk = LastOf(page)
           /\ usable => MarkOf(page).cur = page[LastOf(page)].cur
<1>1. LastOf(page) \in DOMAIN page /\ DOMAIN page \subseteq Keys
  BY LastIs, PageType
<1>2. page[LastOf(page)] \in SourceRows /\ LastOf(page) \in Nat
  BY <1>1, PageType, Bounds
<1> QED
  BY <1>1, <1>2 DEF MarkOf, SourceRows, Watermarks

AfterPages == {"read", "switch", "count", "done"}

LEMMA AfterPageIs ==
    ASSUME NEW r
    PROVE  /\ AfterPage(r) \in AfterPages
           /\ AfterPage(r) = "switch" => run[r].nulls /\ Cardinality(DOMAIN run[r].page) # PageSize
  BY DEF AfterPage, AfterExtract, AfterPages

\* An empty page.
LEMMA EmptyPageEffect ==
    ASSUME TypeInv, NEW r \in Runs, WritePage(r), DOMAIN run[r].page = {}
    PROVE  /\ run' \in [Runs -> RunType] /\ Alone(r) /\ UNCHANGED <<copy, wm, lock, faults>>
           /\ run[r].pc = "write" /\ run'[r].pc = AfterPage(r) /\ Keeps(r)
           /\ run'[r].page = run[r].page
<1>1. Step(r, AfterPage(r)) /\ UNCHANGED <<copy, wm>>
  BY DEF WritePage, Step
<1>2. AfterPage(r) \in {"open", "read", "switch", "count", "list", "recheck", "delete", "done"}
  BY AfterPageIs DEF AfterPages
<1>3. /\ run' \in [Runs -> RunType] /\ \A q \in Runs \ {r} : run'[q] = run[q]
      /\ run'[r].pc = AfterPage(r) /\ Keeps(r)
      /\ run'[r].page = run[r].page /\ run'[r].gone = run[r].gone
  BY <1>1, <1>2, StepEffect
<1> QED
  BY <1>1, <1>3 DEF WritePage, Alone, At

\* A page of rows, which the fence lets through.
LEMMA FullPageEffect ==
    ASSUME TypeInv, NEW r \in Runs, WritePage(r), DOMAIN run[r].page # {}
    PROVE  LET t == run[r].target
               page == run[r].page
               mark == MarkOf(page)
           IN  /\ run' \in [Runs -> RunType] /\ Alone(r) /\ UNCHANGED <<lock, faults>>
               /\ run[r].pc = "write" /\ run'[r].pc = AfterPage(r)
               /\ run'[r].mode = run[r].mode /\ run'[r].target = t
               /\ run'[r].epoch = run[r].epoch /\ run'[r].nulls = run[r].nulls
               /\ run'[r].began = run[r].began /\ run'[r].start = mark /\ run'[r].page = <<>>
               /\ Fence(r) /\ mark \in Watermarks
               /\ copy' \in [Targets -> [Keys -> [ver : Nat, deleted : BOOLEAN]]]
               /\ wm' \in [Targets -> Watermarks]
               /\ usable => wm'[t] = mark
               /\ ~usable => wm' = wm
               /\ \A u \in Targets \ {t} : copy'[u] = copy[u] /\ wm'[u] = wm[u]
               /\ \A k \in Keys : copy'[t][k] = IF k \in DOMAIN page
                                                THEN [ver |-> page[k].ver, deleted |-> FALSE]
                                                ELSE copy[t][k]
<1> DEFINE t == run[r].target
           page == run[r].page
           mark == MarkOf(page)
           rows == [k \in Keys |-> IF k \in DOMAIN page THEN [ver |-> page[k].ver, deleted |-> FALSE]
                                                        ELSE copy[t][k]]
           new == [run[r] EXCEPT !.pc = AfterPage(r), !.start = mark, !.page = <<>>]
<1>1. t \in Targets /\ page \in Pages /\ run \in [Runs -> RunType] /\ run[r] \in RunType
  BY RunFields
<1>2. mark \in Watermarks
  BY <1>1, MarkType
<1>3. mark \in [cur : Int, pk : Nat]
  BY <1>2, Bounds DEF Watermarks
<1>4. /\ At(r, "write") /\ Fence(r)
      /\ copy' = [copy EXCEPT ![t] = rows]
      /\ wm' = IF usable THEN [wm EXCEPT ![t] = mark] ELSE wm
      /\ run' = [run EXCEPT ![r].pc = AfterPage(r), ![r].start = mark, ![r].page = <<>>]
      /\ UNCHANGED <<flag, usable, clock, source, lock, obstacles, faults>>
  BY DEF WritePage
<1>5. rows \in [Keys -> [ver : Nat, deleted : BOOLEAN]]
  <2>1. \A k \in DOMAIN page : page[k].ver \in Nat
    BY <1>1, PageType DEF SourceRows
  <2> QED
    BY <1>1, <2>1 DEF TypeInv
<1>6. AfterPage(r) \in AfterPages /\ <<>> \in Pages
  BY AfterPageIs DEF Pages
<1> HIDE DEF mark
<1>7. run' = [run EXCEPT ![r] = new]
  BY <1>1, <1>4
<1>8. new \in RunType
  BY <1>1, <1>3, <1>6 DEF RunType, AfterPages
<1>9. /\ new.pc = AfterPage(r) /\ new.mode = run[r].mode /\ new.target = t
      /\ new.epoch = run[r].epoch /\ new.nulls = run[r].nulls
      /\ new.began = run[r].began /\ new.start = mark /\ new.page = <<>>
  BY <1>1 DEF RunType
<1> HIDE DEF new
<1>10. /\ run' \in [Runs -> RunType] /\ \A q \in Runs \ {r} : run'[q] = run[q] /\ run'[r] = new
  BY <1>1, <1>7, <1>8
<1>11. /\ copy' \in [Targets -> [Keys -> [ver : Nat, deleted : BOOLEAN]]]
       /\ copy'[t] = rows /\ \A u \in Targets \ {t} : copy'[u] = copy[u]
  <2> HIDE DEF rows
  <2> QED
    BY <1>1, <1>4, <1>5 DEF TypeInv
<1>12. /\ wm' \in [Targets -> Watermarks]
       /\ usable => wm'[t] = mark
       /\ ~usable => wm' = wm
       /\ \A u \in Targets \ {t} : wm'[u] = wm[u]
  BY <1>1, <1>2, <1>4 DEF TypeInv
<1>13. \A k \in Keys : copy'[t][k] = IF k \in DOMAIN page
                                     THEN [ver |-> page[k].ver, deleted |-> FALSE]
                                     ELSE copy[t][k]
  BY <1>11
<1>14. run'[r] = new
  BY <1>1, <1>7, <1>8
<1>15. Alone(r)
  BY <1>4, <1>10 DEF Alone
<1> HIDE DEF rows
<1> QED
  BY <1>2, <1>4, <1>9, <1>10, <1>11, <1>12, <1>13, <1>14, <1>15 DEF At, mark

LEMMA SwitchEffect ==
    ASSUME TypeInv, NEW r \in Runs, SwitchPhase(r)
    PROVE  LET from == [cur |-> EpochCursor, pk |-> 0]
           IN  /\ run' \in [Runs -> RunType] /\ Alone(r) /\ UNCHANGED <<copy, lock, faults>>
               /\ run[r].pc = "switch" /\ run'[r].pc = "read"
               /\ run'[r].mode = run[r].mode /\ run'[r].target = run[r].target
               /\ run'[r].epoch = run[r].epoch /\ ~run'[r].nulls /\ run'[r].page = run[r].page
               /\ run'[r].began = run[r].began /\ run'[r].start = from
               /\ wm' \in [Targets -> Watermarks] /\ wm'[run[r].target] = from
               /\ \A u \in Targets \ {run[r].target} : wm'[u] = wm[u]
<1> DEFINE from == [cur |-> EpochCursor, pk |-> 0]
           new == [run[r] EXCEPT !.pc = "read", !.start = from, !.nulls = FALSE]
<1>1. from \in Watermarks /\ from \in [cur : Int, pk : Nat]
  BY DEF EpochCursor, Watermarks
<1>2. run' = [run EXCEPT ![r] = new]
  BY RunFields DEF SwitchPhase
<1>3. /\ new \in RunType /\ new.pc = "read" /\ new.mode = run[r].mode /\ new.target = run[r].target
      /\ new.epoch = run[r].epoch /\ ~new.nulls /\ new.page = run[r].page
      /\ new.began = run[r].began /\ new.start = from
  <2> HIDE DEF from
  <2> QED
    BY <1>1, RunFields DEF RunType
<1> HIDE DEF new
<1>4. run' \in [Runs -> RunType] /\ run'[r] = new /\ \A q \in Runs \ {r} : run'[q] = run[q]
  BY <1>2, <1>3, RunFields
<1>5. /\ wm' \in [Targets -> Watermarks] /\ wm'[run[r].target] = from
      /\ \A u \in Targets \ {run[r].target} : wm'[u] = wm[u]
  <2> HIDE DEF from
  <2>1. wm' = [wm EXCEPT ![run[r].target] = from]
    BY DEF SwitchPhase, from
  <2> QED
    BY <1>1, <2>1, RunFields DEF TypeInv
<1> HIDE DEF from
<1>6. Alone(r) /\ UNCHANGED <<copy, lock, faults>> /\ run[r].pc = "switch"
  BY <1>4 DEF SwitchPhase, Alone, At
<1> QED
  BY <1>3, <1>4, <1>5, <1>6 DEF from

\* Steps that look for deletions change the keys to delete.
LEMMA GoneEffect ==
    ASSUME TypeInv, NEW r \in Runs, NEW pc \in {"recheck", "delete", "done"}, NEW gone \in SUBSET Keys,
           run' = [run EXCEPT ![r].pc = pc, ![r].gone = gone]
    PROVE  /\ run' \in [Runs -> RunType] /\ \A q \in Runs \ {r} : run'[q] = run[q]
           /\ run'[r].pc = pc /\ Keeps(r) /\ run'[r].page = run[r].page /\ run'[r].gone = gone
<1> DEFINE new == [run[r] EXCEPT !.pc = pc, !.gone = gone]
<1>1. run' = [run EXCEPT ![r] = new]
  BY RunFields
<1>2. /\ new \in RunType /\ new.pc = pc /\ new.page = run[r].page /\ new.gone = gone
      /\ new.mode = run[r].mode /\ new.target = run[r].target
      /\ new.epoch = run[r].epoch /\ new.nulls = run[r].nulls
      /\ new.began = run[r].began /\ new.start = run[r].start
  BY RunFields DEF RunType
<1> HIDE DEF new
<1>3. run' \in [Runs -> RunType] /\ run'[r] = new /\ \A q \in Runs \ {r} : run'[q] = run[q]
  BY <1>1, <1>2, RunFields
<1> QED
  BY <1>2, <1>3 DEF Keeps

\* A run that changes nothing but its own progress, between its pages and its end.
Looks(r) == CompareCounts(r) \/ ListMissing(r) \/ Recheck(r) \/ Fenced(r)

LEMMA LooksEffect ==
    ASSUME TypeInv, NEW r \in Runs, Looks(r)
    PROVE  /\ run' \in [Runs -> RunType] /\ Alone(r) /\ UNCHANGED <<copy, wm, lock, faults>>
           /\ Keeps(r) /\ run'[r].page = run[r].page
           /\ run[r].pc \in {"write", "count", "list", "recheck", "delete"}
           /\ run'[r].pc \in {"list", "recheck", "delete", "done"}
           /\ run'[r].pc \in {"recheck", "delete"} => \A k \in run'[r].gone : ~Present(k)
<1>0. UNCHANGED <<flag, usable, clock, source, copy, wm, lock, obstacles, faults>>
  BY DEF Looks, CompareCounts, ListMissing, Recheck, Fenced
<1>1. CASE CompareCounts(r)
  <2> DEFINE pc == IF Cardinality({k \in Keys : Present(k)}) = Cardinality(Live(run[r].target))
                   THEN "done" ELSE "list"
  <2>1. Step(r, pc) /\ pc \in {"done", "list"} /\ run[r].pc = "count"
    BY <1>1 DEF CompareCounts, At
  <2> HIDE DEF pc
  <2>2. /\ run' \in [Runs -> RunType] /\ \A q \in Runs \ {r} : run'[q] = run[q]
        /\ run'[r].pc = pc /\ Keeps(r) /\ run'[r].page = run[r].page
    BY <2>1, StepEffect
  <2> QED
    BY <1>0, <2>1, <2>2 DEF Alone
<1>2. CASE ListMissing(r)
  <2> DEFINE gone == MissingInSource({k \in Keys : Present(k)}, Live(run[r].target))
  <2>1. run' = [run EXCEPT ![r].pc = "recheck", ![r].gone = gone] /\ run[r].pc = "list"
    BY <1>2 DEF ListMissing, At
  <2>2. gone \in SUBSET Keys /\ \A k \in gone : ~Present(k)
    BY DEF MissingInSource, Live
  <2> HIDE DEF gone
  <2>3. /\ run' \in [Runs -> RunType] /\ \A q \in Runs \ {r} : run'[q] = run[q]
        /\ run'[r].pc = "recheck" /\ Keeps(r) /\ run'[r].page = run[r].page /\ run'[r].gone = gone
    BY <2>1, <2>2, GoneEffect
  <2> QED
    BY <1>0, <2>1, <2>2, <2>3 DEF Alone
<1>3. CASE Recheck(r)
  <2> DEFINE gone == {k \in run[r].gone : ~Present(k)}
             pc == IF gone = {} THEN "done" ELSE "delete"
  <2>1. run' = [run EXCEPT ![r].gone = gone, ![r].pc = pc] /\ run[r].pc = "recheck"
    BY <1>3 DEF Recheck, At
  <2>2. gone \in SUBSET Keys /\ \A k \in gone : ~Present(k)
    BY RunFields
  <2>3. pc \in {"done", "delete"}
    OBVIOUS
  <2> HIDE DEF gone, pc
  <2>4. run' = [run EXCEPT ![r].pc = pc, ![r].gone = gone]
    BY <2>1, RunFields DEF RunType
  <2>5. /\ run' \in [Runs -> RunType] /\ \A q \in Runs \ {r} : run'[q] = run[q]
        /\ run'[r].pc = pc /\ Keeps(r) /\ run'[r].page = run[r].page /\ run'[r].gone = gone
    BY <2>2, <2>3, <2>4, GoneEffect
  <2> QED
    BY <1>0, <2>1, <2>2, <2>3, <2>5 DEF Alone
<1>4. CASE Fenced(r)
  <2>1. Step(r, "done") /\ run[r].pc \in {"write", "delete"}
    BY <1>4 DEF Fenced, At
  <2>2. /\ run' \in [Runs -> RunType] /\ \A q \in Runs \ {r} : run'[q] = run[q]
        /\ run'[r].pc = "done" /\ Keeps(r) /\ run'[r].page = run[r].page
    BY <2>1, StepEffect
  <2> QED
    BY <1>0, <2>1, <2>2 DEF Alone
<1> QED
  BY <1>1, <1>2, <1>3, <1>4 DEF Looks

LEMMA WriteDeletesEffect ==
    ASSUME TypeInv, NEW r \in Runs, WriteDeletes(r)
    PROVE  LET t == run[r].target
           IN  /\ run' \in [Runs -> RunType] /\ Alone(r) /\ UNCHANGED <<wm, lock, faults>>
               /\ Keeps(r) /\ run'[r].page = run[r].page
               /\ run[r].pc = "delete" /\ run'[r].pc \in {"delete", "done"} /\ Fence(r)
               /\ run'[r].gone \subseteq run[r].gone
               /\ copy' \in [Targets -> [Keys -> [ver : Nat, deleted : BOOLEAN]]]
               /\ \A u \in Targets \ {t} : copy'[u] = copy[u]
               /\ \A k \in Keys : k \in run[r].gone \/ copy'[t][k] = copy[t][k]
<1> DEFINE t == run[r].target
           chunk == {k \in run[r].gone : Cardinality({j \in run[r].gone : j < k}) < PageSize}
           gone == run[r].gone \ chunk
           pc == IF run[r].gone = chunk THEN "done" ELSE "delete"
           rows == [k \in Keys |-> IF k \in chunk THEN [copy[t][k] EXCEPT !.deleted = TRUE] ELSE copy[t][k]]
<1>1. /\ run' = [run EXCEPT ![r].gone = gone, ![r].pc = pc] /\ run[r].pc = "delete" /\ Fence(r)
      /\ copy' = [copy EXCEPT ![t] = rows]
      /\ UNCHANGED <<flag, usable, clock, source, wm, lock, obstacles, faults>>
  BY DEF WriteDeletes, At
<1>2. t \in Targets /\ gone \in SUBSET Keys /\ gone \subseteq run[r].gone /\ chunk \subseteq run[r].gone
  BY RunFields
<1>3. pc \in {"done", "delete"}
  OBVIOUS
<1> HIDE DEF chunk
<1>4. rows \in [Keys -> [ver : Nat, deleted : BOOLEAN]] /\ \A k \in Keys : k \in chunk \/ rows[k] = copy[t][k]
  <2>1. \A c \in [ver : Nat, deleted : BOOLEAN] :
           [c EXCEPT !.deleted = TRUE] \in [ver : Nat, deleted : BOOLEAN]
    OBVIOUS
  <2>2. \A k \in Keys : copy[t][k] \in [ver : Nat, deleted : BOOLEAN]
    BY <1>2 DEF TypeInv
  <2> QED
    BY <2>1, <2>2
<1> HIDE DEF gone, pc, rows
<1>5. run' = [run EXCEPT ![r].pc = pc, ![r].gone = gone]
  BY <1>1, RunFields DEF RunType
<1>6. /\ run' \in [Runs -> RunType] /\ \A q \in Runs \ {r} : run'[q] = run[q]
      /\ run'[r].pc = pc /\ Keeps(r) /\ run'[r].page = run[r].page /\ run'[r].gone = gone
  BY <1>2, <1>3, <1>5, GoneEffect
<1>7. /\ copy' \in [Targets -> [Keys -> [ver : Nat, deleted : BOOLEAN]]]
      /\ copy'[t] = rows /\ \A u \in Targets \ {t} : copy'[u] = copy[u]
  BY <1>1, <1>2, <1>4 DEF TypeInv
<1> QED
  BY <1>1, <1>2, <1>3, <1>4, <1>6, <1>7 DEF Alone

LEMMA LockEffect ==
    ASSUME TypeInv, NEW r \in Runs, Lock(r)
    PROVE  LET t == run[r].target
           IN  /\ run' \in [Runs -> RunType] /\ Alone(r) /\ UNCHANGED <<copy, faults>>
               /\ Keeps(r) /\ run'[r].page = run[r].page
               /\ run[r].pc = "planned" /\ run'[r].pc \in {"open", "count"}
               /\ lock \in [Targets -> Runs \cup {NoRun}] /\ lock' = [lock EXCEPT ![t] = r]
               /\ lock[t] = NoRun
               /\ wm' = wm \/ (wm' = [wm EXCEPT ![t] = NoWatermark])
<1>1. Step(r, Enter(r)) /\ Enter(r) \in {"open", "count"} /\ run[r].pc = "planned"
  BY DEF Lock, Enter, At
<1>2. /\ run' \in [Runs -> RunType] /\ \A q \in Runs \ {r} : run'[q] = run[q]
      /\ run'[r].pc = Enter(r) /\ Keeps(r) /\ run'[r].page = run[r].page
  BY <1>1, StepEffect
<1> QED
  BY <1>1, <1>2 DEF Lock, Alone, TypeInv

\* A run that ends, or is refused.
Ends(r) == Refused(r) \/ Unlock(r) \/ Fail(r)

LEMMA EndsEffect ==
    ASSUME TypeInv, NEW r \in Runs, Ends(r)
    PROVE  /\ run' \in [Runs -> RunType] /\ Alone(r) /\ UNCHANGED <<copy, wm>> /\ faults' \in Nat
           /\ run'[r].pc = "idle" /\ ~run'[r].nulls /\ run'[r].page = <<>>
           /\ lock' \in [Targets -> Runs \cup {NoRun}]
           /\ \A t \in Targets : lock[t] # r => lock'[t] = lock[t]
<1>1. run' = [run EXCEPT ![r] = Idle] /\ UNCHANGED <<flag, usable, clock, source, copy, wm, obstacles>>
  BY DEF Ends, Refused, Unlock, Fail, Leave
<1>2. /\ run' \in [Runs -> RunType] /\ \A q \in Runs \ {r} : run'[q] = run[q]
      /\ run'[r].pc = "idle" /\ ~run'[r].nulls /\ run'[r].page = <<>>
  BY <1>1, IdleEffect
<1>3. lock' \in [Targets -> Runs \cup {NoRun}] /\ \A t \in Targets : lock[t] # r => lock'[t] = lock[t]
  BY DEF Ends, Refused, Unlock, Fail, Leave, TypeInv
<1>4. faults' \in Nat
  BY Bounds DEF Ends, Refused, Unlock, Fail, TypeInv
<1> QED
  BY <1>1, <1>2, <1>3, <1>4 DEF Alone

\* The steps of a run, by what they change.
LEMMA RunSteps ==
    ASSUME NEW r \in Runs, Process(r) \/ Fail(r)
    PROVE  \/ Ends(r) \/ Lock(r) \/ Open(r) \/ ReadPage(r) \/ WritePage(r) \/ SwitchPhase(r)
           \/ Looks(r) \/ WriteDeletes(r)
  BY DEF Process, Ends, Looks

LEMMA RunStepTypes ==
    ASSUME TypeInv, NEW r \in Runs, Process(r) \/ Fail(r)
    PROVE  TypeInv'
<1> USE DEF TypeInv, Alone, source
<1>1. CASE Ends(r)
  BY <1>1, EndsEffect
<1>2. CASE Lock(r)
  BY <1>2, LockEffect, RunFields, IdleType
<1>3. CASE Open(r)
  BY <1>3, OpenEffect
<1>4. CASE ReadPage(r)
  BY <1>4, ReadPageEffect
<1>5. CASE WritePage(r)
  <2>1. CASE DOMAIN run[r].page = {}
    BY <1>5, <2>1, EmptyPageEffect
  <2>2. CASE DOMAIN run[r].page # {}
    BY <1>5, <2>2, FullPageEffect
  <2> QED
    BY <2>1, <2>2
<1>6. CASE SwitchPhase(r)
  BY <1>6, SwitchEffect
<1>7. CASE Looks(r)
  BY <1>7, LooksEffect
<1>8. CASE WriteDeletes(r)
  BY <1>8, WriteDeletesEffect
<1> QED
  BY <1>1, <1>2, <1>3, <1>4, <1>5, <1>6, <1>7, <1>8, RunSteps

\* A step of the source that changes its rows.
LEMMA CommitEffect ==
    ASSUME TypeInv, NEW p \in pending, SourceCommits(p)
    PROVE  /\ src' \in [Keys -> SourceRows] /\ writes' \in Nat
           /\ pending' \subseteq pending /\ p.key \in Keys /\ p.cur \in Nat
           /\ src'[p.key].cur = p.cur
           /\ \A k \in Keys \ {p.key} : src'[k] = src[k]
           /\ UNCHANGED <<flag, usable, clock, copy, wm, lock, run, obstacles, faults>>
<1> DEFINE new == [cur |-> p.cur, ver |-> writes + 1]
<1>1. /\ p.key \in Keys /\ p.cur \in Nat /\ writes + 1 \in Nat
  BY DEF TypeInv
<1>2. new \in SourceRows /\ new.cur = p.cur
  BY <1>1 DEF SourceRows
<1>3. src' = [src EXCEPT ![p.key] = new] /\ writes' = writes + 1 /\ pending' = pending \ {p}
  BY DEF SourceCommits
<1> HIDE DEF new
<1>4. /\ src' \in [Keys -> SourceRows] /\ src'[p.key] = new
      /\ \A k \in Keys \ {p.key} : src'[k] = src[k]
  BY <1>1, <1>2, <1>3 DEF TypeInv
<1> QED
  BY <1>1, <1>2, <1>3, <1>4 DEF SourceCommits

LEMMA DeleteEffect ==
    ASSUME TypeInv, NEW d \in Keys, SourceDeletes(d)
    PROVE  /\ src' \in [Keys -> SourceRows] /\ src'[d].ver = 0 /\ src'[d].cur = Null
           /\ \A k \in Keys \ {d} : src'[k] = src[k]
           /\ UNCHANGED <<flag, usable, clock, pending, writes, copy, wm, lock, run, obstacles, faults>>
<1>1. NoRow.ver = 0 /\ NoRow.cur = Null
  BY DEF NoRow
<1>2. src' = [src EXCEPT ![d] = NoRow]
  BY DEF SourceDeletes
<1>3. src' \in [Keys -> SourceRows] /\ src'[d] = NoRow /\ \A k \in Keys \ {d} : src'[k] = src[k]
  BY <1>2, IdleType DEF TypeInv
<1> QED
  BY <1>1, <1>3 DEF SourceDeletes

LEMMA SourceStepTypes == ASSUME TypeInv, Source PROVE TypeInv'
<1> USE DEF TypeInv, source
<1>1. CASE Tick
  BY <1>1 DEF Tick
<1>2. ASSUME NEW k \in Keys, SourceWrites(k) PROVE TypeInv'
  <2>1. [key |-> k, cur |-> clock] \in [key : Keys, cur : Nat]
    OBVIOUS
  <2> QED
    BY <1>2, <2>1 DEF SourceWrites
<1>3. ASSUME NEW k \in Keys, SourceDeletes(k) PROVE TypeInv'
  BY <1>3, DeleteEffect
<1>4. ASSUME NEW p \in pending, SourceCommits(p) PROVE TypeInv'
  BY <1>4, CommitEffect
<1>5. ASSUME NEW o \in Obstacles, Obstructs(o) PROVE TypeInv'
  BY <1>5 DEF Obstructs
<1> QED
  BY <1>1, <1>2, <1>3, <1>4, <1>5 DEF Source

LEMMA ClearType ==
    ASSUME TypeInv, ClearShadow
    PROVE  /\ copy' \in [Targets -> [Keys -> [ver : Nat, deleted : BOOLEAN]]]
           /\ wm' \in [Targets -> Watermarks]
           /\ copy'["prod"] = copy["prod"] /\ wm'["prod"] = wm["prod"]
           /\ wm'["shadow"] = NoWatermark
<1>1. [k \in Keys |-> NoCopy] \in [Keys -> [ver : Nat, deleted : BOOLEAN]]
  BY DEF NoCopy
<1>2. "prod" \in Targets /\ "shadow" \in Targets
  BY DEF Targets
<1> DEFINE none == [k \in Keys |-> NoCopy]
<1>3. copy' = [copy EXCEPT !["shadow"] = none] /\ wm' = [wm EXCEPT !["shadow"] = NoWatermark]
  BY DEF ClearShadow
<1> HIDE DEF none
<1> QED
  BY <1>1, <1>2, <1>3, IdleType DEF TypeInv, none

LEMMA OperatorsStepTypes == ASSUME TypeInv, Operators PROVE TypeInv'
<1>1. FlagMoves
  BY OperatorsMoveFlag
<1> QED
  BY <1>1, ClearType DEF TypeInv, FlagMoves, source

LEMMA InitTypes == ASSUME Init PROVE TypeInv
<1>1. PICK s \in Starts :
         /\ flag = Assign(FreshRow, s.engine)
         /\ usable = s.usable
         /\ src = [k \in Keys |-> IF k \in s.legacy THEN [cur |-> Null, ver |-> 1] ELSE NoRow]
  BY DEF Init
<1>2. s.engine \in Writers /\ s.legacy \in SUBSET Keys /\ s.usable \in BOOLEAN
  BY ExtractorAssumption DEF ExtractorAssumption
<1>3. FreshRow \in OwnershipRow({}, {})
  BY DEF FreshRow, OwnershipRow, Engine, CutoverState
<1>4. flag \in OwnershipRow({}, {})
  BY <1>1, <1>2, <1>3, FlagRows
<1>5. [cur |-> Null, ver |-> 1] \in SourceRows
  BY DEF SourceRows
<1>6. src \in [Keys -> SourceRows]
  BY <1>1, <1>5, IdleType
<1>7. copy \in [Targets -> [Keys -> [ver : Nat, deleted : BOOLEAN]]]
  BY DEF Init, NoCopy
<1>8. wm \in [Targets -> Watermarks] /\ run \in [Runs -> RunType]
  BY IdleType DEF Init
<1> QED
  BY <1>1, <1>2, <1>4, <1>6, <1>7, <1>8 DEF Init, TypeInv

LEMMA StepTypes == ASSUME TypeInv, [Next]_vars PROVE TypeInv'
<1>1. CASE Source
  BY <1>1, SourceStepTypes
<1>2. CASE Operators
  BY <1>2, OperatorsStepTypes
<1>3. ASSUME NEW r \in Runs, NEW mode \in Modes, NEW t \in Targets, Plan(r, mode, t) PROVE TypeInv'
  BY <1>3, PlanEffect DEF TypeInv, Alone, source
<1>4. ASSUME NEW r \in Runs, Process(r) \/ Fail(r) PROVE TypeInv'
  BY <1>4, RunStepTypes
<1>5. CASE UNCHANGED vars
  BY <1>5 DEF vars, source, TypeInv
<1> QED
  BY <1>1, <1>2, <1>3, <1>4, <1>5 DEF Next

\* The state of the extractor is well typed: watermarks, pages and positions of
\* runs are what _extract and extract_watermarks hold.
THEOREM ExtractorTypes == Spec => []TypeOK
<1>1. Init => TypeInv
  BY InitTypes
<1>2. TypeInv /\ [Next]_vars => TypeInv'
  BY StepTypes
<1>3. TypeInv => TypeOK
  <2> SUFFICES ASSUME TypeInv PROVE TypeOK
    OBVIOUS
  <2>1. ASSUME NEW r \in Runs
        PROVE  /\ run[r].pc \in {"idle", "planned", "open", "read", "write", "switch",
                                 "count", "list", "recheck", "delete", "done"}
               /\ run[r].mode \in Modes /\ run[r].target \in Targets
               /\ run[r].start \in [cur : Int, pk : Nat]
               /\ DOMAIN run[r].page \subseteq Keys /\ run[r].gone \subseteq Keys
    BY RunFields, PageType DEF RunType
  <2> QED
    BY <2>1 DEF TypeInv, TypeOK
<1> QED
  BY <1>1, <1>2, <1>3, PTL DEF Spec

-----------------------------------------------------------------------------
(***************************************************************************)
(* Locks, times and plans.                                                 *)
(***************************************************************************)

\* A step of run r touches the target it has the lock of.
Inside(r) ==
    /\ Alone(r)
    /\ \/ run'[r].pc = "idle"
       \/ /\ run[r].pc # "idle" /\ run'[r].pc # "planned"
          /\ run'[r].target = run[r].target /\ run'[r].epoch = run[r].epoch
          /\ lock'[run[r].target] = r
    /\ \A t \in Targets :
         /\ lock[t] \notin {r, NoRun} => lock'[t] = lock[t] /\ copy'[t] = copy[t] /\ wm'[t] = wm[t]
         /\ t # run[r].target => copy'[t] = copy[t] /\ wm'[t] = wm[t]

LEMMA RunStepsInside ==
    ASSUME TypeInv, Locked, NEW r \in Runs, Process(r) \/ Fail(r)
    PROVE  Inside(r)
<1>0. run[r].target \in Targets /\ NoRun \notin Runs
  BY RunFields, Bounds
<1>1. CASE Ends(r)
  BY <1>1, EndsEffect DEF Inside
<1>2. CASE Lock(r)
  <2>1. lock'[run[r].target] = r /\ \A t \in Targets \ {run[r].target} : lock'[t] = lock[t]
    BY <1>0, <1>2, LockEffect
  <2>2. \A t \in Targets \ {run[r].target} : wm'[t] = wm[t]
    BY <1>0, <1>2, LockEffect DEF TypeInv
  <2> QED
    BY <1>0, <1>2, <2>1, <2>2, LockEffect DEF Inside, Keeps
<1>3. CASE Open(r)
  <2>1. lock[run[r].target] = r
    BY <1>3 DEF Locked, Open, At
  <2> QED
    BY <1>3, <2>1, OpenEffect DEF Inside, Open, At
<1>4. CASE ReadPage(r)
  <2>1. lock[run[r].target] = r
    BY <1>4 DEF Locked, ReadPage, At
  <2> QED
    BY <1>4, <2>1, ReadPageEffect DEF Inside, ReadPage, At, Keeps
<1>5. CASE WritePage(r)
  <2>0. lock[run[r].target] = r /\ AfterPage(r) # "planned"
    BY <1>5, AfterPageIs DEF Locked, WritePage, At, AfterPages
  <2>1. CASE DOMAIN run[r].page = {}
    BY <1>5, <2>0, <2>1, EmptyPageEffect DEF Inside, Keeps
  <2>2. CASE DOMAIN run[r].page # {}
    <3>1. /\ Alone(r) /\ run[r].pc = "write" /\ run'[r].pc = AfterPage(r)
          /\ run'[r].target = run[r].target /\ run'[r].epoch = run[r].epoch /\ lock' = lock
          /\ \A u \in Targets \ {run[r].target} : copy'[u] = copy[u] /\ wm'[u] = wm[u]
      BY <1>5, <2>2, FullPageEffect
    <3> QED
      BY <1>0, <2>0, <3>1 DEF Inside
  <2> QED
    BY <2>1, <2>2
<1>6. CASE SwitchPhase(r)
  <2>1. lock[run[r].target] = r
    BY <1>6 DEF Locked, SwitchPhase, At
  <2> QED
    BY <1>0, <1>6, <2>1, SwitchEffect DEF Inside
<1>7. CASE Looks(r)
  <2>1. lock[run[r].target] = r
    BY <1>7, LooksEffect DEF Locked
  <2> QED
    BY <1>7, <2>1, LooksEffect DEF Inside, Keeps
<1>8. CASE WriteDeletes(r)
  <2>1. lock[run[r].target] = r
    BY <1>8 DEF Locked, WriteDeletes, At
  <2> QED
    BY <1>0, <1>8, <2>1, WriteDeletesEffect DEF Inside, Keeps
<1> QED
  BY <1>1, <1>2, <1>3, <1>4, <1>5, <1>6, <1>7, <1>8, RunSteps

LEMMA StepLocked == ASSUME TypeInv, Locked, [Next]_vars PROVE Locked'
<1>1. CASE UNCHANGED <<run, lock>>
  BY <1>1 DEF Locked
<1>2. ASSUME NEW r \in Runs, NEW mode \in Modes, NEW t \in Targets, Plan(r, mode, t) PROVE Locked'
  <2> SUFFICES ASSUME NEW q \in Runs, run'[q].pc \notin {"idle", "planned"}
               PROVE  lock'[run'[q].target] = q
    BY DEF Locked
  <2> QED
    BY <1>2, PlanEffect DEF Locked, Alone
<1>3. ASSUME NEW r \in Runs, Process(r) \/ Fail(r) PROVE Locked'
  <2> SUFFICES ASSUME NEW q \in Runs, run'[q].pc \notin {"idle", "planned"}
               PROVE  lock'[run'[q].target] = q
    BY DEF Locked
  <2>1. Inside(r)
    BY <1>3, RunStepsInside
  <2>2. CASE q = r
    BY <2>1, <2>2 DEF Inside
  <2>3. CASE q # r
    <3>1. run'[q] = run[q] /\ run[q].target \in Targets /\ lock[run[q].target] = q
      BY <2>1, <2>3, RunFields DEF Inside, Alone, Locked
    <3> QED
      BY <2>1, <2>3, <3>1, Bounds DEF Inside
  <2> QED
    BY <2>2, <2>3
<1>4. Source \/ Operators => UNCHANGED <<run, lock>>
  BY DEF Source, Tick, SourceWrites, SourceDeletes, SourceCommits, Obstructs, Operators,
         StartShadowing, AbortShadowing, PauseTable, ResumeTable, SetFlag
<1> QED
  BY <1>1, <1>2, <1>3, <1>4 DEF Next, vars

LEMMA StepPlanned == ASSUME TypeInv, Locked, Planned, [Next]_vars PROVE Planned'
<1>0. flag.epoch \in Nat
  BY DEF TypeInv, OwnershipRow
<1>1. CASE UNCHANGED <<flag, run>>
  BY <1>1 DEF Planned, Current, Owns
<1>2. ASSUME NEW r \in Runs, NEW mode \in Modes, NEW t \in Targets, Plan(r, mode, t) PROVE Planned'
  <2>1. /\ flag' = flag /\ \A q \in Runs \ {r} : run'[q] = run[q]
        /\ run'[r].target = t /\ run'[r].epoch = flag.epoch /\ Owns(t)
    BY <1>2, PlanEffect DEF Alone
  <2> SUFFICES ASSUME NEW q \in Runs, run'[q].pc # "idle"
               PROVE  /\ run'[q].epoch <= flag.epoch
                      /\ run'[q].epoch = flag.epoch => Owns(run'[q].target)
                      /\ run'[q].target = "prod" => flag.engine = "PYTHON"
    BY <2>1 DEF Planned, Current, Owns
  <2>2. CASE q = r
    BY <1>0, <2>1, <2>2 DEF Owns
  <2>3. CASE q # r
    BY <2>1, <2>3 DEF Planned, Current
  <2> QED
    BY <2>2, <2>3
<1>3. ASSUME NEW r \in Runs, Process(r) \/ Fail(r) PROVE Planned'
  <2>1. Inside(r)
    BY <1>3, RunStepsInside
  <2>2. flag' = flag
    BY <2>1 DEF Inside, Alone
  <2> SUFFICES ASSUME NEW q \in Runs, run'[q].pc # "idle"
               PROVE  /\ run'[q].epoch <= flag.epoch
                      /\ run'[q].epoch = flag.epoch => Owns(run'[q].target)
                      /\ run'[q].target = "prod" => flag.engine = "PYTHON"
    BY <2>2 DEF Planned, Current, Owns
  <2>3. run[q].pc # "idle" /\ run'[q].epoch = run[q].epoch /\ run'[q].target = run[q].target
    BY <2>1 DEF Inside, Alone
  <2> QED
    BY <2>3 DEF Planned, Current
<1>4. CASE Operators
  <2>1. FlagMoves
    BY <1>4, OperatorsMoveFlag
  <2>2. flag'.engine \in Writers /\ flag'.shadow # flag'.engine
    BY <2>1 DEF FlagMoves, Planned
  <2> SUFFICES ASSUME NEW q \in Runs, run[q].pc # "idle"
               PROVE  /\ run[q].epoch <= flag'.epoch
                      /\ run[q].epoch # flag'.epoch
                      /\ run[q].target = "prod" => flag'.engine = "PYTHON"
    BY <2>1, <2>2 DEF Planned, Current, FlagMoves
  <2>3. run[q].epoch \in Nat /\ run[q].epoch <= flag.epoch /\ flag'.epoch = flag.epoch + 1
    BY <2>1, RunFields DEF FlagMoves, Planned
  <2> QED
    BY <1>0, <2>1, <2>3 DEF FlagMoves, Planned
<1>5. Source => UNCHANGED <<flag, run>>
  BY DEF Source, Tick, SourceWrites, SourceDeletes, SourceCommits, Obstructs
<1> QED
  BY <1>1, <1>2, <1>3, <1>4, <1>5 DEF Next, vars

LEMMA StepLegacy == ASSUME TypeInv, LegacyRows, [Next]_vars PROVE LegacyRows'
<1>0. flag'.engine = flag.engine
  BY OperatorsMoveFlag, PlanEffect DEF Next, vars, FlagMoves, Source, Tick, SourceWrites, SourceDeletes,
     SourceCommits, Obstructs, Process, Refused, Lock, Open, ReadPage, WritePage, SwitchPhase,
     CompareCounts, ListMissing, Recheck, WriteDeletes, Fenced, Unlock, Fail, Leave, Plan
<1>1. CASE UNCHANGED src
  BY <1>0, <1>1 DEF LegacyRows, Legacy, Present
<1>2. ASSUME NEW d \in Keys, SourceDeletes(d) PROVE LegacyRows'
  BY <1>0, <1>2, DeleteEffect DEF LegacyRows, Legacy, Present
<1>3. ASSUME NEW p \in pending, SourceCommits(p) PROVE LegacyRows'
  <2>1. p.cur # Null
    BY <1>3, CommitEffect, Bounds
  <2> QED
    BY <1>0, <1>3, <2>1, CommitEffect DEF LegacyRows, Legacy, Present
<1>4. CASE UNCHANGED vars
  BY <1>1, <1>4 DEF vars, source
<1>5. CASE Operators
  BY <1>1, <1>5, OperatorsMoveFlag DEF FlagMoves, source
<1>6. ASSUME NEW r \in Runs, Process(r) \/ Fail(r) \/ \E mode \in Modes, t \in Targets : Plan(r, mode, t)
      PROVE UNCHANGED src
  BY <1>6 DEF source, Process, Refused, Lock, Open, ReadPage, WritePage, SwitchPhase,
     CompareCounts, ListMissing, Recheck, WriteDeletes, Fenced, Unlock, Fail, Leave, Plan
<1>7. CASE Tick \/ (\E k \in Keys : SourceWrites(k)) \/ \E o \in Obstacles : Obstructs(o)
  BY <1>1, <1>7 DEF Tick, SourceWrites, Obstructs, source
<1> QED
  BY <1>1, <1>2, <1>3, <1>4, <1>5, <1>6, <1>7 DEF Next, Source

LEMMA TimeTypes ==
    ASSUME TypeInv
    PROVE  /\ clock \in Nat /\ CommitDelay \in Nat /\ RunTime \in Nat /\ Lookback \in Nat
           /\ Null \in Int /\ Null < 0 /\ NoWatermark.cur = Null /\ NoWatermark.pk = 0
           /\ \A k \in Keys : src[k].cur \in Int /\ src[k].ver \in Nat /\ src[k].cur >= Null
                              /\ (src[k].cur # Null => src[k].cur \in Nat)
           /\ \A t \in Targets : wm[t].cur \in Int /\ wm[t].pk \in Nat
                                 /\ (wm[t].cur # Null => wm[t].cur \in Nat)
           /\ \A p \in pending : p.cur \in Nat /\ p.key \in Keys
  BY Bounds DEF TypeInv, SourceRows, Watermarks, NoWatermark

LEMMA RunStepTimely ==
    ASSUME TypeInv, Locked, Timely, NEW r \in Runs, Process(r) \/ Fail(r)
    PROVE  Timely'
<1>0. /\ clock \in Nat /\ CommitDelay \in Nat /\ RunTime \in Nat /\ Null < 0 /\ Null \in Int
      /\ clock <= clock + RunTime /\ Null <= clock /\ EpochCursor <= clock
  BY TimeTypes DEF EpochCursor
<1>1. Inside(r)
  BY RunStepsInside
<1>2. /\ \A t \in Targets : wm'[t].cur <= clock
      /\ Extracting(r)' => run'[r].began <= clock /\ clock <= run'[r].began + RunTime
      /\ \A k \in DOMAIN run'[r].page : run'[r].page[k].cur <= clock
  <2>1. CASE Ends(r)
    BY <2>1, EndsEffect DEF Extracting, Timely
  <2>2. CASE Lock(r)
    <3>1. \A t \in Targets : wm'[t].cur <= clock
      <4>1. CASE wm' = wm
        BY <4>1 DEF Timely
      <4>2. CASE wm' = [wm EXCEPT ![run[r].target] = NoWatermark]
        BY <1>0, <4>2, RunFields, TimeTypes DEF Timely, TypeInv
      <4> QED
        BY <2>2, <4>1, <4>2, LockEffect
    <3> QED
      BY <2>2, <3>1, LockEffect DEF Extracting, Timely
  <2>3. CASE Open(r)
    BY <1>0, <2>3, OpenEffect DEF Extracting, Timely
  <2>4. CASE ReadPage(r)
    <3>1. run[r].pc = "read" /\ PageKeys(run[r].start, run[r].nulls) \subseteq Keys
      BY <2>4, PageIsFirst DEF ReadPage, At, TypeInv
    <3>2. \A k \in DOMAIN run'[r].page : run'[r].page[k].cur <= clock
      BY <2>4, <3>1, ReadPageEffect DEF Timely
    <3>3. Extracting(r)' => run'[r].began <= clock /\ clock <= run'[r].began + RunTime
      BY <2>4, <3>1, ReadPageEffect DEF Timely, Extracting, Keeps
    <3>4. wm' = wm
      BY <2>4, ReadPageEffect
    <3> QED
      BY <3>2, <3>3, <3>4 DEF Timely
  <2>5. CASE WritePage(r)
    <3>0. run[r].pc = "write" /\ run[r].page \in Pages
      BY <2>5, RunFields DEF WritePage, At
    <3>1. CASE DOMAIN run[r].page = {}
      BY <2>5, <3>0, <3>1, EmptyPageEffect DEF Extracting, Timely, Keeps
    <3>2. CASE DOMAIN run[r].page # {}
      <4>1. usable => MarkOf(run[r].page).cur <= clock
        BY <3>0, <3>2, MarkType DEF Timely
      <4>2. /\ run'[r].began = run[r].began /\ run'[r].page = <<>>
            /\ usable => wm'[run[r].target] = MarkOf(run[r].page)
            /\ ~usable => wm' = wm
            /\ \A u \in Targets \ {run[r].target} : wm'[u] = wm[u]
        BY <2>5, <3>2, FullPageEffect
      <4>3. \A t \in Targets : wm'[t].cur <= clock
        BY <4>1, <4>2 DEF Timely
      <4> QED
        BY <3>0, <4>2, <4>3 DEF Extracting, Timely
    <3> QED
      BY <3>1, <3>2
  <2>6. CASE SwitchPhase(r)
    <3>1. /\ run[r].pc = "switch" /\ run'[r].page = run[r].page /\ run'[r].began = run[r].began
          /\ wm'[run[r].target].cur = EpochCursor
          /\ \A u \in Targets \ {run[r].target} : wm'[u] = wm[u]
      BY <2>6, SwitchEffect
    <3> QED
      BY <1>0, <3>1 DEF Extracting, Timely
  <2>7. CASE Looks(r)
    BY <2>7, LooksEffect DEF Extracting, Timely
  <2>8. CASE WriteDeletes(r)
    <3>1. /\ run'[r].page = run[r].page /\ wm' = wm /\ run'[r].pc \in {"delete", "done"}
      BY <2>8, WriteDeletesEffect
    <3> QED
      BY <3>1 DEF Extracting, Timely
  <2> QED
    BY <2>1, <2>2, <2>3, <2>4, <2>5, <2>6, <2>7, <2>8, RunSteps
<1>3. UNCHANGED <<clock, src, pending>> /\ \A q \in Runs \ {r} : run'[q] = run[q]
  BY <1>1 DEF Inside, Alone, source
<1> QED
  BY <1>2, <1>3 DEF Timely, Extracting

LEMMA StepTimely == ASSUME TypeInv, Locked, Timely, [Next]_vars PROVE Timely'
<1>0. /\ clock \in Nat /\ CommitDelay \in Nat /\ RunTime \in Nat /\ Null < 0 /\ Null \in Int
      /\ Null <= clock /\ clock <= clock + CommitDelay /\ clock <= clock
  BY TimeTypes
<1>1. CASE Tick
  <2>1. /\ clock' = clock + 1 /\ UNCHANGED <<src, pending, wm, run>>
        /\ \A p \in pending : clock < p.cur + CommitDelay
        /\ \A r \in Runs : Extracting(r) => clock < run[r].began + RunTime
    BY <1>1 DEF Tick, source
  <2>2. \A k \in Keys : src[k].cur <= clock + 1
    BY <1>0, TimeTypes DEF Timely
  <2>3. \A p \in pending : p.cur <= clock + 1 /\ clock + 1 <= p.cur + CommitDelay
    BY <1>0, <2>1, TimeTypes DEF Timely
  <2>4. \A t \in Targets : wm[t].cur <= clock + 1
    BY <1>0, TimeTypes DEF Timely
  <2>5. \A r \in Runs : Extracting(r) => run[r].began <= clock + 1 /\ clock + 1 <= run[r].began + RunTime
    BY <1>0, <2>1, RunFields DEF Timely
  <2>6. \A r \in Runs : \A k \in DOMAIN run[r].page : run[r].page[k].cur <= clock + 1
    <3> SUFFICES ASSUME NEW r \in Runs, NEW k \in DOMAIN run[r].page
                 PROVE  run[r].page[k].cur <= clock + 1
      OBVIOUS
    <3>1. run[r].page[k].cur \in Int
      BY RunFields, PageType, Bounds DEF SourceRows
    <3> QED
      BY <1>0, <3>1 DEF Timely
  <2> QED
    BY <2>1, <2>2, <2>3, <2>4, <2>5, <2>6 DEF Timely, Extracting
<1>2. ASSUME NEW k \in Keys, SourceWrites(k) PROVE Timely'
  BY <1>0, <1>2 DEF SourceWrites, Timely, Extracting
<1>3. ASSUME NEW d \in Keys, SourceDeletes(d) PROVE Timely'
  BY <1>0, <1>3, DeleteEffect DEF Timely, Extracting
<1>4. ASSUME NEW p \in pending, SourceCommits(p) PROVE Timely'
  BY <1>0, <1>4, CommitEffect DEF Timely, Extracting
<1>5. CASE Operators
  <2>1. FlagMoves
    BY <1>5, OperatorsMoveFlag
  <2>2. \A t \in Targets : wm'[t].cur <= clock
    BY <1>0, <2>1, ClearType, TimeTypes DEF FlagMoves, Timely, Targets
  <2> QED
    BY <2>1, <2>2 DEF FlagMoves, Timely, Extracting, source
<1>6. ASSUME NEW r \in Runs, NEW mode \in Modes, NEW t \in Targets, Plan(r, mode, t) PROVE Timely'
  BY <1>6, PlanEffect DEF Timely, Extracting, Alone, source
<1>7. ASSUME NEW r \in Runs, Process(r) \/ Fail(r) PROVE Timely'
  BY <1>7, RunStepTimely
<1>8. CASE UNCHANGED vars \/ \E o \in Obstacles : Obstructs(o)
  BY <1>8 DEF vars, source, Obstructs, Timely, Extracting
<1> QED
  BY <1>1, <1>2, <1>3, <1>4, <1>5, <1>6, <1>7, <1>8 DEF Next, Source

-----------------------------------------------------------------------------
(***************************************************************************)
(* What the source and the operators do to what runs have read.            *)
(***************************************************************************)

Settled == TypeInv /\ Locked /\ Timely /\ Planned /\ LegacyRows

\* What a run has read stays true as long as nothing that it looks at changes.
LEMMA ProgressFrame ==
    ASSUME TypeInv, NEW q \in Runs, Progress(q), run'[q] = run[q], UNCHANGED <<usable, src, flag>>,
           run[q].pc \notin {"idle", "planned"} =>
             copy'[run[q].target] = copy[run[q].target] /\ wm'[run[q].target] = wm[run[q].target]
    PROVE  Progress(q)'
<1>1. CASE run[q].pc \in {"idle", "planned"}
  BY <1>1 DEF Progress, ReadIsCopied, PageIsNext, PageIsRecent, NullPass, GoneIsAhead, Extracting
<1>2. CASE run[q].pc \notin {"idle", "planned"}
  <2>0. copy'[run[q].target] = copy[run[q].target] /\ wm'[run[q].target] = wm[run[q].target]
    BY <1>2
  <2>1. ReadIsCopied(q)'
    BY <2>0 DEF Progress, ReadIsCopied, Cursors, Current, Present, Reflects, Late, After
  <2>2. PageIsNext(q)'
    BY <2>0 DEF Progress, PageIsNext, Cursors, Present, Late, After
  <2>3. PageIsRecent(q)'
    BY <2>0 DEF Progress, PageIsRecent, Present, Late
  <2>4. NullPass(q)'
    BY <2>0 DEF Progress, NullPass, Extracting, Cursors, Legacy, Present, Reflects
  <2>5. GoneIsAhead(q)'
    BY <2>0 DEF Progress, GoneIsAhead, Present, Ahead
  <2> QED
    BY <2>1, <2>2, <2>3, <2>4, <2>5 DEF Progress
<1> QED
  BY <1>1, <1>2

\* A row that is committed is late for every run, and no watermark is beyond
\* the lookback from it.
LEMMA CommitsAreLate ==
    ASSUME Settled, LookbackCovers, NEW p \in pending
    PROVE  /\ \A q \in Runs : Extracting(q) => p.cur >= run[q].began - CommitDelay
           /\ \A t \in Targets : p.cur + Lookback >= wm[t].cur
<1>1. p.cur \in Nat /\ p.cur <= clock /\ clock <= p.cur + CommitDelay /\ clock \in Nat
  BY TimeTypes DEF Settled, Timely
<1>2. CommitDelay \in Nat /\ RunTime \in Nat /\ Lookback \in Nat /\ CommitDelay + RunTime <= Lookback
  BY Bounds DEF LookbackCovers
<1>3. ASSUME NEW q \in Runs, Extracting(q) PROVE p.cur >= run[q].began - CommitDelay
  <2>1. run[q].began \in Nat /\ run[q].began <= clock
    BY <1>3, RunFields DEF Settled, Timely
  <2> QED
    BY <1>1, <1>2, <2>1
<1>4. ASSUME NEW t \in Targets PROVE p.cur + Lookback >= wm[t].cur
  <2>1. wm[t].cur \in Int /\ wm[t].cur <= clock
    BY TimeTypes DEF Settled, Timely
  <2> QED
    BY <1>1, <1>2, <2>1
<1> QED
  BY <1>3, <1>4

LEMMA CommitKeeps ==
    ASSUME Settled, LookbackCovers, \A r \in Runs : Progress(r), NoneBehind,
           NEW p \in pending, SourceCommits(p)
    PROVE  (\A r \in Runs : Progress(r))' /\ NoneBehind'
<1>0. /\ p.key \in Keys /\ p.cur \in Nat /\ src'[p.key].cur = p.cur /\ p.cur # Null
      /\ \A k \in Keys \ {p.key} : src'[k] = src[k]
      /\ UNCHANGED <<flag, usable, clock, copy, wm, lock, run, obstacles, faults>>
  BY CommitEffect, Bounds DEF Settled
<1>1. \A t \in Targets : Ahead(wm[t], src'[p.key], p.key)
  BY <1>0, CommitsAreLate DEF Ahead
<1>2. \A k \in Keys \ {p.key} : /\ Present(k)' = Present(k) /\ Legacy(k)' = Legacy(k)
                                /\ \A t \in Targets : Reflects(t, k)' = Reflects(t, k)
  BY <1>0 DEF Present, Legacy, Reflects
<1>3. ASSUME NEW q \in Runs PROVE Progress(q)'
  <2>0. run[q].target \in Targets /\ DOMAIN run[q].page \subseteq Keys /\ run[q].gone \subseteq Keys
    BY RunFields, PageType DEF Settled
  <2>1. Progress(q)
    OBVIOUS
  <2>2. Extracting(q) => Late(q, p.key)'
    BY <1>0, CommitsAreLate DEF Late
  <2>3. \A k \in Keys \ {p.key} : Late(q, k)' = Late(q, k)
    BY <1>0 DEF Late
  <2>4. ReadIsCopied(q)'
    BY <1>0, <1>2, <2>0, <2>1, <2>2, <2>3
       DEF Progress, ReadIsCopied, Extracting, Cursors, Current, After
  <2>5. PageIsNext(q)'
    BY <1>0, <1>2, <2>0, <2>1, <2>2, <2>3 DEF Progress, PageIsNext, Extracting, Cursors, After
  <2>6. PageIsRecent(q)'
    BY <1>0, <1>2, <2>0, <2>1, <2>2, <2>3 DEF Progress, PageIsRecent, Extracting
  <2>7. NullPass(q)'
    <3>1. ~Legacy(p.key)'
      BY <1>0 DEF Legacy
    <3>2. "prod" \in Targets
      BY DEF Targets
    <3>3. \A k \in Keys : Legacy(k)' => Legacy(k) /\ (Reflects("prod", k) => Reflects("prod", k)')
      BY <1>2, <3>1, <3>2
    <3> QED
      BY <1>0, <2>1, <3>3 DEF Progress, NullPass, Extracting, Cursors
  <2>8. GoneIsAhead(q)'
    BY <1>0, <1>1, <1>2, <2>0, <2>1 DEF Progress, GoneIsAhead
  <2> QED
    BY <2>4, <2>5, <2>6, <2>7, <2>8 DEF Progress
<1>4. NoneBehind'
  BY <1>0, <1>1, <1>2 DEF NoneBehind, Owns
<1> QED
  BY <1>3, <1>4

LEMMA DeleteKeeps ==
    ASSUME Settled, \A r \in Runs : Progress(r), NoneBehind, NEW d \in Keys, SourceDeletes(d)
    PROVE  (\A r \in Runs : Progress(r))' /\ NoneBehind'
<1>0. /\ src'[d].ver = 0 /\ \A k \in Keys \ {d} : src'[k] = src[k]
      /\ UNCHANGED <<flag, usable, clock, copy, wm, lock, run, obstacles, faults>>
  BY DeleteEffect DEF Settled
<1>1. \A k \in Keys : Present(k)' =>
        /\ k # d /\ Present(k) /\ src'[k] = src[k]
        /\ \A t \in Targets : Reflects(t, k)' = Reflects(t, k)
  BY <1>0 DEF Present, Reflects
<1>2. ASSUME NEW q \in Runs PROVE Progress(q)'
  <2>0. run[q].target \in Targets /\ DOMAIN run[q].page \subseteq Keys /\ run[q].gone \subseteq Keys
    BY RunFields, PageType DEF Settled
  <2>1. Progress(q)
    OBVIOUS
  <2>2. \A k \in Keys : Present(k)' => Late(q, k)' = Late(q, k)
    BY <1>0, <1>1 DEF Late
  <2>4. ReadIsCopied(q)'
    BY <1>0, <1>1, <2>0, <2>1, <2>2 DEF Progress, ReadIsCopied, Cursors, Current, After
  <2>5. PageIsNext(q)'
    BY <1>0, <1>1, <2>0, <2>1, <2>2 DEF Progress, PageIsNext, Cursors, After
  <2>6. PageIsRecent(q)'
    BY <1>0, <1>1, <2>0, <2>1, <2>2 DEF Progress, PageIsRecent
  <2>7. NullPass(q)'
    <3>1. "prod" \in Targets
      BY DEF Targets
    <3>2. \A k \in Keys : Legacy(k)' => Legacy(k) /\ (Reflects("prod", k) => Reflects("prod", k)')
      BY <1>1, <3>1 DEF Legacy
    <3> QED
      BY <1>0, <2>1, <3>2 DEF Progress, NullPass, Extracting, Cursors
  <2>8. GoneIsAhead(q)'
    BY <1>0, <1>1, <2>0, <2>1 DEF Progress, GoneIsAhead
  <2> QED
    BY <2>4, <2>5, <2>6, <2>7, <2>8 DEF Progress
<1>3. NoneBehind'
  BY <1>0, <1>1 DEF NoneBehind, Owns
<1> QED
  BY <1>2, <1>3

\* Every request fences the runs that were planned before it.
LEMMA OperatorsKeep ==
    ASSUME Settled, \A r \in Runs : Progress(r), NoneBehind, Operators
    PROVE  (\A r \in Runs : Progress(r))' /\ NoneBehind'
<1>0. TypeInv /\ FlagMoves
  BY OperatorsMoveFlag DEF Settled
<1>1. UNCHANGED <<usable, src, run>> /\ flag'.engine = flag.engine
  BY <1>0 DEF FlagMoves, source
<1>2. copy'["prod"] = copy["prod"] /\ wm'["prod"] = wm["prod"]
  BY <1>0, ClearType DEF FlagMoves
<1>3. \/ flag'.shadow = flag.shadow /\ UNCHANGED <<copy, wm>>
      \/ wm'["shadow"] = NoWatermark
  BY <1>0, ClearType DEF FlagMoves
<1>4. \A row : \A k \in Keys : Ahead(NoWatermark, row, k)
  BY <1>0, TimeTypes, Bounds DEF Ahead
<1>5. \A k \in Keys : (Present(k)' <=> Present(k)) /\ (Legacy(k)' <=> Legacy(k))
  BY <1>1 DEF Present, Legacy
<1>6. ASSUME NEW q \in Runs PROVE Progress(q)'
  <2>0. run[q].target \in Targets /\ run[q].gone \subseteq Keys
    BY <1>0, RunFields
  <2>1. Progress(q)
    OBVIOUS
  <2>2. run[q].pc # "idle" => ~Current(q)'
    <3>1. run[q].epoch \in Nat /\ flag.epoch \in Nat /\ flag'.epoch = flag.epoch + 1
      BY <1>0, RunFields DEF FlagMoves, TypeInv, OwnershipRow
    <3> QED
      BY <1>1, <3>1 DEF Settled, Planned, Current
  <2>4. ReadIsCopied(q)'
    BY <1>1, <2>2 DEF ReadIsCopied
  <2>5. PageIsNext(q)'
    BY <1>1, <2>1 DEF Progress, PageIsNext, Cursors, After, Late, Present
  <2>6. PageIsRecent(q)'
    BY <1>1, <2>1 DEF Progress, PageIsRecent, Late, Present
  <2>7. NullPass(q)'
    <3>1. wm[run[q].target].cur = Null => wm'[run[q].target].cur = Null
      BY <1>0, <1>2, <1>3, <2>0, TimeTypes DEF Targets
    <3>2. \A k \in Keys : Reflects("prod", k) => Reflects("prod", k)'
      BY <1>1, <1>2 DEF Reflects
    <3> QED
      BY <1>1, <1>2, <1>5, <2>1, <3>1, <3>2 DEF Progress, NullPass, Extracting, Cursors
  <2>8. GoneIsAhead(q)'
    <3>1. CASE wm'[run[q].target] = wm[run[q].target]
      BY <1>1, <2>1, <3>1 DEF Progress, GoneIsAhead, Present
    <3>2. CASE wm'[run[q].target] = NoWatermark
      BY <1>1, <1>4, <2>0, <3>2 DEF GoneIsAhead
    <3> QED
      BY <1>2, <1>3, <2>0, <3>1, <3>2 DEF Targets
  <2> QED
    BY <2>4, <2>5, <2>6, <2>7, <2>8 DEF Progress
<1>7. NoneBehind'
  <2> SUFFICES ASSUME usable, NEW t \in Targets, NEW k \in Keys, Owns(t)', Present(k)
               PROVE  Reflects(t, k)' \/ Ahead(wm'[t], src[k], k)
    BY <1>1, <1>5 DEF NoneBehind
  <2>1. CASE t = "prod"
    <3>1. Owns(t)
      BY <1>1, <2>1 DEF Owns
    <3> QED
      BY <1>1, <1>2, <2>1, <3>1 DEF NoneBehind, Reflects
  <2>2. CASE t = "shadow" /\ wm'["shadow"] = NoWatermark
    BY <1>4, <2>2
  <2>3. CASE t = "shadow" /\ flag'.shadow = flag.shadow /\ UNCHANGED <<copy, wm>>
    BY <1>1, <2>3 DEF NoneBehind, Reflects, Owns
  <2> QED
    BY <1>3, <2>1, <2>2, <2>3 DEF Targets
<1> QED
  BY <1>6, <1>7

-----------------------------------------------------------------------------
(***************************************************************************)
(* What a run does.                                                        *)
(***************************************************************************)

\* What Reflects says of a row of a copy.
Shows(row, of) == row = [ver |-> of.ver, deleted |-> FALSE]

\* Only the target of a run has to be looked at after its steps, and the other
\* runs not at all.
LEMMA RunFrame ==
    ASSUME Settled, \A r \in Runs : Progress(r), NoneBehind, NEW r \in Runs, Process(r) \/ Fail(r),
           Progress(r)',
           usable => \A k \in Keys : Owns(run[r].target) /\ Present(k) =>
                        \/ Shows(copy'[run[r].target][k], src[k])
                        \/ Ahead(wm'[run[r].target], src[k], k)
    PROVE  (\A q \in Runs : Progress(q))' /\ NoneBehind'
<1>0. TypeInv /\ Inside(r)
  BY RunStepsInside DEF Settled
<1>1. UNCHANGED <<flag, usable, src>> /\ \A q \in Runs \ {r} : run'[q] = run[q]
  BY <1>0 DEF Inside, Alone, source
<1>2. ASSUME NEW q \in Runs \ {r} PROVE Progress(q)'
  <2>1. ASSUME run[q].pc \notin {"idle", "planned"}
        PROVE  copy'[run[q].target] = copy[run[q].target] /\ wm'[run[q].target] = wm[run[q].target]
    <3>1. lock[run[q].target] = q /\ run[q].target \in Targets /\ q # r /\ q # NoRun
      BY <1>0, <2>1, RunFields, Bounds DEF Settled, Locked
    <3> QED
      BY <1>0, <3>1 DEF Inside
  <2> QED
    BY <1>0, <1>1, <2>1, ProgressFrame
<1>3. NoneBehind'
  <2> SUFFICES ASSUME usable, NEW t \in Targets, NEW k \in Keys, Owns(t), Present(k)
               PROVE  Reflects(t, k)' \/ Ahead(wm'[t], src[k], k)
    BY <1>1 DEF NoneBehind, Owns, Present
  <2>1. CASE t = run[r].target
    BY <1>1, <2>1 DEF Shows, Reflects
  <2>2. CASE t # run[r].target
    <3>1. copy'[t] = copy[t] /\ wm'[t] = wm[t]
      BY <1>0, <2>2 DEF Inside
    <3> QED
      BY <1>1, <3>1 DEF NoneBehind, Reflects
  <2> QED
    BY <2>1, <2>2
<1> QED
  BY <1>2, <1>3

\* A run that is not reading has nothing to keep.
LEMMA NothingRead ==
    ASSUME NEW r, run'[r].pc \in {"idle", "planned", "open", "count", "list", "done"},
           run'[r].nulls => usable'
    PROVE  Progress(r)'
  BY DEF Progress, ReadIsCopied, PageIsNext, PageIsRecent, NullPass, GoneIsAhead, Extracting

\* Steps that leave copies and watermarks alone leave no row behind.
LEMMA TargetKept ==
    ASSUME TypeInv, NoneBehind, NEW r \in Runs, Alone(r), UNCHANGED <<copy, wm>>
    PROVE  usable => \A k \in Keys : Owns(run[r].target) /\ Present(k) =>
                        \/ Shows(copy'[run[r].target][k], src[k])
                        \/ Ahead(wm'[run[r].target], src[k], k)
  BY RunFields DEF NoneBehind, Reflects, Shows

LEMMA EndsKeep ==
    ASSUME Settled, \A r \in Runs : Progress(r), NoneBehind, NEW r \in Runs, Ends(r)
    PROVE  (\A q \in Runs : Progress(q))' /\ NoneBehind'
<1>0. TypeInv /\ (Process(r) \/ Fail(r))
  BY DEF Settled, Ends, Process
<1>1. /\ Alone(r) /\ UNCHANGED <<copy, wm>> /\ run'[r].pc = "idle" /\ ~run'[r].nulls
  BY <1>0, EndsEffect
<1>2. Progress(r)'
  BY <1>1, NothingRead
<1> QED
  BY <1>0, <1>1, <1>2, TargetKept, RunFrame

LEMMA LockKeeps ==
    ASSUME Settled, \A r \in Runs : Progress(r), NoneBehind, NEW r \in Runs, Lock(r)
    PROVE  (\A q \in Runs : Progress(q))' /\ NoneBehind'
<1>0. TypeInv /\ (Process(r) \/ Fail(r)) /\ run[r].target \in Targets
  BY RunFields DEF Settled, Process
<1>1. /\ Alone(r) /\ Keeps(r) /\ UNCHANGED copy /\ run'[r].pc \in {"open", "count"}
      /\ wm' = wm \/ (wm' = [wm EXCEPT ![run[r].target] = NoWatermark])
  BY <1>0, LockEffect
<1>2. Progress(r)'
  <2>1. run'[r].nulls => usable'
    BY <1>1 DEF Keeps, Alone, Progress, NullPass
  <2> QED
    BY <1>1, <2>1, NothingRead
<1>3. CASE wm' = wm
  BY <1>0, <1>1, <1>2, <1>3, TargetKept, RunFrame
<1>4. CASE wm' = [wm EXCEPT ![run[r].target] = NoWatermark]
  <2>1. wm'[run[r].target] = NoWatermark
    BY <1>0, <1>4 DEF TypeInv
  <2>2. \A k \in Keys : Ahead(wm'[run[r].target], src[k], k)
    BY <1>0, <2>1, TimeTypes, Bounds DEF Ahead
  <2> QED
    BY <1>0, <1>2, <2>2, RunFrame
<1> QED
  BY <1>1, <1>3, <1>4

LEMMA LooksKeep ==
    ASSUME Settled, \A r \in Runs : Progress(r), NoneBehind, NEW r \in Runs, Looks(r)
    PROVE  (\A q \in Runs : Progress(q))' /\ NoneBehind'
<1>0. TypeInv /\ (Process(r) \/ Fail(r))
  BY DEF Settled, Looks, Process
<1>1. /\ Alone(r) /\ Keeps(r) /\ UNCHANGED <<copy, wm>> /\ run'[r].pc \in {"list", "recheck", "delete", "done"}
      /\ run'[r].pc \in {"recheck", "delete"} => \A k \in run'[r].gone : ~Present(k)
  BY <1>0, LooksEffect
<1>2. Progress(r)'
  <2>1. (run'[r].nulls => usable') /\ src' = src
    BY <1>1 DEF Keeps, Alone, Progress, NullPass, source
  <2>2. GoneIsAhead(r)'
    BY <1>1, <2>1 DEF GoneIsAhead, Present
  <2> QED
    BY <1>1, <2>1, <2>2 DEF Progress, ReadIsCopied, PageIsNext, PageIsRecent, NullPass, Extracting
<1> QED
  BY <1>0, <1>1, <1>2, TargetKept, RunFrame

\* A row that is deleted because it was gone, and is there again, will be read.
LEMMA WriteDeletesKeeps ==
    ASSUME Settled, \A r \in Runs : Progress(r), NoneBehind, NEW r \in Runs, WriteDeletes(r)
    PROVE  (\A q \in Runs : Progress(q))' /\ NoneBehind'
<1>0. TypeInv /\ (Process(r) \/ Fail(r)) /\ run[r].target \in Targets
  BY RunFields DEF Settled, Process
<1>1. /\ Alone(r) /\ Keeps(r) /\ UNCHANGED wm /\ run[r].pc = "delete" /\ run'[r].pc \in {"delete", "done"}
      /\ run'[r].gone \subseteq run[r].gone
      /\ \A k \in Keys : k \in run[r].gone \/ copy'[run[r].target][k] = copy[run[r].target][k]
  BY <1>0, WriteDeletesEffect
<1>2. Progress(r)'
  <2>1. (run'[r].nulls => usable') /\ src' = src /\ usable' = usable
    BY <1>1 DEF Keeps, Alone, Progress, NullPass, source
  <2>2. GoneIsAhead(r)'
    BY <1>1, <2>1 DEF Progress, GoneIsAhead, Present, Keeps
  <2> QED
    BY <1>1, <2>1, <2>2 DEF Progress, ReadIsCopied, PageIsNext, PageIsRecent, NullPass, Extracting
<1>3. ASSUME usable, NEW k \in Keys, Owns(run[r].target), Present(k)
      PROVE  Shows(copy'[run[r].target][k], src[k]) \/ Ahead(wm'[run[r].target], src[k], k)
  <2>1. CASE k \in run[r].gone
    BY <1>1, <1>3, <2>1 DEF Progress, GoneIsAhead
  <2>2. CASE copy'[run[r].target][k] = copy[run[r].target][k]
    BY <1>0, <1>1, <1>3, <2>2 DEF NoneBehind, Reflects, Shows
  <2> QED
    BY <1>1, <2>1, <2>2
<1> QED
  BY <1>0, <1>2, <1>3, RunFrame

\* No row of a shadow is without a cursor: KAFKA has the tables that have none.
LEMMA NoLegacyInShadow ==
    ASSUME Settled, NEW k \in Keys, Legacy(k)
    PROVE  ~Owns("shadow")
  BY DEF Settled, LegacyRows, Planned, Owns

\* The stored watermark and where a run starts from it.
LEMMA StartIs ==
    ASSUME usable, LookbackCovers, NEW m \in Watermarks
    PROVE  /\ NullPhase(StartFrom(m)) <=> m.cur = Null
           /\ m.cur = Null => StartFrom(m) = m
           /\ m.cur # Null => StartFrom(m) = [cur |-> m.cur - Lookback, pk |-> 0]
  BY Bounds DEF LookbackCovers, StartFrom, NullPhase, Watermarks, Null

LEMMA OpenKeeps ==
    ASSUME Settled, LookbackCovers, \A r \in Runs : Progress(r), NoneBehind, NEW r \in Runs, Open(r)
    PROVE  (\A q \in Runs : Progress(q))' /\ NoneBehind'
<1> DEFINE t == run[r].target
           start == StartFrom(wm[t])
<1>0. TypeInv /\ (Process(r) \/ Fail(r)) /\ t \in Targets /\ wm[t] \in Watermarks /\ "prod" \in Targets
      /\ run[r].pc = "open"
  BY RunFields DEF Settled, Process, TypeInv, Targets, Open, At
<1>1. /\ Alone(r) /\ UNCHANGED <<copy, wm, lock, faults>>
      /\ run'[r].pc = "read" /\ run'[r].target = t /\ run'[r].epoch = run[r].epoch
      /\ run'[r].start = start /\ run'[r].began = clock /\ run'[r].nulls = NullPhase(start)
  BY <1>0, OpenEffect
<1>2. UNCHANGED <<flag, usable, src, copy, wm>>
  BY <1>1 DEF Alone, source
<1>3. ReadIsCopied(r)'
  <2> SUFFICES ASSUME usable, ~NullPhase(start), Current(r),
                      NEW k \in Keys, Present(k), src[k].cur # Null, ~After(src[k].cur, k, start)
               PROVE  Reflects(t, k)
    BY <1>1, <1>2 DEF ReadIsCopied, Cursors, Current, Present, Reflects, After
  <2>1. wm[t].cur # Null /\ start = [cur |-> wm[t].cur - Lookback, pk |-> 0]
    BY <1>0, StartIs
  <2>2. Owns(t)
    BY <1>0 DEF Settled, Planned
  <2>3. ~Ahead(wm[t], src[k], k)
    BY <1>0, <2>1, TimeTypes, Bounds DEF After, Ahead
  <2> QED
    BY <1>0, <2>2, <2>3 DEF NoneBehind
<1>4. NullPass(r)'
  <2>1. CASE ~usable
    BY <1>1, <1>2, <2>1 DEF NullPass, NullPhase, Cursors
  <2>2. CASE usable
    <3>1. run'[r].nulls <=> wm[t].cur = Null
      BY <1>0, <1>1, <2>2, StartIs
    <3>2. run'[r].nulls => run'[r].start = wm[t]
      BY <1>0, <1>1, <2>2, <3>1, StartIs
    <3> QED
      BY <1>1, <1>2, <2>2, <3>1, <3>2 DEF NullPass, Cursors
  <2> QED
    BY <1>0, <2>1, <2>2 DEF TypeInv
<1>5. Progress(r)'
  BY <1>1, <1>3, <1>4 DEF Progress, PageIsNext, PageIsRecent, GoneIsAhead
<1> QED
  BY <1>0, <1>1, <1>5, TargetKept, RunFrame

LEMMA ReadPageKeeps ==
    ASSUME Settled, \A r \in Runs : Progress(r), NoneBehind, NEW r \in Runs, ReadPage(r)
    PROVE  (\A q \in Runs : Progress(q))' /\ NoneBehind'
<1> DEFINE start == run[r].start
           nulls == run[r].nulls
           keys == PageKeys(start, nulls)
           page == run'[r].page
<1>0. TypeInv /\ (Process(r) \/ Fail(r)) /\ run[r].pc = "read" /\ src \in [Keys -> SourceRows]
      /\ nulls \in BOOLEAN /\ (nulls => usable)
  BY RunFields DEF Settled, Process, TypeInv, ReadPage, At, Progress, NullPass
<1>1. /\ Alone(r) /\ UNCHANGED <<copy, wm, lock, faults>> /\ run'[r].pc = "write" /\ Keeps(r)
      /\ page = [k \in keys |-> src[k]]
  BY <1>0, ReadPageEffect
<1>2. UNCHANGED <<flag, usable, src, copy, wm>>
  BY <1>1 DEF Alone, source
<1>3. /\ DOMAIN page = keys /\ keys \subseteq Keys
      /\ \A k \in keys : page[k] = src[k] /\ Selected(start, nulls, k)
      /\ \A k \in Keys \ keys : Selected(start, nulls, k) =>
           Cardinality(keys) = PageSize /\ \A j \in keys : Before(j, k)
  <2> HIDE DEF page, keys
  <2>1. /\ DOMAIN page = keys /\ \A k \in keys : page[k] = src[k]
    BY <1>1
  <2> QED
    BY <1>0, <2>1, PageIsFirst DEF keys
<1> HIDE DEF page, keys
<1>4. run'[r].page = page
  BY DEF page
<1>5. ReadIsCopied(r)'
  BY <1>0, <1>1, <1>2 DEF Progress, ReadIsCopied, Cursors, Current, Present, Reflects, Late, After, Keeps
<1>6. PageIsNext(r)'
  <2> SUFFICES ASSUME usable, ~nulls, NEW k \in Keys, Present(k), src[k].cur # Null,
                      After(src[k].cur, k, start)
               PROVE  \/ k \in DOMAIN page
                      \/ /\ Cardinality(DOMAIN page) = PageSize
                         /\ \A j \in DOMAIN page : After(src[k].cur, k, [cur |-> page[j].cur, pk |-> j])
    BY <1>1, <1>2, <1>4 DEF PageIsNext, Cursors, Present, After, Keeps
  <2>1. Selected(start, nulls, k)
    BY DEF Selected, After
  <2>2. ASSUME k \notin keys, NEW j \in keys PROVE After(src[k].cur, k, [cur |-> page[j].cur, pk |-> j])
    <3>1. Before(j, k) /\ page[j] = src[j] /\ j \in Keys
      BY <1>3, <2>1, <2>2
    <3> QED
      BY <1>0, <3>1, TimeTypes, Bounds DEF Before, After
  <2> QED
    BY <1>3, <2>1, <2>2
<1>7. PageIsRecent(r)'
  <2> SUFFICES ASSUME usable, NEW k \in keys PROVE nulls <=> page[k].cur = Null
    BY <1>1, <1>2, <1>3, <1>4 DEF PageIsRecent, Keeps
  <2> QED
    BY <1>0, <1>3 DEF Selected
<1>8. NullPass(r)'
  <2>1. ASSUME nulls, NEW k \in Keys, Legacy(k), k > start.pk
        PROVE  k \in DOMAIN page \/ (Cardinality(DOMAIN page) = PageSize /\ \A j \in DOMAIN page : j < k)
    <3>1. Selected(start, nulls, k)
      BY <1>0, <2>1 DEF Selected, Legacy
    <3>2. ASSUME k \notin keys, NEW j \in keys PROVE j < k
      <4>1. Before(j, k) /\ Selected(start, nulls, j) /\ j \in Keys
        BY <1>3, <3>1, <3>2
      <4>2. src[j].cur = Null /\ src[k].cur = Null
        BY <1>0, <2>1, <4>1 DEF Selected, Legacy
      <4> QED
        BY <4>1, <4>2 DEF Before
    <3> QED
      BY <1>3, <3>1, <3>2
  <2> QED
    BY <1>0, <1>1, <1>2, <1>4, <2>1
       DEF Progress, NullPass, Extracting, Cursors, Legacy, Present, Keeps
<1>9. Progress(r)'
  BY <1>1, <1>5, <1>6, <1>7, <1>8 DEF Progress, GoneIsAhead
<1> QED
  BY <1>0, <1>1, <1>9, TargetKept, RunFrame

\* The end of the pass over rows without a cursor is not fenced; where it can
\* still matter, all those rows are copied.
LEMMA SwitchKeeps ==
    ASSUME Settled, \A r \in Runs : Progress(r), NoneBehind, NEW r \in Runs, SwitchPhase(r)
    PROVE  (\A q \in Runs : Progress(q))' /\ NoneBehind'
<1> DEFINE t == run[r].target
           from == [cur |-> EpochCursor, pk |-> 0]
<1>0. TypeInv /\ (Process(r) \/ Fail(r)) /\ t \in Targets
  BY RunFields DEF Settled, Process
<1>1. /\ Alone(r) /\ UNCHANGED copy /\ run[r].pc = "switch" /\ run'[r].pc = "read"
      /\ run'[r].target = t /\ ~run'[r].nulls /\ run'[r].start = from /\ wm'[t] = from
  BY <1>0, SwitchEffect
<1>2. UNCHANGED <<flag, usable, src, copy>>
  BY <1>1 DEF Alone, source
<1>3. from.cur = 0 /\ from.pk = 0 /\ 0 # Null
  BY Bounds DEF EpochCursor
<1>4. ReadIsCopied(r)'
  <2> SUFFICES ASSUME NEW k \in Keys, src[k].cur # Null PROVE After(src[k].cur, k, from)
    BY <1>1, <1>2 DEF ReadIsCopied, After
  <2> QED
    BY <1>0, <1>3, TimeTypes, Bounds DEF After
<1>5. NullPass(r)'
  BY <1>1, <1>3 DEF NullPass
<1>6. Progress(r)'
  BY <1>1, <1>4, <1>5 DEF Progress, PageIsNext, PageIsRecent, GoneIsAhead
<1>7. ASSUME usable, NEW k \in Keys, Owns(t), Present(k)
      PROVE  Shows(copy'[t][k], src[k]) \/ Ahead(wm'[t], src[k], k)
  <2>1. CASE src[k].cur # Null
    BY <1>0, <1>1, <1>3, <2>1, TimeTypes DEF Ahead
  <2>2. CASE src[k].cur = Null
    <3>1. Legacy(k)
      BY <1>7, <2>2 DEF Legacy
    <3>2. t = "prod"
      BY <1>0, <1>7, <3>1, NoLegacyInShadow DEF Targets
    <3>3. Reflects("prod", k)
      BY <1>1, <3>1, <3>2 DEF Progress, NullPass, Extracting
    <3> QED
      BY <1>1, <3>2, <3>3 DEF Reflects, Shows
  <2> QED
    BY <2>1, <2>2
<1> QED
  BY <1>0, <1>6, <1>7, RunFrame

LEMMA EmptyPageKeeps ==
    ASSUME Settled, \A r \in Runs : Progress(r), NoneBehind, NEW r \in Runs,
           WritePage(r), DOMAIN run[r].page = {}
    PROVE  (\A q \in Runs : Progress(q))' /\ NoneBehind'
<1>0. TypeInv /\ (Process(r) \/ Fail(r)) /\ Progress(r)
  BY DEF Settled, Process
<1>1. /\ Alone(r) /\ UNCHANGED <<copy, wm>> /\ Keeps(r) /\ run'[r].page = run[r].page
      /\ run[r].pc = "write" /\ run'[r].pc = AfterPage(r)
  BY <1>0, EmptyPageEffect
<1>2. UNCHANGED <<flag, usable, src, copy, wm>>
  BY <1>1 DEF Alone, source
<1>3. Cardinality(DOMAIN run[r].page) # PageSize
  BY Bounds, FS_EmptySet
<1>4. AfterPage(r) \in {"switch", "count", "done"} /\ (AfterPage(r) = "switch" => run[r].nulls)
  BY <1>3, AfterPageIs DEF AfterPages, AfterPage, AfterExtract
<1>5. NullPass(r)'
  <2>1. ASSUME AfterPage(r) = "switch", run[r].target = "prod", NEW k \in Keys, Legacy(k)
        PROVE  Reflects("prod", k)
    <3>1. run[r].nulls /\ usable /\ Owns("prod") /\ "prod" \in Targets /\ Present(k) /\ src[k].cur = Null
      BY <1>0, <1>1, <1>4, <2>1 DEF Progress, NullPass, Settled, Planned, Owns, Targets, Legacy
    <3>2. wm["prod"].cur = Null /\ run[r].start = wm["prod"]
      BY <1>0, <1>1, <2>1, <3>1 DEF Progress, NullPass, Extracting
    <3>3. ~(k > run[r].start.pk)
      BY <1>0, <1>1, <1>3, <2>1, <3>1 DEF Progress, NullPass, Extracting
    <3>4. ~Ahead(wm["prod"], src[k], k)
      BY <3>1, <3>2, <3>3 DEF Ahead
    <3> QED
      BY <3>1, <3>4 DEF NoneBehind
  <2>2. AfterPage(r) = "switch" => wm[run[r].target].cur = Null
    BY <1>0, <1>1, <1>4 DEF Progress, NullPass, Extracting
  <2> QED
    BY <1>0, <1>1, <1>2, <1>4, <2>1, <2>2
       DEF Progress, NullPass, Extracting, Cursors, Keeps, Legacy, Present, Reflects
<1>6. Progress(r)'
  BY <1>1, <1>4, <1>5 DEF Progress, ReadIsCopied, PageIsNext, PageIsRecent, GoneIsAhead
<1> QED
  BY <1>0, <1>1, <1>6, TargetKept, RunFrame

\* The watermark of a page is its last row: what is on the page is not after it.
LEMMA MarkIsLast ==
    ASSUME TypeInv, usable, NEW page \in Pages, DOMAIN page # {}
    PROVE  /\ MarkOf(page).pk \in DOMAIN page
           /\ MarkOf(page).cur = page[MarkOf(page).pk].cur
           /\ MarkOf(page).cur \in Int /\ MarkOf(page).pk \in Nat
           /\ \A j \in DOMAIN page : ~After(page[j].cur, j, MarkOf(page))
<1>1. /\ MarkOf(page).pk \in DOMAIN page /\ MarkOf(page).pk = LastOf(page)
      /\ MarkOf(page).cur = page[LastOf(page)].cur
  BY MarkType
<1>2. \A j \in DOMAIN page : page[j].cur \in Int /\ j \in Nat
  BY PageType, Bounds DEF SourceRows
<1>3. \A j \in DOMAIN page :
        IF page[j].cur # page[LastOf(page)].cur
        THEN page[j].cur < page[LastOf(page)].cur ELSE j <= LastOf(page)
  BY LastIs
<1> HIDE DEF MarkOf
<1> QED
  BY <1>1, <1>2, <1>3 DEF After

\* A late row is within the lookback of whatever watermark its run stores.
LEMMA LateIsAhead ==
    ASSUME Settled, LookbackCovers, NEW r \in Runs, Extracting(r), NEW k \in Keys, Late(r, k),
           src[k].cur # Null, NEW m, m.cur \in Int, m.cur <= clock
    PROVE  src[k].cur + Lookback >= m.cur
<1>1. /\ run[r].began \in Nat /\ clock \in Nat /\ clock <= run[r].began + RunTime
      /\ src[k].cur \in Nat /\ src[k].cur >= run[r].began - CommitDelay
  BY RunFields, TimeTypes DEF Settled, Timely, Late
<1>2. CommitDelay \in Nat /\ RunTime \in Nat /\ Lookback \in Nat /\ CommitDelay + RunTime <= Lookback
  BY Bounds DEF LookbackCovers
<1> QED
  BY <1>1, <1>2

LEMMA FullPageKeeps ==
    ASSUME Settled, LookbackCovers, \A r \in Runs : Progress(r), NoneBehind, NEW r \in Runs,
           WritePage(r), DOMAIN run[r].page # {}
    PROVE  (\A q \in Runs : Progress(q))' /\ NoneBehind'
<1> DEFINE t == run[r].target
           page == run[r].page
           mark == MarkOf(page)
           start == run[r].start
<1>0. /\ TypeInv /\ (Process(r) \/ Fail(r)) /\ Progress(r) /\ t \in Targets /\ page \in Pages
      /\ run[r].nulls \in BOOLEAN /\ "prod" \in Targets /\ start.pk \in Nat
  BY RunFields DEF Settled, Process, Targets
<1>1. /\ Alone(r) /\ run[r].pc = "write" /\ run'[r].pc = AfterPage(r)
      /\ run'[r].target = t /\ run'[r].epoch = run[r].epoch /\ run'[r].nulls = run[r].nulls
      /\ run'[r].began = run[r].began /\ run'[r].start = mark /\ Fence(r)
      /\ usable => wm'[t] = mark
      /\ ~usable => wm' = wm
      /\ \A k \in Keys : copy'[t][k] = IF k \in DOMAIN page
                                       THEN [ver |-> page[k].ver, deleted |-> FALSE]
                                       ELSE copy[t][k]
  BY <1>0, FullPageEffect
<1>2. UNCHANGED <<flag, usable, clock, src>>
  BY <1>1 DEF Alone, source
<1>3. AfterPage(r) \in AfterPages
      /\ (AfterPage(r) = "switch" => run[r].nulls /\ Cardinality(DOMAIN page) # PageSize)
  BY AfterPageIs
<1>4. Current(r) /\ Owns(t) /\ (t = "prod" => flag.engine = "PYTHON") /\ Extracting(r)
  BY <1>1 DEF Fence, FenceAccepts, Current, Settled, Planned, Extracting
<1>5. \A k \in Keys : /\ k \in DOMAIN page /\ page[k] = src[k] => Shows(copy'[t][k], src[k])
                      /\ k \notin DOMAIN page /\ Reflects(t, k) => Shows(copy'[t][k], src[k])
  BY <1>1 DEF Shows, Reflects
<1>6. \A k \in Keys : Reflects(t, k)' <=> Shows(copy'[t][k], src[k])
  BY <1>1, <1>2 DEF Shows, Reflects
<1>7. /\ DOMAIN page \subseteq Keys
      /\ usable => \A k \in DOMAIN page :
           /\ run[r].nulls <=> page[k].cur = Null
           /\ Present(k) => page[k] = src[k] \/ (src[k].cur # Null /\ Late(r, k))
  BY <1>0, <1>1, PageType DEF Progress, PageIsRecent
<1>8. usable => /\ mark.pk \in DOMAIN page /\ mark.cur = page[mark.pk].cur
                /\ mark.cur \in Int /\ mark.pk \in Nat /\ mark.cur <= clock
                /\ \A j \in DOMAIN page : ~After(page[j].cur, j, mark)
  BY <1>0, MarkIsLast DEF Settled, Timely
<1> HIDE DEF mark
<1>9. CASE ~usable
  <2>1. ~run[r].nulls
    BY <1>0, <1>9 DEF Progress, NullPass
  <2>2. Progress(r)'
    BY <1>1, <1>2, <1>3, <1>9, <2>1
       DEF Progress, ReadIsCopied, PageIsNext, PageIsRecent, NullPass, GoneIsAhead, Extracting, Cursors, AfterPages
  <2> QED
    BY <1>0, <1>9, <2>2, RunFrame
<1>10. CASE usable /\ run[r].nulls
  <2>0. mark.cur = Null
    BY <1>7, <1>8, <1>10
  <2>1. ASSUME NEW k \in Keys, Legacy(k)
        PROVE  \/ Shows(copy'["prod"][k], src[k])
               \/ k > mark.pk /\ Cardinality(DOMAIN page) = PageSize
    <3>0. t = "prod" /\ Present(k) /\ src[k].cur = Null /\ k \in Nat
      BY <1>0, <1>4, <2>1, NoLegacyInShadow, Bounds DEF Targets, Legacy
    <3>1. CASE k \in DOMAIN page
      BY <1>5, <1>7, <1>10, <3>0, <3>1
    <3>2. CASE k \notin DOMAIN page /\ k > start.pk
      <4>1. Cardinality(DOMAIN page) = PageSize /\ \A j \in DOMAIN page : j < k
        BY <1>0, <1>1, <1>4, <1>10, <2>1, <3>0, <3>2 DEF Progress, NullPass
      <4> QED
        BY <1>8, <1>10, <4>1
    <3>3. CASE k \notin DOMAIN page /\ ~(k > start.pk)
      <4>1. start = wm["prod"] /\ wm["prod"].cur = Null
        BY <1>0, <1>1, <1>4, <1>10, <3>0 DEF Progress, NullPass
      <4>2. ~Ahead(wm["prod"], src[k], k)
        BY <3>0, <3>3, <4>1 DEF Ahead
      <4>3. Reflects("prod", k)
        BY <1>0, <1>4, <1>10, <3>0, <4>2 DEF NoneBehind
      <4> QED
        BY <1>5, <3>0, <3>3, <4>3
    <3> QED
      BY <3>1, <3>2, <3>3
  <2>2. NullPass(r)'
    <3>1. ASSUME t = "prod", AfterPage(r) = "switch", NEW k \in Keys, Legacy(k) PROVE Reflects("prod", k)'
      BY <1>3, <1>2, <2>1, <3>1 DEF Reflects, Shows
    <3> QED
      BY <1>1, <1>2, <1>3, <1>10, <2>0, <3>1 DEF NullPass, Cursors, Extracting, AfterPages, Legacy, Present
  <2>3. Progress(r)'
    BY <1>1, <1>3, <1>10, <2>2
       DEF Progress, ReadIsCopied, PageIsNext, PageIsRecent, GoneIsAhead, Cursors, AfterPages
  <2>4. ASSUME NEW k \in Keys, Present(k)
        PROVE  Shows(copy'[t][k], src[k]) \/ Ahead(wm'[t], src[k], k)
    <3>1. CASE src[k].cur # Null
      BY <1>1, <1>10, <2>0, <3>1 DEF Ahead
    <3>2. CASE src[k].cur = Null
      <4>1. Legacy(k) /\ t = "prod"
        BY <1>0, <1>4, <2>4, <3>2, NoLegacyInShadow DEF Legacy, Targets
      <4> QED
        BY <1>1, <1>10, <2>0, <2>1, <4>1 DEF Ahead
    <3> QED
      BY <3>1, <3>2
  <2> QED
    BY <1>0, <2>3, <2>4, RunFrame
<1>11. CASE usable /\ ~run[r].nulls
  <2>0. mark.cur # Null
    BY <1>7, <1>8, <1>11
  <2>1. ASSUME NEW k \in Keys, Present(k), src[k].cur # Null
        PROVE  \/ Shows(copy'[t][k], src[k])
               \/ Late(r, k)
               \/ After(src[k].cur, k, mark)
    <3>1. CASE k \in DOMAIN page
      BY <1>5, <1>7, <1>11, <2>1, <3>1
    <3>2. CASE k \notin DOMAIN page /\ ~After(src[k].cur, k, start)
      <4>1. Reflects(t, k) \/ Late(r, k)
        BY <1>0, <1>1, <1>4, <1>11, <2>1, <3>2 DEF Progress, ReadIsCopied, Cursors
      <4> QED
        BY <1>5, <3>2, <4>1
    <3>3. CASE k \notin DOMAIN page /\ After(src[k].cur, k, start)
      <4>1. \/ \A j \in DOMAIN page : After(src[k].cur, k, [cur |-> page[j].cur, pk |-> j])
            \/ Late(r, k)
        BY <1>0, <1>1, <1>11, <2>1, <3>3 DEF Progress, PageIsNext, Cursors
      <4>2. (\A j \in DOMAIN page : After(src[k].cur, k, [cur |-> page[j].cur, pk |-> j]))
              => After(src[k].cur, k, mark)
        BY <1>8, <1>11 DEF After
      <4> QED
        BY <4>1, <4>2
    <3> QED
      BY <3>1, <3>2, <3>3
  <2>2. ReadIsCopied(r)'
    <3> SUFFICES ASSUME NEW k \in Keys, Present(k), src[k].cur # Null, ~After(src[k].cur, k, mark)
                 PROVE  Shows(copy'[t][k], src[k]) \/ Late(r, k)
      BY <1>1, <1>2, <1>6 DEF ReadIsCopied, Present, After, Late
    <3> QED
      BY <2>1
  <2>3. NullPass(r)'
    BY <1>1, <1>2, <1>3, <1>11, <2>0 DEF NullPass
  <2>4. Progress(r)'
    BY <1>1, <1>3, <2>2, <2>3 DEF Progress, PageIsNext, PageIsRecent, GoneIsAhead, AfterPages
  <2>5. ASSUME NEW k \in Keys, Present(k)
        PROVE  Shows(copy'[t][k], src[k]) \/ Ahead(mark, src[k], k)
    <3>1. CASE src[k].cur # Null
      <4>1. src[k].cur \in Nat /\ Lookback \in Nat
        BY <1>0, <3>1, TimeTypes
      <4>2. CASE Late(r, k)
        BY <1>4, <1>8, <1>11, <2>0, <3>1, <4>2, LateIsAhead DEF Ahead
      <4>3. CASE After(src[k].cur, k, mark)
        BY <1>8, <1>11, <2>0, <3>1, <4>1, <4>3 DEF After, Ahead
      <4> QED
        BY <2>1, <2>5, <3>1, <4>2, <4>3
    <3>2. CASE src[k].cur = Null
      <4>1. Legacy(k) /\ t = "prod"
        BY <1>0, <1>4, <2>5, <3>2, NoLegacyInShadow DEF Legacy, Targets
      <4>2. wm["prod"].cur # Null
        BY <1>0, <1>4, <1>11, <4>1 DEF Progress, NullPass, Cursors
      <4>3. Reflects("prod", k)
        BY <1>0, <1>4, <1>11, <2>5, <3>2, <4>1, <4>2 DEF NoneBehind, Ahead
      <4>4. k \notin DOMAIN page
        BY <1>7, <1>11, <2>5, <3>2
      <4> QED
        BY <1>5, <4>1, <4>3, <4>4
    <3> QED
      BY <3>1, <3>2
  <2> QED
    BY <1>0, <1>1, <1>11, <2>4, <2>5, RunFrame
<1> QED
  BY <1>0, <1>9, <1>10, <1>11 DEF TypeInv

LEMMA PlanKeeps ==
    ASSUME Settled, \A r \in Runs : Progress(r), NoneBehind,
           NEW r \in Runs, NEW mode \in Modes, NEW u \in Targets, Plan(r, mode, u)
    PROVE  (\A q \in Runs : Progress(q))' /\ NoneBehind'
<1>0. TypeInv
  BY DEF Settled
<1>1. /\ Alone(r) /\ UNCHANGED <<copy, wm, lock, faults>> /\ run'[r].pc = "planned" /\ ~run'[r].nulls
  BY <1>0, PlanEffect
<1>2. UNCHANGED <<flag, usable, src, copy, wm>>
  BY <1>1 DEF Alone, source
<1>3. Progress(r)'
  BY <1>1, NothingRead
<1>4. ASSUME NEW q \in Runs \ {r} PROVE Progress(q)'
  BY <1>0, <1>1, <1>2, ProgressFrame DEF Alone
<1>5. NoneBehind'
  BY <1>2 DEF NoneBehind, Owns, Present, Reflects, Ahead
<1> QED
  BY <1>3, <1>4, <1>5

-----------------------------------------------------------------------------
LEMMA InitInv == ASSUME Init, NoLegacyShadow PROVE ExtractorInv
<1>0. TypeInv /\ run = [r \in Runs |-> Idle] /\ wm = [t \in Targets |-> NoWatermark]
      /\ clock = 1 /\ pending = {}
  BY InitTypes DEF Init
<1>1. PICK s \in Starts :
         /\ flag = Assign(FreshRow, s.engine)
         /\ src = [k \in Keys |-> IF k \in s.legacy THEN [cur |-> Null, ver |-> 1] ELSE NoRow]
  BY DEF Init
<1>2. s.engine \in Writers /\ s.legacy \in SUBSET Keys
  BY ExtractorAssumption DEF ExtractorAssumption
<1>3. flag.engine = s.engine /\ flag.shadow = NoEngine /\ NoEngine \notin Writers
  BY <1>1, NoEngineAssumption DEF Assign, FreshRow, Engine
<1>4. \A r \in Runs : run[r].pc = "idle" /\ ~run[r].nulls /\ run[r].page = <<>>
  BY <1>0 DEF Idle
<1>5. \A k \in Keys : src[k].cur = Null /\ (k \notin s.legacy => ~Present(k))
  BY <1>1 DEF NoRow, Present
<1>6. Locked /\ Planned
  BY <1>2, <1>3, <1>4 DEF Locked, Planned
<1>7. Timely
  BY <1>0, <1>4, <1>5, TimeTypes DEF Timely, Extracting
<1>8. LegacyRows
  BY <1>2, <1>3, <1>5 DEF LegacyRows, Legacy, NoLegacyShadow, Writers
<1>9. \A r \in Runs : Progress(r)
  BY <1>4 DEF Progress, ReadIsCopied, PageIsNext, PageIsRecent, NullPass, GoneIsAhead, Extracting
<1>10. NoneBehind
  BY <1>0, TimeTypes, Bounds DEF NoneBehind, Ahead
<1> QED
  BY <1>0, <1>6, <1>7, <1>8, <1>9, <1>10 DEF ExtractorInv

LEMMA StepInv == ASSUME ExtractorInv, LookbackCovers, [Next]_vars PROVE ExtractorInv'
<1>0. Settled /\ (\A r \in Runs : Progress(r)) /\ NoneBehind
  BY DEF ExtractorInv, Settled
<1>1. Settled'
  BY <1>0, StepTypes, StepLocked, StepTimely, StepPlanned, StepLegacy DEF Settled
<1>2. (\A r \in Runs : Progress(r))' /\ NoneBehind'
  <2>1. CASE UNCHANGED <<flag, usable, src, copy, wm, run>>
    BY <1>0, <2>1, ProgressFrame DEF Settled, NoneBehind, Owns, Present, Reflects, Ahead
  <2>2. ASSUME NEW d \in Keys, SourceDeletes(d) PROVE (\A r \in Runs : Progress(r))' /\ NoneBehind'
    BY <1>0, <2>2, DeleteKeeps
  <2>3. ASSUME NEW p \in pending, SourceCommits(p) PROVE (\A r \in Runs : Progress(r))' /\ NoneBehind'
    BY <1>0, <2>3, CommitKeeps
  <2>4. CASE Operators
    BY <1>0, <2>4, OperatorsKeep
  <2>5. ASSUME NEW r \in Runs, NEW mode \in Modes, NEW t \in Targets, Plan(r, mode, t)
        PROVE  (\A q \in Runs : Progress(q))' /\ NoneBehind'
    BY <1>0, <2>5, PlanKeeps
  <2>6. ASSUME NEW r \in Runs, Process(r) \/ Fail(r)
        PROVE  (\A q \in Runs : Progress(q))' /\ NoneBehind'
    <3>1. CASE WritePage(r)
      BY <1>0, <3>1, EmptyPageKeeps, FullPageKeeps
    <3> QED
      BY <1>0, <2>6, <3>1, RunSteps, EndsKeep, LockKeeps, OpenKeeps, ReadPageKeeps, SwitchKeeps,
         LooksKeep, WriteDeletesKeeps
  <2>7. CASE Tick \/ (\E k \in Keys : SourceWrites(k)) \/ (\E o \in Obstacles : Obstructs(o)) \/ UNCHANGED vars
    BY <2>1, <2>7 DEF Tick, SourceWrites, Obstructs, vars, source
  <2> QED
    BY <2>2, <2>3, <2>4, <2>5, <2>6, <2>7 DEF Next, Source
<1> QED
  BY <1>1, <1>2 DEF ExtractorInv, Settled

\* A row that is ahead of the stored watermark is selected by the next run.
LEMMA AheadIsRead ==
    ASSUME TypeInv, LookbackCovers, NEW t \in Targets, NEW k \in Keys, Present(k),
           usable => Ahead(wm[t], src[k], k)
    PROVE  NextRunReads(t, k)
<1>0. wm[t] \in Watermarks /\ usable \in BOOLEAN /\ k \in Nat /\ k > 0
  BY Bounds DEF TypeInv
<1>1. CASE ~usable
  <2>1. StartFrom(wm[t]) = NoWatermark /\ NoWatermark.pk = 0
    BY <1>1 DEF StartFrom, NoWatermark
  <2> QED
    BY <1>0, <1>1, <2>1 DEF NextRunReads, Selected
<1>2. CASE usable /\ wm[t].cur = Null
  <2>1. NullPhase(StartFrom(wm[t])) /\ StartFrom(wm[t]) = wm[t]
    BY <1>0, <1>2, StartIs
  <2>2. CASE src[k].cur = Null
    BY <1>2, <2>1, <2>2 DEF NextRunReads, Selected, Ahead
  <2>3. CASE src[k].cur # Null
    <3>1. src[k].cur \in Nat /\ EpochCursor = 0
      BY <2>3, TimeTypes DEF EpochCursor
    <3> QED
      BY <1>0, <1>2, <2>1, <2>3, <3>1 DEF NextRunReads, Selected
  <2> QED
    BY <2>2, <2>3
<1>3. CASE usable /\ wm[t].cur # Null
  <2> DEFINE start == StartFrom(wm[t])
  <2>1. ~NullPhase(start) /\ start = [cur |-> wm[t].cur - Lookback, pk |-> 0]
    BY <1>0, <1>3, StartIs
  <2>2. src[k].cur # Null /\ src[k].cur + Lookback >= wm[t].cur
    BY <1>3 DEF Ahead
  <2>3. src[k].cur \in Nat /\ wm[t].cur \in Nat /\ Lookback \in Nat
    BY <1>3, <2>2, TimeTypes
  <2>4. Selected(start, NullPhase(start), k)
    BY <1>0, <1>3, <2>1, <2>2, <2>3 DEF Selected
  <2> QED
    BY <2>1, <2>4 DEF NextRunReads
<1> QED
  BY <1>0, <1>1, <1>2, <1>3

\* Where the lookback covers the longest transaction of the source and the
\* longest run, and rows without a cursor are only in tables that PYTHON has
\* from the start, no row falls behind the watermark: whatever pages, crashes,
\* fences and restarted shadows come between, the next run reads it.
THEOREM NoRowIsLeftBehind == LookbackCovers /\ NoLegacyShadow /\ Spec => []NothingLeftBehind
<1>1. LookbackCovers /\ ExtractorInv => NothingLeftBehind
  <2> SUFFICES ASSUME LookbackCovers, ExtractorInv,
                      NEW t \in Targets, NEW k \in Keys, Owns(t), Present(k), ~Reflects(t, k)
               PROVE  NextRunReads(t, k)
    BY DEF NothingLeftBehind
  <2>1. usable => Ahead(wm[t], src[k], k)
    BY DEF ExtractorInv, NoneBehind
  <2> QED
    BY <2>1, AheadIsRead DEF ExtractorInv
<1>2. CASE LookbackCovers /\ NoLegacyShadow
  <2>1. Init => ExtractorInv
    BY <1>2, InitInv
  <2>2. ExtractorInv /\ [Next]_vars => ExtractorInv'
    BY <1>2, StepInv
  <2>3. ExtractorInv => NothingLeftBehind
    BY <1>1, <1>2
  <2> QED
    BY <2>1, <2>2, <2>3, PTL DEF Spec
<1> QED
  BY <1>2
=============================================================================
