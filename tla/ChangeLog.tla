----------------------------- MODULE ChangeLog -----------------------------
(***************************************************************************)
(* From the raw tables to the marts: writers record in                     *)
(* meta.entity_change_log what they touched, and dbt runs recompute the    *)
(* loans behind the entries in fact_loan_snapshot and then, mart by mart,  *)
(* the (office, product) partitions of the fact that changed.              *)
(*                                                                         *)
(* Every dbt model is one transaction, but its statements have snapshots   *)
(* of their own: what the fact inserts and what it then records as dirty   *)
(* are read at different times.  Writers commit at any moment, and not in  *)
(* the order of their transaction ids.                                     *)
(*                                                                         *)
(* Only an entry for a loan names the loan.  The entries for a client, a   *)
(* reference table or a promoted shadow are joined with the loans that     *)
(* are live when int_snapshot_scope is built, so a loan that a promotion   *)
(* takes out of the raw tables is in no scope, and its facts stay until it *)
(* is written again or the fact is built from nothing.  dropped remembers  *)
(* these loans; the properties are about the others.                       *)
(*                                                                         *)
(* The history of a loan is one value, the transaction that wrote it last; *)
(* dates and the roll-forward to a new day are left out.  A mart is what   *)
(* it takes from the fact: the columns that mart_portfolio_health (its     *)
(* flow metrics) and mart_repayment_behavior take from the staging views,  *)
(* and so from raw as it is when the mart is built, are left out.  What it *)
(* takes from the fact only a run that holds the lock writes, so a mart is *)
(* one step.                                                               *)
(* Bounds: a transaction makes one change; a loan keeps its client; there  *)
(* is one source; a run ends before its lease does, so there is one run at *)
(* a time; the fact is built only with its ancestors, so the invocation_id *)
(* in the window is the run's own; and only the marts are rebuilt in full. *)
(***************************************************************************)
EXTENDS Naturals, FiniteSets

CONSTANTS
    Loans, Clients,
    ClientOf,   \* ClientOf[l]: the client of l
    Parts,      \* the (source, office, product) combinations
    Gone,       \* where a loan is that is absent, deleted or not disbursed
    Marts,
    Home,       \* Home[l]: the partition of l at the beginning
    Shadows,    \* bound: where the loans may be in a shadow that is promoted
    MaxTx,      \* bound: the transactions of the writers
    MaxFaults   \* bound: failed models, killed runs

ASSUME ChangeLogAssumption ==
    /\ IsFiniteSet(Marts) /\ Marts # {}
    /\ Gone \notin Parts
    /\ ClientOf \in [Loans -> Clients]
    /\ Home \in [Loans -> Parts \cup {Gone}]
    /\ Shadows \subseteq [Loans -> Parts \cup {Gone}]
    /\ MaxTx \in Nat /\ MaxFaults \in Nat

VARIABLES
    \* the raw tables and the change log
    raw,      \* raw[l]: partition of the loan and the transaction that wrote it
    absent,   \* the clients that are not there, or deleted
    nextTx,   \* the next transaction id
    open,     \* transactions that have an id and have not ended
    log,      \* the visible rows of meta.entity_change_log
    dropped,  \* history: the loans a promotion took out of raw, not written since
    \* what dbt builds
    fact,     \* fact[l]: the row of raw the fact was computed from
    cursor,   \* meta.dbt_change_cursor
    seq,      \* meta.dbt_run_seq
    dirty,    \* meta.dbt_mart_dirty
    mart,     \* mart[m][p]: the loans, with their version, that p was computed from
    seen,     \* seen[m]: last_run_id in meta.dbt_mart_cursor, 0 when there is none
    \* the run
    lock,     \* meta.dbt_run_lock
    run,      \* its int_change_window and int_snapshot_scope included: every
              \* build replaces these two tables before it reads them
    faults

writers == <<raw, absent, nextTx, open, log, dropped>>
facts == <<fact, cursor>>
marts == <<mart, seen>>
vars == <<writers, facts, marts, seq, dirty, lock, run, faults>>

Places == Parts \cup {Gone}
LoanRow == [part : Places, ver : Nat]
Entry == [tx : Nat, entity : {"loan", "client", "global", "source"}, id : Loans \cup Clients \cup {0}]
NoWindow == [last |-> 0, horizon |-> 0, run |-> 0]
NoRun == [pc |-> "idle", full |-> FALSE, todo |-> {},
          window |-> NoWindow, scope |-> {}, rows |-> <<>>]
Kinds == {"build", "refresh"}

\* The row of a loan that a transaction writes, or one of its client.
Row(part, t) == [part |-> part, ver |-> IF part = Gone THEN 0 ELSE t]

\* stg_m_loan has the loan, disbursed.
Live(l) == raw[l].part # Gone

\* int_loan_delinquency_status: the facts the raw tables of now give.
Current ==
    [l \in Loans |-> IF Live(l) /\ ClientOf[l] \notin absent THEN raw[l] ELSE Row(Gone, 0)]

\* The part of the fact a mart aggregates for partition p.
FactIn(p) == {[loan |-> l, ver |-> fact[l].ver] : l \in {k \in Loans : fact[k].part = p}}

TypeOK ==
    /\ raw \in [Loans -> LoanRow] /\ absent \subseteq Clients /\ fact \in [Loans -> LoanRow]
    /\ nextTx \in Nat /\ open \subseteq Nat /\ seq \in Nat
    /\ log \subseteq Entry /\ dropped \subseteq Loans
    /\ cursor \in [tx : Nat, run : Nat]
    /\ dirty \subseteq [run : Nat, part : Parts]
    /\ mart \in [Marts -> [Parts -> SUBSET [loan : Loans, ver : Nat]]]
    /\ seen \in [Marts -> Nat]
    /\ lock \in {"free", "held", "orphan", "expired"}
    /\ run.pc \in {"idle", "window", "scope", "fact", "commit", "marts", "finish"}
    /\ run.full \in BOOLEAN /\ run.todo \subseteq Marts
    /\ run.window \in [last : Nat, horizon : Nat, run : Nat] /\ run.scope \subseteq Loans
    /\ run.pc = "commit" => run.rows \in [run.scope -> LoanRow]
    /\ faults \in Nat

\* Everything has been built once, so every mart has a cursor and finish_run
\* may delete.
Init ==
    /\ raw = [l \in Loans |-> Row(Home[l], 0)]
    /\ absent = {} /\ fact = Current
    /\ nextTx = 1 /\ open = {} /\ log = {} /\ dropped = {}
    /\ cursor = [tx |-> 1, run |-> 0] /\ seq = 0
    /\ dirty = {}
    /\ mart = [m \in Marts |-> [p \in Parts |-> FactIn(p)]]
    /\ seen = [m \in Marts |-> 0]
    /\ lock = "free" /\ run = NoRun /\ faults = 0

-----------------------------------------------------------------------------
(***************************************************************************)
(* The writers: the sink, the extractor, promote_shadow.                   *)
(***************************************************************************)

TxBegin ==
    /\ nextTx <= MaxTx
    /\ open' = open \cup {nextTx} /\ nextTx' = nextTx + 1
    /\ UNCHANGED <<raw, absent, log, dropped, facts, marts, seq, dirty, lock, run, faults>>

\* The rows and their log entry become visible together.
Commit(t, entity, id) ==
    /\ t \in open
    /\ open' = open \ {t}
    /\ log' = log \cup {[tx |-> t, entity |-> entity, id |-> id]}
    /\ UNCHANGED <<nextTx, facts, marts, seq, dirty, lock, run, faults>>

\* apply_staged_batch for m_loan and the tables whose rows belong to a loan: the
\* loan is named also when it is deleted, or not there yet.
ApplyLoan(t, l) ==
    /\ Commit(t, "loan", l)
    /\ \E part \in Places : raw' = [raw EXCEPT ![l] = Row(part, t)]
    /\ dropped' = dropped \ {l}
    /\ UNCHANGED absent

\* apply_staged_batch for m_client: the client is written, and its loans move to
\* its office, or it is deleted.
ApplyClient(t, c) ==
    /\ Commit(t, "client", c)
    /\ \/ LET mine == {l \in Loans : ClientOf[l] = c /\ Live(l)} IN
             /\ \E to \in [mine -> Parts] :
                  raw' = [l \in Loans |-> IF l \in mine THEN Row(to[l], t) ELSE raw[l]]
             /\ absent' = absent \ {c}
       \/ absent' = absent \cup {c} /\ UNCHANGED raw
    /\ UNCHANGED dropped

\* apply_staged_batch for a reference table, which the facts of every loan use.
ApplyGlobal(t) ==
    /\ Commit(t, "global", 0)
    /\ raw' = [l \in Loans |-> Row(raw[l].part, t)]
    /\ UNCHANGED <<absent, dropped>>

\* promote_shadow replaces a table of the source, loans or clients, and logs one
\* entry for the source.
PromoteShadow(t) ==
    /\ Commit(t, "source", 0)
    /\ \E shadow \in Shadows :
         /\ raw' = [l \in Loans |-> Row(shadow[l], t)]
         /\ dropped' = {l \in Loans : shadow[l] = Gone /\ (Live(l) \/ l \in dropped)}
    /\ absent' \in SUBSET Clients

TxRollback(t) ==
    /\ t \in open
    /\ open' = open \ {t}
    /\ UNCHANGED <<raw, absent, nextTx, log, dropped, facts, marts, seq, dirty, lock, run, faults>>

Consumed(c) == c.tx < cursor.tx

\* purge_change_log: partitions all of whose rows the cursor has passed.
PurgeChangeLog ==
    /\ \E gone \in SUBSET {c \in log : Consumed(c)} : gone # {} /\ log' = log \ gone
    /\ UNCHANGED <<raw, absent, nextTx, open, dropped, facts, marts, seq, dirty, lock, run, faults>>

-----------------------------------------------------------------------------
(***************************************************************************)
(* A run of dbt.                                                           *)
(***************************************************************************)

At(pc) == run.pc = pc

\* Fault: the newest transaction is the horizon.
FaultyIsHorizon(h) == h = nextTx

\* pg_snapshot_xmin: the oldest transaction that has not ended.
IsHorizon(h) == h \in open \cup {nextTx} /\ \A t \in open \cup {nextTx} : h <= t

\* Rows the next window will hold.
Backlog == \E c \in log : c.tx >= cursor.tx /\ \E h \in open \cup {nextTx} : IsHorizon(h) /\ c.tx < h

\* Fault: the lease of a run that was killed never ends.
FaultyLockIsFree == lock = "free"

\* acquire_dbt_lock
LockIsFree == lock \in {"free", "expired"}

\* dbt build, of everything or up to some marts; the weekly full refresh of the
\* marts.
\* Bounds: a build starts only when it has something to do, a build of a part
\* only when there are changes; a build of no mart is one that fails after the
\* fact.
Start(kind, todo) ==
    /\ At("idle") /\ LockIsFree
    /\ todo # {}
    /\ kind = "build" => Backlog \/ (todo = Marts /\ \E m \in Marts : seen[m] # cursor.run)
    /\ kind = "refresh" => todo = Marts
    /\ lock' = "held"
    /\ run' = [NoRun EXCEPT !.todo = todo, !.full = kind = "refresh",
                            !.pc = IF kind = "build" THEN "window" ELSE "marts"]
    /\ UNCHANGED <<writers, facts, marts, seq, dirty, faults>>

\* int_change_window
BuildWindow ==
    /\ At("window")
    /\ \E h \in open \cup {nextTx} :
         /\ IsHorizon(h)
         /\ run' = [run EXCEPT !.pc = "scope",
                               !.window = [last |-> cursor.tx, horizon |-> h, run |-> seq + 1]]
    /\ seq' = seq + 1
    /\ UNCHANGED <<writers, facts, marts, dirty, lock, faults>>

InWindow(c) == run.window.last <= c.tx /\ c.tx < run.window.horizon

\* The loans an entry is about: itself, those of the client, those of the source.
IsAbout(c, l) ==
    \/ c.entity = "loan" /\ c.id = l
    \/ c.entity = "client" /\ c.id = ClientOf[l]
    \/ c.entity \in {"global", "source"}

\* Only the entry of a loan does without the join with the live loans.
Reaches(c, l) == IsAbout(c, l) /\ (c.entity = "loan" \/ Live(l))

\* int_snapshot_scope
BuildScope ==
    /\ At("scope")
    /\ run' = [run EXCEPT !.pc = "fact",
                          !.scope = {l \in Loans : \E c \in log : InWindow(c) /\ Reaches(c, l)}]
    /\ UNCHANGED <<writers, facts, marts, seq, dirty, lock, faults>>

\* fact_loan_snapshot, up to its INSERT ... SELECT.
ReadRows ==
    /\ At("fact")
    /\ run' = [run EXCEPT !.pc = "commit", !.rows = [l \in run.scope |-> Current[l]]]
    /\ UNCHANGED <<writers, facts, marts, seq, dirty, lock, faults>>

\* Fault: a left join, which has rows for the loans that are gone.
FaultyDirtyIn(rows) == {[run |-> run.window.run, part |-> rows[l].part] : l \in run.scope}

\* record_dirty_partitions for where the loans of the scope are.
DirtyIn(rows) ==
    {[run |-> run.window.run, part |-> rows[l].part] : l \in {k \in run.scope : rows[k].part # Gone}}

\* Fault: only where the loans are now is recorded.
FaultyTouchedParts == DirtyIn(Current)

\* The partitions a loan left (from the fact) and entered (from raw, read once
\* more).
TouchedParts == DirtyIn(fact) \cup DirtyIn(Current)

\* Its post-hooks, record_dirty_partitions and advance_fact_cursor, and its
\* commit.
CommitFact ==
    /\ At("commit")
    /\ fact' = [l \in Loans |-> IF l \in run.scope THEN run.rows[l] ELSE fact[l]]
    /\ dirty' = dirty \cup TouchedParts
    /\ cursor' = [tx |-> run.window.horizon, run |-> run.window.run]
    /\ run' = [run EXCEPT !.pc = "marts", !.window = NoWindow, !.scope = {}, !.rows = <<>>]
    /\ UNCHANGED <<writers, marts, seq, lock, faults>>

\* mart_recompute_window
RecomputeWindow(m) ==
    {d.part : d \in {e \in dirty : seen[m] < e.run /\ e.run <= cursor.run}}

\* A mart with its cursor; a full refresh replaces all of it.
BuildMart(m) ==
    /\ At("marts") /\ m \in run.todo
    /\ mart' = [mart EXCEPT ![m] = [p \in Parts |->
                  IF run.full \/ p \in RecomputeWindow(m) THEN FactIn(p) ELSE @[p]]]
    /\ seen' = [seen EXCEPT ![m] = cursor.run]
    /\ run' = [run EXCEPT !.todo = @ \ {m}]
    /\ UNCHANGED <<writers, facts, seq, dirty, lock, faults>>

\* finish_run, on-run-end: also after models have failed.
Finish ==
    /\ At("finish") \/ (At("marts") /\ run.todo = {})
    /\ dirty' = {d \in dirty : \E m \in Marts : seen[m] < d.run}
    /\ lock' = "free"
    /\ run' = NoRun
    /\ UNCHANGED <<writers, facts, marts, seq, faults>>

Fault == faults < MaxFaults /\ faults' = faults + 1

\* A model or a test fails: what depends on it is skipped.
ModelFails ==
    /\ run.pc \notin {"idle", "finish"}
    /\ Fault
    /\ run' = [NoRun EXCEPT !.pc = "finish"]
    /\ UNCHANGED <<writers, facts, marts, seq, dirty, lock>>

\* The run is killed and its lock stays.
Killed ==
    /\ ~At("idle")
    /\ Fault
    /\ run' = NoRun /\ lock' = "orphan"
    /\ UNCHANGED <<writers, facts, marts, seq, dirty>>

LeaseExpires ==
    /\ lock = "orphan"
    /\ lock' = "expired"
    /\ UNCHANGED <<writers, facts, marts, seq, dirty, run, faults>>

-----------------------------------------------------------------------------
TxEnds ==
    \E t \in open :
        \/ \E l \in Loans : ApplyLoan(t, l)
        \/ \E c \in Clients : ApplyClient(t, c)
        \/ ApplyGlobal(t) \/ PromoteShadow(t)
        \/ TxRollback(t)

Run ==
    \/ BuildWindow \/ BuildScope \/ ReadRows \/ CommitFact
    \/ \E m \in Marts : BuildMart(m)
    \/ Finish

Next ==
    \/ TxBegin \/ TxEnds \/ PurgeChangeLog
    \/ \E kind \in Kinds, todo \in SUBSET Marts : Start(kind, todo)
    \/ Run \/ ModelFails \/ Killed \/ LeaseExpires

Spec == Init /\ [][Next]_vars

\* Transactions end, a run goes on, a lease expires, and fbi_dbt_build is
\* scheduled every 15 minutes, whatever else people run.
Fairness ==
    /\ WF_vars(TxEnds) /\ WF_vars(Run) /\ WF_vars(LeaseExpires)
    /\ SF_vars(Start("build", Marts))

FairSpec == Spec /\ Fairness

-----------------------------------------------------------------------------
(***************************************************************************)
(* Properties.                                                             *)
(***************************************************************************)

\* The next complete build will recompute the loan, as things are now.
Pending(l) == \E c \in log : c.tx >= cursor.tx /\ Reaches(c, l)

\* The change cursor skips no change: a loan whose facts are not those of its
\* raw rows has an entry the cursor has not passed and that still reaches it,
\* however late its writer committed, wherever a run failed or was killed, and
\* although consumed entries are purged.  The one exception are the loans a
\* promotion dropped.
FactIsOwed == \A l \in Loans \ dropped : fact[l] = Current[l] \/ Pending(l)

Differs(m, p) == {r.loan : r \in (mart[m][p] \ FactIn(p)) \cup (FactIn(p) \ mart[m][p])}

\* No mart cursor skips a partition: one that differs from the fact, also one a
\* loan has left, is marked dirty after the mart's cursor, or else the loans it
\* is wrong about will be recomputed anyway, or were dropped by a promotion
\* while the fact was being built.
MartIsOwed ==
    \A m \in Marts, p \in Parts :
        \/ \E d \in dirty : d.part = p /\ d.run > seen[m]
        \/ \A l \in Differs(m, p) \ dropped : Pending(l)

\* When the writers rest, the marts come to show the raw tables, after failed
\* models, a killed run and its lease, and builds of a part of the project; but
\* for loans a promotion dropped.
MartsCatchUp ==
    <>[](/\ \A l \in Loans \ dropped : fact[l] = Current[l]
         /\ \A m \in Marts, p \in Parts : Differs(m, p) \subseteq dropped)
=============================================================================
