-------------------------- MODULE ChangeLogProofs --------------------------
(***************************************************************************)
(* For any loans, marts and number of transactions: the change log module  *)
(* is well typed, the change cursor never skips a change, and no mart      *)
(* cursor skips a partition that differs from the fact; but for the loans  *)
(* a promotion dropped, which the scope of no run finds.                   *)
(*                                                                         *)
(* FactIsOwed is not inductive.  Between the window and the commit of the  *)
(* fact, a run relies on what it has read before: no transaction below its *)
(* horizon is open any more (so the window is complete), its scope has the *)
(* loans the entries in the window reach, but for loans that came back     *)
(* after the scope was built, and these and what its rows lack were logged *)
(* at the horizon or after it.                                             *)
(***************************************************************************)
EXTENDS ChangeLog, TLAPS

RowSets == UNION {[S -> LoanRow] : S \in SUBSET Loans}

RunType ==
    [pc : {"idle", "window", "scope", "fact", "commit", "marts", "finish"},
     full : BOOLEAN, todo : SUBSET Marts,
     window : [last : Nat, horizon : Nat, run : Nat],
     scope : SUBSET Loans, rows : {<<>>} \cup RowSets]

\* The part of the type invariant the argument about the fact needs.
FactType ==
    /\ raw \in [Loans -> LoanRow] /\ absent \subseteq Clients /\ fact \in [Loans -> LoanRow]
    /\ nextTx \in Nat /\ open \subseteq Nat
    /\ log \subseteq Entry /\ dropped \subseteq Loans
    /\ cursor \in [tx : Nat, run : Nat] /\ seq \in Nat
    /\ run \in RunType
    /\ run.pc = "commit" => run.rows \in [run.scope -> LoanRow]

\* Transactions that have not ended, and those to come.
Ahead == open \cup {nextTx}

\* No transaction that may still commit is behind the cursor.
CursorIsBehind == \A t \in Ahead : cursor.tx <= t /\ t <= nextTx

\* The window starts at the cursor and ends before whatever may still commit.
WindowIsComplete ==
    run.pc \in {"scope", "fact", "commit"} =>
        /\ run.window.last = cursor.tx
        /\ cursor.tx <= run.window.horizon
        /\ \A t \in Ahead : run.window.horizon <= t

\* An entry at h or after it reaches the loan.
PendingFrom(h, l) == \E c \in log : c.tx >= h /\ Reaches(c, l)

\* The scope has every loan that an entry in the window reaches now, but for the
\* loans that came back after it was built, which the next window will have.
ScopeIsComplete ==
    run.pc \in {"fact", "commit"} =>
        \A c \in log, l \in Loans :
            InWindow(c) /\ Reaches(c, l) =>
                \/ l \in run.scope
                \/ c.entity # "loan" /\ PendingFrom(run.window.horizon, l)

\* What the run has read is right, but for entries the next window will have.
RowsAreOwed ==
    run.pc = "commit" =>
        \A l \in run.scope \ dropped :
            run.rows[l] = Current[l] \/ PendingFrom(run.window.horizon, l)

\* The inductive invariant.
CursorInv ==
    /\ FactType
    /\ CursorIsBehind
    /\ WindowIsComplete
    /\ ScopeIsComplete
    /\ RowsAreOwed
    /\ FactIsOwed

-----------------------------------------------------------------------------
LEMMA CurrentType ==
    ASSUME raw \in [Loans -> LoanRow]
    PROVE  Current \in [Loans -> LoanRow]
  BY DEF Current, LoanRow, Row, Places

\* What the raw tables mean depends on nothing else.
LEMMA RawUnchanged ==
    ASSUME UNCHANGED <<raw, absent>>
    PROVE  /\ Current' = Current
           /\ \A c, l : Reaches(c, l)' = Reaches(c, l)
  BY DEF Current, Live, Reaches, IsAbout

LEMMA InitCursor == Init => CursorInv
<1> SUFFICES ASSUME Init PROVE CursorInv
  OBVIOUS
<1>1. raw \in [Loans -> LoanRow]
  BY ChangeLogAssumption DEF Init, LoanRow, Row, Places, ChangeLogAssumption
<1>2. run \in RunType /\ run.pc = "idle"
  BY DEF Init, NoRun, NoWindow, RunType
<1>3. FactType
  BY <1>1, <1>2, CurrentType DEF Init, FactType
<1>4. CursorIsBehind /\ FactIsOwed
  BY DEF Init, CursorIsBehind, Ahead, FactIsOwed
<1> QED
  BY <1>2, <1>3, <1>4 DEF CursorInv, WindowIsComplete, ScopeIsComplete, RowsAreOwed

\* What a step leaves alone when it neither writes nor reads the fact.
LEMMA Untouched ==
    ASSUME CursorInv, UNCHANGED <<writers, facts, seq>>,
           run' \in RunType,
           \/ run'.pc \notin {"scope", "fact", "commit"}
           \/ run' = run
    PROVE  CursorInv'
<1> USE DEF CursorInv, writers, facts
<1>0. Current' = Current /\ \A c, l : Reaches(c, l)' = Reaches(c, l)
  BY RawUnchanged
<1>1. FactType'
  BY DEF FactType
<1>2. CursorIsBehind'
  BY DEF CursorIsBehind, Ahead
<1>3. WindowIsComplete'
  BY DEF WindowIsComplete, Ahead
<1>4. ScopeIsComplete'
  BY <1>0 DEF ScopeIsComplete, InWindow, PendingFrom
<1>5. RowsAreOwed'
  BY <1>0 DEF RowsAreOwed, PendingFrom
<1>6. FactIsOwed'
  BY <1>0 DEF FactIsOwed, Pending
<1> QED
  BY <1>1, <1>2, <1>3, <1>4, <1>5, <1>6

LEMMA TxBeginCursor == ASSUME CursorInv, TxBegin PROVE CursorInv'
<1> USE DEF CursorInv, TxBegin, facts, marts
<1>0. Current' = Current /\ \A c, l : Reaches(c, l)' = Reaches(c, l)
  BY RawUnchanged
<1>1. FactType'
  BY DEF FactType
<1>2. CursorIsBehind'
  BY DEF CursorIsBehind, Ahead, FactType
<1>3. WindowIsComplete'
  BY DEF WindowIsComplete, Ahead, FactType, RunType
<1>4. ScopeIsComplete'
  BY <1>0 DEF ScopeIsComplete, InWindow, PendingFrom
<1>5. RowsAreOwed'
  BY <1>0 DEF RowsAreOwed, PendingFrom
<1>6. FactIsOwed'
  BY <1>0 DEF FactIsOwed, Pending
<1> QED
  BY <1>1, <1>2, <1>3, <1>4, <1>5, <1>6

-----------------------------------------------------------------------------
(***************************************************************************)
(* The writers.  All a commit has to show is that it leaves the loan as it *)
(* was, that its entry reaches the loan, or that it drops it.              *)
(***************************************************************************)

Writes(e) ==
    /\ raw' \in [Loans -> LoanRow] /\ absent' \subseteq Clients /\ dropped' \subseteq Loans
    /\ log' = log \cup {e}
    /\ \A l \in Loans :
         \/ Reaches(e, l)'
         \/ l \in dropped' /\ ~Live(l)'
         \/ Current'[l] = Current[l] /\ Live(l)' = Live(l) /\ (l \in dropped' <=> l \in dropped)

LEMMA CommitWrites ==
    ASSUME CursorInv, NEW t, NEW entity \in {"loan", "client", "global", "source"},
           NEW id \in Loans \cup Clients \cup {0}, Commit(t, entity, id)
    PROVE  LET e == [tx |-> t, entity |-> entity, id |-> id]
           IN  e \in Entry /\ e.tx = t /\ log' = log \cup {e}
  BY DEF Commit, CursorInv, FactType, Entry

LEMMA ApplyLoanWrites ==
    ASSUME CursorInv, NEW t, NEW l \in Loans, ApplyLoan(t, l)
    PROVE  Writes([tx |-> t, entity |-> "loan", id |-> l])
<1>1. Commit(t, "loan", l) /\ t \in Nat
  BY DEF ApplyLoan, Commit, CursorInv, FactType
<1>2. PICK part \in Places : raw' = [raw EXCEPT ![l] = Row(part, t)]
  BY DEF ApplyLoan
<1>3. dropped' = dropped \ {l} /\ absent' = absent
  BY DEF ApplyLoan
<1>4. raw' \in [Loans -> LoanRow]
  BY <1>1, <1>2 DEF CursorInv, FactType, LoanRow, Row
<1>5. Reaches([tx |-> t, entity |-> "loan", id |-> l], l)'
  BY DEF Reaches, IsAbout
<1>6. ASSUME NEW k \in Loans, k # l
      PROVE  Current'[k] = Current[k] /\ Live(k)' = Live(k) /\ (k \in dropped' <=> k \in dropped)
  <2>1. raw'[k] = raw[k]
    BY <1>2, <1>6 DEF CursorInv, FactType
  <2> QED
    BY <1>3, <1>6, <2>1 DEF Current, Live
<1> QED
  BY <1>1, <1>3, <1>4, <1>5, <1>6 DEF Writes, Commit, CursorInv, FactType

LEMMA ApplyClientWrites ==
    ASSUME CursorInv, NEW t, NEW c \in Clients, ApplyClient(t, c)
    PROVE  Writes([tx |-> t, entity |-> "client", id |-> c])
<1> DEFINE mine == {l \in Loans : ClientOf[l] = c /\ Live(l)}
<1>1. Commit(t, "client", c) /\ t \in Nat /\ dropped' = dropped
  BY DEF ApplyClient, Commit, CursorInv, FactType
<1>2. absent' \in {absent \cup {c}, absent \ {c}}
  BY DEF ApplyClient
<1>3. /\ raw' \in [Loans -> LoanRow]
      /\ \A l \in mine : raw'[l].part # Gone
      /\ \A l \in Loans \ mine : raw'[l] = raw[l]
  <2>1. CASE raw' = raw
    BY <2>1 DEF CursorInv, FactType, Live
  <2>2. ASSUME NEW to \in [mine -> Parts],
               raw' = [l \in Loans |-> IF l \in mine THEN Row(to[l], t) ELSE raw[l]]
        PROVE  <1>3!1 /\ <1>3!2 /\ <1>3!3
    <3>1. \A l \in mine : to[l] \in Parts /\ to[l] # Gone
      BY ChangeLogAssumption DEF ChangeLogAssumption
    <3> QED
      BY <1>1, <2>2, <3>1 DEF CursorInv, FactType, LoanRow, Row, Places
  <2> QED
    BY <2>1, <2>2 DEF ApplyClient
<1>4. ASSUME NEW l \in mine PROVE Reaches([tx |-> t, entity |-> "client", id |-> c], l)'
  BY <1>3, <1>4 DEF Reaches, IsAbout, Live
<1>5. ASSUME NEW l \in Loans \ mine
      PROVE  Current'[l] = Current[l] /\ Live(l)' = Live(l)
  BY <1>2, <1>3, <1>5 DEF Current, Live
<1> QED
  BY <1>1, <1>2, <1>3, <1>4, <1>5 DEF Writes, Commit, CursorInv, FactType

LEMMA ApplyGlobalWrites ==
    ASSUME CursorInv, NEW t, ApplyGlobal(t)
    PROVE  Writes([tx |-> t, entity |-> "global", id |-> 0])
<1>1. Commit(t, "global", 0) /\ t \in Nat /\ dropped' = dropped /\ absent' = absent
  BY DEF ApplyGlobal, Commit, CursorInv, FactType
<1>2. raw' = [l \in Loans |-> Row(raw[l].part, t)]
  BY DEF ApplyGlobal
<1>3. raw' \in [Loans -> LoanRow]
  BY <1>1, <1>2 DEF CursorInv, FactType, LoanRow, Row
<1>4. \A l \in Loans : Live(l)' = Live(l)
  BY <1>2 DEF Live, Row
<1>5. ASSUME NEW l \in Loans, ~Live(l) PROVE Current'[l] = Current[l]
  BY <1>1, <1>4, <1>5 DEF Current
<1>6. ASSUME NEW l \in Loans, Live(l)
      PROVE  Reaches([tx |-> t, entity |-> "global", id |-> 0], l)'
  BY <1>4, <1>6 DEF Reaches, IsAbout
<1> QED
  BY <1>1, <1>3, <1>4, <1>5, <1>6 DEF Writes, Commit, CursorInv, FactType

LEMMA PromoteShadowWrites ==
    ASSUME CursorInv, NEW t, PromoteShadow(t)
    PROVE  Writes([tx |-> t, entity |-> "source", id |-> 0])
<1>1. Commit(t, "source", 0) /\ t \in Nat /\ absent' \subseteq Clients
  BY DEF PromoteShadow, Commit, CursorInv, FactType
<1>2. PICK shadow \in Shadows :
        /\ raw' = [l \in Loans |-> Row(shadow[l], t)]
        /\ dropped' = {l \in Loans : shadow[l] = Gone /\ (Live(l) \/ l \in dropped)}
  BY DEF PromoteShadow
<1>3. shadow \in [Loans -> Places]
  BY ChangeLogAssumption DEF ChangeLogAssumption, Places
<1>4. raw' \in [Loans -> LoanRow]
  BY <1>1, <1>2, <1>3 DEF LoanRow, Row
<1>5. \A l \in Loans : Live(l)' <=> shadow[l] # Gone
  BY <1>2 DEF Live, Row
<1>6. ASSUME NEW l \in Loans, shadow[l] # Gone
      PROVE  Reaches([tx |-> t, entity |-> "source", id |-> 0], l)'
  BY <1>5, <1>6 DEF Reaches, IsAbout
<1>7. ASSUME NEW l \in Loans, shadow[l] = Gone, ~Live(l), l \notin dropped
      PROVE  Current'[l] = Current[l] /\ Live(l)' = Live(l) /\ l \notin dropped'
  BY <1>2, <1>5, <1>7 DEF Current, Live
<1> QED
  BY <1>1, <1>2, <1>4, <1>5, <1>6, <1>7 DEF Writes, Commit

\* An entry that reaches a loan still does, or the loan was dropped.
LEMMA WritesPending ==
    ASSUME NEW e, Writes(e), NEW l \in Loans, NEW h, e.tx >= h, PendingFrom(h, l)
    PROVE  PendingFrom(h, l)' \/ l \in dropped'
<1>1. PICK c \in log : c.tx >= h /\ Reaches(c, l)
  BY DEF PendingFrom
<1>2. CASE Reaches(e, l)'
  BY <1>2 DEF Writes, PendingFrom
<1>3. CASE Live(l)' = Live(l)
  BY <1>1, <1>3 DEF Writes, PendingFrom, Reaches, IsAbout
<1> QED
  BY <1>2, <1>3 DEF Writes

LEMMA CommitCursor ==
    ASSUME CursorInv, NEW t, NEW entity \in {"loan", "client", "global", "source"},
           NEW id \in Loans \cup Clients \cup {0}, Commit(t, entity, id),
           Writes([tx |-> t, entity |-> entity, id |-> id])
    PROVE  CursorInv'
<1> USE DEF CursorInv
<1> DEFINE e == [tx |-> t, entity |-> entity, id |-> id]
<1>1. e \in Entry /\ e.tx = t /\ e \in log' /\ log' = log \cup {e} /\ Writes(e)
  BY CommitWrites
<1> HIDE DEF e
<1>2. t \in open /\ t \in Nat /\ open' = open \ {t}
  BY DEF Commit, FactType
<1>3. UNCHANGED <<nextTx, fact, cursor, seq, run>>
  BY DEF Commit, facts
<1>4. FactType'
  BY <1>1, <1>2, <1>3 DEF FactType, Writes
<1>5. CursorIsBehind'
  BY <1>2, <1>3 DEF CursorIsBehind, Ahead
<1>6. WindowIsComplete'
  BY <1>2, <1>3 DEF WindowIsComplete, Ahead
<1>7. ScopeIsComplete'
  <2> SUFFICES ASSUME run.pc \in {"fact", "commit"},
                      NEW c \in log', NEW l \in Loans, InWindow(c), Reaches(c, l)'
               PROVE  \/ l \in run.scope
                      \/ c.entity # "loan" /\ PendingFrom(run.window.horizon, l)'
    BY <1>3 DEF ScopeIsComplete, InWindow, PendingFrom
  <2>1. run.window.horizon <= t /\ run.window.horizon \in Nat
    BY <1>2 DEF WindowIsComplete, Ahead, FactType, RunType
  <2>2. c \in log
    BY <1>1, <1>2, <2>1 DEF InWindow
  <2>3. CASE c.entity = "loan"
    <3>1. Reaches(c, l)
      BY <2>3 DEF Reaches, IsAbout
    <3> QED
      BY <2>2, <2>3, <3>1 DEF ScopeIsComplete
  <2>4. CASE c.entity # "loan" /\ Reaches(e, l)'
    BY <1>1, <1>2, <1>3, <2>1, <2>4 DEF PendingFrom
  <2>5. CASE c.entity # "loan" /\ Live(l)' = Live(l)
    <3>1. \A d : Reaches(d, l)' <=> Reaches(d, l)
      BY <2>5 DEF Reaches, IsAbout
    <3>2. l \in run.scope \/ PendingFrom(run.window.horizon, l)
      BY <2>2, <3>1 DEF ScopeIsComplete
    <3> QED
      BY <1>1, <1>3, <2>5, <3>1, <3>2 DEF PendingFrom
  <2>6. c.entity # "loan" => Live(l)'
    BY DEF Reaches
  <2> QED
    BY <1>1, <2>3, <2>4, <2>5, <2>6 DEF Writes
<1>8. RowsAreOwed'
  <2> SUFFICES ASSUME run.pc = "commit", NEW l \in run.scope \ dropped'
               PROVE  run.rows[l] = Current'[l] \/ PendingFrom(run.window.horizon, l)'
    BY <1>3 DEF RowsAreOwed, PendingFrom
  <2>1. e.tx >= run.window.horizon /\ l \in Loans
    BY <1>1, <1>2 DEF WindowIsComplete, Ahead, FactType, RunType
  <2>2. CASE Reaches(e, l)'
    BY <1>1, <1>3, <2>1, <2>2 DEF PendingFrom
  <2>3. CASE Current'[l] = Current[l] /\ l \notin dropped
    <3>1. run.rows[l] = Current[l] \/ PendingFrom(run.window.horizon, l)
      BY <2>3 DEF RowsAreOwed
    <3>2. PendingFrom(run.window.horizon, l) => PendingFrom(run.window.horizon, l)'
      BY <1>1, <1>3, <2>1, WritesPending
    <3> QED
      BY <2>3, <3>1, <3>2
  <2> QED
    BY <1>1, <2>1, <2>2, <2>3 DEF Writes
<1>9. FactIsOwed'
  <2> SUFFICES ASSUME NEW l \in Loans \ dropped'
               PROVE  fact[l] = Current'[l] \/ PendingFrom(cursor.tx, l)'
    BY <1>3 DEF FactIsOwed, Pending, PendingFrom
  <2>1. e.tx >= cursor.tx
    BY <1>1, <1>2 DEF CursorIsBehind, Ahead, FactType
  <2>2. CASE Reaches(e, l)'
    BY <1>1, <1>3, <2>1, <2>2 DEF PendingFrom
  <2>3. CASE Current'[l] = Current[l] /\ l \notin dropped
    <3>1. fact[l] = Current[l] \/ PendingFrom(cursor.tx, l)
      BY <2>3 DEF FactIsOwed, Pending, PendingFrom
    <3>2. PendingFrom(cursor.tx, l) => PendingFrom(cursor.tx, l)'
      BY <1>1, <1>3, <2>1, WritesPending
    <3> QED
      BY <2>3, <3>1, <3>2
  <2> QED
    BY <1>1, <2>2, <2>3 DEF Writes
<1> QED
  BY <1>4, <1>5, <1>6, <1>7, <1>8, <1>9

LEMMA TxRollbackCursor == ASSUME CursorInv, NEW t, TxRollback(t) PROVE CursorInv'
<1> USE DEF CursorInv, TxRollback, facts
<1>0. Current' = Current /\ \A c, l : Reaches(c, l)' = Reaches(c, l)
  BY RawUnchanged
<1>1. FactType'
  BY DEF FactType
<1>2. CursorIsBehind'
  BY DEF CursorIsBehind, Ahead
<1>3. WindowIsComplete'
  BY DEF WindowIsComplete, Ahead
<1>4. ScopeIsComplete'
  BY <1>0 DEF ScopeIsComplete, InWindow, PendingFrom
<1>5. RowsAreOwed'
  BY <1>0 DEF RowsAreOwed, PendingFrom
<1>6. FactIsOwed'
  BY <1>0 DEF FactIsOwed, Pending
<1> QED
  BY <1>1, <1>2, <1>3, <1>4, <1>5, <1>6

\* What is purged the cursor has passed, and so has the window's horizon.
LEMMA PurgeCursor == ASSUME CursorInv, PurgeChangeLog PROVE CursorInv'
<1> USE DEF CursorInv
<1>1. PICK gone \in SUBSET {c \in log : Consumed(c)} : log' = log \ gone
  BY DEF PurgeChangeLog
<1>2. UNCHANGED <<raw, absent, nextTx, open, dropped, fact, cursor, seq, run>>
  BY DEF PurgeChangeLog, facts
<1>3. Current' = Current /\ \A c, l : Reaches(c, l)' = Reaches(c, l)
  BY <1>2, RawUnchanged
<1>4. \A c \in log : c.tx \in Nat /\ cursor.tx \in Nat /\ (c.tx >= cursor.tx => c \in log')
  BY <1>1 DEF Consumed, FactType, Entry
<1>5. ASSUME NEW h \in Nat, cursor.tx <= h, NEW l, PendingFrom(h, l)
      PROVE  PendingFrom(h, l)'
  BY <1>3, <1>4, <1>5 DEF PendingFrom
<1>6. run.pc \in {"fact", "commit"} =>
        run.window.horizon \in Nat /\ cursor.tx <= run.window.horizon
  BY DEF WindowIsComplete, FactType, RunType
<1>7. FactType'
  BY <1>1, <1>2 DEF FactType
<1>8. CursorIsBehind' /\ WindowIsComplete'
  BY <1>2 DEF CursorIsBehind, WindowIsComplete, Ahead
<1>9. ScopeIsComplete'
  <2> SUFFICES ASSUME run.pc \in {"fact", "commit"},
                      NEW c \in log', NEW l \in Loans, InWindow(c), Reaches(c, l)
               PROVE  \/ l \in run.scope
                      \/ c.entity # "loan" /\ PendingFrom(run.window.horizon, l)'
    BY <1>2, <1>3 DEF ScopeIsComplete, InWindow, PendingFrom
  <2>1. l \in run.scope \/ (c.entity # "loan" /\ PendingFrom(run.window.horizon, l))
    BY <1>1 DEF ScopeIsComplete
  <2> QED
    BY <1>2, <1>5, <1>6, <2>1
<1>10. RowsAreOwed'
  <2> SUFFICES ASSUME run.pc = "commit", NEW l \in run.scope \ dropped
               PROVE  run.rows[l] = Current[l] \/ PendingFrom(run.window.horizon, l)'
    BY <1>2, <1>3 DEF RowsAreOwed, PendingFrom
  <2>1. run.rows[l] = Current[l] \/ PendingFrom(run.window.horizon, l)
    BY DEF RowsAreOwed
  <2> QED
    BY <1>2, <1>5, <1>6, <2>1
<1>11. FactIsOwed'
  BY <1>2, <1>3, <1>4 DEF FactIsOwed, Pending
<1> QED
  BY <1>7, <1>8, <1>9, <1>10, <1>11

LEMMA BuildWindowCursor == ASSUME CursorInv, BuildWindow PROVE CursorInv'
<1> USE DEF CursorInv
<1> DEFINE W(h) == [last |-> cursor.tx, horizon |-> h, run |-> seq + 1]
<1>1. PICK h \in Ahead :
        /\ IsHorizon(h)
        /\ run' = [run EXCEPT !.pc = "scope", !.window = W(h)]
  BY DEF BuildWindow, Ahead
<1>2. UNCHANGED <<raw, absent, nextTx, open, log, dropped, fact, cursor>> /\ seq' = seq + 1
  BY DEF BuildWindow, writers, facts
<1>r. Current' = Current /\ \A c, l : Reaches(c, l)' = Reaches(c, l)
  BY <1>2, RawUnchanged
<1>3. h \in Nat /\ cursor.tx <= h /\ \A t \in Ahead : h <= t
  BY <1>1 DEF IsHorizon, Ahead, CursorIsBehind, FactType
<1>w. /\ W(h) \in [last : Nat, horizon : Nat, run : Nat]
      /\ W(h).last = cursor.tx /\ W(h).horizon = h
  BY <1>3 DEF FactType
<1> HIDE DEF W
<1>4. run' \in RunType /\ run'.pc = "scope" /\ run'.window = W(h)
  BY <1>1, <1>w DEF FactType, RunType
<1>5. FactType'
  BY <1>2, <1>4 DEF FactType
<1>6. CursorIsBehind' /\ WindowIsComplete'
  BY <1>2, <1>3, <1>4, <1>w DEF CursorIsBehind, WindowIsComplete, Ahead
<1>7. ScopeIsComplete' /\ RowsAreOwed'
  BY <1>4 DEF ScopeIsComplete, RowsAreOwed
<1>8. FactIsOwed'
  BY <1>2, <1>r DEF FactIsOwed, Pending
<1> QED
  BY <1>5, <1>6, <1>7, <1>8

LEMMA BuildScopeCursor == ASSUME CursorInv, BuildScope PROVE CursorInv'
<1> USE DEF CursorInv
<1> DEFINE S == {l \in Loans : \E c \in log : InWindow(c) /\ Reaches(c, l)}
<1>1. run.pc = "scope" /\ run' = [run EXCEPT !.pc = "fact", !.scope = S]
  BY DEF BuildScope, At
<1>2. UNCHANGED <<raw, absent, nextTx, open, log, dropped, fact, cursor, seq>>
  BY DEF BuildScope, writers, facts
<1>r. Current' = Current /\ \A c, l : Reaches(c, l)' = Reaches(c, l)
  BY <1>2, RawUnchanged
<1>3. S \subseteq Loans /\ \A c \in log, l \in Loans : InWindow(c) /\ Reaches(c, l) => l \in S
  OBVIOUS
<1> HIDE DEF S
<1>4. run' \in RunType /\ run'.pc = "fact" /\ run'.scope = S /\ run'.window = run.window
  BY <1>1, <1>3 DEF FactType, RunType
<1>5. FactType'
  BY <1>2, <1>4 DEF FactType
<1>6. CursorIsBehind' /\ WindowIsComplete'
  BY <1>1, <1>2, <1>4 DEF CursorIsBehind, WindowIsComplete, Ahead
<1>7. ScopeIsComplete'
  BY <1>2, <1>r, <1>3, <1>4 DEF ScopeIsComplete, InWindow
<1>8. RowsAreOwed'
  BY <1>4 DEF RowsAreOwed
<1>9. FactIsOwed'
  BY <1>2, <1>r DEF FactIsOwed, Pending
<1> QED
  BY <1>5, <1>6, <1>7, <1>8, <1>9

LEMMA ReadRowsCursor == ASSUME CursorInv, ReadRows PROVE CursorInv'
<1> USE DEF CursorInv
<1> DEFINE R == [l \in run.scope |-> Current[l]]
<1>1. run.pc = "fact" /\ run' = [run EXCEPT !.pc = "commit", !.rows = R]
  BY DEF ReadRows, At
<1>2. UNCHANGED <<raw, absent, nextTx, open, log, dropped, fact, cursor, seq>>
  BY DEF ReadRows, writers, facts
<1>r. Current' = Current /\ \A c, l : Reaches(c, l)' = Reaches(c, l)
  BY <1>2, RawUnchanged
<1>s. run.scope \in SUBSET Loans /\ Current \in [Loans -> LoanRow]
  BY CurrentType DEF FactType, RunType
<1>3. R \in [run.scope -> LoanRow] /\ \A l \in run.scope : R[l] = Current[l]
  BY <1>s
<1>4. R \in RowSets
  BY <1>s, <1>3 DEF RowSets
<1> HIDE DEF R
<1>5. run' \in RunType /\ run'.pc = "commit" /\ run'.scope = run.scope
      /\ run'.window = run.window /\ run'.rows = R
  BY <1>1, <1>4 DEF FactType, RunType
<1>6. FactType'
  BY <1>2, <1>3, <1>5 DEF FactType
<1>7. CursorIsBehind' /\ WindowIsComplete'
  BY <1>1, <1>2, <1>5 DEF CursorIsBehind, WindowIsComplete, Ahead
<1>8. ScopeIsComplete'
  BY <1>1, <1>2, <1>r, <1>5 DEF ScopeIsComplete, InWindow, PendingFrom
<1>9. RowsAreOwed'
  BY <1>2, <1>r, <1>3, <1>5 DEF RowsAreOwed
<1>10. FactIsOwed'
  BY <1>2, <1>r DEF FactIsOwed, Pending
<1> QED
  BY <1>6, <1>7, <1>8, <1>9, <1>10

\* What was pending and is not in the scope is pending after the cursor moves to
\* the horizon.
LEMMA BeyondTheScope ==
    ASSUME CursorInv, run.pc = "commit", NEW l \in Loans \ run.scope, Pending(l)
    PROVE  PendingFrom(run.window.horizon, l)
<1>1. PICK c \in log : c.tx >= cursor.tx /\ Reaches(c, l)
  BY DEF Pending
<1>2. run.window.last = cursor.tx
  BY DEF CursorInv, WindowIsComplete
<1>3. CASE InWindow(c)
  BY <1>1, <1>3 DEF CursorInv, ScopeIsComplete
<1>4. CASE ~InWindow(c)
  <2>1. c.tx >= run.window.horizon
    BY <1>1, <1>2, <1>4 DEF InWindow, CursorInv, FactType, RunType, Entry
  <2> QED
    BY <1>1, <2>1 DEF PendingFrom
<1> QED
  BY <1>3, <1>4

LEMMA CommitFactCursor == ASSUME CursorInv, CommitFact PROVE CursorInv'
<1> USE DEF CursorInv
<1>1. run.pc = "commit"
  BY DEF CommitFact, At
<1>2. /\ fact' = [l \in Loans |-> IF l \in run.scope THEN run.rows[l] ELSE fact[l]]
      /\ cursor' = [tx |-> run.window.horizon, run |-> run.window.run]
      /\ run' = [run EXCEPT !.pc = "marts", !.window = NoWindow, !.scope = {}, !.rows = <<>>]
      /\ UNCHANGED <<raw, absent, nextTx, open, log, dropped, seq>>
  BY DEF CommitFact, writers
<1>r. Current' = Current /\ \A c, l : Reaches(c, l)' = Reaches(c, l)
  BY <1>2, RawUnchanged
<1>3. run' \in RunType /\ run'.pc = "marts"
  BY <1>2 DEF FactType, RunType, NoWindow
<1>4. FactType'
  <2>1. fact' \in [Loans -> LoanRow]
    BY <1>1, <1>2 DEF FactType
  <2>2. cursor' \in [tx : Nat, run : Nat]
    BY <1>2 DEF FactType, RunType
  <2> QED
    BY <1>2, <1>3, <2>1, <2>2 DEF FactType
<1>5. CursorIsBehind'
  BY <1>1, <1>2 DEF CursorIsBehind, WindowIsComplete, Ahead
<1>6. WindowIsComplete' /\ ScopeIsComplete' /\ RowsAreOwed'
  BY <1>3 DEF WindowIsComplete, ScopeIsComplete, RowsAreOwed
<1>7. FactIsOwed'
  <2> SUFFICES ASSUME NEW l \in Loans \ dropped
               PROVE  fact'[l] = Current[l] \/ PendingFrom(run.window.horizon, l)
    BY <1>2, <1>r DEF FactIsOwed, Pending, PendingFrom
  <2>1. CASE l \in run.scope
    BY <1>1, <1>2, <2>1 DEF RowsAreOwed
  <2>2. CASE l \notin run.scope
    <3>1. fact'[l] = fact[l]
      BY <1>2, <2>2
    <3>2. fact[l] = Current[l] \/ Pending(l)
      BY DEF FactIsOwed
    <3> QED
      BY <1>1, <2>2, <3>1, <3>2, BeyondTheScope
  <2> QED
    BY <2>1, <2>2
<1> QED
  BY <1>4, <1>5, <1>6, <1>7

-----------------------------------------------------------------------------
LEMMA NextCursor == CursorInv /\ [Next]_vars => CursorInv'
<1> SUFFICES ASSUME CursorInv, [Next]_vars PROVE CursorInv'
  OBVIOUS
<1>0. run \in RunType
  BY DEF CursorInv, FactType
<1>1. CASE TxBegin
  BY <1>1, TxBeginCursor
<1>2. CASE TxEnds
  <2>1. PICK t \in open :
          \/ \E l \in Loans : ApplyLoan(t, l)
          \/ \E c \in Clients : ApplyClient(t, c)
          \/ ApplyGlobal(t) \/ PromoteShadow(t)
          \/ TxRollback(t)
    BY <1>2 DEF TxEnds
  <2>2. ASSUME NEW l \in Loans, ApplyLoan(t, l) PROVE CursorInv'
    BY <2>2, ApplyLoanWrites, CommitCursor DEF ApplyLoan
  <2>3. ASSUME NEW c \in Clients, ApplyClient(t, c) PROVE CursorInv'
    BY <2>3, ApplyClientWrites, CommitCursor DEF ApplyClient
  <2>4. CASE ApplyGlobal(t)
    BY <2>4, ApplyGlobalWrites, CommitCursor DEF ApplyGlobal
  <2>5. CASE PromoteShadow(t)
    BY <2>5, PromoteShadowWrites, CommitCursor DEF PromoteShadow
  <2> QED
    BY <2>1, <2>2, <2>3, <2>4, <2>5, TxRollbackCursor
<1>3. CASE PurgeChangeLog
  BY <1>3, PurgeCursor
<1>4. ASSUME NEW kind \in Kinds, NEW todo \in SUBSET Marts, Start(kind, todo)
      PROVE  CursorInv'
  <2>1. run' \in RunType /\ run'.pc \in {"window", "marts"}
    BY <1>4 DEF Start, NoRun, NoWindow, RunType
  <2> QED
    BY <1>4, <2>1, Untouched DEF Start
<1>5. CASE BuildWindow
  BY <1>5, BuildWindowCursor
<1>6. CASE BuildScope
  BY <1>6, BuildScopeCursor
<1>7. CASE ReadRows
  BY <1>7, ReadRowsCursor
<1>8. CASE CommitFact
  BY <1>8, CommitFactCursor
<1>9. ASSUME NEW m \in Marts, BuildMart(m) PROVE CursorInv'
  <2>1. run' \in RunType /\ run'.pc = "marts"
    BY <1>0, <1>9 DEF BuildMart, At, RunType
  <2> QED
    BY <1>9, <2>1, Untouched DEF BuildMart
<1>10. CASE Finish
  <2>1. run' \in RunType /\ run'.pc = "idle"
    BY <1>10 DEF Finish, NoRun, NoWindow, RunType
  <2> QED
    BY <1>10, <2>1, Untouched DEF Finish
<1>11. CASE ModelFails
  <2>1. run' \in RunType /\ run'.pc = "finish"
    BY <1>11 DEF ModelFails, NoRun, NoWindow, RunType
  <2> QED
    BY <1>11, <2>1, Untouched DEF ModelFails
<1>12. CASE Killed
  <2>1. run' \in RunType /\ run'.pc = "idle"
    BY <1>12 DEF Killed, NoRun, NoWindow, RunType
  <2> QED
    BY <1>12, <2>1, Untouched DEF Killed
<1>13. CASE LeaseExpires
  BY <1>0, <1>13, Untouched DEF LeaseExpires
<1>14. CASE UNCHANGED vars
  BY <1>0, <1>14, Untouched DEF vars
<1> QED
  BY <1>1, <1>2, <1>3, <1>4, <1>5, <1>6, <1>7, <1>8, <1>9, <1>10, <1>11, <1>12, <1>13, <1>14
     DEF Next, Run

\* The change cursor skips no change of a raw table (int_change_window,
\* int_snapshot_scope, fact_loan_snapshot, purge_change_log), for any number of
\* loans, clients, marts, writers and faults and any shadows that are promoted;
\* but for the loans a promotion dropped.
THEOREM NoChangeIsSkipped == Spec => []FactIsOwed
<1>1. CursorInv => FactIsOwed
  BY DEF CursorInv
<1> QED
  BY <1>1, InitCursor, NextCursor, PTL DEF Spec

-----------------------------------------------------------------------------
(***************************************************************************)
(* The marts.  MartIsOwed is not inductive either: what a run finds pending *)
(* it consumes, so a partition may be clean only if the loans it is wrong  *)
(* about are still in it, where the next run will find them in the fact.   *)
(***************************************************************************)

MartType ==
    /\ dirty \subseteq [run : Nat, part : Parts]
    /\ mart \in [Marts -> [Parts -> SUBSET [loan : Loans, ver : Nat]]]
    /\ seen \in [Marts -> Nat]
    /\ lock \in {"free", "held", "orphan", "expired"}
    /\ faults \in Nat

\* Run ids grow: from the mart cursors and dirty entries to the fact's, and to
\* the one of the window.
RunsGrow ==
    /\ \A m \in Marts : seen[m] <= cursor.run
    /\ \A d \in dirty : d.run <= cursor.run
    /\ cursor.run <= seq
    /\ run.pc \in {"scope", "fact", "commit"} =>
         cursor.run < run.window.run /\ run.window.run <= seq

Marked(m, p) == \E d \in dirty : d.part = p /\ d.run > seen[m]

Owed(l) == Pending(l) \/ l \in dropped

\* A partition is marked, or the loans it is wrong about are in it and pending,
\* or dropped.
MartOwed ==
    \A m \in Marts, p \in Parts :
        Marked(m, p) \/ \A l \in Differs(m, p) : Owed(l) /\ fact[l].part = p

\* The inductive invariant, together with CursorInv.
MartInv == MartType /\ RunsGrow /\ MartOwed

LEMMA InitMart == Init => MartInv
<1> SUFFICES ASSUME Init PROVE MartInv
  OBVIOUS
<1>1. raw \in [Loans -> LoanRow] /\ fact = Current
  BY ChangeLogAssumption DEF Init, LoanRow, Row, Places, ChangeLogAssumption
<1>f. fact \in [Loans -> LoanRow]
  BY <1>1, CurrentType
<1>2. \A p \in Parts : FactIn(p) \in SUBSET [loan : Loans, ver : Nat]
  BY <1>f DEF FactIn, LoanRow
<1>3. mart = [m \in Marts |-> [p \in Parts |-> FactIn(p)]]
  BY DEF Init
<1>4. mart \in [Marts -> [Parts -> SUBSET [loan : Loans, ver : Nat]]]
  BY <1>2, <1>3
<1>5. MartType
  BY <1>4 DEF Init, MartType
<1>6. RunsGrow
  BY DEF Init, RunsGrow, NoRun
<1>7. \A m \in Marts, p \in Parts : mart[m][p] = FactIn(p)
  BY <1>3
<1>8. MartOwed
  BY <1>7 DEF MartOwed, Differs
<1> QED
  BY <1>5, <1>6, <1>8 DEF MartInv

\* Whatever is owed stays so when fact, marts and marks stay.
LEMMA OwedUntouched ==
    ASSUME MartOwed, UNCHANGED <<fact, mart, seen, dirty>>,
           \A l \in Loans : Owed(l) => Owed(l)',
           MartType
    PROVE  MartOwed'
<1>1. \A m \in Marts, p \in Parts : Differs(m, p)' = Differs(m, p) /\ Marked(m, p)' = Marked(m, p)
  BY DEF Differs, FactIn, Marked
<1>2. \A m \in Marts, p \in Parts : Differs(m, p) \subseteq Loans
  BY DEF Differs, FactIn, MartType
<1> QED
  BY <1>1, <1>2 DEF MartOwed

\* A row of a partition of the fact is that of its loan.
LEMMA FactRow ==
    ASSUME NEW p, NEW r \in FactIn(p)
    PROVE  r.loan \in Loans /\ fact[r.loan].part = p /\ r = [loan |-> r.loan, ver |-> fact[r.loan].ver]
  BY DEF FactIn

LEMMA FactRowOf ==
    ASSUME NEW p, NEW l \in Loans, fact[l].part = p
    PROVE  [loan |-> l, ver |-> fact[l].ver] \in FactIn(p)
  BY DEF FactIn

LEMMA CommitFactMart == ASSUME CursorInv, MartInv, CommitFact PROVE MartInv'
<1> USE DEF MartInv
<1>1. run.pc = "commit" /\ run \in RunType /\ run.rows \in [run.scope -> LoanRow]
  BY DEF CommitFact, At, CursorInv, FactType
<1>2. /\ fact' = [l \in Loans |-> IF l \in run.scope THEN run.rows[l] ELSE fact[l]]
      /\ dirty' = dirty \cup TouchedParts
      /\ cursor' = [tx |-> run.window.horizon, run |-> run.window.run]
      /\ run' = [run EXCEPT !.pc = "marts", !.window = NoWindow, !.scope = {}, !.rows = <<>>]
      /\ UNCHANGED <<raw, absent, log, dropped, seq, mart, seen, lock, faults>>
  BY DEF CommitFact, writers, marts
<1>r. \A c, l : Reaches(c, l)' = Reaches(c, l)
  BY <1>2, RawUnchanged
<1>3. TouchedParts \subseteq [run : {run.window.run}, part : Parts]
  <2>1. \A l \in Loans : Current[l].part \in Places /\ fact[l].part \in Places
    BY CurrentType DEF CursorInv, FactType, LoanRow
  <2>2. run.scope \subseteq Loans
    BY <1>1 DEF RunType
  <2> QED
    BY <2>1, <2>2 DEF TouchedParts, DirtyIn, Places
<1>4. run.window.run \in Nat /\ cursor \in [tx : Nat, run : Nat] /\ seq \in Nat
  BY <1>1 DEF CursorInv, FactType, RunType
<1>5. MartType'
  BY <1>2, <1>3, <1>4 DEF MartType
<1>6. RunsGrow'
  <2>1. run'.pc = "marts" /\ cursor'.run = run.window.run
    BY <1>1, <1>2 DEF RunType
  <2>2. \A d \in TouchedParts : d.run = run.window.run
    BY <1>3
  <2>3. \A d \in dirty : d.run \in Nat
    BY DEF MartType
  <2>4. \A m \in Marts : seen[m] \in Nat
    BY DEF MartType
  <2> QED
    BY <1>1, <1>2, <1>4, <2>1, <2>2, <2>3, <2>4 DEF RunsGrow
<1>7. ASSUME NEW m \in Marts, NEW p \in Parts, ~Marked(m, p)', NEW l \in Differs(m, p)'
      PROVE  Owed(l)' /\ fact'[l].part = p
  <2>1. seen[m] \in Nat /\ seen[m] < run.window.run
    BY <1>1, <1>4 DEF MartType, RunsGrow
  <2>2. ASSUME NEW k \in run.scope PROVE fact[k].part # p /\ Current[k].part # p
    <3> DEFINE d == [run |-> run.window.run, part |-> p]
    <3>1. d \notin TouchedParts
      BY <1>2, <1>4, <1>7, <2>1 DEF Marked
    <3>2. p # Gone
      BY ChangeLogAssumption DEF ChangeLogAssumption
    <3> QED
      BY <2>2, <3>1, <3>2 DEF TouchedParts, DirtyIn
  <2>3. ~Marked(m, p)
    BY <1>2, <1>7 DEF Marked
  <2>4. PICK r \in (mart[m][p] \ FactIn(p)') \cup (FactIn(p)' \ mart[m][p]) : r.loan = l
    BY <1>2, <1>7 DEF Differs
  <2>5. l \in Loans
    BY <2>4, FactRow DEF FactIn, MartType
  <2>6. CASE l \notin run.scope
    <3>1. fact'[l] = fact[l]
      BY <1>2, <2>5, <2>6
    <3>2. r \in FactIn(p) <=> r \in FactIn(p)'
      BY <2>4, <2>5, <3>1 DEF FactIn
    <3>3. l \in Differs(m, p)
      BY <2>4, <3>2 DEF Differs
    <3>4. Owed(l) /\ fact[l].part = p
      BY <2>3, <3>3 DEF MartOwed
    <3>5. CASE Pending(l)
      <4>1. PendingFrom(run.window.horizon, l)
        BY <1>1, <2>5, <2>6, <3>5, BeyondTheScope
      <4> QED
        BY <1>2, <1>r, <3>1, <3>4, <4>1 DEF Owed, Pending, PendingFrom
    <3>6. CASE l \in dropped
      BY <1>2, <3>1, <3>4, <3>6 DEF Owed
    <3> QED
      BY <3>4, <3>5, <3>6 DEF Owed
  <2>7. CASE l \in run.scope
    <3>1. fact'[l] = run.rows[l]
      BY <1>2, <2>5, <2>7
    <3>2. fact'[l].part = p
      <4> SUFFICES ASSUME fact'[l].part # p PROVE FALSE
        OBVIOUS
      <4>1. r \notin FactIn(p)' /\ r \notin FactIn(p)
        BY <2>2, <2>4, <2>7 DEF FactIn
      <4>2. l \in Differs(m, p)
        BY <2>4, <4>1 DEF Differs
      <4> QED
        BY <2>2, <2>3, <2>7, <4>2 DEF MartOwed
    <3>3. run.rows[l] # Current[l]
      BY <2>2, <2>7, <3>1, <3>2
    <3>4. l \in dropped \/ PendingFrom(run.window.horizon, l)
      BY <1>1, <2>7, <3>3 DEF CursorInv, RowsAreOwed
    <3> QED
      BY <1>2, <1>r, <3>2, <3>4 DEF Owed, Pending, PendingFrom
  <2> QED
    BY <2>6, <2>7
<1> QED
  BY <1>5, <1>6, <1>7 DEF MartOwed

LEMMA BuildMartMart == ASSUME CursorInv, MartInv, NEW n \in Marts, BuildMart(n) PROVE MartInv'
<1> USE DEF MartInv
<1>1. /\ mart' = [mart EXCEPT ![n] = [p \in Parts |->
                    IF run.full \/ p \in RecomputeWindow(n) THEN FactIn(p) ELSE @[p]]]
      /\ seen' = [seen EXCEPT ![n] = cursor.run]
      /\ run' = [run EXCEPT !.todo = @ \ {n}]
      /\ UNCHANGED <<raw, absent, log, dropped, fact, cursor, seq, dirty, lock, faults>>
  BY DEF BuildMart, writers, facts
<1>r. \A c, l : Reaches(c, l)' = Reaches(c, l)
  BY <1>1, RawUnchanged
<1>2. run \in RunType /\ cursor \in [tx : Nat, run : Nat] /\ fact \in [Loans -> LoanRow]
  BY DEF CursorInv, FactType
<1>3. \A p \in Parts : FactIn(p) \in SUBSET [loan : Loans, ver : Nat]
  BY <1>2 DEF FactIn, LoanRow
<1>4. MartType'
  <2>1. mart' \in [Marts -> [Parts -> SUBSET [loan : Loans, ver : Nat]]]
    BY <1>1, <1>3 DEF MartType
  <2>2. seen' \in [Marts -> Nat]
    BY <1>1, <1>2 DEF MartType
  <2> QED
    BY <1>1, <2>1, <2>2 DEF MartType
<1>5. RunsGrow'
  <2>1. run'.pc = run.pc /\ run'.window = run.window
    BY <1>1, <1>2 DEF RunType
  <2>2. \A m \in Marts : seen'[m] <= cursor.run
    BY <1>1, <1>2 DEF RunsGrow, MartType
  <2> QED
    BY <1>1, <2>1, <2>2 DEF RunsGrow
<1>6. ASSUME NEW m \in Marts, NEW p \in Parts, ~Marked(m, p)', NEW l \in Differs(m, p)'
      PROVE  Owed(l)' /\ fact'[l].part = p
  <2>1. FactIn(p)' = FactIn(p) /\ (Owed(l)' <=> Owed(l))
    BY <1>1, <1>r DEF FactIn, Owed, Pending
  <2>2. mart'[m][p] # FactIn(p)
    BY <1>6, <2>1 DEF Differs
  <2>3. mart'[m][p] = mart[m][p]
    BY <1>1, <2>2 DEF MartType
  <2>4. l \in Differs(m, p)
    BY <1>6, <2>1, <2>3 DEF Differs
  <2>5. ~Marked(m, p)
    <3>1. CASE m = n
      <4>1. p \notin RecomputeWindow(n)
        BY <1>1, <2>2, <3>1 DEF MartType
      <4>2. \A d \in dirty : d.run <= cursor.run /\ d.run \in Nat
        BY DEF RunsGrow, MartType
      <4>3. seen[n] \in Nat
        BY DEF MartType
      <4> QED
        BY <3>1, <4>1, <4>2, <4>3 DEF Marked, RecomputeWindow
    <3>2. CASE m # n
      BY <1>1, <1>6, <3>2 DEF Marked, MartType
    <3> QED
      BY <3>1, <3>2
  <2> QED
    BY <1>1, <2>1, <2>4, <2>5 DEF MartOwed
<1> QED
  BY <1>4, <1>5, <1>6 DEF MartOwed

LEMMA FinishMart == ASSUME MartInv, CursorInv, Finish PROVE MartInv'
<1> USE DEF MartInv
<1>1. /\ dirty' = {d \in dirty : \E m \in Marts : seen[m] < d.run}
      /\ lock' = "free" /\ run' = NoRun
      /\ UNCHANGED <<raw, absent, log, dropped, fact, cursor, mart, seen, seq, faults>>
  BY DEF Finish, writers, facts, marts
<1>2. MartType'
  BY <1>1 DEF MartType
<1>3. RunsGrow'
  BY <1>1 DEF RunsGrow, NoRun
<1>4. \A m \in Marts, p \in Parts :
        /\ Marked(m, p) => Marked(m, p)'
        /\ Differs(m, p)' = Differs(m, p)
  BY <1>1 DEF Marked, Differs, FactIn, MartType
<1>5. \A l : Owed(l)' <=> Owed(l)
  BY <1>1, RawUnchanged DEF Owed, Pending
<1> QED
  BY <1>1, <1>2, <1>3, <1>4, <1>5 DEF MartOwed

\* A commit leaves every loan owed that was.
LEMMA CommitOwed ==
    ASSUME CursorInv, NEW t, NEW entity \in {"loan", "client", "global", "source"},
           NEW id \in Loans \cup Clients \cup {0}, Commit(t, entity, id),
           Writes([tx |-> t, entity |-> entity, id |-> id]),
           NEW l \in Loans, Owed(l)
    PROVE  Owed(l)'
<1> DEFINE e == [tx |-> t, entity |-> entity, id |-> id]
<1>1. Writes(e) /\ e.tx = t /\ e \in log' /\ cursor' = cursor
  BY CommitWrites DEF Commit, facts
<1> HIDE DEF e
<1>2. e.tx >= cursor.tx
  BY <1>1 DEF Commit, CursorInv, CursorIsBehind, Ahead, FactType
<1>3. CASE Pending(l)
  <2>1. PendingFrom(cursor.tx, l)
    BY <1>3 DEF Pending, PendingFrom
  <2>2. PendingFrom(cursor.tx, l)' \/ l \in dropped'
    BY <1>1, <1>2, <2>1, WritesPending
  <2> QED
    BY <1>1, <2>2 DEF Owed, Pending, PendingFrom
<1>4. CASE l \in dropped
  BY <1>1, <1>2, <1>4 DEF Writes, Owed, Pending
<1> QED
  BY <1>3, <1>4 DEF Owed

LEMMA NextMart == CursorInv /\ MartInv /\ [Next]_vars => MartInv'
<1> SUFFICES ASSUME CursorInv, MartInv, [Next]_vars PROVE MartInv'
  OBVIOUS
<1> USE DEF MartInv
<1>0. /\ run \in RunType /\ cursor \in [tx : Nat, run : Nat] /\ seq \in Nat
      /\ log \subseteq Entry
  BY DEF CursorInv, FactType
<1>1. ASSUME UNCHANGED <<facts, marts, seq, dirty, lock, run, faults>>,
             \A l \in Loans : Owed(l) => Owed(l)'
      PROVE  MartInv'
  <2>1. MartType' /\ RunsGrow'
    BY <1>1 DEF MartType, RunsGrow, facts, marts
  <2> QED
    BY <1>1, <2>1, OwedUntouched DEF facts, marts
<1>2. ASSUME UNCHANGED <<writers, facts, marts, dirty>>, faults' \in Nat,
             lock' \in {"free", "held", "orphan", "expired"},
             seq' \in Nat, seq <= seq',
             run'.pc \in {"scope", "fact", "commit"} =>
                cursor.run < run'.window.run /\ run'.window.run <= seq'
      PROVE  MartInv'
  <2>1. MartType'
    BY <1>2 DEF MartType, marts
  <2>2. RunsGrow'
    BY <1>0, <1>2 DEF RunsGrow, facts, marts
  <2>3. \A l : Owed(l)' <=> Owed(l)
    BY <1>2, RawUnchanged DEF Owed, Pending, writers, facts
  <2> QED
    BY <1>2, <2>1, <2>2, <2>3, OwedUntouched DEF facts, marts
<1>3. CASE TxBegin
  <2>1. \A l : Owed(l)' <=> Owed(l)
    BY <1>3, RawUnchanged DEF TxBegin, Owed, Pending, facts
  <2> QED
    BY <1>1, <1>3, <2>1 DEF TxBegin
<1>4. CASE TxEnds
  <2>1. PICK t \in open :
          \/ \E l \in Loans : ApplyLoan(t, l)
          \/ \E c \in Clients : ApplyClient(t, c)
          \/ ApplyGlobal(t) \/ PromoteShadow(t)
          \/ TxRollback(t)
    BY <1>4 DEF TxEnds
  <2>2. ASSUME NEW l \in Loans, ApplyLoan(t, l) PROVE MartInv'
    BY <1>1, <2>2, ApplyLoanWrites, CommitOwed DEF ApplyLoan, Commit
  <2>3. ASSUME NEW c \in Clients, ApplyClient(t, c) PROVE MartInv'
    BY <1>1, <2>3, ApplyClientWrites, CommitOwed DEF ApplyClient, Commit
  <2>4. CASE ApplyGlobal(t)
    BY <1>1, <2>4, ApplyGlobalWrites, CommitOwed DEF ApplyGlobal, Commit
  <2>5. CASE PromoteShadow(t)
    BY <1>1, <2>5, PromoteShadowWrites, CommitOwed DEF PromoteShadow, Commit
  <2>6. CASE TxRollback(t)
    <3>1. \A l : Owed(l)' <=> Owed(l)
      BY <2>6, RawUnchanged DEF TxRollback, Owed, Pending, facts
    <3> QED
      BY <1>1, <2>6, <3>1 DEF TxRollback
  <2> QED
    BY <2>1, <2>2, <2>3, <2>4, <2>5, <2>6
<1>5. CASE PurgeChangeLog
  <2>1. \A c \in log : c.tx >= cursor.tx => c \in log'
    BY <1>0, <1>5 DEF PurgeChangeLog, Consumed, Entry
  <2>2. \A c, l : Reaches(c, l)' = Reaches(c, l)
    BY <1>5, RawUnchanged DEF PurgeChangeLog
  <2> QED
    BY <1>1, <1>5, <2>1, <2>2 DEF PurgeChangeLog, Owed, Pending, facts
<1>6. ASSUME NEW kind \in Kinds, NEW todo \in SUBSET Marts, Start(kind, todo)
      PROVE  MartInv'
  <2>1. run'.pc \in {"window", "marts"}
    BY <1>6 DEF Start, NoRun
  <2> QED
    BY <1>0, <1>2, <1>6, <2>1 DEF Start, MartType
<1>7. CASE BuildWindow
  <2>1. PICK h : run' = [run EXCEPT !.pc = "scope",
                           !.window = [last |-> cursor.tx, horizon |-> h, run |-> seq + 1]]
    BY <1>7 DEF BuildWindow
  <2>2. run'.window.run = seq + 1
    BY <1>0, <2>1 DEF RunType
  <2>3. cursor.run < seq + 1
    BY <1>0 DEF RunsGrow
  <2>4. seq' = seq + 1 /\ UNCHANGED <<writers, facts, marts, dirty, lock, faults>>
    BY <1>7 DEF BuildWindow
  <2>5. faults' \in Nat /\ lock' \in {"free", "held", "orphan", "expired"}
    BY <2>4 DEF MartType
  <2> QED
    BY <1>0, <1>2, <2>2, <2>3, <2>4, <2>5
<1>8. CASE BuildScope \/ ReadRows
  <2>1. run'.window = run.window /\ run.pc \in {"scope", "fact"}
    BY <1>0, <1>8 DEF BuildScope, ReadRows, At, RunType
  <2>2. UNCHANGED <<writers, facts, marts, seq, dirty, lock, faults>>
    BY <1>8 DEF BuildScope, ReadRows
  <2> QED
    BY <1>0, <1>2, <2>1, <2>2 DEF MartType, RunsGrow
<1>9. CASE CommitFact
  BY <1>9, CommitFactMart
<1>10. ASSUME NEW m \in Marts, BuildMart(m) PROVE MartInv'
  BY <1>10, BuildMartMart
<1>11. CASE Finish
  BY <1>11, FinishMart
<1>12. CASE ModelFails
  <2>1. run'.pc = "finish"
    BY <1>12 DEF ModelFails, NoRun
  <2> QED
    BY <1>0, <1>2, <1>12, <2>1 DEF ModelFails, Fault, MartType
<1>13. CASE Killed
  <2>1. run'.pc = "idle"
    BY <1>13 DEF Killed, NoRun
  <2> QED
    BY <1>0, <1>2, <1>13, <2>1 DEF Killed, Fault, MartType
<1>14. CASE LeaseExpires
  BY <1>0, <1>2, <1>14 DEF LeaseExpires, MartType, RunsGrow
<1>15. CASE UNCHANGED vars
  BY <1>0, <1>2, <1>15 DEF vars, MartType, RunsGrow
<1> QED
  BY <1>3, <1>4, <1>5, <1>6, <1>7, <1>8, <1>9, <1>10, <1>11, <1>12, <1>13, <1>14, <1>15
     DEF Next, Run

\* Every variable of the change log module keeps its type.
THEOREM ChangeLogTypes == Spec => []TypeOK
<1>1. CursorInv /\ MartInv => TypeOK
  BY DEF CursorInv, FactType, RunType, MartInv, MartType, TypeOK
<1> QED
  BY <1>1, InitCursor, NextCursor, InitMart, NextMart, PTL DEF Spec

\* No mart cursor skips a partition that differs from the fact
\* (record_dirty_partitions, mart_recompute_window, advance_mart_cursor,
\* finish_run), also one that a loan has left, whatever builds fail, are killed
\* or build only some of the marts; but for what it says of the loans a promotion
\* dropped.
THEOREM NoPartitionIsSkipped == Spec => []MartIsOwed
<1>1. CursorInv /\ MartInv => MartIsOwed
  BY DEF MartInv, MartOwed, MartIsOwed, Marked, Owed
<1> QED
  BY <1>1, InitCursor, NextCursor, InitMart, NextMart, PTL DEF Spec
=============================================================================
