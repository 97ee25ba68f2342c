------------------------------ MODULE Extremes ------------------------------
(***************************************************************************)
(* Least and greatest elements: what the proofs about offsets, about the   *)
(* newest event of a batch and about the pages of a run need to know of    *)
(* numbers and of finite sets.  Each is shown by a least counterexample.   *)
(***************************************************************************)
EXTENDS Naturals, FiniteSets, FiniteSetsExt, FiniteSetTheorems, WellFoundedInduction, TLAPS

\* Natural numbers are well-founded: a set of them has a least one.
LEMMA LeastNatural ==
    ASSUME NEW T \in SUBSET Nat, T # {}
    PROVE  \E x \in T : \A y \in T : x <= y
<1> DEFINE R == OpToRel(<, Nat)
<1>1. IsWellFoundedOn(R, Nat)
  BY NatLessThanWellFounded
<1>2. \A x, y \in Nat : y < x => <<y, x>> \in R
  BY DEF OpToRel
<1> HIDE DEF R
<1>3. PICK x \in T : \A y \in T : ~(<<y, x>> \in R)
  BY <1>1, WFMin
<1>4. \A y \in T : x <= y
  <2> SUFFICES ASSUME NEW y \in T PROVE x <= y
    OBVIOUS
  <2>1. x \in Nat /\ y \in Nat /\ ~(y < x)
    BY <1>2, <1>3
  <2> QED
    BY <2>1
<1> QED
  BY <1>4

\* Max of a set of natural numbers that has an upper bound is its largest.
LEMMA MaxIsGreatest ==
    ASSUME NEW S \in SUBSET Nat, S # {}, NEW n \in Nat, \A x \in S : x <= n
    PROVE  Max(S) \in S /\ \A x \in S : x <= Max(S)
<1> DEFINE T == {n - x : x \in S}
<1>0. \A x \in S : n - x \in T /\ n - x \in Nat
  OBVIOUS
<1>1. T \in SUBSET Nat /\ T # {}
  BY <1>0
<1>2. PICK t \in T : \A y \in T : t <= y
  BY <1>1, LeastNatural
<1>3. PICK x \in S : t = n - x
  OBVIOUS
<1>4. \A y \in S : x >= y
  <2> SUFFICES ASSUME NEW y \in S PROVE x >= y
    OBVIOUS
  <2>1. t <= n - y
    BY <1>2
  <2> QED
    BY <1>3, <2>1
<1>5. \E m \in S : \A y \in S : m >= y
  BY <1>4
<1>6. Max(S) \in S /\ \A y \in S : Max(S) >= y
  BY <1>5 DEF Max
<1> QED
  BY <1>6

\* A finite set has an element with the largest value of a function.
LEMMA FiniteArgMax ==
    ASSUME NEW S, IsFiniteSet(S), S # {}, NEW f \in [S -> Nat]
    PROVE  \E x \in S : \A y \in S : f[y] <= f[x]
<1> DEFINE Best(U, x) == x \in U /\ \A y \in U : f[y] <= f[x]
           R == StrictSubsetOrdering(S)
           Bad == {U \in SUBSET S : U # {} /\ ~\E x \in U : Best(U, x)}
<1> SUFFICES ASSUME Bad # {} PROVE FALSE
  <2>1. S \in SUBSET S
    OBVIOUS
  <2> QED
    BY <2>1
<1>1. IsWellFoundedOn(R, SUBSET S)
  BY FS_StrictSubsetOrderingWellFounded, FS_FiniteSubsetsOfFinite
<1>2. \A U, V \in SUBSET S : U \subseteq V /\ U # V => <<U, V>> \in R
  BY DEF StrictSubsetOrdering
<1> HIDE DEF R
<1>3. PICK U \in Bad : \A V \in Bad : ~(<<V, U>> \in R)
  <2>1. Bad \subseteq SUBSET S
    OBVIOUS
  <2> HIDE DEF Bad
  <2> QED
    BY <1>1, <2>1, WFMin
<1>4. PICK x \in U : TRUE
  OBVIOUS
<1> DEFINE V == U \ {x}
<1>5. V \in SUBSET S /\ V \subseteq U /\ V # U
  BY <1>4
<1>6. V \notin Bad
  BY <1>2, <1>3, <1>5
<1>7. CASE V = {}
  <2>1. \A y \in U : y = x
    BY <1>7
  <2>2. f[x] \in Nat
    BY <1>4
  <2>3. Best(U, x)
    BY <1>4, <2>1, <2>2
  <2> QED
    BY <1>4, <2>3
<1>8. CASE V # {}
  <2>1. PICK z \in V : Best(V, z)
    BY <1>5, <1>6, <1>8
  <2>2. f[x] \in Nat /\ f[z] \in Nat /\ \A y \in U : f[y] \in Nat /\ (y = x \/ y \in V)
    BY <1>4
  <2>3. Best(U, x) \/ Best(U, z)
    BY <1>4, <2>1, <2>2
  <2> QED
    BY <1>4, <2>1, <2>3
<1> QED
  BY <1>7, <1>8

\* A set has an element with the least value of a function.
LEMMA LeastValue ==
    ASSUME NEW S, S # {}, NEW f \in [S -> Nat]
    PROVE  \E x \in S : \A y \in S : f[x] <= f[y]
<1> DEFINE T == {f[x] : x \in S}
<1>1. T \in SUBSET Nat /\ T # {}
  OBVIOUS
<1>2. PICK t \in T : \A u \in T : t <= u
  BY <1>1, LeastNatural
<1> QED
  BY <1>2
=============================================================================
