------------------------------ MODULE Induction ------------------------------
(***************************************************************************)
(* Induction over the naturals, stated with a set in the place of a        *)
(* predicate so that it can be cited.                                      *)
(***************************************************************************)
EXTENDS Integers, FiniteSets, FiniteSetTheorems, WellFoundedInduction, TLAPS

\* A set of naturals that is not empty has a least element: the smallest, by
\* inclusion, of the intervals that end in one of them.
LEMMA LeastOfNat ==
    ASSUME NEW T, T \subseteq Nat, T # {}
    PROVE  \E k \in T : \A j \in T : k <= j
<1> DEFINE U == { 0 .. k : k \in T }
<1>1. \A k \in T : IsFiniteSet(0 .. k)
  BY FS_Interval
<1>2. U \subseteq FiniteSubsetsOf(Nat)
  BY <1>1 DEF FiniteSubsetsOf
<1>3. \E x \in U : \A y \in U : ~ (<<y, x>> \in StrictSubsetOrdering(Nat))
  <2>1. U # {} OBVIOUS
  <2>2. QED
    BY <1>2, <2>1, FS_StrictSubsetOrderingWellFounded, WFMin
<1>4. PICK k \in T : \A y \in U : ~ (<<y, 0 .. k>> \in StrictSubsetOrdering(Nat))
  BY <1>3
<1>5. ASSUME NEW j \in T, ~ (k <= j) PROVE FALSE
  <2>1. 0 .. j \subseteq 0 .. k /\ 0 .. j # 0 .. k 
    BY <1>5
  <2>2. <<0 .. j, 0 .. k>> \in StrictSubsetOrdering(Nat)
    BY <2>1 DEF StrictSubsetOrdering
  <2>3. QED
    BY <1>4, <2>2
<1>6. QED
  BY <1>4, <1>5

\* What holds of 0, and of the successor of every number it holds of, holds
\* of all numbers up to a bound.
LEMMA Inductive ==
    ASSUME NEW N \in Nat, NEW T, 0 \in T,
           \A k \in 0 .. N - 1 : k \in T => k + 1 \in T
    PROVE  0 .. N \subseteq T
<1>1. SUFFICES ASSUME NEW b \in 0 .. N, b \notin T PROVE FALSE
  OBVIOUS
<1> DEFINE F == { k \in 0 .. N : k \notin T }
<1>2. PICK k \in F : \A j \in F : k <= j
  <2>1. F \subseteq Nat /\ F # {} BY <1>1
  <2>2. QED BY <2>1, LeastOfNat
<1>3. k # 0 /\ k - 1 \in 0 .. N - 1
  BY <1>2
<1>4. k - 1 \in T
  BY <1>2, <1>3
<1>5. QED
  BY <1>2, <1>3, <1>4
==============================================================================
