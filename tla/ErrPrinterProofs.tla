-------------------------- MODULE ErrPrinterProofs --------------------------
(***************************************************************************)
(* Proofs about ErrPrinter, for texts of any size, any settings of the     *)
(* builder and any base of the numbers in the gutter.                      *)
(***************************************************************************)
EXTENDS ErrPrinter, Induction

(***************************************************************************)
(* The least and the greatest member of a set.                             *)
(***************************************************************************)
\* Min of a set of naturals is its least member, and no other is.
LEMMA MinIs ==
    ASSUME NEW S, S \subseteq Nat, S # {}
    PROVE  /\ Min(S) \in S
           /\ \A y \in S : Min(S) <= y
           /\ \A x \in S : (\A y \in S : x <= y) => Min(S) = x
<1>1. \E x \in S : \A y \in S : x <= y
  BY LeastOfNat
<1>2. Min(S) \in S /\ \A y \in S : Min(S) <= y
  BY <1>1 DEF Min
<1>3. ASSUME NEW x \in S, \A y \in S : x <= y PROVE Min(S) = x
  <2>1. x <= Min(S) /\ Min(S) <= x
    BY <1>2, <1>3
  <2>2. x \in Nat /\ Min(S) \in Nat
    BY <1>2
  <2>3. QED
    BY <2>1, <2>2
<1>4. QED
  BY <1>2, <1>3

\* Max of a set of integers within bounds is its greatest member, and no
\* other is.
LEMMA MaxIs ==
    ASSUME NEW S, S # {}, NEW lo \in Int, NEW hi \in Int, S \subseteq lo .. hi
    PROVE  /\ Max(S) \in S
           /\ \A y \in S : y <= Max(S)
           /\ \A x \in S : (\A y \in S : y <= x) => Max(S) = x
<1>0. \A x \in S : x \in Int
  OBVIOUS
<1> DEFINE T == { hi - s : s \in S }
<1>1. \E x \in S : \A y \in S : x >= y
  <2>1. T \subseteq Nat /\ T # {}
    OBVIOUS
  <2>2. PICK k \in T : \A j \in T : k <= j
    BY <2>1, LeastOfNat
  <2>3. PICK x \in S : k = hi - x
    OBVIOUS
  <2>4. ASSUME NEW y \in S PROVE x >= y
    <3>1. hi - x <= hi - y
      BY <2>2, <2>3
    <3>2. x \in Int /\ y \in Int
      OBVIOUS
    <3>3. QED
      BY <3>1, <3>2
  <2>5. QED
    BY <2>4
<1>2. Max(S) \in S /\ \A y \in S : Max(S) >= y
  BY <1>1 DEF Max
<1>3. ASSUME NEW x \in S, \A y \in S : y <= x PROVE Max(S) = x
  <2>1. Max(S) >= x /\ Max(S) <= x
    BY <1>2, <1>3
  <2>2. x \in Int /\ Max(S) \in Int
    BY <1>0, <1>2
  <2>3. QED
    BY <2>1, <2>2
<1>4. \A y \in S : y <= Max(S)
  <2>1. SUFFICES ASSUME NEW y \in S PROVE y <= Max(S)
    OBVIOUS
  <2>2. y \in Int /\ Max(S) \in Int /\ Max(S) >= y
    BY <1>0, <1>2
  <2>3. QED
    BY <2>2
<1>5. QED
  BY <1>2, <1>3, <1>4

\* The greatest member of a set of naturals.
LEMMA MaxOf ==
    ASSUME NEW S, S \subseteq Nat, NEW x \in S, \A y \in S : y <= x
    PROVE  Max(S) = x
<1>1. S \subseteq 0 .. x /\ 0 \in Int /\ x \in Int /\ S # {}
  OBVIOUS
<1>2. \A z \in S : (\A y \in S : y <= z) => Max(S) = z
  BY <1>1, MaxIs
<1>3. QED
  BY <1>2

\* Of two numbers, the greater and the smaller.
LEMMA MaxOfTwo ==
    ASSUME NEW a \in Int, NEW b \in Int
    PROVE  Max({a, b}) = IF a <= b THEN b ELSE a
<1> DEFINE m == IF a <= b THEN b ELSE a
           l == IF a <= b THEN a ELSE b
<1>1. {a, b} \subseteq l .. m /\ l \in Int /\ m \in Int
  OBVIOUS
<1>2. m \in {a, b} /\ \A y \in {a, b} : y <= m
  OBVIOUS
<1>3. QED
  BY <1>1, <1>2, MaxIs

\* The same for the smaller.
LEMMA MinOfTwo ==
    ASSUME NEW a \in Nat, NEW b \in Nat
    PROVE  Min({a, b}) = IF a <= b THEN a ELSE b
<1> DEFINE m == IF a <= b THEN a ELSE b
<1>1. m \in {a, b} /\ \A y \in {a, b} : m <= y
  OBVIOUS
<1>2. QED
  BY <1>1, MinIs
-----------------------------------------------------------------------------
(***************************************************************************)
(* Counting in sets of naturals.                                           *)
(***************************************************************************)
Below(S, k) == { j \in S : j < k }

Above(S, k) == { j \in S : j > k }

\* How many members of a set of naturals are below a place.
Rank(S, k) == Cardinality(Below(S, k))

\* The sets that are counted are finite, and counts are numbers.
LEMMA Counts ==
    ASSUME NEW S, IsFiniteSet(S), NEW k
    PROVE  /\ Cardinality(S) \in Nat
           /\ IsFiniteSet(Below(S, k)) /\ IsFiniteSet(Above(S, k))
           /\ Rank(S, k) \in Nat /\ Cardinality(Above(S, k)) \in Nat
           /\ Rank(S, k) <= Cardinality(S)
<1>1. Below(S, k) \in SUBSET S /\ Above(S, k) \in SUBSET S
  BY DEF Below, Above
<1>2. QED
  BY <1>1, FS_Subset, FS_CardinalityType DEF Rank

\* Parts of a set without a common member.
LEMMA Parts ==
    ASSUME NEW A, NEW B, IsFiniteSet(A), IsFiniteSet(B), A \cap B = {}
    PROVE  /\ IsFiniteSet(A \cup B)
           /\ Cardinality(A \cup B) = Cardinality(A) + Cardinality(B)
<1>1. Cardinality({}) = 0
  BY FS_EmptySet
<1>2. /\ IsFiniteSet(A \cup B)
      /\ Cardinality(A \cup B) = Cardinality(A) + Cardinality(B) - Cardinality(A \cap B)
  BY FS_Union
<1>3. Cardinality(A) \in Nat /\ Cardinality(B) \in Nat
  BY FS_CardinalityType
<1>4. Cardinality(A \cup B) = Cardinality(A) + Cardinality(B) - 0
  BY <1>1, <1>2
<1>5. QED
  BY <1>2, <1>3, <1>4

\* The members of a set that are below one, the one, and those above it.
LEMMA Around ==
    ASSUME NEW S, S \subseteq Nat, IsFiniteSet(S), NEW k \in S
    PROVE  /\ Rank(S, k + 1) = Rank(S, k) + 1
           /\ Cardinality(S) = Rank(S, k) + 1 + Cardinality(Above(S, k))
<1>1. /\ IsFiniteSet(Below(S, k)) /\ IsFiniteSet(Above(S, k))
      /\ Rank(S, k) \in Nat
  BY Counts
<1>2. IsFiniteSet({k}) /\ Cardinality({k}) = 1
  BY FS_Singleton
<1>0. \A j \in S : /\ j < k + 1 <=> j < k \/ j = k
                   /\ j < k => j # k
                   /\ j < k + 1 <=> ~ (j > k)
  OBVIOUS
<1>3. Below(S, k + 1) = Below(S, k) \cup {k} /\ Below(S, k) \cap {k} = {}
  BY <1>0 DEF Below
<1>4. /\ IsFiniteSet(Below(S, k + 1))
      /\ Rank(S, k + 1) = Rank(S, k) + 1
  BY <1>1, <1>2, <1>3, Parts DEF Rank
<1>5. /\ S = Below(S, k + 1) \cup Above(S, k)
      /\ Below(S, k + 1) \cap Above(S, k) = {}
  BY <1>0 DEF Below, Above
<1>6. Cardinality(S) = Rank(S, k + 1) + Cardinality(Above(S, k))
  BY <1>1, <1>4, <1>5, Parts DEF Rank
<1>7. QED
  BY <1>4, <1>6

\* Of two members the greater has more below it.
LEMMA RankGrows ==
    ASSUME NEW S, S \subseteq Nat, IsFiniteSet(S), NEW k \in S, NEW l \in S, k < l
    PROVE  Rank(S, k) < Rank(S, l)
<1>0. \A j \in S : j < k + 1 => j < l
  OBVIOUS
<1>1. Below(S, k + 1) \in SUBSET Below(S, l)
  BY <1>0 DEF Below
<1>2. Rank(S, k + 1) <= Rank(S, l)
  BY <1>1, Counts, FS_Subset DEF Rank
<1>3. Rank(S, k + 1) = Rank(S, k) + 1
  BY Around
<1>4. Rank(S, k) \in Nat /\ Rank(S, l) \in Nat
  BY Counts
<1>5. QED
  BY <1>2, <1>3, <1>4

\* No two members have the same rank.
LEMMA RankUnique ==
    ASSUME NEW S, S \subseteq Nat, IsFiniteSet(S), NEW k \in S, NEW l \in S,
           Rank(S, k) = Rank(S, l)
    PROVE  k = l
<1>1. k \in Nat /\ l \in Nat /\ Rank(S, k) \in Nat
  BY Counts
<1>2. ASSUME k < l PROVE FALSE
  <2>1. Rank(S, k) < Rank(S, l)
    BY <1>2, RankGrows
  <2>2. QED
    BY <1>1, <2>1
<1>3. ASSUME l < k PROVE FALSE
  <2>1. Rank(S, l) < Rank(S, k)
    BY <1>3, RankGrows
  <2>2. QED
    BY <1>1, <2>1
<1>4. QED
  BY <1>1, <1>2, <1>3

\* There is a member of each rank less than the size of the set.
LEMMA RankExists ==
    ASSUME NEW S, S \subseteq Nat, IsFiniteSet(S),
           NEW n \in Nat, n < Cardinality(S)
    PROVE  \E k \in S : Rank(S, k) = n
<1> DEFINE T == { i \in Nat : i < Cardinality(S) => \E k \in S : Rank(S, k) = i }
<1>1. Cardinality(S) \in Nat
  BY Counts
<1>2. 0 \in T
  <2>1. SUFFICES ASSUME 0 < Cardinality(S) PROVE \E k \in S : Rank(S, k) = 0
    OBVIOUS
  <2>2. S # {}
    BY <2>1, FS_EmptySet
  <2>3. Min(S) \in S /\ Below(S, Min(S)) = {}
    <3>1. Min(S) \in S /\ \A y \in S : Min(S) <= y
      BY <2>2, MinIs
    <3>2. \A y \in S : ~ (y < Min(S))
      <4>1. PICK m \in S : m = Min(S)
        BY <3>1
      <4>2. \A y \in S : m <= y
        BY <3>1, <4>1
      <4>3. \A y \in S : ~ (y < m)
        BY <4>2
      <4>4. QED
        BY <4>1, <4>3
    <3>3. QED
      BY <3>1, <3>2 DEF Below
  <2>4. QED
    BY <2>3, FS_EmptySet DEF Rank
<1>3. ASSUME NEW i \in 0 .. n - 1, i \in T PROVE i + 1 \in T
  <2>1. SUFFICES ASSUME i + 1 < Cardinality(S) PROVE \E l \in S : Rank(S, l) = i + 1
    OBVIOUS
  <2>2. PICK k \in S : Rank(S, k) = i
    <3>1. i < Cardinality(S)
      BY <1>1, <2>1
    <3>2. QED
      BY <1>3, <3>1
  <2> DEFINE U == Above(S, k)
  <2>3. Cardinality(S) = i + 1 + Cardinality(U) /\ Rank(S, k + 1) = i + 1
    BY <2>2, Around
  <2>4. U # {} /\ U \subseteq Nat
    <3>1. Cardinality(U) # 0
      <4>1. Cardinality(U) \in Nat
        BY Counts
      <4>2. QED
        BY <1>1, <2>1, <2>3, <4>1
    <3>2. QED
      BY <3>1, FS_EmptySet DEF Above
  <2>5. Min(U) \in U /\ \A y \in U : Min(U) <= y
    BY <2>4, MinIs
  <2>6. Min(U) \in S /\ Below(S, Min(U)) = Below(S, k + 1)
    <3>1. Min(U) \in S /\ k < Min(U) /\ \A y \in S : k < y => Min(U) <= y
      BY <2>5 DEF Above
    <3>2. \A y \in S : y < Min(U) <=> y < k + 1
      <4>1. PICK m \in S : m = Min(U)
        BY <3>1
      <4>2. k < m /\ \A y \in S : k < y => m <= y
        BY <3>1, <4>1
      <4>3. \A y \in S : y < m <=> y < k + 1
        BY <4>2
      <4>4. QED
        BY <4>1, <4>3
    <3>3. QED
      BY <3>1, <3>2 DEF Below
  <2>7. QED
    BY <2>3, <2>6 DEF Rank
<1>4. 0 .. n \subseteq T
  <2> HIDE DEF T
  <2>1. \A i \in 0 .. n - 1 : i \in T => i + 1 \in T
    BY <1>3
  <2>2. QED
    BY <1>2, <2>1, Inductive
<1>5. n \in T
  BY <1>4
<1>6. QED
  BY <1>5

\* Moving a set of naturals up by one.
LEMMA Shifted ==
    ASSUME NEW S, S \subseteq Nat, IsFiniteSet(S)
    PROVE  LET T == { k + 1 : k \in S }
           IN  IsFiniteSet(T) /\ Cardinality(T) = Cardinality(S)
<1> DEFINE T == { k + 1 : k \in S }
           f == [k \in S |-> k + 1]
<1>1. f \in Bijection(S, T)
  <2>1. f \in [S -> T]
    OBVIOUS
  <2>2. \A a, b \in S : f[a] = f[b] => a = b
    OBVIOUS
  <2>3. \A t \in T : \E s \in S : f[s] = t
    OBVIOUS
  <2>4. QED
    BY <2>1, <2>2, <2>3 DEF Bijection, Injection, IsInjective, Surjection
<1>2. QED
  BY <1>1, FS_Bijection DEF ExistsBijection
-----------------------------------------------------------------------------
(***************************************************************************)
(* The gutter: the powers of the base and the width of a number.           *)
(***************************************************************************)
\* The powers up to a number.
Powers(n, f) ==
    /\ f \in [0 .. n -> Nat]
    /\ f[0] = 1
    /\ \A i \in 0 .. n - 1 : f[i + 1] = Base * f[i]

\* The product of naturals is one.
LEMMA Times ==
    ASSUME NEW a \in Nat, NEW b \in Nat
    PROVE  a * b \in Nat
OBVIOUS

\* There are powers up to any number.
LEMMA PowersExist ==
    ASSUME NEW n \in Nat
    PROVE  \E f : Powers(n, f)
<1> DEFINE T == { k \in Nat : \E f : Powers(k, f) }
<1>1. 0 \in T
  <2>1. Powers(0, [i \in 0 .. 0 |-> 1])
    BY DEF Powers
  <2>2. QED
    BY <2>1
<1>2. ASSUME NEW k \in 0 .. n - 1, k \in T PROVE k + 1 \in T
  <2>1. PICK f : Powers(k, f)
    BY <1>2
  <2> DEFINE g == [i \in 0 .. k + 1 |-> IF i = k + 1 THEN Base * f[k] ELSE f[i]]
  <2>2. k \in Nat /\ k \in 0 .. k /\ f[k] \in Nat /\ Base \in Nat
    BY <2>1, ErrPrinterAssumption DEF Powers
  <2>3. Base * f[k] \in Nat
    BY <2>2, Times
  <2>4. g \in [0 .. k + 1 -> Nat]
    <3>1. \A i \in 0 .. k + 1 : i # k + 1 => i \in 0 .. k /\ f[i] \in Nat
      BY <2>1, <2>2 DEF Powers
    <3>2. QED
      BY <2>3, <3>1
  <2>5. g[0] = 1
    BY <2>1, <2>2 DEF Powers
  <2>6. ASSUME NEW i \in 0 .. k PROVE g[i + 1] = Base * g[i]
    <3>1. CASE i = k
      BY <2>2, <3>1
    <3>2. CASE i # k
      <4>1. i \in 0 .. k - 1 /\ i + 1 \in 0 .. k
        BY <2>2, <3>2
      <4>2. f[i + 1] = Base * f[i]
        BY <2>1, <4>1 DEF Powers
      <4>3. g[i + 1] = f[i + 1] /\ g[i] = f[i]
        BY <2>2, <4>1
      <4>4. QED
        BY <4>2, <4>3
    <3>3. QED
      BY <3>1, <3>2
  <2>7. Powers(k + 1, g)
    <3>1. (k + 1) - 1 = k
      BY <2>2
    <3> HIDE DEF g
    <3>2. QED
      BY <2>4, <2>5, <2>6, <3>1 DEF Powers
  <2>8. QED
    BY <2>2, <2>7
<1>3. 0 .. n \subseteq T
  <2> HIDE DEF T
  <2>1. \A k \in 0 .. n - 1 : k \in T => k + 1 \in T
    BY <1>2
  <2>2. QED
    BY <1>1, <2>1, Inductive
<1>4. QED
  BY <1>3

\* They are the same, however far they go.
LEMMA PowersUnique ==
    ASSUME NEW n \in Nat, NEW m \in Nat, n <= m, NEW f, NEW g,
           Powers(n, f), Powers(m, g)
    PROVE  f[n] = g[n]
<1> DEFINE T == { k \in Nat : f[k] = g[k] }
<1>1. 0 \in T
  BY DEF Powers
<1>2. ASSUME NEW k \in 0 .. n - 1, k \in T PROVE k + 1 \in T
  <2>1. k \in 0 .. m - 1 /\ k + 1 \in Nat
    OBVIOUS
  <2>2. f[k + 1] = Base * f[k] /\ g[k + 1] = Base * g[k]
    BY <2>1 DEF Powers
  <2>3. QED
    BY <1>2, <2>1, <2>2
<1>3. 0 .. n \subseteq T
  <2> HIDE DEF T
  <2>1. \A k \in 0 .. n - 1 : k \in T => k + 1 \in T
    BY <1>2
  <2>2. QED
    BY <1>1, <2>1, Inductive
<1>4. QED
  BY <1>3

\* Power is what its definition says.
LEMMA PowerRecurs ==
    /\ Power = [w \in Nat |-> IF w = 0 THEN 1 ELSE Base * Power[w - 1]]
    /\ \A w \in Nat : Power[w] \in Nat
<1> DEFINE P(w) == CHOOSE f : Powers(w, f)
           h == [w \in Nat |-> P(w)[w]]
           step(w) == IF w = 0 THEN 1 ELSE Base * h[w - 1]
<1>1. \A w \in Nat : Powers(w, P(w))
  BY PowersExist
<1>2. ASSUME NEW w \in Nat PROVE h[w] \in Nat /\ h[w] = step(w)
  <2>0. w \in 0 .. w /\ h[w] = P(w)[w]
    OBVIOUS
  <2>1. h[w] \in Nat
    <3> HIDE DEF P, h
    <3>1. P(w) \in [0 .. w -> Nat]
      BY <1>1 DEF Powers
    <3>2. QED
      BY <2>0, <3>1
  <2>2. w = 0 => h[w] = step(w)
    <3>1. P(w)[0] = 1
      BY <1>1 DEF Powers
    <3>2. QED
      BY <2>0, <3>1
  <2>3. ASSUME w # 0 PROVE h[w] = step(w)
    <3>1. w - 1 \in Nat /\ w - 1 \in 0 .. w - 1 /\ w - 1 <= w /\ (w - 1) + 1 = w
      BY <2>3
    <3>2. P(w)[(w - 1) + 1] = Base * P(w)[w - 1]
      BY <1>1, <3>1 DEF Powers
    <3>3. P(w - 1)[w - 1] = P(w)[w - 1]
      BY <1>1, <3>1, PowersUnique
    <3>4. h[w - 1] = P(w - 1)[w - 1]
      BY <3>1
    <3>5. h[w] = Base * h[w - 1]
      <4> HIDE DEF P, h
      <4>1. QED
        BY <2>0, <3>1, <3>2, <3>3, <3>4
    <3>6. QED
      <4> HIDE DEF P, h
      <4>1. QED
        BY <2>3, <3>5
  <2>4. QED
    <3> HIDE DEF h, step
    <3>1. QED
      BY <2>1, <2>2, <2>3
<1>3. h = [w \in Nat |-> step(w)]
  <2> DEFINE r == [w \in Nat |-> step(w)]
  <2>1. \A w \in Nat : h[w] = r[w]
    <3> HIDE DEF h
    <3>1. QED
      BY <1>2
  <2>2. QED
    BY <2>1
<1>4. \E g : g = [w \in Nat |-> IF w = 0 THEN 1 ELSE Base * g[w - 1]]
  BY <1>3
<1>5. Power = [w \in Nat |-> IF w = 0 THEN 1 ELSE Base * Power[w - 1]]
  <2> HIDE DEF h
  <2>1. QED
    BY <1>4 DEF Power
<1>6. ASSUME NEW n \in Nat PROVE Power[n] \in Nat
  <2> DEFINE T == { k \in Nat : Power[k] \in Nat }
  <2>1. 0 \in T
    BY <1>5
  <2>2. ASSUME NEW k \in 0 .. n - 1, k \in T PROVE k + 1 \in T
    <3>1. k + 1 \in Nat /\ k + 1 # 0 /\ (k + 1) - 1 = k /\ Base \in Nat
      BY ErrPrinterAssumption
    <3>2. Power[k + 1] = Base * Power[k]
      BY <1>5, <3>1
    <3>3. QED
      BY <2>2, <3>1, <3>2, Times
  <2>3. 0 .. n \subseteq T
    <3> HIDE DEF T
    <3>1. \A k \in 0 .. n - 1 : k \in T => k + 1 \in T
      BY <2>2
    <3>2. QED
      BY <2>1, <3>1, Inductive
  <2>4. QED
    BY <2>3
<1>7. QED
  BY <1>5, <1>6

\* A power of the base is more than its exponent.
LEMMA PowerGrows ==
    ASSUME NEW n \in Nat
    PROVE  Power[n] > n
<1> DEFINE T == { k \in Nat : Power[k] > k }
<1>1. 0 \in T
  BY PowerRecurs
<1>2. ASSUME NEW k \in 0 .. n - 1, k \in T PROVE k + 1 \in T
  <2>1. k + 1 \in Nat /\ k + 1 # 0 /\ (k + 1) - 1 = k
    OBVIOUS
  <2>2. Power[k + 1] = Base * Power[k]
    BY <2>1, PowerRecurs
  <2>3. PICK p \in Nat, b \in Nat : p = Power[k] /\ b = Base /\ b >= 2 /\ p >= k + 1
    <3>1. Power[k] \in Nat /\ Base \in Nat /\ Base >= 2 /\ Power[k] > k
      BY <1>2, PowerRecurs, ErrPrinterAssumption
    <3>2. QED
      BY <3>1
  <2>4. b * p >= p + p
    BY <2>3
  <2>5. p + p > k + 1
    BY <2>3
  <2>6. QED
    BY <2>1, <2>2, <2>3, <2>4, <2>5
<1>3. 0 .. n \subseteq T
  <2> HIDE DEF T
  <2>1. \A k \in 0 .. n - 1 : k \in T => k + 1 \in T
    BY <1>2
  <2>2. QED
    BY <1>1, <2>1, Inductive
<1>4. QED
  BY <1>3

\* The width is the least that is enough.
LEMMA WidthIs ==
    ASSUME NEW val \in Nat, val > 0
    PROVE  /\ IntWidth(val) \in 1 .. val
           /\ Power[IntWidth(val)] > val
           /\ \A w \in 1 .. val : Power[w] > val => IntWidth(val) <= w
<1> DEFINE S == { w \in 1 .. val : Power[w] > val }
<1>1. val \in S /\ S \subseteq Nat
  BY PowerGrows
<1>2. Min(S) \in S /\ \A w \in S : Min(S) <= w
  BY <1>1, MinIs
<1>3. IntWidth(val) = Min(S)
  BY DEF IntWidth
<1>4. QED
  BY <1>2, <1>3

\* No number has fewer digits than a smaller one.
LEMMA WidthGrows ==
    ASSUME NEW a \in Nat, NEW b \in Nat, 0 < a, a <= b
    PROVE  IntWidth(a) \in Nat /\ IntWidth(b) \in Nat /\ IntWidth(a) <= IntWidth(b)
<1>1. b > 0 /\ a > 0
  OBVIOUS
<1>2. PICK v \in 1 .. b : v = IntWidth(b) /\ Power[v] > b
  BY <1>1, WidthIs
<1>3. PICK w \in 1 .. a : w = IntWidth(a)
  BY <1>1, WidthIs
<1>4. v \in 1 .. a => w <= v
  <2>1. SUFFICES ASSUME v \in 1 .. a PROVE w <= v
    OBVIOUS
  <2>2. Power[v] > a
    <3>1. Power[v] \in Nat
      BY <1>2, PowerRecurs
    <3>2. QED
      BY <1>2, <3>1
  <2>3. QED
    BY <1>1, <1>3, <2>1, <2>2, WidthIs
<1>5. w <= v
  BY <1>4
<1>6. QED
  BY <1>2, <1>3, <1>5
-----------------------------------------------------------------------------
(***************************************************************************)
(* Texts: newlines, where lines begin, positions.                          *)
(***************************************************************************)
Newlines(str) == NewlinesIn(str, 0, Len(str) - 1)

\* Where the line of an offset begins.
LineBeg(str, off) == Max(NewlinesIn(str, 0, off - 1) \cup {-1}) + 1

\* The newlines between two offsets are finitely many of the offsets.
LEMMA NewlinesFinite ==
    ASSUME NEW str, NEW from \in Nat, NEW to \in Int
    PROVE  /\ NewlinesIn(str, from, to) \subseteq from .. to
           /\ NewlinesIn(str, from, to) \subseteq Nat
           /\ IsFiniteSet(NewlinesIn(str, from, to))
<1>1. NewlinesIn(str, from, to) \in SUBSET (from .. to)
  BY DEF NewlinesIn
<1>2. IsFiniteSet(from .. to)
  BY FS_Interval
<1>3. QED
  BY <1>1, <1>2, FS_Subset

\* The same for the newlines of the text.
LEMMA NewlinesSet ==
    ASSUME NEW str, Len(str) \in Nat
    PROVE  /\ Newlines(str) \subseteq 0 .. Len(str) - 1
           /\ Newlines(str) \subseteq Nat
           /\ IsFiniteSet(Newlines(str))
<1>1. PICK to \in Int : to = Len(str) - 1
  OBVIOUS
<1>2. /\ NewlinesIn(str, 0, to) \subseteq 0 .. to
      /\ NewlinesIn(str, 0, to) \subseteq Nat
      /\ IsFiniteSet(NewlinesIn(str, 0, to))
  BY NewlinesFinite
<1>3. QED
  BY <1>1, <1>2 DEF Newlines

\* A text has the length its domain says.
LEMMA TextIs ==
    ASSUME NEW str \in Texts
    PROVE  /\ Len(str) \in Nat /\ 0 < Len(str) /\ Len(str) <= MaxSize
           /\ MaxSize \in Nat
<1>1. PICK n \in 1 .. MaxSize : str \in [1 .. n -> {"x", "newline"}]
  BY DEF Texts
<1>2. MaxSize \in Nat /\ n \in Nat /\ 0 < n /\ n <= MaxSize
  BY ErrPrinterAssumption
<1>3. Len(str) = n
  BY <1>1, <1>2
<1>4. QED
  BY <1>2, <1>3

\* The beginning of a line: no newline between it and the offset, and before
\* it a newline or nothing.
LEMMA LineBegIs ==
    ASSUME NEW str, Len(str) \in Nat, NEW off \in 0 .. Len(str)
    PROVE  /\ LineBeg(str, off) \in 0 .. off
           /\ LineBeg(str, off) # 0 => str[LineBeg(str, off)] = "newline"
           /\ \A k \in LineBeg(str, off) .. off - 1 : str[k + 1] # "newline"
<1> DEFINE S == NewlinesIn(str, 0, off - 1) \cup {-1}
<1>1. S \subseteq -1 .. off /\ S # {}
  BY DEF NewlinesIn
<1>2. PICK m \in S : m = Max(S) /\ \A y \in S : y <= m
  BY <1>1, MaxIs
<1>3. LineBeg(str, off) = m + 1 /\ m \in -1 .. off - 1
  BY <1>2 DEF LineBeg, NewlinesIn
<1>4. m # -1 => str[m + 1] = "newline"
  BY <1>2 DEF NewlinesIn
<1>5. ASSUME NEW k \in m + 1 .. off - 1 PROVE str[k + 1] # "newline"
  <2>1. k \in 0 .. off - 1 /\ ~ (k <= m)
    BY <1>3
  <2>2. k \notin S
    BY <1>2, <2>1
  <2>3. QED
    BY <2>1, <2>2 DEF NewlinesIn
<1>6. QED
  BY <1>3, <1>4, <1>5

\* No other offset is one.
LEMMA LineBegUnique ==
    ASSUME NEW str, Len(str) \in Nat, NEW off \in 0 .. Len(str),
           NEW b \in 0 .. off, b # 0 => str[b] = "newline",
           \A k \in b .. off - 1 : str[k + 1] # "newline"
    PROVE  LineBeg(str, off) = b
<1>1. PICK c \in 0 .. off : /\ c = LineBeg(str, off)
                            /\ c # 0 => str[c] = "newline"
                            /\ \A k \in c .. off - 1 : str[k + 1] # "newline"
  BY LineBegIs
<1>2. ~ (b < c)
  <2>1. SUFFICES ASSUME b < c PROVE FALSE
    OBVIOUS
  <2>2. c - 1 \in b .. off - 1 /\ (c - 1) + 1 = c /\ c # 0
    BY <2>1
  <2>3. QED
    BY <1>1, <2>2
<1>3. ~ (c < b)
  <2>1. SUFFICES ASSUME c < b PROVE FALSE
    OBVIOUS
  <2>2. b - 1 \in c .. off - 1 /\ (b - 1) + 1 = b /\ b # 0
    BY <2>1
  <2>3. QED
    BY <1>1, <2>2
<1>4. b = c
  BY <1>2, <1>3
<1>5. QED
  BY <1>1, <1>4

\* The newlines before an offset are those of the text that are below it.
LEMMA LineIsRank ==
    ASSUME NEW str, Len(str) \in Nat, NEW off \in 0 .. Len(str)
    PROVE  /\ NewlinesIn(str, 0, off - 1) = Below(Newlines(str), off)
           /\ PosAt(str, off) = MakePos(off, Rank(Newlines(str), off),
                                        off - LineBeg(str, off))
           /\ Rank(Newlines(str), off) \in Nat
<1>1. NewlinesIn(str, 0, off - 1) = Below(Newlines(str), off)
  <2>1. \A k : k \in 0 .. off - 1 <=> k \in 0 .. Len(str) - 1 /\ k < off
    OBVIOUS
  <2>2. QED
    BY <2>1 DEF NewlinesIn, Newlines, Below
<1>2. IsFiniteSet(Newlines(str))
  BY NewlinesSet
<1>3. QED
  BY <1>1, <1>2, Counts DEF PosAt, Rank, LineBeg

\* Between two offsets on the same line there is no newline.
LEMMA SameLine ==
    ASSUME NEW str, Len(str) \in Nat,
           NEW a \in 0 .. Len(str), NEW b \in 0 .. Len(str), a <= b,
           Rank(Newlines(str), a) = Rank(Newlines(str), b)
    PROVE  /\ \A k \in a .. b - 1 : str[k + 1] # "newline"
           /\ LineBeg(str, a) = LineBeg(str, b)
<1> DEFINE N == Newlines(str)
<1>1. IsFiniteSet(N) /\ N \subseteq Nat
  BY NewlinesSet
<1>2. Below(N, a) = Below(N, b)
  <2>1. \A j \in N : j < a => j < b
    BY <1>1
  <2>2. Below(N, a) \in SUBSET Below(N, b) /\ IsFiniteSet(Below(N, b))
    BY <1>1, <2>1, Counts DEF Below
  <2>3. QED
    BY <2>2, FS_Subset DEF Rank
<1>3. ASSUME NEW k \in a .. b - 1, str[k + 1] = "newline" PROVE FALSE
  <2>1. k \in 0 .. Len(str) - 1 /\ k < b /\ ~ (k < a)
    OBVIOUS
  <2>2. k \in N
    BY <1>3, <2>1 DEF Newlines, NewlinesIn
  <2>3. QED
    BY <1>2, <2>1, <2>2 DEF Below
<1>4. PICK c \in 0 .. a : /\ c = LineBeg(str, a)
                          /\ c # 0 => str[c] = "newline"
                          /\ \A k \in c .. a - 1 : str[k + 1] # "newline"
  BY LineBegIs
<1>5. \A k \in c .. b - 1 : str[k + 1] # "newline"
  <2>1. \A k \in c .. b - 1 : k \in c .. a - 1 \/ k \in a .. b - 1
    OBVIOUS
  <2>2. QED
    BY <1>3, <1>4, <2>1
<1>6. c \in 0 .. b
  OBVIOUS
<1>7. LineBeg(str, b) = c
  BY <1>4, <1>5, <1>6, LineBegUnique
<1>8. QED
  BY <1>3, <1>4, <1>7

\* Without a newline between them two offsets have the same number before them.
LEMMA RankSame ==
    ASSUME NEW str, Len(str) \in Nat,
           NEW a \in 0 .. Len(str), NEW b \in 0 .. a,
           \A k \in b .. a - 1 : str[k + 1] # "newline"
    PROVE  Rank(Newlines(str), b) = Rank(Newlines(str), a)
<1>1. ASSUME NEW j \in Newlines(str) PROVE j < b <=> j < a
  <2>1. j \in Nat /\ str[j + 1] = "newline"
    BY DEF Newlines, NewlinesIn
  <2>2. j \notin b .. a - 1
    BY <2>1
  <2>3. QED
    BY <2>1, <2>2
<1>2. Below(Newlines(str), b) = Below(Newlines(str), a)
  BY <1>1 DEF Below
<1>3. QED
  BY <1>2 DEF Rank

\* The end of a line: the first newline from an offset on, or of the text.
LineEnd(str, off) == Min(NewlinesIn(str, off, Len(str) - 1) \cup {Len(str)})

\* The end of a line: no newline between the offset and it, and there a newline
\* or the end of the text.
LEMMA LineEndIs ==
    ASSUME NEW str, Len(str) \in Nat, NEW off \in 0 .. Len(str)
    PROVE  /\ LineEnd(str, off) \in off .. Len(str)
           /\ LineEnd(str, off) # Len(str) => str[LineEnd(str, off) + 1] = "newline"
           /\ \A k \in off .. LineEnd(str, off) - 1 : str[k + 1] # "newline"
<1> DEFINE S == NewlinesIn(str, off, Len(str) - 1) \cup {Len(str)}
<1>1. S \subseteq Nat /\ S # {}
  BY DEF NewlinesIn
<1>2. PICK m \in S : m = Min(S) /\ \A y \in S : m <= y
  BY <1>1, MinIs
<1>3. m \in off .. Len(str) /\ (m # Len(str) => str[m + 1] = "newline")
  BY <1>2 DEF NewlinesIn
<1>4. ASSUME NEW k \in off .. m - 1 PROVE str[k + 1] # "newline"
  <2>1. k \in off .. Len(str) - 1 /\ ~ (m <= k)
    BY <1>3
  <2>2. k \notin S
    BY <1>2, <2>1
  <2>3. QED
    BY <2>1, <2>2 DEF NewlinesIn
<1>5. m = LineEnd(str, off)
  BY <1>2 DEF LineEnd
<1>6. QED
  BY <1>3, <1>4, <1>5

\* The span of a token: not empty, with a newline neither first nor last.
LEMMA SpanIs ==
    ASSUME NEW str, Len(str) \in Nat, NEW s \in TokenSpans(str)
    PROVE  \E from \in 0 .. Len(str) - 1, to \in 1 .. Len(str) :
               /\ from < to
               /\ s = MakeSpan(PosAt(str, from), PosAt(str, to))
               /\ str[from + 1] # "newline" /\ str[to] # "newline"
<1>1. PICK i \in 1 .. Len(str), j \in 1 .. Len(str) :
          /\ i <= j /\ str[i] # "newline" /\ str[j] # "newline"
          /\ s = MakeSpan(PosAt(str, i - 1), PosAt(str, j))
  BY DEF TokenSpans
<1>2. i - 1 \in 0 .. Len(str) - 1 /\ i - 1 < j /\ (i - 1) + 1 = i
  BY <1>1
<1>3. QED
  BY <1>1, <1>2
-----------------------------------------------------------------------------
(***************************************************************************)
(* Lines: their number, their first offset and the end.                    *)
(***************************************************************************)
IsLineOf(str, num, b, e) ==
    /\ b \in 0 .. Len(str) /\ e \in b .. Len(str)
    /\ b # 0 => str[b] = "newline"
    /\ e # Len(str) => str[e + 1] = "newline"
    /\ \A k \in b .. e - 1 : str[k + 1] # "newline"
    /\ num \in Nat /\ num = Rank(Newlines(str), b) + 1

\* The lines begin at 0 and after each newline.
LEMMA Begs ==
    ASSUME Len(text) \in Nat
    PROVE  /\ LineBegs \subseteq 0 .. Len(text) /\ IsFiniteSet(LineBegs)
           /\ Cardinality(LineBegs) = Cardinality(Newlines(text)) + 1
           /\ \A b \in LineBegs : Rank(LineBegs, b) = Rank(Newlines(text), b)
<1> DEFINE N == Newlines(text)
           Up(S) == { k + 1 : k \in S }
<1>1. N \subseteq Nat /\ IsFiniteSet(N) /\ N \subseteq 0 .. Len(text) - 1
  BY NewlinesSet
<1>2. LineBegs = {0} \cup Up(N)
  <2>1. \A i : i \in 1 .. Len(text) /\ text[i] = "newline" <=> i \in Up(N)
    <3>1. ASSUME NEW i \in 1 .. Len(text), text[i] = "newline" PROVE i \in Up(N)
      <4>1. i - 1 \in 0 .. Len(text) - 1 /\ (i - 1) + 1 = i
        OBVIOUS
      <4>2. i - 1 \in N
        BY <3>1, <4>1 DEF Newlines, NewlinesIn
      <4>3. QED
        BY <4>1, <4>2
    <3>2. ASSUME NEW k \in N PROVE k + 1 \in 1 .. Len(text) /\ text[k + 1] = "newline"
      <4>1. k \in 0 .. Len(text) - 1 /\ text[k + 1] = "newline"
        BY DEF Newlines, NewlinesIn
      <4>2. QED
        BY <4>1
    <3>3. QED
      BY <3>1, <3>2
  <2>2. QED
    BY <2>1 DEF LineBegs
<1>3. \A S \in SUBSET N : /\ IsFiniteSet({0} \cup Up(S))
                          /\ Cardinality({0} \cup Up(S)) = Cardinality(S) + 1
  <2>1. SUFFICES ASSUME NEW S \in SUBSET N
                 PROVE  /\ IsFiniteSet({0} \cup Up(S))
                        /\ Cardinality({0} \cup Up(S)) = Cardinality(S) + 1
    OBVIOUS
  <2>2. S \subseteq Nat /\ IsFiniteSet(S)
    BY <1>1, FS_Subset
  <2>3. IsFiniteSet(Up(S)) /\ Cardinality(Up(S)) = Cardinality(S)
    BY <2>2, Shifted
  <2>4. IsFiniteSet({0}) /\ Cardinality({0}) = 1 /\ {0} \cap Up(S) = {}
    <3>0. \A k \in S : k + 1 # 0
      BY <2>2
    <3>1. {0} \cap Up(S) = {}
      BY <3>0
    <3>2. QED
      BY <3>1, FS_Singleton
  <2>5. /\ IsFiniteSet({0} \cup Up(S))
        /\ Cardinality({0} \cup Up(S)) = 1 + Cardinality(S)
    <3> HIDE DEF Up
    <3>1. QED
      BY <2>3, <2>4, Parts, SMTT(20)
  <2>6. Cardinality(S) \in Nat
    BY <2>2, FS_CardinalityType
  <2>7. QED
    BY <2>5, <2>6
<1>4. /\ LineBegs \subseteq 0 .. Len(text) /\ IsFiniteSet(LineBegs)
      /\ Cardinality(LineBegs) = Cardinality(N) + 1
  <2>1. N \in SUBSET N
    OBVIOUS
  <2>2. LineBegs \subseteq 0 .. Len(text)
    BY DEF LineBegs
  <2>3. QED
    <3> HIDE DEF N, Up
    <3>1. QED
      BY <1>2, <1>3, <2>1, <2>2
<1>5. ASSUME NEW b \in LineBegs PROVE Rank(LineBegs, b) = Rank(N, b)
  <2>1. CASE b = 0
    <3>1. Below(LineBegs, 0) = {}
      <4>1. \A j \in LineBegs : ~ (j < 0)
        BY <1>4
      <4>2. QED
        BY <4>1 DEF Below
    <3>2. Below(N, 0) = {}
      <4>1. \A j \in N : ~ (j < 0)
        BY <1>1
      <4>2. QED
        BY <4>1 DEF Below
    <3>3. QED
      BY <2>1, <3>1, <3>2 DEF Rank
  <2>2. CASE b # 0
    <3>1. PICK k \in N : b = k + 1
      BY <1>2, <2>2
    <3>2. Below(LineBegs, b) = {0} \cup Up(Below(N, k))
      <4>1. \A i \in N : i \in Nat /\ k \in Nat /\ (i + 1 < k + 1 <=> i < k)
        BY <1>1
      <4>2. \A i \in Up(N) : i < b <=> i \in Up(Below(N, k))
        <5>1. ASSUME NEW j \in N PROVE j + 1 < b <=> j + 1 \in Up(Below(N, k))
          <6>1. j + 1 \in Up(Below(N, k)) <=> \E i \in Below(N, k) : i + 1 = j + 1
            OBVIOUS
          <6>2. \A i \in N : i + 1 = j + 1 <=> i = j
            BY <1>1
          <6>3. j + 1 \in Up(Below(N, k)) <=> j \in Below(N, k)
            BY <6>1, <6>2 DEF Below
          <6>4. QED
            BY <3>1, <4>1, <6>3 DEF Below
        <5>2. QED
          BY <5>1
      <4>3. 0 < b /\ Up(Below(N, k)) \subseteq Up(N)
        BY <3>1, <4>1 DEF Below
      <4>4. QED
        <5> HIDE DEF Up, N
        <5>1. QED
          BY <1>2, <4>2, <4>3 DEF Below
    <3>3. Below(N, k) \in SUBSET N
      BY DEF Below
    <3>4. Rank(LineBegs, b) = Rank(N, k) + 1
      <4> HIDE DEF Up, N
      <4>1. QED
        BY <1>3, <3>2, <3>3 DEF Rank
    <3>5. Rank(N, k + 1) = Rank(N, k) + 1
      BY <1>1, Around
    <3>6. QED
      BY <3>1, <3>4, <3>5
  <2>3. QED
    BY <2>1, <2>2
<1>6. QED
  BY <1>4, <1>5

\* A line with a number is the line LineNumbered has for it, and the last
\* that is not empty has the number LineCount.
LEMMA LineIs ==
    ASSUME Len(text) \in Nat, NEW num, NEW b, NEW e, IsLineOf(text, num, b, e)
    PROVE  /\ LineNumbered(num) = MakeStrSlice(b, e)
           /\ num \in 1 .. Cardinality(LineBegs)
           /\ LineCount \in Nat
           /\ b # Len(text) => num <= LineCount
           /\ b = Len(text) => num = LineCount + 1
<1> DEFINE N == Newlines(text)
<1>1. /\ LineBegs \subseteq 0 .. Len(text) /\ IsFiniteSet(LineBegs)
      /\ Rank(LineBegs, b) = Rank(N, b) /\ b \in LineBegs
  <2>1. b \in LineBegs
    BY DEF IsLineOf, LineBegs
  <2>2. QED
    BY <2>1, Begs
<1>2. LineBegs \subseteq Nat /\ Rank(LineBegs, b) = num - 1 /\ Rank(LineBegs, b) \in Nat
  <2>1. Rank(LineBegs, b) \in Nat
    BY <1>1, Counts
  <2>2. num = Rank(LineBegs, b) + 1
    BY <1>1 DEF IsLineOf
  <2>3. QED
    BY <1>1, <2>1, <2>2
<1>3. (CHOOSE k \in LineBegs : HasBelow(LineBegs, num - 1, k)) = b
  <2>1. \A k \in LineBegs : HasBelow(LineBegs, num - 1, k) <=> Rank(LineBegs, k) = num - 1
    BY DEF HasBelow, Rank, Below
  <2>2. \A k \in LineBegs : Rank(LineBegs, k) = num - 1 <=> k = b
    BY <1>1, <1>2, RankUnique
  <2>3. QED
    BY <1>1, <2>1, <2>2
<1> DEFINE E == { k \in b .. Len(text) : k = Len(text) \/ text[k + 1] = "newline" }
<1>4. Min(E) = e
  <2>1. e \in E /\ E \subseteq Nat
    BY DEF IsLineOf
  <2>2. \A k \in E : e <= k
    <3>1. SUFFICES ASSUME NEW k \in E, ~ (e <= k) PROVE FALSE
      OBVIOUS
    <3>2. e \in Nat /\ e <= Len(text) /\ b \in Nat
      BY DEF IsLineOf
    <3>3. k \in b .. e - 1 /\ k # Len(text) /\ text[k + 1] = "newline"
      BY <3>1, <3>2
    <3>4. QED
      BY <3>3 DEF IsLineOf
  <2>3. QED
    BY <2>1, <2>2, MinIs
<1>5. LineNumbered(num) = MakeStrSlice(b, e)
  BY <1>3, <1>4 DEF LineNumbered
<1>6. num \in 1 .. Cardinality(LineBegs)
  <2>1. Cardinality(LineBegs) = Rank(LineBegs, b) + 1 + Cardinality(Above(LineBegs, b))
    BY <1>1, <1>2, Around
  <2>2. Cardinality(Above(LineBegs, b)) \in Nat
    BY <1>1, Counts
  <2>3. num \in Nat
    BY DEF IsLineOf
  <2>4. QED
    BY <1>2, <2>1, <2>2, <2>3
<1> DEFINE M == LineBegs \ {Len(text)}
<1>7. IsFiniteSet(M) /\ M \subseteq Nat /\ LineCount = Cardinality(M) /\ LineCount \in Nat
  BY <1>1, <1>2, FS_Difference, FS_CardinalityType DEF LineCount
<1>8. num \in Nat /\ b \in Nat
  BY DEF IsLineOf
<1>9. ASSUME b # Len(text) PROVE num <= LineCount
  <2>1. b \in M
    BY <1>1, <1>9
  <2>2. Cardinality(M) = Rank(M, b) + 1 + Cardinality(Above(M, b))
    BY <1>7, <2>1, Around
  <2>3. Below(M, b) = Below(LineBegs, b)
    <3>1. ~ (Len(text) < b)
      BY DEF IsLineOf
    <3>2. QED
      BY <3>1 DEF Below
  <2>4. Rank(M, b) = num - 1
    BY <1>2, <2>3 DEF Rank
  <2>5. Cardinality(Above(M, b)) \in Nat
    BY <1>7, Counts
  <2>6. QED
    BY <1>7, <1>8, <2>2, <2>4, <2>5
<1>10. ASSUME b = Len(text) PROVE num = LineCount + 1
  <2>1. M = Below(LineBegs, b)
    <3>1. \A j \in LineBegs : j < Len(text) <=> j # Len(text)
      BY <1>1
    <3>2. QED
      BY <1>10, <3>1 DEF Below
  <2>2. Rank(LineBegs, b) = LineCount
    BY <1>7, <2>1 DEF Rank
  <2>3. QED
    BY <1>2, <1>7, <1>8, <2>2
<1>11. QED
  BY <1>5, <1>6, <1>7, <1>9, <1>10
-----------------------------------------------------------------------------
(***************************************************************************)
(* The lines around a span.                                                *)
(***************************************************************************)
\* A span on one line of the text.
OnOneLine == /\ text \in Texts /\ span \in TokenSpans(text)
             /\ SpanLine(span, text) # StrSliceNull

\* What is known of such a span.
SpanAt(from, to) ==
    /\ from \in 0 .. Len(text) - 1 /\ to \in 1 .. Len(text) /\ from < to
    /\ span = MakeSpan(PosAt(text, from), PosAt(text, to))
    /\ span.beg.off = from /\ span.end.off = to
    /\ span.beg.line = Rank(Newlines(text), from)
    /\ span.end.line = Rank(Newlines(text), to)
    /\ span.beg.line \in Nat
    /\ span.beg.col = from - LineBeg(text, from)
    /\ span.end.col = to - LineBeg(text, to)
    /\ text[from + 1] # "newline"
    /\ Len(text) \in Nat

\* The span has the two offsets the code made it of.
LEMMA SpanIsAt ==
    ASSUME text \in Texts, span \in TokenSpans(text)
    PROVE  \E from, to : SpanAt(from, to)
<1>1. Len(text) \in Nat
  BY TextIs
<1>2. PICK from \in 0 .. Len(text) - 1, to \in 1 .. Len(text) :
          /\ from < to
          /\ span = MakeSpan(PosAt(text, from), PosAt(text, to))
          /\ text[from + 1] # "newline" /\ text[to] # "newline"
  BY <1>1, SpanIs
<1>3. from \in 0 .. Len(text) /\ to \in 0 .. Len(text)
  BY <1>1
<1>4. /\ PosAt(text, from) = MakePos(from, Rank(Newlines(text), from),
                                     from - LineBeg(text, from))
      /\ PosAt(text, to) = MakePos(to, Rank(Newlines(text), to),
                                   to - LineBeg(text, to))
      /\ Rank(Newlines(text), from) \in Nat
  BY <1>1, <1>3, LineIsRank
<1>5. SpanAt(from, to)
  BY <1>1, <1>2, <1>4 DEF SpanAt, MakeSpan, MakePos
<1>6. QED
  BY <1>5

\* span_line: the line of that number, in which the span lies.
LEMMA SpanLineIs ==
    ASSUME OnOneLine, NEW from, NEW to, SpanAt(from, to)
    PROVE  \E b \in 0 .. from, e \in to .. Len(text) :
               /\ SpanLine(span, text) = MakeStrSlice(b, e)
               /\ IsLineOf(text, span.beg.line + 1, b, e)
               /\ b = LineBeg(text, from) /\ b = LineBeg(text, to)
               /\ span.beg.line = span.end.line
<1>1. span.beg.line = span.end.line
  BY DEF OnOneLine, SpanLine
<1>2. /\ from \in 0 .. Len(text) /\ to \in 0 .. Len(text) /\ Len(text) \in Nat
      /\ from < to /\ from <= to /\ from < Len(text)
  BY DEF SpanAt
<1>3. /\ \A k \in from .. to - 1 : text[k + 1] # "newline"
      /\ LineBeg(text, from) = LineBeg(text, to)
  BY <1>1, <1>2, SameLine DEF SpanAt
<1>4. PICK b \in 0 .. from : /\ b = LineBeg(text, from)
                             /\ b # 0 => text[b] = "newline"
                             /\ \A k \in b .. from - 1 : text[k + 1] # "newline"
  BY <1>2, LineBegIs
<1>5. PICK e \in to .. Len(text) : /\ e = LineEnd(text, to)
                                   /\ e # Len(text) => text[e + 1] = "newline"
                                   /\ \A k \in to .. e - 1 : text[k + 1] # "newline"
  BY <1>2, LineEndIs
<1>6. NewlinesIn(text, 0, from) = NewlinesIn(text, 0, from - 1)
  <2>1. \A k : k \in 0 .. from <=> k \in 0 .. from - 1 \/ k = from
    BY <1>2
  <2>2. text[from + 1] # "newline"
    BY DEF SpanAt
  <2>3. QED
    BY <2>1, <2>2 DEF NewlinesIn
<1>7. SpanLine(span, text) = MakeStrSlice(b, e)
  BY <1>1, <1>4, <1>5, <1>6 DEF SpanLine, SpanAt, LineBeg, LineEnd
<1>8. \A k \in b .. e - 1 : text[k + 1] # "newline"
  <2>1. \A k \in b .. e - 1 : \/ k \in b .. from - 1
                              \/ k \in from .. to - 1
                              \/ k \in to .. e - 1
    BY <1>2
  <2>2. QED
    BY <1>3, <1>4, <1>5, <2>1
<1>9. Rank(Newlines(text), b) = Rank(Newlines(text), from)
  BY <1>2, <1>4, RankSame
<1>10. IsLineOf(text, span.beg.line + 1, b, e)
  <2>1. b \in 0 .. Len(text) /\ e \in b .. Len(text)
    BY <1>2
  <2>2. span.beg.line + 1 \in Nat /\ span.beg.line + 1 = Rank(Newlines(text), b) + 1
    BY <1>9 DEF SpanAt
  <2>3. QED
    BY <1>4, <1>5, <1>8, <2>1, <2>2 DEF IsLineOf
<1>11. QED
  BY <1>1, <1>3, <1>4, <1>5, <1>7, <1>10

\* span_line_before: the line n + 1 before, with the newline before it if it
\* is line 2 and line 1 is empty.
LEMMA SpanLineBeforeIs ==
    ASSUME OnOneLine, NEW from, NEW to, SpanAt(from, to),
           NEW n \in Nat, n < span.beg.line
    PROVE  \E b, e :
               /\ IsLineOf(text, span.beg.line - n, b, e)
               /\ SpanLineBefore(span, text, n) =
                      IF span.beg.line - n = 2 /\ text[1] = "newline"
                      THEN MakeStrSlice(0, e) ELSE MakeStrSlice(b, e)
<1> DEFINE N == Newlines(text)
           M == Below(N, from)
           P == NewlinesIn(text, 1, from)
<1>1. /\ from \in 0 .. Len(text) /\ from < Len(text) /\ Len(text) \in Nat
      /\ text[from + 1] # "newline"
      /\ span.beg.line = Cardinality(M) /\ span.beg.line \in Nat
      /\ span.beg.off = from
  BY DEF SpanAt, Rank
<1>2. /\ N \subseteq Nat /\ IsFiniteSet(N)
      /\ M \subseteq Nat /\ IsFiniteSet(M) /\ M \subseteq N
  <2>1. N \subseteq Nat /\ IsFiniteSet(N)
    BY <1>1, NewlinesSet
  <2>2. M \subseteq N
    BY DEF Below
  <2>3. QED
    BY <2>1, <2>2, FS_Subset
<1>3. \A k : k \in M <=> k \in 0 .. from - 1 /\ text[k + 1] = "newline"
  <2>1. M = NewlinesIn(text, 0, from - 1)
    BY <1>1, LineIsRank
  <2>2. QED
    BY <2>1 DEF NewlinesIn
<1>4. \A k : k \in P <=> k \in M /\ k # 0
  <2>1. \A k : k \in 1 .. from <=> (k \in 0 .. from - 1 \/ k = from) /\ k # 0
    BY <1>1
  <2>2. QED
    BY <1>1, <1>3, <2>1 DEF NewlinesIn
<1>5. \A k \in P : HasAbove(P, n, k) <=> Cardinality(Above(M, k)) = n
  <2>1. \A k \in P : Above(M, k) = { j \in P : j > k }
    <3>1. \A k \in P, j \in M : j > k => j # 0
      BY <1>2, <1>4
    <3>2. QED
      BY <1>4, <3>1 DEF Above
  <2>2. QED
    BY <2>1 DEF HasAbove
<1>6. PICK k0 \in M : Rank(M, k0) = span.beg.line - 1 - n
  <2>1. span.beg.line - 1 - n \in Nat /\ span.beg.line - 1 - n < Cardinality(M)
    BY <1>1
  <2>2. QED
    BY <1>2, <2>1, RankExists
<1>7. \A k \in M : Cardinality(Above(M, k)) = n <=> k = k0
  <2>1. SUFFICES ASSUME NEW k \in M PROVE Cardinality(Above(M, k)) = n <=> k = k0
    OBVIOUS
  <2>2. Cardinality(M) = Rank(M, k) + 1 + Cardinality(Above(M, k))
    BY <1>2, Around
  <2>3. Rank(M, k) \in Nat /\ Cardinality(Above(M, k)) \in Nat
    BY <1>2, Counts
  <2>4. Cardinality(Above(M, k)) = n <=> Rank(M, k) = span.beg.line - 1 - n
    BY <1>1, <2>2, <2>3
  <2>5. QED
    BY <1>2, <1>6, <2>4, RankUnique
<1> DEFINE ends == { k \in P : HasAbove(P, n, k) }
<1>8. /\ k0 # 0 => ends = {k0}
      /\ k0 = 0 => ends = {}
  BY <1>4, <1>5, <1>7
<1>9. k0 \in 0 .. from - 1 /\ text[k0 + 1] = "newline" /\ k0 \in N
  BY <1>2, <1>3
<1>10. span.beg.line # 0 /\ span.beg.line - n \in Nat
  BY <1>1
<1>11. Rank(N, k0) = span.beg.line - 1 - n
  <2>1. Below(N, k0) = Below(M, k0)
    <3>1. \A j \in N : j < k0 => j < from
      BY <1>1, <1>2, <1>9
    <3>2. QED
      BY <3>1 DEF Below
  <2>2. QED
    BY <1>6, <2>1 DEF Rank
<1>12. k0 \in 0 .. Len(text) /\ k0 < Len(text)
  BY <1>1, <1>9
<1>13. CASE k0 = 0
  <2>1. SpanLineBefore(span, text, n) = MakeStrSlice(0, 0)
    BY <1>1, <1>8, <1>10, <1>13 DEF SpanLineBefore
  <2>2. span.beg.line - n = 1 /\ Rank(N, 0) = 0
    <3>1. Below(N, 0) = {}
      <4>1. \A j \in N : ~ (j < 0)
        BY <1>2
      <4>2. QED
        BY <4>1 DEF Below
    <3>2. Rank(N, 0) = 0
      BY <3>1, FS_EmptySet DEF Rank
    <3>3. QED
      BY <1>1, <1>11, <1>13, <3>2
  <2>3. IsLineOf(text, span.beg.line - n, 0, 0)
    BY <1>9, <1>12, <1>13, <2>2 DEF IsLineOf
  <2>4. QED
    BY <2>1, <2>2, <2>3
<1>14. CASE k0 # 0
  <2>1. PICK b \in 0 .. k0 : /\ b = LineBeg(text, k0)
                             /\ b # 0 => text[b] = "newline"
                             /\ \A k \in b .. k0 - 1 : text[k + 1] # "newline"
    BY <1>1, <1>12, LineBegIs
  <2>2. Rank(N, b) = Rank(N, k0)
    BY <1>1, <1>12, <2>1, RankSame
  <2>3. IsLineOf(text, span.beg.line - n, b, k0)
    <3>1. b \in 0 .. Len(text) /\ k0 \in b .. Len(text)
      BY <1>12
    <3>2. span.beg.line - n = Rank(N, b) + 1
      BY <1>1, <1>11, <2>2
    <3>3. QED
      BY <1>9, <1>10, <2>1, <3>1, <3>2 DEF IsLineOf
  <2> DEFINE T == { k + 1 : k \in NewlinesIn(text, 1, k0 - 1) } \cup {0}
  <2>4. SpanLineBefore(span, text, n) = MakeStrSlice(Max(T), k0)
    <3>1. Max(ends) = k0
      <4>1. ends \subseteq Nat
        BY <1>8, <1>12, <1>14
      <4>2. k0 \in ends /\ \A y \in ends : y <= k0
        BY <1>8, <1>12, <1>14
      <4>3. QED
        <5> HIDE DEF ends
        <5>1. QED
          BY <1>12, <4>1, <4>2, MaxOf
    <3>2. ends # {}
      BY <1>8, <1>14
    <3>3. QED
      BY <1>1, <1>10, <3>1, <3>2 DEF SpanLineBefore
  <2>5. \A y \in T : y \in 0 .. k0 /\ y <= b
    <3>1. ASSUME NEW k \in NewlinesIn(text, 1, k0 - 1) PROVE k + 1 \in 0 .. k0 /\ k + 1 <= b
      <4>1. k \in 1 .. k0 - 1 /\ text[k + 1] = "newline"
        BY DEF NewlinesIn
      <4>2. k \notin b .. k0 - 1
        BY <2>1, <4>1
      <4>3. QED
        BY <1>12, <4>1, <4>2
    <3>2. 0 \in 0 .. k0 /\ 0 <= b
      BY <1>12
    <3>3. QED
      BY <3>1, <3>2
  <2>6. b \in {0} \/ b >= 2 => b \in T
    <3>1. CASE b >= 2
      <4>1. b - 1 \in 1 .. k0 - 1 /\ (b - 1) + 1 = b /\ text[b] = "newline"
        BY <1>12, <2>1, <3>1
      <4>2. b - 1 \in NewlinesIn(text, 1, k0 - 1)
        BY <4>1 DEF NewlinesIn
      <4>3. QED
        BY <4>1, <4>2
    <3>2. QED
      BY <3>1
  <2>7. b \in T => Max(T) = b
    <3> HIDE DEF T
    <3>1. T \subseteq Nat /\ k0 \in Nat /\ \A y \in T : y <= k0
      BY <1>12, <2>5
    <3>2. QED
      BY <2>5, <3>1, MaxOf
  <2>8. CASE b = 0
    <3>1. text[1] # "newline"
      <4>1. 0 \in b .. k0 - 1
        BY <1>12, <1>14, <2>8
      <4>2. QED
        BY <2>1, <4>1
    <3>2. QED
      BY <2>3, <2>4, <2>6, <2>7, <2>8, <3>1
  <2>9. CASE b = 1
    <3>1. text[1] = "newline"
      BY <2>1, <2>9
    <3>2. Rank(N, 1) = 1
      <4>1. 0 \in N
        BY <1>1, <3>1 DEF Newlines, NewlinesIn
      <4>2. Below(N, 0) = {}
        <5>1. \A j \in N : ~ (j < 0)
          BY <1>2
        <5>2. QED
          BY <5>1 DEF Below
      <4>3. Rank(N, 0) = 0
        BY <4>2, FS_EmptySet DEF Rank
      <4>4. Rank(N, 0 + 1) = Rank(N, 0) + 1
        BY <1>2, <4>1, Around
      <4>5. QED
        BY <4>3, <4>4
    <3>3. span.beg.line - n = 2
      BY <1>1, <1>11, <2>2, <2>9, <3>2
    <3>4. Max(T) = 0
      <4>1. \A y \in T : y = 0
        <5>1. ASSUME NEW k \in NewlinesIn(text, 1, k0 - 1) PROVE FALSE
          <6>1. k \in b .. k0 - 1 /\ text[k + 1] = "newline"
            BY <2>9 DEF NewlinesIn
          <6>2. QED
            BY <2>1, <6>1
        <5>2. QED
          BY <5>1
      <4>2. T = {0}
        BY <4>1
      <4>3. 0 \in T /\ T \subseteq Nat /\ \A y \in T : y <= 0
        BY <4>2
      <4>4. QED
        <5> HIDE DEF T
        <5>1. QED
          BY <4>3, MaxOf
    <3>5. QED
      BY <2>3, <2>4, <3>1, <3>3, <3>4
  <2>10. CASE b >= 2
    <3>1. text[1] = "newline" => span.beg.line - n # 2
      <4>1. SUFFICES ASSUME text[1] = "newline" PROVE span.beg.line - n # 2
        OBVIOUS
      <4>2. 0 \in N
        BY <1>1, <4>1 DEF Newlines, NewlinesIn
      <4>3. b - 1 \in N /\ (b - 1) + 1 = b /\ 0 < b - 1
        <5>1. b - 1 \in 0 .. Len(text) - 1 /\ (b - 1) + 1 = b /\ 0 < b - 1
          BY <1>12, <2>10
        <5>2. QED
          BY <2>1, <2>10, <5>1 DEF Newlines, NewlinesIn
      <4>4. PICK c \in N : c = b - 1
        BY <4>3
      <4>5. Rank(N, 0) < Rank(N, c) /\ Rank(N, c + 1) = Rank(N, c) + 1
        BY <1>2, <4>2, <4>3, <4>4, RankGrows, Around
      <4>6. Rank(N, 0) \in Nat /\ Rank(N, c) \in Nat
        BY <1>2, Counts
      <4>7. Rank(N, b) = Rank(N, c) + 1
        BY <4>3, <4>4, <4>5
      <4>8. QED
        BY <1>1, <1>11, <2>2, <4>5, <4>6, <4>7
    <3>2. QED
      BY <2>3, <2>4, <2>6, <2>7, <2>10, <3>1
  <2>11. QED
    BY <1>12, <2>8, <2>9, <2>10
<1>15. QED
  BY <1>13, <1>14

\* span_line_after: the line n + 1 after, with the line after it if it is
\* empty; nothing if the text has no such line, or an empty one at its end.
LEMMA SpanLineAfterIs ==
    ASSUME OnOneLine, NEW from, NEW to, SpanAt(from, to), NEW n \in Nat
    PROVE  LET num == span.beg.line + 2 + n
               slice == SpanLineAfter(span, text, n)
           IN  /\ slice # StrSliceNull <=> num <= LineCount
               /\ slice # StrSliceNull =>
                     \E b, e, shown :
                         /\ IsLineOf(text, num, b, e)
                         /\ slice = MakeStrSlice(b, shown)
                         /\ shown \in e .. Len(text)
                         /\ b # e => shown = e
                         /\ b = e => /\ num < Cardinality(LineBegs)
                                     /\ shown = LineNumbered(num + 1).end
<1> DEFINE N == Newlines(text)
           R == NewlinesIn(text, to, Len(text) - 1)
           num == span.beg.line + 2 + n
           slice == SpanLineAfter(span, text, n)
<1>1. /\ to \in 0 .. Len(text) /\ Len(text) \in Nat /\ to \in Nat
      /\ Rank(N, to) = span.beg.line /\ span.beg.line \in Nat
      /\ span.end.off = to
  <2>1. span.beg.line = span.end.line
    BY SpanLineIs
  <2>2. QED
    BY <2>1 DEF SpanAt
<1>2. /\ N \subseteq Nat /\ IsFiniteSet(N)
      /\ R \subseteq N /\ R \subseteq Nat /\ IsFiniteSet(R)
  <2>1. N \subseteq Nat /\ IsFiniteSet(N)
    BY <1>1, NewlinesSet
  <2>2. R \subseteq N
    BY <1>1 DEF Newlines, NewlinesIn
  <2>3. QED
    BY <2>1, <2>2, FS_Subset
<1>3. \A j \in N : j \in R <=> ~ (j < to)
  BY <1>1 DEF Newlines, NewlinesIn
<1>4. /\ IsFiniteSet(Below(N, to))
      /\ Cardinality(N) = span.beg.line + Cardinality(R)
      /\ \A k \in R : Rank(N, k) = span.beg.line + Rank(R, k)
  <2>1. IsFiniteSet(Below(N, to))
    BY <1>2, Counts
  <2>2. N = Below(N, to) \cup R /\ Below(N, to) \cap R = {}
    BY <1>2, <1>3 DEF Below
  <2>3. Cardinality(N) = span.beg.line + Cardinality(R)
    <3>1. Cardinality(Below(N, to) \cup R) = Cardinality(Below(N, to)) + Cardinality(R)
      BY <1>2, <2>1, <2>2, Parts
    <3>2. QED
      BY <1>1, <2>2, <3>1 DEF Rank
  <2>4. ASSUME NEW k \in R PROVE Rank(N, k) = span.beg.line + Rank(R, k)
    <3>1. \A j \in N : j < k <=> j < to \/ (j \in R /\ j < k)
      <4>1. k \in Nat /\ ~ (k < to)
        BY <1>2, <1>3
      <4>2. QED
        BY <1>1, <1>2, <1>3, <4>1
    <3>2. Below(N, k) = Below(N, to) \cup Below(R, k)
      BY <1>2, <3>1 DEF Below
    <3>3. Below(N, to) \cap Below(R, k) = {}
      BY <2>2 DEF Below
    <3>4. IsFiniteSet(Below(R, k))
      BY <1>2, Counts
    <3>5. Cardinality(Below(N, to) \cup Below(R, k))
            = Cardinality(Below(N, to)) + Cardinality(Below(R, k))
      BY <2>1, <3>3, <3>4, Parts
    <3>6. QED
      BY <1>1, <3>2, <3>5 DEF Rank
  <2>5. QED
    BY <2>1, <2>3, <2>4
<1> DEFINE ranked == { j \in R : HasBelow(R, n, j) }
           begs == { k + 1 : k \in ranked }
<1>5. ranked = { j \in R : Rank(R, j) = n }
  BY DEF HasBelow, Rank, Below
<1>6. Cardinality(R) \in Nat
  BY <1>2, FS_CardinalityType
<1>7. CASE ~ (n < Cardinality(R))
  <2>1. ranked = {}
    <3>1. SUFFICES ASSUME NEW j \in R, Rank(R, j) = n PROVE FALSE
      BY <1>5
    <3>2. Cardinality(R) = Rank(R, j) + 1 + Cardinality(Above(R, j))
      BY <1>2, Around
    <3>3. Cardinality(Above(R, j)) \in Nat
      BY <1>2, Counts
    <3>4. QED
      BY <1>6, <1>7, <3>1, <3>2, <3>3
  <2>2. slice = StrSliceNull
    <3>1. begs = {}
      BY <2>1
    <3>2. QED
      BY <1>1, <3>1 DEF SpanLineAfter
  <2>3. ~ (num <= LineCount)
    <3>1. Cardinality(LineBegs) = Cardinality(N) + 1 /\ IsFiniteSet(LineBegs)
      BY <1>1, Begs
    <3>2. LineCount \in Nat /\ LineCount <= Cardinality(LineBegs)
      <4>1. LineBegs \ {Len(text)} \in SUBSET LineBegs
        OBVIOUS
      <4>2. QED
        BY <3>1, <4>1, FS_Subset, FS_CardinalityType DEF LineCount
    <3>3. QED
      BY <1>1, <1>4, <1>6, <1>7, <3>1, <3>2
  <2>4. QED
    BY <2>2, <2>3
<1>8. CASE n < Cardinality(R)
  <2>1. PICK k \in R : Rank(R, k) = n
    BY <1>2, <1>8, RankExists
  <2>2. ranked = {k}
    BY <1>2, <1>5, <2>1, RankUnique
  <2>3. PICK b : b = k + 1 /\ b \in 1 .. Len(text) /\ text[b] = "newline" /\ begs = {b}
    <3>1. k \in 0 .. Len(text) - 1 /\ text[k + 1] = "newline"
      BY <1>1 DEF NewlinesIn
    <3>2. k + 1 \in 1 .. Len(text)
      BY <1>1, <3>1
    <3>3. QED
      BY <2>2, <3>1, <3>2
  <2>4. Max(begs) = b
    <3> HIDE DEF begs
    <3>1. begs \subseteq Nat /\ b \in begs /\ \A y \in begs : y <= b
      BY <1>1, <2>3
    <3>2. QED
      BY <3>1, MaxOf
  <2>5. Rank(N, b) = span.beg.line + n + 1 /\ num = Rank(N, b) + 1 /\ num \in Nat
    <3>1. k \in N /\ Rank(N, k) = span.beg.line + n
      BY <1>2, <1>4, <2>1
    <3>2. Rank(N, k + 1) = Rank(N, k) + 1
      BY <1>2, <3>1, Around
    <3>3. PICK l \in Nat : l = span.beg.line
      BY <1>1
    <3>4. Rank(N, b) = l + n + 1
      BY <2>3, <3>1, <3>2, <3>3, SMTT(20)
    <3>5. num = l + 2 + n
      BY <3>3
    <3>6. l + 2 + n = (l + n + 1) + 1 /\ l + 2 + n \in Nat
      BY <3>3, SMTT(20)
    <3>7. QED
      BY <3>3, <3>4, <3>5, <3>6, SMTT(20)
  <2>6. PICK e \in b .. Len(text) : /\ e # Len(text) => text[e + 1] = "newline"
                                    /\ \A j \in b .. e - 1 : text[j + 1] # "newline"
    <3>1. b \in 0 .. Len(text)
      BY <1>1, <2>3
    <3>2. QED
      BY <1>1, <3>1, LineEndIs
  <2>7. IsLineOf(text, num, b, e)
    <3>1. b \in 0 .. Len(text)
      BY <1>1, <2>3
    <3> HIDE DEF num
    <3>2. QED
      BY <2>3, <2>5, <2>6, <3>1 DEF IsLineOf
  <2>8. CASE b = Len(text)
    <3>1. slice = StrSliceNull
      BY <1>1, <2>3, <2>8 DEF SpanLineAfter
    <3>2. num = LineCount + 1 /\ LineCount \in Nat
      BY <1>1, <2>7, <2>8, LineIs
    <3>3. ~ (num <= LineCount)
      <4> HIDE DEF num
      <4>1. QED
        BY <3>2
    <3>4. QED
      BY <3>1, <3>3
  <2>9. CASE b # Len(text)
    <3>1. num <= LineCount
      BY <1>1, <2>7, <2>9, LineIs
    <3>2. b + 1 \in 0 .. Len(text) /\ b \in Nat /\ b < Len(text)
      BY <1>1, <2>3, <2>9
    <3>3. PICK shown \in b + 1 .. Len(text) :
              /\ shown = LineEnd(text, b + 1)
              /\ shown # Len(text) => text[shown + 1] = "newline"
              /\ \A j \in b + 1 .. shown - 1 : text[j + 1] # "newline"
      BY <1>1, <3>2, LineEndIs
    <3>4. slice = MakeStrSlice(b, shown)
      <4>1. begs # {} /\ Len(text) \notin begs
        BY <2>3, <2>9
      <4>2. QED
        BY <1>1, <2>4, <3>3, <4>1 DEF SpanLineAfter, LineEnd
    <3>5. slice # StrSliceNull
      <4>1. b # -1
        BY <3>2
      <4>2. QED
        BY <3>4, <4>1 DEF StrSliceNull, MakeStrSlice
    <3>6. CASE b # e
      <4>1. \A j \in b .. shown - 1 : text[j + 1] # "newline"
        <5>1. b \in b .. e - 1
          BY <3>2, <3>6
        <5>2. \A j \in b .. shown - 1 : j = b \/ j \in b + 1 .. shown - 1
          BY <3>2
        <5>3. QED
          BY <2>6, <3>3, <5>1, <5>2
      <4>2. ~ (shown < e)
        <5>1. SUFFICES ASSUME shown < e PROVE FALSE
          OBVIOUS
        <5>2. shown # Len(text) /\ shown \in b .. e - 1
          BY <1>1, <3>2, <5>1
        <5>3. QED
          BY <2>6, <3>3, <5>2
      <4>3. ~ (e < shown)
        <5>1. SUFFICES ASSUME e < shown PROVE FALSE
          OBVIOUS
        <5>2. e # Len(text) /\ e \in b .. shown - 1
          BY <1>1, <3>2, <5>1
        <5>3. QED
          BY <2>6, <4>1, <5>2
      <4>4. shown = e /\ shown \in e .. Len(text)
        BY <1>1, <3>2, <4>2, <4>3
      <4>5. QED
        BY <2>7, <3>1, <3>4, <3>5, <3>6, <4>4
    <3>7. CASE b = e
      <4>1. text[b + 1] = "newline"
        BY <2>6, <2>9, <3>7
      <4>2. b \in N
        <5>1. b \in 0 .. Len(text) - 1
          BY <1>1, <3>2
        <5>2. QED
          BY <4>1, <5>1 DEF Newlines, NewlinesIn
      <4>3. Rank(N, b + 1) = Rank(N, b) + 1
        BY <1>2, <4>2, Around
      <4>4. IsLineOf(text, num + 1, b + 1, shown)
        <5>1. num + 1 = Rank(N, b + 1) + 1 /\ num + 1 \in Nat
          <6> HIDE DEF num
          <6>1. QED
            BY <2>5, <4>3
        <5> HIDE DEF num
        <5>2. QED
          BY <3>2, <3>3, <4>1, <5>1 DEF IsLineOf
      <4>5. /\ LineNumbered(num + 1) = MakeStrSlice(b + 1, shown)
            /\ num + 1 \in 1 .. Cardinality(LineBegs)
        <5> HIDE DEF num
        <5>1. QED
          BY <1>1, <4>4, LineIs
      <4>6. LineNumbered(num + 1).end = shown /\ num < Cardinality(LineBegs)
        <5>1. LineNumbered(num + 1).end = shown
          BY <4>5 DEF MakeStrSlice
        <5>2. num < Cardinality(LineBegs)
          <6>1. Cardinality(LineBegs) \in Nat
            BY <1>1, Begs, FS_CardinalityType
          <6> HIDE DEF num
          <6>2. QED
            BY <2>5, <4>5, <6>1
        <5>3. QED
          BY <5>1, <5>2
      <4>7. shown \in e .. Len(text)
        BY <1>1, <3>2, <3>7
      <4>8. QED
        BY <2>7, <3>1, <3>4, <3>5, <3>7, <4>6, <4>7
    <3>8. QED
      BY <3>6, <3>7
  <2>10. QED
    BY <2>8, <2>9
<1>9. QED
  BY <1>7, <1>8
-----------------------------------------------------------------------------
(***************************************************************************)
(* The rows.                                                               *)
(***************************************************************************)
\* One sequence after the other.
LEMMA Joined ==
    ASSUME NEW n \in Nat, NEW m \in Nat, NEW s, NEW t,
           s = [i \in 1 .. n |-> s[i]], t = [i \in 1 .. m |-> t[i]]
    PROVE  s \o t = [i \in 1 .. n + m |-> IF i <= n THEN s[i] ELSE t[i - n]]
<1> DEFINE S == { s[i] : i \in 1 .. n } \cup { t[i] : i \in 1 .. m }
           r == [i \in 1 .. n + m |-> IF i <= n THEN s[i] ELSE t[i - n]]
<1>1. s \in Seq(S) /\ Len(s) = n
  <2>1. s \in [1 .. n -> S]
    OBVIOUS
  <2>2. QED
    BY <2>1
<1>2. t \in Seq(S) /\ Len(t) = m
  <2>1. t \in [1 .. m -> S]
    OBVIOUS
  <2>2. QED
    BY <2>1
<1> HIDE DEF S
<1>3. s \o t \in Seq(S) /\ Len(s \o t) = n + m
  BY <1>1, <1>2
<1>4. \A i \in 1 .. n + m : (s \o t)[i] = IF i <= n THEN s[i] ELSE t[i - n]
  BY <1>1, <1>2
<1>5. s \o t = [i \in 1 .. n + m |-> (s \o t)[i]]
  BY <1>3
<1>6. QED
  BY <1>4, <1>5

\* A sequence up to a place.
LEMMA UpTo ==
    ASSUME NEW S, NEW n \in Nat, NEW m \in Nat, m <= n, NEW s \in [1 .. n -> S]
    PROVE  SubSeq(s, 1, m) = [i \in 1 .. m |-> s[i]]
<1>1. s \in Seq(S) /\ Len(s) = n
  OBVIOUS
<1>2. SubSeq(s, 1, m) \in Seq(S) /\ Len(SubSeq(s, 1, m)) = m
  BY <1>1
<1>3. \A i \in 1 .. m : SubSeq(s, 1, m)[i] = s[i]
  BY <1>1
<1>4. QED
  BY <1>2, <1>3

\* What Printed keeps when the lines there are come first.
LEMMA PrintedPrefix ==
    ASSUME NEW S, NEW n \in Nat, NEW m \in Nat, m <= n, NEW rows \in [1 .. n -> S],
           \A k \in 1 .. n : rows[k].slice # StrSliceNull <=> k <= m
    PROVE  Printed(rows) = SubSeq(rows, 1, m)
<1> DEFINE lines == { k \in 1 .. Len(rows) : rows[k].slice # StrSliceNull }
<1>1. Len(rows) = n
  OBVIOUS
<1>2. lines = 1 .. m
  BY <1>1
<1>3. Cardinality(1 .. m) = m /\ IsFiniteSet(1 .. m)
  BY FS_Interval
<1>4. ASSUME NEW i \in 1 .. m
      PROVE  (CHOOSE k \in 1 .. m : HasBelow(1 .. m, i - 1, k)) = i
  <2>1. \A k \in 1 .. m : Rank(1 .. m, k) = k - 1
    <3>1. SUFFICES ASSUME NEW k \in 1 .. m PROVE Rank(1 .. m, k) = k - 1
      OBVIOUS
    <3>2. Below(1 .. m, k) = 1 .. k - 1
      BY DEF Below
    <3>3. Cardinality(1 .. k - 1) = k - 1
      <4>2. PICK j \in Nat : j = k - 1
        OBVIOUS
      <4>3. Cardinality(1 .. j) = j
        <5>1. j \in Int /\ 1 \in Int
          OBVIOUS
        <5>2. Cardinality(1 .. j) = IF 1 > j THEN 0 ELSE j - 1 + 1
          BY <5>1, FS_Interval
        <5>3. QED
          BY <5>2
      <4>4. QED
        BY <4>2, <4>3
    <3>4. QED
      BY <3>2, <3>3 DEF Rank
  <2>2. \A k \in 1 .. m : HasBelow(1 .. m, i - 1, k) <=> k = i
    <3>1. \A k \in 1 .. m : HasBelow(1 .. m, i - 1, k) <=> k - 1 = i - 1
      BY <2>1 DEF HasBelow, Rank, Below
    <3>2. QED
      BY <3>1
  <2>3. QED
    BY <2>2
<1>5. Printed(rows) = [i \in 1 .. m |-> rows[CHOOSE k \in 1 .. m : HasBelow(1 .. m, i - 1, k)]]
  <2> HIDE DEF lines
  <2>1. Printed(rows) = [i \in 1 .. Cardinality(lines) |->
                            rows[CHOOSE k \in lines : HasBelow(lines, i - 1, k)]]
    BY DEF Printed, lines
  <2>2. QED
    BY <1>2, <1>3, <2>1
<1>6. Printed(rows) = [i \in 1 .. m |-> rows[i]]
  BY <1>4, <1>5
<1>7. SubSeq(rows, 1, m) = [i \in 1 .. m |-> rows[i]]
  BY UpTo
<1>8. QED
  BY <1>6, <1>7

\* The text and the builder as they may be.
Builders == [err_msg : BOOLEAN, err_sugg : BOOLEAN, span : BOOLEAN,
             line_before : 0 .. MaxLines, line_after : 0 .. MaxLines,
             pad_line_before : 0 .. MaxPads, pad_line_after : 0 .. MaxPads]

Typed ==
    /\ text \in Texts
    /\ span \in TokenSpans(text)
    /\ builder \in Builders

\* The numbers err_builder_emit begins with.
LEMMA Asked ==
    ASSUME Typed
    PROVE  /\ builder.line_before \in Nat /\ builder.line_after \in Nat
           /\ builder.pad_line_before \in Nat /\ builder.pad_line_after \in Nat
           /\ span.beg.line \in Nat
           /\ LinesBefore \in Nat /\ LinesBefore <= span.beg.line
           /\ LinesBefore = IF builder.line_before <= span.beg.line
                            THEN builder.line_before ELSE span.beg.line
           /\ LineNumWidth \in Nat
<1>1. /\ builder.line_before \in Nat /\ builder.line_after \in Nat
      /\ builder.pad_line_before \in Nat /\ builder.pad_line_after \in Nat
  BY ErrPrinterAssumption DEF Typed, Builders
<1>2. span.beg.line \in Nat
  BY SpanIsAt DEF Typed, SpanAt
<1>3. LinesBefore = IF builder.line_before <= span.beg.line
                    THEN builder.line_before ELSE span.beg.line
  BY <1>1, <1>2, MinOfTwo DEF LinesBefore
<1>4. LineNumWidth \in Nat
  <2>1. PICK n \in Nat : n = span.beg.line + 1 + builder.line_after /\ n > 0
    BY <1>1, <1>2
  <2>2. IntWidth(n) \in 1 .. n
    BY <2>1, WidthIs
  <2>3. QED
    BY <2>1, <2>2 DEF LineNumWidth
<1>5. QED
  BY <1>1, <1>2, <1>3, <1>4

\* No number of a row is wider than the gutter.
LEMMA InGutter ==
    ASSUME Typed, NEW num \in Nat, 0 < num,
           num <= span.beg.line + 1 + builder.line_after, NEW slice
    PROVE  LineRow(LineNumWidth, num, slice) =
               [kind |-> "line", gutter |-> LineNumWidth, num |-> num, slice |-> slice]
<1>1. PICK n \in Nat : n = span.beg.line + 1 + builder.line_after /\ num <= n
  BY Asked
<1>2. IntWidth(num) \in Nat /\ IntWidth(n) \in Nat /\ IntWidth(num) <= IntWidth(n)
  BY <1>1, WidthGrows
<1>3. PICK v \in Nat, w \in Nat : v = IntWidth(num) /\ w = LineNumWidth /\ v <= w
  BY <1>1, <1>2 DEF LineNumWidth
<1>4. Max({w, v}) = w
  <2>1. Max({w, v}) = IF w <= v THEN v ELSE w
    BY MaxOfTwo
  <2>2. QED
    BY <1>3, <2>1
<1>5. QED
  BY <1>3, <1>4 DEF LineRow

\* A slice that begins in the text is not the null slice.
LEMMA NotNull ==
    ASSUME NEW b \in Nat, NEW e
    PROVE  MakeStrSlice(b, e) # StrSliceNull
BY DEF MakeStrSlice, StrSliceNull

Pad == PadRow(LineNumWidth)

\* The row of the kth line of those before, and of those after.
BeforeRow(k) == LineRow(LineNumWidth, span.beg.line - (LinesBefore - k),
                        SpanLineBefore(span, text, LinesBefore - k))

AfterRow(k) == LineRow(LineNumWidth, span.beg.line + 1 + k,
                       SpanLineAfter(span, text, k - 1))

\* How many of the lines after there are.
Following == IF builder.line_after <= LineCount - Target
             THEN builder.line_after ELSE LineCount - Target

\* span_line_after finds as many lines as there are, the nearest first.
LEMMA FollowingIs ==
    ASSUME Typed, OnOneLine
    PROVE  /\ LineCount \in Nat /\ Target <= LineCount
           /\ Following \in 0 .. builder.line_after
           /\ \A k \in 1 .. builder.line_after :
                 SpanLineAfter(span, text, k - 1) # StrSliceNull <=> k <= Following
<1>1. PICK from, to : SpanAt(from, to)
  BY SpanIsAt DEF Typed
<1>2. PICK b \in 0 .. from, e \in to .. Len(text) : IsLineOf(text, span.beg.line + 1, b, e)
  BY <1>1, SpanLineIs
<1>3. Len(text) \in Nat /\ from < Len(text) /\ b # Len(text)
  BY <1>1 DEF SpanAt
<1>4. LineCount \in Nat /\ span.beg.line + 1 <= LineCount
  BY <1>2, <1>3, LineIs
<1>5. span.beg.line \in Nat /\ builder.line_after \in Nat
  BY Asked
<1>6. ASSUME NEW k \in 1 .. builder.line_after
      PROVE  SpanLineAfter(span, text, k - 1) # StrSliceNull <=> k <= Following
  <2>1. k - 1 \in Nat
    BY <1>5
  <2>2. SpanLineAfter(span, text, k - 1) # StrSliceNull
            <=> span.beg.line + 2 + (k - 1) <= LineCount
    BY <1>1, <2>1, SpanLineAfterIs
  <2>3. span.beg.line + 2 + (k - 1) <= LineCount <=> k <= Following
    <3>1. PICK l \in Nat, a \in Nat, c \in Nat :
              l = span.beg.line /\ a = builder.line_after /\ c = LineCount /\ k <= a
      BY <1>4, <1>5
    <3>2. Following = IF a <= c - (l + 1) THEN a ELSE c - (l + 1)
      BY <3>1 DEF Following, Target
    <3>3. k \in Nat
      BY <1>5
    <3>4. l + 2 + (k - 1) <= c <=> k <= c - (l + 1)
      BY <3>3
    <3>5. k <= c - (l + 1) <=> k <= Following
      BY <3>1, <3>2, <3>3
    <3>6. QED
      BY <3>1, <3>4, <3>5
  <2>4. QED
    BY <2>2, <2>3
<1>7. LineCount \in Nat /\ Target <= LineCount /\ Following \in 0 .. builder.line_after
  <2>1. PICK l \in Nat, a \in Nat, c \in Nat :
            l = span.beg.line /\ a = builder.line_after /\ c = LineCount /\ l + 1 <= c
    BY <1>4, <1>5
  <2>2. Target = l + 1 /\ Following = IF a <= c - (l + 1) THEN a ELSE c - (l + 1)
    BY <2>1 DEF Following, Target
  <2>3. (IF a <= c - (l + 1) THEN a ELSE c - (l + 1)) \in 0 .. a
    <3>1. c - (l + 1) \in Nat
      BY <2>1
    <3>2. QED
      BY <3>1, SMTT(20)
  <2>4. QED
    BY <2>1, <2>2, <2>3
<1>8. QED
  BY <1>6, <1>7

\* LN_CLAMP gives a number of rows.
LEMMA ClampIs ==
    ASSUME NEW pad \in Nat
    PROVE  ClampPad(pad) \in Nat
<1>1. PICK m \in Nat : m = Max({pad, 1})
  BY MaxOfTwo
<1>2. PadCap \in Nat
  BY ErrPrinterAssumption
<1>3. Min({m, PadCap}) \in Nat
  BY <1>2, MinOfTwo
<1>4. QED
  BY <1>1, <1>3 DEF ClampPad

\* The rows before the line of the error: padding, then every line asked for.
LEMMA RowsBeforeIs ==
    ASSUME Typed, OnOneLine
    PROVE  \E p \in Nat :
               RowsBefore = [i \in 1 .. p + LinesBefore |->
                                IF i <= p THEN Pad ELSE BeforeRow(i - p)]
<1>1. PICK from, to : SpanAt(from, to)
  BY SpanIsAt DEF Typed
<1>2. /\ LinesBefore \in Nat /\ LinesBefore <= span.beg.line
      /\ span.beg.line \in Nat /\ builder.pad_line_before \in Nat
  BY Asked
<1> DEFINE rows == [k \in 1 .. LinesBefore |-> BeforeRow(k)]
<1>3. Printed(rows) = rows
  <2>1. ASSUME NEW k \in 1 .. LinesBefore PROVE rows[k].slice # StrSliceNull
    <3>1. PICK n \in Nat : n = LinesBefore - k /\ n < span.beg.line
      BY <1>2
    <3>2. PICK b, e : /\ IsLineOf(text, span.beg.line - n, b, e)
                      /\ \/ SpanLineBefore(span, text, n) = MakeStrSlice(0, e)
                         \/ SpanLineBefore(span, text, n) = MakeStrSlice(b, e)
      BY <1>1, <3>1, SpanLineBeforeIs
    <3>3. b \in Nat
      BY <3>2 DEF IsLineOf
    <3>4. SpanLineBefore(span, text, n) # StrSliceNull
      BY <3>2, <3>3, NotNull
    <3>5. QED
      BY <3>1, <3>4 DEF BeforeRow, LineRow
  <2> DEFINE S == { BeforeRow(k) : k \in 1 .. LinesBefore }
  <2>2. rows \in [1 .. LinesBefore -> S] /\ LinesBefore <= LinesBefore
    BY <1>2
  <2>3. \A k \in 1 .. LinesBefore : rows[k].slice # StrSliceNull <=> k <= LinesBefore
    BY <1>2, <2>1
  <2>4. SubSeq(rows, 1, LinesBefore) = rows
    BY <1>2, <2>2, UpTo
  <2> HIDE DEF rows, S
  <2>5. Printed(rows) = SubSeq(rows, 1, LinesBefore)
    BY <1>2, <2>2, <2>3, PrintedPrefix
  <2>6. QED
    BY <2>4, <2>5
<1> DEFINE count == IF LinesBefore = 0 THEN ClampPad(builder.pad_line_before)
                                       ELSE builder.pad_line_before
           pads == [k \in 1 .. count |-> Pad]
<1>4. count \in Nat
  <2>1. ClampPad(builder.pad_line_before) \in Nat
    BY <1>2, ClampIs
  <2>2. QED
    BY <1>2, <2>1
<1>5. RowsBefore = pads \o rows
  BY <1>3 DEF RowsBefore, BeforeRow, Pad
<1> HIDE DEF count
<1>6. pads \o rows = [i \in 1 .. count + LinesBefore |->
                         IF i <= count THEN pads[i] ELSE rows[i - count]]
  <2>1. pads = [i \in 1 .. count |-> pads[i]] /\ rows = [i \in 1 .. LinesBefore |-> rows[i]]
    OBVIOUS
  <2> HIDE DEF pads, rows
  <2>2. QED
    BY <1>2, <1>4, <2>1, Joined
<1>7. \A i \in 1 .. count + LinesBefore :
          (IF i <= count THEN pads[i] ELSE rows[i - count])
              = IF i <= count THEN Pad ELSE BeforeRow(i - count)
  BY <1>2, <1>4
<1>8. RowsBefore = [i \in 1 .. count + LinesBefore |->
                       IF i <= count THEN Pad ELSE BeforeRow(i - count)]
  BY <1>5, <1>6, <1>7
<1>9. QED
  BY <1>4, <1>8

\* The rows after it: the lines there are of those asked for, then padding.
LEMMA RowsAfterIs ==
    ASSUME Typed, OnOneLine
    PROVE  \E q \in Nat :
               RowsAfter = [i \in 1 .. Following + q |->
                               IF i <= Following THEN AfterRow(i) ELSE Pad]
<1>1. /\ builder.line_after \in Nat /\ builder.pad_line_after \in Nat
      /\ Following \in Nat /\ Following \in 0 .. builder.line_after
  BY Asked, FollowingIs
<1> DEFINE all == [k \in 1 .. builder.line_after |-> AfterRow(k)]
           shown == [k \in 1 .. Following |-> AfterRow(k)]
<1>2. Printed(all) = shown
  <2>1. \A k \in 1 .. builder.line_after : all[k].slice # StrSliceNull <=> k <= Following
    BY FollowingIs DEF AfterRow, LineRow
  <2> DEFINE S == { AfterRow(k) : k \in 1 .. builder.line_after }
  <2>2. all \in [1 .. builder.line_after -> S] /\ Following <= builder.line_after
    BY <1>1
  <2>3. SubSeq(all, 1, Following) = [k \in 1 .. Following |-> all[k]]
    <3> HIDE DEF all, S
    <3>1. QED
      BY <1>1, <2>2, UpTo
  <2>4. SubSeq(all, 1, Following) = shown
    BY <1>1, <2>3
  <2> HIDE DEF all, S
  <2>5. Printed(all) = SubSeq(all, 1, Following)
    BY <1>1, <2>1, <2>2, PrintedPrefix
  <2>6. QED
    BY <2>4, <2>5
<1> DEFINE count == IF shown = <<>> THEN ClampPad(builder.pad_line_after)
                                   ELSE builder.pad_line_after
           pads == [k \in 1 .. count |-> Pad]
<1>3. count \in Nat
  <2>1. ClampPad(builder.pad_line_after) \in Nat
    BY <1>1, ClampIs
  <2>2. QED
    BY <1>1, <2>1
<1>4. RowsAfter = shown \o pads
  BY <1>2 DEF RowsAfter, AfterRow, Pad
<1> HIDE DEF count
<1>5. shown \o pads = [i \in 1 .. Following + count |->
                         IF i <= Following THEN shown[i] ELSE pads[i - Following]]
  <2>1. pads = [i \in 1 .. count |-> pads[i]] /\ shown = [i \in 1 .. Following |-> shown[i]]
    OBVIOUS
  <2> HIDE DEF pads, shown
  <2>2. QED
    BY <1>1, <1>3, <2>1, Joined, SMTT(20)
<1>6. \A i \in 1 .. Following + count :
          (IF i <= Following THEN shown[i] ELSE pads[i - Following])
              = IF i <= Following THEN AfterRow(i) ELSE Pad
  BY <1>1, <1>3
<1>7. RowsAfter = [i \in 1 .. Following + count |->
                      IF i <= Following THEN AfterRow(i) ELSE Pad]
  BY <1>4, <1>5, <1>6
<1>8. QED
  BY <1>3, <1>7

\* All rows, by their places: p rows of padding, the lines before, the line of
\* the error and its dashes, the lines after, and q rows of padding.
Rows == RowsBefore \o TargetRows \o RowsAfter

LaidOut(p, q) ==
    LET t == p + LinesBefore
    IN  /\ p \in Nat /\ q \in Nat
        /\ Rows = [i \in 1 .. t + 2 + Following + q |-> Rows[i]]
        /\ \A i \in 1 .. t + 2 + Following + q :
              Rows[i] = IF i <= p THEN Pad
                        ELSE IF i <= t THEN BeforeRow(i - p)
                        ELSE IF i <= t + 2 THEN TargetRows[i - t]
                        ELSE IF i <= t + 2 + Following THEN AfterRow(i - (t + 2))
                        ELSE Pad
        /\ RowsBefore = [i \in 1 .. t |-> Rows[i]]

\* The rows lie in that order.
LEMMA RowsLaidOut ==
    ASSUME Typed, OnOneLine
    PROVE  \E p, q : LaidOut(p, q)
<1>1. PICK p \in Nat :
          RowsBefore = [i \in 1 .. p + LinesBefore |->
                           IF i <= p THEN Pad ELSE BeforeRow(i - p)]
  BY RowsBeforeIs
<1>2. PICK q \in Nat :
          RowsAfter = [i \in 1 .. Following + q |->
                          IF i <= Following THEN AfterRow(i) ELSE Pad]
  BY RowsAfterIs
<1>3. LinesBefore \in Nat /\ Following \in Nat /\ builder.line_after \in Nat
  BY Asked, FollowingIs
<1>4. PICK t \in Nat, f \in Nat : t = p + LinesBefore /\ p <= t /\ f = Following
  BY <1>1, <1>3
<1>5. TargetRows = [i \in 1 .. 2 |-> TargetRows[i]]
  BY DEF TargetRows
<1>6. RowsBefore \o TargetRows
          = [i \in 1 .. t + 2 |-> IF i <= t THEN RowsBefore[i] ELSE TargetRows[i - t]]
  <2>1. RowsBefore = [i \in 1 .. t |-> RowsBefore[i]]
    BY <1>1, <1>4
  <2>2. QED
    BY <1>4, <1>5, <2>1, Joined
<1>7. PICK upto : /\ upto = RowsBefore \o TargetRows
                  /\ upto = [i \in 1 .. t + 2 |-> upto[i]]
                  /\ \A i \in 1 .. t + 2 :
                        upto[i] = IF i <= t THEN RowsBefore[i] ELSE TargetRows[i - t]
  BY <1>6
<1>8. Rows = [i \in 1 .. (t + 2) + (f + q) |->
                 IF i <= t + 2 THEN upto[i] ELSE RowsAfter[i - (t + 2)]]
  <2>1. RowsAfter = [i \in 1 .. f + q |-> RowsAfter[i]]
    BY <1>2, <1>4
  <2>2. t + 2 \in Nat /\ f + q \in Nat
    BY <1>4
  <2>3. upto \o RowsAfter = [i \in 1 .. (t + 2) + (f + q) |->
                                IF i <= t + 2 THEN upto[i] ELSE RowsAfter[i - (t + 2)]]
    <3>1. PICK a \in Nat, b \in Nat : a = t + 2 /\ b = f + q
      BY <2>2
    <3>2. upto = [i \in 1 .. a |-> upto[i]] /\ RowsAfter = [i \in 1 .. b |-> RowsAfter[i]]
      BY <1>7, <2>1, <3>1
    <3>3. upto \o RowsAfter = [i \in 1 .. a + b |->
                                  IF i <= a THEN upto[i] ELSE RowsAfter[i - a]]
      BY <3>2, Joined, SMTT(20)
    <3>4. QED
      BY <3>1, <3>3
  <2>4. QED
    BY <1>7, <2>3 DEF Rows
<1>9. (t + 2) + (f + q) = t + 2 + f + q
  BY <1>4
<1>10. Rows = [i \in 1 .. t + 2 + f + q |-> Rows[i]]
  BY <1>8, <1>9
<1>11. \A i \in 1 .. t : Rows[i] = RowsBefore[i]
  <2>1. \A i \in 1 .. t : i <= t /\ i <= t + 2 /\ i \in 1 .. t + 2 /\ i \in 1 .. (t + 2) + (f + q)
    BY <1>4
  <2>2. QED
    BY <1>7, <1>8, <2>1
<1>12. ASSUME NEW i \in 1 .. t + 2 + f + q
       PROVE  Rows[i] = IF i <= p THEN Pad
                        ELSE IF i <= t THEN BeforeRow(i - p)
                        ELSE IF i <= t + 2 THEN TargetRows[i - t]
                        ELSE IF i <= t + 2 + f THEN AfterRow(i - (t + 2))
                        ELSE Pad
  <2>1. CASE i <= t
    <3>1. i \in 1 .. t
      BY <1>4, <2>1
    <3>2. RowsBefore[i] = IF i <= p THEN Pad ELSE BeforeRow(i - p)
      BY <1>1, <1>4, <3>1
    <3>3. QED
      BY <1>4, <1>11, <2>1, <3>1, <3>2
  <2>2. CASE ~ (i <= t) /\ i <= t + 2
    <3>1. i \in 1 .. t + 2 /\ ~ (i <= p)
      BY <1>4, <2>2
    <3>2. Rows[i] = upto[i]
      BY <1>8, <1>9, <2>2
    <3>3. QED
      BY <1>7, <2>2, <3>1, <3>2
  <2>3. CASE ~ (i <= t + 2)
    <3>1. i - (t + 2) \in 1 .. f + q /\ ~ (i <= p) /\ ~ (i <= t)
      BY <1>4, <2>3
    <3>2. Rows[i] = RowsAfter[i - (t + 2)]
      BY <1>8, <1>9, <2>3
    <3>3. RowsAfter[i - (t + 2)] = IF i - (t + 2) <= f THEN AfterRow(i - (t + 2)) ELSE Pad
      BY <1>2, <1>4, <3>1
    <3>4. i - (t + 2) <= f <=> i <= t + 2 + f
      BY <1>4
    <3>5. QED
      BY <2>3, <3>1, <3>2, <3>3, <3>4
  <2>4. QED
    BY <1>4, <2>1, <2>2, <2>3
<1>13. RowsBefore = [i \in 1 .. t |-> Rows[i]]
  BY <1>1, <1>4, <1>11
<1>14. LaidOut(p, q)
  BY <1>4, <1>10, <1>12, <1>13 DEF LaidOut
<1>15. QED
  BY <1>14
-----------------------------------------------------------------------------
(***************************************************************************)
(* What each row shows.                                                    *)
(***************************************************************************)
\* What the searches find for a line: the line, an empty line after the error
\* with the one that follows it, and line 2 before it with the newline before.
Expected(num) ==
    LET line == LineNumbered(num)
    IN  IF num > Target /\ line.beg = line.end
        THEN MakeStrSlice(line.beg, IF num < Cardinality(LineBegs)
                                    THEN LineNumbered(num + 1).end
                                    ELSE line.end)
        ELSE IF num = 2 /\ num < Target /\ text[1] = "newline"
        THEN MakeStrSlice(0, line.end)
        ELSE line

\* A row that shows the line of a number.
Shows(row, num) ==
    /\ num \in Nat /\ 0 < num
    /\ row = [kind |-> "line", gutter |-> LineNumWidth, num |-> num,
              slice |-> Expected(num)]
    /\ \E b \in Nat, e \in Nat :
          Expected(num) = MakeStrSlice(b, e) /\ b <= e /\ e <= Len(text)
    /\ Expected(num).beg <= LineNumbered(num).beg
    /\ LineNumbered(num).end <= Expected(num).end

\* The rows before show the lines their numbers say.
LEMMA BeforeShows ==
    ASSUME Typed, OnOneLine, NEW k \in 1 .. LinesBefore
    PROVE  Shows(BeforeRow(k), span.beg.line - (LinesBefore - k))
<1>1. PICK from, to : SpanAt(from, to)
  BY SpanIsAt DEF Typed
<1>2. /\ LinesBefore \in Nat /\ LinesBefore <= span.beg.line
      /\ span.beg.line \in Nat /\ builder.line_after \in Nat
  BY Asked
<1>3. PICK n \in Nat, num \in Nat :
          /\ n = LinesBefore - k /\ n < span.beg.line /\ num = span.beg.line - n
          /\ 0 < num /\ num <= span.beg.line + 1 + builder.line_after
          /\ num < span.beg.line + 1 /\ ~ (num > span.beg.line + 1)
  BY <1>2
<1>4. PICK b, e :
          /\ IsLineOf(text, num, b, e)
          /\ SpanLineBefore(span, text, n) = IF num = 2 /\ text[1] = "newline"
                                             THEN MakeStrSlice(0, e) ELSE MakeStrSlice(b, e)
  BY <1>1, <1>3, SpanLineBeforeIs
<1>5. Len(text) \in Nat
  BY <1>1 DEF SpanAt
<1>6. LineNumbered(num) = MakeStrSlice(b, e)
  BY <1>4, <1>5, LineIs
<1>7. SpanLineBefore(span, text, n) = Expected(num)
  BY <1>3, <1>4, <1>6 DEF Expected, Target, MakeStrSlice
<1>8. BeforeRow(k) = [kind |-> "line", gutter |-> LineNumWidth, num |-> num,
                      slice |-> Expected(num)]
  <2>1. BeforeRow(k) = LineRow(LineNumWidth, num, Expected(num))
    BY <1>3, <1>7 DEF BeforeRow
  <2>2. QED
    BY <1>3, <2>1, InGutter
<1>9. b \in Nat /\ e \in Nat /\ b <= e /\ e <= Len(text) /\ 0 \in Nat /\ 0 <= e
  BY <1>4, <1>5 DEF IsLineOf
<1>10. Expected(num) = MakeStrSlice(0, e) \/ Expected(num) = MakeStrSlice(b, e)
  BY <1>4, <1>7
<1>11. Shows(BeforeRow(k), num)
  <2>1. /\ Expected(num).beg <= LineNumbered(num).beg
        /\ LineNumbered(num).end <= Expected(num).end
    BY <1>6, <1>9, <1>10 DEF MakeStrSlice
  <2>2. QED
    BY <1>3, <1>8, <1>9, <1>10, <2>1 DEF Shows
<1>12. QED
  BY <1>3, <1>11

\* So does the row of the error, with what span_line finds.
LEMMA TargetShows ==
    ASSUME Typed, OnOneLine
    PROVE  /\ Shows(TargetRows[1], Target)
           /\ TargetRows[1].slice = SpanLine(span, text)
<1>1. PICK from, to : SpanAt(from, to)
  BY SpanIsAt DEF Typed
<1>2. Len(text) \in Nat /\ from < to
  BY <1>1 DEF SpanAt
<1>3. PICK b \in 0 .. from, e \in to .. Len(text) :
          /\ SpanLine(span, text) = MakeStrSlice(b, e)
          /\ IsLineOf(text, span.beg.line + 1, b, e)
  BY <1>1, SpanLineIs
<1>4. span.beg.line \in Nat /\ builder.line_after \in Nat
  BY Asked
<1>5. PICK num \in Nat : /\ num = Target /\ 0 < num
                         /\ num <= span.beg.line + 1 + builder.line_after
                         /\ ~ (num > num) /\ ~ (num < num)
  BY <1>4 DEF Target
<1>6. LineNumbered(num) = MakeStrSlice(b, e)
  BY <1>2, <1>3, <1>5, LineIs DEF Target
<1>7. SpanLine(span, text) = Expected(num)
  BY <1>3, <1>5, <1>6 DEF Expected
<1>8. TargetRows[1] = LineRow(LineNumWidth, num, SpanLine(span, text))
  BY <1>5 DEF TargetRows, Target
<1>9. TargetRows[1] = [kind |-> "line", gutter |-> LineNumWidth, num |-> num,
                       slice |-> Expected(num)]
  BY <1>5, <1>7, <1>8, InGutter
<1>10. b \in Nat /\ e \in Nat /\ b <= e /\ e <= Len(text)
  BY <1>2, <1>3 DEF IsLineOf
<1>11. Shows(TargetRows[1], num)
  <2>1. /\ Expected(num).beg <= LineNumbered(num).beg
        /\ LineNumbered(num).end <= Expected(num).end
    BY <1>3, <1>6, <1>7, <1>10 DEF MakeStrSlice
  <2>2. QED
    BY <1>3, <1>5, <1>7, <1>9, <1>10, <2>1 DEF Shows
<1>12. QED
  BY <1>5, <1>7, <1>9, <1>11

\* So do the rows after.
LEMMA AfterShows ==
    ASSUME Typed, OnOneLine, NEW k \in 1 .. Following
    PROVE  Shows(AfterRow(k), span.beg.line + 1 + k)
<1>1. PICK from, to : SpanAt(from, to)
  BY SpanIsAt DEF Typed
<1>2. /\ span.beg.line \in Nat /\ builder.line_after \in Nat
      /\ Following \in 0 .. builder.line_after
      /\ k \in 1 .. builder.line_after /\ k <= Following
  BY Asked, FollowingIs
<1>3. PICK n \in Nat, num \in Nat :
          /\ n = k - 1 /\ num = span.beg.line + 2 + n /\ num = span.beg.line + 1 + k
          /\ 0 < num /\ num <= span.beg.line + 1 + builder.line_after
          /\ num > span.beg.line + 1 /\ ~ (num < span.beg.line + 1)
  <2>1. PICK l \in Nat, a \in Nat : l = span.beg.line /\ a = builder.line_after
    BY <1>2
  <2>2. k \in Nat /\ 1 <= k /\ k <= a
    BY <1>2, <2>1
  <2>3. /\ k - 1 \in Nat /\ l + 1 + k \in Nat /\ l + 1 + k = l + 2 + (k - 1)
        /\ 0 < l + 1 + k /\ l + 1 + k <= l + 1 + a
        /\ l + 1 + k > l + 1 /\ ~ (l + 1 + k < l + 1)
    BY <2>2
  <2>4. QED
    BY <2>1, <2>3
<1>4. SpanLineAfter(span, text, n) # StrSliceNull
  BY <1>2, <1>3, FollowingIs
<1>5. PICK b, e, shown :
          /\ IsLineOf(text, num, b, e)
          /\ SpanLineAfter(span, text, n) = MakeStrSlice(b, shown)
          /\ shown \in e .. Len(text)
          /\ b # e => shown = e
          /\ b = e => num < Cardinality(LineBegs) /\ shown = LineNumbered(num + 1).end
  BY <1>1, <1>3, <1>4, SpanLineAfterIs
<1>6. Len(text) \in Nat
  BY <1>1 DEF SpanAt
<1>7. LineNumbered(num) = MakeStrSlice(b, e)
  BY <1>5, <1>6, LineIs
<1>8. SpanLineAfter(span, text, n) = Expected(num)
  <2>1. LineNumbered(num).beg = b /\ LineNumbered(num).end = e /\ num > Target /\ ~ (num < Target)
    BY <1>3, <1>7 DEF MakeStrSlice, Target
  <2>2. CASE b = e
    BY <1>5, <2>1, <2>2 DEF Expected
  <2>3. CASE b # e
    BY <1>5, <1>7, <2>1, <2>3 DEF Expected
  <2>4. QED
    BY <2>2, <2>3
<1>9. AfterRow(k) = [kind |-> "line", gutter |-> LineNumWidth, num |-> num,
                     slice |-> Expected(num)]
  <2>1. AfterRow(k) = LineRow(LineNumWidth, num, Expected(num))
    BY <1>3, <1>8 DEF AfterRow
  <2>2. QED
    BY <1>3, <2>1, InGutter
<1>10. b \in Nat /\ shown \in Nat /\ b <= shown /\ shown <= Len(text)
  BY <1>5, <1>6 DEF IsLineOf
<1>11. Shows(AfterRow(k), num)
  <2>1. e \in Nat /\ e <= shown
    BY <1>5, <1>6 DEF IsLineOf
  <2>2. /\ Expected(num).beg <= LineNumbered(num).beg
        /\ LineNumbered(num).end <= Expected(num).end
    BY <1>5, <1>7, <1>8, <1>10, <2>1 DEF MakeStrSlice
  <2>3. QED
    BY <1>3, <1>5, <1>8, <1>9, <1>10, <2>2 DEF Shows
<1>12. QED
  BY <1>3, <1>11

\* The dashes: from the column of the span, as many as it is long.
LEMMA UnderIs ==
    ASSUME Typed, OnOneLine, NEW from, NEW to, SpanAt(from, to)
    PROVE  \E b \in Nat, e \in Nat, blanks \in Nat, dashes \in Nat :
               /\ SpanLine(span, text) = MakeStrSlice(b, e)
               /\ TargetRows[2] = [kind |-> "under", gutter |-> LineNumWidth,
                                   blanks |-> blanks, dashes |-> dashes]
               /\ b + blanks = from /\ b + blanks + dashes = to /\ to <= e
<1>1. /\ from \in Nat /\ to \in Nat /\ from < to /\ Len(text) \in Nat
      /\ span.beg.col = from - LineBeg(text, from)
      /\ span.end.col = to - LineBeg(text, to)
  BY DEF SpanAt
<1>2. PICK b \in 0 .. from, e \in to .. Len(text) :
          /\ SpanLine(span, text) = MakeStrSlice(b, e)
          /\ b = LineBeg(text, from) /\ b = LineBeg(text, to)
  BY SpanLineIs
<1>3. PICK blanks \in Nat, dashes \in Nat :
          /\ blanks = from - b /\ dashes = (to - b) - (from - b)
  BY <1>1
<1>4. TargetRows[2] = [kind |-> "under", gutter |-> LineNumWidth,
                       blanks |-> blanks, dashes |-> dashes]
  BY <1>1, <1>2, <1>3 DEF TargetRows, UnderRow
<1>5. b \in Nat /\ e \in Nat /\ b + blanks = from /\ b + blanks + dashes = to /\ to <= e
  BY <1>1, <1>3
<1>6. QED
  BY <1>2, <1>4, <1>5

\* The rows that show lines, and which line each shows.
Upper(p) == p + 1 .. p + LinesBefore + 1

Lower(p) == p + LinesBefore + 3 .. p + LinesBefore + 2 + Following

NumAt(p, i) == IF i <= p + LinesBefore + 1 THEN Target - LinesBefore + (i - p - 1)
                                           ELSE Target + (i - (p + LinesBefore + 2))

\* What the row at each place is.
LEMMA RowsAre ==
    ASSUME Typed, OnOneLine, NEW p, NEW q, LaidOut(p, q),
           NEW i \in 1 .. p + LinesBefore + 2 + Following + q
    PROVE  /\ i \in Upper(p) \cup Lower(p) => Shows(Rows[i], NumAt(p, i))
           /\ i = p + LinesBefore + 1 => Rows[i] = TargetRows[1]
           /\ i = p + LinesBefore + 2 => Rows[i] = TargetRows[2]
           /\ i \notin Upper(p) \cup Lower(p) /\ i # p + LinesBefore + 2 => Rows[i] = Pad
<1>1. LinesBefore \in Nat /\ Following \in Nat /\ builder.line_after \in Nat
  BY Asked, FollowingIs
<1>2. PICK before \in Nat, f \in Nat, t \in Nat, l \in Nat :
          /\ before = LinesBefore /\ f = Following /\ t = p + before
          /\ p \in Nat /\ q \in Nat /\ l = span.beg.line /\ Target = l + 1
  <2>1. p \in Nat /\ q \in Nat
    BY DEF LaidOut
  <2>2. p + LinesBefore \in Nat /\ span.beg.line \in Nat /\ Target = span.beg.line + 1
    BY <1>1, <2>1, Asked DEF Target
  <2>3. QED
    BY <1>1, <2>1, <2>2
<1>3. i \in 1 .. t + 2 + f + q
  BY <1>2
<1>4. Rows[i] = IF i <= p THEN Pad
                ELSE IF i <= t THEN BeforeRow(i - p)
                ELSE IF i <= t + 2 THEN TargetRows[i - t]
                ELSE IF i <= t + 2 + f THEN AfterRow(i - (t + 2))
                ELSE Pad
  BY <1>2, <1>3 DEF LaidOut
<1>5. /\ Upper(p) = p + 1 .. t + 1
      /\ Lower(p) = t + 3 .. t + 2 + f
      /\ NumAt(p, i) = IF i <= t + 1 THEN l + 1 - before + (i - p - 1)
                                     ELSE l + 1 + (i - (t + 2))
  BY <1>2 DEF Upper, Lower, NumAt
<1>6. CASE i <= p
  BY <1>2, <1>4, <1>5, <1>6
<1>7. CASE ~ (i <= p) /\ i <= t
  <2>1. i - p \in 1 .. before /\ l - (before - (i - p)) = l + 1 - before + (i - p - 1)
    BY <1>2, <1>3, <1>7
  <2>2. Shows(BeforeRow(i - p), l - (before - (i - p)))
    BY <1>2, <2>1, BeforeShows
  <2>3. Rows[i] = BeforeRow(i - p)
    BY <1>4, <1>7
  <2>4. i <= t + 1 /\ i # t + 1 /\ i # t + 2 /\ i \in p + 1 .. t + 1
    BY <1>2, <1>3, <1>7
  <2>5. Shows(Rows[i], NumAt(p, i))
    BY <1>5, <2>1, <2>2, <2>3, <2>4
  <2>6. QED
    BY <1>2, <1>5, <2>4, <2>5
<1>8. CASE i = t + 1
  <2>1. ~ (i <= p) /\ ~ (i <= t) /\ i <= t + 2 /\ i - t = 1 /\ i <= t + 1
    BY <1>2, <1>8
  <2>2. Rows[i] = TargetRows[1]
    BY <1>4, <2>1
  <2>3. NumAt(p, i) = l + 1
    <3>1. NumAt(p, i) = l + 1 - before + (i - p - 1)
      BY <1>5, <2>1
    <3>2. i \in Nat /\ i - p - 1 = before
      BY <1>2, <1>8
    <3>3. l + 1 - before + before = l + 1
      BY <1>2
    <3>4. QED
      BY <3>1, <3>2, <3>3
  <2>4. Shows(Rows[i], NumAt(p, i))
    BY <1>2, <2>2, <2>3, TargetShows
  <2>5. i \in p + 1 .. t + 1 /\ i # t + 2
    BY <1>2, <1>8
  <2>6. QED
    BY <1>2, <1>5, <2>2, <2>4, <2>5
<1>9. CASE i = t + 2
  <2>1. ~ (i <= p) /\ ~ (i <= t) /\ i <= t + 2 /\ i - t = 2
    BY <1>2, <1>9
  <2>2. Rows[i] = TargetRows[2]
    BY <1>4, <2>1
  <2>3. i \notin p + 1 .. t + 1 /\ i \notin t + 3 .. t + 2 + f /\ i # t + 1
    BY <1>2, <1>9
  <2>4. QED
    BY <1>2, <1>5, <1>9, <2>2, <2>3
<1>10. CASE ~ (i <= t + 2) /\ i <= t + 2 + f
  <2>1. /\ ~ (i <= p) /\ ~ (i <= t) /\ ~ (i <= t + 1) /\ i # t + 1 /\ i # t + 2
        /\ i - (t + 2) \in 1 .. f /\ i \in t + 3 .. t + 2 + f
    BY <1>2, <1>3, <1>10
  <2>2. Rows[i] = AfterRow(i - (t + 2))
    BY <1>4, <1>10, <2>1
  <2>3. Shows(AfterRow(i - (t + 2)), l + 1 + (i - (t + 2)))
    BY <1>2, <2>1, AfterShows
  <2>4. Shows(Rows[i], NumAt(p, i))
    BY <1>5, <2>1, <2>2, <2>3
  <2>5. QED
    BY <1>2, <1>5, <2>1, <2>4
<1>11. CASE ~ (i <= t + 2 + f)
  <2>1. /\ ~ (i <= p) /\ ~ (i <= t) /\ ~ (i <= t + 2) /\ i # t + 1 /\ i # t + 2
        /\ i \notin p + 1 .. t + 1 /\ i \notin t + 3 .. t + 2 + f
    BY <1>2, <1>3, <1>11
  <2>2. Rows[i] = Pad
    BY <1>4, <1>11, <2>1
  <2>3. QED
    BY <1>2, <1>5, <2>1, <2>2
<1>12. \/ i <= p
       \/ ~ (i <= p) /\ i <= t
       \/ i = t + 1
       \/ i = t + 2
       \/ ~ (i <= t + 2) /\ i <= t + 2 + f
       \/ ~ (i <= t + 2 + f)
  <2>1. p \in Nat /\ t \in Nat /\ f \in Nat /\ i \in Nat
    BY <1>2, <1>3
  <2>2. QED
    BY <2>1
<1>13. QED
  BY <1>6, <1>7, <1>8, <1>9, <1>10, <1>11, <1>12
-----------------------------------------------------------------------------
(***************************************************************************)
(* The inductive invariant: what has been printed is a function of the     *)
(* text, the span and the builder.                                         *)
(***************************************************************************)
Emitted ==
    \/ outcome \in {"building", "panic"} /\ out = <<>>
    \/ outcome = "crash" /\ OnOneLine /\ out \in {RowsBefore, Rows}
    \/ outcome = "printed" /\ OnOneLine /\ out = Rows

IInv == Typed /\ Emitted

\* The rows depend on nothing else.
LEMMA RowsSame ==
    ASSUME UNCHANGED <<text, span, builder>>
    PROVE  /\ RowsBefore' = RowsBefore /\ Rows' = Rows
           /\ Typed' <=> Typed
           /\ OnOneLine' <=> OnOneLine
<1>1. LineNumWidth' = LineNumWidth /\ LinesBefore' = LinesBefore
  BY DEF LineNumWidth, LinesBefore
<1>2. RowsBefore' = RowsBefore
  BY <1>1 DEF RowsBefore
<1>3. TargetRows' = TargetRows
  BY <1>1 DEF TargetRows
<1>4. RowsAfter' = RowsAfter
  BY <1>1 DEF RowsAfter
<1>5. Rows' = Rows
  BY <1>2, <1>3, <1>4 DEF Rows
<1>6. QED
  BY <1>2, <1>5 DEF Typed, OnOneLine

\* Nothing has been printed at first.
LEMMA InitIInv == Init => IInv
<1>1. SUFFICES ASSUME Init PROVE IInv
  OBVIOUS
<1>2. MakeErrBuilder \in Builders
  BY ErrPrinterAssumption DEF MakeErrBuilder, Builders
<1>3. Typed
  BY <1>1, <1>2 DEF Init, Typed
<1>4. Emitted
  BY <1>1 DEF Init, Emitted
<1>5. QED
  BY <1>3, <1>4 DEF IInv

\* A setter changes the builder before anything is printed, and emitting prints
\* what the builder says then.
LEMMA NextIInv == IInv /\ [Next]_vars => IInv'
<1>1. SUFFICES ASSUME IInv, [Next]_vars PROVE IInv'
  OBVIOUS
<1>2. ASSUME NEW field, NEW value, Set(field, value),
             [builder EXCEPT ![field] = value] \in Builders
      PROVE  IInv'
  BY <1>1, <1>2 DEF Set, IInv, Typed, Emitted
<1>3. CASE SetMsg \/ SetSugg \/ SetSpan
  <2>1. /\ [builder EXCEPT !["err_msg"] = TRUE] \in Builders
        /\ [builder EXCEPT !["err_sugg"] = TRUE] \in Builders
        /\ [builder EXCEPT !["span"] = TRUE] \in Builders
    BY <1>1 DEF IInv, Typed, Builders
  <2>2. QED
    BY <1>2, <1>3, <2>1 DEF SetMsg, SetSugg, SetSpan
<1>4. CASE SetLinesBefore \/ SetLinesAfter
  <2>1. \A n \in 0 .. MaxLines :
           /\ [builder EXCEPT !["line_before"] = n] \in Builders
           /\ [builder EXCEPT !["line_after"] = n] \in Builders
    BY <1>1 DEF IInv, Typed, Builders
  <2>2. QED
    BY <1>2, <1>4, <2>1 DEF SetLinesBefore, SetLinesAfter
<1>5. CASE SetPadLinesBefore \/ SetPadLinesAfter
  <2>1. \A n \in 0 .. MaxPads :
           /\ [builder EXCEPT !["pad_line_before"] = n] \in Builders
           /\ [builder EXCEPT !["pad_line_after"] = n] \in Builders
    BY <1>1 DEF IInv, Typed, Builders
  <2>2. QED
    BY <1>2, <1>5, <2>1 DEF SetPadLinesBefore, SetPadLinesAfter
<1>6. CASE EmitPanics
  <2>1. outcome' = "panic" /\ out' = <<>> /\ UNCHANGED <<text, span, builder>>
    BY <1>1, <1>6 DEF EmitPanics, IInv, Emitted
  <2>2. QED
    BY <1>1, <2>1, RowsSame DEF IInv, Emitted
<1>7. CanEmit => OnOneLine
  BY <1>1 DEF CanEmit, OnOneLine, IInv, Typed
<1>8. CASE EmitNoMsg
  <2>1. /\ outcome' = "crash" /\ out' = RowsBefore /\ OnOneLine
        /\ UNCHANGED <<text, span, builder>>
    BY <1>7, <1>8 DEF EmitNoMsg
  <2>2. QED
    BY <1>1, <2>1, RowsSame DEF IInv, Emitted
<1>9. CASE EmitNoSugg \/ Emit
  <2>1. /\ outcome' \in {"crash", "printed"} /\ out' = Rows /\ OnOneLine
        /\ UNCHANGED <<text, span, builder>>
    BY <1>7, <1>9 DEF EmitNoSugg, Emit, Rows
  <2>2. QED
    BY <1>1, <2>1, RowsSame DEF IInv, Emitted
<1>10. CASE UNCHANGED vars
  BY <1>1, <1>10, RowsSame DEF vars, IInv, Emitted
<1>11. QED
  BY <1>1, <1>3, <1>4, <1>5, <1>6, <1>8, <1>9, <1>10 DEF Next

\* What has been printed is always what the builder says.
LEMMA AlwaysIInv == Spec => []IInv
BY InitIInv, NextIInv, PTL DEF Spec

\* A row that has been printed is one of Rows.
LEMMA OutIsRows ==
    ASSUME IInv, NEW i \in 1 .. Len(out)
    PROVE  /\ Typed /\ OnOneLine
           /\ \E p, q : /\ LaidOut(p, q)
                        /\ i \in 1 .. p + LinesBefore + 2 + Following + q
                        /\ out[i] = Rows[i]
<1>1. Typed /\ OnOneLine /\ out \in {RowsBefore, Rows}
  BY DEF IInv, Emitted
<1>2. PICK p, q : LaidOut(p, q)
  BY <1>1, RowsLaidOut
<1>3. p \in Nat /\ q \in Nat /\ LinesBefore \in Nat /\ Following \in Nat
  BY <1>1, <1>2, Asked, FollowingIs DEF LaidOut
<1>4. PICK t \in Nat, n \in Nat :
          t = p + LinesBefore /\ n = p + LinesBefore + 2 + Following + q /\ t <= n
  BY <1>3
<1>5. Rows = [j \in 1 .. n |-> Rows[j]] /\ RowsBefore = [j \in 1 .. t |-> Rows[j]]
  BY <1>2, <1>4 DEF LaidOut
<1>6. Len(Rows) = n /\ Len(RowsBefore) = t
  BY <1>5
<1>7. i \in 1 .. n /\ out[i] = Rows[i]
  <2>1. CASE out = Rows
    BY <1>6, <2>1
  <2>2. CASE out = RowsBefore
    <3>1. i \in 1 .. t
      BY <1>6, <2>2
    <3>2. RowsBefore[i] = Rows[i]
      BY <1>5, <3>1
    <3>3. QED
      BY <1>4, <2>2, <3>1, <3>2
  <2>3. QED
    BY <1>1, <2>1, <2>2
<1>8. QED
  BY <1>1, <1>2, <1>4, <1>7

\* Each row printed shows a line, is the dashes or is padding.
LEMMA RowKinds ==
    ASSUME IInv, NEW i \in 1 .. Len(out)
    PROVE  /\ Typed /\ OnOneLine
           /\ \/ \E num : Shows(out[i], num)
              \/ out[i] = TargetRows[2]
              \/ out[i] = Pad
<1>1. PICK p, q : /\ LaidOut(p, q)
                  /\ i \in 1 .. p + LinesBefore + 2 + Following + q
                  /\ out[i] = Rows[i]
  BY OutIsRows
<1>2. Typed /\ OnOneLine
  BY OutIsRows
<1>3. QED
  BY <1>1, <1>2, RowsAre

\* The dashes have a gutter and two numbers.
LEMMA UnderTyped ==
    ASSUME Typed, OnOneLine
    PROVE  \E blanks \in Nat, dashes \in Nat :
               TargetRows[2] = [kind |-> "under", gutter |-> LineNumWidth,
                                blanks |-> blanks, dashes |-> dashes]
<1>1. PICK from, to : SpanAt(from, to)
  BY SpanIsAt DEF Typed
<1>2. QED
  BY <1>1, UnderIs
-----------------------------------------------------------------------------
(***************************************************************************)
(* The theorems.                                                           *)
(***************************************************************************)
\* The rows are made of numbers, and their slices lie in the text.
LEMMA IInvTyped == IInv => TypeOK
<1>1. SUFFICES ASSUME IInv PROVE TypeOK
  OBVIOUS
<1>2. ASSUME NEW i \in 1 .. Len(out)
      PROVE  /\ out[i] \in Row
             /\ out[i].kind = "line" =>
                    out[i].slice.beg <= out[i].slice.end /\ out[i].slice.end <= Len(text)
  <2>1. Typed /\ OnOneLine /\ LineNumWidth \in Nat
    BY <1>1, RowKinds, Asked
  <2>2. Len(text) \in Nat /\ Len(text) <= MaxSize /\ MaxSize \in Nat
    BY <2>1, TextIs DEF Typed
  <2>3. ASSUME NEW num, Shows(out[i], num)
        PROVE  /\ out[i] \in Row
               /\ out[i].slice.beg <= out[i].slice.end /\ out[i].slice.end <= Len(text)
    <3>1. PICK b \in Nat, e \in Nat :
              Expected(num) = [beg |-> b, end |-> e] /\ b <= e /\ e <= Len(text)
      BY <2>3 DEF Shows, MakeStrSlice
    <3>2. [beg |-> b, end |-> e] \in [beg : 0 .. MaxSize, end : 0 .. MaxSize]
      BY <2>2, <3>1
    <3>3. /\ num \in Nat
          /\ out[i] = [kind |-> "line", gutter |-> LineNumWidth, num |-> num,
                       slice |-> [beg |-> b, end |-> e]]
      BY <2>3, <3>1 DEF Shows
    <3>4. out[i] \in Row
      BY <2>1, <3>2, <3>3 DEF Row
    <3>5. QED
      BY <3>1, <3>3, <3>4
  <2>4. ASSUME out[i] = TargetRows[2] PROVE out[i] \in Row /\ out[i].kind # "line"
    <3>1. PICK blanks \in Nat, dashes \in Nat :
              out[i] = [kind |-> "under", gutter |-> LineNumWidth,
                        blanks |-> blanks, dashes |-> dashes]
      BY <2>1, <2>4, UnderTyped
    <3>2. QED
      BY <2>1, <3>1 DEF Row
  <2>5. ASSUME out[i] = Pad PROVE out[i] \in Row /\ out[i].kind # "line"
    BY <2>1, <2>5 DEF Row, Pad, PadRow
  <2>6. QED
    BY <1>1, <2>3, <2>4, <2>5, RowKinds
<1>3. outcome \in {"building", "printed", "panic", "crash"}
  BY <1>1 DEF IInv, Emitted
<1>4. QED
  BY <1>1, <1>2, <1>3 DEF TypeOK, IInv, Typed, Builders

\* TypeOK: whatever the builder asks for, err_builder_emit prints slices of the
\* text only.
THEOREM PrinterTypeCorrect == Spec => []TypeOK
BY AlwaysIInv, IInvTyped, PTL

\* All rows have the gutter of the widest number.
LEMMA IInvAligned == IInv => GutterAligned
<1>1. SUFFICES ASSUME IInv, NEW i \in 1 .. Len(out) PROVE out[i].gutter = LineNumWidth
  BY DEF GutterAligned
<1>2. Typed /\ OnOneLine
  BY <1>1, RowKinds
<1>3. ASSUME NEW num, Shows(out[i], num) PROVE out[i].gutter = LineNumWidth
  BY <1>3 DEF Shows
<1>4. ASSUME out[i] = TargetRows[2] PROVE out[i].gutter = LineNumWidth
  <2>1. PICK blanks \in Nat, dashes \in Nat :
            out[i] = [kind |-> "under", gutter |-> LineNumWidth,
                      blanks |-> blanks, dashes |-> dashes]
    BY <1>2, <1>4, UnderTyped
  <2>2. QED
    BY <2>1
<1>5. ASSUME out[i] = Pad PROVE out[i].gutter = LineNumWidth
  BY <1>5 DEF Pad, PadRow
<1>6. QED
  BY <1>1, <1>3, <1>4, <1>5, RowKinds

\* GutterAligned: the width err_util_int_width computes before any row is
\* printed is enough for every row, in every base.
THEOREM AlwaysAligned == Spec => []GutterAligned
BY AlwaysIInv, IInvAligned, PTL

\* Each row of a line shows that line, and more only where the searches end.
LEMMA IInvNumbered == IInv => LinesAsNumbered
<1>1. SUFFICES ASSUME IInv, NEW i \in 1 .. Len(out), out[i].kind = "line"
               PROVE  /\ out[i].slice = Expected(out[i].num)
                      /\ Expected(out[i].num).beg <= LineNumbered(out[i].num).beg
                      /\ LineNumbered(out[i].num).end <= Expected(out[i].num).end
  BY DEF LinesAsNumbered, LineRows, Expected
<1>2. Typed /\ OnOneLine
  BY <1>1, RowKinds
<1>3. out[i] # Pad /\ out[i] # TargetRows[2]
  <2>1. Pad.kind # "line"
    BY DEF Pad, PadRow
  <2>2. TargetRows[2].kind # "line"
    <3>1. PICK blanks \in Nat, dashes \in Nat :
              TargetRows[2] = [kind |-> "under", gutter |-> LineNumWidth,
                               blanks |-> blanks, dashes |-> dashes]
      BY <1>2, UnderTyped
    <3>2. QED
      BY <3>1
  <2>3. QED
    BY <1>1, <2>1, <2>2
<1>4. PICK num : Shows(out[i], num)
  BY <1>1, <1>3, RowKinds
<1>5. QED
  BY <1>4 DEF Shows

\* LinesAsNumbered: span_line, span_line_before and span_line_after find the
\* whole lines of the numbers they are shown with, in every text, and more than
\* the line only for an empty line after the error and for line 2 before it
\* when line 1 is empty.
THEOREM AlwaysAsNumbered == Spec => []LinesAsNumbered
BY AlwaysIInv, IInvNumbered, PTL
\* What there is when everything has been printed.
LEMMA PrintedRows ==
    ASSUME IInv, outcome = "printed"
    PROVE  /\ Typed /\ OnOneLine
           /\ \E p \in Nat, q \in Nat :
                 LET t == p + LinesBefore
                 IN  /\ Len(out) = t + 2 + Following + q
                     /\ out[t + 1] = TargetRows[1] /\ out[t + 2] = TargetRows[2]
                     /\ \A i \in 1 .. Len(out) :
                           /\ out[i].kind = "line" <=> i \in Upper(p) \cup Lower(p)
                           /\ i \in Upper(p) \cup Lower(p) => Shows(out[i], NumAt(p, i))
                           /\ out[i].kind = "under" <=> i = t + 2
<1>1. Typed /\ OnOneLine /\ out = Rows
  BY DEF IInv, Emitted
<1>2. PICK p, q : LaidOut(p, q)
  BY <1>1, RowsLaidOut
<1>3. p \in Nat /\ q \in Nat /\ LinesBefore \in Nat /\ Following \in Nat
  BY <1>1, <1>2, Asked, FollowingIs DEF LaidOut
<1>4. PICK t \in Nat, f \in Nat, n \in Nat :
          /\ t = p + LinesBefore /\ f = Following /\ n = t + 2 + f + q
          /\ n = p + LinesBefore + 2 + Following + q
  BY <1>3
<1>5. Len(out) = n
  <2>1. Rows = [j \in 1 .. n |-> Rows[j]]
    BY <1>2, <1>4 DEF LaidOut
  <2>2. QED
    BY <1>1, <2>1
<1>6. t + 1 \in 1 .. n /\ t + 2 \in 1 .. n
  <2>1. t \in Nat /\ f \in Nat /\ q \in Nat /\ n = t + 2 + f + q
    BY <1>3, <1>4
  <2>2. QED
    BY <2>1
<1>7. /\ Upper(p) = p + 1 .. t + 1
      /\ Lower(p) = t + 3 .. t + 2 + f
  BY <1>4 DEF Upper, Lower
<1>8. ASSUME NEW i \in 1 .. n
      PROVE  /\ i \in Upper(p) \cup Lower(p) => Shows(out[i], NumAt(p, i))
             /\ i = t + 1 => out[i] = TargetRows[1]
             /\ i = t + 2 => out[i] = TargetRows[2]
             /\ i \notin Upper(p) \cup Lower(p) /\ i # t + 2 => out[i] = Pad
  BY <1>1, <1>2, <1>4, RowsAre
<1>9. t + 2 \notin Upper(p) \cup Lower(p)
  BY <1>4, <1>7
<1>10. ASSUME NEW i \in 1 .. n
       PROVE  /\ out[i].kind = "line" <=> i \in Upper(p) \cup Lower(p)
              /\ out[i].kind = "under" <=> i = t + 2
  <2>1. CASE i \in Upper(p) \cup Lower(p)
    <3>1. Shows(out[i], NumAt(p, i)) /\ i # t + 2
      BY <1>8, <1>9, <2>1
    <3>2. out[i].kind = "line"
      BY <3>1 DEF Shows
    <3>3. QED
      BY <2>1, <3>1, <3>2
  <2>2. CASE i = t + 2
    <3>1. PICK blanks \in Nat, dashes \in Nat :
              TargetRows[2] = [kind |-> "under", gutter |-> LineNumWidth,
                               blanks |-> blanks, dashes |-> dashes]
      BY <1>1, UnderTyped
    <3>2. out[i].kind = "under"
      BY <1>8, <2>2, <3>1
    <3>3. QED
      BY <1>9, <2>2, <3>2
  <2>3. CASE i \notin Upper(p) \cup Lower(p) /\ i # t + 2
    <3>1. out[i].kind = "pad"
      BY <1>8, <2>3 DEF Pad, PadRow
    <3>2. QED
      BY <2>3, <3>1
  <2>4. QED
    BY <2>1, <2>2, <2>3
<1>11. out[t + 1] = TargetRows[1] /\ out[t + 2] = TargetRows[2]
  BY <1>6, <1>8
<1>12. QED
  BY <1>1, <1>3, <1>4, <1>5, <1>8, <1>10, <1>11

\* The rows count from the first line asked for, or the first, to the last
\* asked for, or the last.
LEMMA Ends ==
    ASSUME Typed, OnOneLine
    PROVE  /\ Max({Target - builder.line_before, 1}) = Target - LinesBefore
           /\ Min({Target + builder.line_after, LineCount}) = Target + Following
<1>1. PICK l \in Nat, lb \in Nat, la \in Nat, c \in Nat :
          /\ l = span.beg.line /\ Target = l + 1 /\ l + 1 <= c
          /\ lb = builder.line_before /\ la = builder.line_after /\ c = LineCount
  BY Asked, FollowingIs DEF Target
<1>2. LinesBefore = IF lb <= l THEN lb ELSE l
  BY <1>1, Asked
<1>3. Following = IF la <= c - (l + 1) THEN la ELSE c - (l + 1)
  BY <1>1 DEF Following
<1>4. Max({l + 1 - lb, 1}) = IF l + 1 - lb <= 1 THEN 1 ELSE l + 1 - lb
  <2>1. l + 1 - lb \in Int /\ 1 \in Int
    BY <1>1
  <2>2. QED
    BY <2>1, MaxOfTwo
<1>5. Min({l + 1 + la, c}) = IF l + 1 + la <= c THEN l + 1 + la ELSE c
  <2>1. l + 1 + la \in Nat
    BY <1>1
  <2>2. QED
    BY <2>1, MinOfTwo
<1>6. Max({l + 1 - lb, 1}) = l + 1 - LinesBefore
  BY <1>2, <1>4
<1>7. Min({l + 1 + la, c}) = l + 1 + Following
  BY <1>1, <1>3, <1>5
<1>8. Target - builder.line_before = l + 1 - lb /\ Target + builder.line_after = l + 1 + la
  BY <1>1
<1>9. Target - LinesBefore = l + 1 - LinesBefore /\ Target + Following = l + 1 + Following
  <2>1. LinesBefore \in Nat /\ Following \in Nat
    BY Asked, FollowingIs
  <2>2. QED
    BY <1>1, <2>1
<1>10. QED
  BY <1>1, <1>6, <1>7, <1>8, <1>9

\* Each line asked for has one row.
LEMMA IInvComplete == IInv => ContextComplete
<1>1. SUFFICES ASSUME IInv, outcome = "printed"
               PROVE  /\ { out[i].num : i \in LineRows }
                             = Target - LinesBefore .. Target + Following
                      /\ \A i, j \in LineRows : i < j => out[i].num < out[j].num
  <2>1. SUFFICES ASSUME IInv, outcome = "printed" PROVE ContextComplete
    BY DEF ContextComplete
  <2>2. Typed /\ OnOneLine
    BY <2>1, PrintedRows
  <2>3. QED
    BY <1>1, <2>1, <2>2, Ends DEF ContextComplete
<1>2. Typed /\ OnOneLine
  BY <1>1, PrintedRows
<1>3. LinesBefore \in Nat /\ Following \in Nat /\ Target \in Nat /\ LinesBefore <= Target
  BY <1>2, Asked, FollowingIs DEF Target
<1>4. PICK p \in Nat, q \in Nat :
          /\ Len(out) = p + LinesBefore + 2 + Following + q
          /\ \A i \in 1 .. Len(out) :
                /\ out[i].kind = "line" <=> i \in Upper(p) \cup Lower(p)
                /\ i \in Upper(p) \cup Lower(p) => Shows(out[i], NumAt(p, i))
  BY <1>1, PrintedRows
<1>5. PICK before \in Nat, f \in Nat, t \in Nat, n \in Nat, l \in Nat :
          /\ before = LinesBefore /\ f = Following /\ t = p + before
          /\ n = t + 2 + f + q /\ n = Len(out) /\ l = Target /\ before <= l
  BY <1>3, <1>4
<1>6. LineRows = p + 1 .. t + 1 \cup t + 3 .. t + 2 + f
  <2>1. Upper(p) = p + 1 .. t + 1 /\ Lower(p) = t + 3 .. t + 2 + f
    BY <1>5 DEF Upper, Lower
  <2>2. \A i \in p + 1 .. t + 1 \cup t + 3 .. t + 2 + f : i \in 1 .. n
    BY <1>5
  <2>3. QED
    BY <1>4, <1>5, <2>1, <2>2 DEF LineRows
<1>7. ASSUME NEW i \in LineRows
      PROVE  out[i].num = IF i <= t + 1 THEN l - before + (i - p - 1)
                                        ELSE l + (i - (t + 2))
  <2>1. Shows(out[i], NumAt(p, i))
    BY <1>4, <1>7 DEF LineRows
  <2>2. out[i].num = NumAt(p, i)
    BY <2>1 DEF Shows
  <2>3. QED
    BY <1>5, <2>2 DEF NumAt
<1>8. \A i \in LineRows : out[i].num \in l - before .. l + f
  <2>1. \A i \in p + 1 .. t + 1 \cup t + 3 .. t + 2 + f :
           (IF i <= t + 1 THEN l - before + (i - p - 1) ELSE l + (i - (t + 2)))
               \in l - before .. l + f
    BY <1>5
  <2>2. QED
    BY <1>6, <1>7, <2>1
<1>9. \A num \in l - before .. l + f : \E i \in LineRows : out[i].num = num
  <2>1. ASSUME NEW num \in l - before .. l + f
        PROVE  \E i \in LineRows : out[i].num = num
    <3>1. CASE num <= l
      <4>1. PICK i \in p + 1 .. t + 1 : i = num - (l - before) + (p + 1)
        BY <1>5, <3>1
      <4>2. i <= t + 1 /\ l - before + (i - p - 1) = num
        BY <1>5, <4>1
      <4>3. QED
        BY <1>6, <1>7, <4>2
    <3>2. CASE ~ (num <= l)
      <4>1. PICK i \in t + 3 .. t + 2 + f : i = num - l + (t + 2)
        BY <1>5, <3>2
      <4>2. ~ (i <= t + 1) /\ l + (i - (t + 2)) = num
        BY <1>5, <4>1
      <4>3. QED
        BY <1>6, <1>7, <4>2
    <3>3. QED
      BY <3>1, <3>2
  <2>2. QED
    BY <2>1
<1>10. ASSUME NEW i \in LineRows, NEW j \in LineRows, i < j
       PROVE  out[i].num < out[j].num
  <2>1. /\ i \in p + 1 .. t + 1 \cup t + 3 .. t + 2 + f
        /\ j \in p + 1 .. t + 1 \cup t + 3 .. t + 2 + f
    BY <1>6
  <2>2. (IF i <= t + 1 THEN l - before + (i - p - 1) ELSE l + (i - (t + 2)))
           < (IF j <= t + 1 THEN l - before + (j - p - 1) ELSE l + (j - (t + 2)))
    BY <1>5, <1>10, <2>1
  <2>3. QED
    BY <1>7, <2>2
<1>11. { out[i].num : i \in LineRows } = l - before .. l + f
  BY <1>8, <1>9
<1>12. QED
  BY <1>5, <1>10, <1>11

\* ContextComplete: err_builder_emit leaves out no line of those asked for that
\* the text has, and shows none twice, whatever is asked for.
THEOREM AlwaysContextComplete == Spec => []ContextComplete
BY AlwaysIInv, IInvComplete, PTL

\* The dashes are under the span.
LEMMA IInvUnderlined == IInv => UnderlineMatches
<1>1. SUFFICES ASSUME IInv, outcome = "printed"
               PROVE  \E i \in 2 .. Len(out) :
                         /\ \A j \in 1 .. Len(out) : out[j].kind = "under" <=> j = i
                         /\ out[i - 1].kind = "line"
                         /\ out[i - 1].num = Target
                         /\ LET shown == out[i - 1].slice
                                under == MakeStrSlice(shown.beg + out[i].blanks,
                                             shown.beg + out[i].blanks + out[i].dashes)
                            IN  under = SpanSlice(span) /\ under.end <= shown.end
  BY DEF UnderlineMatches
<1>2. Typed /\ OnOneLine
  BY <1>1, PrintedRows
<1>3. LinesBefore \in Nat /\ Following \in Nat
  BY <1>2, Asked, FollowingIs
<1>4. PICK p \in Nat, q \in Nat :
          /\ Len(out) = p + LinesBefore + 2 + Following + q
          /\ out[p + LinesBefore + 1] = TargetRows[1]
          /\ out[p + LinesBefore + 2] = TargetRows[2]
          /\ \A i \in 1 .. Len(out) : out[i].kind = "under" <=> i = p + LinesBefore + 2
  BY <1>1, PrintedRows
<1>5. PICK i \in 2 .. Len(out) :
          i = p + LinesBefore + 2 /\ i - 1 = p + LinesBefore + 1
  BY <1>3, <1>4
<1>6. PICK from, to : SpanAt(from, to)
  BY <1>2, SpanIsAt DEF Typed
<1>7. PICK b \in Nat, e \in Nat, blanks \in Nat, dashes \in Nat :
          /\ SpanLine(span, text) = MakeStrSlice(b, e)
          /\ TargetRows[2] = [kind |-> "under", gutter |-> LineNumWidth,
                              blanks |-> blanks, dashes |-> dashes]
          /\ b + blanks = from /\ b + blanks + dashes = to /\ to <= e
  BY <1>2, <1>6, UnderIs
<1>8. Shows(TargetRows[1], Target) /\ TargetRows[1].slice = SpanLine(span, text)
  BY <1>2, TargetShows
<1>9. out[i - 1].kind = "line" /\ out[i - 1].num = Target
  BY <1>4, <1>5, <1>8 DEF Shows
<1>10. /\ out[i - 1].slice.beg = b /\ out[i - 1].slice.end = e
       /\ out[i].blanks = blanks /\ out[i].dashes = dashes
  BY <1>4, <1>5, <1>7, <1>8 DEF MakeStrSlice
<1>11. SpanSlice(span) = MakeStrSlice(from, to)
  BY <1>6 DEF SpanAt, SpanSlice
<1>12. QED
  BY <1>4, <1>5, <1>7, <1>9, <1>10, <1>11 DEF MakeStrSlice

\* UnderlineMatches: the dashes are under the bytes of the span, in the row
\* after that of its line, wherever in the line it is.
THEOREM AlwaysUnderlined == Spec => []UnderlineMatches
BY AlwaysIInv, IInvUnderlined, PTL

\* No two offsets have the same line and column.
LEMMA PosOnce ==
    ASSUME NEW str, Len(str) \in Nat,
           NEW a \in 0 .. Len(str), NEW b \in 0 .. Len(str),
           PosAt(str, a).line = PosAt(str, b).line,
           PosAt(str, a).col = PosAt(str, b).col
    PROVE  a = b
<1>1. /\ Rank(Newlines(str), a) = Rank(Newlines(str), b)
      /\ a - LineBeg(str, a) = b - LineBeg(str, b)
  BY LineIsRank DEF MakePos
<1>2. LineBeg(str, a) = LineBeg(str, b)
  <2>1. CASE a <= b
    BY <1>1, <2>1, SameLine
  <2>2. CASE ~ (a <= b)
    <3>1. b <= a
      BY <2>2
    <3>2. QED
      BY <1>1, <3>1, SameLine
  <2>3. QED
    BY <2>1, <2>2
<1>3. PICK c \in Int : c = LineBeg(str, a) /\ c = LineBeg(str, b)
  BY <1>2, LineBegIs
<1>4. QED
  BY <1>1, <1>3

\* What make_pos_line_col finds for the line and column of an offset.
LEMMA PosFound ==
    ASSUME NEW str, Len(str) \in Nat, NEW off \in 0 .. Len(str) - 1,
           NEW line, NEW col,
           PosAt(str, off).line = line, PosAt(str, off).col = col
    PROVE  MakePosLineCol(str, line, col) = FoundPos(PosAt(str, off))
<1> DEFINE at == { p \in { PosAt(str, o) : o \in 0 .. Len(str) - 1 } :
                     p.line = line /\ p.col = col }
<1>1. off \in 0 .. Len(str) /\ off \in Nat
  OBVIOUS
<1>2. \A o \in 0 .. Len(str) - 1 :
         PosAt(str, o).line = line /\ PosAt(str, o).col = col <=> o = off
  <2>1. \A o \in 0 .. Len(str) - 1 : o \in 0 .. Len(str)
    OBVIOUS
  <2>2. QED
    BY <1>1, <2>1, PosOnce
<1>3. at = { PosAt(str, off) }
  BY <1>2
<1>4. /\ PosAt(str, off).off = off
      /\ PosAt(str, off) = MakePos(off, line, col)
  BY DEF PosAt, MakePos
<1>5. { p.off : p \in at } = { off }
  BY <1>3, <1>4
<1>6. Min({off}) = off
  <2>1. {off} \subseteq Nat /\ {off} # {} /\ off \in {off} /\ \A y \in {off} : off <= y
    BY <1>1
  <2>2. QED
    BY <2>1, MinIs
<1>7. at # {}
  BY <1>3
<1>8. MakePosLineCol(str, line, col)
         = IF at = {} THEN NoPos ELSE FoundPos(MakePos(Min({ p.off : p \in at }), line, col))
  BY DEF MakePosLineCol
<1> HIDE DEF at
<1>9. QED
  BY <1>4, <1>5, <1>6, <1>7, <1>8

\* Each byte has one position.
LEMMA IInvInvert == IInv => PositionsInvert
<1>1. SUFFICES ASSUME IInv PROVE PositionsInvert
  OBVIOUS
<1>2. Len(text) \in Nat
  BY <1>1, TextIs DEF IInv, Typed
<1>3. ASSUME NEW off \in 0 .. Len(text) - 1
      PROVE  /\ MakePosOff(text, off) = FoundPos(PosAt(text, off))
             /\ MakePosLineCol(text, PosAt(text, off).line, PosAt(text, off).col)
                    = FoundPos(PosAt(text, off))
             /\ PosAt(text, off).off = off
  <2>1. off < Len(text)
    BY <1>2
  <2>2. QED
    BY <1>2, <2>1, PosFound DEF MakePosOff, PosAt, MakePos
<1>4. ASSUME NEW off \in 0 .. Len(text)
      PROVE  LET p == MakePosOff(text, off)
             IN  IF off = Len(text) THEN p = NoPos
                 ELSE p = MakePosLineCol(text, p.pos.line, p.pos.col) /\ p.found
  <2>1. CASE off = Len(text)
    <3>1. ~ (off < Len(text))
      BY <1>2, <2>1
    <3>2. QED
      BY <2>1, <3>1 DEF MakePosOff
  <2>2. CASE off # Len(text)
    <3>1. off \in 0 .. Len(text) - 1
      BY <1>2, <2>2
    <3>2. PICK p : /\ p = MakePosOff(text, off) /\ p = FoundPos(PosAt(text, off))
                   /\ p = MakePosLineCol(text, PosAt(text, off).line, PosAt(text, off).col)
      BY <1>3, <3>1
    <3>3. p.pos = PosAt(text, off) /\ p.found
      BY <3>2 DEF FoundPos
    <3>4. p = MakePosLineCol(text, p.pos.line, p.pos.col)
      BY <3>2, <3>3
    <3>5. QED
      BY <2>2, <3>2, <3>3, <3>4
  <2>3. QED
    BY <2>1, <2>2
<1>5. ASSUME NEW line, NEW col, MakePosLineCol(text, line, col).found
      PROVE  MakePosLineCol(text, line, col)
                 = MakePosOff(text, MakePosLineCol(text, line, col).pos.off)
  <2>1. PICK off \in 0 .. Len(text) - 1 :
            PosAt(text, off).line = line /\ PosAt(text, off).col = col
    BY <1>5 DEF MakePosLineCol, NoPos
  <2>2. MakePosLineCol(text, line, col) = FoundPos(PosAt(text, off))
    BY <1>2, <2>1, PosFound
  <2>3. MakePosLineCol(text, line, col).pos.off = off
    BY <1>3, <2>2 DEF FoundPos
  <2>4. QED
    BY <1>3, <2>2, <2>3
<1>6. QED
  BY <1>4, <1>5 DEF PositionsInvert

\* PositionsInvert: make_pos_off and make_pos_line_col are inverse to each
\* other on the bytes of every text.
THEOREM PositionsAlwaysInvert == Spec => []PositionsInvert
BY AlwaysIInv, IInvInvert, PTL
=============================================================================
