------------------------------- MODULE Induction --------------------------------
(* Induction over the natural numbers and over finite sets, in terms of      *)
(* sets, from the library's theorem that the finite sets of a set are well   *)
(* founded by inclusion; and what follows for the sums of the community      *)
(* modules and for ranks in a strict order.                                  *)
EXTENDS Integers, FiniteSets, Functions, FiniteSetTheorems, TLAPS

\* The least-number principle: of the intervals up to the members of T, one has no
\* other inside it.
LEMMA LeastNatural ==
  ASSUME NEW T \in SUBSET Nat, T # {}
  PROVE  \E x \in T : \A y \in T : x <= y
<1> DEFINE Upto == {0..x : x \in T}
           R == StrictSubsetOrdering(Nat)
<1>1. Upto \subseteq FiniteSubsetsOf(Nat) /\ Upto # {}
  <2>1. \A x \in T : 0..x \in SUBSET Nat /\ IsFiniteSet(0..x)
    BY FS_Interval
  <2> QED BY <2>1 DEF FiniteSubsetsOf
<1>2. \E u \in Upto : \A v \in Upto : ~(<<v, u>> \in R)
  <2> HIDE DEF Upto, R
  <2>1. IsWellFoundedOn(R, FiniteSubsetsOf(Nat))
    BY FS_StrictSubsetOrderingWellFounded DEF R
  <2> QED BY <1>1, <2>1, WFMin
<1>3. PICK x \in T : \A y \in T : ~(<<0..y, 0..x>> \in R)
  BY <1>2
<1>4. ASSUME NEW y \in T, y < x PROVE FALSE
  <2>1. 0..y \subseteq 0..x /\ x \in 0..x /\ x \notin 0..y
    BY <1>4
  <2>2. 0..y \in SUBSET Nat /\ 0..x \in SUBSET Nat
    OBVIOUS
  <2>3. <<0..y, 0..x>> \in R
    BY <2>1, <2>2 DEF StrictSubsetOrdering
  <2> QED BY <1>3, <2>3
<1> QED BY <1>4

\* A set of positions in a log has a last one.
LEMMA GreatestBelow ==
  ASSUME NEW n \in Nat, NEW T \in SUBSET (1..n), T # {}
  PROVE  \E x \in T : \A y \in T : y <= x
<1> DEFINE U == {m \in Nat : \A y \in T : y <= m}
<1>1. U \in SUBSET Nat /\ n \in U
  OBVIOUS
<1>2. PICK m \in U : \A k \in U : m <= k
  BY <1>1, LeastNatural
<1>3. m \in T
  <2> SUFFICES ASSUME m \notin T PROVE FALSE
    OBVIOUS
  <2>1. PICK z \in T : TRUE
    OBVIOUS
  <2>2. \A y \in T : y \in Int /\ y >= 1 /\ y <= m /\ y # m
    BY <1>2
  <2>3. m \in Nat /\ m - 1 \in Nat /\ \A y \in T : y <= m - 1
    BY <1>2, <2>1, <2>2
  <2>4. m - 1 \in U
    BY <2>3
  <2> QED BY <1>2, <2>3, <2>4
<1> QED BY <1>2, <1>3

\* What holds of 0, and of the next number with each, holds of all.
LEMMA AllNaturals ==
  ASSUME NEW T, 0 \in T, \A n \in Nat : n \in T => n + 1 \in T
  PROVE  Nat \subseteq T
<1> SUFFICES ASSUME NEW k \in Nat, k \notin T PROVE FALSE
  OBVIOUS
<1> DEFINE U == {n \in Nat : n \notin T}
<1>1. U \in SUBSET Nat /\ U # {}
  OBVIOUS
<1> HIDE DEF U
<1>2. PICK m \in U : \A y \in U : m <= y
  BY <1>1, LeastNatural
<1>3. m \in Nat /\ m # 0 /\ m \notin T
  BY <1>2 DEF U
<1>4. m - 1 \in Nat /\ m - 1 \notin U
  BY <1>1, <1>2, <1>3
<1>5. m \in T
  BY <1>3, <1>4 DEF U
<1> QED BY <1>3, <1>5

-------------------------------------------------------------------------------
(* Sums over finite sets *)

\* What holds of the empty set, and stays so as members are added, holds of a
\* finite set.
LEMMA AllFinite ==
  ASSUME NEW S, IsFiniteSet(S), NEW T, {} \in T,
         \A R \in SUBSET S : \A x \in S \ R : R \in T => R \cup {x} \in T
  PROVE  S \in T
<1> DEFINE N == {n \in Nat : \A R \in SUBSET S : Cardinality(R) = n => R \in T}
<1>1. 0 \in N
  BY FS_EmptySet, FS_Subset
<1>2. ASSUME NEW n \in Nat, n \in N PROVE n + 1 \in N
  <2> SUFFICES ASSUME NEW R \in SUBSET S, Cardinality(R) = n + 1 PROVE R \in T
    OBVIOUS
  <2>1. IsFiniteSet(R) /\ R # {}
    BY FS_Subset, FS_EmptySet
  <2>2. PICK x \in R : TRUE
    BY <2>1
  <2>3. Cardinality(R \ {x}) = n
    <3>1. Cardinality(R \ {x}) = Cardinality(R) - 1
      BY <2>1, <2>2, FS_RemoveElement
    <3> QED BY <3>1
  <2>4. R \ {x} \in T
    BY <1>2, <2>3
  <2>5. R \ {x} \in SUBSET S /\ x \in S \ (R \ {x}) /\ (R \ {x}) \cup {x} = R
    BY <2>2
  <2> QED BY <2>4, <2>5
<1> HIDE DEF N
<1>3. Nat \subseteq N
  BY <1>1, <1>2, AllNaturals
<1>4. Cardinality(S) \in N
  BY <1>3, FS_CardinalityType
<1> QED BY <1>4 DEF N

\* The function by which a sum is computed.
Summation(g, f, S) ==
  g = [s \in SUBSET S |-> IF s = {} THEN 0
                          ELSE f[CHOOSE x \in s : TRUE] + g[s \ {CHOOSE x \in s : TRUE}]]

LEMMA SummationExists ==
  ASSUME NEW f, NEW S, IsFiniteSet(S)
  PROVE  \E g : Summation(g, f, S)
<1> DEFINE Pick(s) == CHOOSE x \in s : TRUE
           Value(g, s) == IF s = {} THEN 0 ELSE f[Pick(s)] + g[s \ {Pick(s)}]
           T == {n \in Nat : \E g : \A s \in SUBSET S :
                               Cardinality(s) <= n => g[s] = Value(g, s)}
<1>1. 0 \in T
  <2> DEFINE g == [s \in SUBSET S |-> 0]
  <2>1. ASSUME NEW s \in SUBSET S, Cardinality(s) <= 0 PROVE g[s] = Value(g, s)
    <3>1. s = {}
      BY <2>1, FS_Subset, FS_EmptySet, FS_CardinalityType
    <3> QED BY <3>1
  <2> QED BY <2>1
<1>2. ASSUME NEW n \in Nat, n \in T PROVE n + 1 \in T
  <2>1. PICK g : \A s \in SUBSET S : Cardinality(s) <= n => g[s] = Value(g, s)
    BY <1>2
  <2> DEFINE h == [s \in SUBSET S |-> Value(g, s)]
  <2>2. ASSUME NEW s \in SUBSET S, Cardinality(s) <= n + 1 PROVE h[s] = Value(h, s)
    <3>1. CASE s = {}
      BY <3>1
    <3>2. CASE s # {}
      <4> DEFINE r == s \ {Pick(s)}
      <4>1. r \in SUBSET S /\ Pick(s) \in s
        BY <3>2
      <4>2. IsFiniteSet(s)
        BY FS_Subset
      <4>3. Cardinality(r) <= n
        <5>1. Cardinality(s) \in Nat
          BY <4>2, FS_CardinalityType
        <5>2. Cardinality(r) = Cardinality(s) - 1
          BY <4>1, <4>2, FS_RemoveElement
        <5> QED BY <2>2, <5>1, <5>2
      <4>4. g[r] = h[r]
        BY <2>1, <4>1, <4>3
      <4> QED BY <3>2, <4>4
    <3> QED BY <3>1, <3>2
  <2> HIDE DEF h, Value
  <2>3. \E k : \A s \in SUBSET S : Cardinality(s) <= n + 1 => k[s] = Value(k, s)
    BY <2>2
  <2> QED BY <2>3
<1> HIDE DEF T
<1>3. Cardinality(S) \in T
  BY <1>1, <1>2, AllNaturals, FS_CardinalityType
<1>4. PICK g : \A s \in SUBSET S : Cardinality(s) <= Cardinality(S) => g[s] = Value(g, s)
  BY <1>3 DEF T
<1>5. \A s \in SUBSET S : g[s] = Value(g, s)
  BY <1>4, FS_Subset
<1> DEFINE h == [s \in SUBSET S |-> g[s]]
<1>6. h = [s \in SUBSET S |-> Value(h, s)]
  <2>1. ASSUME NEW s \in SUBSET S PROVE Value(g, s) = Value(h, s)
    <3>1. s \ {Pick(s)} \in SUBSET S
      OBVIOUS
    <3> QED BY <3>1
  <2> QED BY <1>5, <2>1
<1>7. Summation(h, f, S)
  BY <1>6 DEF Summation
<1> QED BY <1>7

LEMMA SumIsSummation ==
  ASSUME NEW f, NEW S, IsFiniteSet(S)
  PROVE  \E g : Summation(g, f, S) /\ SumFunctionOnSet(f, S) = g[S]
<1> DEFINE g == CHOOSE g : Summation(g, f, S)
<1>1. Summation(g, f, S)
  BY SummationExists
<1>2. SumFunctionOnSet(f, S) = g[S]
  BY DEF SumFunctionOnSet, FoldFunctionOnSet, MapThenFoldSet, Summation
<1> QED BY <1>1, <1>2

LEMMA SumNone == ASSUME NEW f PROVE SumFunctionOnSet(f, {}) = 0
<1>1. PICK g : Summation(g, f, {}) /\ SumFunctionOnSet(f, {}) = g[{}]
  BY FS_EmptySet, SumIsSummation
<1> QED BY <1>1 DEF Summation

\* The computation takes the members in an order of its own, but any will do.
LEMMA SummationAdds ==
  ASSUME NEW f, NEW S, IsFiniteSet(S), \A x \in S : f[x] \in Int,
         NEW g, Summation(g, f, S), NEW R \in SUBSET S
  PROVE  g[R] \in Int /\ \A x \in R : g[R] = f[x] + g[R \ {x}]
<1> DEFINE Pick(s) == CHOOSE x \in s : TRUE
           Good(s) == g[s] \in Int /\ \A x \in s : g[s] = f[x] + g[s \ {x}]
           T == {n \in Nat : \A s \in SUBSET S : Cardinality(s) <= n => Good(s)}
<1>1. /\ g[{}] = 0
      /\ \A s \in SUBSET S : s # {} => Pick(s) \in s /\ g[s] = f[Pick(s)] + g[s \ {Pick(s)}]
  BY DEF Summation
<1>2. 0 \in T
  <2>1. ASSUME NEW s \in SUBSET S, Cardinality(s) <= 0 PROVE Good(s)
    <3>1. s = {}
      BY <2>1, FS_Subset, FS_EmptySet, FS_CardinalityType
    <3> QED BY <1>1, <3>1
  <2> QED BY <2>1
<1>3. ASSUME NEW n \in Nat, n \in T PROVE n + 1 \in T
  <2>0. Good({})
    BY <1>1
  <2> HIDE DEF Good
  <2> SUFFICES ASSUME NEW s \in SUBSET S, Cardinality(s) <= n + 1, s # {} PROVE Good(s)
    BY <2>0
  <2> DEFINE y == Pick(s)
  <2>1. y \in s /\ g[s] = f[y] + g[s \ {y}] /\ f[y] \in Int
    BY <1>1
  <2> HIDE DEF y
  <2>2. IsFiniteSet(s) /\ Cardinality(s) \in Nat
    BY FS_Subset, FS_CardinalityType
  <2>3. ASSUME NEW x \in s, NEW r \in SUBSET (s \ {x}) PROVE Good(r)
    <3>1. /\ IsFiniteSet(s \ {x}) /\ Cardinality(s \ {x}) = Cardinality(s) - 1
          /\ Cardinality(r) <= Cardinality(s \ {x}) /\ IsFiniteSet(r)
      BY <2>2, <2>3, FS_RemoveElement, FS_Subset
    <3>2. Cardinality(r) \in Nat /\ r \in SUBSET S
      BY <3>1, FS_CardinalityType
    <3>3. Cardinality(r) <= n
      BY <2>2, <3>1, <3>2
    <3> QED BY <1>3, <3>2, <3>3
  <2>4. ASSUME NEW x \in s, x # y PROVE g[s] = f[x] + g[s \ {x}]
    <3> DEFINE both == g[(s \ {y}) \ {x}]
    <3>1. (s \ {y}) \ {x} = (s \ {x}) \ {y} /\ x \in s \ {y} /\ y \in s \ {x}
      BY <2>1, <2>4
    <3>2. Good(s \ {y}) /\ Good(s \ {x}) /\ Good((s \ {y}) \ {x})
      BY <2>1, <2>3
    <3>3. g[s \ {y}] = f[x] + both /\ g[s \ {x}] = f[y] + both
      BY <3>1, <3>2 DEF Good
    <3>4. both \in Int /\ f[x] \in Int
      BY <3>2 DEF Good
    <3> QED BY <2>1, <3>3, <3>4
  <2>5. g[s \ {y}] \in Int
    BY <2>1, <2>3 DEF Good
  <2>6. g[s] \in Int
    BY <2>1, <2>5
  <2>7. ASSUME NEW x \in s PROVE g[s] = f[x] + g[s \ {x}]
    BY <2>1, <2>4
  <2> QED BY <2>6, <2>7 DEF Good
<1> HIDE DEF T
<1>4. ASSUME NEW s \in SUBSET S PROVE Good(s)
  <2>1. IsFiniteSet(s) /\ Cardinality(s) \in Nat
    BY FS_Subset, FS_CardinalityType
  <2>2. Cardinality(s) \in T
    BY <1>2, <1>3, <2>1, AllNaturals
  <2>3. Cardinality(s) <= Cardinality(s)
    BY <2>1
  <2> HIDE DEF Good
  <2> QED BY <2>2, <2>3 DEF T
<1> QED BY <1>4

LEMMA SumAdds ==
  ASSUME NEW f, NEW S, IsFiniteSet(S), \A x \in S : f[x] \in Int
  PROVE  /\ SumFunctionOnSet(f, S) \in Int
         /\ \A x \in S : SumFunctionOnSet(f, S) = f[x] + SumFunctionOnSet(f, S \ {x})
<1>1. PICK g : Summation(g, f, S) /\ SumFunctionOnSet(f, S) = g[S]
  BY SumIsSummation
<1>2. ASSUME NEW R \in SUBSET S
      PROVE  g[R] \in Int /\ \A x \in R : g[R] = f[x] + g[R \ {x}]
  <2>1. Summation(g, f, S)
    BY <1>1
  <2>2. IsFiniteSet(S) /\ \A x \in S : f[x] \in Int
    OBVIOUS
  <2> QED BY <2>1, <2>2, SummationAdds
<1>3. ASSUME NEW x \in S PROVE SumFunctionOnSet(f, S) = f[x] + SumFunctionOnSet(f, S \ {x})
  <2> DEFINE rest == S \ {x}
  <2>1. IsFiniteSet(rest) /\ rest \in SUBSET S
    BY FS_RemoveElement
  <2>2. PICK h : Summation(h, f, rest) /\ SumFunctionOnSet(f, rest) = h[rest]
    BY <2>1, SumIsSummation
  <2>3. ASSUME NEW R \in SUBSET rest PROVE \A y \in R : h[R] = f[y] + h[R \ {y}]
    <3>1. \A y \in rest : f[y] \in Int
      OBVIOUS
    <3> HIDE DEF rest
    <3> QED BY <2>1, <2>2, <3>1, SummationAdds
  <2> HIDE DEF rest
  <2> DEFINE T == {R \in SUBSET rest : g[R] = h[R]}
  <2>4. {} \in T
    BY <1>1, <2>2 DEF Summation
  <2>5. ASSUME NEW R \in SUBSET rest, NEW y \in rest \ R, R \in T PROVE R \cup {y} \in T
    <3>1. /\ y \in R \cup {y} /\ (R \cup {y}) \ {y} = R
          /\ R \cup {y} \in SUBSET rest /\ R \cup {y} \in SUBSET S
      BY <2>1
    <3>2. g[R \cup {y}] = f[y] + g[R] /\ h[R \cup {y}] = f[y] + h[R]
      BY <1>2, <2>3, <3>1
    <3> QED BY <2>5, <3>1, <3>2
  <2> HIDE DEF T
  <2>6. rest \in T
    BY <2>1, <2>4, <2>5, AllFinite
  <2>7. g[S] = f[x] + g[rest]
    BY <1>2 DEF rest
  <2> QED BY <1>1, <2>2, <2>6, <2>7 DEF T, rest
<1> QED BY <1>1, <1>2, <1>3

LEMMA SumInserts ==
  ASSUME NEW f, NEW S, IsFiniteSet(S), NEW x, x \notin S,
         \A y \in S \cup {x} : f[y] \in Int
  PROVE  /\ SumFunctionOnSet(f, S \cup {x}) = f[x] + SumFunctionOnSet(f, S)
         /\ SumFunctionOnSet(f, S) \in Int /\ f[x] \in Int
<1>1. IsFiniteSet(S \cup {x})
  BY FS_AddElement
<1>2. (S \cup {x}) \ {x} = S /\ x \in S \cup {x}
  OBVIOUS
<1>3. SumFunctionOnSet(f, S \cup {x}) = f[x] + SumFunctionOnSet(f, (S \cup {x}) \ {x})
  BY <1>1, <1>2, SumAdds
<1> QED BY <1>2, <1>3, SumAdds

LEMMA SumOfSums ==
  ASSUME NEW S, IsFiniteSet(S), NEW a, NEW b, NEW c,
         \A x \in S : a[x] \in Int /\ b[x] \in Int /\ c[x] = a[x] + b[x]
  PROVE  SumFunctionOnSet(c, S) = SumFunctionOnSet(a, S) + SumFunctionOnSet(b, S)
<1> DEFINE Total(f, R) == SumFunctionOnSet(f, R)
           T == {R \in SUBSET S : Total(c, R) = Total(a, R) + Total(b, R)}
<1>1. {} \in T
  BY SumNone
<1>2. ASSUME NEW R \in SUBSET S, NEW x \in S \ R, R \in T PROVE R \cup {x} \in T
  <2>1. IsFiniteSet(R) /\ R \cup {x} \in SUBSET S
    BY FS_Subset
  <2>2. \A y \in R \cup {x} : a[y] \in Int /\ b[y] \in Int /\ c[y] \in Int /\ c[y] = a[y] + b[y]
    BY <2>1
  <2>3. /\ Total(a, R \cup {x}) = a[x] + Total(a, R)
        /\ Total(b, R \cup {x}) = b[x] + Total(b, R)
        /\ Total(c, R \cup {x}) = c[x] + Total(c, R)
        /\ Total(a, R) \in Int /\ Total(b, R) \in Int
    BY <2>1, <2>2, SumInserts
  <2>4. Total(c, R) = Total(a, R) + Total(b, R)
    BY <1>2
  <2> HIDE DEF Total
  <2>5. Total(c, R \cup {x}) = Total(a, R \cup {x}) + Total(b, R \cup {x})
    BY <2>2, <2>3, <2>4
  <2> QED BY <2>1, <2>5
<1> HIDE DEF T
<1>3. S \in T
  BY <1>1, <1>2, AllFinite
<1> QED BY <1>3 DEF T

\* Equal summands have equal sums.
LEMMA SumSame ==
  ASSUME NEW S, IsFiniteSet(S), NEW a, NEW b,
         \A x \in S : a[x] \in Int /\ a[x] = b[x]
  PROVE  SumFunctionOnSet(a, S) = SumFunctionOnSet(b, S)
<1> DEFINE Total(f, R) == SumFunctionOnSet(f, R)
           T == {R \in SUBSET S : Total(a, R) = Total(b, R)}
<1>1. {} \in T
  BY SumNone
<1>2. ASSUME NEW R \in SUBSET S, NEW x \in S \ R, R \in T PROVE R \cup {x} \in T
  <2>1. IsFiniteSet(R) /\ R \cup {x} \in SUBSET S
    BY FS_Subset
  <2>2. \A y \in R \cup {x} : a[y] \in Int /\ b[y] \in Int /\ a[y] = b[y]
    BY <2>1
  <2>3. /\ Total(a, R \cup {x}) = a[x] + Total(a, R)
        /\ Total(b, R \cup {x}) = b[x] + Total(b, R)
    BY <2>1, <2>2, SumInserts
  <2> QED BY <1>2, <2>1, <2>2, <2>3
<1> HIDE DEF T
<1>3. S \in T
  BY <1>1, <1>2, AllFinite
<1> QED BY <1>3 DEF T

\* To count is to add ones.
LEMMA SumOfOnes ==
  ASSUME NEW S, IsFiniteSet(S), NEW A \in SUBSET S, NEW c,
         \A x \in S : c[x] = IF x \in A THEN 1 ELSE 0
  PROVE  SumFunctionOnSet(c, S) = Cardinality(A)
<1> DEFINE Total(R) == SumFunctionOnSet(c, R)
           T == {R \in SUBSET S : Total(R) = Cardinality(A \cap R)}
<1>1. {} \in T
  <2>1. A \cap {} = {}
    OBVIOUS
  <2> QED BY <2>1, SumNone, FS_EmptySet
<1>2. ASSUME NEW R \in SUBSET S, NEW x \in S \ R, R \in T PROVE R \cup {x} \in T
  <2>1. IsFiniteSet(R) /\ R \cup {x} \in SUBSET S /\ IsFiniteSet(A \cap R)
    BY FS_Subset, FS_Intersection
  <2>2. \A y \in R \cup {x} : c[y] \in Int
    BY <2>1
  <2>3. Total(R \cup {x}) = c[x] + Total(R) /\ Total(R) \in Int
    BY <2>1, <2>2, SumInserts
  <2>4. Cardinality(A \cap (R \cup {x})) = c[x] + Cardinality(A \cap R)
    <3>1. Cardinality(A \cap R) \in Nat
      BY <2>1, FS_CardinalityType
    <3>2. CASE x \in A
      <4>1. A \cap (R \cup {x}) = (A \cap R) \cup {x} /\ x \notin A \cap R
        BY <3>2
      <4>2. Cardinality((A \cap R) \cup {x}) = Cardinality(A \cap R) + 1
        BY <2>1, <4>1, FS_AddElement
      <4>3. c[x] = 1
        BY <3>2
      <4>4. Cardinality(A \cap (R \cup {x})) = Cardinality(A \cap R) + 1
        BY <4>1, <4>2
      <4> QED BY <3>1, <4>3, <4>4
    <3>3. CASE x \notin A
      <4>1. A \cap (R \cup {x}) = A \cap R
        BY <3>3
      <4>2. c[x] = 0
        BY <3>3
      <4> QED BY <3>1, <4>1, <4>2
    <3> QED BY <3>2, <3>3
  <2> QED BY <1>2, <2>1, <2>3, <2>4
<1> HIDE DEF T
<1>3. S \in T
  BY <1>1, <1>2, AllFinite
<1>4. A \cap S = A
  OBVIOUS
<1> QED BY <1>3, <1>4 DEF T

\* Only one summand is not zero.
LEMMA SumOfOne ==
  ASSUME NEW S, IsFiniteSet(S), NEW x \in S, NEW c, c[x] \in Int,
         \A y \in S \ {x} : c[y] = 0
  PROVE  SumFunctionOnSet(c, S) = c[x]
<1>1. IsFiniteSet(S \ {x}) /\ {} \in SUBSET (S \ {x})
  BY FS_RemoveElement
<1>2. SumFunctionOnSet(c, S \ {x}) = 0
  BY <1>1, SumOfOnes, FS_EmptySet
<1>3. \A y \in S : c[y] \in Int
  OBVIOUS
<1>4. SumFunctionOnSet(c, S) = c[x] + SumFunctionOnSet(c, S \ {x})
  BY <1>3, SumAdds
<1> QED BY <1>2, <1>4

LEMMA SumOfTwo ==
  ASSUME NEW f, NEW x, NEW y, x # y, f[x] \in Int, f[y] \in Int
  PROVE  SumFunctionOnSet(f, {x, y}) = f[x] + f[y]
<1>1. IsFiniteSet({x}) /\ y \notin {x} /\ {x} \cup {y} = {x, y}
  BY FS_Singleton
<1>2. SumFunctionOnSet(f, {x} \cup {y}) = f[y] + SumFunctionOnSet(f, {x})
  BY <1>1, SumInserts
<1>3. SumFunctionOnSet(f, {x}) = f[x]
  BY <1>1, SumOfOne
<1>4. SumFunctionOnSet(f, {x, y}) = f[y] + f[x]
  BY <1>1, <1>2, <1>3, Zenon
<1> QED BY <1>4

\* A sum may be taken part by part.
Part(p, M, k) == {m \in M : p[m] = k}

LEMMA SumByParts ==
  ASSUME NEW M, IsFiniteSet(M), NEW K, IsFiniteSet(K),
         NEW p, \A m \in M : p[m] \in K,
         NEW v, \A m \in M : v[m] \in Int,
         NEW w, \A k \in K : w[k] = SumFunctionOnSet(v, Part(p, M, k))
  PROVE  SumFunctionOnSet(w, K) = SumFunctionOnSet(v, M)
<1> USE DEF Part
<1> DEFINE Parts(R) == [k \in K |-> SumFunctionOnSet(v, Part(p, R, k))]
           T == {R \in SUBSET M : SumFunctionOnSet(Parts(R), K) = SumFunctionOnSet(v, R)}
<1>1. ASSUME NEW R \in SUBSET M, NEW k \in K
      PROVE  Parts(R)[k] \in Int /\ IsFiniteSet(R) /\ IsFiniteSet(Part(p, R, k))
  <2>1. Part(p, R, k) \in SUBSET M /\ \A m \in Part(p, R, k) : v[m] \in Int
    OBVIOUS
  <2>2. IsFiniteSet(R) /\ IsFiniteSet(Part(p, R, k))
    BY <2>1, FS_Subset
  <2>3. SumFunctionOnSet(v, Part(p, R, k)) \in Int
    BY <2>1, <2>2, SumAdds
  <2> QED BY <2>2, <2>3
<1>2. {} \in T
  <2>1. \A k \in K : Parts({})[k] = 0
    <3>1. \A k \in K : Part(p, {}, k) = {}
      OBVIOUS
    <3> QED BY <3>1, SumNone
  <2> HIDE DEF Parts
  <2>2. SumFunctionOnSet(Parts({}), K) = 0
    <3>1. {} \in SUBSET K
      OBVIOUS
    <3> QED BY <2>1, <3>1, SumOfOnes, FS_EmptySet
  <2> QED BY <2>2, SumNone
<1>3. ASSUME NEW R \in SUBSET M, NEW x \in M \ R, R \in T PROVE R \cup {x} \in T
  <2> DEFINE more == R \cup {x}
             only == [k \in K |-> IF k = p[x] THEN v[x] ELSE 0]
  <2>1. more \in SUBSET M /\ p[x] \in K /\ v[x] \in Int /\ IsFiniteSet(R)
    BY FS_Subset
  <2>2. ASSUME NEW k \in K
        PROVE  Parts(R)[k] \in Int /\ only[k] \in Int /\ Parts(more)[k] = Parts(R)[k] + only[k]
    <3>1. Parts(R)[k] \in Int /\ IsFiniteSet(Part(p, R, k)) /\ only[k] \in Int
      BY <1>1, <2>1
    <3>2. CASE k = p[x]
      <4>1. Part(p, more, k) = Part(p, R, k) \cup {x} /\ x \notin Part(p, R, k)
        BY <3>2
      <4>2. \A m \in Part(p, R, k) \cup {x} : v[m] \in Int
        OBVIOUS
      <4>3. SumFunctionOnSet(v, Part(p, R, k) \cup {x}) = v[x] + SumFunctionOnSet(v, Part(p, R, k))
        <5> HIDE DEF Part
        <5> QED BY <3>1, <4>1, <4>2, SumInserts
      <4>4. Parts(more)[k] = v[x] + Parts(R)[k] /\ only[k] = v[x]
        BY <3>2, <4>1, <4>3
      <4> QED BY <2>1, <3>1, <4>4
    <3>3. CASE k # p[x]
      <4>1. Part(p, more, k) = Part(p, R, k)
        BY <3>3
      <4>2. Parts(more)[k] = Parts(R)[k] /\ only[k] = 0
        BY <3>3, <4>1
      <4> QED BY <3>1, <4>2
    <3> QED BY <3>2, <3>3
  <2>3. SumFunctionOnSet(Parts(more), K)
          = SumFunctionOnSet(Parts(R), K) + SumFunctionOnSet(only, K)
    <3> HIDE DEF Parts, only
    <3> QED BY <2>2, SumOfSums
  <2>4. SumFunctionOnSet(only, K) = v[x]
    <3>1. only[p[x]] = v[x] /\ \A k \in K \ {p[x]} : only[k] = 0
      BY <2>1
    <3> HIDE DEF only
    <3> QED BY <2>1, <3>1, SumOfOne
  <2>5. /\ SumFunctionOnSet(v, more) = v[x] + SumFunctionOnSet(v, R)
        /\ SumFunctionOnSet(v, R) \in Int
    <3>1. x \notin R /\ \A m \in R \cup {x} : v[m] \in Int
      OBVIOUS
    <3> QED BY <2>1, <3>1, SumInserts
  <2>6. SumFunctionOnSet(Parts(R), K) = SumFunctionOnSet(v, R)
    BY <1>3
  <2> HIDE DEF Parts, only, more
  <2>7. SumFunctionOnSet(Parts(more), K) = SumFunctionOnSet(v, more)
    BY <2>1, <2>3, <2>4, <2>5, <2>6
  <2> QED BY <2>1, <2>7 DEF more
<1> HIDE DEF T
<1>4. M \in T
  BY <1>2, <1>3, AllFinite
<1>5. SumFunctionOnSet(Parts(M), K) = SumFunctionOnSet(w, K)
  <2>1. \A k \in K : Parts(M)[k] \in Int /\ Parts(M)[k] = w[k]
    BY <1>1
  <2> HIDE DEF Parts
  <2> QED BY <2>1, SumSame
<1> QED BY <1>4, <1>5 DEF T

-------------------------------------------------------------------------------
(* Ranks *)

\* The members of a finite set that is strictly ordered are numbered by how many
\* come before them.
LEMMA RanksNumber ==
  ASSUME NEW L, IsFiniteSet(L), NEW R,
         \A x \in L : <<x, x>> \notin R,
         \A x, y, z \in L : <<x, y>> \in R /\ <<y, z>> \in R => <<x, z>> \in R,
         \A x, y \in L : x # y => <<x, y>> \in R \/ <<y, x>> \in R
  PROVE  [x \in L |-> Cardinality({y \in L : <<y, x>> \in R})]
           \in Bijection(L, 0..(Cardinality(L) - 1))
<1> DEFINE Before(x) == {y \in L : <<y, x>> \in R}
           rank == [x \in L |-> Cardinality(Before(x))]
           n == Cardinality(L)
           N == 0..(n - 1)
<1>1. n \in Nat
  BY FS_CardinalityType
<1>2. ASSUME NEW x \in L PROVE IsFiniteSet(Before(x)) /\ rank[x] \in Nat
  <2>1. IsFiniteSet(Before(x))
    <3>1. Before(x) \subseteq L
      OBVIOUS
    <3> HIDE DEF Before
    <3> QED BY <3>1, FS_Subset
  <2>2. Cardinality(Before(x)) \in Nat
    <3> HIDE DEF Before
    <3> QED BY <2>1, FS_CardinalityType
  <2> QED BY <2>1, <2>2
<1>3. ASSUME NEW x \in L PROVE rank[x] \in N
  <2>1. IsFiniteSet(L \ {x}) /\ Cardinality(L \ {x}) = n - 1
    BY FS_RemoveElement
  <2>2. Before(x) \subseteq L \ {x}
    OBVIOUS
  <2>3. Cardinality(Before(x)) <= n - 1
    <3> HIDE DEF Before
    <3> QED BY <2>1, <2>2, FS_Subset
  <2>4. rank[x] \in Nat /\ rank[x] <= n - 1
    BY <1>2, <2>3
  <2> HIDE DEF rank, n
  <2> QED BY <1>1, <2>4
<1>4. ASSUME NEW x \in L, NEW y \in L, <<x, y>> \in R PROVE rank[x] < rank[y]
  <2>1. IsFiniteSet(Before(y)) /\ Cardinality(Before(y)) \in Nat
    BY <1>2
  <2>2. x \in Before(y) /\ Before(x) \subseteq Before(y) \ {x}
    BY <1>4
  <2>3. Cardinality(Before(x)) \in Nat
    BY <1>2
  <2>4. /\ IsFiniteSet(Before(y) \ {x})
        /\ Cardinality(Before(y) \ {x}) = Cardinality(Before(y)) - 1
        /\ Cardinality(Before(x)) <= Cardinality(Before(y) \ {x})
    <3> HIDE DEF Before
    <3> QED BY <2>1, <2>2, FS_RemoveElement, FS_Subset
  <2>5. Cardinality(Before(x)) < Cardinality(Before(y))
    <3> HIDE DEF Before
    <3> QED BY <2>1, <2>3, <2>4
  <2> QED BY <2>5
<1>5. ASSUME NEW x \in L, NEW y \in L, rank[x] = rank[y] PROVE x = y
  <2>1. rank[x] \in Nat
    BY <1>2
  <2> HIDE DEF rank
  <2>2. ~(rank[x] < rank[y]) /\ ~(rank[y] < rank[x])
    BY <1>5, <2>1
  <2> QED BY <1>4, <2>2
<1>6. rank \in Injection(L, N)
  <2>1. rank \in [L -> N]
    BY <1>3
  <2> HIDE DEF rank, N
  <2> QED BY <1>5, <2>1 DEF Injection, IsInjective
<1>7. IsFiniteSet(N) /\ Cardinality(N) = n
  <2>1. n - 1 \in Int /\ 0 \in Int
    BY <1>1
  <2> HIDE DEF n
  <2>2. /\ IsFiniteSet(0..(n - 1))
        /\ Cardinality(0..(n - 1)) = IF 0 > n - 1 THEN 0 ELSE (n - 1) - 0 + 1
    BY <2>1, FS_Interval
  <2> QED BY <1>1, <2>2
<1>8. rank \in Surjection(L, N)
  <2> HIDE DEF rank, N
  <2> QED BY <1>6, <1>7, FS_Injection DEF n
<1> HIDE DEF rank, N
<1>9. rank \in Bijection(L, N)
  BY <1>6, <1>8 DEF Bijection
<1> QED BY <1>9 DEF rank, N, n
===============================================================================
