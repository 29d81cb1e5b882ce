------------------------------ MODULE NumberSets ------------------------------
(***************************************************************************)
(* Facts about finite sets that the proofs share: Min and Max of a set of  *)
(* numbers are what their names say, and the sum of a function over a set  *)
(* can be split, bounded and compared term by term.                        *)
(***************************************************************************)
EXTENDS Integers, FiniteSetsExt, FiniteSetTheorems, WellFoundedInduction, TLAPS

\* Min is the least element (the query of minCheckpointNumber).
LEMMA MinIsLeast ==
    ASSUME NEW S \in SUBSET Nat, S # {}
    PROVE  Min(S) \in S /\ \A y \in S : Min(S) <= y
<1> DEFINE R == {p \in Nat \X Nat : p[1] < p[2]}
<1>1. IsWellFoundedOn(R, Nat)
  BY NatLessThanWellFounded DEF OpToRel
<1> HIDE DEF R
<1>2. \E x \in S : \A y \in S : ~(<<y, x>> \in R)
  BY <1>1, WFMin
<1>3. \A x, y \in Nat : <<y, x>> \notin R => x <= y
  BY DEF R
<1>4. \E x \in S : \A y \in S : x <= y
  BY <1>2, <1>3
<1> QED
  BY <1>4 DEF Min

\* Max is the greatest element of a bounded set (the query of
\* maxCheckpointNumber, the last stored share event).
LEMMA MaxIsGreatest ==
    ASSUME NEW S \in SUBSET Nat, S # {}, NEW top \in Nat, \A y \in S : y <= top
    PROVE  Max(S) \in S /\ \A y \in S : y <= Max(S)
<1> DEFINE Bounds == {b \in Nat : \A y \in S : y <= b}
<1>1. Bounds \in SUBSET Nat /\ top \in Bounds
  OBVIOUS
<1>2. PICK b \in Bounds : \A c \in Bounds : b <= c
  BY <1>1, MinIsLeast
<1>3. b \in S
  <2> SUFFICES ASSUME b \notin S PROVE FALSE
    OBVIOUS
  <2>1. \A y \in S : y <= b - 1
    BY <1>2
  <2>2. b - 1 \in Nat
    <3>1. PICK y \in S : TRUE
      OBVIOUS
    <3> QED
      BY <2>1, <3>1
  <2> QED
    BY <1>2, <2>1, <2>2
<1> QED
  BY <1>2, <1>3 DEF Max

\* One step of the recursion that SumFunctionOnSet folds with.
Pick(s) == CHOOSE x \in s : TRUE

SumStep(f, g, s) == IF s = {} THEN 0 ELSE f[Pick(s)] + g[s \ {Pick(s)}]

IsSumOf(g, f, S) == g = [s \in SUBSET S |-> SumStep(f, g, s)]

\* The recursion has a solution on the subsets of a finite set.
LEMMA SumExists ==
    ASSUME NEW f, NEW S, IsFiniteSet(S)
    PROVE  \E g : IsSumOf(g, f, S)
<1> DEFINE UpTo(g, n) ==
             /\ g = [s \in SUBSET S |-> g[s]]
             /\ \A s \in SUBSET S : Cardinality(s) <= n => g[s] = SumStep(f, g, s)
           Bad == {n \in Nat : ~ \E g : UpTo(g, n)}
<1>0. \A s \in SUBSET S : IsFiniteSet(s) /\ Cardinality(s) \in Nat
  BY FS_Subset, FS_CardinalityType
<1>1. Bad = {}
  <2> SUFFICES ASSUME Bad # {} PROVE FALSE
    OBVIOUS
  <2>1. PICK n \in Bad : \A m \in Bad : n <= m
    <3>1. Bad \in SUBSET Nat
      OBVIOUS
    <3> HIDE DEF Bad
    <3> QED
      BY <3>1, MinIsLeast
  <2>2. CASE n = 0
    <3> DEFINE g == [s \in SUBSET S |-> 0]
    <3>1. \A s \in SUBSET S : Cardinality(s) <= 0 => s = {}
      BY <1>0, FS_EmptySet
    <3>2. UpTo(g, 0)
      BY <3>1 DEF SumStep
    <3> QED
      BY <2>2, <3>2
  <2>3. CASE n # 0
    <3>1. n - 1 \in Nat /\ n - 1 \notin Bad
      <4>1. n \in Nat
        OBVIOUS
      <4> HIDE DEF Bad
      <4> QED
        BY <2>1, <2>3, <4>1
    <3>2. PICK g : UpTo(g, n - 1)
      BY <3>1
    <3> DEFINE h == [s \in SUBSET S |-> SumStep(f, g, s)]
    <3>3. ASSUME NEW s \in SUBSET S, Cardinality(s) <= n
          PROVE  h[s] = SumStep(f, h, s)
      <4>1. CASE s = {}
        BY <4>1 DEF SumStep
      <4>2. CASE s # {}
        <5> DEFINE r == s \ {Pick(s)}
        <5>1. Pick(s) \in s
          BY <4>2 DEF Pick
        <5>2. Cardinality(r) = Cardinality(s) - 1 /\ r \in SUBSET S
          BY <1>0, <5>1, FS_RemoveElement
        <5>3. Cardinality(r) <= n - 1
          BY <1>0, <3>1, <3>3, <5>2
        <5>4. g[r] = SumStep(f, g, r)
          BY <3>2, <5>2, <5>3
        <5>5. h[r] = g[r]
          BY <5>2, <5>4
        <5>6. h[s] = f[Pick(s)] + g[r]
          BY <4>2 DEF SumStep
        <5> QED
          BY <4>2, <5>5, <5>6 DEF SumStep
      <4> QED
        BY <4>1, <4>2
    <3>4. UpTo(h, n)
      BY <3>3
    <3> QED
      BY <3>4
  <2> QED
    BY <2>2, <2>3
<1>2. PICK g : UpTo(g, Cardinality(S))
  BY <1>0, <1>1
<1>3. \A s \in SUBSET S : Cardinality(s) <= Cardinality(S)
  BY FS_Subset
<1>4. IsSumOf(g, f, S)
  BY <1>2, <1>3 DEF IsSumOf
<1> QED
  BY <1>4

\* Induction over finite sets: a family of subsets has a member from which no
\* element can be taken without leaving the family.
LEMMA MinimalMember ==
    ASSUME NEW S, IsFiniteSet(S), NEW F \in SUBSET (SUBSET S), F # {}
    PROVE  \E s \in F : \A x \in s : s \ {x} \notin F
<1> DEFINE Sizes == {Cardinality(s) : s \in F}
<1>1. \A s \in F : IsFiniteSet(s) /\ Cardinality(s) \in Nat
  BY FS_Subset, FS_CardinalityType
<1>2. Sizes \in SUBSET Nat /\ Sizes # {}
  BY <1>1
<1>3. PICK n \in Sizes : \A m \in Sizes : n <= m
  <2> HIDE DEF Sizes
  <2> QED
    BY <1>2, MinIsLeast
<1>4. PICK s \in F : Cardinality(s) = n
  OBVIOUS
<1>5. ASSUME NEW x \in s, s \ {x} \in F PROVE FALSE
  <2>1. Cardinality(s \ {x}) = Cardinality(s) - 1
    BY <1>1, FS_RemoveElement
  <2>2. Cardinality(s) <= Cardinality(s \ {x})
    BY <1>3, <1>4, <1>5
  <2> QED
    BY <1>1, <2>1, <2>2
<1> QED
  BY <1>5

\* There is only one solution.
LEMMA SumUnique ==
    ASSUME NEW f, NEW S, IsFiniteSet(S), NEW T \in SUBSET S,
           NEW g, IsSumOf(g, f, S), NEW h, IsSumOf(h, f, T)
    PROVE  h[T] = g[T]
<1> DEFINE Bad == {s \in SUBSET T : h[s] # g[s]}
<1> SUFFICES ASSUME Bad # {} PROVE FALSE
  OBVIOUS
<1>1. PICK s \in Bad : \A x \in s : s \ {x} \notin Bad
  <2>1. IsFiniteSet(T) /\ Bad \in SUBSET (SUBSET T)
    BY FS_Subset
  <2> HIDE DEF Bad
  <2> QED
    BY <2>1, MinimalMember
<1>2. h[s] = SumStep(f, h, s) /\ g[s] = SumStep(f, g, s)
  BY DEF IsSumOf
<1>3. s # {}
  BY <1>2 DEF SumStep
<1>4. Pick(s) \in s
  BY <1>3 DEF Pick
<1>5. h[s \ {Pick(s)}] = g[s \ {Pick(s)}]
  BY <1>1, <1>4
<1> QED
  BY <1>2, <1>3, <1>5 DEF SumStep

\* SumFunctionOnSet is the solution.
LEMMA SumIsSolution ==
    ASSUME NEW f, NEW S, IsFiniteSet(S)
    PROVE  \E g : IsSumOf(g, f, S) /\ SumFunctionOnSet(f, S) = g[S]
<1> DEFINE sol == CHOOSE g : IsSumOf(g, f, S)
<1>1. IsSumOf(sol, f, S)
  <2>1. \E g : IsSumOf(g, f, S)
    BY SumExists
  <2> QED
    BY <2>1
<1>2. SumFunctionOnSet(f, S) = sol[S]
  BY DEF SumFunctionOnSet, FoldFunctionOnSet, MapThenFoldSet, IsSumOf, SumStep, Pick
<1> QED
  BY <1>1, <1>2

LEMMA SumEmpty == \A f : SumFunctionOnSet(f, {}) = 0
<1> TAKE f
<1>1. PICK g : IsSumOf(g, f, {}) /\ SumFunctionOnSet(f, {}) = g[{}]
  BY SumIsSolution, FS_EmptySet
<1>2. g[{}] = SumStep(f, g, {})
  BY <1>1 DEF IsSumOf
<1> QED
  BY <1>1, <1>2 DEF SumStep

LEMMA SumPicked ==
    ASSUME NEW f, NEW S, IsFiniteSet(S), S # {}
    PROVE  /\ Pick(S) \in S
           /\ SumFunctionOnSet(f, S)
                 = f[Pick(S)] + SumFunctionOnSet(f, S \ {Pick(S)})
<1> DEFINE T == S \ {Pick(S)}
<1>1. Pick(S) \in S
  BY DEF Pick
<1>2. IsFiniteSet(T) /\ T \in SUBSET S
  BY FS_RemoveElement
<1>3. PICK g : IsSumOf(g, f, S) /\ SumFunctionOnSet(f, S) = g[S]
  BY SumIsSolution
<1>4. PICK h : IsSumOf(h, f, T) /\ SumFunctionOnSet(f, T) = h[T]
  BY <1>2, SumIsSolution
<1>5. h[T] = g[T]
  BY <1>2, <1>3, <1>4, SumUnique
<1>6. g[S] = f[Pick(S)] + g[T]
  BY <1>3 DEF IsSumOf, SumStep
<1> QED
  BY <1>1, <1>3, <1>4, <1>5, <1>6

\* The sum of integers is an integer.
LEMMA SumType ==
    ASSUME NEW f, NEW S, IsFiniteSet(S), \A x \in S : f[x] \in Int
    PROVE  SumFunctionOnSet(f, S) \in Int
<1> DEFINE Bad == {s \in SUBSET S : SumFunctionOnSet(f, s) \notin Int}
<1> SUFFICES ASSUME Bad # {} PROVE FALSE
  OBVIOUS
<1>1. PICK s \in Bad : \A x \in s : s \ {x} \notin Bad
  <2>1. Bad \in SUBSET (SUBSET S)
    OBVIOUS
  <2> HIDE DEF Bad
  <2> QED
    BY <2>1, MinimalMember
<1>2. IsFiniteSet(s)
  BY FS_Subset
<1>3. s # {}
  BY SumEmpty
<1>4. Pick(s) \in s /\ SumFunctionOnSet(f, s) = f[Pick(s)] + SumFunctionOnSet(f, s \ {Pick(s)})
  BY <1>2, <1>3, SumPicked
<1>5. SumFunctionOnSet(f, s \ {Pick(s)}) \in Int /\ f[Pick(s)] \in Int
  BY <1>1, <1>4
<1> QED
  BY <1>4, <1>5

\* Any element may be taken out first: the order of the summation is free.
LEMMA SumRemove ==
    ASSUME NEW f, NEW S, IsFiniteSet(S), \A x \in S : f[x] \in Int, NEW a \in S
    PROVE  SumFunctionOnSet(f, S) = f[a] + SumFunctionOnSet(f, S \ {a})
<1> DEFINE Sum(s) == SumFunctionOnSet(f, s)
           Bad == {s \in SUBSET S : \E x \in s : Sum(s) # f[x] + Sum(s \ {x})}
<1>0. \A s \in SUBSET S : IsFiniteSet(s) /\ Sum(s) \in Int
  BY FS_Subset, SumType
<1>1. \A s \in SUBSET S : s # {} => Pick(s) \in s /\ Sum(s) = f[Pick(s)] + Sum(s \ {Pick(s)})
  BY <1>0, SumPicked
<1>2. Bad = {}
  <2> SUFFICES ASSUME Bad # {} PROVE FALSE
    OBVIOUS
  <2>1. PICK s \in Bad : \A x \in s : s \ {x} \notin Bad
    <3>1. Bad \in SUBSET (SUBSET S)
      OBVIOUS
    <3> HIDE DEF Bad
    <3> QED
      BY <3>1, MinimalMember
  <2>2. PICK x \in s : Sum(s) # f[x] + Sum(s \ {x})
    OBVIOUS
  <2> DEFINE y == Pick(s)
             rest == s \ {x, y}
  <2>3. s \in SUBSET S /\ y \in s /\ Sum(s) = f[y] + Sum(s \ {y})
    BY <1>1
  <2>4. x # y
    BY <2>2, <2>3
  <2> HIDE DEF y, Sum
  <2>5. s \ {y} \in SUBSET S /\ x \in s \ {y} /\ (s \ {y}) \ {x} = rest
    BY <2>3, <2>4
  <2>6. s \ {x} \in SUBSET S /\ y \in s \ {x} /\ (s \ {x}) \ {y} = rest
    BY <2>3, <2>4
  <2>7. \A t \in SUBSET S : t \notin Bad => \A z \in t : Sum(t) = f[z] + Sum(t \ {z})
    OBVIOUS
  <2>8. s \ {y} \notin Bad /\ s \ {x} \notin Bad
    BY <2>1, <2>3
  <2> HIDE DEF rest, Bad
  <2>9. Sum(s \ {y}) = f[x] + Sum(rest) /\ Sum(s \ {x}) = f[y] + Sum(rest)
    BY <2>5, <2>6, <2>7, <2>8
  <2>10. f[x] \in Int /\ f[y] \in Int /\ Sum(rest) \in Int
    BY <1>0, <2>3, <2>5 DEF rest
  <2> QED
    BY <2>2, <2>3, <2>9, <2>10
<1>3. S \notin Bad
  BY <1>2
<1> QED
  BY <1>3

LEMMA Distributes ==
    ASSUME NEW a \in Int, NEW x \in Int, NEW y \in Int
    PROVE  a * (x + y) = a * x + a * y /\ a * x \in Int /\ a * y \in Int
OBVIOUS

\* A linear bound of every term bounds the sum.
LEMMA SumsCompare ==
    ASSUME NEW S, IsFiniteSet(S), NEW a \in Int, NEW b \in Int, NEW c \in Int,
           NEW f, \A x \in S : f[x] \in Int,
           NEW g, \A x \in S : g[x] \in Int,
           \A x \in S : a * f[x] <= b * g[x] + c
    PROVE  a * SumFunctionOnSet(f, S) <= b * SumFunctionOnSet(g, S) + c * Cardinality(S)
<1> DEFINE F(s) == SumFunctionOnSet(f, s)
           G(s) == SumFunctionOnSet(g, s)
           Bad == {s \in SUBSET S : ~ (a * F(s) <= b * G(s) + c * Cardinality(s))}
<1>0. \A s \in SUBSET S : /\ IsFiniteSet(s) /\ Cardinality(s) \in Nat
                          /\ F(s) \in Int /\ G(s) \in Int
  BY FS_Subset, FS_CardinalityType, SumType
<1>1. Bad = {}
  <2> SUFFICES ASSUME Bad # {} PROVE FALSE
    OBVIOUS
  <2>1. PICK s \in Bad : \A x \in s : s \ {x} \notin Bad
    <3>1. Bad \in SUBSET (SUBSET S)
      OBVIOUS
    <3> HIDE DEF Bad
    <3> QED
      BY <3>1, MinimalMember
  <2>2. s # {}
    <3>1. F({}) = 0 /\ G({}) = 0 /\ Cardinality({}) = 0
      BY SumEmpty, FS_EmptySet
    <3>2. a * 0 <= b * 0 + c * 0
      OBVIOUS
    <3>3. ~ (a * F(s) <= b * G(s) + c * Cardinality(s))
      OBVIOUS
    <3> HIDE DEF F, G, Bad
    <3> QED
      BY <3>1, <3>2, <3>3
  <2>3. PICK x \in s : TRUE
    BY <2>2
  <2> DEFINE r == s \ {x}
  <2>4. r \in SUBSET S
    OBVIOUS
  <2>5. F(s) = f[x] + F(r) /\ G(s) = g[x] + G(r)
    BY <1>0, SumRemove
  <2>6. Cardinality(s) = Cardinality(r) + 1
    BY <1>0, <2>4, FS_RemoveElement
  <2>7. a * F(r) <= b * G(r) + c * Cardinality(r)
    BY <2>1, <2>4
  <2>8. ~ (a * F(s) <= b * G(s) + c * Cardinality(s))
    OBVIOUS
  <2>9. /\ f[x] \in Int /\ g[x] \in Int /\ F(r) \in Int /\ G(r) \in Int
        /\ Cardinality(r) \in Int
        /\ a * f[x] <= b * g[x] + c
    BY <1>0, <2>4
  <2> HIDE DEF F, G, r, Bad
  <2>10. a * F(s) = a * f[x] + a * F(r) /\ a * f[x] \in Int /\ a * F(r) \in Int
    BY <2>5, <2>9, Distributes
  <2>11. b * G(s) = b * g[x] + b * G(r) /\ b * g[x] \in Int /\ b * G(r) \in Int
    BY <2>5, <2>9, Distributes
  <2>12. c * Cardinality(s) = c * Cardinality(r) + c /\ c * Cardinality(r) \in Int
    <3>1. \A n \in Int : c * (n + 1) = c * n + c /\ c * n \in Int
      OBVIOUS
    <3> QED
      BY <2>6, <2>9, <3>1
  <2> QED
    BY <2>7, <2>8, <2>9, <2>10, <2>11, <2>12
<1>2. S \notin Bad
  BY <1>1
<1> QED
  BY <1>2

\* Terms that are zero do not count, and only the values on the set do.
LEMMA SumOnSupport ==
    ASSUME NEW S, IsFiniteSet(S), NEW T \in SUBSET S,
           NEW f, \A x \in S : f[x] \in Int,
           NEW g, \A x \in S : f[x] = IF x \in T THEN g[x] ELSE 0
    PROVE  SumFunctionOnSet(f, S) = SumFunctionOnSet(g, T)
<1> DEFINE F(s) == SumFunctionOnSet(f, s)
           G(s) == SumFunctionOnSet(g, s)
           Bad == {s \in SUBSET S : F(s) # G(s \cap T)}
<1>0. \A s \in SUBSET S : IsFiniteSet(s) /\ F(s) \in Int
  BY FS_Subset, SumType
<1>1. Bad = {}
  <2> SUFFICES ASSUME Bad # {} PROVE FALSE
    OBVIOUS
  <2>1. PICK s \in Bad : \A x \in s : s \ {x} \notin Bad
    <3>1. Bad \in SUBSET (SUBSET S)
      OBVIOUS
    <3> HIDE DEF Bad
    <3> QED
      BY <3>1, MinimalMember
  <2>2. s # {}
    <3>1. {} \cap T = {}
      OBVIOUS
    <3> QED
      BY <3>1, SumEmpty
  <2>3. PICK x \in s : TRUE
    BY <2>2
  <2> DEFINE r == s \ {x}
  <2>4. F(s) = f[x] + F(r) /\ r \in SUBSET S
    BY <1>0, SumRemove
  <2>5. F(r) = G(r \cap T)
    BY <2>1, <2>4
  <2>6. CASE x \in T
    <3>1. x \in s \cap T /\ (s \cap T) \ {x} = r \cap T
      BY <2>6
    <3>2. IsFiniteSet(s \cap T) /\ \A y \in s \cap T : g[y] \in Int
      <4>1. \A y \in s \cap T : g[y] = f[y] /\ y \in S
        OBVIOUS
      <4> QED
        BY <1>0, <4>1
    <3>3. G(s \cap T) = g[x] + G(r \cap T)
      BY <3>1, <3>2, SumRemove
    <3> QED
      BY <2>4, <2>5, <2>6, <3>3
  <2>7. CASE x \notin T
    <3>1. s \cap T = r \cap T
      BY <2>7
    <3>2. f[x] = 0 /\ F(r) \in Int
      BY <1>0, <2>4, <2>7
    <3>3. F(s) # G(s \cap T)
      OBVIOUS
    <3> HIDE DEF F, G, Bad
    <3>4. F(s) = F(r)
      BY <2>4, <3>2
    <3> QED
      BY <2>5, <3>1, <3>3, <3>4
  <2> QED
    BY <2>6, <2>7
<1>2. S \notin Bad /\ S \cap T = T
  BY <1>1
<1> QED
  BY <1>2
=============================================================================
