--------------------------- MODULE PerformanceProofs ---------------------------
(***************************************************************************)
(* Theorems about median() and Performance, for any validators, files of   *)
(* monikers, windows and numbers of checkpoints.                           *)
(***************************************************************************)
EXTENDS Performance, NumberSets, FiniteSetTheorems, FunctionTheorems

-----------------------------------------------------------------------------
(* The median.                                                             *)

\* The array has an element at each of its indices.
LEMMA ElementExists ==
    ASSUME NEW D, IsFiniteSet(D), NEW B \in Nat, NEW f \in [D -> 0 .. B],
           NEW i \in Nat, i < Length(f)
    PROVE  /\ ElementAt(f, i) \in ValuesOf(f)
           /\ Cardinality(Below(f, ElementAt(f, i))) <= i
           /\ i < Cardinality(AtMost(f, ElementAt(f, i)))
<1> DEFINE Good == {r \in 0 .. B : i < Cardinality(AtMost(f, r))}
           r    == Min(Good)
<1>1. Good \in SUBSET Nat /\ B \in Good
  <2>1. AtMost(f, B) = D
    BY DEF AtMost
  <2> QED
    BY <2>1 DEF Length
<1>2. r \in Good /\ \A s \in Good : r <= s
  BY <1>1, MinIsLeast
<1>3. r \in 0 .. B /\ i < Cardinality(AtMost(f, r))
  BY <1>2
<1>4. \A s \in 0 .. B : s < r => ~(i < Cardinality(AtMost(f, s)))
  BY <1>2, <1>3
<1> HIDE DEF r, Good
<1>5. Cardinality(Below(f, r)) <= i
  <2>1. CASE r = 0
    <3>1. Below(f, r) = {}
      BY <2>1 DEF Below
    <3> QED
      BY <3>1, FS_EmptySet
  <2>2. CASE r # 0
    <3>1. r - 1 \in 0 .. B /\ Below(f, r) = AtMost(f, r - 1)
      BY <1>3, <2>2 DEF Below, AtMost
    <3>2. IsFiniteSet(AtMost(f, r - 1))
      BY FS_Subset DEF AtMost
    <3>3. Cardinality(AtMost(f, r - 1)) \in Nat
      BY <3>2, FS_CardinalityType
    <3>4. ~(i < Cardinality(AtMost(f, r - 1)))
      BY <1>3, <1>4, <3>1
    <3> QED
      BY <3>1, <3>3, <3>4
  <2> QED
    BY <2>1, <2>2
<1>6. r \in ValuesOf(f)
  <2>1. AtMost(f, r) # Below(f, r)
    <3>1. IsFiniteSet(AtMost(f, r)) /\ IsFiniteSet(Below(f, r))
      BY FS_Subset DEF AtMost, Below
    <3>2. Cardinality(AtMost(f, r)) \in Nat /\ Cardinality(Below(f, r)) \in Nat
      BY <3>1, FS_CardinalityType
    <3> QED
      BY <1>3, <1>5, <3>2
  <2>2. PICK x \in D : f[x] = r
    BY <1>3, <2>1 DEF AtMost, Below
  <2> QED
    BY <2>2 DEF ValuesOf
<1> QED
  BY <1>3, <1>5, <1>6 DEF ElementAt

\* An odd number of elements: what median() returns is the median.
THEOREM MedianOfOdd ==
    ASSUME NEW D, IsFiniteSet(D), NEW B \in Nat, NEW f \in [D -> 0 .. B],
           Length(f) % 2 = 1
    PROVE  IsMedianTwice(f, MedianTwice(f))
<1> DEFINE n == Length(f) \div 2
           e == ElementAt(f, n)
<1>1. Length(f) = Cardinality(D) /\ Length(f) \in Nat
  BY FS_CardinalityType DEF Length
<1>2. n \in Nat /\ Length(f) = 2 * n + 1
  BY <1>1
<1>3. MedianTwice(f) = 2 * e
  BY DEF MedianTwice
<1> HIDE DEF n
<1>4. e \in ValuesOf(f) /\ Cardinality(Below(f, e)) <= n /\ n < Cardinality(AtMost(f, e))
  BY <1>2, ElementExists
<1> HIDE DEF e
<1>5. e \in 0 .. B
  BY <1>4 DEF ValuesOf
<1> DEFINE Above == {x \in DOMAIN f : f[x] > e}
<1>6. AtLeast(f, e) = D \ Below(f, e) /\ D \cap Below(f, e) = Below(f, e)
  BY <1>5 DEF AtLeast, Below
<1>7. Above = D \ AtMost(f, e) /\ D \cap AtMost(f, e) = AtMost(f, e)
  BY <1>5 DEF AtMost
<1>8. /\ Cardinality(AtLeast(f, e)) = Cardinality(D) - Cardinality(Below(f, e))
      /\ Cardinality(Above) = Cardinality(D) - Cardinality(AtMost(f, e))
  BY <1>6, <1>7, FS_Difference
<1> HIDE DEF Above
<1>9. Cardinality(Below(f, e)) \in Nat /\ Cardinality(AtMost(f, e)) \in Nat
  <2>1. IsFiniteSet(Below(f, e)) /\ IsFiniteSet(AtMost(f, e))
    BY FS_Subset DEF Below, AtMost
  <2> QED
    BY <2>1, FS_CardinalityType
<1>10. IsLowerMedian(f, e)
  BY <1>1, <1>2, <1>4, <1>9 DEF IsLowerMedian
<1>11. IsUpperMedian(f, e)
  <2> DEFINE below  == Cardinality(Below(f, e))
             atMost == Cardinality(AtMost(f, e))
  <2>1. below \in Nat /\ atMost \in Nat /\ below <= n /\ n < atMost
    BY <1>4, <1>9
  <2>2. /\ Cardinality(AtLeast(f, e)) = (2 * n + 1) - below
        /\ Cardinality(Above) = (2 * n + 1) - atMost
    <3>1. Cardinality(D) = 2 * n + 1
      BY <1>1, <1>2, Zenon
    <3>2. Cardinality(AtLeast(f, e)) = (2 * n + 1) - below
      BY <1>8, <3>1, Zenon
    <3>3. Cardinality(Above) = (2 * n + 1) - atMost
      BY <1>8, <3>1, Zenon
    <3> QED
      BY <3>2, <3>3
  <2> HIDE DEF below, atMost
  <2>3. 2 * Cardinality(AtLeast(f, e)) >= Length(f)
    BY <1>2, <2>1, <2>2
  <2>4. 2 * Cardinality(Above) < Length(f)
    BY <1>2, <2>1, <2>2
  <2> QED
    BY <1>4, <2>3, <2>4, Zenon DEF IsUpperMedian, Above
<1>12. 2 * e = e + e
  BY <1>5
<1> QED
  BY <1>3, <1>4, <1>10, <1>11, <1>12 DEF IsMedianTwice

\* What has no more than i elements below it does not exceed the one at index i.
LEMMA AtIndexOrLess ==
    ASSUME NEW D, IsFiniteSet(D), NEW B \in Nat, NEW f \in [D -> 0 .. B],
           NEW i \in Nat, i < Length(f),
           NEW r \in 0 .. B, Cardinality(Below(f, r)) <= i
    PROVE  r <= ElementAt(f, i)
<1> DEFINE e == ElementAt(f, i)
<1>1. e \in ValuesOf(f) /\ i < Cardinality(AtMost(f, e))
  BY ElementExists
<1> HIDE DEF e
<1>2. e \in 0 .. B
  BY <1>1 DEF ValuesOf
<1>3. SUFFICES ASSUME e < r PROVE FALSE
  BY <1>2 DEF e
<1>4. AtMost(f, e) \subseteq Below(f, r) /\ IsFiniteSet(Below(f, r))
  <2>1. AtMost(f, e) \subseteq Below(f, r)
    BY <1>2, <1>3 DEF AtMost, Below
  <2> QED
    BY <2>1, FS_Subset DEF Below
<1>5. Cardinality(AtMost(f, e)) <= Cardinality(Below(f, r))
  BY <1>4, FS_Subset
<1>6. Cardinality(AtMost(f, e)) \in Nat /\ Cardinality(Below(f, r)) \in Nat
  BY <1>4, FS_Subset, FS_CardinalityType
<1> QED
  BY <1>1, <1>5, <1>6

\* Any number of elements: what median() returns, if it returns a number, is not
\* below the median.  With an even number of them it may well be above.
THEOREM MedianNeverTooLow ==
    ASSUME NEW D, IsFiniteSet(D), NEW B \in Nat, NEW f \in [D -> 0 .. B],
           MedianTwice(f) # NaN, NEW m, IsMedianTwice(f, m)
    PROVE  m <= MedianTwice(f)
<1> DEFINE n == Length(f) \div 2
<1>1. Length(f) = Cardinality(D) /\ Length(f) \in Nat
  BY FS_CardinalityType DEF Length
<1>2. n \in Nat /\ (Length(f) = 2 * n \/ Length(f) = 2 * n + 1)
  BY <1>1
<1>3. PICK lo, hi \in ValuesOf(f) :
        IsLowerMedian(f, lo) /\ IsUpperMedian(f, hi) /\ m = lo + hi
  BY DEF IsMedianTwice
<1>4. lo \in 0 .. B /\ hi \in 0 .. B
  BY <1>3 DEF ValuesOf
<1>5. \A r : Cardinality(Below(f, r)) \in Nat
  BY FS_Subset, FS_CardinalityType DEF Below
<1>6. Cardinality(AtLeast(f, hi)) = Cardinality(D) - Cardinality(Below(f, hi))
  <2>1. AtLeast(f, hi) = D \ Below(f, hi) /\ D \cap Below(f, hi) = Below(f, hi)
    BY <1>4 DEF AtLeast, Below
  <2> QED
    BY <2>1, FS_Difference
<1>7. CASE Length(f) % 2 # 0
  <2>1. MedianTwice(f) = 2 * ElementAt(f, n)
    BY <1>7 DEF MedianTwice
  <2> HIDE DEF n
  <2>2. Length(f) = 2 * n + 1
    BY <1>2, <1>7
  <2>3. Cardinality(Below(f, lo)) <= n
    BY <1>2, <1>3, <1>5, <2>2 DEF IsLowerMedian
  <2>4. Cardinality(Below(f, hi)) <= n
    BY <1>1, <1>2, <1>3, <1>5, <1>6, <2>2 DEF IsUpperMedian
  <2>5. n < Length(f)
    BY <1>2, <2>2
  <2>6. lo <= ElementAt(f, n) /\ hi <= ElementAt(f, n)
    BY <1>2, <1>4, <2>3, <2>4, <2>5, AtIndexOrLess
  <2>7. ElementAt(f, n) \in 0 .. B
    BY <1>2, <2>5, ElementExists DEF ValuesOf
  <2> QED
    BY <1>3, <1>4, <2>1, <2>6, <2>7
<1>8. CASE Length(f) % 2 = 0
  <2>1. n + 1 < Length(f) /\ MedianTwice(f) = ElementAt(f, n) + ElementAt(f, n + 1)
    BY <1>8 DEF MedianTwice
  <2> HIDE DEF n
  <2>2. Length(f) = 2 * n
    BY <1>2, <1>8
  <2>3. Cardinality(Below(f, lo)) <= n
    BY <1>2, <1>3, <1>5, <2>2 DEF IsLowerMedian
  <2>4. Cardinality(Below(f, hi)) <= n + 1
    BY <1>1, <1>2, <1>3, <1>5, <1>6, <2>2 DEF IsUpperMedian
  <2>5. n < Length(f) /\ n + 1 \in Nat
    BY <1>1, <1>2, <2>1
  <2>6. lo <= ElementAt(f, n) /\ hi <= ElementAt(f, n + 1)
    BY <1>2, <1>4, <2>1, <2>3, <2>4, <2>5, AtIndexOrLess
  <2>7. ElementAt(f, n) \in 0 .. B /\ ElementAt(f, n + 1) \in 0 .. B
    BY <1>2, <2>1, <2>5, ElementExists DEF ValuesOf
  <2> QED
    BY <1>3, <1>4, <2>1, <2>6, <2>7
<1> QED
  BY <1>1, <1>7, <1>8

\* A median of numbers of at most B lies between 0 and 2 * B.
LEMMA MedianBound ==
    ASSUME NEW D, IsFiniteSet(D), NEW B \in Nat, NEW f \in [D -> 0 .. B],
           MedianTwice(f) # NaN
    PROVE  MedianTwice(f) \in 0 .. 2 * B
<1> DEFINE n == Length(f) \div 2
<1>1. Length(f) \in Nat
  BY FS_CardinalityType DEF Length
<1>2. \A i \in Nat : i < Length(f) => ElementAt(f, i) \in 0 .. B
  <2>1. ASSUME NEW i \in Nat, i < Length(f) PROVE ElementAt(f, i) \in 0 .. B
    <3>1. ElementAt(f, i) \in ValuesOf(f)
      BY <2>1, ElementExists
    <3> QED
      BY <3>1 DEF ValuesOf
  <2> QED
    BY <2>1
<1>3. CASE Length(f) % 2 # 0
  <2>1. n \in Nat /\ n < Length(f)
    BY <1>1, <1>3
  <2>2. MedianTwice(f) = 2 * ElementAt(f, n)
    BY <1>3 DEF MedianTwice
  <2> HIDE DEF n
  <2>3. ElementAt(f, n) \in 0 .. B
    BY <1>2, <2>1
  <2> QED
    BY <2>2, <2>3
<1>4. CASE Length(f) % 2 = 0
  <2>1. n + 1 < Length(f) /\ MedianTwice(f) = ElementAt(f, n) + ElementAt(f, n + 1)
    BY <1>4 DEF MedianTwice
  <2>2. n \in Nat
    BY <1>1
  <2> HIDE DEF n
  <2>3. ElementAt(f, n) \in 0 .. B /\ ElementAt(f, n + 1) \in 0 .. B
    BY <1>1, <1>2, <2>1, <2>2
  <2> QED
    BY <2>1, <2>3
<1> QED
  BY <1>3, <1>4

\* A bijection that maps a part of D onto a part of E leaves its size alone.
LEMMA SameSize ==
    ASSUME NEW D, IsFiniteSet(D), NEW E, NEW b \in Bijection(D, E),
           NEW S \in SUBSET D, NEW T \in SUBSET E, \A x \in D : x \in S <=> b[x] \in T
    PROVE  Cardinality(S) = Cardinality(T)
<1> DEFINE c == [x \in S |-> b[x]]
<1>1. c \in Bijection(S, T)
  BY DEF Bijection, Injection, Surjection, IsInjective
<1>2. ExistsBijection(S, T)
  BY <1>1 DEF ExistsBijection
<1> QED
  BY <1>2, FS_Subset, FS_Bijection

\* The median is that of the values: renaming the elements leaves it alone.
LEMMA MedianRenamed ==
    ASSUME NEW D, IsFiniteSet(D), NEW E, NEW b \in Bijection(D, E),
           NEW f, DOMAIN f = D, NEW g, DOMAIN g = E, \A x \in D : f[x] = g[b[x]],
           NEW m, IsMedianTwice(f, m)
    PROVE  IsMedianTwice(g, m)
<1>1. \A x \in D : b[x] \in E
  BY DEF Bijection, Injection
<1>2. \A y \in E : \E x \in D : b[x] = y
  BY DEF Bijection, Surjection
<1>3. ValuesOf(f) = ValuesOf(g)
  BY <1>1, <1>2 DEF ValuesOf
<1>4. ASSUME NEW r
      PROVE  /\ Cardinality(AtMost(f, r)) = Cardinality(AtMost(g, r))
             /\ Cardinality(Below(f, r)) = Cardinality(Below(g, r))
             /\ Cardinality(AtLeast(f, r)) = Cardinality(AtLeast(g, r))
             /\ Cardinality({x \in DOMAIN f : f[x] > r})
                  = Cardinality({y \in DOMAIN g : g[y] > r})
  <2>1. Cardinality(AtMost(f, r)) = Cardinality(AtMost(g, r))
    BY <1>1, SameSize DEF AtMost
  <2>2. Cardinality(Below(f, r)) = Cardinality(Below(g, r))
    BY <1>1, SameSize DEF Below
  <2>3. Cardinality(AtLeast(f, r)) = Cardinality(AtLeast(g, r))
    BY <1>1, SameSize DEF AtLeast
  <2>4. Cardinality({x \in D : f[x] > r}) = Cardinality({y \in E : g[y] > r})
    BY <1>1, SameSize
  <2> QED
    BY <2>1, <2>2, <2>3, <2>4
<1>5. Length(f) = Length(g)
  <2>1. ExistsBijection(D, E)
    BY DEF ExistsBijection
  <2> QED
    BY <2>1, FS_Bijection DEF Length
<1> QED
  BY <1>3, <1>4, <1>5 DEF IsMedianTwice, IsLowerMedian, IsUpperMedian

-----------------------------------------------------------------------------
(* The rows.                                                               *)

DutyRows == [checkpoint : Checkpoints, vId : Ids, moniker : Names, fulfilled : BOOLEAN]

MetricRows == [checkpoint : Checkpoints, vId : Ids, moniker : Names, rate : 0 .. Scale]

\* A row under the name its validator has now.
DutyNow(r, v) ==
    [checkpoint |-> r.checkpoint, vId |-> r.vId,
     moniker |-> IF r.vId = v THEN monikers[v] ELSE r.moniker, fulfilled |-> r.fulfilled]

MetricNow(r, v) ==
    [checkpoint |-> r.checkpoint, vId |-> r.vId,
     moniker |-> IF r.vId = v THEN monikers[v] ELSE r.moniker, rate |-> r.rate]

\* Renaming is a change of the moniker alone (the updates of syncMonikers).
LEMMA RenamedDuties ==
    ASSUME duties \subseteq DutyRows, NEW v
    PROVE  Rename(duties, v) = {DutyNow(r, v) : r \in duties}
<1>1. ASSUME NEW r \in duties
      PROVE  (IF r.vId = v THEN [r EXCEPT !.moniker = monikers[v]] ELSE r) = DutyNow(r, v)
  <2>1. r \in DutyRows
    OBVIOUS
  <2> QED
    BY <2>1 DEF DutyRows, DutyNow
<1> QED
  BY <1>1 DEF Rename

LEMMA RenamedMetrics ==
    ASSUME metrics \subseteq MetricRows, NEW v
    PROVE  Rename(metrics, v) = {MetricNow(r, v) : r \in metrics}
<1>1. ASSUME NEW r \in metrics
      PROVE  (IF r.vId = v THEN [r EXCEPT !.moniker = monikers[v]] ELSE r) = MetricNow(r, v)
  <2>1. r \in MetricRows
    OBVIOUS
  <2> QED
    BY <2>1 DEF MetricRows, MetricNow
<1> QED
  BY <1>1 DEF Rename

\* The duties are as many as there are checkpoints and validators, at most.
LEMMA DutiesFinite ==
    ASSUME PerformanceAssumption, TypeOK
    PROVE  IsFiniteSet(duties)
<1> DEFINE key == [d \in duties |-> <<d.checkpoint, d.vId>>]
<1>1. duties \subseteq DutyRows
  BY DEF TypeOK, DutyRows
<1>2. key \in Injection(duties, Checkpoints \X Ids)
  <2>1. key \in [duties -> Checkpoints \X Ids]
    BY <1>1 DEF DutyRows
  <2>2. \A a, b \in duties : key[a] = key[b] => a = b
    BY DEF TypeOK
  <2> QED
    BY <2>1, <2>2 DEF Injection, IsInjective
<1>3. IsFiniteSet(Checkpoints)
  BY FS_Interval DEF Checkpoints, PerformanceAssumption
<1>4. IsFiniteSet(Checkpoints \X Ids)
  BY <1>3, FS_Product DEF PerformanceAssumption
<1> QED
  BY <1>2, <1>4, FS_Injection

\* A part of b things, in units of which there are s in the whole.
LEMMA ShareBound ==
    ASSUME NEW a \in Nat, NEW b \in Nat \ {0}, a <= b, NEW s \in Nat
    PROVE  (a * s) \div b \in 0 .. s
<1>1. a * s \in Nat /\ a * s <= b * s
  OBVIOUS
<1> QED
  BY <1>1

\* A rate lies between 0 and 1.
LEMMA RateBound ==
    ASSUME PerformanceAssumption, TypeOK, NEW n \in Checkpoints, NEW g \in Groups(n)
    PROVE  PerfPercent(n, g) \in 0 .. Scale
<1> DEFINE rows == Group(Window(n), g)
<1>1. PICK d \in Window(n) : g = <<d.vId, d.moniker>>
  BY DEF Groups
<1>2. d \in rows
  BY <1>1 DEF Group
<1>3. rows \in SUBSET duties /\ Fulfilled(rows) \in SUBSET rows
  BY DEF Group, Window, Fulfilled
<1>4. PerfPercent(n, g) = (Cardinality(Fulfilled(rows)) * Scale) \div Cardinality(rows)
  BY DEF PerfPercent
<1> HIDE DEF rows
<1>5. IsFiniteSet(rows) /\ IsFiniteSet(Fulfilled(rows))
      /\ Cardinality(Fulfilled(rows)) <= Cardinality(rows)
  BY <1>3, DutiesFinite, FS_Subset
<1>6. Cardinality(rows) \in Nat \ {0} /\ Cardinality(Fulfilled(rows)) \in Nat
  BY <1>2, <1>5, FS_CardinalityType, FS_EmptySet
<1> QED
  BY <1>4, <1>5, <1>6, ShareBound DEF PerformanceAssumption

\* There are finitely many groups.
LEMMA GroupsFinite ==
    ASSUME PerformanceAssumption, TypeOK, NEW n
    PROVE  IsFiniteSet(Groups(n))
<1> DEFINE of == [d \in Window(n) |-> <<d.vId, d.moniker>>]
<1>1. of \in Surjection(Window(n), Groups(n))
  BY DEF Surjection, Groups
<1>2. IsFiniteSet(Window(n))
  BY DutiesFinite, FS_Subset DEF Window
<1> QED
  BY <1>1, <1>2, FS_Surjection

\* A benchmark is NaN or lies between 0 and 95%.
LEMMA BenchmarkBound ==
    ASSUME PerformanceAssumption, TypeOK, NEW n \in Checkpoints
    PROVE  Benchmark([g \in Groups(n) |-> PerfPercent(n, g)]) \in {NaN} \union 0 .. 38 * Scale
<1> DEFINE rates == [g \in Groups(n) |-> PerfPercent(n, g)]
<1>1. rates \in [Groups(n) -> 0 .. Scale] /\ Scale \in Nat
  BY RateBound DEF PerformanceAssumption
<1> HIDE DEF rates
<1>2. MedianTwice(rates) = NaN \/ MedianTwice(rates) \in 0 .. 2 * Scale
  BY <1>1, GroupsFinite, MedianBound
<1>3. \A m \in 0 .. 2 * Scale : 19 * m \in 0 .. 38 * Scale
  BY <1>1
<1> QED
  BY <1>2, <1>3 DEF Benchmark, rates

\* Which rows are there: every validator of the active set has a duty in each
\* stored checkpoint, and a rate belongs to a computed one.
RowsInv ==
    /\ \A n \in Checkpoints : n \in Stored =>
          \A v \in Active[n] : \E d \in duties : d.checkpoint = n /\ d.vId = v
    /\ \A m \in metrics : m.checkpoint \in Computed

\* Renaming keeps the rates apart, when none of the renamed ones share a checkpoint.
LEMMA RenamedRatesDiffer ==
    ASSUME metrics \subseteq MetricRows, NEW v \in Ids, monikers[v] \in Names,
           \A a, b \in metrics :
              a # b => a.checkpoint # b.checkpoint \/ a.vId # b.vId \/ a.moniker # b.moniker,
           \A a, b \in MetricsOf(v) : a.checkpoint = b.checkpoint => a = b
    PROVE  LET new == Rename(metrics, v)
           IN  /\ new \subseteq MetricRows
               /\ \A a, b \in new : a # b =>
                     a.checkpoint # b.checkpoint \/ a.vId # b.vId \/ a.moniker # b.moniker
<1> DEFINE new == Rename(metrics, v)
<1>1. new = {MetricNow(r, v) : r \in metrics}
  BY RenamedMetrics
<1>2. \A r \in metrics : /\ MetricNow(r, v) \in MetricRows
                         /\ MetricNow(r, v).checkpoint = r.checkpoint
                         /\ MetricNow(r, v).vId = r.vId
                         /\ r.vId # v => MetricNow(r, v).moniker = r.moniker
  BY DEF MetricRows, MetricNow
<1> HIDE DEF new
<1>3. new \subseteq MetricRows
  BY <1>1, <1>2
<1>4. ASSUME NEW a \in metrics, NEW b \in metrics, a.checkpoint = b.checkpoint,
             a.vId = b.vId, MetricNow(a, v).moniker = MetricNow(b, v).moniker
      PROVE  a = b
  <2>1. CASE a.vId = v
    BY <1>4, <2>1 DEF MetricsOf
  <2>2. CASE a.vId # v
    <3>1. a.moniker = b.moniker
      BY <1>2, <1>4, <2>2
    <3> QED
      BY <1>4, <3>1
  <2> QED
    BY <2>1, <2>2
<1>5. ASSUME NEW a \in new, NEW b \in new, a.checkpoint = b.checkpoint,
             a.vId = b.vId, a.moniker = b.moniker
      PROVE  a = b
  <2>1. PICK r \in metrics : a = MetricNow(r, v)
    BY <1>1
  <2>2. PICK s \in metrics : b = MetricNow(s, v)
    BY <1>1
  <2>3. r = s
    BY <1>2, <1>4, <1>5, <2>1, <2>2
  <2> QED
    BY <2>1, <2>2, <2>3
<1> QED
  BY <1>3, <1>5 DEF new

\* One step, by the action that takes it.
LEMMA StepKeepsTypeOK ==
    ASSUME PerformanceAssumption, TypeOK, RowsInv, [Next]_vars
    PROVE  TypeOK'
<1> USE DEF TypeOK
<1>1. CASE Boot
  <2>1. PICK file \in Files :
          /\ monikers' = file
          /\ syncing' = [v \in Ids |-> IF file[v] = Anonymous THEN "idle" ELSE "duties"]
          /\ lapsed' = lapsed \union LeftBehind(file)
    BY <1>1 DEF Boot
  <2>2. pc' = "sync" /\ UNCHANGED <<duties, metrics, benchmark>>
    BY <1>1 DEF Boot
  <2> QED
    <3>1. monikers' \in [Ids -> Names]
      BY <2>1 DEF PerformanceAssumption
    <3>2. LeftBehind(file) \subseteq Ids
      BY DEF LeftBehind
    <3> QED
      BY <2>1, <2>2, <3>1, <3>2
<1>2. CASE Synced
  BY <1>2 DEF Synced
<1>3. CASE Stop
  BY <1>3 DEF Stop, Names
<1>4. ASSUME NEW v \in Ids, UpdateDuties(v) PROVE TypeOK'
  <2>1. duties \subseteq DutyRows
    BY DEF DutyRows
  <2>2. duties' = {DutyNow(r, v) : r \in duties}
    BY <1>4, <2>1, RenamedDuties DEF UpdateDuties
  <2>3. \A r \in duties : /\ DutyNow(r, v) \in DutyRows
                           /\ DutyNow(r, v).checkpoint = r.checkpoint
                           /\ DutyNow(r, v).vId = r.vId
    BY <2>1 DEF DutyRows, DutyNow
  <2>4. duties' \subseteq DutyRows
    BY <2>2, <2>3
  <2>5. \A a, b \in duties' : a # b => a.checkpoint # b.checkpoint \/ a.vId # b.vId
    <3> SUFFICES ASSUME NEW a \in duties, NEW b \in duties,
                        DutyNow(a, v) # DutyNow(b, v)
                 PROVE  a.checkpoint # b.checkpoint \/ a.vId # b.vId
      BY <2>2, <2>3
    <3> QED
      OBVIOUS
  <2> QED
    BY <1>4, <2>4, <2>5 DEF UpdateDuties, DutyRows
<1>5. ASSUME NEW v \in Ids, UpdateMetrics(v) PROVE TypeOK'
  <2>1. CASE UNCHANGED metrics
    BY <1>5, <2>1 DEF UpdateMetrics
  <2>2. CASE ~UNCHANGED metrics
    <3>1. /\ metrics' = Rename(metrics, v)
          /\ \A a, b \in MetricsOf(v) : a.checkpoint = b.checkpoint => a = b
      BY <1>5, <2>2 DEF UpdateMetrics
    <3>2. metrics \subseteq MetricRows /\ monikers[v] \in Names
      BY DEF MetricRows
    <3>3. /\ metrics' \subseteq MetricRows
          /\ \A a, b \in metrics' : a # b =>
                a.checkpoint # b.checkpoint \/ a.vId # b.vId \/ a.moniker # b.moniker
      BY <3>1, <3>2, RenamedRatesDiffer
    <3> QED
      BY <1>5, <3>3 DEF UpdateMetrics, MetricRows
  <2> QED
    BY <2>1, <2>2
<1>6. ASSUME NEW v \in Ids, UpdateFails(v) PROVE TypeOK'
  BY <1>6 DEF UpdateFails
<1>7. ASSUME NEW n \in Checkpoints, ComputePerformance(n) PROVE TypeOK'
  <2> DEFINE rates == [g \in Groups(n) |-> PerfPercent(n, g)]
             shown == {g \in Groups(n) : g[1] \in Tracked[n] \cap Active[n]}
             Row(g) == [checkpoint |-> n, vId |-> g[1], moniker |-> g[2], rate |-> rates[g]]
  <2>1. /\ metrics' = metrics \union {Row(g) : g \in shown}
        /\ benchmark' = [benchmark EXCEPT ![n] = Benchmark(rates)]
        /\ n \notin Computed
        /\ UNCHANGED <<pc, monikers, syncing, duties, lapsed>>
    BY <1>7 DEF ComputePerformance
  <2>2. Benchmark(rates) \in {NaN} \union 0 .. 38 * Scale
    BY BenchmarkBound
  <2>3. \A g \in shown : /\ rates[g] \in 0 .. Scale
                         /\ g \in Ids \X Names
    <3>1. \A g \in Groups(n) : rates[g] \in 0 .. Scale
      BY RateBound
    <3>2. Groups(n) \subseteq Ids \X Names
      BY DEF Groups, Window
    <3> QED
      BY <3>1, <3>2
  <2> HIDE DEF rates, shown
  <2>4. {Row(g) : g \in shown} \subseteq MetricRows
    BY <2>3 DEF MetricRows
  <2>5. \A a \in metrics : \A g \in shown : a.checkpoint # Row(g).checkpoint
    BY <2>1 DEF RowsInv
  <2>6. \A g, h \in shown :
           Row(g).vId = Row(h).vId /\ Row(g).moniker = Row(h).moniker => Row(g) = Row(h)
    <3>1. \A g, h \in shown : g[1] = h[1] /\ g[2] = h[2] => g = h
      BY <2>3
    <3> QED
      BY <3>1
  <2> HIDE DEF Row
  <2>7. \A a, b \in metrics' : a # b =>
           a.checkpoint # b.checkpoint \/ a.vId # b.vId \/ a.moniker # b.moniker
    BY <2>1, <2>5, <2>6
  <2>8. metrics' \subseteq MetricRows
    BY <2>1, <2>4 DEF MetricRows
  <2> QED
    BY <2>1, <2>2, <2>7, <2>8 DEF MetricRows
<1>8. ASSUME NEW n \in Checkpoints, NEW committed \in SUBSET Active[n], Index(n, committed)
      PROVE  TypeOK'
  <2> DEFINE Row(v) == [checkpoint |-> n, vId |-> v, moniker |-> monikers[v],
                        fulfilled |-> v \in committed]
  <2>1. duties' = duties \union {Row(v) : v \in Active[n]} /\ n \notin Stored
    BY <1>8 DEF Index, PerformanceAssumption, Checkpoints
  <2>2. Active[n] \subseteq Ids
    BY DEF PerformanceAssumption
  <2>3. duties' \subseteq DutyRows
    <3>1. \A v \in Active[n] : Row(v) \in DutyRows
      BY <2>2 DEF DutyRows
    <3>2. duties \subseteq DutyRows
      BY DEF DutyRows
    <3> HIDE DEF Row
    <3> QED
      BY <2>1, <3>1, <3>2
  <2>4. \A a \in duties : \A v \in Active[n] : a.checkpoint # Row(v).checkpoint
    BY <2>1 DEF Stored
  <2>5. \A v, w \in Active[n] : Row(v).vId = Row(w).vId => Row(v) = Row(w)
    OBVIOUS
  <2> HIDE DEF Row
  <2>6. \A a, b \in duties' : a # b => a.checkpoint # b.checkpoint \/ a.vId # b.vId
    BY <2>1, <2>4, <2>5
  <2> QED
    BY <1>8, <2>3, <2>6 DEF Index, DutyRows
<1>9. CASE UNCHANGED vars
  BY <1>9 DEF vars
<1> QED
  BY <1>1, <1>2, <1>3, <1>4, <1>5, <1>6, <1>7, <1>8, <1>9 DEF Next

\* One step never takes a row away.
LEMMA StepKeepsRowsInv ==
    ASSUME PerformanceAssumption, TypeOK, RowsInv, [Next]_vars
    PROVE  RowsInv'
<1> USE DEF RowsInv
<1>1. CASE UNCHANGED <<duties, metrics, benchmark>>
  BY <1>1 DEF Stored, Computed
<1>2. ASSUME NEW v \in Ids, UpdateDuties(v) PROVE RowsInv'
  <2>1. duties' = {DutyNow(r, v) : r \in duties} /\ UNCHANGED <<metrics, benchmark>>
    BY <1>2, RenamedDuties DEF UpdateDuties, TypeOK, DutyRows
  <2>2. \A r \in duties : /\ DutyNow(r, v).checkpoint = r.checkpoint
                           /\ DutyNow(r, v).vId = r.vId
    BY DEF DutyNow
  <2>3. Stored' = Stored
    BY <2>1, <2>2 DEF Stored
  <2>4. ASSUME NEW n \in Checkpoints, n \in Stored, NEW w \in Active[n]
        PROVE  \E d \in duties' : d.checkpoint = n /\ d.vId = w
    <3>1. PICK r \in duties : r.checkpoint = n /\ r.vId = w
      BY <2>4
    <3> QED
      BY <2>1, <2>2, <3>1
  <2> QED
    BY <2>1, <2>3, <2>4 DEF Computed
<1>3. ASSUME NEW v \in Ids, UpdateMetrics(v) PROVE RowsInv'
  <2>1. UNCHANGED <<duties, benchmark>>
    BY <1>3 DEF UpdateMetrics
  <2>2. UNCHANGED metrics \/ metrics' = {MetricNow(r, v) : r \in metrics}
    BY <1>3, RenamedMetrics DEF UpdateMetrics, TypeOK, MetricRows
  <2>3. \A r \in metrics : MetricNow(r, v).checkpoint = r.checkpoint
    BY DEF MetricNow
  <2> QED
    BY <2>1, <2>2, <2>3 DEF Stored, Computed
<1>4. ASSUME NEW n \in Checkpoints, ComputePerformance(n) PROVE RowsInv'
  <2> DEFINE rates == [g \in Groups(n) |-> PerfPercent(n, g)]
  <2>1. UNCHANGED duties /\ benchmark' = [benchmark EXCEPT ![n] = Benchmark(rates)]
    BY <1>4 DEF ComputePerformance
  <2>2. \A m \in metrics' : m \in metrics \/ m.checkpoint = n
    BY <1>4 DEF ComputePerformance
  <2>3. Benchmark(rates) # NotComputed
    <3>1. Benchmark(rates) \in {NaN} \union 0 .. 38 * Scale
      BY BenchmarkBound
    <3> QED
      BY <3>1 DEF NaN, NotComputed
  <2> HIDE DEF rates
  <2>4. Computed \union {n} \subseteq Computed'
    BY <2>1, <2>3 DEF Computed, TypeOK
  <2> QED
    BY <2>1, <2>2, <2>4 DEF Stored
<1>5. ASSUME NEW n \in Checkpoints, NEW committed \in SUBSET Active[n], Index(n, committed)
      PROVE  RowsInv'
  <2> DEFINE Row(v) == [checkpoint |-> n, vId |-> v, moniker |-> monikers[v],
                        fulfilled |-> v \in committed]
  <2>1. duties' = duties \union {Row(v) : v \in Active[n]} /\ UNCHANGED <<metrics, benchmark>>
    BY <1>5 DEF Index
  <2>2. \A v : Row(v).checkpoint = n /\ Row(v).vId = v
    OBVIOUS
  <2> HIDE DEF Row
  <2>3. ASSUME NEW k \in Checkpoints, k \in Stored', NEW v \in Active[k]
        PROVE  \E d \in duties' : d.checkpoint = k /\ d.vId = v
    <3>1. CASE k = n
      BY <2>1, <2>2, <3>1
    <3>2. CASE k # n
      <4>1. k \in Stored
        BY <2>1, <2>2, <2>3, <3>2 DEF Stored
      <4> QED
        BY <2>1, <4>1
    <3> QED
      BY <3>1, <3>2
  <2> QED
    BY <2>1, <2>3 DEF Computed
<1> QED
  BY <1>1, <1>2, <1>3, <1>4, <1>5 DEF Next, Boot, Synced, Stop, UpdateFails, vars

\* Types, and which rows there are (computePerformance computes a stored
\* checkpoint once).
THEOREM RowsInvariant == ASSUME PerformanceAssumption PROVE Spec => [](TypeOK /\ RowsInv)
<1>1. Init => TypeOK /\ RowsInv
  BY DEF Init, TypeOK, RowsInv, Names, Stored, Computed
<1>2. TypeOK /\ RowsInv /\ [Next]_vars => (TypeOK /\ RowsInv)'
  BY StepKeepsTypeOK, StepKeepsRowsInv
<1> QED
  BY <1>1, <1>2, PTL DEF Spec

\* The rows of the tables differ in their keys, whatever updates of monikers
\* succeed, and rates and benchmarks stay in their bounds (computePerformance).
THEOREM PerformanceTypeCorrect == Spec => []TypeOK
BY RowsInvariant, PerformanceAssumption, PTL

-----------------------------------------------------------------------------
(* Names.                                                                  *)

\* The inductive invariant behind OneName: from the start of a process on, a
\* validator that is not to be updated any more has the name of the map.
NameInv ==
    /\ pc # "sync" => \A v \in Ids : syncing[v] = "idle"
    /\ pc # "down" =>
          \A d \in duties :
              d.vId \notin lapsed /\ syncing[d.vId] # "duties" => d.moniker = monikers[d.vId]

\* One step, by the action that takes it.
LEMMA StepKeepsNameInv ==
    ASSUME PerformanceAssumption, TypeOK, NameInv, [Next]_vars
    PROVE  NameInv'
<1>0. /\ pc \in {"down", "sync", "up"} /\ duties \subseteq DutyRows
      /\ syncing \in [Ids -> {"idle", "duties", "metrics"}]
      /\ \A d \in duties : d.vId \in Ids
  BY DEF TypeOK, DutyRows
<1> USE DEF NameInv
<1>1. CASE Boot
  <2>1. PICK file \in Files :
          /\ monikers' = file
          /\ syncing' = [v \in Ids |-> IF file[v] = Anonymous THEN "idle" ELSE "duties"]
          /\ lapsed' = lapsed \union LeftBehind(file)
    BY <1>1 DEF Boot
  <2>2. pc' = "sync" /\ UNCHANGED duties
    BY <1>1 DEF Boot
  <2>3. ASSUME NEW d \in duties, d.vId \notin lapsed', syncing'[d.vId] # "duties"
        PROVE  d.moniker = monikers'[d.vId]
    <3>1. file[d.vId] = Anonymous
      BY <1>0, <2>1, <2>3
    <3> QED
      BY <1>0, <2>1, <2>3, <3>1 DEF LeftBehind, DutiesOf
  <2> QED
    BY <2>2, <2>3
<1>2. CASE Synced
  BY <1>0, <1>2 DEF Synced
<1>3. CASE Stop
  BY <1>3 DEF Stop
<1>4. ASSUME NEW v \in Ids, UpdateDuties(v) PROVE NameInv'
  <2>1. duties' = {DutyNow(r, v) : r \in duties}
    BY <1>0, <1>4, RenamedDuties DEF UpdateDuties
  <2>2. /\ syncing[v] = "duties" /\ syncing' = [syncing EXCEPT ![v] = "metrics"]
        /\ lapsed' = lapsed \ {v} /\ UNCHANGED <<pc, monikers>>
    BY <1>4 DEF UpdateDuties
  <2>3. \A r \in duties :
          /\ DutyNow(r, v).vId = r.vId
          /\ DutyNow(r, v).moniker = IF r.vId = v THEN monikers[v] ELSE r.moniker
    BY DEF DutyNow
  <2> QED
    BY <1>0, <2>1, <2>2, <2>3
<1>5. ASSUME NEW v \in Ids, UpdateMetrics(v) \/ UpdateFails(v) PROVE NameInv'
  BY <1>0, <1>5 DEF UpdateMetrics, UpdateFails
<1>6. ASSUME NEW n \in Checkpoints, ComputePerformance(n) PROVE NameInv'
  BY <1>6 DEF ComputePerformance
<1>7. ASSUME NEW n \in Checkpoints, NEW committed \in SUBSET Active[n], Index(n, committed)
      PROVE  NameInv'
  <2>1. \A d \in duties' : d \in duties \/ d.moniker = monikers[d.vId]
    BY <1>7 DEF Index
  <2> QED
    BY <1>7, <2>1 DEF Index
<1>8. CASE UNCHANGED vars
  BY <1>8 DEF vars
<1> QED
  BY <1>1, <1>2, <1>3, <1>4, <1>5, <1>6, <1>7, <1>8 DEF Next

\* What the rates and benchmarks need.
PerformanceInv == TypeOK /\ RowsInv /\ NameInv

\* All parts of the invariant hold together (syncMonikers, computePerformance).
THEOREM PerformanceInvariant == Spec => []PerformanceInv
<1>1. Init => NameInv
  BY DEF Init, NameInv
<1>2. TypeOK /\ NameInv /\ [Next]_vars => NameInv'
  BY StepKeepsNameInv, PerformanceAssumption
<1> QED
  BY <1>1, <1>2, RowsInvariant, PerformanceAssumption, PTL DEF Spec, PerformanceInv

\* While the jobs run all duties of a validator carry the name it goes by,
\* unless its last update failed, was cut off or had no name to give
\* (syncMonikers).
THEOREM OneNamePerValidator == Spec => []OneName
<1>1. PerformanceInv => OneName
  <2> SUFFICES ASSUME PerformanceInv, pc = "up", NEW d \in duties, d.vId \notin lapsed
               PROVE  d.moniker = monikers[d.vId]
    BY DEF OneName
  <2>1. d.vId \in Ids
    BY DEF PerformanceInv, TypeOK
  <2>2. syncing[d.vId] = "idle"
    BY <2>1 DEF PerformanceInv, NameInv
  <2> QED
    BY <2>2 DEF PerformanceInv, NameInv
<1> QED
  BY <1>1, PerformanceInvariant, PTL

-----------------------------------------------------------------------------
(* Rates and benchmarks.                                                   *)

\* The group of a validator with one name is all its duties in the window.
LEMMA GroupOfOneName ==
    ASSUME PerformanceInv, OneName, pc = "up", NEW n \in Checkpoints,
           NEW v \in InWindow(n) \ lapsed
    PROVE  /\ \A x : <<v, x>> \in Groups(n) <=> x = monikers[v]
           /\ PerfPercent(n, <<v, monikers[v]>>) = ShareOf(n, v)
<1>1. \A d \in Window(n) : d.vId = v => d.moniker = monikers[v]
  BY DEF OneName, Window
<1>2. PICK d \in Window(n) : d.vId = v
  BY DEF InWindow
<1>3. \A x : <<v, x>> \in Groups(n) <=> x = monikers[v]
  BY <1>1, <1>2 DEF Groups
<1>4. Group(Window(n), <<v, monikers[v]>>) = {e \in Window(n) : e.vId = v}
  BY <1>1 DEF Group
<1> QED
  BY <1>3, <1>4 DEF PerfPercent, ShareOf

\* A tracked validator has one rate for each checkpoint: the share of its own
\* duties in the window that it fulfilled (computePerformance).
THEOREM RatesAlwaysFaithful == Spec => RatesFaithful
<1>1. ASSUME PerformanceInv, OneName, NEW n \in Checkpoints, ComputePerformance(n),
             NEW v \in (Tracked[n] \cap Active[n]) \ lapsed
      PROVE  {<<m.moniker, m.rate>> : m \in {k \in MetricsOf(v)' : k.checkpoint = n}}
               = {<<monikers[v], ShareOf(n, v)>>}
  <2> DEFINE rates == [g \in Groups(n) |-> PerfPercent(n, g)]
             shown == {g \in Groups(n) : g[1] \in Tracked[n] \cap Active[n]}
             Row(g) == [checkpoint |-> n, vId |-> g[1], moniker |-> g[2], rate |-> rates[g]]
             mine  == <<v, monikers[v]>>
  <2>1. /\ pc = "up" /\ n \in Stored /\ n \notin Computed
        /\ metrics' = metrics \union {Row(g) : g \in shown}
    BY <1>1 DEF ComputePerformance
  <2>2. v \in InWindow(n)
    <3>1. PICK d \in duties : d.checkpoint = n /\ d.vId = v
      BY <1>1, <2>1 DEF PerformanceInv, RowsInv
    <3>2. n <= n + MonitoringPeriod /\ n <= n
      BY PerformanceAssumption DEF PerformanceAssumption, Checkpoints
    <3> QED
      BY <3>1, <3>2 DEF InWindow, Window
  <2>3. /\ \A x : <<v, x>> \in Groups(n) <=> x = monikers[v]
        /\ PerfPercent(n, mine) = ShareOf(n, v)
    BY <1>1, <2>1, <2>2, GroupOfOneName
  <2>4. \A g \in shown : g = <<g[1], g[2]>>
    BY DEF Groups
  <2>5. mine \in shown /\ \A g \in shown : g[1] = v => g = mine
    BY <2>3, <2>4
  <2>6. rates[mine] = ShareOf(n, v)
    BY <2>3
  <2>7. \A g \in shown : Row(g).checkpoint = n /\ Row(g).vId = g[1]
    OBVIOUS
  <2>8. Row(mine).moniker = monikers[v] /\ Row(mine).rate = ShareOf(n, v)
    BY <2>6
  <2>9. \A m \in metrics : m.checkpoint # n
    BY <1>1, <2>1 DEF PerformanceInv, RowsInv
  <2> HIDE DEF rates, shown, Row, mine
  <2>10. {k \in MetricsOf(v)' : k.checkpoint = n} = {Row(mine)}
    <3>1. MetricsOf(v)' = {m \in metrics' : m.vId = v}
      BY DEF MetricsOf
    <3>2. mine[1] = v
      BY DEF mine
    <3> QED
      BY <2>1, <2>5, <2>7, <2>9, <3>1, <3>2
  <2> QED
    BY <2>8, <2>10
<1>2. PerformanceInv /\ OneName =>
        [\A n \in Checkpoints : ComputePerformance(n) =>
           \A v \in (Tracked[n] \cap Active[n]) \ lapsed :
              {<<m.moniker, m.rate>> : m \in {k \in MetricsOf(v)' : k.checkpoint = n}}
                = {<<monikers[v], ShareOf(n, v)>>}]_vars
  BY <1>1
<1> QED
  BY <1>2, PerformanceInvariant, OneNamePerValidator, PTL DEF RatesFaithful

RatesOf(n)  == [g \in Groups(n) |-> PerfPercent(n, g)]
SharesOf(n) == [v \in InWindow(n) |-> ShareOf(n, v)]

\* When the validators of the window have one name each, the rates are their
\* shares, each once, and so are the medians (computePerformance).
LEMMA RatesAreShares ==
    ASSUME PerformanceInv, OneName, pc = "up", NEW n \in Checkpoints,
           InWindow(n) \cap lapsed = {}
    PROVE  /\ RatesOf(n) \in [Groups(n) -> 0 .. Scale]
           /\ IsFiniteSet(Groups(n))
           /\ Length(RatesOf(n)) = Cardinality(InWindow(n))
           /\ \A m : IsMedianTwice(RatesOf(n), m) <=> IsMedianTwice(SharesOf(n), m)
<1> DEFINE of   == [g \in Groups(n) |-> g[1]]
           name == [v \in InWindow(n) |-> <<v, monikers[v]>>]
<1>1. \A v \in InWindow(n) : /\ \A x : <<v, x>> \in Groups(n) <=> x = monikers[v]
                             /\ PerfPercent(n, <<v, monikers[v]>>) = ShareOf(n, v)
  BY GroupOfOneName
<1>2. \A g \in Groups(n) : g[1] \in InWindow(n) /\ g = <<g[1], g[2]>>
  BY DEF Groups, InWindow
<1>3. \A g \in Groups(n) : g = <<g[1], monikers[g[1]]>>
  <2> SUFFICES ASSUME NEW g \in Groups(n) PROVE g = <<g[1], monikers[g[1]]>>
    OBVIOUS
  <2>1. <<g[1], g[2]>> \in Groups(n)
    BY <1>2
  <2>2. g[2] = monikers[g[1]]
    BY <1>1, <1>2, <2>1
  <2> QED
    BY <1>2, <2>2
<1>4. of \in Bijection(Groups(n), InWindow(n))
  <2>1. of \in [Groups(n) -> InWindow(n)]
    BY <1>2
  <2>2. \A g, h \in Groups(n) : of[g] = of[h] => g = h
    BY <1>3
  <2>3. \A v \in InWindow(n) : \E g \in Groups(n) : of[g] = v
    <3> SUFFICES ASSUME NEW v \in InWindow(n) PROVE \E g \in Groups(n) : of[g] = v
      OBVIOUS
    <3>1. <<v, monikers[v]>> \in Groups(n) /\ <<v, monikers[v]>>[1] = v
      BY <1>1
    <3> QED
      BY <3>1
  <2> QED
    BY <2>1, <2>2, <2>3 DEF Bijection, Injection, Surjection, IsInjective
<1>5. name \in Bijection(InWindow(n), Groups(n))
  <2>1. name \in [InWindow(n) -> Groups(n)]
    BY <1>1
  <2>2. \A v, w \in InWindow(n) : name[v] = name[w] => v = w
    OBVIOUS
  <2>3. \A g \in Groups(n) : \E v \in InWindow(n) : name[v] = g
    <3> SUFFICES ASSUME NEW g \in Groups(n) PROVE \E v \in InWindow(n) : name[v] = g
      OBVIOUS
    <3>1. g[1] \in InWindow(n) /\ name[g[1]] = g
      BY <1>2, <1>3
    <3> QED
      BY <3>1
  <2> QED
    BY <2>1, <2>2, <2>3 DEF Bijection, Injection, Surjection, IsInjective
<1>6. \A g \in Groups(n) : RatesOf(n)[g] = SharesOf(n)[of[g]]
  <2> SUFFICES ASSUME NEW g \in Groups(n) PROVE RatesOf(n)[g] = SharesOf(n)[of[g]]
    OBVIOUS
  <2>1. PerfPercent(n, g) = ShareOf(n, g[1]) /\ g[1] \in InWindow(n)
    BY <1>1, <1>2, <1>3
  <2> QED
    BY <2>1 DEF RatesOf, SharesOf
<1>7. \A v \in InWindow(n) : SharesOf(n)[v] = RatesOf(n)[name[v]]
  BY <1>1 DEF RatesOf, SharesOf
<1>8. RatesOf(n) \in [Groups(n) -> 0 .. Scale] /\ DOMAIN RatesOf(n) = Groups(n)
  BY RateBound, PerformanceAssumption DEF PerformanceInv, RatesOf
<1>9. DOMAIN SharesOf(n) = InWindow(n)
  BY DEF SharesOf
<1>10. IsFiniteSet(Groups(n))
  BY GroupsFinite, PerformanceAssumption DEF PerformanceInv
<1> HIDE DEF of, name
<1>11. IsFiniteSet(InWindow(n)) /\ Cardinality(Groups(n)) = Cardinality(InWindow(n))
  <2>1. ExistsBijection(Groups(n), InWindow(n))
    BY <1>4 DEF ExistsBijection
  <2> QED
    BY <1>10, <2>1, FS_Bijection
<1>12. Length(RatesOf(n)) = Cardinality(InWindow(n))
  BY <1>8, <1>11 DEF Length
<1>13. ASSUME NEW m, IsMedianTwice(RatesOf(n), m) PROVE IsMedianTwice(SharesOf(n), m)
  BY <1>4, <1>6, <1>8, <1>9, <1>10, <1>13, MedianRenamed
<1>14. ASSUME NEW m, IsMedianTwice(SharesOf(n), m) PROVE IsMedianTwice(RatesOf(n), m)
  BY <1>5, <1>7, <1>8, <1>9, <1>11, <1>14, MedianRenamed
<1> QED
  BY <1>8, <1>10, <1>12, <1>13, <1>14

\* The benchmark of an odd number of validators with one name each is 95% of
\* the median of their shares (computePB).
LEMMA BenchmarkOfOdd ==
    ASSUME PerformanceInv, OneName, NEW n \in Checkpoints, ComputePerformance(n),
           Cardinality(InWindow(n)) % 2 = 1, InWindow(n) \cap lapsed = {}
    PROVE  IsBenchmark(n, benchmark'[n])
<1> DEFINE rates == RatesOf(n)
           m     == MedianTwice(rates)
<1>1. pc = "up" /\ benchmark'[n] = Benchmark(rates)
  BY DEF ComputePerformance, PerformanceInv, TypeOK, RatesOf
<1>2. /\ rates \in [Groups(n) -> 0 .. Scale] /\ IsFiniteSet(Groups(n)) /\ Scale \in Nat
      /\ Length(rates) = Cardinality(InWindow(n))
      /\ \A k : IsMedianTwice(rates, k) <=> IsMedianTwice(SharesOf(n), k)
  BY <1>1, RatesAreShares, PerformanceAssumption DEF PerformanceAssumption
<1> HIDE DEF rates
<1>3. IsMedianTwice(rates, m)
  BY <1>2, MedianOfOdd
<1>4. m \in 0 .. 2 * Scale /\ m # NaN
  <2>1. PICK lo, hi \in ValuesOf(rates) : m = lo + hi
    BY <1>3 DEF IsMedianTwice
  <2>2. lo \in 0 .. Scale /\ hi \in 0 .. Scale
    BY <1>2 DEF ValuesOf
  <2> HIDE DEF m
  <2> QED
    BY <1>2, <2>1, <2>2 DEF NaN
<1>5. Benchmark(rates) = 19 * m
  BY <1>4 DEF Benchmark
<1> HIDE DEF m
<1> QED
  BY <1>1, <1>2, <1>3, <1>4, <1>5 DEF IsBenchmark, SharesOf

\* Every step that computes a benchmark of an odd number of validators (computePB).
THEOREM BenchmarkAlwaysMedianOdd == Spec => BenchmarkIsMedianOdd
<1>1. PerformanceInv /\ OneName =>
        [\A n \in Checkpoints :
           ComputePerformance(n) /\ Cardinality(InWindow(n)) % 2 = 1
             /\ InWindow(n) \cap lapsed = {} => IsBenchmark(n, benchmark'[n])]_vars
  BY BenchmarkOfOdd
<1> QED
  BY <1>1, PerformanceInvariant, OneNamePerValidator, PTL DEF BenchmarkIsMedianOdd

\* The median of an array is NaN when it has two elements, or none.
LEMMA MedianIsNumber ==
    ASSUME NEW D, IsFiniteSet(D), NEW B \in Nat, NEW f \in [D -> 0 .. B],
           Length(f) # 0
    PROVE  MedianTwice(f) = NaN <=> Length(f) = 2
<1> DEFINE n == Length(f) \div 2
<1>1. Length(f) \in Nat
  BY FS_CardinalityType DEF Length
<1>2. n \in Nat /\ (Length(f) = 2 * n \/ Length(f) = 2 * n + 1)
  BY <1>1
<1>3. \A i \in Nat : i < Length(f) => ElementAt(f, i) \in 0 .. B
  BY ElementExists DEF ValuesOf
<1>4. CASE Length(f) % 2 # 0
  <2>1. MedianTwice(f) = 2 * ElementAt(f, n) /\ n < Length(f) /\ Length(f) # 2
    BY <1>1, <1>2, <1>4 DEF MedianTwice
  <2> HIDE DEF n
  <2> QED
    BY <1>2, <1>3, <2>1 DEF NaN
<1>5. CASE Length(f) % 2 = 0
  <2>1. MedianTwice(f) = IF n + 1 < Length(f) THEN ElementAt(f, n) + ElementAt(f, n + 1)
                         ELSE NaN
    BY <1>5 DEF MedianTwice
  <2> HIDE DEF n
  <2>2. Length(f) = 2 * n
    BY <1>2, <1>5
  <2>3. CASE Length(f) = 2
    BY <1>2, <2>1, <2>2, <2>3
  <2>4. CASE Length(f) # 2
    <3>1. n < Length(f) /\ n + 1 < Length(f) /\ n + 1 \in Nat
      BY <1>2, <2>2, <2>4
    <3>2. ElementAt(f, n) \in 0 .. B /\ ElementAt(f, n + 1) \in 0 .. B
      BY <1>2, <1>3, <3>1
    <3> QED
      BY <2>1, <2>4, <3>1, <3>2 DEF NaN
  <2> QED
    BY <2>3, <2>4
<1> QED
  BY <1>1, <1>4, <1>5

\* The benchmark of any number of validators with one name each errs on one
\* side: it is NaN for two of them, and otherwise never below 95% of the median
\* of their shares (computePB, median).
THEOREM BenchmarkAtLeastMedian == Spec => BenchmarkNeverTooLow
<1>1. ASSUME PerformanceInv, OneName, NEW n \in Checkpoints, ComputePerformance(n),
             InWindow(n) \cap lapsed = {}
      PROVE  IF Cardinality(InWindow(n)) = 2 THEN benchmark'[n] = NaN
             ELSE \A m \in 0 .. 2 * Scale :
                     IsMedianTwice([v \in InWindow(n) |-> ShareOf(n, v)], m) =>
                       19 * m <= benchmark'[n]
  <2> DEFINE rates == RatesOf(n)
             b     == MedianTwice(rates)
  <2>1. pc = "up" /\ n \in Stored /\ benchmark'[n] = Benchmark(rates)
    BY <1>1 DEF ComputePerformance, PerformanceInv, TypeOK, RatesOf
  <2>2. /\ rates \in [Groups(n) -> 0 .. Scale] /\ IsFiniteSet(Groups(n)) /\ Scale \in Nat
        /\ Length(rates) = Cardinality(InWindow(n))
        /\ \A k : IsMedianTwice(rates, k) <=> IsMedianTwice(SharesOf(n), k)
    BY <1>1, <2>1, RatesAreShares, PerformanceAssumption DEF PerformanceAssumption
  <2>3. Length(rates) # 0
    <3>1. PICK d \in duties : d.checkpoint = n
      BY <2>1 DEF Stored
    <3>2. n <= n + MonitoringPeriod /\ n <= n
      BY PerformanceAssumption DEF PerformanceAssumption, Checkpoints
    <3>3. <<d.vId, d.moniker>> \in Groups(n)
      BY <3>1, <3>2 DEF Groups, Window
    <3>4. Length(rates) = Cardinality(Groups(n))
      BY <2>2 DEF Length
    <3> QED
      BY <2>2, <3>3, <3>4, FS_EmptySet
  <2> HIDE DEF rates
  <2>4. CASE Cardinality(InWindow(n)) = 2
    <3>1. b = NaN
      BY <2>2, <2>3, <2>4, MedianIsNumber
    <3> QED
      BY <2>1, <2>4, <3>1 DEF Benchmark
  <2>5. CASE Cardinality(InWindow(n)) # 2
    <3>1. b # NaN
      BY <2>2, <2>3, <2>5, MedianIsNumber
    <3>2. b \in 0 .. 2 * Scale
      BY <2>2, <3>1, MedianBound
    <3>3. benchmark'[n] = 19 * b
      BY <2>1, <3>1 DEF Benchmark
    <3>4. ASSUME NEW m \in 0 .. 2 * Scale, IsMedianTwice(SharesOf(n), m)
          PROVE  19 * m <= benchmark'[n]
      <4>1. m <= b
        BY <2>2, <3>1, <3>4, MedianNeverTooLow
      <4> HIDE DEF b
      <4> QED
        BY <2>2, <3>2, <3>3, <4>1
    <3> QED
      BY <2>5, <3>4 DEF SharesOf
  <2> QED
    BY <2>4, <2>5
<1>2. PerformanceInv /\ OneName =>
        [\A n \in Checkpoints :
           ComputePerformance(n) /\ InWindow(n) \cap lapsed = {} =>
             IF Cardinality(InWindow(n)) = 2 THEN benchmark'[n] = NaN
             ELSE \A m \in 0 .. 2 * Scale :
                     IsMedianTwice([v \in InWindow(n) |-> ShareOf(n, v)], m) =>
                       19 * m <= benchmark'[n]]_vars
  BY <1>1
<1> QED
  BY <1>2, PerformanceInvariant, OneNamePerValidator, PTL DEF BenchmarkNeverTooLow
=============================================================================
