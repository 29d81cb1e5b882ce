---------------------------- MODULE IndexerProofs ----------------------------
(***************************************************************************)
(* Theorems about Indexer, for every chain, configuration and bound that   *)
(* its assumptions allow, and before them what HighestSequential returns   *)
(* for every set of numbers, of one length and of several.  Type           *)
(* correctness and the two properties of the handlers hold without further *)
(* conditions.  The completeness of windows, and that the cycle implements *)
(* CheckpointLog, hold outside of dry runs while the checkpoint numbers    *)
(* have the same number of digits.                                         *)
(***************************************************************************)
EXTENDS Indexer, NumberSets

LEMMA NumDigitsType == ASSUME NEW n \in Nat PROVE NumDigits(n) \in Nat
<1>1. IsFiniteSet(1..10)
  <2>1. 1 \in Int /\ 10 \in Int
    OBVIOUS
  <2> QED
    BY <2>1, FS_Interval, Zenon
<1>2. IsFiniteSet({k \in 1..10 : Pow10[k] <= n})
  BY <1>1, FS_Subset
<1> QED
  BY <1>2, FS_CardinalityType DEF NumDigits

\* Strings of the same length are ordered like the numbers they write.
LEMMA SameDigitsOrder ==
    ASSUME NEW a \in Nat, NEW b \in Nat, NumDigits(a) = NumDigits(b)
    PROVE  StringLess(a, b) <=> a < b
<1>1. NumDigits(a) - NumDigits(a) + 1 = 1 /\ NumDigits(b) - NumDigits(b) + 1 = 1
  BY NumDigitsType
<1>2. Pow10[1] = 1
  BY DEF Pow10
<1>3. Leading(a, NumDigits(a)) = a /\ Leading(b, NumDigits(b)) = b
  BY <1>1, <1>2 DEF Leading
<1>4. NumDigits(a) <= NumDigits(b) /\ ~(NumDigits(a) < NumDigits(b))
  BY NumDigitsType
<1> QED
  BY <1>3, <1>4 DEF StringLess

\* The string sort then puts the lowest number first.
LEMMA FirstSortedIsLeast ==
    ASSUME NEW S \in SUBSET Nat, S # {}, SameDigits(S)
    PROVE  FirstSorted(S) \in S /\ \A y \in S : FirstSorted(S) <= y
<1>1. PICK m \in S : \A y \in S : m <= y
  BY MinIsLeast
<1>2. \A x, y \in S : StringLess(x, y) <=> x < y
  BY SameDigitsOrder DEF SameDigits
<1>3. \A y \in S \ {m} : StringLess(m, y)
  BY <1>1, <1>2
<1>4. FirstSorted(S) \in S /\ \A y \in S \ {FirstSorted(S)} : StringLess(FirstSorted(S), y)
  BY <1>3 DEF FirstSorted
<1>5. \A y \in S \ {FirstSorted(S)} : FirstSorted(S) < y
  BY <1>2, <1>4
<1>6. \A x, y \in S : x < y => x <= y
  OBVIOUS
<1>7. \A x \in S : x <= x
  OBVIOUS
<1> QED
  BY <1>4, <1>5, <1>6, <1>7, Zenon

\* The head of the gapless prefix is right when no number between the lowest
\* and the highest stored checkpoint has more digits than another
\* (getTheHighestSequentialCheckpointNumber and the comment above it).
THEOREM GaplessHead ==
    ASSUME NEW S \in SUBSET (Nat \ {0}), NEW top \in Nat, \A y \in S : y <= top,
           SameDigits(Min(S) .. Max(S))
    PROVE  IsGaplessHead(HighestSequential(S), S)
<1>1. CASE S = {}
  BY <1>1 DEF IsGaplessHead, HighestSequential
<1>2. CASE S # {}
  <2> DEFINE lo == Min(S)
             hi == Max(S)
             missing == Missing(lo, hi, S)
  <2>1. lo \in S /\ lo \in Nat /\ \A y \in S : lo <= y
    BY <1>2, MinIsLeast
  <2>2. hi \in S /\ hi \in Nat /\ \A y \in S : y <= hi
    BY <1>2, MaxIsGreatest
  <2> HIDE DEF lo, hi
  <2>3. CASE missing = {}
    <3>1. HighestSequential(S) = hi
      BY <1>2, <2>3 DEF HighestSequential, lo, hi
    <3>2. (lo .. hi) \subseteq S
      BY <2>3 DEF Missing
    <3>3. hi + 1 \notin S
      BY <2>2
    <3> QED
      BY <1>2, <2>2, <3>1, <3>2, <3>3 DEF IsGaplessHead, lo
  <2>4. CASE missing # {}
    <3> DEFINE m == FirstSorted(missing)
    <3>1. missing \in SUBSET Nat /\ SameDigits(missing)
      BY <2>1, <2>2 DEF Missing, SameDigits, lo, hi
    <3>2. m \in missing /\ \A y \in missing : m <= y
      BY <2>4, <3>1, FirstSortedIsLeast
    <3> HIDE DEF m
    <3>3. m \in lo .. hi /\ m \notin S /\ m # lo
      BY <2>1, <3>2 DEF Missing
    <3>4. (lo .. (m - 1)) \subseteq S
      BY <2>1, <2>2, <3>2, <3>3 DEF Missing
    <3>5. m - 1 \in S
      BY <2>1, <2>2, <3>3, <3>4
    <3>6. (m - 1) + 1 \notin S
      BY <2>1, <2>2, <3>3
    <3>7. HighestSequential(S) = m - 1
      BY <1>2, <2>4 DEF HighestSequential, lo, hi, m
    <3> QED
      BY <1>2, <3>4, <3>5, <3>6, <3>7 DEF IsGaplessHead, lo
  <2> QED
    BY <2>3, <2>4
<1> QED
  BY <1>1, <1>2

-----------------------------------------------------------------------------
(* The order of strings of any length.                                     *)

LEMMA PowersType == \A i \in 1 .. 10 : Pow10[i] \in Nat \ {0}
BY DEF Pow10

\* The powers are those of one base.
LEMMA PowersMultiply ==
    \A i, j \in 0 .. 9 : i + j <= 9 => Pow10[i + 1] * Pow10[j + 1] = Pow10[i + j + 1]
<1> SUFFICES ASSUME NEW i \in 0 .. 9, NEW j \in 0 .. 9, i + j <= 9
             PROVE  Pow10[i + 1] * Pow10[j + 1] = Pow10[i + j + 1]
  OBVIOUS
<1>0. \/ j = 0 \/ j = 1 \/ j = 2 \/ j = 3 \/ j = 4
      \/ j = 5 \/ j = 6 \/ j = 7 \/ j = 8 \/ j = 9
  OBVIOUS
<1>1. CASE i = 0
  BY <1>0, <1>1 DEF Pow10
<1>2. CASE i = 1
  BY <1>0, <1>2 DEF Pow10
<1>3. CASE i = 2
  BY <1>0, <1>3 DEF Pow10
<1>4. CASE i = 3
  BY <1>0, <1>4 DEF Pow10
<1>5. CASE i = 4
  BY <1>0, <1>5 DEF Pow10
<1>6. CASE i = 5
  BY <1>0, <1>6 DEF Pow10
<1>7. CASE i = 6
  BY <1>0, <1>7 DEF Pow10
<1>8. CASE i = 7
  BY <1>0, <1>8 DEF Pow10
<1>9. CASE i = 8
  BY <1>0, <1>9 DEF Pow10
<1>10. CASE i = 9
  BY <1>0, <1>10 DEF Pow10
<1> QED
  BY <1>1, <1>2, <1>3, <1>4, <1>5, <1>6, <1>7, <1>8, <1>9, <1>10

LEMMA DigitsRange ==
    ASSUME NEW n \in Nat \ {0}
    PROVE  NumDigits(n) \in 1 .. 10
<1> DEFINE D == {k \in 1 .. 10 : Pow10[k] <= n}
<1>1. 1 \in D
  BY DEF Pow10
<1>2. IsFiniteSet(1 .. 10) /\ Cardinality(1 .. 10) = 10
  <2>1. 1 \in Int /\ 10 \in Int
    OBVIOUS
  <2>2. IsFiniteSet(1 .. 10) /\ Cardinality(1 .. 10) = IF 1 > 10 THEN 0 ELSE 10 - 1 + 1
    BY <2>1, FS_Interval
  <2> QED
    BY <2>2
<1>3. IsFiniteSet(D) /\ Cardinality(D) <= 10
  BY <1>2, FS_Subset
<1>4. Cardinality(D) \in Nat /\ Cardinality(D) # 0
  BY <1>1, <1>3, FS_CardinalityType, FS_EmptySet
<1> QED
  BY <1>3, <1>4 DEF NumDigits

\* The number a string of digits starts, filled up to ten digits.
Filled(n) == n * Pow10[11 - NumDigits(n)]

\* Against a longer string, a number is compared with the digits in front.
LEMMA LeadingBounds ==
    ASSUME NEW a \in Nat \ {0}, NEW b \in Nat \ {0}, NumDigits(a) <= NumDigits(b)
    PROVE  LET e == NumDigits(b) - NumDigits(a) + 1
           IN  /\ Leading(a, NumDigits(a)) = a
               /\ Leading(b, NumDigits(a)) \in Nat
               /\ Pow10[e] * Leading(b, NumDigits(a)) <= b
               /\ b < Pow10[e] * Leading(b, NumDigits(a)) + Pow10[e]
               /\ Filled(a) = a * Pow10[e] * Pow10[11 - NumDigits(b)]
<1> DEFINE da == NumDigits(a)
           db == NumDigits(b)
           e == db - da + 1
           l == Leading(b, da)
<1>1. da \in 1 .. 10 /\ db \in 1 .. 10 /\ e \in 1 .. 10
  BY DigitsRange
<1>2. Pow10[e] \in Nat \ {0} /\ Pow10[11 - db] \in Nat \ {0}
  BY <1>1, PowersType
<1>3. Leading(a, da) = a
  <2>1. da - da + 1 = 1 /\ Pow10[1] = 1
    BY <1>1 DEF Pow10
  <2> QED
    BY <2>1 DEF Leading
<1>4. l = b \div Pow10[e]
  BY DEF Leading
<1> DEFINE p == Pow10[e]
<1> HIDE DEF l, p
<1>5. l \in Nat /\ p * l <= b /\ b < p * l + p
  BY <1>2, <1>4 DEF p
<1>6. Filled(a) = a * p * Pow10[11 - db]
  <2>1. db - da \in 0 .. 9 /\ 10 - db \in 0 .. 9 /\ (db - da) + (10 - db) <= 9
        /\ (db - da) + (10 - db) + 1 = 11 - da /\ 10 - db + 1 = 11 - db
    BY <1>1
  <2>2. p * Pow10[11 - db] = Pow10[11 - da]
    BY <2>1, PowersMultiply DEF p
  <2>3. Filled(a) = a * (p * Pow10[11 - db])
    BY <2>2 DEF Filled
  <2>4. a * (p * Pow10[11 - db]) = a * p * Pow10[11 - db]
    BY <1>2 DEF p
  <2> QED
    BY <2>3, <2>4
<1> QED
  BY <1>3, <1>5, <1>6 DEF l, p

LEMMA FilledOrder ==
    ASSUME NEW a \in Nat, NEW b \in Nat, NEW l \in Nat,
           NEW p \in Nat \ {0}, NEW q \in Nat \ {0}, p * l <= b, b < p * l + p
    PROVE  /\ a < l => a * p * q < b * q
           /\ a = l => a * p * q <= b * q
           /\ a > l => b * q < a * p * q
<1>1. \A x, y \in Nat : x < y => x * q < y * q
  <2> SUFFICES ASSUME NEW x \in Nat, NEW y \in Nat, x < y PROVE x * q < y * q
    OBVIOUS
  <2>1. y - x \in Nat \ {0} /\ (y - x) * q >= 1 /\ (y - x) * q = y * q - x * q
    OBVIOUS
  <2> QED
    BY <2>1
<1>2. a * p \in Nat /\ p * l \in Nat
  OBVIOUS
<1>3. ASSUME a < l PROVE a * p * q < b * q
  <2>1. a * p < b
    <3>1. (l - a) * p >= p /\ (l - a) * p = p * l - a * p
      <4>1. l - a \in Nat \ {0}
        BY <1>3
      <4> QED
        BY <4>1
    <3> QED
      BY <1>2, <3>1
  <2> QED
    BY <1>1, <1>2, <2>1
<1>4. ASSUME a = l PROVE a * p * q <= b * q
  <2>1. a * p = p * l
    BY <1>4
  <2>2. a * p < b \/ a * p = b
    BY <1>2, <2>1
  <2>3. a * p * q \in Nat /\ b * q \in Nat
    BY <1>2
  <2> QED
    BY <1>1, <1>2, <2>2, <2>3
<1>5. ASSUME a > l PROVE b * q < a * p * q
  <2>1. b < a * p
    <3>1. (a - l) * p >= p /\ (a - l) * p = a * p - p * l
      <4>1. a - l \in Nat \ {0}
        BY <1>5
      <4> QED
        BY <4>1
    <3> QED
      BY <1>2, <3>1
  <2> QED
    BY <1>1, <1>2, <2>1
<1> QED
  BY <1>3, <1>4, <1>5

\* Strings are ordered like the filled up numbers, and of two that are filled
\* up to the same the shorter one comes first.
LEMMA StringOrder ==
    ASSUME NEW a \in Nat \ {0}, NEW b \in Nat \ {0}
    PROVE  StringLess(a, b) <=> \/ Filled(a) < Filled(b)
                                \/ Filled(a) = Filled(b) /\ NumDigits(a) < NumDigits(b)
<1> DEFINE da == NumDigits(a)
           db == NumDigits(b)
<1>1. da \in 1 .. 10 /\ db \in 1 .. 10
  BY DigitsRange
<1>2. Pow10[11 - da] \in Nat \ {0} /\ Pow10[11 - db] \in Nat \ {0}
      /\ Filled(a) \in Nat /\ Filled(b) \in Nat
  BY <1>1, PowersType DEF Filled
<1>3. CASE da <= db
  <2> DEFINE l == Leading(b, da)
             p == Pow10[db - da + 1]
  <2>1. /\ Leading(a, da) = a /\ l \in Nat /\ p \in Nat \ {0}
        /\ p * l <= b /\ b < p * l + p
        /\ Filled(a) = a * p * Pow10[11 - db] /\ Filled(b) = b * Pow10[11 - db]
    BY <1>1, <1>3, LeadingBounds, PowersType DEF Filled
  <2>2. StringLess(a, b) <=> (a < l \/ (a = l /\ da < db))
    BY <1>3, <2>1 DEF StringLess
  <2> HIDE DEF l, p
  <2>3. /\ a < l => Filled(a) < Filled(b)
        /\ a = l => Filled(a) <= Filled(b)
        /\ a > l => Filled(b) < Filled(a)
    BY <1>2, <2>1, FilledOrder
  <2>4. ASSUME da = db, a = l PROVE Filled(a) = Filled(b)
    <3>1. p = 1
      <4>1. db - da + 1 = 1
        BY <1>1, <2>4
      <4> QED
        BY <4>1 DEF p, Pow10
    <3>2. a = b
      BY <2>1, <2>4, <3>1
    <3> QED
      BY <3>2
  <2> HIDE DEF da, db
  <2> QED
    BY <1>1, <1>2, <1>3, <2>1, <2>2, <2>3, <2>4 DEF da, db
<1>4. CASE db < da
  <2> DEFINE l == Leading(a, db)
             p == Pow10[da - db + 1]
  <2>1. /\ Leading(b, db) = b /\ l \in Nat /\ p \in Nat \ {0}
        /\ p * l <= a /\ a < p * l + p
        /\ Filled(b) = b * p * Pow10[11 - da] /\ Filled(a) = a * Pow10[11 - da]
    BY <1>1, <1>4, LeadingBounds, PowersType DEF Filled
  <2>2. StringLess(a, b) <=> l < b
    BY <1>1, <1>4, <2>1 DEF StringLess
  <2> HIDE DEF l, p
  <2>3. /\ b < l => Filled(b) < Filled(a)
        /\ b = l => Filled(b) <= Filled(a)
        /\ b > l => Filled(a) < Filled(b)
    BY <1>2, <2>1, FilledOrder
  <2> HIDE DEF da, db
  <2> QED
    BY <1>1, <1>2, <1>4, <2>1, <2>2, <2>3 DEF da, db
<1> QED
  BY <1>1, <1>3, <1>4

\* The sort puts one element first, whatever the lengths.
LEMMA FirstSortedExists ==
    ASSUME NEW S \in SUBSET (Nat \ {0}), S # {}
    PROVE  FirstSorted(S) \in S
<1> DEFINE Key(n) == 11 * Filled(n) + NumDigits(n)
           Keys == {Key(n) : n \in S}
<1>1. \A n \in S : NumDigits(n) \in 1 .. 10 /\ Filled(n) \in Nat
                   /\ Pow10[11 - NumDigits(n)] \in Nat \ {0}
  BY DigitsRange, PowersType DEF Filled
<1>2. Keys \in SUBSET Nat /\ Keys # {}
  <2>1. \A n \in S : Key(n) \in Nat
    BY <1>1
  <2> HIDE DEF Key
  <2> QED
    BY <2>1
<1>3. PICK x \in S : \A y \in S : Key(x) <= Key(y)
  <2>1. PICK k \in Keys : \A m \in Keys : k <= m
    <3> HIDE DEF Keys
    <3> QED
      BY <1>2, MinIsLeast
  <2> QED
    BY <2>1
<1>4. ASSUME NEW y \in S \ {x} PROVE StringLess(x, y)
  <2>1. Key(x) <= Key(y)
    BY <1>3
  <2>2. \/ Filled(x) < Filled(y)
        \/ Filled(x) = Filled(y) /\ NumDigits(x) <= NumDigits(y)
    BY <1>1, <2>1
  <2>3. ASSUME Filled(x) = Filled(y), NumDigits(x) = NumDigits(y) PROVE FALSE
    <3>1. x * Pow10[11 - NumDigits(x)] = y * Pow10[11 - NumDigits(x)]
      BY <2>3 DEF Filled
    <3>2. \A q \in Nat \ {0} : x * q = y * q => x = y
      OBVIOUS
    <3> QED
      BY <1>1, <3>1, <3>2
  <2> QED
    BY <1>1, <2>2, <2>3, StringOrder
<1> QED
  BY <1>4 DEF FirstSorted

\* Whatever the lengths, what the code takes for the head is between the lowest
\* and the highest stored checkpoint, the next number is not stored, and the
\* head of the gapless prefix is never higher: the string sort can let the cycle
\* pass a gap, but never go back below what is complete
\* (getTheHighestSequentialCheckpointNumber).
THEOREM HeadNeverTooLow ==
    ASSUME NEW S \in SUBSET (Nat \ {0}), S # {}, NEW top \in Nat, \A y \in S : y <= top
    PROVE  /\ HighestSequential(S) \in Min(S) .. Max(S)
           /\ HighestSequential(S) + 1 \notin S
           /\ \A h : IsGaplessHead(h, S) => h <= HighestSequential(S)
<1> DEFINE lo == Min(S)
           hi == Max(S)
           missing == Missing(lo, hi, S)
<1>1. lo \in S /\ lo \in Nat \ {0} /\ \A y \in S : lo <= y
  BY MinIsLeast
<1>2. hi \in S /\ hi \in Nat /\ \A y \in S : y <= hi
  BY MaxIsGreatest
<1>3. \A h : IsGaplessHead(h, S) => h \in S /\ (lo .. h) \subseteq S
  BY DEF IsGaplessHead
<1>4. CASE missing = {}
  <2>1. HighestSequential(S) = hi
    BY <1>4 DEF HighestSequential
  <2> HIDE DEF lo, hi
  <2>2. hi \in lo .. hi /\ hi + 1 \notin S /\ \A h \in S : h <= hi
    BY <1>1, <1>2
  <2> QED
    BY <1>3, <2>1, <2>2 DEF lo, hi
<1>5. CASE missing # {}
  <2> DEFINE m == FirstSorted(missing)
  <2>1. HighestSequential(S) = m - 1
    BY <1>5 DEF HighestSequential
  <2> HIDE DEF lo, hi
  <2>2. missing \in SUBSET (Nat \ {0})
    BY <1>1, <1>2 DEF Missing
  <2>3. m \in missing
    BY <1>5, <2>2, FirstSortedExists
  <2> HIDE DEF m
  <2>4. m \in lo .. hi /\ m \notin S /\ m # lo
    BY <1>1, <2>3 DEF Missing
  <2>5. m - 1 \in lo .. hi /\ (m - 1) + 1 \notin S
    BY <1>1, <1>2, <2>4
  <2>6. ASSUME NEW h, IsGaplessHead(h, S) PROVE h <= m - 1
    <3>1. h \in S /\ h \in Nat /\ (lo .. h) \subseteq S
      BY <1>3, <2>6
    <3>2. m \notin lo .. h
      BY <2>4, <3>1
    <3> QED
      BY <1>1, <1>2, <2>4, <3>1, <3>2
  <2> QED
    BY <2>1, <2>5, <2>6 DEF lo, hi
<1> QED
  BY <1>4, <1>5

-----------------------------------------------------------------------------
(* The update cycle.                                                       *)

USE CheckpointsAssumption, ChainAssumption, ConfigAssumption, BoundsAssumption

LEMMA CheckpointsAreNumbers ==
    /\ Checkpoints \subseteq Nat \ {0}
    /\ IsFiniteSet(Checkpoints)
<1>1. FirstCheckpoint \in Int /\ LastCheckpoint \in Int
  OBVIOUS
<1>2. IsFiniteSet(FirstCheckpoint .. LastCheckpoint)
  BY <1>1, FS_Interval, Zenon
<1> QED
  BY <1>2 DEF Checkpoints

\* The length of a run of duties is a number.
LEMMA RunLengthType ==
    ASSUME NEW rows \in SUBSET Checkpoints, NEW bad
    PROVE  RunLength(rows, bad) \in Nat
<1>1. IsFiniteSet(rows)
  BY CheckpointsAreNumbers, FS_Subset
<1>2. IsFiniteSet({m \in rows : \A k \in rows : k >= m => k \in bad})
  BY <1>1, FS_Subset
<1> QED
  BY <1>2, FS_CardinalityType DEF RunLength

\* What the locals of a cycle are after any of its steps.
LocalsOK ==
    /\ pc' \in Phases /\ jobOn' \in BOOLEAN
    /\ rangeStart' \in Int /\ latest' \in Nat /\ latest' <= head

LEMMA EndCycleType == ASSUME TypeOK, EndCycle PROVE LocalsOK
<1>1. jobOn' \in BOOLEAN
  BY Zenon DEF EndCycle, TypeOK
<1> QED
  BY <1>1 DEF LocalsOK, EndCycle, TypeOK, Phases, NoBlock

\* Types are preserved by what a handler does.
LEMMA HandleType ==
    ASSUME TypeOK, NEW n \in Checkpoints, Handle(n)
    PROVE  TypeOK'
<1> USE DEF TypeOK, Goto, HandlerStates, Active, locals, memory
<1>1. CASE CheckExists(n)
  BY <1>1 DEF CheckExists, Handle
<1>2. CASE Process(n)
  BY <1>2 DEF Process, Handle
<1>3. CASE Store(n)
  BY <1>3 DEF Store, Handle
<1>4. CASE StoreUnacknowledged(n)
  BY <1>4 DEF StoreUnacknowledged, Handle
<1>5. CASE Expose(n)
  BY <1>5 DEF Expose, Handle
<1>6. CASE HandlerFails(n)
  BY <1>6 DEF HandlerFails, Handle
<1> QED
  BY <1>1, <1>2, <1>3, <1>4, <1>5, <1>6 DEF Handle

\* Types are preserved by the gauges of the end of the cycle.
LEMMA GaugesType ==
    ASSUME TypeOK, PublishGauges
    PROVE  TypeOK'
<1> DEFINE h == HighestSequential(stored)
<1> HIDE DEF h
<1>1. ASSUME NEW n \in Checkpoints, PublishInRow(n)
      PROVE  inRow' \in [Validators -> Nat] /\ lastMultiMiss' \in Checkpoints \union {0}
  <2>1. \A v \in Validators : RunLength(
           TrackedIn({m \in stored : n < m + InRowLimit /\ m <= n}, v),
           {m \in Checkpoints : v \in Missed[m]}) \in Nat
    BY RunLengthType DEF TrackedIn, TypeOK
  <2> DEFINE run(v) == RunLength(
           TrackedIn({m \in stored : n < m + InRowLimit /\ m <= n}, v),
           {m \in Checkpoints : v \in Missed[m]})
  <2> HIDE DEF run
  <2>2. \/ inRow' = inRow /\ lastMultiMiss' = lastMultiMiss
        \/ /\ inRow' = [v \in Validators |-> IF v \notin Tracked[n] THEN inRow[v] ELSE run(v)]
           /\ lastMultiMiss' = n
    BY <1>1 DEF PublishInRow, run
  <2>3. \A v \in Validators : run(v) \in Nat
    BY <2>1 DEF run
  <2> QED
    BY <2>2, <2>3 DEF TypeOK
<1>2. ASSUME NEW n \in Checkpoints, PublishStrike(n)
      PROVE  strike' \in [Validators -> Nat] /\ strikeAt' \in Checkpoints \union {0}
  <2>1. \A v \in Validators : RunLength(
           TrackedIn({m \in Computed : n <= m + 3 * MonitoringPeriod /\ m <= n}, v),
           {m \in Checkpoints : v \in BelowBenchmark[m]}) \in Nat
    BY RunLengthType DEF TrackedIn, Computed
  <2> DEFINE run(v) == RunLength(
           TrackedIn({m \in Computed : n <= m + 3 * MonitoringPeriod /\ m <= n}, v),
           {m \in Checkpoints : v \in BelowBenchmark[m]})
  <2> HIDE DEF run
  <2>2. /\ strike' = [v \in Validators |-> IF v \notin Tracked[n] THEN strike[v] ELSE run(v)]
        /\ strikeAt' = n
    BY <1>2 DEF PublishStrike, run
  <2>3. \A v \in Validators : run(v) \in Nat
    BY <2>1 DEF run
  <2> QED
    BY <2>2, <2>3 DEF TypeOK
<1>3. /\ inRow' \in [Validators -> Nat] /\ lastMultiMiss' \in Checkpoints \union {0}
      /\ strike' \in [Validators -> Nat] /\ strikeAt' \in Checkpoints \union {0}
      /\ lastBlock' \in Int /\ dryRuns' = dryRuns
  <2>1. h \in stored => h \in Checkpoints
    BY DEF TypeOK
  <2>2. \/ UNCHANGED memory
        \/ h \in stored /\ PublishInRow(h) /\ PublishStrike(h) /\ UNCHANGED <<lastBlock, dryRuns>>
        \/ h \in stored /\ PublishInRow(h) /\ UNCHANGED <<lastBlock, dryRuns, strike, strikeAt>>
        \/ h \in stored /\ PublishStrike(h) /\ UNCHANGED <<lastBlock, dryRuns, inRow, lastMultiMiss>>
    BY DEF PublishGauges, h
  <2>3. CASE UNCHANGED memory
    BY <2>3 DEF TypeOK, memory
  <2> QED
    BY <1>1, <1>2, <2>1, <2>2, <2>3 DEF TypeOK
<1> QED
  BY <1>3, EndCycleType DEF PublishGauges, LocalsOK, TypeOK, database

\* Type correctness.
THEOREM TypeCorrect == Spec => []TypeOK
<1>1. Init => TypeOK
  BY DEF Init, TypeOK, NoBlock, Phases, HandlerStates, Checkpoints
<1>2. TypeOK /\ [Next]_vars => TypeOK'
  <2> SUFFICES ASSUME TypeOK, [Next]_vars PROVE TypeOK'
    OBVIOUS
  <2> USE DEF TypeOK, Phases, database, locals, memory, NoBlock
  <2>1. CASE Mine
    BY <2>1 DEF Mine
  <2>2. CASE StartCycle
    <3>1. \A b \in LatestAnswers : b \in Nat /\ b <= head
      BY DEF LatestAnswers
    <3>2. LocalsOK
      BY <2>2, <3>1, EndCycleType DEF StartCycle, LocalsOK
    <3> QED
      BY <2>2, <3>2 DEF StartCycle, LocalsOK
  <2>3. CASE Resume
    <3>1. \A h \in stored : EventBlock[h] + 1 \in Int
      OBVIOUS
    <3>2. LocalsOK
      BY <2>3, <3>1, EndCycleType DEF Resume, LocalsOK
    <3> QED
      BY <2>3, <3>2 DEF Resume, LocalsOK
  <2>4. CASE Scan
    <3>1. handler' \in [Checkpoints -> HandlerStates]
      BY <2>4 DEF Scan, HandlerStates, Active
    <3>2. LocalsOK
      BY <2>4, EndCycleType DEF Scan, LocalsOK
    <3> QED
      BY <2>4, <3>1, <3>2 DEF Scan, LocalsOK
  <2>5. CASE Settle
    <3>1. handler' \in [Checkpoints -> HandlerStates]
      BY <2>5 DEF Settle, HandlerStates
    <3>2. LocalsOK
      BY <2>5, EndCycleType DEF Settle, LocalsOK
    <3> QED
      BY <2>5, <3>1, <3>2 DEF Settle, LocalsOK
  <2>6. CASE Advance
    BY <2>6 DEF Advance, UpdateLastBlock, RangeStop
  <2>7. CASE FastForward
    BY <2>7 DEF FastForward, UpdateLastBlock
  <2>8. CASE ComputeMetrics
    <3>1. ASSUME NEW ok, SaveMetrics(ok) PROVE window' \in [Checkpoints -> SUBSET Checkpoints]
      BY <3>1 DEF SaveMetrics, RowsOf
    <3>2. window' \in [Checkpoints -> SUBSET Checkpoints]
      BY <2>8, <3>1 DEF ComputeMetrics
    <3>3. LocalsOK
      BY <2>8, EndCycleType DEF ComputeMetrics, LocalsOK
    <3> QED
      BY <2>8, <3>2, <3>3 DEF ComputeMetrics, LocalsOK
  <2>9. CASE PublishGauges
    BY <2>9, GaugesType
  <2>10. CASE \E n \in Checkpoints : Handle(n)
    BY <2>10, HandleType
  <2>11. CASE CycleFails
    BY <2>11, EndCycleType DEF CycleFails, LocalsOK
  <2>12. CASE Crash
    BY <2>12 DEF Crash, HandlerStates
  <2>13. CASE UNCHANGED vars
    BY <2>13 DEF vars
  <2> QED
    BY <2>1, <2>2, <2>3, <2>4, <2>5, <2>6, <2>7, <2>8, <2>9, <2>10, <2>11,
       <2>12, <2>13 DEF Next, Worker
<1> QED
  BY <1>1, <1>2, PTL DEF Spec

-----------------------------------------------------------------------------
(* Handlers.                                                               *)

\* The inductive invariant behind HandlersInsideCycle and AnnouncedOnce: a
\* handler past its look-up is the only one that can store its checkpoint, so
\* the checkpoint it is about to announce was never announced.
HandlerInv ==
    /\ TypeOK
    /\ HandlersInsideCycle
    /\ \A n \in Checkpoints :
          /\ handler[n] \in {"process", "store"} => n \notin stored
          /\ handler[n] = "expose" => n \in stored /\ exposed[n] = 0
          /\ handler[n] = "done" => n \in stored
          /\ exposed[n] \in {0, 1}
          /\ exposed[n] = 1 => n \in stored

\* One step of a handler.
LEMMA HandleKeepsHandlerInv ==
    ASSUME HandlerInv, TypeOK', NEW n \in Checkpoints, Handle(n)
    PROVE  HandlerInv'
<1> USE DEF HandlerInv, TypeOK, Goto, Active
<1>1. HandlersInsideCycle'
  <2>1. handler[n] # "idle" /\ UNCHANGED pc
    BY DEF Handle, CheckExists, Process, Store, StoreUnacknowledged, Expose, HandlerFails
  <2> QED
    BY <2>1 DEF HandlersInsideCycle
<1>2. CASE CheckExists(n)
  BY <1>1, <1>2 DEF CheckExists
<1>3. CASE Process(n)
  BY <1>1, <1>3 DEF Process
<1>4. CASE Store(n)
  BY <1>1, <1>4 DEF Store
<1>5. CASE StoreUnacknowledged(n)
  BY <1>1, <1>5 DEF StoreUnacknowledged
<1>6. CASE Expose(n)
  BY <1>1, <1>6 DEF Expose
<1>7. CASE HandlerFails(n)
  BY <1>1, <1>7 DEF HandlerFails
<1> QED
  BY <1>2, <1>3, <1>4, <1>5, <1>6, <1>7 DEF Handle

\* One step of the cycle, of a handler or of the chain.
LEMMA NextKeepsHandlerInv ==
    ASSUME HandlerInv, TypeOK', [Next]_vars
    PROVE  HandlerInv'
<1> USE DEF HandlerInv, TypeOK, HandlersInsideCycle, database
\* Apart from handlers at work, a step leaves them alone or makes them idle,
\* and only while no checkpoint is stored or announced.
<1>1. ASSUME UNCHANGED <<stored, exposed>>,
             \/ UNCHANGED <<handler, pc>>
             \/ UNCHANGED handler /\ pc # "handle"
             \/ handler' = [n \in Checkpoints |-> "idle"]
      PROVE  HandlerInv'
  BY <1>1
<1>2. CASE Mine
  BY <1>1, <1>2 DEF Mine
<1>3. CASE StartCycle
  BY <1>1, <1>3 DEF StartCycle
<1>4. CASE Resume
  BY <1>1, <1>4 DEF Resume
<1>5. CASE Scan
  BY <1>5 DEF Scan, EndCycle
<1>6. CASE Settle
  BY <1>1, <1>6 DEF Settle
<1>7. CASE Advance
  BY <1>1, <1>7 DEF Advance
<1>8. CASE FastForward
  BY <1>1, <1>8 DEF FastForward
<1>9. CASE ComputeMetrics
  BY <1>1, <1>9 DEF ComputeMetrics
<1>10. CASE PublishGauges
  BY <1>1, <1>10 DEF PublishGauges
<1>11. CASE \E n \in Checkpoints : Handle(n)
  BY <1>11, HandleKeepsHandlerInv
<1>12. CASE CycleFails
  BY <1>1, <1>12 DEF CycleFails
<1>13. CASE Crash
  BY <1>1, <1>13 DEF Crash
<1>14. CASE UNCHANGED vars
  BY <1>1, <1>14 DEF vars
<1> QED
  BY <1>2, <1>3, <1>4, <1>5, <1>6, <1>7, <1>8, <1>9, <1>10, <1>11, <1>12,
     <1>13, <1>14 DEF Next, Worker

\* A handler past its look-up works on a checkpoint that is not stored, and one
\* about to announce on one that is stored and not announced
\* (handleCheckpointEvent).
THEOREM HandlersInvariant == Spec => []HandlerInv
<1>1. Init => HandlerInv
  <2>1. Init => TypeOK
    BY DEF Init, TypeOK, NoBlock, Phases, HandlerStates, Checkpoints
  <2> QED
    BY <2>1 DEF Init, HandlerInv, HandlersInsideCycle
<1>2. HandlerInv /\ TypeOK' /\ [Next]_vars => HandlerInv'
  BY NextKeepsHandlerInv
<1> QED
  BY <1>1, <1>2, TypeCorrect, PTL DEF Spec

\* No handler outlives its cycle (handleBlocksRange, allSettled): the theorem
\* for every number of checkpoints and every failure.
THEOREM NoOrphanHandlers == Spec => []HandlersInsideCycle
<1>1. HandlerInv => HandlersInsideCycle
  BY DEF HandlerInv
<1> QED
  BY <1>1, HandlersInvariant, PTL

\* The misses of a checkpoint are announced at most once, over every crash,
\* failure and rescan, and only once it is stored (handleCheckpointEvent).
THEOREM AnnouncedAtMostOnce == Spec => []AnnouncedOnce
<1>1. HandlerInv => AnnouncedOnce
  BY DEF HandlerInv, AnnouncedOnce
<1> QED
  BY <1>1, HandlersInvariant, PTL

\* The scan leaves a chunk only when all it read there is stored, whatever
\* failed or restarted (handleBlocksRange, allSettled).
THEOREM ChunksAreStored == Spec => AdvancesOverStored
<1>1. ASSUME HandlerInv, [Next]_vars
      PROVE  [pc = "handle" /\ pc' = "advance" =>
                \A n \in Checkpoints : handler[n] # "idle" => n \in stored]_vars
  <2> SUFFICES ASSUME pc = "handle", pc' = "advance",
                      NEW n \in Checkpoints, handler[n] # "idle"
               PROVE  n \in stored
    OBVIOUS
  <2>1. Settle
    BY <1>1 DEF Next, Worker, Mine, StartCycle, Resume, Scan, Advance, FastForward,
           ComputeMetrics, PublishGauges, CycleFails, Crash, Handle, vars
  <2>2. handler[n] \notin Active /\ handler[n] # "failed"
    BY <2>1 DEF Settle, EndCycle
  <2>3. handler[n] = "done"
    BY <1>1, <2>2 DEF HandlerInv, TypeOK, HandlerStates
  <2> QED
    BY <1>1, <2>3 DEF HandlerInv
<1> QED
  BY <1>1, HandlersInvariant, PTL DEF Spec, AdvancesOverStored

-----------------------------------------------------------------------------
(* Windows.                                                                *)

\* What the theorems below assume of the chain and the configuration.
Regular == ~DryRun /\ SameDigits(Checkpoints)

\* The head of the prefix is stored, and so is all between the lowest and it.
LEMMA RegularHead ==
    ASSUME Regular, NEW S \in SUBSET Checkpoints
    PROVE  /\ S = {} => HighestSequential(S) = Undefined
           /\ S # {} => /\ HighestSequential(S) \in S
                        /\ (Min(S) .. HighestSequential(S)) \subseteq S
<1>1. S \in SUBSET (Nat \ {0}) /\ \A y \in S : y <= LastCheckpoint
  BY DEF Checkpoints
<1>2. SameDigits(Min(S) .. Max(S)) \/ S = {}
  <2>1. SUFFICES ASSUME S # {} PROVE SameDigits(Min(S) .. Max(S))
    OBVIOUS
  <2>2. Min(S) \in S /\ Max(S) \in S
    BY <1>1, <2>1, MinIsLeast, MaxIsGreatest
  <2>3. Min(S) \in FirstCheckpoint .. LastCheckpoint /\ Max(S) \in FirstCheckpoint .. LastCheckpoint
    BY <2>2 DEF Checkpoints
  <2>4. (Min(S) .. Max(S)) \subseteq Checkpoints
    BY <2>3 DEF Checkpoints
  <2> QED
    BY <2>4 DEF Regular, SameDigits
<1>3. CASE S = {}
  BY <1>3 DEF HighestSequential
<1>4. CASE S # {}
  BY <1>1, <1>2, <1>4, GaplessHead DEF IsGaplessHead
<1> QED
  BY <1>3, <1>4

\* Once a performance is computed, the scan only looks above the lowest stored
\* checkpoint: no window can lose its completeness to a late checkpoint.
FloorInv ==
    /\ pc \in {"handle", "advance"} => rangeStart < latest
    /\ Computed # {} =>
          /\ stored # {}
          /\ pc \in {"scan", "handle", "advance"} => EventBlock[Min(stored)] < rangeStart
          /\ \A n \in Checkpoints : handler[n] # "idle" => rangeStart <= EventBlock[n]

\* The inductive invariant behind WindowsComplete.
WindowInv == HandlerInv /\ FloorInv /\ WindowsComplete

\* A checkpoint that is stored late leaves the lowest stored one in place.
LEMMA FloorStays ==
    ASSUME WindowInv, NEW n \in Checkpoints, Computed # {}, handler[n] # "idle"
    PROVE  /\ Min(stored) \in stored
           /\ Min(stored) < n
           /\ Min(stored \union {n}) = Min(stored)
<1> DEFINE lo  == Min(stored)
           lo2 == Min(stored \union {n})
<1>1. /\ pc = "handle" /\ stored # {} /\ rangeStart \in Int
      /\ stored \in SUBSET Nat /\ stored \subseteq Checkpoints /\ n \in Nat
  BY CheckpointsAreNumbers
     DEF WindowInv, HandlerInv, HandlersInsideCycle, FloorInv, TypeOK
<1>2. lo \in stored /\ \A y \in stored : lo <= y
  BY <1>1, MinIsLeast
<1>3. lo2 \in stored \union {n} /\ \A y \in stored \union {n} : lo2 <= y
  <2>1. stored \union {n} \in SUBSET Nat /\ stored \union {n} # {}
    BY <1>1
  <2> QED
    BY <2>1, MinIsLeast
<1>4. EventBlock[lo] < rangeStart /\ rangeStart <= EventBlock[n]
  BY <1>1 DEF WindowInv, FloorInv
<1> HIDE DEF lo, lo2
<1>5. lo \in Checkpoints /\ EventBlock[lo] \in Nat /\ EventBlock[n] \in Nat
  BY <1>1, <1>2
<1>6. lo < n
  <2>1. ~(n <= lo)
    BY <1>1, <1>4, <1>5
  <2> QED
    BY <1>1, <1>2, <2>1
<1>7. lo2 = lo
  BY <1>1, <1>2, <1>3, <1>6
<1> QED
  BY <1>2, <1>6, <1>7 DEF lo, lo2

\* The rows of a checkpoint up to the head of the prefix are a full window.
LEMMA RowsAreFullWindow ==
    ASSUME Regular, TypeOK, stored # {},
           NEW n \in stored, n <= HighestSequential(stored)
    PROVE  RowsOf(n) = Log!FullWindow(n, stored) /\ n \in RowsOf(n)
<1>1. HighestSequential(stored) \in stored
      /\ (Min(stored) .. HighestSequential(stored)) \subseteq stored
  BY RegularHead DEF TypeOK
<1>2. stored \in SUBSET Nat /\ stored \subseteq Checkpoints
  BY CheckpointsAreNumbers DEF TypeOK
<1>3. Min(stored) \in stored /\ \A y \in stored : Min(stored) <= y
  BY <1>2, MinIsLeast
<1>4. Log!FullWindow(n, stored) =
        {m \in Checkpoints : m <= n /\ n <= m + MonitoringPeriod /\ Min(stored) <= m}
  BY DEF Log!FullWindow, Log!Min, Min
<1>5. \A m \in Checkpoints : m <= n /\ Min(stored) <= m => m \in stored
  <2> SUFFICES ASSUME NEW m \in Checkpoints, m <= n, Min(stored) <= m
               PROVE  m \in stored
    OBVIOUS
  <2>1. m \in Nat /\ n \in Nat /\ Min(stored) \in Nat /\ HighestSequential(stored) \in Nat
    BY <1>1, <1>2, <1>3, CheckpointsAreNumbers
  <2>2. m \in Min(stored) .. HighestSequential(stored)
    BY <2>1
  <2> QED
    BY <1>1, <2>2
<1>6. RowsOf(n) = {m \in stored : m <= n /\ n <= m + MonitoringPeriod}
  BY DEF RowsOf
<1>7. RowsOf(n) = Log!FullWindow(n, stored)
  BY <1>2, <1>3, <1>4, <1>5, <1>6
<1> QED
  BY <1>2, <1>6, <1>7

\* A handler leaves the lowest stored checkpoint and the windows alone.
LEMMA HandleKeepsWindowInv ==
    ASSUME WindowInv, HandlerInv', NEW n \in Checkpoints, Handle(n)
    PROVE  WindowInv'
<1>1. /\ UNCHANGED <<window, pc, latest, rangeStart>>
      /\ stored' = stored \/ stored' = stored \union {n}
      /\ handler[n] # "idle"
      /\ \A m \in Checkpoints : handler'[m] # "idle" => handler[m] # "idle"
  <2>1. UNCHANGED <<window, pc, latest, rangeStart>>
    BY DEF Handle, locals
  <2>2. /\ stored' = stored \/ stored' = stored \union {n}
        /\ handler[n] # "idle"
        /\ \E state : Goto(n, state)
    BY DEF Handle, CheckExists, Process, Store, StoreUnacknowledged, Expose, HandlerFails
  <2>3. \A m \in Checkpoints : handler'[m] # "idle" => handler[m] # "idle"
    BY <2>2 DEF Goto, WindowInv, HandlerInv, TypeOK
  <2> QED
    BY <2>1, <2>2, <2>3
<1>2. Computed' = Computed
  BY <1>1 DEF Computed
<1>3. CASE Computed = {}
  BY <1>1, <1>2, <1>3 DEF WindowInv, FloorInv, WindowsComplete
<1>4. CASE Computed # {}
  <2>1. Min(stored') = Min(stored)
    BY <1>1, <1>4, FloorStays
  <2>2. FloorInv'
    BY <1>1, <1>2, <2>1 DEF WindowInv, FloorInv
  <2>3. \A m : Log!FullWindow(m, stored') = Log!FullWindow(m, stored)
    <3>1. Log!Min(stored') = Log!Min(stored)
      BY <2>1 DEF Log!Min, Min
    <3> QED
      BY <3>1 DEF Log!FullWindow
  <2>4. WindowsComplete'
    BY <1>1, <1>2, <2>3 DEF WindowInv, WindowsComplete
  <2> QED
    BY <2>2, <2>4 DEF WindowInv
<1> QED
  BY <1>3, <1>4

\* A computed window is complete because its checkpoint is below the head.
LEMMA ComputeKeepsWindows ==
    ASSUME WindowInv, TypeOK', Regular, ComputeMetrics
    PROVE  /\ WindowsComplete'
           /\ Computed' # {} => stored # {}
<1>1. UNCHANGED stored
  BY DEF ComputeMetrics
<1>2. CASE UNCHANGED window
  BY <1>1, <1>2 DEF WindowsComplete, Computed, WindowInv, FloorInv
<1>3. ASSUME NEW ok \in SUBSET Batch(HighestSequential(stored)), stored # {}, SaveMetrics(ok)
      PROVE  WindowsComplete'
  <2> SUFFICES ASSUME NEW n \in Checkpoints, window'[n] # {}
               PROVE  window'[n] = Log!FullWindow(n, stored) /\ window'[n] \subseteq stored
    BY <1>1 DEF WindowsComplete, Computed
  <2>1. CASE n \in ok
    <3>1. n \in stored /\ n <= HighestSequential(stored)
      BY <1>3, <2>1 DEF Batch, Uncomputed
    <3>2. window'[n] = RowsOf(n)
      BY <1>3, <2>1 DEF SaveMetrics
    <3>3. RowsOf(n) = Log!FullWindow(n, stored)
      BY <1>3, <3>1, RowsAreFullWindow DEF WindowInv, HandlerInv
    <3> QED
      BY <3>2, <3>3 DEF RowsOf
  <2>2. CASE n \notin ok
    <3>1. window'[n] = window[n]
      BY <1>3, <2>2 DEF SaveMetrics
    <3> QED
      BY <3>1 DEF WindowInv, WindowsComplete, Computed
  <2> QED
    BY <2>1, <2>2
<1>4. \/ UNCHANGED window
      \/ /\ stored # {}
         /\ \E ok \in SUBSET Batch(HighestSequential(stored)) : SaveMetrics(ok)
  <2>1. HighestSequential(stored) # Undefined => stored # {}
    BY RegularHead DEF WindowInv, HandlerInv, TypeOK
  <2>2. ASSUME NEW ok, ok = {}, SaveMetrics(ok) PROVE UNCHANGED window
    BY <2>2 DEF SaveMetrics, WindowInv, HandlerInv, TypeOK
  <2> QED
    BY <2>1, <2>2 DEF ComputeMetrics
<1> QED
  BY <1>1, <1>2, <1>3, <1>4

\* One step of the cycle, of a handler or of the chain.
LEMMA NextKeepsWindowInv ==
    ASSUME WindowInv, TypeOK', HandlerInv', Regular, [Next]_vars
    PROVE  WindowInv'
<1> USE DEF WindowInv, database, locals
\* A step outside of the scan, with no handler at work.
<1>1. ASSUME UNCHANGED database, pc' \notin {"scan", "handle", "advance"}
      PROVE  WindowInv'
  <2>1. \A n \in Checkpoints : handler'[n] = "idle"
    BY <1>1 DEF HandlerInv, HandlersInsideCycle
  <2> QED
    BY <1>1, <2>1 DEF FloorInv, WindowsComplete, Computed
\* A step of the scan that does not move back.
<1>2. ASSUME UNCHANGED database,
             pc' \in {"scan", "handle", "advance"},
             Computed # {} => EventBlock[Min(stored)] < rangeStart',
             \A n \in Checkpoints : handler'[n] # "idle" => rangeStart' <= EventBlock[n],
             pc' \in {"handle", "advance"} => rangeStart' < latest'
      PROVE  WindowInv'
  BY <1>2 DEF FloorInv, WindowsComplete, Computed
<1>3. CASE UNCHANGED <<database, pc, latest, rangeStart, handler>>
  BY <1>3 DEF FloorInv, WindowsComplete, Computed
<1>4. CASE StartCycle
  BY <1>1, <1>4 DEF StartCycle, EndCycle
<1>5. CASE Resume
  <2>1. CASE pc' = "idle"
    BY <1>1, <1>5, <2>1 DEF Resume
  <2>2. CASE pc' = "scan"
    <3>1. \A n \in Checkpoints : handler'[n] = "idle"
      BY <2>2 DEF HandlerInv, HandlersInsideCycle
    <3>2. ASSUME Computed # {} PROVE EventBlock[Min(stored)] < rangeStart'
      <4> DEFINE h  == HighestSequential(stored)
                 lo == Min(stored)
      <4>1. stored # {} /\ stored \in SUBSET Nat /\ stored \subseteq Checkpoints
        BY <3>2, CheckpointsAreNumbers DEF FloorInv, HandlerInv, TypeOK
      <4>2. h \in stored
        BY <4>1, RegularHead
      <4>3. lo \in stored /\ lo <= h
        BY <4>1, <4>2, MinIsLeast
      <4>4. rangeStart' = EventBlock[h] + 1
        <5>1. h # Undefined
          BY <4>1, <4>2, CheckpointsAreNumbers DEF Undefined
        <5> QED
          BY <1>5, <2>2, <4>2, <5>1 DEF Resume, Regular, EndCycle
      <4> HIDE DEF h, lo
      <4>5. EventBlock[lo] <= EventBlock[h] /\ EventBlock[lo] \in Nat /\ EventBlock[h] \in Nat
        BY <4>1, <4>2, <4>3
      <4> QED
        BY <4>4, <4>5 DEF lo
    <3> QED
      BY <1>2, <1>5, <2>2, <3>1, <3>2 DEF Resume
  <2> QED
    BY <1>5, <2>1, <2>2 DEF Resume, EndCycle
<1>6. CASE Scan
  <2>1. CASE pc' = "idle"
    BY <1>1, <1>6, <2>1 DEF Scan
  <2>2. CASE pc' # "idle"
    <3>1. /\ pc = "scan" /\ rangeStart < latest /\ UNCHANGED <<latest, rangeStart>>
          /\ pc' \in {"handle", "advance"}
      BY <1>6, <2>2 DEF Scan, EndCycle
    <3>2. \A n \in Checkpoints : handler'[n] # "idle" => rangeStart <= EventBlock[n]
      <4>1. \A n \in Checkpoints : handler[n] = "idle"
        BY <3>1 DEF HandlerInv, HandlersInsideCycle
      <4>2. \A events \in EventAnswers(rangeStart, RangeStop) :
               \A n \in events : rangeStart <= EventBlock[n]
        BY DEF EventAnswers, EventsIn
      <4> QED
        BY <1>6, <4>1, <4>2 DEF Scan
    <3> QED
      BY <1>2, <1>6, <3>1, <3>2 DEF Scan, FloorInv
  <2> QED
    BY <2>1, <2>2
<1>7. CASE Settle
  <2>1. CASE pc' = "idle"
    BY <1>1, <1>7, <2>1 DEF Settle
  <2>2. CASE pc' # "idle"
    BY <1>2, <1>7, <2>2 DEF Settle, EndCycle, FloorInv
  <2> QED
    BY <2>1, <2>2
<1>8. CASE Advance
  <2>1. rangeStart <= RangeStop /\ rangeStart \in Int /\ RangeStop \in Int
    BY <1>8 DEF Advance, FloorInv, RangeStop, HandlerInv, TypeOK
  <2>2. \A n \in Checkpoints : handler'[n] = "idle"
    BY <1>8 DEF Advance, HandlerInv, HandlersInsideCycle
  <2>3. ASSUME Computed # {} PROVE EventBlock[Min(stored)] < RangeStop
    <3>1. stored # {} /\ stored \in SUBSET Nat /\ stored \subseteq Checkpoints
      BY <2>3, CheckpointsAreNumbers DEF FloorInv, HandlerInv, TypeOK
    <3>2. Min(stored) \in Checkpoints
      BY <3>1, MinIsLeast
    <3>3. EventBlock[Min(stored)] \in Nat
      BY <3>2
    <3>4. EventBlock[Min(stored)] < rangeStart
      BY <1>8, <2>3 DEF Advance, FloorInv
    <3> QED
      BY <2>1, <3>3, <3>4
  <2> QED
    BY <1>2, <1>8, <2>2, <2>3 DEF Advance
<1>9. CASE FastForward
  BY <1>1, <1>9 DEF FastForward
<1>10. CASE ComputeMetrics
  <2>1. pc' \notin {"scan", "handle", "advance"} /\ UNCHANGED stored
    BY <1>10 DEF ComputeMetrics, EndCycle
  <2>2. \A n \in Checkpoints : handler'[n] = "idle"
    BY <2>1 DEF HandlerInv, HandlersInsideCycle
  <2> QED
    BY <1>10, <2>1, <2>2, ComputeKeepsWindows DEF FloorInv
<1>11. CASE PublishGauges
  BY <1>1, <1>11 DEF PublishGauges, EndCycle
<1>12. CASE \E n \in Checkpoints : Handle(n)
  BY <1>12, HandleKeepsWindowInv
<1>13. CASE CycleFails
  BY <1>1, <1>13 DEF CycleFails, EndCycle
<1>14. CASE Crash
  BY <1>1, <1>14 DEF Crash
<1>15. CASE Mine \/ UNCHANGED vars
  BY <1>3, <1>15 DEF Mine, vars
<1> QED
  BY <1>4, <1>5, <1>6, <1>7, <1>8, <1>9, <1>10, <1>11, <1>12, <1>13, <1>14,
     <1>15 DEF Next, Worker

\* While a performance exists nothing is stored below the lowest stored checkpoint
\* any more, and every window computed stays complete (runMainUpdateCycle).
THEOREM WindowsInvariant == ASSUME Regular PROVE Spec => []WindowInv
<1>1. Init => WindowInv
  <2>1. Init => HandlerInv
    BY DEF Init, TypeOK, NoBlock, Phases, HandlerStates, Checkpoints, HandlerInv,
           HandlersInsideCycle
  <2> QED
    BY <2>1 DEF Init, WindowInv, FloorInv, WindowsComplete, Computed
<1>2. WindowInv /\ TypeOK' /\ HandlerInv' /\ [Next]_vars => WindowInv'
  BY NextKeepsWindowInv
<1> QED
  BY <1>1, <1>2, TypeCorrect, HandlersInvariant, PTL DEF Spec

\* Outside of dry runs and of a change of digits, every performance is computed
\* from its full window, whatever is lost, late or crashes (computeMetrics).
THEOREM WindowsAlwaysComplete == ASSUME Regular PROVE Spec => []WindowsComplete
<1>1. WindowInv => WindowsComplete
  BY DEF WindowInv
<1> QED
  BY <1>1, WindowsInvariant, PTL

-----------------------------------------------------------------------------
(* Refinement.                                                             *)

\* A step of a handler indexes, announces or stutters.
LEMMA HandleImplementsLog ==
    ASSUME WindowInv, NEW n \in Checkpoints, Handle(n)
    PROVE  [Log!LogNext]_(Log!logVars)
<1> USE DEF Log!logVars
<1>1. UNCHANGED window
  BY DEF Handle
<1>2. ASSUME n \notin stored, handler[n] # "idle",
             stored' = stored \union {n}, UNCHANGED exposed
      PROVE  Log!Index(n)
  <2>1. Log!Computed = Computed
    BY DEF Log!Computed, Computed
  <2>2. Log!Min(stored) = Min(stored)
    BY DEF Log!Min, Min
  <2>3. ASSUME Computed # {} PROVE Min(stored) <= n
    <3>1. Min(stored) \in stored /\ Min(stored) < n
      BY <1>2, <2>3, FloorStays
    <3>2. Min(stored) \in Nat /\ n \in Nat
      BY <3>1, CheckpointsAreNumbers DEF WindowInv, HandlerInv, TypeOK
    <3> QED
      BY <3>1, <3>2
  <2> QED
    BY <1>1, <1>2, <2>1, <2>2, <2>3 DEF Log!Index
<1>3. CASE Store(n) \/ StoreUnacknowledged(n)
  <2>1. n \notin stored
    BY <1>3 DEF Store, StoreUnacknowledged, WindowInv, HandlerInv
  <2> QED
    BY <1>2, <1>3, <2>1 DEF Store, StoreUnacknowledged, Log!LogNext
<1>4. CASE Expose(n)
  <2>1. n \in stored /\ exposed[n] = 0 /\ exposed \in [Checkpoints -> Nat]
    BY <1>4 DEF Expose, WindowInv, HandlerInv, TypeOK
  <2>2. CASE IsStale(n)
    BY <1>1, <1>4, <2>2 DEF Expose
  <2>3. CASE ~IsStale(n)
    <3>1. exposed' = [exposed EXCEPT ![n] = 1]
      BY <1>4, <2>1, <2>3 DEF Expose
    <3> QED
      BY <1>1, <1>4, <2>1, <3>1 DEF Expose, Log!LogNext, Log!Announce
  <2> QED
    BY <2>2, <2>3
<1>5. CASE CheckExists(n) \/ Process(n) \/ HandlerFails(n)
  BY <1>1, <1>5 DEF CheckExists, Process, HandlerFails
<1> QED
  BY <1>3, <1>4, <1>5 DEF Handle

\* A turn of the batch loop computes full windows of stored checkpoints.
LEMMA ComputeImplementsLog ==
    ASSUME WindowInv, Regular, ComputeMetrics
    PROVE  [Log!LogNext]_(Log!logVars)
<1> DEFINE h == HighestSequential(stored)
<1>1. UNCHANGED <<stored, exposed>>
  BY DEF ComputeMetrics
<1>2. ASSUME NEW ok \in SUBSET Batch(h), stored # {}, SaveMetrics(ok)
      PROVE  Log!Compute(ok)
  <2>1. \A n \in ok : n \in stored /\ n <= h /\ n \notin Computed
    BY DEF Batch, Uncomputed
  <2>2. \A n \in ok : RowsOf(n) = Log!FullWindow(n, stored) /\ RowsOf(n) \subseteq stored
    BY <1>2, <2>1, RowsAreFullWindow DEF WindowInv, HandlerInv, RowsOf
  <2>3. ok \subseteq stored \ Log!Computed
    BY <2>1 DEF Log!Computed, Computed
  <2>4. window' = [n \in Checkpoints |->
                     IF n \in ok THEN Log!FullWindow(n, stored) ELSE window[n]]
    BY <1>2, <2>2 DEF SaveMetrics
  <2> QED
    BY <1>1, <2>2, <2>3, <2>4 DEF Log!Compute
<1>3. \/ UNCHANGED window
      \/ stored # {} /\ \E ok \in SUBSET Batch(h) : SaveMetrics(ok)
  <2>1. h # Undefined => stored # {}
    BY RegularHead DEF WindowInv, HandlerInv, TypeOK
  <2>2. ASSUME NEW ok, ok = {}, SaveMetrics(ok) PROVE UNCHANGED window
    BY <2>2 DEF SaveMetrics, WindowInv, HandlerInv, TypeOK
  <2> QED
    BY <2>1, <2>2 DEF ComputeMetrics
<1>4. ASSUME NEW ok \in SUBSET Batch(h) PROVE ok \in SUBSET Checkpoints
  BY DEF Batch, Uncomputed, WindowInv, HandlerInv, TypeOK
<1> HIDE DEF h
<1> QED
  BY <1>1, <1>2, <1>3, <1>4 DEF Log!LogNext, Log!logVars

\* The main cycle implements the log of checkpoints: every step of it, failing,
\* crashing or not, is a step of CheckpointLog or leaves its variables alone.
THEOREM IndexerImplementsLog == ASSUME Regular PROVE Spec => ImplementsLog
<1>1. Init => Log!LogInit
  BY DEF Init, Log!LogInit
<1>2. ASSUME WindowInv, [Next]_vars PROVE [Log!LogNext]_(Log!logVars)
  <2> USE DEF Log!logVars, database
  <2>1. CASE Mine \/ CycleFails \/ Crash
    BY <2>1 DEF Mine, CycleFails, Crash
  <2>2. CASE StartCycle \/ Resume \/ Scan \/ Settle \/ Advance \/ FastForward
    BY <2>2 DEF StartCycle, Resume, Scan, Settle, Advance, FastForward
  <2>3. CASE ComputeMetrics
    BY <1>2, <2>3, ComputeImplementsLog
  <2>4. CASE PublishGauges
    BY <2>4 DEF PublishGauges
  <2>5. CASE \E n \in Checkpoints : Handle(n)
    BY <1>2, <2>5, HandleImplementsLog
  <2>6. CASE UNCHANGED vars
    BY <2>6 DEF vars
  <2> QED
    BY <1>2, <2>1, <2>2, <2>3, <2>4, <2>5, <2>6 DEF Next, Worker
<1> QED
  BY <1>1, <1>2, WindowsInvariant, PTL DEF Spec, ImplementsLog, Log!LogSpec
=============================================================================
