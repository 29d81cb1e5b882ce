-------------------------------- MODULE Median --------------------------------
(***************************************************************************)
(* median() of the helpers, over the values of a function: the numbers of  *)
(* an array, of which some may be equal.  The array is sorted and read by  *)
(* position; the position is what matters here, so that an element is told *)
(* by how many others lie below it.  numArray.sort() has no comparator and *)
(* compares strings, but the numbers it is given are rates between 0 and 1 *)
(* and at least 1 / (MONITORING_PERIOD + 1) apart from 0: none is written  *)
(* with an exponent, and the order of strings is that of the numbers.      *)
(***************************************************************************)
EXTENDS Integers, FiniteSets, FiniteSetsExt

ValuesOf(f) == {f[x] : x \in DOMAIN f}

AtMost(f, r)  == {x \in DOMAIN f : f[x] <= r}
AtLeast(f, r) == {x \in DOMAIN f : f[x] >= r}
Below(f, r)   == {x \in DOMAIN f : f[x] < r}

\* The element at index i, from 0, of the sorted array.
ElementAt(f, i) ==
    CHOOSE r \in ValuesOf(f) :
        Cardinality(Below(f, r)) <= i /\ i < Cardinality(AtMost(f, r))

\* JavaScript's NaN, which numbers that are not negative cannot be taken for.
NaN == -1

Length(f) == Cardinality(DOMAIN f)

\* Faulty variant: the lower neighbour of the middle.
MedianTwiceBelow(f) ==
    LET n == Length(f) \div 2
    IN  2 * ElementAt(f, IF n = 0 THEN 0 ELSE n - 1)

\* Twice what median() returns, of an array that is not empty.  The index after
\* the last one reads undefined, of which no mean can be taken.
MedianTwice(f) ==
    LET n == Length(f) \div 2
    IN  IF Length(f) % 2 # 0 THEN 2 * ElementAt(f, n)
        ELSE IF n + 1 < Length(f) THEN ElementAt(f, n) + ElementAt(f, n + 1)
        ELSE NaN

-----------------------------------------------------------------------------
(* The reference: the mean of the lower and the upper median.              *)

IsLowerMedian(f, r) ==
    /\ r \in ValuesOf(f)
    /\ 2 * Cardinality(AtMost(f, r)) >= Length(f)
    /\ 2 * Cardinality(Below(f, r)) < Length(f)

IsUpperMedian(f, r) ==
    /\ r \in ValuesOf(f)
    /\ 2 * Cardinality(AtLeast(f, r)) >= Length(f)
    /\ 2 * Cardinality({x \in DOMAIN f : f[x] > r}) < Length(f)

IsMedianTwice(f, m) ==
    \E lo, hi \in ValuesOf(f) :
        IsLowerMedian(f, lo) /\ IsUpperMedian(f, hi) /\ m = lo + hi
=============================================================================
