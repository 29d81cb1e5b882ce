---------------------------- MODULE CheckpointSeq ----------------------------
(***************************************************************************)
(* How the service finds the head of its gapless prefix of checkpoints.    *)
(*                                                                         *)
(* Every decision of the main cycle starts from one number computed over   *)
(* the checkpoints table: getTheHighestSequentialCheckpointNumber.  It     *)
(* asks the database for min(number), max(number) and the numbers missing  *)
(* in between, sorts the missing ones and takes the one before the first.  *)
(* The sort is JavaScript's default Array.prototype.sort, which compares   *)
(* the decimal representations of its elements as strings: that order is   *)
(* modelled here, on digits, because 10 comes before 9 in it.              *)
(***************************************************************************)
EXTENDS Naturals, FiniteSets, FiniteSetsExt

\* Powers of ten up to the largest of a PostgreSQL integer (checkpoint.number).
Pow10 == <<1, 10, 100, 1000, 10000, 100000, 1000000, 10000000, 100000000,
           1000000000>>

\* The number of decimal digits of n > 0.
NumDigits(n) == Cardinality({k \in 1..10 : Pow10[k] <= n})

\* The number written by the first k digits of n.
Leading(n, k) == n \div Pow10[NumDigits(n) - k + 1]

\* String(a) < String(b): compare the common prefix, then the lengths.
StringLess(a, b) ==
    LET da == NumDigits(a)
        db == NumDigits(b)
        k  == IF da <= db THEN da ELSE db
    IN  \/ Leading(a, k) < Leading(b, k)
        \/ Leading(a, k) = Leading(b, k) /\ da < db

\* The first element of S once sorted by Array.prototype.sort with no comparator.
FirstSorted(S) == CHOOSE x \in S : \A y \in S \ {x} : StringLess(x, y)

\* getMissingCheckpointsNumbers(from, to): generate_series without the stored.
Missing(from, to, stored) == (from .. to) \ stored

\* JavaScript's undefined: the answer for an empty table (numbers start at 1).
Undefined == 0

\* Faulty variant: gaps are ignored.
HighestStored(stored) == IF stored = {} THEN Undefined ELSE Max(stored)

\* getTheHighestSequentialCheckpointNumber
HighestSequential(stored) ==
    IF stored = {} THEN Undefined
    ELSE LET missing == Missing(Min(stored), Max(stored), stored)
         IN  IF missing = {} THEN Max(stored) ELSE FirstSorted(missing) - 1

-----------------------------------------------------------------------------
\* The reference: h is the head of the gapless prefix of S, as the comment of
\* the function says ("1,2,3,5,6 => 3").
IsGaplessHead(h, S) ==
    IF S = {} THEN h = Undefined
    ELSE /\ h \in S
         /\ (Min(S) .. h) \subseteq S
         /\ h + 1 \notin S

\* All the numbers of S are written with as many digits.
SameDigits(S) == \A a, b \in S : NumDigits(a) = NumDigits(b)
=============================================================================
