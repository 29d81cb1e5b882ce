-------------------------------- MODULE Health --------------------------------
(***************************************************************************)
(* The health check for gaps, CheckpointsHealthIndicator.isHealthy: three  *)
(* queries, the first two at once, while the handlers of the main cycle    *)
(* commit checkpoints in any order in between.  Checks share nothing, so   *)
(* one at a time is modelled.                                              *)
(***************************************************************************)
EXTENDS Indexer

VARIABLES
    check,       \* "idle", or "bounds" while the check awaits its queries
    low, high,   \* min and max of the running check
    gapAtStart   \* history: numbers missing when the running check began

checkVars == <<check, low, high, gapAtStart>>

\* Of a query that has not answered yet; Undefined stands for null, the answer
\* for an empty table, which the comparison with undefined lets through.
Unread == -1

CheckInit ==
    /\ check = "idle"
    /\ low = Unread
    /\ high = Unread
    /\ gapAtStart = {}

\* The numbers missing between two stored checkpoints.
Gap == IF stored = {} THEN {} ELSE Missing(Min(stored), Max(stored), stored)

StartCheck ==
    /\ check = "idle"
    /\ check' = "bounds"
    /\ gapAtStart' = Gap
    /\ UNCHANGED <<low, high>>

ReadMin ==
    /\ check = "bounds"
    /\ low = Unread
    /\ low' = IF stored = {} THEN Undefined ELSE Min(stored)
    /\ UNCHANGED <<check, high, gapAtStart>>

\* Faulty variant: the head of the sequence is taken for the highest.
ReadHead ==
    /\ check = "bounds"
    /\ high = Unread
    /\ high' = HighestSequential(stored)
    /\ UNCHANGED <<check, low, gapAtStart>>

ReadMax ==
    /\ check = "bounds"
    /\ high = Unread
    /\ high' = IF stored = {} THEN Undefined ELSE Max(stored)
    /\ UNCHANGED <<check, low, gapAtStart>>

BothRead == check = "bounds" /\ low # Unread /\ high # Unread

\* Faulty variant: null is taken for zero.
ReportFromZero == Missing(low, high, stored)

\* What the check reports if it reads the missing numbers now; any of them is an
\* alarm.  A series from or to null has no rows.
Report ==
    IF low = Undefined \/ high = Undefined THEN {} ELSE Missing(low, high, stored)

\* The check is gone, and what it has read with it.
ForgetCheck ==
    /\ check' = "idle"
    /\ low' = Unread
    /\ high' = Unread
    /\ gapAtStart' = {}

\* The check answers once the missing numbers are read.  Or a query fails, and
\* the request with it.
EndCheck ==
    /\ BothRead \/ Flaky
    /\ check = "bounds"
    /\ ForgetCheck

Check == StartCheck \/ ReadMin \/ ReadMax \/ EndCheck

-----------------------------------------------------------------------------
(* Properties.                                                             *)

CheckTypeOK ==
    /\ check \in {"idle", "bounds"}
    /\ low \in Checkpoints \union {Unread, Undefined}
    /\ high \in Checkpoints \union {Unread, Undefined}
    /\ gapAtStart \subseteq Checkpoints

\* What a check reports is missing indeed, between two stored checkpoints, when
\* it reports it: however the handlers committed between its three queries, the
\* first checkpoint of an empty table included (isHealthy).
AlarmIsAGap == BothRead => Report \subseteq Gap

\* A gap that was there when the check began and is still there at its end is
\* reported, whatever was stored above or below it meanwhile (isHealthy).
LastingGapReported == BothRead => gapAtStart \ stored \subseteq Report
=============================================================================
