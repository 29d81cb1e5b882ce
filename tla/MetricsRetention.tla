--------------------------- MODULE MetricsRetention ---------------------------
(***************************************************************************)
(* The missed_checkpoints counters and the job that keeps their number     *)
(* down.  Handlers of the main cycle add a label set per missed checkpoint,*)
(* in whatever order they end; the job reads the registry, finds the       *)
(* highest checkpoint among the labels and removes the outdated ones.  The *)
(* labels are strings: the search for the highest compares them as such,   *)
(* the subtraction that follows as numbers.                                *)
(***************************************************************************)
EXTENDS CheckpointNumbers

CONSTANT CheckpointsToKeep  \* CHECKPOINTS_TO_KEEP

ASSUME RetentionAssumption == CheckpointsToKeep \in Nat

VARIABLES
    labels,     \* checkpoints of the label sets in the registry
    snapshot,   \* the labels the running job has read
    retention   \* where the job stands

retentionVars == <<labels, snapshot, retention>>

RetentionInit ==
    /\ labels = {}
    /\ snapshot = {}
    /\ retention = "idle"

\* exposeCheckpointMisses adds a label set.
AddLabel(n) ==
    /\ labels' = labels \union {n}
    /\ UNCHANGED <<snapshot, retention>>

\* The job awaits the values of the counter.
ReadRegistry ==
    /\ retention = "idle"
    /\ snapshot' = labels
    /\ retention' = "read"
    /\ UNCHANGED labels

\* m is what the reduce over the labels returns: no other string is greater.
\* The reduce starts from the number 0, which is less than any label.
IsMaxLabel(m, S) == m \in S /\ \A k \in S \ {m} : StringLess(k, m)

\* Faulty variants: the distance is absolute; the bound is off by one.
OutdatedAround(S, m) ==
    {n \in S : m > n + CheckpointsToKeep \/ n > m + CheckpointsToKeep}

OutdatedStrictly(S, m) == {n \in S : m > n + CheckpointsToKeep + 1}

Outdated(S, m) == {n \in S : m > n + CheckpointsToKeep}

\* The outdated label sets of the snapshot are removed.
RemoveOutdated ==
    /\ retention = "read"
    /\ \/ snapshot = {} /\ UNCHANGED labels
       \/ \E m \in snapshot :
            /\ IsMaxLabel(m, snapshot)
            /\ labels' = labels \ Outdated(snapshot, m)
    /\ retention' = "idle"
    /\ snapshot' = {}

\* The registry lives in the process.
ClearRegistry ==
    /\ labels' = {}
    /\ snapshot' = {}
    /\ retention' = "idle"

RetentionNext ==
    \/ \E n \in Checkpoints : AddLabel(n)
    \/ ReadRegistry
    \/ RemoveOutdated
    \/ ClearRegistry

RetentionSpec == RetentionInit /\ [][RetentionNext]_retentionVars

-----------------------------------------------------------------------------
(* Properties.                                                             *)

\* Types; and what the job has read is still in the registry: nothing but the
\* job itself and a restart removes a label set.
RetentionTypeOK ==
    /\ labels \in SUBSET Checkpoints
    /\ snapshot \in SUBSET labels
    /\ retention \in {"idle", "read"}

\* The job never removes a label set within CHECKPOINTS_TO_KEEP of the highest
\* checkpoint in the registry, whatever the strings compare to, and whatever
\* was announced since it read the registry (metricsRetention).
KeepsRecent ==
    [][RemoveOutdated =>
         \A n \in labels \ labels' : \E m \in labels : m > n + CheckpointsToKeep]_retentionVars

\* No outdated label set survives a run of the job that has read it, as long as
\* the labels it has read are written with as many digits (metricsRetention).
RemovesOutdatedSameDigits ==
    [][RemoveOutdated /\ snapshot # {} /\ SameDigits(snapshot) =>
         \A n \in snapshot : n \in labels' => Max(snapshot) <= n + CheckpointsToKeep]_retentionVars
=============================================================================
