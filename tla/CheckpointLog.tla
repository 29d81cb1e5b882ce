---------------------------- MODULE CheckpointLog ----------------------------
(***************************************************************************)
(* What the indexer promises, with no cycle, no chunk, no provider and no  *)
(* crash in sight.  Checkpoints enter the storage once and never leave it; *)
(* a miss is announced at most once and only for a stored checkpoint; the  *)
(* performance of a checkpoint is computed once, over its complete window. *)
(***************************************************************************)
EXTENDS Naturals, FiniteSetsExt

CONSTANTS Checkpoints,       \* checkpoint numbers that may be submitted
          MonitoringPeriod   \* a window reaches this many checkpoints back

VARIABLES stored,    \* checkpoints in the storage
          window,    \* window[n]: the checkpoints the performance of n was
                     \* computed from, {} while it is not computed
          exposed    \* exposed[n]: times the misses of n were announced

logVars == <<stored, window, exposed>>

Computed == {n \in Checkpoints : window[n] # {}}

\* The stored window of n is complete from the lowest stored checkpoint on.
FullWindow(n, S) ==
    {m \in Checkpoints : m <= n /\ n <= m + MonitoringPeriod /\ Min(S) <= m}

LogInit ==
    /\ stored = {}
    /\ window = [n \in Checkpoints |-> {}]
    /\ exposed = [n \in Checkpoints |-> 0]

\* A checkpoint is indexed.  Once a performance is computed, never below the
\* first checkpoint: that would have made a computed window incomplete.
Index(n) ==
    /\ n \notin stored
    /\ Computed # {} => Min(stored) <= n
    /\ stored' = stored \union {n}
    /\ UNCHANGED <<window, exposed>>

\* The misses of a stored checkpoint are announced.
Announce(n) ==
    /\ n \in stored
    /\ exposed[n] = 0
    /\ exposed' = [exposed EXCEPT ![n] = 1]
    /\ UNCHANGED <<stored, window>>

\* The performance of some checkpoints is computed, each from a full window.
Compute(ns) ==
    /\ ns \subseteq stored \ Computed
    /\ \A n \in ns : FullWindow(n, stored) \subseteq stored
    /\ window' = [n \in Checkpoints |->
                    IF n \in ns THEN FullWindow(n, stored) ELSE window[n]]
    /\ UNCHANGED <<stored, exposed>>

LogNext ==
    \/ \E n \in Checkpoints : Index(n) \/ Announce(n)
    \/ \E ns \in SUBSET Checkpoints : Compute(ns)

LogSpec == LogInit /\ [][LogNext]_logVars
=============================================================================
