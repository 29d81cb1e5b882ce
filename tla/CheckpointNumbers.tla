-------------------------- MODULE CheckpointNumbers --------------------------
(* The checkpoints in sight, shared by the jobs of the worker.               *)
EXTENDS CheckpointSeq

CONSTANTS FirstCheckpoint, LastCheckpoint \* checkpoints the RootChain will submit

Checkpoints == FirstCheckpoint .. LastCheckpoint

ASSUME CheckpointsAssumption ==
    /\ FirstCheckpoint \in Nat \ {0}
    /\ LastCheckpoint \in Nat

\* checkpoint.number is a PostgreSQL integer.
ASSUME IntegerAssumption == LastCheckpoint <= 2147483647
=============================================================================
