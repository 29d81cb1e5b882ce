--------------------------- MODULE MCWorkerService ---------------------------
(* Four checkpoints across 9 -> 10 for WorkerService, and one validator,     *)
(* which misses all but one of them.                                         *)
EXTENDS WorkerService

CONSTANT v1

\* The event of checkpoint FirstCheckpoint + i is in this block.
Blocks == <<2, 3, 5, 6>>

MCEventBlock == [n \in Checkpoints |-> Blocks[n - FirstCheckpoint + 1]]
MCTracked == [n \in Checkpoints |-> {v1}]
MCMissed == [n \in Checkpoints |-> IF n = FirstCheckpoint + 2 THEN {} ELSE {v1}]
MCBelowBenchmark == MCMissed
=============================================================================
