------------------------------ MODULE MCIndexer ------------------------------
(* A small chain for Indexer: up to five checkpoints and two validators, one *)
(* tracked throughout, one tracked only in the middle.                      *)
EXTENDS Indexer

CONSTANTS v1, v2

\* The event of checkpoint FirstCheckpoint + i is in this block.
Blocks == <<2, 3, 5, 6, 7>>
Nth(n) == n - FirstCheckpoint + 1

MCEventBlock == [n \in Checkpoints |-> Blocks[Nth(n)]]
MCTracked == [n \in Checkpoints |-> IF Nth(n) \in {2, 3} THEN {v1, v2} ELSE {v1}]
MCMissed == [n \in Checkpoints |-> IF Nth(n) = 1 THEN {v2} ELSE {v1, v2}]
MCBelowBenchmark == [n \in Checkpoints |-> IF Nth(n) = 1 THEN {v2} ELSE {v1, v2}]

\* One validator that is under the benchmark in every checkpoint, and misses all.
MCTrackedOne == [n \in Checkpoints |-> {v1}]
MCMissedOne == MCTrackedOne
MCBelowBenchmarkOne == MCTrackedOne
=============================================================================
