---------------------------- MODULE MCPerformance ----------------------------
(* Performance over three checkpoints: validator 1 is tracked, and named in  *)
(* some versions of the file; one validator joins at checkpoint 2, so that   *)
(* it has fewer duties than the window has checkpoints, and one at           *)
(* checkpoint 3, so that windows have two, three and four validators.        *)
EXTENDS Performance

CONSTANTS A, Last, Later

MCActive ==
    [n \in Checkpoints |->
       Ids \ ((IF n = 1 THEN {Last} ELSE {}) \union (IF n <= 2 THEN {Later} ELSE {}))]
MCTracked == [n \in Checkpoints |-> IF n = 2 THEN {1, Last} ELSE {1}]
MCFiles ==
    {[v \in Ids |-> IF v = 1 THEN name ELSE Anonymous] : name \in {A, Anonymous}}
=============================================================================
