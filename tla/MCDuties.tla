------------------------------ MODULE MCDuties ------------------------------
(* Three checkpoints for Duties: validator 1 changes its signer at block 3.  *)
(* Validator 2 joins at block 2, stops being an operator at block StopsAt    *)
(* and unstakes at block 4; its signer signs before it is bound, while it is *)
(* and after, so that the cache holds a stale 0 or a stale 2.                *)
EXTENDS Duties

CONSTANTS a1, b1, a2, StopsAt

MCBlock == 1 :> 1 @@ 2 :> 2 @@ 3 :> 3
MCSigned == 1 :> <<a1, a2>> @@ 2 :> <<a1, a2>> @@ 3 :> <<a2, b1>>
MCSignerToValidator == [b \in Blocks |->
    a1 :> (IF b < 3 THEN 1 ELSE 0) @@ b1 :> (IF b < 3 THEN 0 ELSE 1)
        @@ a2 :> (IF b = 2 THEN 2 ELSE 0)]
MCInfo == [b \in Blocks |->
    1 :> [amount |-> 5, deactivationEpoch |-> 0, active |-> TRUE]
    @@ 2 :> [amount |-> IF b = 1 THEN 0 ELSE 3,
             deactivationEpoch |-> IF b < 3 THEN 0 ELSE 5, active |-> b < 4]]
MCRegistered == [b \in Blocks |-> IF b = 1 THEN {1} ELSE {1, 2}]
MCActiveOperator == [b \in Blocks |-> IF b < StopsAt THEN {1, 2} ELSE {1}]
=============================================================================
