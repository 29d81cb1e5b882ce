---------------------------- MODULE MCShareEvents ----------------------------
(* Two minted events share a block, a third shares one with a burned event.  *)
EXTENDS ShareEvents, TLC

CONSTANTS m1, m2, m3, b1, b2

MCEventBlock == (m1 :> 2) @@ (m2 :> 2) @@ (m3 :> 3) @@ (b1 :> 3) @@ (b2 :> 5)
MCEventType ==
    (m1 :> "Minted") @@ (m2 :> "Minted") @@ (m3 :> "Minted")
        @@ (b1 :> "Burned") @@ (b2 :> "Burned")
=============================================================================
