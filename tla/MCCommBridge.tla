---------------------------- MODULE MCCommBridge ----------------------------
(* Three vehicles, one of which speaks. *)
EXTENDS CommBridge, TLC

CONSTANTS v1, v2, v3

MCVehicles == {v1, v2, v3}
MCSays == v1 :> 2 @@ v2 :> 0 @@ v3 :> 0
=============================================================================
