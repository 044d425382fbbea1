---------------------------- MODULE MC_VolumeGroup ----------------------------
(* VolumeGroup with two callers of tenant t1 (groups of different tenants *)
(* have disjoint keys, so only callers of one tenant interact) and one     *)
(* group id.                                                                *)
EXTENDS VolumeGroup, TLC

CONSTANTS t1, t2, a, b

MCCtx == (a :> t1) @@ (b :> t1)
=============================================================================
