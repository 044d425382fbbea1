------------------------- MODULE MC_VolumeDirectory -------------------------
(* Model-checking instance of VolumeDirectory: one admin caller whose own   *)
(* project is t1 and one ordinary caller of t1; volumes may belong to t1   *)
(* or t2, so the admin reaches t2's volumes only through GetVolume's       *)
(* fallback scan.                                                          *)
EXTENDS VolumeDirectory

CONSTANTS t1, t2, admin, user   \* model values

MCCtx == [c \in Clients |-> IF c = admin THEN [tenant |-> t1, admin |-> TRUE]
                                          ELSE [tenant |-> t1, admin |-> FALSE]]
=============================================================================
