----------------------------- MODULE MC_DockPool -----------------------------
(* DockPool with two callers, one dock id and one pool id.                 *)
EXTENDS DockPool

CONSTANTS c1, c2, i1
=============================================================================
