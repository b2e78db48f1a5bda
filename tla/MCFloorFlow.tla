----------------------------- MODULE MCFloorFlow -----------------------------
(* FloorFlow with two overlapping POSTs.                                   *)
EXTENDS FloorFlow, TLC

CONSTANTS d1, d2, t1, r1, p1, p2

PostSymmetry == Permutations({p1, p2})
=============================================================================
