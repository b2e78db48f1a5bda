--------------------------- MODULE MCOrderPlacement ---------------------------
(* OrderPlacement with one card order and one cash order.                  *)
EXTENDS OrderPlacement, TLC

CONSTANTS card, cash, r1, r2

RequestSymmetry == Permutations(Requests)
=============================================================================
