----------------------------- MODULE MCSqsIngest -----------------------------
(* SqsIngest with an order sent twice, another order and a message nobody  *)
(* can cast.                                                               *)
EXTENDS SqsIngest, TLC

CONSTANTS m1, m2, bad, k1, k2, c1, c2

TwiceAndBad == (m1 :> k1) @@ (m2 :> k1) @@ (bad :> k2)
=============================================================================
