---------------------------- MODULE MCOrderCreation ----------------------------
(* Small instances: one order id for each request in progress beside that   *)
(* of the committed order.                                                  *)
EXTENDS OrderCreation

CONSTANTS r1, r2, k1, o1, o2, o3

TwoRequests == {r1, r2}
OneKey      == {k1}
ThreeIds    == {o1, o2, o3}
=============================================================================
