----------------------------- MODULE MCPayments -----------------------------
(* Payments on small instances.                                            *)
EXTENDS Payments, TLC

CONSTANTS p1, p2, o1, r1, r2

TwoPayments == {p1, p2}
OneOrder == {o1}
TwoRefunds == {r1, r2}

(* None in particular, a part, all, and more than the payment.             *)
SomeAmounts == {0, 1, 3}
Symmetry == Permutations(TwoPayments) \cup Permutations(TwoRefunds)
=============================================================================
