--------------------------- MODULE MCCircuitBreaker ---------------------------
(* A small circuit for TLC: two failures within two ticks open it, it stays *)
(* OPEN two ticks, two successes close it.                                  *)
EXTENDS CircuitBreaker

CONSTANTS c1, c2, k1, k2

TwoCalls  == {c1, c2}
TwoChecks == {k1, k2}
=============================================================================
