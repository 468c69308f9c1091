--------------------------- MODULE MCOrderLifecycle ---------------------------
(* Two callers of the PATCH endpoint beside the background processor.       *)
EXTENDS OrderLifecycle, TLC

CONSTANTS a1, a2

TwoActors == {a1, a2}

ActorSymmetry == Permutations(TwoActors)
=============================================================================
