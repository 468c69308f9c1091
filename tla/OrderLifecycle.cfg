\* Two callers and the processor; one retry; calls stop when the history is full.
SPECIFICATION Spec
CONSTANTS
  a1 = a1
  a2 = a2
  Actors <- TwoActors
  Processor = Processor
  MaxRetries = 1
  MaxHistory = 5
SYMMETRY ActorSymmetry
INVARIANTS
  EveryStatusEarned
  WritesOnce
CHECK_DEADLOCK FALSE
