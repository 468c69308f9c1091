\* Two callers and two overlapping health-check runs, under fairness.
SPECIFICATION FairSpec
CONSTANTS
  c1 = c1
  c2 = c2
  k1 = k1
  k2 = k2
  Calls <- TwoCalls
  Checks <- TwoChecks
  FailureThreshold = 2
  FailureWindow = 1
  ResetTimeout = 2
  SuccessThreshold = 2
  HasFallback = TRUE
INVARIANTS
  NoMissedOpening
  GaugeAgrees
PROPERTIES
  Recovers
  FullTimeout
  ImplementsContract
