\* The metric against the state it is named for: expected to fail.
SPECIFICATION Spec
CONSTANTS
  c1 = c1
  c2 = c2
  k1 = k1
  k2 = k2
  Calls <- TwoCalls
  Checks <- TwoChecks
  FailureThreshold = 2
  FailureWindow = 1
  ResetTimeout = 2
  SuccessThreshold = 2
  HasFallback = TRUE
INVARIANT
  MetricMeansOpen
