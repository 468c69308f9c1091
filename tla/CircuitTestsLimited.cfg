\* Two requests under test where one is needed: expected to fail.
SPECIFICATION TestsSpec
CONSTANTS
  c1 = c1
  c2 = c2
  k1 = k1
  k2 = k2
  Calls <- TwoCalls
  Checks <- TwoChecks
  FailureThreshold = 2
  FailureWindow = 1
  ResetTimeout = 2
  SuccessThreshold = 1
  HasFallback = TRUE
INVARIANT
  TestsAreLimited
