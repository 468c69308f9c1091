\* One notification, a working, a disabled and the in-app channel, two faults.
SPECIFICATION FairSpec
CONSTANTS
  n1 = n1
  email = email
  sms = sms
  inApp = inApp
  Notifications <- OneNotification
  Channels <- ThreeChannels
  InApp = inApp
  Enabled <- EmailOnly
  Limits <- LowAndNormal
  MaxStalls = 1
  Threshold = 1
  MaxFaults = 2
  NoRow = NoRow
  NoJob = NoJob
INVARIANTS
  SentOncePerRun
  FailuresHappened
PROPERTIES
  FallbackOnLastAttempt
  JobsEnd
CHECK_DEADLOCK FALSE
