SPECIFICATION Spec
INVARIANTS
  EveryChargeIsRecorded
  RecordsTellTheTruth
  AnswersTellTheTruth
PROPERTIES
  NeverRecaptured
  RefundedOnce
SYMMETRY Symmetry
CONSTANTS
  p1 = p1
  p2 = p2
  o1 = o1
  r1 = r1
  r2 = r2
  Payments <- TwoPayments
  Orders <- OneOrder
  Refunds <- TwoRefunds
  Amount = 2
  Amounts <- SomeAmounts
  NoPayment = NoPayment
  Threshold = 1
  MaxFaults = 2
CHECK_DEADLOCK FALSE
