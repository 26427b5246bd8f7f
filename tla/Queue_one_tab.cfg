SPECIFICATION ReopeningSpec
CONSTANTS
  w1 = w1
  w2 = w2
  s1 = s1
  s2 = s2
  b1 = b1
  Gone = Gone
  Tabs <- MCOneTab
  Sales <- MCOneSale
  Bills <- MCOneBill
  MaxFailures = 2
  MaxRetries = 1
INVARIANTS TypeOK ChargedOnce PaymentAfterOrder LostOnlyByConflict TwiceOnlyByFailure
PROPERTY Drains
CHECK_DEADLOCK FALSE
