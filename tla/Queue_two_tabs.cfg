SPECIFICATION Spec
CONSTANTS
  w1 = w1
  w2 = w2
  s1 = s1
  s2 = s2
  b1 = b1
  Gone = Gone
  Tabs <- MCTwoTabs
  Sales <- MCOneSale
  Bills <- MCNoBill
  MaxFailures = 1
  MaxRetries = 0
INVARIANT ChargedOnce
CHECK_DEADLOCK FALSE
