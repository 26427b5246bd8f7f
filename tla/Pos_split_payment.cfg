SPECIFICATION Spec
CONSTANTS
  p1 = p1
  p2 = p2
  o1 = o1
  t1 = t1
  Idle = Idle
  Loop = Loop
  None = None
  Pages <- MCOnePage
  Orders <- MCOrders
  Tables <- MCTables
  Commands <- MCPayments
  MaxFailures = 2
  MaxMounts = 1
INVARIANT PaidWhatWasAcked
CHECK_DEADLOCK FALSE
