SPECIFICATION Spec
CONSTANTS
  a1 = a1
  a2 = a2
  t1 = t1
  t2 = t2
  k1 = k1
  k2 = k2
  kitchen = kitchen
  bar = bar
  NoTable = NoTable
  NoKey = NoKey
  NoReq = NoReq
  Actors <- MCTwoActors
  Tables <- MCTwoTables
  Stations <- MCOneStation
  Keys <- MCOneKey
  MaxOrders = 2
  MaxRequests = 4
  MaxAmount = 2
  Adjustments <- MCNoAdjustment
  Handlers <- MCLedger
INVARIANT StatusAgreesWithLedger
SYMMETRY MCSymmetry
CHECK_DEADLOCK FALSE
