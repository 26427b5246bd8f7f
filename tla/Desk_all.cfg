SPECIFICATION Spec
CONSTANTS
  a1 = a1
  a2 = a2
  t1 = t1
  t2 = t2
  k1 = k1
  k2 = k2
  kitchen = kitchen
  bar = bar
  NoTable = NoTable
  NoKey = NoKey
  NoReq = NoReq
  Actors <- MCTwoActors
  Tables <- MCOneTable
  Stations <- MCOneStation
  Keys <- MCOneKey
  MaxOrders = 1
  MaxRequests = 4
  MaxAmount = 2
  Adjustments <- MCDiscount
  Handlers <- MCAll
INVARIANTS TypeOK RefundsCovered KeyAppliedOnce VersionFreezesLedger
PROPERTIES KeepsTheBook ReopenedOnlyUnlocked
SYMMETRY MCSymmetry
CHECK_DEADLOCK FALSE
