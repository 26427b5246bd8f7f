SPECIFICATION Spec
CONSTANTS
  a1 = a1
  a2 = a2
  t1 = t1
  t2 = t2
  k1 = k1
  k2 = k2
  kitchen = kitchen
  bar = bar
  NoTable = NoTable
  NoKey = NoKey
  NoReq = NoReq
  Actors <- MCTwoActors
  Tables <- MCOneTable
  Stations <- MCOneStation
  Keys <- MCNoKeys
  MaxOrders = 2
  MaxRequests = 5
  MaxAmount = 2
  Adjustments <- MCDiscount
  Handlers <- MCOneBill
PROPERTY SplitOnlyByReturn
SYMMETRY MCSymmetry
CHECK_DEADLOCK FALSE
