SPECIFICATION Spec
CONSTANTS
  a1 = a1
  a2 = a2
  t1 = t1
  t2 = t2
  k1 = k1
  k2 = k2
  kitchen = kitchen
  bar = bar
  NoTable = NoTable
  NoKey = NoKey
  NoReq = NoReq
  Actors <- MCTwoActors
  Tables <- MCOneTable
  Stations <- MCOneStation
  Keys <- MCNoKeys
  MaxOrders = 1
  MaxRequests = 3
  MaxAmount = 1
  Adjustments <- MCNoAdjustment
  Handlers <- MCCancels
INVARIANT NoMoneyOnCancelled
CHECK_DEADLOCK FALSE
