SPECIFICATION Spec
CONSTANTS
  s1 = s1
  s2 = s2
  p1 = p1
  p2 = p2
  c1 = c1
  None = None
  Sales <- MCSales
  Purchases <- MCPurchases
  Counts <- MCCounts
  Uses <- MCUses
  Bought <- MCBought
  Prices <- MCPrices
  MaxSkew = 1
  MaxMishaps = 2
SYMMETRY MCSymmetry
INVARIANTS TypeOK BookedOrFlagged
PROPERTIES LostOnlyByUndo AverageSeesStock CountTakesOutError
