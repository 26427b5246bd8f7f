SPECIFICATION Spec
CONSTANTS
  b1 = b1
  b2 = b2
  h1 = h1
  c1 = c1
  All = All
  Branches <- MCBranches
  Scopes <- MCScopes
  Hands <- MCHands
  Ticks <- MCTicks
  DayLength = 2
  Cutoff = 0
  Horizon = 2
  MaxSessions = 1
  MaxPayments = 1
  MaxMishaps = 1
INVARIANTS TypeOK PlainCloseIsExact CloseLeavesTrace
PROPERTIES AutoNeverOverwrites NightComes
