SPECIFICATION Spec
CONSTANTS
  h1 = h1
  h2 = h2
  boss = boss
  chef = chef
  cafe = cafe
  bistro = bistro
  Hands <- MCHands
  Emails <- MCEmails
  Businesses <- MCBusinesses
  Home = cafe
  Boss = boss
  MaxLogins = 3
  MaxRequests = 3
  MaxMishaps = 2
INVARIANTS TypeOK OneTenant KeepsOwner NoLeftovers
CHECK_DEADLOCK FALSE
