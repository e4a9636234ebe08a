SPECIFICATION FairSpec
CONSTANTS
  PerMinute = 5
  Minute = 12
  MaxAge = 30
  MaxRestarts = 2
INVARIANTS
  TouchesBounded
PROPERTIES
  NeverShut
