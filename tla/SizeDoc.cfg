SPECIFICATION Spec
CONSTANTS
  MaxContracts = 2
  MaxPrice = 4
  Aggression = 100
  MaxChase = 50
  RepriceAfter = 1
  MaxAge = 2
  Mishaps = {"part"}
  MaxMishaps = 1
  Overlapping = {}
  MaxTicks = 9
INVARIANTS
  SizeStaysApproved
