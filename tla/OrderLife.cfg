SPECIFICATION FairSpec
CONSTANTS
  MaxContracts = 3
  MaxPrice = 4
  Aggression = 100
  MaxChase = 100
  RepriceAfter = 1
  MaxAge = 2
  Mishaps = {"read", "reject", "lost", "cancel", "crash", "part_sold", "overlap"}
  MaxMishaps = 1
  Overlapping = {hand}
  MaxTicks = 7
INVARIANTS
  IInv
  SizeStaysApproved
  ChaseIsATotal
  LifeIsBought
  PeakIsReal
PROPERTIES
  SlotsComeFree
