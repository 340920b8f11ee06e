SPECIFICATION FairSpec
CONSTANTS
  c1 = c1
  c2 = c2
  c3 = c3
  c4 = c4
  u1 = u1
  u2 = u2
  u3 = u3
  Contract = {c1}
  Underlying = {u1}
  UnderlyingOf <- OneName
  MaxPositions = 1
  CooldownDays = 2
  Modes = {FALSE}
  Verdicts = {"patient"}
  Quotes = {"sane", "broken", "none"}
  InTheMoney = {TRUE, FALSE}
  MovesAt <- Anywhere
  Mishaps = {"read", "clock", "reject", "lost", "cancel", "partial", "by_hand", "crash"}
  MaxMishaps = 2
  PassesPerDay = 2
  Legacy = {c1}
INVARIANTS
  IInv
PROPERTIES
  BookedSalesHaveLeft
  TradesAreAccountedFor
  SalesGetBooked
  StaleRowsGo
  DueExitsGetOut
  CooldownsEnd
