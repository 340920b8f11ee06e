SPECIFICATION Spec
CONSTANTS
  c1 = c1
  c2 = c2
  c3 = c3
  c4 = c4
  u1 = u1
  u2 = u2
  u3 = u3
  Contract = {c1, c2, c3}
  Underlying = {u1, u2}
  UnderlyingOf <- TwoNamesThreeContracts
  MaxPositions = 2
  CooldownDays = 1
  Modes = {TRUE, FALSE}
  Verdicts = {"hold", "patient", "urgent"}
  Quotes = {"sane", "broken", "none"}
  InTheMoney = {TRUE, FALSE}
  MovesAt <- OutsideTheLook
  Mishaps = {"clock", "reject", "cancel", "by_hand", "holiday"}
  MaxMishaps = 2
  PassesPerDay = 0
  Legacy = {}
INVARIANTS
  StillInv
  TypeOK
  HolidaysDoNotCount
  LevelsExist
PROPERTIES
  NothingOpensWhenForbidden
  NoBuyBeforeDepartureIsBooked
