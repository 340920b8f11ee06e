SPECIFICATION Spec
CONSTANTS
  c1 = c1
  c2 = c2
  c3 = c3
  c4 = c4
  u1 = u1
  u2 = u2
  u3 = u3
  Contract = {c1, c2, c3, c4}
  Underlying = {u1, u2, u3}
  UnderlyingOf <- ThreeNames
  MaxPositions = 2
  CooldownDays = 1
  Modes = {FALSE}
  Verdicts = {"hold", "urgent"}
  Quotes = {"sane"}
  InTheMoney = {FALSE}
  MovesAt <- OutsideTheLook
  Mishaps = {"read", "clock", "reject", "cancel", "partial", "by_hand", "crash"}
  MaxMishaps = 1
  PassesPerDay = 0
  Legacy = {}
INVARIANTS
  SlotsRespected
  OnePerUnderlying
