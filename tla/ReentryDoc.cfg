SPECIFICATION Spec
CONSTANTS
  c1 = c1
  c2 = c2
  c3 = c3
  c4 = c4
  u1 = u1
  u2 = u2
  u3 = u3
  Contract = {c1}
  Underlying = {u1}
  UnderlyingOf <- OneName
  MaxPositions = 1
  CooldownDays = 1
  Modes = {FALSE}
  Verdicts = {"hold", "patient", "urgent"}
  Quotes = {"sane", "broken", "none"}
  InTheMoney = {TRUE, FALSE}
  MovesAt <- WhileSelling
  Mishaps = {}
  MaxMishaps = 0
  PassesPerDay = 0
  Legacy = {c1}
PROPERTIES
  NoBuyBeforeDepartureIsBooked
