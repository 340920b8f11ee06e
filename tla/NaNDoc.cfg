SPECIFICATION Spec
CONSTANTS
  a = a
  b = b
  c = c
  tech = tech
  Ungrouped = Ungrouped
  NoOffer = NoOffer
  NotANumber = NotANumber
  Infinite = Infinite
  Wording = Wording
  Absent = Absent
  MinConfidence = 50
  MinSetupQuality = 0
  DeltaMin = 55
  DeltaMax = 75
  MaxSpread = 8
  CloseBeforeExpiry = 7
  DteMin = 30
  DteMax = 45
  MaxRichness = 115
  MaxDecay = 150
  Aggression = 60
  Symbols <- MCSymbols
  Group <- MCGroup
  MaxPositions = 2
  MaxPerGroup = 1
  MaxSameDirection = 1
  RiskPerTrade = 70
  MaxContracts = 2
  Watchlist <- MCWatchlist
  Replies <- MCRepliesWithNaN
  Answers <- MCAnswers
  Prices = {1, 2}
  StartCash = 6
  MaxEquity = 8
INVARIANTS
  OnlyStatedViewsTrade
