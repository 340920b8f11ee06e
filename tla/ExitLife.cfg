SPECIFICATION Spec
CONSTANTS
  MinConfidence = 50
  MinSetupQuality = 0
  DeltaMin = 55
  DeltaMax = 75
  MaxSpread = 8
  CloseBeforeExpiry = 7
  DteMin = 5
  DteMax = 45
  MaxRichness = 115
  MaxDecay = 150
  Aggression = 60
  StopLoss = 25
  RewardToRisk = 2
  PremiumTarget = 50
  TrailingStop = 20
  TrailingArm = 10
  CloseOut = 7
  StopMultiple = 2
  FallbackStop = 3
  ExitAggression = 100
  Chain <- MCChain
  Strikes = {84, 116}
  Marks <- MCMarks
  Spots <- MCSpots
  Closes = {96, 100}
  Half = 1
  Missing = Missing
  Days = {7, 8}
  Bands = {0, 2}
  Answers <- MCAnswers
INVARIANTS
  IInv
  WhatIsKeptHasNotFallen
  NeverSoldBelowExercise
  NewPositionsAreKept
  WorsePricesSellToo
