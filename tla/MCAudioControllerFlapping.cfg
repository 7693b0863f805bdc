\* A device that is there, starts, and fails again before it is healthy.
CONSTANTS
  Delay = 2
  SlowDelay = 3
  FastAttempts = 2
  MaxAttempts = 3
  HealthyPolls = 2
  MaxEvents = 2
  FlakyStart = FALSE
  Output = {speakers, headset}
  NoOutput = NoOutput
  Builtin = {standard, movie}
  First = standard
  Own = {mine}
  Amounts = {0, 1}
  HomeOf <- PresetAmounts
  LoudestVolume = 1
  Balances <- SomeBalances
  CentreDetent = 2
  MaxFlags = 1
  MaxSaves = 2
  ServesUnsaved = FALSE
  RefusesAgain = FALSE
SPECIFICATION MCFairSpec
PROPERTY FlappingConcludes
