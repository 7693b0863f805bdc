\* Three attempts, two of them fast: both cadences and the verdict are
\* reached, and a run can be shorter or longer than the healthy time.  The
\* window: two outputs, a preset of the user's beside two built-in ones,
\* requests of two flags.
CONSTANTS
  Delay = 2
  SlowDelay = 3
  FastAttempts = 2
  MaxAttempts = 3
  HealthyPolls = 2
  MaxEvents = 2
  FlakyStart = FALSE
  Output = {speakers, headset}
  NoOutput = NoOutput
  Builtin = {standard, movie}
  First = standard
  Own = {mine}
  Amounts = {0, 1}
  HomeOf <- PresetAmounts
  LoudestVolume = 1
  Balances <- SomeBalances
  CentreDetent = 2
  MaxFlags = 2
  MaxSaves = 2
  ServesUnsaved = FALSE
  RefusesAgain = FALSE
SPECIFICATION MCFairSpec
INVARIANTS StopIsFinal ShownIsHeard RequestIsHonoured
PROPERTIES RecoveryConcludes ReturnMeansSound ImplementsPhases SwitchRestores
