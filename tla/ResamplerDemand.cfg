\* One input frame per output frame: the first block leaves frames behind
\* that the second one is charged for again.
CONSTANTS
  HalfTaps = 2
  Unit = 1
  Steps = {1}
  SlowestStep = 1
  MaxPull = 4
SPECIFICATION ResamplerSpec
INVARIANT AsksForWhatIsMissing
