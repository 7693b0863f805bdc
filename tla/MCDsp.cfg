\* The parameters: gains of -1, 0 and 1 step, of which only a difference of
\* two is worth a rebuild, and three publications: one to be in force, one to
\* overlap a fetch of it, one to overlap that.  The resampler: one and a half
\* to two input frames per output frame, and blocks long enough against the
\* kernel to overfill the FIFO.  The limiter: as many different gains as fill
\* the queue of the longest window, and twice that window.
SPECIFICATION DspSpec
CONSTANTS
  MaxGain = 1
  Tolerance = 2
  MaxPublish = 3
  HalfTaps = 1
  Unit = 2
  Steps = {3, 4}
  SlowestStep = 4
  MaxPull = 16
  MaxLookahead = 3
  Peaks = {1, 2, 3, 4, 6}
  Settings <- LimiterSettings
  Unity = 12
  MaxSamples = 6
INVARIANTS
  PullsAreServed
PROPERTIES
  TakesWholeSet PublishedIsHeard PassthroughNeverRaises
  TargetIsMinimum BrickWall
CHECK_DEADLOCK FALSE
