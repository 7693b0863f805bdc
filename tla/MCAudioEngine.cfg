\* A period of two frames, so that packets can be shorter than, as long as
\* and longer than a period, the smallest ring start() builds for it, and
\* requests longer than a period.
CONSTANTS
  Period = 2
  RingFrames = 12
  MaxPacket = 3
  MaxWanted = 3
  IdleWakes = 2
  MaxPriming = 1
SPECIFICATION FairSpec
INVARIANTS ResyncKeepsTarget WholePackets StopHasReason EndpointsOutliveThreads
PROPERTIES TopUpStopsAtTarget StopEndsThreads PrimingEnds StarvationEnds
