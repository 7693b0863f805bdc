\* Two publications are enough: the second lands in the fetch of the first.
CONSTANTS
  MaxGain = 1
  Tolerance = 1
  MaxPublish = 2
SPECIFICATION Spec
INVARIANT LatestIsInForce
