SPECIFICATION DriverSpec
CONSTANTS
  Ms = 2
  Rate = 3
  PerMs = 2
  Sizes = {6}
  Counts = {2}
  MaxLate = 3
  MaxLinear = 10
  DmaSize = 2
  Multiple = 2
  FrameCount = 2
  ItemCount = 4
  Workers = 2
  MaxMove = 2
  MaxSystemStreams = 2
  Streams = {1, 2, 3}
  Contents = {1, 2}
  MaxMixes = 2
  Devices = {d1, d2}
  Ulong = 1
  Description = 3
  Members = 2
  Stepping = 2
  JackSize = 3
  FormatSize = 5
  ListSize = 2
  MaxChannels = 1
  VolumeMin <- LowestVolume
  VolumeStep = 4
  RequestSizes <- SuppliedSizes
  Volumes <- AskedVolumes
INVARIANTS
  PositionsAgree PacketsArePlayed FramesAreSafe NoWorkAfterStop
  MiniportSound AdapterSound AnswersAreTrue
PROPERTIES
  StillWhilePaused StopReturns
CHECK_DEADLOCK FALSE
