\* The process may also die while it repairs what the last run left.
CONSTANTS
  Device = {cable, speakers, headset}
  NoDevice = NoDevice
  DiesInRepair = TRUE
  MaxWarnings = 1
SYMMETRY Symmetry
SPECIFICATION Spec
INVARIANT RecordOutlivesRun
