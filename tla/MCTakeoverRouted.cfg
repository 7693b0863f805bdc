\* The controller reconnects by itself after a fault.
CONSTANTS
  Device = {cable, speakers, headset}
  NoDevice = NoDevice
  DiesInRepair = FALSE
  MaxWarnings = 1
SYMMETRY Symmetry
SPECIFICATION Spec
INVARIANT RunningIsRouted
