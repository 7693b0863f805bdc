\* Three devices: the cable, the output and one more to change to or to
\* fall back on.
CONSTANTS
  Device = {cable, speakers, headset}
  NoDevice = NoDevice
  DiesInRepair = FALSE
  MaxWarnings = 1
SYMMETRY Symmetry
SPECIFICATION Spec
INVARIANTS HeldWithConsent HoldMovesAlong SwitchIsOnRecord NothingIsLeftBehind
