CONSTANTS
  Notes = {snare, kick}
  Modes = {usb, din}
  MaxPending = 2
  MaxGateMs = 2
  GateRequests = {0, 3}
  ClockSize = 4
  MaxLoopMs = 1
SPECIFICATION FairSpec
PROPERTIES
  EveryNoteIsReleased
