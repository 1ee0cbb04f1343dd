CONSTANTS
  Notes = {snare, kick, ride}
  Modes = {usb, din}
  MaxPending = 2
  MaxGateMs = 2
  GateRequests = {0, 2, 3}
  ClockSize = 4
  MaxLoopMs = 1
SPECIFICATION Spec
SYMMETRY Symmetry
INVARIANTS
  TypeOK
  NotesAreUnique
  NoNoteHangs
  NoNoteIsOverdue
PROPERTIES
  NotesAreKeptForTheGateTime
  ImplementsGatedVoices
