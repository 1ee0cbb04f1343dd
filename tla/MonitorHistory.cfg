CONSTANTS
  HistoryCount = 6
  CounterSize = 4
SPECIFICATION Spec
INVARIANTS
  TypeOK
  NoSampleStandsAlone
  TriggerIsInOrder
PROPERTIES
  ImplementsWindow
