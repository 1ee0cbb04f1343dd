CONSTANTS
  MaxValue = 7
  BalanceThreshold = 3
  InitialOffset = 3
  WordSize = 16
SPECIFICATION FairSpec
INVARIANTS
  TypeOK
PROPERTIES
  CalibratedReadingsSpanTheRange
  OffsetSettles
