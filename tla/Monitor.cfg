CONSTANTS
  HistoryCount = 3
  ClockSize = 7
  MaxLoopMs = 1
  DrumWaitMs = 2
  PedalWaitMs = 1
  LatencyWaitMs = 1
SPECIFICATION FairSpec
PROPERTIES
  EachMessageShowsOneHit
  EveryHitIsShown
  RecordingGoesOn
