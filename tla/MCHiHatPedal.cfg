CONSTANTS
  MaxValue = 5
  CurveStep = 1
  MaxVelocity = 4
  PedalSettings <- Pedals
  InputWordSize = 16
  ByteSize = 16
  WordSize = 64
  ClockSize = 12
  UsPerMs = 2
  MaxHiHats = 2
  MaxLoopUs = 1
  MaxAge = 8
SPECIFICATION FairSpec
INVARIANTS
  ReceiverKnowsThePedal
PROPERTIES
  ChicksTellTheClosingTime
  PedalReachesItsEnds
