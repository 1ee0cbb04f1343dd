CONSTANTS
  StartSettings <- TwoZones
  WebSettings <- TwoZones
  StartPins = {2}
  WebPins = {}
  WebFlags = {TRUE, FALSE}
  MaxValue = 2
  CurveStep = 1
  MaxVelocity = 1
  ClockSize = 8
  CounterSize = 8
  MaxLoopUs = 2
  MaxAge = 4
SPECIFICATION Spec
VIEW View
PROPERTIES
  MessagesComeFromScans
  NoDoubleTrigger
  EveryPeakIsPlayed
  NoPhantomChoke
