CONSTANTS
  StartSettings <- TwoZones
  WebSettings <- TwoZones
  StartPins = {2}
  WebPins = {0, 1}
  WebFlags = {}
  MaxValue = 2
  CurveStep = 1
  MaxVelocity = 1
  ClockSize = 8
  CounterSize = 8
  MaxLoopUs = 1
  MaxAge = 3
SPECIFICATION Spec
PROPERTY HitsLastOneIteration
