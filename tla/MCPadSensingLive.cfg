CONSTANTS
  StartSettings <- AllPads
  WebSettings <- NoSettings
  StartPins = {1, 3}
  WebPins = {}
  WebFlags = {}
  MaxValue = 2
  CurveStep = 1
  MaxVelocity = 1
  ClockSize = 7
  CounterSize = 8
  MaxLoopUs = 1
  MaxAge = 3
SPECIFICATION PlaySpec
PROPERTIES
  AHeldCymbalIsChoked
  NoPadGoesDeaf
