SPECIFICATION Spec
VIEW View
CONSTANTS
  Consoles = {"c1", "c2"}
  Devices = {"d1", "d2"}
  RemoveTimeout = 2
  MaxScanItems = 2
  Board = {"UsbDevice", "UsbHost", "GuitarHeroDrumSPI", "RockbandDrum"}
  MidiDevices = {"m1", "m2"}
  Gamepads = {"g1"}
  DrumModes = {"RockbandDrum", "GamepadUsb"}
  Strikes <- RBStrikes
  GamepadReports <- RBGamepadReports
  HoldMs = 2
  MaxPollMs = 1
  DrumClock = 4
  SpiStrikes <- SPIStrikes
  WiiStrikes <- PLStrikes
  WiiGamepads <- PLGamepadReports
  WiiRequests <- PLRequests
  MaxWiiAnswers = 1
  WiiHoldMs = 1
  WiiClock = 4
  Buffers = 2
  Clients = {"c1", "c2"}
  Entries = 1
  MaxQueue = 2
  Pages = {"p1"}
  Configs = {"a", "b"}
  Changes <- WSRequests
  MaxSent = 1
  MaxQueued = 1
  HidDescriptors <- HGDescriptors
  HidReports <- HGReports
  StackDepth = 2
  UsageDepth = 2
  ItemPool = 5
  Pins = {"p1"}
  TouchValues = {1, 2, 5}
  Programs = 1
  MinSwitchTime = 1
  CalibrationTime = 1
  ClockSize = 7
  Files <- KFFiles
  AnalogPins = {26, 27, 28}
  DigitalPins = {2, 3, 4, 5, 20, 21}
  MaxMux = 3
  MaxConnectors = 2
INVARIANTS
  WiiLinkRecovers
  BleClientKeepsGoing
  BleMessagesAreUnderstood
  OneOutputIsUsed
  GamepadIsUnderstood
  NetworkServes
  PagesShowTheConfig
  MultiplexersAreKept
PROPERTIES
  RockbandTellsTheHits
  GuitarHeroTellsTheHits
  TouchesAreStable
CHECK_DEADLOCK FALSE
