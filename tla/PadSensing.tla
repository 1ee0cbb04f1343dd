----------------------------- MODULE PadSensing -----------------------------
(***************************************************************************)
(* One drum or cymbal pad: from its sensor samples to hits and chokes      *)
(* (sensing/sensing.cpp, sensing/sensing_piezo_switch.cpp), to the message *)
(* DrumKit sends for them (drum_kit.cpp), under the settings in drum_pad.h *)
(* that web commands may change between two iterations of the main loop.   *)
(*                                                                         *)
(* A first sample at its threshold starts a scan for the highest peak; the *)
(* end of the scan reports a hit of one zone or a choke; then the pad is   *)
(* deaf for the mask time and needs a higher sample for the decay time.    *)
(*                                                                         *)
(* The clock is micros(), a counter of fixed width that wraps around.      *)
(* Times in ms are given in its unit.                                      *)
(***************************************************************************)
EXTENDS Scaling

CONSTANTS
  StartSettings,   (* the settings a configuration file may hold            *)
  WebSettings,     (* the settings that the web page may send               *)
  StartPins,       (* the pins of the connector of a configuration file     *)
  WebPins,         (* those of the connectors that the web page may select  *)
  WebFlags,        (* what it may send for the touch sensor and "enabled"   *)
  ClockSize,       (* micros() counts modulo this number, 2^32 in the code  *)
  CounterSize,     (* switches are counted modulo this number, 2^16         *)
  MaxLoopUs,       (* the longest iteration of the main loop                *)
  MaxAge           (* bound of the history variable sinceReport             *)

Zones == 0..2
Clock == 0..(ClockSize - 1)

PiezoTypes == {"Zones1_Piezo", "Zones2_Piezos", "Zones3_Piezos"}
SwitchTypes == {"Zones2_PiezoAndSwitch", "Zones3_PiezoAndSwitches_1TRS",
                "Zones3_PiezoAndSwitches_2TRS"}

DrumSettings ==
  [padType : {"Drum", "Cymbal"},
   zonesType : PiezoTypes \cup SwitchTypes,
   chokeType : {"None", "Switch_Edge", "Switch_Cup", "TouchSensor"},
   zoneThresholdsMin : [Zones -> Values],
   zoneThresholdsMax : [Zones -> Values],
   scanTime : Nat, maskTime : Nat, decayTime : Nat,
   headRimBias : -100..100]

(* The page offers no threshold of 0, and every time is far below the      *)
(* range of the clock.                                                     *)
ASSUME PadSensingAssumption ==
  /\ ClockSize \in Nat \ {0}
  /\ CounterSize \in Nat \ {0, 1}
  /\ MaxLoopUs \in Nat \ {0}
  /\ MaxAge \in Nat
  /\ StartPins \cup WebPins \subseteq 0..3
  /\ WebFlags \subseteq BOOLEAN
  /\ StartSettings \cup WebSettings \subseteq DrumSettings
  /\ \A s \in StartSettings \cup WebSettings :
       /\ \A zone \in Zones : s.zoneThresholdsMin[zone] > 0
       /\ s.scanTime + s.maskTime + s.decayTime + MaxLoopUs < ClockSize

VARIABLES
  now,             (* micros()                                              *)
  settings,        (* DrumPad::settings                                     *)
  pinCount,        (* the pins of DrumPad::connector, 0 without a connector *)
  touchSensor,     (* whether a touch sensor is assigned                    *)
  enabled,         (* DrumPad::enabled                                      *)
  sensingState,
  hitTimeUs,       (* when the scan began                                   *)
  scanTimeEndUs,   (* when the last scan ended                              *)
  maxZoneValues,   (* the peaks of the scan, or how often a switch was on   *)
  hits,
  hitVelocities,
  isChoked,
  lastEventType,
  sent,            (* what DrumKit sends in this iteration of the main loop *)
  scanned,         (* what the scan has seen so far (history)               *)
  sinceReport      (* time since the last hit or choke (history), counted   *)
                   (* up to MaxAge and not across a change of the settings  *)

config == <<settings, pinCount, touchSensor, enabled>>
scan == <<sensingState, hitTimeUs, scanTimeEndUs, maxZoneValues, lastEventType>>
result == <<hits, hitVelocities, isChoked>>
history == <<scanned, sinceReport>>
vars == <<now, config, scan, result, sent, history>>

NoMessage == [type |-> "none", zone |-> 0, velocity |-> 0]

-----------------------------------------------------------------------------
(* DrumPad: which zones are wired.                                         *)

ZoneCount ==
  CASE settings.zonesType \in {"Zones2_Piezos", "Zones2_PiezoAndSwitch"} -> 2
    [] settings.zonesType = "Zones1_Piezo" -> 1
    [] OTHER -> 3

(* Two of the three zones of such a cymbal share a pin. *)
SharesPin == settings.zonesType = "Zones3_PiezoAndSwitches_1TRS"

ActivePinCount == Smaller(pinCount, IF SharesPin THEN 2 ELSE ZoneCount)
ActiveZoneCount == IF SharesPin /\ ActivePinCount = 2 THEN 3 ELSE ActivePinCount
ActiveZones == 0..(ActiveZoneCount - 1)

IsConnectorActive == pinCount > 0

(* A plausible slip: a signed difference, negative after the wrap-around. *)
ElapsedSigned(timeUs, since) == IF timeUs >= since THEN timeUs - since ELSE 0

(* unsigned difference of two micros() values *)
ElapsedUs(timeUs, since) == (timeUs + ClockSize - since) % ClockSize

-----------------------------------------------------------------------------
(* Sensing.                                                                *)

IsPiezoPad == settings.zonesType \in PiezoTypes

(* A sample of the shared pin belongs to the cup if it reaches its level.  *)
ReadInputValues(raw) ==
  IF SharesPin /\ ActivePinCount = 2
  THEN LET sensorIndex == IF raw[1] >= settings.zoneThresholdsMin[2] THEN 2 ELSE 1
       IN [zone \in Zones |-> CASE zone = 0 -> raw[0]
                                [] zone = sensorIndex -> raw[1]
                                [] OTHER -> 0]
  ELSE [zone \in Zones |-> IF zone < ActivePinCount THEN raw[zone] ELSE 0]

IsAtThreshold(values, zone) == values[zone] >= settings.zoneThresholdsMin[zone]

IsGrabbed(values, touched) ==
  /\ settings.padType = "Cymbal"
  /\ CASE settings.chokeType = "None" -> FALSE
       [] settings.chokeType = "TouchSensor" -> touchSensor /\ touched
       [] settings.chokeType = "Switch_Edge" ->
            1 \in ActiveZones /\ IsAtThreshold(values, 1)
       [] settings.chokeType = "Switch_Cup" ->
            2 \in ActiveZones /\ IsAtThreshold(values, 2)

(* Every zone of a piezo pad can start a scan, and the main piezo only if  *)
(* the others are switches.                                                *)
PeakZones == IF IsPiezoPad THEN ActiveZones ELSE {0}

IsPeak(values, thresholds) ==
  \E zone \in PeakZones : values[zone] >= thresholds[zone]

(* A plausible slip: a sample at its threshold is not taken for a peak. *)
UpdateMaxAboveThreshold(maxima, values) ==
  [zone \in Zones |->
     IF zone \notin ActiveZones
          \/ values[zone] <= settings.zoneThresholdsMin[zone]
     THEN maxima[zone]
     ELSE IF zone \in PeakZones
          THEN IF values[zone] > maxima[zone] THEN values[zone] ELSE maxima[zone]
          ELSE (maxima[zone] + 1) % CounterSize]

(* The highest sample of a piezo, the number of samples of a switch. *)
UpdateMaxSensorValue(maxima, values) ==
  [zone \in Zones |->
     IF zone \notin ActiveZones \/ ~IsAtThreshold(values, zone)
     THEN maxima[zone]
     ELSE IF zone \in PeakZones
          THEN IF values[zone] > maxima[zone] THEN values[zone] ELSE maxima[zone]
          ELSE (maxima[zone] + 1) % CounterSize]

(* The threshold sinks from the last peak to the configured one, or stays. *)
DecayedThresholds(elapsedUs) ==
  [zone \in Zones |->
     LET maxValue == maxZoneValues[zone]
         thresholdMin == settings.zoneThresholdsMin[zone]
     IN IF maxValue > thresholdMin
        THEN (maxValue * settings.decayTime - (maxValue - thresholdMin) * elapsedUs)
               \div settings.decayTime
        ELSE thresholdMin]

-----------------------------------------------------------------------------
(* The zone of a hit.                                                      *)

ScaledValues(maxima) ==
  [zone \in Zones |-> Scale(maxima[zone], settings.zoneThresholdsMin[zone],
                            settings.zoneThresholdsMax[zone])]

(* The preferred zone unless another one is strictly higher. *)
FindMaxValueIndex(values, zones, preferredZone) ==
  LET Highest(zone) == \A other \in zones : values[other] <= values[zone]
  IN IF Highest(preferredZone) THEN preferredZone
     ELSE CHOOSE zone \in zones :
            Highest(zone) /\ \A lower \in zones : lower < zone => ~Highest(lower)

Boost(value, bias) == value + (value * 5 * bias) \div 100

(* of a piezo pad *)
DetermineHitZone(maxima) ==
  LET preferredZone == IF settings.headRimBias < 0 THEN 0 ELSE 1
      bias == IF settings.headRimBias < 0 THEN -settings.headRimBias
                                          ELSE settings.headRimBias
      evaluated == [ScaledValues(maxima) EXCEPT ![preferredZone] = Boost(@, bias)]
  IN IF ActiveZoneCount <= 1 THEN 0
     ELSE FindMaxValueIndex(evaluated, ActiveZones, preferredZone)

(* of a pad with switches: the one that was on most often *)
DetermineSwitchZone(maxima) ==
  LET switches == ActiveZones \ {0}
      zone == FindMaxValueIndex(maxima, switches, 1)
  IN IF switches # {} /\ maxima[zone] > 0 THEN zone ELSE 0

-----------------------------------------------------------------------------
(* The steps of the state machine at the time senseTimeUs.  resetHitInfo() *)
(* clears the zones that are wired, the others keep what they have.        *)

KeepUnwired(values, default) ==
  [zone \in Zones |-> IF zone \in ActiveZones THEN default ELSE values[zone]]

(* A plausible slip: the hits of the last iteration are not cleared. *)
NothingCleared == UNCHANGED <<hits, hitVelocities>> /\ isChoked' = FALSE

NothingFound ==
  /\ hits' = KeepUnwired(hits, FALSE)
  /\ hitVelocities' = KeepUnwired(hitVelocities, 0)
  /\ isChoked' = FALSE

DetectPeak(senseTimeUs, values, touched, thresholds) ==
  /\ NothingFound
  /\ UNCHANGED <<scanTimeEndUs, lastEventType>>
  /\ IF IsPeak(values, thresholds) \/ IsGrabbed(values, touched)
     THEN /\ sensingState' = "Scan"
          /\ hitTimeUs' = senseTimeUs
          /\ maxZoneValues' =
               UpdateMaxSensorValue(KeepUnwired(maxZoneValues, 0), values)
     ELSE UNCHANGED <<sensingState, hitTimeUs, maxZoneValues>>

SensePeakDetect(senseTimeUs, values, touched) ==
  /\ sensingState = "PeakDetect"
  /\ DetectPeak(senseTimeUs, values, touched, settings.zoneThresholdsMin)

ScanContinues(senseTimeUs, values) ==
  /\ sensingState = "Scan"
  /\ ElapsedUs(senseTimeUs, hitTimeUs) < settings.scanTime
  /\ maxZoneValues' = UpdateMaxSensorValue(maxZoneValues, values)
  /\ NothingFound
  /\ UNCHANGED <<sensingState, hitTimeUs, scanTimeEndUs, lastEventType>>

(* A choke is not reported twice, so that a hit can be detected meanwhile. *)
HandleChoked ==
  /\ hits' = KeepUnwired(hits, FALSE)
  /\ isChoked' = (lastEventType # "Choked")
  /\ sensingState' = IF lastEventType = "Choked" THEN "PeakDetect" ELSE "Mask"
  /\ lastEventType' = "Choked"

(* A plausible slip: the pad still counts as choked. *)
HandleHitStillChoked(zone) ==
  /\ hits' = [KeepUnwired(hits, FALSE) EXCEPT ![zone] = TRUE]
  /\ isChoked' = FALSE
  /\ sensingState' = "Mask"
  /\ UNCHANGED lastEventType

HandleHit(zone) ==
  /\ hits' = [KeepUnwired(hits, FALSE) EXCEPT ![zone] = TRUE]
  /\ isChoked' = FALSE
  /\ sensingState' = "Mask"
  /\ lastEventType' = "Hit"

ScanEnds(senseTimeUs, values) ==
  /\ sensingState = "Scan"
  /\ ElapsedUs(senseTimeUs, hitTimeUs) >= settings.scanTime
  /\ scanTimeEndUs' = senseTimeUs
  /\ UNCHANGED hitTimeUs
  /\ maxZoneValues' = UpdateMaxSensorValue(maxZoneValues, values)
  /\ LET maxima == maxZoneValues'
         zone == IF IsPiezoPad THEN DetermineHitZone(maxima)
                               ELSE DetermineSwitchZone(maxima)
         isHit == maxima[IF IsPiezoPad THEN zone ELSE 0] > 0
         scaled == ScaledValues(maxima)
     IN /\ hitVelocities' =
             IF IsPiezoPad
             THEN [z \in Zones |-> IF z \in ActiveZones THEN Curve(scaled[z])
                                                    ELSE hitVelocities[z]]
             ELSE [KeepUnwired(hitVelocities, 0)
                     EXCEPT ![zone] = IF isHit THEN Curve(scaled[0]) ELSE @]
        /\ IF isHit THEN HandleHit(zone) ELSE HandleChoked

(* A plausible slip: the mask time is counted from the peak on. *)
IsMaskActiveSincePeak(senseTimeUs) ==
  ElapsedUs(senseTimeUs, hitTimeUs) < settings.maskTime

IsMaskActive(senseTimeUs) ==
  ElapsedUs(senseTimeUs, scanTimeEndUs) < settings.maskTime

SenseMask(senseTimeUs) ==
  /\ sensingState = "Mask"
  /\ sensingState' = IF IsMaskActive(senseTimeUs) THEN "Mask"
                     ELSE IF settings.decayTime > 0 THEN "Decay" ELSE "PeakDetect"
  /\ NothingFound
  /\ UNCHANGED <<hitTimeUs, scanTimeEndUs, maxZoneValues, lastEventType>>

SenseDecay(senseTimeUs, values, touched) ==
  LET maskEndTimeUs == (scanTimeEndUs + settings.maskTime) % ClockSize
      elapsedUs == ElapsedUs(senseTimeUs, maskEndTimeUs)
  IN /\ sensingState = "Decay"
     /\ IF elapsedUs < settings.decayTime
        THEN DetectPeak(senseTimeUs, values, touched, DecayedThresholds(elapsedUs))
        ELSE /\ sensingState' = "PeakDetect"
             /\ NothingFound
             /\ UNCHANGED <<hitTimeUs, scanTimeEndUs, maxZoneValues, lastEventType>>

-----------------------------------------------------------------------------
(* The message of evaluateDrum() or evaluateCymbal(): the first zone that  *)
(* is hit, or else the choke of a cymbal.                                  *)
Message(hitZones, velocities, choked) ==
  IF \E zone \in Zones : hitZones[zone]
  THEN LET first == CHOOSE zone \in Zones :
                      hitZones[zone] /\ \A z \in Zones : z < zone => ~hitZones[z]
       IN [type |-> "note", zone |-> first, velocity |-> velocities[first]]
  ELSE IF choked /\ settings.padType = "Cymbal"
       THEN [NoMessage EXCEPT !.type = "choke"] ELSE NoMessage

Age(us) == Smaller(sinceReport + us, MaxAge)

Passes(us) == now' = (now + us) % ClockSize

(* What a sample shows. *)
Seen(values, touched) ==
  {cause \in {"peak", "choke"} :
     IF cause = "peak" THEN IsPeak(values, settings.zoneThresholdsMin)
                       ELSE IsGrabbed(values, touched)}

Init ==
  /\ now = 0
  /\ settings \in StartSettings
  /\ pinCount \in StartPins
  /\ touchSensor = (settings.chokeType = "TouchSensor")
  /\ enabled = TRUE
  /\ sensingState = "PeakDetect"
  /\ hitTimeUs = 0
  /\ scanTimeEndUs = 0
  /\ maxZoneValues = [zone \in Zones |-> 0]
  /\ hits = [zone \in Zones |-> FALSE]
  /\ hitVelocities = [zone \in Zones |-> 0]
  /\ isChoked = FALSE
  /\ lastEventType = "None"
  /\ sent = NoMessage
  /\ scanned = {}
  /\ sinceReport = MaxAge

(* An iteration of the main loop in which the pad is evaluated. *)
Sense(us, raw, touched) ==
  LET values == ReadInputValues(raw)
      senseTimeUs == now'
  IN /\ enabled
     /\ Passes(us)
     /\ IF IsConnectorActive
        THEN /\ \/ SensePeakDetect(senseTimeUs, values, touched)
                \/ ScanContinues(senseTimeUs, values)
                \/ ScanEnds(senseTimeUs, values)
                \/ SenseMask(senseTimeUs)
                \/ SenseDecay(senseTimeUs, values, touched)
             /\ scanned' = Seen(values, touched)
                             \cup (IF sensingState = "Scan" THEN scanned ELSE {})
        ELSE UNCHANGED <<scan, result, scanned>>
     /\ sent' = Message(hits', hitVelocities', isChoked')
     /\ sinceReport' = IF sent'.type = "none" THEN Age(us) ELSE 0
     /\ UNCHANGED config

(* An iteration without this pad: it is disabled, or a latency test of     *)
(* another pad is active.                                                  *)
Pass(us) ==
  /\ Passes(us)
  /\ sent' = NoMessage
  /\ sinceReport' = Age(us)
  /\ UNCHANGED <<config, scan, result, scanned>>

(* An iteration in which a latency test listens to this pad (the web page  *)
(* may start and stop a test between any two iterations).                  *)
LatencySense(us, isHit) ==
  /\ IsConnectorActive
  /\ Passes(us)
  /\ hits' = [KeepUnwired(hits, FALSE) EXCEPT ![0] = isHit]
  /\ hitVelocities' = KeepUnwired(hitVelocities, 0)
  /\ isChoked' = FALSE
  /\ hitTimeUs' = IF isHit THEN now' ELSE hitTimeUs
  /\ sent' = NoMessage
  /\ sinceReport' = Age(us)
  /\ UNCHANGED <<config, sensingState, scanTimeEndUs, maxZoneValues,
                 lastEventType, scanned>>

-----------------------------------------------------------------------------
(* Web commands, handled between two iterations.                           *)

SettingsChanged ==
  /\ sent' = NoMessage
  /\ scanned' = scanned \cup {"change"}
  /\ sinceReport' = MaxAge
  /\ UNCHANGED <<now, scan, result>>

(* reinitializeSettings() drops a touch sensor that is not needed *)
ApplyPadSettings(newSettings) ==
  /\ settings' = newSettings
  /\ touchSensor' = (touchSensor /\ newSettings.chokeType = "TouchSensor")
  /\ SettingsChanged
  /\ UNCHANGED <<pinCount, enabled>>

SetConnector(pins) ==
  /\ pinCount' = pins
  /\ SettingsChanged
  /\ UNCHANGED <<settings, touchSensor, enabled>>

SetTouchSensor(assigned) ==
  /\ touchSensor' = assigned
  /\ SettingsChanged
  /\ UNCHANGED <<settings, pinCount, enabled>>

SetEnabled(isEnabled) ==
  /\ enabled' = isEnabled
  /\ SettingsChanged
  /\ UNCHANGED <<settings, pinCount, touchSensor>>

-----------------------------------------------------------------------------
Readings == [0..(ActivePinCount - 1) -> Values]

Touches == IF touchSensor THEN BOOLEAN ELSE {FALSE}

Evaluation ==
  \E us \in 1..MaxLoopUs, raw \in Readings, touched \in Touches :
    Sense(us, raw, touched)

Next ==
  \/ Evaluation
  \/ \E us \in 1..MaxLoopUs : Pass(us)
  \/ \E us \in 1..MaxLoopUs, isHit \in BOOLEAN : LatencySense(us, isHit)
  \/ \E newSettings \in WebSettings : ApplyPadSettings(newSettings)
  \/ \E pins \in WebPins : SetConnector(pins)
  \/ \E flag \in WebFlags : SetTouchSensor(flag) \/ SetEnabled(flag)

Spec == Init /\ [][Next]_vars

(* While nobody uses the web page, the main loop evaluates the pads again  *)
(* and again.                                                              *)
PlaySpec == Init /\ [][Evaluation]_vars /\ WF_vars(Evaluation)
-----------------------------------------------------------------------------
(* Properties.                                                             *)

Messages == [type : {"none", "note", "choke"}, zone : Zones, velocity : Velocities]

(* Every variable has its type.                                            *)
TypeOK ==
  /\ now \in Clock
  /\ settings \in StartSettings \cup WebSettings
  /\ pinCount \in 0..3
  /\ touchSensor \in BOOLEAN
  /\ enabled \in BOOLEAN
  /\ sensingState \in {"PeakDetect", "Scan", "Mask", "Decay"}
  /\ hitTimeUs \in Clock
  /\ scanTimeEndUs \in Clock
  /\ \A zone \in Zones : maxZoneValues[zone] \in Values \cup 0..(CounterSize - 1)
  /\ DOMAIN maxZoneValues = Zones
  /\ hits \in [Zones -> BOOLEAN]
  /\ hitVelocities \in [Zones -> Velocities]
  /\ isChoked \in BOOLEAN
  /\ lastEventType \in {"None", "Hit", "Choked"}
  /\ sent \in Messages
  /\ scanned \subseteq {"peak", "choke", "change"}
  /\ sinceReport \in 0..MaxAge

IsIteration == now' # now

(* Nothing is reported twice: a note or a choke is sent only in the        *)
(* iteration that ends a scan.  Flags left from an earlier iteration (the  *)
(* pad was disabled, or a latency test used it) never lead to a message.   *)
MessagesComeFromScans ==
  [][IsIteration /\ sent'.type # "none" =>
       sensingState = "Scan" /\ sensingState' = "Mask"]_vars

(* The mask time protects against double triggers: with unchanged settings *)
(* two messages of a pad are a scan and a mask time apart, across the      *)
(* wrap-around of micros(), however long the pad was disabled, and         *)
(* although the mask starts at the end of the scan.                        *)
NoDoubleTrigger ==
  [][IsIteration /\ sent'.type # "none" =>
       Age(ElapsedUs(now', now)) >=
         Smaller(settings.scanTime + settings.maskTime, MaxAge)]_vars

ScanFinishes == IsIteration /\ sensingState = "Scan" /\ sensingState' # "Scan"

(* No hit is lost and none is silent: a scan that saw a sample at its      *)
(* threshold ends in a note, for a zone that was struck or switched on,    *)
(* and with a velocity above 0 (a NoteOn with velocity 0 is a NoteOff).    *)
(* This is so for every bias and whether or not the pad is grabbed, as     *)
(* long as the settings do not change within the scan.                     *)
EveryPeakIsPlayed ==
  [][ScanFinishes /\ "peak" \in scanned' /\ "change" \notin scanned' =>
       /\ sent'.type = "note"
       /\ sent'.velocity > 0
       /\ maxZoneValues'[sent'.zone] > 0]_vars

(* A choke is sent only for a pad that was grabbed and not struck during   *)
(* the scan: "we cannot be sure the cymbal is choked as a hit might still  *)
(* be detected" (sensing.cpp:151).                                         *)
NoPhantomChoke ==
  [][sent'.type = "choke" /\ "change" \notin scanned' =>
       "choke" \in scanned' /\ "peak" \notin scanned']_vars

(* "isHit() and isChoke() is only true for one sensing period, i.e. one    *)
(* main loop iteration" (monitor.cpp:74): what an iteration sends is never *)
(* a hit that the iteration before has already reported.                   *)
HitsLastOneIteration ==
  [][sent'.type = "note" /\ sensingState # "Scan" =>
       \A zone \in Zones :
         ~(hits[zone] /\ hitVelocities[zone] > 0 /\ hits'[zone])]_vars

(* A cymbal that is grabbed and held after a note is choked in the end,    *)
(* even if it is grabbed during the mask time: either the choke is sent or *)
(* the pad is let go or struck again and again.                            *)
AHeldCymbalIsChoked ==
  [](sent.type = "note" => \/ <>(sent.type = "choke")
                           \/ []<>(scanned # {"choke"}))

(* No pad goes deaf: it waits for the next peak again, or sends a note,    *)
(* infinitely often, whatever micros() does meanwhile.                     *)
NoPadGoesDeaf == []<>(sensingState = "PeakDetect" \/ sent.type = "note")
=============================================================================
