----------------------------- MODULE HiHatPedal -----------------------------
(***************************************************************************)
(* The pedal of a hi-hat: its position, its chick and the controller       *)
(* messages (sensing/controller.cpp, evaluateHiHat() in drum_kit.cpp).     *)
(*                                                                         *)
(* A pedal is sensed right before each hi-hat that uses it is evaluated,   *)
(* so several times within an iteration of the main loop if hi-hats share  *)
(* it.  What one sensing finds, a movement or a chick, is gone after the   *)
(* next one.  Closing the pedal fast enough plays a chick, the louder the  *)
(* faster.  micros() wraps around, and the times in ms are quotients of it *)
(* in words that wrap around elsewhere.                                    *)
(***************************************************************************)
EXTENDS Scaling

CONSTANTS
  PedalSettings,   (* the settings a pedal may have                         *)
  InputWordSize,   (* a sensor value is stored modulo this, 2^16            *)
  ByteSize,        (* a velocity and the noise tolerance are, 2^8           *)
  WordSize,        (* a time in ms is, 2^32                                 *)
  ClockSize,       (* micros() counts modulo this, 2^32                     *)
  UsPerMs,         (* 1000                                                  *)
  MaxHiHats,       (* the most hi-hats that share the pedal                 *)
  MaxLoopUs,       (* the longest iteration of the main loop                *)
  MaxAge           (* bound of the history variable sinceOpen               *)

ASSUME HiHatPedalAssumption ==
  /\ {InputWordSize, ByteSize, WordSize, ClockSize, UsPerMs} \subseteq Nat \ {0}
  /\ MaxHiHats \in Nat
  /\ MaxLoopUs \in Nat
  /\ MaxAge \in Nat
  /\ MaxVelocity < ByteSize
  /\ 2 * ((ClockSize - 1) \div UsPerMs) < WordSize
  /\ PedalSettings \subseteq
       [thresholdMin : Values, thresholdMax : Values, almostClosed : 1..100,
        closed : 1..100, moveDetectTolerance : Nat,
        chickDetectTimeoutMs : 1..(MaxVelocity - 1)]  (* the web UI offers 1..20 *)
  /\ \A s \in PedalSettings :
       /\ s.thresholdMin < s.thresholdMax
       /\ s.almostClosed < s.closed
       /\ s.chickDetectTimeoutMs * UsPerMs <= MaxAge   (* long enough to tell *)

VARIABLES
  settings,            (* DrumPad::settings of the pedal                    *)
  now,                 (* micros()                                          *)
  state,               (* DrumPad::hihat.state                              *)
  almostClosedTimeMs,  (* DrumPad::hihat.almostClosedTimeMs                 *)
  sensorValue,         (* DrumPad::sensorValues[0], without noise           *)
  pedalCC,             (* DrumPad::hihat.pedalCC                            *)
  isMoving,            (* DrumPad::hihat.isMoving                           *)
  chick,               (* DrumPad::hitVelocities[0]; a hit if it is not 0   *)
  hasConnector,        (* DrumPad::isConnectorActive()                      *)
  hiHats,              (* the enabled hi-hats that use the pedal            *)
  hiHat,               (* the hi-hat being evaluated, 0 between iterations  *)
  isSensed,            (* the pedal is sensed for it, but nothing sent      *)
  receivedCC           (* the receiver's view of the pedal                  *)

(* The history, which only the properties read.                            *)
VARIABLES
  reading,             (* the last sensor value                             *)
  unplayed,            (* the chick found but not played yet, or 0          *)
  sinceOpen,           (* us since the pedal was last open, up to MaxAge    *)
  wrapped              (* whether micros() wrapped around since             *)

pedal == <<state, almostClosedTimeMs, sensorValue, pedalCC, isMoving, chick,
           reading, unplayed>>
kit == <<settings, hasConnector, hiHats>>
turn == <<hiHat, isSensed>>
time == <<now, sinceOpen, wrapped>>
vars == <<pedal, kit, turn, receivedCC, time>>

Clock == 0..(ClockSize - 1)

(* Of the inverted readings of a pin with a voltage offset one lies below  *)
(* 0 and wraps around, see SensorInput.                                    *)
Readings == Values \cup {InputWordSize - 1}

-----------------------------------------------------------------------------
Distance(a, b) == IF a > b THEN a - b ELSE b - a

(* A plausible slip: the ends of the range are not let through. *)
ReduceNoiseEverywhere(newValue) ==
  IF Distance(newValue, sensorValue) >= settings.moveDetectTolerance % ByteSize
  THEN Smaller(newValue, MaxValue) ELSE sensorValue

(* Small movements are noise, except to the ends of the range. *)
ReduceNoise(newValue) ==
  IF \/ Distance(newValue, sensorValue) >= settings.moveDetectTolerance % ByteSize
     \/ newValue = 0
     \/ newValue >= MaxValue
  THEN Smaller(newValue, MaxValue)
  ELSE sensorValue

(* whether the pedal is down by so many percent of its range *)
IsDownBy(percent, value) ==
  (value - settings.thresholdMin) * 100
     >= percent * (settings.thresholdMax - settings.thresholdMin)

IsClosed(value) == IsDownBy(settings.closed, value)
IsOpen(value) == ~IsClosed(value) /\ ~IsDownBy(settings.almostClosed, value)

Ms(us) == us \div UsPerMs

(* the unsigned difference, then taken for a signed number *)
ClosingTimeMs(senseTimeMs, sinceMs) ==
  LET difference == (senseTimeMs + WordSize - sinceMs) % WordSize
  IN IF 2 * difference >= WordSize THEN difference - WordSize ELSE difference

Quotient(a, b) == IF a >= 0 THEN a \div b ELSE -((-a) \div b)

(* A plausible slip: the velocity rises with the closing time. *)
ChickVelocityOfSlowness(closingTimeMs) ==
  IF closingTimeMs > settings.chickDetectTimeoutMs THEN 0
  ELSE (closingTimeMs * MaxVelocity) \div settings.chickDetectTimeoutMs

(* map(closingTimeMs, timeout, 0, 1, MaxVelocity), 0 if that is negative:  *)
(* the quotient is rounded towards 0, and stored in a byte.                *)
ChickVelocity(closingTimeMs) ==
  LET velocity == Quotient((settings.chickDetectTimeoutMs - closingTimeMs)
                             * (MaxVelocity - 1), settings.chickDetectTimeoutMs) + 1
  IN IF velocity < 0 THEN 0 ELSE velocity % ByteSize

-----------------------------------------------------------------------------
Init ==
  /\ settings \in PedalSettings
  /\ now = 0
  /\ state = "Open"
  /\ almostClosedTimeMs = 0
  /\ sensorValue = 0
  /\ pedalCC = 0
  /\ isMoving = FALSE
  /\ chick = 0
  /\ hasConnector \in BOOLEAN
  /\ hiHats \in 0..MaxHiHats
  /\ hiHat = 0
  /\ isSensed = FALSE
  /\ receivedCC = 0
  /\ reading = 0
  /\ unplayed = 0
  /\ sinceOpen = 0
  /\ wrapped = FALSE

(* A pedal that leaves the open position is almost closed first, and from  *)
(* there closed, perhaps at once; any other move opens it.                 *)
NextState(value) ==
  IF IsClosed(value) THEN "Closed"
  ELSE IF IsOpen(value) \/ state = "Closed" THEN "Open" ELSE "AlmostClosed"

PositionAndChickSensing(senseTimeMs, value) ==
  LET leavesOpen == state = "Open" /\ ~IsOpen(value)
      closes == state # "Closed" /\ IsClosed(value)
  IN /\ state' = NextState(value)
     /\ almostClosedTimeMs' = IF leavesOpen THEN senseTimeMs ELSE almostClosedTimeMs
     /\ chick' = IF closes
                 THEN ChickVelocity(ClosingTimeMs(senseTimeMs, almostClosedTimeMs'))
                 ELSE 0

(* isMoving tells that this sensing changed the controller value.          *)
Sense(newReading) ==
  LET value == ReduceNoise(newReading)
  IN /\ sensorValue' = value
     /\ PositionAndChickSensing(Ms(now'), value)
     /\ pedalCC' = ScaleAndCurve(value, settings.thresholdMin, settings.thresholdMax)
     /\ isMoving' = (pedalCC' # pedalCC)
     /\ reading' = newReading
     /\ unplayed' = IF chick' # 0 THEN chick' ELSE unplayed

PassTime(us) ==
  /\ now' = (now + us) % ClockSize
  /\ IF state = "Open"
     THEN sinceOpen' = 0 /\ wrapped' = FALSE
     ELSE /\ sinceOpen' = Smaller(sinceOpen + us, MaxAge)
          /\ wrapped' = (wrapped \/ now + us >= ClockSize)

(* A plausible slip: the pedal is sensed for all hi-hats before the first  *)
(* one is evaluated.                                                       *)
IsTurnToSenseAll == hiHat < hiHats

IsTurnToSense == ~isSensed /\ hiHat < hiHats

(* The next hi-hat's turn.  All of an iteration have the same sense time;  *)
(* without a connector the pedal keeps what the last sensing found.        *)
SensePedal(us, newReading) ==
  /\ IsTurnToSense
  /\ hiHat # 0 => us = 0
  /\ PassTime(us)
  /\ IF hasConnector THEN Sense(newReading) ELSE UNCHANGED pedal
  /\ hiHat' = hiHat + 1
  /\ isSensed' = TRUE
  /\ UNCHANGED <<kit, receivedCC>>

(* The movement is reported and the chick is played, if it has a note. *)
EvaluateHiHat ==
  /\ isSensed
  /\ receivedCC' = IF isMoving THEN pedalCC ELSE receivedCC
  /\ unplayed' = IF chick # 0 THEN 0 ELSE unplayed
  /\ isSensed' = FALSE
  /\ hiHat' = IF hiHat < hiHats THEN hiHat ELSE 0
  /\ UNCHANGED <<state, almostClosedTimeMs, sensorValue, pedalCC, isMoving, chick,
                 reading, kit, time>>

IsBetweenIterations == hiHat = 0 /\ ~isSensed

(* An iteration in which no hi-hat is enabled, or during a latency test.   *)
UpdateOtherDrums(us) ==
  /\ IsBetweenIterations
  /\ PassTime(us)
  /\ UNCHANGED <<pedal, kit, turn, receivedCC>>

(* The commands of the web page come between two iterations. *)
ApplySettings(newSettings, connector, count) ==
  /\ IsBetweenIterations
  /\ settings' = newSettings
  /\ hasConnector' = connector
  /\ hiHats' = count
  /\ UNCHANGED <<pedal, turn, receivedCC, time>>

Sensing == \E us \in 0..MaxLoopUs, newReading \in Readings : SensePedal(us, newReading)

Next ==
  \/ Sensing
  \/ EvaluateHiHat
  \/ \E us \in 0..MaxLoopUs : UpdateOtherDrums(us)
  \/ \E newSettings \in PedalSettings, connector \in BOOLEAN, count \in 0..MaxHiHats :
       ApplySettings(newSettings, connector, count)

Spec == Init /\ [][Next]_vars

(* The main loop evaluates its hi-hats again and again. *)
FairSpec == Spec /\ WF_vars(Sensing) /\ WF_vars(EvaluateHiHat)

-----------------------------------------------------------------------------
(* Properties.                                                             *)

(* Every variable has its type; in particular the controller value never   *)
(* exceeds a MIDI value, whatever the thresholds and the curve make of it. *)
TypeOK ==
  /\ settings \in PedalSettings
  /\ now \in Clock
  /\ state \in {"Open", "AlmostClosed", "Closed"}
  /\ almostClosedTimeMs \in 0..Ms(ClockSize - 1)
  /\ sensorValue \in Values
  /\ pedalCC \in Velocities
  /\ isMoving \in BOOLEAN
  /\ chick \in 0..(ByteSize - 1)
  /\ hasConnector \in BOOLEAN
  /\ hiHats \in 0..MaxHiHats
  /\ hiHat \in 0..hiHats
  /\ isSensed \in BOOLEAN
  /\ receivedCC \in Velocities
  /\ reading \in Readings
  /\ unplayed \in 0..(ByteSize - 1)
  /\ sinceOpen \in 0..MaxAge
  /\ wrapped \in BOOLEAN

Closes == state # "Closed" /\ state' = "Closed"

(* The real duration of the closing may differ by a ms from the difference *)
(* of two times in ms.                                                     *)
IsFast == sinceOpen' + UsPerMs <= settings.chickDetectTimeoutMs * UsPerMs
IsSlow == sinceOpen' >= (settings.chickDetectTimeoutMs + 1) * UsPerMs

(* A chick is played if and only if the pedal closed within the time for a *)
(* chick, and then it is a MIDI velocity above 0, as long as micros() does *)
(* not wrap around while the pedal closes.                                 *)
ChicksTellTheClosingTime ==
  [][Closes /\ ~wrapped' =>
       /\ IsFast => chick' \in 1..MaxVelocity
       /\ IsSlow => chick' = 0]_vars

(* The receiver's pedal is where the firmware's pedal is, and each chick   *)
(* is played, although hi-hats share the pedal and each sensing forgets    *)
(* the movement and the chick before (controller.cpp:28, 81): they wait    *)
(* only for the hi-hat they were found for (drum_kit.cpp:120, 150, 165),   *)
(* and are unchanged then.                                                 *)
ReceiverKnowsThePedal ==
  /\ receivedCC # pedalCC => isSensed /\ isMoving
  /\ unplayed # 0 => isSensed /\ chick = unplayed

IsSensedAs(value) == reading = value /\ hasConnector /\ hiHats > 0

(* Noise reduction never keeps a pedal from its ends: if from some time on *)
(* it is pressed to the end (or released), the hi-hat is closed (or open)  *)
(* and the receiver knows, whatever the settings are and were.             *)
PedalReachesItsEnds ==
  /\ <>[]IsSensedAs(MaxValue) => <>[](state = "Closed" /\ receivedCC = MaxVelocity)
  /\ <>[]IsSensedAs(0) => <>[](state = "Open" /\ receivedCC = 0)
=============================================================================
