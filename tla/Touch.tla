-------------------------------- MODULE Touch --------------------------------
(***************************************************************************)
(* The touch sensors of the RP2040 (rp2040/touch.cpp): a state machine of  *)
(* the PIO counts how fast a pin is charged; touched, it is slower.  A     *)
(* sensor is calibrated when it is assigned, and switches when its values  *)
(* have been beyond a threshold for some time.                             *)
(*                                                                         *)
(* Sensors are assigned by the configuration and the web page              *)
(* (DrumPad::setTouchSensor) and read by the sensing of a cymbal.  One     *)
(* clock counts for micros() and millis().                                 *)
(***************************************************************************)
EXTENDS Integers

CONSTANTS
  Pins,
  Values,           (* of a pin, after oversampling                         *)
  Programs,         (* how often the program fits into the PIO, once        *)
  MinSwitchTime,    (* MIN_SWITCH_TIME_US                                   *)
  CalibrationTime,  (* CALIBRATION_DURATION_MS                              *)
  ClockSize         (* of micros() and of the values, 2^32                  *)

TouchAssumption ==
  /\ Values \subseteq 0..ClockSize - 2
  /\ {Programs, MinSwitchTime, CalibrationTime, ClockSize} \subseteq Nat \ {0}
  /\ CalibrationTime + 1 < ClockSize

Undefined == ClockSize - 1

VARIABLES
  now,       (* micros()                                                    *)
  loaded,    (* how often the program was loaded                            *)
  sampling,  (* the pins the state machine may sample: none if the program  *)
             (* was not loaded                                              *)
  sensors,   (* pin -> <<its sensor>>                                       *)
  beyond     (* pin -> for how long, since its values are beyond the        *)
             (* threshold at each reading; -1: they are not, or the sensor  *)
             (* has just switched (history)                                 *)

vars == <<now, loaded, sampling, sensors, beyond>>

Since(t) == (now - t) % ClockSize

-----------------------------------------------------------------------------
(* startCalibration(); age is the time since then. *)
NewSensor ==
  [needsCalibration |-> TRUE, age |-> 0, min |-> Undefined, max |-> 0,
   on |-> Undefined, off |-> 0, isOn |-> FALSE, start |-> 0]

(* addSensor(): nothing ever takes a program out again.  If there is no    *)
(* room, the state machine runs what it finds at an address there is not.  *)
AddSensor(p) ==
  /\ loaded' = IF loaded < Programs THEN loaded + 1 ELSE loaded
  /\ sampling' = IF loaded < Programs THEN {p} ELSE {}
  /\ sensors' = [sensors EXCEPT ![p] = <<NewSensor>>]
  /\ beyond' = [beyond EXCEPT ![p] = -1]
  /\ UNCHANGED now

(* updateCalibration().  A first value that stays the least one leaves the *)
(* greatest at 0 until a greater comes.                                    *)
Calibrated(s, value) ==
  LET min == IF value < s.min THEN value ELSE s.min
      max == IF value >= s.min /\ value > s.max THEN value ELSE s.max
      average == ((min + max) % ClockSize) \div 2
      deviation == ((max - min) % ClockSize) \div 2
      t == [s EXCEPT !.min = min, !.max = max]
  IN IF ~s.needsCalibration THEN s
     ELSE IF s.age <= CalibrationTime THEN t
     ELSE [t EXCEPT !.needsCalibration = FALSE,
                    !.on = average + (3 * deviation) \div 2,
                    !.off = average + (11 * deviation) \div 10]

IsBeyond(s, value) == IF s.isOn THEN value < s.off ELSE value > s.on

(* A plausible slip: a value that is not beyond the threshold does not     *)
(* start the time anew.                                                    *)
SwitchedKeepingTheTime(s, value) ==
  IF ~IsBeyond(s, value) THEN s
  ELSE IF s.start = 0 THEN [s EXCEPT !.start = now]
  ELSE IF Since(s.start) > MinSwitchTime
  THEN [s EXCEPT !.isOn = ~@, !.start = 0]
  ELSE s

(* checkStateSwitched(), and its caller; the time 0 is none. *)
Switched(s, value) ==
  IF ~IsBeyond(s, value) THEN [s EXCEPT !.start = 0]
  ELSE IF s.start = 0 THEN [s EXCEPT !.start = now]
  ELSE IF Since(s.start) > MinSwitchTime
  THEN [s EXCEPT !.isOn = ~@, !.start = 0]
  ELSE s

(* readSensor() of a pin gets what the state machine sampled, if it did,   *)
(* of whatever pin.                                                        *)
ReadSensor(p) ==
  /\ sensors[p] # <<>> /\ sampling # {}
  /\ \E value \in Values :
       LET s == Calibrated(sensors[p][1], value)
           t == Switched(s, value)
       IN  /\ sensors' = [sensors EXCEPT ![p] = <<t>>]
           /\ beyond' = [beyond EXCEPT ![p] =
                           IF ~IsBeyond(s, value) \/ t.isOn # s.isOn THEN -1
                           ELSE IF @ = -1 THEN 0 ELSE @]
  /\ UNCHANGED <<now, loaded, sampling>>

(* Sensors are read often enough for the clock. *)
Tick ==
  /\ \A p \in Pins : beyond[p] < ClockSize - 1
  /\ now' = (now + 1) % ClockSize
  /\ sensors' = [p \in Pins |-> [i \in DOMAIN sensors[p] |->
       [sensors[p][i] EXCEPT !.age = IF @ > CalibrationTime THEN @ ELSE @ + 1]]]
  /\ beyond' = [p \in Pins |-> IF beyond[p] = -1 THEN -1 ELSE beyond[p] + 1]
  /\ UNCHANGED <<loaded, sampling>>

Init ==
  /\ now \in 0..ClockSize - 1 /\ loaded = 0 /\ sampling = {}
  /\ sensors = [p \in Pins |-> <<>>] /\ beyond = [p \in Pins |-> -1]

Next ==
  \/ Tick
  \/ \E p \in Pins : AddSensor(p) \/ ReadSensor(p)

Spec == Init /\ [][Next]_vars

-----------------------------------------------------------------------------
(* A sensor switches only if every value it read for more than             *)
(* MIN_SWITCH_TIME_US was beyond the threshold, the first and the last     *)
(* included, wherever the clock wraps; a fluctuation between starts the    *)
(* time anew, and so does a switch (readSensor, checkStateSwitched).       *)
(* Assigning it resets it.                                                 *)
SwitchesAreStable ==
  [][\A p \in Pins :
       /\ sensors[p] # <<>> /\ sensors'[p] # <<>>
       /\ sensors'[p][1].isOn # sensors[p][1].isOn
       => sensors'[p][1] = NewSensor \/ beyond[p] > MinSwitchTime]_vars
=============================================================================
