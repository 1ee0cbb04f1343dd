---------------------------- MODULE SensorInput ----------------------------
(***************************************************************************)
(* How a sensor value is read from a pin (DrumPad::readInput(),            *)
(* drum_pad.cpp) and how the pin learns the voltage its signal rests at    *)
(* (DrumPin::updateOffset(), drum_pin.h).                                  *)
(*                                                                         *)
(* The signals that reach the board through a multiplexer swing around a   *)
(* bias voltage.  For a drum with auto-calibration the bias is found by    *)
(* balance: a pin counts the samples above its offset against those below, *)
(* and moves the offset when one side is BalanceThreshold samples ahead.   *)
(***************************************************************************)
EXTENDS Integers

CONSTANTS
  MaxValue,           (* MAX_SENSOR_VALUE, the largest value of the ADC     *)
  BalanceThreshold,   (* BALANCE_THRESHOLD                                  *)
  InitialOffset,      (* the offset of a pin when the board starts          *)
  WordSize            (* a sensor value is stored modulo this, 2^16         *)

ASSUME SensorInputAssumption ==
  /\ MaxValue \in Nat \ {0, 1}
  /\ BalanceThreshold \in Nat \ {0}
  /\ InitialOffset \in 0..MaxValue
  /\ WordSize \in Nat
  /\ 2 * MaxValue < WordSize

VARIABLES
  viaMux,          (* whether the pin is a channel of a multiplexer         *)
  isPedal,         (* whether the pin belongs to a pedal, not to a drum     *)
  autoCalibrate,   (* DrumPad::autoCalibrate, set by the web page           *)
  offset,          (* DrumPin::offset                                       *)
  offsetBalance,   (* DrumPin::offsetBalance                                *)
  input,           (* the last sample of the ADC                            *)
  result           (* what readInput() returned for it                      *)

vars == <<viaMux, isPedal, autoCalibrate, offset, offsetBalance, input, result>>

Values == 0..MaxValue

(* What a division by zero yields depends on the processor: some return a  *)
(* number, others stop the program.                                        *)
Undefined == -1

-----------------------------------------------------------------------------
(* DrumPin::updateOffset                                                   *)

(* A plausible slip: a sample at the offset counts as one above it. *)
BalanceAtLeast(value) == offsetBalance + (IF value >= offset THEN 1 ELSE -1)

Balance(value) ==
  offsetBalance + (IF value > offset THEN 1 ELSE IF value < offset THEN -1 ELSE 0)

(* A plausible slip: the balance is not started afresh. *)
KeepBalance(balance) ==
  /\ offset' = (CASE balance >= BalanceThreshold -> offset + 1
                 [] balance <= -BalanceThreshold -> offset - 1
                 [] OTHER -> offset)
  /\ offsetBalance' = balance

MoveOffset(balance) ==
  IF balance >= BalanceThreshold THEN offset' = offset + 1 /\ offsetBalance' = 0
  ELSE IF balance <= -BalanceThreshold THEN offset' = offset - 1 /\ offsetBalance' = 0
  ELSE UNCHANGED offset /\ offsetBalance' = balance

UpdateOffset(value) == MoveOffset(Balance(value))

(* DrumPad::readInput                                                      *)

(* A plausible slip: the upper half is scaled like the lower one. *)
DistanceOfLowerHalf(value, origin) ==
  IF origin = 0 THEN Undefined
  ELSE IF value > origin THEN ((value - origin) * MaxValue) \div origin
  ELSE ((origin - value) * MaxValue) \div origin

(* Both halves are scaled to the range of the ADC. *)
Distance(value, origin) ==
  IF value > origin THEN ((value - origin) * MaxValue) \div (MaxValue - origin)
  ELSE IF origin = 0 THEN Undefined
  ELSE ((origin - value) * MaxValue) \div origin

(* The distance from the middle of the range, without calibration. *)
DistanceFromMiddle(value) ==
  LET middle == MaxValue \div 2
  IN 2 * (IF value > middle THEN value - middle ELSE middle - value)

(* A pedal's value is inverted, in the width of a sensor value. *)
Invert(value) == (MaxValue + WordSize - value) % WordSize

(* A drum reads with calibration if that is enabled; a cymbal never does.  *)
ReadDrumInput(value) ==
  /\ ~isPedal
  /\ input' = value
  /\ IF viaMux /\ autoCalibrate
     THEN UpdateOffset(value) /\ result' = Distance(value, offset')
     ELSE /\ UNCHANGED <<offset, offsetBalance>>
          /\ result' = IF viaMux THEN DistanceFromMiddle(value) ELSE value
  /\ UNCHANGED <<viaMux, isPedal, autoCalibrate>>

ReadPedalInput(value) ==
  /\ isPedal
  /\ input' = value
  /\ result' = Invert(IF viaMux THEN DistanceFromMiddle(value) ELSE value)
  /\ UNCHANGED <<viaMux, isPedal, autoCalibrate, offset, offsetBalance>>

SetAutoCalibrate(flag) ==
  /\ autoCalibrate' = flag
  /\ UNCHANGED <<viaMux, isPedal, offset, offsetBalance, input, result>>

Init ==
  /\ viaMux \in BOOLEAN
  /\ isPedal \in BOOLEAN
  /\ autoCalibrate \in BOOLEAN
  /\ offset = InitialOffset
  /\ offsetBalance = 0
  /\ input = 0
  /\ result = 0

Read == \E value \in Values : ReadDrumInput(value) \/ ReadPedalInput(value)

Next == Read \/ \E flag \in BOOLEAN : SetAutoCalibrate(flag)

Spec == Init /\ [][Next]_vars

(* The main loop reads the pin again and again. *)
FairSpec == Spec /\ WF_vars(Read)

-----------------------------------------------------------------------------
(* Properties.                                                             *)

Calibrates == viaMux /\ ~isPedal /\ autoCalibrate

(* Every variable has its type.  For the offset, an unsigned number that   *)
(* is stepped down without a test for 0, this says that it never leaves    *)
(* the range of the ADC, whatever the signal does (the multiplexer may     *)
(* drop to 0 V for long) and whenever calibration is switched on and off.  *)
TypeOK ==
  /\ viaMux \in BOOLEAN
  /\ isPedal \in BOOLEAN
  /\ autoCalibrate \in BOOLEAN
  /\ offset \in Values
  /\ offsetBalance \in (1 - BalanceThreshold)..(BalanceThreshold - 1)
  /\ input \in Values
  /\ result \in 0..(WordSize - 1) \cup {Undefined}

(* What keeps the offset in range: at an end of the range no sample lies   *)
(* beyond it, so the balance never leans outwards there.                   *)
NoLeanOutwards ==
  /\ offset = 0 => offsetBalance >= 0
  /\ offset = MaxValue => offsetBalance <= 0

(* A calibrated drum reads 0 at its offset and only there, and the full    *)
(* range at either end of the ADC (the examples of drum_pad.h:196), for    *)
(* every offset between the ends.                                          *)
CalibratedReadingsSpanTheRange ==
  [][Read /\ Calibrates /\ offset' \in 1..(MaxValue - 1) =>
       /\ result' \in Values
       /\ result' = 0 <=> input' = offset'
       /\ input' \in {0, MaxValue} => result' = MaxValue]_vars

(* The calibration settles: if from some time on a calibrating pin always  *)
(* reads the same value, its offset becomes that value and stays.          *)
OffsetSettles ==
  \A value \in Values :
    <>[](Calibrates /\ input = value) => <>[](offset = value)
=============================================================================
