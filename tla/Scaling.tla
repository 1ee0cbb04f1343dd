------------------------------ MODULE Scaling ------------------------------
(***************************************************************************)
(* From a sensor value to a MIDI velocity or controller value              *)
(* (sensing/scale.cpp).                                                    *)
(***************************************************************************)
EXTENDS Integers

CONSTANTS
  MaxValue,      (* MAX_SENSOR_VALUE, the largest value of the ADC          *)
  CurveStep,     (* sensor values per MIDI value, 8 in the code             *)
  MaxVelocity    (* the largest MIDI value, 127                             *)

ASSUME ScalingAssumption ==
  /\ MaxValue \in Nat \ {0}
  /\ CurveStep \in Nat \ {0}
  /\ MaxVelocity \in Nat \ {0}

Values == 0..MaxValue
Velocities == 0..MaxVelocity

Smaller(a, b) == IF a < b THEN a ELSE b

(* A plausible slip: the range begins at 0. *)
ScaleFromZero(value, minValue, maxValue) ==
  IF value = 0 \/ value < minValue THEN 0
  ELSE IF value >= maxValue THEN MaxValue
  ELSE ((value - minValue) * MaxValue) \div (maxValue - minValue)

(* A value at its lower limit becomes 1, one at the upper limit MaxValue.  *)
Scale(value, minValue, maxValue) ==
  IF value = 0 \/ value < minValue THEN 0
  ELSE IF value >= maxValue THEN MaxValue
  ELSE ((value - minValue) * (MaxValue - 1)) \div (maxValue - minValue) + 1

(* The linear curve; the others differ in shape, but map 0 to 0, 1 to 1    *)
(* and MaxValue to MaxVelocity as well.                                    *)
Curve(value) ==
  IF value = 0 THEN 0 ELSE Smaller((value - 1) \div CurveStep + 1, MaxVelocity)

ScaleAndCurve(value, minValue, maxValue) == Curve(Scale(value, minValue, maxValue))
=============================================================================
