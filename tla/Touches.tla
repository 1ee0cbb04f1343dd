------------------------------- MODULE Touches -------------------------------
(***************************************************************************)
(* The touch sensors of the board (TO), with a clock of their own that     *)
(* other parts do not share.                                               *)
(***************************************************************************)
EXTENDS Integers

CONSTANTS
  Pins, TouchValues,              (* touch pins, what is read of them        *)
  Programs,                       (* that the PIO has room for               *)
  MinSwitchTime, CalibrationTime,
  ClockSize                       (* of micros(), millis() and the values    *)

VARIABLES toNow, loaded, sampling, sensors, beyond
toVars == <<toNow, loaded, sampling, sensors, beyond>>

TO == INSTANCE Touch WITH
        Values <- TouchValues, now <- toNow

ASSUME TouchesAssumption == TO!TouchAssumption

-----------------------------------------------------------------------------
(* A fluctuation does not switch a sensor, wherever the clock wraps        *)
(* (touch.cpp).                                                            *)
TouchesAreStable == TO!SwitchesAreStable
=============================================================================
