----------------------------- MODULE GamepadPort -----------------------------
(***************************************************************************)
(* A gamepad at the USB host port (HG), with names of its own for what     *)
(* other parts have too.                                                   *)
(***************************************************************************)
EXTENDS Integers

CONSTANTS
  HidDescriptors, HidReports,         (* of gamepads                         *)
  StackDepth, UsageDepth, ItemPool    (* of the parser                       *)

VARIABLES hgEnabled, hgPlugged, hidReportInfo, hgPools, hgCrashed, hgData, hgShown
hgVars == <<hgEnabled, hgPlugged, hidReportInfo, hgPools, hgCrashed, hgData,
            hgShown>>

HG == INSTANCE HidGamepad WITH
        Descriptors <- HidDescriptors, Reports <- HidReports,
        enabled <- hgEnabled, plugged <- hgPlugged, pools <- hgPools,
        crashed <- hgCrashed, data <- hgData, shown <- hgShown

ASSUME GamepadPortAssumption == HG!GamepadAssumption

-----------------------------------------------------------------------------
(* What is taken from a report is what the gamepad says, and its           *)
(* structures are given back (hidparser.c).                                *)
GamepadIsUnderstood == HG!ReportsAreUnderstood /\ HG!PoolsAreGivenBack
=============================================================================
