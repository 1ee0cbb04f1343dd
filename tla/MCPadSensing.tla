---------------------------- MODULE MCPadSensing ----------------------------
(* A pad on a module with a coarse clock.  Every record is a pad that the  *)
(* drummer may have: a kick, snares and cymbals of all wirings.            *)
EXTENDS PadSensing

Pad(padType, zonesType, chokeType, thresholds, scanTime, maskTime, decayTime, bias) ==
  [padType |-> padType, zonesType |-> zonesType, chokeType |-> chokeType,
   zoneThresholdsMin |-> [zone \in Zones |-> thresholds[zone + 1]],
   zoneThresholdsMax |-> [zone \in Zones |-> MaxValue],
   scanTime |-> scanTime, maskTime |-> maskTime, decayTime |-> decayTime,
   headRimBias |-> bias]

Snare == Pad("Drum", "Zones2_Piezos", "None", <<1, 2, 1>>, 1, 2, 1, -100)
RimSnare == Pad("Drum", "Zones2_Piezos", "None", <<1, 1, 1>>, 1, 3, 0, 100)
Ride == Pad("Cymbal", "Zones3_PiezoAndSwitches_1TRS", "Switch_Edge",
            <<1, 1, 2>>, 1, 2, 0, 0)
RoRide == Pad("Cymbal", "Zones3_PiezoAndSwitches_2TRS", "Switch_Cup",
            <<1, 1, 1>>, 1, 2, 2, 0)
Crash == Pad("Cymbal", "Zones2_PiezoAndSwitch", "TouchSensor",
             <<1, 1, 1>>, 1, 2, 2, 0)
PiezoCrash == Pad("Cymbal", "Zones2_Piezos", "TouchSensor",
             <<1, 2, 1>>, 1, 2, 2, 0)
SlowCrash == Pad("Cymbal", "Zones2_PiezoAndSwitch", "Switch_Edge",
             <<2, 1, 1>>, 2, 1, 0, 0)

TwoZones == {Snare, RimSnare, Crash, PiezoCrash, SlowCrash}
AllPads == TwoZones \cup {Ride, RoRide}
NoSettings == {}

(* States of the safety run are compared without what no later step reads: *)
(* the message, and the times and samples outside the states that use      *)
(* them; the times are compared as differences, as the code uses them.     *)
View ==
  <<config, sensingState, lastEventType, result, sinceReport,
    IF sensingState = "Scan" THEN <<ElapsedUs(now, hitTimeUs), scanned>> ELSE <<>>,
    IF sensingState \in {"Mask", "Decay"} THEN ElapsedUs(now, scanTimeEndUs) ELSE 0,
    IF sensingState = "PeakDetect" THEN KeepUnwired(maxZoneValues, 0)
                                   ELSE maxZoneValues>>
=============================================================================
