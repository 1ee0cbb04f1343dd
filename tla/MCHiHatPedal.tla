---------------------------- MODULE MCHiHatPedal ----------------------------
(* A pedal with six positions and a clock of six ms; 2^8, 2^16 and 2^32  *)
(* are scaled down with them.                                              *)
EXTENDS HiHatPedal

Pedal(thresholdMin, thresholdMax, tolerance, timeoutMs) ==
  [thresholdMin |-> thresholdMin, thresholdMax |-> thresholdMax,
   almostClosed |-> 50, closed |-> 100,
   moveDetectTolerance |-> tolerance, chickDetectTimeoutMs |-> timeoutMs]

Pedals == {Pedal(0, 4, 2, 2), Pedal(1, 5, 17, 1)}
=============================================================================
