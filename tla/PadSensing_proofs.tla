-------------------------- MODULE PadSensing_proofs -------------------------
(***************************************************************************)
(* Theorems about a pad, for all settings that the web page offers, every  *)
(* resolution of the sensors and every width of the clock: no hit is lost  *)
(* or silent, no choke is made up, and nothing is sent twice.              *)
(***************************************************************************)
EXTENDS PadSensing, TLAPS

(* The quotient of natural numbers is the largest one that fits. *)
LEMMA DivLemma ==
  ASSUME NEW a \in Nat, NEW b \in Nat \ {0}
  PROVE  /\ a \div b \in Nat
         /\ b * (a \div b) <= a
         /\ a < b * (a \div b) + b
OBVIOUS

(* Products of natural numbers are natural numbers. *)
LEMMA ProductLemma ==
  ASSUME NEW a \in Nat, NEW b \in Nat
  PROVE  a * b \in Nat
OBVIOUS

(* A value scales to a number above 0 exactly if it is at its lower limit, *)
(* whatever the limits are.                                                *)
LEMMA ScaleLemma ==
  ASSUME NEW value \in Nat, NEW lower \in Nat \ {0}, NEW upper \in Nat
  PROVE  /\ Scale(value, lower, upper) \in Nat
         /\ Scale(value, lower, upper) > 0 <=> value >= lower
<1>1. MaxValue \in Nat \ {0}
  BY ScalingAssumption
<1>2. CASE value < lower \/ value >= upper
  BY <1>1, <1>2 DEF Scale
<1>3. CASE value >= lower /\ value < upper
  <2> DEFINE a == value - lower
             b == upper - lower
             m == MaxValue - 1
             d == (a * m) \div b
  <2>1. a \in Nat /\ b \in Nat \ {0} /\ m \in Nat
    BY <1>1, <1>3
  <2>2. Scale(value, lower, upper) = d + 1
    BY <1>3 DEF Scale
  <2> HIDE DEF a, b, m
  <2>3. d \in Nat
    BY <2>1, ProductLemma, DivLemma
  <2> HIDE DEF d
  <2> QED
    BY <1>3, <2>2, <2>3
<1> QED
  BY <1>2, <1>3

(* The curve maps to MIDI values, and only 0 to 0. *)
LEMMA CurveLemma ==
  ASSUME NEW value \in Nat
  PROVE  /\ Curve(value) \in Velocities
         /\ Curve(value) > 0 <=> value > 0
<1>1. MaxVelocity \in Nat \ {0} /\ CurveStep \in Nat \ {0}
  BY ScalingAssumption
<1>2. CASE value = 0
  BY <1>1, <1>2 DEF Curve, Velocities
<1>3. CASE value # 0
  <2> DEFINE d == (value - 1) \div CurveStep
  <2>1. value - 1 \in Nat
    BY <1>3
  <2>2. d \in Nat
    BY <1>1, <2>1, DivLemma
  <2>3. Curve(value) = Smaller(d + 1, MaxVelocity)
    BY <1>3 DEF Curve
  <2> HIDE DEF d
  <2> QED
    BY <1>1, <1>3, <2>2, <2>3 DEF Smaller, Velocities
<1> QED
  BY <1>2, <1>3

(* The bias of a zone does not lower its value, and leaves 0 alone. *)
LEMMA BoostLemma ==
  ASSUME NEW value \in Nat, NEW bias \in Nat
  PROVE  /\ Boost(value, bias) \in Nat
         /\ Boost(value, bias) > 0 <=> value > 0
<1> DEFINE a == value * 5 * bias
<1>1. a \in Nat /\ (value = 0 => a = 0)
  <2>1. value * 5 \in Nat
    OBVIOUS
  <2> QED
    BY <2>1, ProductLemma
<1>2. Boost(value, bias) = value + a \div 100
  BY DEF Boost
<1> HIDE DEF a
<1>3. a \div 100 \in Nat /\ (a = 0 => a \div 100 = 0)
  BY <1>1
<1> QED
  BY <1>1, <1>2, <1>3

(* What is above the last threshold on its way down is at least the        *)
(* configured one.                                                         *)
LEMMA DecayLemma ==
  ASSUME NEW high \in Nat, NEW low \in Nat, low < high,
         NEW time \in Nat, NEW elapsed \in Nat, elapsed < time
  PROVE  (high * time - (high - low) * elapsed) \div time >= low
<1> DEFINE a == high * time - (high - low) * elapsed
<1>1. a >= low * time /\ a \in Nat
  <2>1. (high - low) * elapsed <= (high - low) * time
    OBVIOUS
  <2>2. (high - low) * time = high * time - low * time
    OBVIOUS
  <2> QED
    BY <2>1, <2>2
<1> HIDE DEF a
<1> DEFINE d == a \div time
<1>2. d \in Nat /\ a < time * d + time
  BY <1>1, DivLemma
<1> HIDE DEF d
<1>3. CASE d < low
  <2>1. time * (d + 1) <= time * low
    BY <1>2, <1>3
  <2> QED
    BY <1>1, <1>2, <2>1
<1> QED
  BY <1>2, <1>3 DEF a, d
-----------------------------------------------------------------------------
(* Times.                                                                  *)

(* The difference of two times, across the wrap-around of the clock. *)
LEMMA ElapsedLemma ==
  ASSUME NEW t \in Clock, NEW s \in Clock
  PROVE  /\ ElapsedUs(t, s) = IF t >= s THEN t - s ELSE t + ClockSize - s
         /\ ElapsedUs(t, s) \in Clock
<1> DEFINE a == t + ClockSize - s
<1>1. ClockSize \in Nat \ {0}
  BY PadSensingAssumption
<1>2. a \in Nat /\ a < 2 * ClockSize
  BY <1>1 DEF Clock
<1>3. a % ClockSize = IF a < ClockSize THEN a ELSE a - ClockSize
  <2> HIDE DEF a
  <2> QED
    BY <1>1, <1>2
<1> QED
  BY <1>1, <1>3 DEF Clock, ElapsedUs

(* The assumption holds for the times of the settings in use. *)
LEMMA SettingsLemma ==
  ASSUME settings \in StartSettings \cup WebSettings
  PROVE  /\ settings \in DrumSettings
         /\ \A zone \in Zones : /\ settings.zoneThresholdsMin[zone] \in Nat \ {0}
                                /\ settings.zoneThresholdsMax[zone] \in Nat
         /\ {settings.scanTime, settings.maskTime, settings.decayTime} \subseteq Nat
         /\ settings.scanTime + settings.maskTime + settings.decayTime + MaxLoopUs
              < ClockSize
         /\ settings.headRimBias \in -100..100
         /\ settings.zonesType \in PiezoTypes \cup SwitchTypes
<1>1. settings \in DrumSettings
  BY PadSensingAssumption
<1>2. MaxValue \in Nat
  BY ScalingAssumption
<1>3. \A zone \in Zones : settings.zoneThresholdsMin[zone] > 0
  BY PadSensingAssumption
<1>4. /\ settings.zoneThresholdsMin \in [Zones -> Values]
      /\ settings.zoneThresholdsMax \in [Zones -> Values]
      /\ settings.scanTime \in Nat /\ settings.maskTime \in Nat /\ settings.decayTime \in Nat
      /\ settings.headRimBias \in -100..100
      /\ settings.zonesType \in PiezoTypes \cup SwitchTypes
  BY <1>1 DEF DrumSettings
<1>5. settings.scanTime + settings.maskTime + settings.decayTime + MaxLoopUs < ClockSize
  BY PadSensingAssumption
<1>6. ASSUME NEW zone \in Zones
      PROVE  /\ settings.zoneThresholdsMin[zone] \in Nat \ {0}
             /\ settings.zoneThresholdsMax[zone] \in Nat
  BY <1>2, <1>3, <1>4 DEF Values
<1> QED
  BY <1>1, <1>4, <1>5, <1>6

(* In an iteration the clock moves on by less than its size: the time      *)
(* since an event grows by as much, or wraps around and becomes less.      *)
LEMMA ClockMoves ==
  ASSUME TypeOK, NEW us \in 1..MaxLoopUs, Passes(us)
  PROVE  /\ now' \in Clock /\ now' # now
         /\ ElapsedUs(now', now) = us /\ ElapsedUs(now', now') = 0
         /\ \A t \in Clock : ElapsedUs(now', t) <= ElapsedUs(now, t) + us
<1>1. /\ ClockSize \in Nat \ {0} /\ MaxLoopUs \in Nat \ {0} /\ us < ClockSize
      /\ us \in Nat \ {0}
  <2>1. ClockSize \in Nat \ {0} /\ MaxLoopUs \in Nat \ {0}
    BY PadSensingAssumption
  <2>2. MaxLoopUs < ClockSize
    <3>1. {settings.scanTime, settings.maskTime, settings.decayTime} \subseteq Nat
          /\ settings.scanTime + settings.maskTime + settings.decayTime + MaxLoopUs
               < ClockSize
      BY SettingsLemma DEF TypeOK
    <3> QED
      BY <2>1, <3>1
  <2> QED
    BY <2>1, <2>2
<1>2. now \in Clock /\ now \in Nat
  BY <1>1 DEF TypeOK, Clock
<1>3. now' = IF now + us < ClockSize THEN now + us ELSE now + us - ClockSize
  <2> DEFINE a == now + us
  <2>1. a \in Nat /\ a < 2 * ClockSize
    BY <1>1, <1>2 DEF Clock
  <2>2. now' = a % ClockSize
    BY DEF Passes
  <2> HIDE DEF a
  <2>3. now' = IF a < ClockSize THEN a ELSE a - ClockSize
    BY <1>1, <2>1, <2>2
  <2> QED
    BY <1>1, <1>2, <2>3 DEF a
<1>4. now' \in Clock /\ now' # now
  BY <1>1, <1>2, <1>3 DEF Clock
<1>5. ElapsedUs(now', now) = us /\ ElapsedUs(now', now') = 0
  <2>1. /\ ElapsedUs(now', now) = IF now' >= now THEN now' - now ELSE now' + ClockSize - now
        /\ ElapsedUs(now', now')
             = IF now' >= now' THEN now' - now' ELSE now' + ClockSize - now'
    BY <1>2, <1>4, ElapsedLemma
  <2> QED
    BY <1>1, <1>2, <1>3, <1>4, <2>1 DEF Clock
<1>6. ASSUME NEW t \in Clock
      PROVE  ElapsedUs(now', t) <= ElapsedUs(now, t) + us
  <2>1. /\ ElapsedUs(now', t) = IF now' >= t THEN now' - t ELSE now' + ClockSize - t
        /\ ElapsedUs(now, t) = IF now >= t THEN now - t ELSE now + ClockSize - t
    BY <1>2, <1>4, ElapsedLemma
  <2> QED
    BY <1>1, <1>2, <1>3, <1>4, <2>1 DEF Clock
<1> QED
  BY <1>4, <1>5, <1>6
-----------------------------------------------------------------------------
(* Zones and samples.                                                      *)

Maxima == Values \cup 0..(CounterSize - 1)

(* What the maxima hold: samples, and counters that wrap around. *)
LEMMA MaximaLemma ==
  /\ Values \subseteq Maxima /\ Maxima \subseteq Nat
  /\ 0 \in Values
  /\ \A m \in Nat : (m + 1) % CounterSize \in Maxima
<1>1. MaxValue \in Nat \ {0} /\ CounterSize \in Nat \ {0}
  BY ScalingAssumption, PadSensingAssumption
<1>2. \A m \in Nat : (m + 1) % CounterSize \in 0..(CounterSize - 1)
  BY <1>1
<1> QED
  BY <1>1, <1>2 DEF Maxima, Values

(* A pad with a connector has its main zone, which can start a scan. *)
LEMMA ZonesLemma ==
  ASSUME settings \in StartSettings \cup WebSettings, pinCount \in 0..3
  PROVE  /\ ActiveZoneCount \in 0..3 /\ ActivePinCount \in 0..3
         /\ ActivePinCount <= pinCount
         /\ pinCount > 0 <=> ActiveZoneCount > 0
         /\ (SharesPin /\ ActivePinCount = 2) \/ ActiveZoneCount = ActivePinCount
         /\ ActiveZones \subseteq Zones
         /\ pinCount > 0 => 0 \in ActiveZones /\ PeakZones \subseteq ActiveZones
                              /\ 0 \in PeakZones
<1>1. settings.zonesType \in PiezoTypes \cup SwitchTypes
  BY SettingsLemma
<1>2. ZoneCount \in 1..3
  BY DEF ZoneCount
<1>3. ActivePinCount \in 0..3 /\ ActivePinCount <= pinCount /\ (pinCount > 0 <=> ActivePinCount > 0)
  BY <1>2 DEF ActivePinCount, Smaller
<1>4. /\ ActiveZoneCount \in 0..3 /\ (ActivePinCount > 0 <=> ActiveZoneCount > 0)
      /\ (SharesPin /\ ActivePinCount = 2) \/ ActiveZoneCount = ActivePinCount
  BY <1>3 DEF ActiveZoneCount
<1>5. ActiveZones \subseteq Zones /\ (ActiveZoneCount > 0 => 0 \in ActiveZones)
  BY <1>4 DEF ActiveZones, Zones
<1> QED
  BY <1>3, <1>4, <1>5 DEF PeakZones

(* The sensors that are wired give a sample for every zone. *)
LEMMA SamplesLemma ==
  ASSUME settings \in StartSettings \cup WebSettings, pinCount \in 0..3,
         NEW raw \in Readings
  PROVE  ReadInputValues(raw) \in [Zones -> Values]
<1>1. 0 \in Values
  BY MaximaLemma
<1>2. ActivePinCount \in 0..3
  BY ZonesLemma
<1>3. \A pin \in 0..(ActivePinCount - 1) : raw[pin] \in Values
  BY DEF Readings
<1>4. CASE SharesPin /\ ActivePinCount = 2
  <2>1. raw[0] \in Values /\ raw[1] \in Values
    BY <1>3, <1>4
  <2> QED
    BY <1>1, <1>4, <2>1 DEF ReadInputValues
<1>5. CASE ~(SharesPin /\ ActivePinCount = 2)
  <2>1. \A zone \in Zones : (IF zone < ActivePinCount THEN raw[zone] ELSE 0) \in Values
    BY <1>1, <1>2, <1>3 DEF Zones
  <2> QED
    BY <1>5, <2>1 DEF ReadInputValues
<1> QED
  BY <1>4, <1>5

(* A sample raises the peak of a piezo, and the counter of a switch.       *)
LEMMA MaximumLemma ==
  ASSUME settings \in StartSettings \cup WebSettings,
         NEW maxima, \A zone \in Zones : maxima[zone] \in Maxima,
         NEW values \in [Zones -> Values]
  PROVE  /\ UpdateMaxSensorValue(maxima, values) \in [Zones -> Maxima]
         /\ \A zone \in ActiveZones \cap PeakZones \cap Zones :
              LET next == UpdateMaxSensorValue(maxima, values)[zone]
              IN  /\ next >= maxima[zone]
                  /\ IsAtThreshold(values, zone) => next >= values[zone]
<1> DEFINE e(zone) ==
             IF zone \notin ActiveZones \/ ~IsAtThreshold(values, zone)
             THEN maxima[zone]
             ELSE IF zone \in PeakZones
                  THEN IF values[zone] > maxima[zone] THEN values[zone] ELSE maxima[zone]
                  ELSE (maxima[zone] + 1) % CounterSize
<1>1. ASSUME NEW zone \in Zones
      PROVE  /\ e(zone) \in Maxima
             /\ zone \in ActiveZones /\ zone \in PeakZones =>
                  /\ e(zone) >= maxima[zone]
                  /\ IsAtThreshold(values, zone) => e(zone) >= values[zone]
  <2>1. /\ values[zone] \in Nat /\ maxima[zone] \in Nat
        /\ values[zone] \in Maxima /\ maxima[zone] \in Maxima
        /\ (maxima[zone] + 1) % CounterSize \in Maxima
    BY MaximaLemma
  <2> QED
    BY <2>1
<1>2. UpdateMaxSensorValue(maxima, values) = [zone \in Zones |-> e(zone)]
  BY DEF UpdateMaxSensorValue
<1> HIDE DEF e
<1>3. UpdateMaxSensorValue(maxima, values) \in [Zones -> Maxima]
  BY <1>1, <1>2
<1>4. \A zone \in Zones : UpdateMaxSensorValue(maxima, values)[zone] = e(zone)
  BY <1>2
<1> QED
  BY <1>1, <1>3, <1>4

(* A zone that is at its threshold while the threshold sinks is at the     *)
(* configured one.                                                         *)
LEMMA DecayedPeakLemma ==
  ASSUME settings \in StartSettings \cup WebSettings, pinCount \in 1..3,
         \A zone \in Zones : maxZoneValues[zone] \in Maxima,
         NEW values \in [Zones -> Values],
         NEW elapsedUs \in Nat, elapsedUs < settings.decayTime,
         IsPeak(values, DecayedThresholds(elapsedUs))
  PROVE  IsPeak(values, settings.zoneThresholdsMin)
<1>1. pinCount \in 0..3 /\ pinCount > 0
  OBVIOUS
<1>2. PeakZones \subseteq Zones
  BY <1>1, ZonesLemma
<1>3. PICK zone \in PeakZones : values[zone] >= DecayedThresholds(elapsedUs)[zone]
  BY DEF IsPeak
<1> DEFINE high == maxZoneValues[zone]
           low == settings.zoneThresholdsMin[zone]
           d == (high * settings.decayTime - (high - low) * elapsedUs)
                  \div settings.decayTime
<1>4. high \in Nat /\ values[zone] \in Nat
  BY <1>2, MaximaLemma
<1>5. low \in Nat /\ settings.decayTime \in Nat
  BY <1>2, SettingsLemma
<1>6. DecayedThresholds(elapsedUs)[zone] = IF high > low THEN d ELSE low
  BY <1>2 DEF DecayedThresholds
<1>7. high > low => d \in Int /\ d >= low
  <2> HIDE DEF high, low
  <2> SUFFICES ASSUME high > low PROVE d \in Int /\ d >= low
    OBVIOUS
  <2>1. high * settings.decayTime \in Int /\ (high - low) * elapsedUs \in Int
    BY <1>4, <1>5
  <2>2. d \in Int
    BY <1>5, <2>1
  <2> QED
    BY <1>4, <1>5, <2>2, DecayLemma
<1> HIDE DEF d
<1>8. values[zone] >= low
  BY <1>3, <1>4, <1>5, <1>6, <1>7
<1> QED
  BY <1>8 DEF IsPeak

-----------------------------------------------------------------------------
(* The zone of a hit.                                                      *)

(* The zone that is found has a highest value. *)
LEMMA HighestLemma ==
  ASSUME NEW values, NEW zones \in SUBSET Zones, NEW preferredZone \in zones,
         \A zone \in zones : values[zone] \in Nat
  PROVE  LET found == FindMaxValueIndex(values, zones, preferredZone)
         IN  found \in zones /\ \A other \in zones : values[other] <= values[found]
<1> DEFINE Highest(zone) == \A other \in zones : values[other] <= values[zone]
           First(zone) == Highest(zone) /\ \A lower \in zones : lower < zone => ~Highest(lower)
           found == FindMaxValueIndex(values, zones, preferredZone)
<1>1. \A zone \in zones : zone \in {0, 1, 2}
  BY DEF Zones
<1>2. \E zone \in zones : Highest(zone)
  <2> SUFFICES ASSUME \A zone \in zones : ~Highest(zone) PROVE FALSE
    OBVIOUS
  <2>1. ASSUME NEW zone \in zones PROVE \E other \in zones : values[other] > values[zone]
    <3>1. PICK other \in zones : ~(values[other] <= values[zone])
      OBVIOUS
    <3> QED
      BY <3>1
  <2> HIDE DEF Highest
  <2>2. PICK a \in zones : values[a] > values[preferredZone]
    BY <2>1
  <2>3. PICK b \in zones : values[b] > values[a]
    BY <2>1
  <2>4. PICK c \in zones : values[c] > values[b]
    BY <2>1
  <2>5. preferredZone # a /\ preferredZone # b /\ preferredZone # c /\ a # b /\ a # c /\ b # c
    BY <2>2, <2>3, <2>4
  <2> QED
    BY <1>1, <2>5
<1> HIDE DEF Highest
<1>3. \E zone \in zones : First(zone)
  BY <1>1, <1>2
<1>4. found = IF Highest(preferredZone) THEN preferredZone
              ELSE CHOOSE zone \in zones : First(zone)
  BY DEF FindMaxValueIndex, Highest
<1> HIDE DEF found
<1>5. found \in zones /\ Highest(found)
  <2>1. CASE Highest(preferredZone)
    BY <1>4, <2>1
  <2>2. CASE ~Highest(preferredZone)
    <3> DEFINE lowest == CHOOSE zone \in zones : First(zone)
    <3>1. lowest \in zones /\ First(lowest)
      BY <1>3, Zenon
    <3> QED
      BY <1>4, <2>2, <3>1
  <2> QED
    BY <2>1, <2>2
<1> QED
  BY <1>5 DEF found, Highest

(* Scaled values are 0 below the threshold, and above 0 at it. *)
LEMMA ScaledLemma ==
  ASSUME settings \in StartSettings \cup WebSettings,
         NEW maxima, \A zone \in Zones : maxima[zone] \in Maxima
  PROVE  /\ ScaledValues(maxima) \in [Zones -> Nat]
         /\ \A zone \in Zones : /\ ScaledValues(maxima)[zone] > 0
                                     <=> maxima[zone] >= settings.zoneThresholdsMin[zone]
                                /\ ScaledValues(maxima)[zone] > 0 => maxima[zone] > 0
<1> DEFINE e(zone) == Scale(maxima[zone], settings.zoneThresholdsMin[zone],
                            settings.zoneThresholdsMax[zone])
<1>1. ASSUME NEW zone \in Zones
      PROVE  /\ e(zone) \in Nat
             /\ e(zone) > 0 <=> maxima[zone] >= settings.zoneThresholdsMin[zone]
             /\ e(zone) > 0 => maxima[zone] > 0
  <2>1. /\ settings.zoneThresholdsMin[zone] \in Nat \ {0}
        /\ settings.zoneThresholdsMax[zone] \in Nat
    BY SettingsLemma
  <2>2. maxima[zone] \in Nat
    BY MaximaLemma
  <2>3. /\ e(zone) \in Nat
        /\ e(zone) > 0 <=> maxima[zone] >= settings.zoneThresholdsMin[zone]
    BY <2>1, <2>2, ScaleLemma
  <2> QED
    BY <2>1, <2>2, <2>3
<1>2. ScaledValues(maxima) = [zone \in Zones |-> e(zone)]
  BY DEF ScaledValues
<1> HIDE DEF e
<1> QED
  BY <1>1, <1>2

(* The zone of a hit on a piezo pad: if any zone was at its threshold, the *)
(* zone that is found was, whatever the bias is.                           *)
LEMMA HitZoneLemma ==
  ASSUME settings \in StartSettings \cup WebSettings, pinCount \in 1..3,
         NEW maxima, \A zone \in Zones : maxima[zone] \in Maxima
  PROVE  LET found == DetermineHitZone(maxima)
         IN  /\ found \in ActiveZones
             /\ (\E zone \in ActiveZones :
                   maxima[zone] >= settings.zoneThresholdsMin[zone])
                  => maxima[found] >= settings.zoneThresholdsMin[found]
<1> DEFINE preferredZone == IF settings.headRimBias < 0 THEN 0 ELSE 1
           bias == IF settings.headRimBias < 0 THEN -settings.headRimBias
                   ELSE settings.headRimBias
           scaled == ScaledValues(maxima)
           evaluated == [scaled EXCEPT ![preferredZone] = Boost(@, bias)]
           found == DetermineHitZone(maxima)
<1>1. pinCount \in 0..3 /\ pinCount > 0
  OBVIOUS
<1>2. ActiveZones \subseteq Zones /\ 0 \in ActiveZones /\ ActiveZoneCount \in 1..3
  BY <1>1, ZonesLemma
<1>3. /\ scaled \in [Zones -> Nat]
      /\ \A zone \in Zones : scaled[zone] > 0
                               <=> maxima[zone] >= settings.zoneThresholdsMin[zone]
  BY ScaledLemma
<1> HIDE DEF scaled
<1>4. CASE ActiveZoneCount <= 1
  <2>1. found = 0 /\ ActiveZones = {0}
    BY <1>2, <1>4 DEF DetermineHitZone, ActiveZones
  <2> QED
    BY <2>1
<1>5. CASE ActiveZoneCount > 1
  <2>1. /\ found = FindMaxValueIndex(evaluated, ActiveZones, preferredZone)
        /\ preferredZone \in ActiveZones
    BY <1>2, <1>5 DEF DetermineHitZone, ActiveZones, scaled
  <2>2. bias \in Nat
    <3>1. settings.headRimBias \in -100..100
      BY SettingsLemma
    <3> QED
      BY <3>1
  <2>3. ASSUME NEW zone \in Zones
        PROVE  evaluated[zone] \in Nat /\ (evaluated[zone] > 0 <=> scaled[zone] > 0)
    <3>1. evaluated[zone] = IF zone = preferredZone THEN Boost(scaled[zone], bias)
                            ELSE scaled[zone]
      BY <1>3
    <3> HIDE DEF evaluated, bias, preferredZone
    <3>2. scaled[zone] \in Nat
      BY <1>3
    <3>3. Boost(scaled[zone], bias) \in Nat /\ (Boost(scaled[zone], bias) > 0 <=> scaled[zone] > 0)
      BY <2>2, <3>2, BoostLemma
    <3> QED
      BY <3>1, <3>2, <3>3
  <2> HIDE DEF evaluated, preferredZone, bias, found
  <2>4. found \in ActiveZones /\ \A other \in ActiveZones : evaluated[other] <= evaluated[found]
    BY <1>2, <2>1, <2>3, HighestLemma
  <2>5. ASSUME NEW zone \in ActiveZones,
               maxima[zone] >= settings.zoneThresholdsMin[zone]
        PROVE  maxima[found] >= settings.zoneThresholdsMin[found]
    <3>1. evaluated[zone] > 0 /\ evaluated[zone] \in Nat
      BY <1>2, <1>3, <2>3, <2>5
    <3>2. evaluated[found] > 0
      BY <1>2, <2>3, <2>4, <3>1
    <3> QED
      BY <1>2, <1>3, <2>3, <2>4, <3>2
  <2> QED
    BY <2>4, <2>5 DEF found
<1> QED
  BY <1>2, <1>4, <1>5

(* The zone of a hit on a pad with switches: one that was switched on, or  *)
(* the piezo's.                                                            *)
LEMMA SwitchZoneLemma ==
  ASSUME settings \in StartSettings \cup WebSettings, pinCount \in 1..3,
         NEW maxima, \A zone \in Zones : maxima[zone] \in Maxima
  PROVE  LET found == DetermineSwitchZone(maxima)
         IN  found \in ActiveZones /\ (found # 0 => maxima[found] > 0)
<1> DEFINE switches == ActiveZones \ {0}
           highest == FindMaxValueIndex(maxima, switches, 1)
<1>1. pinCount \in 0..3 /\ pinCount > 0
  OBVIOUS
<1>2. ActiveZones \subseteq Zones /\ 0 \in ActiveZones /\ ActiveZoneCount \in 1..3
  BY <1>1, ZonesLemma
<1>3. switches # {} => 1 \in switches
  BY <1>2 DEF ActiveZones
<1>4. \A zone \in switches : maxima[zone] \in Nat
  BY <1>2, MaximaLemma
<1>5. switches # {} => highest \in switches
  BY <1>2, <1>3, <1>4, HighestLemma
<1>6. DetermineSwitchZone(maxima)
        = IF switches # {} /\ maxima[highest] > 0 THEN highest ELSE 0
  BY DEF DetermineSwitchZone
<1> HIDE DEF highest, switches
<1>7. DetermineSwitchZone(maxima) \in ActiveZones
  BY <1>2, <1>5, <1>6 DEF switches
<1> QED
  BY <1>6, <1>7
-----------------------------------------------------------------------------
(* Hits and messages.                                                      *)

(* resetHitInfo() clears the wired zones and keeps the types. *)
LEMMA ResetLemma ==
  ASSUME TypeOK
  PROVE  /\ KeepUnwired(hits, FALSE) \in [Zones -> BOOLEAN]
         /\ KeepUnwired(hitVelocities, 0) \in [Zones -> Velocities]
         /\ \A zone \in Zones : KeepUnwired(maxZoneValues, 0)[zone] \in Maxima
         /\ \A zone \in Zones : KeepUnwired(hits, FALSE)[zone] =>
                                  zone \notin ActiveZones /\ hits[zone]
<1>1. /\ \A zone \in Zones : /\ hits[zone] \in BOOLEAN
                             /\ hitVelocities[zone] \in Velocities
                             /\ maxZoneValues[zone] \in Maxima
      /\ 0 \in Maxima /\ 0 \in Velocities
  <2>1. 0 \in Velocities /\ 0 \in Maxima
    BY ScalingAssumption, MaximaLemma DEF Velocities
  <2> QED
    BY <2>1 DEF TypeOK, Maxima
<1> QED
  BY <1>1 DEF KeepUnwired

(* The message is about the first zone that is hit, if there is one, and   *)
(* else about the choke.                                                   *)
LEMMA MessageLemma ==
  ASSUME NEW hitZones \in [Zones -> BOOLEAN], NEW velocities \in [Zones -> Velocities],
         NEW choked \in BOOLEAN
  PROVE  LET message == Message(hitZones, velocities, choked)
         IN  /\ message \in Messages
             /\ message.type = "none" \/ choked \/ \E zone \in Zones : hitZones[zone]
             /\ message.type = "choke" => choked /\ \A zone \in Zones : ~hitZones[zone]
             /\ \A zone \in Zones :
                  hitZones[zone] /\ (\A z \in Zones : z < zone => ~hitZones[z]) =>
                    /\ message.type = "note"
                    /\ message.zone = zone
                    /\ message.velocity = velocities[zone]
<1> DEFINE First(zone) == hitZones[zone] /\ \A z \in Zones : z < zone => ~hitZones[z]
           message == Message(hitZones, velocities, choked)
           first == CHOOSE zone \in Zones : First(zone)
<1>1. 0 \in Velocities /\ 0 \in Zones
  BY ScalingAssumption DEF Velocities, Zones
<1>2. CASE \E zone \in Zones : hitZones[zone]
  <2>1. \E zone \in Zones : First(zone)
    <3>1. Zones = {0, 1, 2}
      BY DEF Zones
    <3> QED
      BY <1>2, <3>1
  <2>2. first \in Zones /\ First(first)
    BY <2>1, Zenon
  <2>3. message = [type |-> "note", zone |-> first, velocity |-> velocities[first]]
    BY <1>2 DEF Message
  <2> HIDE DEF first, message
  <2>4. ASSUME NEW zone \in Zones, First(zone) PROVE zone = first
    <3>1. zone \in Nat /\ first \in Nat
      BY <2>2 DEF Zones
    <3>2. ~(zone < first) /\ ~(first < zone)
      BY <2>2, <2>4
    <3> QED
      BY <3>1, <3>2
  <2>5. message.type = "note" /\ message.zone = first /\ message.velocity = velocities[first]
    BY <2>3
  <2>6. message \in Messages
    BY <2>2, <2>3 DEF Messages
  <2> QED
    BY <1>2, <2>4, <2>5, <2>6 DEF message
<1>3. CASE ~\E zone \in Zones : hitZones[zone]
  <2>1. message = IF choked /\ settings.padType = "Cymbal"
                  THEN [NoMessage EXCEPT !.type = "choke"] ELSE NoMessage
    BY <1>3 DEF Message
  <2>2. [NoMessage EXCEPT !.type = "choke"] = [type |-> "choke", zone |-> 0, velocity |-> 0]
    BY DEF NoMessage
  <2>3. NoMessage \in Messages /\ [NoMessage EXCEPT !.type = "choke"] \in Messages
        /\ NoMessage.type = "none" /\ [NoMessage EXCEPT !.type = "choke"].type = "choke"
    BY <1>1, <2>2 DEF Messages, NoMessage
  <2> HIDE DEF message
  <2>4. message \in Messages /\ (message.type = "none" \/ choked)
    BY <2>1, <2>3
  <2> QED
    BY <1>3, <2>4 DEF message
<1> QED
  BY <1>2, <1>3
(* The end of a scan: a hit of a wired zone, or no zone that can start a   *)
(* scan was at its threshold.                                              *)
IsHitOf(zone) ==
  /\ hits'[zone] /\ \A z \in Zones : z < zone => ~hits'[z]
  /\ sensingState' = "Mask" /\ ~isChoked'
  /\ maxZoneValues'[zone] > 0

PeakWasSeen(maxima) ==
  \E zone \in PeakZones : maxima[zone] >= settings.zoneThresholdsMin[zone]

(* A hit sets one wired zone, and no lower one. *)
LEMMA HandleHitLemma ==
  ASSUME TypeOK, pinCount \in 1..3, NEW zone \in ActiveZones, HandleHit(zone)
  PROVE  /\ hits' \in [Zones -> BOOLEAN] /\ isChoked' \in BOOLEAN
         /\ sensingState' = "Mask" /\ lastEventType' = "Hit" /\ ~isChoked'
         /\ hits'[zone] /\ \A z \in Zones : z < zone => ~hits'[z]
         /\ \A z \in Zones : hits'[z] => z \in ActiveZones \/ hits[z]
<1>1. pinCount \in 0..3 /\ pinCount > 0
  OBVIOUS
<1>2. ActiveZones \subseteq Zones /\ ActiveZoneCount \in 0..3
  BY <1>1, ZonesLemma DEF TypeOK
<1> DEFINE cleared == KeepUnwired(hits, FALSE)
<1>3. /\ cleared \in [Zones -> BOOLEAN]
      /\ \A z \in Zones : cleared[z] => z \notin ActiveZones /\ hits[z]
  BY ResetLemma
<1>4. \A z \in Zones : z < zone => z \in ActiveZones
  BY <1>2 DEF ActiveZones, Zones
<1>5. hits' = [cleared EXCEPT ![zone] = TRUE]
  BY DEF HandleHit
<1> HIDE DEF cleared
<1>6. hits' \in [Zones -> BOOLEAN] /\ hits'[zone]
  BY <1>2, <1>3, <1>5
<1>7. ASSUME NEW z \in Zones, z < zone PROVE ~hits'[z]
  <2>1. zone \in Nat /\ z # zone
    BY <1>2, <1>7 DEF Zones
  <2> QED
    BY <1>3, <1>4, <1>5, <1>7, <2>1
<1>8. ASSUME NEW z \in Zones, hits'[z] PROVE z \in ActiveZones \/ hits[z]
  BY <1>3, <1>5, <1>8
<1>9. sensingState' = "Mask" /\ lastEventType' = "Hit" /\ isChoked' = FALSE
  BY DEF HandleHit
<1> QED
  BY <1>6, <1>7, <1>8, <1>9

(* The end of a scan without a hit sets no zone. *)
LEMMA HandleChokedLemma ==
  ASSUME TypeOK, HandleChoked
  PROVE  /\ hits' \in [Zones -> BOOLEAN] /\ isChoked' \in BOOLEAN
         /\ \A zone \in Zones : hits'[zone] => zone \notin ActiveZones /\ hits[zone]
         /\ sensingState' \in {"PeakDetect", "Mask"} /\ lastEventType' = "Choked"
         /\ isChoked' => sensingState' = "Mask"
<1>1. /\ hits' = KeepUnwired(hits, FALSE)
      /\ isChoked' = (lastEventType # "Choked")
      /\ sensingState' = IF lastEventType = "Choked" THEN "PeakDetect" ELSE "Mask"
      /\ lastEventType' = "Choked"
  BY DEF HandleChoked
<1>2. hits' \in [Zones -> BOOLEAN]
      /\ \A zone \in Zones : hits'[zone] => zone \notin ActiveZones /\ hits[zone]
  BY <1>1, ResetLemma
<1>3. CASE lastEventType = "Choked"
  BY <1>1, <1>2, <1>3
<1>4. CASE lastEventType # "Choked"
  BY <1>1, <1>2, <1>4
<1> QED
  BY <1>3, <1>4

(* The types after a scan, and what it reports. *)
LEMMA ScanEndsLemma ==
  ASSUME TypeOK, pinCount \in 1..3, NEW values \in [Zones -> Values],
         NEW senseTimeUs \in Clock, ScanEnds(senseTimeUs, values)
  PROVE  /\ hits' \in [Zones -> BOOLEAN] /\ isChoked' \in BOOLEAN
         /\ hitVelocities' \in [Zones -> Velocities]
         /\ maxZoneValues' \in [Zones -> Maxima]
         /\ sensingState' \in {"PeakDetect", "Mask"}
         /\ lastEventType' \in {"Hit", "Choked"}
         /\ \A zone \in Zones : hits'[zone] => zone \in ActiveZones \/ hits[zone]
         /\ \/ \E zone \in ActiveZones :
                 IsHitOf(zone) /\ (PeakWasSeen(maxZoneValues') => hitVelocities'[zone] > 0)
            \/ /\ ~PeakWasSeen(maxZoneValues')
               /\ \A zone \in Zones : hits'[zone] => zone \notin ActiveZones /\ hits[zone]
               /\ isChoked' => sensingState' = "Mask"
<1> DEFINE maxima == maxZoneValues'
           zone == IF IsPiezoPad THEN DetermineHitZone(maxima)
                   ELSE DetermineSwitchZone(maxima)
           isHit == maxima[IF IsPiezoPad THEN zone ELSE 0] > 0
           scaled == ScaledValues(maxima)
<1>1. pinCount \in 0..3 /\ pinCount > 0 /\ settings \in StartSettings \cup WebSettings
  BY DEF TypeOK
<1>2. /\ ActiveZones \subseteq Zones /\ 0 \in ActiveZones
      /\ PeakZones \subseteq ActiveZones
  BY <1>1, ZonesLemma
<1>3. maxima = UpdateMaxSensorValue(maxZoneValues, values)
  BY DEF ScanEnds
<1>4. maxima \in [Zones -> Maxima]
  <2>1. \A z \in Zones : maxZoneValues[z] \in Maxima
    BY DEF TypeOK, Maxima
  <2> QED
    BY <1>1, <1>3, <2>1, MaximumLemma
<1>5. /\ IF isHit THEN HandleHit(zone) ELSE HandleChoked
      /\ hitVelocities' = IF IsPiezoPad
                          THEN [z \in Zones |-> IF z \in ActiveZones THEN Curve(scaled[z])
                                                ELSE hitVelocities[z]]
                          ELSE [KeepUnwired(hitVelocities, 0)
                                  EXCEPT ![zone] = IF isHit THEN Curve(scaled[0]) ELSE @]
  BY DEF ScanEnds
<1> HIDE DEF maxima
<1>6. \A z \in Zones : maxima[z] \in Maxima /\ maxima[z] \in Nat
  BY <1>4, MaximaLemma
<1>7. \A z \in Zones : /\ scaled[z] \in Nat
                       /\ Curve(scaled[z]) \in Velocities
                       /\ maxima[z] >= settings.zoneThresholdsMin[z] => Curve(scaled[z]) > 0
  <2>1. \A z \in Zones : /\ scaled[z] \in Nat
                         /\ maxima[z] >= settings.zoneThresholdsMin[z] => scaled[z] > 0
    BY <1>1, <1>6, ScaledLemma
  <2> QED
    BY <2>1, CurveLemma
<1>8. /\ zone \in ActiveZones
      /\ IsPiezoPad /\ PeakWasSeen(maxima)
           => maxima[zone] >= settings.zoneThresholdsMin[zone]
      /\ ~IsPiezoPad /\ zone # 0 => maxima[zone] > 0
  <2>1. CASE IsPiezoPad
    <3>1. zone = DetermineHitZone(maxima) /\ PeakZones = ActiveZones
      BY <2>1 DEF PeakZones
    <3> HIDE DEF zone
    <3> QED
      BY <1>1, <1>6, <2>1, <3>1, HitZoneLemma DEF PeakWasSeen
  <2>2. CASE ~IsPiezoPad
    <3>1. zone = DetermineSwitchZone(maxima)
      BY <2>2
    <3> HIDE DEF zone
    <3> QED
      BY <1>1, <1>6, <2>2, <3>1, SwitchZoneLemma
  <2> QED
    BY <2>1, <2>2
<1>9. \A z \in Zones : settings.zoneThresholdsMin[z] \in Nat \ {0}
  BY <1>1, SettingsLemma
<1>10. PeakWasSeen(maxima) => isHit /\ (~IsPiezoPad =>
                                          maxima[0] >= settings.zoneThresholdsMin[0])
  <2>1. CASE IsPiezoPad
    <3>1. isHit <=> maxima[zone] > 0
      BY <2>1
    <3> HIDE DEF zone, isHit
    <3>2. zone \in Zones
      BY <1>2, <1>8
    <3>3. /\ maxima[zone] \in Nat
          /\ settings.zoneThresholdsMin[zone] \in Nat \ {0}
      BY <1>6, <1>9, <3>2
    <3>4. PeakWasSeen(maxima) => maxima[zone] > 0
      BY <1>8, <2>1, <3>3
    <3> QED
      BY <2>1, <3>1, <3>4
  <2>2. CASE ~IsPiezoPad
    <3>1. isHit <=> maxima[0] > 0
      BY <2>2
    <3> HIDE DEF zone, isHit
    <3>2. PeakWasSeen(maxima) => maxima[0] >= settings.zoneThresholdsMin[0]
      BY <2>2 DEF PeakWasSeen, PeakZones
    <3>3. /\ maxima[0] \in Nat
          /\ settings.zoneThresholdsMin[0] \in Nat \ {0}
      BY <1>2, <1>6, <1>9
    <3>4. PeakWasSeen(maxima) => maxima[0] > 0
      BY <3>2, <3>3
    <3> QED
      BY <2>2, <3>1, <3>2, <3>4
  <2> QED
    BY <2>1, <2>2
<1>11. isHit => maxima[zone] > 0
  <2>1. CASE IsPiezoPad
    BY <2>1
  <2>2. CASE ~IsPiezoPad
    <3>1. isHit <=> maxima[0] > 0
      BY <2>2
    <3> HIDE DEF zone, isHit
    <3> QED
      BY <1>8, <2>2, <3>1
  <2> QED
    BY <2>1, <2>2
<1> HIDE DEF zone, isHit, scaled
<1>12. /\ hitVelocities' \in [Zones -> Velocities]
       /\ PeakWasSeen(maxima) => hitVelocities'[zone] > 0
  <2>1. zone \in Zones /\ 0 \in Zones
    BY <1>2, <1>8
  <2>2. CASE IsPiezoPad
    <3>1. hitVelocities' = [z \in Zones |-> IF z \in ActiveZones THEN Curve(scaled[z])
                                            ELSE hitVelocities[z]]
      BY <1>5, <2>2
    <3>2. hitVelocities' \in [Zones -> Velocities]
      BY <1>7, <3>1 DEF TypeOK
    <3>3. hitVelocities'[zone] = Curve(scaled[zone])
      BY <1>8, <2>1, <3>1
    <3> QED
      BY <1>7, <1>8, <2>1, <2>2, <3>2, <3>3
  <2>3. CASE ~IsPiezoPad
    <3> DEFINE cleared == KeepUnwired(hitVelocities, 0)
    <3>1. cleared \in [Zones -> Velocities]
      BY ResetLemma
    <3>2. hitVelocities' = [cleared EXCEPT ![zone] = IF isHit THEN Curve(scaled[0]) ELSE @]
      BY <1>5, <2>3
    <3> HIDE DEF cleared
    <3>3. hitVelocities'[zone] = IF isHit THEN Curve(scaled[0]) ELSE cleared[zone]
      BY <2>1, <3>1, <3>2
    <3>4. hitVelocities' \in [Zones -> Velocities]
      BY <1>7, <2>1, <3>1, <3>2
    <3> QED
      BY <1>7, <1>10, <2>1, <2>3, <3>3, <3>4
  <2> QED
    BY <2>2, <2>3
<1>13. CASE isHit
  <2>1. HandleHit(zone)
    BY <1>5, <1>13
  <2>2. /\ hits' \in [Zones -> BOOLEAN] /\ isChoked' \in BOOLEAN
        /\ sensingState' = "Mask" /\ lastEventType' = "Hit" /\ ~isChoked'
        /\ hits'[zone] /\ \A z \in Zones : z < zone => ~hits'[z]
        /\ \A z \in Zones : hits'[z] => z \in ActiveZones \/ hits[z]
    BY <1>8, <2>1, HandleHitLemma
  <2>3. IsHitOf(zone)
    BY <1>11, <1>13, <2>2 DEF IsHitOf, maxima
  <2> QED
    BY <1>4, <1>8, <1>12, <2>2, <2>3 DEF maxima
<1>14. CASE ~isHit
  <2>1. HandleChoked
    BY <1>5, <1>14
  <2>2. /\ hits' \in [Zones -> BOOLEAN] /\ isChoked' \in BOOLEAN
        /\ \A z \in Zones : hits'[z] => z \notin ActiveZones /\ hits[z]
        /\ sensingState' \in {"PeakDetect", "Mask"} /\ lastEventType' = "Choked"
        /\ isChoked' => sensingState' = "Mask"
    BY <2>1, HandleChokedLemma
  <2>3. ~PeakWasSeen(maxZoneValues')
    BY <1>10, <1>14 DEF maxima
  <2> QED
    BY <1>4, <1>12, <2>2, <2>3 DEF maxima
<1> QED
  BY <1>13, <1>14
-----------------------------------------------------------------------------
(* Types.                                                                  *)

ScanTypes ==
  /\ sensingState \in {"PeakDetect", "Scan", "Mask", "Decay"}
  /\ hitTimeUs \in Clock /\ scanTimeEndUs \in Clock
  /\ \A zone \in Zones : maxZoneValues[zone] \in Maxima
  /\ DOMAIN maxZoneValues = Zones
  /\ lastEventType \in {"None", "Hit", "Choked"}

ResultTypes ==
  /\ hits \in [Zones -> BOOLEAN]
  /\ hitVelocities \in [Zones -> Velocities]
  /\ isChoked \in BOOLEAN

(* One step of the sensing state machine. *)
SensingStep(senseTimeUs, values, touched) ==
  \/ SensePeakDetect(senseTimeUs, values, touched)
  \/ ScanContinues(senseTimeUs, values)
  \/ ScanEnds(senseTimeUs, values)
  \/ SenseMask(senseTimeUs)
  \/ SenseDecay(senseTimeUs, values, touched)

(* A step that finds nothing leaves only what is not wired. *)
LEMMA NothingFoundLemma ==
  ASSUME TypeOK, NothingFound
  PROVE  /\ ResultTypes' /\ ~isChoked'
         /\ \A zone \in Zones : hits'[zone] => zone \notin ActiveZones /\ hits[zone]
BY ResetLemma DEF NothingFound, ResultTypes

(* A scan starts with the samples that began it, in the state that waits   *)
(* for a peak.                                                             *)
LEMMA DetectPeakLemma ==
  ASSUME TypeOK, NEW values \in [Zones -> Values], NEW senseTimeUs \in Clock,
         NEW touched, NEW thresholds,
         DetectPeak(senseTimeUs, values, touched, thresholds)
  PROVE  /\ ScanTypes' /\ ResultTypes' /\ ~isChoked'
         /\ \A zone \in Zones : hits'[zone] => zone \notin ActiveZones /\ hits[zone]
         /\ UNCHANGED scanTimeEndUs
         /\ \/ /\ sensingState' = "Scan" /\ hitTimeUs' = senseTimeUs
               /\ IsPeak(values, thresholds) \/ IsGrabbed(values, touched)
               /\ maxZoneValues'
                    = UpdateMaxSensorValue(KeepUnwired(maxZoneValues, 0), values)
            \/ UNCHANGED <<sensingState, hitTimeUs, maxZoneValues>>
<1>1. NothingFound /\ UNCHANGED <<scanTimeEndUs, lastEventType>>
  BY DEF DetectPeak
<1>2. /\ ResultTypes' /\ ~isChoked'
      /\ \A zone \in Zones : hits'[zone] => zone \notin ActiveZones /\ hits[zone]
  BY <1>1, NothingFoundLemma
<1>3. ScanTypes
  BY DEF TypeOK, ScanTypes, Maxima
<1>4. CASE IsPeak(values, thresholds) \/ IsGrabbed(values, touched)
  <2>1. /\ sensingState' = "Scan" /\ hitTimeUs' = senseTimeUs
        /\ maxZoneValues'
             = UpdateMaxSensorValue(KeepUnwired(maxZoneValues, 0), values)
    BY <1>4 DEF DetectPeak
  <2>2. maxZoneValues' \in [Zones -> Maxima]
    BY <2>1, ResetLemma, MaximumLemma DEF TypeOK
  <2>3. ScanTypes'
    BY <1>1, <1>3, <2>1, <2>2 DEF ScanTypes
  <2> QED
    BY <1>1, <1>2, <1>4, <2>1, <2>3
<1>5. CASE ~(IsPeak(values, thresholds) \/ IsGrabbed(values, touched))
  <2>1. UNCHANGED <<sensingState, hitTimeUs, maxZoneValues>>
    BY <1>5 DEF DetectPeak
  <2>2. ScanTypes'
    BY <1>1, <1>3, <2>1 DEF ScanTypes
  <2> QED
    BY <1>1, <1>2, <2>1, <2>2
<1> QED
  BY <1>4, <1>5

(* Every step of the state machine keeps the types. *)
LEMMA SensingStepTypes ==
  ASSUME TypeOK, pinCount \in 1..3, NEW values \in [Zones -> Values],
         NEW senseTimeUs \in Clock, NEW touched,
         SensingStep(senseTimeUs, values, touched)
  PROVE  ScanTypes' /\ ResultTypes'
<1>1. ScanTypes
  BY DEF TypeOK, ScanTypes, Maxima
<1>2. CASE SensePeakDetect(senseTimeUs, values, touched)
  BY <1>2, DetectPeakLemma DEF SensePeakDetect
<1>3. CASE ScanContinues(senseTimeUs, values)
  <2>1. /\ maxZoneValues' = UpdateMaxSensorValue(maxZoneValues, values)
        /\ NothingFound
        /\ UNCHANGED <<sensingState, hitTimeUs, scanTimeEndUs, lastEventType>>
    BY <1>3 DEF ScanContinues
  <2>2. maxZoneValues' \in [Zones -> Maxima]
    BY <1>1, <2>1, MaximumLemma DEF TypeOK, ScanTypes
  <2> QED
    BY <1>1, <2>1, <2>2, NothingFoundLemma DEF ScanTypes
<1>4. CASE ScanEnds(senseTimeUs, values)
  <2>1. scanTimeEndUs' = senseTimeUs /\ UNCHANGED hitTimeUs
    BY <1>4 DEF ScanEnds
  <2> QED
    BY <1>1, <1>4, <2>1, ScanEndsLemma DEF ScanTypes, ResultTypes
<1>5. CASE SenseMask(senseTimeUs)
  <2>1. /\ sensingState' \in {"Mask", "Decay", "PeakDetect"} /\ NothingFound
        /\ UNCHANGED <<hitTimeUs, scanTimeEndUs, maxZoneValues, lastEventType>>
    BY <1>5 DEF SenseMask
  <2> QED
    BY <1>1, <2>1, NothingFoundLemma DEF ScanTypes
<1>6. CASE SenseDecay(senseTimeUs, values, touched)
  <2> DEFINE elapsedUs == ElapsedUs(senseTimeUs,
                                    (scanTimeEndUs + settings.maskTime) % ClockSize)
  <2>1. CASE elapsedUs < settings.decayTime
    BY <1>6, <2>1, DetectPeakLemma DEF SenseDecay
  <2>2. CASE ~(elapsedUs < settings.decayTime)
    <3>1. /\ sensingState' = "PeakDetect" /\ NothingFound
          /\ UNCHANGED <<hitTimeUs, scanTimeEndUs, maxZoneValues, lastEventType>>
      BY <1>6, <2>2 DEF SenseDecay
    <3> QED
      BY <1>1, <3>1, NothingFoundLemma DEF ScanTypes
  <2> QED
    BY <2>1, <2>2
<1> QED
  BY <1>2, <1>3, <1>4, <1>5, <1>6 DEF SensingStep

(* The age of the last report is bounded. *)
LEMMA AgeLemma ==
  ASSUME TypeOK, NEW us \in Nat
  PROVE  /\ Age(us) \in 0..MaxAge
         /\ Age(us) = IF sinceReport + us <= MaxAge THEN sinceReport + us ELSE MaxAge
BY PadSensingAssumption DEF TypeOK, Age, Smaller

(* A pad starts with the types of its variables. *)
LEMMA InitTypes == Init => TypeOK
<1> SUFFICES ASSUME Init PROVE TypeOK
  OBVIOUS
<1>1. 0 \in Clock /\ MaxAge \in 0..MaxAge /\ StartPins \subseteq 0..3
  BY PadSensingAssumption DEF Clock
<1>2. 0 \in Maxima /\ 0 \in Velocities /\ NoMessage \in Messages
  BY ScalingAssumption, MaximaLemma DEF Velocities, NoMessage, Messages, Zones
<1>3. (settings.chokeType = "TouchSensor") \in BOOLEAN
  OBVIOUS
<1> QED
  BY <1>1, <1>2, <1>3 DEF Init, TypeOK, Maxima
(* What an iteration with the pad does: without a connector the pad keeps  *)
(* its state, and what it found before is looked at again.                 *)
LEMMA SenseLemma ==
  ASSUME TypeOK, NEW us \in 1..MaxLoopUs, NEW raw \in Readings, NEW touched,
         Sense(us, raw, touched)
  PROVE  /\ ReadInputValues(raw) \in [Zones -> Values]
         /\ now' \in Clock /\ us \in Nat
         /\ ScanTypes' /\ ResultTypes'
         /\ \/ /\ pinCount \in 1..3
               /\ SensingStep(now', ReadInputValues(raw), touched)
               /\ scanned' = Seen(ReadInputValues(raw), touched)
                               \cup (IF sensingState = "Scan" THEN scanned ELSE {})
            \/ pinCount = 0 /\ UNCHANGED <<scan, result, scanned>>
         /\ sent' = Message(hits', hitVelocities', isChoked')
         /\ UNCHANGED config
<1>1. ReadInputValues(raw) \in [Zones -> Values] /\ pinCount \in 0..3
  BY SamplesLemma DEF TypeOK
<1>2. Passes(us) /\ UNCHANGED config /\ sent' = Message(hits', hitVelocities', isChoked')
  BY DEF Sense
<1>3. now' \in Clock
  BY <1>2, ClockMoves
<1>4. us \in Nat
  BY PadSensingAssumption
<1>5. CASE IsConnectorActive
  <2>1. /\ SensingStep(now', ReadInputValues(raw), touched)
        /\ scanned' = Seen(ReadInputValues(raw), touched)
                        \cup (IF sensingState = "Scan" THEN scanned ELSE {})
    BY <1>5 DEF Sense, SensingStep
  <2>2. pinCount \in 1..3
    BY <1>1, <1>5 DEF IsConnectorActive
  <2>3. ScanTypes' /\ ResultTypes'
    BY <1>1, <1>3, <2>1, <2>2, SensingStepTypes
  <2> QED
    BY <1>1, <1>2, <1>3, <1>4, <2>1, <2>2, <2>3
<1>6. CASE ~IsConnectorActive
  <2>1. UNCHANGED <<scan, result, scanned>>
    BY <1>6 DEF Sense
  <2>2. pinCount = 0
    BY <1>1, <1>6 DEF IsConnectorActive
  <2>3. ScanTypes' /\ ResultTypes'
    BY <2>1 DEF TypeOK, ScanTypes, ResultTypes, Maxima, scan, result
  <2> QED
    BY <1>1, <1>2, <1>3, <1>4, <2>1, <2>2, <2>3
<1> QED
  BY <1>5, <1>6

(* Every step keeps them. *)
LEMMA NextTypes == TypeOK /\ [Next]_vars => TypeOK'
<1> SUFFICES ASSUME TypeOK, [Next]_vars PROVE TypeOK'
  OBVIOUS
<1>1. ScanTypes /\ ResultTypes /\ MaxAge \in 0..MaxAge
  BY PadSensingAssumption DEF TypeOK, ScanTypes, ResultTypes, Maxima
<1>2. NoMessage \in Messages
  BY ScalingAssumption DEF NoMessage, Messages, Velocities, Zones
<1> DEFINE ConfigTypes == /\ settings \in StartSettings \cup WebSettings
                          /\ pinCount \in 0..3
                          /\ touchSensor \in BOOLEAN
                          /\ enabled \in BOOLEAN
<1>3. ConfigTypes
  BY DEF TypeOK
<1>4. UNCHANGED config => ConfigTypes'
  BY <1>3 DEF config
<1>5. \A us \in 1..MaxLoopUs : us \in Nat /\ (Passes(us) => now' \in Clock)
                               /\ Age(us) \in 0..MaxAge
  <2> TAKE us \in 1..MaxLoopUs
  <2>1. us \in Nat
    BY PadSensingAssumption
  <2> QED
    BY <2>1, ClockMoves, AgeLemma
<1>6. ASSUME NEW us \in 1..MaxLoopUs, NEW raw \in Readings, NEW touched \in Touches,
             Sense(us, raw, touched)
      PROVE  TypeOK'
  <2>1. /\ now' \in Clock /\ ScanTypes' /\ ResultTypes' /\ ConfigTypes'
        /\ sent' = Message(hits', hitVelocities', isChoked')
    BY <1>4, <1>6, SenseLemma
  <2>2. sent' \in Messages
    BY <2>1, MessageLemma DEF ResultTypes
  <2>3. scanned' \subseteq {"peak", "choke", "change"}
    <3>1. Seen(ReadInputValues(raw), touched) \subseteq {"peak", "choke"}
      BY DEF Seen
    <3> QED
      BY <1>6, <3>1 DEF Sense, TypeOK
  <2>4. sinceReport' \in 0..MaxAge
    <3>1. sinceReport' = IF sent'.type = "none" THEN Age(us) ELSE 0
      BY <1>6 DEF Sense
    <3> QED
      BY <1>5, <3>1, PadSensingAssumption
  <2> QED
    BY <2>1, <2>2, <2>3, <2>4 DEF TypeOK, ScanTypes, ResultTypes, Maxima
<1>7. ASSUME NEW us \in 1..MaxLoopUs, Pass(us) PROVE TypeOK'
  <2>1. /\ Passes(us) /\ sent' = NoMessage /\ sinceReport' = Age(us)
        /\ UNCHANGED <<config, scan, result, scanned>>
    BY <1>7 DEF Pass
  <2>2. ScanTypes' /\ ResultTypes'
    BY <1>1, <2>1 DEF ScanTypes, ResultTypes, scan, result
  <2>3. now' \in Clock /\ ConfigTypes' /\ sent' \in Messages /\ sinceReport' \in 0..MaxAge
    BY <1>2, <1>4, <1>5, <2>1
  <2> QED
    BY <2>1, <2>2, <2>3 DEF TypeOK, ScanTypes, ResultTypes, Maxima
<1>8. ASSUME NEW us \in 1..MaxLoopUs, NEW isHit \in BOOLEAN, LatencySense(us, isHit)
      PROVE  TypeOK'
  <2> DEFINE cleared == KeepUnwired(hits, FALSE)
  <2>1. /\ Passes(us) /\ sent' = NoMessage /\ sinceReport' = Age(us)
        /\ UNCHANGED <<config, sensingState, scanTimeEndUs, maxZoneValues,
                       lastEventType, scanned>>
        /\ hits' = [cleared EXCEPT ![0] = isHit]
        /\ hitVelocities' = KeepUnwired(hitVelocities, 0)
        /\ isChoked' = FALSE
        /\ hitTimeUs' = IF isHit THEN now' ELSE hitTimeUs
    BY <1>8 DEF LatencySense
  <2>2. cleared \in [Zones -> BOOLEAN] /\ hitVelocities' \in [Zones -> Velocities]
    BY <2>1, ResetLemma
  <2> HIDE DEF cleared
  <2>3. now' \in Clock /\ ConfigTypes' /\ sent' \in Messages /\ sinceReport' \in 0..MaxAge
    BY <1>2, <1>4, <1>5, <2>1
  <2>4. ResultTypes'
    BY <2>1, <2>2 DEF ResultTypes
  <2>5. ScanTypes'
    <3>1. hitTimeUs' \in Clock
      BY <1>1, <2>1, <2>3 DEF ScanTypes
    <3> QED
      BY <1>1, <2>1, <3>1 DEF ScanTypes
  <2> QED
    BY <2>1, <2>3, <2>4, <2>5 DEF TypeOK, ScanTypes, ResultTypes, Maxima
<1>9. ASSUME SettingsChanged, ConfigTypes' PROVE TypeOK'
  <2>1. /\ sent' = NoMessage /\ scanned' = scanned \cup {"change"}
        /\ sinceReport' = MaxAge /\ UNCHANGED <<now, scan, result>>
    BY <1>9 DEF SettingsChanged
  <2>2. ScanTypes' /\ ResultTypes'
    BY <1>1, <2>1 DEF ScanTypes, ResultTypes, scan, result
  <2> QED
    BY <1>1, <1>2, <1>9, <2>1, <2>2 DEF TypeOK, ScanTypes, ResultTypes, Maxima
<1>10. ASSUME NEW newSettings \in WebSettings, ApplyPadSettings(newSettings)
       PROVE  TypeOK'
  <2>1. SettingsChanged
    BY <1>10 DEF ApplyPadSettings
  <2>2. touchSensor' \in BOOLEAN
    BY <1>10 DEF ApplyPadSettings
  <2>3. ConfigTypes'
    BY <1>3, <1>10, <2>2 DEF ApplyPadSettings
  <2> QED
    BY <1>9, <2>1, <2>3
<1>11. ASSUME NEW pins \in WebPins, SetConnector(pins) PROVE TypeOK'
  <2>1. SettingsChanged
    BY <1>11 DEF SetConnector
  <2>2. ConfigTypes'
    BY <1>3, <1>11, PadSensingAssumption DEF SetConnector
  <2> QED
    BY <1>9, <2>1, <2>2
<1>12. ASSUME NEW flag \in WebFlags, SetTouchSensor(flag) \/ SetEnabled(flag)
       PROVE  TypeOK'
  <2>1. SettingsChanged
    BY <1>12 DEF SetTouchSensor, SetEnabled
  <2>2. ConfigTypes'
    BY <1>3, <1>12, PadSensingAssumption DEF SetTouchSensor, SetEnabled
  <2> QED
    BY <1>9, <2>1, <2>2
<1>13. CASE UNCHANGED vars
  BY <1>13 DEF vars, config, scan, result, history, TypeOK
<1>14. CASE Next
  BY <1>6, <1>7, <1>8, <1>10, <1>11, <1>12, <1>14 DEF Next, Evaluation
<1> QED
  BY <1>13, <1>14

(* Every variable of a pad has its type, for every width of micros() and   *)
(* of the switch counters, and all settings of the web page: velocities    *)
(* are MIDI values, whatever the samples and the bias of a zone are.       *)
THEOREM PadTypes == Spec => []TypeOK
BY InitTypes, NextTypes, PTL DEF Spec
-----------------------------------------------------------------------------
(* No hit is lost, and no choke made up.                                   *)

(* While the settings stay, a scan was started by a peak, which is kept in *)
(* the maxima, or by a choke.                                              *)
ScanHasACause ==
  sensingState = "Scan" /\ "change" \notin scanned =>
    /\ "peak" \in scanned \/ "choke" \in scanned
    /\ "peak" \in scanned => PeakWasSeen(maxZoneValues)

(* A pad without a connector keeps a choke only if the connector was       *)
(* removed since.                                                          *)
ChokeIsFresh == pinCount = 0 /\ isChoked => "change" \in scanned

PlayInv == TypeOK /\ ScanHasACause /\ ChokeIsFresh


(* A step of the state machine keeps what is known of the cause of a scan. *)
LEMMA SensingStepKeepsTheCause ==
  ASSUME TypeOK, ScanHasACause, pinCount \in 1..3,
         NEW values \in [Zones -> Values], NEW senseTimeUs \in Clock, NEW touched,
         SensingStep(senseTimeUs, values, touched), UNCHANGED config,
         scanned' = Seen(values, touched)
                      \cup (IF sensingState = "Scan" THEN scanned ELSE {})
  PROVE  /\ ScanHasACause'
         /\ sensingState = "Scan" /\ "change" \notin scanned' =>
              /\ "peak" \in scanned' \/ "choke" \in scanned'
              /\ "peak" \in scanned' => PeakWasSeen(maxZoneValues')
<1>1. pinCount \in 0..3 /\ pinCount > 0 /\ settings \in StartSettings \cup WebSettings
  BY DEF TypeOK
<1>2. /\ PeakZones \subseteq ActiveZones /\ ActiveZones \subseteq Zones
      /\ PeakZones' = PeakZones /\ settings' = settings
  <2>1. settings' = settings /\ pinCount' = pinCount
    BY DEF config
  <2>2. PeakZones' = PeakZones
    BY <2>1 DEF PeakZones, IsPiezoPad, ActiveZones, ActiveZoneCount, ActivePinCount,
                ZoneCount, SharesPin
  <2> QED
    BY <1>1, <2>1, <2>2, ZonesLemma
<1>3. \A zone \in Zones : /\ settings.zoneThresholdsMin[zone] \in Nat
                          /\ values[zone] \in Nat /\ maxZoneValues[zone] \in Maxima
                          /\ maxZoneValues[zone] \in Nat
  BY <1>1, SettingsLemma, MaximaLemma DEF TypeOK, Maxima
<1>4. /\ "peak" \in Seen(values, touched) <=> IsPeak(values, settings.zoneThresholdsMin)
      /\ "choke" \in Seen(values, touched) <=> IsGrabbed(values, touched)
      /\ "change" \notin Seen(values, touched)
  BY DEF Seen
(* A peak is kept in the maxima, whether it is of this sample or earlier. *)
<1>5. ASSUME NEW maxima, \A zone \in Zones : maxima[zone] \in Maxima,
             maxZoneValues' = UpdateMaxSensorValue(maxima, values),
             IsPeak(values, settings.zoneThresholdsMin) \/ PeakWasSeen(maxima)
      PROVE  PeakWasSeen(maxZoneValues')
  <2>1. \A zone \in PeakZones : /\ maxZoneValues'[zone] >= maxima[zone]
                                /\ IsAtThreshold(values, zone)
                                     => maxZoneValues'[zone] >= values[zone]
    BY <1>1, <1>2, <1>5, MaximumLemma
  <2>2. \A zone \in Zones : maxima[zone] \in Nat /\ maxZoneValues'[zone] \in Nat
    <3>1. maxZoneValues' \in [Zones -> Maxima]
      BY <1>1, <1>5, MaximumLemma
    <3> QED
      BY <1>5, <3>1, MaximaLemma
  <2>3. CASE IsPeak(values, settings.zoneThresholdsMin)
    <3>1. PICK zone \in PeakZones : values[zone] >= settings.zoneThresholdsMin[zone]
      BY <2>3 DEF IsPeak
    <3>2. maxZoneValues'[zone] >= values[zone]
      BY <2>1, <3>1 DEF IsAtThreshold
    <3>3. maxZoneValues'[zone] >= settings.zoneThresholdsMin[zone]
      BY <1>2, <1>3, <2>2, <3>1, <3>2
    <3> QED
      BY <3>3 DEF PeakWasSeen
  <2>4. CASE PeakWasSeen(maxima)
    <3>1. PICK zone \in PeakZones : maxima[zone] >= settings.zoneThresholdsMin[zone]
      BY <2>4 DEF PeakWasSeen
    <3>2. maxZoneValues'[zone] >= settings.zoneThresholdsMin[zone]
      BY <1>2, <1>3, <2>1, <2>2, <3>1
    <3> QED
      BY <3>2 DEF PeakWasSeen
  <2> QED
    BY <1>5, <2>3, <2>4
<1>6. PeakWasSeen(maxZoneValues)' <=> PeakWasSeen(maxZoneValues')
  BY <1>2 DEF PeakWasSeen
(* the first sample of a scan *)
<1>7. ASSUME sensingState # "Scan", NEW thresholds,
             DetectPeak(senseTimeUs, values, touched, thresholds),
             IsPeak(values, thresholds) => IsPeak(values, settings.zoneThresholdsMin)
      PROVE  ScanHasACause'
  <2>1. CASE sensingState' = "Scan"
    <3>1. /\ IsPeak(values, settings.zoneThresholdsMin) \/ IsGrabbed(values, touched)
          /\ maxZoneValues'
               = UpdateMaxSensorValue(KeepUnwired(maxZoneValues, 0), values)
      BY <1>7, <2>1, DetectPeakLemma
    <3>2. scanned' = Seen(values, touched)
      BY <1>7
    <3>3. \A zone \in Zones : KeepUnwired(maxZoneValues, 0)[zone] \in Maxima
      BY ResetLemma
    <3>4. "peak" \in scanned' => PeakWasSeen(maxZoneValues')
      BY <1>4, <1>5, <3>1, <3>2, <3>3
    <3> QED
      BY <1>4, <1>6, <3>1, <3>2, <3>4 DEF ScanHasACause
  <2> QED
    BY <2>1 DEF ScanHasACause
(* a further sample of a scan *)
<1>8. ASSUME sensingState = "Scan",
             maxZoneValues' = UpdateMaxSensorValue(maxZoneValues, values)
      PROVE  "change" \notin scanned' =>
               /\ "peak" \in scanned' \/ "choke" \in scanned'
               /\ "peak" \in scanned' => PeakWasSeen(maxZoneValues')
  <2> SUFFICES ASSUME "change" \notin scanned'
               PROVE  /\ "peak" \in scanned' \/ "choke" \in scanned'
                      /\ "peak" \in scanned' => PeakWasSeen(maxZoneValues')
    OBVIOUS
  <2>1. scanned' = Seen(values, touched) \cup scanned
    BY <1>8
  <2>2. /\ "peak" \in scanned \/ "choke" \in scanned
        /\ "peak" \in scanned => PeakWasSeen(maxZoneValues)
    BY <1>8, <2>1 DEF ScanHasACause
  <2>3. "peak" \in scanned' => PeakWasSeen(maxZoneValues')
    BY <1>3, <1>4, <1>5, <1>8, <2>1, <2>2
  <2> QED
    BY <2>1, <2>2, <2>3
<1>9. CASE SensePeakDetect(senseTimeUs, values, touched)
  BY <1>7, <1>9 DEF SensePeakDetect
<1>10. CASE ScanContinues(senseTimeUs, values)
  BY <1>6, <1>8, <1>10 DEF ScanContinues, ScanHasACause
<1>11. CASE ScanEnds(senseTimeUs, values)
  <2>1. sensingState' # "Scan"
    BY <1>11, ScanEndsLemma
  <2>2. sensingState = "Scan" /\ maxZoneValues' = UpdateMaxSensorValue(maxZoneValues, values)
    BY <1>11 DEF ScanEnds
  <2> QED
    BY <1>8, <2>1, <2>2 DEF ScanHasACause
<1>12. CASE SenseMask(senseTimeUs)
  BY <1>12 DEF SenseMask, ScanHasACause
<1>13. CASE SenseDecay(senseTimeUs, values, touched)
  <2> DEFINE maskEndTimeUs == (scanTimeEndUs + settings.maskTime) % ClockSize
             elapsedUs == ElapsedUs(senseTimeUs, maskEndTimeUs)
  <2>1. elapsedUs \in Nat
    <3>1. settings.maskTime \in Nat /\ scanTimeEndUs \in Nat /\ ClockSize \in Nat \ {0}
      BY <1>1, SettingsLemma, PadSensingAssumption DEF TypeOK, Clock
    <3>2. maskEndTimeUs \in Clock
      BY <3>1 DEF Clock
    <3> HIDE DEF maskEndTimeUs
    <3>3. elapsedUs \in Clock
      BY <3>2, ElapsedLemma
    <3> QED
      BY <3>1, <3>3 DEF Clock
  <2>2. /\ sensingState = "Decay"
        /\ IF elapsedUs < settings.decayTime
           THEN DetectPeak(senseTimeUs, values, touched, DecayedThresholds(elapsedUs))
           ELSE sensingState' = "PeakDetect"
    BY <1>13 DEF SenseDecay
  <2> HIDE DEF elapsedUs
  <2>3. CASE elapsedUs < settings.decayTime
    <3>1. IsPeak(values, DecayedThresholds(elapsedUs))
            => IsPeak(values, settings.zoneThresholdsMin)
      BY <1>1, <1>3, <2>1, <2>3, DecayedPeakLemma
    <3> QED
      BY <1>7, <2>2, <2>3, <3>1
  <2>4. CASE ~(elapsedUs < settings.decayTime)
    BY <2>2, <2>4 DEF ScanHasACause
  <2> QED
    BY <2>2, <2>3, <2>4
<1> QED
  BY <1>9, <1>10, <1>11, <1>12, <1>13 DEF SensingStep
(* A pad starts without a scan and without a choke. *)
LEMMA InitPlay == Init => PlayInv
BY InitTypes DEF Init, PlayInv, ScanHasACause, ChokeIsFresh

(* Every step keeps the cause of a scan: a change of the settings ends it. *)
LEMMA NextPlay == PlayInv /\ [Next]_vars => PlayInv'
<1> SUFFICES ASSUME PlayInv, [Next]_vars PROVE PlayInv'
  OBVIOUS
<1>1. TypeOK /\ ScanHasACause /\ ChokeIsFresh
  BY DEF PlayInv
<1>2. TypeOK'
  BY <1>1, NextTypes
<1>3. ASSUME UNCHANGED <<config, sensingState, maxZoneValues, scanned>>
      PROVE  ScanHasACause'
  <2>1. UNCHANGED <<settings, pinCount, sensingState, maxZoneValues, scanned>>
    BY <1>3 DEF config
  <2>2. PeakWasSeen(maxZoneValues)' <=> PeakWasSeen(maxZoneValues)
    BY <2>1 DEF PeakWasSeen, PeakZones, IsPiezoPad, ActiveZones, ActiveZoneCount,
                ActivePinCount, ZoneCount, SharesPin
  <2> QED
    BY <1>1, <2>1, <2>2 DEF ScanHasACause
<1>4. ASSUME UNCHANGED <<config, scan, result, scanned>>
      PROVE  ScanHasACause' /\ ChokeIsFresh'
  <2>1. ScanHasACause'
    BY <1>3, <1>4 DEF scan
  <2>2. ChokeIsFresh'
    BY <1>1, <1>4 DEF config, result, ChokeIsFresh
  <2> QED
    BY <2>1, <2>2
<1>5. ASSUME NEW us \in 1..MaxLoopUs, NEW raw \in Readings, NEW touched \in Touches,
             Sense(us, raw, touched)
      PROVE  ScanHasACause' /\ ChokeIsFresh'
  <2> DEFINE values == ReadInputValues(raw)
  <2>1. CASE /\ pinCount \in 1..3
             /\ SensingStep(now', values, touched)
             /\ scanned' = Seen(values, touched)
                             \cup (IF sensingState = "Scan" THEN scanned ELSE {})
    <3>1. values \in [Zones -> Values] /\ now' \in Clock /\ UNCHANGED config
      BY <1>1, <1>5, SenseLemma
    <3>2. ScanHasACause'
      BY <1>1, <2>1, <3>1, SensingStepKeepsTheCause
    <3>3. pinCount' # 0
      BY <2>1, <3>1 DEF config
    <3> QED
      BY <3>2, <3>3 DEF ChokeIsFresh
  <2>2. CASE pinCount = 0 /\ UNCHANGED <<scan, result, scanned>>
    BY <1>4, <1>5, <2>2 DEF Sense
  <2> QED
    BY <1>1, <1>5, <2>1, <2>2, SenseLemma
<1>6. ASSUME NEW us \in 1..MaxLoopUs, Pass(us) PROVE ScanHasACause' /\ ChokeIsFresh'
  BY <1>4, <1>6 DEF Pass
<1>7. ASSUME NEW us \in 1..MaxLoopUs, NEW isHit \in BOOLEAN, LatencySense(us, isHit)
      PROVE  ScanHasACause' /\ ChokeIsFresh'
  <2>1. ScanHasACause'
    BY <1>3, <1>7 DEF LatencySense
  <2>2. isChoked' = FALSE
    BY <1>7 DEF LatencySense
  <2> QED
    BY <2>1, <2>2 DEF ChokeIsFresh
<1>8. ASSUME SettingsChanged PROVE ScanHasACause' /\ ChokeIsFresh'
  BY <1>8 DEF SettingsChanged, ScanHasACause, ChokeIsFresh
<1>9. CASE UNCHANGED vars
  <2>1. UNCHANGED <<config, scan, result, scanned>>
    BY <1>9 DEF vars, history
  <2> QED
    BY <1>2, <1>4, <2>1 DEF PlayInv
<1>10. CASE Next
  <2>1. ScanHasACause' /\ ChokeIsFresh'
    BY <1>5, <1>6, <1>7, <1>8, <1>10 DEF Next, Evaluation, ApplyPadSettings, SetConnector,
       SetTouchSensor, SetEnabled
  <2> QED
    BY <1>2, <2>1 DEF PlayInv
<1> QED
  BY <1>9, <1>10

(* So they hold at any time. *)
LEMMA PlayIsInvariant == Spec => []PlayInv
BY InitPlay, NextPlay, PTL DEF Spec

(* The end of a scan is an iteration in which the state machine runs. *)
LEMMA OnlySensingEndsAScan ==
  ASSUME TypeOK, [Next]_vars, ScanFinishes
  PROVE  \E us \in 1..MaxLoopUs, raw \in Readings, touched \in Touches :
           /\ Sense(us, raw, touched)
           /\ pinCount \in 1..3
           /\ ScanEnds(now', ReadInputValues(raw))
<1>1. sensingState = "Scan" /\ sensingState' # "Scan"
  BY DEF ScanFinishes
<1>2. Evaluation
  BY <1>1 DEF vars, scan, Next, Pass, LatencySense, SettingsChanged, ApplyPadSettings,
     SetConnector, SetTouchSensor, SetEnabled
<1>3. PICK us \in 1..MaxLoopUs, raw \in Readings, touched \in Touches :
        Sense(us, raw, touched)
  BY <1>2 DEF Evaluation
<1>4. pinCount \in 1..3 /\ SensingStep(now', ReadInputValues(raw), touched)
  <2>1. ~UNCHANGED scan
    BY <1>1 DEF scan
  <2> QED
    BY <1>3, <2>1, SenseLemma
<1>5. ScanEnds(now', ReadInputValues(raw))
  BY <1>1, <1>4 DEF SensingStep, SensePeakDetect, ScanContinues, SenseMask, SenseDecay
<1> QED
  BY <1>3, <1>4, <1>5

(* The message of the iteration that ends a scan.                          *)
LEMMA MessageOfAScan ==
  ASSUME TypeOK, NEW us \in 1..MaxLoopUs, NEW raw \in Readings, NEW touched \in Touches,
         Sense(us, raw, touched), pinCount \in 1..3,
         ScanEnds(now', ReadInputValues(raw))
  PROVE  /\ PeakWasSeen(maxZoneValues') => /\ sent'.type = "note"
                                           /\ sent'.velocity > 0
                                           /\ maxZoneValues'[sent'.zone] > 0
         /\ sent'.type = "choke" => ~PeakWasSeen(maxZoneValues')
<1> DEFINE values == ReadInputValues(raw)
<1>1. values \in [Zones -> Values] /\ now' \in Clock
      /\ sent' = Message(hits', hitVelocities', isChoked')
  BY SenseLemma
<1>2. /\ hits' \in [Zones -> BOOLEAN] /\ isChoked' \in BOOLEAN
      /\ hitVelocities' \in [Zones -> Velocities]
      /\ \/ \E zone \in ActiveZones :
              IsHitOf(zone) /\ (PeakWasSeen(maxZoneValues') => hitVelocities'[zone] > 0)
         \/ ~PeakWasSeen(maxZoneValues')
  BY <1>1, ScanEndsLemma
<1>3. ASSUME NEW zone \in ActiveZones, IsHitOf(zone)
      PROVE  /\ sent'.type = "note" /\ sent'.zone = zone
             /\ sent'.velocity = hitVelocities'[zone]
             /\ maxZoneValues'[zone] > 0
  <2>1. zone \in Zones
    BY ZonesLemma DEF TypeOK
  <2> QED
    BY <1>1, <1>2, <1>3, <2>1, MessageLemma DEF IsHitOf
<1> QED
  BY <1>2, <1>3

(* No hit is lost and none is silent: on every pad, with all thresholds,   *)
(* times and biases, a scan that saw a sample at its threshold ends with   *)
(* the note of a zone that was struck or switched on, and its velocity is  *)
(* not 0.  The invariant is that the maxima still hold the peak that was   *)
(* seen, however long the scan takes; a start below the configured         *)
(* threshold would break it (DecayedPeakLemma).                            *)
THEOREM EveryPeakAlwaysPlays == Spec => EveryPeakIsPlayed
<1>1. PlayInv /\ [Next]_vars =>
        [ScanFinishes /\ "peak" \in scanned' /\ "change" \notin scanned' =>
           /\ sent'.type = "note"
           /\ sent'.velocity > 0
           /\ maxZoneValues'[sent'.zone] > 0]_vars
  <2> SUFFICES ASSUME PlayInv, [Next]_vars, ScanFinishes,
                      "peak" \in scanned', "change" \notin scanned'
               PROVE  /\ sent'.type = "note"
                      /\ sent'.velocity > 0
                      /\ maxZoneValues'[sent'.zone] > 0
    OBVIOUS
  <2>1. TypeOK /\ ScanHasACause
    BY DEF PlayInv
  <2>2. PICK us \in 1..MaxLoopUs, raw \in Readings, touched \in Touches :
          /\ Sense(us, raw, touched)
          /\ pinCount \in 1..3
          /\ ScanEnds(now', ReadInputValues(raw))
    BY <2>1, OnlySensingEndsAScan
  <2>3. ReadInputValues(raw) \in [Zones -> Values] /\ now' \in Clock /\ UNCHANGED config
        /\ SensingStep(now', ReadInputValues(raw), touched)
        /\ scanned' = Seen(ReadInputValues(raw), touched)
                        \cup (IF sensingState = "Scan" THEN scanned ELSE {})
    BY <2>1, <2>2, SenseLemma
  <2>4. PeakWasSeen(maxZoneValues')
    BY <2>1, <2>2, <2>3, SensingStepKeepsTheCause DEF ScanFinishes
  <2> QED
    BY <2>1, <2>2, <2>4, MessageOfAScan
<1> QED
  BY <1>1, PlayIsInvariant, PTL DEF Spec, EveryPeakIsPlayed

(* No choke is made up: a choke is sent only for a pad that was grabbed    *)
(* and not struck since the scan began, unless the settings were changed   *)
(* meanwhile.                                                              *)
THEOREM NoChokeIsMadeUp == Spec => NoPhantomChoke
<1>1. PlayInv /\ [Next]_vars =>
        [sent'.type = "choke" /\ "change" \notin scanned' =>
           "choke" \in scanned' /\ "peak" \notin scanned']_vars
  <2> SUFFICES ASSUME PlayInv, Next, sent'.type = "choke", "change" \notin scanned'
               PROVE  "choke" \in scanned' /\ "peak" \notin scanned'
    OBVIOUS
  <2>1. TypeOK /\ ScanHasACause /\ ChokeIsFresh
    BY DEF PlayInv
  <2>2. Evaluation
    <3>1. sent' # NoMessage
      BY DEF NoMessage
    <3> QED
      BY <3>1 DEF Next, Pass, LatencySense, SettingsChanged, ApplyPadSettings,
         SetConnector, SetTouchSensor, SetEnabled
  <2>3. PICK us \in 1..MaxLoopUs, raw \in Readings, touched \in Touches :
          Sense(us, raw, touched)
    BY <2>2 DEF Evaluation
  <2> DEFINE values == ReadInputValues(raw)
  <2>4. /\ values \in [Zones -> Values] /\ now' \in Clock /\ ResultTypes'
        /\ sent' = Message(hits', hitVelocities', isChoked') /\ UNCHANGED config
    BY <2>1, <2>3, SenseLemma
  <2>5. isChoked'
    BY <2>4, MessageLemma DEF ResultTypes
  <2>6. ASSUME pinCount = 0, UNCHANGED <<scan, result, scanned>> PROVE FALSE
    BY <2>1, <2>5, <2>6 DEF ChokeIsFresh, result
  <2>7. /\ pinCount \in 1..3 /\ SensingStep(now', values, touched)
        /\ scanned' = Seen(values, touched)
                        \cup (IF sensingState = "Scan" THEN scanned ELSE {})
    BY <2>1, <2>3, <2>6, SenseLemma
  <2>8. ScanEnds(now', values)
    <3>1. \A thresholds : DetectPeak(now', values, touched, thresholds) => ~isChoked'
      BY DEF DetectPeak, NothingFound
    <3> QED
      BY <2>5, <2>7, <3>1 DEF SensingStep, SensePeakDetect, ScanContinues, SenseMask,
         SenseDecay, NothingFound
  <2>9. sensingState = "Scan"
    BY <2>8 DEF ScanEnds
  <2>10. ~PeakWasSeen(maxZoneValues')
    BY <2>1, <2>3, <2>7, <2>8, MessageOfAScan
  <2> QED
    BY <2>1, <2>4, <2>7, <2>9, <2>10, SensingStepKeepsTheCause
<1> QED
  BY <1>1, PlayIsInvariant, PTL DEF Spec, NoPhantomChoke
-----------------------------------------------------------------------------
(* Nothing is sent twice, if the wiring of a pad only grows: a hit that is *)
(* left in a zone that is not wired any more is sent again and again (see  *)
(* HitsLastOneIteration).  The wiring is that of the connector and of the  *)
(* type of the pad; everything else may change at any time.                *)

ZonesStayWired == [][ActiveZoneCount <= ActiveZoneCount']_vars

(* Nothing is left behind in zones that are not wired. *)
UnwiredIsSilent ==
  /\ \A zone \in Zones \ ActiveZones : ~hits[zone]
  /\ pinCount = 0 => ~isChoked

(* How old the last report is at least: the mask time, which is counted    *)
(* from the end of the scan, and the time of the scan that is running.     *)
LeastAge ==
  CASE sensingState = "Scan" -> settings.maskTime + ElapsedUs(now, hitTimeUs)
    [] sensingState = "Mask" -> ElapsedUs(now, scanTimeEndUs)
    [] OTHER -> settings.maskTime

ReportIsOld == sinceReport >= Smaller(LeastAge, MaxAge)

WiredInv == TypeOK /\ UnwiredIsSilent /\ ReportIsOld

WiringTypes ==
  /\ ActiveZoneCount \in 0..3 /\ pinCount \in 0..3
  /\ pinCount > 0 <=> ActiveZoneCount > 0

(* A pad has zones exactly if it has pins. *)
LEMMA TypesOfTheWiring == TypeOK => WiringTypes
BY ZonesLemma DEF TypeOK, WiringTypes

(* The same for the next state. *)
LEMMA NextTypesOfTheWiring == TypeOK' => WiringTypes'
BY TypesOfTheWiring, PTL

(* If the number of zones does not shrink, no zone is lost. *)
LEMMA WiredZonesLemma ==
  ASSUME TypeOK, TypeOK', ActiveZoneCount <= ActiveZoneCount'
  PROVE  /\ ActiveZones \subseteq ActiveZones'
         /\ pinCount > 0 => pinCount' > 0
<1>1. /\ ActiveZoneCount \in 0..3 /\ pinCount \in 0..3
      /\ pinCount > 0 <=> ActiveZoneCount > 0
  BY TypesOfTheWiring DEF WiringTypes
<1>2. /\ ActiveZoneCount' \in 0..3 /\ pinCount' \in 0..3
      /\ pinCount' > 0 <=> ActiveZoneCount' > 0
  BY NextTypesOfTheWiring DEF WiringTypes
<1>3. ActiveZones \subseteq ActiveZones'
  <2>1. ActiveZones' = 0..(ActiveZoneCount' - 1) /\ ActiveZones = 0..(ActiveZoneCount - 1)
    BY DEF ActiveZones
  <2>2. ASSUME NEW m \in 0..3, NEW n \in 0..3, m <= n PROVE 0..(m - 1) \subseteq 0..(n - 1)
    BY <2>2
  <2> QED
    BY <1>1, <1>2, <2>1, <2>2
<1>4. pinCount > 0 => pinCount' > 0
  BY <1>1, <1>2
<1> QED
  BY <1>3, <1>4
(* What a step of the state machine finds: a message can only come from    *)
(* the end of a scan that starts the mask time.                            *)
LEMMA SensingStepResult ==
  ASSUME TypeOK, pinCount \in 1..3, NEW values \in [Zones -> Values],
         NEW senseTimeUs \in Clock, NEW touched,
         SensingStep(senseTimeUs, values, touched)
  PROVE  /\ \A zone \in Zones : hits'[zone] => zone \in ActiveZones \/ hits[zone]
         /\ \/ ScanEnds(senseTimeUs, values) /\ sensingState' = "Mask"
            \/ /\ ~isChoked'
               /\ \A zone \in Zones : hits'[zone] => zone \notin ActiveZones /\ hits[zone]
<1>1. CASE ScanEnds(senseTimeUs, values)
  BY <1>1, ScanEndsLemma DEF IsHitOf
<1>2. CASE NothingFound
  BY <1>2, NothingFoundLemma
<1>3. \A thresholds : DetectPeak(senseTimeUs, values, touched, thresholds) => NothingFound
  BY DEF DetectPeak
<1> QED
  BY <1>1, <1>2, <1>3 DEF SensingStep, SensePeakDetect, ScanContinues, SenseMask, SenseDecay

(* If nothing is left behind, a message comes from the end of a scan.      *)
LEMMA OnlyScansReport ==
  ASSUME TypeOK, UnwiredIsSilent, NEW us \in 1..MaxLoopUs, NEW raw \in Readings,
         NEW touched \in Touches, Sense(us, raw, touched), sent'.type # "none"
  PROVE  /\ pinCount \in 1..3
         /\ ScanEnds(now', ReadInputValues(raw)) /\ sensingState' = "Mask"
<1> DEFINE values == ReadInputValues(raw)
<1>1. /\ values \in [Zones -> Values] /\ now' \in Clock /\ ResultTypes'
      /\ sent' = Message(hits', hitVelocities', isChoked')
  BY SenseLemma
<1>2. isChoked' \/ \E zone \in Zones : hits'[zone]
  BY <1>1, MessageLemma DEF ResultTypes
<1>3. CASE pinCount = 0 /\ UNCHANGED <<scan, result, scanned>>
  <2>1. ActiveZones = {}
    <3>1. ActiveZoneCount = 0
      BY <1>3, TypesOfTheWiring DEF WiringTypes
    <3> QED
      BY <3>1 DEF ActiveZones
  <2>2. ~isChoked' /\ \A zone \in Zones : ~hits'[zone]
    BY <1>3, <2>1 DEF UnwiredIsSilent, result
  <2> QED
    BY <1>2, <2>2
<1>4. CASE pinCount \in 1..3 /\ SensingStep(now', values, touched)
  <2>1. CASE ScanEnds(now', values) /\ sensingState' = "Mask"
    BY <1>4, <2>1
  <2>2. CASE /\ ~isChoked'
             /\ \A zone \in Zones : hits'[zone] => zone \notin ActiveZones /\ hits[zone]
    BY <1>2, <2>2 DEF UnwiredIsSilent
  <2> QED
    BY <1>1, <1>4, <2>1, <2>2, SensingStepResult
<1> QED
  BY <1>3, <1>4, SenseLemma

(* The age of the last report grows with the clock, up to its bound.       *)
LEMMA ReportAges ==
  ASSUME TypeOK, ReportIsOld, NEW us \in Nat, NEW age \in Nat, LeastAge \in Nat,
         age <= LeastAge + us
  PROVE  Age(us) >= Smaller(age, MaxAge)
<1>1. sinceReport \in Nat /\ MaxAge \in Nat
  BY PadSensingAssumption DEF TypeOK
<1> QED
  BY <1>1 DEF ReportIsOld, Age, Smaller

(* Ages are natural numbers. *)
LEMMA LeastAgeLemma ==
  ASSUME TypeOK
  PROVE  /\ LeastAge \in Nat /\ settings.maskTime \in Nat /\ settings.scanTime \in Nat
         /\ ElapsedUs(now, hitTimeUs) \in Nat /\ ElapsedUs(now, scanTimeEndUs) \in Nat
<1>1. ClockSize \in Nat \ {0} /\ settings.maskTime \in Nat /\ settings.scanTime \in Nat
  BY SettingsLemma, PadSensingAssumption DEF TypeOK
<1>2. ElapsedUs(now, hitTimeUs) \in Clock /\ ElapsedUs(now, scanTimeEndUs) \in Clock
  BY ElapsedLemma DEF TypeOK
<1>3. ElapsedUs(now, hitTimeUs) \in Nat /\ ElapsedUs(now, scanTimeEndUs) \in Nat
  BY <1>1, <1>2 DEF Clock
<1> QED
  BY <1>1, <1>3 DEF LeastAge

(* The same as an implication, for the next lemma. *)
LEMMA LeastAgeType == TypeOK => (LeastAge \in Nat)
BY LeastAgeLemma

(* The least age of the next state is a natural number. *)
LEMMA NextLeastAge == TypeOK' => (LeastAge \in Nat)'
BY LeastAgeType, PTL
(* In an iteration the least age grows by no more than the clock. *)
LEMMA SensingStepAges ==
  ASSUME TypeOK, TypeOK', NEW us \in 1..MaxLoopUs, Passes(us), pinCount \in 1..3,
         NEW values \in [Zones -> Values], NEW touched,
         SensingStep(now', values, touched), UNCHANGED config
  PROVE  /\ LeastAge' <= LeastAge + us
         /\ ScanEnds(now', values) => /\ sensingState' = "Mask" => LeastAge' = 0
                                      /\ settings.scanTime + settings.maskTime
                                           <= LeastAge + us
<1> DEFINE sinceHit == ElapsedUs(now, hitTimeUs)
           sinceEnd == ElapsedUs(now, scanTimeEndUs)
           mask == settings.maskTime
<1>1. /\ us \in Nat /\ mask \in Nat /\ settings.scanTime \in Nat
      /\ sinceHit \in Nat /\ sinceEnd \in Nat /\ LeastAge \in Nat
      /\ settings' = settings
  BY LeastAgeLemma, PadSensingAssumption DEF config
<1>2. /\ ElapsedUs(now', now') = 0 /\ now' \in Clock
      /\ ElapsedUs(now', hitTimeUs) <= sinceHit + us
      /\ ElapsedUs(now', scanTimeEndUs) <= sinceEnd + us
  BY ClockMoves DEF TypeOK
<1>3. /\ ElapsedUs(now', hitTimeUs) \in Nat
      /\ ElapsedUs(now', scanTimeEndUs) \in Nat
  <2>1. /\ ElapsedUs(now', hitTimeUs) \in Clock
        /\ ElapsedUs(now', scanTimeEndUs) \in Clock
    BY <1>2, ElapsedLemma DEF TypeOK
  <2> QED
    BY <2>1, PadSensingAssumption DEF Clock
<1>4. LeastAge' = CASE sensingState' = "Scan" -> mask + ElapsedUs(now', hitTimeUs')
                    [] sensingState' = "Mask" -> ElapsedUs(now', scanTimeEndUs')
                    [] OTHER -> mask
  BY <1>1 DEF LeastAge, ElapsedUs
<1>5. LeastAge = CASE sensingState = "Scan" -> mask + sinceHit
                   [] sensingState = "Mask" -> sinceEnd
                   [] OTHER -> mask
  BY DEF LeastAge
<1> HIDE DEF sinceHit, sinceEnd, mask
<1>6. ASSUME NEW thresholds, DetectPeak(now', values, touched, thresholds),
             sensingState \in {"PeakDetect", "Decay"}
      PROVE  LeastAge' <= LeastAge + us
  <2>1. CASE sensingState' = "Scan" /\ hitTimeUs' = now'
    BY <1>1, <1>2, <1>4, <1>5, <1>6, <2>1
  <2>2. CASE UNCHANGED sensingState
    BY <1>1, <1>4, <1>5, <1>6, <2>2
  <2> QED
    BY <1>2, <1>6, <2>1, <2>2, DetectPeakLemma
<1>7. CASE SensePeakDetect(now', values, touched)
  BY <1>6, <1>7 DEF SensePeakDetect, ScanEnds
<1>8. CASE ScanContinues(now', values)
  <2>1. /\ sensingState = "Scan" /\ UNCHANGED <<sensingState, hitTimeUs>>
        /\ ElapsedUs(now', hitTimeUs) < settings.scanTime
    BY <1>8 DEF ScanContinues
  <2>2. LeastAge' <= LeastAge + us
    BY <1>1, <1>2, <1>3, <1>4, <1>5, <2>1
  <2>3. ~ScanEnds(now', values)
    BY <1>1, <1>3, <2>1 DEF ScanEnds
  <2> QED
    BY <2>2, <2>3
<1>9. CASE ScanEnds(now', values)
  <2>1. /\ sensingState = "Scan" /\ scanTimeEndUs' = now'
        /\ ElapsedUs(now', hitTimeUs) >= settings.scanTime
    BY <1>9 DEF ScanEnds
  <2>2. sensingState' \in {"PeakDetect", "Mask"}
    BY <1>2, <1>9, ScanEndsLemma
  <2>3. sensingState' = "Mask" => LeastAge' = 0
    BY <1>2, <1>4, <2>1
  <2>4. settings.scanTime + mask <= LeastAge + us
    BY <1>1, <1>2, <1>3, <1>5, <2>1
  <2>5. LeastAge' <= LeastAge + us
    BY <1>1, <1>4, <1>5, <2>1, <2>2, <2>3
  <2> QED
    BY <2>3, <2>4, <2>5 DEF mask
<1>10. CASE SenseMask(now')
  <2>1. /\ sensingState = "Mask" /\ UNCHANGED scanTimeEndUs
        /\ sensingState' \in {"Mask", "Decay", "PeakDetect"}
        /\ sensingState' # "Mask" => ~(ElapsedUs(now', scanTimeEndUs) < mask)
    BY <1>10 DEF SenseMask, IsMaskActive, mask
  <2>2. LeastAge' <= LeastAge + us
    BY <1>1, <1>2, <1>3, <1>4, <1>5, <2>1
  <2> QED
    BY <2>1, <2>2 DEF ScanEnds
<1>11. CASE SenseDecay(now', values, touched)
  <2>1. /\ sensingState = "Decay"
        /\ \/ \E thresholds : DetectPeak(now', values, touched, thresholds)
           \/ sensingState' = "PeakDetect"
    BY <1>11 DEF SenseDecay
  <2>2. LeastAge' <= LeastAge + us
    <3>1. CASE sensingState' = "PeakDetect"
      BY <1>1, <1>4, <1>5, <2>1, <3>1
    <3> QED
      BY <1>6, <2>1, <3>1
  <2> QED
    BY <2>1, <2>2 DEF ScanEnds
<1> QED
  BY <1>7, <1>8, <1>9, <1>10, <1>11 DEF SensingStep

(* An iteration with the pad: a report is as old as the code means it to   *)
(* be before the next one is sent.                                         *)
LEMMA SenseKeepsReportsApart ==
  ASSUME WiredInv, TypeOK', NEW us \in 1..MaxLoopUs, NEW raw \in Readings,
         NEW touched \in Touches, Sense(us, raw, touched)
  PROVE  /\ ReportIsOld'
         /\ sent'.type # "none" =>
              Age(us) >= Smaller(settings.scanTime + settings.maskTime, MaxAge)
<1> DEFINE values == ReadInputValues(raw)
<1>1. TypeOK /\ UnwiredIsSilent /\ ReportIsOld
  BY DEF WiredInv
<1>2. /\ values \in [Zones -> Values] /\ us \in Nat /\ Passes(us) /\ UNCHANGED config
      /\ sinceReport' = IF sent'.type = "none" THEN Age(us) ELSE 0
  BY <1>1, SenseLemma DEF Sense
<1>3. /\ LeastAge \in Nat /\ LeastAge' \in Nat /\ MaxAge \in Nat
      /\ settings.scanTime \in Nat /\ settings.maskTime \in Nat
  BY <1>1, LeastAgeLemma, NextLeastAge, PadSensingAssumption
<1>4. ReportIsOld' <=> sinceReport' >= Smaller(LeastAge', MaxAge)
  BY DEF ReportIsOld, Smaller
<1>5. CASE sent'.type = "none"
  <2>1. LeastAge' <= LeastAge + us
    <3>1. CASE pinCount = 0 /\ UNCHANGED <<scan, result, scanned>>
      <4>1. /\ UNCHANGED <<sensingState, hitTimeUs, scanTimeEndUs, settings>>
            /\ ElapsedUs(now', hitTimeUs) <= ElapsedUs(now, hitTimeUs) + us
            /\ ElapsedUs(now', scanTimeEndUs) <= ElapsedUs(now, scanTimeEndUs) + us
        BY <1>1, <1>2, <3>1, ClockMoves DEF scan, config, TypeOK
      <4>2. /\ ElapsedUs(now, hitTimeUs) \in Nat /\ ElapsedUs(now, scanTimeEndUs) \in Nat
        BY <1>1, LeastAgeLemma
      <4>3. LeastAge' = CASE sensingState = "Scan" ->
                               settings.maskTime + ElapsedUs(now', hitTimeUs)
                          [] sensingState = "Mask" -> ElapsedUs(now', scanTimeEndUs)
                          [] OTHER -> settings.maskTime
        BY <4>1 DEF LeastAge, ElapsedUs
      <4>4. /\ ElapsedUs(now', hitTimeUs) \in Nat /\ ElapsedUs(now', scanTimeEndUs) \in Nat
        <5>1. now' \in Clock /\ hitTimeUs \in Clock /\ scanTimeEndUs \in Clock
          BY <1>1, <1>2, ClockMoves DEF TypeOK
        <5>2. ElapsedUs(now', hitTimeUs) \in Clock /\ ElapsedUs(now', scanTimeEndUs) \in Clock
          BY <5>1, ElapsedLemma
        <5> QED
          BY <5>2, PadSensingAssumption DEF Clock
      <4> QED
        BY <1>2, <1>3, <4>1, <4>2, <4>3, <4>4 DEF LeastAge
    <3>2. CASE pinCount \in 1..3 /\ SensingStep(now', values, touched)
      BY <1>1, <1>2, <3>2, SensingStepAges
    <3> QED
      BY <1>1, <3>1, <3>2, SenseLemma
  <2>2. Age(us) >= Smaller(LeastAge', MaxAge)
    BY <1>1, <1>2, <1>3, <2>1, ReportAges
  <2> QED
    BY <1>2, <1>4, <1>5, <2>2
<1>6. CASE sent'.type # "none"
  <2>1. /\ pinCount \in 1..3 /\ ScanEnds(now', values) /\ sensingState' = "Mask"
    BY <1>1, <1>6, OnlyScansReport
  <2>2. /\ LeastAge' = 0
        /\ settings.scanTime + settings.maskTime <= LeastAge + us
    BY <1>1, <1>2, <2>1, SensingStepAges DEF SensingStep
  <2>3. Age(us) >= Smaller(settings.scanTime + settings.maskTime, MaxAge)
    BY <1>1, <1>2, <1>3, <2>2, ReportAges
  <2>4. sinceReport' >= Smaller(LeastAge', MaxAge)
    BY <1>2, <1>3, <1>6, <2>2 DEF Smaller
  <2> QED
    BY <1>4, <2>3, <2>4
<1> QED
  BY <1>5, <1>6
(* A pad starts without hits, and may report at once. *)
LEMMA InitWired == Init => WiredInv
<1> SUFFICES ASSUME Init PROVE WiredInv
  OBVIOUS
<1>1. TypeOK
  BY InitTypes
<1>2. UnwiredIsSilent
  BY DEF Init, UnwiredIsSilent
<1>3. ReportIsOld
  BY <1>1, LeastAgeLemma, PadSensingAssumption DEF Init, ReportIsOld, Smaller
<1> QED
  BY <1>1, <1>2, <1>3 DEF WiredInv

(* No step leaves a hit behind if the wiring only grows. *)
LEMMA NextSilent ==
  ASSUME WiredInv, TypeOK', Next, ActiveZoneCount <= ActiveZoneCount'
  PROVE  UnwiredIsSilent'
<1>1. TypeOK /\ UnwiredIsSilent
  BY DEF WiredInv
<1>2. ActiveZones \subseteq ActiveZones' /\ (pinCount > 0 => pinCount' > 0)
      /\ pinCount \in 0..3 /\ pinCount' \in 0..3
  BY <1>1, WiredZonesLemma DEF TypeOK
<1>3. ASSUME \A zone \in Zones : hits'[zone] => zone \in ActiveZones \/ hits[zone],
             pinCount \in 1..3 \/ ~isChoked' \/ UNCHANGED isChoked
      PROVE  UnwiredIsSilent'
  <2>1. \A zone \in Zones \ ActiveZones' : ~hits'[zone]
    BY <1>1, <1>2, <1>3 DEF UnwiredIsSilent
  <2>2. pinCount' = 0 => ~isChoked'
    <3>1. pinCount' = 0 => pinCount = 0
      BY <1>2
    <3> QED
      BY <1>1, <1>3, <3>1 DEF UnwiredIsSilent
  <2>3. Zones' = Zones
    BY DEF Zones
  <2> QED
    BY <2>1, <2>2, <2>3 DEF UnwiredIsSilent
<1>4. ASSUME UNCHANGED result PROVE UnwiredIsSilent'
  BY <1>3, <1>4 DEF result
<1>5. ASSUME NEW us \in 1..MaxLoopUs, NEW raw \in Readings, NEW touched \in Touches,
             Sense(us, raw, touched)
      PROVE  UnwiredIsSilent'
  <2>1. CASE pinCount = 0 /\ UNCHANGED <<scan, result, scanned>>
    BY <1>4, <2>1
  <2>2. CASE pinCount \in 1..3 /\ SensingStep(now', ReadInputValues(raw), touched)
    <3>1. ReadInputValues(raw) \in [Zones -> Values] /\ now' \in Clock
      BY <1>1, <1>5, SenseLemma
    <3>2. \A zone \in Zones : hits'[zone] => zone \in ActiveZones \/ hits[zone]
      BY <1>1, <2>2, <3>1, SensingStepResult
    <3> QED
      BY <1>3, <2>2, <3>2
  <2> QED
    BY <1>1, <1>5, <2>1, <2>2, SenseLemma
<1>6. ASSUME NEW us \in 1..MaxLoopUs, NEW isHit \in BOOLEAN, LatencySense(us, isHit)
      PROVE  UnwiredIsSilent'
  <2> DEFINE cleared == KeepUnwired(hits, FALSE)
  <2>1. /\ IsConnectorActive /\ isChoked' = FALSE
        /\ hits' = [cleared EXCEPT ![0] = isHit]
    BY <1>6 DEF LatencySense
  <2>2. pinCount > 0 /\ 0 \in ActiveZones
    BY <1>1, <2>1, ZonesLemma DEF IsConnectorActive, TypeOK
  <2>3. /\ cleared \in [Zones -> BOOLEAN]
        /\ \A zone \in Zones : cleared[zone] => hits[zone]
    BY <1>1, ResetLemma
  <2> HIDE DEF cleared
  <2>4. \A zone \in Zones : hits'[zone] => zone \in ActiveZones \/ hits[zone]
    BY <2>1, <2>2, <2>3
  <2> QED
    BY <1>3, <2>1, <2>4
<1> QED
  BY <1>4, <1>5, <1>6 DEF Next, Evaluation, Pass, SettingsChanged, ApplyPadSettings,
     SetConnector, SetTouchSensor, SetEnabled

(* Every step keeps the age of the last report. *)
LEMMA NextReport ==
  ASSUME WiredInv, TypeOK', Next
  PROVE  ReportIsOld'
<1>1. TypeOK /\ ReportIsOld
  BY DEF WiredInv
<1>2. LeastAge \in Nat /\ LeastAge' \in Nat /\ MaxAge \in Nat
  BY <1>1, LeastAgeLemma, NextLeastAge, PadSensingAssumption
<1>3. ReportIsOld' <=> sinceReport' >= Smaller(LeastAge', MaxAge)
  BY DEF ReportIsOld, Smaller
<1>4. ASSUME SettingsChanged PROVE ReportIsOld'
  <2>1. sinceReport' = MaxAge
    BY <1>4 DEF SettingsChanged
  <2> QED
    BY <1>2, <1>3, <2>1 DEF Smaller
(* a time that only the clock and a hit of a latency test move *)
<1>5. ASSUME NEW us \in 1..MaxLoopUs, Passes(us), sinceReport' = Age(us),
             UNCHANGED <<settings, sensingState, scanTimeEndUs>>,
             hitTimeUs' = hitTimeUs \/ hitTimeUs' = now'
      PROVE  ReportIsOld'
  <2> DEFINE mask == settings.maskTime
             sinceHit == ElapsedUs(now', hitTimeUs')
             sinceEnd == ElapsedUs(now', scanTimeEndUs)
             wasSinceHit == ElapsedUs(now, hitTimeUs)
             wasSinceEnd == ElapsedUs(now, scanTimeEndUs)
  <2>1. /\ us \in Nat /\ mask \in Nat /\ wasSinceHit \in Nat /\ wasSinceEnd \in Nat
    BY <1>1, LeastAgeLemma, PadSensingAssumption
  <2>2. /\ ElapsedUs(now', now') = 0
        /\ ElapsedUs(now', hitTimeUs) <= wasSinceHit + us
        /\ sinceEnd <= wasSinceEnd + us
    BY <1>1, <1>5, ClockMoves DEF TypeOK
  <2>3. /\ sinceHit \in Nat /\ sinceEnd \in Nat
    <3>1. now' \in Clock /\ hitTimeUs' \in Clock /\ scanTimeEndUs \in Clock
      BY <1>1 DEF TypeOK
    <3>2. sinceHit \in Clock /\ sinceEnd \in Clock
      BY <3>1, ElapsedLemma
    <3> QED
      BY <3>2, PadSensingAssumption DEF Clock
  <2>4. sinceHit <= wasSinceHit + us
    <3>1. CASE hitTimeUs' = hitTimeUs
      BY <2>2, <3>1
    <3>2. CASE hitTimeUs' = now'
      <4>1. sinceHit = 0
        BY <2>2, <3>2
      <4> QED
        BY <2>1, <4>1
    <3> QED
      BY <1>5, <3>1, <3>2
  <2>5. /\ LeastAge' = CASE sensingState = "Scan" -> mask + sinceHit
                         [] sensingState = "Mask" -> sinceEnd
                         [] OTHER -> mask
        /\ LeastAge = CASE sensingState = "Scan" -> mask + wasSinceHit
                        [] sensingState = "Mask" -> wasSinceEnd
                        [] OTHER -> mask
    BY <1>5 DEF LeastAge, ElapsedUs
  <2> HIDE DEF mask, sinceHit, sinceEnd, wasSinceHit, wasSinceEnd
  <2>6. LeastAge' <= LeastAge + us
    BY <2>1, <2>2, <2>3, <2>4, <2>5
  <2>7. Age(us) >= Smaller(LeastAge', MaxAge)
    BY <1>1, <1>2, <2>1, <2>6, ReportAges
  <2> QED
    BY <1>3, <1>5, <2>7
<1>6. ASSUME NEW us \in 1..MaxLoopUs, NEW raw \in Readings, NEW touched \in Touches,
             Sense(us, raw, touched)
      PROVE  ReportIsOld'
  BY <1>6, SenseKeepsReportsApart
<1>7. ASSUME NEW us \in 1..MaxLoopUs, Pass(us) PROVE ReportIsOld'
  BY <1>5, <1>7 DEF Pass, config, scan
<1>8. ASSUME NEW us \in 1..MaxLoopUs, NEW isHit \in BOOLEAN, LatencySense(us, isHit)
      PROVE  ReportIsOld'
  BY <1>5, <1>8 DEF LatencySense, config
<1> QED
  BY <1>4, <1>6, <1>7, <1>8 DEF Next, Evaluation, ApplyPadSettings, SetConnector,
     SetTouchSensor, SetEnabled

(* Both together are kept by every step. *)
LEMMA NextWired ==
  WiredInv /\ [Next]_vars /\ [ActiveZoneCount <= ActiveZoneCount']_vars => WiredInv'
<1> SUFFICES ASSUME WiredInv, [Next]_vars, [ActiveZoneCount <= ActiveZoneCount']_vars
             PROVE  WiredInv'
  OBVIOUS
<1>1. TypeOK /\ TypeOK'
  BY NextTypes DEF WiredInv
<1>2. CASE UNCHANGED vars
  <2>1. UNCHANGED <<now, settings, pinCount, hits, isChoked, sensingState, hitTimeUs,
                    scanTimeEndUs, sinceReport>>
    BY <1>2 DEF vars, config, scan, result, history
  <2>2. ActiveZones' = ActiveZones
    BY <2>1 DEF ActiveZones, ActiveZoneCount, ActivePinCount, ZoneCount, SharesPin
  <2>3. UnwiredIsSilent'
    BY <2>1, <2>2 DEF WiredInv, UnwiredIsSilent, Zones
  <2>4. LeastAge' = LeastAge
    BY <2>1 DEF LeastAge, ElapsedUs
  <2>5. ReportIsOld'
    BY <2>1, <2>4 DEF WiredInv, ReportIsOld, Smaller
  <2> QED
    BY <1>1, <2>3, <2>5 DEF WiredInv
<1>3. CASE Next /\ ActiveZoneCount <= ActiveZoneCount'
  BY <1>1, <1>3, NextSilent, NextReport DEF WiredInv
<1> QED
  BY <1>2, <1>3

(* So they hold at any time while the wiring only grows. *)
LEMMA WiredIsInvariant == Spec /\ ZonesStayWired => []WiredInv
BY InitWired, NextWired, PTL DEF Spec, ZonesStayWired

(* Only an iteration of the main loop with the pad sends something. *)
LEMMA OnlySensingSends ==
  ASSUME Next, sent'.type # "none"
  PROVE  \E us \in 1..MaxLoopUs, raw \in Readings, touched \in Touches :
           Sense(us, raw, touched)
<1>1. sent' # NoMessage
  BY DEF NoMessage
<1> QED
  BY <1>1 DEF Next, Evaluation, Pass, LatencySense, SettingsChanged, ApplyPadSettings,
     SetConnector, SetTouchSensor, SetEnabled

(* Nothing is reported twice: as long as the wiring only grows, a note or  *)
(* a choke is sent only by the iteration that ends a scan, whatever the    *)
(* page changes and however long the pad is disabled or a latency test     *)
(* uses it.                                                                *)
THEOREM MessagesOnlyComeFromScans == Spec /\ ZonesStayWired => MessagesComeFromScans
<1>1. WiredInv /\ [Next]_vars =>
        [IsIteration /\ sent'.type # "none" =>
           sensingState = "Scan" /\ sensingState' = "Mask"]_vars
  <2> SUFFICES ASSUME WiredInv, Next, sent'.type # "none"
               PROVE  sensingState = "Scan" /\ sensingState' = "Mask"
    OBVIOUS
  <2>1. PICK us \in 1..MaxLoopUs, raw \in Readings, touched \in Touches :
          Sense(us, raw, touched)
    BY OnlySensingSends
  <2>2. ScanEnds(now', ReadInputValues(raw)) /\ sensingState' = "Mask"
    BY <2>1, OnlyScansReport DEF WiredInv
  <2> QED
    BY <2>2 DEF ScanEnds
<1> QED
  BY <1>1, WiredIsInvariant, PTL DEF Spec, MessagesComeFromScans

(* No double trigger: with unchanged settings two messages of a pad are a  *)
(* scan and a mask time apart, across the wrap-around of micros().  The    *)
(* invariant relates the age of the last report to the state of the pad.   *)
THEOREM MessagesStayApart == Spec /\ ZonesStayWired => NoDoubleTrigger
<1>1. WiredInv /\ [Next]_vars =>
        [IsIteration /\ sent'.type # "none" =>
           Age(ElapsedUs(now', now)) >=
             Smaller(settings.scanTime + settings.maskTime, MaxAge)]_vars
  <2> SUFFICES ASSUME WiredInv, Next, sent'.type # "none"
               PROVE  Age(ElapsedUs(now', now)) >=
                        Smaller(settings.scanTime + settings.maskTime, MaxAge)
    OBVIOUS
  <2>1. TypeOK /\ TypeOK'
    BY NextTypes DEF WiredInv
  <2>2. PICK us \in 1..MaxLoopUs, raw \in Readings, touched \in Touches :
          Sense(us, raw, touched)
    BY OnlySensingSends
  <2>3. ElapsedUs(now', now) = us
    BY <2>1, <2>2, ClockMoves DEF Sense
  <2> QED
    BY <2>1, <2>2, <2>3, SenseKeepsReportsApart
<1> QED
  BY <1>1, WiredIsInvariant, PTL DEF Spec, NoDoubleTrigger
=============================================================================
