---------------------------- MODULE Inputs_proofs ----------------------------
(***************************************************************************)
(* Theorems about two inputs of the board.  The hi-hat pedal (HiHatPedal), *)
(* for every pair of thresholds, every timeout, every resolution of the    *)
(* sensor and every width of the clock.  The gamepad at the USB host port  *)
(* (HidGamepad), for all descriptors and reports, and every size of the    *)
(* stacks and the pool of the parser.                                      *)
(*                                                                         *)
(* A theorem is about the specification that it names: Spec is that of the *)
(* pedal, HG!Spec that of the gamepad.                                     *)
(***************************************************************************)
EXTENDS HiHatPedal, GamepadPort, Sequences, SequenceTheorems, WellFoundedInduction,
        TLAPS

(* The quotient of natural numbers is the largest one that fits. *)
LEMMA DivLemma ==
  ASSUME NEW a \in Nat, NEW b \in Nat \ {0}
  PROVE  /\ a \div b \in Nat
         /\ b * (a \div b) <= a
         /\ a < b * (a \div b) + b
OBVIOUS

(* A product with a larger factor is not smaller. *)
LEMMA ProductLemma ==
  ASSUME NEW a \in Nat, NEW b \in Nat, NEW c \in Nat, a <= b
  PROVE  a * c <= b * c
OBVIOUS

(* The quotient is the only number that fits. *)
LEMMA DivUnique ==
  ASSUME NEW a \in Nat, NEW b \in Nat \ {0}, NEW k \in Nat, b * k <= a, a < b * k + b
  PROVE  a \div b = k
<1> DEFINE d == a \div b
<1>1. d \in Nat /\ b * d <= a /\ a < b * d + b
  BY DivLemma
<1> HIDE DEF d
<1>2. CASE d < k
  <2>1. (d + 1) * b <= k * b
    BY <1>1, <1>2, ProductLemma
  <2> QED
    BY <1>1, <2>1
<1>3. CASE k < d
  <2>1. (k + 1) * b <= d * b
    BY <1>1, <1>3, ProductLemma
  <2> QED
    BY <1>1, <2>1
<1> QED
  BY <1>1, <1>2, <1>3 DEF d

(* A larger dividend does not give a smaller quotient. *)
LEMMA DivMonotone ==
  ASSUME NEW a \in Nat, NEW c \in Nat, NEW b \in Nat \ {0}, a <= c
  PROVE  a \div b <= c \div b
<1> DEFINE d == a \div b
           e == c \div b
<1>1. d \in Nat /\ e \in Nat /\ b * d <= a /\ c < b * e + b
  BY DivLemma
<1> HIDE DEF d, e
<1>2. CASE e < d
  <2>1. (e + 1) * b <= d * b
    BY <1>1, <1>2, ProductLemma
  <2> QED
    BY <1>1, <2>1
<1> QED
  BY <1>1, <1>2 DEF d, e
-----------------------------------------------------------------------------
(* A sensor value in a range scales to a sensor value, and 0 to 0. *)
LEMMA ScaleType ==
  ASSUME NEW value \in Values, NEW lower \in Nat, NEW upper \in Nat, lower < upper
  PROVE  Scale(value, lower, upper) \in Values
<1>1. MaxValue \in Nat \ {0}
  BY ScalingAssumption
<1>2. CASE value = 0 \/ value < lower \/ value >= upper
  BY <1>1, <1>2 DEF Scale, Values
<1>3. CASE value # 0 /\ value >= lower /\ value < upper
  <2> DEFINE a == value - lower
             b == upper - lower
             m == MaxValue - 1
             d == (a * m) \div b
  <2>1. a \in Nat /\ b \in Nat \ {0} /\ m \in Nat /\ a <= b
    BY <1>1, <1>3 DEF Values
  <2> HIDE DEF a, b, m
  <2>2. a * m \in Nat /\ a * m <= b * m
    BY <2>1, ProductLemma
  <2>3. d \in Nat /\ d <= (b * m) \div b
    BY <2>1, <2>2, DivLemma, DivMonotone
  <2>4. (b * m) \div b = m
    BY <2>1, DivUnique
  <2>5. Scale(value, lower, upper) = d + 1
    BY <1>3 DEF Scale, Values, a, b, m
  <2> HIDE DEF d
  <2> QED
    BY <1>1, <2>3, <2>4, <2>5 DEF Values, m
<1> QED
  BY <1>2, <1>3 DEF Values

(* The curve maps sensor values to MIDI values. *)
LEMMA CurveType ==
  ASSUME NEW value \in Values
  PROVE  Curve(value) \in Velocities
<1>1. MaxVelocity \in Nat \ {0} /\ CurveStep \in Nat \ {0}
  BY ScalingAssumption
<1>2. CASE value = 0
  BY <1>1, <1>2 DEF Curve, Velocities
<1>3. CASE value # 0
  <2> DEFINE d == (value - 1) \div CurveStep
  <2>1. value - 1 \in Nat
    BY <1>3 DEF Values
  <2>2. d \in Nat
    BY <1>1, <2>1, DivLemma
  <2>3. Curve(value) = Smaller(d + 1, MaxVelocity)
    BY <1>3 DEF Curve
  <2> HIDE DEF d
  <2> QED
    BY <1>1, <2>2, <2>3 DEF Smaller, Velocities
<1> QED
  BY <1>2, <1>3

(* Noise reduction yields a sensor value, also for a reading that wrapped  *)
(* around.                                                                 *)
LEMMA ReduceNoiseType ==
  ASSUME TypeOK, NEW newValue \in Readings
  PROVE  ReduceNoise(newValue) \in Values
BY ScalingAssumption, HiHatPedalAssumption
   DEF TypeOK, Readings, ReduceNoise, Smaller, Values

(* The remainder is below the modulus. *)
LEMMA ModType ==
  ASSUME NEW a \in Nat, NEW b \in Nat \ {0}
  PROVE  a % b \in 0..(b - 1)
OBVIOUS

(* The settings of a pedal. *)
LEMMA SettingsType ==
  ASSUME NEW s \in PedalSettings
  PROVE  /\ s.thresholdMin \in Nat /\ s.thresholdMax \in Nat
         /\ s.thresholdMin < s.thresholdMax
         /\ s.chickDetectTimeoutMs \in Nat \ {0}
         /\ s.chickDetectTimeoutMs < MaxVelocity
         /\ s.chickDetectTimeoutMs * UsPerMs <= MaxAge
BY HiHatPedalAssumption, ScalingAssumption DEF Values

(* A time in ms is a quotient of the time in us. *)
LEMMA MsType ==
  ASSUME NEW us \in Clock
  PROVE  Ms(us) \in 0..Ms(ClockSize - 1)
<1>1. UsPerMs \in Nat \ {0} /\ ClockSize \in Nat \ {0}
  BY HiHatPedalAssumption
<1>2. us \in Nat /\ ClockSize - 1 \in Nat /\ us <= ClockSize - 1
  BY <1>1 DEF Clock
<1> QED
  BY <1>1, <1>2, DivLemma, DivMonotone DEF Ms

(* The difference of two times in ms is the time between them. *)
LEMMA ClosingTimeLemma ==
  ASSUME NEW a \in 0..Ms(ClockSize - 1), NEW b \in 0..Ms(ClockSize - 1), b <= a
  PROVE  ClosingTimeMs(a, b) = a - b
<1> DEFINE top == Ms(ClockSize - 1)
<1>1. UsPerMs \in Nat \ {0} /\ ClockSize - 1 \in Nat /\ WordSize \in Nat \ {0}
      /\ 2 * top < WordSize
  BY HiHatPedalAssumption DEF Ms
<1>2. top \in Nat
  BY <1>1, DivLemma DEF Ms
<1> HIDE DEF top
<1>3. a \in Nat /\ b \in Nat /\ 2 * (a - b) < WordSize
  BY <1>1, <1>2 DEF top
<1>4. (a + WordSize - b) % WordSize = a - b
  <2> DEFINE d == a - b
  <2>1. d \in Nat /\ d < WordSize
    BY <1>1, <1>3
  <2>2. a + WordSize - b = d + WordSize
    BY <1>1, <1>3
  <2> HIDE DEF d
  <2>3. (d + WordSize) % WordSize = d
    BY <1>1, <2>1
  <2> QED
    BY <2>2, <2>3 DEF d
<1> QED
  BY <1>1, <1>3, <1>4 DEF ClosingTimeMs
-----------------------------------------------------------------------------
(* A chick that is fast enough has a MIDI velocity above 0. *)
LEMMA FastChick ==
  ASSUME settings \in PedalSettings, NEW c \in 0..settings.chickDetectTimeoutMs
  PROVE  ChickVelocity(c) \in 1..MaxVelocity
<1> DEFINE t == settings.chickDetectTimeoutMs
           m == MaxVelocity - 1
           a == (t - c) * m
           d == a \div t
<1>1. /\ t \in Nat \ {0} /\ m \in Nat /\ t - c \in Nat /\ t - c <= t
      /\ MaxVelocity \in Nat \ {0} /\ ByteSize \in Nat \ {0} /\ MaxVelocity < ByteSize
  BY SettingsType, ScalingAssumption, HiHatPedalAssumption
<1> HIDE DEF t
<1>2. a \in Nat /\ a <= t * m
  <2> HIDE DEF m
  <2>1. t - c \in Nat /\ t \in Nat /\ m \in Nat
    BY <1>1
  <2>2. (t - c) * m \in Nat
    BY <2>1
  <2> QED
    BY <1>1, <2>1, <2>2, ProductLemma
<1>3. (t * m) \div t = m
  <2> HIDE DEF m
  <2> QED
    BY <1>1, DivUnique
<1> HIDE DEF a
<1>4. d \in Nat /\ d <= m
  <2>1. t * m \in Nat
    BY <1>1
  <2>2. d <= (t * m) \div t
    BY <1>1, <1>2, <2>1, DivMonotone
  <2> QED
    BY <1>1, <1>2, <1>3, <2>2, DivLemma
<1>5. Quotient(a, t) = d
  BY <1>2 DEF Quotient
<1> HIDE DEF d
<1>6. d + 1 \in 1..MaxVelocity
  BY <1>1, <1>4
<1>7. (d + 1) % ByteSize = d + 1
  BY <1>1, <1>6
<1>8. ~(d + 1 < 0)
  BY <1>6
<1>9. ChickVelocity(c) = (d + 1) % ByteSize
  BY <1>5, <1>8 DEF ChickVelocity, a, t, m
<1> QED
  BY <1>6, <1>7, <1>9

(* A pedal that closes too slowly plays no chick, since the timeout is     *)
(* below the range of the velocities.                                      *)
LEMMA SlowChick ==
  ASSUME settings \in PedalSettings, NEW c \in Nat, c > settings.chickDetectTimeoutMs
  PROVE  ChickVelocity(c) = 0
<1> DEFINE t == settings.chickDetectTimeoutMs
           m == MaxVelocity - 1
           a == (c - t) * m
           d == a \div t
<1>1. /\ t \in Nat \ {0} /\ m \in Nat /\ c - t \in Nat /\ 1 <= c - t /\ t <= m
      /\ ByteSize \in Nat \ {0}
  BY SettingsType, ScalingAssumption, HiHatPedalAssumption
<1> HIDE DEF t
<1>2. a \in Nat /\ t <= a
  <2> HIDE DEF m
  <2>1. 1 * m <= (c - t) * m
    BY <1>1, ProductLemma
  <2>2. (c - t) * m \in Nat
    BY <1>1
  <2> QED
    BY <1>1, <2>1, <2>2
<1>3. d \in Nat /\ 1 <= d
  <2> HIDE DEF a
  <2>1. t \div t = 1
    BY <1>1, DivUnique
  <2> QED
    BY <1>1, <1>2, <2>1, DivLemma, DivMonotone
<1>4. (t - c) * m = -a
  <2>1. m \in Int /\ t - c = -(c - t) /\ c - t \in Int
    BY <1>1
  <2> QED
    BY <2>1
<1> HIDE DEF a
<1>5. Quotient(-a, t) = -d
  <2>1. CASE a = 0
    BY <1>1, <1>2, <2>1
  <2>2. CASE a > 0
    <3>1. ~(-a >= 0) /\ -(-a) = a
      BY <1>2, <2>2
    <3> QED
      BY <3>1 DEF Quotient
  <2> QED
    BY <1>2, <2>1, <2>2
<1> HIDE DEF d
<1>6. CASE d = 1
  <2>1. -d + 1 = 0 /\ 0 % ByteSize = 0
    BY <1>1, <1>6
  <2> QED
    BY <1>4, <1>5, <2>1 DEF ChickVelocity, t, m
<1>7. CASE d > 1
  <2>1. -d + 1 < 0
    BY <1>3, <1>7
  <2> QED
    BY <1>4, <1>5, <2>1 DEF ChickVelocity, t, m
<1> QED
  BY <1>3, <1>6, <1>7

(* Whatever the closing time is, the velocity of a chick is a byte. *)
LEMMA ChickType ==
  ASSUME settings \in PedalSettings, NEW c \in Int
  PROVE  ChickVelocity(c) \in 0..(ByteSize - 1)
<1> DEFINE t == settings.chickDetectTimeoutMs
           a == (t - c) * (MaxVelocity - 1)
           v == Quotient(a, t) + 1
<1>1. t \in Nat \ {0} /\ MaxVelocity - 1 \in Int /\ ByteSize \in Nat \ {0}
  BY SettingsType, ScalingAssumption, HiHatPedalAssumption
<1>2. a \in Int
  BY <1>1
<1> HIDE DEF t, a
<1>3. v \in Int
  <2>1. CASE a >= 0
    BY <1>1, <1>2, <2>1, DivLemma DEF Quotient
  <2>2. CASE ~(a >= 0)
    <3>1. -a \in Nat
      BY <1>2, <2>2
    <3>2. (-a) \div t \in Nat
      BY <1>1, <3>1, DivLemma
    <3> QED
      BY <2>2, <3>2 DEF Quotient
  <2> QED
    BY <2>1, <2>2
<1>4. ChickVelocity(c) = IF v < 0 THEN 0 ELSE v % ByteSize
  BY DEF ChickVelocity, a, t
<1> HIDE DEF v
<1> QED
  BY <1>1, <1>3, <1>4, ModType

(* The difference of two times in ms is a number. *)
LEMMA ClosingTimeType ==
  ASSUME NEW a \in 0..Ms(ClockSize - 1), NEW b \in 0..Ms(ClockSize - 1)
  PROVE  ClosingTimeMs(a, b) \in Int
<1> DEFINE top == Ms(ClockSize - 1)
           e == a + WordSize - b
           d == e % WordSize
<1>1. UsPerMs \in Nat \ {0} /\ ClockSize - 1 \in Nat /\ WordSize \in Nat \ {0}
      /\ 2 * top < WordSize
  BY HiHatPedalAssumption DEF Ms
<1>2. top \in Nat
  BY <1>1, DivLemma DEF Ms
<1> HIDE DEF top
<1>3. e \in Nat
  BY <1>1, <1>2 DEF top
<1> HIDE DEF e
<1>4. d \in Nat
  BY <1>1, <1>3, ModType
<1>5. ClosingTimeMs(a, b) = IF 2 * d >= WordSize THEN d - WordSize ELSE d
  BY DEF ClosingTimeMs, e
<1> QED
  BY <1>1, <1>4, <1>5

-----------------------------------------------------------------------------
(* While the pedal closes, the time in ms at which it left the open        *)
(* position is the time since then, unless the clock wrapped around.       *)
ClosingInv ==
  state = "AlmostClosed" /\ ~wrapped =>
    \E t \in 0..now : /\ almostClosedTimeMs = Ms(t)
                      /\ sinceOpen = Smaller(now - t, MaxAge)

PedalInv == TypeOK /\ ReceiverKnowsThePedal /\ ClosingInv

(* The pedal starts open and the receiver knows. *)
LEMMA PedalInvInit == Init => PedalInv
<1> SUFFICES ASSUME Init PROVE PedalInv
  OBVIOUS
<1>1. /\ UsPerMs \in Nat \ {0} /\ ClockSize \in Nat \ {0} /\ ClockSize - 1 \in Nat
      /\ ByteSize \in Nat \ {0} /\ InputWordSize \in Nat \ {0} /\ MaxAge \in Nat
      /\ MaxValue \in Nat /\ MaxVelocity \in Nat /\ MaxHiHats \in Nat
  BY HiHatPedalAssumption, ScalingAssumption
<1>2. Ms(ClockSize - 1) \in Nat
  BY <1>1, DivLemma DEF Ms
<1>3. /\ 0 \in Clock /\ 0 \in Values /\ 0 \in Velocities /\ 0 \in Readings
      /\ \A count \in 0..MaxHiHats : 0 \in 0..count
      /\ 0 \in 0..Ms(ClockSize - 1) /\ 0 \in 0..(ByteSize - 1) /\ 0 \in 0..MaxAge
  BY <1>1, <1>2 DEF Clock, Values, Velocities, Readings
<1>4. TypeOK
  BY <1>3 DEF Init, TypeOK
<1> QED
  BY <1>4 DEF Init, PedalInv, ReceiverKnowsThePedal, ClosingInv

(* The times keep their types while time passes. *)
LEMMA TimeTypes ==
  ASSUME TypeOK, NEW us \in 0..MaxLoopUs, PassTime(us)
  PROVE  now' \in Clock /\ sinceOpen' \in 0..MaxAge /\ wrapped' \in BOOLEAN
<1>1. ClockSize \in Nat \ {0} /\ MaxLoopUs \in Nat /\ MaxAge \in Nat /\ now \in Clock
  BY HiHatPedalAssumption DEF TypeOK
<1>2. now' \in Clock
  BY <1>1, ModType DEF PassTime, Clock
<1>3. CASE state = "Open"
  <2>1. sinceOpen' = 0 /\ wrapped' = FALSE
    BY <1>3 DEF PassTime
  <2>2. 0 \in 0..MaxAge
    BY <1>1
  <2> QED
    BY <1>2, <2>1, <2>2
<1>4. CASE state # "Open"
  <2>1. sinceOpen' = Smaller(sinceOpen + us, MaxAge)
    BY <1>4 DEF PassTime
  <2>2. wrapped' = (wrapped \/ now + us >= ClockSize)
    BY <1>4 DEF PassTime
  <2>3. wrapped' \in BOOLEAN
    BY <2>2
  <2> QED
    BY <1>1, <1>2, <2>1, <2>3 DEF Smaller, TypeOK
<1> QED
  BY <1>3, <1>4

(* Sensing gives the variables of the pedal values of their types. *)
LEMMA SenseTypes ==
  ASSUME TypeOK, now' \in Clock, NEW newReading \in Readings, Sense(newReading)
  PROVE  /\ state' \in {"Open", "AlmostClosed", "Closed"}
         /\ almostClosedTimeMs' \in 0..Ms(ClockSize - 1)
         /\ sensorValue' \in Values
         /\ pedalCC' \in Velocities
         /\ isMoving' \in BOOLEAN
         /\ {chick', unplayed'} \subseteq 0..(ByteSize - 1)
         /\ reading' \in Readings
<1> DEFINE value == ReduceNoise(newReading)
<1>1. settings \in PedalSettings /\ almostClosedTimeMs \in 0..Ms(ClockSize - 1)
  BY DEF TypeOK
<1>2. value \in Values
  BY ReduceNoiseType
<1> HIDE DEF value
<1>3. Ms(now') \in 0..Ms(ClockSize - 1)
  BY MsType
<1>4. sensorValue' = value /\ PositionAndChickSensing(Ms(now'), value)
  BY DEF Sense, value
<1>5. state' \in {"Open", "AlmostClosed", "Closed"}
  BY <1>4 DEF PositionAndChickSensing, NextState
<1>6. almostClosedTimeMs' \in 0..Ms(ClockSize - 1)
  BY <1>1, <1>3, <1>4 DEF PositionAndChickSensing
<1>7. chick' \in 0..(ByteSize - 1)
  <2>1. chick' \in {0, ChickVelocity(ClosingTimeMs(Ms(now'), almostClosedTimeMs'))}
    BY <1>4 DEF PositionAndChickSensing
  <2>2. ClosingTimeMs(Ms(now'), almostClosedTimeMs') \in Int
    BY <1>3, <1>6, ClosingTimeType
  <2>3. ByteSize \in Nat \ {0}
    BY HiHatPedalAssumption
  <2> QED
    BY <1>1, <2>1, <2>2, <2>3, ChickType
<1>8. pedalCC' \in Velocities
  <2>1. pedalCC' = Curve(Scale(value, settings.thresholdMin, settings.thresholdMax))
    BY DEF Sense, ScaleAndCurve, value
  <2> QED
    BY <1>1, <1>2, <2>1, SettingsType, ScaleType, CurveType
<1>9. unplayed' \in 0..(ByteSize - 1)
  BY <1>7 DEF Sense, TypeOK
<1>10. isMoving' \in BOOLEAN /\ reading' = newReading
  BY DEF Sense
<1> QED
  BY <1>2, <1>4, <1>5, <1>6, <1>7, <1>8, <1>9, <1>10

(* Every step gives every variable a value of its type. *)
LEMMA TypesStep == TypeOK /\ [Next]_vars => TypeOK'
<1> SUFFICES ASSUME TypeOK, [Next]_vars PROVE TypeOK'
  OBVIOUS
<1>0. MaxHiHats \in Nat
  BY HiHatPedalAssumption
<1>1. ASSUME NEW us \in 0..MaxLoopUs, NEW newReading \in Readings,
             SensePedal(us, newReading)
      PROVE  TypeOK'
  <2>1. now' \in Clock /\ sinceOpen' \in 0..MaxAge /\ wrapped' \in BOOLEAN
    BY <1>1, TimeTypes DEF SensePedal
  <2>2. /\ settings' = settings /\ hasConnector' = hasConnector /\ hiHats' = hiHats
        /\ hiHat' = hiHat + 1 /\ isSensed' = TRUE /\ receivedCC' = receivedCC
    BY <1>1 DEF SensePedal, kit
  <2>3. hiHat' \in 0..hiHats'
    BY <1>0, <1>1, <2>2 DEF SensePedal, IsTurnToSense, TypeOK
  <2>4. CASE hasConnector
    <3>1. Sense(newReading)
      BY <1>1, <2>4 DEF SensePedal
    <3> QED
      BY <2>1, <2>2, <2>3, <3>1, SenseTypes DEF TypeOK, Ms
  <2>5. CASE ~hasConnector
    BY <1>1, <2>1, <2>2, <2>3, <2>5 DEF SensePedal, pedal, TypeOK, Ms
  <2> QED
    BY <2>4, <2>5
<1>2. CASE EvaluateHiHat
  <2>1. hiHat' \in 0..hiHats' /\ hiHats' = hiHats
    BY <1>0, <1>2 DEF EvaluateHiHat, TypeOK, kit
  <2>2. unplayed' \in 0..(ByteSize - 1)
    BY <1>2, HiHatPedalAssumption DEF EvaluateHiHat, TypeOK
  <2> QED
    BY <1>2, <2>1, <2>2 DEF EvaluateHiHat, TypeOK, kit, time, Ms
<1>3. ASSUME NEW us \in 0..MaxLoopUs, UpdateOtherDrums(us) PROVE TypeOK'
  <2>1. now' \in Clock /\ sinceOpen' \in 0..MaxAge /\ wrapped' \in BOOLEAN
    BY <1>3, TimeTypes DEF UpdateOtherDrums
  <2> QED
    BY <1>3, <2>1 DEF UpdateOtherDrums, TypeOK, pedal, kit, turn, Ms
<1>4. ASSUME NEW newSettings \in PedalSettings, NEW connector \in BOOLEAN,
             NEW count \in 0..MaxHiHats, ApplySettings(newSettings, connector, count)
      PROVE  TypeOK'
  BY <1>0, <1>4
     DEF ApplySettings, IsBetweenIterations, TypeOK, pedal, turn, time, Ms
<1>5. CASE UNCHANGED vars
  BY <1>5 DEF vars, pedal, kit, turn, time, TypeOK, Ms
<1> QED
  BY <1>1, <1>2, <1>3, <1>4, <1>5 DEF Next, Sensing

(* Without a wrap-around the clock moves by the time that passes. *)
LEMMA ClockMoves ==
  ASSUME TypeOK, NEW us \in 0..MaxLoopUs, PassTime(us), state # "Open", ~wrapped'
  PROVE  /\ ~wrapped
         /\ now' = now + us
         /\ sinceOpen' = Smaller(sinceOpen + us, MaxAge)
<1>1. ClockSize \in Nat \ {0} /\ now \in Nat /\ us \in Nat
  BY HiHatPedalAssumption DEF TypeOK, Clock
<1>2. ~wrapped /\ ~(now + us >= ClockSize) /\ sinceOpen' = Smaller(sinceOpen + us, MaxAge)
  BY DEF PassTime
<1>3. (now + us) % ClockSize = now + us
  BY <1>1, <1>2
<1> QED
  BY <1>2, <1>3 DEF PassTime

(* The moment at which the pedal left the open position stays, however     *)
(* much time passes.                                                       *)
LEMMA MomentStays ==
  ASSUME TypeOK, NEW us \in 0..MaxLoopUs, PassTime(us), state # "Open", ~wrapped',
         NEW t \in 0..now, sinceOpen = Smaller(now - t, MaxAge)
  PROVE  t \in 0..now' /\ sinceOpen' = Smaller(now' - t, MaxAge)
<1>1. MaxAge \in Nat /\ now \in Nat /\ us \in Nat
  BY HiHatPedalAssumption DEF TypeOK, Clock
<1>2. now' = now + us /\ sinceOpen' = Smaller(sinceOpen + us, MaxAge)
  BY ClockMoves
<1> QED
  BY <1>1, <1>2 DEF Smaller

(* After a sensing during the closing, or the one that ends it, there is   *)
(* the moment at which the pedal left the open position.                   *)
LEMMA MomentOfLeaving ==
  ASSUME TypeOK, ClosingInv, NEW us \in 0..MaxLoopUs, NEW newReading \in Readings,
         PassTime(us), Sense(newReading),
         state # "Closed", state' # "Open", ~wrapped'
  PROVE  \E t \in 0..now' : /\ almostClosedTimeMs' = Ms(t)
                            /\ sinceOpen' = Smaller(now' - t, MaxAge)
<1> DEFINE value == ReduceNoise(newReading)
<1>1. /\ MaxAge \in Nat /\ now' \in Nat /\ state \in {"Open", "AlmostClosed", "Closed"}
  BY TimeTypes, HiHatPedalAssumption DEF TypeOK, Clock
<1>2. PositionAndChickSensing(Ms(now'), value)
  BY DEF Sense
<1> HIDE DEF value
<1>3. CASE state = "Open"
  <2>1. ~IsOpen(value)
    BY <1>2, <1>3 DEF PositionAndChickSensing, NextState, IsOpen
  <2>2. almostClosedTimeMs' = Ms(now')
    BY <1>2, <1>3, <2>1 DEF PositionAndChickSensing
  <2>3. sinceOpen' = 0
    BY <1>3 DEF PassTime
  <2>4. ASSUME NEW k \in Nat PROVE k \in 0..k /\ Smaller(k - k, MaxAge) = 0
    BY <1>1 DEF Smaller
  <2>5. now' \in 0..now' /\ Smaller(now' - now', MaxAge) = 0
    BY <1>1, <2>4
  <2> QED
    BY <2>2, <2>3, <2>5
<1>4. CASE state = "AlmostClosed"
  <2>1. ~wrapped
    BY <1>4, ClockMoves
  <2>2. PICK t \in 0..now : almostClosedTimeMs = Ms(t) /\ sinceOpen = Smaller(now - t, MaxAge)
    BY <1>4, <2>1 DEF ClosingInv
  <2>3. almostClosedTimeMs' = Ms(t)
    BY <1>2, <1>4, <2>2 DEF PositionAndChickSensing
  <2>4. t \in 0..now' /\ sinceOpen' = Smaller(now' - t, MaxAge)
    BY <1>4, <2>2, MomentStays
  <2> QED
    BY <2>3, <2>4
<1> QED
  BY <1>1, <1>3, <1>4

(* While the pedal is not sensed the moment stays. *)
LEMMA ClosingWaits ==
  ASSUME TypeOK, ClosingInv, NEW us \in 0..MaxLoopUs, PassTime(us), UNCHANGED pedal
  PROVE  ClosingInv'
<1> SUFFICES ASSUME state' = "AlmostClosed", ~wrapped'
             PROVE  \E t \in 0..now' : /\ almostClosedTimeMs' = Ms(t)
                                       /\ sinceOpen' = Smaller(now' - t, MaxAge)
  BY DEF ClosingInv, Ms
<1>1. state = "AlmostClosed" /\ almostClosedTimeMs' = almostClosedTimeMs
  BY DEF pedal
<1>2. ~wrapped
  BY <1>1, ClockMoves
<1>3. PICK t \in 0..now : almostClosedTimeMs = Ms(t) /\ sinceOpen = Smaller(now - t, MaxAge)
  BY <1>1, <1>2 DEF ClosingInv
<1>4. t \in 0..now' /\ sinceOpen' = Smaller(now' - t, MaxAge)
  BY <1>1, <1>3, MomentStays
<1> QED
  BY <1>1, <1>3, <1>4

(* Sensing finds what the hi-hat whose turn it is will send: the movement  *)
(* and the chick of the sensing before were sent.                          *)
LEMMA SensingIsSentFirst ==
  ASSUME ReceiverKnowsThePedal, NEW us, NEW newReading, SensePedal(us, newReading)
  PROVE  ReceiverKnowsThePedal'
<1>1. receivedCC = pedalCC /\ unplayed = 0
  BY DEF SensePedal, IsTurnToSense, ReceiverKnowsThePedal
<1>2. isSensed' = TRUE /\ receivedCC' = receivedCC
  BY DEF SensePedal
<1>3. CASE hasConnector
  <2>1. isMoving' = (pedalCC' # pedalCC) /\ unplayed' \in {chick', unplayed}
    BY <1>3 DEF SensePedal, Sense
  <2> QED
    BY <1>1, <1>2, <2>1 DEF ReceiverKnowsThePedal
<1>4. CASE ~hasConnector
  BY <1>1, <1>2, <1>4 DEF SensePedal, pedal, ReceiverKnowsThePedal
<1> QED
  BY <1>3, <1>4

(* Every step keeps the invariant. *)
LEMMA PedalInvStep == PedalInv /\ [Next]_vars => PedalInv'
<1> SUFFICES ASSUME PedalInv, [Next]_vars PROVE PedalInv'
  OBVIOUS
<1>0. TypeOK /\ ReceiverKnowsThePedal /\ ClosingInv
  BY DEF PedalInv
<1>1. TypeOK'
  BY <1>0, TypesStep
<1>2. ASSUME NEW us \in 0..MaxLoopUs, NEW newReading \in Readings,
             SensePedal(us, newReading)
      PROVE  ReceiverKnowsThePedal' /\ ClosingInv'
  <2>1. ReceiverKnowsThePedal'
    BY <1>0, <1>2, SensingIsSentFirst
  <2>2. PassTime(us)
    BY <1>2 DEF SensePedal
  <2>3. CASE hasConnector
    <3>1. Sense(newReading)
      BY <1>2, <2>3 DEF SensePedal
    <3>2. ASSUME state' = "AlmostClosed" PROVE state # "Closed"
      BY <3>1, <3>2 DEF Sense, PositionAndChickSensing, NextState
    <3>3. ClosingInv'
      BY <1>0, <2>2, <3>1, <3>2, MomentOfLeaving DEF ClosingInv, Ms
    <3> QED
      BY <2>1, <3>3
  <2>4. CASE ~hasConnector
    BY <1>0, <1>2, <2>1, <2>2, <2>4, ClosingWaits DEF SensePedal
  <2> QED
    BY <2>3, <2>4
<1>3. ASSUME EvaluateHiHat
      PROVE  ReceiverKnowsThePedal' /\ ClosingInv'
  <2>1. ReceiverKnowsThePedal'
    BY <1>0, <1>3 DEF EvaluateHiHat, ReceiverKnowsThePedal
  <2>2. ClosingInv'
    BY <1>0, <1>3 DEF EvaluateHiHat, ClosingInv, time, Ms
  <2> QED
    BY <2>1, <2>2
<1>4. ASSUME NEW us \in 0..MaxLoopUs, UpdateOtherDrums(us)
      PROVE  ReceiverKnowsThePedal' /\ ClosingInv'
  <2>1. ReceiverKnowsThePedal'
    BY <1>0, <1>4 DEF UpdateOtherDrums, pedal, turn, ReceiverKnowsThePedal
  <2>2. ClosingInv'
    BY <1>0, <1>4, ClosingWaits DEF UpdateOtherDrums
  <2> QED
    BY <2>1, <2>2
<1>5. ASSUME NEW newSettings, NEW connector, NEW count,
             ApplySettings(newSettings, connector, count)
      PROVE  ReceiverKnowsThePedal' /\ ClosingInv'
  BY <1>0, <1>5 DEF ApplySettings, pedal, turn, time, ReceiverKnowsThePedal, ClosingInv, Ms
<1>6. ASSUME UNCHANGED vars
      PROVE  ReceiverKnowsThePedal' /\ ClosingInv'
  BY <1>0, <1>6 DEF vars, pedal, turn, time, ReceiverKnowsThePedal, ClosingInv, Ms
<1> QED
  BY <1>1, <1>2, <1>3, <1>4, <1>5, <1>6 DEF Next, Sensing, PedalInv

(* Every variable has its type; the controller value is a MIDI value for   *)
(* every pair of thresholds and every reading.                             *)
THEOREM PedalTypes == Spec => []TypeOK
<1>1. PedalInv => TypeOK
  BY DEF PedalInv
<1> QED
  BY <1>1, PedalInvInit, PedalInvStep, PTL DEF Spec

(* The receiver always knows the position of the pedal and every chick is  *)
(* played, for any number of hi-hats that share the pedal, every noise     *)
(* tolerance, and every change of the settings and of the connector.       *)
THEOREM ReceiverAlwaysKnowsThePedal == Spec => []ReceiverKnowsThePedal
<1>1. PedalInv => ReceiverKnowsThePedal
  BY DEF PedalInv
<1> QED
  BY <1>1, PedalInvInit, PedalInvStep, PTL DEF Spec

(* The step that closes the pedal plays a chick if the closing was fast,   *)
(* and none if it was slow.                                                *)
LEMMA ChickOfClosing ==
  ASSUME TypeOK, ClosingInv, NEW us \in 0..MaxLoopUs, NEW newReading \in Readings,
         PassTime(us), Sense(newReading), Closes, ~wrapped'
  PROVE  /\ IsFast => chick' \in 1..MaxVelocity
         /\ IsSlow => chick' = 0
<1> DEFINE value   == ReduceNoise(newReading)
           timeout == settings.chickDetectTimeoutMs
           top     == Ms(ClockSize - 1)
<1>1. /\ ClockSize \in Nat \ {0} /\ MaxAge \in Nat /\ UsPerMs \in Nat \ {0}
      /\ now' \in Clock /\ settings \in PedalSettings
  BY TimeTypes, HiHatPedalAssumption DEF TypeOK
<1>2. PositionAndChickSensing(Ms(now'), value)
  BY DEF Sense
<1> HIDE DEF value
<1>3. IsClosed(value)
  BY <1>2 DEF Closes, PositionAndChickSensing, NextState
<1>4. chick' = ChickVelocity(ClosingTimeMs(Ms(now'), almostClosedTimeMs'))
  BY <1>2, <1>3 DEF Closes, PositionAndChickSensing
<1>5. PICK t \in 0..now' : /\ almostClosedTimeMs' = Ms(t)
                           /\ sinceOpen' = Smaller(now' - t, MaxAge)
  BY MomentOfLeaving DEF Closes
<1>6. t \in Clock /\ t \in Nat /\ now' \in Nat /\ t <= now'
  BY <1>1, <1>5 DEF Clock
<1> DEFINE a == Ms(now')
           b == Ms(t)
           c == a - b
           d == now' - t
<1>7. /\ a \in 0..top /\ b \in 0..top /\ a \in Nat /\ b \in Nat /\ b <= a
      /\ UsPerMs * a <= now' /\ now' < UsPerMs * a + UsPerMs
      /\ UsPerMs * b <= t /\ t < UsPerMs * b + UsPerMs
  <2>1. a \in 0..top /\ b \in 0..top
    BY <1>1, <1>6, MsType
  <2> QED
    BY <1>1, <1>6, <2>1, DivLemma, DivMonotone DEF Ms
<1>8. ClosingTimeMs(a, b) = c
  BY <1>7, ClosingTimeLemma
<1> HIDE DEF a, b, top
<1>9. UsPerMs * c < d + UsPerMs /\ d < UsPerMs * c + UsPerMs
  <2>1. UsPerMs * c = UsPerMs * a - UsPerMs * b /\ UsPerMs * a \in Nat /\ UsPerMs * b \in Nat
    BY <1>1, <1>7
  <2>2. d \in Int /\ c \in Int
    BY <1>6, <1>7
  <2> HIDE DEF c
  <2>3. UsPerMs * c \in Int
    BY <1>1, <2>2
  <2> QED
    BY <1>1, <1>6, <1>7, <2>1, <2>3
<1>10. /\ c \in Nat /\ d \in Nat /\ timeout \in Nat \ {0} /\ timeout * UsPerMs \in Nat
       /\ timeout * UsPerMs <= MaxAge
  <2>1. c \in Nat /\ d \in Nat
    <3>1. a \in Nat /\ b \in Nat /\ b <= a
      BY <1>7
    <3>2. t \in Nat /\ now' \in Nat /\ t <= now'
      BY <1>6
    <3>3. \A i, j \in Nat : j <= i => i - j \in Nat
      OBVIOUS
    <3> QED
      BY <3>1, <3>2, <3>3
  <2>2. timeout \in Nat \ {0} /\ timeout * UsPerMs <= MaxAge
    BY <1>1, SettingsType
  <2>3. timeout * UsPerMs \in Nat
    BY <1>1, <2>2
  <2> QED
    BY <2>1, <2>2, <2>3
<1>11. sinceOpen' = Smaller(d, MaxAge) /\ chick' = ChickVelocity(c)
  BY <1>4, <1>5, <1>8 DEF a, b
<1> HIDE DEF c, d, timeout
<1>12. ASSUME IsFast PROVE chick' \in 1..MaxVelocity
  <2>1. d + UsPerMs <= timeout * UsPerMs
    BY <1>1, <1>10, <1>11, <1>12 DEF IsFast, Smaller, timeout
  <2>2. UsPerMs * c < timeout * UsPerMs
    BY <1>1, <1>9, <1>10, <2>1
  <2>3. c <= timeout
    <3> SUFFICES ASSUME timeout < c PROVE FALSE
      BY <1>10
    <3>1. timeout * UsPerMs <= c * UsPerMs
      BY <1>1, <1>10, ProductLemma
    <3> QED
      BY <1>1, <1>10, <2>2, <3>1
  <2> QED
    BY <1>1, <1>10, <1>11, <2>3, FastChick DEF timeout
<1>13. ASSUME IsSlow PROVE chick' = 0
  <2>1. (timeout + 1) * UsPerMs <= d
    BY <1>1, <1>10, <1>11, <1>13 DEF IsSlow, Smaller, timeout
  <2>2. timeout < c
    <3> SUFFICES ASSUME c <= timeout PROVE FALSE
      BY <1>10
    <3>1. (c + 1) * UsPerMs <= (timeout + 1) * UsPerMs
      BY <1>1, <1>10, ProductLemma
    <3>2. (c + 1) * UsPerMs = UsPerMs * c + UsPerMs
      BY <1>1, <1>10
    <3> QED
      BY <1>1, <1>9, <1>10, <2>1, <3>1, <3>2
  <2> QED
    BY <1>1, <1>10, <1>11, <2>2, SlowChick DEF timeout
<1> QED
  BY <1>12, <1>13

(* A chick tells the closing time for every timeout and every width of the *)
(* clock: fast closings sound, slow ones do not, whichever ms the two      *)
(* times fall in, as long as micros() does not wrap around meanwhile.      *)
THEOREM ChicksSoundWhenFast == Spec => ChicksTellTheClosingTime
<1> DEFINE Told == Closes /\ ~wrapped' => /\ IsFast => chick' \in 1..MaxVelocity
                                          /\ IsSlow => chick' = 0
<1>1. PedalInv /\ [Next]_vars => [Told]_vars
  <2> SUFFICES ASSUME PedalInv, Next, Closes, ~wrapped'
               PROVE  /\ IsFast => chick' \in 1..MaxVelocity
                      /\ IsSlow => chick' = 0
    OBVIOUS
  <2>1. TypeOK /\ ClosingInv
    BY DEF PedalInv
  <2>2. PICK us \in 0..MaxLoopUs, newReading \in Readings : SensePedal(us, newReading)
    BY DEF Next, Sensing, EvaluateHiHat, UpdateOtherDrums, ApplySettings, pedal, Closes
  <2>3. PassTime(us) /\ Sense(newReading)
    BY <2>2 DEF SensePedal, pedal, Closes
  <2> QED
    BY <2>1, <2>3, ChickOfClosing
<1>2. ChicksTellTheClosingTime <=> [][Told]_vars
  BY DEF ChicksTellTheClosingTime
<1> QED
  BY <1>1, <1>2, PedalInvInit, PedalInvStep, PTL DEF Spec

-----------------------------------------------------------------------------
(* Steps that are counted, and sequences. *)
LEMMA InductionUpTo ==
  ASSUME NEW n \in Nat, NEW S, 0 \in S, \A i \in 0..(n - 1) : i \in S => i + 1 \in S
  PROVE  0..n \subseteq S
<1> DEFINE T == (0..n) \ S
<1> SUFFICES ASSUME T # {} PROVE FALSE
  OBVIOUS
<1>1. T \subseteq Nat
  OBVIOUS
<1>2. PICK x \in T : \A y \in T : ~(<<y, x>> \in OpToRel(<, Nat))
  <2> HIDE DEF T
  <2> QED
    BY <1>1, WFMin, NatLessThanWellFounded
<1>3. x \in 0..n /\ x \notin S /\ x # 0
  BY <1>2
<1>4. x - 1 \in 0..(n - 1) /\ (x - 1) + 1 = x /\ x - 1 \in Nat /\ x \in Nat /\ x - 1 < x
      /\ x - 1 \in 0..n
  BY <1>3
<1>5. <<x - 1, x>> \in OpToRel(<, Nat)
  BY <1>4 DEF OpToRel
<1>6. x - 1 \in S
  BY <1>2, <1>4, <1>5
<1> QED
  BY <1>3, <1>4, <1>6

IsSeq(q) == \E S : q \in Seq(S)

LEMMA SeqAppend ==
  ASSUME NEW q, IsSeq(q), NEW x
  PROVE  /\ IsSeq(Append(q, x)) /\ Len(q) \in Nat /\ Len(Append(q, x)) = Len(q) + 1
         /\ Append(q, x)[Len(q) + 1] = x
         /\ \A i \in 1..Len(q) : Append(q, x)[i] = q[i]
<1>1. PICK S : q \in Seq(S)
  BY DEF IsSeq
<1> DEFINE T == S \cup {x}
<1>2. q \in Seq(T) /\ x \in T
  BY <1>1, SeqMonotonic
<1> HIDE DEF T
<1>3. Append(q, x) \in Seq(T)
  BY <1>2
<1> QED
  BY <1>2, <1>3 DEF IsSeq

LEMMA OneElement == \A x : IsSeq(<< x >>) /\ Len(<< x >>) = 1 /\ << x >>[1] = x /\ << x >> # <<>>
<1> SUFFICES ASSUME NEW x
             PROVE  IsSeq(<< x >>) /\ Len(<< x >>) = 1 /\ << x >>[1] = x /\ << x >> # <<>>
  OBVIOUS
<1>1. << x >> \in Seq({x})
  OBVIOUS
<1> QED
  BY <1>1 DEF IsSeq

LEMMA NoElement == IsSeq(<<>>) /\ Len(<<>>) = 0
<1>1. <<>> \in Seq({0})
  OBVIOUS
<1> QED
  BY <1>1 DEF IsSeq

(* Sequences, with another element and without the last ones. *)
LEMMA SeqExcept ==
  ASSUME NEW q, IsSeq(q), NEW k \in 1..Len(q), NEW x
  PROVE  /\ IsSeq([q EXCEPT ![k] = x]) /\ Len([q EXCEPT ![k] = x]) = Len(q)
         /\ \A i \in 1..Len(q) : [q EXCEPT ![k] = x][i] = IF i = k THEN x ELSE q[i]
<1>1. PICK S : q \in Seq(S)
  BY DEF IsSeq
<1> DEFINE T == S \cup {x}
<1>2. q \in Seq(T) /\ x \in T
  BY <1>1, SeqMonotonic
<1> HIDE DEF T
<1>3. [q EXCEPT ![k] = x] \in Seq(T)
  BY <1>2
<1>4. Len([q EXCEPT ![k] = x]) = Len(q)
  BY <1>2, <1>3
<1>5. DOMAIN q = 1..Len(q)
  BY <1>1
<1> QED
  BY <1>3, <1>4, <1>5 DEF IsSeq

LEMMA SeqBegin ==
  ASSUME NEW q, IsSeq(q), NEW m \in 0..Len(q)
  PROVE  /\ IsSeq(SubSeq(q, 1, m)) /\ Len(SubSeq(q, 1, m)) = m
         /\ \A i \in 1..m : SubSeq(q, 1, m)[i] = q[i]
<1>1. PICK S : q \in Seq(S)
  BY DEF IsSeq
<1>2. SubSeq(q, 1, m) \in Seq(S) /\ Len(SubSeq(q, 1, m)) = m
  BY <1>1
<1> QED
  BY <1>1, <1>2 DEF IsSeq

-----------------------------------------------------------------------------
(* The gamepad.  What is computed step by step, as functions: the parser   *)
(* after each item, or after each field of an item; what is read from a    *)
(* report, from the items and as it is meant; the position of a field, and *)
(* the bits of a report before a field.                                    *)
RecStep(kind, x, y, k, before) ==
  CASE kind = "parse" -> HG!ParseItem(before, x[k])
    [] kind = "add" -> IF before.result = "crash" THEN before ELSE HG!AddField(before, x)
    [] kind = "fill" -> HG!ReadField(before, x[k], y, x[k].offset)
    [] kind = "meant" ->
         IF HG!IsWanted(x[k]) THEN HG!ReadField(before, x[k], y, HG!Position(x, k)) ELSE before
    [] kind = "position" ->
         IF x[k].id = x[y].id /\ x[k].type = x[y].type THEN before + x[k].size ELSE before
    [] kind = "place" ->
         IF x[k].report = y[1] /\ x[k].type = y[2] THEN before + x[k].size ELSE before

IsRec(kind, base, x, y, n, f) ==
  f = [k \in 0..n |-> IF k = 0 THEN base ELSE RecStep(kind, x, y, k, f[k - 1])]

(* There is such a function, up to any number of steps.                    *)
LEMMA RecExists ==
  ASSUME NEW kind, NEW base, NEW x, NEW y, NEW n \in Nat
  PROVE  \E f : IsRec(kind, base, x, y, n, f)
<1> DEFINE S == {i \in 0..n : \E f : IsRec(kind, base, x, y, i, f)}
<1>1. 0 \in S
  <2> DEFINE f == [k \in 0..0 |-> base]
  <2>1. IsRec(kind, base, x, y, 0, f)
    BY DEF IsRec
  <2> QED
    BY <2>1
<1>2. ASSUME NEW i \in 0..(n - 1), i \in S
      PROVE  i + 1 \in S
  <2>1. PICK f : IsRec(kind, base, x, y, i, f)
    BY <1>2
  <2>2. f = [k \in 0..i |-> IF k = 0 THEN base ELSE RecStep(kind, x, y, k, f[k - 1])]
    BY <2>1 DEF IsRec
  <2> DEFINE h == [k \in 0..(i + 1) |->
                     IF k = i + 1 THEN RecStep(kind, x, y, i + 1, f[i]) ELSE f[k]]
  <2>3. ASSUME NEW k \in 0..(i + 1)
        PROVE  h[k] = IF k = 0 THEN base ELSE RecStep(kind, x, y, k, h[k - 1])
    <3>1. CASE k = i + 1
      <4>1. k # 0 /\ k - 1 = i /\ i \in 0..(i + 1) /\ i # i + 1
        BY <3>1
      <4>2. h[k - 1] = f[i]
        BY <4>1
      <4> QED
        BY <3>1, <4>1, <4>2
    <3>2. CASE k # i + 1
      <4>1. /\ k \in 0..i /\ h[k] = f[k]
            /\ f[k] = IF k = 0 THEN base ELSE RecStep(kind, x, y, k, f[k - 1])
        BY <2>2, <3>2
      <4>2. k # 0 => h[k - 1] = f[k - 1]
        BY <4>1
      <4> HIDE DEF h
      <4> QED
        BY <4>1, <4>2
    <3> QED
      BY <3>1, <3>2
  <2>4. h = [k \in 0..(i + 1) |-> h[k]]
    OBVIOUS
  <2> HIDE DEF h
  <2>5. IsRec(kind, base, x, y, i + 1, h)
    BY <2>3, <2>4 DEF IsRec
  <2> QED
    BY <2>5
<1> HIDE DEF S
<1>3. 0..n \subseteq S
  BY <1>1, <1>2, InductionUpTo
<1> QED
  BY <1>3 DEF S

(* The first n steps do the same with both. *)
StepsAlike(kind, longer, x, y, n) ==
  \A k \in 1..n : \A before :
    RecStep(kind, longer, y, k, before) = RecStep(kind, x, y, k, before)

(* Two of them agree.                                                      *)
LEMMA RecAgrees ==
  ASSUME NEW kind, NEW base, NEW x, NEW y, NEW longer, NEW n \in Nat, NEW m \in Nat, n <= m,
         StepsAlike(kind, longer, x, y, n),
         NEW f, IsRec(kind, base, x, y, n, f), NEW g, IsRec(kind, base, longer, y, m, g)
  PROVE  \A k \in 0..n : f[k] = g[k]
<1> DEFINE S == {k \in 0..n : f[k] = g[k]}
<1>1. /\ f = [k \in 0..n |-> IF k = 0 THEN base ELSE RecStep(kind, x, y, k, f[k - 1])]
      /\ g = [k \in 0..m |-> IF k = 0 THEN base ELSE RecStep(kind, longer, y, k, g[k - 1])]
  BY DEF IsRec
<1>2. 0 \in S
  BY <1>1
<1>3. ASSUME NEW k \in 0..(n - 1), k \in S
      PROVE  k + 1 \in S
  <2>1. k + 1 \in 0..n /\ k + 1 \in 0..m /\ k + 1 \in 1..n /\ k + 1 # 0 /\ (k + 1) - 1 = k
    OBVIOUS
  <2>2. /\ f[k + 1] = RecStep(kind, x, y, k + 1, f[k])
        /\ g[k + 1] = RecStep(kind, longer, y, k + 1, g[k])
    BY <1>1, <2>1
  <2> QED
    BY <1>3, <2>1, <2>2 DEF StepsAlike
<1> HIDE DEF S
<1>4. 0..n \subseteq S
  BY <1>2, <1>3, InductionUpTo
<1> QED
  BY <1>4 DEF S

-----------------------------------------------------------------------------
(* One of them is computed. *)
LEMMA ParseRec ==
  ASSUME NEW d, Len(d) \in Nat
  PROVE  \E f : /\ IsRec("parse", HG!NewParser, d, 0, Len(d), f)
                /\ HG!Parse(d) =
                     LET p == f[Len(d)] IN
                     IF p.result = "crash" \/ p.items # <<>> THEN p
                     ELSE HG!Fail(p, "no unfiltered report items")
<1> DEFINE Is(f) == f = [n \in 0..Len(d) |->
                          IF n = 0 THEN HG!NewParser ELSE HG!ParseItem(f[n - 1], d[n])]
<1>1. \A f : Is(f) <=> IsRec("parse", HG!NewParser, d, 0, Len(d), f)
  BY DEF IsRec, RecStep
<1>2. PICK f : Is(f)
  BY <1>1, RecExists
<1> DEFINE g == CHOOSE h : Is(h)
<1>3. Is(g)
  BY <1>2, Zenon
<1>4. HG!Parse(d) =
        LET p == g[Len(d)] IN
        IF p.result = "crash" \/ p.items # <<>> THEN p
        ELSE HG!Fail(p, "no unfiltered report items")
  BY DEF HG!Parse
<1> QED
  BY <1>1, <1>3, <1>4

LEMMA AddFieldsRec ==
  ASSUME NEW p, NEW i, HG!Table(p).count \in Nat
  PROVE  \E f : /\ IsRec("add", p, i, 0, HG!Table(p).count, f)
                /\ HG!AddFields(p, i) = f[HG!Table(p).count]
<1> DEFINE Is(f) == f = [n \in 0..HG!Table(p).count |->
                          IF n = 0 THEN p
                          ELSE IF f[n - 1].result = "crash" THEN f[n - 1]
                          ELSE HG!AddField(f[n - 1], i)]
<1>1. \A f : Is(f) <=> IsRec("add", p, i, 0, HG!Table(p).count, f)
  BY DEF IsRec, RecStep
<1>2. PICK f : Is(f)
  BY <1>1, RecExists
<1> DEFINE g == CHOOSE h : Is(h)
<1>3. Is(g)
  BY <1>2, Zenon
<1>4. HG!AddFields(p, i) = g[HG!Table(p).count]
  BY DEF HG!AddFields
<1> QED
  BY <1>1, <1>3, <1>4

LEMMA FillRec ==
  ASSUME NEW items, NEW report, Len(items) \in Nat
  PROVE  \E f : /\ IsRec("fill", HG!NoData, items, report, Len(items), f)
                /\ HG!FillGenericReport(items, report) = f[Len(items)]
<1> DEFINE Is(f) == f = [n \in 0..Len(items) |->
                          IF n = 0 THEN HG!NoData
                          ELSE HG!ReadField(f[n - 1], items[n], report, items[n].offset)]
<1>1. \A f : Is(f) <=> IsRec("fill", HG!NoData, items, report, Len(items), f)
  BY DEF IsRec, RecStep
<1>2. PICK f : Is(f)
  BY <1>1, RecExists
<1> DEFINE g == CHOOSE h : Is(h)
<1>3. Is(g)
  BY <1>2, Zenon
<1>4. HG!FillGenericReport(items, report) = g[Len(items)]
  BY DEF HG!FillGenericReport
<1> QED
  BY <1>1, <1>3, <1>4

LEMMA MeantRec ==
  ASSUME NEW fields, NEW report, Len(fields) \in Nat
  PROVE  \E f : /\ IsRec("meant", HG!NoData, fields, report, Len(fields), f)
                /\ HG!Meant(fields, report) = f[Len(fields)]
<1> DEFINE Is(f) == f = [n \in 0..Len(fields) |->
                          IF n = 0 THEN HG!NoData
                          ELSE IF HG!IsWanted(fields[n])
                          THEN HG!ReadField(f[n - 1], fields[n], report, HG!Position(fields, n))
                          ELSE f[n - 1]]
<1>1. \A f : Is(f) <=> IsRec("meant", HG!NoData, fields, report, Len(fields), f)
  BY DEF IsRec, RecStep
<1>2. PICK f : Is(f)
  BY <1>1, RecExists
<1> DEFINE g == CHOOSE h : Is(h)
<1>3. Is(g)
  BY <1>2, Zenon
<1>4. HG!Meant(fields, report) = g[Len(fields)]
  BY DEF HG!Meant
<1> QED
  BY <1>1, <1>3, <1>4

LEMMA PositionRec ==
  ASSUME NEW fields, NEW n \in Nat \ {0}
  PROVE  \E f : /\ IsRec("position", 0, fields, n, n - 1, f)
                /\ HG!Position(fields, n) = f[n - 1]
<1> DEFINE Is(f) == f = [m \in 0..(n - 1) |->
                          IF m = 0 THEN 0
                          ELSE IF fields[m].id = fields[n].id /\ fields[m].type = fields[n].type
                          THEN f[m - 1] + fields[m].size ELSE f[m - 1]]
<1>0. n - 1 \in Nat
  OBVIOUS
<1>1. \A f : Is(f) <=> IsRec("position", 0, fields, n, n - 1, f)
  BY DEF IsRec, RecStep
<1>2. PICK f : Is(f)
  BY <1>0, <1>1, RecExists
<1> DEFINE g == CHOOSE h : Is(h)
<1>3. Is(g)
  BY <1>2, Zenon
<1>4. HG!Position(fields, n) = g[n - 1]
  BY DEF HG!Position
<1> QED
  BY <1>1, <1>3, <1>4

(* The bits of the report y[1] of type y[2], before a field. *)
Place(fields, y, n) == (CHOOSE f : IsRec("place", 0, fields, y, n, f))[n]

LEMMA PlaceRec ==
  ASSUME NEW fields, NEW y, NEW n \in Nat
  PROVE  \E f : IsRec("place", 0, fields, y, n, f) /\ Place(fields, y, n) = f[n]
<1> DEFINE Is(f) == IsRec("place", 0, fields, y, n, f)
<1>1. PICK f : Is(f)
  BY RecExists
<1> DEFINE g == CHOOSE h : Is(h)
<1>2. Is(g)
  BY <1>1, Zenon
<1>3. Place(fields, y, n) = g[n]
  BY DEF Place
<1> QED
  BY <1>2, <1>3

(* The bits of the report with a field, from those before it. *)
PlaceBehind(field, y, place) ==
  IF field.report = y[1] /\ field.type = y[2] THEN place + field.size ELSE place
(* The first n fields are the same. *)
SameFields(longer, fields, n) == \A k \in 1..n : longer[k] = fields[k]

(* Fields behind do not count. *)
LEMMA PlaceLemma ==
  ASSUME NEW fields, NEW longer, NEW y, NEW n \in Nat, SameFields(longer, fields, n)
  PROVE  /\ Place(fields, y, 0) = 0
         /\ Place(longer, y, n) = Place(fields, y, n)
         /\ Place(longer, y, n + 1) = PlaceBehind(longer[n + 1], y, Place(fields, y, n))
<1>1. PICK e : IsRec("place", 0, fields, y, 0, e) /\ Place(fields, y, 0) = e[0]
  BY PlaceRec
<1>2. Place(fields, y, 0) = 0
  BY <1>1 DEF IsRec
<1>3. PICK f : IsRec("place", 0, fields, y, n, f) /\ Place(fields, y, n) = f[n]
  BY PlaceRec
<1>4. PICK g : IsRec("place", 0, longer, y, n, g) /\ Place(longer, y, n) = g[n]
  BY PlaceRec
<1>5. n + 1 \in Nat /\ n <= n + 1 /\ n \in 0..n /\ n \in 0..(n + 1) /\ n + 1 \in 0..(n + 1)
      /\ n + 1 # 0 /\ (n + 1) - 1 = n /\ n <= n
  OBVIOUS
<1>6. PICK h : IsRec("place", 0, longer, y, n + 1, h) /\ Place(longer, y, n + 1) = h[n + 1]
  BY <1>5, PlaceRec
<1>7. StepsAlike("place", longer, fields, y, n)
  BY DEF StepsAlike, SameFields, RecStep
<1>8. Place(longer, y, n) = Place(fields, y, n)
  <2>1. \A k \in 0..n : f[k] = g[k]
    BY <1>3, <1>4, <1>5, <1>7, RecAgrees
  <2> QED
    BY <1>3, <1>4, <1>5, <2>1
<1>9. h[n] = f[n]
  <2> DEFINE m == n + 1
  <2>1. m \in Nat /\ n <= m /\ IsRec("place", 0, longer, y, m, h)
    BY <1>5, <1>6
  <2> HIDE DEF m
  <2>2. \A k \in 0..n : f[k] = h[k]
    BY <1>3, <1>7, <2>1, RecAgrees
  <2> QED
    BY <1>5, <2>2
<1>10. h[n + 1] = RecStep("place", longer, y, n + 1, h[n])
  BY <1>5, <1>6 DEF IsRec
<1>11. Place(longer, y, n + 1) = RecStep("place", longer, y, n + 1, Place(fields, y, n))
  BY <1>3, <1>6, <1>9, <1>10
<1> QED
  BY <1>2, <1>8, <1>11 DEF RecStep, PlaceBehind

LEMMA PlaceStays ==
  \A fields, longer, y : \A n \in Nat :
    SameFields(longer, fields, n) => Place(longer, y, n) = Place(fields, y, n)
BY PlaceLemma

LEMMA PlaceMore ==
  \A fields, longer, y : \A n \in Nat :
    SameFields(longer, fields, n) =>
      Place(longer, y, n + 1) = PlaceBehind(longer[n + 1], y, Place(fields, y, n))
BY PlaceLemma

(* A report without fields has no bits. *)
LEMMA PlaceNothing ==
  ASSUME NEW fields, NEW y, NEW n \in Nat, \A k \in 1..n : fields[k].report # y[1]
  PROVE  Place(fields, y, n) = 0
<1> DEFINE S == {k \in 0..n : Place(fields, y, k) = 0}
<1>1. 0 \in S
  BY PlaceLemma DEF SameFields
<1>2. ASSUME NEW k \in 0..(n - 1), k \in S
      PROVE  k + 1 \in S
  <2>1. Place(fields, y, k + 1) = Place(fields, y, k)
    <3>1. k \in Nat /\ k + 1 \in 1..n
      OBVIOUS
    <3>2. SameFields(fields, fields, k)
      BY DEF SameFields
    <3> QED
      BY <3>1, <3>2, PlaceLemma DEF PlaceBehind
  <2> QED
    BY <1>2, <2>1
<1> HIDE DEF S
<1>3. 0..n \subseteq S
  BY <1>1, <1>2, InductionUpTo
<1> QED
  BY <1>3 DEF S

(* If reports and ids go together, so do the positions of the two.         *)
LEMMA PositionIsPlace ==
  ASSUME NEW fields, NEW n \in Nat \ {0},
         \A m \in 1..(n - 1) : fields[m].id = fields[n].id <=> fields[m].report = fields[n].report
  PROVE  HG!Position(fields, n) = Place(fields, <<fields[n].report, fields[n].type>>, n - 1)
<1> DEFINE y == <<fields[n].report, fields[n].type>>
<1>0. n - 1 \in Nat /\ n - 1 \in 0..(n - 1) /\ y[1] = fields[n].report /\ y[2] = fields[n].type
  OBVIOUS
<1> HIDE DEF y
<1>1. PICK f : IsRec("position", 0, fields, n, n - 1, f) /\ HG!Position(fields, n) = f[n - 1]
  BY PositionRec
<1>2. PICK g : IsRec("place", 0, fields, y, n - 1, g) /\ Place(fields, y, n - 1) = g[n - 1]
  BY <1>0, PlaceRec
<1> DEFINE S == {k \in 0..(n - 1) : f[k] = g[k]}
<1>3. 0 \in S
  BY <1>1, <1>2 DEF IsRec
<1>4. ASSUME NEW k \in 0..((n - 1) - 1), k \in S
      PROVE  k + 1 \in S
  <2>1. k + 1 \in 0..(n - 1) /\ k + 1 # 0 /\ (k + 1) - 1 = k /\ k + 1 \in 1..(n - 1)
    OBVIOUS
  <2>2. /\ f[k + 1] = RecStep("position", fields, n, k + 1, f[k])
        /\ g[k + 1] = RecStep("place", fields, y, k + 1, g[k])
    BY <1>1, <1>2, <2>1 DEF IsRec
  <2>3. RecStep("position", fields, n, k + 1, f[k]) = RecStep("place", fields, y, k + 1, f[k])
    BY <1>0, <2>1 DEF RecStep
  <2> QED
    BY <1>4, <2>1, <2>2, <2>3
<1> HIDE DEF S
<1>5. 0..(n - 1) \subseteq S
  BY <1>0, <1>3, <1>4, InductionUpTo
<1> QED
  BY <1>0, <1>1, <1>2, <1>5 DEF S, y

-----------------------------------------------------------------------------
(* The parser.  The rows of its tables have a count; its reports have ids  *)
(* of their own; its collections are a list, the last one is open.         *)
ParserFields ==
  {"tables", "usages", "minimum", "maximum", "reports", "current", "usingIds",
   "parents", "open", "paths", "fields", "items", "result"}

IsRow(r) == DOMAIN r = {"page", "size", "count", "id"} /\ r.count \in Nat
IsTables(tables) ==
  IsSeq(tables) /\ Len(tables) \in Nat \ {0} /\ \A k \in 1..Len(tables) : IsRow(tables[k])

IsReportOf(r) == DOMAIN r = {"id", "bits"} /\ DOMAIN r.bits = HG!Types
IsReports(reports, current, usingIds) ==
  /\ IsSeq(reports) /\ current \in 1..Len(reports)
  /\ usingIds \in BOOLEAN /\ (~usingIds => Len(reports) = 1)
  /\ \A k \in 1..Len(reports) : IsReportOf(reports[k])
  /\ \A j, k \in 1..Len(reports) : reports[j].id = reports[k].id => j = k

IsCollections(parents, open, paths) ==
  /\ IsSeq(parents) /\ Len(parents) \in Nat \ {0} /\ paths = Len(parents)
  /\ \A k \in 1..Len(parents) : parents[k] = k - 1
  /\ IF open = 0 THEN Len(parents) = 1 ELSE open = Len(parents)

(* A field is where the fields before it end, in its report and of its     *)
(* type, and a report has the bits of all of its fields.                   *)
IsInPlace(fields, reports) ==
  /\ \A n \in 1..Len(fields) :
       /\ fields[n].report \in 1..Len(reports)
       /\ fields[n].offset = Place(fields, <<fields[n].report, fields[n].type>>, n - 1)
  /\ \A r \in 1..Len(reports) : \A t \in HG!Types :
       reports[r].bits[t] = Place(fields, <<r, t>>, Len(fields))

(* The items are the fields that are wanted, in their order: of[n] counts  *)
(* those of the first n fields.                                            *)
Counts(of, items, fields) ==
  /\ DOMAIN of = 0..Len(fields)
  /\ of[0] = 0 /\ of[Len(fields)] = Len(items)
  /\ \A n \in 0..Len(fields) : of[n] \in 0..Len(items)
  /\ \A n \in 1..Len(fields) :
       IF HG!IsWanted(fields[n])
       THEN of[n] = of[n - 1] + 1 /\ items[of[n]] = fields[n]
       ELSE of[n] = of[n - 1]
IsChosen(items, fields) ==
  IsSeq(items) /\ IsSeq(fields) /\ \E of : Counts(of, items, fields)

(* What holds after every item of a descriptor, and after a failure too.   *)
ParserInv(p) ==
  /\ DOMAIN p = ParserFields
  /\ IsTables(p.tables)
  /\ IsReports(p.reports, p.current, p.usingIds)
  /\ IsCollections(p.parents, p.open, p.paths)
  /\ IsInPlace(p.fields, p.reports)
  /\ IsChosen(p.items, p.fields)

LEMMA NewParserLemma == ParserInv(HG!NewParser)
<1> DEFINE p == HG!NewParser
           row == [page |-> "none", size |-> 0, count |-> 0, id |-> 0]
           report == [id |-> 0, bits |-> [t \in HG!Types |-> 0]]
<1>1. /\ DOMAIN p = ParserFields /\ p.tables = << row >> /\ p.reports = << report >>
      /\ p.current = 1 /\ p.usingIds = FALSE /\ p.parents = << 0 >> /\ p.open = 0 /\ p.paths = 1
      /\ p.fields = <<>> /\ p.items = <<>>
  BY DEF HG!NewParser, HG!NewReport, ParserFields
<1>2. IsRow(row) /\ IsReportOf(report) /\ \A t \in HG!Types : report.bits[t] = 0
  BY DEF IsRow, IsReportOf
<1> HIDE DEF p, row, report
<1>3. IsTables(p.tables)
  BY <1>1, <1>2, OneElement DEF IsTables
<1>4. IsReports(p.reports, p.current, p.usingIds)
  <2>1. IsSeq(<< report >>) /\ Len(<< report >>) = 1 /\ << report >>[1] = report
    BY OneElement
  <2>2. \A k \in 1..1 : IsReportOf(<< report >>[k])
    BY <1>2, <2>1
  <2>3. IsReports(<< report >>, 1, FALSE)
    BY <2>1, <2>2 DEF IsReports
  <2> QED
    BY <1>1, <2>3
<1>5. IsCollections(p.parents, p.open, p.paths)
  BY <1>1, OneElement DEF IsCollections
<1>6. IsInPlace(p.fields, p.reports)
  <2>1. Len(<< report >>) = 1 /\ << report >>[1] = report /\ Len(<<>>) = 0
    BY OneElement, NoElement
  <2>2. \A r, t : Place(<<>>, <<r, t>>, 0) = 0
    BY PlaceLemma DEF SameFields
  <2> QED
    BY <1>1, <1>2, <2>1, <2>2 DEF IsInPlace
<1>7. IsChosen(p.items, p.fields)
  <2> DEFINE of == [n \in {0} |-> 0]
  <2>1. DOMAIN of = 0..0 /\ of[0] = 0
    OBVIOUS
  <2> HIDE DEF of
  <2>2. Counts(of, <<>>, <<>>)
    BY <2>1, NoElement DEF Counts
  <2> QED
    BY <1>1, <2>2, NoElement DEF IsChosen
<1> QED
  BY <1>1, <1>3, <1>4, <1>5, <1>6, <1>7 DEF ParserInv, p

-----------------------------------------------------------------------------
(* Tables. *)
LEMMA SetTableLemma ==
  ASSUME NEW p, ParserInv(p), NEW column, NEW entry, column = "count" => entry \in Nat
  PROVE  /\ ParserInv(HG!SetTable(p, column, entry))
         /\ \A x \in ParserFields \ {"tables"} : HG!SetTable(p, column, entry)[x] = p[x]
<1> DEFINE t == p.tables
           n == Len(t)
           row == [t[n] EXCEPT ![column] = entry]
           q == HG!SetTable(p, column, entry)
<1>1. IsSeq(t) /\ n \in Nat \ {0} /\ n \in 1..n /\ IsRow(t[n]) /\ DOMAIN p = ParserFields
      /\ \A k \in 1..n : IsRow(t[k])
  BY DEF ParserInv, IsTables
<1>2. IsRow(row)
  BY <1>1 DEF IsRow
<1>3. q = [p EXCEPT !.tables = [t EXCEPT ![n] = row]]
  BY <1>1 DEF HG!SetTable, ParserFields
<1>4. DOMAIN q = ParserFields /\ q.tables = [t EXCEPT ![n] = row]
      /\ \A x \in ParserFields \ {"tables"} : q[x] = p[x]
  BY <1>1, <1>3 DEF ParserFields
<1> HIDE DEF row, q
<1>5. IsTables([t EXCEPT ![n] = row])
  BY <1>1, <1>2, SeqExcept DEF IsTables
<1>6. /\ q.reports = p.reports /\ q.current = p.current /\ q.usingIds = p.usingIds
      /\ q.parents = p.parents /\ q.open = p.open /\ q.paths = p.paths
      /\ q.fields = p.fields /\ q.items = p.items
  BY <1>4 DEF ParserFields
<1>7. ParserInv(q)
  BY <1>4, <1>5, <1>6 DEF ParserInv
<1> QED
  BY <1>4, <1>7 DEF q

LEMMA FailLemma ==
  ASSUME NEW p, ParserInv(p), NEW error
  PROVE  /\ ParserInv(HG!Fail(p, error)) /\ HG!Fail(p, error).result = error
         /\ \A x \in ParserFields \ {"result"} : HG!Fail(p, error)[x] = p[x]
<1> DEFINE q == HG!Fail(p, error)
<1>1. DOMAIN p = ParserFields
  BY DEF ParserInv
<1>2. DOMAIN q = ParserFields /\ q.result = error
      /\ \A x \in ParserFields \ {"result"} : q[x] = p[x]
  BY <1>1 DEF ParserFields, HG!Fail
<1> HIDE DEF q
<1>3. /\ q.tables = p.tables /\ q.reports = p.reports /\ q.current = p.current
      /\ q.usingIds = p.usingIds
      /\ q.parents = p.parents /\ q.open = p.open /\ q.paths = p.paths
      /\ q.fields = p.fields /\ q.items = p.items
  BY <1>2 DEF ParserFields
<1>4. ParserInv(q)
  BY <1>2, <1>3 DEF ParserInv
<1> QED
  BY <1>2, <1>4 DEF q

LEMMA TablesLemma ==
  ASSUME NEW p, ParserInv(p)
  PROVE  ParserInv(HG!PushTable(p)) /\ ParserInv(HG!PopTable(p))
<1> DEFINE t == p.tables
           n == Len(t)
<1>1. IsSeq(t) /\ n \in Nat \ {0} /\ n \in 1..n /\ IsRow(t[n]) /\ DOMAIN p = ParserFields
      /\ \A k \in 1..n : IsRow(t[k])
  BY DEF ParserInv, IsTables
<1>2. ASSUME NEW s, IsTables(s)
      PROVE  ParserInv([p EXCEPT !.tables = s])
  <2> DEFINE q == [p EXCEPT !.tables = s]
  <2>1. DOMAIN q = ParserFields /\ q.tables = s
        /\ q.reports = p.reports /\ q.current = p.current /\ q.usingIds = p.usingIds
        /\ q.parents = p.parents /\ q.open = p.open /\ q.paths = p.paths
        /\ q.fields = p.fields /\ q.items = p.items
    BY <1>1 DEF ParserFields
  <2> HIDE DEF q
  <2>2. ParserInv(q)
    BY <1>2, <2>1 DEF ParserInv
  <2> QED
    BY <2>2 DEF q
<1>3. ParserInv(HG!PushTable(p))
  <2>1. IsTables(Append(t, t[n]))
    <3> DEFINE a == Append(t, t[n])
    <3>1. IsSeq(a) /\ Len(a) = n + 1 /\ a[n + 1] = t[n] /\ \A k \in 1..n : a[k] = t[k]
      BY <1>1, SeqAppend
    <3> HIDE DEF a
    <3>2. \A k \in 1..(n + 1) : IsRow(a[k])
      BY <1>1, <3>1
    <3> QED
      BY <1>1, <3>1, <3>2 DEF IsTables, a
  <2>2. CASE n = StackDepth
    BY <2>2, FailLemma DEF HG!PushTable
  <2>3. CASE n # StackDepth
    <3>1. HG!PushTable(p) = [p EXCEPT !.tables = Append(t, t[n])]
      BY <1>1, <2>3 DEF HG!PushTable, HG!Table, ParserFields
    <3> QED
      BY <1>2, <2>1, <3>1
  <2> QED
    BY <2>2, <2>3
<1>4. ParserInv(HG!PopTable(p))
  <2>1. CASE n = 1
    BY <2>1, FailLemma DEF HG!PopTable
  <2>2. CASE n # 1
    <3>1. n - 1 \in 0..n /\ n - 1 \in Nat \ {0}
      BY <1>1, <2>2
    <3>2. IsTables(SubSeq(t, 1, n - 1))
      <4> DEFINE m == n - 1
                 a == SubSeq(t, 1, m)
      <4>1. IsSeq(a) /\ Len(a) = m /\ \A k \in 1..m : a[k] = t[k]
        BY <1>1, <3>1, SeqBegin
      <4>2. \A k \in 1..m : k \in 1..n
        BY <1>1
      <4> HIDE DEF a
      <4>3. \A k \in 1..Len(a) : IsRow(a[k])
        BY <1>1, <4>1, <4>2
      <4> QED
        BY <3>1, <4>1, <4>3 DEF IsTables, a
    <3>3. HG!PopTable(p) = [p EXCEPT !.tables = SubSeq(t, 1, n - 1)]
      BY <1>1, <2>2 DEF HG!PopTable, HG!Front, ParserFields
    <3> QED
      BY <1>2, <3>2, <3>3
  <2> QED
    BY <2>1, <2>2
<1> QED
  BY <1>3, <1>4

-----------------------------------------------------------------------------
(* What the invariant of the parser is about. *)
Kept == ParserFields \ {"usages", "minimum", "maximum", "result"}

(* Usages and results come and go. *)
LEMMA KeptLemma ==
  ASSUME NEW p, ParserInv(p), NEW q, DOMAIN q = ParserFields, \A x \in Kept : q[x] = p[x]
  PROVE  ParserInv(q)
<1>1. /\ q.tables = p.tables /\ q.reports = p.reports /\ q.current = p.current
      /\ q.usingIds = p.usingIds
      /\ q.parents = p.parents /\ q.open = p.open /\ q.paths = p.paths
      /\ q.fields = p.fields /\ q.items = p.items
  BY DEF Kept, ParserFields
<1> QED
  BY <1>1 DEF ParserInv

(* Reports. *)
LEMMA ReportsLemma ==
  ASSUME NEW q, ParserInv(q), NEW s, DOMAIN s = ParserFields,
         \A x \in Kept \ {"reports", "current", "usingIds"} : s[x] = q[x],
         IsReports(s.reports, s.current, s.usingIds), IsInPlace(q.fields, s.reports)
  PROVE  ParserInv(s)
<1>1. /\ s.tables = q.tables /\ s.parents = q.parents /\ s.open = q.open /\ s.paths = q.paths
      /\ s.fields = q.fields /\ s.items = q.items
  BY DEF Kept, ParserFields
<1> QED
  BY <1>1 DEF ParserInv

LEMMA ReportIdLemma ==
  ASSUME NEW p, ParserInv(p), NEW id
  PROVE  ParserInv(HG!SetReportId(p, id))
<1> DEFINE q == HG!SetTable(p, "id", id)
           known == {r \in DOMAIN p.reports : p.reports[r].id = id}
           n == Len(p.reports)
           c == p.current
           s == HG!SetReportId(p, id)
<1>1. ParserInv(q) /\ q.reports = p.reports /\ q.current = p.current
      /\ q.usingIds = p.usingIds /\ q.fields = p.fields
  BY SetTableLemma DEF ParserFields
<1>2. IsReports(p.reports, c, p.usingIds) /\ IsInPlace(p.fields, p.reports)
      /\ IsSeq(p.fields)
  BY DEF ParserInv, IsChosen
<1>3. /\ IsSeq(p.reports) /\ c \in 1..n /\ p.usingIds \in BOOLEAN
      /\ n \in Nat /\ DOMAIN p.reports = 1..n
  <2>1. \A S : p.reports \in Seq(S) => n \in Nat /\ DOMAIN p.reports = 1..n
    OBVIOUS
  <2> QED
    BY <1>2, <2>1 DEF IsReports, IsSeq
<1>4. DOMAIN q = ParserFields
  BY <1>1 DEF ParserInv
<1> HIDE DEF q
<1>5. ASSUME NEW reports, NEW current, IsReports(reports, current, TRUE),
              IsInPlace(p.fields, reports), DOMAIN s = ParserFields,
              s.usingIds = TRUE, s.reports = reports, s.current = current,
              \A x \in Kept \ {"reports", "current", "usingIds"} : s[x] = q[x]
       PROVE  ParserInv(s)
  <2> HIDE DEF s
  <2> QED
    BY <1>1, <1>5, ReportsLemma
<1>6. CASE ~p.usingIds
  <2> DEFINE r == [p.reports[c] EXCEPT !.id = id]
             reports == [p.reports EXCEPT ![c] = r]
  <2>1. /\ IsReportOf(p.reports[c]) /\ r.bits = p.reports[c].bits /\ IsReportOf(r)
    BY <1>2, <1>3 DEF IsReports, IsReportOf
  <2>2. n = 1 /\ c = 1
    BY <1>2, <1>3, <1>6 DEF IsReports
  <2>3. /\ DOMAIN s = ParserFields /\ s.usingIds = TRUE /\ s.reports = reports /\ s.current = c
        /\ \A x \in Kept \ {"reports", "current", "usingIds"} : s[x] = q[x]
    <3>1. s = [q EXCEPT !.usingIds = TRUE, !.reports[c].id = id]
      BY <1>6 DEF HG!SetReportId, q
    <3> HIDE DEF s
    <3> QED
      BY <1>1, <1>4, <3>1 DEF Kept, ParserFields
  <2> HIDE DEF r
  <2>4. IsSeq(reports) /\ Len(reports) = n /\ \A k \in 1..n : reports[k] = r
    BY <1>3, <2>2, SeqExcept
  <2> HIDE DEF reports
  <2>5. \A k \in 1..n : reports[k].bits = p.reports[k].bits
    BY <2>1, <2>2, <2>4
  <2>6. IsReports(reports, c, TRUE)
    BY <1>3, <2>1, <2>2, <2>4 DEF IsReports
  <2>7. IsInPlace(p.fields, reports)
    BY <1>2, <2>4, <2>5 DEF IsInPlace
  <2> HIDE DEF s
  <2> QED
    BY <1>5, <2>3, <2>6, <2>7 DEF s
<1>7. CASE p.usingIds /\ known # {}
  <2> DEFINE r == CHOOSE x \in known : \A z \in known : x <= z
  <2>1. PICK e \in known : TRUE
    BY <1>7
  <2>2. \A z \in known : z = e
    BY <1>2, <1>3, <2>1 DEF IsReports
  <2>3. \E y \in known : \A z \in known : y <= z
    BY <1>3, <2>1, <2>2
  <2>4. r \in known
    BY <2>3
  <2>5. /\ DOMAIN s = ParserFields /\ s.usingIds = TRUE /\ s.reports = p.reports /\ s.current = r
        /\ \A x \in Kept \ {"reports", "current", "usingIds"} : s[x] = q[x]
    <3>1. s = [q EXCEPT !.current = r]
      BY <1>7 DEF HG!SetReportId, q
    <3>2. q.usingIds = TRUE
      BY <1>1, <1>3, <1>7
    <3> HIDE DEF r, s
    <3> QED
      BY <1>1, <1>4, <3>1, <3>2 DEF ParserFields, Kept
  <2>6. r \in 1..n
    BY <1>3, <2>4
  <2> HIDE DEF r, known
  <2>7. IsReports(p.reports, r, TRUE)
    BY <1>2, <2>6 DEF IsReports
  <2> HIDE DEF s
  <2> QED
    BY <1>2, <1>5, <2>5, <2>7 DEF s
<1>8. CASE p.usingIds /\ known = {}
  <2> DEFINE r == HG!NewReport(id)
             reports == Append(p.reports, r)
  <2>1. IsReportOf(r) /\ r.id = id /\ \A t \in HG!Types : r.bits[t] = 0
    BY DEF IsReportOf, HG!NewReport
  <2>2. /\ DOMAIN s = ParserFields /\ s.usingIds = TRUE /\ s.reports = reports /\ s.current = n + 1
        /\ \A x \in Kept \ {"reports", "current", "usingIds"} : s[x] = q[x]
    <3>1. s = [q EXCEPT !.reports = Append(@, r), !.current = n + 1]
      BY <1>8 DEF HG!SetReportId, q
    <3>2. q.usingIds = TRUE
      BY <1>1, <1>3, <1>8
    <3> HIDE DEF r, s
    <3> QED
      BY <1>1, <1>4, <3>1, <3>2 DEF ParserFields, Kept
  <2> HIDE DEF r
  <2>3. /\ IsSeq(reports) /\ Len(reports) = n + 1 /\ reports[n + 1] = r
        /\ \A k \in 1..n : reports[k] = p.reports[k]
    BY <1>3, SeqAppend
  <2> HIDE DEF reports
  <2>4. \A k \in 1..n : p.reports[k].id # id
    BY <1>3, <1>8
  <2>5. IsReports(reports, n + 1, TRUE)
    <3>1. n + 1 \in 1..Len(reports)
      BY <1>3, <2>3
    <3>2. \A k \in 1..(n + 1) : k = n + 1 \/ k \in 1..n
      BY <1>3
    <3>3. \A k \in 1..Len(reports) : IsReportOf(reports[k])
      BY <1>2, <2>1, <2>3, <3>2 DEF IsReports
    <3>4. \A j, k \in 1..Len(reports) : reports[j].id = reports[k].id => j = k
      <4>1. \A j, k \in 1..n : p.reports[j].id = p.reports[k].id => j = k
        BY <1>2 DEF IsReports
      <4>2. \A k \in 1..n : reports[k].id = p.reports[k].id /\ reports[k].id # id
        BY <2>3, <2>4
      <4>3. reports[n + 1].id = id
        BY <2>1, <2>3
      <4> QED
        BY <2>3, <3>2, <4>1, <4>2, <4>3
    <3> QED
      BY <2>3, <3>1, <3>3, <3>4 DEF IsReports
  <2>6. IsInPlace(p.fields, reports)
    <3> DEFINE m == Len(p.fields)
    <3>1. m \in Nat /\ \A k \in 1..m : p.fields[k].report \in 1..n
      BY <1>2, SeqAppend DEF IsInPlace
    <3>2. \A t \in HG!Types : Place(p.fields, <<n + 1, t>>, m) = 0
      <4> TAKE t \in HG!Types
      <4> DEFINE y == <<n + 1, t>>
      <4>1. y[1] = n + 1
        OBVIOUS
      <4> HIDE DEF y
      <4>2. \A k \in 1..m : p.fields[k].report # y[1]
        BY <1>3, <3>1, <4>1
      <4> HIDE DEF m
      <4>3. Place(p.fields, y, m) = 0
        BY <3>1, <4>2, PlaceNothing
      <4> QED
        BY <4>3 DEF y
    <3>3. \A k \in 1..(n + 1) : k = n + 1 \/ k \in 1..n
      BY <1>3
    <3>4. \A k \in 1..n : k \in 1..(n + 1)
      BY <1>3
    <3> QED
      BY <1>2, <2>1, <2>3, <3>2, <3>3, <3>4 DEF IsInPlace
  <2> HIDE DEF s
  <2> QED
    BY <1>5, <2>2, <2>5, <2>6 DEF s
<1> QED
  BY <1>3, <1>6, <1>7, <1>8

-----------------------------------------------------------------------------
(* Usages. *)
LEMMA TakeUsageLemma ==
  ASSUME NEW p, ParserInv(p)
  PROVE  /\ ParserInv(HG!TakeUsage(p))
         /\ \A x \in Kept : HG!TakeUsage(p)[x] = p[x]
<1>1. DOMAIN p = ParserFields
  BY DEF ParserInv
<1> DEFINE q == HG!TakeUsage(p)
<1>2. DOMAIN q = ParserFields /\ \A x \in Kept : q[x] = p[x]
  BY <1>1 DEF HG!TakeUsage, ParserFields, Kept
<1> HIDE DEF q
<1> QED
  BY <1>2, KeptLemma DEF q

LEMMA ForgetLemma ==
  ASSUME NEW p, ParserInv(p)
  PROVE  ParserInv(HG!ForgetUsages(p))
<1>1. DOMAIN p = ParserFields
  BY DEF ParserInv
<1> DEFINE q == HG!ForgetUsages(p)
<1>2. DOMAIN q = ParserFields /\ \A x \in Kept : q[x] = p[x]
  BY <1>1 DEF HG!ForgetUsages, ParserFields, Kept
<1> HIDE DEF q
<1> QED
  BY <1>2, KeptLemma DEF q

LEMMA UsageLemma ==
  ASSUME NEW p, ParserInv(p), NEW i
  PROVE  /\ ParserInv(HG!AddUsage(p, i))
         /\ ParserInv([p EXCEPT !.minimum = i.value])
         /\ ParserInv([p EXCEPT !.maximum = i.value])
<1>1. DOMAIN p = ParserFields
  BY DEF ParserInv
<1>2. ParserInv([p EXCEPT !.minimum = i.value])
  <2> DEFINE q == [p EXCEPT !.minimum = i.value]
  <2>1. DOMAIN q = ParserFields /\ \A x \in Kept : q[x] = p[x]
    BY <1>1 DEF ParserFields, Kept
  <2> HIDE DEF q
  <2> QED
    BY <2>1, KeptLemma DEF q
<1>3. ParserInv([p EXCEPT !.maximum = i.value])
  <2> DEFINE q == [p EXCEPT !.maximum = i.value]
  <2>1. DOMAIN q = ParserFields /\ \A x \in Kept : q[x] = p[x]
    BY <1>1 DEF ParserFields, Kept
  <2> HIDE DEF q
  <2> QED
    BY <2>1, KeptLemma DEF q
<1>4. ParserInv(HG!AddUsage(p, i))
  <2> DEFINE q == IF i.page = "same" THEN p ELSE HG!SetTable(p, "page", i.page)
             u == [q EXCEPT !.usages = Append(@, i.usage)]
  <2>1. ParserInv(q)
    BY SetTableLemma
  <2>2. DOMAIN q = ParserFields
    BY <2>1 DEF ParserInv
  <2>3. IF Len(p.usages) = UsageDepth THEN HG!AddUsage(p, i) = HG!Fail(p, "usage list overflow")
        ELSE HG!AddUsage(p, i) = u
    BY DEF HG!AddUsage
  <2> HIDE DEF q
  <2>4. DOMAIN u = ParserFields /\ \A x \in Kept : u[x] = q[x]
    BY <2>2 DEF ParserFields, Kept
  <2> HIDE DEF u
  <2>5. ParserInv(u)
    BY <2>1, <2>4, KeptLemma
  <2> QED
    BY <2>3, <2>5, FailLemma
<1> QED
  BY <1>2, <1>3, <1>4

-----------------------------------------------------------------------------
(* Collections. *)
LEMMA CollectionsLemma ==
  ASSUME NEW q, ParserInv(q), NEW s, DOMAIN s = ParserFields,
         \A x \in Kept \ {"parents", "open", "paths"} : s[x] = q[x],
         IsCollections(s.parents, s.open, s.paths)
  PROVE  ParserInv(s)
<1>1. /\ s.tables = q.tables /\ s.reports = q.reports /\ s.current = q.current
      /\ s.usingIds = q.usingIds /\ s.fields = q.fields /\ s.items = q.items
  BY DEF Kept, ParserFields
<1> QED
  BY <1>1 DEF ParserInv

LEMMA BeginLemma ==
  ASSUME NEW p, ParserInv(p)
  PROVE  ParserInv(HG!BeginCollection(p))
<1> DEFINE q == HG!TakeUsage(p)
           s == HG!BeginCollection(p)
           n == Len(p.parents)
<1>1. ParserInv(q) /\ q.parents = p.parents /\ q.open = p.open /\ q.paths = p.paths
  BY TakeUsageLemma DEF Kept, ParserFields
<1>2. DOMAIN q = ParserFields /\ IsCollections(p.parents, p.open, p.paths)
  BY <1>1 DEF ParserInv
<1>3. CASE p.open = 0
  <2>1. s = [q EXCEPT !.open = 1]
    BY <1>3 DEF HG!BeginCollection
  <2> HIDE DEF q, s
  <2>2. /\ DOMAIN s = ParserFields /\ \A x \in Kept \ {"parents", "open", "paths"} : s[x] = q[x]
        /\ s.parents = p.parents /\ s.open = 1 /\ s.paths = p.paths
    BY <1>1, <1>2, <2>1 DEF ParserFields, Kept
  <2>3. IsCollections(s.parents, s.open, s.paths)
    BY <1>2, <1>3, <2>2 DEF IsCollections
  <2>4. ParserInv(s)
    BY <1>1, <2>2, <2>3, CollectionsLemma
  <2> QED
    BY <2>4 DEF s
<1>4. CASE p.open # 0
  <2>1. s = [q EXCEPT !.parents = Append(@, p.open), !.open = n + 1, !.paths = @ + 1]
    BY <1>4 DEF HG!BeginCollection
  <2> HIDE DEF q, s
  <2>2. /\ DOMAIN s = ParserFields /\ \A x \in Kept \ {"parents", "open", "paths"} : s[x] = q[x]
        /\ s.parents = Append(p.parents, p.open) /\ s.open = n + 1 /\ s.paths = p.paths + 1
    BY <1>1, <1>2, <2>1 DEF ParserFields, Kept
  <2>3. /\ IsSeq(p.parents) /\ n \in Nat \ {0} /\ p.open = n /\ p.paths = n
        /\ \A k \in 1..n : p.parents[k] = k - 1
    BY <1>2, <1>4 DEF IsCollections
  <2> DEFINE a == Append(p.parents, p.open)
  <2>4. IsSeq(a) /\ Len(a) = n + 1 /\ a[n + 1] = p.open /\ \A k \in 1..n : a[k] = p.parents[k]
    BY <2>3, SeqAppend
  <2> HIDE DEF a
  <2>5. \A k \in 1..(n + 1) : a[k] = k - 1
    <3>1. \A k \in 1..(n + 1) : k = n + 1 \/ k \in 1..n
      BY <2>3
    <3>2. (n + 1) - 1 = n
      BY <2>3
    <3> QED
      BY <2>3, <2>4, <3>1, <3>2
  <2>6. IsCollections(a, n + 1, n + 1)
    BY <2>3, <2>4, <2>5 DEF IsCollections
  <2>7. ParserInv(s)
    BY <1>1, <2>2, <2>3, <2>6, CollectionsLemma DEF a
  <2> QED
    BY <2>7 DEF s
<1> QED
  BY <1>3, <1>4

LEMMA EndLemma ==
  ASSUME NEW p, ParserInv(p)
  PROVE  ParserInv(HG!EndCollection(p))
<1> DEFINE s == HG!EndCollection(p)
           n == Len(p.parents)
<1>1. DOMAIN p = ParserFields /\ IsCollections(p.parents, p.open, p.paths)
  BY DEF ParserInv
<1>2. CASE p.open = 0
  BY <1>2, FailLemma DEF HG!EndCollection
<1>3. ASSUME p.open # 0
      PROVE  ParserInv(HG!EndCollection(p))
  <2>1. /\ IsSeq(p.parents) /\ n \in Nat \ {0} /\ p.open = n /\ p.paths = n
        /\ \A k \in 1..n : p.parents[k] = k - 1
    BY <1>1, <1>3 DEF IsCollections
  <2>2. p.parents[p.open] = n - 1
    BY <2>1
  <2>3. CASE n = 1
    <3>1. s = [p EXCEPT !.open = 0]
      BY <1>3, <2>2, <2>3 DEF HG!EndCollection
    <3> HIDE DEF s
    <3>2. /\ DOMAIN s = ParserFields
          /\ \A x \in Kept \ {"parents", "open", "paths"} : s[x] = p[x]
          /\ s.parents = p.parents /\ s.open = 0 /\ s.paths = p.paths
      BY <1>1, <3>1 DEF ParserFields, Kept
    <3>3. IsCollections(s.parents, s.open, s.paths)
      BY <1>1, <2>3, <3>2 DEF IsCollections
    <3>4. ParserInv(s)
      BY <3>2, <3>3, CollectionsLemma
    <3> QED
      BY <3>4 DEF s
  <2>4. CASE n # 1
    <3> DEFINE m == n - 1
               a == SubSeq(p.parents, 1, m)
    <3>1. m \in 0..n /\ m \in Nat \ {0} /\ m # 0 /\ n - 1 = m
      BY <2>1, <2>4
    <3>2. s = [p EXCEPT !.open = m, !.parents = SubSeq(@, 1, m), !.paths = @ - 1]
      BY <1>3, <2>2, <3>1 DEF HG!EndCollection
    <3>3. IsSeq(a) /\ Len(a) = m /\ \A k \in 1..m : a[k] = p.parents[k]
      BY <2>1, <3>1, SeqBegin
    <3> HIDE DEF s, m
    <3>4. /\ DOMAIN s = ParserFields
          /\ \A x \in Kept \ {"parents", "open", "paths"} : s[x] = p[x]
          /\ s.parents = a /\ s.open = m /\ s.paths = n - 1
      BY <1>1, <2>1, <3>2 DEF ParserFields, Kept
    <3> HIDE DEF a
    <3>5. \A k \in 1..m : k \in 1..n
      BY <2>1, <3>1
    <3>6. \A k \in 1..m : a[k] = k - 1
      BY <2>1, <3>3, <3>5
    <3>7. IsCollections(s.parents, s.open, s.paths)
      BY <3>1, <3>3, <3>4, <3>6 DEF IsCollections
    <3>8. ParserInv(s)
      BY <3>4, <3>7, CollectionsLemma
    <3> QED
      BY <3>8 DEF s
  <2> HIDE DEF s
  <2> QED
    BY <2>3, <2>4
<1> QED
  BY <1>2, <1>3

-----------------------------------------------------------------------------
(* Fields.  A new one is put behind those of its report. *)
LEMMA InPlaceLemma ==
  ASSUME NEW fields, NEW reports, NEW c, NEW usingIds, NEW tag \in HG!Types, NEW f, NEW more,
         IsReports(reports, c, usingIds), IsSeq(fields), IsInPlace(fields, reports),
         f.report = c, f.type = tag, f.offset = reports[c].bits[tag],
         more = [reports EXCEPT ![c].bits[tag] = @ + f.size]
  PROVE  IsReports(more, c, usingIds) /\ IsInPlace(Append(fields, f), more)
<1> DEFINE n == Len(fields)
           R == Len(reports)
           r == [reports[c] EXCEPT !.bits[tag] = @ + f.size]
           a == Append(fields, f)
<1>1. /\ IsSeq(reports) /\ R \in Nat /\ c \in 1..R /\ IsReportOf(reports[c])
      /\ DOMAIN reports = 1..R
  <2>1. \A S : reports \in Seq(S) => R \in Nat /\ DOMAIN reports = 1..R
    OBVIOUS
  <2> QED
    BY <2>1 DEF IsReports, IsSeq
<1>2. /\ IsReportOf(r) /\ r.id = reports[c].id
      /\ \A t \in HG!Types : r.bits[t] = IF t = tag THEN reports[c].bits[t] + f.size
                                         ELSE reports[c].bits[t]
  BY <1>1 DEF IsReportOf
<1>3. more = [reports EXCEPT ![c] = r]
  BY <1>1
<1> HIDE DEF r
<1>4. IsSeq(more) /\ Len(more) = R /\ \A k \in 1..R : more[k] = IF k = c THEN r ELSE reports[k]
  <2>1. /\ IsSeq([reports EXCEPT ![c] = r]) /\ Len([reports EXCEPT ![c] = r]) = R
        /\ \A k \in 1..R : [reports EXCEPT ![c] = r][k] = IF k = c THEN r ELSE reports[k]
    BY <1>1, SeqExcept
  <2> QED
    BY <1>3, <2>1
<1>5. \A k \in 1..R :
        /\ IsReportOf(more[k]) /\ more[k].id = reports[k].id
        /\ \A t \in HG!Types :
             more[k].bits[t] = IF k = c /\ t = tag THEN reports[k].bits[t] + f.size
                               ELSE reports[k].bits[t]
  <2> TAKE k \in 1..R
  <2>1. CASE k = c
    BY <1>1, <1>2, <1>4, <2>1
  <2>2. CASE k # c
    BY <1>4, <2>2 DEF IsReports
  <2> QED
    BY <2>1, <2>2
<1>6. IsReports(more, c, usingIds)
  <2>1. \A k \in 1..Len(more) : IsReportOf(more[k])
    BY <1>4, <1>5
  <2>2. \A j, k \in 1..Len(more) : more[j].id = more[k].id => j = k
    BY <1>4, <1>5 DEF IsReports
  <2> QED
    BY <1>1, <1>4, <2>1, <2>2 DEF IsReports
<1>7. /\ n \in Nat /\ Len(a) = n + 1 /\ a[n + 1] = f /\ \A k \in 1..n : a[k] = fields[k]
  BY SeqAppend
<1> HIDE DEF a
<1>8. ASSUME NEW y, NEW m \in 0..n
      PROVE  Place(a, y, m) = Place(fields, y, m)
  <2>1. m \in Nat /\ \A k \in 1..m : k \in 1..n
    BY <1>7
  <2>2. SameFields(a, fields, m)
    BY <1>7, <2>1 DEF SameFields
  <2> QED
    BY <2>1, <2>2, PlaceStays
<1>9. ASSUME NEW y
      PROVE  Place(a, y, n + 1) = IF c = y[1] /\ tag = y[2]
                                  THEN Place(fields, y, n) + f.size ELSE Place(fields, y, n)
  <2>1. Place(a, y, n + 1) = PlaceBehind(a[n + 1], y, Place(fields, y, n))
    <3>1. SameFields(a, fields, n)
      BY <1>7 DEF SameFields
    <3> QED
      BY <1>7, <3>1, PlaceMore
  <2> QED
    BY <1>7, <2>1 DEF PlaceBehind
<1>10. /\ \A k \in 1..n : /\ fields[k].report \in 1..R
                          /\ fields[k].offset =
                               Place(fields, <<fields[k].report, fields[k].type>>, k - 1)
       /\ \A s \in 1..R : \A t \in HG!Types : reports[s].bits[t] = Place(fields, <<s, t>>, n)
  BY DEF IsInPlace
<1>11. ASSUME NEW k \in 1..(n + 1)
       PROVE  /\ a[k].report \in 1..R
              /\ a[k].offset = Place(a, <<a[k].report, a[k].type>>, k - 1)
  <2>1. CASE k = n + 1
    <3>1. a[k] = f /\ k - 1 = n /\ n \in 0..n
      BY <1>7, <2>1
    <3>2. Place(a, <<c, tag>>, n) = Place(fields, <<c, tag>>, n)
      BY <1>8, <3>1
    <3> QED
      BY <1>1, <1>10, <3>1, <3>2
  <2>2. CASE k # n + 1
    <3>1. k \in 1..n /\ k - 1 \in 0..n /\ a[k] = fields[k]
      BY <1>7, <2>2
    <3> DEFINE y == <<fields[k].report, fields[k].type>>
    <3> HIDE DEF y
    <3>2. Place(a, y, k - 1) = Place(fields, y, k - 1)
      BY <1>8, <3>1
    <3> QED
      BY <1>10, <3>1, <3>2 DEF y
  <2> QED
    BY <2>1, <2>2
<1>12. ASSUME NEW s \in 1..R, NEW t \in HG!Types
       PROVE  more[s].bits[t] = Place(a, <<s, t>>, n + 1)
  <2> DEFINE y == <<s, t>>
  <2>1. y[1] = s /\ y[2] = t /\ reports[s].bits[t] = Place(fields, y, n)
    BY <1>10
  <2> HIDE DEF y
  <2>2. Place(a, y, n + 1) = IF c = s /\ tag = t
                             THEN Place(fields, y, n) + f.size ELSE Place(fields, y, n)
    BY <1>9, <2>1
  <2>3. more[s].bits[t] = Place(a, y, n + 1)
    BY <1>5, <2>1, <2>2
  <2> QED
    BY <2>3 DEF y
<1>13. IsInPlace(a, more)
  BY <1>4, <1>7, <1>11, <1>12 DEF IsInPlace
<1> QED
  BY <1>6, <1>13 DEF a

LEMMA ChosenLemma ==
  ASSUME NEW items, NEW fields, IsChosen(items, fields), NEW f
  PROVE  /\ HG!IsWanted(f) => IsChosen(Append(items, f), Append(fields, f))
         /\ ~HG!IsWanted(f) => IsChosen(items, Append(fields, f))
<1> DEFINE n == Len(fields)
           a == Append(fields, f)
<1>1. PICK of : Counts(of, items, fields)
  BY DEF IsChosen
<1>2. /\ n \in Nat /\ IsSeq(a) /\ Len(a) = n + 1 /\ a[n + 1] = f
      /\ \A k \in 1..n : a[k] = fields[k]
  BY SeqAppend DEF IsChosen
<1> HIDE DEF a
<1>3. ASSUME NEW chosen, IsSeq(chosen), Len(items) <= Len(chosen),
             \A k \in 1..Len(items) : chosen[k] = items[k],
             IF HG!IsWanted(f) THEN Len(chosen) = Len(items) + 1 /\ chosen[Len(chosen)] = f
             ELSE Len(chosen) = Len(items)
      PROVE  IsChosen(chosen, a)
  <2> DEFINE m == Len(items)
             l == Len(chosen)
             g == [k \in 0..(n + 1) |-> IF k = n + 1 THEN l ELSE of[k]]
  <2>1. m \in Nat /\ l \in Nat
    BY <1>3, SeqAppend DEF IsChosen
  <2>2. DOMAIN g = 0..(n + 1) /\ g[n + 1] = l /\ \A k \in 0..n : g[k] = of[k]
    BY <1>2
  <2> HIDE DEF g
  <2>3. /\ of[0] = 0 /\ of[n] = m /\ \A k \in 0..n : of[k] \in 0..m
        /\ \A k \in 1..n : IF HG!IsWanted(fields[k])
                           THEN of[k] = of[k - 1] + 1 /\ items[of[k]] = fields[k]
                           ELSE of[k] = of[k - 1]
    BY <1>1 DEF Counts
  <2>4. \A k \in 0..(n + 1) : g[k] \in 0..l
    <3>1. \A k \in 0..(n + 1) : k = n + 1 \/ k \in 0..n
      BY <1>2
    <3>2. \A x \in 0..m : x \in 0..l
      BY <1>3, <2>1
    <3>3. l \in 0..l
      BY <2>1
    <3> QED
      BY <2>2, <2>3, <3>1, <3>2, <3>3
  <2>5. ASSUME NEW k \in 1..(n + 1)
        PROVE  IF HG!IsWanted(a[k]) THEN g[k] = g[k - 1] + 1 /\ chosen[g[k]] = a[k]
               ELSE g[k] = g[k - 1]
    <3>1. CASE k = n + 1
      <4>1. a[k] = f /\ g[k] = l /\ g[k - 1] = m
        <5>1. k - 1 = n /\ n \in 0..n
          BY <1>2, <3>1
        <5> QED
          BY <1>2, <2>2, <2>3, <3>1, <5>1
      <4> QED
        BY <1>3, <4>1
    <3>2. CASE k # n + 1
      <4>1. k \in 1..n /\ k \in 0..n /\ k - 1 \in 0..n
        BY <1>2, <3>2
      <4>2. a[k] = fields[k] /\ g[k] = of[k] /\ g[k - 1] = of[k - 1]
        BY <1>2, <2>2, <4>1
      <4>3. HG!IsWanted(fields[k]) => of[k] \in 1..m
        BY <2>1, <2>3, <4>1
      <4> QED
        BY <1>3, <2>3, <4>1, <4>2, <4>3
    <3> QED
      BY <3>1, <3>2
  <2>6. Counts(g, chosen, a)
    <3>1. 0 \in 0..n
      BY <1>2
    <3> QED
      BY <1>2, <2>2, <2>3, <2>4, <2>5, <3>1 DEF Counts
  <2> QED
    BY <1>2, <1>3, <2>6 DEF IsChosen
<1>4. ASSUME HG!IsWanted(f)
      PROVE  IsChosen(Append(items, f), a)
  <2> DEFINE chosen == Append(items, f)
  <2>1. /\ IsSeq(chosen) /\ Len(items) \in Nat /\ Len(chosen) = Len(items) + 1
        /\ chosen[Len(items) + 1] = f /\ \A k \in 1..Len(items) : chosen[k] = items[k]
    BY SeqAppend DEF IsChosen
  <2> HIDE DEF chosen
  <2>2. Len(items) <= Len(chosen)
    BY <2>1
  <2>3. IsChosen(chosen, a)
    BY <1>3, <1>4, <2>1, <2>2
  <2> QED
    BY <2>3 DEF chosen
<1>5. ASSUME ~HG!IsWanted(f)
      PROVE  IsChosen(items, a)
  <2>1. IsSeq(items) /\ Len(items) \in Nat
    BY SeqAppend DEF IsChosen
  <2>2. Len(items) <= Len(items)
    BY <2>1
  <2> QED
    BY <1>3, <1>5, <2>1, <2>2
<1> QED
  BY <1>4, <1>5 DEF a

LEMMA FieldLemma ==
  ASSUME NEW p, ParserInv(p), NEW i, i.tag \in HG!Types
  PROVE  ParserInv(HG!AddField(p, i))
<1> DEFINE t == HG!Table(p)
           tag == i.tag
           c == p.current
           f == [id |-> t.id, type |-> tag, constant |-> i.constant,
                 page |-> t.page, usage |-> HG!NextUsage(p), size |-> t.size,
                 report |-> c, offset |-> p.reports[c].bits[tag]]
           u == HG!TakeUsage(p)
           q == [u EXCEPT !.reports[c].bits[tag] = @ + t.size, !.fields = Append(@, f)]
           more == [p.reports EXCEPT ![c].bits[tag] = @ + t.size]
           s == HG!AddField(p, i)
<1>1. ParserInv(u) /\ \A x \in Kept : u[x] = p[x]
  BY TakeUsageLemma
<1>2. DOMAIN u = ParserFields /\ IsReports(p.reports, c, p.usingIds)
      /\ IsInPlace(p.fields, p.reports) /\ IsChosen(p.items, p.fields)
      /\ IsTables(p.tables) /\ IsCollections(p.parents, p.open, p.paths)
  BY <1>1 DEF ParserInv
<1>3. f.report = c /\ f.type = tag /\ f.offset = p.reports[c].bits[tag] /\ f.size = t.size
  OBVIOUS
<1>4. IF ~HG!IsWanted(f) THEN s = q
      ELSE IF Len(p.items) = ItemPool THEN s = HG!Fail(p, "crash")
      ELSE s = [q EXCEPT !.items = Append(@, f)]
  BY DEF HG!AddField
<1> HIDE DEF f, s, u
<1>5. /\ DOMAIN q = ParserFields /\ q.reports = more /\ q.fields = Append(p.fields, f)
      /\ \A x \in Kept \ {"reports", "fields"} : q[x] = p[x]
  BY <1>1, <1>2 DEF Kept, ParserFields
<1>6. IsReports(more, c, p.usingIds) /\ IsInPlace(Append(p.fields, f), more)
  <2>1. IsSeq(p.fields)
    BY <1>2 DEF IsChosen
  <2>2. tag \in HG!Types
    OBVIOUS
  <2>3. more = [p.reports EXCEPT ![c].bits[tag] = @ + f.size]
    BY <1>3
  <2>4. IsReports(p.reports, c, p.usingIds) /\ IsInPlace(p.fields, p.reports)
    BY <1>2
  <2> DEFINE fields == p.fields
             reports == p.reports
             usingIds == p.usingIds
  <2> HIDE DEF more, tag, c, fields, reports, usingIds
  <2>5. IsReports(reports, c, usingIds) /\ IsInPlace(fields, reports) /\ IsSeq(fields)
        /\ f.offset = reports[c].bits[tag] /\ more = [reports EXCEPT ![c].bits[tag] = @ + f.size]
    BY <1>3, <2>1, <2>3, <2>4 DEF fields, reports, usingIds
  <2>6. IsReports(more, c, usingIds) /\ IsInPlace(Append(fields, f), more)
    BY <1>3, <2>2, <2>5, InPlaceLemma
  <2> QED
    BY <2>6 DEF fields, reports, usingIds
<1> HIDE DEF q, more
<1>7. ASSUME NEW v, DOMAIN v = ParserFields, \A x \in Kept \ {"items"} : v[x] = q[x],
             IsChosen(v.items, Append(p.fields, f))
      PROVE  ParserInv(v)
  <2>1. /\ v.tables = p.tables /\ v.reports = more /\ v.current = c
        /\ v.usingIds = p.usingIds /\ v.parents = p.parents /\ v.open = p.open
        /\ v.paths = p.paths /\ v.fields = Append(p.fields, f)
    BY <1>5, <1>7 DEF Kept, ParserFields
  <2> QED
    BY <1>2, <1>6, <1>7, <2>1 DEF ParserInv
<1>8. CASE ~HG!IsWanted(f)
  <2>1. q.items = p.items
    BY <1>5 DEF Kept, ParserFields
  <2>2. IsChosen(q.items, Append(p.fields, f))
    BY <1>2, <1>8, <2>1, ChosenLemma
  <2>3. ParserInv(q)
    BY <1>5, <1>7, <2>2
  <2> QED
    BY <1>4, <1>8, <2>3 DEF s
<1>9. CASE HG!IsWanted(f) /\ Len(p.items) = ItemPool
  BY <1>4, <1>9, FailLemma DEF s
<1>10. CASE HG!IsWanted(f) /\ Len(p.items) # ItemPool
  <2> DEFINE v == [q EXCEPT !.items = Append(@, f)]
  <2>1. DOMAIN v = ParserFields /\ (\A x \in Kept \ {"items"} : v[x] = q[x])
        /\ v.items = Append(p.items, f)
    BY <1>5 DEF Kept, ParserFields
  <2> HIDE DEF v
  <2>2. IsChosen(v.items, Append(p.fields, f))
    BY <1>2, <1>10, <2>1, ChosenLemma
  <2>3. ParserInv(v)
    BY <1>7, <2>1, <2>2
  <2>4. s = v
    BY <1>4, <1>10 DEF v
  <2> QED
    BY <2>3, <2>4 DEF s
<1> QED
  BY <1>8, <1>9, <1>10

LEMMA FieldsLemma ==
  ASSUME NEW p, ParserInv(p), NEW i, i.tag \in HG!Types
  PROVE  ParserInv(HG!AddFields(p, i))
<1> DEFINE n == HG!Table(p).count
<1>1. n \in Nat
  <2>1. IsTables(p.tables)
    BY DEF ParserInv
  <2>2. Len(p.tables) \in 1..Len(p.tables)
    BY <2>1 DEF IsTables
  <2> QED
    BY <2>1, <2>2 DEF IsTables, IsRow, HG!Table
<1>2. PICK f : IsRec("add", p, i, 0, n, f) /\ HG!AddFields(p, i) = f[n]
  BY <1>1, AddFieldsRec
<1> HIDE DEF n
<1> DEFINE S == {k \in 0..n : ParserInv(f[k])}
<1>3. 0 \in S
  BY <1>1, <1>2 DEF IsRec
<1>4. ASSUME NEW k \in 0..(n - 1), k \in S
      PROVE  k + 1 \in S
  <2>1. k + 1 \in 0..n /\ k + 1 # 0 /\ (k + 1) - 1 = k
    BY <1>1
  <2>2. f[k + 1] = RecStep("add", i, 0, k + 1, f[k])
    BY <1>2, <2>1 DEF IsRec
  <2>3. f[k + 1] = IF f[k].result = "crash" THEN f[k] ELSE HG!AddField(f[k], i)
    BY <2>2 DEF RecStep
  <2>4. ParserInv(f[k])
    BY <1>4
  <2>5. ParserInv(HG!AddField(f[k], i))
    BY <2>4, FieldLemma
  <2>6. ParserInv(f[k + 1])
    BY <2>3, <2>4, <2>5
  <2> QED
    BY <2>1, <2>6
<1> HIDE DEF S
<1>5. 0..n \subseteq S
  BY <1>1, <1>3, <1>4, InductionUpTo
<1>6. n \in 0..n
  BY <1>1
<1> QED
  BY <1>2, <1>5, <1>6 DEF S

-----------------------------------------------------------------------------
(* One item of a descriptor, and all of them. *)
LEMMA ItemLemma ==
  ASSUME NEW p, ParserInv(p), NEW i, i.tag = "report count" => i.value \in Nat
  PROVE  ParserInv(HG!ParseItem(p, i))
<1> DEFINE tag == i.tag
           s == HG!ParseItem(p, i)
<1>1. ASSUME NEW column, column = "count" => i.value \in Nat
      PROVE  ParserInv(HG!SetTable(p, column, i.value))
  BY <1>1, SetTableLemma
<1>2. CASE p.result # "successful"
  BY <1>2 DEF HG!ParseItem
<1>3. ASSUME p.result = "successful"
      PROVE  ParserInv(s)
  <2>1. CASE tag = "push"
    BY <1>3, <2>1, TablesLemma DEF HG!ParseItem, HG!Types
  <2>2. CASE tag = "pop"
    BY <1>3, <2>2, TablesLemma DEF HG!ParseItem, HG!Types
  <2>3. CASE tag = "usage page"
    <3>1. s = HG!SetTable(p, "page", i.value)
      BY <1>3, <2>3 DEF HG!ParseItem, HG!Types
    <3>2. ParserInv(HG!SetTable(p, "page", i.value))
      BY <1>1
    <3> QED
      BY <3>1, <3>2
  <2>4. CASE tag = "report size"
    <3>1. s = HG!SetTable(p, "size", i.value)
      BY <1>3, <2>4 DEF HG!ParseItem, HG!Types
    <3>2. ParserInv(HG!SetTable(p, "size", i.value))
      BY <1>1
    <3> QED
      BY <3>1, <3>2
  <2>5. CASE tag = "report count"
    <3>1. s = HG!SetTable(p, "count", i.value)
      BY <1>3, <2>5 DEF HG!ParseItem, HG!Types
    <3>2. ParserInv(HG!SetTable(p, "count", i.value))
      BY <1>1, <2>5
    <3> QED
      BY <3>1, <3>2
  <2>6. CASE tag = "report id"
    BY <1>3, <2>6, ReportIdLemma DEF HG!ParseItem, HG!Types
  <2>7. CASE tag = "usage"
    BY <1>3, <2>7, UsageLemma DEF HG!ParseItem, HG!Types
  <2>8. CASE tag = "usage minimum"
    BY <1>3, <2>8, UsageLemma DEF HG!ParseItem, HG!Types
  <2>9. CASE tag = "usage maximum"
    BY <1>3, <2>9, UsageLemma DEF HG!ParseItem, HG!Types
  <2>10. CASE tag = "collection"
    BY <1>3, <2>10, BeginLemma, ForgetLemma DEF HG!ParseItem, HG!Types
  <2>11. CASE tag = "end collection"
    BY <1>3, <2>11, EndLemma, ForgetLemma DEF HG!ParseItem, HG!Types
  <2>12. CASE tag \in HG!Types
    <3>1. s = HG!ForgetUsages(HG!AddFields(p, i))
      BY <1>3, <2>12 DEF HG!ParseItem, HG!Types
    <3>2. ParserInv(HG!AddFields(p, i))
      BY <2>12, FieldsLemma
    <3> QED
      BY <3>1, <3>2, ForgetLemma
  <2>13. CASE tag \notin {"push", "pop", "usage page", "report size", "report count",
                          "report id", "usage", "usage minimum", "usage maximum",
                          "collection", "end collection"} \cup HG!Types
    <3>1. s = p
      BY <1>3, <2>13 DEF HG!ParseItem, HG!Types
    <3> QED
      BY <3>1
  <2> QED
    BY <2>1, <2>2, <2>3, <2>4, <2>5, <2>6, <2>7, <2>8, <2>9, <2>10, <2>11, <2>12, <2>13
<1> QED
  BY <1>2, <1>3

LEMMA DescriptorLemma ==
  ASSUME NEW d \in HidDescriptors
  PROVE  ParserInv(HG!Parse(d))
<1>1. /\ Len(d) \in Nat
      /\ \A k \in 1..Len(d) : d[k].tag = "report count" => d[k].value \in Nat
  <2>1. /\ d \in Seq({d[k] : k \in DOMAIN d})
        /\ \A k \in DOMAIN d : d[k].tag = "report count" => d[k].value \in Nat
    BY GamepadPortAssumption DEF HG!GamepadAssumption
  <2>2. \A S : d \in Seq(S) => Len(d) \in Nat /\ DOMAIN d = 1..Len(d)
    OBVIOUS
  <2>3. Len(d) \in Nat /\ DOMAIN d = 1..Len(d)
    BY <2>1, <2>2
  <2> QED
    BY <2>1, <2>3
<1>2. PICK f : /\ IsRec("parse", HG!NewParser, d, 0, Len(d), f)
               /\ HG!Parse(d) =
                    LET p == f[Len(d)] IN
                    IF p.result = "crash" \/ p.items # <<>> THEN p
                    ELSE HG!Fail(p, "no unfiltered report items")
  BY <1>1, ParseRec
<1> DEFINE n == Len(d)
           S == {k \in 0..n : ParserInv(f[k])}
<1>3. n \in Nat
  BY <1>1
<1> HIDE DEF n
<1>4. 0 \in S
  <2>1. 0 \in 0..n
    BY <1>3
  <2>2. f[0] = HG!NewParser
    BY <1>2, <2>1 DEF IsRec, n
  <2> QED
    BY <2>1, <2>2, NewParserLemma
<1>5. ASSUME NEW k \in 0..(n - 1), k \in S
      PROVE  k + 1 \in S
  <2>1. k + 1 \in 0..n /\ k + 1 # 0 /\ (k + 1) - 1 = k /\ k + 1 \in 1..n
    BY <1>3
  <2>2. f[k + 1] = RecStep("parse", d, 0, k + 1, f[k])
    BY <1>2, <2>1 DEF IsRec, n
  <2>3. f[k + 1] = HG!ParseItem(f[k], d[k + 1])
    BY <2>2 DEF RecStep
  <2>4. ParserInv(f[k])
    BY <1>5
  <2>5. ParserInv(f[k + 1])
    BY <1>1, <2>1, <2>3, <2>4, ItemLemma DEF n
  <2> QED
    BY <2>1, <2>5
<1> HIDE DEF S
<1>6. 0..n \subseteq S
  BY <1>3, <1>4, <1>5, InductionUpTo
<1>7. n \in 0..n
  BY <1>3
<1>8. ParserInv(f[n])
  BY <1>6, <1>7 DEF S
<1> QED
  BY <1>2, <1>8, FailLemma DEF n

-----------------------------------------------------------------------------
(* What is read from the items is what the fields mean. *)
LEMMA UnderstoodLemma ==
  ASSUME NEW p, ParserInv(p), HG!IsOrderly(p), NEW report
  PROVE  HG!FillGenericReport(p.items, report) = HG!Meant(p.fields, report)
<1> DEFINE items == p.items
           fields == p.fields
           reports == p.reports
           m == Len(items)
           n == Len(fields)
<1>1. /\ IsSeq(items) /\ IsSeq(fields) /\ IsInPlace(fields, reports)
      /\ IsReports(reports, p.current, p.usingIds)
  BY DEF ParserInv, IsChosen
<1>2. PICK of : Counts(of, items, fields)
  BY DEF ParserInv, IsChosen
<1>3. m \in Nat /\ n \in Nat /\ DOMAIN fields = 1..n
  <2>1. \A S : fields \in Seq(S) => n \in Nat /\ DOMAIN fields = 1..n
    OBVIOUS
  <2> QED
    BY <1>1, <2>1, SeqAppend DEF IsSeq
<1>4. \A k \in 1..n : reports[fields[k].report].id = fields[k].id
                      /\ fields[k].report \in 1..Len(reports)
  BY <1>1, <1>3 DEF HG!IsOrderly, IsInPlace
<1>5. ASSUME NEW k \in 1..n
      PROVE  HG!Position(fields, k) = fields[k].offset
  <2> HIDE DEF fields, reports
  <2>1. ASSUME NEW j \in 1..(k - 1)
        PROVE  fields[j].id = fields[k].id <=> fields[j].report = fields[k].report
    <3>1. j \in 1..n
      BY <1>3
    <3> QED
      BY <1>1, <1>4, <3>1 DEF IsReports
  <2>2. k \in Nat \ {0}
    BY <1>3
  <2>3. HG!Position(fields, k) = Place(fields, <<fields[k].report, fields[k].type>>, k - 1)
    BY <2>1, <2>2, PositionIsPlace
  <2> QED
    BY <1>1, <2>3 DEF IsInPlace
<1>6. PICK f : /\ IsRec("fill", HG!NoData, items, report, m, f)
               /\ HG!FillGenericReport(items, report) = f[m]
  BY <1>3, FillRec
<1>7. PICK g : /\ IsRec("meant", HG!NoData, fields, report, n, g)
               /\ HG!Meant(fields, report) = g[n]
  BY <1>3, MeantRec
<1>8. /\ of[0] = 0 /\ of[n] = m
      /\ \A k \in 0..n : of[k] \in 0..m
      /\ \A k \in 1..n :
           IF HG!IsWanted(fields[k])
           THEN of[k] = of[k - 1] + 1 /\ items[of[k]] = fields[k]
           ELSE of[k] = of[k - 1]
  BY <1>2 DEF Counts
<1> HIDE DEF items, fields, reports, m, n
<1> DEFINE S == {k \in 0..n : f[of[k]] = g[k]}
<1>9. 0 \in S
  <2>1. 0 \in 0..m /\ 0 \in 0..n
    BY <1>3
  <2> QED
    BY <1>6, <1>7, <1>8, <2>1 DEF IsRec
<1>10. ASSUME NEW k \in 0..(n - 1), k \in S
       PROVE  k + 1 \in S
  <2> DEFINE l == k + 1
  <2>1. l \in 0..n /\ l # 0 /\ l - 1 = k /\ l \in 1..n /\ k \in 0..n
    BY <1>3
  <2> HIDE DEF l
  <2>2. g[l] = IF HG!IsWanted(fields[l])
               THEN HG!ReadField(g[k], fields[l], report, HG!Position(fields, l)) ELSE g[k]
    <3>1. g[l] = RecStep("meant", fields, report, l, g[k])
      BY <1>7, <2>1 DEF IsRec
    <3> QED
      BY <3>1 DEF RecStep
  <2>3. f[of[k]] = g[k]
    BY <1>10
  <2>4. CASE HG!IsWanted(fields[l])
    <3>1. of[l] = of[k] + 1 /\ items[of[l]] = fields[l] /\ of[l] \in 0..m /\ of[k] \in 0..m
      BY <1>8, <2>1, <2>4
    <3>2. of[l] # 0 /\ of[l] - 1 = of[k]
      BY <1>3, <3>1
    <3>3. f[of[l]] = RecStep("fill", items, report, of[l], f[of[k]])
      BY <1>6, <3>1, <3>2 DEF IsRec
    <3>4. f[of[l]] = HG!ReadField(g[k], fields[l], report, fields[l].offset)
      BY <2>3, <3>1, <3>3 DEF RecStep
    <3>5. f[of[l]] = g[l]
      BY <1>5, <2>1, <2>2, <2>4, <3>4
    <3> QED
      BY <2>1, <3>5 DEF l
  <2>5. CASE ~HG!IsWanted(fields[l])
    <3>1. f[of[l]] = g[l]
      BY <1>8, <2>1, <2>2, <2>3, <2>5
    <3> QED
      BY <2>1, <3>1 DEF l
  <2> QED
    BY <2>4, <2>5
<1> HIDE DEF S
<1>11. 0..n \subseteq S
  BY <1>3, <1>9, <1>10, InductionUpTo
<1>12. n \in 0..n
  BY <1>3
<1>13. f[of[n]] = g[n]
  BY <1>11, <1>12 DEF S
<1> QED
  BY <1>6, <1>7, <1>8, <1>13 DEF items, fields

-----------------------------------------------------------------------------
(* The port.  What is mounted has been parsed; what the firmware read from *)
(* the last report is what it means, if the descriptor is orderly.         *)
PortInv ==
  /\ DOMAIN hgPools = {"paths", "infos", "items"}
  /\ HG!PoolsAreGivenBack
  /\ hgPlugged = <<>> \/ ~hgEnabled => hidReportInfo = <<>>
  /\ IF hidReportInfo = <<>> THEN hgData = HG!NoData /\ hgShown = HG!NoData
     ELSE \E p : /\ hidReportInfo = << p >> /\ ParserInv(p)
                 /\ HG!IsOrderly(p) => hgData = hgShown

LEMMA PortInit == HG!Init => PortInv
BY NoElement DEF HG!Init, PortInv, HG!PoolsAreGivenBack

LEMMA UnmountedLemma ==
  ASSUME PortInv, HG!Unmounted
  PROVE  /\ DOMAIN hgPools' = {"paths", "infos", "items"} /\ HG!PoolsAreGivenBack'
         /\ hidReportInfo' = <<>> /\ hgData' = HG!NoData /\ hgShown' = HG!NoData
<1>1. hidReportInfo' = <<>> /\ hgData' = HG!NoData /\ hgShown' = HG!NoData
  BY DEF HG!Unmounted
<1> DEFINE i == Len(hidReportInfo)
           k == IF hidReportInfo = <<>> THEN 0 ELSE Len(hidReportInfo[1].items)
<1>2. i \in Nat /\ k \in Nat
  <2>1. CASE hidReportInfo = <<>>
    BY <2>1, NoElement
  <2>2. CASE hidReportInfo # <<>>
    <3>1. PICK p : hidReportInfo = << p >> /\ ParserInv(p)
      BY <2>2 DEF PortInv
    <3>2. Len(<< p >>) = 1 /\ << p >>[1] = p
      BY OneElement
    <3>3. Len(p.items) \in Nat
      BY <3>1, SeqAppend DEF ParserInv, IsChosen
    <3> QED
      BY <2>2, <3>1, <3>2, <3>3
  <2> QED
    BY <2>1, <2>2
<1>3. DOMAIN hgPools = {"paths", "infos", "items"}
      /\ hgPools.paths = 0 /\ hgPools.infos = i /\ hgPools.items = k
  BY DEF PortInv, HG!PoolsAreGivenBack
<1>4. hgPools' =
        [hgPools EXCEPT
           !.infos = @ - i,
           !.items = IF hidReportInfo = <<>> THEN @ ELSE @ - Len(hidReportInfo[1].items)]
  BY DEF HG!Unmounted
<1>5. DOMAIN hgPools' = {"paths", "infos", "items"}
      /\ hgPools'.paths = 0 /\ hgPools'.infos = i - i /\ hgPools'.items = k - k
  <2>1. CASE hidReportInfo = <<>>
    BY <1>3, <1>4, <2>1
  <2>2. CASE hidReportInfo # <<>>
    BY <1>3, <1>4, <2>2
  <2> QED
    BY <2>1, <2>2
<1> HIDE DEF i, k
<1>6. i - i = 0 /\ k - k = 0
  BY <1>2
<1>7. HG!PoolsAreGivenBack'
  BY <1>1, <1>5, <1>6, NoElement DEF HG!PoolsAreGivenBack
<1> QED
  BY <1>1, <1>5, <1>7

LEMMA PortNext == PortInv /\ [HG!Next]_(HG!vars) => PortInv'
<1> SUFFICES ASSUME PortInv, [HG!Next]_(HG!vars) PROVE PortInv'
  OBVIOUS
<1>1. CASE HG!Start
  BY <1>1 DEF HG!Start, PortInv, HG!PoolsAreGivenBack
<1>2. CASE HG!Stop
  <2>1. HG!Unmounted
    BY <1>2 DEF HG!Stop
  <2> QED
    BY <2>1, UnmountedLemma DEF PortInv
<1>3. CASE HG!Plug
  <2>1. hgPlugged = <<>> /\ hidReportInfo = <<>> /\ hgData = HG!NoData /\ hgShown = HG!NoData
        /\ hgData' = hgData /\ hgShown' = hgShown /\ hgEnabled' = hgEnabled
    BY <1>3 DEF HG!Plug, PortInv
  <2>2. PICK d \in HidDescriptors :
          /\ hgPlugged' = <<d>>
          /\ IF ~hgEnabled THEN UNCHANGED <<hidReportInfo, hgPools, hgCrashed>>
             ELSE /\ hidReportInfo' = IF HG!Parse(d).result = "successful"
                                      THEN <<HG!Parse(d)>> ELSE <<>>
                  /\ hgPools' = HG!PoolsAfter(HG!Parse(d))
    BY <1>3 DEF HG!Plug
  <2> DEFINE p == HG!Parse(d)
  <2>3. ParserInv(p)
    BY DescriptorLemma
  <2> HIDE DEF p
  <2>4. hgPlugged' # <<>>
    BY <2>2, OneElement
  <2>5. CASE ~hgEnabled
    BY <2>1, <2>2, <2>4, <2>5 DEF PortInv, HG!PoolsAreGivenBack
  <2>6. CASE hgEnabled
    <3>1. /\ hidReportInfo' = IF p.result = "successful" THEN << p >> ELSE <<>>
          /\ hgPools' = HG!PoolsAfter(p)
      BY <2>2, <2>6 DEF p
    <3>2. hgPools.paths = 0 /\ hgPools.infos = 0 /\ hgPools.items = 0
      BY <2>1, NoElement DEF PortInv, HG!PoolsAreGivenBack
    <3>3. p.paths = Len(p.parents) /\ Len(p.parents) \in Nat /\ Len(p.items) \in Nat
      BY <2>3, SeqAppend DEF ParserInv, IsCollections, IsChosen
    <3>4. DOMAIN hgPools' = {"paths", "infos", "items"}
          /\ hgPools'.paths = 0
          /\ hgPools'.infos = (IF p.result = "successful" THEN 1 ELSE 0)
          /\ hgPools'.items = (IF p.result = "successful" THEN Len(p.items) ELSE 0)
      BY <3>1, <3>2, <3>3 DEF HG!PoolsAfter
    <3>5. Len(<< p >>) = 1 /\ << p >>[1] = p /\ << p >> # <<>> /\ Len(<<>>) = 0
      BY OneElement, NoElement
    <3>6. HG!PoolsAreGivenBack'
      <4>1. CASE p.result = "successful"
        BY <3>1, <3>4, <3>5, <4>1 DEF HG!PoolsAreGivenBack
      <4>2. CASE p.result # "successful"
        BY <3>1, <3>4, <3>5, <4>2 DEF HG!PoolsAreGivenBack
      <4> QED
        BY <4>1, <4>2
    <3>7. IF hidReportInfo' = <<>> THEN hgData' = HG!NoData /\ hgShown' = HG!NoData
          ELSE \E x : /\ hidReportInfo' = << x >> /\ ParserInv(x)
                      /\ HG!IsOrderly(x) => hgData' = hgShown'
      BY <2>1, <2>3, <3>1, <3>5
    <3> QED
      BY <2>1, <2>4, <2>6, <3>4, <3>6, <3>7 DEF PortInv
  <2> QED
    BY <2>5, <2>6
<1>4. CASE HG!Unplug
  <2>1. CASE hgEnabled
    <3>1. HG!Unmounted
      BY <1>4, <2>1 DEF HG!Unplug
    <3> QED
      BY <3>1, UnmountedLemma DEF PortInv
  <2>2. CASE ~hgEnabled
    BY <1>4, <2>2 DEF HG!Unplug, PortInv, HG!PoolsAreGivenBack
  <2> QED
    BY <2>1, <2>2
<1>5. CASE HG!ReportReceived
  <2>1. hidReportInfo # <<>> /\ UNCHANGED <<hgEnabled, hgPlugged, hidReportInfo, hgPools>>
    BY <1>5 DEF HG!ReportReceived
  <2>2. PICK p : hidReportInfo = << p >> /\ ParserInv(p)
    BY <2>1 DEF PortInv
  <2>3. << p >>[1] = p
    BY OneElement
  <2>4. PICK report :
          /\ hgData' = HG!FillGenericReport(p.items, report)
          /\ hgShown' = HG!Meant(p.fields, report)
    BY <1>5, <2>2, <2>3 DEF HG!ReportReceived
  <2>5. HG!IsOrderly(p) => hgData' = hgShown'
    BY <2>2, <2>4, UnderstoodLemma
  <2> QED
    BY <2>1, <2>2, <2>5 DEF PortInv, HG!PoolsAreGivenBack
<1>6. CASE UNCHANGED HG!vars
  BY <1>6 DEF HG!vars, PortInv, HG!PoolsAreGivenBack
<1> QED
  BY <1>1, <1>2, <1>3, <1>4, <1>5, <1>6 DEF HG!Next

LEMMA PortUnderstood == PortInv => GamepadIsUnderstood
<1> SUFFICES ASSUME PortInv PROVE GamepadIsUnderstood
  OBVIOUS
<1>1. ASSUME hidReportInfo # <<>>, HG!IsOrderly(hidReportInfo[1])
      PROVE  hgData = hgShown
  <2>1. PICK p : /\ hidReportInfo = << p >>
                 /\ HG!IsOrderly(p) => hgData = hgShown
    BY <1>1 DEF PortInv
  <2>2. << p >>[1] = p
    BY OneElement
  <2> QED
    BY <1>1, <2>1, <2>2
<1> QED
  BY <1>1 DEF PortInv, GamepadIsUnderstood, HG!ReportsAreUnderstood

(* The gamepad: whatever its descriptor is, what the firmware takes from a *)
(* report is what the gamepad says, if the descriptor is orderly, and only *)
(* what is mounted holds structures of the pools (hidparser.c,             *)
(* usb_host_gamepad.cpp).                                                  *)
THEOREM GamepadIsAlwaysUnderstood == HG!Spec => []GamepadIsUnderstood
<1>1. HG!Spec => []PortInv
  BY PortInit, PortNext, PTL DEF HG!Spec
<1> QED
  BY <1>1, PortUnderstood, PTL
=============================================================================
