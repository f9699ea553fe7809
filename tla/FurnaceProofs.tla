---------------------------- MODULE FurnaceProofs ----------------------------
(***************************************************************************)
(* That an overshoot cuts the heater, that no stage of the program is left *)
(* out and that the target climbs no faster than its ramps, proved for     *)
(* every program, every limit and every sequence of readings.              *)
(***************************************************************************)
EXTENDS Furnace, TLAPS

\* constrain() returns a value within its limits.
LEMMA ConstrainBounds ==
  ASSUME NEW x \in Int, NEW low \in Int, NEW high \in Int, low <= high
  PROVE  Constrain(x, low, high) \in low .. high
BY DEF Constrain

\* What the assumption says of the constants one by one.
LEMMA ConstantTypes ==
  /\ RAMP_1_TIME \in Nat \ {0} /\ RAMP_2_TIME \in Nat \ {0}
  /\ HOLD_1_TIME \in Nat \ {0} /\ HOLD_2_TIME \in Nat \ {0}
  /\ IntHalf \in Nat \ {0} /\ MillisWrap \in Nat \ {0}
  /\ RAMP_1_TEMP \in Nat /\ RAMP_2_TEMP \in Nat
  /\ IntegralLimit \in Nat /\ OutputLimit \in Nat /\ LoopSeconds \in Nat
  /\ Readings \subseteq Int
BY FurnaceAssumption

\* Every time of the int's range falls in one stage, whose target is a number.
LEMMA TargetIsInt ==
  ASSUME NEW t \in Int
  PROVE  Stage(t) \in Stages /\ Target(t) \in Int
<1>1. Start1 \in Int /\ Start2 \in Int /\ Start3 \in Int /\ End \in Int
  BY ConstantTypes DEF Start1, Start2, Start3, End
<1>2. Stage(t) \in Stages
  BY DEF Stage, Stages
<1>3. RAMP_1_TEMP \div RAMP_1_TIME \in Int /\ RAMP_2_TEMP \div RAMP_2_TIME \in Int
  BY ConstantTypes
<1>4. Ramp2(t) \in Int /\ (RAMP_1_TEMP \div RAMP_1_TIME) * t \in Int
  BY <1>1, <1>3 DEF Ramp2
<1>5. RAMP_1_TEMP \in Int /\ RAMP_2_TEMP \in Int
  BY ConstantTypes
<1>6. Target(t) \in Int
  <2>1. Target(t) \in {(RAMP_1_TEMP \div RAMP_1_TIME) * t, RAMP_1_TEMP,
                       Ramp2(t), RAMP_2_TEMP, 0}
    BY Zenon DEF Target
  <2> QED
    BY <2>1, <1>4, <1>5
<1> QED
  BY <1>2, <1>6

\* The integral of any error is within its limits.
LEMMA IntegratedBounds ==
  ASSUME integral \in Int, NEW e \in Int
  PROVE  Integrated(e) \in -IntegralLimit .. IntegralLimit
<1>1. integral + e \in Int /\ -IntegralLimit \in Int /\ -IntegralLimit <= IntegralLimit
  BY ConstantTypes
<1> QED
  BY <1>1, ConstantTypes, ConstrainBounds DEF Integrated

\* Both properties, which together are inductive.
IInv == TypeOK /\ OvershootCutsHeater

\* The invariant holds when the controller starts.
LEMMA IInvInit == Init => IInv
<1> SUFFICES ASSUME Init PROVE IInv
  OBVIOUS
<1>1. seconds = 0 /\ integral = 0 /\ output = 0 /\ target = 0 /\ previous_error = 0
  BY DEF Init
<1>2. seconds \in 0 .. MillisWrap - 1
  BY <1>1, ConstantTypes
<1>3. integral \in -IntegralLimit .. IntegralLimit /\ output \in 0 .. OutputLimit
  BY <1>1, ConstantTypes
<1>4. target \in Int /\ previous_error \in Int
  BY <1>1
<1>5. stage \in Stages /\ falling \in BOOLEAN
  BY Zenon DEF Init, Stages
<1> QED
  BY <1>1, <1>2, <1>3, <1>4, <1>5, Zenon DEF IInv, TypeOK, OvershootCutsHeater

\* A loop that drives the heater: the integral is at its limit at most, so it
\* is outweighed.
LEMMA IInvDrive ==
  ASSUME IInv, target' \in Int, NEW current_temp \in Readings, Drive(current_temp)
  PROVE  /\ integral' \in -IntegralLimit .. IntegralLimit
         /\ previous_error' \in Int
         /\ output' \in 0 .. OutputLimit
         /\ falling' \in BOOLEAN
         /\ OvershootCutsHeater'
<1> DEFINE e == target' - current_temp
           d == e - previous_error
           i == Integrated(e)
<1>1. IntegralLimit \in Nat /\ OutputLimit \in Nat /\ current_temp \in Int
  BY ConstantTypes
<1>2. e \in Int /\ d \in Int /\ integral \in Int
  BY <1>1 DEF IInv, TypeOK
<1>3. i \in -IntegralLimit .. IntegralLimit
  BY <1>2, IntegratedBounds
<1>4. /\ integral' = i
      /\ previous_error' = e
      /\ output' = Constrain(3 * e + i + 24 * d, 0, OutputLimit)
      /\ falling' = (d > 0)
  BY DEF Drive
<1> HIDE DEF e, d, i
<1>5. output' \in 0 .. OutputLimit
  BY <1>1, <1>2, <1>3, <1>4, ConstrainBounds
<1>6. OvershootCutsHeater'
  <2> SUFFICES ASSUME 3 * e <= -IntegralLimit, ~(d > 0)
               PROVE  output' = 0
    BY <1>4 DEF OvershootCutsHeater
  <2>1. 3 * e + i + 24 * d <= 0
    BY <1>1, <1>2, <1>3
  <2> QED
    BY <2>1, <1>1, <1>2, <1>3, <1>4 DEF Constrain
<1> QED
  BY <1>2, <1>3, <1>4, <1>5, <1>6

\* A loop keeps the invariant.
LEMMA IInvNext == IInv /\ [Next]_vars => IInv'
<1> SUFFICES ASSUME IInv, [Next]_vars PROVE IInv'
  OBVIOUS
<1>1. CASE loop
  <2>1. PICK s \in 0 .. LoopSeconds : seconds' = (seconds + s) % MillisWrap
    BY <1>1 DEF loop
  <2>2. seconds' \in 0 .. MillisWrap - 1
    BY <2>1, ConstantTypes DEF IInv, TypeOK
  <2>3. ToInt(seconds') \in Int
    BY <2>2, ConstantTypes DEF ToInt
  <2>4. target' \in Int /\ stage' \in Stages
    BY <1>1, <2>3, TargetIsInt DEF loop
  <2>5. CASE SkipReading
    BY <2>2, <2>4, <2>5 DEF SkipReading, IInv, TypeOK, OvershootCutsHeater
  <2>6. CASE \E current_temp \in Readings : Drive(current_temp)
    BY <2>2, <2>4, <2>6, IInvDrive DEF IInv, TypeOK
  <2> QED
    BY <1>1, <2>5, <2>6 DEF loop
<1>2. CASE UNCHANGED vars
  BY <1>2 DEF vars, IInv, TypeOK, OvershootCutsHeater
<1> QED
  BY <1>1, <1>2 DEF Next

\* The integral stays within its limits and the duty cycle within the timer's.
THEOREM TypeCorrect == Spec => []TypeOK
<1>1. IInv => TypeOK
  BY DEF IInv
<1> QED
  BY IInvInit, IInvNext, <1>1, PTL DEF Spec

\* Whatever program is run and whatever was read before, readings that failed
\* included, a furnace beyond its target by all a full integral can hold
\* against it, and not cooling, has its heater off.
THEOREM OvershootCut == Spec => []OvershootCutsHeater
<1>1. IInv => OvershootCutsHeater
  BY DEF IInv
<1> QED
  BY IInvInit, IInvNext, <1>1, PTL DEF Spec

-----------------------------------------------------------------------------
(* The program *)

\* The remainder of a number written as a multiple and a rest.
Divides(n, q, r, a) == a = n * q + r

LEMMA Remainder ==
  ASSUME NEW n \in Nat \ {0}, NEW q \in Int, NEW r \in 0 .. n - 1,
         NEW a \in Int, Divides(n, q, r, a)
  PROVE  a % n = r
<1> USE DEF Divides
<1>1. PICK d \in Int, m \in 0 .. n - 1 : a = n * d + m /\ a % n = m
  <2>1. a % n \in 0 .. n - 1 /\ a \div n \in Int /\ a = n * (a \div n) + (a % n)
    OBVIOUS
  <2> QED BY <2>1, Zenon
<1>2. n * (q - d) = n * q - n * d /\ n * (d - q) = n * d - n * q
  OBVIOUS
<1>3. n * (q - d) = m - r /\ n * (d - q) = r - m
  BY <1>1, <1>2
<1>4. (q - d >= 1 => n * (q - d) >= n) /\ (d - q >= 1 => n * (d - q) >= n)
  OBVIOUS
<1>5. q = d
  BY <1>1, <1>3, <1>4
<1> QED BY <1>1, <1>5

\* A remainder a little further on.
LEMMA SumMod ==
  ASSUME NEW n \in Nat \ {0}, NEW a \in Nat, NEW s \in 0 .. n
  PROVE  (a + s) % n = IF (a % n) + s < n THEN (a % n) + s ELSE (a % n) + s - n
<1>1. PICK q \in Int, r \in 0 .. n - 1 : a = n * q + r /\ a % n = r
  <2>1. a % n \in 0 .. n - 1 /\ a \div n \in Int /\ a = n * (a \div n) + (a % n)
    OBVIOUS
  <2> QED BY <2>1, Zenon
<1>2. PICK b \in Int : b = a + s
  OBVIOUS
<1>3. CASE r + s < n
  <2>1. PICK t \in 0 .. n - 1 : t = r + s
    BY <1>3
  <2>2. b = n * q + t
    BY <1>1, <1>2, <2>1
  <2>3. b % n = t
    <3>1. Divides(n, q, t, b)
      BY <2>2 DEF Divides
    <3> QED BY <3>1, Remainder
  <2>4. (a + s) % n = t
    BY <1>2, <2>3, Zenon
  <2> QED BY <1>1, <1>3, <2>1, <2>4, Zenon
<1>4. CASE ~(r + s < n)
  <2>1. PICK t \in 0 .. n - 1, p \in Int : t = r + s - n /\ p = q + 1
    BY <1>4
  <2>2. n * p = n * q + n
    BY <2>1
  <2>3. b = n * p + t
    BY <1>1, <1>2, <2>1, <2>2
  <2>4. b % n = t
    <3>1. Divides(n, p, t, b)
      BY <2>3 DEF Divides
    <3> QED BY <3>1, Remainder
  <2>5. (a + s) % n = t
    BY <1>2, <2>4, Zenon
  <2> QED BY <1>1, <1>4, <2>1, <2>5, Zenon
<1> QED BY <1>3, <1>4

\* What the assumptions say of the program, one by one.
LEMMA ProgramTypes ==
  /\ LoopSeconds <= RAMP_1_TIME /\ LoopSeconds <= HOLD_1_TIME
  /\ LoopSeconds <= RAMP_2_TIME /\ LoopSeconds <= HOLD_2_TIME
  /\ LoopSeconds < MillisWrap /\ End + LoopSeconds <= IntHalf
  /\ Start1 = RAMP_1_TIME /\ Start2 = Start1 + HOLD_1_TIME
  /\ Start3 = Start2 + RAMP_2_TIME /\ End = Start3 + HOLD_2_TIME
  /\ Start1 \in Int /\ Start2 \in Int /\ Start3 \in Int /\ End \in Int
BY ConstantTypes, ProgramAssumption DEF Start1, Start2, Start3, End

\* A remainder of a number below the modulus.
LEMMA Small ==
  ASSUME NEW n \in Nat \ {0}, NEW a \in 0 .. n - 1
  PROVE  a % n = a
OBVIOUS

\* ToInt with half of what an int holds for a parameter: s seconds later it is
\* s more, unless that overflows.
InInt(h, a) == ((a + h) % (2 * h)) - h

Goes(h, s, t, u) ==
  /\ t \in -h .. h - 1 /\ u \in -h .. h - 1
  /\ u = t + s \/ (t >= h - s /\ u < 0 /\ u + h \in 0 .. s)

LEMMA IntGoesOn ==
  ASSUME NEW h \in Nat \ {0}, NEW a \in Nat, NEW s \in 0 .. h
  PROVE  Goes(h, s, InInt(h, a), InInt(h, a + s))
<1> SUFFICES ASSUME NEW t, NEW u, t = InInt(h, a), u = InInt(h, a + s)
             PROVE  Goes(h, s, t, u)
  BY Zenon
<1>t. t = ((a + h) % (2 * h)) - h /\ u = ((a + s + h) % (2 * h)) - h
  BY Zenon DEF InInt
<1> USE DEF Goes
<1>1. PICK n \in Nat \ {0}, b \in Nat : n = 2 * h /\ b = a + h
  OBVIOUS
<1>2. PICK r \in 0 .. n - 1 : r = b % n
  OBVIOUS
<1>3. s \in 0 .. n /\ a + s + h = b + s
  BY <1>1
<1>4. PICK w \in Int : w = (b + s) % n
  BY <1>3
<1>5. w = IF r + s < n THEN r + s ELSE r + s - n
  BY <1>2, <1>3, <1>4, SumMod
<1>6. t = r - h /\ u = w - h
  <2>1. r = (a + h) % (2 * h)
    BY <1>1, <1>2, Zenon
  <2>2. w = (a + s + h) % (2 * h)
    BY <1>1, <1>3, <1>4, Zenon
  <2> QED BY <1>t, <2>1, <2>2
<1>7. n = 2 * h /\ h \in Int /\ r \in Int /\ w \in Int /\ t \in Int /\ u \in Int
  BY <1>1, <1>6
<1>8. t \in -h .. h - 1
  BY <1>6, <1>7
<1>9. CASE r + s < n
  <2>1. w = r + s
    BY <1>5, <1>9
  <2>2. u = t + s /\ u \in -h .. h - 1
    BY <1>6, <1>7, <1>9, <2>1
  <2> QED BY <1>8, <2>2
<1>10. CASE ~(r + s < n)
  <2>1. w = r + s - n
    BY <1>5, <1>10
  <2>2. t >= h - s /\ u < 0 /\ u \in -h .. h - 1 /\ u + h \in 0 .. s
    BY <1>6, <1>7, <1>10, <2>1
  <2> QED BY <1>8, <2>2
<1> QED BY <1>9, <1>10

\* The time of the program goes on by the seconds of the loop, unless int
\* overflows, after the end of the program, or the milliseconds start again,
\* in its first ramp.
LEMMA TimeGoesOn ==
  ASSUME seconds \in 0 .. MillisWrap - 1, NEW s \in 0 .. LoopSeconds,
         seconds' = (seconds + s) % MillisWrap
  PROVE  /\ ToInt(seconds) \in Int /\ ToInt(seconds') \in Int
         /\ \/ ToInt(seconds') = ToInt(seconds) + s
            \/ /\ ToInt(seconds) >= End /\ ToInt(seconds') < 0
               /\ ToInt(seconds') + IntHalf \in 0 .. LoopSeconds
            \/ /\ seconds' < seconds /\ ToInt(seconds) < 0 /\ ToInt(seconds') < Start1
               /\ ToInt(seconds') \in 0 .. LoopSeconds
<1>1. PICK h \in Nat \ {0}, wrap \in Nat \ {0}, most \in Nat, end \in Int, start \in Nat :
        /\ h = IntHalf /\ wrap = MillisWrap /\ most = LoopSeconds /\ end = End
        /\ start = Start1
        /\ most < wrap /\ end + most <= h /\ most <= start /\ most <= end
  <2>1. Start1 \in Nat /\ LoopSeconds <= Start1 /\ LoopSeconds <= End
    BY ConstantTypes, ProgramTypes
  <2> QED BY <2>1, ConstantTypes, ProgramTypes
<1>2. PICK a \in 0 .. wrap - 1 : a = seconds
  BY <1>1
<1>z. PICK z : z = seconds'
  OBVIOUS
<1>3. s \in 0 .. most /\ s \in 0 .. h /\ s \in 0 .. wrap /\ a \in Nat
  BY <1>1
<1>4. PICK t, u : t = ToInt(a) /\ u = ToInt(z)
  OBVIOUS
<1>5. t = ((a + h) % (2 * h)) - h /\ u = ((z + h) % (2 * h)) - h
  BY <1>1, <1>4 DEF ToInt
<1>6. z = IF a + s < wrap THEN a + s ELSE a + s - wrap
  <2>1. a % wrap = a
    BY Small
  <2>2. (a + s) % wrap = IF (a % wrap) + s < wrap THEN (a % wrap) + s ELSE (a % wrap) + s - wrap
    BY <1>3, SumMod
  <2>3. z = (a + s) % wrap
    BY <1>1, <1>2, <1>z, Zenon
  <2> QED BY <2>1, <2>2, <2>3
<1>7. CASE a + s < wrap
  <2>1. t = InInt(h, a) /\ u = InInt(h, a + s)
    BY <1>5, <1>6, <1>7 DEF InInt
  <2>2. Goes(h, s, t, u)
    BY <1>3, <2>1, IntGoesOn
  <2>3. /\ t \in Int /\ u \in Int
        /\ u = t + s \/ (t >= end /\ u < 0 /\ u + h \in 0 .. most)
    BY <1>1, <1>3, <2>2 DEF Goes
  <2> QED BY <1>1, <1>2, <1>z, <1>4, <2>3, Zenon
<1>8. CASE ~(a + s < wrap)
  <2>1. z \in 0 .. most - 1 /\ z < a /\ a \in wrap - most .. wrap - 1
    BY <1>1, <1>3, <1>6, <1>8
  <2>2. u = z
    <3>1. z + h \in 0 .. 2 * h - 1 /\ 2 * h \in Nat \ {0}
      BY <1>1, <2>1
    <3>2. (z + h) % (2 * h) = z + h
      BY <3>1, Small
    <3> QED BY <1>5, <2>1, <3>2
  <2>3. t < 0
    BY <1>1, <1>4, <2>1, ProgramAssumption, Zenon
  <2>4. t \in -h .. h - 1
    <3>1. (a + h) % (2 * h) \in 0 .. 2 * h - 1
      BY <1>3
    <3> QED BY <1>5, <3>1
  <2>5. t \in Int /\ u \in Int /\ z < a /\ t < 0 /\ u < start /\ u \in 0 .. most
    BY <1>1, <2>1, <2>2, <2>3, <2>4
  <2> QED BY <1>1, <1>2, <1>z, <1>4, <2>5, Zenon
<1> QED BY <1>7, <1>8

\* The stage and the target of a time, by the part of the program it is in.
LEMMA StageIs ==
  ASSUME NEW t \in Int
  PROVE  /\ t < Start1 => Stage(t) = "ramp 1" /\ Target(t) = Slope1 * t
         /\ Start1 <= t /\ t < Start2 => Stage(t) = "hold 1" /\ Target(t) = RAMP_1_TEMP
         /\ Start2 <= t /\ t < Start3 => Stage(t) = "ramp 2" /\ Target(t) = Slope2 * (t - Start2)
         /\ Start3 <= t /\ t < End => Stage(t) = "hold 2" /\ Target(t) = RAMP_2_TEMP
         /\ End <= t => Stage(t) = "off" /\ Target(t) = 0
<1>1. /\ Start1 \in Int /\ Start2 \in Int /\ Start3 \in Int /\ End \in Int
      /\ Start1 <= Start2 /\ Start2 <= Start3 /\ Start3 <= End
  BY ConstantTypes, ProgramTypes
<1>2. /\ t < Start1 => Stage(t) = "ramp 1"
      /\ Start1 <= t /\ t < Start2 => Stage(t) = "hold 1"
      /\ Start2 <= t /\ t < Start3 => Stage(t) = "ramp 2"
      /\ Start3 <= t /\ t < End => Stage(t) = "hold 2"
      /\ End <= t => Stage(t) = "off"
  BY <1>1 DEF Stage
<1>3. /\ Stage(t) = "ramp 1" => Target(t) = Slope1 * t
      /\ Stage(t) = "hold 1" => Target(t) = RAMP_1_TEMP
      /\ Stage(t) = "ramp 2" => Target(t) = Slope2 * (t - Start2)
      /\ Stage(t) = "hold 2" => Target(t) = RAMP_2_TEMP
      /\ Stage(t) = "off"    => Target(t) = 0
  BY Zenon DEF Target, Ramp2, Slope1, Slope2
<1> QED BY <1>2, <1>3, Zenon

\* A ramp climbs a whole number a second, and reaches its temperature on time.
LEMMA Slopes ==
  /\ Slope1 \in Nat /\ Slope2 \in Nat /\ MaxSlope \in Nat
  /\ Slope1 <= MaxSlope /\ Slope2 <= MaxSlope
  /\ RAMP_1_TEMP = Slope1 * RAMP_1_TIME /\ RAMP_2_TEMP = Slope2 * RAMP_2_TIME
<1>1. ASSUME NEW n \in Nat \ {0}, NEW a \in Nat, a % n = 0
      PROVE  a \div n \in Nat /\ a = (a \div n) * n
  <2>1. a = n * (a \div n) + (a % n) /\ a \div n \in Int /\ ~(a \div n <= -1)
    <3>1. a = n * (a \div n) + (a % n) /\ a \div n \in Int
      OBVIOUS
    <3>2. ASSUME NEW d \in Int, d <= -1 PROVE n * d <= -n
      BY <3>2
    <3> QED BY <1>1, <3>1, <3>2
  <2>2. PICK d \in Int : d = a \div n
    BY <2>1
  <2>3. a = n * d /\ d \in Nat /\ n * d = d * n
    BY <1>1, <2>1, <2>2
  <2> QED BY <2>2, <2>3
<1>2. Slope1 \in Nat /\ RAMP_1_TEMP = Slope1 * RAMP_1_TIME
  BY <1>1, FurnaceAssumption DEF Slope1
<1>3. Slope2 \in Nat /\ RAMP_2_TEMP = Slope2 * RAMP_2_TIME
  BY <1>1, FurnaceAssumption DEF Slope2
<1> QED BY <1>2, <1>3 DEF MaxSlope

\* A climb of less than a loop at no more than the steeper slope.
LEMMA Climb ==
  ASSUME NEW m \in Nat, NEW k \in 0 .. m, NEW most \in Nat, NEW x \in 0 .. most
  PROVE  k * x \in 0 .. most * m
<1>1. k * x \in Nat /\ k * (most - x) \in Nat /\ most * (m - k) \in Nat
  OBVIOUS
<1>2. k * (most - x) = k * most - k * x /\ most * (m - k) = most * m - most * k
  OBVIOUS
<1>3. k * most = most * k /\ most * m \in Int /\ k * most \in Int
  OBVIOUS
<1> QED BY <1>1, <1>2, <1>3

\* What a loop does to the stage and to the target.
Follows(t, u) == Stage(u) \in {Stage(t), Successor[Stage(t)]}

RampStarts(t, u) ==
  /\ Stage(t) = "hold 1" /\ Stage(u) = "ramp 2"
  /\ Target(t) = RAMP_1_TEMP /\ Target(u) \in 0 .. LoopSeconds * Slope2
Ends(t, u) ==
  /\ Stage(t) = "hold 2" /\ Stage(u) = "off"
  /\ Target(t) = RAMP_2_TEMP /\ Target(u) = 0
Overflows(t, u) ==
  /\ Stage(t) = "off" /\ Stage(u) = "ramp 1"
  /\ Target(t) = 0 /\ Target(u) + Slope1 * IntHalf \in 0 .. LoopSeconds * Slope1
Resets(t, u) ==
  /\ Stage(t) = "ramp 1" /\ Stage(u) = "ramp 1"
  /\ Target(t) <= 0 /\ Target(u) \in 0 .. LoopSeconds * Slope1

Climbs(t, u) == \/ Target(u) - Target(t) \in 0 .. LoopSeconds * MaxSlope
                \/ RampStarts(t, u) \/ Ends(t, u)

\* Every stage is followed by the next.
LEMMA Successors ==
  /\ Successor["ramp 1"] = "hold 1" /\ Successor["hold 1"] = "ramp 2"
  /\ Successor["ramp 2"] = "hold 2" /\ Successor["hold 2"] = "off"
  /\ Successor["off"] = "ramp 1"
BY DEF Successor, Stages

\* A loop on time: no stage is shorter than the loop, so it leaves none out.
LEMMA OnTime ==
  ASSUME NEW t \in Int, NEW s \in 0 .. LoopSeconds
  PROVE  Follows(t, t + s) /\ Climbs(t, t + s)
<1>1. PICK u \in Int : u = t + s
  OBVIOUS
<1>2. /\ Start1 \in Int /\ Start2 \in Int /\ Start3 \in Int /\ End \in Int
      /\ Start1 = RAMP_1_TIME /\ Start3 = Start2 + RAMP_2_TIME
      /\ Start1 + LoopSeconds <= Start2 /\ Start2 + LoopSeconds <= Start3
      /\ Start3 + LoopSeconds <= End /\ LoopSeconds <= Start1
      /\ LoopSeconds \in Nat /\ RAMP_1_TIME \in Int /\ RAMP_2_TIME \in Int
  BY ConstantTypes, ProgramTypes
<1>3. /\ Slope1 \in 0 .. MaxSlope /\ Slope2 \in 0 .. MaxSlope /\ MaxSlope \in Nat
      /\ RAMP_1_TEMP = Slope1 * RAMP_1_TIME /\ RAMP_2_TEMP = Slope2 * RAMP_2_TIME
      /\ RAMP_1_TEMP \in Nat /\ RAMP_2_TEMP \in Nat
  BY Slopes, ConstantTypes
<1>4. \A k \in {Slope1, Slope2} : \A x \in 0 .. LoopSeconds :
         k * x \in 0 .. LoopSeconds * MaxSlope
  BY <1>2, <1>3, Climb
<1>5. 0 \in 0 .. LoopSeconds * MaxSlope
  <2>1. Slope1 * 0 = 0 /\ 0 \in 0 .. LoopSeconds
    BY <1>2, <1>3
  <2> QED BY <1>4, <2>1
<1>6. /\ Stage(u) = Stage(t) => Follows(t, u)
      /\ Stage(u) = Successor[Stage(t)] => Follows(t, u)
  BY Zenon DEF Follows
<1>7. \A x \in 0 .. LoopSeconds * MaxSlope : Target(u) - Target(t) = x => Climbs(t, u)
  BY Zenon DEF Climbs
<1>8. \A a, b, k \in Int : k * b - k * a = k * (b - a)
  OBVIOUS
<1>9. CASE t < Start1 /\ u < Start1
  <2>1. /\ Stage(t) = "ramp 1" /\ Target(t) = Slope1 * t
        /\ Stage(u) = "ramp 1" /\ Target(u) = Slope1 * u
    BY <1>9, StageIs
  <2>2. Slope1 * u - Slope1 * t = Slope1 * (u - t) /\ u - t = s
    BY <1>1, <1>3, <1>8
  <2>3. Slope1 * s \in 0 .. LoopSeconds * MaxSlope
    BY <1>4
  <2> QED BY <1>1, <1>6, <1>7, <2>1, <2>2, <2>3, Zenon
<1>10. CASE t < Start1 /\ ~(u < Start1)
  <2>1. Start1 <= u /\ u < Start2 /\ Start1 - t \in 0 .. LoopSeconds
    BY <1>1, <1>2, <1>10
  <2>2. /\ Stage(t) = "ramp 1" /\ Target(t) = Slope1 * t
        /\ Stage(u) = "hold 1" /\ Target(u) = Slope1 * Start1
    BY <1>2, <1>3, <1>10, <2>1, StageIs
  <2>3. Slope1 * Start1 - Slope1 * t = Slope1 * (Start1 - t)
    BY <1>2, <1>3, <1>8
  <2>4. Slope1 * (Start1 - t) \in 0 .. LoopSeconds * MaxSlope
    BY <1>4, <2>1
  <2> QED BY <1>1, <1>6, <1>7, <2>2, <2>3, <2>4, Successors, Zenon
<1>11. CASE Start1 <= t /\ t < Start2 /\ u < Start2
  <2>1. Start1 <= u
    BY <1>1, <1>2, <1>11
  <2>2. /\ Stage(t) = "hold 1" /\ Target(t) = RAMP_1_TEMP
        /\ Stage(u) = "hold 1" /\ Target(u) = RAMP_1_TEMP
    BY <1>11, <2>1, StageIs
  <2>3. RAMP_1_TEMP - RAMP_1_TEMP = 0
    BY <1>3
  <2> QED BY <1>1, <1>5, <1>6, <1>7, <2>2, <2>3, Zenon
<1>12. CASE Start1 <= t /\ t < Start2 /\ ~(u < Start2)
  <2>1. Start2 <= u /\ u < Start3 /\ u - Start2 \in 0 .. LoopSeconds
    BY <1>1, <1>2, <1>12
  <2>2. /\ Stage(t) = "hold 1" /\ Target(t) = RAMP_1_TEMP
        /\ Stage(u) = "ramp 2" /\ Target(u) = Slope2 * (u - Start2)
    BY <1>12, <2>1, StageIs
  <2>3. Slope2 * (u - Start2) \in 0 .. LoopSeconds * Slope2
    BY <1>2, <1>3, <2>1, Climb
  <2> QED BY <1>1, <1>6, <2>2, <2>3, Successors, Zenon DEF Climbs, RampStarts
<1>13. CASE Start2 <= t /\ t < Start3 /\ u < Start3
  <2>1. Start2 <= u /\ t - Start2 \in Int /\ u - Start2 \in Int
        /\ (u - Start2) - (t - Start2) = s
    BY <1>1, <1>2, <1>13
  <2>2. /\ Stage(t) = "ramp 2" /\ Target(t) = Slope2 * (t - Start2)
        /\ Stage(u) = "ramp 2" /\ Target(u) = Slope2 * (u - Start2)
    BY <1>13, <2>1, StageIs
  <2>3. Slope2 * (u - Start2) - Slope2 * (t - Start2) = Slope2 * s
    BY <1>3, <1>8, <2>1
  <2>4. Slope2 * s \in 0 .. LoopSeconds * MaxSlope
    BY <1>4
  <2> QED BY <1>1, <1>6, <1>7, <2>2, <2>3, <2>4, Zenon
<1>14. CASE Start2 <= t /\ t < Start3 /\ ~(u < Start3)
  <2>1. Start3 <= u /\ u < End /\ Start3 - t \in 0 .. LoopSeconds
        /\ t - Start2 \in Int /\ RAMP_2_TIME - (t - Start2) = Start3 - t
    BY <1>1, <1>2, <1>14
  <2>2. /\ Stage(t) = "ramp 2" /\ Target(t) = Slope2 * (t - Start2)
        /\ Stage(u) = "hold 2" /\ Target(u) = Slope2 * RAMP_2_TIME
    BY <1>3, <1>14, <2>1, StageIs
  <2>3. Slope2 * RAMP_2_TIME - Slope2 * (t - Start2) = Slope2 * (Start3 - t)
    BY <1>2, <1>3, <1>8, <2>1
  <2>4. Slope2 * (Start3 - t) \in 0 .. LoopSeconds * MaxSlope
    BY <1>4, <2>1
  <2> QED BY <1>1, <1>6, <1>7, <2>2, <2>3, <2>4, Successors, Zenon
<1>15. CASE Start3 <= t /\ t < End /\ u < End
  <2>1. Start3 <= u
    BY <1>1, <1>2, <1>15
  <2>2. /\ Stage(t) = "hold 2" /\ Target(t) = RAMP_2_TEMP
        /\ Stage(u) = "hold 2" /\ Target(u) = RAMP_2_TEMP
    BY <1>15, <2>1, StageIs
  <2>3. RAMP_2_TEMP - RAMP_2_TEMP = 0
    BY <1>3
  <2> QED BY <1>1, <1>5, <1>6, <1>7, <2>2, <2>3, Zenon
<1>16. CASE Start3 <= t /\ t < End /\ ~(u < End)
  <2>1. End <= u
    BY <1>1, <1>2, <1>16
  <2>2. /\ Stage(t) = "hold 2" /\ Target(t) = RAMP_2_TEMP
        /\ Stage(u) = "off" /\ Target(u) = 0
    BY <1>16, <2>1, StageIs
  <2> QED BY <1>1, <1>6, <2>2, Successors, Zenon DEF Climbs, Ends
<1>17. CASE End <= t
  <2>1. End <= u
    BY <1>1, <1>2, <1>17
  <2>2. Stage(t) = "off" /\ Target(t) = 0 /\ Stage(u) = "off" /\ Target(u) = 0
    BY <1>17, <2>1, StageIs
  <2>3. 0 - 0 = 0
    OBVIOUS
  <2> QED BY <1>1, <1>5, <1>6, <1>7, <2>2, <2>3, Zenon
<1> QED BY <1>2, <1>9, <1>10, <1>11, <1>12, <1>13, <1>14, <1>15, <1>16, <1>17

\* A loop in which int overflows.
LEMMA IntRestarts ==
  ASSUME NEW t \in Int, NEW u \in Int, u < 0, t >= End, u + IntHalf \in 0 .. LoopSeconds
  PROVE  Follows(t, u) /\ Overflows(t, u)
<1>1. u < Start1
  BY ConstantTypes, ProgramTypes
<1>2. /\ Stage(u) = "ramp 1" /\ Target(u) = Slope1 * u
      /\ Stage(t) = "off" /\ Target(t) = 0
  BY <1>1, ProgramTypes, StageIs
<1>3. Slope1 * u + Slope1 * IntHalf \in 0 .. LoopSeconds * Slope1
  <2>1. PICK k \in Nat, h \in Nat, most \in Nat : k = Slope1 /\ h = IntHalf /\ most = LoopSeconds
    BY Slopes, ConstantTypes
  <2>2. k * (u + h) \in 0 .. most * k
    BY <2>1, Climb
  <2>3. k * u + k * h = k * (u + h)
    BY <2>1
  <2> QED BY <2>1, <2>2, <2>3
<1> QED BY <1>2, <1>3, Successors, Zenon DEF Follows, Overflows

\* A loop in which the milliseconds start again.
LEMMA MillisRestarts ==
  ASSUME NEW t \in Int, NEW u \in Int, t < 0, u < Start1, u \in 0 .. LoopSeconds
  PROVE  Follows(t, u) /\ Resets(t, u)
<1>1. t < Start1
  BY ConstantTypes, ProgramTypes
<1>2. /\ Stage(u) = "ramp 1" /\ Target(u) = Slope1 * u
      /\ Stage(t) = "ramp 1" /\ Target(t) = Slope1 * t
  BY <1>1, StageIs
<1>3. Slope1 * t <= 0
  <2>1. PICK k \in Nat, d \in Nat : k = Slope1 /\ d = -t
    BY Slopes
  <2>2. k * d \in Nat /\ k * t = -(k * d)
    BY <2>1
  <2> QED BY <2>1, <2>2
<1>4. Slope1 * u \in 0 .. LoopSeconds * Slope1
  BY Slopes, ConstantTypes, Climb
<1> QED BY <1>2, <1>3, <1>4, Zenon DEF Follows, Resets

\* Between two loops the target and the stage are those of the time.
Current == target = Target(ToInt(seconds)) /\ stage = Stage(ToInt(seconds))

\* The controller starts at the start of the first ramp.
LEMMA CurrentInit == Init => Current
<1> SUFFICES ASSUME Init PROVE Current
  OBVIOUS
<1>1. ToInt(0) = 0
  <2>1. PICK h \in Nat \ {0} : h = IntHalf
    BY ConstantTypes
  <2>2. 0 + h \in 0 .. 2 * h - 1 /\ 2 * h \in Nat \ {0} /\ 0 + h = h /\ h - h = 0
    OBVIOUS
  <2>3. (0 + h) % (2 * h) = h
    BY <2>2, Small
  <2> QED BY <2>1, <2>2, <2>3, Zenon DEF ToInt
<1>2. Stage(0) = "ramp 1" /\ Target(0) = Slope1 * 0
  <2>1. 0 < Start1 /\ 0 \in Int
    BY ConstantTypes, ProgramTypes
  <2> QED BY <2>1, StageIs, Zenon
<1>3. Slope1 * 0 = 0
  BY Slopes
<1> QED BY <1>1, <1>2, <1>3, Zenon DEF Init, Current

\* Every loop keeps them so.
LEMMA CurrentNext == Current /\ [Next]_vars => Current'
BY Zenon DEF Current, Next, loop, vars

\* What the target may do in a step.
TargetStep ==
  \/ target' - target \in 0 .. LoopSeconds * MaxSlope
  \/ SecondRampStarts \/ ProgramEnds \/ IntOverflows \/ MillisRestart

\* In a loop the stage follows, and the target climbs or jumps as described.
LEMMA StepFollows ==
  ASSUME TypeOK, Current, Current', Next
  PROVE  stage' \in {stage, Successor[stage]} /\ TargetStep
<1>1. PICK s \in 0 .. LoopSeconds : seconds' = (seconds + s) % MillisWrap
  BY Zenon DEF Next, loop
<1>2. seconds \in 0 .. MillisWrap - 1
  BY DEF TypeOK
<1>3. PICK t, u : t = ToInt(seconds) /\ u = ToInt(seconds')
  OBVIOUS
<1>4. /\ t \in Int /\ u \in Int
      /\ \/ u = t + s
         \/ t >= End /\ u < 0 /\ u + IntHalf \in 0 .. LoopSeconds
         \/ seconds' < seconds /\ t < 0 /\ u < Start1 /\ u \in 0 .. LoopSeconds
  BY <1>1, <1>2, <1>3, TimeGoesOn, Zenon
<1>5. Follows(t, u) /\ (Climbs(t, u) \/ Overflows(t, u) \/ (seconds' < seconds /\ Resets(t, u)))
  <2>1. CASE u = t + s
    BY <1>4, <2>1, OnTime
  <2>2. CASE t >= End /\ u < 0 /\ u + IntHalf \in 0 .. LoopSeconds
    BY <1>4, <2>2, IntRestarts
  <2>3. CASE seconds' < seconds /\ t < 0 /\ u < Start1 /\ u \in 0 .. LoopSeconds
    BY <1>4, <2>3, MillisRestarts
  <2> QED BY <1>4, <2>1, <2>2, <2>3
<1>6. target = Target(t) /\ stage = Stage(t) /\ target' = Target(u) /\ stage' = Stage(u)
  BY <1>3, Zenon DEF Current
<1> QED BY <1>5, <1>6, Zenon
        DEF Follows, Climbs, RampStarts, Ends, Overflows, Resets,
            TargetStep, SecondRampStarts, ProgramEnds, IntOverflows, MillisRestart

\* Whatever the program and however late a loop comes, up to the shortest
\* stage, no stage is left out, the overflows of int and of the milliseconds
\* included: they lead from the end of the program to its start.
THEOREM StagesCorrect == Spec => StagesInOrder
<1>1. IInv /\ Current /\ [Next]_vars /\ Current' => [stage' \in {stage, Successor[stage]}]_vars
  BY StepFollows, Zenon DEF IInv
<1> QED
  BY IInvInit, IInvNext, CurrentInit, CurrentNext, <1>1, PTL DEF Spec, StagesInOrder

\* In every loop of every program, the overflows of int and of the milliseconds
\* included, the target climbs by no more than the steeper ramp does in a loop,
\* but for the starts of the second ramp, the end of the program and the two
\* overflows, which take it from one known value to another.
THEOREM TargetCorrect == Spec => TargetStepwise
<1>1. IInv /\ Current /\ [Next]_vars /\ Current' => [TargetStep]_vars
  BY StepFollows, Zenon DEF IInv
<1>2. TargetStepwise <=> [][TargetStep]_vars
  BY DEF TargetStepwise, TargetStep
<1> QED
  BY IInvInit, IInvNext, CurrentInit, CurrentNext, <1>1, <1>2, PTL DEF Spec
=============================================================================
