------------------------------- MODULE Furnace -------------------------------
(***************************************************************************)
(* The furnace controller                                                  *)
(* (software/furnace/serialthermocouple/serialthermocouple.ino): a target  *)
(* temperature that follows a program of two ramps and two holds, and a    *)
(* PID loop that drives the heater's duty cycle towards it.  Temperatures  *)
(* are integers, of a unit in which a ramp climbs a whole number a second, *)
(* and the products of the loop are kept in quarters, so that P = 0.75,    *)
(* I = 0.5 and D = 6 are whole: what the module calls integral is twice    *)
(* the code's, and output four times.                                      *)
(***************************************************************************)
EXTENDS Integers

CONSTANTS
  RAMP_1_TIME, RAMP_1_TEMP, HOLD_1_TIME,
  RAMP_2_TIME, RAMP_2_TEMP, HOLD_2_TIME,
  IntegralLimit,   \* twice the limit on integral (2 * 300)
  OutputLimit,     \* four times the limit on output (4 * 255)
  IntHalf,         \* int holds -IntHalf .. IntHalf - 1 (2^15)
  MillisWrap,      \* seconds after which millis() starts again (2^32 ms)
  LoopSeconds,     \* bound: seconds a loop may take
  Readings         \* temperatures the thermocouple may read

ASSUME FurnaceAssumption ==
  /\ {RAMP_1_TIME, RAMP_2_TIME, HOLD_1_TIME, HOLD_2_TIME, IntHalf, MillisWrap}
       \subseteq Nat \ {0}
  /\ {RAMP_1_TEMP, RAMP_2_TEMP, IntegralLimit, OutputLimit, LoopSeconds} \subseteq Nat
  /\ RAMP_1_TEMP % RAMP_1_TIME = 0 /\ RAMP_2_TEMP % RAMP_2_TIME = 0
  /\ Readings \subseteq Int

VARIABLES
  seconds,          \* millis() / 1000
  target,
  stage,            \* the branch that set it
  integral, previous_error,
  output,           \* what analogWrite was last given
  falling           \* the furnace had cooled relative to its target

vars == <<seconds, target, stage, integral, previous_error, output, falling>>

Constrain(x, low, high) == IF x < low THEN low ELSE IF x > high THEN high ELSE x

\* int current_time = millis()/1000UL
ToInt(s) == ((s + IntHalf) % (2 * IntHalf)) - IntHalf

Start1 == RAMP_1_TIME
Start2 == Start1 + HOLD_1_TIME
Start3 == Start2 + RAMP_2_TIME
End    == Start3 + HOLD_2_TIME

\* No stage is shorter than a loop, the program ends a loop before int
\* overflows, and int is below zero when the milliseconds start again: 300
\* seconds, 5700 of 32768, and 4294967 - 66 * 65536 = -30409 on the controller.
ASSUME ProgramAssumption ==
  /\ \A time \in {RAMP_1_TIME, HOLD_1_TIME, RAMP_2_TIME, HOLD_2_TIME} : LoopSeconds <= time
  /\ End + LoopSeconds <= IntHalf
  /\ LoopSeconds < MillisWrap
  /\ \A s \in MillisWrap - LoopSeconds .. MillisWrap - 1 : ToInt(s) < 0

\* Slip: the third test leaves out the first hold.
MutStage(t) ==
  IF t < Start1 THEN "ramp 1"
  ELSE IF t < Start2 THEN "hold 1"
  ELSE IF t < Start1 + RAMP_2_TIME THEN "ramp 2"
  ELSE IF t < End THEN "hold 2"
  ELSE "off"

Stage(t) ==
  IF t < Start1 THEN "ramp 1"
  ELSE IF t < Start2 THEN "hold 1"
  ELSE IF t < Start3 THEN "ramp 2"
  ELSE IF t < End THEN "hold 2"
  ELSE "off"

\* Slip: the second ramp is timed from the end of the first.
MutRamp2(t) == (RAMP_2_TEMP \div RAMP_2_TIME) * (t - Start1)

Ramp2(t) == (RAMP_2_TEMP \div RAMP_2_TIME) * (t - Start2)

Target(t) ==
  IF Stage(t) = "ramp 1" THEN (RAMP_1_TEMP \div RAMP_1_TIME) * t
  ELSE IF Stage(t) = "hold 1" THEN RAMP_1_TEMP
  ELSE IF Stage(t) = "ramp 2" THEN Ramp2(t)
  ELSE IF Stage(t) = "hold 2" THEN RAMP_2_TEMP
  ELSE 0

Init ==
  /\ seconds = 0
  /\ target = 0 /\ stage = "ramp 1"
  /\ integral = 0 /\ previous_error = 0
  /\ output = 0
  /\ falling = FALSE

\* Slip: the integral is not limited.
MutIntegrated(e) == integral + e

Integrated(e) == Constrain(integral + e, -IntegralLimit, IntegralLimit)

\* The rest of the loop on the average of five readings.
Drive(current_temp) ==
  LET e          == target' - current_temp
      derivative == e - previous_error
  IN
  /\ integral' = Integrated(e)
  /\ previous_error' = e
  /\ output' = Constrain(3 * e + Integrated(e) + 24 * derivative, 0, OutputLimit)
  /\ falling' = (derivative > 0)

\* A reading that fails makes the average a NaN: the loop returns
\* and the heater stays as it is.
SkipReading == UNCHANGED <<integral, previous_error, output, falling>>

loop ==
  /\ \E s \in 0 .. LoopSeconds : seconds' = (seconds + s) % MillisWrap
  /\ target' = Target(ToInt(seconds'))
  /\ stage' = Stage(ToInt(seconds'))
  /\ \/ \E current_temp \in Readings : Drive(current_temp)
     \/ SkipReading

Next == loop
Spec == Init /\ [][Next]_vars

-----------------------------------------------------------------------------
Stages == {"ramp 1", "hold 1", "ramp 2", "hold 2", "off"}

TypeOK ==
  /\ seconds \in 0 .. MillisWrap - 1
  /\ target \in Int /\ stage \in Stages
  /\ integral \in -IntegralLimit .. IntegralLimit
  /\ previous_error \in Int
  /\ output \in 0 .. OutputLimit
  /\ falling \in BOOLEAN

\* However long the furnace lagged behind before, once it is hotter than its
\* target by what a full integral can hold against it (200 degrees), and not
\* cooling, the heater is off: the integral cannot wind up further.
OvershootCutsHeater == 3 * previous_error <= -IntegralLimit /\ ~falling => output = 0

Successor ==
  [s \in Stages |->
     CASE s = "ramp 1" -> "hold 1" [] s = "hold 1" -> "ramp 2"
       [] s = "ramp 2" -> "hold 2" [] s = "hold 2" -> "off"
       [] s = "off"    -> "ramp 1"]

\* The stages come one after the other and none is left out; the program
\* starts again only when the clock overflows.
StagesInOrder == [][stage' \in {stage, Successor[stage]}]_vars

Slope1   == RAMP_1_TEMP \div RAMP_1_TIME
Slope2   == RAMP_2_TEMP \div RAMP_2_TIME
MaxSlope == IF Slope1 > Slope2 THEN Slope1 ELSE Slope2

\* Where the target does not climb a ramp or hold: the second ramp starts from
\* zero; the program ends; int overflows and the first ramp starts far below
\* zero; the milliseconds start again and the first ramp goes on from zero.
SecondRampStarts ==
  /\ stage = "hold 1" /\ stage' = "ramp 2"
  /\ target = RAMP_1_TEMP /\ target' \in 0 .. LoopSeconds * Slope2
ProgramEnds ==
  /\ stage = "hold 2" /\ stage' = "off"
  /\ target = RAMP_2_TEMP /\ target' = 0
IntOverflows ==
  /\ stage = "off" /\ stage' = "ramp 1"
  /\ target = 0 /\ target' + Slope1 * IntHalf \in 0 .. LoopSeconds * Slope1
MillisRestart ==
  /\ stage = "ramp 1" /\ stage' = "ramp 1"
  /\ seconds' < seconds
  /\ target <= 0 /\ target' \in 0 .. LoopSeconds * Slope1

\* In every loop, those in which a clock overflows included, the target climbs by
\* no more than the steeper ramp does in the time of a loop, but for four jumps,
\* each from one known value to another.
TargetStepwise ==
  [][\/ target' - target \in 0 .. LoopSeconds * MaxSlope
     \/ SecondRampStarts \/ ProgramEnds \/ IntOverflows \/ MillisRestart]_vars

\* What the comment on the first branch says: it ramps to RAMP_1_TEMP.
RampsUp == stage = "ramp 1" => target \in 0 .. RAMP_1_TEMP
=============================================================================
