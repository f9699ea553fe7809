----------------------------- MODULE CoilDriver -----------------------------
(***************************************************************************)
(* The coil driver's firmware (firmware/coil_driver, src/main.cpp): an     *)
(* H-bridge on pins 3, 4, 9 and 10 driven one way for a millisecond, then  *)
(* the other way, with every pin cleared in between.  It runs against the  *)
(* clock of SysTick, through delay() and micros().                         *)
(***************************************************************************)
EXTENDS SysTick, Sequences

CONSTANTS Ms,        \* the argument of delay (1)
          MaxStall,  \* bound: ticks a step of the main thread takes with interrupts off
          MaxStep    \* bound: ticks one takes with interrupts on

\* With interrupts off micros() makes three loads, far fewer than Threshold (50)
\* ticks.  With interrupts on a step may hold a yield() and every other interrupt,
\* the USB one included.
ASSUME CoilDriverAssumption ==
  /\ Ms \in Nat \ {0}
  /\ MaxStall \in 1 .. Threshold
  /\ MaxStep \in Nat \ {0}

\* A round of delay takes less than a millisecond, and the counter of
\* microseconds wraps after two at the earliest: on the Teensy LC, whose 48000
\* ticks leave some 47900 to yield() and the interrupts, and with 2^32.
ASSUME DelayAssumption ==
  /\ 2 * MaxStall + MaxStep < Ticks
  /\ 2 * UsPerMs <= Wrap

Pins == {3, 4, 9, 10}
PinOrder == <<3, 4, 9, 10>>

\* The two ways through the bridge.
Halves == {"forward", "reverse"}
Diagonal(way) == IF way = "forward" THEN {3, 10} ELSE {4, 9}

\* Slip: the second half is a copy of the first.
MutOpposite(way) == way

Opposite(way) == IF way = "forward" THEN "reverse" ELSE "forward"

VARIABLES
  level,       \* what digitalWrite set each pin to
  half,        \* the half of main's loop
  step,        \* 1..4 in zero_all, 5..8 setting the pins, 9 in delay
  micros,      \* "out", or how far a call of micros() has come
  current, count,   \* what it has read
  start, ms,   \* delay's variables; start is -1 until it is set
  stall,       \* ticks since the main thread's last step
  onFor        \* ticks the bridge has been on in this half

loopVars  == <<level, half, step>>
delayVars == <<micros, current, count, start, ms>>
vars      == <<tickVars, loopVars, delayVars, stall, onFor>>

Init ==
  /\ TickInit
  /\ level = [pin \in Pins |-> 0]
  /\ half = "forward"
  /\ step = 1
  /\ micros = "out"
  /\ current = 0
  /\ count = 0
  /\ start = -1
  /\ ms = Ms
  /\ stall = 0
  /\ onFor = 0

\* Slip: zero_all leaves the pins alone.
MutZeroAll ==
  /\ step \in 1 .. 4
  /\ step' = step + 1
  /\ UNCHANGED level

\* zero_all, a digitalWrite at a time.
ZeroAll ==
  /\ step \in 1 .. 4
  /\ level' = [level EXCEPT ![PinOrder[step]] = 0]
  /\ step' = step + 1

\* The four digitalWrites that turn the bridge on.
SetPins ==
  /\ step \in 5 .. 8
  /\ LET pin == PinOrder[step - 4] IN
       level' = [level EXCEPT ![pin] = IF pin \in Diagonal(half) THEN 1 ELSE 0]
  /\ step' = step + 1

WritePin ==
  /\ ZeroAll \/ SetPins
  /\ stall' = 0
  /\ onFor' = 0
  /\ UNCHANGED <<tickVars, half, delayVars>>

\* micros(): interrupts off, ...
MicrosEnter ==
  /\ step = 9
  /\ micros = "out"
  /\ micros' = "entered"
  /\ irqOff' = TRUE
  /\ stall' = 0
  /\ UNCHANGED <<SYST_CVR, PENDSTSET, systick_millis_count, now, loopVars,
                 current, count, start, ms, onFor>>

\* ... read the counter and the count, ...
MicrosRead ==
  /\ micros = "entered"
  /\ micros' = "read"
  /\ current' = SYST_CVR
  /\ count' = systick_millis_count
  /\ stall' = 0
  /\ UNCHANGED <<tickVars, loopVars, start, ms, onFor>>

\* Slip: a millisecond is taken to have passed one microsecond early.
MutElapsed(value) == (value - start) % Wrap >= UsPerMs - 1

\* micros() - start >= 1000
Elapsed(value) == (value - start) % Wrap >= UsPerMs

\* ... then PENDSTSET; the value is start, or is compared with it: another
\* millisecond has passed, the last one, or none (delay yields and asks again).
MicrosLeave ==
  /\ micros = "read"
  /\ micros' = "out"
  /\ irqOff' = FALSE
  /\ current' = 0
  /\ count' = 0
  /\ stall' = 0
  /\ LET value == Micros(count, current) IN
     \/ /\ start = -1
        /\ start' = value
        /\ UNCHANGED <<ms, step, half>>
     \/ /\ start # -1
        /\ Elapsed(value)
        /\ ms > 1
        /\ ms' = ms - 1
        /\ start' = (start + UsPerMs) % Wrap
        /\ UNCHANGED <<step, half>>
     \/ /\ start # -1
        /\ Elapsed(value)
        /\ ms = 1
        /\ ms' = Ms
        /\ start' = -1
        /\ step' = 1
        /\ half' = Opposite(half)
     \/ /\ start # -1
        /\ ~Elapsed(value)
        /\ UNCHANGED <<start, ms, step, half>>
  /\ UNCHANGED <<SYST_CVR, PENDSTSET, systick_millis_count, now, level, onFor>>

\* The ticks the main thread's next step may be away.
Longest == IF irqOff THEN MaxStall ELSE MaxStep

\* A tick of the processor clock, which the main thread also runs on.
Clock ==
  /\ stall < Longest
  /\ Tick
  /\ stall' = stall + 1
  /\ onFor' = IF step = 9 THEN onFor + 1 ELSE 0
  /\ UNCHANGED <<loopVars, delayVars>>

Interrupt == systick_default_isr /\ UNCHANGED <<loopVars, delayVars, stall, onFor>>

Main == WritePin \/ MicrosEnter \/ MicrosRead \/ MicrosLeave
Next == Main \/ Clock \/ Interrupt

Spec == Init /\ [][Next]_vars

\* The processor takes a pending interrupt between any two instructions run
\* with interrupts on, however short the time they stay on.
FairSpec == Spec /\ WF_vars(Main) /\ WF_vars(Clock) /\ SF_vars(Interrupt)

-----------------------------------------------------------------------------
TypeOK ==
  /\ SYST_CVR \in 0 .. Ticks - 1
  /\ PENDSTSET \in BOOLEAN /\ irqOff \in BOOLEAN
  /\ systick_millis_count \in 0 .. Wrap - 1
  /\ now \in 0 .. Wrap * TicksPerUs - 1
  /\ level \in [Pins -> {0, 1}]
  /\ half \in Halves /\ step \in 1 .. 9
  /\ micros \in {"out", "entered", "read"}
  /\ current \in 0 .. Ticks - 1 /\ count \in 0 .. Wrap - 1
  /\ start \in -1 .. Wrap - 1 /\ ms \in 1 .. Ms
  /\ stall \in 0 .. Longest /\ onFor \in Nat

\* Never both diagonals of the bridge at once, not even between two
\* digitalWrites: with one transistor of each on, a leg shorts the supply.
NoShootThrough ==
  ~ \E p \in Diagonal("forward"), q \in Diagonal("reverse") : level[p] = 1 /\ level[q] = 1

\* Wherever the interrupt falls, the counter wraps or the millisecond turns
\* over inside micros(), its value is the time at which it read the counter,
\* exact or a microsecond late.
MicrosExact ==
  micros = "read" =>
    \E late \in 0 .. 1 :
      \E since \in 0 .. MaxStall :   \* ticks since the counter was read
        /\ since = stall
        /\ (Micros(count, current) + late) % Wrap =
             ((now - since) % (Wrap * TicksPerUs)) \div TicksPerUs

\* The bridge is on for as long as delay was asked to take, less a microsecond,
\* and no longer than the calls of micros() that start the measure and end it,
\* each behind one step with interrupts on, may take: whatever yield() and the
\* interrupts cost, it does not add up over the milliseconds.
HalfLength ==
  [][half' # half =>
       onFor \in (Ms * UsPerMs - 1) * TicksPerUs ..
                   Ms * Ticks + 2 * MaxStep + 4 * MaxStall]_vars

\* The coil is driven each way again and again.
Alternates == []<>(half = "forward" /\ step = 9) /\ []<>(half = "reverse" /\ step = 9)
=============================================================================
