------------------------------- MODULE SysTick -------------------------------
(***************************************************************************)
(* The millisecond clock of the Teensy core: the SysTick down-counter, its *)
(* interrupt, and what micros() (teensy3/pins_teensy.c) reads from them.   *)
(* The numbers are scaled down: a millisecond is UsPerMs microseconds of   *)
(* TicksPerUs processor ticks (1000 and 48 on the Teensy LC).              *)
(***************************************************************************)
EXTENDS Integers

CONSTANTS UsPerMs,     \* microseconds per period of the counter (1000)
          TicksPerUs,  \* processor ticks per microsecond (48)
          Threshold,   \* micros() trusts PENDSTSET above this count (50)
          Wrap,        \* the 32-bit counters wrap here (2^32)
          MaxLatency   \* bound: ticks a pending interrupt waits at most

Ticks == UsPerMs * TicksPerUs      \* SYST_RVR + 1

ASSUME SysTickAssumption ==
  /\ {UsPerMs, TicksPerUs, Wrap} \subseteq Nat \ {0}
  /\ {Threshold, MaxLatency} \subseteq Nat
  /\ MaxLatency < Ticks - 1 - Threshold

VARIABLES
  SYST_CVR,              \* the down-counter
  PENDSTSET,             \* its interrupt is pending
  systick_millis_count,
  irqOff,                \* between __disable_irq and __enable_irq
  now                    \* ticks since the start, modulo the wrap of micros()

tickVars == <<SYST_CVR, PENDSTSET, systick_millis_count, irqOff, now>>

TickInit ==
  /\ SYST_CVR = Ticks - 1
  /\ PENDSTSET = FALSE
  /\ systick_millis_count = 0
  /\ irqOff = FALSE
  /\ now = 0

\* The interrupt has priority over all others: it waits only for a section
\* with interrupts off, and for its own entry.
InTime == PENDSTSET => SYST_CVR = 0 \/ SYST_CVR > Ticks - 1 - MaxLatency

\* Slip: the reload value is a period, not a period less one.
MutReload(counter) == IF counter = 0 THEN Ticks ELSE counter - 1

Reload(counter) == IF counter = 0 THEN Ticks - 1 ELSE counter - 1

\* The counter reaches zero, the interrupt becomes pending, and a tick later
\* the counter is reloaded.
Tick ==
  /\ InTime
  /\ SYST_CVR' = Reload(SYST_CVR)
  /\ PENDSTSET' = (PENDSTSET \/ SYST_CVR' = 0)
  /\ now' = (now + 1) % (Wrap * TicksPerUs)
  /\ UNCHANGED <<systick_millis_count, irqOff>>

\* Entering the interrupt takes longer than the reload.
systick_default_isr ==
  /\ PENDSTSET
  /\ ~irqOff
  /\ SYST_CVR # 0
  /\ PENDSTSET' = FALSE
  /\ systick_millis_count' = (systick_millis_count + 1) % Wrap
  /\ UNCHANGED <<SYST_CVR, irqOff, now>>

\* Slip: a pending interrupt always counts.
MutMillis(count, current) == IF PENDSTSET THEN count + 1 ELSE count

\* The millisecond micros() takes a count and a counter value to belong to.
Millis(count, current) ==
  IF PENDSTSET /\ current > Threshold THEN count + 1 ELSE count

\* (ticks * 87381) >> 22, on 0 .. 47999: a tick late at each microsecond.
Micro(ticks) == IF ticks = 0 THEN 0 ELSE (ticks - 1) \div TicksPerUs

Micros(count, current) ==
  (Millis(count, current) * UsPerMs + Micro(Ticks - 1 - current)) % Wrap
=============================================================================
