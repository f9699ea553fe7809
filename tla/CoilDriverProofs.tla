-------------------------- MODULE CoilDriverProofs --------------------------
(***************************************************************************)
(* That the bridge of the coil driver never shorts its supply, and that    *)
(* micros() tells the time wherever the interrupt falls, proved for every  *)
(* clock (the Teensy's own, too large to enumerate, is one) and delay.     *)
(***************************************************************************)
EXTENDS CoilDriver, TLAPS

LoopTypeOK ==
  /\ level \in [Pins -> {0, 1}]
  /\ half \in Halves
  /\ step \in 1 .. 9

\* Clearing: what is still on is of the half just ended, and not yet cleared.
Clearing ==
  step \in 1 .. 4 =>
    \A i \in 1 .. 4 :
      level[PinOrder[i]] = 1 => i >= step /\ PinOrder[i] \in Diagonal(Opposite(half))

\* Setting and waiting: what is on is of this half, and already set.
Setting ==
  step \in 5 .. 9 =>
    \A i \in 1 .. 4 :
      level[PinOrder[i]] = 1 => i < step - 4 /\ PinOrder[i] \in Diagonal(half)

\* micros() is called by delay alone.
Asking == micros # "out" => step = 9

\* All that is on belongs to one half, and between two halves all is cleared:
\* NoShootThrough alone says nothing of the pins about to be set.
IInv == LoopTypeOK /\ Clearing /\ Setting /\ Asking

\* The four pins, in the order zero_all and the halves write them.
LEMMA PinOrderIs ==
  /\ PinOrder[1] = 3 /\ PinOrder[2] = 4 /\ PinOrder[3] = 9 /\ PinOrder[4] = 10
  /\ \A pin \in Pins : \E i \in 1 .. 4 : PinOrder[i] = pin
  /\ \A i \in 1 .. 4 : PinOrder[i] \in Pins
  /\ \A i, j \in 1 .. 4 : PinOrder[i] = PinOrder[j] => i = j
BY DEF PinOrder, Pins

\* There are two halves, each the opposite of the other.
LEMMA OppositeOfOpposite ==
  ASSUME NEW way \in Halves
  PROVE  Opposite(way) \in Halves /\ Opposite(Opposite(way)) = way
BY DEF Opposite, Halves

\* What is on belongs to one half: the two diagonals are never on at once.
LEMMA IInvImplies == IInv => NoShootThrough
<1> SUFFICES ASSUME IInv,
                    NEW p \in Diagonal("forward"), NEW q \in Diagonal("reverse"),
                    level[p] = 1, level[q] = 1
             PROVE  FALSE
  BY DEF NoShootThrough
<1>1. p \in {3, 10} /\ q \in {4, 9}
  BY DEF Diagonal
<1>2. p \in Pins /\ q \in Pins
  BY <1>1 DEF Pins
<1>3. PICK way \in Halves : p \in Diagonal(way) /\ q \in Diagonal(way)
  <2>1. \/ step \in 1 .. 4
        \/ step \in 5 .. 9
    BY DEF IInv, LoopTypeOK
  <2>2. CASE step \in 1 .. 4
    BY <1>2, <2>2, PinOrderIs, OppositeOfOpposite DEF IInv, LoopTypeOK, Clearing
  <2>3. CASE step \in 5 .. 9
    BY <1>2, <2>3, PinOrderIs DEF IInv, LoopTypeOK, Setting
  <2> QED
    BY <2>1, <2>2, <2>3
<1> QED
  BY <1>1, <1>3 DEF Diagonal, Halves

\* The invariant holds with all pins low.
LEMMA IInvInit == Init => IInv
<1> SUFFICES ASSUME Init PROVE IInv
  OBVIOUS
<1>1. step = 1 /\ half = "forward" /\ level = [pin \in Pins |-> 0]
  BY DEF Init
<1>2. \A i \in 1 .. 4 : level[PinOrder[i]] = 0
  BY <1>1, PinOrderIs
<1>3. LoopTypeOK
  BY <1>1 DEF LoopTypeOK, Halves
<1> QED
  BY <1>1, <1>2, <1>3 DEF Init, IInv, Clearing, Setting, Asking

\* A step that leaves the pins alone, or the end of a half.
LEMMA IInvUnchanged ==
  ASSUME IInv, UNCHANGED <<level, step, half>>, Asking'
  PROVE  IInv'
BY DEF IInv, LoopTypeOK, Clearing, Setting

\* What the half that ends has set is what the next one finds to clear.
LEMMA IInvEndOfHalf ==
  ASSUME IInv, step = 9, step' = 1, half' = Opposite(half), UNCHANGED level,
         micros' = "out"
  PROVE  IInv'
<1>1. Opposite(half') = half /\ half' \in Halves
  BY OppositeOfOpposite DEF IInv, LoopTypeOK
<1>2. LoopTypeOK'
  BY <1>1 DEF IInv, LoopTypeOK
<1>3. Clearing'
  BY <1>1 DEF IInv, Setting, Clearing
<1>4. Setting'
  BY DEF Setting
<1> QED
  BY <1>2, <1>3, <1>4 DEF IInv, Asking

\* A pin is cleared.
LEMMA IInvZeroAll ==
  ASSUME IInv, ZeroAll, half' = half, micros' = micros
  PROVE  IInv'
<1>1. step \in 1 .. 4 /\ step' = step + 1
      /\ level' = [level EXCEPT ![PinOrder[step]] = 0]
  BY DEF ZeroAll
<1>2. level \in [Pins -> {0, 1}] /\ PinOrder[step] \in Pins
  BY <1>1, PinOrderIs DEF IInv, LoopTypeOK
<1>3. \A i \in 1 .. 4 : level'[PinOrder[i]] =
                          IF i = step THEN 0 ELSE level[PinOrder[i]]
  BY <1>1, <1>2, PinOrderIs
<1>4. \A i \in 1 .. 4 : level'[PinOrder[i]] = 1 =>
        i >= step + 1 /\ PinOrder[i] \in Diagonal(Opposite(half))
  BY <1>1, <1>3 DEF IInv, Clearing
<1>5. LoopTypeOK'
  BY <1>1, <1>2 DEF IInv, LoopTypeOK
<1>6. Clearing'
  BY <1>1, <1>4 DEF Clearing
<1>7. Setting'
  <2> SUFFICES ASSUME step' = 5 PROVE Setting'
    BY <1>1 DEF Setting
  <2> QED
    BY <1>1, <1>4 DEF Setting
<1> QED
  <2>1. Asking'
    BY <1>1 DEF IInv, Asking
  <2> QED
    BY <2>1, <1>5, <1>6, <1>7 DEF IInv

\* A pin of the half is set, another cleared.
LEMMA IInvSetPins ==
  ASSUME IInv, SetPins, half' = half, micros' = micros
  PROVE  IInv'
<1> DEFINE k == step - 4
<1>1. step \in 5 .. 8 /\ step' = step + 1 /\ k \in 1 .. 4
      /\ level' = [level EXCEPT ![PinOrder[k]] =
                     IF PinOrder[k] \in Diagonal(half) THEN 1 ELSE 0]
  BY DEF SetPins
<1>2. level \in [Pins -> {0, 1}] /\ PinOrder[k] \in Pins
  BY <1>1, PinOrderIs DEF IInv, LoopTypeOK
<1>3. \A i \in 1 .. 4 : level'[PinOrder[i]] =
        IF i = k THEN IF PinOrder[k] \in Diagonal(half) THEN 1 ELSE 0
        ELSE level[PinOrder[i]]
  BY <1>1, <1>2, PinOrderIs
<1>4. \A i \in 1 .. 4 : level'[PinOrder[i]] = 1 =>
        i < step' - 4 /\ PinOrder[i] \in Diagonal(half)
  BY <1>1, <1>3 DEF IInv, Setting
<1>5. LoopTypeOK'
  BY <1>1, <1>2 DEF IInv, LoopTypeOK
<1>6. Clearing' /\ Setting'
  BY <1>1, <1>4 DEF Clearing, Setting
<1> QED
  <2>1. Asking'
    BY <1>1 DEF IInv, Asking
  <2> QED
    BY <2>1, <1>5, <1>6 DEF IInv

\* Every step of main, the clock and the interrupt keeps the invariant.
LEMMA IInvNext == IInv /\ [Next]_vars => IInv'
<1> SUFFICES ASSUME IInv, [Next]_vars PROVE IInv'
  OBVIOUS
<1>1. CASE WritePin
  BY <1>1, IInvZeroAll, IInvSetPins DEF WritePin, delayVars
<1>2. CASE MicrosEnter
  BY <1>2, IInvUnchanged DEF MicrosEnter, loopVars, Asking
<1>3. CASE MicrosRead
  <2>1. Asking'
    BY <1>3 DEF MicrosRead, loopVars, IInv, Asking
  <2> QED
    BY <1>3, <2>1, IInvUnchanged DEF MicrosRead, loopVars
<1>4. CASE MicrosLeave
  <2>1. step = 9 /\ micros' = "out" /\ level' = level
    BY <1>4 DEF MicrosLeave, IInv, Asking
  <2>2. CASE UNCHANGED <<step, half>>
    BY <2>1, <2>2, IInvUnchanged DEF Asking
  <2>3. CASE step' = 1 /\ half' = Opposite(half)
    BY <2>1, <2>3, IInvEndOfHalf
  <2> QED
    BY <1>4, <2>2, <2>3 DEF MicrosLeave
<1>5. CASE Clock
  <2>1. UNCHANGED <<level, step, half, micros>>
    BY <1>5 DEF Clock, loopVars, delayVars
  <2> QED
    BY <2>1, IInvUnchanged DEF IInv, Asking
<1>6. CASE Interrupt
  <2>1. UNCHANGED <<level, step, half, micros>>
    BY <1>6 DEF Interrupt, loopVars, delayVars
  <2> QED
    BY <2>1, IInvUnchanged DEF IInv, Asking
<1>7. CASE UNCHANGED vars
  <2>1. UNCHANGED <<level, step, half, micros>>
    BY <1>7 DEF vars, loopVars, delayVars
  <2> QED
    BY <2>1, IInvUnchanged DEF IInv, Asking
<1> QED
  BY <1>1, <1>2, <1>3, <1>4, <1>5, <1>6, <1>7 DEF Next, Main

\* At no step of main's loop, and at no point inside it where the interrupt
\* may run, is a transistor of each diagonal on.
THEOREM NeverShorted == Spec => []NoShootThrough
BY IInvInit, IInvNext, IInvImplies, PTL DEF Spec

-----------------------------------------------------------------------------
(* Division *)

\* What the quotient and the remainder are.
LEMMA DivMod ==
  ASSUME NEW n \in Nat \ {0}, NEW a \in Int
  PROVE  a % n \in 0 .. n - 1 /\ a \div n \in Int /\ a = n * (a \div n) + (a % n)
OBVIOUS

LEMMA ProductBound ==
  ASSUME NEW n \in Nat \ {0}, NEW z \in Int, z >= 1
  PROVE  n * z >= n
OBVIOUS

LEMMA Distributes ==
  ASSUME NEW n \in Int, NEW y \in Int, NEW z \in Int
  PROVE  /\ n * (y - z) = n * y - n * z
         /\ n * (y + z) = n * y + n * z
         /\ n * z \in Int /\ n * z = z * n
OBVIOUS

\* They are the only ones.
LEMMA DivModUnique ==
  ASSUME NEW n \in Nat \ {0}, NEW q \in Int, NEW r \in 0 .. n - 1,
         NEW a \in Int, a = n * q + r
  PROVE  a \div n = q /\ a % n = r
<1> DEFINE d == a \div n
           m == a % n
<1>1. d \in Int /\ m \in 0 .. n - 1 /\ n * q + r = n * d + m
  BY DivMod
<1> HIDE DEF d, m
<1>2. n * (q - d) = m - r /\ n * (d - q) = r - m
  BY <1>1, Distributes
<1>3. ~(q - d >= 1) /\ ~(d - q >= 1)
  BY <1>1, <1>2, ProductBound
<1>4. q = d
  BY <1>1, <1>3
<1>5. m = r
  BY <1>1, <1>4, Distributes
<1> QED
  BY <1>4, <1>5 DEF d, m

\* Multiples of the modulus do not change a remainder, nor does taking it twice.
LEMMA ModShift ==
  ASSUME NEW n \in Nat \ {0}, NEW a \in Int, NEW k \in Int
  PROVE  (a + n * k) % n = a % n
<1> DEFINE q == a \div n
           r == a % n
<1>1. q \in Int /\ r \in 0 .. n - 1 /\ a = n * q + r
  BY DivMod
<1> HIDE DEF q, r
<1>2. a + n * k = n * (q + k) + r /\ q + k \in Int /\ a + n * k \in Int
  BY <1>1, Distributes
<1>3. (a + n * k) % n = r
  BY <1>1, <1>2, DivModUnique
<1> QED
  BY <1>3 DEF r

LEMMA ModAdd ==
  ASSUME NEW n \in Nat \ {0}, NEW a \in Int, NEW b \in Int
  PROVE  ((a % n) + b) % n = (a + b) % n
<1> DEFINE q == a \div n
           r == a % n
<1>1. q \in Int /\ r \in 0 .. n - 1 /\ a = n * q + r
  BY DivMod
<1> HIDE DEF q, r
<1>2. a + b = (r + b) + n * q /\ r + b \in Int
  BY <1>1, Distributes
<1>3. (a + b) % n = (r + b) % n
  <2>1. ((r + b) + n * q) % n = (r + b) % n
    BY <1>1, <1>2, ModShift, Zenon
  <2> QED BY <1>2, <2>1, Zenon
<1> QED
  BY <1>3 DEF r

-----------------------------------------------------------------------------
(* The clock *)

\* A period of micros(), in ticks.
Period == Wrap * TicksPerUs

\* The millisecond that has passed and is not counted yet: the counter was
\* reloaded, the interrupt still waits.
Late == IF PENDSTSET /\ SYST_CVR # 0 THEN 1 ELSE 0

\* The ticks that count and counter stand for.
Counted == (systick_millis_count + Late) * Ticks + (Ticks - 1 - SYST_CVR)

\* Count and counter tell the time, up to the wrap of micros().
Synchronous == \E k \in Int : now = Counted + Period * k

\* An interrupt that waits while the counter has been reloaded became pending
\* a short time ago.
Pended ==
  /\ SYST_CVR = 0 => PENDSTSET
  /\ PENDSTSET /\ SYST_CVR # 0 => SYST_CVR >= Ticks - 1 - MaxLatency

\* Between reading the counter and reading PENDSTSET: with enough left on the
\* counter it has not run out since, with little left nothing was pending.
Reading ==
  /\ irqOff <=> micros # "out"
  /\ micros = "read" =>
       /\ current > Threshold => SYST_CVR = current - stall
       /\ Counted - stall = Millis(count, current) * Ticks + (Ticks - 1 - current)

ClockTypeOK ==
  /\ SYST_CVR \in 0 .. Ticks - 1
  /\ PENDSTSET \in BOOLEAN /\ irqOff \in BOOLEAN
  /\ systick_millis_count \in 0 .. Wrap - 1
  /\ now \in 0 .. Period - 1
  /\ micros \in {"out", "entered", "read"}
  /\ current \in 0 .. Ticks - 1 /\ count \in 0 .. Wrap - 1
  /\ stall \in 0 .. Longest

ClockInv == ClockTypeOK /\ Synchronous /\ Pended /\ Reading

\* The assumptions on the constants, and the products made of them.
LEMMA ClockConstants ==
  /\ UsPerMs \in Nat \ {0} /\ TicksPerUs \in Nat \ {0} /\ Wrap \in Nat \ {0}
  /\ Threshold \in Nat /\ MaxLatency \in Nat /\ MaxStall \in 1 .. Threshold
  /\ MaxStep \in Nat \ {0}
  /\ MaxLatency < Ticks - 1 - Threshold
  /\ Ticks \in Nat \ {0} /\ Ticks >= 2 /\ Period \in Nat \ {0}
  /\ Wrap * Ticks = Period * UsPerMs
<1>1. /\ UsPerMs \in Nat \ {0} /\ TicksPerUs \in Nat \ {0} /\ Wrap \in Nat \ {0}
      /\ Threshold \in Nat /\ MaxLatency \in Nat /\ MaxStall \in 1 .. Threshold
      /\ MaxStep \in Nat \ {0}
      /\ MaxLatency < Ticks - 1 - Threshold
  BY SysTickAssumption, CoilDriverAssumption
<1>2. Ticks \in Nat \ {0} /\ Period \in Nat \ {0}
  BY <1>1, ProductBound, Distributes DEF Ticks, Period
<1>3. Wrap * (UsPerMs * TicksPerUs) = (Wrap * TicksPerUs) * UsPerMs
  BY <1>1
<1> QED
  BY <1>1, <1>2, <1>3 DEF Ticks, Period

\* The bound on the main thread's step, in this state and in the next.
LEMMA LongestType ==
  /\ Longest \in Nat /\ Longest' \in Nat
  /\ irqOff => Longest = MaxStall
  /\ ~irqOff => Longest = MaxStep
BY ClockConstants DEF Longest

\* The ticks counted are a number, and at most one millisecond is late.
LEMMA CountedType ==
  ASSUME ClockTypeOK
  PROVE  Counted \in Int /\ Late \in {0, 1} /\ (systick_millis_count + Late) * Ticks \in Int
<1>1. systick_millis_count + Late \in Int /\ Late \in {0, 1}
  BY ClockConstants DEF ClockTypeOK, Late
<1>2. (systick_millis_count + Late) * Ticks \in Int
  BY <1>1, ClockConstants
<1> QED
  BY <1>1, <1>2, ClockConstants DEF ClockTypeOK, Counted

\* The clock starts at zero, a period from the first interrupt.
LEMMA ClockInit == Init => ClockInv
<1> SUFFICES ASSUME Init PROVE ClockInv
  OBVIOUS
<1>1. /\ SYST_CVR = Ticks - 1 /\ PENDSTSET = FALSE /\ systick_millis_count = 0
      /\ irqOff = FALSE /\ now = 0 /\ micros = "out" /\ current = 0 /\ count = 0
      /\ stall = 0
  BY DEF Init, TickInit
<1>2. PENDSTSET \in BOOLEAN /\ irqOff \in BOOLEAN /\ ~PENDSTSET
  BY <1>1, Zenon
<1>3. ClockTypeOK
  BY <1>1, <1>2, ClockConstants, LongestType DEF ClockTypeOK
<1>4. Synchronous
  <2>1. Late = 0
    BY <1>2 DEF Late
  <2>2. 0 * Ticks = 0 /\ Period * 0 = 0
    BY ClockConstants
  <2>3. Counted = 0
    BY <1>1, <2>1, <2>2, ClockConstants DEF Counted
  <2>4. 0 = 0 + 0 /\ 0 \in Int
    OBVIOUS
  <2>5. now = Counted + Period * 0
    BY <1>1, <2>2, <2>3, <2>4, Zenon
  <2> QED
    BY <2>4, <2>5, Zenon DEF Synchronous
<1>5. Pended /\ Reading
  BY <1>1, <1>2, ClockConstants DEF Pended, Reading
<1> QED
  BY <1>3, <1>4, <1>5 DEF ClockInv

\* A step of the main thread that leaves the clock alone.
LEMMA ClockUnchanged ==
  ASSUME ClockInv, UNCHANGED <<SYST_CVR, PENDSTSET, systick_millis_count, now>>,
         irqOff' \in BOOLEAN, current' \in 0 .. Ticks - 1, count' \in 0 .. Wrap - 1,
         stall' = 0, micros' \in {"out", "entered"}, irqOff' <=> micros' # "out"
  PROVE  ClockInv'
<1>1. ClockTypeOK'
  BY LongestType DEF ClockInv, ClockTypeOK
<1>2. Synchronous' /\ Pended'
  BY DEF ClockInv, Synchronous, Counted, Late, Pended
<1>3. Reading'
  BY Zenon DEF Reading
<1> QED
  BY <1>1, <1>2, <1>3 DEF ClockInv

\* What a tick does.
LEMMA TickSteps ==
  ASSUME ClockInv, Clock
  PROVE  /\ stall < Longest /\ stall' = stall + 1 /\ InTime /\ Longest' = Longest
         /\ now' = (now + 1) % Period
         /\ UNCHANGED <<systick_millis_count, irqOff, micros, current, count>>
         /\ \/ SYST_CVR = 0 /\ SYST_CVR' = Ticks - 1
            \/ SYST_CVR > 0 /\ SYST_CVR' = SYST_CVR - 1
<1>1. SYST_CVR' = Reload(SYST_CVR) /\ SYST_CVR \in 0 .. Ticks - 1
  BY DEF Clock, Tick, ClockInv, ClockTypeOK
<1>2. \/ SYST_CVR = 0 /\ SYST_CVR' = Ticks - 1
      \/ SYST_CVR > 0 /\ SYST_CVR' = SYST_CVR - 1
  BY <1>1, ClockConstants DEF Reload
<1> QED
  BY <1>2 DEF Clock, Tick, loopVars, delayVars, Period, Longest

LEMMA TickPends ==
  ASSUME Clock
  PROVE  PENDSTSET' = (PENDSTSET \/ SYST_CVR' = 0)
BY DEF Clock, Tick

\* A tick counts for one: with the reload the counter loses a period, and a
\* millisecond becomes late.
LEMMA TickCounts ==
  ASSUME ClockInv, Clock
  PROVE  Counted' = Counted + 1
<1> DEFINE c == systick_millis_count
<1>1. c \in Int /\ Ticks \in Int /\ SYST_CVR \in 0 .. Ticks - 1 /\ c' = c
  BY TickSteps, ClockConstants DEF ClockInv, ClockTypeOK
<1>2. CASE SYST_CVR = 0
  <2>1. SYST_CVR' = Ticks - 1 /\ SYST_CVR' # 0
    BY <1>1, <1>2, TickSteps, ClockConstants
  <2>2. PENDSTSET'
    BY <1>2, TickPends DEF ClockInv, Pended
  <2>3. Late = 0 /\ Late' = 1
    BY <1>2, <2>1, <2>2 DEF Late
  <2> HIDE DEF c
  <2>4. (c + 1) * Ticks = (c + 0) * Ticks + Ticks
    BY <1>1
  <2>5. (c + 0) * Ticks \in Int
    BY <1>1
  <2>6. (c + 1) * Ticks + (Ticks - 1 - SYST_CVR') =
          (c + 0) * Ticks + (Ticks - 1 - SYST_CVR) + 1
    BY <1>1, <1>2, <2>1, <2>4, <2>5
  <2> QED
    BY <1>1, <2>3, <2>6 DEF c, Counted
<1>3. CASE SYST_CVR > 0
  <2>1. SYST_CVR' = SYST_CVR - 1
    BY <1>1, <1>3, TickSteps
  <2>2. Late' = Late /\ Late \in {0, 1}
    <3>1. CASE SYST_CVR = 1
      <4>1. ~PENDSTSET
        BY <1>1, <3>1, TickSteps, ClockConstants DEF ClockInv, Pended, InTime
      <4> QED
        BY <1>1, <2>1, <3>1, <4>1 DEF Late
    <3>2. CASE SYST_CVR > 1
      <4>1. SYST_CVR' # 0 /\ PENDSTSET' = PENDSTSET
        BY <1>1, <2>1, <3>2, TickPends DEF ClockInv, ClockTypeOK
      <4> QED
        BY <1>1, <3>2, <4>1 DEF Late
    <3> QED
      BY <1>1, <1>3, <3>1, <3>2
  <2>3. (c + Late) * Ticks \in Int
    BY <1>1, <2>2
  <2> QED
    BY <1>1, <2>1, <2>2, <2>3 DEF Counted
<1> QED
  BY <1>1, <1>2, <1>3

\* A tick: at zero the interrupt becomes pending, a tick later the counter is
\* reloaded and the millisecond is late.
LEMMA ClockTick ==
  ASSUME ClockInv, Clock
  PROVE  ClockInv'
<1>1. /\ SYST_CVR \in 0 .. Ticks - 1 /\ systick_millis_count \in 0 .. Wrap - 1
      /\ now \in 0 .. Period - 1 /\ stall \in 0 .. Longest /\ Longest \in Nat
      /\ current \in 0 .. Ticks - 1 /\ count \in 0 .. Wrap - 1
      /\ Counted \in Int
  BY CountedType, LongestType DEF ClockInv, ClockTypeOK
<1>2. PICK j \in {0, 1} : now' = now + 1 - Period * j
  <2>1. Period * 0 = 0 /\ Period * 1 = Period
    BY ClockConstants
  <2>2. CASE now + 1 < Period
    <3>1. now + 1 = Period * 0 + (now + 1) /\ now + 1 \in 0 .. Period - 1
      BY <1>1, <2>1, <2>2, ClockConstants
    <3>2. (now + 1) % Period = now + 1
      BY <1>1, <3>1, ClockConstants, DivModUnique
    <3> QED
      BY <1>1, <2>1, <3>2, TickSteps
  <2>3. CASE now + 1 = Period
    <3>1. 0 \in 0 .. Period - 1
      BY ClockConstants
    <3>2. \A a \in Int : a = Period => a % Period = 0
      <4> SUFFICES ASSUME NEW a \in Int, a = Period * 1 + 0
                   PROVE  a % Period = 0
        BY <2>1, ClockConstants
      <4> QED
        BY <3>1, ClockConstants, DivModUnique
    <3>3. now + 1 \in Int
      BY <1>1
    <3>4. (now + 1) % Period = 0
      BY <2>3, <3>2, <3>3
    <3>5. now' = 0 /\ now + 1 - Period = 0
      BY <1>1, <2>3, <3>4, TickSteps, ClockConstants
    <3> QED
      BY <2>1, <3>5
  <2> QED
    BY <1>1, <2>2, <2>3, ClockConstants
<1>3. \A k \in Int : /\ k - j \in Int /\ Period * k \in Int /\ Period * j \in Int
                     /\ Period * (k - j) = Period * k - Period * j
  BY ClockConstants, Distributes
<1>4. ClockTypeOK'
  <2>1. PENDSTSET' \in BOOLEAN
    BY TickPends
  <2>2. now' \in 0 .. Period - 1
    <3>1. now + 1 \in Int /\ Period \in Nat \ {0}
      BY <1>1, ClockConstants
    <3>2. (now + 1) % Period \in 0 .. Period - 1
      BY <3>1, DivMod, Zenon
    <3> QED
      BY <3>2, TickSteps, Zenon
  <2>3. SYST_CVR' \in 0 .. Ticks - 1 /\ stall' \in 0 .. Longest'
    BY <1>1, TickSteps, ClockConstants
  <2> QED
    BY <2>1, <2>2, <2>3, TickSteps DEF ClockInv, ClockTypeOK
<1>5. Pended'
  <2>1. CASE SYST_CVR = 0
    BY <1>1, <2>1, TickSteps, ClockConstants DEF Pended
  <2>2. CASE SYST_CVR > 0
    <3>1. SYST_CVR' = 0 => PENDSTSET'
      BY TickPends
    <3>2. SYST_CVR' # 0 /\ PENDSTSET' => PENDSTSET
      BY TickPends
    <3>3. PENDSTSET => SYST_CVR > Ticks - 1 - MaxLatency
      BY <2>2, TickSteps DEF InTime
    <3>4. SYST_CVR' = SYST_CVR - 1
      BY <1>1, <2>2, TickSteps
    <3> QED
      BY <1>1, <2>2, <3>1, <3>2, <3>3, <3>4, ClockConstants DEF Pended
  <2> QED
    BY <1>1, <2>1, <2>2
<1>6. Synchronous'
  <2>1. PICK k \in Int : now = Counted + Period * k
    BY DEF ClockInv, Synchronous
  <2>2. /\ k - j \in Int /\ Period * k \in Int /\ Period * j \in Int
        /\ Period * (k - j) = Period * k - Period * j
    BY <1>3
  <2>3. \A x, y, a, b \in Int : x = y + a => x + 1 - b = (y + 1) + (a - b)
    OBVIOUS
  <2>4. now \in Int /\ Counted' = Counted + 1
    BY <1>1, TickCounts
  <2>5. now + 1 - Period * j = (Counted + 1) + (Period * k - Period * j)
    BY <1>1, <2>1, <2>2, <2>3, <2>4
  <2>6. now' = Counted' + Period * (k - j)
    BY <1>2, <2>2, <2>4, <2>5, Zenon
  <2> QED
    BY <2>2, <2>6, Zenon DEF Synchronous
<1>7. Reading'
  <2>1. irqOff' <=> micros' # "out"
    <3>1. irqOff' = irqOff /\ micros' = micros
      BY TickSteps
    <3>2. irqOff <=> micros # "out"
      BY Zenon DEF ClockInv, Reading
    <3> QED
      BY <3>1, <3>2
  <2>2. ASSUME micros = "read"
        PROVE  /\ current > Threshold => SYST_CVR' = current - stall'
               /\ Counted' - stall' = Millis(count, current)' * Ticks + (Ticks - 1 - current)
    <3>1. current > Threshold => SYST_CVR = current - stall
      BY <2>2 DEF ClockInv, Reading
    <3>2. Counted - stall = Millis(count, current) * Ticks + (Ticks - 1 - current)
      BY <2>2 DEF ClockInv, Reading
    <3>3. current > Threshold => SYST_CVR' = current - stall' /\ SYST_CVR' > 0
      <4>1. irqOff
        BY <2>2, Zenon DEF ClockInv, Reading
      <4>2. stall < MaxStall
        BY <4>1, TickSteps, LongestType
      <4> QED
        BY <1>1, <2>2, <3>1, <4>2, TickSteps, ClockConstants DEF ClockInv, ClockTypeOK
    <3>4. current > Threshold => PENDSTSET' = PENDSTSET
      BY <1>1, <3>3, TickPends DEF ClockInv, ClockTypeOK
    <3>5. Millis(count, current)' = Millis(count, current)
      BY <1>1, <3>4, TickSteps, ClockConstants DEF Millis
    <3>6. Counted' - stall' = Counted - stall
      BY <1>1, TickSteps, TickCounts
    <3> QED
      BY <3>2, <3>3, <3>5, <3>6
  <2> QED
    BY <2>1, <2>2, TickSteps DEF Reading
<1> QED
  BY <1>4, <1>5, <1>6, <1>7 DEF ClockInv

\* What the interrupt does, and that it comes outside micros() only.
LEMMA InterruptSteps ==
  ASSUME ClockInv, Interrupt
  PROVE  /\ PENDSTSET /\ ~irqOff /\ SYST_CVR # 0
         /\ systick_millis_count' = (systick_millis_count + 1) % Wrap
         /\ UNCHANGED <<SYST_CVR, irqOff, now, micros, current, count, stall>>
         /\ micros = "out" /\ Longest' = Longest
BY DEF Interrupt, systick_default_isr, loopVars, delayVars, ClockInv, Reading, Longest

\* The interrupt counts the late millisecond, and nothing else, until the
\* count wraps.
LEMMA InterruptCounts ==
  ASSUME ClockInv, Interrupt
  PROVE  Counted' = Counted \/ Counted' = Counted - Wrap * Ticks
<1> DEFINE c == systick_millis_count
<1>1. c \in 0 .. Wrap - 1 /\ SYST_CVR \in 0 .. Ticks - 1
      /\ Late = 1 /\ Late' = 0 /\ SYST_CVR' = SYST_CVR
  <2>1. PENDSTSET' = FALSE
    BY DEF Interrupt, systick_default_isr
  <2>2. Late = 1
    BY InterruptSteps DEF Late
  <2> QED
    BY <2>1, <2>2, InterruptSteps DEF Late, ClockInv, ClockTypeOK
<1>2. c' = (c + 1) % Wrap
  BY InterruptSteps
<1>3. CASE c + 1 < Wrap
  <2>1. c + 1 = Wrap * 0 + (c + 1) /\ c + 1 \in 0 .. Wrap - 1
    BY <1>1, <1>3, ClockConstants
  <2>2. c' = c + 1
    BY <1>1, <1>2, <2>1, ClockConstants, DivModUnique
  <2> QED
    BY <1>1, <2>2 DEF Counted
<1>4. CASE c + 1 = Wrap
  <2>1. \A a \in Int : a = Wrap => a % Wrap = 0
    <3> SUFFICES ASSUME NEW a \in Int, a = Wrap * 1 + 0
                 PROVE  a % Wrap = 0
      BY ClockConstants
    <3> QED
      BY ClockConstants, DivModUnique
  <2>2. c + 1 \in Int
    BY <1>1
  <2>3. c' = 0
    BY <1>2, <1>4, <2>1, <2>2
  <2>4. Counted = Wrap * Ticks + (Ticks - 1 - SYST_CVR)
    BY <1>1, <1>4 DEF Counted
  <2>5. Counted' = 0 * Ticks + (Ticks - 1 - SYST_CVR)
    BY <1>1, <2>3 DEF Counted
  <2>6. Wrap * Ticks \in Int /\ 0 * Ticks = 0
    BY ClockConstants
  <2> QED
    BY <1>1, <2>4, <2>5, <2>6, ClockConstants
<1> QED
  BY <1>1, <1>3, <1>4, ClockConstants

\* When the count wraps, micros() has wrapped UsPerMs times.
LEMMA ClockInterrupt ==
  ASSUME ClockInv, Interrupt
  PROVE  ClockInv'
<1>1. PICK k \in Int : now = Counted + Period * k
  BY DEF ClockInv, Synchronous
<1>2. Counted \in Int /\ Wrap * Ticks = Period * UsPerMs /\ Period * UsPerMs \in Int
  BY CountedType, ClockConstants DEF ClockInv
<1>3. /\ k + UsPerMs \in Int /\ Period * k \in Int
      /\ Period * (k + UsPerMs) = Period * k + Period * UsPerMs
  BY ClockConstants, Distributes
<1>4. now' = now
  BY InterruptSteps
<1>5. now' = Counted' + Period * k \/ now' = Counted' + Period * (k + UsPerMs)
  BY <1>1, <1>2, <1>3, <1>4, InterruptCounts
<1>6. Synchronous'
  BY <1>3, <1>5, Zenon DEF Synchronous
<1>7. ClockTypeOK'
  <2>1. systick_millis_count' \in 0 .. Wrap - 1
    BY InterruptSteps, ClockConstants, DivMod DEF ClockInv, ClockTypeOK
  <2>2. PENDSTSET' \in BOOLEAN
    BY DEF Interrupt, systick_default_isr
  <2> QED
    BY <2>1, <2>2, InterruptSteps DEF ClockInv, ClockTypeOK
<1>8. Pended'
  <2>1. PENDSTSET' = FALSE
    BY DEF Interrupt, systick_default_isr
  <2> QED
    BY <2>1, InterruptSteps DEF Pended
<1>9. Reading'
  BY InterruptSteps DEF Reading
<1> QED
  BY <1>6, <1>7, <1>8, <1>9 DEF ClockInv

\* micros() reads counter and count, with the interrupt held off: a late
\* millisecond is one that PENDSTSET tells, and never with little left.
LEMMA ClockRead ==
  ASSUME ClockInv, MicrosRead
  PROVE  ClockInv'
<1>1. /\ micros = "entered" /\ micros' = "read" /\ current' = SYST_CVR
      /\ count' = systick_millis_count /\ stall' = 0
      /\ UNCHANGED <<SYST_CVR, PENDSTSET, systick_millis_count, irqOff, now>>
  BY DEF MicrosRead, tickVars
<1>2. /\ SYST_CVR \in 0 .. Ticks - 1 /\ systick_millis_count \in 0 .. Wrap - 1
      /\ now \in 0 .. Period - 1
  BY DEF ClockInv, ClockTypeOK
<1>3. ClockTypeOK'
  BY <1>1, <1>2, ClockConstants, LongestType DEF ClockInv, ClockTypeOK
<1>4. Synchronous' /\ Pended'
  BY <1>1 DEF ClockInv, Synchronous, Counted, Late, Pended
<1>5. Millis(count, current)' = systick_millis_count + Late
  <2>1. CASE SYST_CVR > Threshold
    BY <1>1, <1>2, <2>1, ClockConstants DEF Millis, Late
  <2>2. CASE SYST_CVR <= Threshold
    <3>1. ~(PENDSTSET /\ SYST_CVR # 0)
      BY <1>2, <2>2, ClockConstants DEF ClockInv, Pended
    <3> QED
      BY <1>1, <1>2, <2>2, <3>1, ClockConstants DEF Millis, Late
  <2> QED
    BY <1>2, <2>1, <2>2, ClockConstants
<1>6. Counted' = Counted
  BY <1>1 DEF Counted, Late
<1>7. Counted' - stall' = Millis(count, current)' * Ticks + (Ticks - 1 - current')
  BY <1>1, <1>2, <1>5, <1>6, CountedType DEF Counted, ClockInv
<1>8. Reading'
  BY <1>1, <1>2, <1>7 DEF ClockInv, Reading
<1> QED
  BY <1>3, <1>4, <1>8 DEF ClockInv

\* Every step of the clock, the interrupt and the main thread keeps it.
LEMMA ClockNext ==
  ASSUME IInv, ClockInv, [Next]_vars
  PROVE  ClockInv'
<1>1. CASE Clock
  BY <1>1, ClockTick
<1>2. CASE Interrupt
  BY <1>2, ClockInterrupt
<1>3. CASE MicrosRead
  BY <1>3, ClockRead
<1> DEFINE Same == UNCHANGED <<SYST_CVR, PENDSTSET, systick_millis_count, now>>
<1>4. /\ irqOff \in BOOLEAN /\ current \in 0 .. Ticks - 1 /\ count \in 0 .. Wrap - 1
      /\ 0 \in 0 .. Ticks - 1 /\ 0 \in 0 .. Wrap - 1 /\ (irqOff <=> micros # "out")
  BY ClockConstants DEF ClockInv, ClockTypeOK, Reading
<1>5. CASE WritePin
  <2>1. micros = "out"
    <3>1. step \in 1 .. 8
      BY <1>5 DEF WritePin, ZeroAll, SetPins
    <3> QED
      BY <3>1 DEF IInv, Asking
  <2>2. Same /\ UNCHANGED <<irqOff, micros, current, count>> /\ stall' = 0
    BY <1>5 DEF WritePin, tickVars, delayVars
  <2> QED
    BY <1>4, <2>1, <2>2, ClockUnchanged
<1>6. CASE MicrosEnter
  <2>1. Same /\ UNCHANGED <<current, count>> /\ stall' = 0 /\ micros' = "entered"
    BY <1>6 DEF MicrosEnter
  <2>2. irqOff' /\ irqOff' \in BOOLEAN
    BY <1>6 DEF MicrosEnter
  <2> QED
    BY <1>4, <2>1, <2>2, ClockUnchanged
<1>7. CASE MicrosLeave
  <2>1. Same /\ current' = 0 /\ count' = 0 /\ stall' = 0 /\ micros' = "out"
    BY <1>7 DEF MicrosLeave
  <2>2. irqOff' \in BOOLEAN /\ ~irqOff'
    BY <1>7, Zenon DEF MicrosLeave
  <2> QED
    BY <1>4, <2>1, <2>2, ClockUnchanged
<1>8. CASE UNCHANGED vars
  <2>1. Same /\ UNCHANGED <<irqOff, micros, current, count, stall>>
    BY <1>8 DEF vars, tickVars, delayVars
  <2> QED
    BY <2>1 DEF ClockInv, ClockTypeOK, Synchronous, Counted, Late, Pended, Reading, Millis, Longest
<1> QED
  BY <1>1, <1>2, <1>3, <1>5, <1>6, <1>7, <1>8 DEF Next, Main

\* A count of ticks, in microseconds as micros() divides: exact, or one less.
LEMMA MicroOfTicks ==
  ASSUME NEW ticks \in Nat
  PROVE  \E late \in 0 .. 1 : Micro(ticks) + late = ticks \div TicksPerUs
<1> DEFINE d == ticks \div TicksPerUs
           r == ticks % TicksPerUs
<1>1. d \in Int /\ r \in 0 .. TicksPerUs - 1 /\ ticks = TicksPerUs * d + r
  BY DivMod, ClockConstants
<1> HIDE DEF d, r
<1>2. /\ TicksPerUs * d \in Int /\ TicksPerUs * (d - 1) \in Int
      /\ TicksPerUs * (d - 1) = TicksPerUs * d - TicksPerUs
  BY <1>1, ClockConstants, Distributes
<1>3. CASE ticks = 0
  <2>1. Micro(ticks) = 0
    BY <1>3 DEF Micro
  <2>2. ticks = TicksPerUs * 0 + 0 /\ 0 \in 0 .. TicksPerUs - 1
    BY <1>3, ClockConstants
  <2>3. d = 0
    BY <2>2, ClockConstants, DivModUnique DEF d
  <2> QED
    BY <2>1, <2>3 DEF d
<1>4. CASE ticks # 0 /\ r > 0
  <2>1. ticks - 1 = TicksPerUs * d + (r - 1) /\ r - 1 \in 0 .. TicksPerUs - 1
    BY <1>1, <1>2, <1>4, ClockConstants
  <2>2. (ticks - 1) \div TicksPerUs = d
    BY <1>1, <2>1, ClockConstants, DivModUnique
  <2>3. Micro(ticks) = d
    BY <1>4, <2>2 DEF Micro
  <2> QED
    BY <1>1, <2>3 DEF d
<1>5. CASE ticks # 0 /\ r = 0
  <2>1. /\ ticks - 1 = TicksPerUs * (d - 1) + (TicksPerUs - 1)
        /\ TicksPerUs - 1 \in 0 .. TicksPerUs - 1 /\ d - 1 \in Int
    BY <1>1, <1>2, <1>5, ClockConstants
  <2>2. (ticks - 1) \div TicksPerUs = d - 1
    BY <1>1, <2>1, ClockConstants, DivModUnique
  <2>3. Micro(ticks) + 1 = d
    BY <1>1, <1>5, <2>2 DEF Micro
  <2> QED
    BY <2>3 DEF d
<1> QED
  BY <1>1, <1>3, <1>4, <1>5

\* A time in its period.
LEMMA TimeInPeriod ==
  ASSUME NEW c \in Int, NEW x \in 0 .. Period - 1, NEW t \in Int, t = Period * c + x
  PROVE  t % Period = x
<1>1. Period \in Nat \ {0}
  BY ClockConstants
<1> QED
  BY <1>1, DivModUnique

\* A time that is millis milliseconds and some ticks, up to the wrap, in microseconds.
LEMMA MicrosOfTime ==
  ASSUME NEW millis \in Int, NEW ticks \in 0 .. Ticks - 1, NEW k \in Int, NEW t \in Int,
         t = millis * Ticks + ticks + Period * k
  PROVE  (t % Period) \div TicksPerUs
           = (millis * UsPerMs + ticks \div TicksPerUs) % Wrap
<1> DEFINE d == ticks \div TicksPerUs
           r == ticks % TicksPerUs
           u == millis * UsPerMs + d
           q == u \div Wrap
           y == u % Wrap
<1>1. d \in Int /\ r \in 0 .. TicksPerUs - 1 /\ ticks = TicksPerUs * d + r
  BY DivMod, ClockConstants
<1> HIDE DEF d, r
<1>2. u \in Int
  BY <1>1, ClockConstants
<1>3. millis * Ticks + TicksPerUs * d = TicksPerUs * u
  <2>1. millis * (UsPerMs * TicksPerUs) = TicksPerUs * (millis * UsPerMs)
    BY ClockConstants
  <2>2. millis * UsPerMs \in Int
    BY ClockConstants
  <2>3. TicksPerUs * (millis * UsPerMs + d) = TicksPerUs * (millis * UsPerMs) + TicksPerUs * d
    BY <1>1, <2>2, ClockConstants, Distributes
  <2> QED
    BY <2>1, <2>3 DEF Ticks
<1> HIDE DEF u
<1>4. q \in Int /\ y \in 0 .. Wrap - 1 /\ u = Wrap * q + y
  BY <1>2, DivMod, ClockConstants
<1> HIDE DEF q, y
<1>5. /\ TicksPerUs * y \in Int /\ TicksPerUs * y >= 0
      /\ TicksPerUs * y + r \in 0 .. Period - 1
  <2>1. TicksPerUs * y \in Int /\ TicksPerUs * y >= 0
    <3>1. y = 0 => TicksPerUs * y = 0
      BY ClockConstants
    <3> QED
      BY <1>4, <3>1, ClockConstants, ProductBound, Distributes
  <2>2. TicksPerUs * (Wrap - y) = TicksPerUs * Wrap - TicksPerUs * y
    BY <1>4, ClockConstants, Distributes
  <2>3. TicksPerUs * (Wrap - y) >= TicksPerUs
    BY <1>4, ClockConstants, ProductBound
  <2>4. Period = TicksPerUs * Wrap
    BY ClockConstants, Distributes DEF Period
  <2> QED
    BY <1>1, <2>1, <2>2, <2>3, <2>4, ClockConstants
<1>6. TicksPerUs * u = Period * q + TicksPerUs * y
  <2>1. TicksPerUs * (Wrap * q) = (Wrap * TicksPerUs) * q
    BY <1>4, ClockConstants
  <2>2. Wrap * q \in Int
    BY <1>4, ClockConstants
  <2>3. TicksPerUs * (Wrap * q + y) = TicksPerUs * (Wrap * q) + TicksPerUs * y
    BY <1>4, <2>2, ClockConstants, Distributes
  <2> QED
    BY <1>4, <2>1, <2>3 DEF Period
<1>7. t = Period * (q + k) + (TicksPerUs * y + r)
  <2>1. /\ Period * (q + k) = Period * q + Period * k
        /\ Period * q \in Int /\ Period * k \in Int
    BY <1>4, ClockConstants, Distributes
  <2>2. millis * Ticks \in Int /\ TicksPerUs * d \in Int /\ TicksPerUs * u \in Int
    BY <1>1, <1>2, ClockConstants
  <2>3. t = TicksPerUs * u + r + Period * k
    BY <1>1, <1>3, <2>1, <2>2
  <2> QED
    BY <1>1, <1>5, <1>6, <2>1, <2>3
<1>8. t % Period = TicksPerUs * y + r
  <2>1. PICK c \in Int : c = q + k
    BY <1>4
  <2>2. PICK x \in 0 .. Period - 1 : x = TicksPerUs * y + r
    BY <1>5
  <2>3. t = Period * c + x
    BY <1>7, <2>1, <2>2
  <2>4. t % Period = x
    BY <2>1, <2>2, <2>3, TimeInPeriod, Zenon
  <2> QED
    BY <2>2, <2>4
<1>9. (TicksPerUs * y + r) \div TicksPerUs = y
  <2>1. TicksPerUs * y + r \in Int
    BY <1>1, <1>5
  <2> QED
    BY <1>1, <1>4, <2>1, ClockConstants, DivModUnique
<1>10. (t % Period) \div TicksPerUs = u % Wrap
  BY <1>8, <1>9 DEF y
<1> QED
  BY <1>10 DEF u, d

\* With the clock in step, what micros() computes is the time it read.
LEMMA ClockInvExact == ClockInv => MicrosExact
<1> SUFFICES ASSUME ClockInv, micros = "read"
             PROVE  \E late \in 0 .. 1 : \E since \in 0 .. MaxStall :
                      /\ since = stall
                      /\ (Micros(count, current) + late) % Wrap =
                           ((now - since) % Period) \div TicksPerUs
  BY DEF MicrosExact, Period
<1> DEFINE m == Millis(count, current)
           e == Ticks - 1 - current
<1>1. /\ current \in 0 .. Ticks - 1 /\ count \in 0 .. Wrap - 1
      /\ now \in 0 .. Period - 1 /\ stall \in 0 .. MaxStall
  BY LongestType DEF ClockInv, ClockTypeOK, Reading
<1>2. m \in Int /\ e \in 0 .. Ticks - 1 /\ e \in Nat
  BY <1>1, ClockConstants DEF Millis
<1>3. PICK k \in Int : now - stall = m * Ticks + e + Period * k
  <2>1. PICK k \in Int : now = Counted + Period * k
    BY DEF ClockInv, Synchronous
  <2>2. Counted - stall = m * Ticks + e
    BY DEF ClockInv, Reading
  <2>3. Counted \in Int /\ Period * k \in Int /\ m * Ticks \in Int
    BY <1>2, CountedType, ClockConstants DEF ClockInv
  <2> HIDE DEF m, e
  <2>4. now - stall = m * Ticks + e + Period * k
    BY <1>1, <1>2, <2>1, <2>2, <2>3
  <2> QED
    BY <2>4
<1> HIDE DEF m, e
<1>4. ((now - stall) % Period) \div TicksPerUs = (m * UsPerMs + e \div TicksPerUs) % Wrap
  <2>1. now - stall \in Int
    BY <1>1, ClockConstants
  <2> QED
    BY <1>2, <1>3, <2>1, MicrosOfTime
<1>5. PICK late \in 0 .. 1 : Micro(e) + late = e \div TicksPerUs
  BY <1>2, MicroOfTicks
<1>6. Micro(e) \in Int
  <2>1. (e - 1) \div TicksPerUs \in Int
    BY <1>2, ClockConstants, DivMod
  <2> QED
    BY <2>1 DEF Micro
<1>7. (Micros(count, current) + late) % Wrap = (m * UsPerMs + e \div TicksPerUs) % Wrap
  <2>1. Micros(count, current) = (m * UsPerMs + Micro(e)) % Wrap
    BY DEF Micros, m, e
  <2>2. m * UsPerMs \in Int /\ m * UsPerMs + Micro(e) \in Int
    BY <1>2, <1>6, ClockConstants
  <2>3. (((m * UsPerMs + Micro(e)) % Wrap) + late) % Wrap
          = (m * UsPerMs + Micro(e) + late) % Wrap
    BY <2>2, ClockConstants, ModAdd
  <2>4. m * UsPerMs + Micro(e) + late = m * UsPerMs + e \div TicksPerUs
    BY <1>5, <1>6, <2>2
  <2> QED
    BY <2>1, <2>3, <2>4
<1> QED
  BY <1>1, <1>4, <1>5, <1>7

\* The numbers of the Teensy are 1000, 48, 50 and 2^32, those of the run a few
\* units each: for all of them micros() returns the microsecond of the clock, or
\* the one before, wherever SysTick wraps, its interrupt waits or the counters
\* turn over.
THEOREM MicrosCorrect == Spec => []MicrosExact
<1>1. Init => IInv /\ ClockInv
  BY IInvInit, ClockInit
<1>2. IInv /\ ClockInv /\ [Next]_vars => (IInv /\ ClockInv)'
  BY IInvNext, ClockNext
<1> QED
  BY <1>1, <1>2, ClockInvExact, PTL DEF Spec

\* What delay() keeps of the time, and the bridge's own.
DelayTypeOK == start \in -1 .. Wrap - 1 /\ ms \in 1 .. Ms /\ onFor \in Nat

LEMMA DelayInit == Init => DelayTypeOK
<1> SUFFICES ASSUME Init PROVE DelayTypeOK
  OBVIOUS
<1>1. start = -1 /\ ms = Ms /\ onFor = 0 /\ Ms \in Nat \ {0}
  BY CoilDriverAssumption DEF Init
<1> QED
  BY <1>1, ClockConstants DEF DelayTypeOK

LEMMA DelayNext ==
  ASSUME IInv, ClockInv, DelayTypeOK, [Next]_vars
  PROVE  DelayTypeOK'
<1>1. Ms \in Nat \ {0}
  BY CoilDriverAssumption
<1>2. CASE WritePin \/ MicrosEnter \/ MicrosRead
  BY <1>2 DEF WritePin, MicrosEnter, MicrosRead, delayVars, DelayTypeOK
<1>3. CASE MicrosLeave
  <2>1. Micros(count, current) \in 0 .. Wrap - 1
    <3>1. Millis(count, current) \in Int /\ Micro(Ticks - 1 - current) \in Int
      <4>1. count \in Int /\ Ticks - 1 - current \in Int
        BY ClockConstants DEF ClockInv, ClockTypeOK
      <4>2. (Ticks - 1 - current - 1) \div TicksPerUs \in Int
        BY <4>1, ClockConstants, DivMod
      <4> QED
        BY <4>1, <4>2 DEF Millis, Micro
    <3>2. Millis(count, current) * UsPerMs + Micro(Ticks - 1 - current) \in Int
      BY <3>1, ClockConstants
    <3> QED
      BY <3>2, ClockConstants, DivMod DEF Micros
  <2>2. (start + UsPerMs) % Wrap \in 0 .. Wrap - 1
    BY ClockConstants, DivMod DEF DelayTypeOK
  <2>3. start' \in {start, -1, Micros(count, current), (start + UsPerMs) % Wrap}
    BY <1>3 DEF MicrosLeave
  <2>4. start' \in -1 .. Wrap - 1
    BY <2>1, <2>2, <2>3, ClockConstants DEF DelayTypeOK
  <2>5. ms' \in {ms, Ms} \/ (ms > 1 /\ ms' = ms - 1)
    BY <1>3 DEF MicrosLeave
  <2>6. ms' \in 1 .. Ms
    BY <1>1, <2>5 DEF DelayTypeOK
  <2> QED
    BY <1>3, <2>4, <2>6 DEF MicrosLeave, DelayTypeOK
<1>4. CASE Clock
  BY <1>4 DEF Clock, delayVars, DelayTypeOK
<1>5. CASE Interrupt
  BY <1>5 DEF Interrupt, delayVars, DelayTypeOK
<1>6. CASE UNCHANGED vars
  BY <1>6 DEF vars, delayVars, DelayTypeOK
<1> QED
  BY <1>2, <1>3, <1>4, <1>5, <1>6 DEF Next, Main

\* Type correctness: among the ranges, that the counter stays in its period,
\* that the processor time between two steps is bounded, and that delay() counts
\* its milliseconds down no further than one.
THEOREM TypeCorrect == Spec => []TypeOK
<1>1. Init => DelayTypeOK
  BY DelayInit
<1>2. Init => IInv /\ ClockInv
  BY IInvInit, ClockInit
<1>3. IInv /\ ClockInv /\ DelayTypeOK /\ [Next]_vars => (IInv /\ ClockInv /\ DelayTypeOK)'
  BY IInvNext, ClockNext, DelayNext
<1>4. IInv /\ ClockInv /\ DelayTypeOK => TypeOK
  BY DEF IInv, LoopTypeOK, ClockInv, ClockTypeOK, DelayTypeOK, TypeOK, Period
<1> QED
  BY <1>1, <1>2, <1>3, <1>4, PTL DEF Spec
-----------------------------------------------------------------------------
(* The length of a half *)

\* What micros() computes, before it wraps, at a time in ticks.
Reads(t) == (t \div Ticks) * UsPerMs + Micro(t % Ticks)

LEMMA ProductOrder ==
  ASSUME NEW n \in Nat \ {0}, NEW y \in Int, NEW z \in Int, n * y < n * z + n
  PROVE  y <= z
<1> SUFFICES ASSUME y - z >= 1 PROVE FALSE
  OBVIOUS
<1>1. y - z \in Int /\ n * y \in Int /\ n * z \in Int
  BY Distributes
<1>2. n * (y - z) >= n
  BY <1>1, ProductBound
<1>3. n * (y - z) = n * y - n * z
  BY Distributes
<1> QED
  BY <1>1, <1>2, <1>3

\* Within a millisecond micros() is late by a microsecond at most, and never
\* reaches the next millisecond.
LEMMA MicroBounds ==
  ASSUME NEW ticks \in 0 .. Ticks - 1
  PROVE  /\ Micro(ticks) \in 0 .. UsPerMs - 1
         /\ TicksPerUs * Micro(ticks) \in ticks - TicksPerUs .. ticks
<1>1. CASE ticks = 0
  <2>1. Micro(ticks) = 0 /\ TicksPerUs * 0 = 0
    BY <1>1, ClockConstants DEF Micro
  <2> QED
    BY <1>1, <2>1, ClockConstants
<1>2. CASE ticks # 0
  <2> DEFINE d == (ticks - 1) \div TicksPerUs
             r == (ticks - 1) % TicksPerUs
  <2>1. ticks - 1 \in Int
    BY ClockConstants
  <2>2. d \in Int /\ r \in 0 .. TicksPerUs - 1 /\ ticks - 1 = TicksPerUs * d + r
    BY <2>1, DivMod, ClockConstants
  <2>3. Micro(ticks) = d
    BY <1>2 DEF Micro
  <2> HIDE DEF d, r
  <2>4. TicksPerUs * d \in Int /\ TicksPerUs * d \in ticks - TicksPerUs .. ticks - 1
    BY <2>2, ClockConstants
  <2>5. 0 <= d
    <3>1. TicksPerUs * 0 = 0 /\ TicksPerUs * 0 < TicksPerUs * d + TicksPerUs
      BY <1>2, <2>4, ClockConstants
    <3> QED
      BY <2>2, <3>1, ClockConstants, ProductOrder
  <2>6. d <= UsPerMs - 1
    <3>1. TicksPerUs * (UsPerMs - 1) = TicksPerUs * UsPerMs - TicksPerUs * 1
      BY ClockConstants, Distributes
    <3>2. TicksPerUs * UsPerMs = Ticks /\ TicksPerUs * 1 = TicksPerUs
      BY ClockConstants, Distributes DEF Ticks
    <3>3. TicksPerUs * d < TicksPerUs * (UsPerMs - 1) + TicksPerUs
      BY <2>4, <3>1, <3>2, ClockConstants
    <3> QED
      BY <2>2, <3>3, ClockConstants, ProductOrder
  <2> QED
    BY <2>2, <2>3, <2>4, <2>5, <2>6, ClockConstants
<1> QED
  BY <1>1, <1>2

LEMMA MicroMonotone ==
  ASSUME NEW x \in 0 .. Ticks - 1, NEW y \in 0 .. Ticks - 1, x <= y
  PROVE  Micro(x) <= Micro(y)
<1>1. CASE x = 0
  BY <1>1, MicroBounds DEF Micro
<1>2. CASE x # 0
  <2> DEFINE c == (x - 1) \div TicksPerUs
             d == (y - 1) \div TicksPerUs
             q == (x - 1) % TicksPerUs
             r == (y - 1) % TicksPerUs
  <2>1. x - 1 \in Int /\ y - 1 \in Int
    BY ClockConstants
  <2>2. c \in Int /\ q \in 0 .. TicksPerUs - 1 /\ x - 1 = TicksPerUs * c + q
    BY <2>1, DivMod, ClockConstants
  <2>3. d \in Int /\ r \in 0 .. TicksPerUs - 1 /\ y - 1 = TicksPerUs * d + r
    BY <2>1, DivMod, ClockConstants
  <2>4. Micro(x) = c /\ Micro(y) = d
    BY <1>2, ClockConstants DEF Micro
  <2> HIDE DEF c, d, q, r
  <2>5. TicksPerUs * c \in Int /\ TicksPerUs * d \in Int
    BY <2>2, <2>3, ClockConstants
  <2>6. TicksPerUs * c < TicksPerUs * d + TicksPerUs
    BY <2>2, <2>3, <2>5, ClockConstants
  <2> QED
    BY <2>2, <2>3, <2>4, <2>6, ClockConstants, ProductOrder
<1> QED
  BY <1>1, <1>2

\* A time in its millisecond.
LEMMA InMillisecond ==
  ASSUME NEW t \in Int
  PROVE  \E c \in Int : \E e \in 0 .. Ticks - 1 :
           t = Ticks * c + e /\ Reads(t) = UsPerMs * c + Micro(e)
<1> DEFINE c == t \div Ticks
           e == t % Ticks
<1>1. c \in Int /\ e \in 0 .. Ticks - 1 /\ t = Ticks * c + e
  BY DivMod, ClockConstants
<1>2. Reads(t) = UsPerMs * c + Micro(e)
  <2>1. c * UsPerMs = UsPerMs * c
    BY <1>1, ClockConstants, Distributes
  <2> QED
    BY <2>1 DEF Reads
<1> QED
  BY <1>1, <1>2, Zenon

\* Count and counter, read together, give the time.
LEMMA ReadsOfCount ==
  ASSUME NEW c \in Int, NEW e \in 0 .. Ticks - 1, NEW t \in Int, t = c * Ticks + e
  PROVE  Reads(t) = c * UsPerMs + Micro(e)
<1>1. t = Ticks * c + e
  BY ClockConstants, Distributes
<1>2. t \div Ticks = c /\ t % Ticks = e
  BY <1>1, ClockConstants, DivModUnique
<1> QED
  BY <1>2 DEF Reads

\* In microseconds what micros() computes is the time or a little less.
LEMMA ReadsBounds ==
  ASSUME NEW t \in Int
  PROVE  Reads(t) \in Int /\ TicksPerUs * Reads(t) \in t - TicksPerUs .. t
<1>1. PICK c \in Int : \E e \in 0 .. Ticks - 1 :
           t = Ticks * c + e /\ Reads(t) = UsPerMs * c + Micro(e)
  BY InMillisecond
<1>2. PICK e \in 0 .. Ticks - 1 : t = Ticks * c + e /\ Reads(t) = UsPerMs * c + Micro(e)
  BY <1>1
<1>3. PICK m \in 0 .. UsPerMs - 1 :
        m = Micro(e) /\ TicksPerUs * m \in e - TicksPerUs .. e
  BY MicroBounds
<1>4. UsPerMs * c \in Int /\ Ticks * c \in Int /\ TicksPerUs * m \in Int
  BY <1>3, ClockConstants, Distributes
<1>5. TicksPerUs * (UsPerMs * c) = Ticks * c
  BY ClockConstants DEF Ticks
<1>6. TicksPerUs * (UsPerMs * c + m) = Ticks * c + TicksPerUs * m
  BY <1>4, <1>5, ClockConstants, Distributes
<1>7. Reads(t) = UsPerMs * c + m /\ Reads(t) \in Int
  BY <1>2, <1>3, <1>4
<1>8. TicksPerUs * Reads(t) = Ticks * c + TicksPerUs * m
  BY <1>6, <1>7
<1> QED
  BY <1>2, <1>3, <1>4, <1>7, <1>8, ClockConstants

\* It never goes back.
LEMMA ReadsMonotone ==
  ASSUME NEW t \in Int, NEW u \in Int, t <= u
  PROVE  Reads(t) <= Reads(u)
<1>1. PICK c \in Int : \E e \in 0 .. Ticks - 1 :
           t = Ticks * c + e /\ Reads(t) = UsPerMs * c + Micro(e)
  BY InMillisecond
<1>2. PICK e \in 0 .. Ticks - 1 : t = Ticks * c + e /\ Reads(t) = UsPerMs * c + Micro(e)
  BY <1>1
<1>3. PICK d \in Int : \E f \in 0 .. Ticks - 1 :
           u = Ticks * d + f /\ Reads(u) = UsPerMs * d + Micro(f)
  BY InMillisecond
<1>4. PICK f \in 0 .. Ticks - 1 : u = Ticks * d + f /\ Reads(u) = UsPerMs * d + Micro(f)
  BY <1>3
<1>5. Micro(e) \in 0 .. UsPerMs - 1 /\ Micro(f) \in 0 .. UsPerMs - 1
  BY MicroBounds
<1>6. UsPerMs * c \in Int /\ UsPerMs * d \in Int /\ Ticks * c \in Int /\ Ticks * d \in Int
  BY ClockConstants, Distributes
<1>7. c <= d
  <2>1. Ticks * c < Ticks * d + Ticks
    BY <1>2, <1>4, <1>6, ClockConstants
  <2> QED
    BY <2>1, ClockConstants, ProductOrder
<1>8. CASE c = d
  <2>1. e <= f
    BY <1>2, <1>4, <1>6, <1>8, ClockConstants
  <2>2. Micro(e) <= Micro(f)
    BY <2>1, MicroMonotone
  <2> QED
    BY <1>2, <1>4, <1>5, <1>6, <1>8, <2>2, ClockConstants
<1>9. CASE d - c >= 1
  <2>1. d - c \in Int /\ UsPerMs * (d - c) = UsPerMs * d - UsPerMs * c
    BY ClockConstants, Distributes
  <2>2. UsPerMs * (d - c) >= UsPerMs
    BY <1>9, <2>1, ClockConstants, ProductBound
  <2> QED
    BY <1>2, <1>4, <1>5, <1>6, <2>1, <2>2, ClockConstants
<1> QED
  BY <1>7, <1>8, <1>9

\* The difference of two readings less than a wrap apart, as delay computes it.
LEMMA Difference ==
  ASSUME NEW v \in Int, NEW m \in Int, v - m \in 0 .. Wrap - 1
  PROVE  ((v % Wrap) - (m % Wrap)) % Wrap = v - m
<1> DEFINE q == m \div Wrap
           r == m % Wrap
<1>1. q \in Int /\ r \in 0 .. Wrap - 1 /\ m = Wrap * q + r
  BY DivMod, ClockConstants
<1> HIDE DEF q, r
<1>2. Wrap * q \in Int /\ 0 - r \in Int /\ v % Wrap \in Int
  BY <1>1, ClockConstants, DivMod
<1>3. ((v % Wrap) + (0 - r)) % Wrap = (v + (0 - r)) % Wrap
  BY <1>2, ClockConstants, ModAdd
<1>4. v + (0 - r) = (v - m) + Wrap * q /\ v - m \in Int
  BY <1>1, <1>2
<1>5. ((v - m) + Wrap * q) % Wrap = (v - m) % Wrap
  BY <1>1, <1>4, ClockConstants, ModShift
<1>6. (v - m) % Wrap = v - m
  <2>1. PICK x \in 0 .. Wrap - 1 : x = v - m
    OBVIOUS
  <2>2. x = Wrap * 0 + x
    BY ClockConstants
  <2>3. x % Wrap = x
    BY <2>2, ClockConstants, DivModUnique
  <2> QED
    BY <2>1, <2>3
<1>7. (v % Wrap) - r = (v % Wrap) + (0 - r)
  BY <1>1, <1>2
<1>8. ((v % Wrap) - r) % Wrap = v - m
  BY <1>3, <1>4, <1>5, <1>6, <1>7
<1> QED
  BY <1>8 DEF r

\* The time in ticks since the start, the count having wrapped k times.
Time(k) == Counted + (Wrap * Ticks) * k

\* The longest time since the value delay() last got from micros() was read, up
\* to the main thread's last step.
Lag == IF micros = "out" THEN MaxStall
       ELSE IF micros = "entered" THEN MaxStall + MaxStep ELSE 2 * MaxStall + MaxStep

\* delay() has begun to measure: the last value it got, read at time last, is
\* less than a millisecond past start; and start is as many milliseconds past
\* the first value as are counted down, which was read soon after the bridge
\* was turned on.
Measuring(k, m, last) ==
  /\ start = m % Wrap
  /\ Reads(last) \in m .. m + UsPerMs - 1
  /\ TicksPerUs * m - (Time(k) - onFor) - (Ms - ms) * Ticks \in -TicksPerUs .. MaxStep + MaxStall
  /\ Time(k) - stall - last \in 0 .. Lag

\* delay() has yet to read its first value.
Beginning ==
  /\ ms = Ms
  /\ step = 9 => onFor - stall \in 0 .. Lag - MaxStall

\* How far delay() has come, and the time the bridge has been on.
HalfInv ==
  /\ step # 9 => start = -1
  /\ start = -1 => Beginning
  /\ start # -1 => \E k \in Int : \E m \in Int : \E last \in Int : Measuring(k, m, last)

LEMMA TimeType ==
  ASSUME ClockTypeOK, NEW k \in Int
  PROVE  Time(k) \in Int /\ Counted \in Int /\ (Wrap * Ticks) * k \in Int
<1>1. Counted \in Int /\ (Wrap * Ticks) * k \in Int
  BY CountedType, ClockConstants
<1> QED
  BY <1>1 DEF Time

LEMMA LagType ==
  Lag \in Nat /\ MaxStall \in Nat /\ MaxStep \in Nat
BY ClockConstants DEF Lag

\* What micros() is about to return is what it computes at the time it read.
LEMMA ReadingIs ==
  ASSUME ClockInv, micros = "read", NEW k \in Int
  PROVE  Micros(count, current) = Reads(Time(k) - stall) % Wrap
<1>1. PICK e \in 0 .. Ticks - 1 : e = Ticks - 1 - current
  BY ClockConstants DEF ClockInv, ClockTypeOK
<1>2. PICK c \in Int : c = Millis(count, current)
  BY ClockConstants DEF ClockInv, ClockTypeOK, Millis
<1>3. Counted - stall = c * Ticks + e
  BY <1>1, <1>2 DEF ClockInv, Reading
<1>4. PICK w \in Int : w = Wrap * k
  BY ClockConstants, Distributes
<1>5. c * Ticks \in Int /\ w * Ticks \in Int /\ (c + w) * Ticks = c * Ticks + w * Ticks
  BY ClockConstants, Distributes
<1>6. (Wrap * Ticks) * k = w * Ticks
  BY <1>4, ClockConstants
<1>7. PICK t \in Int : t = Time(k) - stall
  <2>1. Time(k) \in Int /\ stall \in Int
    BY TimeType, ClockConstants DEF ClockInv, ClockTypeOK
  <2> QED
    BY <2>1
<1>8. t = (c + w) * Ticks + e
  <2>1. Counted \in Int /\ stall \in Int
    BY CountedType DEF ClockInv, ClockTypeOK
  <2>2. Time(k) = Counted + w * Ticks
    BY <1>6 DEF Time
  <2> QED
    BY <1>3, <1>5, <1>7, <2>1, <2>2
<1>9. c + w \in Int /\ Reads(t) = (c + w) * UsPerMs + Micro(e)
  BY <1>8, ReadsOfCount
<1>10. PICK b \in Int : b = c * UsPerMs + Micro(e)
  <2>1. c * UsPerMs \in Int /\ Micro(e) \in Int
    BY MicroBounds, ClockConstants
  <2> QED
    BY <2>1
<1>11. Reads(t) = b + Wrap * (UsPerMs * k)
  <2>1. c * UsPerMs \in Int /\ w * UsPerMs \in Int /\ Micro(e) \in Int
        /\ (c + w) * UsPerMs = c * UsPerMs + w * UsPerMs
    BY MicroBounds, ClockConstants, Distributes
  <2>2. w * UsPerMs = Wrap * (UsPerMs * k)
    BY <1>4, ClockConstants
  <2> QED
    BY <1>9, <1>10, <2>1, <2>2
<1>12. UsPerMs * k \in Int
  BY ClockConstants, Distributes
<1>13. (b + Wrap * (UsPerMs * k)) % Wrap = b % Wrap
  BY <1>12, ClockConstants, ModShift
<1>14. Micros(count, current) = b % Wrap
  BY <1>1, <1>2, <1>10 DEF Micros
<1> QED
  BY <1>7, <1>11, <1>13, <1>14

\* A step of anyone but delay(): the bridge is on as long as time passes.
LEMMA MeasuringKept ==
  ASSUME NEW k \in Int, NEW j \in Int, NEW m \in Int, NEW last \in Int,
         Measuring(k, m, last), UNCHANGED <<start, ms>>,
         Time(j)' - onFor' = Time(k) - onFor, Time(j)' - stall' - last \in 0 .. Lag'
  PROVE  Measuring(j, m, last)'
BY DEF Measuring

LEMMA HalfKept ==
  ASSUME ClockInv, ClockInv', DelayTypeOK, DelayTypeOK', HalfInv,
         UNCHANGED <<start, ms, step>>,
         step = 9 /\ start = -1 => onFor' - stall' \in 0 .. Lag' - MaxStall,
         start # -1 =>
           \A k \in Int : \E j \in Int :
             /\ Time(j)' - onFor' = Time(k) - onFor
             /\ \A last \in Int : Time(k) - stall - last \in 0 .. Lag =>
                                    Time(j)' - stall' - last \in 0 .. Lag'
  PROVE  HalfInv'
<1>1. start # -1 => \E j \in Int : \E m \in Int : \E last \in Int : Measuring(j, m, last)'
  <2> SUFFICES ASSUME start # -1
               PROVE  \E j \in Int : \E m \in Int : \E last \in Int : Measuring(j, m, last)'
    OBVIOUS
  <2>1. PICK k \in Int : \E m \in Int : \E last \in Int : Measuring(k, m, last)
    BY DEF HalfInv
  <2>2. PICK m \in Int : \E last \in Int : Measuring(k, m, last)
    BY <2>1
  <2>3. PICK last \in Int : Measuring(k, m, last)
    BY <2>2
  <2>4. PICK j \in Int :
          /\ Time(j)' - onFor' = Time(k) - onFor
          /\ \A x \in Int : Time(k) - stall - x \in 0 .. Lag =>
                              Time(j)' - stall' - x \in 0 .. Lag'
    OBVIOUS
  <2>5. Time(j)' - stall' - last \in 0 .. Lag'
    BY <2>3, <2>4 DEF Measuring
  <2>6. Measuring(j, m, last)'
    BY <2>3, <2>4, <2>5, MeasuringKept
  <2> QED
    BY <2>6
<1>2. start = -1 => Beginning'
  BY DEF HalfInv, Beginning
<1> QED
  BY <1>1, <1>2 DEF HalfInv

\* Entering micros() and reading the clock take the main thread a step each.
LEMMA HalfWaits ==
  ASSUME ClockInv, ClockInv', DelayTypeOK, DelayTypeOK', HalfInv,
         UNCHANGED <<start, ms, step, onFor, SYST_CVR, PENDSTSET, systick_millis_count>>,
         stall' = 0, Lag' = Lag + Longest
  PROVE  HalfInv'
<1>1. stall \in 0 .. Longest /\ Longest \in Nat /\ onFor \in Nat
  BY LongestType DEF ClockInv, ClockTypeOK, DelayTypeOK
<1>2. \A k \in Int : Time(k)' = Time(k) /\ Time(k) \in Int
  BY TimeType DEF ClockInv, Time, Counted, Late
<1>3. step = 9 /\ start = -1 => onFor' - stall' \in 0 .. Lag' - MaxStall
  BY <1>1, LagType DEF HalfInv, Beginning
<1>4. \A k \in Int :
        /\ Time(k)' - onFor' = Time(k) - onFor
        /\ \A last \in Int : Time(k) - stall - last \in 0 .. Lag =>
                               Time(k)' - stall' - last \in 0 .. Lag'
  BY <1>1, <1>2, LagType
<1> QED
  BY <1>3, <1>4, HalfKept

LEMMA HalfTick ==
  ASSUME ClockInv, ClockInv', DelayTypeOK, DelayTypeOK', HalfInv, Clock
  PROVE  HalfInv'
<1>1. stall \in Nat /\ onFor \in Nat /\ stall' = stall + 1
  BY LongestType DEF Clock, ClockInv, ClockTypeOK, DelayTypeOK
<1>2. UNCHANGED <<start, ms, step>> /\ Lag' = Lag
  BY DEF Clock, loopVars, delayVars, Lag
<1>3. step = 9 => onFor' = onFor + 1
  BY DEF Clock
<1>4. \A k \in Int : Time(k)' = Time(k) + 1 /\ Time(k) \in Int
  BY TimeType, TickCounts DEF ClockInv, Time
<1>5. step = 9 /\ start = -1 => onFor' - stall' \in 0 .. Lag' - MaxStall
  BY <1>1, <1>2, <1>3, LagType DEF HalfInv, Beginning
<1>6. start # -1 =>
        \A k \in Int :
          /\ Time(k)' - onFor' = Time(k) - onFor
          /\ \A last \in Int : Time(k) - stall - last \in 0 .. Lag =>
                                 Time(k)' - stall' - last \in 0 .. Lag'
  <2>1. start # -1 => onFor' = onFor + 1
    BY <1>3 DEF HalfInv
  <2> QED
    BY <1>1, <1>2, <1>4, <2>1, LagType
<1> QED
  BY <1>2, <1>5, <1>6, HalfKept

\* The count wraps at the earliest after Wrap milliseconds: k tells the times
\* apart.
LEMMA HalfInterrupt ==
  ASSUME ClockInv, ClockInv', DelayTypeOK, DelayTypeOK', HalfInv, Interrupt
  PROVE  HalfInv'
<1>1. UNCHANGED <<start, ms, step, stall, onFor>> /\ Lag' = Lag
  BY DEF Interrupt, loopVars, delayVars, Lag
<1>2. PICK b \in Int : b = Wrap * Ticks
  BY ClockConstants
<1>3. \A k \in Int : \E j \in Int : Time(j)' = Time(k)
  <2> SUFFICES ASSUME NEW k \in Int PROVE \E j \in Int : Time(j)' = Time(k)
    OBVIOUS
  <2>1. Counted \in Int /\ b * k \in Int /\ k + 1 \in Int /\ b * (k + 1) = b * k + b
    BY CountedType DEF ClockInv
  <2>2. Time(k) = Counted + b * k /\ Time(k)' = Counted' + b * k
        /\ Time(k + 1)' = Counted' + b * (k + 1)
    BY <1>2 DEF Time
  <2>3. CASE Counted' = Counted
    BY <2>2, <2>3
  <2>4. CASE Counted' = Counted - b
    <3>1. Time(k + 1)' = Time(k)
      BY <1>2, <2>1, <2>2, <2>4
    <3> QED
      BY <2>1, <3>1
  <2> QED
    BY <1>2, <2>3, <2>4, InterruptCounts
<1>4. step = 9 /\ start = -1 => onFor' - stall' \in 0 .. Lag' - MaxStall
  BY <1>1 DEF HalfInv, Beginning
<1>5. \A k \in Int : \E j \in Int :
        /\ Time(j)' - onFor' = Time(k) - onFor
        /\ \A last \in Int : Time(k) - stall - last \in 0 .. Lag =>
                               Time(j)' - stall' - last \in 0 .. Lag'
  BY <1>1, <1>3
<1> QED
  BY <1>1, <1>4, <1>5, HalfKept

\* The pins of a half are being written.
LEMMA HalfWrite ==
  ASSUME IInv, HalfInv, WritePin
  PROVE  HalfInv'
<1>1. step \in 1 .. 8 /\ UNCHANGED <<start, ms, micros>> /\ stall' = 0 /\ onFor' = 0
  BY DEF WritePin, ZeroAll, SetPins, delayVars
<1>2. micros = "out" /\ start = -1 /\ ms = Ms
  BY <1>1 DEF IInv, Asking, HalfInv, Beginning
<1>3. Lag' = MaxStall
  BY <1>1, <1>2 DEF Lag
<1> QED
  BY <1>1, <1>2, <1>3, LagType DEF HalfInv, Beginning

\* The next value is not before the last one, and less than a millisecond past
\* where that one may be: the comparison of delay() means what it says.
LEMMA NextReading ==
  ASSUME ClockInv, DelayTypeOK, micros = "read",
         NEW k \in Int, NEW m \in Int, NEW last \in Int, Measuring(k, m, last),
         NEW t \in Int, t = Time(k) - stall
  PROVE  /\ Reads(t) - m \in 0 .. 2 * UsPerMs - 1
         /\ Elapsed(Micros(count, current)) <=> Reads(t) - m >= UsPerMs
         /\ last + 2 * MaxStall + MaxStep >= t
<1>1. PICK v \in Int : v = Reads(t) /\ TicksPerUs * v \in t - TicksPerUs .. t
  BY ReadsBounds
<1>2. PICK u \in Int : u = Reads(last) /\ TicksPerUs * u \in last - TicksPerUs .. last
  BY ReadsBounds
<1>3. /\ t - last \in 0 .. 2 * MaxStall + MaxStep /\ MaxStall \in Nat /\ MaxStep \in Nat
      /\ 2 * MaxStall + MaxStep < Ticks
  BY ClockConstants, DelayAssumption DEF Measuring, Lag
<1>4. u \in m .. m + UsPerMs - 1
  BY <1>2 DEF Measuring
<1>5. u <= v
  BY <1>1, <1>2, <1>3, ReadsMonotone
<1>6. v < u + UsPerMs + 1
  <2>1. TicksPerUs * v < TicksPerUs * u + TicksPerUs + Ticks
    <3>1. TicksPerUs * v \in Int /\ TicksPerUs * u \in Int
      BY ClockConstants, Distributes
    <3> QED
      BY <1>1, <1>2, <1>3, <3>1, ClockConstants
  <2>2. TicksPerUs * (u + UsPerMs) = TicksPerUs * u + Ticks
    <3>1. TicksPerUs * (u + UsPerMs) = TicksPerUs * u + TicksPerUs * UsPerMs
      BY ClockConstants, Distributes
    <3>2. TicksPerUs * UsPerMs = Ticks
      BY ClockConstants, Distributes DEF Ticks
    <3> QED
      BY <3>1, <3>2
  <2>3. TicksPerUs * v < TicksPerUs * (u + UsPerMs) + TicksPerUs
    <3>1. TicksPerUs * v \in Int /\ TicksPerUs * u \in Int
      BY ClockConstants, Distributes
    <3> QED
      BY <2>1, <2>2, <3>1, ClockConstants
  <2>4. v <= u + UsPerMs
    BY <2>3, ClockConstants, ProductOrder
  <2> QED
    BY <2>4, ClockConstants
<1>7. v - m \in 0 .. 2 * UsPerMs - 1
  BY <1>4, <1>5, <1>6, ClockConstants
<1>8. v - m \in 0 .. Wrap - 1
  BY <1>7, ClockConstants, DelayAssumption
<1>9. (Micros(count, current) - start) % Wrap = v - m
  <2>1. Micros(count, current) = v % Wrap
    BY <1>1, ReadingIs
  <2>2. start = m % Wrap
    BY DEF Measuring
  <2> QED
    BY <1>8, <2>1, <2>2, Difference
<1> QED
  BY <1>1, <1>3, <1>7, <1>9 DEF Elapsed

\* micros() returns: the bridge stays as it is, and the clock too.
LEMMA LeaveSteps ==
  ASSUME IInv, ClockInv, DelayTypeOK, HalfInv, MicrosLeave
  PROVE  /\ micros = "read" /\ step = 9
         /\ micros' = "out" /\ stall' = 0 /\ onFor' = onFor /\ Lag' = MaxStall
         /\ \A k \in Int : Time(k)' = Time(k) /\ Time(k) \in Int
         /\ stall \in 0 .. MaxStall /\ onFor \in Nat
<1>1. micros = "read" /\ step = 9 /\ micros' = "out" /\ stall' = 0 /\ onFor' = onFor
  BY DEF MicrosLeave, IInv, Asking
<1>2. Counted' = Counted
  BY DEF MicrosLeave, Counted, Late
<1>3. \A k \in Int : Time(k)' = Time(k) /\ Time(k) \in Int
  BY <1>2, TimeType DEF ClockInv, Time
<1>4. stall \in 0 .. MaxStall /\ onFor \in Nat
  BY <1>1, LongestType DEF ClockInv, ClockTypeOK, Reading, DelayTypeOK
<1> QED
  BY <1>1, <1>3, <1>4 DEF Lag

\* The first value.
LEMMA LeaveBegins ==
  ASSUME IInv, ClockInv, DelayTypeOK, HalfInv, MicrosLeave,
         start = -1, start' = Micros(count, current), UNCHANGED <<ms, step>>
  PROVE  HalfInv'
<1>1. PICK t \in Int : t = Time(0) - stall
  <2>1. Time(0) \in Int /\ stall \in Int
    BY LeaveSteps
  <2> QED
    BY <2>1
<1>2. PICK v \in Int : v = Reads(t) /\ TicksPerUs * v \in t - TicksPerUs .. t
  BY ReadsBounds
<1>3. start' = v % Wrap
  BY <1>1, <1>2, LeaveSteps, ReadingIs
<1>4. start' # -1
  BY <1>3, ClockConstants, DivMod
<1>5. onFor - stall \in 0 .. MaxStep + MaxStall /\ ms = Ms /\ ms' = Ms
  <2>1. onFor - stall \in 0 .. Lag - MaxStall /\ ms = Ms
    BY LeaveSteps DEF HalfInv, Beginning
  <2>2. Lag = 2 * MaxStall + MaxStep
    BY LeaveSteps DEF Lag
  <2> QED
    BY <2>1, <2>2, LagType
<1>6. (Ms - ms') * Ticks = 0
  <2>1. Ms - ms' = 0
    BY <1>5, CoilDriverAssumption
  <2> QED
    BY <2>1, ClockConstants
<1>7. TicksPerUs * v - (Time(0)' - onFor') - (Ms - ms') * Ticks
        \in -TicksPerUs .. MaxStep + MaxStall
  <2>1. TicksPerUs * v \in Int
    BY <1>2, ClockConstants
  <2>2. Time(0)' = t + stall
    BY <1>1, LeaveSteps
  <2> QED
    BY <1>2, <1>5, <1>6, <2>1, <2>2, LeaveSteps, ClockConstants
<1>8. Time(0)' - stall' - t \in 0 .. Lag'
  BY <1>1, LeaveSteps
<1>9. Reads(t) \in v .. v + UsPerMs - 1
  BY <1>2, ClockConstants
<1>10. Measuring(0, v, t)'
  BY <1>3, <1>7, <1>8, <1>9 DEF Measuring
<1> QED
  BY <1>4, <1>10, LeaveSteps DEF HalfInv

\* A value that is less than a millisecond past start.
LEMMA LeaveWaits ==
  ASSUME IInv, ClockInv, DelayTypeOK, HalfInv, MicrosLeave,
         start # -1, ~Elapsed(Micros(count, current)), UNCHANGED <<start, ms, step>>
  PROVE  HalfInv'
<1>1. PICK k \in Int : \E m \in Int : \E last \in Int : Measuring(k, m, last)
  BY DEF HalfInv
<1>2. PICK m \in Int : \E last \in Int : Measuring(k, m, last)
  BY <1>1
<1>3. PICK last \in Int : Measuring(k, m, last)
  BY <1>2
<1>4. PICK t \in Int : t = Time(k) - stall
  <2>1. Time(k) \in Int /\ stall \in Int
    BY LeaveSteps
  <2> QED
    BY <2>1
<1>5. Reads(t) - m \in 0 .. UsPerMs - 1
  <2>1. Reads(t) - m \in 0 .. 2 * UsPerMs - 1 /\ ~(Reads(t) - m >= UsPerMs)
    BY <1>3, <1>4, LeaveSteps, NextReading
  <2> QED
    BY <2>1, ClockConstants
<1>6. Reads(t) \in m .. m + UsPerMs - 1
  <2>1. Reads(t) \in Int
    BY ReadsBounds
  <2> QED
    BY <1>5, <2>1, ClockConstants
<1>7. Time(k)' - stall' - t \in 0 .. Lag'
  BY <1>4, LeaveSteps
<1>8. Time(k)' - onFor' = Time(k) - onFor
  BY LeaveSteps
<1>9. Measuring(k, m, t)'
  BY <1>3, <1>6, <1>7, <1>8 DEF Measuring
<1> QED
  BY <1>9, LeaveSteps DEF HalfInv

\* A value that is a millisecond past start: the next one begins there.
LEMMA LeaveCounts ==
  ASSUME IInv, ClockInv, DelayTypeOK, HalfInv, MicrosLeave,
         start # -1, Elapsed(Micros(count, current)),
         ms > 1, ms' = ms - 1, start' = (start + UsPerMs) % Wrap, step' = step
  PROVE  HalfInv'
<1>1. PICK k \in Int : \E m \in Int : \E last \in Int : Measuring(k, m, last)
  BY DEF HalfInv
<1>2. PICK m \in Int : \E last \in Int : Measuring(k, m, last)
  BY <1>1
<1>3. PICK last \in Int : Measuring(k, m, last)
  BY <1>2
<1>4. PICK t \in Int : t = Time(k) - stall
  <2>1. Time(k) \in Int /\ stall \in Int
    BY LeaveSteps
  <2> QED
    BY <2>1
<1>5. PICK n \in Int : n = m + UsPerMs
  BY ClockConstants
<1>6. Reads(t) \in n .. n + UsPerMs - 1
  <2>1. Reads(t) - m \in 0 .. 2 * UsPerMs - 1 /\ Reads(t) - m >= UsPerMs
    BY <1>3, <1>4, LeaveSteps, NextReading
  <2>2. Reads(t) \in Int
    BY ReadsBounds
  <2> QED
    BY <1>5, <2>1, <2>2, ClockConstants
<1>7. start' = n % Wrap
  <2>1. start = m % Wrap
    BY <1>3 DEF Measuring
  <2>2. ((m % Wrap) + UsPerMs) % Wrap = (m + UsPerMs) % Wrap
    <3>1. Wrap \in Nat \ {0} /\ UsPerMs \in Int
      BY ClockConstants
    <3> QED
      BY <3>1, ModAdd, Zenon
  <2> QED
    BY <1>5, <2>1, <2>2
<1>8. TicksPerUs * n = TicksPerUs * m + Ticks
  <2>1. TicksPerUs * (m + UsPerMs) = TicksPerUs * m + TicksPerUs * UsPerMs
    BY ClockConstants, Distributes
  <2>2. TicksPerUs * UsPerMs = Ticks
    BY ClockConstants, Distributes DEF Ticks
  <2> QED
    BY <1>5, <2>1, <2>2
<1>9. (Ms - ms') * Ticks = (Ms - ms) * Ticks + Ticks
  <2>1. PICK d \in Int : d = Ms - ms /\ Ms - ms' = d + 1
    BY CoilDriverAssumption DEF DelayTypeOK
  <2>2. (d + 1) * Ticks = d * Ticks + Ticks
    BY ClockConstants
  <2> QED
    BY <2>1, <2>2
<1>10. TicksPerUs * n - (Time(k)' - onFor') - (Ms - ms') * Ticks
         \in -TicksPerUs .. MaxStep + MaxStall
  <2>1. PICK x \in Int : x = TicksPerUs * m
    BY ClockConstants
  <2>2. PICK y \in Int : y = (Ms - ms) * Ticks
    BY ClockConstants, CoilDriverAssumption DEF DelayTypeOK
  <2>3. PICK z \in Int : z = Time(k) - onFor
    BY LeaveSteps
  <2>4. x - z - y \in -TicksPerUs .. MaxStep + MaxStall
    BY <1>3, <2>1, <2>2, <2>3 DEF Measuring
  <2>5. (x + Ticks) - z - (y + Ticks) = x - z - y
    BY ClockConstants
  <2>6. Time(k)' - onFor' = z
    BY <2>3, LeaveSteps
  <2> QED
    BY <1>8, <1>9, <2>1, <2>2, <2>4, <2>5, <2>6
<1>11. Time(k)' - stall' - t \in 0 .. Lag'
  BY <1>4, LeaveSteps
<1>12. Measuring(k, n, t)'
  BY <1>6, <1>7, <1>10, <1>11 DEF Measuring
<1>13. start' # -1
  BY <1>7, ClockConstants, DivMod
<1> QED
  BY <1>12, <1>13, LeaveSteps DEF HalfInv

\* The millisecond that is the last one.
LEMMA LeaveEnds ==
  ASSUME IInv, ClockInv, DelayTypeOK, HalfInv, MicrosLeave,
         start # -1, Elapsed(Micros(count, current)), ms = 1
  PROVE  onFor \in (Ms * UsPerMs - 1) * TicksPerUs .. Ms * Ticks + 2 * MaxStep + 4 * MaxStall
<1>1. PICK k \in Int : \E m \in Int : \E last \in Int : Measuring(k, m, last)
  BY DEF HalfInv
<1>2. PICK m \in Int : \E last \in Int : Measuring(k, m, last)
  BY <1>1
<1>3. PICK last \in Int : Measuring(k, m, last)
  BY <1>2
<1>4. PICK t \in Int : t = Time(k) - stall
  <2>1. Time(k) \in Int /\ stall \in Int
    BY LeaveSteps
  <2> QED
    BY <2>1
<1>5. PICK v \in Int : v = Reads(t) /\ TicksPerUs * v \in t - TicksPerUs .. t
  BY ReadsBounds
<1>6. PICK u \in Int : u = Reads(last) /\ TicksPerUs * u \in last - TicksPerUs .. last
  BY ReadsBounds
<1>7. v - m >= UsPerMs /\ last + 2 * MaxStall + MaxStep >= t
  BY <1>3, <1>4, <1>5, LeaveSteps, NextReading
<1>8. u \in m .. m + UsPerMs - 1
  BY <1>3, <1>6 DEF Measuring
<1>9. PICK x \in Int : x = TicksPerUs * m
  BY ClockConstants
<1>10. TicksPerUs * (m + UsPerMs) = x + Ticks
  <2>1. TicksPerUs * (m + UsPerMs) = TicksPerUs * m + TicksPerUs * UsPerMs
    BY ClockConstants, Distributes
  <2>2. TicksPerUs * UsPerMs = Ticks
    BY ClockConstants, Distributes DEF Ticks
  <2> QED
    BY <1>9, <2>1, <2>2
<1>11. TicksPerUs * v >= x + Ticks
  <2>1. v - (m + UsPerMs) \in Nat /\ m + UsPerMs \in Int
    BY <1>7, ClockConstants
  <2>2. TicksPerUs * (v - (m + UsPerMs)) = TicksPerUs * v - TicksPerUs * (m + UsPerMs)
    BY <2>1, ClockConstants, Distributes
  <2>3. TicksPerUs * (v - (m + UsPerMs)) \in Nat
    BY <2>1, ClockConstants
  <2>4. TicksPerUs * v \in Int /\ x + Ticks \in Int
    BY ClockConstants
  <2> QED
    BY <1>10, <2>2, <2>3, <2>4
<1>12. TicksPerUs * u + TicksPerUs <= x + Ticks
  <2>1. m + UsPerMs - (u + 1) \in Nat /\ m + UsPerMs \in Int /\ u + 1 \in Int
    BY <1>8, ClockConstants
  <2>2. TicksPerUs * (m + UsPerMs - (u + 1)) =
          TicksPerUs * (m + UsPerMs) - TicksPerUs * (u + 1)
    BY <2>1, ClockConstants, Distributes
  <2>3. TicksPerUs * (m + UsPerMs - (u + 1)) \in Nat
    BY <2>1, ClockConstants
  <2>4. TicksPerUs * (u + 1) = TicksPerUs * u + TicksPerUs /\ TicksPerUs * u \in Int
    BY ClockConstants
  <2>5. x + Ticks \in Int
    BY ClockConstants
  <2> QED
    BY <1>10, <2>2, <2>3, <2>4, <2>5, ClockConstants
<1>13. PICK y \in Int : y = (Ms - ms) * Ticks /\ Ms * Ticks = y + Ticks
  <2>1. PICK d \in Int : d = Ms - ms /\ Ms = d + 1
    BY CoilDriverAssumption
  <2>2. d * Ticks \in Int /\ (d + 1) * Ticks = d * Ticks + Ticks
    BY ClockConstants
  <2> QED
    BY <2>1, <2>2
<1>14. PICK z \in Int : z = Time(k) - onFor
  BY LeaveSteps
<1>15. x - z - y \in -TicksPerUs .. MaxStep + MaxStall
  BY <1>3, <1>9, <1>13, <1>14 DEF Measuring
<1>16. onFor = t + stall - z
  BY <1>4, <1>14, LeaveSteps
<1>17. (Ms * UsPerMs - 1) * TicksPerUs = y + Ticks - TicksPerUs
  <2>1. PICK b \in Int : b = Ms * UsPerMs
    BY ClockConstants, CoilDriverAssumption
  <2>2. b * TicksPerUs = Ms * Ticks
    BY <2>1, ClockConstants, CoilDriverAssumption DEF Ticks
  <2>3. (b - 1) * TicksPerUs = b * TicksPerUs - TicksPerUs
    BY <2>1, ClockConstants
  <2>4. b * TicksPerUs = y + Ticks
    BY <1>13, <2>2, Zenon
  <2>5. (y + Ticks) - TicksPerUs = y + Ticks - TicksPerUs
    BY ClockConstants
  <2>6. (b - 1) * TicksPerUs = y + Ticks - TicksPerUs
    BY <2>3, <2>4, <2>5, Zenon
  <2> QED
    BY <2>1, <2>6, Zenon
<1>18. onFor >= y + Ticks - TicksPerUs
  BY <1>5, <1>11, <1>15, <1>16, LeaveSteps, ClockConstants
<1>19. onFor <= y + Ticks + 2 * MaxStep + 4 * MaxStall
  <2>1. t <= x + Ticks + 2 * MaxStall + MaxStep
    BY <1>6, <1>7, <1>12, ClockConstants
  <2> QED
    BY <1>15, <1>16, <2>1, LeaveSteps, ClockConstants
<1> QED
  BY <1>13, <1>17, <1>18, <1>19, LeaveSteps, ClockConstants

LEMMA HalfLeave ==
  ASSUME IInv, ClockInv, DelayTypeOK, HalfInv, MicrosLeave
  PROVE  /\ HalfInv'
         /\ half' # half =>
              onFor \in (Ms * UsPerMs - 1) * TicksPerUs .. Ms * Ticks + 2 * MaxStep + 4 * MaxStall
<1> DEFINE value == Micros(count, current)
<1>1. CASE start = -1 /\ start' = value /\ UNCHANGED <<ms, step, half>>
  BY <1>1, LeaveBegins
<1>2. CASE start # -1 /\ Elapsed(value) /\ ms > 1 /\ ms' = ms - 1
           /\ start' = (start + UsPerMs) % Wrap /\ UNCHANGED <<step, half>>
  BY <1>2, LeaveCounts
<1>3. CASE start # -1 /\ Elapsed(value) /\ ms = 1 /\ ms' = Ms /\ start' = -1 /\ step' = 1
  <2>1. HalfInv'
    BY <1>3 DEF HalfInv, Beginning
  <2> QED
    BY <1>3, <2>1, LeaveEnds
<1>4. CASE start # -1 /\ ~Elapsed(value) /\ UNCHANGED <<start, ms, step, half>>
  BY <1>4, LeaveWaits
<1> QED
  BY <1>1, <1>2, <1>3, <1>4 DEF MicrosLeave

\* Every step keeps it, and ends a half in time only.
LEMMA HalfNext ==
  ASSUME IInv, ClockInv, ClockInv', DelayTypeOK, DelayTypeOK', HalfInv, [Next]_vars
  PROVE  /\ HalfInv'
         /\ half' # half =>
              onFor \in (Ms * UsPerMs - 1) * TicksPerUs .. Ms * Ticks + 2 * MaxStep + 4 * MaxStall
<1>1. CASE WritePin
  BY <1>1, HalfWrite DEF WritePin
<1>2. CASE MicrosEnter
  <2>1. Lag' = Lag + Longest
    BY <1>2, ClockConstants, LongestType DEF MicrosEnter, Lag, ClockInv, Reading
  <2>2. UNCHANGED <<start, ms, step, onFor, SYST_CVR, PENDSTSET, systick_millis_count>>
        /\ stall' = 0 /\ half' = half
    BY <1>2 DEF MicrosEnter, loopVars
  <2> QED
    BY <2>1, <2>2, HalfWaits
<1>3. CASE MicrosRead
  <2>1. Lag' = Lag + Longest
    BY <1>3, ClockConstants, LongestType DEF MicrosRead, Lag, ClockInv, Reading
  <2>2. UNCHANGED <<start, ms, step, onFor, SYST_CVR, PENDSTSET, systick_millis_count>>
        /\ stall' = 0 /\ half' = half
    BY <1>3 DEF MicrosRead, loopVars, tickVars
  <2> QED
    BY <2>1, <2>2, HalfWaits
<1>4. CASE MicrosLeave
  BY <1>4, HalfLeave
<1>5. CASE Clock
  BY <1>5, HalfTick DEF Clock, loopVars
<1>6. CASE Interrupt
  BY <1>6, HalfInterrupt DEF Interrupt, loopVars
<1>7. CASE UNCHANGED vars
  <2>1. UNCHANGED <<start, ms, step, onFor, stall, micros, half>>
    BY <1>7 DEF vars, loopVars, delayVars
  <2>2. \A k \in Int : Time(k)' = Time(k)
    BY <1>7 DEF vars, tickVars, Time, Counted, Late
  <2>3. Lag' = Lag
    BY <2>1 DEF Lag
  <2>4. step = 9 /\ start = -1 => onFor' - stall' \in 0 .. Lag' - MaxStall
    BY <2>1, <2>3 DEF HalfInv, Beginning
  <2>5. \A k \in Int :
          /\ Time(k)' - onFor' = Time(k) - onFor
          /\ \A last \in Int : Time(k) - stall - last \in 0 .. Lag =>
                                 Time(k)' - stall' - last \in 0 .. Lag'
    BY <2>1, <2>2, <2>3
  <2> QED
    BY <2>1, <2>4, <2>5, HalfKept
<1> QED
  BY <1>1, <1>2, <1>3, <1>4, <1>5, <1>6, <1>7 DEF Next, Main

\* For every clock and delay, a half lasts as long as delay() was asked to take,
\* less a microsecond at most and longer by two steps of the main thread with
\* interrupts on, in which yield() and the other interrupts run, and four with
\* interrupts off at most, however often the count and micros() wrap in between
\* and wherever the tick interrupt falls.
THEOREM HalfCorrect == Spec => HalfLength
<1>1. Init => IInv /\ ClockInv /\ DelayTypeOK /\ HalfInv
  <2>1. Init => HalfInv
    BY DEF Init, HalfInv, Beginning
  <2> QED
    BY <2>1, IInvInit, ClockInit, DelayInit
<1> DEFINE Inv == IInv /\ ClockInv /\ DelayTypeOK /\ HalfInv
           Length == half' # half =>
                       onFor \in (Ms * UsPerMs - 1) * TicksPerUs .. Ms * Ticks + 2 * MaxStep + 4 * MaxStall
<1>2. Inv /\ [Next]_vars => Inv'
  BY IInvNext, ClockNext, DelayNext, HalfNext
<1>3. Inv /\ [Next]_vars => [Length]_vars
  BY ClockNext, DelayNext, HalfNext
<1> HIDE DEF Inv
<1>4. Init => Inv
  BY <1>1 DEF Inv
<1> QED
  BY <1>2, <1>3, <1>4, PTL DEF Spec, HalfLength, Length
=============================================================================
