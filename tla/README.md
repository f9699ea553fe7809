# Formal model of the ion printer's controllers

This directory holds TLA+ models of the programs that run the ion printer
(`src/`): what its firmware and host scripts do step by step, what they
guarantee, where they do not, and machine-checked proofs of the most important
guarantees. It is meant to be read beside the code. Paths below are relative to
the repository; `T` stands for
`firmware/coil_driver/teensy-template-master/teensy3`, the Teensy core library
the coil driver is linked with (Teensy LC, 48 MHz, `USB_SERIAL`).

## 1. Inventory

| Component | Source | State it keeps | Operations | What makes it correct |
|---|---|---|---|---|
| USB packet memory and endpoints | `T/usb_mem.c`, `T/usb_dev.c` | pool bitmap, starvation count, two banks per endpoint, receive and transmit queues, `tx_state` | `usb_malloc`, `usb_free`, `usb_rx_memory`, `usb_tx`, `usb_rx`, the interrupt's token, reset, configuration and start-of-frame branches | a packet has one owner; nothing is reordered, repeated or lost; starvation ends |
| USB serial port | `T/usb_serial.c` | packet being read, packet being filled, flush timer, `tx_noautoflush` | getchar, peekchar, read, flush_input, write, write_buffer_free, flush_output, the flush callback | the interrupt never takes the packet being filled; written bytes leave |
| Millisecond clock | `T/pins_teensy.c`, `T/mk20dx128.c` | SysTick counter, pending bit, `systick_millis_count` | the tick interrupt, `micros()`, `delay()` | the time read is right wherever the interrupt falls |
| Coil driver | `firmware/coil_driver/.../src/main.cpp` | four pins | one endless loop | never both diagonals of the bridge; both halves, equally long |
| High-voltage supply | `firmware/firmware/firmware.ino` | two duty cycles, set voltage, receive buffer | commands E, H, M; `calc_voltages` | duties within limits; a stop holds; the medium supply is regulated |
| Gauge decoder | `software/gauge.py`, `software/gauge_sound.py` | bytes read so far | read the magic pair, read the rest, report, discard input | finds and keeps step; reports only what was sent |
| Furnace controller | `software/furnace/.../serialthermocouple.ino` | target, integral, last error, duty | one loop: program, PID | program in order; an overshoot cuts the heater |
| EEPROM log | `T/eeprom.c` (KINETISL) | a log of half-words in flash, `flashend` | read, write, the rewrite of a full log, the search after a restart | what was written is read, before a restart and after it |
| UART port | `T/serial1.c` (KINETISL) | two rings, `transmitting`, the driver-enable pin | begin, end, putchar, flush, getchar, clear, the interrupt | every byte passes once, in order; calls return; the driver is on while bytes leave |
| Hot cathode sketch | `firmware/hot_cathode/hot_cathode.ino` | none | prints a word | not modelled |
| Timers, DMA, audio graph, ADC | `T/IntervalTimer.cpp`, `T/DMAChannel.cpp`, `T/AudioStream.cpp`, `T/analog.c` | allocation masks, reference counts | | not modelled, section 7 |
| Slicer and drawing tools | `software/*.py` | a mesh, a drawing | one pass from file to file | not modelled, section 7 |
| Simulations | `simulation/` | | | not modelled, section 7 |

Interactions. The coil driver's program calls `delay()`, which calls `micros()`,
which races the tick interrupt. The USB port's main thread and the USB
interrupt share the pool, the queues, `tx_packet` and the flush timer; the USB
hardware shares the banks with the interrupt, and the host polls them. The
supply controller and the gauge scripts each see a byte stream whose other end
does not wait for them. The UART's rings are shared by the program and the
interrupt; the EEPROM log is shared by the program and itself after a restart.
Nothing else shares state: the controllers are separate boards, so there is no
module that composes them.

What is hard: the main thread interrupted between a test and the use of what it
tested (`usb_free`, `usb_serial_write`, `micros`); counters and pointers kept in
step by two parties (`tx_state`, the starvation count, the hardware's next banks
and the host's data toggles); a configuration or a bus reset in the middle of all that; bytes lost
or cut on a line; a restart between two flash commands; framing found from an arbitrary place; arithmetic that
overflows after hours. PROJECT.json lists each hazard at its line.

## 2. Modules

| Module | Models | Notes |
|---|---|---|
| `UsbDev` | pool, banks, queues, interrupt, hardware | operators and actions `UsbSerial` builds on |
| `UsbSerial` | the whole USB port | extends `UsbDev`; the main thread as a program counter |
| `UsbPipes` | abstract: two pipes of packets between program and host | implemented by `UsbSerial` |
| `MCUsbSerial` | refinement mapping and the literal loops of SET_CONFIGURATION | for TLC and the proof |
| `UsbSerialProofs` | inductive invariant; owners, counters, what a configuration loses | TLAPS |
| `UsbPipesProofs` | the refinement of the pipes; the phase of the banks; the loops of a configuration | TLAPS; extends `MCUsbSerial` and `UsbSerialProofs` |
| `SysTick` | SysTick, its interrupt, `micros()` | |
| `CoilDriver`, `MCCoilDriver`, `CoilDriverProofs` | the bridge loop with `delay()` | extends `SysTick` |
| `HvSupply`, `MCHvSupply`, `HvSupplyProofs` | the supply controller | |
| `GaugeDecoder`, `MCGaugeDecoder`, `GaugeDecoderProofs` | the gauge stream and the scripts | three sets of readings: plain, imitating, deceiving |
| `Furnace`, `MCFurnace`, `FurnaceProofs` | the furnace controller | |
| `Eeprom` | the log in flash, with restarts | |
| `EepromMap` | abstract: a map, and how far a restart can be trusted | implemented by `Eeprom` |
| `MCEeprom`, `EepromProofs` | refinement mapping; its proof | |
| `Serial1` | the UART port, its interrupt and the UART | |
| `SerialPipes` | abstract: two pipes of bytes | implemented by `Serial1` |
| `MCSerial1`, `Serial1Proofs` | refinement mapping; types, the fall of the pin and the refinement | |

Definitions whose names begin with `Mut` are slips: a plausible mistake in the
definition that follows, used to show that a property would notice it.

### The USB port

Three parties. The **interrupt** (`usb_isr`, and `usb_setup` for configuration
requests) runs to completion, so each of its branches is one action: `TxDone`
and `RxDone` handle the token at the head of the hardware's FIFO `stat`,
`SetConfiguration`, `BusReset` and `StartOfFrame` the rest. The **hardware and
host** (`HostIn`, `HostOut`) move packets between any two steps. The device's
side takes the banks in turn (`hwRx`, `hwTx`), and the code arms EVEN for DATA0
and ODD for DATA1 (`usb_dev.c:79-81`); the host keeps a toggle of its own
(`hostRx`, `hostTx`, written as the bank armed for it), which a configuration and
a reset set to DATA0 (`usb_dev.c:496-503`). A packet whose toggle is not the one
expected is acknowledged and dropped. The **main thread** runs one call at a time; `pc` says where
it is. A step of the main thread is what lies between two points where an
interrupt can matter: a critical section, or one read or write of a variable
shared with the interrupt. `usb_free` alone is four steps (test, scan with
interrupts off, the branch that "should never" be reached, the mask write), so
the race between its test and its use is in the model.

A program is a set of calls (`Programs`); it makes the calls of its set, in any
order and with any arguments. A run names the programs it is about, so that each
question is put to the calls that bear on it.

Packets are numbers and their contents are left out: a packet is told from
another by its identity, a received one has a length. The refinement mapping of
`MCUsbSerial` maps the banks not yet polled, in the order the hardware polls
them, and the transmit queue to one pipe, the receive queue and the tokens not
yet handled to the other. The pipes are FIFO as long as the host stays connected,
with two exceptions, which `UsbPipes` names. When the hardware polls another bank
than the one `tx_state` fills next, a packet may go before the one that waits
alone (`Overtake`). When the next bank has the other data toggle than the host,
the first packet of that direction is dropped, once (`Discarded`, `Missed`);
`toHostInStep` and `fromHostInStep` say whether they agree. It takes two
configurations to get to either, so `FifoPipes` is checked by `usb_reconfigure`.

SET_CONFIGURATION frees packets one by one in a loop; `Captured` and
`PoolAfterFrees` say in closed form what is left, and `ClosedFormMatchesLoops`
compares them in every reachable state with the loop taken literally; that they
agree is proved too.

Assumptions about the hardware, from how the code uses it: a bank whose
descriptor the software has not armed is never used; at most one completed
transfer per bank is outstanding; a SETUP token suspends transfers until the
interrupt has handled it, so a request meets no older token (`TokensHandled`).

### The clock and the coil driver

A tick of the processor is an action (`Clock`), and the main thread may take
any number of ticks between two of its steps, up to `Longest`: `MaxStall` with
interrupts off, which is within `micros()` and a few loads long, and `MaxStep`
with interrupts on, where `yield()` and every other interrupt may run. `micros()` is
three steps: interrupts off, read the counter and the count, read the pending
bit; `delay` compares and goes round. The tick interrupt runs whenever it is
pending and interrupts are on. It has priority over every other interrupt of
the build and may be late by `MaxLatency` at most; `InTime` states that bound.
The scaled numbers keep the shape of the real ones (48 000 ticks a millisecond,
`current > 50`, 87381/2^22): `Micro` is the real multiplication worked out for
0 <= ticks < 48000, where it gives (ticks - 1) \div 48.

### The supply controller

Bytes go from the host's line (`typing`) to the receive buffer (`rx`), of
`RxSize` bytes, where a byte that finds it full is dropped, and from there to
`input`. `readStringUntil` is `ReadByte`s ended by `EndOfLine` or, when the
buffer is empty, possibly by `ReadTimeout`. `input` keeps what the code looks at:
the first byte, the sign and the digits of `substring(1).toInt()`, built as bytes
arrive. `toInt()` computes in `long` and the assignment to `hv_switch_duty` cuts
the result to `int` (`Wrapped`). The host types letters, digits and minus signs; a
plus sign or a space is left out. A round always ends in `calc_voltages`, whose
reading is any that `Plant` allows at the duty cycle last written, and where
`int(med_set_voltage)` is any `int` when the set voltage does not fit one, the
conversion being undefined then.

### The gauge

The first state chooses the script and the readings the gauge may have (a
session). The gauge sends nine-byte frames for ever or stops. Each byte carries the place
it has in its frame, which no action of the script looks at; `Genuine` uses it to
say whether a report was one frame, and `locked` is the history variable that one
was. Sessions are unrestricted: two readings whose frames, one after the other,
hold nine misplaced bytes that pass the check (`DeceivingReadings`: high bytes 120
and 174 before a low byte 7 and a version 5) are among those of the run, and TLC
finds a script out of step reporting them. `Taken(n)` is `serial.read(n)`, which
returns fewer bytes only when the gauge has stopped (the time-out is 1000 s).

### The furnace

One action, the loop. The clock is the seconds of `millis()`, cut to an int
(`ToInt`) as the code does. The PID arithmetic is exact: products are kept in
quarters so that 0.75, 0.5 and 6 are whole. Readings are arbitrary, or fail.

### The EEPROM log

A step is one flash command with what the code does around it: erase a sector,
program one half-word, program the two of a pair. `Restart` may come between
any two; flash stays, every variable does not. A write is `Append` while the log
has room; otherwise `StartRewrite` copies the latest bytes to RAM, `EraseSector`s
clear the log and `ProgramPair`s and `ProgramLast` write the copy back. Reads
change nothing and are the operator `Scan`; the search for the end that a read or
a write makes first is `Initialize`, or part of the write. Programming a half-word
that is not erased ANDs the two: `Program` then leaves any entry.

`trust` is history and is looked at by no guard: it says how much of the log a
restart would give back (`EepromMap` explains its values). `asked` is the write
asked for last, so that the refinement is about what was asked and not only about
what reads say.

### The UART port

A step of the program is what lies between two points where the interrupt can
matter; the interrupt is one step, and so is each byte the UART sends or
receives. Any call but `clear` may be made where the interrupt cannot come (`masked`: a
handler of its priority, or interrupts off), which is what putchar's own draining
is for. Only one call runs at a time: a call from a handler that interrupts
another call is left out. The driver-enable pin is taken as set. RTS is left
out: on the Teensy LC nothing deasserts it while the port is open. The program
calls serial_begin only when the port is closed.

## 3. Runs

| Run | Question | Bounds |
|---|---|---|
| `usb_io` | one owner per packet; what the main thread holds against the flush; the starvation count right up to one step | 3 packets, one configuration; getchar, write, write_buffer_free |
| `usb_reconfigure` | what a configuration, with or without a reset before it, leaves and loses; the pipes (refinement); the byte count; when the software, the hardware and the host disagree on the next bank | 3 packets, two configurations, lengths 0 to 2; read with flush_output, and flush_input |
| `usb_live` | a partial packet leaves by itself unless a query swallows the flush; starving banks are served unless forgotten | 3 packets, writes of up to 2 bytes, packets of 2, three programs, fair |
| `coil_driver` | no shoot-through; `micros()` exact; halves as long as asked; both recur | delay 2; ticks of 10 a millisecond; steps of 2 with interrupts off, 5 with them on |
| `hv_supply` | the high voltage ordered last, order, stop, regulation | 3 lines of 4, buffer 5, limits 5 and 3, int of 6 bits, long of 8 |
| `gauge` | step found within two frames, kept, or found again; when no misplaced frame is reported | both scripts, three sets of 2 or 3 readings, 10 bytes in flight |
| `furnace` | program order, overshoot, what the target does in every loop | program of 9 s, int of 5 bits, 4 temperatures |
| `eeprom` | the log is a map that survives restarts, and exactly how that ends; no half-word programmed twice | 6 half-words in sectors of 2, 2 addresses, 2 values |
| `serial1` | bytes pass once and in order; what the pin and the flag promise; calls return | rings of 3, 2 values, a program that writes and one that reads, both open and close |

Runs that end in a violation, each a disagreement between the code and what it
says of itself (PROJECT.json, `findings`):

- `usb_bank_forgotten`: a receive bank is never served again. `usb_free` tests
  `usb_rx_memory_needed` with interrupts on; if the interrupt serves the bank
  before `usb_rx_memory` scans, the "should never reach" branch resets the count
  with interrupts on again, and a bank that has begun to starve in between drops
  out of it. The hardware waits for that bank, so the host can send nothing
  until it configures the device again. `CountBrokenOnlyAtMiss` and
  `StarvingEndsUnlessForgotten` show that this reset is the only step at fault.
- `usb_autoflush_lost`: a program that polls `write_buffer_free` can swallow the
  expiry of the flush timer; the bytes stay until the next writing call.
- `furnace_overflow`: the first ramp is entered again after 9.1 hours, below
  zero, and the whole program after 18.2.

Some weaknesses the passing properties say exactly, each by naming the one step
or state at fault:

- A configuration handled while reception starves loses up to two packets for
  good (`LostOnlyByStarvedConfiguration`: nothing else loses any), although
  `usb_dev.c:184` means to free them all.
- The hardware polls one bank and `tx_state` fills the other after a bus reset
  (`usb_dev.c:1032` points the hardware at EVEN, nothing touches `tx_state`) or
  after a configuration that frees packets the host has not collected
  (`usb_dev.c:205-216`): the first packet then waits until a second is queued.
  `PhaseLostOnlyWhenCutOff`: nothing else does that. A packet that waits so is
  overtaken by the one sent after it (`FifoPipes`, `Overtake`).
- A configuration with no bus reset before it sets the host's toggles to DATA0 and
  leaves the hardware at the bank it was at; if that is ODD, the first packet each
  way is dropped (`FifoPipes`, `Discarded`, `Missed`: one each way and no more).
- `write_buffer_free` is the only call that can keep written bytes in the device
  (`PartialPacketSentUnlessSwallowed`).
- A gauge whose reading imitates the magic pair may keep a script out of step
  for as long as the reading lasts (`InStepWithinTwoFrames` and `KeepsReporting`
  are about sessions in `Plain`). Out of step a script may also report what the
  gauge never sent, for the sum of `gauge.py:25` has eight bits; `GenuineOnly` says
  when it may not: where the pair never turns up out of its place, and after
  `gauge.py` has reported one frame of the gauge, whatever the readings.
  `gauge_sound.py` loses its place with each report and has no such assurance.
- The furnace's target makes four jumps (`TargetStepwise`): the second ramp starts
  from zero, the program ends, `int` overflows and the target falls to the slope of
  the first ramp times -32768, and `millis()` starts again and it comes back to zero
  (`serialthermocouple.ino:67-69`).
- A number typed that `int` cannot hold is cut to one and then limited: H40000 is
  -25536 and turns the high voltage off, H70000 is 4464 and gives the limit.
  `HvAsCommanded` promises of such a number only that the limits hold.
- After a rewrite of the EEPROM log `flashend` is one past the last entry
  (`eeprom.c:502-506`); the next write leaves a gap, the search after a restart stops there,
  and every write since the rewrite is forgotten. Writes after that may program
  half-words twice. A restart inside a rewrite loses what was stored.
  `CrashSafeUntilFull` and `AppendsOnErased` say that these are the only losses.
- In the UART port the end of one byte may fall within the putchar of the next,
  which asserts the pin before it waits for room (`serial1.c:339`) and raises
  `transmitting` before it enables the interrupt (`serial1.c:358`): the next byte
  is sent with the driver off, or `flush` returns early and `serial_end`, which
  means to "wait for buffered data to send" (`serial1.c:196`), cuts it off
  (`FallOnlyWhenSent`). `flush` where the interrupt cannot come, and `putchar` on
  a closed port whose ring is full, do not return (`CallsReturn`).

Why the bounds are enough. Three packets are the fewest with which both receive
banks are armed and one packet is left for the other direction, so that every
allocation fails in some state, every bank starves and packets queue. Two
configurations are what it takes for one to meet the state another left. A
packet of two bytes has an empty, a partial and a full state. In the clock, one millisecond is a few ticks, with room on both sides of the
threshold for the interrupt to come early, in time and late, and a step with
interrupts on may take half of it. Six half-words
for two addresses are a log that fills up after six writes, is rewritten with
none, one or two entries (no pair, an odd one, a pair) and has room again after it;
three sectors make a restart fall before, between and after two erasures. A ring
of three slots is empty, half full or full, and wraps; the UART holds two bytes
more. In the supply,
three lines fill a buffer of five bytes twice over. Nine places in a frame are
all there are. The furnace's clock runs through both of its overflows.

## 4. Fairness

- USB: a call once begun goes on, the interrupt is taken, frames keep coming
  and the host keeps polling: weak fairness on each. A start-of-frame is one
  millisecond after another and the main thread runs in between: `StartOfFrame`
  requires a step of it (`mainRan`), which stands for thousands. Nothing makes
  the program call, except under `ReaderSpec`, whose question is about a program
  that calls getchar again and again, whatever else it calls (strong fairness:
  getchar is not possible in the middle of another call).
- Coil driver: main and the clock run (weak fairness). The interrupt is strongly
  fair: `delay` turns interrupts off and on for ever, and the processor takes a
  pending interrupt at the first instruction with interrupts on.
- Supply: the loop runs, and a line begun arrives. Nothing makes the host type.
- Gauge: the script runs; the gauge sends unless it stops.
- UART: a call once begun goes on, the interrupt is taken, and the UART sends:
  weak fairness on each. Nothing makes the program call.
- Furnace, EEPROM log: safety only.

## 5. Proofs

For every value of the constants, under the assumptions named `...Assumption`:
sizes are positive, limits natural, and, where a component needs more, what its
module says of the code. The small numbers of the runs are not used, nor are their
programs: a theorem holds whatever calls are made, and in what order.

### The USB port

- `UsbSerialProofs`. `TypeOK`, `TxStateMatchesBanks`, `TokensNameArmedBanks` and
  `MainThreadHolds`, none of which is inductive by itself. The invariant `Inv`
  conjoins them: the interrupt's `TxDone` may use the bank a token names only if
  that bank still holds a packet, which is kept by transfers only because a bank
  with a token outstanding is not polled again, and by configurations only
  because they meet no token; the main thread's steps keep types only because of
  what `MainThreadHolds` says it has in hand; the callback keeps
  `MainThreadHolds` because the flag is set wherever the main thread counts on
  `tx_packet`, which is one of its parts. One lemma per group of steps, one step
  per action.
- `ExclusiveOwner`. `Own` names the ten places a packet can be (pool, four banks,
  two queues, the main thread's `rx_packet`, `tx_packet` and the one in hand) and
  says that no two share one and that no queue repeats one. A step moves one
  packet from its place to another, or two (`Moved`, `MovedTwo`), and leaves the
  rest; that the place it takes from holds the packet is what `Inv` says.
- `CountBrokenOnlyAtMiss`. The number of empty receive banks, bank by bank
  (`Ones`), against what each step does to the counter.
- `LostOnlyByStarvedConfiguration`. Every step but a configuration keeps the set
  of packets held anywhere; a configuration keeps it less `Captured`, which is two
  packets at most and none when nothing starved.
- `ByteCountIsQueued`. `Counted` says that the partial sums of the queue end in
  the counter: a packet taken shifts them, a packet queued adds one.
- `UsbPipesProofs`. `FifoPipes` needs `Own`, so that a packet sent or delivered is
  new to both pipes, and `Order`: of two tokens of one endpoint, that of the bank
  the hardware uses next is the older one. Then each step of the interrupt, the
  hardware and the main thread is one step of `UsbPipes` or none; where the main
  thread's step is a whole critical section, it moves at most one packet into
  the pipes or out (`SoftwareMove`). `PhaseLostOnlyWhenCutOff` from the same
  invariant.
- `ClosedFormMatchesLoops`, in `UsbPipesProofs`. What the loop leaves after `n`
  calls is a recursive function; `Frees` is its equation, and what satisfies that
  is what the loop computes (`FreeAllIs`). A function written out for the case at
  hand then satisfies it: with no bank starving every packet goes back to the
  pool (`QuietLoop`); with banks starving the first packets go to them, EVEN
  before ODD, and the others to the pool (`StarvedLoop`). That freeing
  two packets is never freeing one twice, and that none of them is in the pool
  already, comes from `Own` (`RestIs`).

### The other controllers

- `CoilDriverProofs`: `TypeOK`, `NoShootThrough`, `MicrosExact`, `HalfLength`. `MicrosExact` rests on
  `ClockInv`: the count, one more if the counter was reloaded and the interrupt
  still waits, and the counter tell the time up to the wrap of `micros()`
  (`Synchronous`); an interrupt that waits became pending a short while ago
  (`Pended`), so `current > 50` tells a period not counted from one just ending;
  and between its two reads the counter moves by the stall alone (`Reading`). The
  run is on scaled numbers; the theorem holds for 48 000 ticks and 2^32 as well,
  assuming that the tick interrupt is late by less than a millisecond less 50 ticks
  and that the two reads, with interrupts off, are at most 50 ticks apart
  (`MaxStall`). `TypeOK` shows that `delay` never
  counts below zero. `NoShootThrough` by itself says nothing of the pins
  about to be set; `IInv` adds that what is on belongs to one half, that pins
  already cleared stay cleared until the half turns, and that `micros()` is
  entered from `delay` alone. `HalfLength` is about readings of `micros()`
  that wrap. `Time(k)` is the time in ticks since the start, the milliseconds'
  count having wrapped `k` times, and `Reads(t)` what `micros()` would compute at
  time `t` if it did not wrap. `Measuring` says that the last value `delay` got is
  less than a millisecond past `start`, that `start` is as many milliseconds past
  the first value as are counted down, and how long ago each was read, at most.
  Two values less than a wrap apart differ by what their difference modulo the
  wrap says (`Difference`), so a millisecond is counted down when the values are
  one apart and not before. That takes
  `DelayAssumption`: a round of `delay`, one step with interrupts on and two with
  them off, comes to less than a millisecond, which with two times 50 ticks for
  the latter leaves some 47 900 of 48 000 to `yield()`, with its `available()` calls
  (`pins_teensy.c:1185`), and to the other interrupts; and `micros()` wraps after two
  milliseconds or more (2^32 microseconds). `Lag` is how long ago the last value
  was read, at each point of `micros()`. A half is too long by two steps with
  interrupts on and four with them off at most, however many milliseconds it has.
- `HvSupplyProofs`: `TypeOK`, `HvAsCommanded`, `HvRisesOnlyOnCommand`,
  `ActedInOrder`. `IInv` adds `HvWritten`: outside `calc` the variable is the duty
  written, and inside it differs only after an H line; and `HvKept`: limited, it is
  always what the last E or H line asks for. That rests on `WrappedBounds`: an
  integer type leaves a number it holds alone, so one that `int` holds passes through
  `long` and `int` unchanged, and any other comes out somewhere in `int`. For the order, `InOrder`
  says of a line that has lost nothing (`clean`) that the lines acted upon are the
  first ones typed, and that what waits in the buffer and on the line is exactly
  the rest: there are places to cut it (`Cuts`) such that the pieces are the lines
  that follow, the first of them less the bytes already read, and `input` is what
  reading those has made (`ReadSoFar`).
- `GaugeDecoderProofs`: `TypeOK`, `GenuineOnly`, `StaysInStep`,
  `InStepWithinTwoFrames`. `InHand` says what a script has read at each point, and
  `Framed` that it, followed by what waits on the line, is the end of the stream: counted
  back from the place the gauge has reached, frames of the session's readings.
  So the place `At` of its first byte is known from lengths alone, and only
  reading moves it. A script that keeps its input and has reported a frame of the
  gauge (`locked`) is at the first place of a frame whenever it looks for one
  (`InStep`): nine bytes from there pass the check and are one frame, and what
  follows starts the next; this holds of any readings. In a `Plain` session the
  pair is met at the first place alone (`MagicPlain`), so a report is a frame
  whichever script runs. `GenuineCorrect` is the two together. For the bound, `Cost` is the number of
  bytes that pairs skip from each place before they meet the start of a frame,
  the next or the one after: `Counted` says that what was skipped and what is
  still to be skipped come to sixteen at most.
- `FurnaceProofs`: `TypeOK`, `OvershootCutsHeater`, `StagesInOrder`,
  `TargetStepwise`. A full integral is outweighed by the error; the bound on the
  integral is what makes the second true. For the last two, `Current` says that
  target and stage are those of the time; `TimeGoesOn`, that the time goes on by
  the seconds of the loop but for two overflows, that of int, which leads from
  the end of the program to before its start (`IntRestarts`), and that of the
  milliseconds, which leads from before its start into the first ramp
  (`MillisRestarts`). `TargetStepwise` has no condition: each of the two is one of
  its jumps, with the values it leads from and to. `ProgramAssumption` says what
  that takes: no stage shorter than a loop, a program that ends before int
  overflows, milliseconds that start again where int is negative. All hold of the
  controller's numbers.
- `EepromProofs`: `TypeOK`, `AppendsOnErased` and the refinement
  `CrashSafeUntilFull`. `IInv` says, for each value of `trust`, where `End` stands
  against the entries: `KeptInv`, the log is dense up to it; `FreshInv`, it is one
  too far; `StaleInv`, there is one gap and the entries before it are what a
  restart would find; and how far a rewrite is (`EraseInv`, `ProgramInv`: as many
  entries written as addresses passed, which is why the rewrite, which never looks
  at the end of the log, stays in it). Lemmas on `LogEnd` and `Scan` say what a
  write at the end, a gap and an erased tail do to them.
- `Serial1Proofs`: `TypeOK`, `FallOnlyWhenSent` and the refinement `BytesInOrder`.
  `IInv` adds that putchar's local
  names the slot after the head, and `CompletingIsEmpty`: while the end of the
  last byte is awaited the ring is empty, except for a byte whose putchar has yet
  to enable the interrupt. Without it a step that drops the flag says nothing of
  the ring. For the refinement, rings are sequences: moving an end over a slot
  appends a byte or takes the head off, and what is written outside the ring is
  not in it. `Held` adds what a call has in hand between its two halves.

Sums, parsed lines and the loops of a configuration are recursive functions, and
the library's induction theorems cannot be used. Where a proof needs the value of
one it shows that two functions obeying the same equation have no first place
where they differ; a frame is short enough to be summed up term by term.

Only model-checked: liveness (`PartialPacketSentUnlessSwallowed`,
`StarvingEndsUnlessForgotten`, `Alternates`, `StopHolds`, `Regulates`,
`KeepsReporting`, `CallsReturn`), which is out of the prover's reach, and the three
runs that show a violation. Every invariant, action property and refinement the
other runs check is stated by a theorem.

## 6. Limits

- `Regulates` is about a plant that follows the duty cycle at once, within a
  count; its dynamics are outside the firmware.
- The supply's `med_set_voltage` is a float: what rounding does to a set voltage
  above 2^24 is left out; such a number is beyond `int`, so that its conversion
  is undefined already. `MCHvSupply` types no M line beyond `int`; the theorems
  cover those too.
- A round of `delay` is taken to last less than a millisecond, `yield()` and all
  interrupts included (`DelayAssumption`). A `serialEvent` of the program could make
  it longer; the coil driver has none.
- USB endpoint 0's transfers, other USB classes, descriptors, pin set-up, PWM and
  start-up code are left out.
- The EEPROM log assumes that a flash command is all or nothing; a power loss in
  the middle of one is left out. It covers byte reads and writes, from which the
  wider ones are made.
- The UART port's pins, format, nine-bit mode and the K-series FIFO are left out.

## 7. Not modelled

- `T/IntervalTimer.cpp`, `T/DMAChannel.cpp`: no program of the printer uses them.
  Channels are taken from a bit mask by one thread; DMA is not built for the
  Teensy LC at all.
- `T/AudioStream.cpp`, `T/analog.c`: not linked into the coil driver, which reads
  no voltage and plays no sound. The supply and the furnace do read voltages, on
  another board whose core library is not in the repository; `Plant` and
  `Readings` stand for it.
- The other USB classes of `T` (keyboard, MIDI, raw HID, ...) are not in the
  `USB_SERIAL` build. Endpoint 0's transfers answer descriptors and line coding;
  what they change of the port's state (`SET_CONFIGURATION`) is modelled.
- The slicer and the drawing tools are one pass from a file to a file, in floating
  point: what could be wrong is rounding at a vertex or a plane through an edge,
  which exact arithmetic would hide and TLC does not have.
- The simulations are floating-point physics; their question is accuracy.
- The hot cathode sketch prints a word every second; the viewers and host scripts
  plot and print what they receive. They keep no state to speak of.
- Vendored toolchains, start-up code and the Arduino string and stream classes are
  modelled only as far as the programs above use them.
