---------------------------- MODULE SerialPipes ----------------------------
(***************************************************************************)
(* What the UART serial port promises: two pipes of bytes.  A byte given   *)
(* to putchar leaves on the line once, in its turn.  A byte that arrives   *)
(* is read once, in its turn, unless the receiver is full or is cleared.   *)
(* Closing the port cuts off what the UART holds, opening it what the rings *)
(* hold.                                                                   *)
(***************************************************************************)
EXTENDS Naturals, Sequences

CONSTANTS Bytes,
          UartSize,   \* bytes the UART holds on their way out
          Room     \* bytes the receive ring holds; the UART holds one more

VARIABLES given,      \* the byte of the latest putchar
          toLine,     \* put, and not yet sent
          fromLine,   \* arrived, and not yet read
          got         \* the byte read last

pipes == <<given, toLine, fromLine, got>>

PipesInit == given \in Bytes /\ toLine = <<>> /\ fromLine = <<>> /\ got \in Bytes

Give(b) == given' = b /\ UNCHANGED <<toLine, fromLine, got>>
Put     == toLine' = Append(toLine, given) /\ UNCHANGED <<given, fromLine, got>>
Sent    == toLine # <<>> /\ toLine' = Tail(toLine) /\ UNCHANGED <<given, fromLine, got>>

Arrive(b) == fromLine' = Append(fromLine, b) /\ UNCHANGED <<given, toLine, got>>
Look == fromLine # <<>> /\ got' = Head(fromLine) /\ UNCHANGED <<given, toLine, fromLine>>
Take ==
  /\ fromLine # <<>> /\ got = Head(fromLine)
  /\ fromLine' = Tail(fromLine)
  /\ UNCHANGED <<given, toLine, got>>

\* The interrupt finds the ring full: the byte that came last is lost.
Drop ==
  /\ Len(fromLine) = Room + 1
  /\ fromLine' = SubSeq(fromLine, 1, Room)
  /\ UNCHANGED <<given, toLine, got>>

\* clear forgets what the ring holds, and not the byte still in the UART.
Forget == \E n \in 0 .. 1 : n <= Len(fromLine)
            /\ fromLine' = SubSeq(fromLine, Len(fromLine) + 1 - n, Len(fromLine))
Clear == Forget /\ UNCHANGED <<given, toLine, got>>

\* Closing cuts off the oldest bytes, opening the others.
Close ==
  /\ \E n \in 0 .. UartSize : n <= Len(toLine) /\ toLine' = SubSeq(toLine, n + 1, Len(toLine))
  /\ Forget
  /\ UNCHANGED <<given, got>>
Open ==
  /\ \E n \in 0 .. UartSize : n <= Len(toLine) /\ toLine' = SubSeq(toLine, 1, n)
  /\ Forget
  /\ UNCHANGED <<given, got>>

PipesNext ==
  \/ \E b \in Bytes : Give(b) \/ Arrive(b)
  \/ Put \/ Sent \/ Look \/ Take \/ Drop \/ Clear \/ Close \/ Open

PipesSpec == PipesInit /\ [][PipesNext]_pipes
=============================================================================
