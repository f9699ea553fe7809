------------------------------ MODULE Serial1 ------------------------------
(***************************************************************************)
(* The UART serial port of the Teensy LC (teensy3/serial1.c, the part      *)
(* without a FIFO, with a driver-enable pin): a program that puts and gets *)
(* bytes, the interrupt that moves them between two rings and the UART,    *)
(* and the UART itself.                                                    *)
(*                                                                         *)
(* A step of the program is what lies between two points where the         *)
(* interrupt can matter.  The interrupt is one step: no call interrupts it.*)
(* A call may also be made where the interrupt cannot come: in a handler   *)
(* of its priority, or with interrupts off.                                *)
(*                                                                         *)
(* The program opens the port when it is closed; it starts with the port   *)
(* open, since no call does anything before the first serial_begin.        *)
(***************************************************************************)
EXTENDS Integers, Sequences

CONSTANTS SERIAL1_TX_BUFFER_SIZE, SERIAL1_RX_BUFFER_SIZE,
          Bytes,
          Programs   \* sets of calls; a program makes the calls of one of them

Calls    == {"putchar", "flush", "getchar", "clear", "end", "begin"}
TxSlots  == 0 .. SERIAL1_TX_BUFFER_SIZE - 1
RxSlots  == 0 .. SERIAL1_RX_BUFFER_SIZE - 1
NextTx(s) == IF s + 1 >= SERIAL1_TX_BUFFER_SIZE THEN 0 ELSE s + 1
NextRx(s) == IF s + 1 >= SERIAL1_RX_BUFFER_SIZE THEN 0 ELSE s + 1

ASSUME SerialAssumption ==
  /\ SERIAL1_TX_BUFFER_SIZE \in Nat /\ SERIAL1_TX_BUFFER_SIZE >= 2
  /\ SERIAL1_RX_BUFFER_SIZE \in Nat /\ SERIAL1_RX_BUFFER_SIZE >= 2
  /\ Bytes # {}
  /\ Programs \subseteq SUBSET Calls

VARIABLES calls,        \* the program's calls
          open,         \* whether the interrupt is enabled and the pins are the UART's
          tx_buffer, tx_buffer_head, tx_buffer_tail,
          rx_buffer, rx_buffer_head, rx_buffer_tail,
          transmitting,
          transmit_pin,  \* whether the driver-enable pin is asserted
          c2,            \* UART0_C2: which transmit interrupt is enabled, or OFF
          uart,          \* bytes in the UART, being sent or next to be
          arrived,       \* the byte in its receive register, if any
          pc,            \* idle, or where in a call the program is
          masked,        \* whether the interrupt cannot come during the call
          head,          \* putchar's local
          c,             \* putchar's byte
          got            \* getchar's byte

txVars   == <<tx_buffer, tx_buffer_head, tx_buffer_tail, transmitting, transmit_pin, c2, uart>>
rxVars   == <<rx_buffer, rx_buffer_head, rx_buffer_tail, arrived, got>>
mainVars == <<calls, open, pc, masked, head, c>>
vars == <<txVars, rxVars, mainVars>>

TDRE == Len(uart) < 2
TC   == uart = <<>>

-----------------------------------------------------------------------------
(* serial_putchar *)

Return == pc' = "idle" /\ masked' = FALSE

Putchar(b) ==
  /\ pc = "idle" /\ "putchar" \in calls
  /\ transmit_pin' = TRUE
  /\ head' = NextTx(tx_buffer_head)
  /\ c' = b
  /\ masked' \in BOOLEAN
  /\ pc' = "space"
  /\ UNCHANGED <<calls, open, tx_buffer, tx_buffer_head, tx_buffer_tail, transmitting, c2, uart, rxVars>>

\* Move the next byte from the ring to the UART.
Transmit ==
  /\ uart' = Append(uart, tx_buffer[NextTx(tx_buffer_tail)])
  /\ tx_buffer_tail' = NextTx(tx_buffer_tail)

\* Slip: the UART is not asked whether it has room.
MutPutcharDrain ==
  /\ pc = "space"
  /\ tx_buffer_tail = head
  /\ masked
  /\ Transmit
  /\ UNCHANGED <<mainVars, tx_buffer, tx_buffer_head, transmitting, transmit_pin, c2, rxVars>>

\* The ring is full and no interrupt will drain it.
PutcharDrain ==
  /\ pc = "space"
  /\ tx_buffer_tail = head
  /\ masked /\ TDRE
  /\ Transmit
  /\ UNCHANGED <<mainVars, tx_buffer, tx_buffer_head, transmitting, transmit_pin, c2, rxVars>>

\* Slip: the ring is taken for one with room for a byte more.
MutPutcharStore ==
  /\ pc = "space"
  /\ tx_buffer' = [tx_buffer EXCEPT ![head] = c]
  /\ transmitting' = TRUE
  /\ pc' = "head"
  /\ UNCHANGED <<calls, open, masked, head, c, tx_buffer_head, tx_buffer_tail, transmit_pin, c2, uart, rxVars>>

PutcharStore ==
  /\ pc = "space"
  /\ tx_buffer_tail # head
  /\ tx_buffer' = [tx_buffer EXCEPT ![head] = c]
  /\ transmitting' = TRUE
  /\ pc' = "head"
  /\ UNCHANGED <<calls, open, masked, head, c, tx_buffer_head, tx_buffer_tail, transmit_pin, c2, uart, rxVars>>

PutcharHead ==
  /\ pc = "head"
  /\ tx_buffer_head' = head
  /\ pc' = "enable"
  /\ UNCHANGED <<calls, open, masked, head, c, tx_buffer, tx_buffer_tail, transmitting, transmit_pin, c2, uart, rxVars>>

PutcharEnable ==
  /\ pc = "enable"
  /\ c2' = "ACTIVE"
  /\ Return
  /\ UNCHANGED <<calls, open, head, c, tx_buffer, tx_buffer_head, tx_buffer_tail, transmitting, transmit_pin, uart, rxVars>>

PutcharStep == PutcharDrain \/ PutcharStore \/ PutcharHead \/ PutcharEnable

-----------------------------------------------------------------------------
(* The other calls that change something *)

\* serial_flush waits for the interrupt, wherever it is called.
Flush ==
  /\ pc = "idle" /\ "flush" \in calls
  /\ masked' \in BOOLEAN
  /\ pc' = "flush"
  /\ UNCHANGED <<calls, open, head, c, txVars, rxVars>>

FlushReturn ==
  /\ pc = "flush"
  /\ ~transmitting
  /\ Return
  /\ UNCHANGED <<calls, open, head, c, txVars, rxVars>>

\* serial_getchar with something to read: take the byte, then give up its slot.
Getchar ==
  /\ pc = "idle" /\ "getchar" \in calls
  /\ rx_buffer_head # rx_buffer_tail
  /\ got' = rx_buffer[NextRx(rx_buffer_tail)]
  /\ masked' \in BOOLEAN
  /\ pc' = "advance"
  /\ UNCHANGED <<calls, open, head, c, txVars, rx_buffer, rx_buffer_head, rx_buffer_tail, arrived>>

GetcharAdvance ==
  /\ pc = "advance"
  /\ rx_buffer_tail' = NextRx(rx_buffer_tail)
  /\ Return
  /\ UNCHANGED <<calls, open, head, c, txVars, rx_buffer, rx_buffer_head, arrived, got>>

\* serial_clear.  The tail it copies is the program's own.
Clear ==
  /\ pc = "idle" /\ "clear" \in calls
  /\ rx_buffer_head' = rx_buffer_tail
  /\ UNCHANGED <<mainVars, txVars, rx_buffer, rx_buffer_tail, arrived, got>>

\* serial_end waits as flush does.
End ==
  /\ pc = "idle" /\ "end" \in calls
  /\ masked' \in BOOLEAN
  /\ pc' = "end"
  /\ UNCHANGED <<calls, open, head, c, txVars, rxVars>>

\* What the UART holds is cut off with its pin; what the transmit ring holds stays.
EndClose ==
  /\ pc = "end"
  /\ ~transmitting
  /\ open' = FALSE
  /\ c2' = "OFF" /\ uart' = <<>>
  /\ rx_buffer_head' = 0 /\ rx_buffer_tail' = 0
  /\ Return
  /\ UNCHANGED <<calls, head, c, tx_buffer, tx_buffer_head, tx_buffer_tail, transmitting,
                 transmit_pin, rx_buffer, arrived, got>>

\* serial_begin.  No interrupt sees it halfway.
Begin ==
  /\ pc = "idle" /\ ~open /\ "begin" \in calls
  /\ open' = TRUE
  /\ c2' = "INACTIVE" /\ transmitting' = FALSE
  /\ rx_buffer_head' = 0 /\ rx_buffer_tail' = 0
  /\ tx_buffer_head' = 0 /\ tx_buffer_tail' = 0
  /\ UNCHANGED <<calls, pc, masked, head, c, tx_buffer, transmit_pin, uart, rx_buffer, arrived, got>>

-----------------------------------------------------------------------------
(* uart0_status_isr *)

Receive ==
  IF arrived = <<>> THEN UNCHANGED rxVars
  ELSE /\ arrived' = <<>>
       /\ UNCHANGED <<rx_buffer_tail, got>>
       /\ IF NextRx(rx_buffer_head) = rx_buffer_tail
          THEN UNCHANGED <<rx_buffer, rx_buffer_head>>
          ELSE /\ rx_buffer' = [rx_buffer EXCEPT ![NextRx(rx_buffer_head)] = Head(arrived)]
               /\ rx_buffer_head' = NextRx(rx_buffer_head)

\* The part of each transmit interrupt, or nothing if it is not pending.
Refill ==
  /\ c2 = "ACTIVE" /\ TDRE
  /\ UNCHANGED <<tx_buffer, tx_buffer_head, transmitting, transmit_pin>>
  /\ IF tx_buffer_head = tx_buffer_tail
     THEN c2' = "COMPLETING" /\ UNCHANGED <<tx_buffer_tail, uart>>
     ELSE Transmit /\ UNCHANGED c2

\* Slip: the flag stays up when the last byte has left.
MutCompleteFlag ==
  /\ c2 = "COMPLETING" /\ TC
  /\ transmit_pin' = FALSE
  /\ c2' = "INACTIVE"
  /\ UNCHANGED <<tx_buffer, tx_buffer_head, tx_buffer_tail, transmitting, uart>>

\* Slip: the transmitter is taken to be done when it has room.
MutComplete ==
  /\ c2 = "COMPLETING" /\ TDRE
  /\ transmitting' = FALSE
  /\ transmit_pin' = FALSE
  /\ c2' = "INACTIVE"
  /\ UNCHANGED <<tx_buffer, tx_buffer_head, tx_buffer_tail, uart>>

Complete ==
  /\ c2 = "COMPLETING" /\ TC
  /\ transmitting' = FALSE
  /\ transmit_pin' = FALSE
  /\ c2' = "INACTIVE"
  /\ UNCHANGED <<tx_buffer, tx_buffer_head, tx_buffer_tail, uart>>

TxPending == (c2 = "ACTIVE" /\ TDRE) \/ (c2 = "COMPLETING" /\ TC)

uart0_status_isr ==
  /\ open /\ ~masked
  /\ arrived # <<>> \/ TxPending
  /\ Receive
  /\ \/ Refill \/ Complete
     \/ ~TxPending /\ UNCHANGED txVars
  /\ UNCHANGED mainVars

-----------------------------------------------------------------------------
(* The UART *)

Send ==
  /\ uart # <<>>
  /\ uart' = Tail(uart)
  /\ UNCHANGED <<mainVars, tx_buffer, tx_buffer_head, tx_buffer_tail, transmitting, transmit_pin, c2, rxVars>>

\* A byte comes in.  When the one before is still there it is lost (overrun).
Arrive(b) ==
  /\ open
  /\ arrived = <<>>
  /\ arrived' = <<b>>
  /\ UNCHANGED <<mainVars, txVars, rx_buffer, rx_buffer_head, rx_buffer_tail, got>>

-----------------------------------------------------------------------------

Init ==
  /\ calls \in Programs
  /\ open = TRUE
  /\ \E b \in Bytes :
       /\ tx_buffer = [s \in TxSlots |-> b] /\ rx_buffer = [s \in RxSlots |-> b]
       /\ c = b /\ got = b
  /\ tx_buffer_head = 0 /\ tx_buffer_tail = 0
  /\ rx_buffer_head = 0 /\ rx_buffer_tail = 0
  /\ transmitting = FALSE /\ transmit_pin = FALSE /\ c2 = "INACTIVE"
  /\ uart = <<>> /\ arrived = <<>>
  /\ pc = "idle" /\ masked = FALSE /\ head = 0

Main ==
  \/ \E b \in Bytes : Putchar(b)
  \/ PutcharStep
  \/ Flush \/ FlushReturn
  \/ Getchar \/ GetcharAdvance \/ Clear
  \/ End \/ EndClose \/ Begin

Next == Main \/ uart0_status_isr \/ Send \/ \E b \in Bytes : Arrive(b)

\* A call begun goes on, the interrupt is taken, and the UART sends.
Fairness ==
  /\ WF_vars(PutcharStep)
  /\ WF_vars(FlushReturn)
  /\ WF_vars(GetcharAdvance)
  /\ WF_vars(EndClose)
  /\ WF_vars(uart0_status_isr)
  /\ WF_vars(Send)

Spec == Init /\ [][Next]_vars /\ Fairness

-----------------------------------------------------------------------------
(* Properties *)

\* How many bytes a ring holds (serial_available), and which, oldest first.
Used(from, to, size) == IF to >= from THEN to - from ELSE size + to - from
Slot(from, n, size)  == IF from + n >= size THEN from + n - size ELSE from + n
Ring(buffer, from, to, size) ==
  [n \in 1 .. Used(from, to, size) |-> buffer[Slot(from, n, size)]]
TxRing == Ring(tx_buffer, tx_buffer_tail, tx_buffer_head, SERIAL1_TX_BUFFER_SIZE)
RxRing == Ring(rx_buffer, rx_buffer_tail, rx_buffer_head, SERIAL1_RX_BUFFER_SIZE)

\* Every variable keeps its range: the UART is never given a byte it has no
\* room for, and no index leaves its ring.
TypeOK ==
  /\ calls \in Programs
  /\ open \in BOOLEAN
  /\ tx_buffer \in [TxSlots -> Bytes] /\ tx_buffer_head \in TxSlots /\ tx_buffer_tail \in TxSlots
  /\ rx_buffer \in [RxSlots -> Bytes] /\ rx_buffer_head \in RxSlots /\ rx_buffer_tail \in RxSlots
  /\ transmitting \in BOOLEAN /\ transmit_pin \in BOOLEAN
  /\ c2 \in {"INACTIVE", "ACTIVE", "COMPLETING", "OFF"}
  /\ uart \in Seq(Bytes) /\ Len(uart) <= 2
  /\ arrived \in Seq(Bytes) /\ Len(arrived) <= 1
  /\ pc \in {"idle", "space", "head", "enable", "flush", "advance", "end"}
  /\ masked \in BOOLEAN
  /\ head \in TxSlots /\ c \in Bytes /\ got \in Bytes

\* Nothing put is still on its way out.
AllSent == uart = <<>> /\ tx_buffer_head = tx_buffer_tail

\* While the port is open the pin and the transmitting flag, which flush and end
\* wait for, fall only when every byte put has left the UART - except under a
\* putchar: it asserts the pin before it waits for room and raises the flag before
\* it enables the interrupt, and the end of the byte before (C2_TX_COMPLETING) may
\* fall in between.  Then its own byte is sent with the driver off, or flush
\* returns, and end cuts the byte off, before it is sent.
FallOnlyWhenSent ==
  [][(transmit_pin /\ ~transmit_pin') \/ (transmitting /\ ~transmitting')
     => AllSent \/ ~open \/ pc \in {"space", "head", "enable"}]_vars

\* putchar returns wherever it is called from, and flush and end unless they are
\* called where the interrupt cannot come: they do not drain the ring as putchar
\* does.  Once the port is closed none of them need return: putchar still fills the
\* ring, and nothing empties it or takes the flag down.
CallsReturn ==
  /\ pc = "advance" ~> pc = "idle"
  /\ (pc \in {"space", "head", "enable"} /\ (open \/ masked)) ~> pc = "idle"
  /\ (pc \in {"flush", "end"} /\ open /\ ~masked) ~> pc = "idle"
=============================================================================
