----------------------------- MODULE UsbSerial -----------------------------
(***************************************************************************)
(* The CDC serial layer (teensy3/usb_serial.c): the calls the main thread  *)
(* makes, run against the interrupt and the hardware of UsbDev, and the    *)
(* flush the start-of-frame interrupt does on the main thread's behalf.    *)
(*                                                                         *)
(* The main thread is a program counter.  A step of it is one access to    *)
(* state the interrupt shares, or one section run with interrupts off; the *)
(* interrupt and the hardware may act between any two steps.               *)
(***************************************************************************)
EXTENDS UsbDev

CONSTANTS CDC_TX_SIZE,             \* bytes in a transmit packet (64)
          TX_PACKET_LIMIT,         \* packets a writer may leave queued (8)
          TX_TIMEOUT,              \* attempts before a writer gives up
          TRANSMIT_FLUSH_TIMEOUT,  \* frames before a partial packet is sent (5)
          MaxSize,                 \* bound: bytes in one read or write call
          Programs                 \* what programs call: a set of sets of calls

AllOps == {"getchar", "peekchar", "read", "flush_input",
           "write", "write_buffer_free", "flush_output"}

ASSUME UsbSerialAssumption ==
  /\ {CDC_TX_SIZE, TRANSMIT_FLUSH_TIMEOUT, MaxSize} \subseteq Nat \ {0}
  /\ {TX_PACKET_LIMIT, TX_TIMEOUT} \subseteq Nat
  /\ Programs \subseteq SUBSET AllOps

VARIABLES
  rx_packet, rxLeft,         \* packet being read, its len - index
  tx_packet, txIndex,        \* packet being filled, its index
  tx_noautoflush,            \* the main thread is using tx_packet
  usb_cdc_transmit_flush_timer,
  transmit_previous_timeout,
  pc,                        \* where the main thread is
  ret,                       \* where usb_free returns to
  hand,                      \* the packet in a local variable of the main thread
  size,                      \* bytes the current call still has to move
  wait_count,
  calls,                     \* the calls this program makes, fixed by Init
  mainRan                    \* the main thread has run since the last frame

rdVars   == <<rx_packet, rxLeft>>
wrVars   == <<tx_packet, txIndex, tx_noautoflush,
              usb_cdc_transmit_flush_timer, transmit_previous_timeout>>
mainVars == <<pc, ret, hand, size, wait_count, calls>>
vars     == <<devVars, rdVars, wrVars, mainVars, mainRan>>

\* Slip: the length is not clamped.
MutLesser(a, b) == a

Lesser(a, b) == IF a < b THEN a ELSE b

Goto(l) == pc' = l

\* Every step of the main thread.
Main == mainRan' = TRUE /\ UNCHANGED calls

-----------------------------------------------------------------------------
(* usb_free, called by the main thread *)

\* Call usb_free(p), then go on at label l.
CallFree(p, l) == pc' = "free_test" /\ hand' = p /\ ret' = l

\* The test "usb_rx_memory_needed && usb_configuration".
FreeTest ==
  /\ pc = "free_test"
  /\ Goto(IF RxWantsMemory THEN "free_scan" ELSE "free_put")
  /\ Main
  /\ UNCHANGED <<devVars, rdVars, wrVars, ret, hand, size, wait_count>>

\* usb_rx_memory's scan, interrupts off: it finds a starving bank or it does not.
FreeScan ==
  /\ pc = "free_scan"
  /\ \/ /\ GiveToRx(hand)
        /\ Goto(ret)
        /\ hand' = None
     \/ /\ Starving = {}
        /\ Goto("free_miss")
        /\ UNCHANGED <<memVars, hand>>
  /\ Main
  /\ UNCHANGED <<txVars, rxVars, hwVars, cfgVars, rdVars, wrVars,
                 ret, size, wait_count>>

\* "We should never reach this point": interrupts are on again.
FreeMiss ==
  /\ pc = "free_miss"
  /\ usb_rx_memory_needed' = 0
  /\ Goto("free_test")
  /\ Main
  /\ UNCHANGED <<usb_buffer_available, rxBank, txVars, rxVars, hwVars, cfgVars,
                 rdVars, wrVars, ret, hand, size, wait_count>>

\* The mask write, interrupts off.
FreePut ==
  /\ pc = "free_put"
  /\ PutInPool(hand)
  /\ hand' = None
  /\ Goto(ret)
  /\ Main
  /\ UNCHANGED <<usb_rx_memory_needed, rxBank, txVars, rxVars, hwVars, cfgVars,
                 rdVars, wrVars, ret, size, wait_count>>

-----------------------------------------------------------------------------
(* Reading *)

\* There is something to read: a packet begun, or one usb_rx can take.
CanRead == rx_packet # None \/ (usb_configuration # 0 /\ rxQueue # <<>>)

\* Read qty bytes of the current packet (taken by usb_rx when there is none),
\* free it when that was the rest of it, then go on at label l.
Consume(qty, l) ==
  LET fresh == rx_packet = None
      pkt   == IF fresh THEN Head(rxQueue).pkt ELSE rx_packet
      left  == (IF fresh THEN Head(rxQueue).len ELSE rxLeft) - qty
  IN /\ \/ fresh /\ UsbRx
        \/ ~fresh /\ UNCHANGED rxVars
     /\ \/ /\ left = 0
           /\ rx_packet' = None
           /\ rxLeft' = 0
           /\ CallFree(pkt, l)
        \/ /\ left # 0
           /\ rx_packet' = pkt
           /\ rxLeft' = left
           /\ Goto(l)
           /\ UNCHANGED <<ret, hand>>
     /\ UNCHANGED <<memVars, txVars, hwVars, cfgVars, wrVars, wait_count>>

Available == IF rx_packet # None THEN rxLeft ELSE Head(rxQueue).len

\* usb_serial_getchar; without a byte it returns -1 and changes nothing.
Getchar ==
  /\ pc = "idle"
  /\ "getchar" \in calls
  /\ CanRead
  /\ Consume(1, "idle")
  /\ Main
  /\ UNCHANGED size

\* usb_serial_peekchar: takes a packet from the queue, consumes nothing.
Peekchar ==
  /\ pc = "idle"
  /\ "peekchar" \in calls
  /\ rx_packet = None
  /\ CanRead
  /\ Consume(0, "idle")
  /\ Main
  /\ UNCHANGED size

\* usb_serial_read(buffer, n)
Read(n) ==
  /\ pc = "idle"
  /\ "read" \in calls
  /\ Goto("read")
  /\ size' = n
  /\ Main
  /\ UNCHANGED <<devVars, rdVars, wrVars, ret, hand, wait_count>>

\* One turn of its loop.
ReadLoop ==
  /\ pc = "read"
  /\ Main
  /\ \/ /\ size > 0
        /\ usb_configuration # 0
        /\ CanRead
        /\ LET qty == Lesser(size, Available) IN
             Consume(qty, "read") /\ size' = size - qty
     \/ /\ size = 0 \/ usb_configuration = 0 \/ ~CanRead
        /\ Goto("idle")
        /\ size' = 0
        /\ UNCHANGED <<devVars, rdVars, wrVars, ret, hand, wait_count>>

\* usb_serial_flush_input: drop the packet being read ...
FlushInput ==
  /\ pc = "idle"
  /\ "flush_input" \in calls
  /\ usb_configuration # 0
  /\ \/ /\ rx_packet # None
        /\ CallFree(rx_packet, "flush_input")
        /\ rx_packet' = None
        /\ rxLeft' = 0
     \/ /\ rx_packet = None
        /\ Goto("flush_input")
        /\ UNCHANGED <<rdVars, ret, hand>>
  /\ Main
  /\ UNCHANGED <<devVars, wrVars, size, wait_count>>

\* ... then every queued packet.
FlushInputLoop ==
  /\ pc = "flush_input"
  /\ Main
  /\ UNCHANGED <<rdVars, wrVars, size, wait_count>>
  /\ \/ /\ rxQueue # <<>>
        /\ CallFree(Head(rxQueue).pkt, "flush_input")
        /\ UsbRx
        /\ UNCHANGED <<memVars, txVars, hwVars, cfgVars>>
     \/ /\ rxQueue = <<>>
        /\ Goto("idle")
        /\ UNCHANGED <<devVars, ret, hand>>

-----------------------------------------------------------------------------
(* usb_serial_write *)

Write(n) ==
  /\ pc = "idle"
  /\ "write" \in calls
  /\ Goto("w_loop")
  /\ tx_noautoflush' = TRUE
  /\ size' = n
  /\ Main
  /\ UNCHANGED <<devVars, rdVars, tx_packet, txIndex, usb_cdc_transmit_flush_timer,
                 transmit_previous_timeout, ret, hand, wait_count>>

\* while (size > 0) { if (!tx_packet) ... }  and the normal return.
WriteLoop ==
  /\ pc = "w_loop"
  /\ Main
  /\ UNCHANGED <<devVars, rdVars, tx_packet, txIndex, usb_cdc_transmit_flush_timer,
                 transmit_previous_timeout, ret, hand, size>>
  /\ \/ /\ size > 0
        /\ Goto(IF tx_packet = None THEN "w_wait" ELSE "w_fill")
        /\ wait_count' = 0
        /\ UNCHANGED tx_noautoflush
     \/ /\ size = 0
        /\ Goto("idle")
        /\ tx_noautoflush' = FALSE
        /\ UNCHANGED wait_count

\* A return of -1; noautoflush is what tx_noautoflush holds afterwards.
GiveUp(noautoflush) ==
  /\ Goto("idle")
  /\ tx_noautoflush' = noautoflush
  /\ size' = 0
  /\ UNCHANGED wait_count

\* No packet to fill: is the device still configured?
WriteWait ==
  /\ pc = "w_wait"
  /\ Main
  /\ UNCHANGED <<devVars, rdVars, tx_packet, txIndex, usb_cdc_transmit_flush_timer,
                 transmit_previous_timeout, ret, hand>>
  /\ \/ /\ usb_configuration = 0
        /\ GiveUp(FALSE)
     \/ /\ usb_configuration # 0
        /\ Goto("w_count")
        /\ UNCHANGED <<tx_noautoflush, size, wait_count>>

\* usb_tx_packet_count against the limit.
WriteCount ==
  /\ pc = "w_count"
  /\ Goto(IF Len(txQueue) < TX_PACKET_LIMIT THEN "w_hold" ELSE "w_retry")
  /\ Main
  /\ UNCHANGED <<devVars, rdVars, wrVars, ret, hand, size, wait_count>>

\* Slip: the flag cleared after a failed usb_malloc is not set again.
MutWriteHold ==
  /\ pc = "w_hold"
  /\ Goto("w_alloc")
  /\ Main
  /\ UNCHANGED <<devVars, rdVars, wrVars, ret, hand, size, wait_count>>

WriteHold ==
  /\ pc = "w_hold"
  /\ Goto("w_alloc")
  /\ tx_noautoflush' = TRUE
  /\ Main
  /\ UNCHANGED <<devVars, rdVars, tx_packet, txIndex, usb_cdc_transmit_flush_timer,
                 transmit_previous_timeout, ret, hand, size, wait_count>>

\* tx_packet = usb_malloc()
TakeTxPacket ==
  /\ tx_packet' = Malloc(usb_buffer_available)
  /\ txIndex' = 0
  /\ usb_buffer_available' = usb_buffer_available \ {tx_packet'}

WriteAlloc ==
  /\ pc = "w_alloc"
  /\ TakeTxPacket
  /\ Goto(IF tx_packet' # None THEN "w_fill" ELSE "w_retry")
  /\ tx_noautoflush' = (tx_noautoflush /\ tx_packet' # None)
  /\ Main
  /\ UNCHANGED <<usb_rx_memory_needed, rxBank, txVars, rxVars, hwVars, cfgVars, rdVars,
                 usb_cdc_transmit_flush_timer, transmit_previous_timeout,
                 ret, hand, size, wait_count>>

\* Give up after TX_TIMEOUT attempts, at once after an earlier timeout.
WriteRetry ==
  /\ pc = "w_retry"
  /\ Main
  /\ UNCHANGED <<devVars, rdVars, tx_packet, txIndex, usb_cdc_transmit_flush_timer,
                 ret, hand>>
  /\ LET expired == wait_count + 1 > TX_TIMEOUT \/ transmit_previous_timeout IN
     \/ /\ expired
        /\ transmit_previous_timeout' = TRUE
        /\ GiveUp(tx_noautoflush)
     \/ /\ ~expired
        /\ Goto("w_wait")
        /\ wait_count' = wait_count + 1
        /\ UNCHANGED <<tx_noautoflush, transmit_previous_timeout, size>>

\* Copy what fits; a full packet goes to the endpoint.
WriteFill ==
  /\ pc = "w_fill"
  /\ Goto("w_timer")
  /\ Main
  /\ LET len == Lesser(CDC_TX_SIZE - txIndex, size) IN
     /\ size' = size - len
     /\ \/ /\ txIndex + len = CDC_TX_SIZE
           /\ UsbTx(tx_packet)
           /\ tx_packet' = None
           /\ txIndex' = 0
        \/ /\ txIndex + len < CDC_TX_SIZE
           /\ txIndex' = txIndex + len
           /\ UNCHANGED <<txVars, tx_packet>>
  /\ transmit_previous_timeout' = FALSE
  /\ UNCHANGED <<memVars, rxVars, hwVars, cfgVars, rdVars, tx_noautoflush,
                 usb_cdc_transmit_flush_timer, ret, hand, wait_count>>

\* Slip: the flush timer is set only when the packet was sent.
MutWriteTimer ==
  /\ pc = "w_timer"
  /\ Goto("w_loop")
  /\ usb_cdc_transmit_flush_timer' =
       IF tx_packet = None THEN TRANSMIT_FLUSH_TIMEOUT ELSE usb_cdc_transmit_flush_timer
  /\ Main
  /\ UNCHANGED <<devVars, rdVars, tx_packet, txIndex, tx_noautoflush,
                 transmit_previous_timeout, ret, hand, size, wait_count>>

WriteTimer ==
  /\ pc = "w_timer"
  /\ Goto("w_loop")
  /\ usb_cdc_transmit_flush_timer' = TRANSMIT_FLUSH_TIMEOUT
  /\ Main
  /\ UNCHANGED <<devVars, rdVars, tx_packet, txIndex, tx_noautoflush,
                 transmit_previous_timeout, ret, hand, size, wait_count>>

-----------------------------------------------------------------------------
(* usb_serial_write_buffer_free *)

WriteBufferFree ==
  /\ pc = "idle"
  /\ "write_buffer_free" \in calls
  /\ Goto("b_check")
  /\ tx_noautoflush' = TRUE
  /\ Main
  /\ UNCHANGED <<devVars, rdVars, tx_packet, txIndex, usb_cdc_transmit_flush_timer,
                 transmit_previous_timeout, ret, hand, size, wait_count>>

\* No packet, no configuration or too many queued packets: the answer is 0.
BufferFreeCheck ==
  /\ pc = "b_check"
  /\ Main
  /\ UNCHANGED <<devVars, rdVars, tx_packet, txIndex, usb_cdc_transmit_flush_timer,
                 transmit_previous_timeout, ret, hand, size, wait_count>>
  /\ \/ /\ tx_packet # None
        /\ Goto("b_done")
        /\ UNCHANGED tx_noautoflush
     \/ /\ tx_packet = None
        /\ usb_configuration # 0
        /\ Len(txQueue) < TX_PACKET_LIMIT
        /\ Goto("b_alloc")
        /\ UNCHANGED tx_noautoflush
     \/ /\ tx_packet = None
        /\ usb_configuration = 0 \/ Len(txQueue) >= TX_PACKET_LIMIT
        /\ Goto("idle")
        /\ tx_noautoflush' = FALSE

BufferFreeAlloc ==
  /\ pc = "b_alloc"
  /\ TakeTxPacket
  /\ Goto(IF tx_packet' # None THEN "b_done" ELSE "idle")
  /\ tx_noautoflush' = (tx_noautoflush /\ tx_packet' # None)
  /\ Main
  /\ UNCHANGED <<usb_rx_memory_needed, rxBank, txVars, rxVars, hwVars, cfgVars, rdVars,
                 usb_cdc_transmit_flush_timer, transmit_previous_timeout,
                 ret, hand, size, wait_count>>

\* The flush timer is left as it is.
BufferFreeDone ==
  /\ pc = "b_done"
  /\ Goto("idle")
  /\ tx_noautoflush' = FALSE
  /\ Main
  /\ UNCHANGED <<devVars, rdVars, tx_packet, txIndex, usb_cdc_transmit_flush_timer,
                 transmit_previous_timeout, ret, hand, size, wait_count>>

-----------------------------------------------------------------------------
(* usb_serial_flush_output *)

FlushOutput ==
  /\ pc = "idle"
  /\ "flush_output" \in calls
  /\ usb_configuration # 0
  /\ Goto("o_take")
  /\ tx_noautoflush' = TRUE
  /\ Main
  /\ UNCHANGED <<devVars, rdVars, tx_packet, txIndex, usb_cdc_transmit_flush_timer,
                 transmit_previous_timeout, ret, hand, size, wait_count>>

\* Take the partial packet, or an empty one; without memory, ask the
\* start-of-frame interrupt to try at the next frame.
FlushOutputTake ==
  /\ pc = "o_take"
  /\ Main
  /\ UNCHANGED <<usb_rx_memory_needed, rxBank, txVars, rxVars, hwVars, cfgVars, rdVars,
                 tx_noautoflush, transmit_previous_timeout, ret, size, wait_count>>
  /\ hand' = IF tx_packet # None THEN tx_packet ELSE Malloc(usb_buffer_available)
  /\ usb_buffer_available' = usb_buffer_available \ {hand'}
  /\ tx_packet' = None
  /\ txIndex' = 0
  /\ usb_cdc_transmit_flush_timer' = IF hand' # None THEN 0 ELSE 1
  /\ Goto(IF hand' # None THEN "o_send" ELSE "o_end")

FlushOutputSend ==
  /\ pc = "o_send"
  /\ UsbTx(hand)
  /\ hand' = None
  /\ Goto("o_end")
  /\ Main
  /\ UNCHANGED <<memVars, rxVars, hwVars, cfgVars, rdVars, wrVars,
                 ret, size, wait_count>>

FlushOutputEnd ==
  /\ pc = "o_end"
  /\ tx_noautoflush' = FALSE
  /\ Goto("idle")
  /\ Main
  /\ UNCHANGED <<devVars, rdVars, tx_packet, txIndex, usb_cdc_transmit_flush_timer,
                 transmit_previous_timeout, ret, hand, size, wait_count>>

-----------------------------------------------------------------------------
(* The start-of-frame branch of usb_isr, with usb_serial_flush_callback.   *)
(* Frames are a millisecond apart: the main thread, when it has anything   *)
(* to do, gets at least a step between two of them.                        *)

\* The timer ran out: send the partial packet, or an empty one.
FlushCallback ==
  \/ /\ tx_noautoflush
     /\ usb_cdc_transmit_flush_timer' = 0
     /\ UNCHANGED <<usb_buffer_available, txVars, tx_packet, txIndex>>
  \/ /\ ~tx_noautoflush
     /\ tx_packet # None
     /\ UsbTx(tx_packet)
     /\ tx_packet' = None
     /\ txIndex' = 0
     /\ usb_cdc_transmit_flush_timer' = 0
     /\ UNCHANGED usb_buffer_available
  \/ /\ ~tx_noautoflush
     /\ tx_packet = None
     /\ usb_buffer_available # {}
     /\ UsbTx(Malloc(usb_buffer_available))
     /\ usb_buffer_available' = usb_buffer_available \ {Malloc(usb_buffer_available)}
     /\ usb_cdc_transmit_flush_timer' = 0
     /\ UNCHANGED <<tx_packet, txIndex>>
  \/ /\ ~tx_noautoflush
     /\ tx_packet = None
     /\ usb_buffer_available = {}
     /\ usb_cdc_transmit_flush_timer' = 1
     /\ UNCHANGED <<usb_buffer_available, txVars, tx_packet, txIndex>>

StartOfFrame ==
  /\ usb_configuration # 0
  /\ pc = "idle" \/ mainRan
  /\ mainRan' = FALSE
  /\ \/ /\ usb_cdc_transmit_flush_timer = 1
        /\ FlushCallback
     \/ /\ usb_cdc_transmit_flush_timer # 1
        /\ usb_cdc_transmit_flush_timer' =
             IF usb_cdc_transmit_flush_timer = 0 THEN 0
             ELSE usb_cdc_transmit_flush_timer - 1
        /\ UNCHANGED <<usb_buffer_available, txVars, tx_packet, txIndex>>
  /\ UNCHANGED <<usb_rx_memory_needed, rxBank, rxVars, hwVars, cfgVars, rdVars,
                 tx_noautoflush, transmit_previous_timeout, mainVars>>

-----------------------------------------------------------------------------

Init ==
  /\ DevInit
  /\ rx_packet = None
  /\ rxLeft = 0
  /\ tx_packet = None
  /\ txIndex = 0
  /\ tx_noautoflush = FALSE
  /\ usb_cdc_transmit_flush_timer = 0
  /\ transmit_previous_timeout = FALSE
  /\ pc = "idle"
  /\ ret = "idle"
  /\ hand = None
  /\ size = 0
  /\ wait_count = 0
  /\ calls \in Programs
  /\ mainRan = FALSE

\* The main thread decides to make a call.
Call ==
  \/ Getchar \/ Peekchar \/ FlushInput
  \/ \E n \in 1 .. MaxSize : Read(n) \/ Write(n)
  \/ WriteBufferFree \/ FlushOutput

\* The main thread goes on with the call it is in.
Step ==
  \/ FreeTest \/ FreeScan \/ FreeMiss \/ FreePut
  \/ ReadLoop \/ FlushInputLoop
  \/ WriteLoop \/ WriteWait \/ WriteCount \/ WriteHold \/ WriteAlloc
  \/ WriteRetry \/ WriteFill \/ WriteTimer
  \/ BufferFreeCheck \/ BufferFreeAlloc \/ BufferFreeDone
  \/ FlushOutputTake \/ FlushOutputSend \/ FlushOutputEnd

Idle == UNCHANGED <<rdVars, wrVars, mainVars, mainRan>>

TokenDone == (TxDone \/ RxDone) /\ Idle
Configure == (\E v \in {0, 1} : SetConfiguration(v)) /\ Idle
Reset     == BusReset /\ Idle
Collect   == HostIn /\ Idle
Deliver   == (\E len \in 0 .. CDC_RX_SIZE : HostOut(len)) /\ Idle

Next ==
  \/ Call \/ Step
  \/ StartOfFrame \/ TokenDone \/ Configure \/ Reset
  \/ Collect \/ Deliver

Spec == Init /\ [][Next]_vars

\* A call begun is carried on, interrupts are taken, frames keep coming and
\* the host keeps collecting; it need not send, nor the main thread call.
Fairness ==
  /\ WF_vars(Step)
  /\ WF_vars(StartOfFrame)
  /\ WF_vars(TokenDone)
  /\ WF_vars(Collect)

FairSpec == Spec /\ Fairness

-----------------------------------------------------------------------------
(* Who holds a packet *)

RxArmed  == {rxBank[bank] : bank \in Banks} \ {None}
TxArmed  == {txBank[bank] : bank \in Banks} \ {None}
RxQueued == {rxQueue[i].pkt : i \in 1 .. Len(rxQueue)}
TxQueued == {txQueue[i] : i \in 1 .. Len(txQueue)}
InUse(p) == {p} \ {None}

Held == usb_buffer_available \cup RxArmed \cup TxArmed \cup RxQueued \cup TxQueued
          \cup InUse(rx_packet) \cup InUse(tx_packet) \cup InUse(hand)

\* Packets nobody holds: no usb_free will ever return them.
Lost == Packets \ Held

-----------------------------------------------------------------------------
(* Properties *)

PcValues == {"idle", "read", "flush_input",
             "free_test", "free_scan", "free_miss", "free_put",
             "w_loop", "w_wait", "w_count", "w_hold", "w_alloc", "w_retry",
             "w_fill", "w_timer", "b_check", "b_alloc", "b_done",
             "o_take", "o_send", "o_end"}

TypeOK ==
  /\ DevTypeOK
  /\ {rx_packet, tx_packet, hand} \subseteq Packets \cup {None}
  /\ rxLeft \in 0 .. CDC_RX_SIZE
  /\ txIndex \in 0 .. CDC_TX_SIZE - 1
  /\ tx_noautoflush \in BOOLEAN
  /\ usb_cdc_transmit_flush_timer \in 0 .. TRANSMIT_FLUSH_TIMEOUT
  /\ transmit_previous_timeout \in BOOLEAN
  /\ pc \in PcValues
  /\ ret \in {"idle", "read", "flush_input"}
  /\ size \in 0 .. MaxSize
  /\ wait_count \in 0 .. TX_TIMEOUT
  /\ calls \in Programs
  /\ mainRan \in BOOLEAN

\* A packet is in one place at a time: the free pool, a bank the hardware may
\* write or read, a queue, or a variable of the main thread.  Freed twice, or
\* armed while queued, two owners would overwrite each other's data.
ExclusiveOwner ==
  /\ rxBank["EVEN"] = rxBank["ODD"] => rxBank["EVEN"] = None
  /\ txBank["EVEN"] = txBank["ODD"] => txBank["EVEN"] = None
  /\ \A i, j \in 1 .. Len(rxQueue) : rxQueue[i].pkt = rxQueue[j].pkt => i = j
  /\ \A i, j \in 1 .. Len(txQueue) : txQueue[i] = txQueue[j] => i = j
  /\ usb_buffer_available \cap (RxArmed \cup TxArmed \cup RxQueued \cup TxQueued) = {}
  /\ RxArmed \cap (TxArmed \cup RxQueued \cup TxQueued) = {}
  /\ TxArmed \cap (RxQueued \cup TxQueued) = {}
  /\ RxQueued \cap TxQueued = {}
  /\ (InUse(rx_packet) \cup InUse(tx_packet) \cup InUse(hand)) \cap
       (usb_buffer_available \cup RxArmed \cup TxArmed \cup RxQueued \cup TxQueued) = {}
  /\ rx_packet = tx_packet => rx_packet = None
  /\ rx_packet = hand => hand = None
  /\ tx_packet = hand => hand = None

\* tx_state says which transmit banks hold a packet, and packets wait in the
\* queue only while both do: usb_tx never overwrites a bank in use, and no
\* queued packet is left behind with nothing in flight to trigger it.
TxStateMatchesBanks ==
  /\ txBank["EVEN"] = None <=>
       tx_state \in {"EVEN_FREE", "BOTH_FREE_EVEN_FIRST", "BOTH_FREE_ODD_FIRST"}
  /\ txBank["ODD"] = None <=>
       tx_state \in {"ODD_FREE", "BOTH_FREE_EVEN_FIRST", "BOTH_FREE_ODD_FIRST"}
  /\ txQueue # <<>> => tx_state \in NoneFree

\* A completed transaction names a bank that still holds its packet, and at
\* most one is outstanding per bank: the interrupt never frees a stale addr.
TokensNameArmedBanks ==
  \A i \in 1 .. Len(stat) :
    /\ (IF stat[i].dir = "rx" THEN rxBank ELSE txBank)[stat[i].bank] # None
    /\ \A j \in 1 .. Len(stat) :
         stat[i].dir = stat[j].dir /\ stat[i].bank = stat[j].bank => i = j

\* What the main thread holds at each point of its program: usb_free and
\* flush_output carry a packet in a local variable, a call that is about to
\* allocate tx_packet has none, one that fills it has one, and outside the
\* writing calls tx_noautoflush is only ever left set without a tx_packet.
MainThreadHolds ==
  /\ hand # None <=>
       pc \in {"free_test", "free_scan", "free_miss", "free_put", "o_send"}
  /\ rx_packet = None <=> rxLeft = 0
  /\ tx_packet = None => txIndex = 0
  /\ pc \in {"w_wait", "w_count", "w_hold", "w_alloc", "w_retry", "b_alloc"}
       => tx_packet = None
  /\ pc \in {"w_fill", "b_done"} => tx_packet # None
  /\ pc \in {"w_loop", "w_fill", "w_timer", "w_alloc", "b_check", "b_alloc",
             "b_done", "o_take", "o_send", "o_end"} => tx_noautoflush
  /\ tx_noautoflush /\ pc \in {"idle", "read", "flush_input", "free_test",
                                "free_scan", "free_miss", "free_put"}
       => tx_packet = None
  /\ pc \in {"w_wait", "w_count", "w_hold", "w_alloc", "w_retry", "w_fill"}
       => size > 0

\* The hardware and tx_state agree: the bank polled next is the one that holds a
\* packet not yet collected, or when none does the one usb_tx will fill.  (With
\* both banks in use whichever the token names is refilled; tx_state may then
\* call the wrong one first, which only a configuration looks at.)
InPhase ==
  LET filled == IF tx_state \in {"ODD_FREE", "BOTH_FREE_EVEN_FIRST"} THEN "EVEN" ELSE "ODD"
  IN  tx_state \notin NoneFree =>
        hwTx = (IF Pending("tx", filled) THEN Other(filled) ELSE filled)

\* Transfers, late tokens and refills keep tx_state and the hardware in phase: a
\* packet handed over is polled for, and before a later one.  They part only at a
\* bus reset, which moves the hardware to EVEN and leaves tx_state, or at a
\* configuration that cuts off packets not yet collected.
PhaseLostOnlyWhenCutOff ==
  [][InPhase /\ ~InPhase' =>
       \/ hostReady /\ ~hostReady' /\ configs' = configs
       \/ configs' = configs + 1 /\ TxArmed # {}]_vars

\* Once the count of starving banks is right it stays right, whoever serves
\* them and however the main thread's usb_free is interrupted, up to one step:
\* the reset after a scan that found no bank, made with interrupts on again.
\* (After that step it can be anything: a later usb_free may take it below 0.)
CountIsExact == usb_rx_memory_needed = Cardinality(Starving)
CountBrokenOnlyAtMiss == [][CountIsExact /\ ~CountIsExact' => pc = "free_miss"]_vars

\* Packets get lost only when the host configures a device that is starving
\* for receive memory, and then at most one for each receive bank.
LostOnlyByStarvedConfiguration ==
  [][Lost' # Lost =>
       /\ configs' = configs + 1
       /\ usb_rx_memory_needed > 0
       /\ Lost \subseteq Lost'
       /\ Cardinality(Lost' \ Lost) <= 2]_vars

\* usb_serial_available counts exactly the bytes a reader can still get.
BytesIn(queue) ==
  LET upTo[n \in 0 .. Len(queue)] == IF n = 0 THEN 0 ELSE upTo[n - 1] + queue[n].len
  IN  upTo[Len(queue)]

ByteCountIsQueued == usb_rx_byte_count_data = BytesIn(rxQueue)

\* Bytes left in a partial packet are sent (or given up with the
\* configuration) without a further call.
PartialPacketSent == (txIndex > 0) ~> (txIndex = 0 \/ usb_configuration = 0)

\* They are, unless the program asks for the free space: a frame that finds it
\* asking swallows the expiry of the timer, and nothing else keeps them back.
PartialPacketSentUnlessSwallowed ==
  (txIndex > 0) ~>
    \/ txIndex = 0 \/ usb_configuration = 0
    \/ "write_buffer_free" \in calls /\ usb_cdc_transmit_flush_timer = 0

\* "If any endpoints are starving for memory to receive packets, give this
\* memory to them immediately!" (usb_mem.c:88): while the host stays, a reader
\* that keeps reading, and so keeps freeing packets, ends the starvation.
StarvingEnds == \A bank \in Banks :
  (configs > 0 /\ rxBank[bank] = None) ~> (rxBank[bank] # None \/ ~hostReady)

\* It does, as long as the count is not reset while a bank starves.
StarvingEndsUnlessForgotten ==
  "getchar" \in calls => StarvingEnds \/ <>(pc = "free_miss" /\ Starving # {})

\* A program that calls getchar does so again and again, whatever else it calls.
ReaderSpec == FairSpec /\ SF_vars(Getchar)
=============================================================================
