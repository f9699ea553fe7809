------------------------------- MODULE UsbDev -------------------------------
(***************************************************************************)
(* The packet side of the Teensy USB device stack that the coil driver's   *)
(* firmware links (teensy3/usb_mem.c, teensy3/usb_dev.c), in its           *)
(* USB_SERIAL build: one receive endpoint (CDC_RX_ENDPOINT) and one        *)
(* transmit endpoint (CDC_TX_ENDPOINT), each with an EVEN and an ODD       *)
(* buffer descriptor ("bank").                                             *)
(*                                                                         *)
(* Three parties act: the USB interrupt, which runs to completion; the     *)
(* USB hardware, which moves packets while anything else runs; and the     *)
(* main thread, whose program is module UsbSerial.  This module holds the  *)
(* shared state, the operators the parties are built from, the interrupt's *)
(* token handling and the hardware.                                        *)
(***************************************************************************)
EXTENDS Integers, Sequences, FiniteSets

CONSTANTS NUM_USB_BUFFERS,   \* packets in the pool (12 in usb_desc.h)
          CDC_RX_SIZE,       \* longest received packet (64)
          MaxConfigs,        \* bound: SET_CONFIGURATION requests handled
          None               \* the NULL packet pointer, or a zero descriptor

Packets == 0 .. NUM_USB_BUFFERS - 1
Banks == {"EVEN", "ODD"}

ASSUME UsbDevAssumption ==
  /\ NUM_USB_BUFFERS \in Nat \ {0}
  /\ CDC_RX_SIZE \in Nat \ {0}
  /\ MaxConfigs \in Nat
  /\ None \notin Packets

VARIABLES
  usb_buffer_available,   \* packets whose bit is set in the free bitmap
  usb_rx_memory_needed,   \* uint8_t count of starving receive banks
  usb_configuration,      \* the configuration the host selected, 0 if none
  rxBank,                 \* packet armed in a receive bank, None iff desc == 0
  txBank,                 \* packet handed to a transmit bank, None if free
  rxQueue,                \* rx_first..rx_last, each packet with its len
  txQueue,                \* tx_first..tx_last
  tx_state,               \* which transmit bank software uses next
  usb_rx_byte_count_data, \* bytes waiting in rxQueue
  stat,                   \* hardware FIFO of completed transactions (USB0_STAT)
  hwRx, hwTx,             \* bank the hardware uses next in each direction
  hostRx, hostTx,         \* data toggle of the host, as the bank armed with it:
                          \* EVEN is DATA0, ODD is DATA1
  hostReady,              \* the host considers the device configured
  configs                 \* SET_CONFIGURATION requests so far (bounded)

memVars == <<usb_buffer_available, usb_rx_memory_needed, rxBank>>
txVars  == <<txBank, txQueue, tx_state>>
rxVars  == <<rxQueue, usb_rx_byte_count_data>>
hwVars  == <<stat, hwRx, hwTx, hostRx, hostTx, hostReady>>
cfgVars == <<usb_configuration, configs>>
devVars == <<memVars, txVars, rxVars, hwVars, cfgVars>>

-----------------------------------------------------------------------------
(* usb_mem.c *)

Other(bank) == IF bank = "EVEN" THEN "ODD" ELSE "EVEN"

\* usb_malloc returns the lowest-numbered free packet, NULL when there is none.
Malloc(free) ==
  IF free = {} THEN None ELSE CHOOSE p \in free : \A q \in free : p <= q

Starving == {bank \in Banks : rxBank[bank] = None}

\* usb_rx_memory fills the first starving bank, EVEN before ODD.
FirstStarving == IF rxBank["EVEN"] = None THEN "EVEN" ELSE "ODD"

\* Slip: the counter is not lowered when a bank is served.
MutDecremented(n) == n

Decremented(n) == (n - 1) % 256

\* Slip: a starving bank is not counted.
MutIncremented(n) == n

Incremented(n) == (n + 1) % 256

\* Slip: usb_free goes on to the mask write after usb_rx_memory.
MutGiveToRx(p) ==
  /\ Starving # {}
  /\ rxBank' = [rxBank EXCEPT ![FirstStarving] = p]
  /\ usb_rx_memory_needed' = Decremented(usb_rx_memory_needed)
  /\ usb_buffer_available' = usb_buffer_available \cup {p}

\* usb_rx_memory: hand packet p to a starving bank.
GiveToRx(p) ==
  /\ Starving # {}
  /\ rxBank' = [rxBank EXCEPT ![FirstStarving] = p]
  /\ usb_rx_memory_needed' = Decremented(usb_rx_memory_needed)
  /\ UNCHANGED usb_buffer_available

\* The mask write that ends usb_free.
PutInPool(p) == usb_buffer_available' = usb_buffer_available \cup {p}

RxWantsMemory == usb_rx_memory_needed # 0 /\ usb_configuration # 0

\* usb_free called by the interrupt, where nothing can come in between.
FreeInIsr(p) ==
  \/ /\ RxWantsMemory
     /\ GiveToRx(p)
  \/ /\ RxWantsMemory
     /\ Starving = {}
     /\ usb_rx_memory_needed' = 0
     /\ PutInPool(p)
     /\ UNCHANGED rxBank
  \/ /\ ~RxWantsMemory
     /\ PutInPool(p)
     /\ UNCHANGED <<usb_rx_memory_needed, rxBank>>

-----------------------------------------------------------------------------
(* usb_dev.c: transmit *)

NoneFree == {"NONE_FREE_EVEN_FIRST", "NONE_FREE_ODD_FIRST"}
TxStates == NoneFree \cup {"BOTH_FREE_EVEN_FIRST", "BOTH_FREE_ODD_FIRST",
                           "EVEN_FREE", "ODD_FREE"}

\* The bank usb_tx fills in a state that has one, and the state that follows.
FillBank(s) == IF s \in {"BOTH_FREE_EVEN_FIRST", "EVEN_FREE"} THEN "EVEN" ELSE "ODD"

\* Slip: EVEN_FREE is taken for a state that leaves a bank free.
MutAfterFill(s) ==
  CASE s = "BOTH_FREE_EVEN_FIRST" -> "ODD_FREE"
    [] s = "BOTH_FREE_ODD_FIRST"  -> "EVEN_FREE"
    [] s = "EVEN_FREE"            -> "ODD_FREE"
    [] s = "ODD_FREE"             -> "NONE_FREE_EVEN_FIRST"
    [] OTHER                      -> s

AfterFill(s) ==
  CASE s = "BOTH_FREE_EVEN_FIRST" -> "ODD_FREE"
    [] s = "BOTH_FREE_ODD_FIRST"  -> "EVEN_FREE"
    [] s = "EVEN_FREE"            -> "NONE_FREE_ODD_FIRST"
    [] s = "ODD_FREE"             -> "NONE_FREE_EVEN_FIRST"
    [] OTHER                      -> s

\* usb_tx: one critical section.
UsbTx(p) ==
  \/ /\ tx_state \in NoneFree
     /\ txQueue' = Append(txQueue, p)
     /\ UNCHANGED <<txBank, tx_state>>
  \/ /\ tx_state \notin NoneFree
     /\ txBank' = [txBank EXCEPT ![FillBank(tx_state)] = p]
     /\ tx_state' = AfterFill(tx_state)
     /\ UNCHANGED txQueue

\* Slip: with both banks free, the bank that goes first is swapped.
MutAfterDrain(s, bank) ==
  CASE s \in {"BOTH_FREE_EVEN_FIRST", "BOTH_FREE_ODD_FIRST"} -> s
    [] s = "EVEN_FREE" -> "BOTH_FREE_ODD_FIRST"
    [] s = "ODD_FREE"  -> "BOTH_FREE_EVEN_FIRST"
    [] OTHER           -> IF bank = "ODD" THEN "ODD_FREE" ELSE "EVEN_FREE"

\* usb_isr, a completed transmission with nothing queued behind it.
AfterDrain(s, bank) ==
  CASE s \in {"BOTH_FREE_EVEN_FIRST", "BOTH_FREE_ODD_FIRST"} -> s
    [] s = "EVEN_FREE" -> "BOTH_FREE_EVEN_FIRST"
    [] s = "ODD_FREE"  -> "BOTH_FREE_ODD_FIRST"
    [] OTHER           -> IF bank = "ODD" THEN "ODD_FREE" ELSE "EVEN_FREE"

\* SET_CONFIGURATION: the transmit state once both banks are cleared.
AfterConfigure(s) ==
  CASE s \in {"EVEN_FREE", "NONE_FREE_EVEN_FIRST"} -> "BOTH_FREE_EVEN_FIRST"
    [] s \in {"ODD_FREE", "NONE_FREE_ODD_FIRST"}   -> "BOTH_FREE_ODD_FIRST"
    [] OTHER                                       -> s

-----------------------------------------------------------------------------
(* usb_dev.c: usb_rx takes the first received packet, interrupts off *)

\* Slip: the bytes of the packet stay in the count.
MutUsbRx == rxQueue' = Tail(rxQueue) /\ UNCHANGED usb_rx_byte_count_data

UsbRx ==
  /\ rxQueue' = Tail(rxQueue)
  /\ usb_rx_byte_count_data' = usb_rx_byte_count_data - Head(rxQueue).len

-----------------------------------------------------------------------------
(* usb_isr: one action per kind of token and request *)

Tokens   == [dir : {"rx", "tx"}, bank : Banks, len : 0 .. CDC_RX_SIZE]
Received == [pkt : Packets, len : 1 .. CDC_RX_SIZE]

Token(dir, bank, len) == [dir |-> dir, bank |-> bank, len |-> len]
Pending(dir, bank) ==
  \E i \in 1 .. Len(stat) : stat[i].dir = dir /\ stat[i].bank = bank

\* Slip: the hardware is released before older tokens are handled.
MutTokensHandled == TRUE

\* The interrupt handles tokens in order, and a SETUP token suspends the
\* hardware until it is handled: requests and resets meet no older token.
TokensHandled == stat = <<>>

\* A transmitted packet: free it, then refill the same bank from the queue.
TxDone ==
  /\ stat # <<>>
  /\ Head(stat).dir = "tx"
  /\ stat' = Tail(stat)
  /\ LET bank == Head(stat).bank IN
       /\ FreeInIsr(txBank[bank])
       /\ \/ /\ txQueue = <<>>
             /\ txBank' = [txBank EXCEPT ![bank] = None]
             /\ tx_state' = AfterDrain(tx_state, bank)
             /\ UNCHANGED txQueue
          \/ /\ txQueue # <<>>
             /\ txBank' = [txBank EXCEPT ![bank] = Head(txQueue)]
             /\ tx_state' = AfterFill(tx_state)
             /\ txQueue' = Tail(txQueue)
  /\ UNCHANGED <<rxVars, hwRx, hwTx, hostRx, hostTx, hostReady, cfgVars>>

\* A received packet: queue it and arm the bank with a new one, or starve.
\* A packet of length zero is given straight back to its bank.
RxDone ==
  /\ stat # <<>>
  /\ Head(stat).dir = "rx"
  /\ stat' = Tail(stat)
  /\ LET bank == Head(stat).bank
         len  == Head(stat).len
         new  == Malloc(usb_buffer_available)
     IN \/ /\ len = 0
           /\ UNCHANGED <<memVars, rxVars>>
        \/ /\ len > 0
           /\ rxQueue' = Append(rxQueue, [pkt |-> rxBank[bank], len |-> len])
           /\ usb_rx_byte_count_data' = usb_rx_byte_count_data + len
           /\ rxBank' = [rxBank EXCEPT ![bank] = new]
           /\ usb_buffer_available' = usb_buffer_available \ {new}
           /\ usb_rx_memory_needed' =
                IF new = None THEN Incremented(usb_rx_memory_needed)
                              ELSE usb_rx_memory_needed
  /\ UNCHANGED <<txVars, hwRx, hwTx, hostRx, hostTx, hostReady, cfgVars>>

\* What a bank holds, as a sequence of at most one packet.
HeldBy(p) == IF p = None THEN <<>> ELSE <<p>>

\* Slip: the transmit queue is forgotten, not freed.
MutFreedInOrder ==
  HeldBy(rxBank["EVEN"]) \o HeldBy(rxBank["ODD"])
    \o HeldBy(txBank["EVEN"]) \o HeldBy(txBank["ODD"])
    \o [i \in 1 .. Len(rxQueue) |-> rxQueue[i].pkt]

\* The packets SET_CONFIGURATION frees, in the order it frees them: the banks
\* (EVEN, ODD of the receive endpoint, then of the transmit endpoint), then
\* the receive queue, then the transmit queue.
FreedInOrder ==
  HeldBy(rxBank["EVEN"]) \o HeldBy(rxBank["ODD"])
    \o HeldBy(txBank["EVEN"]) \o HeldBy(txBank["ODD"])
    \o [i \in 1 .. Len(rxQueue) |-> rxQueue[i].pkt] \o txQueue

\* Slip: a packet given to the ODD bank taken for lost.
MutCaptured(v) ==
  LET freed == FreedInOrder
  IN  IF v = 0 THEN {}
      ELSE {freed[i] : i \in {j \in 1 .. Len(freed) :
                                j <= Cardinality(Starving) /\ j <= usb_rx_memory_needed}}

\* While those calls run, usb_free still sees the old usb_rx_memory_needed:
\* the first packets freed go to starving banks.  A packet given to ODD by
\* the free of EVEN is freed again when the loop reaches ODD, every other one
\* is overwritten when the banks are armed, and is lost.
Captured(v) ==
  LET starving == IF rxBank["EVEN"] = None THEN Cardinality(Starving) ELSE 0
      freed    == FreedInOrder
  IN  IF v = 0 THEN {}
      ELSE {freed[i] : i \in {j \in 1 .. Len(freed) :
                                j <= starving /\ j <= usb_rx_memory_needed}}

PoolAfterFrees(v) ==
  LET freed == FreedInOrder
  IN  (usb_buffer_available \cup {freed[i] : i \in 1 .. Len(freed)}) \ Captured(v)

\* SET_CONFIGURATION: free everything, forget the queues, re-arm reception.
\* The host starts again from DATA0; the hardware goes on with the bank it was at.
SetConfiguration(v) ==
  /\ configs < MaxConfigs
  /\ TokensHandled
  /\ configs' = configs + 1
  /\ usb_configuration' = v
  /\ LET pool == PoolAfterFrees(v)
         even == Malloc(pool)
         odd  == Malloc(pool \ {even})
     IN /\ rxBank' = [bank \in Banks |-> IF bank = "EVEN" THEN even ELSE odd]
        /\ usb_buffer_available' = pool \ {even, odd}
        /\ usb_rx_memory_needed' = Cardinality({bank \in Banks : rxBank'[bank] = None})
  /\ txBank' = [bank \in Banks |-> None]
  /\ txQueue' = <<>>
  /\ tx_state' = AfterConfigure(tx_state)
  /\ rxQueue' = <<>>
  /\ usb_rx_byte_count_data' = 0
  /\ hostReady' = (v # 0)
  /\ hostRx' = "EVEN" /\ hostTx' = "EVEN"
  /\ UNCHANGED <<stat, hwRx, hwTx>>

\* The USBRST branch: ODDRST points the hardware back at the EVEN banks; the host
\* forgets its toggles with the configuration.
BusReset ==
  /\ hostReady
  /\ TokensHandled
  /\ hwRx' = "EVEN"
  /\ hwTx' = "EVEN"
  /\ hostRx' = "EVEN" /\ hostTx' = "EVEN"
  /\ hostReady' = FALSE
  /\ UNCHANGED <<memVars, txVars, rxVars, stat, cfgVars>>

-----------------------------------------------------------------------------
(* The hardware and the host *)

\* The host collects the packet of the bank whose turn it is.  It acknowledges
\* one with the other toggle too, but takes it for a repetition and drops it.
HostIn ==
  /\ hostReady
  /\ txBank[hwTx] # None
  /\ ~Pending("tx", hwTx)
  /\ stat' = Append(stat, Token("tx", hwTx, 0))
  /\ hwTx' = Other(hwTx)
  /\ \/ hostTx = hwTx /\ hostTx' = Other(hostTx)
     \/ hostTx # hwTx /\ UNCHANGED hostTx
  /\ UNCHANGED <<memVars, txVars, rxVars, hwRx, hostRx, hostReady, cfgVars>>

\* The host sends a packet to the bank whose turn it is.  With the toggle that
\* bank is armed for it is received; with the other one it is acknowledged and
\* dropped, and the bank stays armed.
HostOut(len) ==
  /\ hostReady
  /\ rxBank[hwRx] # None
  /\ ~Pending("rx", hwRx)
  /\ hostRx' = Other(hostRx)
  /\ \/ /\ hostRx = hwRx
        /\ stat' = Append(stat, Token("rx", hwRx, len))
        /\ hwRx' = Other(hwRx)
     \/ /\ hostRx # hwRx
        /\ UNCHANGED <<stat, hwRx>>
  /\ UNCHANGED <<memVars, txVars, rxVars, hwTx, hostTx, hostReady, cfgVars>>

DevInit ==
  /\ usb_buffer_available = Packets
  /\ usb_rx_memory_needed = 0
  /\ usb_configuration = 0
  /\ rxBank = [bank \in Banks |-> None]
  /\ txBank = [bank \in Banks |-> None]
  /\ rxQueue = <<>>
  /\ txQueue = <<>>
  /\ tx_state = "BOTH_FREE_EVEN_FIRST"
  /\ usb_rx_byte_count_data = 0
  /\ stat = <<>>
  /\ hwRx = "EVEN"
  /\ hwTx = "EVEN"
  /\ hostRx = "EVEN"
  /\ hostTx = "EVEN"
  /\ hostReady = FALSE
  /\ configs = 0

\* The part of the type invariant that is about the device.
DevTypeOK ==
  /\ usb_buffer_available \subseteq Packets
  /\ usb_rx_memory_needed \in 0 .. 255
  /\ usb_configuration \in {0, 1}
  /\ rxBank \in [Banks -> Packets \cup {None}]
  /\ txBank \in [Banks -> Packets \cup {None}]
  /\ rxQueue \in Seq(Received)
  /\ txQueue \in Seq(Packets)
  /\ tx_state \in TxStates
  /\ usb_rx_byte_count_data \in Int
  /\ stat \in Seq(Tokens)
  /\ hwRx \in Banks /\ hwTx \in Banks
  /\ hostRx \in Banks /\ hostTx \in Banks
  /\ hostReady \in BOOLEAN
  /\ configs \in 0 .. MaxConfigs
=============================================================================
