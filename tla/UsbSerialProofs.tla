-------------------------- MODULE UsbSerialProofs --------------------------
(***************************************************************************)
(* Proofs about UsbSerial, for every size of the packet pool, of packets   *)
(* and of every bound.                                                     *)
(*                                                                         *)
(* First what a step does to the registers, descriptors and variables      *)
(* (TypeOK, Inv), and what follows from it.  Then that a packet of the     *)
(* pool has one owner at a time (ExclusiveOwner): each step moves at most  *)
(* two packets, each from the place that holds it to one other place.      *)
(* From it, what the port keeps count of: the receive banks that wait for  *)
(* a packet (CountBrokenOnlyAtMiss), the packets themselves, lost only by  *)
(* a configuration of a starved port (LostOnlyByStarvedConfiguration), and *)
(* the bytes queued (ByteCountIsQueued).                                   *)
(***************************************************************************)
EXTENDS UsbSerial, FiniteSetTheorems, SequenceTheorems, WellFoundedInduction, TLAPS

-----------------------------------------------------------------------------
(* Facts about the operators *)

\* The assumptions on the constants, one by one.
LEMMA ConstantTypes ==
  /\ CDC_TX_SIZE \in Nat /\ CDC_TX_SIZE >= 1
  /\ TRANSMIT_FLUSH_TIMEOUT \in Nat /\ TRANSMIT_FLUSH_TIMEOUT >= 1
  /\ MaxSize \in Nat /\ MaxSize >= 1
  /\ TX_PACKET_LIMIT \in Nat
  /\ TX_TIMEOUT \in Nat
  /\ NUM_USB_BUFFERS \in Nat
  /\ CDC_RX_SIZE \in Nat /\ CDC_RX_SIZE >= 1
  /\ MaxConfigs \in Nat
  /\ None \notin Packets
BY UsbDevAssumption, UsbSerialAssumption

\* A nonempty set of naturals has a least element.
LEMMA LeastElement ==
  ASSUME NEW T, T \subseteq Nat, T # {}
  PROVE  \E p \in T : \A q \in T : p <= q
<1>1. \E p \in T : \A q \in T : <<q, p>> \notin OpToRel(<, Nat)
  BY NatLessThanWellFounded, WFMin
<1>2. PICK p \in T : \A q \in T : <<q, p>> \notin OpToRel(<, Nat)
  BY <1>1
<1>3. \A q \in T : ~(q < p)
  BY <1>2 DEF OpToRel
<1> QED BY <1>3

\* usb_malloc returns a free packet whenever there is one, NULL otherwise.
LEMMA MallocReturns ==
  ASSUME NEW free, free \subseteq Packets
  PROVE  /\ free = {} => Malloc(free) = None
         /\ free # {} => Malloc(free) \in free
         /\ Malloc(free) \in Packets \cup {None}
         /\ Malloc(free) # None <=> free # {}
<1>1. CASE free = {}
  BY <1>1 DEF Malloc
<1>2. CASE free # {}
  <2>1. free \subseteq Nat
    BY UsbDevAssumption DEF Packets
  <2>2. PICK p \in free : \A q \in free : p <= q
    BY <2>1, <1>2, LeastElement
  <2>3. Malloc(free) = CHOOSE x \in free : \A q \in free : x <= q
    BY <1>2 DEF Malloc
  <2>4. Malloc(free) \in free
    BY <2>2, <2>3
  <2> QED BY <2>4, ConstantTypes
<1> QED BY <1>1, <1>2

\* usb_tx keeps the transmit state in step with the banks, and never clears one.
LEMMA UsbTxKeeps ==
  ASSUME DevTypeOK, TxStateMatchesBanks, NEW p \in Packets, UsbTx(p)
  PROVE  /\ txBank' \in [Banks -> Packets \cup {None}]
         /\ txQueue' \in Seq(Packets)
         /\ tx_state' \in TxStates
         /\ TxStateMatchesBanks'
         /\ \A bank \in Banks : txBank[bank] # None => txBank'[bank] # None
<1> USE ConstantTypes DEF TxStates, NoneFree
<1>1. CASE tx_state \in NoneFree
  <2>1. txQueue' = Append(txQueue, p) /\ txBank' = txBank /\ tx_state' = tx_state
    BY <1>1 DEF UsbTx
  <2>2. txQueue' \in Seq(Packets)
    BY <2>1 DEF DevTypeOK
  <2>3. TxStateMatchesBanks'
    BY <1>1, <2>1 DEF TxStateMatchesBanks
  <2> QED BY <2>1, <2>2, <2>3 DEF DevTypeOK
<1>2. CASE tx_state \notin NoneFree
  <2>1. txBank' = [txBank EXCEPT ![FillBank(tx_state)] = p]
    BY <1>2 DEF UsbTx
  <2>2. tx_state' = AfterFill(tx_state) /\ txQueue' = txQueue
    BY <1>2 DEF UsbTx
  <2>3. txQueue = <<>>
    BY <1>2 DEF TxStateMatchesBanks
  <2> QED BY <1>2, <2>1, <2>2, <2>3 DEF DevTypeOK, TxStateMatchesBanks,
                                       FillBank, AfterFill, Banks
<1> QED BY <1>1, <1>2

\* usb_rx_memory and usb_free give a packet back without disarming a bank.
LEMMA GiveToRxKeeps ==
  ASSUME DevTypeOK, NEW p \in Packets, GiveToRx(p)
  PROVE  /\ rxBank' \in [Banks -> Packets \cup {None}]
         /\ usb_rx_memory_needed' \in 0 .. 255
         /\ \A bank \in Banks : rxBank[bank] # None => rxBank'[bank] # None
BY ConstantTypes DEF GiveToRx, DevTypeOK, FirstStarving, Starving, Decremented, Banks

\* A packet freed by the interrupt ends in a starving bank or in the pool.
LEMMA FreeInIsrKeeps ==
  ASSUME DevTypeOK, NEW p \in Packets, FreeInIsr(p)
  PROVE  /\ usb_buffer_available' \subseteq Packets
         /\ usb_rx_memory_needed' \in 0 .. 255
         /\ rxBank' \in [Banks -> Packets \cup {None}]
         /\ \A bank \in Banks : rxBank[bank] # None => rxBank'[bank] # None
<1>1. CASE RxWantsMemory /\ GiveToRx(p)
  <2>1. usb_buffer_available' \subseteq Packets
    BY <1>1 DEF GiveToRx, DevTypeOK
  <2> QED BY <1>1, <2>1, GiveToRxKeeps
<1>2. CASE ~(RxWantsMemory /\ GiveToRx(p))
  <2>1. /\ usb_buffer_available' = usb_buffer_available \cup {p}
        /\ usb_rx_memory_needed' = 0 \/ usb_rx_memory_needed' = usb_rx_memory_needed
        /\ rxBank' = rxBank
    BY <1>2, Zenon DEF FreeInIsr, PutInPool
  <2>2. /\ usb_buffer_available \subseteq Packets
        /\ usb_rx_memory_needed \in 0 .. 255
        /\ rxBank \in [Banks -> Packets \cup {None}]
    BY DEF DevTypeOK
  <2> QED BY <2>1, <2>2
<1> QED BY <1>1, <1>2

\* Outstanding tokens keep naming armed banks while no bank is disarmed.
LEMMA TokensKept ==
  ASSUME DevTypeOK, TokensNameArmedBanks, stat' = stat,
         \A bank \in Banks : rxBank[bank] # None => rxBank'[bank] # None,
         \A bank \in Banks : txBank[bank] # None => txBank'[bank] # None
  PROVE  TokensNameArmedBanks'
<1>1. \A i \in 1 .. Len(stat) : stat[i].bank \in Banks
  <2>1. TAKE i \in 1 .. Len(stat)
  <2>2. stat[i] \in Tokens
    BY DEF DevTypeOK
  <2> QED BY <2>2 DEF Tokens
<1> QED BY <1>1 DEF TokensNameArmedBanks

-----------------------------------------------------------------------------
(* The inductive invariant: types, what the transmit state and the tokens  *)
(* say of the banks, and what the main thread holds at each point.         *)

MainTypeOK ==
  /\ {rx_packet, tx_packet, hand} \subseteq Packets \cup {None}
  /\ rxLeft \in 0 .. CDC_RX_SIZE
  /\ txIndex \in 0 .. CDC_TX_SIZE - 1
  /\ tx_noautoflush \in BOOLEAN
  /\ usb_cdc_transmit_flush_timer \in 0 .. TRANSMIT_FLUSH_TIMEOUT
  /\ transmit_previous_timeout \in BOOLEAN
  /\ pc \in PcValues
  /\ ret \in {"idle", "read", "flush_input"}
  /\ size \in 0 .. MaxSize
  /\ wait_count \in 0 .. TX_TIMEOUT
  /\ mainRan \in BOOLEAN

DevInv  == DevTypeOK /\ TokensNameArmedBanks /\ TxStateMatchesBanks
MainInv == MainTypeOK /\ MainThreadHolds
Inv     == DevInv /\ MainInv

\* A step that leaves the device alone keeps its part of the invariant.
LEMMA DevUnchanged ==
  ASSUME DevInv, UNCHANGED devVars
  PROVE  DevInv'
BY DEF DevInv, DevTypeOK, TokensNameArmedBanks, TxStateMatchesBanks, Tokens,
       devVars, memVars, txVars, rxVars, hwVars, cfgVars, Packets

\* usb_rx and the consumption of a packet keep queue, reader and hand in step.
LEMMA ConsumeKeeps ==
  ASSUME Inv, CanRead, pc \in {"idle", "read"},
         NEW qty \in 0 .. Available, NEW l \in {"idle", "read"},
         Consume(qty, l)
  PROVE  /\ DevInv'
         /\ rx_packet' \in Packets \cup {None}
         /\ rxLeft' \in 0 .. CDC_RX_SIZE
         /\ rx_packet' = None <=> rxLeft' = 0
         /\ hand' \in Packets \cup {None}
         /\ ret' \in {"idle", "read", "flush_input"}
         /\ \/ pc' = l /\ hand' = None
            \/ pc' = "free_test" /\ hand' # None
         /\ UNCHANGED <<wrVars, wait_count>>
<1>1. hand = None /\ hand \in Packets \cup {None} /\ ret \in {"idle", "read", "flush_input"}
  BY DEF Inv, MainInv, MainTypeOK, MainThreadHolds
<1>2. /\ rx_packet \in Packets \cup {None}
      /\ rxLeft \in 0 .. CDC_RX_SIZE
      /\ rx_packet = None <=> rxLeft = 0
  BY DEF Inv, MainInv, MainTypeOK, MainThreadHolds
<1>3. rxQueue \in Seq(Received) /\ usb_rx_byte_count_data \in Int
  BY DEF Inv, DevInv, DevTypeOK
<1>4. rx_packet = None => rxQueue # <<>> /\ Head(rxQueue) \in Received
  BY <1>3 DEF CanRead
<1>5. rxQueue' \in Seq(Received) /\ usb_rx_byte_count_data' \in Int
  <2>1. CASE rx_packet = None
    <3>1. rxQueue' = Tail(rxQueue)
          /\ usb_rx_byte_count_data' = usb_rx_byte_count_data - Head(rxQueue).len
      BY <2>1 DEF Consume, UsbRx
    <3>2. Head(rxQueue).len \in Int
      BY <2>1, <1>4 DEF Received
    <3> QED BY <2>1, <3>1, <3>2, <1>3, <1>4
  <2>2. CASE rx_packet # None
    BY <2>2, <1>3 DEF Consume, rxVars
  <2> QED BY <2>1, <2>2
<1>6. UNCHANGED <<memVars, txVars, hwVars, cfgVars, wrVars, wait_count>>
  BY DEF Consume
<1>7. DevInv'
  BY <1>5, <1>6 DEF Inv, DevInv, DevTypeOK, TokensNameArmedBanks, TxStateMatchesBanks,
                    memVars, txVars, hwVars, cfgVars, Packets
<1> DEFINE pkt  == IF rx_packet = None THEN Head(rxQueue).pkt ELSE rx_packet
           left == (IF rx_packet = None THEN Head(rxQueue).len ELSE rxLeft) - qty
<1>8. pkt \in Packets /\ left \in 0 .. CDC_RX_SIZE
  BY <1>2, <1>4, ConstantTypes DEF Received, Available
<1>9. \/ left = 0 /\ rx_packet' = None /\ rxLeft' = 0 /\ CallFree(pkt, l)
      \/ /\ left # 0 /\ rx_packet' = pkt /\ rxLeft' = left
         /\ pc' = l /\ ret' = ret /\ hand' = hand
  BY DEF Consume, Goto
<1> HIDE DEF pkt, left
<1> QED BY <1>1, <1>6, <1>7, <1>8, <1>9, ConstantTypes DEF CallFree

\* What there is to read holds at least a byte.
LEMMA AvailableType ==
  ASSUME Inv, CanRead
  PROVE  Available \in 1 .. CDC_RX_SIZE
<1>1. /\ rx_packet \in Packets \cup {None}
      /\ rxLeft \in 0 .. CDC_RX_SIZE
      /\ rx_packet = None <=> rxLeft = 0
      /\ rxQueue \in Seq(Received)
  BY DEF Inv, MainInv, MainTypeOK, MainThreadHolds, DevInv, DevTypeOK
<1>2. rx_packet = None => Head(rxQueue) \in Received
  BY <1>1 DEF CanRead
<1> QED BY <1>1, <1>2, ConstantTypes DEF Available, Received

\* A step that writes no bank and no queue, and frees at most into the pool.
LEMMA OnlyPoolChanges ==
  ASSUME DevInv, usb_buffer_available' \subseteq Packets,
         usb_rx_memory_needed' \in 0 .. 255,
         UNCHANGED <<rxBank, txVars, rxVars, hwVars, cfgVars>>
  PROVE  DevInv'
BY DEF DevInv, DevTypeOK, TokensNameArmedBanks, TxStateMatchesBanks,
       txVars, rxVars, hwVars, cfgVars, Packets

\* A step whose only effect on the endpoints is one usb_tx.
LEMMA OnlyTxChanges ==
  ASSUME DevInv, NEW p \in Packets, UsbTx(p),
         usb_buffer_available' \subseteq Packets,
         UNCHANGED <<usb_rx_memory_needed, rxBank, rxVars, hwVars, cfgVars>>
  PROVE  DevInv'
<1>1. /\ txBank' \in [Banks -> Packets \cup {None}]
      /\ txQueue' \in Seq(Packets)
      /\ tx_state' \in TxStates
      /\ TxStateMatchesBanks'
      /\ \A bank \in Banks : txBank[bank] # None => txBank'[bank] # None
  BY UsbTxKeeps DEF DevInv
<1>2. DevTypeOK'
  BY <1>1 DEF DevInv, DevTypeOK, rxVars, hwVars, cfgVars, Packets
<1>3. TokensNameArmedBanks'
  BY <1>1, TokensKept DEF DevInv, hwVars
<1> QED BY <1>1, <1>2, <1>3 DEF DevInv

-----------------------------------------------------------------------------
(* The main thread's steps keep the invariant *)

\* A call of the main thread keeps the invariant as it starts.
LEMMA InvCall ==
  ASSUME Inv, Call
  PROVE  Inv'
<1>1. ASSUME Getchar
      PROVE  Inv'
  <2>1. /\ CanRead /\ pc = "idle" /\ Consume(1, "idle")
        /\ mainRan' = TRUE /\ size' = size
    BY <1>1 DEF Getchar, Main
  <2>2. 1 \in 0 .. Available
    BY <2>1, AvailableType
  <2>3. /\ DevInv'
        /\ rx_packet' \in Packets \cup {None}
        /\ rxLeft' \in 0 .. CDC_RX_SIZE
        /\ rx_packet' = None <=> rxLeft' = 0
        /\ hand' \in Packets \cup {None}
        /\ ret' \in {"idle", "read", "flush_input"}
        /\ \/ pc' = "idle" /\ hand' = None
           \/ pc' = "free_test" /\ hand' # None
        /\ UNCHANGED <<wrVars, wait_count>>
    BY <2>1, <2>2, ConsumeKeeps
  <2>4. MainTypeOK'
    BY <2>1, <2>3, ConstantTypes DEF Inv, MainInv, MainTypeOK, wrVars, PcValues
  <2>5. MainThreadHolds'
    BY <2>1, <2>3 DEF Inv, MainInv, MainThreadHolds, wrVars
  <2> QED BY <2>3, <2>4, <2>5 DEF Inv, MainInv
<1>2. ASSUME Peekchar
      PROVE  Inv'
  <2>1. /\ CanRead /\ pc = "idle" /\ Consume(0, "idle")
        /\ mainRan' = TRUE /\ size' = size
    BY <1>2 DEF Peekchar, Main
  <2>2. 0 \in 0 .. Available
    BY <2>1, AvailableType
  <2>3. /\ DevInv'
        /\ rx_packet' \in Packets \cup {None}
        /\ rxLeft' \in 0 .. CDC_RX_SIZE
        /\ rx_packet' = None <=> rxLeft' = 0
        /\ hand' \in Packets \cup {None}
        /\ ret' \in {"idle", "read", "flush_input"}
        /\ \/ pc' = "idle" /\ hand' = None
           \/ pc' = "free_test" /\ hand' # None
        /\ UNCHANGED <<wrVars, wait_count>>
    BY <2>1, <2>2, ConsumeKeeps
  <2>4. MainTypeOK'
    BY <2>1, <2>3, ConstantTypes DEF Inv, MainInv, MainTypeOK, wrVars, PcValues
  <2>5. MainThreadHolds'
    BY <2>1, <2>3 DEF Inv, MainInv, MainThreadHolds, wrVars
  <2> QED BY <2>3, <2>4, <2>5 DEF Inv, MainInv
<1>3. ASSUME FlushInput
      PROVE  Inv'
  <2>1. DevInv'
    BY <1>3, DevUnchanged DEF Inv, FlushInput, CallFree
  <2>2. MainTypeOK'
    BY <1>3, ConstantTypes
       DEF Inv, MainInv, MainTypeOK, MainThreadHolds, rdVars, wrVars, mainVars,
           Goto, Main, PcValues, FlushInput, CallFree
  <2>3. MainThreadHolds'
    BY <1>3, ConstantTypes
       DEF Inv, MainInv, MainTypeOK, MainThreadHolds, rdVars, wrVars, mainVars,
           Goto, Main, PcValues, FlushInput, CallFree
  <2> QED BY <2>1, <2>2, <2>3 DEF Inv, MainInv
<1>4. ASSUME NEW n \in 1 .. MaxSize, Read(n)
      PROVE  Inv'
  <2>1. DevInv'
    BY <1>4, DevUnchanged DEF Inv, Read
  <2>2. MainTypeOK'
    BY <1>4, ConstantTypes
       DEF Inv, MainInv, MainTypeOK, MainThreadHolds, rdVars, wrVars, mainVars,
           Goto, Main, PcValues, Read
  <2>3. MainThreadHolds'
    BY <1>4, ConstantTypes
       DEF Inv, MainInv, MainTypeOK, MainThreadHolds, rdVars, wrVars, mainVars,
           Goto, Main, PcValues, Read
  <2> QED BY <2>1, <2>2, <2>3 DEF Inv, MainInv
<1>5. ASSUME NEW n \in 1 .. MaxSize, Write(n)
      PROVE  Inv'
  <2>1. DevInv'
    BY <1>5, DevUnchanged DEF Inv, Write
  <2>2. MainTypeOK'
    BY <1>5, ConstantTypes
       DEF Inv, MainInv, MainTypeOK, MainThreadHolds, rdVars, wrVars, mainVars,
           Goto, Main, PcValues, Write
  <2>3. MainThreadHolds'
    BY <1>5, ConstantTypes
       DEF Inv, MainInv, MainTypeOK, MainThreadHolds, rdVars, wrVars, mainVars,
           Goto, Main, PcValues, Write
  <2> QED BY <2>1, <2>2, <2>3 DEF Inv, MainInv
<1>6. ASSUME WriteBufferFree
      PROVE  Inv'
  <2>1. DevInv'
    BY <1>6, DevUnchanged DEF Inv, WriteBufferFree
  <2>2. MainTypeOK'
    BY <1>6, ConstantTypes
       DEF Inv, MainInv, MainTypeOK, MainThreadHolds, rdVars, wrVars, mainVars,
           Goto, Main, PcValues, WriteBufferFree
  <2>3. MainThreadHolds'
    BY <1>6, ConstantTypes
       DEF Inv, MainInv, MainTypeOK, MainThreadHolds, rdVars, wrVars, mainVars,
           Goto, Main, PcValues, WriteBufferFree
  <2> QED BY <2>1, <2>2, <2>3 DEF Inv, MainInv
<1>7. ASSUME FlushOutput
      PROVE  Inv'
  <2>1. DevInv'
    BY <1>7, DevUnchanged DEF Inv, FlushOutput
  <2>2. MainTypeOK'
    BY <1>7, ConstantTypes
       DEF Inv, MainInv, MainTypeOK, MainThreadHolds, rdVars, wrVars, mainVars,
           Goto, Main, PcValues, FlushOutput
  <2>3. MainThreadHolds'
    BY <1>7, ConstantTypes
       DEF Inv, MainInv, MainTypeOK, MainThreadHolds, rdVars, wrVars, mainVars,
           Goto, Main, PcValues, FlushOutput
  <2> QED BY <2>1, <2>2, <2>3 DEF Inv, MainInv
<1> QED BY <1>1, <1>2, <1>3, <1>4, <1>5, <1>6, <1>7 DEF Call

\* The steps of usb_free keep it.
LEMMA InvUsbFree ==
  ASSUME Inv, FreeTest \/ FreeScan \/ FreeMiss \/ FreePut
  PROVE  Inv'
<1>1. ASSUME FreeTest
      PROVE  Inv'
  <2>1. DevInv'
    BY <1>1, DevUnchanged DEF Inv, FreeTest
  <2>2. MainTypeOK'
    BY <1>1, ConstantTypes
       DEF Inv, MainInv, MainTypeOK, MainThreadHolds, rdVars, wrVars, mainVars,
           Goto, Main, PcValues, FreeTest
  <2>3. MainThreadHolds'
    BY <1>1, ConstantTypes
       DEF Inv, MainInv, MainTypeOK, MainThreadHolds, rdVars, wrVars, mainVars,
           Goto, Main, PcValues, FreeTest
  <2> QED BY <2>1, <2>2, <2>3 DEF Inv, MainInv
<1>2. ASSUME FreeScan
      PROVE  Inv'
  <2>1. /\ pc = "free_scan" /\ hand # None /\ hand \in Packets
        /\ ret \in {"idle", "read", "flush_input"}
    BY <1>2 DEF FreeScan, Inv, MainInv, MainTypeOK, MainThreadHolds
  <2>2. /\ \/ pc' = ret /\ hand' = None
           \/ pc' = "free_miss" /\ hand' = hand
        /\ mainRan' = TRUE
        /\ UNCHANGED <<txVars, rxVars, hwVars, cfgVars, rdVars, wrVars,
                       ret, size, wait_count>>
    BY <1>2 DEF FreeScan, Goto, Main
  <2>3. DevInv'
    <3>1. CASE GiveToRx(hand)
      <4>1. /\ rxBank' \in [Banks -> Packets \cup {None}]
            /\ usb_rx_memory_needed' \in 0 .. 255
            /\ \A bank \in Banks : rxBank[bank] # None => rxBank'[bank] # None
        BY <2>1, <3>1, GiveToRxKeeps DEF Inv, DevInv
      <4>2. usb_buffer_available' = usb_buffer_available
        BY <3>1 DEF GiveToRx
      <4>3. DevTypeOK'
        BY <2>2, <4>1, <4>2 DEF Inv, DevInv, DevTypeOK, txVars, rxVars, hwVars,
                                cfgVars, Packets
      <4>4. TokensNameArmedBanks'
        BY <2>2, <4>1, TokensKept DEF Inv, DevInv, hwVars, txVars
      <4>5. TxStateMatchesBanks'
        BY <2>2 DEF Inv, DevInv, TxStateMatchesBanks, txVars
      <4> QED BY <4>3, <4>4, <4>5 DEF DevInv
    <3>2. CASE ~GiveToRx(hand)
      BY <1>2, <3>2, <2>2, DevUnchanged DEF Inv, FreeScan, devVars, memVars
    <3> QED BY <3>1, <3>2
  <2>4. MainTypeOK'
    BY <2>1, <2>2, ConstantTypes DEF Inv, MainInv, MainTypeOK, rdVars, wrVars, PcValues
  <2>5. MainThreadHolds'
    BY <2>1, <2>2 DEF Inv, MainInv, MainThreadHolds, rdVars, wrVars
  <2> QED BY <2>3, <2>4, <2>5 DEF Inv, MainInv
<1>3. ASSUME FreeMiss
      PROVE  Inv'
  <2>1. usb_buffer_available' \subseteq Packets /\ usb_rx_memory_needed' \in 0 .. 255
    BY <1>3 DEF FreeMiss, Inv, DevInv, DevTypeOK
  <2>2. DevInv'
    BY <1>3, <2>1, OnlyPoolChanges DEF FreeMiss, Inv
  <2>3. MainTypeOK' /\ MainThreadHolds'
    BY <1>3, ConstantTypes
       DEF Inv, MainInv, MainTypeOK, MainThreadHolds, rdVars, wrVars,
           Goto, Main, PcValues, FreeMiss
  <2> QED BY <2>2, <2>3 DEF Inv, MainInv
<1>4. ASSUME FreePut
      PROVE  Inv'
  <2>1. hand \in Packets /\ ret \in {"idle", "read", "flush_input"} /\ pc = "free_put"
    BY <1>4 DEF FreePut, Inv, MainInv, MainTypeOK, MainThreadHolds
  <2>2. usb_buffer_available' \subseteq Packets /\ usb_rx_memory_needed' \in 0 .. 255
    BY <1>4, <2>1 DEF FreePut, PutInPool, Inv, DevInv, DevTypeOK
  <2>3. DevInv'
    BY <1>4, <2>2, OnlyPoolChanges DEF FreePut, Inv
  <2>4. MainTypeOK' /\ MainThreadHolds'
    BY <1>4, <2>1, ConstantTypes
       DEF Inv, MainInv, MainTypeOK, MainThreadHolds, rdVars, wrVars,
           Goto, Main, PcValues, FreePut
  <2> QED BY <2>3, <2>4 DEF Inv, MainInv
<1> QED BY <1>1, <1>2, <1>3, <1>4

\* So do the steps of usb_serial_read and usb_serial_flush_input,
LEMMA InvReading ==
  ASSUME Inv, ReadLoop \/ FlushInputLoop
  PROVE  Inv'
<1>1. ASSUME ReadLoop
      PROVE  Inv'
  <2>1. CASE size > 0 /\ CanRead /\ Consume(Lesser(size, Available), "read")
                /\ size' = size - Lesser(size, Available)
    <3> DEFINE qty == Lesser(size, Available)
    <3>1. /\ pc = "read" /\ mainRan' = TRUE
          /\ Consume(qty, "read") /\ size' = size - qty /\ CanRead
      BY <1>1, <2>1 DEF ReadLoop, Main
    <3>2. size \in 1 .. MaxSize
      BY <2>1, ConstantTypes DEF Inv, MainInv, MainTypeOK
    <3>3. Available \in 1 .. CDC_RX_SIZE
      BY <3>1, AvailableType
    <3>4. qty \in 0 .. Available /\ size - qty \in 0 .. MaxSize
      BY <3>2, <3>3, ConstantTypes DEF Lesser
    <3> HIDE DEF qty
    <3>5. /\ DevInv'
          /\ rx_packet' \in Packets \cup {None}
          /\ rxLeft' \in 0 .. CDC_RX_SIZE
          /\ rx_packet' = None <=> rxLeft' = 0
          /\ hand' \in Packets \cup {None}
          /\ ret' \in {"idle", "read", "flush_input"}
          /\ \/ pc' = "read" /\ hand' = None
             \/ pc' = "free_test" /\ hand' # None
          /\ UNCHANGED <<wrVars, wait_count>>
      BY <3>1, <3>4, ConsumeKeeps
    <3>6. MainTypeOK'
      BY <3>1, <3>4, <3>5 DEF Inv, MainInv, MainTypeOK, wrVars, PcValues
    <3>7. MainThreadHolds'
      BY <3>1, <3>5 DEF Inv, MainInv, MainThreadHolds, wrVars
    <3> QED BY <3>5, <3>6, <3>7 DEF Inv, MainInv
  <2>2. CASE pc' = "idle" /\ size' = 0
                /\ UNCHANGED <<devVars, rdVars, wrVars, ret, hand, wait_count>>
    <3>1. pc = "read" /\ mainRan' = TRUE
      BY <1>1 DEF ReadLoop, Main
    <3>2. DevInv'
      BY <2>2, DevUnchanged DEF Inv
    <3>3. MainTypeOK' /\ MainThreadHolds'
      BY <2>2, <3>1, ConstantTypes
         DEF Inv, MainInv, MainTypeOK, MainThreadHolds, rdVars, wrVars, PcValues
    <3> QED BY <3>2, <3>3 DEF Inv, MainInv
  <2> QED BY <1>1, <2>1, <2>2 DEF ReadLoop, Goto
<1>2. ASSUME FlushInputLoop
      PROVE  Inv'
  <2>1. /\ pc = "flush_input" /\ mainRan' = TRUE
        /\ UNCHANGED <<rdVars, wrVars, size, wait_count>>
        /\ hand = None
    BY <1>2 DEF FlushInputLoop, Main, Inv, MainInv, MainThreadHolds
  <2>2. CASE rxQueue # <<>>
    <3>1. /\ pc' = "free_test" /\ hand' = Head(rxQueue).pkt /\ ret' = "flush_input"
          /\ rxQueue' = Tail(rxQueue)
          /\ usb_rx_byte_count_data' = usb_rx_byte_count_data - Head(rxQueue).len
          /\ UNCHANGED <<memVars, txVars, hwVars, cfgVars>>
      BY <1>2, <2>2 DEF FlushInputLoop, CallFree, UsbRx
    <3>2. rxQueue \in Seq(Received) /\ usb_rx_byte_count_data \in Int
      BY DEF Inv, DevInv, DevTypeOK
    <3>3. Head(rxQueue) \in Received /\ Tail(rxQueue) \in Seq(Received)
      BY <2>2, <3>2
    <3>4. Head(rxQueue).pkt \in Packets /\ Head(rxQueue).len \in Int
      BY <3>3 DEF Received
    <3>5. rxQueue' \in Seq(Received) /\ usb_rx_byte_count_data' \in Int
      BY <3>1, <3>2, <3>3, <3>4
    <3>6. DevInv'
      BY <3>1, <3>5 DEF Inv, DevInv, DevTypeOK, TokensNameArmedBanks, TxStateMatchesBanks,
                        memVars, txVars, hwVars, cfgVars, Packets
    <3>7. hand' # None /\ hand' \in Packets
      BY <3>1, <3>4, ConstantTypes
    <3>8. MainTypeOK'
      BY <2>1, <3>1, <3>7 DEF Inv, MainInv, MainTypeOK, rdVars, wrVars, PcValues
    <3>9. MainThreadHolds'
      BY <2>1, <3>1, <3>7 DEF Inv, MainInv, MainThreadHolds, rdVars, wrVars
    <3> QED BY <3>6, <3>8, <3>9 DEF Inv, MainInv
  <2>3. CASE rxQueue = <<>>
    <3>1. pc' = "idle" /\ UNCHANGED <<devVars, ret, hand>>
      BY <1>2, <2>3 DEF FlushInputLoop, Goto
    <3>2. DevInv'
      BY <3>1, DevUnchanged DEF Inv
    <3>3. MainTypeOK' /\ MainThreadHolds'
      BY <2>1, <3>1
         DEF Inv, MainInv, MainTypeOK, MainThreadHolds, rdVars, wrVars, PcValues
    <3> QED BY <3>2, <3>3 DEF Inv, MainInv
  <2> QED BY <2>2, <2>3
<1> QED BY <1>1, <1>2

\* those of usb_serial_write,
LEMMA InvWriting ==
  ASSUME Inv, \/ WriteLoop \/ WriteWait \/ WriteCount \/ WriteHold
              \/ WriteAlloc \/ WriteRetry \/ WriteFill \/ WriteTimer
  PROVE  Inv'
<1>1. ASSUME WriteLoop
      PROVE  Inv'
  <2>1. DevInv'
    BY <1>1, DevUnchanged DEF Inv, WriteLoop
  <2>2. /\ pc = "w_loop" /\ mainRan' = TRUE
        /\ UNCHANGED <<rdVars, tx_packet, txIndex, usb_cdc_transmit_flush_timer,
                       transmit_previous_timeout, ret, hand, size>>
    BY <1>1 DEF WriteLoop, Main
  <2>3. \/ /\ size > 0
           /\ \/ pc' = "w_wait" /\ tx_packet = None
              \/ pc' = "w_fill" /\ tx_packet # None
           /\ wait_count' = 0
           /\ UNCHANGED tx_noautoflush
        \/ /\ pc' = "idle" /\ tx_noautoflush' = FALSE
           /\ UNCHANGED wait_count
    BY <1>1 DEF WriteLoop, Goto
  <2>4. tx_noautoflush' \in BOOLEAN /\ transmit_previous_timeout' \in BOOLEAN
        /\ mainRan' \in BOOLEAN
    BY <2>2, <2>3, Zenon DEF Inv, MainInv, MainTypeOK
  <2>5. /\ size' \in 0 .. MaxSize /\ wait_count' \in 0 .. TX_TIMEOUT
        /\ pc' \in PcValues
    BY <2>2, <2>3, ConstantTypes DEF Inv, MainInv, MainTypeOK, PcValues
  <2>6. MainTypeOK'
    BY <2>2, <2>4, <2>5 DEF Inv, MainInv, MainTypeOK, rdVars
  <2>7. MainThreadHolds'
    BY <2>2, <2>3 DEF Inv, MainInv, MainThreadHolds, rdVars
  <2> QED BY <2>1, <2>6, <2>7 DEF Inv, MainInv
<1>2. ASSUME WriteWait
      PROVE  Inv'
  <2>1. DevInv'
    BY <1>2, DevUnchanged DEF Inv, WriteWait
  <2>2. /\ pc = "w_wait" /\ mainRan' = TRUE
        /\ UNCHANGED <<rdVars, tx_packet, txIndex, usb_cdc_transmit_flush_timer,
                       transmit_previous_timeout, ret, hand, wait_count>>
    BY <1>2 DEF WriteWait, Main, GiveUp
  <2>3. \/ pc' = "idle" /\ tx_noautoflush' = FALSE /\ size' = 0
        \/ pc' = "w_count" /\ UNCHANGED <<tx_noautoflush, size>>
    BY <1>2 DEF WriteWait, GiveUp, Goto
  <2>4. tx_noautoflush' \in BOOLEAN /\ transmit_previous_timeout' \in BOOLEAN
        /\ mainRan' \in BOOLEAN
    BY <2>2, <2>3, Zenon DEF Inv, MainInv, MainTypeOK
  <2>5. /\ size' \in 0 .. MaxSize /\ wait_count' \in 0 .. TX_TIMEOUT
        /\ pc' \in PcValues
    BY <2>2, <2>3, ConstantTypes DEF Inv, MainInv, MainTypeOK, PcValues
  <2>6. MainTypeOK'
    BY <2>2, <2>4, <2>5 DEF Inv, MainInv, MainTypeOK, rdVars
  <2>7. MainThreadHolds'
    BY <2>2, <2>3 DEF Inv, MainInv, MainThreadHolds, rdVars
  <2> QED BY <2>1, <2>6, <2>7 DEF Inv, MainInv
<1>3. ASSUME WriteCount
      PROVE  Inv'
  <2>1. DevInv'
    BY <1>3, DevUnchanged DEF Inv, WriteCount
  <2>2. MainTypeOK'
    BY <1>3, ConstantTypes
       DEF Inv, MainInv, MainTypeOK, MainThreadHolds, rdVars, wrVars, mainVars,
           Goto, Main, PcValues, WriteCount
  <2>3. MainThreadHolds'
    BY <1>3, ConstantTypes
       DEF Inv, MainInv, MainTypeOK, MainThreadHolds, rdVars, wrVars, mainVars,
           Goto, Main, PcValues, WriteCount
  <2> QED BY <2>1, <2>2, <2>3 DEF Inv, MainInv
<1>4. ASSUME WriteHold
      PROVE  Inv'
  <2>1. DevInv'
    BY <1>4, DevUnchanged DEF Inv, WriteHold
  <2>2. MainTypeOK'
    BY <1>4, ConstantTypes
       DEF Inv, MainInv, MainTypeOK, MainThreadHolds, rdVars, wrVars, mainVars,
           Goto, Main, PcValues, WriteHold
  <2>3. MainThreadHolds'
    BY <1>4, ConstantTypes
       DEF Inv, MainInv, MainTypeOK, MainThreadHolds, rdVars, wrVars, mainVars,
           Goto, Main, PcValues, WriteHold
  <2> QED BY <2>1, <2>2, <2>3 DEF Inv, MainInv
<1>5. ASSUME WriteAlloc
      PROVE  Inv'
  <2>1. /\ pc = "w_alloc" /\ tx_packet = None /\ tx_noautoflush = TRUE
        /\ hand = None
    BY <1>5, Zenon DEF WriteAlloc, Inv, MainInv, MainThreadHolds, MainTypeOK
  <2>2. tx_packet' = Malloc(usb_buffer_available)
    BY <1>5 DEF WriteAlloc, TakeTxPacket
  <2>3. tx_packet' \in Packets \cup {None}
    BY <2>2, MallocReturns DEF Inv, DevInv, DevTypeOK
  <2>4. usb_buffer_available' \subseteq Packets /\ usb_rx_memory_needed' \in 0 .. 255
    BY <1>5 DEF WriteAlloc, TakeTxPacket, Inv, DevInv, DevTypeOK
  <2>5. DevInv'
    BY <1>5, <2>4, OnlyPoolChanges DEF WriteAlloc, Inv
  <2>6. /\ \/ tx_packet' # None /\ pc' = "w_fill" /\ tx_noautoflush' = TRUE
           \/ tx_packet' = None /\ pc' = "w_retry" /\ tx_noautoflush' = FALSE
        /\ txIndex' = 0 /\ mainRan' = TRUE
        /\ UNCHANGED <<rdVars, usb_cdc_transmit_flush_timer, transmit_previous_timeout,
                       ret, hand, size, wait_count>>
    BY <1>5, <2>1, Zenon DEF WriteAlloc, TakeTxPacket, Goto, Main
  <2>7. tx_noautoflush' \in BOOLEAN /\ transmit_previous_timeout' \in BOOLEAN
        /\ mainRan' \in BOOLEAN
    BY <2>6, Zenon DEF Inv, MainInv, MainTypeOK
  <2>8. txIndex' \in 0 .. CDC_TX_SIZE - 1 /\ pc' \in PcValues
    BY <2>6, ConstantTypes DEF PcValues
  <2>9. MainTypeOK'
    BY <2>3, <2>6, <2>7, <2>8 DEF Inv, MainInv, MainTypeOK, rdVars
  <2>10. MainThreadHolds'
    BY <2>1, <2>3, <2>6 DEF Inv, MainInv, MainThreadHolds, rdVars
  <2> QED BY <2>5, <2>9, <2>10 DEF Inv, MainInv
<1>6. ASSUME WriteRetry
      PROVE  Inv'
  <2>1. DevInv'
    BY <1>6, DevUnchanged DEF Inv, WriteRetry
  <2>2. /\ pc = "w_retry" /\ mainRan' = TRUE /\ tx_noautoflush' = tx_noautoflush
        /\ UNCHANGED <<rdVars, tx_packet, txIndex, usb_cdc_transmit_flush_timer,
                       ret, hand>>
    BY <1>6 DEF WriteRetry, Main, GiveUp
  <2>3. \/ /\ pc' = "idle" /\ size' = 0
           /\ transmit_previous_timeout' = TRUE /\ wait_count' = wait_count
        \/ /\ pc' = "w_wait" /\ ~(wait_count + 1 > TX_TIMEOUT)
           /\ wait_count' = wait_count + 1
           /\ UNCHANGED <<transmit_previous_timeout, size>>
    BY <1>6 DEF WriteRetry, GiveUp, Goto
  <2>4. tx_noautoflush' \in BOOLEAN /\ transmit_previous_timeout' \in BOOLEAN
        /\ mainRan' \in BOOLEAN
    BY <2>2, <2>3, Zenon DEF Inv, MainInv, MainTypeOK
  <2>5. /\ size' \in 0 .. MaxSize /\ wait_count' \in 0 .. TX_TIMEOUT
        /\ pc' \in PcValues
    BY <2>2, <2>3, ConstantTypes DEF Inv, MainInv, MainTypeOK, PcValues
  <2>6. MainTypeOK'
    BY <2>2, <2>4, <2>5 DEF Inv, MainInv, MainTypeOK, rdVars
  <2>7. MainThreadHolds'
    BY <2>2, <2>3 DEF Inv, MainInv, MainThreadHolds, rdVars
  <2> QED BY <2>1, <2>6, <2>7 DEF Inv, MainInv
<1>7. ASSUME WriteFill
      PROVE  Inv'
  <2> DEFINE len == Lesser(CDC_TX_SIZE - txIndex, size)
  <2>1. /\ pc = "w_fill" /\ tx_packet # None /\ tx_packet \in Packets
        /\ size > 0 /\ size \in 0 .. MaxSize /\ txIndex \in 0 .. CDC_TX_SIZE - 1
    BY <1>7 DEF WriteFill, Inv, MainInv, MainTypeOK, MainThreadHolds
  <2>2. /\ pc' = "w_timer" /\ mainRan' = TRUE /\ size' = size - len
        /\ transmit_previous_timeout' = FALSE
        /\ UNCHANGED <<memVars, rxVars, hwVars, cfgVars, rdVars, tx_noautoflush,
                       usb_cdc_transmit_flush_timer, ret, hand, wait_count>>
    BY <1>7 DEF WriteFill, Goto, Main
  <2>3. \/ UsbTx(tx_packet) /\ tx_packet' = None /\ txIndex' = 0
        \/ /\ txIndex + len < CDC_TX_SIZE /\ txIndex' = txIndex + len
           /\ UNCHANGED <<txVars, tx_packet>>
    BY <1>7 DEF WriteFill
  <2>4. len \in Nat /\ size - len \in 0 .. MaxSize
    BY <2>1, ConstantTypes DEF Lesser
  <2> HIDE DEF len
  <2>5. DevInv'
    <3>1. CASE UsbTx(tx_packet)
      <4>1. usb_buffer_available' \subseteq Packets
        BY <2>2 DEF memVars, Inv, DevInv, DevTypeOK
      <4> QED BY <2>1, <2>2, <3>1, <4>1, OnlyTxChanges DEF Inv, memVars
    <3>2. CASE UNCHANGED txVars
      BY <2>2, <3>2, DevUnchanged DEF Inv, devVars
    <3> QED BY <2>3, <3>1, <3>2
  <2>6. txIndex' \in 0 .. CDC_TX_SIZE - 1 /\ tx_packet' \in Packets \cup {None}
    BY <2>1, <2>3, <2>4, ConstantTypes
  <2>7. tx_packet' = None => txIndex' = 0
    BY <2>1, <2>3
  <2>8. MainTypeOK'
    BY <2>2, <2>4, <2>6 DEF Inv, MainInv, MainTypeOK, rdVars, PcValues
  <2>9. MainThreadHolds'
    BY <2>1, <2>2, <2>7 DEF Inv, MainInv, MainThreadHolds, rdVars
  <2> QED BY <2>5, <2>8, <2>9 DEF Inv, MainInv
<1>8. ASSUME WriteTimer
      PROVE  Inv'
  <2>1. DevInv'
    BY <1>8, DevUnchanged DEF Inv, WriteTimer
  <2>2. MainTypeOK'
    BY <1>8, ConstantTypes
       DEF Inv, MainInv, MainTypeOK, MainThreadHolds, rdVars, wrVars, mainVars,
           Goto, Main, PcValues, WriteTimer
  <2>3. MainThreadHolds'
    BY <1>8, ConstantTypes
       DEF Inv, MainInv, MainTypeOK, MainThreadHolds, rdVars, wrVars, mainVars,
           Goto, Main, PcValues, WriteTimer
  <2> QED BY <2>1, <2>2, <2>3 DEF Inv, MainInv
<1> QED BY <1>1, <1>2, <1>3, <1>4, <1>5, <1>6, <1>7, <1>8

\* those of usb_serial_write_buffer_free,
LEMMA InvBufferFree ==
  ASSUME Inv, BufferFreeCheck \/ BufferFreeAlloc \/ BufferFreeDone
  PROVE  Inv'
<1>1. ASSUME BufferFreeCheck
      PROVE  Inv'
  <2>1. DevInv'
    BY <1>1, DevUnchanged DEF Inv, BufferFreeCheck
  <2>2. MainTypeOK'
    BY <1>1, ConstantTypes
       DEF Inv, MainInv, MainTypeOK, MainThreadHolds, rdVars, wrVars, mainVars,
           Goto, Main, PcValues, BufferFreeCheck
  <2>3. MainThreadHolds'
    BY <1>1, ConstantTypes
       DEF Inv, MainInv, MainTypeOK, MainThreadHolds, rdVars, wrVars, mainVars,
           Goto, Main, PcValues, BufferFreeCheck
  <2> QED BY <2>1, <2>2, <2>3 DEF Inv, MainInv
<1>2. ASSUME BufferFreeAlloc
      PROVE  Inv'
  <2>1. /\ pc = "b_alloc" /\ tx_packet = None /\ tx_noautoflush = TRUE
        /\ hand = None
    BY <1>2, Zenon DEF BufferFreeAlloc, Inv, MainInv, MainThreadHolds, MainTypeOK
  <2>2. tx_packet' = Malloc(usb_buffer_available)
    BY <1>2 DEF BufferFreeAlloc, TakeTxPacket
  <2>3. tx_packet' \in Packets \cup {None}
    BY <2>2, MallocReturns DEF Inv, DevInv, DevTypeOK
  <2>4. usb_buffer_available' \subseteq Packets /\ usb_rx_memory_needed' \in 0 .. 255
    BY <1>2 DEF BufferFreeAlloc, TakeTxPacket, Inv, DevInv, DevTypeOK
  <2>5. DevInv'
    BY <1>2, <2>4, OnlyPoolChanges DEF BufferFreeAlloc, Inv
  <2>6. /\ \/ tx_packet' # None /\ pc' = "b_done" /\ tx_noautoflush' = TRUE
           \/ tx_packet' = None /\ pc' = "idle" /\ tx_noautoflush' = FALSE
        /\ txIndex' = 0 /\ mainRan' = TRUE
        /\ UNCHANGED <<rdVars, usb_cdc_transmit_flush_timer, transmit_previous_timeout,
                       ret, hand, size, wait_count>>
    BY <1>2, <2>1, Zenon DEF BufferFreeAlloc, TakeTxPacket, Goto, Main
  <2>7. tx_noautoflush' \in BOOLEAN /\ transmit_previous_timeout' \in BOOLEAN
        /\ mainRan' \in BOOLEAN
    BY <2>6, Zenon DEF Inv, MainInv, MainTypeOK
  <2>8. txIndex' \in 0 .. CDC_TX_SIZE - 1 /\ pc' \in PcValues
    BY <2>6, ConstantTypes DEF PcValues
  <2>9. MainTypeOK'
    BY <2>3, <2>6, <2>7, <2>8 DEF Inv, MainInv, MainTypeOK, rdVars
  <2>10. MainThreadHolds'
    BY <2>1, <2>3, <2>6 DEF Inv, MainInv, MainThreadHolds, rdVars
  <2> QED BY <2>5, <2>9, <2>10 DEF Inv, MainInv
<1>3. ASSUME BufferFreeDone
      PROVE  Inv'
  <2>1. DevInv'
    BY <1>3, DevUnchanged DEF Inv, BufferFreeDone
  <2>2. /\ pc = "b_done" /\ mainRan' = TRUE
        /\ UNCHANGED <<rdVars, tx_packet, txIndex, usb_cdc_transmit_flush_timer,
                       transmit_previous_timeout, ret, hand, size, wait_count>>
    BY <1>3 DEF BufferFreeDone, Main
  <2>3. /\ pc' = "idle" /\ tx_noautoflush' = FALSE
    BY <1>3, ConstantTypes DEF BufferFreeDone, Goto, Inv, MainInv, MainTypeOK
  <2>4. MainTypeOK'
    BY <2>2, <2>3, ConstantTypes DEF Inv, MainInv, MainTypeOK, rdVars, PcValues
  <2>5. MainThreadHolds'
    BY <2>2, <2>3 DEF Inv, MainInv, MainThreadHolds, rdVars
  <2> QED BY <2>1, <2>4, <2>5 DEF Inv, MainInv
<1> QED BY <1>1, <1>2, <1>3

\* and those of usb_serial_flush_output.
LEMMA InvFlushOutput ==
  ASSUME Inv, FlushOutputTake \/ FlushOutputSend \/ FlushOutputEnd
  PROVE  Inv'
<1>1. ASSUME FlushOutputTake
      PROVE  Inv'
  <2>1. /\ pc = "o_take" /\ tx_packet \in Packets \cup {None}
        /\ usb_buffer_available \subseteq Packets /\ usb_rx_memory_needed \in 0 .. 255
    BY <1>1 DEF FlushOutputTake, Inv, DevInv, DevTypeOK, MainInv, MainTypeOK
  <2>2. hand' \in Packets \cup {None}
    BY <1>1, <2>1, MallocReturns DEF FlushOutputTake
  <2>3. usb_buffer_available' \subseteq Packets /\ usb_rx_memory_needed' \in 0 .. 255
    BY <1>1, <2>1 DEF FlushOutputTake
  <2>4. DevInv'
    BY <1>1, <2>3, OnlyPoolChanges DEF FlushOutputTake, Inv
  <2>5. /\ \/ hand' # None /\ pc' = "o_send" /\ usb_cdc_transmit_flush_timer' = 0
           \/ hand' = None /\ pc' = "o_end" /\ usb_cdc_transmit_flush_timer' = 1
        /\ tx_packet' = None /\ txIndex' = 0 /\ mainRan' = TRUE
        /\ UNCHANGED <<rdVars, tx_noautoflush, transmit_previous_timeout, ret, size,
                       wait_count>>
    BY <1>1 DEF FlushOutputTake, Goto, Main
  <2>6. MainTypeOK'
    BY <2>2, <2>5, ConstantTypes DEF Inv, MainInv, MainTypeOK, rdVars, PcValues
  <2>7. MainThreadHolds'
    BY <2>1, <2>5 DEF Inv, MainInv, MainThreadHolds, rdVars
  <2> QED BY <2>4, <2>6, <2>7 DEF Inv, MainInv
<1>2. ASSUME FlushOutputSend
      PROVE  Inv'
  <2>1. /\ pc = "o_send" /\ hand \in Packets /\ UsbTx(hand)
        /\ usb_buffer_available \subseteq Packets
    BY <1>2 DEF FlushOutputSend, Inv, DevInv, DevTypeOK, MainInv, MainTypeOK,
                MainThreadHolds
  <2>2. /\ hand' = None /\ pc' = "o_end" /\ mainRan' = TRUE
        /\ UNCHANGED <<memVars, rxVars, hwVars, cfgVars, rdVars, wrVars,
                       ret, size, wait_count>>
    BY <1>2 DEF FlushOutputSend, Goto, Main
  <2>3. DevInv'
    BY <2>1, <2>2, OnlyTxChanges DEF Inv, memVars
  <2>4. MainTypeOK'
    BY <2>2 DEF Inv, MainInv, MainTypeOK, rdVars, wrVars, PcValues
  <2>5. MainThreadHolds'
    BY <2>1, <2>2 DEF Inv, MainInv, MainThreadHolds, rdVars, wrVars
  <2> QED BY <2>3, <2>4, <2>5 DEF Inv, MainInv
<1>3. ASSUME FlushOutputEnd
      PROVE  Inv'
  <2>1. DevInv'
    BY <1>3, DevUnchanged DEF Inv, FlushOutputEnd
  <2>2. MainTypeOK'
    BY <1>3, ConstantTypes
       DEF Inv, MainInv, MainTypeOK, MainThreadHolds, rdVars, wrVars, mainVars,
           Goto, Main, PcValues, FlushOutputEnd
  <2>3. MainThreadHolds'
    BY <1>3, ConstantTypes
       DEF Inv, MainInv, MainTypeOK, MainThreadHolds, rdVars, wrVars, mainVars,
           Goto, Main, PcValues, FlushOutputEnd
  <2> QED BY <2>1, <2>2, <2>3 DEF Inv, MainInv
<1> QED BY <1>1, <1>2, <1>3

-----------------------------------------------------------------------------
(* The interrupt's and the hardware's steps keep the invariant *)

\* A step that leaves the main thread alone keeps its part of the invariant.
LEMMA MainUnchanged ==
  ASSUME MainInv, UNCHANGED <<rdVars, wrVars, mainVars, mainRan>>
  PROVE  MainInv'
<1>1. MainTypeOK'
  BY DEF MainInv, MainTypeOK, rdVars, wrVars, mainVars, PcValues
<1>2. MainThreadHolds'
  BY DEF MainInv, MainThreadHolds, rdVars, wrVars, mainVars
<1> QED BY <1>1, <1>2 DEF MainInv

\* The flush callback touches tx_packet only while tx_noautoflush is clear.
LEMMA InvStartOfFrame ==
  ASSUME Inv, StartOfFrame
  PROVE  Inv'
<1>1. /\ usb_buffer_available \subseteq Packets
      /\ tx_packet \in Packets \cup {None}
      /\ usb_cdc_transmit_flush_timer \in 0 .. TRANSMIT_FLUSH_TIMEOUT
      /\ txIndex \in 0 .. CDC_TX_SIZE - 1
  BY DEF Inv, DevInv, DevTypeOK, MainInv, MainTypeOK
<1>2. /\ mainRan' = FALSE
      /\ UNCHANGED <<usb_rx_memory_needed, rxBank, rxVars, hwVars, cfgVars, rdVars,
                     tx_noautoflush, transmit_previous_timeout, mainVars>>
  BY DEF StartOfFrame
<1>3. CASE \E p \in Packets : UsbTx(p) /\ usb_buffer_available' \subseteq Packets
           /\ ~tx_noautoflush /\ usb_cdc_transmit_flush_timer' = 0
           /\ \/ tx_packet' = None /\ txIndex' = 0
              \/ tx_packet' = None /\ tx_packet = None /\ txIndex' = txIndex
  <2>1. PICK p \in Packets : UsbTx(p) /\ usb_buffer_available' \subseteq Packets
    BY <1>3
  <2>2. /\ ~tx_noautoflush /\ usb_cdc_transmit_flush_timer' = 0
        /\ \/ tx_packet' = None /\ txIndex' = 0
           \/ tx_packet' = None /\ tx_packet = None /\ txIndex' = txIndex
    BY <1>3
  <2>3. DevInv'
    BY <1>2, <2>1, OnlyTxChanges DEF Inv
  <2>4. tx_packet' = None /\ txIndex' = 0
    BY <2>2 DEF Inv, MainInv, MainThreadHolds
  <2>5. MainTypeOK'
    <3>1. usb_cdc_transmit_flush_timer' = 0
      BY <2>2
    <3>2. mainRan' \in BOOLEAN
      BY <1>2
    <3> QED BY <1>2, <2>4, <3>1, <3>2, ConstantTypes
            DEF Inv, MainInv, MainTypeOK, rdVars, mainVars, PcValues
  <2>6. MainThreadHolds'
    BY <1>2, <2>2, <2>4 DEF Inv, MainInv, MainThreadHolds, rdVars, mainVars
  <2> QED BY <2>3, <2>5, <2>6 DEF Inv, MainInv
<1>4. CASE /\ UNCHANGED <<usb_buffer_available, txVars, tx_packet, txIndex>>
           /\ usb_cdc_transmit_flush_timer' \in 0 .. TRANSMIT_FLUSH_TIMEOUT
  <2>1. DevInv'
    BY <1>2, <1>4, DevUnchanged DEF Inv, devVars, memVars
  <2>2. MainTypeOK'
    BY <1>2, <1>4 DEF Inv, MainInv, MainTypeOK, rdVars, mainVars, PcValues
  <2>3. MainThreadHolds'
    BY <1>2, <1>4 DEF Inv, MainInv, MainThreadHolds, rdVars, mainVars
  <2> QED BY <2>1, <2>2, <2>3 DEF Inv, MainInv
<1>5. CASE usb_cdc_transmit_flush_timer # 1
  <2>1. /\ UNCHANGED <<usb_buffer_available, txVars, tx_packet, txIndex>>
        /\ usb_cdc_transmit_flush_timer' =
             IF usb_cdc_transmit_flush_timer = 0 THEN 0
             ELSE usb_cdc_transmit_flush_timer - 1
    BY <1>5 DEF StartOfFrame
  <2>2. usb_cdc_transmit_flush_timer' \in 0 .. TRANSMIT_FLUSH_TIMEOUT
    BY <1>1, <2>1, ConstantTypes
  <2> QED BY <1>4, <2>1, <2>2
<1>6. CASE usb_cdc_transmit_flush_timer = 1
  <2>1. FlushCallback
    BY <1>6 DEF StartOfFrame
  <2>2. CASE tx_noautoflush
    BY <1>4, <2>1, <2>2, ConstantTypes DEF FlushCallback
  <2>3. CASE ~tx_noautoflush /\ tx_packet # None
    <3>1. /\ UsbTx(tx_packet) /\ tx_packet' = None /\ txIndex' = 0
          /\ usb_cdc_transmit_flush_timer' = 0
          /\ usb_buffer_available' = usb_buffer_available
      BY <2>1, <2>3 DEF FlushCallback
    <3> QED BY <1>1, <1>3, <2>3, <3>1
  <2>4. CASE ~tx_noautoflush /\ tx_packet = None /\ usb_buffer_available # {}
    <3>1. Malloc(usb_buffer_available) \in Packets
      BY <1>1, <2>4, MallocReturns
    <3>2. /\ UsbTx(Malloc(usb_buffer_available))
          /\ usb_buffer_available' =
               usb_buffer_available \ {Malloc(usb_buffer_available)}
          /\ usb_cdc_transmit_flush_timer' = 0
          /\ UNCHANGED <<tx_packet, txIndex>>
      BY <2>1, <2>4 DEF FlushCallback
    <3> QED BY <1>1, <1>3, <2>4, <3>1, <3>2
  <2>5. CASE ~tx_noautoflush /\ tx_packet = None /\ usb_buffer_available = {}
    <3>1. /\ usb_cdc_transmit_flush_timer' = 1
          /\ UNCHANGED <<usb_buffer_available, txVars, tx_packet, txIndex>>
      BY <2>1, <2>5 DEF FlushCallback
    <3> QED BY <1>4, <3>1, ConstantTypes
  <2> QED BY <2>2, <2>3, <2>4, <2>5
<1> QED BY <1>5, <1>6

\* The interrupt's token names a bank that holds a packet, and no later one
\* names the same bank.
LEMMA HeadToken ==
  ASSUME DevInv, stat # <<>>
  PROVE  /\ Head(stat) \in Tokens
         /\ Head(stat).dir = "rx" => rxBank[Head(stat).bank] \in Packets
         /\ Head(stat).dir = "tx" => txBank[Head(stat).bank] \in Packets
         /\ Tail(stat) \in Seq(Tokens)
         /\ Len(Tail(stat)) = Len(stat) - 1
         /\ \A i \in 1 .. Len(stat) - 1 :
              /\ Tail(stat)[i] = stat[i + 1]
              /\ Tail(stat)[i] \in Tokens
              /\ ~(/\ Tail(stat)[i].dir = Head(stat).dir
                   /\ Tail(stat)[i].bank = Head(stat).bank)
<1>1. stat \in Seq(Tokens)
  BY DEF DevInv, DevTypeOK
<1>2. /\ Head(stat) = stat[1] /\ Head(stat) \in Tokens
      /\ Tail(stat) \in Seq(Tokens) /\ Len(Tail(stat)) = Len(stat) - 1
      /\ Len(stat) \in Nat /\ Len(stat) >= 1
  BY <1>1
<1>3. Head(stat).bank \in Banks
  BY <1>2 DEF Tokens
<1>4. /\ Head(stat).dir = "rx" => rxBank[Head(stat).bank] # None
      /\ Head(stat).dir = "tx" => txBank[Head(stat).bank] # None
  BY <1>2 DEF DevInv, TokensNameArmedBanks
<1>5. /\ Head(stat).dir = "rx" => rxBank[Head(stat).bank] \in Packets
      /\ Head(stat).dir = "tx" => txBank[Head(stat).bank] \in Packets
  BY <1>3, <1>4 DEF DevInv, DevTypeOK
<1>6. ASSUME NEW i \in 1 .. Len(stat) - 1
      PROVE  /\ Tail(stat)[i] = stat[i + 1]
             /\ Tail(stat)[i] \in Tokens
             /\ ~(/\ Tail(stat)[i].dir = Head(stat).dir
                  /\ Tail(stat)[i].bank = Head(stat).bank)
  <2>1. Tail(stat)[i] = stat[i + 1] /\ i + 1 \in 1 .. Len(stat) /\ i + 1 # 1
    BY <1>1, <1>2
  <2>2. stat[i + 1] \in Tokens
    BY <1>1, <2>1
  <2>3. ~(stat[i + 1].dir = stat[1].dir /\ stat[i + 1].bank = stat[1].bank)
    BY <1>2, <2>1 DEF DevInv, TokensNameArmedBanks
  <2> QED BY <1>2, <2>1, <2>2, <2>3
<1> QED BY <1>2, <1>5, <1>6

\* Once the first token is taken off, its bank alone may be disarmed.
LEMMA TokensAfterHead ==
  ASSUME DevInv, stat # <<>>, stat' = Tail(stat),
         \A bank \in Banks :
           rxBank[bank] # None =>
             rxBank'[bank] # None \/ (Head(stat).dir = "rx" /\ Head(stat).bank = bank),
         \A bank \in Banks :
           txBank[bank] # None =>
             txBank'[bank] # None \/ (Head(stat).dir = "tx" /\ Head(stat).bank = bank)
  PROVE  TokensNameArmedBanks' /\ stat' \in Seq(Tokens)
<1>1. /\ Tail(stat) \in Seq(Tokens)
      /\ Len(Tail(stat)) = Len(stat) - 1
      /\ \A i \in 1 .. Len(stat) - 1 :
           /\ Tail(stat)[i] = stat[i + 1]
           /\ Tail(stat)[i] \in Tokens
           /\ ~(/\ Tail(stat)[i].dir = Head(stat).dir
                /\ Tail(stat)[i].bank = Head(stat).bank)
  BY HeadToken
<1>2. Len(stat) \in Nat
  BY DEF DevInv, DevTypeOK
<1>3. ASSUME NEW i \in 1 .. Len(stat) - 1
      PROVE  /\ (IF stat'[i].dir = "rx" THEN rxBank' ELSE txBank')[stat'[i].bank] # None
             /\ \A j \in 1 .. Len(stat) - 1 :
                  stat'[i].dir = stat'[j].dir /\ stat'[i].bank = stat'[j].bank => i = j
  <2>1. /\ stat'[i] = stat[i + 1] /\ stat'[i] \in Tokens /\ i + 1 \in 1 .. Len(stat)
        /\ ~(stat'[i].dir = Head(stat).dir /\ stat'[i].bank = Head(stat).bank)
    BY <1>1, <1>2
  <2>2. stat'[i].bank \in Banks /\ stat'[i].dir \in {"rx", "tx"}
    BY <2>1 DEF Tokens
  <2>3. (IF stat'[i].dir = "rx" THEN rxBank ELSE txBank)[stat'[i].bank] # None
    BY <2>1 DEF DevInv, TokensNameArmedBanks
  <2>4. (IF stat'[i].dir = "rx" THEN rxBank' ELSE txBank')[stat'[i].bank] # None
    BY <2>1, <2>2, <2>3
  <2>5. ASSUME NEW j \in 1 .. Len(stat) - 1,
               stat'[i].dir = stat'[j].dir, stat'[i].bank = stat'[j].bank
        PROVE  i = j
    <3>1. stat'[j] = stat[j + 1] /\ j + 1 \in 1 .. Len(stat)
      BY <1>1, <1>2
    <3>2. i + 1 = j + 1
      BY <2>1, <2>5, <3>1 DEF DevInv, TokensNameArmedBanks
    <3> QED BY <3>2
  <2> QED BY <2>4, <2>5
<1> QED BY <1>1, <1>3 DEF TokensNameArmedBanks

\* A completed transmission frees its packet and refills or releases its bank.
LEMMA InvTxDone ==
  ASSUME DevInv, TxDone
  PROVE  DevInv'
<1> DEFINE bank == Head(stat).bank
<1>1. /\ stat # <<>> /\ Head(stat).dir = "tx" /\ stat' = Tail(stat)
      /\ FreeInIsr(txBank[bank])
      /\ UNCHANGED <<rxVars, hwRx, hwTx, hostRx, hostTx, hostReady, cfgVars>>
  BY DEF TxDone
<1>2. bank \in Banks /\ txBank[bank] \in Packets
  BY <1>1, HeadToken DEF Tokens
<1>3. /\ usb_buffer_available' \subseteq Packets
      /\ usb_rx_memory_needed' \in 0 .. 255
      /\ rxBank' \in [Banks -> Packets \cup {None}]
      /\ \A b \in Banks : rxBank[b] # None => rxBank'[b] # None
  BY <1>1, <1>2, FreeInIsrKeeps DEF DevInv
<1>4. /\ txBank' \in [Banks -> Packets \cup {None}]
      /\ txQueue' \in Seq(Packets)
      /\ tx_state' \in TxStates
      /\ TxStateMatchesBanks'
      /\ \A b \in Banks \ {bank} : txBank'[b] = txBank[b]
  <2>1. /\ txBank \in [Banks -> Packets \cup {None}]
        /\ txQueue \in Seq(Packets) /\ tx_state \in TxStates
        /\ txBank[bank] # None /\ None \notin Packets
    BY <1>2, ConstantTypes DEF DevInv, DevTypeOK
  <2>2. CASE txQueue = <<>>
    <3>1. /\ txBank' = [txBank EXCEPT ![bank] = None]
          /\ tx_state' = AfterDrain(tx_state, bank)
          /\ txQueue' = <<>>
      BY <2>2 DEF TxDone
    <3> HIDE DEF bank
    <3>2. txBank' \in [Banks -> Packets \cup {None}] /\ txQueue' \in Seq(Packets)
          /\ \A b \in Banks \ {bank} : txBank'[b] = txBank[b]
      BY <1>2, <2>1, <2>2, <3>1
    <3>3. CASE bank = "EVEN"
      <4>1. txBank'["EVEN"] = None /\ txBank'["ODD"] = txBank["ODD"]
        BY <2>1, <3>1, <3>3 DEF Banks
      <4>2. tx_state \in {"NONE_FREE_EVEN_FIRST", "NONE_FREE_ODD_FIRST", "ODD_FREE"}
        BY <2>1, <3>3 DEF DevInv, TxStateMatchesBanks, TxStates, NoneFree
      <4> QED BY <3>1, <3>2, <3>3, <4>1, <4>2
              DEF DevInv, TxStateMatchesBanks, TxStates, NoneFree, AfterDrain
    <3>4. CASE bank = "ODD"
      <4>1. txBank'["ODD"] = None /\ txBank'["EVEN"] = txBank["EVEN"]
        BY <2>1, <3>1, <3>4 DEF Banks
      <4>2. tx_state \in {"NONE_FREE_EVEN_FIRST", "NONE_FREE_ODD_FIRST", "EVEN_FREE"}
        BY <2>1, <3>4 DEF DevInv, TxStateMatchesBanks, TxStates, NoneFree
      <4> QED BY <3>1, <3>2, <3>4, <4>1, <4>2
              DEF DevInv, TxStateMatchesBanks, TxStates, NoneFree, AfterDrain
    <3> QED BY <1>2, <3>3, <3>4 DEF Banks
  <2>3. CASE txQueue # <<>>
    <3>1. /\ txBank' = [txBank EXCEPT ![bank] = Head(txQueue)]
          /\ tx_state' = AfterFill(tx_state)
          /\ txQueue' = Tail(txQueue)
      BY <2>3 DEF TxDone
    <3>2. tx_state \in NoneFree
      BY <2>3 DEF DevInv, TxStateMatchesBanks
    <3>3. Head(txQueue) \in Packets /\ Tail(txQueue) \in Seq(Packets)
      BY <2>1, <2>3
    <3>4. tx_state' = tx_state
      BY <3>1, <3>2 DEF AfterFill, NoneFree
    <3> HIDE DEF bank
    <3>5. /\ txBank' \in [Banks -> Packets \cup {None}]
          /\ \A b \in Banks \ {bank} : txBank'[b] = txBank[b]
          /\ txBank'[bank] # None
      BY <1>2, <2>1, <3>1, <3>3
    <3>6. txBank["EVEN"] # None /\ txBank["ODD"] # None
      BY <3>2 DEF DevInv, TxStateMatchesBanks, NoneFree
    <3>7. txBank'["EVEN"] # None /\ txBank'["ODD"] # None
      BY <3>5, <3>6 DEF Banks
    <3>8. TxStateMatchesBanks'
      BY <3>2, <3>4, <3>7 DEF TxStateMatchesBanks, NoneFree
    <3> QED BY <2>1, <3>1, <3>3, <3>4, <3>5, <3>8
  <2> QED BY <2>2, <2>3
<1>5. TokensNameArmedBanks' /\ stat' \in Seq(Tokens)
  <2>1. \A b \in Banks : rxBank[b] # None =>
          rxBank'[b] # None \/ (Head(stat).dir = "rx" /\ Head(stat).bank = b)
    BY <1>3
  <2>2. \A b \in Banks : txBank[b] # None =>
          txBank'[b] # None \/ (Head(stat).dir = "tx" /\ Head(stat).bank = b)
    BY <1>1, <1>4
  <2>3. stat # <<>> /\ stat' = Tail(stat)
    BY <1>1
  <2> QED BY <2>1, <2>2, <2>3, TokensAfterHead
<1>6. DevTypeOK'
  BY <1>1, <1>3, <1>4, <1>5 DEF DevInv, DevTypeOK, rxVars, cfgVars, Packets
<1> QED BY <1>4, <1>5, <1>6 DEF DevInv

\* A received packet is queued and its bank armed again, or left starving.
LEMMA InvRxDone ==
  ASSUME DevInv, RxDone
  PROVE  DevInv'
<1>1. /\ stat # <<>> /\ Head(stat).dir = "rx" /\ stat' = Tail(stat)
      /\ UNCHANGED <<txVars, hwRx, hwTx, hostRx, hostTx, hostReady, cfgVars>>
  BY DEF RxDone
<1>2. PICK bank \in Banks, len \in 0 .. CDC_RX_SIZE, new \in Packets \cup {None} :
        /\ bank = Head(stat).bank
        /\ \/ len = 0 /\ UNCHANGED <<memVars, rxVars>>
           \/ /\ len > 0
              /\ rxQueue' = Append(rxQueue, [pkt |-> rxBank[bank], len |-> len])
              /\ usb_rx_byte_count_data' = usb_rx_byte_count_data + len
              /\ rxBank' = [rxBank EXCEPT ![bank] = new]
              /\ usb_buffer_available' = usb_buffer_available \ {new}
              /\ usb_rx_memory_needed' =
                   IF new = None THEN Incremented(usb_rx_memory_needed)
                                 ELSE usb_rx_memory_needed
  <2>1. Head(stat).bank \in Banks /\ Head(stat).len \in 0 .. CDC_RX_SIZE
    BY <1>1, HeadToken DEF Tokens
  <2>2. Malloc(usb_buffer_available) \in Packets \cup {None}
    BY MallocReturns DEF DevInv, DevTypeOK
  <2> QED BY <2>1, <2>2, Zenon DEF RxDone
<1>3. rxBank[bank] \in Packets
  BY <1>1, <1>2, HeadToken
<1>4. /\ usb_buffer_available \subseteq Packets
      /\ usb_rx_memory_needed \in 0 .. 255
      /\ rxBank \in [Banks -> Packets \cup {None}]
      /\ rxQueue \in Seq(Received) /\ usb_rx_byte_count_data \in Int
  BY DEF DevInv, DevTypeOK
<1>5. /\ usb_buffer_available' \subseteq Packets
      /\ usb_rx_memory_needed' \in 0 .. 255
      /\ rxBank' \in [Banks -> Packets \cup {None}]
      /\ rxQueue' \in Seq(Received) /\ usb_rx_byte_count_data' \in Int
      /\ \A b \in Banks : b # bank => rxBank'[b] = rxBank[b]
  <2>1. CASE len = 0
    <3>1. UNCHANGED <<memVars, rxVars>>
      BY <1>2, <2>1
    <3> QED BY <1>4, <3>1 DEF memVars, rxVars
  <2>2. CASE len > 0
    <3>1. [pkt |-> rxBank[bank], len |-> len] \in Received
      BY <1>3, <2>2, ConstantTypes DEF Received
    <3>2. rxQueue' = Append(rxQueue, [pkt |-> rxBank[bank], len |-> len])
      BY <1>2, <2>2
    <3>3. rxQueue' \in Seq(Received)
      BY <1>4, <3>1, <3>2
    <3>4. /\ usb_rx_byte_count_data' = usb_rx_byte_count_data + len
          /\ rxBank' = [rxBank EXCEPT ![bank] = new]
          /\ usb_buffer_available' = usb_buffer_available \ {new}
          /\ usb_rx_memory_needed' \in
               {Incremented(usb_rx_memory_needed), usb_rx_memory_needed}
      BY <1>2, <2>2
    <3>5. usb_rx_memory_needed' \in 0 .. 255
      BY <1>4, <3>4 DEF Incremented
    <3>6. usb_rx_byte_count_data' \in Int
      BY <1>4, <3>4
    <3> QED BY <1>4, <3>3, <3>4, <3>5, <3>6
  <2> QED BY <2>1, <2>2, ConstantTypes
<1>6. \A b \in Banks : rxBank[b] # None =>
        rxBank'[b] # None \/ (Head(stat).dir = "rx" /\ Head(stat).bank = b)
  <2>1. bank = Head(stat).bank
    BY <1>2
  <2> QED BY <1>1, <1>5, <2>1
<1>7. txBank' = txBank
  BY <1>1 DEF txVars
<1>8. TokensNameArmedBanks' /\ stat' \in Seq(Tokens)
  BY <1>1, <1>6, <1>7, TokensAfterHead
<1>9. DevTypeOK'
  BY <1>1, <1>5, <1>8 DEF DevInv, DevTypeOK, txVars, cfgVars, Packets
<1>10. TxStateMatchesBanks'
  BY <1>1 DEF DevInv, TxStateMatchesBanks, txVars
<1> QED BY <1>8, <1>9, <1>10 DEF DevInv

\* Freed packets are packets, whatever mix of banks and queues held them.
LEMMA FreedArePackets ==
  ASSUME DevTypeOK, NEW v
  PROVE  FreedInOrder \in Seq(Packets) /\ PoolAfterFrees(v) \subseteq Packets
<1>1. \A p \in Packets \cup {None} : HeldBy(p) \in Seq(Packets)
  BY DEF HeldBy
<1>2. /\ HeldBy(rxBank["EVEN"]) \in Seq(Packets)
      /\ HeldBy(rxBank["ODD"]) \in Seq(Packets)
      /\ HeldBy(txBank["EVEN"]) \in Seq(Packets)
      /\ HeldBy(txBank["ODD"]) \in Seq(Packets)
  BY <1>1 DEF DevTypeOK, Banks
<1>3. [i \in 1 .. Len(rxQueue) |-> rxQueue[i].pkt] \in Seq(Packets)
  <2>1. rxQueue \in Seq(Received)
    BY DEF DevTypeOK
  <2>2. Len(rxQueue) \in Nat /\ \A i \in 1 .. Len(rxQueue) : rxQueue[i].pkt \in Packets
    <3>1. Len(rxQueue) \in Nat /\ \A i \in 1 .. Len(rxQueue) : rxQueue[i] \in Received
      BY <2>1
    <3>2. \A r \in Received : r.pkt \in Packets
      BY DEF Received
    <3> QED BY <3>1, <3>2
  <2> DEFINE n == Len(rxQueue)
             pkts == [i \in 1 .. n |-> rxQueue[i].pkt]
  <2>3. n \in Nat /\ pkts \in [1 .. n -> Packets]
    BY <2>2
  <2> HIDE DEF n, pkts
  <2>4. pkts \in Seq(Packets)
    BY <2>3, SeqDef
  <2> QED BY <2>4 DEF n, pkts
<1>4. txQueue \in Seq(Packets)
  BY DEF DevTypeOK
<1>5. FreedInOrder \in Seq(Packets)
  BY <1>2, <1>3, <1>4 DEF FreedInOrder
<1>6. \A i \in 1 .. Len(FreedInOrder) : FreedInOrder[i] \in Packets
  BY <1>5
<1> QED BY <1>5, <1>6 DEF PoolAfterFrees, DevTypeOK

\* SET_CONFIGURATION leaves every bank free or freshly armed.
LEMMA InvConfigure ==
  ASSUME DevInv, NEW v \in {0, 1}, SetConfiguration(v)
  PROVE  DevInv'
<1> DEFINE pool == PoolAfterFrees(v)
           even == Malloc(pool)
           odd  == Malloc(pool \ {even})
<1>1. /\ configs < MaxConfigs /\ stat = <<>> /\ configs' = configs + 1
      /\ usb_configuration' = v
      /\ rxBank' = [bank \in Banks |-> IF bank = "EVEN" THEN even ELSE odd]
      /\ usb_buffer_available' = pool \ {even, odd}
      /\ usb_rx_memory_needed' = Cardinality({bank \in Banks : rxBank'[bank] = None})
      /\ txBank' = [bank \in Banks |-> None] /\ txQueue' = <<>>
      /\ tx_state' = AfterConfigure(tx_state)
      /\ rxQueue' = <<>> /\ usb_rx_byte_count_data' = 0
      /\ hostReady' = (v # 0)
      /\ hostRx' = "EVEN" /\ hostTx' = "EVEN"
      /\ UNCHANGED <<stat, hwRx, hwTx>>
  BY DEF SetConfiguration, TokensHandled
<1>2. pool \subseteq Packets
  BY FreedArePackets DEF DevInv
<1> HIDE DEF pool
<1>3. even \in Packets \cup {None} /\ odd \in Packets \cup {None}
  <2>1. pool \ {even} \subseteq Packets
    BY <1>2
  <2> QED BY <1>2, <2>1, MallocReturns
<1> HIDE DEF even, odd
<1>4. /\ rxBank' \in [Banks -> Packets \cup {None}]
      /\ txBank' \in [Banks -> Packets \cup {None}]
      /\ usb_buffer_available' \subseteq Packets
  BY <1>1, <1>2, <1>3
<1>5. usb_rx_memory_needed' \in 0 .. 255
  <2>1. /\ IsFiniteSet({}) /\ Cardinality({}) = 0
        /\ IsFiniteSet({"EVEN"}) /\ Cardinality({"EVEN"}) = 1
        /\ IsFiniteSet({"ODD"}) /\ Cardinality({"ODD"}) = 1
    BY FS_EmptySet, FS_Singleton
  <2>2. Cardinality({"EVEN"} \cup {"ODD"}) = 2
    <3>1. "ODD" \notin {"EVEN"}
      OBVIOUS
    <3> QED BY <2>1, <3>1, FS_AddElement
  <2>3. {bank \in Banks : rxBank'[bank] = None}
          \in {{}, {"EVEN"}, {"ODD"}, {"EVEN"} \cup {"ODD"}}
    BY DEF Banks
  <2>4. Cardinality({bank \in Banks : rxBank'[bank] = None}) \in {0, 1, 2}
    BY <2>1, <2>2, <2>3
  <2>5. usb_rx_memory_needed' = Cardinality({bank \in Banks : rxBank'[bank] = None})
    BY <1>1
  <2> QED BY <2>4, <2>5
<1>6. tx_state \in TxStates
  BY DEF DevInv, DevTypeOK
<1>7. tx_state' \in {"BOTH_FREE_EVEN_FIRST", "BOTH_FREE_ODD_FIRST"}
  BY <1>1, <1>6 DEF AfterConfigure, TxStates, NoneFree
<1>8. configs' \in 0 .. MaxConfigs
  BY <1>1, ConstantTypes DEF DevInv, DevTypeOK
<1>9. DevTypeOK'
  <2>1. hostReady' \in BOOLEAN
    BY <1>1, Zenon
  <2>2. usb_configuration' \in {0, 1}
    BY <1>1
  <2>3. rxQueue' \in Seq(Received) /\ txQueue' \in Seq(Packets) /\ stat' \in Seq(Tokens)
        /\ usb_rx_byte_count_data' \in Int /\ UNCHANGED <<hwRx, hwTx>>
    BY <1>1
  <2>4. tx_state' \in TxStates
    BY <1>7 DEF TxStates
  <2>5. hostRx' \in Banks /\ hostTx' \in Banks
    BY <1>1 DEF Banks
  <2> QED BY <1>4, <1>5, <1>8, <2>1, <2>2, <2>3, <2>4, <2>5 DEF DevInv, DevTypeOK, Packets
<1>10. TxStateMatchesBanks'
  BY <1>1, <1>7 DEF TxStateMatchesBanks, Banks
<1>11. TokensNameArmedBanks'
  BY <1>1 DEF TokensNameArmedBanks
<1> QED BY <1>9, <1>10, <1>11 DEF DevInv

\* The hardware completes a transaction on an armed bank that has none pending.
LEMMA InvNewToken ==
  ASSUME DevInv, NEW dir \in {"rx", "tx"}, NEW bank \in Banks,
         NEW len \in 0 .. CDC_RX_SIZE,
         ~Pending(dir, bank),
         (IF dir = "rx" THEN rxBank ELSE txBank)[bank] # None,
         stat' = Append(stat, Token(dir, bank, len)),
         UNCHANGED <<memVars, txVars, rxVars, hostReady, cfgVars>>,
         hwRx' \in Banks, hwTx' \in Banks, hostRx' \in Banks, hostTx' \in Banks
  PROVE  DevInv'
<1>1. stat \in Seq(Tokens) /\ Token(dir, bank, len) \in Tokens
  BY DEF DevInv, DevTypeOK, Token, Tokens
<1>2. /\ stat' \in Seq(Tokens) /\ Len(stat') = Len(stat) + 1 /\ Len(stat) \in Nat
      /\ stat'[Len(stat) + 1] = Token(dir, bank, len)
      /\ \A i \in 1 .. Len(stat) : stat'[i] = stat[i]
  BY <1>1
<1>3. \A i \in 1 .. Len(stat) : ~(stat'[i].dir = dir /\ stat'[i].bank = bank)
  BY <1>2 DEF Pending
<1>4. Token(dir, bank, len).dir = dir /\ Token(dir, bank, len).bank = bank
  BY DEF Token
<1>5. rxBank' = rxBank /\ txBank' = txBank
  BY DEF memVars, txVars
<1>6. ASSUME NEW i \in 1 .. Len(stat')
      PROVE  /\ (IF stat'[i].dir = "rx" THEN rxBank' ELSE txBank')[stat'[i].bank] # None
             /\ \A j \in 1 .. Len(stat') :
                  stat'[i].dir = stat'[j].dir /\ stat'[i].bank = stat'[j].bank => i = j
  <2>1. CASE i = Len(stat) + 1
    BY <1>2, <1>3, <1>4, <1>5, <2>1
  <2>2. CASE i \in 1 .. Len(stat)
    <3>1. (IF stat[i].dir = "rx" THEN rxBank ELSE txBank)[stat[i].bank] # None
      BY <2>2 DEF DevInv, TokensNameArmedBanks
    <3>2. ASSUME NEW j \in 1 .. Len(stat'),
                 stat'[i].dir = stat'[j].dir, stat'[i].bank = stat'[j].bank
          PROVE  i = j
      <4>1. j # Len(stat) + 1
        BY <1>2, <1>3, <1>4, <2>2, <3>2
      <4>2. j \in 1 .. Len(stat)
        BY <1>2, <4>1
      <4> QED BY <1>2, <2>2, <3>2, <4>2 DEF DevInv, TokensNameArmedBanks
    <3> QED BY <1>2, <1>5, <2>2, <3>1, <3>2
  <2> QED BY <1>2, <2>1, <2>2
<1>7. TokensNameArmedBanks'
  BY <1>6 DEF TokensNameArmedBanks
<1>8. DevTypeOK'
  BY <1>2 DEF DevInv, DevTypeOK, memVars, txVars, rxVars, cfgVars, Packets
<1>9. TxStateMatchesBanks'
  BY DEF DevInv, TxStateMatchesBanks, txVars
<1> QED BY <1>7, <1>8, <1>9 DEF DevInv

-----------------------------------------------------------------------------
(* The invariant of the specification, and what follows from it *)

\* The invariant holds when the device starts.
LEMMA InvInit == Init => Inv
<1> SUFFICES ASSUME Init PROVE Inv
  OBVIOUS
<1>1. DevTypeOK
  <2>1. /\ usb_rx_memory_needed \in 0 .. 255 /\ configs \in 0 .. MaxConfigs
        /\ usb_rx_byte_count_data \in Int /\ usb_configuration \in {0, 1}
    BY ConstantTypes DEF Init, DevInit
  <2>2. hostReady \in BOOLEAN
    BY Zenon DEF Init, DevInit
  <2>3. rxBank \in [Banks -> Packets \cup {None}] /\ txBank \in [Banks -> Packets \cup {None}]
    BY DEF Init, DevInit
  <2>4. /\ usb_buffer_available \subseteq Packets
        /\ rxQueue \in Seq(Received) /\ txQueue \in Seq(Packets) /\ stat \in Seq(Tokens)
    BY DEF Init, DevInit
  <2>5. /\ tx_state \in TxStates /\ hwRx \in Banks /\ hwTx \in Banks
        /\ hostRx \in Banks /\ hostTx \in Banks
    BY DEF Init, DevInit, TxStates, Banks
  <2> QED BY <2>1, <2>2, <2>3, <2>4, <2>5 DEF DevTypeOK
<1>2. TokensNameArmedBanks
  BY DEF Init, DevInit, TokensNameArmedBanks
<1>3. TxStateMatchesBanks
  BY DEF Init, DevInit, TxStateMatchesBanks, Banks
<1>4. MainTypeOK
  <2>1. /\ rxLeft \in 0 .. CDC_RX_SIZE /\ txIndex \in 0 .. CDC_TX_SIZE - 1
        /\ usb_cdc_transmit_flush_timer \in 0 .. TRANSMIT_FLUSH_TIMEOUT
        /\ size \in 0 .. MaxSize /\ wait_count \in 0 .. TX_TIMEOUT
    BY ConstantTypes DEF Init
  <2>2. /\ tx_noautoflush \in BOOLEAN /\ transmit_previous_timeout \in BOOLEAN
        /\ mainRan \in BOOLEAN
    BY Zenon DEF Init
  <2>3. /\ {rx_packet, tx_packet, hand} \subseteq Packets \cup {None}
        /\ pc \in PcValues /\ ret \in {"idle", "read", "flush_input"}
    BY DEF Init, PcValues
  <2> QED BY <2>1, <2>2, <2>3 DEF MainTypeOK
<1>5. MainThreadHolds
  BY DEF Init, MainThreadHolds
<1> QED BY <1>1, <1>2, <1>3, <1>4, <1>5 DEF Inv, DevInv, MainInv

\* Every step of the main thread, the interrupt, the hardware and the host
\* keeps it.
LEMMA InvNext ==
  ASSUME Inv, [Next]_vars
  PROVE  Inv'
<1>1. CASE Call
  BY <1>1, InvCall
<1>2. CASE Step
  BY <1>2, InvUsbFree, InvReading, InvWriting, InvBufferFree, InvFlushOutput DEF Step
<1>3. CASE StartOfFrame
  BY <1>3, InvStartOfFrame
<1>4. CASE TokenDone
  <2>1. DevInv'
    BY <1>4, InvTxDone, InvRxDone DEF Inv, TokenDone
  <2>2. MainInv'
    BY <1>4, MainUnchanged DEF Inv, TokenDone, Idle
  <2> QED BY <2>1, <2>2 DEF Inv
<1>5. CASE Configure
  <2>1. DevInv'
    BY <1>5, InvConfigure DEF Inv, Configure
  <2>2. MainInv'
    BY <1>5, MainUnchanged DEF Inv, Configure, Idle
  <2> QED BY <2>1, <2>2 DEF Inv
<1>6. CASE Reset
  <2>1. /\ UNCHANGED <<memVars, txVars, rxVars, stat, cfgVars>>
        /\ hwRx' = "EVEN" /\ hwTx' = "EVEN" /\ hostReady' = FALSE
        /\ hostRx' = "EVEN" /\ hostTx' = "EVEN"
    BY <1>6 DEF Reset, BusReset
  <2>2. DevInv'
    BY <2>1 DEF Inv, DevInv, DevTypeOK, TokensNameArmedBanks, TxStateMatchesBanks,
                memVars, txVars, rxVars, cfgVars, Packets, Banks
  <2>3. MainInv'
    BY <1>6, MainUnchanged DEF Inv, Reset, Idle
  <2> QED BY <2>2, <2>3 DEF Inv
<1>7. CASE Collect
  <2>1. /\ txBank[hwTx] # None /\ ~Pending("tx", hwTx)
        /\ stat' = Append(stat, Token("tx", hwTx, 0))
        /\ hwTx' = Other(hwTx) /\ hwRx' = hwRx
        /\ UNCHANGED <<memVars, txVars, rxVars, hostReady, cfgVars>>
    BY <1>7 DEF Collect, HostIn
  <2>2. /\ hwTx \in Banks /\ hwTx' \in Banks /\ hwRx' \in Banks
        /\ hostRx' \in Banks /\ hostTx' \in Banks
    BY <1>7, <2>1 DEF Collect, HostIn, Inv, DevInv, DevTypeOK, Other, Banks
  <2>3. 0 \in 0 .. CDC_RX_SIZE
    BY ConstantTypes
  <2>4. DevInv'
    BY <2>1, <2>2, <2>3, InvNewToken DEF Inv
  <2>5. MainInv'
    BY <1>7, MainUnchanged DEF Inv, Collect, Idle
  <2> QED BY <2>4, <2>5 DEF Inv
<1>8. CASE Deliver
  <2>1. PICK len \in 0 .. CDC_RX_SIZE : HostOut(len)
    BY <1>8 DEF Deliver
  <2>2. /\ hwRx \in Banks /\ hwTx' = hwTx /\ hwTx \in Banks /\ Other(hwRx) \in Banks
        /\ hostRx' \in Banks /\ hostTx' \in Banks
        /\ UNCHANGED <<memVars, txVars, rxVars, hostReady, cfgVars>>
    BY <2>1 DEF HostOut, Inv, DevInv, DevTypeOK, Other, Banks
  <2>3. ASSUME rxBank[hwRx] # None, ~Pending("rx", hwRx),
               stat' = Append(stat, Token("rx", hwRx, len)), hwRx' = Other(hwRx)
        PROVE  DevInv'
    BY <2>2, <2>3, InvNewToken DEF Inv
  <2>4. ASSUME UNCHANGED <<stat, hwRx>> PROVE DevInv'
    BY <2>2, <2>4 DEF Inv, DevInv, DevTypeOK, TokensNameArmedBanks, TxStateMatchesBanks,
                      memVars, txVars, rxVars, cfgVars, Packets
  <2>5. DevInv'
    BY <2>1, <2>3, <2>4 DEF HostOut
  <2>6. MainInv'
    BY <1>8, MainUnchanged DEF Inv, Deliver, Idle
  <2> QED BY <2>5, <2>6 DEF Inv
<1>9. CASE UNCHANGED vars
  <2>1. DevInv'
    BY <1>9, DevUnchanged DEF Inv, vars
  <2>2. MainInv'
    BY <1>9, MainUnchanged DEF Inv, vars
  <2> QED BY <2>1, <2>2 DEF Inv
<1> QED BY <1>1, <1>2, <1>3, <1>4, <1>5, <1>6, <1>7, <1>8, <1>9 DEF Next

\* Every reachable state satisfies the inductive invariant.
THEOREM InvAlways == Spec => []Inv
BY InvInit, InvNext, PTL DEF Spec

\* No step changes the program.
LEMMA ProgramFixed ==
  ASSUME [Next]_vars
  PROVE  UNCHANGED calls
<1>1. CASE Call
  BY <1>1 DEF Call, Getchar, Peekchar, FlushInput, Read, Write, WriteBufferFree,
              FlushOutput, Main
<1>2. CASE FreeTest \/ FreeScan \/ FreeMiss \/ FreePut \/ ReadLoop \/ FlushInputLoop
  BY <1>2 DEF FreeTest, FreeScan, FreeMiss, FreePut, ReadLoop, FlushInputLoop, Main
<1>3. CASE WriteLoop \/ WriteWait \/ WriteCount \/ WriteHold \/ WriteAlloc
             \/ WriteRetry \/ WriteFill \/ WriteTimer
  BY <1>3 DEF WriteLoop, WriteWait, WriteCount, WriteHold, WriteAlloc, WriteRetry,
              WriteFill, WriteTimer, Main
<1>4. CASE BufferFreeCheck \/ BufferFreeAlloc \/ BufferFreeDone
             \/ FlushOutputTake \/ FlushOutputSend \/ FlushOutputEnd
  BY <1>4 DEF BufferFreeCheck, BufferFreeAlloc, BufferFreeDone, FlushOutputTake,
              FlushOutputSend, FlushOutputEnd, Main
<1>5. CASE StartOfFrame \/ TokenDone \/ Configure \/ Reset \/ Collect \/ Deliver
  BY <1>5 DEF StartOfFrame, TokenDone, Configure, Reset, Collect, Deliver, Idle, mainVars
<1>6. CASE UNCHANGED vars
  BY <1>6 DEF vars, mainVars
<1> QED BY <1>1, <1>2, <1>3, <1>4, <1>5, <1>6 DEF Next, Step

\* Type correctness: every variable of the device and of the serial layer keeps
\* its range, the uint8_t counter and the indexes into a packet among them.
THEOREM TypeCorrect == Spec => []TypeOK
<1>1. Init => calls \in Programs
  BY DEF Init
<1>2. ASSUME calls \in Programs, [Next]_vars
      PROVE  (calls \in Programs)'
  BY <1>2, ProgramFixed
<1>3. Inv /\ calls \in Programs => TypeOK
  BY DEF Inv, DevInv, MainInv, MainTypeOK, TypeOK
<1> QED BY <1>1, <1>2, <1>3, InvAlways, PTL DEF Spec

\* tx_state (usb_dev.c) always tells which transmit banks are free, whatever the
\* interleaving of usb_tx with the interrupt's refills and SET_CONFIGURATION.
THEOREM TransmitStateCorrect == Spec => []TxStateMatchesBanks
<1>1. Inv => TxStateMatchesBanks
  BY DEF Inv, DevInv
<1> QED BY <1>1, InvAlways, PTL

\* The interrupt never handles a token whose bank has lost its packet.
THEOREM TokensCorrect == Spec => []TokensNameArmedBanks
<1>1. Inv => TokensNameArmedBanks
  BY DEF Inv, DevInv
<1> QED BY <1>1, InvAlways, PTL

\* At each point of the main thread's program the packets it is about to use are
\* there, and those it is about to replace are not.
THEOREM HoldingsCorrect == Spec => []MainThreadHolds
<1>1. Inv => MainThreadHolds
  BY DEF Inv, MainInv
<1> QED BY <1>1, InvAlways, PTL

-----------------------------------------------------------------------------
(* One owner of a packet *)

\* Where a packet can be.
Places == {"pool", "rxEVEN", "rxODD", "txEVEN", "txODD", "rxQueue", "txQueue",
           "rx_packet", "tx_packet", "hand"}

Elements(q) == {q[i] : i \in 1 .. Len(q)}
Distinct(q) == \A i, j \in 1 .. Len(q) : q[i] = q[j] => i = j
Disjoint(S) == \A k, l \in Places : \A p \in S[k] : p \in S[l] => k = l

\* The packets of the receive queue, without their lengths.
PacketsOf(q) == [i \in 1 .. Len(q) |-> q[i].pkt]
RxPackets    == PacketsOf(rxQueue)

\* What each place holds.
At == [l \in Places |->
         CASE l = "pool"      -> usb_buffer_available
           [] l = "rxEVEN"    -> InUse(rxBank["EVEN"])
           [] l = "rxODD"     -> InUse(rxBank["ODD"])
           [] l = "txEVEN"    -> InUse(txBank["EVEN"])
           [] l = "txODD"     -> InUse(txBank["ODD"])
           [] l = "rxQueue"   -> Elements(RxPackets)
           [] l = "txQueue"   -> Elements(txQueue)
           [] l = "rx_packet" -> InUse(rx_packet)
           [] l = "tx_packet" -> InUse(tx_packet)
           [] l = "hand"      -> InUse(hand)]

Own == Disjoint(At) /\ Distinct(RxPackets) /\ Distinct(txQueue)

-----------------------------------------------------------------------------
(* Moves between places, and queues *)

\* What At says of each place, before and after a step.
LEMMA AtIs ==
  /\ At["pool"] = usb_buffer_available
  /\ At["rxEVEN"] = InUse(rxBank["EVEN"]) /\ At["rxODD"] = InUse(rxBank["ODD"])
  /\ At["txEVEN"] = InUse(txBank["EVEN"]) /\ At["txODD"] = InUse(txBank["ODD"])
  /\ At["rxQueue"] = Elements(RxPackets) /\ At["txQueue"] = Elements(txQueue)
  /\ At["rx_packet"] = InUse(rx_packet) /\ At["tx_packet"] = InUse(tx_packet)
  /\ At["hand"] = InUse(hand)
BY DEF At, Places

LEMMA AtIsNext ==
  /\ At'["pool"] = usb_buffer_available'
  /\ At'["rxEVEN"] = InUse(rxBank'["EVEN"]) /\ At'["rxODD"] = InUse(rxBank'["ODD"])
  /\ At'["txEVEN"] = InUse(txBank'["EVEN"]) /\ At'["txODD"] = InUse(txBank'["ODD"])
  /\ At'["rxQueue"] = Elements(RxPackets') /\ At'["txQueue"] = Elements(txQueue')
  /\ At'["rx_packet"] = InUse(rx_packet') /\ At'["tx_packet"] = InUse(tx_packet')
  /\ At'["hand"] = InUse(hand')
BY DEF At, Places

\* A packet in use is held by nobody else.
LEMMA InUseIs ==
  ASSUME NEW p
  PROVE  \A q : q \in InUse(p) <=> q = p /\ p # None
BY DEF InUse

\* From S to T, packet p goes from its place a to b; others may be taken away.
Moved(S, T, p, a, b) ==
  /\ a \in Places /\ b \in Places
  /\ p \in S[a] /\ p \notin T[a]
  /\ \A l \in Places : \A q \in T[l] : q \in S[l] \/ (q = p /\ l = b)

\* The same with a second packet r, from c to d.
MovedTwo(S, T, p, a, b, r, c, d) ==
  /\ {a, b, c, d} \subseteq Places /\ p # r
  /\ p \in S[a] /\ p \notin T[a] /\ r \in S[c] /\ r \notin T[c]
  /\ \A l \in Places : \A q \in T[l] :
       q \in S[l] \/ (q = p /\ l = b) \/ (q = r /\ l = d)

\* Such a move leaves every packet in one place.
LEMMA OneMove ==
  ASSUME NEW S, NEW T, NEW p, NEW a, NEW b, Disjoint(S), Moved(S, T, p, a, b)
  PROVE  Disjoint(T)
<1>1. \A l \in Places : p \in T[l] => l = b
  BY DEF Disjoint, Moved
<1> QED BY <1>1 DEF Disjoint, Moved

\* And so does moving two.
LEMMA TwoMoves ==
  ASSUME NEW S, NEW T, NEW p, NEW a, NEW b, NEW r, NEW c, NEW d,
         Disjoint(S), MovedTwo(S, T, p, a, b, r, c, d)
  PROVE  Disjoint(T)
<1>1. \A l \in Places : p \in T[l] => l = b
  BY DEF Disjoint, MovedTwo
<1>2. \A l \in Places : r \in T[l] => l = d
  BY DEF Disjoint, MovedTwo
<1> QED BY <1>1, <1>2 DEF Disjoint, MovedTwo

\* Taking the head of a queue of distinct packets.
LEMMA TailDistinct ==
  ASSUME NEW q \in Seq(Packets), q # <<>>, Distinct(q)
  PROVE  /\ Distinct(Tail(q))
         /\ Head(q) \in Elements(q) /\ Head(q) \in Packets
         /\ Head(q) \notin Elements(Tail(q))
         /\ Elements(Tail(q)) \subseteq Elements(q)
<1>1. /\ Len(q) \in Nat /\ Len(q) >= 1 /\ Head(q) = q[1]
      /\ Len(Tail(q)) = Len(q) - 1
      /\ \A i \in 1 .. Len(q) - 1 : Tail(q)[i] = q[i + 1]
      /\ q[1] \in Packets
  OBVIOUS
<1>2. \A i \in 1 .. Len(q) - 1 : i + 1 \in 1 .. Len(q) /\ i + 1 # 1
  BY <1>1
<1>3. Distinct(Tail(q))
  <2> SUFFICES ASSUME NEW i \in 1 .. Len(q) - 1, NEW j \in 1 .. Len(q) - 1,
                      q[i + 1] = q[j + 1]
               PROVE  i = j
    BY <1>1 DEF Distinct
  <2>1. i + 1 = j + 1
    BY <1>2 DEF Distinct
  <2> QED BY <1>1, <2>1
<1>4. 1 \in 1 .. Len(q)
  BY <1>1
<1>5. Head(q) \notin Elements(Tail(q))
  BY <1>1, <1>2, <1>4 DEF Distinct, Elements
<1> QED BY <1>1, <1>2, <1>3, <1>4, <1>5 DEF Elements

\* Appending a packet that is not in the queue.
LEMMA AppendDistinct ==
  ASSUME NEW q \in Seq(Packets), Distinct(q), NEW p \in Packets, p \notin Elements(q)
  PROVE  /\ Distinct(Append(q, p))
         /\ \A r \in Elements(Append(q, p)) : r \in Elements(q) \/ r = p
<1>1. /\ Len(q) \in Nat /\ Len(Append(q, p)) = Len(q) + 1
      /\ Append(q, p)[Len(q) + 1] = p
      /\ \A i \in 1 .. Len(q) : Append(q, p)[i] = q[i]
  OBVIOUS
<1>2. \A i \in 1 .. Len(q) + 1 : i \in 1 .. Len(q) \/ i = Len(q) + 1
  BY <1>1
<1>3. \A i \in 1 .. Len(q) : q[i] # p
  BY DEF Elements
<1>4. \A r \in Elements(Append(q, p)) : r \in Elements(q) \/ r = p
  BY <1>1, <1>2 DEF Elements
<1>5. Distinct(Append(q, p))
  <2> SUFFICES ASSUME NEW i \in 1 .. Len(q) + 1, NEW j \in 1 .. Len(q) + 1,
                      Append(q, p)[i] = Append(q, p)[j]
               PROVE  i = j
    BY <1>1 DEF Distinct
  <2>1. CASE i \in 1 .. Len(q) /\ j \in 1 .. Len(q)
    BY <1>1, <2>1 DEF Distinct
  <2>2. CASE i = Len(q) + 1 \/ j = Len(q) + 1
    BY <1>1, <1>2, <1>3, <2>2
  <2> QED BY <1>2, <2>1, <2>2
<1> QED BY <1>4, <1>5

\* The packets of a queue of received ones.
LEMMA PacketsOfQueue ==
  ASSUME NEW q \in Seq(Received)
  PROVE  /\ PacketsOf(q) \in Seq(Packets)
         /\ Len(PacketsOf(q)) = Len(q)
         /\ \A i \in 1 .. Len(q) : PacketsOf(q)[i] = q[i].pkt
<1>1. Len(q) \in Nat /\ \A i \in 1 .. Len(q) : q[i] \in Received
  OBVIOUS
<1>2. \A r \in Received : r.pkt \in Packets
  BY DEF Received
<1>3. PacketsOf(q) \in [1 .. Len(q) -> Packets]
  BY <1>1, <1>2 DEF PacketsOf
<1> QED BY <1>1, <1>3, SeqDef DEF PacketsOf

\* The packets of the receive queue follow the queue.
LEMMA RxPacketsTail ==
  ASSUME DevTypeOK, Own, rxQueue # <<>>, rxQueue' = Tail(rxQueue)
  PROVE  /\ Distinct(RxPackets')
         /\ Head(rxQueue).pkt \in Elements(RxPackets)
         /\ Head(rxQueue).pkt \in Packets
         /\ Head(rxQueue).pkt \notin Elements(RxPackets')
         /\ Elements(RxPackets') \subseteq Elements(RxPackets)
<1>1. /\ rxQueue \in Seq(Received) /\ rxQueue' \in Seq(Received)
      /\ Len(rxQueue) \in Nat /\ Len(rxQueue) >= 1 /\ Head(rxQueue) = rxQueue[1]
      /\ Len(rxQueue') = Len(rxQueue) - 1
      /\ \A i \in 1 .. Len(rxQueue) - 1 : rxQueue'[i] = rxQueue[i + 1]
  BY DEF DevTypeOK
<1>2. /\ RxPackets \in Seq(Packets) /\ Len(RxPackets) = Len(rxQueue)
      /\ \A i \in 1 .. Len(rxQueue) : RxPackets[i] = rxQueue[i].pkt
  BY <1>1, PacketsOfQueue DEF RxPackets
<1>3. /\ RxPackets' \in Seq(Packets) /\ Len(RxPackets') = Len(rxQueue) - 1
      /\ \A i \in 1 .. Len(rxQueue) - 1 : RxPackets'[i] = rxQueue'[i].pkt
  BY <1>1, PacketsOfQueue DEF RxPackets
<1>4. RxPackets # <<>> /\ Head(RxPackets) = Head(rxQueue).pkt
  BY <1>1, <1>2
<1>5. /\ Tail(RxPackets) \in Seq(Packets) /\ Len(Tail(RxPackets)) = Len(rxQueue) - 1
      /\ \A i \in 1 .. Len(rxQueue) - 1 : Tail(RxPackets)[i] = RxPackets[i + 1]
  BY <1>2, <1>4, HeadTailProperties
<1>6. \A i \in 1 .. Len(rxQueue) - 1 : RxPackets'[i] = Tail(RxPackets)[i]
  <2>1. \A i \in 1 .. Len(rxQueue) - 1 : i + 1 \in 1 .. Len(rxQueue)
    BY <1>1
  <2> QED BY <1>1, <1>2, <1>3, <1>5, <2>1
<1>7. RxPackets' = Tail(RxPackets)
  BY <1>3, <1>5, <1>6, SeqEqual
<1> QED BY <1>2, <1>4, <1>7, TailDistinct DEF Own

LEMMA RxPacketsAppend ==
  ASSUME DevTypeOK, Own, NEW p \in Packets, NEW n \in 1 .. CDC_RX_SIZE,
         p \notin Elements(RxPackets),
         rxQueue' = Append(rxQueue, [pkt |-> p, len |-> n])
  PROVE  /\ Distinct(RxPackets')
         /\ \A r \in Elements(RxPackets') : r \in Elements(RxPackets) \/ r = p
<1>1. rxQueue \in Seq(Received) /\ [pkt |-> p, len |-> n] \in Received
  BY DEF DevTypeOK, Received
<1>2. /\ rxQueue' \in Seq(Received)
      /\ Len(rxQueue) \in Nat /\ Len(rxQueue') = Len(rxQueue) + 1
      /\ rxQueue'[Len(rxQueue) + 1].pkt = p
      /\ \A i \in 1 .. Len(rxQueue) : rxQueue'[i] = rxQueue[i]
  BY <1>1
<1>3. /\ RxPackets \in Seq(Packets) /\ Len(RxPackets) = Len(rxQueue)
      /\ \A i \in 1 .. Len(rxQueue) : RxPackets[i] = rxQueue[i].pkt
  BY <1>1, PacketsOfQueue DEF RxPackets
<1>4. /\ RxPackets' \in Seq(Packets) /\ Len(RxPackets') = Len(rxQueue) + 1
      /\ \A i \in 1 .. Len(rxQueue) + 1 : RxPackets'[i] = rxQueue'[i].pkt
  BY <1>2, PacketsOfQueue DEF RxPackets
<1>5. /\ Append(RxPackets, p) \in Seq(Packets)
      /\ Len(Append(RxPackets, p)) = Len(rxQueue) + 1
      /\ Append(RxPackets, p)[Len(rxQueue) + 1] = p
      /\ \A i \in 1 .. Len(rxQueue) : Append(RxPackets, p)[i] = RxPackets[i]
  BY <1>3, AppendProperties
<1>6. \A i \in 1 .. Len(rxQueue) + 1 : RxPackets'[i] = Append(RxPackets, p)[i]
  <2>1. \A i \in 1 .. Len(rxQueue) + 1 : i \in 1 .. Len(rxQueue) \/ i = Len(rxQueue) + 1
    BY <1>2
  <2>2. ASSUME NEW i \in 1 .. Len(rxQueue)
        PROVE  RxPackets'[i] = Append(RxPackets, p)[i]
    <3>1. i \in 1 .. Len(rxQueue) + 1 /\ RxPackets'[i] = rxQueue'[i].pkt
      BY <1>2, <1>4
    <3> QED BY <1>2, <1>3, <1>5, <3>1
  <2>3. RxPackets'[Len(rxQueue) + 1] = Append(RxPackets, p)[Len(rxQueue) + 1]
    <3>1. Len(rxQueue) + 1 \in 1 .. Len(rxQueue) + 1
      BY <1>2
    <3> QED BY <1>2, <1>4, <1>5, <3>1
  <2> QED BY <2>1, <2>2, <2>3
<1>7. RxPackets' = Append(RxPackets, p)
  BY <1>4, <1>5, <1>6, SeqEqual
<1> QED BY <1>3, <1>7, AppendDistinct DEF Own

-----------------------------------------------------------------------------
(* The steps that move packets *)

\* A step that moves none.
LEMMA OwnUnchanged ==
  ASSUME Own, UNCHANGED <<usb_buffer_available, rxBank, txBank, rxQueue, txQueue,
                          rx_packet, tx_packet, hand>>
  PROVE  Own'
<1>1. RxPackets' = RxPackets
  BY DEF RxPackets
<1>2. At' = At
  BY <1>1 DEF At
<1> QED BY <1>1, <1>2 DEF Own

\* A step that writes one bank of an endpoint.
LEMMA RxBankSet ==
  ASSUME DevTypeOK, NEW bank \in Banks, NEW p \in Packets \cup {None},
         rxBank' = [rxBank EXCEPT ![bank] = p]
  PROVE  \E b \in {"rxEVEN", "rxODD"} :
           /\ At[b] = InUse(rxBank[bank]) /\ At'[b] = InUse(p)
           /\ \A l \in {"rxEVEN", "rxODD"} \ {b} : At'[l] = At[l]
<1>1. CASE bank = "EVEN"
  <2>1. rxBank'["EVEN"] = p /\ rxBank'["ODD"] = rxBank["ODD"]
    BY <1>1 DEF DevTypeOK, Banks
  <2>2. /\ At["rxEVEN"] = InUse(rxBank[bank]) /\ At'["rxEVEN"] = InUse(p)
        /\ At'["rxODD"] = At["rxODD"]
    BY <1>1, <2>1, AtIs, AtIsNext
  <2> QED BY <2>2
<1>2. CASE bank = "ODD"
  <2>1. rxBank'["ODD"] = p /\ rxBank'["EVEN"] = rxBank["EVEN"]
    BY <1>2 DEF DevTypeOK, Banks
  <2>2. /\ At["rxODD"] = InUse(rxBank[bank]) /\ At'["rxODD"] = InUse(p)
        /\ At'["rxEVEN"] = At["rxEVEN"]
    BY <1>2, <2>1, AtIs, AtIsNext
  <2> QED BY <2>2
<1> QED BY <1>1, <1>2 DEF Banks

LEMMA TxBankSet ==
  ASSUME DevTypeOK, NEW bank \in Banks, NEW p \in Packets \cup {None},
         txBank' = [txBank EXCEPT ![bank] = p]
  PROVE  \E b \in {"txEVEN", "txODD"} :
           /\ At[b] = InUse(txBank[bank]) /\ At'[b] = InUse(p)
           /\ \A l \in {"txEVEN", "txODD"} \ {b} : At'[l] = At[l]
<1>1. CASE bank = "EVEN"
  <2>1. txBank'["EVEN"] = p /\ txBank'["ODD"] = txBank["ODD"]
    BY <1>1 DEF DevTypeOK, Banks
  <2>2. /\ At["txEVEN"] = InUse(txBank[bank]) /\ At'["txEVEN"] = InUse(p)
        /\ At'["txODD"] = At["txODD"]
    BY <1>1, <2>1, AtIs, AtIsNext
  <2> QED BY <2>2
<1>2. CASE bank = "ODD"
  <2>1. txBank'["ODD"] = p /\ txBank'["EVEN"] = txBank["EVEN"]
    BY <1>2 DEF DevTypeOK, Banks
  <2>2. /\ At["txODD"] = InUse(txBank[bank]) /\ At'["txODD"] = InUse(p)
        /\ At'["txEVEN"] = At["txEVEN"]
    BY <1>2, <2>1, AtIs, AtIsNext
  <2> QED BY <2>2
<1> QED BY <1>1, <1>2 DEF Banks

\* usb_tx moves a packet from wherever the main thread or the flush had it.
LEMMA OwnUsbTx ==
  ASSUME Inv, Own, NEW p \in Packets,
         NEW a \in {"pool", "tx_packet", "hand"}, p \in At[a],
         UsbTx(p), p \notin At'[a],
         UNCHANGED <<rxBank, rxQueue, rx_packet>>,
         usb_buffer_available' \subseteq usb_buffer_available,
         tx_packet' = tx_packet \/ tx_packet' = None,
         hand' = hand \/ hand' = None
  PROVE  Own'
<1>1. /\ txBank \in [Banks -> Packets \cup {None}] /\ txQueue \in Seq(Packets)
      /\ None \notin Packets
  BY ConstantTypes DEF Inv, DevInv, DevTypeOK
<1>2. Disjoint(At) /\ a \in Places /\ RxPackets' = RxPackets
  BY DEF Own, Places, RxPackets
<1>3. /\ At'["pool"] \subseteq At["pool"]
      /\ At'["rxEVEN"] = At["rxEVEN"] /\ At'["rxODD"] = At["rxODD"]
      /\ At'["rxQueue"] = At["rxQueue"] /\ At'["rx_packet"] = At["rx_packet"]
      /\ At'["tx_packet"] \subseteq At["tx_packet"]
      /\ At'["hand"] \subseteq At["hand"]
  BY <1>2, AtIs, AtIsNext DEF InUse
<1>4. CASE tx_state \in NoneFree
  <2>1. txQueue' = Append(txQueue, p) /\ txBank' = txBank
    BY <1>4 DEF UsbTx
  <2>2. p \notin Elements(txQueue)
    BY <1>2, AtIs DEF Disjoint, Places
  <2>3. /\ Distinct(txQueue')
        /\ \A r \in Elements(txQueue') : r \in Elements(txQueue) \/ r = p
    BY <1>1, <2>1, <2>2, AppendDistinct DEF Own
  <2>4. At'["txEVEN"] = At["txEVEN"] /\ At'["txODD"] = At["txODD"]
    BY <2>1, AtIs, AtIsNext
  <2>5. PICK b \in Places : b = "txQueue"
    BY DEF Places
  <2>6. \A l \in Places : \A q \in At'[l] : q \in At[l] \/ (q = p /\ l = b)
    BY <1>3, <2>3, <2>4, <2>5, AtIs, AtIsNext DEF Places
  <2>7. Disjoint(At')
    <3>1. Moved(At, At', p, a, b)
      BY <1>2, <2>6 DEF Moved
    <3> QED BY <1>2, <3>1, OneMove
  <2> QED BY <1>2, <2>3, <2>7 DEF Own
<1>5. CASE tx_state \notin NoneFree
  <2>1. txBank' = [txBank EXCEPT ![FillBank(tx_state)] = p] /\ txQueue' = txQueue
    BY <1>5 DEF UsbTx
  <2>2. PICK b \in {"txEVEN", "txODD"} :
          /\ At'[b] = InUse(p)
          /\ \A l \in {"txEVEN", "txODD"} \ {b} : At'[l] = At[l]
    <3>1. FillBank(tx_state) \in Banks
      BY DEF FillBank, Banks
    <3> QED BY <2>1, <3>1, TxBankSet DEF Inv, DevInv
  <2>3. At'["txQueue"] = At["txQueue"] /\ Distinct(txQueue')
    BY <2>1, AtIs, AtIsNext DEF Own
  <2>4. \A l \in Places : \A q \in At'[l] : q \in At[l] \/ (q = p /\ l = b)
    BY <1>3, <2>2, <2>3, InUseIs DEF Places
  <2>5. Disjoint(At')
    <3>1. b \in Places
      BY <2>2 DEF Places
    <3>2. Moved(At, At', p, a, b)
      BY <1>2, <2>4, <3>1 DEF Moved
    <3> QED BY <1>2, <3>2, OneMove
  <2> QED BY <1>2, <2>3, <2>5 DEF Own
<1> QED BY <1>4, <1>5

\* The first starving bank is a receive bank.
LEMMA FirstStarvingIsBank == FirstStarving \in Banks
BY DEF FirstStarving, Banks

\* usb_free, called by the main thread: the packet in hand goes to a starving
\* bank or to the pool.
LEMMA OwnUsbFree ==
  ASSUME Inv, Own, FreeScan \/ FreePut
  PROVE  Own'
<1>1. hand # None /\ hand \in Packets /\ DevTypeOK
  BY DEF Inv, MainInv, MainTypeOK, MainThreadHolds, DevInv, FreeScan, FreePut
<1>2. Disjoint(At) /\ hand \in At["hand"] /\ "hand" \in Places /\ "pool" \in Places
  BY <1>1, AtIs, InUseIs DEF Own, Places
<1>3. CASE GiveToRx(hand) /\ FreeScan
  <2>1. /\ rxBank' = [rxBank EXCEPT ![FirstStarving] = hand]
        /\ usb_buffer_available' = usb_buffer_available
    BY <1>3 DEF GiveToRx
  <2>2. CASE hand' = None
    <3>1. UNCHANGED <<txBank, rxQueue, txQueue, rx_packet, tx_packet>>
      BY <1>3 DEF FreeScan, txVars, rxVars, rdVars, wrVars
    <3>2. PICK b \in {"rxEVEN", "rxODD"} :
            /\ At'[b] = InUse(hand)
            /\ \A l \in {"rxEVEN", "rxODD"} \ {b} : At'[l] = At[l]
      BY <1>1, <2>1, FirstStarvingIsBank, RxBankSet
    <3>3. RxPackets' = RxPackets
      BY <3>1 DEF RxPackets
    <3>4. \A l \in Places \ {"rxEVEN", "rxODD"} : At'[l] \subseteq At[l]
      BY <2>1, <2>2, <3>1, <3>3, AtIs, AtIsNext, InUseIs DEF Places
    <3>5. \A l \in Places : \A q \in At'[l] : q \in At[l] \/ (q = hand /\ l = b)
      BY <3>2, <3>4, InUseIs
    <3>6. hand \notin At'["hand"] /\ b \in Places
      BY <1>1, <2>2, <3>2, AtIsNext, InUseIs DEF Places
    <3>7. Disjoint(At')
      <4>1. Moved(At, At', hand, "hand", b)
        BY <1>2, <3>5, <3>6 DEF Moved
      <4> QED BY <1>2, <4>1, OneMove
    <3> QED BY <3>1, <3>3, <3>7 DEF Own
  <2>3. CASE hand' # None
    BY <1>3, <2>3 DEF FreeScan, GiveToRx, Starving
  <2> QED BY <2>2, <2>3
<1>4. CASE FreeScan /\ ~GiveToRx(hand)
  <2>1. UNCHANGED <<usb_buffer_available, rxBank, txBank, rxQueue, txQueue,
                    rx_packet, tx_packet, hand>>
    BY <1>4 DEF FreeScan, memVars, txVars, rxVars, rdVars, wrVars
  <2> QED BY <2>1, OwnUnchanged
<1>5. CASE FreePut
  <2>1. /\ usb_buffer_available' = usb_buffer_available \cup {hand} /\ hand' = None
        /\ UNCHANGED <<rxBank, txBank, rxQueue, txQueue, rx_packet, tx_packet>>
    BY <1>5 DEF FreePut, PutInPool, txVars, rxVars, rdVars, wrVars
  <2>2. RxPackets' = RxPackets
    BY <2>1 DEF RxPackets
  <2>3. PICK b \in Places : b = "pool"
    BY <1>2
  <2>4. \A l \in Places \ {b} : At'[l] \subseteq At[l]
    BY <2>1, <2>2, <2>3, AtIs, AtIsNext, InUseIs DEF Places
  <2>5. At'[b] = At[b] \cup {hand}
    BY <2>1, <2>3, AtIs, AtIsNext
  <2>6. \A l \in Places : \A q \in At'[l] : q \in At[l] \/ (q = hand /\ l = b)
    BY <2>4, <2>5
  <2>7. hand \notin At'["hand"]
    BY <1>1, <2>1, AtIsNext, InUseIs
  <2>8. Disjoint(At')
    <3>1. Moved(At, At', hand, "hand", b)
      BY <1>2, <2>6, <2>7 DEF Moved
    <3> QED BY <1>2, <3>1, OneMove
  <2> QED BY <2>1, <2>2, <2>8 DEF Own
<1> QED BY <1>3, <1>4, <1>5

\* The queues and the places of the main thread: one packet moves to place b,
\* from a place it leaves, and the receive queue at most loses its head.
LEMMA OwnMainMove ==
  ASSUME Own, Distinct(RxPackets'), UNCHANGED <<rxBank, txBank, txQueue>>,
         NEW a \in Places, NEW b \in {"rx_packet", "tx_packet", "hand"},
         NEW p, p \in At[a], p \notin At'[a],
         usb_buffer_available' \subseteq usb_buffer_available,
         Elements(RxPackets') \subseteq Elements(RxPackets),
         \A l \in {"rx_packet", "tx_packet", "hand"} :
           \A q \in At'[l] : q \in At[l] \/ (q = p /\ l = b)
  PROVE  Own'
<1>1. \A l \in Places : \A q \in At'[l] : q \in At[l] \/ (q = p /\ l = b)
  BY AtIs, AtIsNext DEF Places
<1>2. b \in Places /\ Disjoint(At)
  BY DEF Places, Own
<1>3. Disjoint(At')
  <2>1. Moved(At, At', p, a, b)
    BY <1>1, <1>2 DEF Moved
  <2> QED BY <1>2, <2>1, OneMove
<1> QED BY <1>3 DEF Own

\* Reading: a packet goes from the queue to rx_packet, and from either to the
\* hand of usb_free once it is read.
LEMMA OwnConsume ==
  ASSUME Inv, Own, CanRead, pc \in {"idle", "read"},
         NEW qty, NEW l, Consume(qty, l)
  PROVE  Own'
<1>1. /\ hand = None /\ rxQueue \in Seq(Received) /\ DevTypeOK
      /\ rx_packet \in Packets \cup {None} /\ None \notin Packets
  BY ConstantTypes DEF Inv, MainInv, MainTypeOK, MainThreadHolds, DevInv, DevTypeOK
<1>2. UNCHANGED <<usb_buffer_available, rxBank, txBank, txQueue, tx_packet>>
  BY DEF Consume, memVars, txVars, wrVars
<1>3. CASE rx_packet = None
  <2> DEFINE p == Head(rxQueue).pkt
  <2>1. rxQueue # <<>> /\ rxQueue' = Tail(rxQueue)
    BY <1>3 DEF CanRead, Consume, UsbRx
  <2>2. \/ rx_packet' = None /\ hand' = p
        \/ rx_packet' = p /\ hand' = None
    BY <1>1, <1>3 DEF Consume, CallFree
  <2>3. /\ Distinct(RxPackets') /\ p \in Elements(RxPackets) /\ p \in Packets
        /\ p \notin Elements(RxPackets')
        /\ Elements(RxPackets') \subseteq Elements(RxPackets)
    BY <1>1, <2>1, RxPacketsTail
  <2> HIDE DEF p
  <2>4. PICK a \in Places : a = "rxQueue"
    BY DEF Places
  <2>5. p \in At[a] /\ p \notin At'[a]
    BY <2>3, <2>4, AtIs, AtIsNext
  <2>6. PICK b \in {"rx_packet", "hand"} :
          \A k \in {"rx_packet", "tx_packet", "hand"} :
            \A q \in At'[k] : q \in At[k] \/ (q = p /\ k = b)
    <3>1. CASE rx_packet' = None /\ hand' = p
      BY <1>2, <3>1, AtIs, AtIsNext, InUseIs
    <3>2. CASE rx_packet' = p /\ hand' = None
      BY <1>2, <3>2, AtIs, AtIsNext, InUseIs
    <3> QED BY <2>2, <3>1, <3>2
  <2> QED BY <1>2, <2>3, <2>5, <2>6, OwnMainMove
<1>4. CASE rx_packet # None
  <2>1. rxQueue' = rxQueue
    BY <1>4 DEF Consume, rxVars
  <2>2. \/ rx_packet' = None /\ hand' = rx_packet
        \/ rx_packet' = rx_packet /\ hand' = hand
    BY <1>4 DEF Consume, CallFree
  <2>3. RxPackets' = RxPackets
    BY <2>1 DEF RxPackets
  <2>4. CASE rx_packet' = None /\ hand' = rx_packet
    <3>1. PICK a \in Places : a = "rx_packet"
      BY DEF Places
    <3>2. rx_packet \in At[a] /\ rx_packet \notin At'[a]
      BY <1>4, <2>4, <3>1, AtIs, AtIsNext, InUseIs
    <3>3. PICK b \in {"hand"} :
            \A k \in {"rx_packet", "tx_packet", "hand"} :
              \A q \in At'[k] : q \in At[k] \/ (q = rx_packet /\ k = b)
      BY <1>2, <2>4, AtIs, AtIsNext, InUseIs
    <3> QED BY <1>2, <2>3, <3>2, <3>3, OwnMainMove DEF Own
  <2>5. CASE rx_packet' = rx_packet /\ hand' = hand
    BY <1>2, <2>1, <2>5, OwnUnchanged
  <2> QED BY <2>2, <2>4, <2>5
<1> QED BY <1>3, <1>4

\* flush_input frees the packet being read, then the queued ones.
LEMMA OwnFlushInput ==
  ASSUME Inv, Own, FlushInput \/ FlushInputLoop
  PROVE  Own'
<1>1. hand = None /\ DevTypeOK
  BY DEF Inv, MainInv, MainThreadHolds, DevInv, FlushInput, FlushInputLoop
<1>2. UNCHANGED <<usb_buffer_available, rxBank, txBank, txQueue, tx_packet>>
  BY DEF FlushInput, FlushInputLoop, devVars, memVars, txVars, wrVars
<1>3. CASE FlushInput /\ rx_packet # None
  <2>1. rx_packet' = None /\ hand' = rx_packet /\ rxQueue' = rxQueue
    BY <1>3 DEF FlushInput, CallFree, devVars, rxVars
  <2>2. RxPackets' = RxPackets
    BY <2>1 DEF RxPackets
  <2>3. PICK a \in Places : a = "rx_packet"
    BY DEF Places
  <2>4. rx_packet \in At[a] /\ rx_packet \notin At'[a]
    BY <1>3, <2>1, <2>3, AtIs, AtIsNext, InUseIs
  <2>5. PICK b \in {"hand"} :
          \A k \in {"rx_packet", "tx_packet", "hand"} :
            \A q \in At'[k] : q \in At[k] \/ (q = rx_packet /\ k = b)
    BY <1>2, <2>1, AtIs, AtIsNext, InUseIs
  <2> QED BY <1>2, <2>2, <2>4, <2>5, OwnMainMove DEF Own
<1>4. CASE FlushInputLoop /\ rxQueue # <<>>
  <2> DEFINE p == Head(rxQueue).pkt
  <2>1. rxQueue' = Tail(rxQueue) /\ hand' = p /\ rx_packet' = rx_packet
    BY <1>4 DEF FlushInputLoop, CallFree, UsbRx, rdVars
  <2>2. /\ Distinct(RxPackets') /\ p \in Elements(RxPackets)
        /\ p \notin Elements(RxPackets')
        /\ Elements(RxPackets') \subseteq Elements(RxPackets)
    BY <1>1, <1>4, <2>1, RxPacketsTail
  <2> HIDE DEF p
  <2>3. PICK a \in Places : a = "rxQueue"
    BY DEF Places
  <2>4. p \in At[a] /\ p \notin At'[a]
    BY <2>2, <2>3, AtIs, AtIsNext
  <2>5. PICK b \in {"hand"} :
          \A k \in {"rx_packet", "tx_packet", "hand"} :
            \A q \in At'[k] : q \in At[k] \/ (q = p /\ k = b)
    BY <1>2, <2>1, AtIs, AtIsNext, InUseIs
  <2> QED BY <1>2, <2>2, <2>4, <2>5, OwnMainMove
<1>5. CASE ~(FlushInput /\ rx_packet # None) /\ ~(FlushInputLoop /\ rxQueue # <<>>)
  <2>1. UNCHANGED <<rxQueue, rx_packet, hand>>
    BY <1>5 DEF FlushInput, FlushInputLoop, devVars, rxVars, rdVars
  <2> QED BY <1>2, <2>1, OwnUnchanged
<1> QED BY <1>3, <1>4, <1>5

\* Writing: tx_packet comes from the pool ...
LEMMA OwnAlloc ==
  ASSUME Inv, Own, WriteAlloc \/ BufferFreeAlloc
  PROVE  Own'
<1>1. /\ tx_packet = None /\ usb_buffer_available \subseteq Packets /\ None \notin Packets
  BY ConstantTypes
     DEF Inv, MainInv, MainThreadHolds, DevInv, DevTypeOK, WriteAlloc, BufferFreeAlloc
<1>2. /\ tx_packet' = Malloc(usb_buffer_available)
      /\ usb_buffer_available' = usb_buffer_available \ {tx_packet'}
      /\ UNCHANGED <<rxBank, txBank, rxQueue, txQueue, rx_packet, hand>>
  BY DEF WriteAlloc, BufferFreeAlloc, TakeTxPacket, txVars, rxVars, rdVars
<1>3. RxPackets' = RxPackets
  BY <1>2 DEF RxPackets
<1>4. CASE tx_packet' = None
  BY <1>1, <1>2, <1>4, OwnUnchanged
<1>5. CASE tx_packet' # None
  <2>1. tx_packet' \in usb_buffer_available
    BY <1>1, <1>2, <1>5, MallocReturns
  <2>2. PICK p \in Packets : p = tx_packet'
    BY <1>1, <2>1
  <2>3. PICK a \in Places : a = "pool"
    BY DEF Places
  <2>4. p \in At[a] /\ p \notin At'[a]
    BY <1>2, <2>1, <2>2, <2>3, AtIs, AtIsNext
  <2>5. PICK b \in {"tx_packet"} :
          \A k \in {"rx_packet", "tx_packet", "hand"} :
            \A q \in At'[k] : q \in At[k] \/ (q = p /\ k = b)
    BY <1>2, <2>2, AtIs, AtIsNext, InUseIs
  <2> QED BY <1>2, <1>3, <2>4, <2>5, OwnMainMove DEF Own
<1> QED BY <1>4, <1>5

\* ... and goes to the endpoint when it is full.
LEMMA OwnFill ==
  ASSUME Inv, Own, WriteFill
  PROVE  Own'
<1>1. tx_packet # None /\ tx_packet \in Packets
  BY DEF Inv, MainInv, MainTypeOK, MainThreadHolds, WriteFill
<1>2. UNCHANGED <<usb_buffer_available, rxBank, rxQueue, rx_packet, hand>>
  BY DEF WriteFill, memVars, rxVars, rdVars
<1>3. CASE UsbTx(tx_packet) /\ tx_packet' = None
  <2>1. PICK a \in {"pool", "tx_packet", "hand"} : a = "tx_packet"
    OBVIOUS
  <2>2. tx_packet \in At[a] /\ tx_packet \notin At'[a]
    BY <1>1, <1>3, <2>1, AtIs, AtIsNext, InUseIs
  <2> QED BY <1>1, <1>2, <1>3, <2>2, OwnUsbTx
<1>4. CASE UNCHANGED <<txVars, tx_packet>>
  BY <1>2, <1>4, OwnUnchanged DEF txVars
<1> QED BY <1>3, <1>4 DEF WriteFill

\* flush_output takes tx_packet, or a packet of the pool, in hand ...
LEMMA OwnFlushTake ==
  ASSUME Inv, Own, FlushOutputTake
  PROVE  Own'
<1>1. /\ hand = None /\ tx_packet \in Packets \cup {None}
      /\ usb_buffer_available \subseteq Packets /\ None \notin Packets
  BY ConstantTypes
     DEF Inv, MainInv, MainTypeOK, MainThreadHolds, DevInv, DevTypeOK, FlushOutputTake
<1>2. /\ hand' = IF tx_packet # None THEN tx_packet ELSE Malloc(usb_buffer_available)
      /\ usb_buffer_available' = usb_buffer_available \ {hand'}
      /\ tx_packet' = None
      /\ UNCHANGED <<rxBank, txBank, rxQueue, txQueue, rx_packet>>
  BY DEF FlushOutputTake, txVars, rxVars, rdVars
<1>3. RxPackets' = RxPackets
  BY <1>2 DEF RxPackets
<1>4. CASE tx_packet = None /\ hand' = None
  BY <1>1, <1>2, <1>4, OwnUnchanged
<1>5. CASE tx_packet # None \/ hand' # None
  <2>1. PICK a \in {"tx_packet", "pool"} : hand' \in At[a] /\ hand' \notin At'[a]
    <3>1. CASE tx_packet # None
      BY <1>2, <3>1, AtIs, AtIsNext, InUseIs
    <3>2. CASE tx_packet = None
      <4>1. hand' \in usb_buffer_available
        BY <1>1, <1>2, <1>5, <3>2, MallocReturns
      <4> QED BY <1>2, <4>1, AtIs, AtIsNext
    <3> QED BY <3>1, <3>2
  <2>2. a \in Places
    BY DEF Places
  <2>3. PICK b \in {"hand"} :
          \A k \in {"rx_packet", "tx_packet", "hand"} :
            \A q \in At'[k] : q \in At[k] \/ (q = hand' /\ k = b)
    BY <1>2, AtIs, AtIsNext, InUseIs
  <2> QED BY <1>2, <1>3, <2>1, <2>2, <2>3, OwnMainMove DEF Own
<1> QED BY <1>4, <1>5

\* ... and sends it.
LEMMA OwnFlushSend ==
  ASSUME Inv, Own, FlushOutputSend
  PROVE  Own'
<1>1. hand # None /\ hand \in Packets
  BY DEF Inv, MainInv, MainTypeOK, MainThreadHolds, FlushOutputSend
<1>2. /\ UsbTx(hand) /\ hand' = None
      /\ UNCHANGED <<usb_buffer_available, rxBank, rxQueue, rx_packet, tx_packet>>
  BY DEF FlushOutputSend, memVars, rxVars, rdVars, wrVars
<1>3. PICK a \in {"pool", "tx_packet", "hand"} : a = "hand"
  OBVIOUS
<1>4. hand \in At[a] /\ hand \notin At'[a]
  BY <1>1, <1>2, <1>3, AtIs, AtIsNext, InUseIs
<1> QED BY <1>1, <1>2, <1>4, OwnUsbTx

\* The start-of-frame interrupt sends tx_packet, or a packet of the pool.
LEMMA OwnStartOfFrame ==
  ASSUME Inv, Own, StartOfFrame
  PROVE  Own'
<1>1. /\ tx_packet \in Packets \cup {None} /\ usb_buffer_available \subseteq Packets
  BY DEF Inv, MainInv, MainTypeOK, DevInv, DevTypeOK
<1>2. UNCHANGED <<rxBank, rxQueue, rx_packet, hand>>
  BY DEF StartOfFrame, rxVars, rdVars, mainVars
<1>3. CASE /\ tx_packet # None /\ UsbTx(tx_packet) /\ tx_packet' = None
           /\ UNCHANGED usb_buffer_available
  <2>1. PICK a \in {"pool", "tx_packet", "hand"} : a = "tx_packet"
    OBVIOUS
  <2>2. tx_packet \in At[a] /\ tx_packet \notin At'[a]
    BY <1>3, <2>1, AtIs, AtIsNext, InUseIs
  <2>3. tx_packet \in Packets
    BY <1>1, <1>3
  <2> QED BY <1>2, <1>3, <2>2, <2>3, OwnUsbTx
<1>4. CASE /\ usb_buffer_available # {} /\ UsbTx(Malloc(usb_buffer_available))
           /\ usb_buffer_available' =
                usb_buffer_available \ {Malloc(usb_buffer_available)}
           /\ UNCHANGED tx_packet
  <2>1. PICK p \in Packets : p = Malloc(usb_buffer_available) /\ p \in usb_buffer_available
    BY <1>1, <1>4, MallocReturns
  <2>2. PICK a \in {"pool", "tx_packet", "hand"} : a = "pool"
    OBVIOUS
  <2>3. p \in At[a] /\ p \notin At'[a]
    BY <1>4, <2>1, <2>2, AtIs, AtIsNext
  <2>4. UsbTx(p) /\ usb_buffer_available' \subseteq usb_buffer_available
    BY <1>4, <2>1
  <2> QED BY <1>2, <1>4, <2>3, <2>4, OwnUsbTx
<1>5. CASE UNCHANGED <<usb_buffer_available, txVars, tx_packet>>
  BY <1>2, <1>5, OwnUnchanged DEF txVars
<1> QED BY <1>3, <1>4, <1>5 DEF StartOfFrame, FlushCallback

\* usb_free, called by the interrupt: to a starving bank, or to the pool.
LEMMA FreeInIsrMoves ==
  ASSUME DevTypeOK, NEW p \in Packets, FreeInIsr(p)
  PROVE  \E b \in {"pool", "rxEVEN", "rxODD"} :
           \A l \in {"pool", "rxEVEN", "rxODD"} :
             \A q \in At'[l] : q \in At[l] \/ (q = p /\ l = b)
<1>1. CASE GiveToRx(p)
  <2>1. /\ rxBank' = [rxBank EXCEPT ![FirstStarving] = p]
        /\ usb_buffer_available' = usb_buffer_available
    BY <1>1 DEF GiveToRx
  <2>2. PICK b \in {"rxEVEN", "rxODD"} :
          /\ At'[b] = InUse(p)
          /\ \A l \in {"rxEVEN", "rxODD"} \ {b} : At'[l] = At[l]
    BY <2>1, FirstStarvingIsBank, RxBankSet
  <2>3. At'["pool"] = At["pool"]
    BY <2>1, AtIs, AtIsNext
  <2> QED BY <2>2, <2>3, InUseIs
<1>2. CASE PutInPool(p) /\ UNCHANGED rxBank
  <2>1. /\ At'["pool"] = At["pool"] \cup {p}
        /\ At'["rxEVEN"] = At["rxEVEN"] /\ At'["rxODD"] = At["rxODD"]
    BY <1>2, AtIs, AtIsNext DEF PutInPool
  <2> QED BY <2>1
<1> QED BY <1>1, <1>2, Zenon DEF FreeInIsr

\* A transmission completed: its packet is freed, and the head of the queue
\* takes its place in the bank.
LEMMA OwnTxDone ==
  ASSUME Inv, Own, TxDone, UNCHANGED <<rx_packet, tx_packet, hand>>
  PROVE  Own'
<1> DEFINE bank == Head(stat).bank
           p    == txBank[bank]
<1>1. /\ stat # <<>> /\ Head(stat).dir = "tx" /\ FreeInIsr(p)
      /\ rxQueue' = rxQueue
  BY DEF TxDone, rxVars
<1>2. /\ bank \in Banks /\ p \in Packets /\ DevTypeOK /\ None \notin Packets
      /\ txQueue \in Seq(Packets)
  BY <1>1, HeadToken, ConstantTypes DEF Tokens, Inv, DevInv, DevTypeOK
<1>3. \/ txQueue = <<>> /\ txBank' = [txBank EXCEPT ![bank] = None] /\ txQueue' = txQueue
      \/ /\ txQueue # <<>> /\ txBank' = [txBank EXCEPT ![bank] = Head(txQueue)]
         /\ txQueue' = Tail(txQueue)
  BY DEF TxDone
<1> HIDE DEF bank
<1>4. RxPackets' = RxPackets
  BY <1>1 DEF RxPackets
<1>5. PICK b \in {"pool", "rxEVEN", "rxODD"} :
        \A l \in {"pool", "rxEVEN", "rxODD"} :
          \A q \in At'[l] : q \in At[l] \/ (q = p /\ l = b)
  BY <1>1, <1>2, FreeInIsrMoves
<1>6. \A l \in {"rxQueue", "rx_packet", "tx_packet", "hand"} : At'[l] = At[l]
  BY <1>4, AtIs, AtIsNext
<1>7. b \in Places /\ Disjoint(At)
  BY DEF Places, Own
<1>8. CASE txQueue = <<>>
  <2>1. txBank' = [txBank EXCEPT ![bank] = None] /\ txQueue' = txQueue
    BY <1>3, <1>8
  <2>2. PICK a \in {"txEVEN", "txODD"} :
          /\ At[a] = InUse(p) /\ At'[a] = InUse(None)
          /\ \A l \in {"txEVEN", "txODD"} \ {a} : At'[l] = At[l]
    BY <1>2, <2>1, TxBankSet
  <2> HIDE DEF p
  <2>3. a \in Places /\ p \in At[a] /\ p \notin At'[a]
    BY <1>2, <2>2, InUseIs DEF Places
  <2>4. At'["txQueue"] = At["txQueue"]
    BY <2>1, AtIs, AtIsNext
  <2>5. \A l \in Places : \A q \in At'[l] : q \in At[l] \/ (q = p /\ l = b)
    BY <1>5, <1>6, <2>2, <2>4, InUseIs DEF Places
  <2>6. Disjoint(At')
    <3>1. Moved(At, At', p, a, b)
      BY <1>7, <2>3, <2>5 DEF Moved
    <3> QED BY <1>7, <3>1, OneMove
  <2> QED BY <1>4, <2>1, <2>6 DEF Own
<1>9. CASE txQueue # <<>>
  <2> DEFINE r == Head(txQueue)
  <2>1. txBank' = [txBank EXCEPT ![bank] = r] /\ txQueue' = Tail(txQueue)
    BY <1>3, <1>9
  <2>2. /\ Distinct(txQueue') /\ r \in Elements(txQueue) /\ r \in Packets
        /\ r \notin Elements(txQueue') /\ Elements(txQueue') \subseteq Elements(txQueue)
    BY <1>2, <1>9, <2>1, TailDistinct DEF Own
  <2> HIDE DEF r
  <2>3. PICK a \in {"txEVEN", "txODD"} :
          /\ At[a] = InUse(p) /\ At'[a] = InUse(r)
          /\ \A l \in {"txEVEN", "txODD"} \ {a} : At'[l] = At[l]
    BY <1>2, <2>1, <2>2, TxBankSet
  <2> HIDE DEF p
  <2>4. PICK c \in Places : c = "txQueue"
    BY DEF Places
  <2>5. r \in At[c] /\ r \notin At'[c] /\ At'[c] \subseteq At[c]
    BY <2>2, <2>4, AtIs, AtIsNext
  <2>6. a \in Places /\ p \in At[a] /\ a # c
    BY <1>2, <2>3, <2>4, InUseIs DEF Places
  <2>7. p # r
    BY <1>7, <2>5, <2>6 DEF Disjoint
  <2>8. p \notin At'[a]
    BY <2>3, <2>7, InUseIs
  <2>9. \A l \in Places : \A q \in At'[l] :
          q \in At[l] \/ (q = p /\ l = b) \/ (q = r /\ l = a)
    BY <1>5, <1>6, <2>3, <2>4, <2>5, InUseIs DEF Places
  <2>10. Disjoint(At')
    <3>1. MovedTwo(At, At', p, a, b, r, c, a)
      BY <1>7, <2>5, <2>6, <2>7, <2>8, <2>9 DEF MovedTwo
    <3> QED BY <1>7, <3>1, TwoMoves
  <2> QED BY <1>4, <2>2, <2>10 DEF Own
<1> QED BY <1>8, <1>9

\* A packet received: it is queued, and one of the pool takes its place.
LEMMA OwnRxDone ==
  ASSUME Inv, Own, RxDone, UNCHANGED <<rx_packet, tx_packet, hand>>
  PROVE  Own'
<1> DEFINE bank == Head(stat).bank
           p    == rxBank[bank]
           len  == Head(stat).len
           new  == Malloc(usb_buffer_available)
<1>1. /\ stat # <<>> /\ Head(stat).dir = "rx"
      /\ txBank' = txBank /\ txQueue' = txQueue
  BY DEF RxDone, txVars
<1>2. /\ bank \in Banks /\ len \in 0 .. CDC_RX_SIZE /\ p \in Packets
      /\ DevTypeOK /\ None \notin Packets /\ usb_buffer_available \subseteq Packets
  BY <1>1, HeadToken, ConstantTypes DEF Tokens, Inv, DevInv, DevTypeOK
<1>3. \/ len = 0 /\ UNCHANGED <<memVars, rxVars>>
      \/ /\ len > 0
         /\ rxQueue' = Append(rxQueue, [pkt |-> p, len |-> len])
         /\ rxBank' = [rxBank EXCEPT ![bank] = new]
         /\ usb_buffer_available' = usb_buffer_available \ {new}
  BY DEF RxDone
<1>4. new \in Packets \cup {None} /\ (new # None => new \in usb_buffer_available)
  BY <1>2, MallocReturns
<1> HIDE DEF bank, len, new
<1>5. CASE len = 0
  BY <1>1, <1>3, <1>5, OwnUnchanged DEF memVars, rxVars
<1>6. CASE len > 0
  <2>1. /\ rxQueue' = Append(rxQueue, [pkt |-> p, len |-> len])
        /\ rxBank' = [rxBank EXCEPT ![bank] = new]
        /\ usb_buffer_available' = usb_buffer_available \ {new}
    BY <1>3, <1>6
  <2>2. PICK a \in {"rxEVEN", "rxODD"} :
          /\ At[a] = InUse(p) /\ At'[a] = InUse(new)
          /\ \A l \in {"rxEVEN", "rxODD"} \ {a} : At'[l] = At[l]
    BY <1>2, <1>4, <2>1, RxBankSet
  <2> HIDE DEF p
  <2>3. a \in Places /\ p \in At[a] /\ Disjoint(At)
    BY <1>2, <2>2, InUseIs DEF Places, Own
  <2>4. PICK b \in Places : b = "rxQueue"
    BY DEF Places
  <2>5. p \notin Elements(RxPackets)
    BY <2>2, <2>3, <2>4, AtIs DEF Disjoint
  <2>6. len \in 1 .. CDC_RX_SIZE
    BY <1>2, <1>6, ConstantTypes
  <2>7. /\ Distinct(RxPackets')
        /\ \A r \in Elements(RxPackets') : r \in Elements(RxPackets) \/ r = p
    BY <1>2, <2>1, <2>5, <2>6, RxPacketsAppend
  <2>8. \A l \in {"txEVEN", "txODD", "txQueue", "rx_packet", "tx_packet", "hand"} :
          At'[l] = At[l]
    BY <1>1, AtIs, AtIsNext
  <2>9. PICK c \in Places : c = "pool"
    BY DEF Places
  <2>10. At'[c] = At[c] \ {new}
    BY <2>1, <2>9, AtIs, AtIsNext
  <2>11. \A l \in Places : \A q \in At'[l] :
           q \in At[l] \/ (q = p /\ l = b) \/ (q = new /\ new # None /\ l = a)
    BY <2>2, <2>4, <2>7, <2>8, <2>9, <2>10, AtIs, AtIsNext, InUseIs DEF Places
  <2>12. CASE new = None
    <3>1. p \notin At'[a]
      BY <2>2, <2>12, InUseIs
    <3>2. \A l \in Places : \A q \in At'[l] : q \in At[l] \/ (q = p /\ l = b)
      BY <2>11, <2>12
    <3>3. Disjoint(At')
      <4>1. Moved(At, At', p, a, b)
        BY <2>3, <3>1, <3>2 DEF Moved
      <4> QED BY <2>3, <4>1, OneMove
    <3> QED BY <1>1, <2>7, <3>3 DEF Own
  <2>13. CASE new # None
    <3>1. new \in At[c] /\ new \notin At'[c] /\ a # c
      BY <1>4, <2>2, <2>9, <2>10, <2>13, AtIs
    <3>2. p # new
      BY <2>3, <3>1 DEF Disjoint
    <3>3. p \notin At'[a]
      BY <2>2, <3>2, InUseIs
    <3>4. PICK r \in Packets : r = new
      BY <1>4, <2>13
    <3>5. r \in At[c] /\ r \notin At'[c] /\ p # r
      BY <3>1, <3>2, <3>4
    <3>6. \A l \in Places : \A q \in At'[l] :
            q \in At[l] \/ (q = p /\ l = b) \/ (q = r /\ l = a)
      BY <2>11, <3>4
    <3>7. Disjoint(At')
      <4>1. MovedTwo(At, At', p, a, b, r, c, a)
        BY <2>3, <3>3, <3>5, <3>6 DEF MovedTwo
      <4> QED BY <2>3, <4>1, TwoMoves
    <3> QED BY <1>1, <2>7, <3>7 DEF Own
  <2> QED BY <2>12, <2>13
<1> QED BY <1>2, <1>5, <1>6

DevPlaces  == {"pool", "rxEVEN", "rxODD", "txEVEN", "txODD", "rxQueue", "txQueue"}
MainPlaces == {"rx_packet", "tx_packet", "hand"}

\* What SET_CONFIGURATION frees was in the pool, a bank or a queue.
LEMMA FreedWereHeld ==
  ASSUME DevTypeOK, NEW v
  PROVE  \A p \in PoolAfterFrees(v) : \E l \in DevPlaces : p \in At[l]
<1> DEFINE H == UNION {At[l] : l \in DevPlaces}
<1>1. /\ At["pool"] \subseteq H /\ At["rxEVEN"] \subseteq H /\ At["rxODD"] \subseteq H
      /\ At["txEVEN"] \subseteq H /\ At["txODD"] \subseteq H
      /\ At["rxQueue"] \subseteq H /\ At["txQueue"] \subseteq H
  BY DEF DevPlaces
<1>2. \A p \in H : \E l \in DevPlaces : p \in At[l]
  OBVIOUS
<1> HIDE DEF H
<1>3. \A p : (p # None => p \in H) => HeldBy(p) \in Seq(H)
  BY DEF HeldBy
<1>4. /\ HeldBy(rxBank["EVEN"]) \in Seq(H) /\ HeldBy(rxBank["ODD"]) \in Seq(H)
      /\ HeldBy(txBank["EVEN"]) \in Seq(H) /\ HeldBy(txBank["ODD"]) \in Seq(H)
  <2>1. /\ InUse(rxBank["EVEN"]) \subseteq H /\ InUse(rxBank["ODD"]) \subseteq H
        /\ InUse(txBank["EVEN"]) \subseteq H /\ InUse(txBank["ODD"]) \subseteq H
    BY <1>1, AtIs
  <2>2. \A p : InUse(p) \subseteq H => (p # None => p \in H)
    BY InUseIs
  <2> QED BY <1>3, <2>1, <2>2
<1>5. \A q \in Seq(Packets) : Elements(q) \subseteq H => q \in Seq(H)
  <2> SUFFICES ASSUME NEW q \in Seq(Packets), Elements(q) \subseteq H
               PROVE  q \in Seq(H)
    OBVIOUS
  <2>1. Len(q) \in Nat /\ q \in [1 .. Len(q) -> H]
    <3>1. Len(q) \in Nat /\ q \in [1 .. Len(q) -> Packets]
      OBVIOUS
    <3>2. \A i \in 1 .. Len(q) : q[i] \in H
      BY DEF Elements
    <3> QED BY <3>1, <3>2
  <2> QED BY <2>1, SeqDef
<1>6. RxPackets \in Seq(H) /\ txQueue \in Seq(H)
  <2>1. RxPackets \in Seq(Packets) /\ txQueue \in Seq(Packets)
    BY PacketsOfQueue DEF DevTypeOK, RxPackets
  <2>2. Elements(RxPackets) \subseteq H /\ Elements(txQueue) \subseteq H
    BY <1>1, AtIs
  <2> QED BY <1>5, <2>1, <2>2
<1>7. FreedInOrder = HeldBy(rxBank["EVEN"]) \o HeldBy(rxBank["ODD"])
        \o HeldBy(txBank["EVEN"]) \o HeldBy(txBank["ODD"]) \o RxPackets \o txQueue
  BY DEF FreedInOrder, RxPackets, PacketsOf
<1>8. FreedInOrder \in Seq(H)
  BY <1>4, <1>6, <1>7, ConcatProperties
<1>9. \A i \in 1 .. Len(FreedInOrder) : FreedInOrder[i] \in H
  BY <1>8
<1>10. usb_buffer_available \subseteq H
  BY <1>1, AtIs
<1>11. PoolAfterFrees(v) \subseteq H
  BY <1>9, <1>10 DEF PoolAfterFrees
<1> QED BY <1>2, <1>11

\* SET_CONFIGURATION puts everything but the main thread's packets in the pool,
\* and arms the receive banks with two different packets of it.
LEMMA OwnConfigure ==
  ASSUME Inv, Own, NEW v, SetConfiguration(v), UNCHANGED <<rx_packet, tx_packet, hand>>
  PROVE  Own'
<1> DEFINE pool == PoolAfterFrees(v)
           even == Malloc(pool)
           odd  == Malloc(pool \ {even})
<1>1. /\ rxBank' = [bank \in Banks |-> IF bank = "EVEN" THEN even ELSE odd]
      /\ usb_buffer_available' = pool \ {even, odd}
      /\ txBank' = [bank \in Banks |-> None] /\ txQueue' = <<>> /\ rxQueue' = <<>>
  BY DEF SetConfiguration
<1>2. DevTypeOK /\ Disjoint(At)
  BY DEF Inv, DevInv, Own
<1>3. pool \subseteq Packets
  BY <1>2, FreedArePackets
<1>4. \A p \in pool : \A k \in MainPlaces : p \notin At[k]
  BY <1>2, FreedWereHeld DEF Disjoint, Places, MainPlaces, DevPlaces
<1> HIDE DEF pool
<1>5. even = None \/ even \in pool
  BY <1>3, MallocReturns
<1>6. odd = None \/ odd \in pool \ {even}
  <2>1. pool \ {even} \subseteq Packets
    BY <1>3
  <2> QED BY <2>1, MallocReturns
<1> HIDE DEF even, odd
<1>7. /\ rxBank'["EVEN"] = even /\ rxBank'["ODD"] = odd
      /\ txBank'["EVEN"] = None /\ txBank'["ODD"] = None
  BY <1>1 DEF Banks
<1>8. Elements(<<>>) = {} /\ Distinct(<<>>) /\ RxPackets' = <<>>
  BY <1>1 DEF Elements, Distinct, RxPackets, PacketsOf
<1>9. \A l \in Places : \A q \in At'[l] :
        \/ l \in MainPlaces /\ q \in At[l]
        \/ q \in pool /\ l = "pool" /\ q # even /\ q # odd
        \/ q \in pool /\ l = "rxEVEN" /\ q = even /\ q # odd
        \/ q \in pool /\ l = "rxODD" /\ q = odd /\ q # even
  BY <1>1, <1>5, <1>6, <1>7, <1>8, AtIs, AtIsNext, InUseIs DEF Places, MainPlaces
<1>10. MainPlaces \subseteq Places /\ "pool" \notin MainPlaces
       /\ "rxEVEN" \notin MainPlaces /\ "rxODD" \notin MainPlaces
  BY DEF Places, MainPlaces
<1>11. Disjoint(At')
  <2> SUFFICES ASSUME NEW k \in Places, NEW l \in Places, NEW q \in At'[k], q \in At'[l]
               PROVE  k = l
    BY DEF Disjoint
  <2>1. CASE k \in MainPlaces
    <3>1. q \in At[k] /\ q \notin pool
      BY <1>4, <1>9, <1>10, <2>1
    <3>2. q \in At[l]
      BY <1>9, <3>1
    <3> QED BY <1>2, <3>1, <3>2 DEF Disjoint
  <2>2. CASE k \notin MainPlaces
    <3>1. q \in pool
      BY <1>9, <2>2
    <3>2. l \notin MainPlaces
      BY <1>4, <1>9, <1>10, <3>1
    <3> QED BY <1>9, <2>2, <3>2
  <2> QED BY <2>1, <2>2
<1> QED BY <1>1, <1>8, <1>11 DEF Own

-----------------------------------------------------------------------------
(* The theorem *)

\* The device starts with every packet in the pool.
LEMMA OwnInit == Init => Own
<1> SUFFICES ASSUME Init PROVE Own
  OBVIOUS
<1>1. /\ rxBank["EVEN"] = None /\ rxBank["ODD"] = None
      /\ txBank["EVEN"] = None /\ txBank["ODD"] = None
      /\ rxQueue = <<>> /\ txQueue = <<>>
      /\ rx_packet = None /\ tx_packet = None /\ hand = None
  BY DEF Init, DevInit, Banks
<1>2. Elements(<<>>) = {} /\ Distinct(<<>>) /\ RxPackets = <<>>
  BY <1>1 DEF Elements, Distinct, RxPackets, PacketsOf
<1>3. \A l \in Places : \A q \in At[l] : l = "pool"
  BY <1>1, <1>2, AtIs, InUseIs DEF Places
<1> QED BY <1>1, <1>2, <1>3 DEF Own, Disjoint

\* Every step keeps a packet in one place.
LEMMA OwnNext ==
  ASSUME Inv, Own, [Next]_vars
  PROVE  Own'
<1>1. CASE Getchar \/ Peekchar
  <2>1. PICK qty, l : CanRead /\ pc = "idle" /\ Consume(qty, l)
    BY <1>1 DEF Getchar, Peekchar
  <2> QED BY <2>1, OwnConsume
<1>2. CASE FlushInput \/ FlushInputLoop
  BY <1>2, OwnFlushInput
<1>3. CASE ReadLoop
  <2>1. CASE \E qty : CanRead /\ pc = "read" /\ Consume(qty, "read")
    BY <2>1, OwnConsume
  <2>2. CASE UNCHANGED <<devVars, rdVars, wrVars, ret, hand, wait_count>>
    BY <2>2, OwnUnchanged DEF devVars, memVars, txVars, rxVars, rdVars, wrVars
  <2> QED BY <1>3, <2>1, <2>2 DEF ReadLoop
<1>4. CASE \/ \E n \in 1 .. MaxSize : Read(n) \/ Write(n)
           \/ WriteBufferFree \/ FlushOutput
  BY <1>4, OwnUnchanged
     DEF Read, Write, WriteBufferFree, FlushOutput, devVars, memVars, txVars, rxVars,
         rdVars, wrVars
<1>5. CASE FreeScan \/ FreePut
  BY <1>5, OwnUsbFree
<1>6. CASE FreeTest \/ FreeMiss
  BY <1>6, OwnUnchanged
     DEF FreeTest, FreeMiss, devVars, memVars, txVars, rxVars, rdVars, wrVars
<1>7. CASE WriteLoop \/ WriteWait \/ WriteCount \/ WriteHold \/ WriteRetry \/ WriteTimer
  BY <1>7, OwnUnchanged
     DEF WriteLoop, WriteWait, WriteCount, WriteHold, WriteRetry, WriteTimer,
         devVars, memVars, txVars, rxVars, rdVars, wrVars
<1>8. CASE WriteAlloc \/ BufferFreeAlloc
  BY <1>8, OwnAlloc
<1>9. CASE WriteFill
  BY <1>9, OwnFill
<1>10. CASE BufferFreeCheck \/ BufferFreeDone \/ FlushOutputEnd
  BY <1>10, OwnUnchanged
     DEF BufferFreeCheck, BufferFreeDone, FlushOutputEnd,
         devVars, memVars, txVars, rxVars, rdVars, wrVars
<1>11. CASE FlushOutputTake \/ FlushOutputSend
  BY <1>11, OwnFlushTake, OwnFlushSend
<1>12. CASE StartOfFrame
  BY <1>12, OwnStartOfFrame
<1>13. CASE TokenDone
  BY <1>13, OwnTxDone, OwnRxDone DEF TokenDone, Idle, rdVars, wrVars, mainVars
<1>14. CASE Configure
  BY <1>14, OwnConfigure DEF Configure, Idle, rdVars, wrVars, mainVars
<1>15. CASE Reset \/ Collect \/ Deliver
  BY <1>15, OwnUnchanged
     DEF Reset, BusReset, Collect, HostIn, Deliver, HostOut, Idle, memVars, txVars,
         rxVars, rdVars, wrVars, mainVars
<1>16. CASE UNCHANGED vars
  BY <1>16, OwnUnchanged
     DEF vars, devVars, memVars, txVars, rxVars, rdVars, wrVars, mainVars
<1> QED BY <1>1, <1>2, <1>3, <1>4, <1>5, <1>6, <1>7, <1>8, <1>9, <1>10, <1>11, <1>12,
           <1>13, <1>14, <1>15, <1>16 DEF Next, Call, Step

\* In the places of At, ExclusiveOwner.
LEMMA OwnMeansExclusive ==
  ASSUME Inv, Own
  PROVE  ExclusiveOwner
<1>1. Disjoint(At) /\ Distinct(RxPackets) /\ Distinct(txQueue)
  BY DEF Own
<1>2. RxArmed = At["rxEVEN"] \cup At["rxODD"] /\ TxArmed = At["txEVEN"] \cup At["txODD"]
  BY AtIs, InUseIs DEF RxArmed, TxArmed, Banks
<1>3. rxQueue \in Seq(Received) /\ Len(rxQueue) \in Nat
  BY DEF Inv, DevInv, DevTypeOK
<1>4. /\ Len(RxPackets) = Len(rxQueue)
      /\ \A i \in 1 .. Len(rxQueue) : RxPackets[i] = rxQueue[i].pkt
  BY <1>3, PacketsOfQueue DEF RxPackets
<1>5. RxQueued = At["rxQueue"] /\ TxQueued = At["txQueue"]
  BY <1>4, AtIs DEF RxQueued, TxQueued, Elements
<1>6. \A i, j \in 1 .. Len(rxQueue) : rxQueue[i].pkt = rxQueue[j].pkt => i = j
  BY <1>1, <1>4 DEF Distinct
<1>7. \A i, j \in 1 .. Len(txQueue) : txQueue[i] = txQueue[j] => i = j
  BY <1>1 DEF Distinct
<1>8. \A k, l \in Places : k # l => At[k] \cap At[l] = {}
  BY <1>1 DEF Disjoint
<1>9. /\ At["rxEVEN"] \cap At["rxODD"] = {} /\ At["txEVEN"] \cap At["txODD"] = {}
      /\ At["rx_packet"] \cap At["tx_packet"] = {}
      /\ At["rx_packet"] \cap At["hand"] = {} /\ At["tx_packet"] \cap At["hand"] = {}
  BY <1>8 DEF Places
<1>10. /\ rxBank["EVEN"] = rxBank["ODD"] => rxBank["EVEN"] = None
       /\ txBank["EVEN"] = txBank["ODD"] => txBank["EVEN"] = None
       /\ rx_packet = tx_packet => rx_packet = None
       /\ rx_packet = hand => hand = None
       /\ tx_packet = hand => hand = None
  BY <1>9, AtIs, InUseIs
<1>11. At["pool"] \cap (RxArmed \cup TxArmed \cup RxQueued \cup TxQueued) = {}
  BY <1>2, <1>5, <1>8 DEF Places
<1>12. /\ RxArmed \cap (TxArmed \cup RxQueued \cup TxQueued) = {}
       /\ TxArmed \cap (RxQueued \cup TxQueued) = {}
       /\ RxQueued \cap TxQueued = {}
  BY <1>2, <1>5, <1>8 DEF Places
<1>13. (At["rx_packet"] \cup At["tx_packet"] \cup At["hand"]) \cap
         (At["pool"] \cup RxArmed \cup TxArmed \cup RxQueued \cup TxQueued) = {}
  BY <1>2, <1>5, <1>8 DEF Places
<1> QED BY <1>6, <1>7, <1>10, <1>11, <1>12, <1>13, AtIs DEF ExclusiveOwner

\* A packet of the pool (usb_mem.c) is never in two hands: not freed twice, not
\* armed while it is queued, not filled by the main thread while it is sent,
\* wherever the interrupt and a configuration come between the calls.
THEOREM OwnersExclusive == Spec => []ExclusiveOwner
<1>1. Inv /\ Own /\ [Next]_vars => Own'
  BY OwnNext
<1>2. Inv /\ Own => ExclusiveOwner
  BY OwnMeansExclusive
<1> QED BY <1>1, <1>2, OwnInit, InvAlways, PTL DEF Spec

-----------------------------------------------------------------------------
(* The count of starving banks *)

\* How many of two banks hold nothing.
Ones(bank) == (IF bank["EVEN"] = None THEN 1 ELSE 0) + (IF bank["ODD"] = None THEN 1 ELSE 0)

LEMMA StarvingIs ==
  ASSUME NEW f
  PROVE  Cardinality({bank \in Banks : f[bank] = None}) = Ones(f)
<1>1. /\ IsFiniteSet({}) /\ Cardinality({}) = 0
      /\ IsFiniteSet({"EVEN"}) /\ Cardinality({"EVEN"}) = 1
      /\ IsFiniteSet({"ODD"}) /\ Cardinality({"ODD"}) = 1
  BY FS_EmptySet, FS_Singleton
<1>2. Cardinality({"EVEN"} \cup {"ODD"}) = 2
  <2>1. "ODD" \notin {"EVEN"}
    OBVIOUS
  <2> QED BY <1>1, <2>1, FS_AddElement
<1>3. CASE f["EVEN"] = None /\ f["ODD"] = None
  <2>1. {bank \in Banks : f[bank] = None} = {"EVEN"} \cup {"ODD"}
    BY <1>3 DEF Banks
  <2> QED BY <1>2, <1>3, <2>1 DEF Ones
<1>4. CASE f["EVEN"] = None /\ f["ODD"] # None
  <2>1. {bank \in Banks : f[bank] = None} = {"EVEN"}
    BY <1>4 DEF Banks
  <2> QED BY <1>1, <1>4, <2>1 DEF Ones
<1>5. CASE f["EVEN"] # None /\ f["ODD"] = None
  <2>1. {bank \in Banks : f[bank] = None} = {"ODD"}
    BY <1>5 DEF Banks
  <2> QED BY <1>1, <1>5, <2>1 DEF Ones
<1>6. CASE f["EVEN"] # None /\ f["ODD"] # None
  <2>1. {bank \in Banks : f[bank] = None} = {}
    BY <1>6 DEF Banks
  <2> QED BY <1>1, <1>6, <2>1 DEF Ones
<1> QED BY <1>3, <1>4, <1>5, <1>6

LEMMA CountIs ==
  /\ CountIsExact <=> usb_rx_memory_needed = Ones(rxBank)
  /\ CountIsExact' <=> usb_rx_memory_needed' = Ones(rxBank')
<1>1. CountIsExact <=> usb_rx_memory_needed = Ones(rxBank)
  BY StarvingIs DEF CountIsExact, Starving
<1>2. CountIsExact' <=> usb_rx_memory_needed' = Ones(rxBank')
  BY StarvingIs DEF CountIsExact, Starving
<1> QED BY <1>1, <1>2

\* A bank served is a bank less to count ...
LEMMA CountGiveToRx ==
  ASSUME DevTypeOK, CountIsExact, NEW p \in Packets, GiveToRx(p)
  PROVE  CountIsExact'
<1>1. rxBank \in [Banks -> Packets \cup {None}] /\ None \notin Packets
  BY ConstantTypes DEF DevTypeOK
<1>2. /\ rxBank' = [rxBank EXCEPT ![FirstStarving] = p]
      /\ rxBank["EVEN"] = None \/ rxBank["ODD"] = None
      /\ usb_rx_memory_needed' = (usb_rx_memory_needed - 1) % 256
  BY DEF GiveToRx, Starving, Banks, Decremented
<1>3. usb_rx_memory_needed = Ones(rxBank)
  BY CountIs
<1>4. CASE rxBank["EVEN"] = None
  <2>1. rxBank'["EVEN"] # None /\ rxBank'["ODD"] = rxBank["ODD"]
    BY <1>1, <1>2, <1>4 DEF FirstStarving, Banks
  <2>2. Ones(rxBank') = Ones(rxBank) - 1 /\ Ones(rxBank) \in {1, 2}
    BY <1>4, <2>1 DEF Ones
  <2> QED BY <1>2, <1>3, <2>2, CountIs
<1>5. CASE rxBank["EVEN"] # None
  <2>1. rxBank'["EVEN"] = rxBank["EVEN"] /\ rxBank'["ODD"] # None /\ rxBank["ODD"] = None
    BY <1>1, <1>2, <1>5 DEF FirstStarving, Banks
  <2>2. Ones(rxBank') = Ones(rxBank) - 1 /\ Ones(rxBank) = 1
    BY <1>5, <2>1 DEF Ones
  <2> QED BY <1>2, <1>3, <2>2, CountIs
<1> QED BY <1>4, <1>5

\* ... the interrupt's usb_free finds one whenever the count is exact ...
LEMMA CountFreeInIsr ==
  ASSUME DevTypeOK, CountIsExact, NEW p \in Packets, FreeInIsr(p)
  PROVE  CountIsExact'
<1>1. CASE GiveToRx(p)
  BY <1>1, CountGiveToRx
<1>2. CASE RxWantsMemory /\ Starving = {}
  <2>1. rxBank["EVEN"] # None /\ rxBank["ODD"] # None /\ usb_rx_memory_needed # 0
    BY <1>2 DEF Starving, Banks, RxWantsMemory
  <2>2. Ones(rxBank) = 0
    BY <2>1 DEF Ones
  <2> QED BY <2>1, <2>2, CountIs
<1>3. CASE UNCHANGED <<usb_rx_memory_needed, rxBank>>
  BY <1>3, CountIs
<1> QED BY <1>1, <1>2, <1>3, Zenon DEF FreeInIsr

\* ... and a bank left empty is counted.
LEMMA CountRxDone ==
  ASSUME DevInv, CountIsExact, RxDone
  PROVE  CountIsExact'
<1> DEFINE bank == Head(stat).bank
           new  == Malloc(usb_buffer_available)
<1>1. /\ bank \in Banks /\ rxBank[bank] # None /\ None \notin Packets
      /\ rxBank \in [Banks -> Packets \cup {None}]
      /\ usb_buffer_available \subseteq Packets
  BY HeadToken, ConstantTypes DEF RxDone, Tokens, DevInv, DevTypeOK
<1>2. \/ UNCHANGED <<usb_rx_memory_needed, rxBank>>
      \/ /\ rxBank' = [rxBank EXCEPT ![bank] = new]
         /\ usb_rx_memory_needed' = IF new = None THEN Incremented(usb_rx_memory_needed)
                                                  ELSE usb_rx_memory_needed
  BY DEF RxDone, memVars
<1> HIDE DEF bank, new
<1>3. usb_rx_memory_needed = Ones(rxBank)
  BY CountIs
<1>4. CASE UNCHANGED <<usb_rx_memory_needed, rxBank>>
  BY <1>4, CountIs
<1>5. CASE rxBank' = [rxBank EXCEPT ![bank] = new]
  <2>1. rxBank'[bank] = new /\ \A b \in Banks \ {bank} : rxBank'[b] = rxBank[b]
    BY <1>1, <1>5
  <2>2. CASE new = None
    <3>1. Ones(rxBank') = Ones(rxBank) + 1 /\ Ones(rxBank) \in {0, 1}
      BY <1>1, <2>1, <2>2 DEF Ones, Banks
    <3>2. \/ usb_rx_memory_needed' = (usb_rx_memory_needed + 1) % 256
          \/ UNCHANGED <<usb_rx_memory_needed, rxBank>>
      BY <1>2, <2>2 DEF Incremented
    <3> QED BY <1>3, <3>1, <3>2, CountIs
  <2>3. CASE new # None
    <3>1. Ones(rxBank') = Ones(rxBank)
      BY <1>1, <2>1, <2>3 DEF Ones, Banks
    <3> QED BY <1>2, <1>3, <2>3, <3>1, CountIs
  <2> QED BY <2>2, <2>3
<1> QED BY <1>2, <1>4, <1>5

\* The steps of the main thread but the reset leave an exact count exact.
LEMMA CountStep ==
  ASSUME Inv, CountIsExact, Call \/ Step \/ StartOfFrame, pc # "free_miss"
  PROVE  CountIsExact'
<1>1. CASE FreeScan
  <2>1. hand \in Packets
    BY <1>1 DEF Inv, MainInv, MainTypeOK, MainThreadHolds, FreeScan
  <2>2. CASE GiveToRx(hand)
    BY <2>1, <2>2, CountGiveToRx DEF Inv, DevInv
  <2>3. CASE UNCHANGED memVars
    BY <2>3, CountIs DEF memVars
  <2> QED BY <1>1, <2>2, <2>3 DEF FreeScan
<1>2. CASE ~FreeScan
  <2> SUFFICES UNCHANGED <<usb_rx_memory_needed, rxBank>>
    BY CountIs
  <2>1. CASE Call
    BY <2>1 DEF Call, Getchar, Peekchar, FlushInput, Read, Write, WriteBufferFree,
                FlushOutput, Consume, devVars, memVars
  <2>2. CASE FreeTest \/ FreePut \/ ReadLoop \/ FlushInputLoop
    BY <2>2 DEF FreeTest, FreePut, ReadLoop, FlushInputLoop, Consume, devVars, memVars
  <2>3. CASE FreeMiss
    BY <2>3 DEF FreeMiss
  <2>4. CASE \/ WriteLoop \/ WriteWait \/ WriteCount \/ WriteHold \/ WriteAlloc
             \/ WriteRetry \/ WriteFill \/ WriteTimer
    BY <2>4 DEF WriteLoop, WriteWait, WriteCount, WriteHold, WriteAlloc, WriteRetry,
                WriteFill, WriteTimer, devVars, memVars
  <2>5. CASE \/ BufferFreeCheck \/ BufferFreeAlloc \/ BufferFreeDone
             \/ FlushOutputTake \/ FlushOutputSend \/ FlushOutputEnd
    BY <2>5 DEF BufferFreeCheck, BufferFreeAlloc, BufferFreeDone, FlushOutputTake,
                FlushOutputSend, FlushOutputEnd, devVars, memVars
  <2>6. CASE StartOfFrame
    BY <2>6 DEF StartOfFrame
  <2> QED BY <1>2, <2>1, <2>2, <2>3, <2>4, <2>5, <2>6 DEF Step
<1> QED BY <1>1, <1>2

\* usb_rx_memory_needed (usb_mem.c) keeps counting the starving receive banks,
\* whoever serves them, but for the reset the main thread makes after a scan
\* that found none, with interrupts on again.
THEOREM CountCorrect == Spec => CountBrokenOnlyAtMiss
<1>1. ASSUME Inv, [Next]_vars
      PROVE  [CountIsExact /\ ~CountIsExact' => pc = "free_miss"]_vars
  <2> SUFFICES ASSUME CountIsExact, pc # "free_miss"
               PROVE  CountIsExact'
    BY DEF vars
  <2>1. CASE Call \/ Step \/ StartOfFrame
    BY <1>1, <2>1, CountStep
  <2>2. CASE TokenDone
    <3>1. CASE TxDone
      <4>1. txBank[Head(stat).bank] \in Packets
        BY <1>1, <3>1, HeadToken DEF TxDone, Tokens, Inv, DevInv, DevTypeOK
      <4> QED BY <1>1, <3>1, <4>1, CountFreeInIsr DEF TxDone, Inv, DevInv
    <3>2. CASE RxDone
      BY <1>1, <3>2, CountRxDone DEF Inv
    <3> QED BY <2>2, <3>1, <3>2 DEF TokenDone
  <2>3. CASE Configure
    BY <2>3 DEF Configure, SetConfiguration, CountIsExact, Starving
  <2>4. CASE Reset \/ Collect \/ Deliver \/ UNCHANGED vars
    <3>1. UNCHANGED <<usb_rx_memory_needed, rxBank>>
      BY <2>4 DEF Reset, BusReset, Collect, HostIn, Deliver, HostOut, vars, devVars, memVars
    <3> QED BY <3>1, CountIs
  <2> QED BY <1>1, <2>1, <2>2, <2>3, <2>4 DEF Next
<1> QED BY <1>1, InvAlways, PTL DEF Spec, CountBrokenOnlyAtMiss

-----------------------------------------------------------------------------
(* No packet is lost but by a configuration *)

\* The elements of a queue that loses its head or gets a new last element.
LEMMA ElementsTail ==
  ASSUME NEW S, NEW q \in Seq(S), q # <<>>
  PROVE  Elements(q) = Elements(Tail(q)) \cup {Head(q)}
<1>1. /\ Len(q) \in Nat /\ Len(q) >= 1 /\ Head(q) = q[1]
      /\ Len(Tail(q)) = Len(q) - 1
      /\ \A i \in 1 .. Len(q) - 1 : Tail(q)[i] = q[i + 1]
  OBVIOUS
<1>2. ASSUME NEW i \in 1 .. Len(q)
      PROVE  q[i] \in Elements(Tail(q)) \cup {Head(q)}
  <2>1. i = 1 \/ (i - 1 \in 1 .. Len(q) - 1 /\ Tail(q)[i - 1] = q[i])
    BY <1>1
  <2> QED BY <1>1, <2>1 DEF Elements
<1>3. ASSUME NEW i \in 1 .. Len(q) - 1
      PROVE  Tail(q)[i] \in Elements(q)
  <2>1. i + 1 \in 1 .. Len(q) /\ Tail(q)[i] = q[i + 1]
    BY <1>1
  <2> QED BY <2>1 DEF Elements
<1>4. Head(q) \in Elements(q)
  BY <1>1 DEF Elements
<1>5. Elements(q) \subseteq Elements(Tail(q)) \cup {Head(q)}
  BY <1>2 DEF Elements
<1>6. Elements(Tail(q)) \subseteq Elements(q)
  BY <1>1, <1>3 DEF Elements
<1> QED BY <1>4, <1>5, <1>6

LEMMA ElementsAppend ==
  ASSUME NEW S, NEW q \in Seq(S), NEW e \in S
  PROVE  Elements(Append(q, e)) = Elements(q) \cup {e}
<1>1. /\ Len(q) \in Nat /\ Len(Append(q, e)) = Len(q) + 1
      /\ Append(q, e)[Len(q) + 1] = e
      /\ \A i \in 1 .. Len(q) : Append(q, e)[i] = q[i]
  OBVIOUS
<1>2. \A i \in 1 .. Len(q) + 1 : i \in 1 .. Len(q) \/ i = Len(q) + 1
  BY <1>1
<1>3. Len(q) + 1 \in 1 .. Len(q) + 1 /\ \A i \in 1 .. Len(q) : i \in 1 .. Len(q) + 1
  BY <1>1
<1> QED BY <1>1, <1>2, <1>3 DEF Elements

\* The packets of a queue of received ones.
PktsOf(q) == {r.pkt : r \in Elements(q)}

LEMMA QueuedIs ==
  /\ RxQueued = PktsOf(rxQueue) /\ TxQueued = Elements(txQueue)
  /\ RxQueued' = PktsOf(rxQueue') /\ TxQueued' = Elements(txQueue')
BY DEF RxQueued, TxQueued, Elements, PktsOf

LEMMA RxQueuedTail ==
  ASSUME DevTypeOK, rxQueue # <<>>, rxQueue' = Tail(rxQueue)
  PROVE  RxQueued = RxQueued' \cup {Head(rxQueue).pkt} /\ Head(rxQueue).pkt \in Packets
<1>1. Elements(rxQueue) = Elements(rxQueue') \cup {Head(rxQueue)}
  BY ElementsTail DEF DevTypeOK
<1>2. Head(rxQueue) \in Received
  BY DEF DevTypeOK
<1>3. \A r \in Received : r.pkt \in Packets
  BY DEF Received
<1> QED BY <1>1, <1>2, <1>3, QueuedIs DEF PktsOf

LEMMA RxQueuedAppend ==
  ASSUME DevTypeOK, NEW r \in Received, rxQueue' = Append(rxQueue, r)
  PROVE  RxQueued' = RxQueued \cup {r.pkt}
<1>1. Elements(rxQueue') = Elements(rxQueue) \cup {r}
  BY ElementsAppend DEF DevTypeOK
<1> QED BY <1>1, QueuedIs DEF PktsOf

\* What two banks hold, and what they hold after one is written.
ArmedIn(f) == InUse(f["EVEN"]) \cup InUse(f["ODD"])

LEMMA ArmedIs ==
  /\ RxArmed = ArmedIn(rxBank) /\ TxArmed = ArmedIn(txBank)
  /\ RxArmed' = ArmedIn(rxBank') /\ TxArmed' = ArmedIn(txBank')
BY DEF RxArmed, TxArmed, ArmedIn, InUse, Banks

\* usb_tx takes a packet to a bank or to the queue, and drops none.
LEMMA TxHeldUsbTx ==
  ASSUME DevTypeOK, TxStateMatchesBanks, NEW p \in Packets, UsbTx(p)
  PROVE  TxArmed' \cup TxQueued' = TxArmed \cup TxQueued \cup {p}
<1>1. CASE tx_state \in NoneFree
  <2>1. txQueue' = Append(txQueue, p) /\ txBank' = txBank
    BY <1>1 DEF UsbTx
  <2>2. TxQueued' = TxQueued \cup {p}
    BY <2>1, ElementsAppend, QueuedIs DEF DevTypeOK
  <2>3. TxArmed' = TxArmed
    BY <2>1, ArmedIs
  <2> QED BY <2>2, <2>3
<1>2. CASE tx_state \notin NoneFree
  <2>1. txBank' = [txBank EXCEPT ![FillBank(tx_state)] = p] /\ txQueue' = txQueue
    BY <1>2 DEF UsbTx
  <2>2. FillBank(tx_state) \in Banks /\ txBank[FillBank(tx_state)] = None
    BY <1>2 DEF FillBank, Banks, TxStateMatchesBanks, DevTypeOK, TxStates
  <2>3. ArmedIn(txBank') \cup InUse(None) = ArmedIn(txBank) \cup InUse(p)
    <3>1. txBank \in [Banks -> Packets \cup {None}]
      BY DEF DevTypeOK
    <3>2. PICK bank \in Banks : bank = FillBank(tx_state)
      BY <2>2
    <3>3. txBank' = [txBank EXCEPT ![bank] = p] /\ txBank[bank] = None
      BY <2>1, <2>2, <3>2
    <3>4. ArmedIn(txBank') \cup InUse(txBank[bank]) = ArmedIn(txBank) \cup InUse(p)
      BY <3>1, <3>3 DEF ArmedIn, Banks
    <3> QED BY <3>3, <3>4
  <2>4. InUse(None) = {} /\ InUse(p) = {p}
    BY ConstantTypes DEF InUse
  <2>5. TxArmed' = TxArmed \cup {p}
    BY <2>3, <2>4, ArmedIs
  <2>6. TxQueued' = TxQueued
    BY <2>1, QueuedIs
  <2> QED BY <2>5, <2>6
<1> QED BY <1>1, <1>2

\* usb_rx_memory gives a packet to a bank that has none ...
LEMMA RxHeldGive ==
  ASSUME DevTypeOK, NEW p \in Packets, GiveToRx(p)
  PROVE  RxArmed' = RxArmed \cup {p} /\ usb_buffer_available' = usb_buffer_available
<1>1. /\ rxBank' = [rxBank EXCEPT ![FirstStarving] = p]
      /\ usb_buffer_available' = usb_buffer_available
      /\ FirstStarving \in Banks /\ rxBank[FirstStarving] = None
  BY DEF GiveToRx, FirstStarving, Starving, Banks
<1>2. ArmedIn(rxBank') \cup InUse(None) = ArmedIn(rxBank) \cup InUse(p)
  <2>1. rxBank \in [Banks -> Packets \cup {None}]
    BY DEF DevTypeOK
  <2>2. PICK bank \in Banks : bank = FirstStarving
    BY <1>1
  <2>3. rxBank' = [rxBank EXCEPT ![bank] = p] /\ rxBank[bank] = None
    BY <1>1, <2>2
  <2>4. ArmedIn(rxBank') \cup InUse(rxBank[bank]) = ArmedIn(rxBank) \cup InUse(p)
    BY <2>1, <2>3 DEF ArmedIn, Banks
  <2> QED BY <2>3, <2>4
<1>3. InUse(None) = {} /\ InUse(p) = {p}
  BY ConstantTypes DEF InUse
<1> QED BY <1>1, <1>2, <1>3, ArmedIs

\* ... and the interrupt's usb_free to one of those or to the pool.
LEMMA HeldFreeInIsr ==
  ASSUME DevTypeOK, NEW p \in Packets, FreeInIsr(p)
  PROVE  RxArmed' \cup usb_buffer_available' = RxArmed \cup usb_buffer_available \cup {p}
<1>1. CASE GiveToRx(p)
  BY <1>1, RxHeldGive
<1>2. CASE PutInPool(p) /\ UNCHANGED rxBank
  BY <1>2, ArmedIs DEF PutInPool
<1> QED BY <1>1, <1>2, Zenon DEF FreeInIsr

\* The packet usb_malloc takes is one of the pool.
LEMMA PoolMalloc ==
  ASSUME DevTypeOK, NEW p, p = Malloc(usb_buffer_available),
         usb_buffer_available' = usb_buffer_available \ {p}
  PROVE  usb_buffer_available' \cup InUse(p) = usb_buffer_available
<1>1. usb_buffer_available \subseteq Packets
  BY DEF DevTypeOK
<1>2. p # None => p \in usb_buffer_available
  BY <1>1, MallocReturns
<1>3. None \notin usb_buffer_available
  BY <1>1, ConstantTypes
<1> QED BY <1>2, <1>3, InUseIs

\* A step that moves no packet.
LEMMA HeldUnchanged ==
  ASSUME UNCHANGED <<usb_buffer_available, rxBank, txBank, rxQueue, txQueue,
                     rx_packet, tx_packet, hand>>
  PROVE  Held' = Held
BY DEF Held, RxArmed, TxArmed, RxQueued, TxQueued

\* The endpoints as they are.
LEMMA PartsSame ==
  /\ UNCHANGED rxBank  => RxArmed' = RxArmed
  /\ UNCHANGED txBank  => TxArmed' = TxArmed
  /\ UNCHANGED rxQueue => RxQueued' = RxQueued
  /\ UNCHANGED txQueue => TxQueued' = TxQueued
BY DEF RxArmed, TxArmed, RxQueued, TxQueued

\* Reading, with its call of usb_free.
LEMMA HeldConsume ==
  ASSUME Inv, CanRead, pc \in {"idle", "read"}, NEW qty, NEW l, Consume(qty, l)
  PROVE  Held' = Held
<1>1. hand = None /\ DevTypeOK
  BY DEF Inv, MainInv, MainThreadHolds, DevInv
<1>2. UNCHANGED <<usb_buffer_available, rxBank, txBank, txQueue, tx_packet>>
  BY DEF Consume, memVars, txVars, wrVars
<1>3. CASE rx_packet = None
  <2>1. rxQueue # <<>> /\ rxQueue' = Tail(rxQueue)
    BY <1>3 DEF CanRead, Consume, UsbRx
  <2>2. PICK p : p = Head(rxQueue).pkt
    OBVIOUS
  <2>3. RxQueued = RxQueued' \cup {p} /\ p # None
    BY <1>1, <2>1, <2>2, RxQueuedTail, ConstantTypes
  <2>4. InUse(rx_packet') \cup InUse(hand') = {p}
    <3>1. \/ rx_packet' = None /\ hand' = p
          \/ rx_packet' = p /\ hand' = None
      BY <1>1, <1>3, <2>2 DEF Consume, CallFree
    <3> QED BY <2>3, <3>1 DEF InUse
  <2>5. InUse(rx_packet) = {} /\ InUse(hand) = {}
    BY <1>1, <1>3 DEF InUse
  <2>6. RxArmed' = RxArmed /\ TxArmed' = TxArmed /\ TxQueued' = TxQueued
    BY <1>2, PartsSame
  <2> QED BY <1>2, <2>3, <2>4, <2>5, <2>6 DEF Held
<1>4. CASE rx_packet # None
  <2>1. rxQueue' = rxQueue
    BY <1>4 DEF Consume, rxVars
  <2>2. \/ rx_packet' = None /\ hand' = rx_packet
        \/ rx_packet' = rx_packet /\ hand' = hand
    BY <1>4 DEF Consume, CallFree
  <2>3. InUse(rx_packet') \cup InUse(hand') = InUse(rx_packet) \cup InUse(hand)
    BY <1>1, <2>2 DEF InUse
  <2>4. /\ RxArmed' = RxArmed /\ TxArmed' = TxArmed
        /\ TxQueued' = TxQueued /\ RxQueued' = RxQueued
    BY <1>2, <2>1, PartsSame
  <2> QED BY <1>2, <2>3, <2>4 DEF Held
<1> QED BY <1>3, <1>4

\* flush_input, with its calls of usb_free.
LEMMA HeldFlushInput ==
  ASSUME Inv, FlushInput \/ FlushInputLoop
  PROVE  Held' = Held
<1>1. hand = None /\ DevTypeOK
  BY DEF Inv, MainInv, MainThreadHolds, DevInv, FlushInput, FlushInputLoop
<1>2. UNCHANGED <<usb_buffer_available, rxBank, txBank, txQueue, tx_packet>>
  BY DEF FlushInput, FlushInputLoop, devVars, memVars, txVars, wrVars
<1>3. RxArmed' = RxArmed /\ TxArmed' = TxArmed /\ TxQueued' = TxQueued
  BY <1>2, PartsSame
<1>4. CASE FlushInputLoop /\ rxQueue # <<>>
  <2>1. rxQueue' = Tail(rxQueue) /\ hand' = Head(rxQueue).pkt /\ rx_packet' = rx_packet
    BY <1>4 DEF FlushInputLoop, CallFree, UsbRx, rdVars
  <2>2. PICK p : p = Head(rxQueue).pkt
    OBVIOUS
  <2>3. RxQueued = RxQueued' \cup {p} /\ p # None
    BY <1>1, <1>4, <2>1, <2>2, RxQueuedTail, ConstantTypes
  <2>4. InUse(hand') = {p} /\ InUse(hand) = {} /\ InUse(rx_packet') = InUse(rx_packet)
    BY <1>1, <2>1, <2>2, <2>3 DEF InUse
  <2> QED BY <1>2, <1>3, <2>3, <2>4 DEF Held
<1>5. CASE ~(FlushInputLoop /\ rxQueue # <<>>)
  <2>1. rxQueue' = rxQueue
    BY <1>5 DEF FlushInput, FlushInputLoop, devVars, rxVars
  <2>2. \/ rx_packet' = None /\ hand' = rx_packet
        \/ rx_packet' = rx_packet /\ hand' = hand
    BY <1>5 DEF FlushInput, FlushInputLoop, CallFree, rdVars
  <2>3. InUse(rx_packet') \cup InUse(hand') = InUse(rx_packet) \cup InUse(hand)
    BY <1>1, <2>2 DEF InUse
  <2>4. RxQueued' = RxQueued
    BY <2>1, PartsSame
  <2> QED BY <1>2, <1>3, <2>3, <2>4 DEF Held
<1> QED BY <1>4, <1>5

\* usb_free's own steps.
LEMMA HeldUsbFree ==
  ASSUME Inv, FreeScan \/ FreePut
  PROVE  Held' = Held
<1>1. hand \in Packets /\ hand # None /\ DevTypeOK
  BY DEF Inv, MainInv, MainTypeOK, MainThreadHolds, DevInv, FreeScan, FreePut
<1>2. UNCHANGED <<txBank, rxQueue, txQueue, rx_packet, tx_packet>>
  BY DEF FreeScan, FreePut, txVars, rxVars, rdVars, wrVars
<1>3. TxArmed' = TxArmed /\ TxQueued' = TxQueued /\ RxQueued' = RxQueued
  BY <1>2, PartsSame
<1>4. CASE FreeScan /\ GiveToRx(hand) /\ hand' = None
  <2>1. RxArmed' = RxArmed \cup {hand} /\ usb_buffer_available' = usb_buffer_available
    BY <1>1, <1>4, RxHeldGive
  <2>2. InUse(hand) = {hand} /\ InUse(hand') = {}
    BY <1>1, <1>4 DEF InUse
  <2> QED BY <1>2, <1>3, <2>1, <2>2 DEF Held
<1>5. CASE FreePut
  <2>1. /\ usb_buffer_available' = usb_buffer_available \cup {hand} /\ hand' = None
        /\ rxBank' = rxBank
    BY <1>5 DEF FreePut, PutInPool
  <2>2. InUse(hand) = {hand} /\ InUse(hand') = {} /\ RxArmed' = RxArmed
    BY <1>1, <2>1, PartsSame DEF InUse
  <2> QED BY <1>2, <1>3, <2>1, <2>2 DEF Held
<1>6. CASE UNCHANGED <<memVars, hand>>
  BY <1>2, <1>6, HeldUnchanged DEF memVars
<1> QED BY <1>4, <1>5, <1>6 DEF FreeScan

\* The main thread takes a packet of the pool, for tx_packet or in hand.
LEMMA HeldAlloc ==
  ASSUME Inv, WriteAlloc \/ BufferFreeAlloc \/ FlushOutputTake
  PROVE  Held' = Held
<1>1. DevTypeOK /\ UNCHANGED <<rxBank, txBank, rxQueue, txQueue, rx_packet>>
  BY DEF Inv, DevInv, WriteAlloc, BufferFreeAlloc, FlushOutputTake, txVars, rxVars, rdVars
<1>2. /\ RxArmed' = RxArmed /\ TxArmed' = TxArmed
      /\ TxQueued' = TxQueued /\ RxQueued' = RxQueued
  BY <1>1, PartsSame
<1>3. CASE WriteAlloc \/ BufferFreeAlloc
  <2>1. tx_packet = None /\ hand' = hand
    BY <1>3 DEF Inv, MainInv, MainThreadHolds, WriteAlloc, BufferFreeAlloc
  <2>2. PICK p : p = Malloc(usb_buffer_available)
    OBVIOUS
  <2>3. tx_packet' = p /\ usb_buffer_available' = usb_buffer_available \ {p}
    BY <1>3, <2>2 DEF WriteAlloc, BufferFreeAlloc, TakeTxPacket
  <2>4. usb_buffer_available' \cup InUse(tx_packet') = usb_buffer_available
    BY <1>1, <2>2, <2>3, PoolMalloc
  <2>5. InUse(tx_packet) = {}
    BY <2>1 DEF InUse
  <2> QED BY <1>1, <1>2, <2>1, <2>4, <2>5 DEF Held
<1>4. CASE FlushOutputTake
  <2>1. /\ hand = None /\ tx_packet' = None
        /\ hand' = IF tx_packet # None THEN tx_packet ELSE Malloc(usb_buffer_available)
        /\ usb_buffer_available' = usb_buffer_available \ {hand'}
    BY <1>4 DEF Inv, MainInv, MainThreadHolds, FlushOutputTake
  <2>2. CASE tx_packet = None
    <3>1. PICK p : p = Malloc(usb_buffer_available)
      OBVIOUS
    <3>2. usb_buffer_available' \cup InUse(p) = usb_buffer_available /\ hand' = p
      BY <1>1, <2>1, <2>2, <3>1, PoolMalloc
    <3>3. InUse(hand) = {} /\ InUse(tx_packet) = {} /\ InUse(tx_packet') = {}
      BY <2>1, <2>2 DEF InUse
    <3> QED BY <1>1, <1>2, <3>2, <3>3 DEF Held
  <2>3. CASE tx_packet # None
    <3>1. InUse(hand') = {tx_packet} /\ InUse(tx_packet) = {tx_packet}
          /\ InUse(hand) = {} /\ InUse(tx_packet') = {}
      BY <2>1, <2>3 DEF InUse
    <3>2. usb_buffer_available' = usb_buffer_available \ {tx_packet}
      BY <2>1, <2>3
    <3> QED BY <1>1, <1>2, <3>1, <3>2 DEF Held
  <2> QED BY <2>2, <2>3
<1> QED BY <1>3, <1>4

\* A packet sent: usb_tx takes it from the main thread or from the pool.
LEMMA HeldUsbTx ==
  ASSUME Inv, NEW p \in Packets, UsbTx(p), UNCHANGED <<rxBank, rxQueue, rx_packet>>,
         usb_buffer_available' \cup {p} \cup InUse(tx_packet') \cup InUse(hand') =
           usb_buffer_available \cup InUse(tx_packet) \cup InUse(hand)
  PROVE  Held' = Held
<1>1. TxArmed' \cup TxQueued' = TxArmed \cup TxQueued \cup {p}
  BY TxHeldUsbTx DEF Inv, DevInv
<1>2. RxArmed' = RxArmed /\ RxQueued' = RxQueued
  BY PartsSame
<1> QED BY <1>1, <1>2 DEF Held

LEMMA HeldSend ==
  ASSUME Inv, WriteFill \/ FlushOutputSend \/ StartOfFrame
  PROVE  Held' = Held
<1>1. /\ DevTypeOK /\ tx_packet \in Packets \cup {None} /\ hand \in Packets \cup {None}
      /\ InUse(None) = {} /\ \A p \in Packets : InUse(p) = {p}
  BY ConstantTypes DEF Inv, MainInv, MainTypeOK, DevInv, InUse
<1>2. UNCHANGED <<rxBank, rxQueue, rx_packet>>
  BY DEF WriteFill, FlushOutputSend, StartOfFrame, memVars, rxVars, rdVars
<1>3. CASE WriteFill
  <2>1. tx_packet # None /\ UNCHANGED <<usb_buffer_available, hand>>
    BY <1>3 DEF Inv, MainInv, MainThreadHolds, WriteFill, memVars
  <2>2. CASE UsbTx(tx_packet) /\ tx_packet' = None
    BY <1>1, <1>2, <2>1, <2>2, HeldUsbTx
  <2>3. CASE UNCHANGED <<txVars, tx_packet>>
    BY <1>2, <2>1, <2>3, HeldUnchanged DEF txVars
  <2> QED BY <1>3, <2>2, <2>3 DEF WriteFill
<1>4. CASE FlushOutputSend
  <2>1. /\ hand # None /\ UsbTx(hand) /\ hand' = None
        /\ UNCHANGED <<usb_buffer_available, tx_packet>>
    BY <1>4 DEF Inv, MainInv, MainThreadHolds, FlushOutputSend, memVars, wrVars
  <2> QED BY <1>1, <1>2, <2>1, HeldUsbTx
<1>5. CASE StartOfFrame
  <2>1. hand' = hand
    BY <1>5 DEF StartOfFrame, mainVars
  <2>2. CASE /\ tx_packet # None /\ UsbTx(tx_packet) /\ tx_packet' = None
             /\ UNCHANGED usb_buffer_available
    BY <1>1, <1>2, <2>1, <2>2, HeldUsbTx
  <2>3. CASE /\ usb_buffer_available # {} /\ UsbTx(Malloc(usb_buffer_available))
             /\ usb_buffer_available' =
                  usb_buffer_available \ {Malloc(usb_buffer_available)}
             /\ UNCHANGED tx_packet
    <3>1. PICK p \in Packets : p = Malloc(usb_buffer_available) /\ p \in usb_buffer_available
      BY <1>1, <2>3, MallocReturns DEF DevTypeOK
    <3>2. /\ UsbTx(p) /\ UNCHANGED tx_packet
          /\ usb_buffer_available' \cup {p} = usb_buffer_available
      BY <2>3, <3>1
    <3>3. usb_buffer_available' \cup {p} \cup InUse(tx_packet') \cup InUse(hand') =
            usb_buffer_available \cup InUse(tx_packet) \cup InUse(hand)
      BY <2>1, <3>2
    <3> QED BY <1>2, <3>2, <3>3, HeldUsbTx
  <2>4. CASE UNCHANGED <<usb_buffer_available, txVars, tx_packet>>
    BY <1>2, <2>1, <2>4, HeldUnchanged DEF txVars
  <2> QED BY <1>5, <2>2, <2>3, <2>4 DEF StartOfFrame, FlushCallback
<1> QED BY <1>3, <1>4, <1>5

\* A transmission completed: its packet is freed, and the head of the queue
\* takes its place.
LEMMA HeldTxDone ==
  ASSUME Inv, TxDone, UNCHANGED <<rx_packet, tx_packet, hand>>
  PROVE  Held' = Held
<1>1. PICK bank \in Banks, p \in Packets : bank = Head(stat).bank /\ p = txBank[bank]
  <2>1. Head(stat) \in Tokens /\ txBank[Head(stat).bank] \in Packets
    BY HeadToken DEF TxDone, Inv
  <2> QED BY <2>1 DEF Tokens
<1>2. /\ DevTypeOK /\ None \notin Packets
      /\ txBank \in [Banks -> Packets \cup {None}] /\ txQueue \in Seq(Packets)
  BY ConstantTypes DEF Inv, DevInv, DevTypeOK
<1>3. RxArmed' \cup usb_buffer_available' = RxArmed \cup usb_buffer_available \cup {p}
  BY <1>1, <1>2, HeldFreeInIsr DEF TxDone
<1>4. RxQueued' = RxQueued
  BY PartsSame DEF TxDone, rxVars
<1>5. TxArmed' \cup TxQueued' \cup {p} = TxArmed \cup TxQueued
  <2>1. CASE txQueue = <<>>
    <3>1. txBank' = [txBank EXCEPT ![bank] = None] /\ txQueue' = txQueue
      BY <1>1, <2>1 DEF TxDone
    <3>2. ArmedIn(txBank') \cup {p} = ArmedIn(txBank)
      BY <1>1, <1>2, <3>1 DEF ArmedIn, InUse, Banks
    <3> QED BY <3>1, <3>2, ArmedIs, PartsSame
  <2>2. CASE txQueue # <<>>
    <3>1. PICK r \in Packets : r = Head(txQueue)
      BY <1>2, <2>2
    <3>2. txBank' = [txBank EXCEPT ![bank] = r] /\ txQueue' = Tail(txQueue)
      BY <1>1, <2>2, <3>1 DEF TxDone
    <3>3. ArmedIn(txBank') \cup {p} = ArmedIn(txBank) \cup {r}
      BY <1>1, <1>2, <3>2 DEF ArmedIn, InUse, Banks
    <3>4. TxQueued = TxQueued' \cup {r}
      BY <1>2, <2>2, <3>1, <3>2, ElementsTail, QueuedIs
    <3> QED BY <3>3, <3>4, ArmedIs
  <2> QED BY <2>1, <2>2
<1>6. p \in TxArmed
  BY <1>1, <1>2 DEF TxArmed
<1> QED BY <1>3, <1>4, <1>5, <1>6 DEF Held

\* A packet received: it is queued, and one of the pool takes its place.
LEMMA HeldRxDone ==
  ASSUME Inv, RxDone, UNCHANGED <<rx_packet, tx_packet, hand>>
  PROVE  Held' = Held
<1>1. /\ DevTypeOK /\ None \notin Packets
      /\ rxBank \in [Banks -> Packets \cup {None}] /\ Head(stat) \in Tokens
  BY HeadToken, ConstantTypes DEF RxDone, Inv, DevInv, DevTypeOK
<1>2. PICK bank \in Banks, p \in Packets : bank = Head(stat).bank /\ p = rxBank[bank]
  <2>1. Head(stat) \in Tokens /\ rxBank[Head(stat).bank] \in Packets
    BY HeadToken DEF RxDone, Inv
  <2> QED BY <2>1 DEF Tokens
<1>3. PICK len \in 0 .. CDC_RX_SIZE : len = Head(stat).len
  BY <1>1 DEF Tokens
<1>4. PICK new : new = Malloc(usb_buffer_available)
  OBVIOUS
<1>5. TxArmed' = TxArmed /\ TxQueued' = TxQueued
  BY PartsSame DEF RxDone, txVars
<1>6. CASE len = 0
  BY <1>3, <1>6, HeldUnchanged DEF RxDone, memVars, txVars, rxVars
<1>7. CASE len > 0
  <2>1. PICK r \in Received : r = [pkt |-> p, len |-> len]
    <3>1. len \in 1 .. CDC_RX_SIZE
      BY <1>3, <1>7, ConstantTypes
    <3> QED BY <1>2, <3>1 DEF Received
  <2>2. /\ rxQueue' = Append(rxQueue, r)
        /\ rxBank' = [rxBank EXCEPT ![bank] = new]
        /\ usb_buffer_available' = usb_buffer_available \ {new}
    BY <1>2, <1>3, <1>4, <1>7, <2>1 DEF RxDone
  <2>3. RxQueued' = RxQueued \cup {p}
    BY <1>1, <2>1, <2>2, RxQueuedAppend
  <2>4. usb_buffer_available' \cup InUse(new) = usb_buffer_available
    BY <1>1, <1>4, <2>2, PoolMalloc
  <2>5. ArmedIn(rxBank') \cup {p} = ArmedIn(rxBank) \cup InUse(new)
    BY <1>1, <1>2, <2>2 DEF ArmedIn, InUse, Banks
  <2>6. RxArmed' \cup {p} = RxArmed \cup InUse(new)
    BY <2>5, ArmedIs
  <2>7. p \in RxArmed
    BY <1>1, <1>2 DEF RxArmed
  <2> QED BY <1>5, <2>3, <2>4, <2>6, <2>7 DEF Held
<1> QED BY <1>3, <1>6, <1>7

\* Every step but a configuration keeps the packets it finds, and finds none.
LEMMA HeldNext ==
  ASSUME Inv, [Next]_vars, ~Configure
  PROVE  Held' = Held
<1>1. CASE Getchar \/ Peekchar
  <2>1. PICK qty, l : CanRead /\ pc = "idle" /\ Consume(qty, l)
    BY <1>1 DEF Getchar, Peekchar
  <2> QED BY <2>1, HeldConsume
<1>2. CASE FlushInput \/ FlushInputLoop
  BY <1>2, HeldFlushInput
<1>3. CASE ReadLoop
  <2>1. CASE \E qty : CanRead /\ pc = "read" /\ Consume(qty, "read")
    BY <2>1, HeldConsume
  <2>2. CASE UNCHANGED <<devVars, rdVars, wrVars, ret, hand, wait_count>>
    BY <2>2, HeldUnchanged DEF devVars, memVars, txVars, rxVars, rdVars, wrVars
  <2> QED BY <1>3, <2>1, <2>2 DEF ReadLoop
<1>4. CASE \/ \E n \in 1 .. MaxSize : Read(n) \/ Write(n)
           \/ WriteBufferFree \/ FlushOutput
  BY <1>4, HeldUnchanged
     DEF Read, Write, WriteBufferFree, FlushOutput, devVars, memVars, txVars, rxVars,
         rdVars, wrVars
<1>5. CASE FreeScan \/ FreePut
  BY <1>5, HeldUsbFree
<1>6. CASE FreeTest \/ FreeMiss
  BY <1>6, HeldUnchanged
     DEF FreeTest, FreeMiss, devVars, memVars, txVars, rxVars, rdVars, wrVars
<1>7. CASE WriteLoop \/ WriteWait \/ WriteCount \/ WriteHold \/ WriteRetry \/ WriteTimer
  BY <1>7, HeldUnchanged
     DEF WriteLoop, WriteWait, WriteCount, WriteHold, WriteRetry, WriteTimer,
         devVars, memVars, txVars, rxVars, rdVars, wrVars
<1>8. CASE WriteAlloc \/ BufferFreeAlloc \/ FlushOutputTake
  BY <1>8, HeldAlloc
<1>9. CASE WriteFill \/ FlushOutputSend \/ StartOfFrame
  BY <1>9, HeldSend
<1>10. CASE BufferFreeCheck \/ BufferFreeDone \/ FlushOutputEnd
  BY <1>10, HeldUnchanged
     DEF BufferFreeCheck, BufferFreeDone, FlushOutputEnd,
         devVars, memVars, txVars, rxVars, rdVars, wrVars
<1>11. CASE TokenDone
  BY <1>11, HeldTxDone, HeldRxDone DEF TokenDone, Idle, rdVars, wrVars, mainVars
<1>12. CASE Reset \/ Collect \/ Deliver
  BY <1>12, HeldUnchanged
     DEF Reset, BusReset, Collect, HostIn, Deliver, HostOut, Idle, memVars, txVars,
         rxVars, rdVars, wrVars, mainVars
<1>13. CASE UNCHANGED vars
  BY <1>13, HeldUnchanged
     DEF vars, devVars, memVars, txVars, rxVars, rdVars, wrVars, mainVars
<1> QED BY <1>1, <1>2, <1>3, <1>4, <1>5, <1>6, <1>7, <1>8, <1>9, <1>10, <1>11, <1>12,
           <1>13 DEF Next, Call, Step

-----------------------------------------------------------------------------
(* What a configuration loses *)

\* A part of a concatenation is in it.
LEMMA PartOfConcat ==
  ASSUME NEW S, NEW s \in Seq(S), NEW t \in Seq(S)
  PROVE  s \o t \in Seq(S) /\ Elements(s \o t) = Elements(s) \cup Elements(t)
<1>1. /\ s \o t \in Seq(S) /\ Len(s) \in Nat /\ Len(t) \in Nat
      /\ Len(s \o t) = Len(s) + Len(t)
      /\ \A i \in 1 .. Len(s) + Len(t) :
           (s \o t)[i] = IF i <= Len(s) THEN s[i] ELSE t[i - Len(s)]
  BY ConcatProperties
<1>2. ASSUME NEW i \in 1 .. Len(s)
      PROVE  s[i] \in Elements(s \o t)
  <2>1. i \in 1 .. Len(s) + Len(t) /\ (s \o t)[i] = s[i]
    BY <1>1
  <2> QED BY <1>1, <2>1 DEF Elements
<1>3. ASSUME NEW i \in 1 .. Len(t)
      PROVE  t[i] \in Elements(s \o t)
  <2>1. /\ i + Len(s) \in 1 .. Len(s) + Len(t) /\ ~(i + Len(s) <= Len(s))
        /\ i + Len(s) - Len(s) = i
    BY <1>1
  <2>2. (s \o t)[i + Len(s)] = t[i]
    BY <1>1, <2>1
  <2> QED BY <1>1, <2>1, <2>2 DEF Elements
<1>4. ASSUME NEW i \in 1 .. Len(s) + Len(t)
      PROVE  (s \o t)[i] \in Elements(s) \cup Elements(t)
  <2>1. CASE i <= Len(s)
    BY <1>1, <2>1 DEF Elements
  <2>2. CASE ~(i <= Len(s))
    <3>1. i - Len(s) \in 1 .. Len(t) /\ (s \o t)[i] = t[i - Len(s)]
      BY <1>1, <2>2
    <3> QED BY <3>1 DEF Elements
  <2> QED BY <2>1, <2>2
<1> QED BY <1>1, <1>2, <1>3, <1>4 DEF Elements

\* What a bank holds.
LEMMA HeldByIs ==
  ASSUME NEW p \in Packets \cup {None}
  PROVE  HeldBy(p) \in Seq(Packets) /\ Elements(HeldBy(p)) = InUse(p) /\ Distinct(HeldBy(p))
<1>1. CASE p = None
  BY <1>1 DEF HeldBy, Elements, InUse, Distinct
<1>2. CASE p # None
  <2>1. HeldBy(p) = <<p>> /\ p \in Packets /\ Len(<<p>>) = 1 /\ <<p>>[1] = p
    BY <1>2 DEF HeldBy
  <2>2. Elements(<<p>>) = {p} /\ Distinct(<<p>>)
    BY <2>1 DEF Elements, Distinct
  <2> QED BY <1>2, <2>1, <2>2 DEF InUse
<1> QED BY <1>1, <1>2

\* SET_CONFIGURATION frees what the banks and the queues hold.
LEMMA FreedIs ==
  ASSUME DevTypeOK
  PROVE  /\ FreedInOrder \in Seq(Packets)
         /\ Elements(FreedInOrder) = RxArmed \cup TxArmed \cup RxQueued \cup TxQueued
<1> DEFINE a == HeldBy(rxBank["EVEN"])
           b == HeldBy(rxBank["ODD"])
           c == HeldBy(txBank["EVEN"])
           d == HeldBy(txBank["ODD"])
<1>2. /\ a \in Seq(Packets) /\ Elements(a) = InUse(rxBank["EVEN"])
      /\ b \in Seq(Packets) /\ Elements(b) = InUse(rxBank["ODD"])
      /\ c \in Seq(Packets) /\ Elements(c) = InUse(txBank["EVEN"])
      /\ d \in Seq(Packets) /\ Elements(d) = InUse(txBank["ODD"])
  <2>1. /\ rxBank["EVEN"] \in Packets \cup {None} /\ rxBank["ODD"] \in Packets \cup {None}
        /\ txBank["EVEN"] \in Packets \cup {None} /\ txBank["ODD"] \in Packets \cup {None}
    BY DEF DevTypeOK, Banks
  <2> QED BY <2>1, HeldByIs
<1>3. /\ RxPackets \in Seq(Packets) /\ txQueue \in Seq(Packets)
      /\ Elements(RxPackets) = RxQueued /\ Elements(txQueue) = TxQueued
  <2>1. rxQueue \in Seq(Received)
    BY DEF DevTypeOK
  <2>2. /\ RxPackets \in Seq(Packets) /\ Len(RxPackets) = Len(rxQueue)
        /\ \A i \in 1 .. Len(rxQueue) : RxPackets[i] = rxQueue[i].pkt
    BY <2>1, PacketsOfQueue DEF RxPackets
  <2> QED BY <2>2 DEF DevTypeOK, Elements, RxQueued, TxQueued
<1>4. FreedInOrder = a \o b \o c \o d \o RxPackets \o txQueue
  BY DEF FreedInOrder, RxPackets, PacketsOf
<1> HIDE DEF a, b, c, d
<1> DEFINE ab   == a \o b
           abc  == ab \o c
           abcd == abc \o d
           rest == abcd \o RxPackets
<1>5. FreedInOrder = rest \o txQueue
  BY <1>4
<1>6. ab \in Seq(Packets) /\ Elements(ab) = Elements(a) \cup Elements(b)
  BY <1>2, PartOfConcat
<1> HIDE DEF ab
<1>7. abc \in Seq(Packets) /\ Elements(abc) = Elements(ab) \cup Elements(c)
  BY <1>2, <1>6, PartOfConcat
<1> HIDE DEF abc
<1>8. abcd \in Seq(Packets) /\ Elements(abcd) = Elements(abc) \cup Elements(d)
  BY <1>2, <1>7, PartOfConcat
<1> HIDE DEF abcd
<1>9. rest \in Seq(Packets) /\ Elements(rest) = Elements(abcd) \cup Elements(RxPackets)
  BY <1>3, <1>8, PartOfConcat
<1> HIDE DEF rest
<1>10. /\ FreedInOrder \in Seq(Packets)
       /\ Elements(FreedInOrder) = Elements(rest) \cup Elements(txQueue)
  BY <1>3, <1>5, <1>9, PartOfConcat
<1>11. RxArmed = Elements(a) \cup Elements(b) /\ TxArmed = Elements(c) \cup Elements(d)
  BY <1>2, ArmedIs DEF ArmedIn
<1> QED BY <1>3, <1>6, <1>7, <1>8, <1>9, <1>10, <1>11

\* At most two of them go where the configuration overwrites them, and none
\* unless the device counts a starving bank.
LEMMA CapturedIs ==
  ASSUME DevTypeOK, NEW v
  PROVE  /\ Captured(v) # {} => usb_rx_memory_needed > 0
         /\ \E p, q : Captured(v) \subseteq {p, q}
<1> DEFINE starving == IF rxBank["EVEN"] = None THEN Cardinality(Starving) ELSE 0
<1>1. starving \in 0 .. 2
  <2>1. Cardinality(Starving) = Ones(rxBank) /\ Ones(rxBank) \in 0 .. 2
    BY StarvingIs DEF Starving, Ones
  <2> QED BY <2>1
<1>2. /\ FreedInOrder \in Seq(Packets) /\ Len(FreedInOrder) \in Nat
      /\ usb_rx_memory_needed \in 0 .. 255
  BY FreedIs DEF DevTypeOK
<1>3. \A p \in Captured(v) : \E j \in 1 .. Len(FreedInOrder) :
        j <= starving /\ j <= usb_rx_memory_needed /\ p = FreedInOrder[j]
  BY DEF Captured
<1> HIDE DEF starving
<1>4. ASSUME NEW p \in Captured(v)
      PROVE  usb_rx_memory_needed > 0 /\ p \in {FreedInOrder[1], FreedInOrder[2]}
  <2>1. PICK j \in 1 .. Len(FreedInOrder) :
          j <= starving /\ j <= usb_rx_memory_needed /\ p = FreedInOrder[j]
    BY <1>3
  <2>2. j = 1 \/ j = 2
    BY <1>1, <1>2, <2>1
  <2> QED BY <1>2, <2>1, <2>2
<1> QED BY <1>4

\* So a configuration keeps every packet but those.
LEMMA HeldConfigure ==
  ASSUME Inv, NEW v, SetConfiguration(v), UNCHANGED <<rx_packet, tx_packet, hand>>
  PROVE  Held' \subseteq Held /\ Held \ Held' \subseteq Captured(v)
<1> DEFINE pool == PoolAfterFrees(v)
           even == Malloc(pool)
           odd  == Malloc(pool \ {even})
<1>1. /\ rxBank' = [bank \in Banks |-> IF bank = "EVEN" THEN even ELSE odd]
      /\ usb_buffer_available' = pool \ {even, odd}
      /\ txBank' = [bank \in Banks |-> None] /\ txQueue' = <<>> /\ rxQueue' = <<>>
  BY DEF SetConfiguration
<1>2. DevTypeOK /\ None \notin Packets
  BY ConstantTypes DEF Inv, DevInv
<1>3. pool \subseteq Packets
  BY <1>2, FreedArePackets
<1>4. pool = (usb_buffer_available \cup Elements(FreedInOrder)) \ Captured(v)
  BY DEF PoolAfterFrees, Elements
<1> HIDE DEF pool
<1>5. even = None \/ even \in pool
  BY <1>3, MallocReturns
<1>6. odd = None \/ odd \in pool
  <2>1. pool \ {even} \subseteq Packets
    BY <1>3
  <2> QED BY <2>1, MallocReturns
<1> HIDE DEF even, odd
<1>7. RxArmed' = InUse(even) \cup InUse(odd) /\ TxArmed' = {}
  <2>1. /\ rxBank'["EVEN"] = even /\ rxBank'["ODD"] = odd
        /\ txBank'["EVEN"] = None /\ txBank'["ODD"] = None
    BY <1>1 DEF Banks
  <2> QED BY <2>1, ArmedIs DEF ArmedIn, InUse
<1>8. RxQueued' = {} /\ TxQueued' = {}
  BY <1>1 DEF RxQueued, TxQueued
<1>9. usb_buffer_available' \cup InUse(even) \cup InUse(odd) = pool
  BY <1>1, <1>2, <1>3, <1>5, <1>6 DEF InUse
<1>10. Held' = pool \cup InUse(rx_packet) \cup InUse(tx_packet) \cup InUse(hand)
  BY <1>7, <1>8, <1>9 DEF Held
<1>11. Elements(FreedInOrder) = RxArmed \cup TxArmed \cup RxQueued \cup TxQueued
  BY <1>2, FreedIs
<1>12. Held = usb_buffer_available \cup Elements(FreedInOrder) \cup InUse(rx_packet)
                \cup InUse(tx_packet) \cup InUse(hand)
  BY <1>11 DEF Held
<1> QED BY <1>4, <1>10, <1>12

\* A subset of a pair.
LEMMA PairCardinality ==
  ASSUME NEW S, NEW p, NEW q, S \subseteq {p, q}
  PROVE  Cardinality(S) <= 2
<1>1. /\ IsFiniteSet({}) /\ Cardinality({}) = 0
      /\ IsFiniteSet({p}) /\ Cardinality({p}) = 1
      /\ IsFiniteSet({q}) /\ Cardinality({q}) = 1
  BY FS_EmptySet, FS_Singleton
<1>2. p # q => Cardinality({p} \cup {q}) = 2
  <2> SUFFICES ASSUME p # q PROVE Cardinality({p} \cup {q}) = 2
    OBVIOUS
  <2>1. q \notin {p}
    OBVIOUS
  <2> QED BY <1>1, <2>1, FS_AddElement
<1>3. S \in {{}, {p}, {q}, {p} \cup {q}}
  OBVIOUS
<1>4. p = q => {p} \cup {q} = {p}
  OBVIOUS
<1> QED BY <1>1, <1>2, <1>3, <1>4

\* usb_free and usb_malloc never drop a packet, in whatever order the main thread,
\* the interrupt and the start of frame call them: packets are lost only by a
\* SET_CONFIGURATION that meets a device counting starving banks, two at most.
THEOREM LossCorrect == Spec => LostOnlyByStarvedConfiguration
<1>1. ASSUME Inv, [Next]_vars
      PROVE  [Lost' # Lost =>
                /\ configs' = configs + 1
                /\ usb_rx_memory_needed > 0
                /\ Lost \subseteq Lost'
                /\ Cardinality(Lost' \ Lost) <= 2]_vars
  <2> SUFFICES ASSUME Lost' # Lost
               PROVE  /\ configs' = configs + 1 /\ usb_rx_memory_needed > 0
                      /\ Lost \subseteq Lost' /\ Cardinality(Lost' \ Lost) <= 2
    OBVIOUS
  <2>1. Lost = Packets \ Held /\ Lost' = Packets \ Held'
    BY DEF Lost, Packets
  <2>2. Configure
    BY <1>1, <2>1, HeldNext
  <2>3. PICK v \in {0, 1} : SetConfiguration(v)
    BY <2>2 DEF Configure
  <2>4. Held' \subseteq Held /\ Held \ Held' \subseteq Captured(v)
    BY <1>1, <2>2, <2>3, HeldConfigure DEF Configure, Idle, rdVars, wrVars, mainVars
  <2>5. Lost \subseteq Lost' /\ Lost' \ Lost \subseteq Captured(v) /\ Captured(v) # {}
    BY <2>1, <2>4
  <2>6. PICK p, q : Captured(v) \subseteq {p, q}
    BY <1>1, CapturedIs DEF Inv, DevInv
  <2>7. Lost' \ Lost \subseteq {p, q}
    BY <2>5, <2>6
  <2>8. usb_rx_memory_needed > 0
    BY <1>1, <2>5, CapturedIs DEF Inv, DevInv
  <2>9. configs' = configs + 1
    BY <2>3 DEF SetConfiguration
  <2> QED BY <2>5, <2>7, <2>8, <2>9, PairCardinality
<1> QED BY <1>1, InvAlways, PTL DEF Spec, LostOnlyByStarvedConfiguration

-----------------------------------------------------------------------------
(* The count of received bytes *)

\* g[n] is the length of the first n packets of q together.
Sums(g, q) ==
  /\ g \in [0 .. Len(q) -> Int]
  /\ g[0] = 0
  /\ \A i \in 1 .. Len(q) : g[i] = g[i - 1] + q[i].len

\* The equation of BytesIn has one solution.
LEMMA BytesInIs ==
  ASSUME NEW q \in Seq(Received), NEW g, Sums(g, q)
  PROVE  BytesIn(q) = g[Len(q)]
<1> DEFINE F(f) == [n \in 0 .. Len(q) |-> IF n = 0 THEN 0 ELSE f[n - 1] + q[n].len]
           upTo == CHOOSE f : f = F(f)
<1>1. BytesIn(q) = upTo[Len(q)]
  BY DEF BytesIn
<1>2. Len(q) \in Nat /\ Len(q) \in 0 .. Len(q)
  OBVIOUS
<1>3. g = F(g)
  <2>1. \A n \in 0 .. Len(q) : g[n] = IF n = 0 THEN 0 ELSE g[n - 1] + q[n].len
    BY <1>2 DEF Sums
  <2> QED BY <2>1 DEF Sums
<1>4. upTo = F(upTo)
  BY <1>3
<1> HIDE DEF upTo
<1>5. /\ upTo[0] = 0
      /\ \A n \in 1 .. Len(q) : upTo[n] = upTo[n - 1] + q[n].len
  <2>1. \A n \in 0 .. Len(q) : upTo[n] = IF n = 0 THEN 0 ELSE upTo[n - 1] + q[n].len
    BY <1>4
  <2> QED BY <1>2, <2>1
<1>6. ASSUME NEW m \in 0 .. Len(q), upTo[m] # g[m]
      PROVE  FALSE
  <2> DEFINE Differ == {n \in 0 .. Len(q) : upTo[n] # g[n]}
  <2>1. Differ \subseteq Nat /\ Differ # {}
    BY <1>2, <1>6
  <2>2. PICK n \in Differ : \A k \in Differ : n <= k
    BY <2>1, LeastElement
  <2>3. n \in 1 .. Len(q) /\ n - 1 \in 0 .. Len(q) /\ ~(n <= n - 1)
    BY <1>2, <1>5, <2>2 DEF Sums
  <2>4. upTo[n - 1] = g[n - 1]
    BY <2>2, <2>3
  <2> QED BY <1>5, <2>2, <2>3, <2>4 DEF Sums
<1> QED BY <1>1, <1>2, <1>6

Counted == \E g : Sums(g, rxQueue) /\ usb_rx_byte_count_data = g[Len(rxQueue)]

LEMMA CountedTail ==
  ASSUME DevTypeOK, Counted, rxQueue # <<>>, UsbRx
  PROVE  Counted'
<1>1. PICK g : Sums(g, rxQueue) /\ usb_rx_byte_count_data = g[Len(rxQueue)]
  BY DEF Counted
<1>2. /\ rxQueue \in Seq(Received) /\ Len(rxQueue) \in Nat /\ Len(rxQueue) >= 1
      /\ Head(rxQueue) = rxQueue[1] /\ rxQueue' \in Seq(Received)
      /\ Len(rxQueue') = Len(rxQueue) - 1
      /\ \A i \in 1 .. Len(rxQueue) - 1 : rxQueue'[i] = rxQueue[i + 1]
      /\ usb_rx_byte_count_data' = usb_rx_byte_count_data - Head(rxQueue).len
  BY DEF DevTypeOK, UsbRx
<1>3. /\ g \in [0 .. Len(rxQueue) -> Int] /\ g[0] = 0
      /\ \A i \in 1 .. Len(rxQueue) : g[i] = g[i - 1] + rxQueue[i].len
  BY <1>1 DEF Sums
<1>4. g[1] = rxQueue[1].len /\ g[1] \in Int
  <2>1. 1 \in 1 .. Len(rxQueue) /\ 1 - 1 = 0 /\ 1 \in 0 .. Len(rxQueue)
    BY <1>2
  <2>2. g[1] = g[0] + rxQueue[1].len /\ rxQueue[1].len \in Int
    <3>1. rxQueue[1] \in Received
      BY <1>2, <2>1
    <3>2. rxQueue[1].len \in 1 .. CDC_RX_SIZE
      BY <3>1 DEF Received
    <3> QED BY <1>3, <2>1, <3>2
  <2> QED BY <1>3, <2>1, <2>2
<1>5. PICK h : h = [i \in 0 .. Len(rxQueue) - 1 |-> g[i + 1] - g[1]]
  OBVIOUS
<1>6. Sums(h, rxQueue')
  <2>1. h \in [0 .. Len(rxQueue') -> Int]
    <3>1. \A i \in 0 .. Len(rxQueue) - 1 : i + 1 \in 0 .. Len(rxQueue)
      BY <1>2
    <3> QED BY <1>2, <1>3, <1>4, <1>5, <3>1
  <2>2. h[0] = 0
    BY <1>2, <1>4, <1>5
  <2>3. ASSUME NEW i \in 1 .. Len(rxQueue')
        PROVE  h[i] = h[i - 1] + rxQueue'[i].len
    <3>1. /\ i \in 1 .. Len(rxQueue) - 1 /\ i - 1 \in 0 .. Len(rxQueue) - 1
          /\ i \in 0 .. Len(rxQueue) - 1
          /\ i + 1 \in 1 .. Len(rxQueue) /\ i \in 0 .. Len(rxQueue)
          /\ (i - 1) + 1 = i /\ (i + 1) - 1 = i
      BY <1>2
    <3>2. h[i] = g[i + 1] - g[1] /\ h[i - 1] = g[i] - g[1]
      BY <1>5, <3>1
    <3>3. g[i + 1] = g[i] + rxQueue[i + 1].len /\ rxQueue'[i] = rxQueue[i + 1]
      BY <1>2, <1>3, <3>1
    <3>4. g[i] \in Int /\ g[i + 1] \in Int /\ rxQueue[i + 1].len \in Int
      <4>1. rxQueue[i + 1] \in Received
        BY <1>2, <3>1
      <4>2. rxQueue[i + 1].len \in 1 .. CDC_RX_SIZE
        BY <4>1 DEF Received
      <4>3. g[i] \in Int /\ g[i + 1] \in Int
        BY <1>3, <3>1
      <4> QED BY <4>2, <4>3
    <3> QED BY <1>4, <3>2, <3>3, <3>4
  <2> QED BY <2>1, <2>2, <2>3 DEF Sums
<1>7. h[Len(rxQueue')] = g[Len(rxQueue)] - g[1]
  BY <1>2, <1>5
<1> QED BY <1>1, <1>2, <1>4, <1>6, <1>7 DEF Counted

LEMMA CountedAppend ==
  ASSUME DevTypeOK, Counted, NEW r \in Received, rxQueue' = Append(rxQueue, r),
         usb_rx_byte_count_data' = usb_rx_byte_count_data + r.len
  PROVE  Counted'
<1>1. PICK g : Sums(g, rxQueue) /\ usb_rx_byte_count_data = g[Len(rxQueue)]
  BY DEF Counted
<1>2. PICK n \in Nat : n = Len(rxQueue)
  BY DEF DevTypeOK
<1>3. /\ Len(rxQueue') = n + 1 /\ rxQueue'[n + 1] = r
      /\ \A i \in 1 .. n : rxQueue'[i] = rxQueue[i]
  BY <1>2 DEF DevTypeOK
<1>4. /\ g \in [0 .. n -> Int] /\ g[0] = 0 /\ r.len \in Int
      /\ \A i \in 1 .. n : g[i] = g[i - 1] + rxQueue[i].len
  BY <1>1, <1>2 DEF Sums, Received
<1>5. PICK h : h = [i \in 0 .. n + 1 |-> IF i = n + 1 THEN g[n] + r.len ELSE g[i]]
  OBVIOUS
<1>6. Sums(h, rxQueue')
  <2>1. h \in [0 .. n + 1 -> Int] /\ h[0] = 0
    BY <1>4, <1>5
  <2>2. ASSUME NEW i \in 1 .. n + 1
        PROVE  h[i] = h[i - 1] + rxQueue'[i].len
    <3>1. CASE i = n + 1
      BY <1>3, <1>5, <3>1
    <3>2. CASE i # n + 1
      <4>1. i \in 1 .. n /\ i - 1 # n + 1 /\ i - 1 \in 0 .. n + 1 /\ i \in 0 .. n + 1
        BY <3>2
      <4> QED BY <1>3, <1>4, <1>5, <4>1
    <3> QED BY <3>1, <3>2
  <2> QED BY <1>3, <2>1, <2>2 DEF Sums
<1>7. h[n + 1] = g[n] + r.len
  BY <1>5
<1> QED BY <1>1, <1>2, <1>3, <1>6, <1>7 DEF Counted

\* An empty queue has no bytes.
LEMMA CountedEmpty ==
  /\ rxQueue = <<>> /\ usb_rx_byte_count_data = 0 => Counted
  /\ rxQueue' = <<>> /\ usb_rx_byte_count_data' = 0 => Counted'
<1>1. PICK g : g = [i \in {0} |-> 0]
  OBVIOUS
<1>2. Sums(g, <<>>) /\ g[Len(<<>>)] = 0
  BY <1>1 DEF Sums
<1> QED BY <1>2 DEF Counted

LEMMA CountedSame ==
  ASSUME Counted, UNCHANGED rxVars
  PROVE  Counted'
BY DEF Counted, rxVars

\* Reading and flush_input take a packet with its bytes, or none.
LEMMA CountedNext ==
  ASSUME Inv, Counted, [Next]_vars
  PROVE  Counted'
<1>1. DevTypeOK
  BY DEF Inv, DevInv
<1>2. CASE rxQueue # <<>> /\ UsbRx
  BY <1>1, <1>2, CountedTail
<1>3. CASE Getchar \/ Peekchar \/ ReadLoop \/ FlushInputLoop
  <2>1. (rxQueue # <<>> /\ UsbRx) \/ UNCHANGED rxVars
    BY <1>3 DEF Getchar, Peekchar, ReadLoop, FlushInputLoop, CanRead, Consume, devVars
  <2> QED BY <1>2, <2>1, CountedSame
<1>4. CASE TxDone \/ StartOfFrame \/ Reset \/ Collect \/ Deliver \/ UNCHANGED vars
  <2>1. UNCHANGED rxVars
    BY <1>4 DEF TxDone, StartOfFrame, Reset, BusReset, Collect, HostIn, Deliver, HostOut,
                vars, devVars
  <2> QED BY <2>1, CountedSame
<1>5. CASE RxDone
  <2>1. CASE Head(stat).len = 0
    BY <1>5, <2>1, CountedSame DEF RxDone
  <2>2. CASE Head(stat).len > 0
    <3>1. Head(stat) \in Tokens /\ rxBank[Head(stat).bank] \in Packets
      BY <1>5, HeadToken DEF RxDone, Inv
    <3>2. Head(stat).len \in 1 .. CDC_RX_SIZE
      BY <2>2, <3>1, ConstantTypes DEF Tokens
    <3>3. PICK r \in Received :
            r = [pkt |-> rxBank[Head(stat).bank], len |-> Head(stat).len]
      BY <3>1, <3>2 DEF Received
    <3>4. rxQueue' = Append(rxQueue, r)
          /\ usb_rx_byte_count_data' = usb_rx_byte_count_data + r.len
      BY <1>5, <2>2, <3>3 DEF RxDone
    <3> QED BY <1>1, <3>4, CountedAppend
  <2> QED BY <1>5, <2>1, <2>2 DEF RxDone
<1>6. CASE Configure
  BY <1>6, CountedEmpty DEF Configure, SetConfiguration
<1>7. CASE \/ FlushInput \/ \E n \in 1 .. MaxSize : Read(n) \/ Write(n)
           \/ WriteBufferFree \/ FlushOutput
  <2>1. UNCHANGED rxVars
    BY <1>7 DEF FlushInput, Read, Write, WriteBufferFree, FlushOutput, devVars
  <2> QED BY <2>1, CountedSame
<1>8. CASE \/ FreeTest \/ FreeScan \/ FreeMiss \/ FreePut \/ WriteLoop \/ WriteWait
           \/ WriteCount \/ WriteHold \/ WriteAlloc \/ WriteRetry \/ WriteFill
           \/ WriteTimer \/ BufferFreeCheck \/ BufferFreeAlloc \/ BufferFreeDone
           \/ FlushOutputTake \/ FlushOutputSend \/ FlushOutputEnd
  <2>1. UNCHANGED rxVars
    BY <1>8 DEF FreeTest, FreeScan, FreeMiss, FreePut, WriteLoop, WriteWait, WriteCount,
                WriteHold, WriteAlloc, WriteRetry, WriteFill, WriteTimer, BufferFreeCheck,
                BufferFreeAlloc, BufferFreeDone, FlushOutputTake, FlushOutputSend,
                FlushOutputEnd, devVars
  <2> QED BY <2>1, CountedSame
<1> QED BY <1>3, <1>4, <1>5, <1>6, <1>7, <1>8 DEF Next, Call, Step, TokenDone

\* usb_rx_byte_count_data, from which usb_serial_available answers, is the number
\* of bytes in the receive queue, whatever comes between usb_rx and usb_isr.
THEOREM ByteCountCorrect == Spec => []ByteCountIsQueued
<1>1. Init => Counted
  BY CountedEmpty DEF Init, DevInit
<1>2. Inv /\ Counted /\ [Next]_vars => Counted'
  BY CountedNext
<1>3. Inv /\ Counted => ByteCountIsQueued
  BY BytesInIs DEF Inv, DevInv, DevTypeOK, Counted, ByteCountIsQueued
<1> QED BY <1>1, <1>2, <1>3, InvAlways, PTL DEF Spec
=============================================================================
