---------------------------- MODULE MCUsbSerial ----------------------------
(* Model checking UsbSerial, and the refinement to the pipes of UsbPipes. *)
EXTENDS UsbSerial

\* The packet of a transmit bank that still waits for the host.
Waiting(bank) ==
  IF txBank[bank] = None \/ Pending("tx", bank) THEN <<>> ELSE <<txBank[bank]>>

\* Handed over and not yet collected, in the order the hardware polls the banks,
\* as long as a host is there to collect.
ToHost ==
  IF hostReady THEN Waiting(hwTx) \o Waiting(Other(hwTx)) \o txQueue ELSE <<>>

\* The packet of a receive bank that the interrupt has yet to queue.
Arriving(bank) ==
  LET HasData(token) == token.dir = "rx" /\ token.bank = bank /\ token.len > 0
  IN  IF \E i \in 1 .. Len(stat) : HasData(stat[i]) THEN <<rxBank[bank]>> ELSE <<>>

\* Received packets: queued ones, then those that arrive, the older one first:
\* the hardware is about to use its bank again.
FromHost ==
  [i \in 1 .. Len(rxQueue) |-> rxQueue[i].pkt] \o Arriving(hwRx) \o Arriving(Other(hwRx))

Pipes == INSTANCE UsbPipes WITH Buffers <- Packets,
           toHost <- ToHost, fromHost <- FromHost,
           connected <- hostReady, inPhase <- InPhase,
           toHostInStep <- hwTx = hostTx, fromHostInStep <- hwRx = hostRx

\* The device, as its host and its user see it, is a pair of FIFO pipes:
\* banks, queues and the interrupt's refills never reorder, repeat or drop a
\* packet while the host stays connected, with two exceptions.  One packet may be
\* overtaken where the hardware and tx_state disagree on the bank that is next;
\* and after a configuration with no bus reset before it, which sets the host's
\* toggles and not the hardware's banks, one packet each way may be dropped.
FifoPipes == Pipes!PipesSpec

-----------------------------------------------------------------------------
(* SET_CONFIGURATION's loops, call by call, to compare Captured with.      *)

\* What the calls change: the pool, the receive banks and the counter.
Memory(pool, rx, needed) == [pool |-> pool, rx |-> rx, needed |-> needed]

\* usb_free(p) from m.
FreeCall(v, m, p) ==
  LET starving == {bank \in Banks : m.rx[bank] = None}
      first    == IF "EVEN" \in starving THEN "EVEN" ELSE "ODD"
  IN  IF v = 0 \/ m.needed = 0 THEN Memory(m.pool \cup {p}, m.rx, m.needed)
      ELSE IF starving = {} THEN Memory(m.pool \cup {p}, m.rx, 0)
      ELSE Memory(m.pool, [m.rx EXCEPT ![first] = p], Decremented(m.needed))

\* The loop frees what a receive bank holds when it gets there.
FreeRxBank(v, m, bank) ==
  IF m.rx[bank] = None THEN m ELSE FreeCall(v, m, m.rx[bank])

\* usb_free for each packet of q in turn.
FreeAll(v, m, q) ==
  LET after[n \in 0 .. Len(q)] == IF n = 0 THEN m ELSE FreeCall(v, after[n - 1], q[n])
  IN  after[Len(q)]

\* The receive banks, then what the transmit banks and the two queues hold.
LoopPool(v) ==
  LET start == Memory(usb_buffer_available, rxBank, usb_rx_memory_needed)
      afterRx == FreeRxBank(v, FreeRxBank(v, start, "EVEN"), "ODD")
      rest == HeldBy(txBank["EVEN"]) \o HeldBy(txBank["ODD"])
                \o [i \in 1 .. Len(rxQueue) |-> rxQueue[i].pkt] \o txQueue
  IN  FreeAll(v, afterRx, rest).pool

\* Handled call by call, a configuration request leaves in the pool exactly
\* the packets PoolAfterFrees names in closed form.
ClosedFormMatchesLoops ==
  TokensHandled => \A v \in {0, 1} : LoopPool(v) = PoolAfterFrees(v)
=============================================================================
