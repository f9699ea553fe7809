--------------------------- MODULE UsbPipesProofs ---------------------------
(***************************************************************************)
(* The CDC serial device is the pair of pipes of UsbPipes (FifoPipes), for *)
(* every size of the pool and every bound, and the phase of its transmit   *)
(* banks is lost only where the host cuts the device off.                  *)
(*                                                                         *)
(* Two facts carry the argument.  The tokens of a direction are in the     *)
(* order in which the hardware uses the banks (Order), so that the         *)
(* interrupt refills and queues in that order.  And a packet has one owner *)
(* (ExclusiveOwner), so that one that enters a pipe is in neither.         *)
(***************************************************************************)
EXTENDS MCUsbSerial, UsbSerialProofs

-----------------------------------------------------------------------------
(* Sequences *)

\* A packet of a concatenation is in one of its parts.
LEMMA InConcat ==
  ASSUME NEW s \in Seq(Packets), NEW t \in Seq(Packets), NEW p,
         Pipes!In(p, s \o t)
  PROVE  Pipes!In(p, s) \/ Pipes!In(p, t)
<1>1. Len(s) \in Nat /\ Len(t) \in Nat
  OBVIOUS
<1>2. PICK i \in 1 .. Len(s \o t) : (s \o t)[i] = p
  BY DEF Pipes!In
<1>3. /\ i \in 1 .. Len(s) + Len(t)
      /\ (s \o t)[i] = IF i <= Len(s) THEN s[i] ELSE t[i - Len(s)]
  BY <1>2, ConcatProperties
<1>4. CASE i <= Len(s)
  <2>1. i \in 1 .. Len(s) /\ s[i] = p
    BY <1>1, <1>2, <1>3, <1>4
  <2> QED BY <2>1 DEF Pipes!In
<1>5. CASE ~(i <= Len(s))
  <2>1. i - Len(s) \in 1 .. Len(t) /\ t[i - Len(s)] = p
    BY <1>1, <1>2, <1>3, <1>5
  <2> QED BY <2>1 DEF Pipes!In
<1> QED BY <1>4, <1>5

\* A packet put at the end of the second of two sequences.
LEMMA AppendRight ==
  ASSUME NEW s \in Seq(Packets), NEW t \in Seq(Packets), NEW p \in Packets
  PROVE  s \o Append(t, p) = Append(s \o t, p)
<1>1. <<p>> \in Seq(Packets) /\ s \o t \in Seq(Packets)
  BY ConcatProperties
<1>2. Append(t, p) = t \o <<p>> /\ Append(s \o t, p) = (s \o t) \o <<p>>
  BY <1>1, AppendIsConcat
<1> QED BY <1>1, <1>2, ConcatAssociative

\* A packet moved from the head of one sequence to the end of the one before.
LEMMA HeadMoves ==
  ASSUME NEW s \in Seq(Packets), NEW t \in Seq(Packets), t # <<>>
  PROVE  (s \o <<Head(t)>>) \o Tail(t) = s \o t
<1>1. /\ Len(t) \in Nat /\ Len(t) >= 1 /\ Head(t) \in Packets
      /\ Tail(t) \in Seq(Packets) /\ <<Head(t)>> \in Seq(Packets)
  OBVIOUS
<1>2. <<Head(t)>> \o Tail(t) = t
  OBVIOUS
<1>3. (s \o <<Head(t)>>) \o Tail(t) = s \o (<<Head(t)>> \o Tail(t))
  BY <1>1, ConcatAssociative
<1> QED BY <1>2, <1>3

\* The head of a concatenation leaves the first of its parts.
LEMMA TailLeft ==
  ASSUME NEW s \in Seq(Packets), NEW t \in Seq(Packets), s # <<>>
  PROVE  s \o t # <<>> /\ Tail(s \o t) = Tail(s) \o t
OBVIOUS

\* Three parts in a row.
LEMMA Three ==
  ASSUME NEW q \in Seq(Packets), NEW a \in Seq(Packets), NEW b \in Seq(Packets)
  PROVE  /\ <<>> \in Seq(Packets) /\ a \o b \in Seq(Packets)
         /\ a \o b \o q \in Seq(Packets) /\ a \o b \o q = a \o (b \o q)
         /\ <<>> \o a = a /\ a \o <<>> = a /\ <<>> \o <<>> \o q = q
         /\ <<>> \o a \o q = a \o q /\ a \o <<>> \o q = a \o q
         /\ a \o b \o <<>> = a \o b /\ q \o a \o <<>> = q \o a
         /\ q \o <<>> \o a = q \o a
<1>1. <<>> \in Seq(Packets) /\ a \o b \in Seq(Packets) /\ q \o a \in Seq(Packets)
  BY ConcatProperties
<1>2. a \o b \o q \in Seq(Packets) /\ a \o b \o q = a \o (b \o q)
  BY <1>1, ConcatProperties, ConcatAssociative
<1> QED BY <1>1, <1>2, ConcatEmptySeq

-----------------------------------------------------------------------------
(* The tokens, as a set and in their order *)

Outstanding == {stat[i] : i \in 1 .. Len(stat)}

\* A bank the hardware uses next, with its token still there, has the other
\* bank's token behind its own.
InOrder(dir, bank) ==
  \A i \in 1 .. Len(stat) : stat[i].dir = dir /\ stat[i].bank = bank =>
    \E j \in i + 1 .. Len(stat) : stat[j].dir = dir /\ stat[j].bank = Other(bank)

Order == InOrder("tx", hwTx) /\ InOrder("rx", hwRx)

HasData(bank) ==
  \E token \in Outstanding : token.dir = "rx" /\ token.bank = bank /\ token.len > 0

\* What the views of the pipes read of the tokens.
LEMMA PendingIs ==
  ASSUME NEW dir, NEW bank
  PROVE  /\ Pending(dir, bank) <=>
              \E token \in Outstanding : token.dir = dir /\ token.bank = bank
         /\ Pending(dir, bank)' <=>
              \E token \in Outstanding' : token.dir = dir /\ token.bank = bank
BY DEF Pending, Outstanding

LEMMA ArrivingIs ==
  ASSUME NEW bank
  PROVE  /\ Arriving(bank) = IF HasData(bank) THEN <<rxBank[bank]>> ELSE <<>>
         /\ Arriving(bank)' = IF HasData(bank)' THEN <<rxBank'[bank]>> ELSE <<>>
BY DEF Arriving, HasData, Outstanding

\* The interrupt takes the first token away.
LEMMA TokenTaken ==
  ASSUME DevInv, stat # <<>>, stat' = Tail(stat)
  PROVE  /\ Head(stat) \in Outstanding
         /\ Outstanding' = Outstanding \ {Head(stat)}
         /\ \A token \in Outstanding :
              token.dir = Head(stat).dir /\ token.bank = Head(stat).bank
                => token = Head(stat)
<1>1. /\ stat \in Seq(Tokens) /\ Len(stat) \in Nat /\ Len(stat) >= 1
      /\ Head(stat) = stat[1] /\ Len(stat') = Len(stat) - 1
      /\ \A i \in 1 .. Len(stat) - 1 : stat'[i] = stat[i + 1]
  BY DEF DevInv, DevTypeOK
<1>2. 1 \in 1 .. Len(stat) /\ \A i \in 1 .. Len(stat) - 1 : i + 1 \in 1 .. Len(stat)
  BY <1>1
<1>3. \A i \in 1 .. Len(stat) :
        stat[i].dir = stat[1].dir /\ stat[i].bank = stat[1].bank => i = 1
  BY <1>2 DEF DevInv, TokensNameArmedBanks
<1>4. \A i \in 1 .. Len(stat) - 1 : stat[i + 1] # stat[1]
  BY <1>1, <1>2, <1>3
<1>5. Outstanding' \subseteq Outstanding \ {Head(stat)}
  BY <1>1, <1>2, <1>4 DEF Outstanding
<1>6. \A i \in 1 .. Len(stat) : i # 1 =>
        i - 1 \in 1 .. Len(stat) - 1 /\ stat'[i - 1] = stat[i]
  <2> SUFFICES ASSUME NEW i \in 1 .. Len(stat), i # 1
               PROVE  i - 1 \in 1 .. Len(stat) - 1 /\ stat'[i - 1] = stat[i]
    OBVIOUS
  <2>1. i - 1 \in 1 .. Len(stat) - 1 /\ (i - 1) + 1 = i
    BY <1>1
  <2> QED BY <1>1, <2>1
<1>7. Outstanding \ {Head(stat)} \subseteq Outstanding'
  <2> SUFFICES ASSUME NEW i \in 1 .. Len(stat), stat[i] # stat[1]
               PROVE  stat[i] \in Outstanding'
    BY <1>1 DEF Outstanding
  <2>1. i - 1 \in 1 .. Len(stat') /\ stat'[i - 1] = stat[i]
    BY <1>1, <1>6
  <2> QED BY <2>1 DEF Outstanding
<1> QED BY <1>1, <1>2, <1>3, <1>5, <1>7 DEF Outstanding

\* Of its bank nothing is outstanding then, of any other what was.
LEMMA TokenGone ==
  ASSUME DevInv, stat # <<>>, stat' = Tail(stat),
         NEW dir, NEW bank, Head(stat).dir = dir, Head(stat).bank = bank
  PROVE  /\ ~Pending(dir, bank)'
         /\ dir = "rx" => ~HasData(bank)'
         /\ \A d, b : d # dir \/ b # bank => (Pending(d, b)' <=> Pending(d, b))
         /\ \A b : dir # "rx" \/ b # bank => (HasData(b)' <=> HasData(b))
<1>1. /\ Outstanding' = Outstanding \ {Head(stat)}
      /\ \A token \in Outstanding :
           token.dir = dir /\ token.bank = bank => token = Head(stat)
  BY TokenTaken
<1>2. ~Pending(dir, bank)'
  BY <1>1, PendingIs
<1>3. \A d, b : d # dir \/ b # bank => (Pending(d, b)' <=> Pending(d, b))
  <2> SUFFICES ASSUME NEW d, NEW b, d # dir \/ b # bank
               PROVE  Pending(d, b)' <=> Pending(d, b)
    OBVIOUS
  <2>1. \A token : token.dir = d /\ token.bank = b =>
          (token \in Outstanding' <=> token \in Outstanding)
    BY <1>1
  <2> QED BY <2>1, PendingIs
<1>4. dir = "rx" => ~HasData(bank)'
  BY <1>1 DEF HasData
<1>5. \A b : dir # "rx" \/ b # bank => (HasData(b)' <=> HasData(b))
  <2> SUFFICES ASSUME NEW b, dir # "rx" \/ b # bank
               PROVE  HasData(b)' <=> HasData(b)
    OBVIOUS
  <2>1. \A token : token.dir = "rx" /\ token.bank = b =>
          (token \in Outstanding' <=> token \in Outstanding)
    BY <1>1
  <2> QED BY <2>1 DEF HasData
<1> QED BY <1>2, <1>3, <1>4, <1>5

\* The hardware adds one at the end.
LEMMA TokenAdded ==
  ASSUME DevInv, NEW token \in Tokens, stat' = Append(stat, token)
  PROVE  Outstanding' = Outstanding \cup {token}
<1>1. /\ stat \in Seq(Tokens) /\ Len(stat) \in Nat /\ Len(stat') = Len(stat) + 1
      /\ stat'[Len(stat) + 1] = token
      /\ \A i \in 1 .. Len(stat) : stat'[i] = stat[i]
  BY DEF DevInv, DevTypeOK
<1>2. \A i \in 1 .. Len(stat) + 1 : i \in 1 .. Len(stat) \/ i = Len(stat) + 1
  BY <1>1
<1> QED BY <1>1, <1>2 DEF Outstanding

\* Taking the first token keeps the others in order, and it was not behind the
\* token of the bank the hardware uses next.
LEMMA OrderTaken ==
  ASSUME DevInv, stat # <<>>, stat' = Tail(stat),
         NEW dir, NEW bank \in Banks, InOrder(dir, bank)
  PROVE  /\ InOrder(dir, bank)'
         /\ Head(stat).dir = dir /\ Head(stat).bank = bank => Pending(dir, Other(bank))
         /\ Head(stat).dir = dir /\ Head(stat).bank = Other(bank) => ~Pending(dir, bank)
<1>1. /\ stat \in Seq(Tokens) /\ Len(stat) \in Nat /\ Len(stat) >= 1
      /\ Head(stat) = stat[1] /\ Len(stat') = Len(stat) - 1
      /\ \A i \in 1 .. Len(stat) - 1 : stat'[i] = stat[i + 1]
  BY DEF DevInv, DevTypeOK
<1>2. 1 \in 1 .. Len(stat) /\ \A i \in 1 .. Len(stat) - 1 : i + 1 \in 1 .. Len(stat)
  BY <1>1
<1>3. \A j \in 1 .. Len(stat) : j \in 2 .. Len(stat) =>
        ~(stat[j].dir = stat[1].dir /\ stat[j].bank = stat[1].bank)
  <2>1. \A j \in 1 .. Len(stat) :
          stat[j].dir = stat[1].dir /\ stat[j].bank = stat[1].bank => j = 1
    BY <1>2 DEF DevInv, TokensNameArmedBanks
  <2> QED BY <2>1, <1>1
<1>4. InOrder(dir, bank)'
  <2> SUFFICES ASSUME NEW i \in 1 .. Len(stat) - 1,
                      stat[i + 1].dir = dir, stat[i + 1].bank = bank
               PROVE  \E j \in i + 1 .. Len(stat) - 1 :
                        stat'[j].dir = dir /\ stat'[j].bank = Other(bank)
    BY <1>1 DEF InOrder
  <2>1. PICK j \in i + 1 + 1 .. Len(stat) :
          stat[j].dir = dir /\ stat[j].bank = Other(bank)
    BY <1>2 DEF InOrder
  <2>2. j - 1 \in i + 1 .. Len(stat) - 1 /\ j - 1 \in 1 .. Len(stat) - 1
        /\ (j - 1) + 1 = j
    BY <1>1, <2>1
  <2>3. stat'[j - 1] = stat[j]
    BY <1>1, <2>2
  <2> QED BY <2>1, <2>2, <2>3
<1>5. ASSUME Head(stat).dir = dir, Head(stat).bank = bank
      PROVE  Pending(dir, Other(bank))
  <2>1. PICK j \in 1 + 1 .. Len(stat) :
          stat[j].dir = dir /\ stat[j].bank = Other(bank)
    BY <1>1, <1>2, <1>5 DEF InOrder
  <2>2. j \in 1 .. Len(stat)
    BY <1>1, <2>1
  <2> QED BY <2>1, <2>2 DEF Pending
<1>6. ASSUME Head(stat).dir = dir, Head(stat).bank = Other(bank), Pending(dir, bank)
      PROVE  FALSE
  <2>1. PICK i \in 1 .. Len(stat) : stat[i].dir = dir /\ stat[i].bank = bank
    BY <1>6 DEF Pending
  <2>2. PICK j \in i + 1 .. Len(stat) :
          stat[j].dir = dir /\ stat[j].bank = Other(bank)
    BY <2>1 DEF InOrder
  <2>3. j \in 1 .. Len(stat) /\ j \in 2 .. Len(stat)
    BY <1>1, <2>1, <2>2
  <2> QED BY <1>1, <1>3, <1>6, <2>2, <2>3
<1> QED BY <1>4, <1>5, <1>6

\* A transfer adds the token of the bank in use and turns to the other bank.
LEMMA OrderAdded ==
  ASSUME DevInv, NEW token \in Tokens, stat' = Append(stat, token),
         NEW dir, NEW bank \in Banks, InOrder(dir, bank)
  PROVE  /\ token.dir # dir => InOrder(dir, bank)'
         /\ token.dir = dir /\ token.bank = bank => InOrder(dir, Other(bank))'
<1>1. /\ stat \in Seq(Tokens) /\ Len(stat) \in Nat /\ Len(stat') = Len(stat) + 1
      /\ stat'[Len(stat) + 1] = token
      /\ \A i \in 1 .. Len(stat) : stat'[i] = stat[i]
  BY DEF DevInv, DevTypeOK
<1>2. \A i \in 1 .. Len(stat) + 1 : i \in 1 .. Len(stat) \/ i = Len(stat) + 1
  BY <1>1
<1>3. ASSUME token.dir # dir  PROVE InOrder(dir, bank)'
  <2> SUFFICES ASSUME NEW i \in 1 .. Len(stat) + 1,
                      stat'[i].dir = dir, stat'[i].bank = bank
               PROVE  \E j \in i + 1 .. Len(stat) + 1 :
                        stat'[j].dir = dir /\ stat'[j].bank = Other(bank)
    BY <1>1 DEF InOrder
  <2>1. i \in 1 .. Len(stat) /\ stat[i].dir = dir /\ stat[i].bank = bank
    BY <1>1, <1>2, <1>3
  <2>2. PICK j \in i + 1 .. Len(stat) : stat[j].dir = dir /\ stat[j].bank = Other(bank)
    BY <2>1 DEF InOrder
  <2>3. j \in 1 .. Len(stat) /\ j \in i + 1 .. Len(stat) + 1
    BY <1>1, <2>1, <2>2
  <2> QED BY <1>1, <2>2, <2>3
<1>4. ASSUME token.dir = dir, token.bank = bank  PROVE InOrder(dir, Other(bank))'
  <2>1. Other(bank) # bank /\ Other(Other(bank)) = bank
    BY DEF Other, Banks
  <2> SUFFICES ASSUME NEW i \in 1 .. Len(stat) + 1,
                      stat'[i].dir = dir, stat'[i].bank = Other(bank)
               PROVE  \E j \in i + 1 .. Len(stat) + 1 :
                        stat'[j].dir = dir /\ stat'[j].bank = bank
    BY <1>1, <2>1 DEF InOrder
  <2>2. i \in 1 .. Len(stat)
    BY <1>1, <1>2, <1>4, <2>1
  <2>3. Len(stat) + 1 \in i + 1 .. Len(stat) + 1
    BY <1>1, <2>2
  <2> QED BY <1>1, <1>4, <2>3
<1> QED BY <1>3, <1>4

\* No token, nothing out of order.
LEMMA OrderEmpty ==
  ASSUME stat = <<>>
  PROVE  /\ \A dir, bank : InOrder(dir, bank)
         /\ Outstanding = {}
BY DEF InOrder, Outstanding

-----------------------------------------------------------------------------
(* The order of the tokens is kept by every step *)

\* What the main thread and the start-of-frame interrupt leave to the hardware.
LEMMA SoftwareLeavesHardware ==
  ASSUME Call \/ Step \/ StartOfFrame \/ UNCHANGED vars
  PROVE  UNCHANGED <<stat, hwRx, hwTx, hostRx, hostTx, hostReady, usb_configuration,
                     configs>>
<1>1. CASE Call
  BY <1>1 DEF Call, Getchar, Peekchar, Consume, FlushInput, Read, Write,
              WriteBufferFree, FlushOutput, devVars, hwVars, cfgVars
<1>2. CASE FreeTest \/ FreeScan \/ FreeMiss \/ FreePut \/ ReadLoop \/ FlushInputLoop
  BY <1>2 DEF FreeTest, FreeScan, FreeMiss, FreePut, ReadLoop, Consume, FlushInputLoop,
              devVars, hwVars, cfgVars
<1>3. CASE \/ WriteLoop \/ WriteWait \/ WriteCount \/ WriteHold \/ WriteAlloc
           \/ WriteRetry \/ WriteFill \/ WriteTimer
  BY <1>3 DEF WriteLoop, WriteWait, WriteCount, WriteHold, WriteAlloc, WriteRetry,
              WriteFill, WriteTimer, devVars, hwVars, cfgVars
<1>4. CASE \/ BufferFreeCheck \/ BufferFreeAlloc \/ BufferFreeDone
           \/ FlushOutputTake \/ FlushOutputSend \/ FlushOutputEnd
  BY <1>4 DEF BufferFreeCheck, BufferFreeAlloc, BufferFreeDone, FlushOutputTake,
              FlushOutputSend, FlushOutputEnd, devVars, hwVars, cfgVars
<1>5. CASE StartOfFrame
  BY <1>5 DEF StartOfFrame, hwVars, cfgVars
<1>6. CASE UNCHANGED vars
  BY <1>6 DEF vars, devVars, hwVars, cfgVars
<1> QED BY <1>1, <1>2, <1>3, <1>4, <1>5, <1>6 DEF Step

\* The tokens keep the order in which the hardware uses the banks.
LEMMA OrderNext ==
  ASSUME DevInv, Order, [Next]_vars
  PROVE  Order'
<1>1. CASE UNCHANGED <<stat, hwRx, hwTx>>
  BY <1>1 DEF Order, InOrder
<1>2. CASE TxDone \/ RxDone
  <2>1. stat # <<>> /\ stat' = Tail(stat) /\ hwRx' = hwRx /\ hwTx' = hwTx
    BY <1>2 DEF TxDone, RxDone
  <2>2. PICK h \in Banks, g \in Banks : h = hwTx /\ g = hwRx
    BY DEF DevInv, DevTypeOK
  <2>3. InOrder("tx", h) /\ InOrder("rx", g)
    BY <2>2 DEF Order
  <2>4. InOrder("tx", h)' /\ InOrder("rx", g)'
    BY <2>1, <2>3, OrderTaken
  <2> QED BY <2>1, <2>2, <2>4 DEF Order
<1>3. CASE HostIn
  <2>1. PICK h \in Banks, g \in Banks : h = hwTx /\ g = hwRx
    BY DEF DevInv, DevTypeOK
  <2>2. PICK token : token = Token("tx", h, 0)
    OBVIOUS
  <2>3. /\ token \in Tokens /\ token.dir = "tx" /\ token.bank = h
        /\ stat' = Append(stat, token) /\ hwTx' = Other(h) /\ hwRx' = g
    BY <1>3, <2>1, <2>2, ConstantTypes DEF HostIn, Token, Tokens
  <2>4. InOrder("tx", h) /\ InOrder("rx", g)
    BY <2>1 DEF Order
  <2>5. InOrder("tx", Other(h))' /\ InOrder("rx", g)'
    BY <2>3, <2>4, OrderAdded
  <2> QED BY <2>3, <2>5 DEF Order
<1>4. ASSUME NEW len \in 0 .. CDC_RX_SIZE, HostOut(len), hostRx = hwRx  PROVE Order'
  <2>1. PICK h \in Banks, g \in Banks : h = hwTx /\ g = hwRx
    BY DEF DevInv, DevTypeOK
  <2>2. PICK token : token = Token("rx", g, len)
    OBVIOUS
  <2>3. /\ token \in Tokens /\ token.dir = "rx" /\ token.bank = g
        /\ stat' = Append(stat, token) /\ hwRx' = Other(g) /\ hwTx' = h
    BY <1>4, <2>1, <2>2 DEF HostOut, Token, Tokens
  <2>4. InOrder("tx", h) /\ InOrder("rx", g)
    BY <2>1 DEF Order
  <2>5. InOrder("rx", Other(g))' /\ InOrder("tx", h)'
    BY <2>3, <2>4, OrderAdded
  <2> QED BY <2>3, <2>5 DEF Order
<1>5. ASSUME NEW len \in 0 .. CDC_RX_SIZE, HostOut(len), hostRx # hwRx  PROVE Order'
  BY <1>1, <1>5 DEF HostOut
<1>6. CASE BusReset
  <2>1. stat' = <<>>
    BY <1>6 DEF BusReset, TokensHandled
  <2> QED BY <2>1 DEF Order, InOrder
<1>7. CASE Configure
  BY <1>1, <1>7 DEF Configure, SetConfiguration
<1> QED BY <1>1, <1>2, <1>3, <1>4, <1>5, <1>6, <1>7, SoftwareLeavesHardware
        DEF Next, TokenDone, Reset, Collect, Deliver

LEMMA OrderInit == Init => Order
BY OrderEmpty DEF Init, DevInit, Order

-----------------------------------------------------------------------------
(* The phase *)

\* InPhase, bank by bank.
LEMMA PhaseIs ==
  ASSUME tx_state \in TxStates
  PROVE  InPhase <=>
           /\ tx_state \in {"ODD_FREE", "BOTH_FREE_EVEN_FIRST"} =>
                hwTx = IF Pending("tx", "EVEN") THEN "ODD" ELSE "EVEN"
           /\ tx_state \in {"EVEN_FREE", "BOTH_FREE_ODD_FIRST"} =>
                hwTx = IF Pending("tx", "ODD") THEN "EVEN" ELSE "ODD"
<1>1. CASE tx_state \in {"ODD_FREE", "BOTH_FREE_EVEN_FIRST"}
  BY <1>1 DEF InPhase, NoneFree, Other
<1>2. CASE tx_state \in {"EVEN_FREE", "BOTH_FREE_ODD_FIRST"}
  BY <1>2 DEF InPhase, NoneFree, Other
<1>3. CASE tx_state \in NoneFree
  BY <1>3 DEF InPhase, NoneFree
<1> QED BY <1>1, <1>2, <1>3 DEF TxStates

LEMMA PhaseIsNext ==
  ASSUME tx_state' \in TxStates
  PROVE  InPhase' <=>
           /\ tx_state' \in {"ODD_FREE", "BOTH_FREE_EVEN_FIRST"} =>
                hwTx' = IF Pending("tx", "EVEN")' THEN "ODD" ELSE "EVEN"
           /\ tx_state' \in {"EVEN_FREE", "BOTH_FREE_ODD_FIRST"} =>
                hwTx' = IF Pending("tx", "ODD")' THEN "EVEN" ELSE "ODD"
<1>1. CASE tx_state' \in {"ODD_FREE", "BOTH_FREE_EVEN_FIRST"}
  BY <1>1 DEF InPhase, NoneFree, Other
<1>2. CASE tx_state' \in {"EVEN_FREE", "BOTH_FREE_ODD_FIRST"}
  BY <1>2 DEF InPhase, NoneFree, Other
<1>3. CASE tx_state' \in NoneFree
  BY <1>3 DEF InPhase, NoneFree
<1> QED BY <1>1, <1>2, <1>3 DEF TxStates

\* A bank without a packet has no token.
LEMMA EmptyBankHasNoToken ==
  ASSUME DevInv, NEW bank \in Banks
  PROVE  /\ txBank[bank] = None => ~Pending("tx", bank)
         /\ rxBank[bank] = None => ~Pending("rx", bank) /\ ~HasData(bank)
BY DEF DevInv, TokensNameArmedBanks, Pending, HasData, Outstanding

\* usb_tx keeps the phase.
LEMMA PhaseUsbTx ==
  ASSUME DevInv, NEW p \in Packets, UsbTx(p), UNCHANGED <<stat, hwTx>>, InPhase
  PROVE  InPhase'
<1>1. tx_state \in TxStates /\ tx_state' \in TxStates
  BY UsbTxKeeps DEF DevInv, DevTypeOK
<1>2. \A dir, bank : Pending(dir, bank)' <=> Pending(dir, bank)
  BY DEF Pending
<1>3. CASE tx_state \in NoneFree
  BY <1>1, <1>2, <1>3, PhaseIsNext DEF UsbTx, NoneFree
<1>4. CASE tx_state \notin NoneFree
  <2>1. tx_state' = AfterFill(tx_state)
    BY <1>4 DEF UsbTx
  <2> QED BY <1>1, <1>2, <1>4, <2>1, PhaseIs, PhaseIsNext DEF AfterFill, NoneFree, TxStates
<1> QED BY <1>3, <1>4

\* Transmissions completed do, and find it where they leave a bank free behind
\* two.
LEMMA PhaseTxDone ==
  ASSUME DevInv, DevInv', Order, TxDone
  PROVE  InPhase => InPhase'
<1>1. /\ tx_state \in TxStates /\ tx_state' \in TxStates /\ hwTx \in Banks
      /\ stat # <<>> /\ stat' = Tail(stat) /\ hwTx' = hwTx
      /\ Head(stat).dir = "tx" /\ TxStateMatchesBanks
  BY DEF DevInv, DevTypeOK, TxDone
<1>2. PICK bank \in Banks : bank = Head(stat).bank
  BY <1>1, HeadToken DEF Tokens
<1>3. txBank[bank] # None
  BY <1>1, <1>2, HeadToken, ConstantTypes
<1>4. PICK h \in Banks : h = hwTx
  BY <1>1
<1>5. /\ ~Pending("tx", bank)' /\ (Pending("tx", Other(bank))' <=> Pending("tx", Other(bank)))
  <2>1. Other(bank) # bank
    BY DEF Other, Banks
  <2> QED BY <1>1, <1>2, <2>1, TokenGone
<1>6. h = bank => Pending("tx", Other(bank))
  BY <1>1, <1>2, <1>4, OrderTaken DEF Order
<1>7. h = Other(bank) => ~Pending("tx", h)
  <2>1. h = Other(bank) => bank = Other(h)
    BY DEF Other, Banks
  <2> QED BY <1>1, <1>2, <1>4, <2>1, OrderTaken DEF Order
<1>8. h = IF Pending("tx", Other(bank))' THEN bank ELSE Other(bank)
  <2>1. h = bank \/ h = Other(bank)
    BY DEF Other, Banks
  <2> QED BY <1>5, <1>6, <1>7, <2>1
<1>9. CASE tx_state' \in NoneFree
  BY <1>1, <1>9, PhaseIsNext DEF NoneFree
<1>10. CASE tx_state' \notin NoneFree
  <2>1. txQueue = <<>> /\ tx_state' = AfterDrain(tx_state, bank)
        /\ txBank' = [txBank EXCEPT ![bank] = None]
    <3>1. CASE txQueue # <<>>
      BY <1>1, <1>2, <1>10, <3>1 DEF TxDone, AfterFill, TxStateMatchesBanks, NoneFree
    <3> QED BY <1>2, <3>1 DEF TxDone
  <2>2. CASE tx_state \in NoneFree
    <3>1. tx_state' = IF bank = "ODD" THEN "ODD_FREE" ELSE "EVEN_FREE"
      BY <2>1, <2>2 DEF AfterDrain, NoneFree
    <3> QED BY <1>1, <1>4, <1>8, <3>1, PhaseIsNext DEF Other, Banks
  <2>3. CASE tx_state = "EVEN_FREE"
    <3>1. bank = "ODD" /\ tx_state' = "BOTH_FREE_EVEN_FIRST"
      BY <1>1, <1>3, <2>1, <2>3 DEF AfterDrain, TxStateMatchesBanks, Banks
    <3>2. ~Pending("tx", "EVEN")
      BY <1>1, <2>3, EmptyBankHasNoToken DEF TxStateMatchesBanks, Banks
    <3> QED BY <1>1, <1>4, <1>5, <1>8, <3>1, <3>2, PhaseIsNext DEF Other
  <2>4. CASE tx_state = "ODD_FREE"
    <3>1. bank = "EVEN" /\ tx_state' = "BOTH_FREE_ODD_FIRST"
      BY <1>1, <1>3, <2>1, <2>4 DEF AfterDrain, TxStateMatchesBanks, Banks
    <3>2. ~Pending("tx", "ODD")
      BY <1>1, <2>4, EmptyBankHasNoToken DEF TxStateMatchesBanks, Banks
    <3> QED BY <1>1, <1>4, <1>5, <1>8, <3>1, <3>2, PhaseIsNext DEF Other
  <2>5. CASE tx_state \in {"BOTH_FREE_EVEN_FIRST", "BOTH_FREE_ODD_FIRST"}
    BY <1>1, <1>3, <2>5 DEF TxStateMatchesBanks, Banks
  <2> QED BY <1>1, <2>2, <2>3, <2>4, <2>5 DEF TxStates
<1> QED BY <1>9, <1>10

\* A packet collected leaves the hardware in phase.
LEMMA PhaseHostIn ==
  ASSUME DevInv, HostIn
  PROVE  InPhase => InPhase'
<1>1. /\ tx_state \in TxStates /\ tx_state' = tx_state /\ TxStateMatchesBanks
      /\ hwTx \in Banks /\ txBank[hwTx] # None /\ ~Pending("tx", hwTx)
      /\ hwTx' = Other(hwTx)
  BY DEF HostIn, DevInv, DevTypeOK, txVars
<1>2. PICK h \in Banks : h = hwTx
  BY <1>1
<1>3. PICK token : token = Token("tx", h, 0)
  OBVIOUS
<1>4. /\ token \in Tokens /\ token.dir = "tx" /\ token.bank = h
      /\ stat' = Append(stat, token)
  BY <1>2, <1>3, ConstantTypes DEF HostIn, Token, Tokens
<1>5. Outstanding' = Outstanding \cup {token}
  BY <1>4, TokenAdded
<1>6. Pending("tx", h)'
  BY <1>4, <1>5, PendingIs
<1> QED BY <1>1, <1>2, <1>6, PhaseIs, PhaseIsNext DEF TxStateMatchesBanks, Other, Banks

-----------------------------------------------------------------------------
(* What software does to the pipes: nothing, one usb_tx, or one usb_rx *)

BanksKept == \A bank \in Banks : rxBank[bank] # None => rxBank'[bank] = rxBank[bank]

Spares == UNCHANGED <<txVars, rxQueue>> /\ BanksKept

\* A packet the main thread or the pool holds goes to the endpoint.
Transmits(p) ==
  /\ UsbTx(p)
  /\ \E a \in {"pool", "tx_packet", "hand"} : p \in At[a]
  /\ UNCHANGED <<rxQueue, rxBank>>

Receives ==
  /\ rxQueue # <<>> /\ rxQueue' = Tail(rxQueue)
  /\ UNCHANGED <<txVars, rxBank>>

SoftwareMove == Spares \/ Receives \/ \E p \in Packets : Transmits(p)

\* A step that leaves the endpoints alone.
LEMMA SparesAll ==
  ASSUME UNCHANGED <<txVars, rxVars, rxBank>>
  PROVE  SoftwareMove
BY DEF SoftwareMove, Spares, BanksKept, rxVars

LEMMA ConsumeMoves ==
  ASSUME CanRead, NEW qty, NEW l, Consume(qty, l)
  PROVE  SoftwareMove
<1>1. UNCHANGED <<txVars, rxBank>>
  BY DEF Consume, memVars
<1>2. CASE rx_packet = None
  <2>1. Receives
    BY <1>1, <1>2 DEF Consume, CanRead, UsbRx, Receives
  <2> QED BY <2>1 DEF SoftwareMove
<1>3. CASE rx_packet # None
  <2>1. UNCHANGED rxVars
    BY <1>3 DEF Consume
  <2> QED BY <1>1, <2>1, SparesAll
<1> QED BY <1>2, <1>3

\* A packet in use in a variable of the main thread is there.
LEMMA HeldThere ==
  ASSUME Inv
  PROVE  /\ tx_packet # None => tx_packet \in Packets /\ tx_packet \in At["tx_packet"]
         /\ hand # None => hand \in Packets /\ hand \in At["hand"]
         /\ usb_buffer_available # {} =>
              /\ Malloc(usb_buffer_available) \in Packets
              /\ Malloc(usb_buffer_available) \in At["pool"]
<1>1. /\ tx_packet \in Packets \cup {None} /\ hand \in Packets \cup {None}
      /\ usb_buffer_available \subseteq Packets
  BY DEF Inv, MainInv, MainTypeOK, DevInv, DevTypeOK
<1> QED BY <1>1, AtIs, InUseIs, MallocReturns

LEMMA SoftwareMoves ==
  ASSUME Inv, Call \/ Step \/ StartOfFrame \/ UNCHANGED vars
  PROVE  SoftwareMove
<1>1. CASE Getchar \/ Peekchar
  <2>1. PICK qty, l : CanRead /\ Consume(qty, l)
    BY <1>1 DEF Getchar, Peekchar
  <2> QED BY <2>1, ConsumeMoves
<1>2. CASE \/ FlushInput \/ \E n \in 1 .. MaxSize : Read(n) \/ Write(n)
           \/ WriteBufferFree \/ FlushOutput
  BY <1>2, SparesAll
     DEF FlushInput, Read, Write, WriteBufferFree, FlushOutput, devVars, memVars
<1>3. CASE FreeTest \/ FreeMiss \/ FreePut
  BY <1>3, SparesAll DEF FreeTest, FreeMiss, FreePut, devVars, memVars
<1>4. CASE FreeScan
  <2>1. UNCHANGED <<txVars, rxVars>>
    BY <1>4 DEF FreeScan
  <2>2. CASE GiveToRx(hand)
    <3>1. BanksKept
      BY <2>2 DEF GiveToRx, Starving, FirstStarving, BanksKept, Banks, Inv, DevInv, DevTypeOK
    <3> QED BY <2>1, <3>1 DEF SoftwareMove, Spares, rxVars
  <2>3. CASE UNCHANGED memVars
    BY <2>1, <2>3, SparesAll DEF memVars
  <2> QED BY <1>4, <2>2, <2>3 DEF FreeScan
<1>5. CASE ReadLoop
  <2>1. CASE \E qty : CanRead /\ Consume(qty, "read")
    BY <2>1, ConsumeMoves
  <2>2. CASE UNCHANGED devVars
    BY <2>2, SparesAll DEF devVars, memVars
  <2> QED BY <1>5, <2>1, <2>2 DEF ReadLoop
<1>6. CASE FlushInputLoop
  <2>1. CASE rxQueue # <<>>
    <3>1. Receives
      BY <1>6, <2>1 DEF FlushInputLoop, UsbRx, Receives, memVars
    <3> QED BY <3>1 DEF SoftwareMove
  <2>2. CASE rxQueue = <<>>
    BY <1>6, <2>2, SparesAll DEF FlushInputLoop, devVars, memVars
  <2> QED BY <2>1, <2>2
<1>7. CASE \/ WriteLoop \/ WriteWait \/ WriteCount \/ WriteHold \/ WriteAlloc
           \/ WriteRetry \/ WriteTimer
  BY <1>7, SparesAll
     DEF WriteLoop, WriteWait, WriteCount, WriteHold, WriteAlloc, WriteRetry,
         WriteTimer, devVars, memVars
<1>8. CASE WriteFill
  <2>1. tx_packet # None /\ UNCHANGED <<memVars, rxVars>>
    BY <1>8 DEF Inv, MainInv, MainThreadHolds, WriteFill
  <2>2. CASE UsbTx(tx_packet)
    <3>1. tx_packet \in Packets /\ Transmits(tx_packet)
      BY <2>1, <2>2, HeldThere DEF Transmits, memVars, rxVars
    <3> QED BY <3>1 DEF SoftwareMove
  <2>3. CASE UNCHANGED txVars
    BY <2>1, <2>3, SparesAll DEF memVars
  <2> QED BY <1>8, <2>2, <2>3 DEF WriteFill
<1>9. CASE \/ BufferFreeCheck \/ BufferFreeAlloc \/ BufferFreeDone
           \/ FlushOutputTake \/ FlushOutputEnd
  BY <1>9, SparesAll
     DEF BufferFreeCheck, BufferFreeAlloc, BufferFreeDone, FlushOutputTake,
         FlushOutputEnd, devVars, memVars
<1>10. CASE FlushOutputSend
  <2>1. hand # None /\ UNCHANGED <<memVars, rxVars>> /\ UsbTx(hand)
    BY <1>10 DEF Inv, MainInv, MainThreadHolds, FlushOutputSend
  <2>2. hand \in Packets /\ Transmits(hand)
    BY <2>1, HeldThere DEF Transmits, memVars, rxVars
  <2> QED BY <2>2 DEF SoftwareMove
<1>11. CASE StartOfFrame
  <2>1. UNCHANGED <<rxBank, rxVars>>
    BY <1>11 DEF StartOfFrame
  <2>2. CASE tx_packet # None /\ UsbTx(tx_packet)
    <3>1. tx_packet \in Packets /\ Transmits(tx_packet)
      BY <2>1, <2>2, HeldThere DEF Transmits, rxVars
    <3> QED BY <3>1 DEF SoftwareMove
  <2>3. CASE usb_buffer_available # {} /\ UsbTx(Malloc(usb_buffer_available))
    <3>1. PICK p \in Packets : p = Malloc(usb_buffer_available) /\ p \in At["pool"]
      BY <2>3, HeldThere
    <3>2. Transmits(p)
      BY <2>1, <2>3, <3>1 DEF Transmits, rxVars
    <3> QED BY <3>2 DEF SoftwareMove
  <2>4. CASE UNCHANGED txVars
    BY <2>1, <2>4, SparesAll
  <2> QED BY <1>11, <2>2, <2>3, <2>4 DEF StartOfFrame, FlushCallback
<1>12. CASE UNCHANGED vars
  BY <1>12, SparesAll DEF vars, devVars, memVars
<1> QED BY <1>1, <1>2, <1>3, <1>4, <1>5, <1>6, <1>7, <1>8, <1>9, <1>10, <1>11, <1>12
        DEF Call, Step

-----------------------------------------------------------------------------
(* The phase is lost only where the host cuts the device off *)

\* Software keeps the phase.
LEMMA PhaseSoftware ==
  ASSUME DevInv, SoftwareMove, UNCHANGED <<stat, hwTx>>, InPhase
  PROVE  InPhase'
<1>1. CASE UNCHANGED txVars
  BY <1>1 DEF txVars, InPhase, Pending
<1>2. CASE \E p \in Packets : Transmits(p)
  BY <1>2, PhaseUsbTx DEF Transmits
<1> QED BY <1>1, <1>2 DEF SoftwareMove, Spares, Receives

\* So does a transfer from the host.
LEMMA PhaseHostOut ==
  ASSUME DevInv, NEW len \in 0 .. CDC_RX_SIZE, HostOut(len), InPhase
  PROVE  InPhase'
<1>1. /\ tx_state \in TxStates /\ tx_state' = tx_state /\ hwTx' = hwTx
      /\ hwRx \in Banks
  BY DEF HostOut, DevInv, DevTypeOK, txVars
<1>2. PICK token : token = Token("rx", hwRx, len)
  OBVIOUS
<1>3. CASE hostRx # hwRx
  <2>1. stat' = stat
    BY <1>3 DEF HostOut
  <2> QED BY <1>1, <2>1 DEF InPhase, Pending
<1>4. CASE hostRx = hwRx
  <2>1. token \in Tokens /\ token.dir = "rx" /\ stat' = Append(stat, token)
    BY <1>1, <1>2, <1>4 DEF HostOut, Token, Tokens
  <2>2. Outstanding' = Outstanding \cup {token}
    BY <2>1, TokenAdded
  <2>3. ASSUME NEW bank  PROVE Pending("tx", bank)' <=> Pending("tx", bank)
    BY <2>1, <2>2, PendingIs
  <2> QED BY <1>1, <2>3, PhaseIs, PhaseIsNext
<1> QED BY <1>3, <1>4

\* A packet received does not touch it.
LEMMA PhaseRxDone ==
  ASSUME DevInv, RxDone, InPhase
  PROVE  InPhase'
<1>1. /\ tx_state \in TxStates /\ UNCHANGED <<tx_state, hwTx>>
      /\ stat # <<>> /\ stat' = Tail(stat) /\ Head(stat).dir = "rx"
  BY DEF RxDone, DevInv, DevTypeOK, txVars
<1>2. PICK bank : bank = Head(stat).bank
  OBVIOUS
<1>3. \A b : Pending("tx", b)' <=> Pending("tx", b)
  BY <1>1, <1>2, TokenGone
<1> QED BY <1>1, <1>3, PhaseIs, PhaseIsNext

\* A configuration that finds no packet in a transmit bank keeps the phase.
LEMMA PhaseConfigure ==
  ASSUME DevInv, NEW v, SetConfiguration(v), TxArmed = {}, InPhase
  PROVE  InPhase'
<1>1. txBank["EVEN"] = None /\ txBank["ODD"] = None
  BY DEF TxArmed, Banks
<1>2. tx_state \in {"BOTH_FREE_EVEN_FIRST", "BOTH_FREE_ODD_FIRST"}
  BY <1>1 DEF DevInv, TxStateMatchesBanks
<1>3. UNCHANGED <<tx_state, hwTx, stat>>
  BY <1>2 DEF SetConfiguration, AfterConfigure
<1> QED BY <1>3 DEF InPhase, Pending

\* Every step but a bus reset, or a configuration that finds packets to send.
LEMMA PhaseNext ==
  ASSUME Inv, Inv', Order, [Next]_vars, ~BusReset, ~(Configure /\ TxArmed # {})
  PROVE  InPhase => InPhase'
<1> SUFFICES ASSUME InPhase PROVE InPhase'
  OBVIOUS
<1>1. CASE Call \/ Step \/ StartOfFrame \/ UNCHANGED vars
  BY <1>1, SoftwareLeavesHardware, SoftwareMoves, PhaseSoftware DEF Inv
<1>2. CASE TokenDone
  BY <1>2, PhaseTxDone, PhaseRxDone DEF TokenDone, Inv
<1>3. CASE Configure
  BY <1>3, PhaseConfigure DEF Configure, Inv
<1>4. CASE Collect
  BY <1>4, PhaseHostIn DEF Collect, Inv
<1>5. CASE Deliver
  BY <1>5, PhaseHostOut DEF Deliver, Inv
<1> QED BY <1>1, <1>2, <1>3, <1>4, <1>5 DEF Next, Reset

\* The EVEN/ODD bookkeeping of usb_dev.c: usb_tx, the refills of usb_isr and late
\* tokens never make the hardware wait at a bank other than the one that is filled
\* next; only a bus reset and a configuration with packets in the banks do.
THEOREM PhaseCorrect == Spec => PhaseLostOnlyWhenCutOff
<1>1. ASSUME Inv, Inv', Order, [Next]_vars
      PROVE  [InPhase /\ ~InPhase' =>
                \/ hostReady /\ ~hostReady' /\ configs' = configs
                \/ configs' = configs + 1 /\ TxArmed # {}]_vars
  <2>1. CASE BusReset
    BY <2>1 DEF BusReset, cfgVars
  <2>2. CASE Configure /\ TxArmed # {}
    BY <2>2 DEF Configure, SetConfiguration
  <2> QED BY <1>1, <2>1, <2>2, PhaseNext
<1>2. DevInv /\ Order /\ [Next]_vars => Order'
  BY OrderNext
<1>3. Inv => DevInv
  BY DEF Inv
<1> QED BY <1>1, <1>2, <1>3, OrderInit, InvAlways, PTL DEF Spec, PhaseLostOnlyWhenCutOff

-----------------------------------------------------------------------------
(* The two pipes *)

LEMMA ViewTypes ==
  ASSUME DevInv
  PROVE  /\ \A bank \in Banks : Waiting(bank) \in Seq(Packets)
         /\ \A bank \in Banks : Arriving(bank) \in Seq(Packets)
         /\ RxPackets \in Seq(Packets) /\ txQueue \in Seq(Packets)
         /\ ToHost \in Seq(Packets) /\ FromHost \in Seq(Packets)
         /\ FromHost = RxPackets \o Arriving(hwRx) \o Arriving(Other(hwRx))
<1>1. /\ txBank \in [Banks -> Packets \cup {None}] /\ rxBank \in [Banks -> Packets \cup {None}]
      /\ rxQueue \in Seq(Received) /\ txQueue \in Seq(Packets)
      /\ hwTx \in Banks /\ hwRx \in Banks
  BY DEF DevInv, DevTypeOK
<1>2. \A p \in Packets : <<p>> \in Seq(Packets)
  OBVIOUS
<1>3. <<>> \in Seq(Packets)
  OBVIOUS
<1>4. \A bank \in Banks : Waiting(bank) \in Seq(Packets)
  BY <1>1, <1>2, <1>3 DEF Waiting
<1>5. \A bank \in Banks : Arriving(bank) \in Seq(Packets)
  BY <1>1, <1>2, <1>3, ArrivingIs, EmptyBankHasNoToken
<1>6. RxPackets \in Seq(Packets)
  BY <1>1, PacketsOfQueue DEF RxPackets
<1>7. Other(hwTx) \in Banks /\ Other(hwRx) \in Banks
  BY DEF Other, Banks
<1>8. ToHost \in Seq(Packets)
  BY <1>1, <1>3, <1>4, <1>7, Three DEF ToHost
<1>9. FromHost = RxPackets \o Arriving(hwRx) \o Arriving(Other(hwRx))
  BY DEF FromHost, RxPackets, PacketsOf
<1>10. FromHost \in Seq(Packets)
  BY <1>1, <1>5, <1>6, <1>7, <1>9, Three
<1> QED BY <1>1, <1>4, <1>5, <1>6, <1>8, <1>9, <1>10

\* A packet in a pipe is where the pipe's view found it.
LEMMA InToHost ==
  ASSUME DevInv, NEW p, Pipes!In(p, ToHost)
  PROVE  \E l \in {"txEVEN", "txODD", "txQueue"} : p \in At[l]
<1>1. \A bank \in Banks :
        Pipes!In(p, Waiting(bank)) => p = txBank[bank] /\ p # None
  BY DEF Waiting, Pipes!In
<1>2. ~Pipes!In(p, <<>>)
  BY DEF Pipes!In
<1>3. PICK h \in Banks, g \in Banks : h = hwTx /\ g = Other(hwTx)
  BY DEF DevInv, DevTypeOK, Other, Banks
<1>4. Pipes!In(p, Waiting(h) \o Waiting(g) \o txQueue)
  BY <1>2, <1>3 DEF ToHost
<1>5. Pipes!In(p, Waiting(h)) \/ Pipes!In(p, Waiting(g)) \/ Pipes!In(p, txQueue)
  <2>1. Waiting(h) \o Waiting(g) \in Seq(Packets)
    BY ViewTypes, ConcatProperties
  <2>2. Pipes!In(p, Waiting(h) \o Waiting(g)) \/ Pipes!In(p, txQueue)
    BY <1>4, <2>1, ViewTypes, InConcat
  <2> QED BY <2>2, ViewTypes, InConcat
<1>6. Pipes!In(p, txQueue) => p \in Elements(txQueue)
  BY DEF Pipes!In, Elements
<1> QED BY <1>1, <1>5, <1>6, AtIs, InUseIs DEF Banks

LEMMA InFromHost ==
  ASSUME DevInv, NEW p, Pipes!In(p, FromHost)
  PROVE  \/ p \in At["rxQueue"]
         \/ \E bank \in Banks : HasData(bank) /\ rxBank[bank] = p /\ p # None
<1>1. \A bank \in Banks :
        Pipes!In(p, Arriving(bank)) => HasData(bank) /\ rxBank[bank] = p
  BY ArrivingIs DEF Pipes!In
<1>2. PICK h \in Banks, g \in Banks : h = hwRx /\ g = Other(hwRx)
  BY DEF DevInv, DevTypeOK, Other, Banks
<1>3. Pipes!In(p, RxPackets \o Arriving(h) \o Arriving(g))
  BY <1>2, ViewTypes
<1>4. Pipes!In(p, RxPackets) \/ Pipes!In(p, Arriving(h)) \/ Pipes!In(p, Arriving(g))
  <2>1. RxPackets \o Arriving(h) \in Seq(Packets)
    BY ViewTypes, ConcatProperties
  <2>2. Pipes!In(p, RxPackets \o Arriving(h)) \/ Pipes!In(p, Arriving(g))
    BY <1>3, <2>1, ViewTypes, InConcat
  <2> QED BY <2>2, ViewTypes, InConcat
<1>5. Pipes!In(p, RxPackets) => p \in Elements(RxPackets)
  BY DEF Pipes!In, Elements
<1> QED BY <1>1, <1>4, <1>5, AtIs, EmptyBankHasNoToken

\* A packet that no bank and no queue holds is new to the pipes.
LEMMA FreshPacket ==
  ASSUME DevInv, Own, NEW p,
         NEW a \in {"pool", "tx_packet", "hand"}, p \in At[a]
  PROVE  Pipes!New(p)
<1>1. \A l \in Places : p \in At[l] => l = a
  BY DEF Own, Disjoint, Places
<1>2. \A bank \in Banks : rxBank[bank] = p /\ p # None =>
        p \in At["rxEVEN"] \/ p \in At["rxODD"]
  BY AtIs, InUseIs DEF Banks
<1>3. ~Pipes!In(p, ToHost)
  BY <1>1, InToHost DEF Places
<1>4. ~Pipes!In(p, FromHost)
  BY <1>1, <1>2, InFromHost DEF Places
<1> QED BY <1>3, <1>4 DEF Pipes!New

\* The packet of a receive bank that has received nothing is new too.
LEMMA FreshBank ==
  ASSUME DevInv, Own, NEW bank \in Banks, rxBank[bank] # None, ~HasData(bank)
  PROVE  Pipes!New(rxBank[bank])
<1>1. PICK p : p = rxBank[bank]
  OBVIOUS
<1>2. PICK a \in {"rxEVEN", "rxODD"} :
        /\ At[a] = InUse(rxBank[bank])
        /\ \A b \in Banks : b # bank =>
             \E l \in {"rxEVEN", "rxODD"} : l # a /\ At[l] = InUse(rxBank[b])
  BY AtIs DEF Banks
<1>3. p \in At[a]
  BY <1>1, <1>2, InUseIs
<1>4. \A l \in Places : p \in At[l] => l = a
  BY <1>3 DEF Own, Disjoint, Places
<1>5. \A b \in Banks : rxBank[b] = p => b = bank
  BY <1>1, <1>2, <1>4, InUseIs DEF Places
<1>6. ~Pipes!In(p, ToHost)
  BY <1>4, InToHost DEF Places
<1>7. ~Pipes!In(p, FromHost)
  BY <1>4, <1>5, InFromHost DEF Places
<1> QED BY <1>1, <1>6, <1>7 DEF Pipes!New

-----------------------------------------------------------------------------
(* Software's steps are steps of the pipes *)

\* A view that reads nothing that changed.
LEMMA ToHostSame ==
  ASSUME UNCHANGED <<txBank, txQueue, stat, hwTx, hostReady>>
  PROVE  ToHost' = ToHost
BY DEF ToHost, Waiting, Pending

LEMMA ArrivingSame ==
  ASSUME DevInv, NEW bank \in Banks, HasData(bank)' <=> HasData(bank),
         rxBank[bank] # None => rxBank'[bank] = rxBank[bank]
  PROVE  Arriving(bank)' = Arriving(bank)
<1>1. HasData(bank) => rxBank[bank] # None
  BY EmptyBankHasNoToken
<1> QED BY <1>1, ArrivingIs

LEMMA FromHostSame ==
  ASSUME DevInv, BanksKept, UNCHANGED <<rxQueue, stat, hwRx>>
  PROVE  FromHost' = FromHost
<1>1. \A bank \in Banks : HasData(bank)' <=> HasData(bank)
  BY DEF HasData, Outstanding
<1>2. \A bank \in Banks : Arriving(bank)' = Arriving(bank)
  BY <1>1, ArrivingSame DEF BanksKept
<1>3. PICK h \in Banks, g \in Banks : h = hwRx /\ g = Other(hwRx)
  BY DEF DevInv, DevTypeOK, Other, Banks
<1> QED BY <1>2, <1>3 DEF FromHost

\* The phase, as UsbPipes has it: kept or found.
LEMMA SteadyIs ==
  ASSUME InPhase => InPhase'
  PROVE  Pipes!Steady
BY DEF Pipes!Steady, InPhase

\* The toggles, as UsbPipes has them.
LEMMA TogglesKept ==
  ASSUME UNCHANGED <<hwRx, hwTx, hostRx, hostTx>>
  PROVE  Pipes!toggles' = Pipes!toggles
BY DEF Pipes!toggles

\* Nothing but, perhaps, the phase.
LEMMA OnlyPhase ==
  ASSUME InPhase => InPhase', UNCHANGED <<ToHost, FromHost, hostReady>>,
         Pipes!toggles' = Pipes!toggles
  PROVE  [Pipes!PipesNext]_(Pipes!pipes)
<1>1. CASE InPhase'
  <2>1. Pipes!Meet
    BY <1>1 DEF Pipes!Meet
  <2> QED BY <2>1 DEF Pipes!PipesNext
<1>2. CASE ~InPhase'
  <2>1. InPhase' = InPhase
    BY <1>2 DEF InPhase
  <2> QED BY <2>1 DEF Pipes!pipes
<1> QED BY <1>1, <1>2

\* usb_tx: a packet enters at the end, or overtakes the one that waits alone.
LEMMA TransmitRefines ==
  ASSUME Inv, Own, NEW p \in Packets, Transmits(p),
         UNCHANGED <<stat, hwTx, hwRx, hostReady>>, Pipes!toggles' = Pipes!toggles
  PROVE  [Pipes!PipesNext]_(Pipes!pipes)
<1>1. DevInv /\ UsbTx(p) /\ UNCHANGED <<rxQueue, rxBank>>
  BY DEF Inv, Transmits
<1>2. FromHost' = FromHost
  BY <1>1, FromHostSame DEF BanksKept
<1>3. Pipes!New(p)
  BY <1>1, FreshPacket DEF Transmits
<1>4. (InPhase => InPhase') /\ Pipes!Steady
  BY <1>1, PhaseUsbTx, SteadyIs
<1>5. CASE ~hostReady
  <2>1. ToHost' = ToHost
    BY <1>5 DEF ToHost
  <2> QED BY <1>2, <1>4, <2>1, OnlyPhase
<1>6. ASSUME hostReady, ToHost' = Append(ToHost, p)
      PROVE  Pipes!PipesNext
  <2>1. Pipes!Send(p)
    BY <1>2, <1>3, <1>4, <1>6 DEF Pipes!Send
  <2> QED BY <2>1 DEF Pipes!PipesNext
<1>7. PICK h \in Banks, g \in Banks : h = hwTx /\ g = Other(hwTx)
  BY <1>1 DEF DevInv, DevTypeOK, Other, Banks
<1>8. /\ \A bank \in Banks : Waiting(bank) \in Seq(Packets)
      /\ txQueue \in Seq(Packets) /\ ToHost \in Seq(Packets)
  BY <1>1, ViewTypes
<1>9. hostReady => /\ ToHost = Waiting(h) \o Waiting(g) \o txQueue
                   /\ ToHost' = Waiting(h)' \o Waiting(g)' \o txQueue'
  BY <1>7 DEF ToHost
<1>10. CASE hostReady /\ tx_state \in NoneFree
  <2>1. txQueue' = Append(txQueue, p) /\ txBank' = txBank
    BY <1>1, <1>10 DEF UsbTx
  <2>2. Waiting(h)' = Waiting(h) /\ Waiting(g)' = Waiting(g)
    BY <2>1 DEF Waiting, Pending
  <2>3. Waiting(h) \o Waiting(g) \in Seq(Packets)
    BY <1>8, ConcatProperties
  <2>4. ToHost' = Append(ToHost, p)
    <3>1. /\ ToHost = Waiting(h) \o Waiting(g) \o txQueue
          /\ ToHost' = Waiting(h)' \o Waiting(g)' \o txQueue'
      BY <1>9, <1>10
    <3>2. ToHost' = Waiting(h) \o Waiting(g) \o Append(txQueue, p)
      BY <2>1, <2>2, <3>1
    <3> QED BY <1>8, <2>3, <3>1, <3>2, AppendRight
  <2> QED BY <1>6, <1>10, <2>4
<1>11. CASE hostReady /\ tx_state \notin NoneFree
  <2>1. PICK f \in Banks : f = FillBank(tx_state)
    BY DEF FillBank, Banks
  <2>2. PICK o \in Banks : o = Other(f) /\ f = Other(o) /\ o # f
    BY <2>1 DEF Other, Banks
  <2>3. txBank' = [txBank EXCEPT ![f] = p] /\ txQueue' = txQueue /\ txBank[f] = None
        /\ txQueue = <<>> /\ tx_state \in TxStates /\ p # None
    BY <1>1, <1>11, <2>1, ConstantTypes
       DEF UsbTx, DevInv, DevTypeOK, TxStateMatchesBanks, FillBank, TxStates, NoneFree
  <2>4. txBank'[f] = p /\ txBank'[o] = txBank[o]
    BY <1>1, <2>2, <2>3 DEF DevInv, DevTypeOK
  <2>5. ~Pending("tx", f) /\ ~Pending("tx", f)' /\ (Pending("tx", o)' <=> Pending("tx", o))
    BY <1>1, <2>3, EmptyBankHasNoToken DEF Pending
  <2>6. /\ Waiting(f) = <<>> /\ Waiting(f)' = <<p>> /\ Waiting(o)' = Waiting(o)
    BY <2>3, <2>4, <2>5 DEF Waiting
  <2>7. (h = f /\ g = o) \/ (h = o /\ g = f)
    BY <1>7, <2>2 DEF Other, Banks
  <2>8. <<p>> \in Seq(Packets) /\ <<>> \in Seq(Packets)
    OBVIOUS
  <2>9. CASE Waiting(o) = <<>>
    <3>1. ToHost = <<>> /\ ToHost' = <<p>>
      <4>1. <<>> \o <<p>> \o <<>> = <<p>> /\ <<p>> \o <<>> \o <<>> = <<p>>
            /\ <<>> \o <<>> \o <<>> = <<>>
        BY <2>8, ConcatEmptySeq
      <4>2. /\ Waiting(h) = <<>> /\ Waiting(g) = <<>> /\ txQueue' = <<>>
            /\ \/ Waiting(h)' = <<p>> /\ Waiting(g)' = <<>>
               \/ Waiting(h)' = <<>> /\ Waiting(g)' = <<p>>
        BY <2>3, <2>6, <2>7, <2>9
      <4>3. /\ ToHost = Waiting(h) \o Waiting(g) \o txQueue
            /\ ToHost' = Waiting(h)' \o Waiting(g)' \o txQueue'
        BY <1>9, <1>11
      <4> QED BY <2>3, <4>1, <4>2, <4>3
    <3>2. Append(<<>>, p) = <<p>>
      OBVIOUS
    <3> QED BY <1>6, <1>11, <3>1, <3>2
  <2>10. CASE Waiting(o) # <<>>
    <3>1. PICK x \in Packets : Waiting(o) = <<x>>
      <4>1. Waiting(o) = <<txBank[o]>> /\ txBank[o] # None
        BY <2>10 DEF Waiting
      <4>2. txBank[o] \in Packets
        BY <1>1, <4>1 DEF DevInv, DevTypeOK
      <4> QED BY <4>1, <4>2
    <3>2. <<x>> \in Seq(Packets)
      OBVIOUS
    <3>3. ToHost = <<x>>
      <4>1. <<x>> \o <<>> \o <<>> = <<x>> /\ <<>> \o <<x>> \o <<>> = <<x>>
        BY <2>8, <3>2, ConcatEmptySeq
      <4>2. ToHost = Waiting(h) \o Waiting(g) \o <<>>
        BY <1>9, <1>11, <2>3
      <4> QED BY <2>6, <2>7, <3>1, <4>1, <4>2
    <3>4. CASE h = o /\ g = f
      <4>1. ToHost' = <<x>> \o <<p>>
        <5>1. ToHost' = Waiting(h)' \o Waiting(g)' \o <<>>
          BY <1>9, <1>11, <2>3
        <5>2. ToHost' = <<x>> \o <<p>> \o <<>>
          BY <2>6, <3>1, <3>4, <5>1
        <5>3. <<x>> \o <<p>> \in Seq(Packets)
          BY <2>8, <3>2, ConcatProperties
        <5> QED BY <5>2, <5>3, ConcatEmptySeq
      <4>2. <<x>> \o <<p>> = Append(<<x>>, p)
        OBVIOUS
      <4> QED BY <1>6, <1>11, <3>3, <4>1, <4>2
    <3>5. CASE h = f /\ g = o
      <4>1. ToHost' = <<p>> \o <<x>>
        <5>1. ToHost' = Waiting(h)' \o Waiting(g)' \o <<>>
          BY <1>9, <1>11, <2>3
        <5>2. ToHost' = <<p>> \o <<x>> \o <<>>
          BY <2>6, <3>1, <3>5, <5>1
        <5>3. <<p>> \o <<x>> \in Seq(Packets)
          BY <2>8, <3>2, ConcatProperties
        <5> QED BY <5>2, <5>3, ConcatEmptySeq
      <4>2. ~Pending("tx", o) /\ txBank[o] # None
        BY <2>10 DEF Waiting
      <4>3. ~InPhase
        <5>1. tx_state \in {"EVEN_FREE", "ODD_FREE"}
          BY <1>1, <1>11, <2>3, <4>2
             DEF DevInv, TxStateMatchesBanks, TxStates, NoneFree, Banks
        <5>2. CASE tx_state = "EVEN_FREE"
          <6>1. f = "EVEN" /\ o = "ODD"
            BY <2>1, <2>2, <5>2 DEF FillBank, Other
          <6> QED BY <1>7, <2>3, <3>5, <4>2, <5>2, <6>1, PhaseIs
        <5>3. CASE tx_state = "ODD_FREE"
          <6>1. f = "ODD" /\ o = "EVEN"
            BY <2>1, <2>2, <5>3 DEF FillBank, Other
          <6> QED BY <1>7, <2>3, <3>5, <4>2, <5>3, <6>1, PhaseIs
        <5> QED BY <5>1, <5>2, <5>3
      <4>4. Len(ToHost) = 1
        BY <3>3
      <4>5. Pipes!Overtake(p)
        BY <1>2, <1>3, <1>4, <1>11, <3>3, <4>1, <4>3, <4>4 DEF Pipes!Overtake
      <4> QED BY <4>5 DEF Pipes!PipesNext
    <3> QED BY <2>7, <3>4, <3>5
  <2> QED BY <2>9, <2>10
<1> QED BY <1>5, <1>10, <1>11

\* usb_rx: the head of the queue is taken.
LEMMA ReceiveRefines ==
  ASSUME Inv, Own, Receives, UNCHANGED <<stat, hwTx, hwRx, hostReady>>,
         Pipes!toggles' = Pipes!toggles
  PROVE  [Pipes!PipesNext]_(Pipes!pipes)
<1>1. /\ DevInv /\ UNCHANGED <<txBank, txQueue, tx_state, rxBank>>
      /\ rxQueue # <<>> /\ rxQueue' = Tail(rxQueue) /\ rxQueue \in Seq(Received)
  BY DEF Inv, DevInv, DevTypeOK, Receives, txVars
<1>2. ToHost' = ToHost
  BY <1>1, ToHostSame
<1>3. Pipes!Steady
  <2>1. InPhase' = InPhase
    BY <1>1 DEF InPhase, Pending
  <2> QED BY <2>1, SteadyIs
<1>4. RxPackets # <<>> /\ RxPackets' = Tail(RxPackets) /\ RxPackets \in Seq(Packets)
  <2>1. /\ RxPackets \in Seq(Packets) /\ Len(RxPackets) = Len(rxQueue)
        /\ \A i \in 1 .. Len(rxQueue) : RxPackets[i] = rxQueue[i].pkt
    BY <1>1, PacketsOfQueue DEF RxPackets
  <2>2. /\ rxQueue' \in Seq(Received) /\ Len(rxQueue) \in Nat /\ Len(rxQueue) >= 1
        /\ Len(rxQueue') = Len(rxQueue) - 1
        /\ \A i \in 1 .. Len(rxQueue) - 1 : rxQueue'[i] = rxQueue[i + 1]
    BY <1>1
  <2>3. /\ RxPackets' \in Seq(Packets) /\ Len(RxPackets') = Len(rxQueue) - 1
        /\ \A i \in 1 .. Len(rxQueue) - 1 : RxPackets'[i] = rxQueue'[i].pkt
    BY <2>2, PacketsOfQueue DEF RxPackets
  <2>4. RxPackets # <<>>
    BY <2>1, <2>2
  <2>5. /\ Tail(RxPackets) \in Seq(Packets) /\ Len(Tail(RxPackets)) = Len(rxQueue) - 1
        /\ \A i \in 1 .. Len(rxQueue) - 1 : Tail(RxPackets)[i] = RxPackets[i + 1]
    BY <2>1, <2>4, HeadTailProperties
  <2>6. \A i \in 1 .. Len(rxQueue) - 1 : RxPackets'[i] = Tail(RxPackets)[i]
    <3>1. \A i \in 1 .. Len(rxQueue) - 1 : i + 1 \in 1 .. Len(rxQueue)
      BY <2>2
    <3> QED BY <2>1, <2>2, <2>3, <2>5, <3>1
  <2> QED BY <2>1, <2>3, <2>4, <2>5, <2>6, SeqEqual
<1>5. PICK h \in Banks, g \in Banks : h = hwRx /\ g = Other(hwRx)
  BY <1>1 DEF DevInv, DevTypeOK, Other, Banks
<1>6. Arriving(h)' = Arriving(h) /\ Arriving(g)' = Arriving(g)
  BY <1>1 DEF Arriving
<1>7. Arriving(h) \in Seq(Packets) /\ Arriving(g) \in Seq(Packets)
      /\ RxPackets \o Arriving(h) \in Seq(Packets)
  BY <1>1, ViewTypes, ConcatProperties
<1>8. FromHost = (RxPackets \o Arriving(h)) \o Arriving(g)
      /\ FromHost' = (RxPackets' \o Arriving(h)) \o Arriving(g)
  BY <1>5, <1>6 DEF FromHost, RxPackets, PacketsOf
<1>9. FromHost # <<>> /\ FromHost' = Tail(FromHost)
  <2>1. /\ RxPackets \o Arriving(h) # <<>>
        /\ Tail(RxPackets \o Arriving(h)) = Tail(RxPackets) \o Arriving(h)
    BY <1>4, <1>7, TailLeft
  <2>2. /\ (RxPackets \o Arriving(h)) \o Arriving(g) # <<>>
        /\ Tail((RxPackets \o Arriving(h)) \o Arriving(g))
             = Tail(RxPackets \o Arriving(h)) \o Arriving(g)
    BY <1>7, <2>1, TailLeft
  <2> QED BY <1>4, <1>8, <2>1, <2>2
<1>10. Pipes!Taken
  BY <1>2, <1>3, <1>9 DEF Pipes!Taken
<1> QED BY <1>10 DEF Pipes!PipesNext

\* Every step of the main thread and of the start-of-frame interrupt.
LEMMA SoftwareRefines ==
  ASSUME Inv, Own, Call \/ Step \/ StartOfFrame \/ UNCHANGED vars
  PROVE  [Pipes!PipesNext]_(Pipes!pipes)
<1>1. UNCHANGED <<stat, hwRx, hwTx, hostReady>> /\ Pipes!toggles' = Pipes!toggles
  BY SoftwareLeavesHardware, TogglesKept
<1>2. SoftwareMove
  BY SoftwareMoves
<1>3. CASE Spares
  <2>1. UNCHANGED <<txBank, txQueue, tx_state, rxQueue>> /\ BanksKept /\ DevInv
    BY <1>3 DEF Spares, txVars, Inv
  <2>2. ToHost' = ToHost /\ FromHost' = FromHost
    BY <1>1, <2>1, ToHostSame, FromHostSame
  <2>3. InPhase' = InPhase
    BY <1>1, <2>1 DEF InPhase, Pending
  <2> QED BY <1>1, <2>2, <2>3, OnlyPhase
<1> QED BY <1>1, <1>2, <1>3, TransmitRefines, ReceiveRefines DEF SoftwareMove

-----------------------------------------------------------------------------
(* So are those of the interrupt, the hardware and the host *)

LEMMA TxDoneRefines ==
  ASSUME Inv, Inv', Order, TxDone
  PROVE  [Pipes!PipesNext]_(Pipes!pipes)
<1>1. /\ DevInv /\ stat # <<>> /\ Head(stat).dir = "tx" /\ stat' = Tail(stat)
      /\ UNCHANGED <<rxQueue, hwRx, hwTx, hostRx, hostTx, hostReady>>
      /\ txQueue \in Seq(Packets)
  BY DEF TxDone, rxVars, Inv, DevInv, DevTypeOK
<1>2. PICK bank \in Banks : bank = Head(stat).bank
  BY <1>1, HeadToken DEF Tokens
<1>3. PICK c \in Banks : c = Other(bank) /\ bank = Other(c) /\ c # bank
  BY DEF Other, Banks
<1>4. Pending("tx", bank) /\ ~Pending("tx", bank)'
      /\ (Pending("tx", c)' <=> Pending("tx", c))
  <2>1. Pending("tx", bank)
    BY <1>1, <1>2, TokenTaken, PendingIs
  <2> QED BY <1>1, <1>2, <1>3, <2>1, TokenGone
<1>5. FromHost' = FromHost
  <2>1. txBank[bank] \in Packets /\ FreeInIsr(txBank[bank])
    BY <1>1, <1>2, HeadToken DEF TxDone
  <2>2. BanksKept
    BY <1>1, <2>1 DEF FreeInIsr, GiveToRx, Starving, FirstStarving, BanksKept, Banks,
                      DevInv, DevTypeOK
  <2>3. \A b \in Banks : HasData(b)' <=> HasData(b)
    BY <1>1, <1>2, TokenGone
  <2>4. \A b \in Banks : Arriving(b)' = Arriving(b)
    BY <1>1, <2>2, <2>3, ArrivingSame DEF BanksKept
  <2>5. PICK h \in Banks, g \in Banks : h = hwRx /\ g = Other(hwRx)
    BY <1>1 DEF DevInv, DevTypeOK, Other, Banks
  <2> QED BY <1>1, <2>4, <2>5 DEF FromHost
<1>6. InPhase => InPhase'
  BY PhaseTxDone DEF Inv
<1>7. ToHost' = ToHost
  <2>1. CASE ~hostReady
    BY <1>1, <2>1 DEF ToHost
  <2>2. CASE hostReady
    <3>1. PICK h \in Banks, g \in Banks :
            /\ h = hwTx /\ g = Other(hwTx)
            /\ (h = bank /\ g = c) \/ (h = c /\ g = bank)
      BY <1>1, <1>3 DEF DevInv, DevTypeOK, Other, Banks
    <3>2. /\ ToHost = Waiting(h) \o Waiting(g) \o txQueue
          /\ ToHost' = Waiting(h)' \o Waiting(g)' \o txQueue'
      BY <1>1, <2>2, <3>1 DEF ToHost
    <3>3. Waiting(bank) = <<>> /\ txBank'[c] = txBank[c] /\ Waiting(c)' = Waiting(c)
      <4>1. txBank'[c] = txBank[c]
        BY <1>1, <1>2, <1>3 DEF TxDone, DevInv, DevTypeOK
      <4> QED BY <1>4, <4>1 DEF Waiting
    <3>4. CASE txQueue = <<>>
      <4>1. txBank' = [txBank EXCEPT ![bank] = None] /\ txQueue' = txQueue
        BY <1>2, <3>4 DEF TxDone
      <4>2. txBank'[bank] = None
        BY <1>1, <4>1 DEF DevInv, DevTypeOK
      <4>3. Waiting(bank)' = <<>>
        BY <4>2 DEF Waiting
      <4> QED BY <3>1, <3>2, <3>3, <4>1, <4>3
    <3>5. CASE txQueue # <<>>
      <4>1. txBank' = [txBank EXCEPT ![bank] = Head(txQueue)] /\ txQueue' = Tail(txQueue)
        BY <1>2, <3>5 DEF TxDone
      <4>2. Head(txQueue) \in Packets /\ txBank'[bank] = Head(txQueue)
        BY <1>1, <3>5, <4>1 DEF DevInv, DevTypeOK
      <4>3. Waiting(bank)' = <<Head(txQueue)>>
        BY <1>4, <4>2, ConstantTypes DEF Waiting
      <4>4. /\ Waiting(c) \in Seq(Packets) /\ <<Head(txQueue)>> \in Seq(Packets)
            /\ <<>> \in Seq(Packets)
        BY <1>1, <4>2, ViewTypes
      <4>5. CASE h = bank /\ g = c
        <5>1. Pending("tx", c)
          BY <1>1, <1>2, <1>3, <3>1, <4>5, OrderTaken DEF Order
        <5>2. Waiting(c) = <<>>
          BY <5>1 DEF Waiting
        <5>3. ToHost = <<>> \o <<>> \o txQueue
              /\ ToHost' = <<Head(txQueue)>> \o <<>> \o Tail(txQueue)
          BY <3>2, <3>3, <4>1, <4>3, <4>5, <5>2
        <5>4. <<>> \o <<>> = <<>> /\ <<Head(txQueue)>> \o <<>> = <<Head(txQueue)>>
              /\ <<>> \o <<Head(txQueue)>> = <<Head(txQueue)>>
          BY <4>4, ConcatEmptySeq
        <5>5. (<<>> \o <<Head(txQueue)>>) \o Tail(txQueue) = <<>> \o txQueue
          BY <1>1, <3>5, <4>4, HeadMoves
        <5> QED BY <5>3, <5>4, <5>5
      <4>6. CASE h = c /\ g = bank
        <5>1. ToHost = Waiting(c) \o <<>> \o txQueue
              /\ ToHost' = (Waiting(c) \o <<Head(txQueue)>>) \o Tail(txQueue)
          BY <3>2, <3>3, <4>1, <4>3, <4>6
        <5>2. Waiting(c) \o <<>> = Waiting(c)
          BY <4>4, ConcatEmptySeq
        <5>3. (Waiting(c) \o <<Head(txQueue)>>) \o Tail(txQueue) = Waiting(c) \o txQueue
          BY <1>1, <3>5, <4>4, HeadMoves
        <5> QED BY <5>1, <5>2, <5>3
      <4> QED BY <3>1, <4>5, <4>6
    <3> QED BY <3>4, <3>5
  <2> QED BY <2>1, <2>2
<1> QED BY <1>1, <1>5, <1>6, <1>7, OnlyPhase, TogglesKept

\* The packets of the receive queue, one more.
LEMMA PacketsAppend ==
  ASSUME DevInv, NEW p \in Packets, NEW n \in 1 .. CDC_RX_SIZE,
         rxQueue' = Append(rxQueue, [pkt |-> p, len |-> n])
  PROVE  RxPackets' = RxPackets \o <<p>>
<1>1. rxQueue \in Seq(Received) /\ [pkt |-> p, len |-> n] \in Received
  BY DEF DevInv, DevTypeOK, Received
<1>2. /\ rxQueue' \in Seq(Received)
      /\ Len(rxQueue) \in Nat /\ Len(rxQueue') = Len(rxQueue) + 1
      /\ rxQueue'[Len(rxQueue) + 1].pkt = p
      /\ \A i \in 1 .. Len(rxQueue) : rxQueue'[i] = rxQueue[i]
  BY <1>1
<1>3. /\ RxPackets \in Seq(Packets) /\ Len(RxPackets) = Len(rxQueue)
      /\ \A i \in 1 .. Len(rxQueue) : RxPackets[i] = rxQueue[i].pkt
  BY <1>1, PacketsOfQueue DEF RxPackets
<1>4. /\ RxPackets' \in Seq(Packets) /\ Len(RxPackets') = Len(rxQueue) + 1
      /\ \A i \in 1 .. Len(rxQueue) + 1 : RxPackets'[i] = rxQueue'[i].pkt
  BY <1>2, PacketsOfQueue DEF RxPackets
<1>5. /\ Append(RxPackets, p) \in Seq(Packets)
      /\ Len(Append(RxPackets, p)) = Len(rxQueue) + 1
      /\ Append(RxPackets, p)[Len(rxQueue) + 1] = p
      /\ \A i \in 1 .. Len(rxQueue) : Append(RxPackets, p)[i] = RxPackets[i]
  BY <1>3, AppendProperties
<1>6. \A i \in 1 .. Len(rxQueue) + 1 : RxPackets'[i] = Append(RxPackets, p)[i]
  <2>1. \A i \in 1 .. Len(rxQueue) + 1 : i \in 1 .. Len(rxQueue) \/ i = Len(rxQueue) + 1
    BY <1>2
  <2> QED BY <1>2, <1>3, <1>4, <1>5, <2>1
<1>7. RxPackets' = Append(RxPackets, p)
  BY <1>4, <1>5, <1>6, SeqEqual
<1> QED BY <1>3, <1>7, AppendIsConcat

LEMMA RxDoneRefines ==
  ASSUME Inv, Order, RxDone
  PROVE  [Pipes!PipesNext]_(Pipes!pipes)
<1>1. /\ DevInv /\ stat # <<>> /\ Head(stat).dir = "rx" /\ stat' = Tail(stat)
      /\ UNCHANGED <<txBank, txQueue, tx_state, hwRx, hwTx, hostRx, hostTx,
                     hostReady>>
      /\ rxBank \in [Banks -> Packets \cup {None}]
  BY DEF RxDone, txVars, Inv, DevInv, DevTypeOK
<1>2. PICK bank \in Banks, len \in 0 .. CDC_RX_SIZE :
        bank = Head(stat).bank /\ len = Head(stat).len
  BY <1>1, HeadToken DEF Tokens
<1>3. PICK c \in Banks : c = Other(bank) /\ bank = Other(c) /\ c # bank
  BY DEF Other, Banks
<1>4. /\ HasData(bank) <=> len > 0
      /\ ~HasData(bank)' /\ (HasData(c)' <=> HasData(c))
      /\ \A b : Pending("tx", b)' <=> Pending("tx", b)
  <2>1. /\ Head(stat) \in Outstanding
        /\ \A token \in Outstanding :
             token.dir = "rx" /\ token.bank = bank => token = Head(stat)
    BY <1>1, <1>2, TokenTaken
  <2>2. HasData(bank) <=> len > 0
    BY <1>1, <1>2, <2>1 DEF HasData
  <2> QED BY <1>1, <1>2, <1>3, <2>2, TokenGone
<1>5. ToHost' = ToHost
  BY <1>1, <1>4 DEF ToHost, Waiting
<1>6. InPhase => InPhase'
  BY <1>1, PhaseRxDone
<1>7. PICK h \in Banks, g \in Banks :
        /\ h = hwRx /\ g = Other(hwRx)
        /\ (h = bank /\ g = c) \/ (h = c /\ g = bank)
  BY <1>1, <1>3 DEF DevInv, DevTypeOK, Other, Banks
<1>8. /\ FromHost = RxPackets \o Arriving(h) \o Arriving(g)
      /\ FromHost' = RxPackets' \o Arriving(h)' \o Arriving(g)'
  BY <1>1, <1>7 DEF FromHost, RxPackets, PacketsOf
<1>9. /\ Arriving(bank)' = <<>>
      /\ rxBank'[c] = rxBank[c] => Arriving(c)' = Arriving(c)
  BY <1>4, ArrivingIs
<1>10. FromHost' = FromHost
  <2>1. CASE len = 0
    <3>1. rxQueue' = rxQueue /\ rxBank' = rxBank
      BY <1>2, <2>1 DEF RxDone, memVars, rxVars
    <3>2. RxPackets' = RxPackets
      BY <3>1 DEF RxPackets
    <3>3. ~HasData(bank)
      BY <1>4, <2>1
    <3>4. Arriving(bank) = <<>>
      BY <3>3, ArrivingIs
    <3>5. Arriving(h)' = Arriving(h) /\ Arriving(g)' = Arriving(g)
      BY <1>7, <1>9, <3>1, <3>4
    <3> QED BY <1>8, <3>2, <3>5
  <2>2. CASE len > 0
    <3>1. PICK p \in Packets : p = rxBank[bank]
      BY <1>1, <1>2, HeadToken
    <3>2. /\ rxQueue' = Append(rxQueue, [pkt |-> p, len |-> len])
          /\ rxBank' = [rxBank EXCEPT ![bank] = Malloc(usb_buffer_available)]
      <4>1. ~(len = 0)
        BY <1>2, <2>2
      <4> QED BY <1>2, <3>1, <4>1 DEF RxDone
    <3>3. RxPackets' = RxPackets \o <<p>>
      <4>1. len \in 1 .. CDC_RX_SIZE
        BY <1>2, <2>2
      <4> QED BY <1>1, <3>2, <4>1, PacketsAppend
    <3>4. Arriving(bank) = <<p>> /\ Arriving(c)' = Arriving(c)
      <4>1. rxBank'[c] = rxBank[c]
        BY <1>1, <1>3, <3>2
      <4> QED BY <1>4, <1>9, <2>2, <3>1, <4>1, ArrivingIs
    <3>5. /\ Arriving(c) \in Seq(Packets) /\ <<p>> \in Seq(Packets)
          /\ RxPackets \in Seq(Packets) /\ RxPackets \o <<p>> \in Seq(Packets)
      <4>1. <<p>> \in Seq(Packets)
        OBVIOUS
      <4> QED BY <1>1, <4>1, ViewTypes, ConcatProperties
    <3>6. /\ (RxPackets \o <<p>>) \o <<>> = RxPackets \o <<p>>
          /\ RxPackets \o <<>> = RxPackets
      BY <3>5, ConcatEmptySeq
    <3>7. CASE h = bank /\ g = c
      BY <1>8, <1>9, <3>3, <3>4, <3>6, <3>7
    <3>8. CASE h = c /\ g = bank
      <4>1. ~Pending("rx", c)
        BY <1>1, <1>2, <1>3, <1>7, <3>8, OrderTaken DEF Order
      <4>2. Arriving(c) = <<>>
        BY <4>1, PendingIs, ArrivingIs DEF HasData
      <4> QED BY <1>8, <1>9, <3>3, <3>4, <3>6, <3>8, <4>2
    <3> QED BY <1>7, <3>7, <3>8
  <2> QED BY <1>2, <2>1, <2>2
<1> QED BY <1>1, <1>5, <1>6, <1>10, OnlyPhase, TogglesKept

\* The host collects the packet at the head, or drops it where its toggle is the
\* other one.
LEMMA HostInRefines ==
  ASSUME Inv, HostIn
  PROVE  [Pipes!PipesNext]_(Pipes!pipes)
<1>1. /\ DevInv /\ hostReady /\ hostReady' = hostReady
      /\ UNCHANGED <<txBank, txQueue, rxBank, rxQueue, hwRx>>
      /\ hwTx \in Banks /\ txBank[hwTx] # None /\ ~Pending("tx", hwTx)
      /\ txBank \in [Banks -> Packets \cup {None}] /\ txQueue \in Seq(Packets)
  BY DEF HostIn, memVars, rxVars, txVars, Inv, DevInv, DevTypeOK
<1>2. PICK h \in Banks, g \in Banks :
        h = hwTx /\ g = Other(hwTx) /\ h = Other(g) /\ h # g
  BY <1>1 DEF Other, Banks
<1>3. PICK token : token = Token("tx", h, 0)
  OBVIOUS
<1>4. /\ token \in Tokens /\ token.dir = "tx" /\ token.bank = h
      /\ stat' = Append(stat, token) /\ hwTx' = g
  <2>1. stat' = Append(stat, Token("tx", hwTx, 0)) /\ hwTx' = Other(hwTx)
    BY DEF HostIn
  <2>2. 0 \in 0 .. CDC_RX_SIZE
    BY ConstantTypes
  <2> QED BY <1>2, <1>3, <2>1, <2>2 DEF Token, Tokens
<1>5. Outstanding' = Outstanding \cup {token}
  BY <1>1, <1>4, TokenAdded
<1>6. Pending("tx", h)' /\ (Pending("tx", g)' <=> Pending("tx", g))
  BY <1>2, <1>4, <1>5, PendingIs
<1>7. PICK x \in Packets : Waiting(h) = <<x>>
  BY <1>1, <1>2 DEF Waiting
<1>8. Waiting(h)' = <<>> /\ Waiting(g)' = Waiting(g)
  BY <1>1, <1>6 DEF Waiting
<1>9. /\ ToHost = (<<x>> \o Waiting(g)) \o txQueue
      /\ ToHost' = (Waiting(g) \o <<>>) \o txQueue
  BY <1>1, <1>2, <1>4, <1>7, <1>8 DEF ToHost
<1>10. ToHost # <<>> /\ ToHost' = Tail(ToHost)
  <2>1. /\ Waiting(g) \in Seq(Packets) /\ <<x>> \in Seq(Packets) /\ <<x>> # <<>>
        /\ Tail(<<x>>) = <<>>
    BY <1>1, ViewTypes
  <2>2. <<x>> \o Waiting(g) \in Seq(Packets)
    BY <2>1, ConcatProperties
  <2>3. <<x>> \o Waiting(g) # <<>> /\ Tail(<<x>> \o Waiting(g)) = <<>> \o Waiting(g)
    BY <2>1, TailLeft
  <2>4. /\ (<<x>> \o Waiting(g)) \o txQueue # <<>>
        /\ Tail((<<x>> \o Waiting(g)) \o txQueue) = (<<>> \o Waiting(g)) \o txQueue
    BY <1>1, <2>2, <2>3, TailLeft
  <2>5. <<>> \o Waiting(g) = Waiting(g) /\ Waiting(g) \o <<>> = Waiting(g)
    BY <2>1, ConcatEmptySeq
  <2> QED BY <1>9, <2>4, <2>5
<1>11. FromHost' = FromHost
  <2>1. \A b \in Banks : HasData(b)' <=> HasData(b)
    BY <1>4, <1>5 DEF HasData
  <2>2. \A b \in Banks : Arriving(b)' = Arriving(b)
    BY <1>1, <2>1, ArrivingSame
  <2>3. PICK k \in Banks, l \in Banks : k = hwRx /\ l = Other(hwRx)
    BY <1>1 DEF DevInv, DevTypeOK, Other, Banks
  <2> QED BY <1>1, <2>2, <2>3 DEF FromHost
<1>12. Pipes!Steady
  BY <1>1, PhaseHostIn, SteadyIs
<1>13. (hwRx' = hostRx') = (hwRx = hostRx)
  BY DEF HostIn
<1>14. CASE hostTx = hwTx
  <2>1. hwTx = hostTx /\ hwTx' = hostTx'
    BY <1>14 DEF HostIn
  <2>2. Pipes!toggles' = Pipes!toggles
    BY <1>13, <2>1 DEF Pipes!toggles
  <2>3. Pipes!Collected
    BY <1>1, <1>10, <1>11, <1>12, <2>1, <2>2 DEF Pipes!Collected
  <2> QED BY <2>3 DEF Pipes!PipesNext
<1>15. CASE hostTx # hwTx
  <2>1. hwTx # hostTx /\ hwTx' = hostTx'
    BY <1>1, <1>15 DEF HostIn, Inv, DevInv, DevTypeOK, Other, Banks
  <2>2. (hwTx' = hostTx') = TRUE
    BY <2>1
  <2>3. Pipes!Discarded
    BY <1>1, <1>10, <1>11, <1>12, <1>13, <2>1, <2>2 DEF Pipes!Discarded
  <2> QED BY <2>3 DEF Pipes!PipesNext
<1> QED BY <1>14, <1>15

\* With the other toggle the packet of the host is dropped.
LEMMA HostOutMissed ==
  ASSUME Inv, NEW len \in 0 .. CDC_RX_SIZE, HostOut(len), hostRx # hwRx
  PROVE  [Pipes!PipesNext]_(Pipes!pipes)
<1>1. /\ DevInv /\ hostReady
      /\ UNCHANGED <<txBank, txQueue, tx_state, rxBank, rxQueue, stat, hwRx, hwTx, hostTx,
                     hostReady>>
  BY DEF HostOut, memVars, rxVars, txVars, Inv
<1>2. ToHost' = ToHost /\ FromHost' = FromHost
  BY <1>1, ToHostSame, FromHostSame DEF BanksKept
<1>3. InPhase' = InPhase
  BY <1>1 DEF InPhase, Pending
<1>4. (hwRx = hostRx) = FALSE /\ (hwRx' = hostRx') = TRUE
  BY DEF HostOut, Inv, DevInv, DevTypeOK, Other, Banks
<1>5. (hwTx' = hostTx') = (hwTx = hostTx)
  BY <1>1
<1>6. Pipes!Missed
  BY <1>1, <1>2, <1>3, <1>4, <1>5 DEF Pipes!Missed
<1> QED BY <1>6 DEF Pipes!PipesNext

\* The host delivers a packet, or an empty one that nobody gets to see.
LEMMA HostOutRefines ==
  ASSUME Inv, Own, NEW len \in 0 .. CDC_RX_SIZE, HostOut(len), hostRx = hwRx
  PROVE  [Pipes!PipesNext]_(Pipes!pipes)
<1>1. /\ DevInv /\ hostReady /\ hostReady' = hostReady
      /\ UNCHANGED <<txBank, txQueue, tx_state, rxBank, rxQueue, hwTx>>
      /\ hwRx \in Banks /\ rxBank[hwRx] # None /\ ~Pending("rx", hwRx)
      /\ rxBank \in [Banks -> Packets \cup {None}]
  BY DEF HostOut, memVars, rxVars, txVars, Inv, DevInv, DevTypeOK
<1>2. PICK h \in Banks, g \in Banks :
        h = hwRx /\ g = Other(hwRx) /\ h = Other(g) /\ h # g
  BY <1>1 DEF Other, Banks
<1>3. PICK token : token = Token("rx", h, len)
  OBVIOUS
<1>4. /\ token \in Tokens /\ token.dir = "rx" /\ token.bank = h /\ token.len = len
      /\ stat' = Append(stat, token) /\ hwRx' = g
  BY <1>2, <1>3 DEF HostOut, Token, Tokens
<1>5. Outstanding' = Outstanding \cup {token}
  BY <1>1, <1>4, TokenAdded
<1>6. \A b : Pending("tx", b)' <=> Pending("tx", b)
  BY <1>4, <1>5, PendingIs
<1>7. ToHost' = ToHost
  BY <1>1, <1>6 DEF ToHost, Waiting
<1>8. InPhase => InPhase'
  BY <1>1, PhaseHostOut
<1>9. ~HasData(h) /\ (HasData(h)' <=> len > 0) /\ (HasData(g)' <=> HasData(g))
  <2>1. ~HasData(h)
    <3>1. ~Pending("rx", h)
      BY <1>1, <1>2
    <3> QED BY <3>1, PendingIs DEF HasData
  <2>2. HasData(h)' <=> len > 0
    BY <1>4, <1>5, <2>1 DEF HasData
  <2>3. HasData(g)' <=> HasData(g)
    BY <1>2, <1>4, <1>5 DEF HasData
  <2> QED BY <2>1, <2>2, <2>3
<1>10. PICK p \in Packets : p = rxBank[h]
  BY <1>1, <1>2
<1>11. /\ Arriving(h) = <<>> /\ Arriving(g)' = Arriving(g)
       /\ Arriving(h)' = IF len > 0 THEN <<p>> ELSE <<>>
  BY <1>1, <1>9, <1>10, ArrivingIs
<1>12. RxPackets' = RxPackets
  BY <1>1 DEF RxPackets
<1>13. /\ FromHost = (RxPackets \o <<>>) \o Arriving(g)
       /\ FromHost' = (RxPackets \o Arriving(g)) \o Arriving(h)'
  BY <1>2, <1>4, <1>11, <1>12 DEF FromHost, RxPackets, PacketsOf
<1>14. /\ RxPackets \in Seq(Packets) /\ Arriving(g) \in Seq(Packets)
       /\ RxPackets \o Arriving(g) \in Seq(Packets)
  BY <1>1, ViewTypes, ConcatProperties
<1>15. /\ FromHost = RxPackets \o Arriving(g)
       /\ (RxPackets \o Arriving(g)) \o <<>> = RxPackets \o Arriving(g)
       /\ FromHost \in Seq(Packets)
  BY <1>13, <1>14, ConcatEmptySeq
<1>16. hwRx = hostRx /\ Pipes!toggles' = Pipes!toggles
  <2>1. hwRx = hostRx /\ hwRx' = hostRx' /\ hwTx' = hwTx /\ hostTx' = hostTx
    BY DEF HostOut
  <2> QED BY <2>1 DEF Pipes!toggles
<1>17. CASE len > 0
  <2>1. FromHost' = Append(FromHost, p)
    BY <1>11, <1>13, <1>15, <1>17, AppendIsConcat
  <2>2. Pipes!New(p)
    <3>1. rxBank[h] # None
      BY <1>1, <1>2
    <3> QED BY <1>1, <1>9, <1>10, <3>1, FreshBank
  <2>3. Pipes!Deliver(p)
    BY <1>1, <1>7, <1>8, <1>16, <2>1, <2>2, SteadyIs DEF Pipes!Deliver
  <2> QED BY <2>3 DEF Pipes!PipesNext
<1>18. CASE ~(len > 0)
  <2>1. FromHost' = FromHost
    BY <1>11, <1>13, <1>15, <1>18
  <2> QED BY <1>1, <1>7, <1>8, <1>16, <2>1, OnlyPhase
<1> QED BY <1>17, <1>18

\* Nothing arrives where no token is outstanding.
LEMMA NothingArrives ==
  ASSUME stat = <<>>
  PROVE  /\ \A bank : Arriving(bank) = <<>>
         /\ \A dir, bank : ~Pending(dir, bank)
BY DEF Arriving, Pending

LEMMA BusResetRefines ==
  ASSUME Inv, BusReset
  PROVE  [Pipes!PipesNext]_(Pipes!pipes)
<1>1. /\ DevInv /\ hostReady /\ hostReady' = FALSE /\ stat = <<>> /\ stat' = stat
      /\ rxQueue' = rxQueue
  BY DEF BusReset, TokensHandled, rxVars, Inv
<1>2. ToHost' = <<>>
  BY <1>1 DEF ToHost
<1>3. /\ \A bank : Arriving(bank) = <<>>
      /\ \A bank : Arriving(bank)' = <<>>
  BY <1>1 DEF Arriving
<1>4. FromHost' = FromHost
  BY <1>1, <1>3 DEF FromHost
<1>5. InPhase' \in BOOLEAN
  BY DEF InPhase
<1>6. (hwTx' = hostTx') = TRUE /\ (hwRx' = hostRx') = TRUE
  BY DEF BusReset
<1>7. Pipes!CutOff
  BY <1>1, <1>2, <1>4, <1>5, <1>6 DEF Pipes!CutOff
<1> QED BY <1>7 DEF Pipes!PipesNext

\* Until the host configures the device, its toggles are those it starts from.
HostFresh == ~hostReady => hostRx = "EVEN" /\ hostTx = "EVEN"

LEMMA FreshNext ==
  ASSUME HostFresh, [Next]_vars
  PROVE  HostFresh'
<1>1. CASE Call \/ Step \/ StartOfFrame \/ UNCHANGED vars
  BY <1>1, SoftwareLeavesHardware DEF HostFresh
<1>2. CASE TokenDone \/ Collect \/ Deliver
  BY <1>2 DEF TokenDone, TxDone, RxDone, Collect, HostIn, Deliver, HostOut, HostFresh
<1>3. CASE Configure \/ Reset
  BY <1>3 DEF Configure, SetConfiguration, Reset, BusReset, HostFresh
<1> QED BY <1>1, <1>2, <1>3 DEF Next

LEMMA ConfigureRefines ==
  ASSUME Inv, Inv', HostFresh, NEW v, SetConfiguration(v)
  PROVE  [Pipes!PipesNext]_(Pipes!pipes)
<1>1. /\ DevInv /\ DevInv' /\ stat = <<>> /\ stat' = stat
      /\ rxQueue' = <<>> /\ txQueue' = <<>> /\ txBank' = [bank \in Banks |-> None]
      /\ txQueue \in Seq(Packets)
  BY DEF SetConfiguration, TokensHandled, Inv, DevInv, DevTypeOK
<1>2. hostReady' \in BOOLEAN /\ InPhase' \in BOOLEAN
  BY <1>1 DEF DevInv, DevTypeOK, InPhase
<1>3. <<>> \o <<>> = <<>> /\ <<>> \o <<>> \o <<>> = <<>>
  OBVIOUS
<1>4. ToHost' = <<>>
  <2>1. \A bank \in Banks : Waiting(bank)' = <<>>
    BY <1>1 DEF Waiting
  <2>2. PICK h \in Banks, g \in Banks : h = hwTx' /\ g = Other(hwTx')
    BY <1>1 DEF DevInv, DevTypeOK, Other, Banks
  <2> QED BY <1>1, <1>3, <2>1, <2>2 DEF ToHost
<1>5. FromHost' = <<>>
  <2>1. RxPackets' = <<>>
    BY <1>1 DEF RxPackets, PacketsOf
  <2>2. FromHost' = RxPackets' \o Arriving(hwRx)' \o Arriving(Other(hwRx))'
    BY DEF FromHost, RxPackets, PacketsOf
  <2>3. \A bank : Arriving(bank)' = <<>>
    BY <1>1 DEF Arriving
  <2>4. Arriving(hwRx)' = <<>> /\ Arriving(Other(hwRx))' = <<>>
    BY <1>1 DEF Arriving
  <2> QED BY <1>3, <2>1, <2>2, <2>4
<1>6. hostReady /\ ToHost = <<>> => Pipes!Steady
  <2> SUFFICES ASSUME hostReady, ToHost = <<>> PROVE Pipes!Steady
    OBVIOUS
  <2>1. PICK h \in Banks, g \in Banks : h = hwTx /\ g = Other(hwTx) /\ Banks = {h, g}
    BY <1>1 DEF DevInv, DevTypeOK, Other, Banks
  <2>2. Waiting(h) \o Waiting(g) \o txQueue = <<>>
    BY <2>1 DEF ToHost
  <2>3. Waiting(h) \in Seq(Packets) /\ Waiting(g) \in Seq(Packets)
        /\ Waiting(h) \o Waiting(g) \in Seq(Packets)
    BY <1>1, ViewTypes, ConcatProperties
  <2>4. Waiting(h) \o Waiting(g) = <<>>
    BY <1>1, <2>2, <2>3, ConcatEqualIffEmpty
  <2>5. Waiting(h) = <<>> /\ Waiting(g) = <<>>
    BY <2>3, <2>4, ConcatEqualIffEmpty
  <2>6. txBank[h] = None /\ txBank[g] = None
    BY <1>1, <2>5, NothingArrives DEF Waiting
  <2>7. TxArmed = {}
    BY <2>1, <2>6 DEF TxArmed
  <2>8. InPhase => InPhase'
    BY <1>1, <2>7, PhaseConfigure
  <2> QED BY <2>8, SteadyIs
<1>7. (hwTx' = hostTx') \in BOOLEAN /\ (hwRx' = hostRx') \in BOOLEAN
  OBVIOUS
<1>8. ~hostReady => Pipes!toggles' = Pipes!toggles
  <2>1. ~hostReady => UNCHANGED <<hwRx, hwTx, hostRx, hostTx>>
    BY DEF HostFresh, SetConfiguration
  <2> QED BY <2>1, TogglesKept
<1>9. Pipes!Reconfigure
  BY <1>2, <1>4, <1>5, <1>6, <1>7, <1>8 DEF Pipes!Reconfigure
<1> QED BY <1>9 DEF Pipes!PipesNext

\* Every step of the device is a step of the pipes or changes nothing in them.
LEMMA NextRefines ==
  ASSUME Inv, Inv', Own, Order, HostFresh, [Next]_vars
  PROVE  [Pipes!PipesNext]_(Pipes!pipes)
<1>1. CASE Call \/ Step \/ StartOfFrame \/ UNCHANGED vars
  BY <1>1, SoftwareRefines
<1>2. CASE TokenDone
  BY <1>2, TxDoneRefines, RxDoneRefines DEF TokenDone
<1>3. CASE Configure \/ Reset
  BY <1>3, ConfigureRefines, BusResetRefines DEF Configure, Reset
<1>4. CASE Collect \/ Deliver
  BY <1>4, HostInRefines, HostOutMissed, HostOutRefines DEF Collect, Deliver
<1> QED BY <1>1, <1>2, <1>3, <1>4 DEF Next

LEMMA InitRefines == Init => Pipes!PipesInit
<1> SUFFICES ASSUME Init PROVE Pipes!PipesInit
  OBVIOUS
<1>1. /\ stat = <<>> /\ rxQueue = <<>> /\ hostReady = FALSE
      /\ hwTx = "EVEN" /\ hostTx = "EVEN" /\ hwRx = "EVEN" /\ hostRx = "EVEN"
      /\ tx_state = "BOTH_FREE_EVEN_FIRST"
  BY DEF Init, DevInit
<1>2. ToHost = <<>>
  BY <1>1 DEF ToHost
<1>3. FromHost = <<>>
  <2>1. Arriving(hwRx) = <<>> /\ Arriving(Other(hwRx)) = <<>>
    BY <1>1, NothingArrives
  <2>2. RxPackets = <<>> /\ FromHost = RxPackets \o Arriving(hwRx) \o Arriving(Other(hwRx))
    BY <1>1 DEF FromHost, RxPackets, PacketsOf
  <2>3. <<>> \o <<>> \o <<>> = <<>>
    OBVIOUS
  <2> QED BY <2>1, <2>2, <2>3
<1>4. InPhase = TRUE
  <2>1. tx_state \in TxStates
    BY <1>1 DEF TxStates
  <2>2. InPhase
    BY <1>1, <2>1, PhaseIs, NothingArrives
  <2> QED BY <2>2 DEF InPhase
<1>5. (hwTx = hostTx) = TRUE /\ (hwRx = hostRx) = TRUE
  BY <1>1
<1> QED BY <1>1, <1>2, <1>3, <1>4, <1>5 DEF Pipes!PipesInit

\* The device is a pair of pipes: what the program hands over (usb_tx) the host
\* collects, and what the host delivers a reader takes (usb_rx), each packet once
\* and in its turn, through banks, refills and queues, while the host stays.  There
\* are two exceptions: out of phase one packet may overtake one other, and after a
\* configuration that no bus reset preceded the data toggles of host and device may
\* differ, so that one packet each way is dropped.
THEOREM PacketsInOrder == Spec => FifoPipes
<1>1. Inv /\ Inv' /\ Own /\ Order /\ HostFresh /\ [Next]_vars
        => [Pipes!PipesNext]_(Pipes!pipes)
  BY NextRefines
<1>2. Inv /\ Own /\ [Next]_vars => Own'
  BY OwnNext
<1>3. DevInv /\ Order /\ [Next]_vars => Order'
  BY OrderNext
<1>4. Inv => DevInv
  BY DEF Inv
<1>5. HostFresh /\ [Next]_vars => HostFresh'
  BY FreshNext
<1>6. Init => HostFresh
  BY DEF Init, DevInit, HostFresh
<1> QED BY <1>1, <1>2, <1>3, <1>4, <1>5, <1>6, InitRefines, OwnInit, OrderInit, InvAlways,
           PTL DEF Spec, FifoPipes, Pipes!PipesSpec

-----------------------------------------------------------------------------
(* SET_CONFIGURATION's loops, call by call *)

\* What the first n of q add to the pool P when the first c of them are kept back.
Kept(P, q, n, c) == P \cup {q[j] : j \in {i \in 1 .. n : i > c}}

LEMMA KeptBack ==
  ASSUME NEW P, NEW q \in Seq(Packets), NEW n \in 0 .. Len(q), NEW c \in Nat, n <= c
  PROVE  Kept(P, q, n, c) = P
<1>1. Len(q) \in Nat
  OBVIOUS
<1>2. {i \in 1 .. n : i > c} = {}
  BY <1>1
<1> QED BY <1>2 DEF Kept

LEMMA KeptOneMore ==
  ASSUME NEW P, NEW q \in Seq(Packets), NEW n \in 1 .. Len(q), NEW c \in Nat, n > c
  PROVE  Kept(P, q, n, c) = Kept(P, q, n - 1, c) \cup {q[n]}
<1>1. Len(q) \in Nat
  OBVIOUS
<1>2. {i \in 1 .. n : i > c} = {i \in 1 .. n - 1 : i > c} \cup {n}
  BY <1>1
<1> QED BY <1>2 DEF Kept

\* One call of usb_free.  Nobody looks for a starving bank ...
LEMMA FreeUnasked ==
  ASSUME NEW P, NEW R, NEW k, NEW v, NEW p, v = 0 \/ k = 0
  PROVE  FreeCall(v, Memory(P, R, k), p) = Memory(P \cup {p}, R, k)
BY DEF FreeCall, Memory

\* ... or there is none ...
LEMMA FreeInVain ==
  ASSUME NEW P, NEW R, NEW k, NEW p, R["EVEN"] # None, R["ODD"] # None
  PROVE  FreeCall(1, Memory(P, R, k), p) = Memory(P \cup {p}, R, 0)
<1>1. {bank \in Banks : R[bank] = None} = {}
  BY DEF Banks
<1>2. CASE k = 0
  BY <1>2 DEF FreeCall, Memory
<1>3. CASE k # 0
  BY <1>1, <1>3 DEF FreeCall, Memory
<1> QED BY <1>2, <1>3

\* ... or the first of them gets the packet: S follows R.
Serves(S, R, bank, p) ==
  /\ bank \in Banks /\ R[bank] = None /\ (bank = "ODD" => R["EVEN"] # None)
  /\ S = [R EXCEPT ![bank] = p]

\* The call takes m to s.
Takes(m, p, s) == FreeCall(1, m, p) = s

LEMMA FreeServes ==
  ASSUME NEW P, NEW R, NEW S, NEW bank, NEW k, NEW p, k \in 1 .. 255,
         Serves(S, R, bank, p)
  PROVE  Takes(Memory(P, R, k), p, Memory(P, S, k - 1))
<1> DEFINE starving == {b \in Banks : R[b] = None}
<1>1. bank \in starving /\ bank = IF "EVEN" \in starving THEN "EVEN" ELSE "ODD"
  BY DEF Serves, Banks
<1>2. k # 0 /\ Decremented(k) = k - 1
  BY DEF Decremented
<1>3. S = [R EXCEPT ![bank] = p]
  BY DEF Serves
<1> QED BY <1>1, <1>2, <1>3 DEF Takes, FreeCall, Memory

\* g solves the equation of FreeAll.
Frees(g, v, m, q) ==
  g = [n \in 0 .. Len(q) |-> IF n = 0 THEN m ELSE FreeCall(v, g[n - 1], q[n])]

\* It has one solution.
LEMMA FreeAllIs ==
  ASSUME NEW q \in Seq(Packets), NEW v, NEW m, NEW g, Frees(g, v, m, q)
  PROVE  FreeAll(v, m, q) = g[Len(q)]
<1> DEFINE F(f) == [n \in 0 .. Len(q) |-> IF n = 0 THEN m ELSE FreeCall(v, f[n - 1], q[n])]
           after == CHOOSE f : f = F(f)
<1>1. FreeAll(v, m, q) = after[Len(q)]
  BY DEF FreeAll
<1>2. Len(q) \in Nat /\ Len(q) \in 0 .. Len(q)
  OBVIOUS
<1>3. g = F(g)
  BY DEF Frees
<1>4. after = F(after)
  BY <1>3
<1>5. \A f : f = F(f) =>
        /\ f[0] = m
        /\ \A n \in 1 .. Len(q) : f[n] = FreeCall(v, f[n - 1], q[n])
  <2> SUFFICES ASSUME NEW f, f = F(f)
               PROVE  /\ f[0] = m
                      /\ \A n \in 1 .. Len(q) : f[n] = FreeCall(v, f[n - 1], q[n])
    OBVIOUS
  <2>1. \A n \in 0 .. Len(q) : f[n] = IF n = 0 THEN m ELSE FreeCall(v, f[n - 1], q[n])
    OBVIOUS
  <2> QED BY <1>2, <2>1
<1>6. /\ g[0] = m /\ \A n \in 1 .. Len(q) : g[n] = FreeCall(v, g[n - 1], q[n])
      /\ after[0] = m /\ \A n \in 1 .. Len(q) : after[n] = FreeCall(v, after[n - 1], q[n])
  BY <1>3, <1>4, <1>5
<1> HIDE DEF after
<1>7. ASSUME NEW l \in 0 .. Len(q), after[l] # g[l]
      PROVE  FALSE
  <2> DEFINE Differ == {n \in 0 .. Len(q) : after[n] # g[n]}
  <2>1. Differ \subseteq Nat /\ Differ # {}
    BY <1>2, <1>7
  <2>2. PICK n \in Differ : \A i \in Differ : n <= i
    BY <2>1, LeastElement
  <2>3. n \in 1 .. Len(q) /\ n - 1 \in 0 .. Len(q) /\ n - 1 \notin Differ
    BY <1>2, <1>6, <2>2
  <2>4. after[n - 1] = g[n - 1]
    BY <2>3
  <2>5. after[n] = g[n]
    BY <1>6, <2>3, <2>4
  <2> QED BY <2>2, <2>5
<1> QED BY <1>1, <1>2, <1>7

\* Freeing all of q takes the pool of m to P.
EndsIn(v, m, q, P) == FreeAll(v, m, q).pool = P

\* No call finds a bank to serve.
Quiet(v, R, k) == v = 0 \/ k = 0 \/ (R["EVEN"] # None /\ R["ODD"] # None)

\* Every packet then ends in the pool.
LEMMA QuietLoop ==
  ASSUME NEW P, NEW R, NEW k, NEW v, NEW q, k \in 0 .. 255, v \in {0, 1},
         q \in Seq(Packets), Quiet(v, R, k)
  PROVE  EndsIn(v, Memory(P, R, k), q, P \cup Elements(q))
<1> DEFINE left(n) == IF n = 0 \/ v = 0 THEN k ELSE 0
           g == [n \in 0 .. Len(q) |-> Memory(Kept(P, q, n, 0), R, left(n))]
<1>1. Len(q) \in Nat /\ Len(q) \in 0 .. Len(q)
  OBVIOUS
<1>2. g[0] = Memory(P, R, k)
  <2>1. 0 \in 0 .. Len(q) /\ 0 \in Nat /\ 0 <= 0 /\ left(0) = k
    BY <1>1
  <2>2. Kept(P, q, 0, 0) = P
    BY <2>1, KeptBack
  <2> QED BY <2>1, <2>2
<1>3. ASSUME NEW n \in 1 .. Len(q)
      PROVE  g[n] = FreeCall(v, g[n - 1], q[n])
  <2>1. n \in 0 .. Len(q) /\ n - 1 \in 0 .. Len(q) /\ n > 0 /\ 0 \in Nat
    BY <1>1
  <2>2. Kept(P, q, n, 0) = Kept(P, q, n - 1, 0) \cup {q[n]}
    BY <2>1, KeptOneMore
  <2>3. PICK A : A = Kept(P, q, n - 1, 0)
    OBVIOUS
  <2>4. PICK l \in 0 .. 255 : l = left(n - 1)
    OBVIOUS
  <2>5. g[n - 1] = Memory(A, R, l) /\ g[n] = Memory(A \cup {q[n]}, R, left(n))
    BY <2>1, <2>2, <2>3, <2>4
  <2>6. CASE v = 0 \/ l = 0
    <3>1. left(n) = l
      BY <2>1, <2>4, <2>6
    <3>2. FreeCall(v, Memory(A, R, l), q[n]) = Memory(A \cup {q[n]}, R, l)
      BY <2>6, FreeUnasked
    <3> HIDE DEF g, left
    <3> QED BY <2>5, <3>1, <3>2
  <2>7. CASE v = 1 /\ l # 0
    <3>1. left(n) = 0 /\ R["EVEN"] # None /\ R["ODD"] # None
      BY <2>1, <2>4, <2>7 DEF Quiet
    <3>2. FreeCall(v, Memory(A, R, l), q[n]) = Memory(A \cup {q[n]}, R, 0)
      BY <2>7, <3>1, FreeInVain
    <3> HIDE DEF g, left
    <3> QED BY <2>5, <3>1, <3>2
  <2> QED BY <2>6, <2>7
<1>4. Frees(g, v, Memory(P, R, k), q)
  <2>1. \A n \in 0 .. Len(q) :
          g[n] = IF n = 0 THEN Memory(P, R, k) ELSE FreeCall(v, g[n - 1], q[n])
    <3> HIDE DEF g
    <3> QED BY <1>1, <1>2, <1>3
  <2>2. g = [n \in 0 .. Len(q) |-> g[n]]
    OBVIOUS
  <2> HIDE DEF g
  <2> QED BY <2>1, <2>2 DEF Frees
<1>5. FreeAll(v, Memory(P, R, k), q) = g[Len(q)]
  <2> HIDE DEF g
  <2> QED BY <1>4, FreeAllIs
<1>6. g[Len(q)].pool = Kept(P, q, Len(q), 0)
  BY <1>1 DEF Memory
<1>7. Kept(P, q, Len(q), 0) = P \cup Elements(q)
  BY <1>1 DEF Kept, Elements
<1> QED BY <1>5, <1>6, <1>7 DEF EndsIn

\* P and what two starving banks, counted k, leave of q.
Unserved(P, q, k) == P \cup {q[j] : j \in {i \in 1 .. Len(q) : ~(i <= 2 /\ i <= k)}}

\* With both banks starving the first two packets, if the device counts that
\* many, go to them, and the others to the pool.
LEMMA StarvedLoop ==
  ASSUME NEW P, NEW R, NEW k, NEW q, k \in 1 .. 255, q \in Seq(Packets),
         R \in [Banks -> Packets \cup {None}], R["EVEN"] = None, R["ODD"] = None
  PROVE  EndsIn(1, Memory(P, R, k), q, Unserved(P, q, k))
<1> DEFINE c == IF k = 1 THEN 1 ELSE 2
           left(n) == IF n <= c THEN k - n ELSE 0
           banks(n) == IF n = 0 THEN R
                       ELSE IF n = 1 \/ c = 1 THEN [R EXCEPT !["EVEN"] = q[1]]
                       ELSE [[R EXCEPT !["EVEN"] = q[1]] EXCEPT !["ODD"] = q[2]]
           g == [n \in 0 .. Len(q) |-> Memory(Kept(P, q, n, c), banks(n), left(n))]
<1>1. /\ Len(q) \in Nat /\ Len(q) \in 0 .. Len(q)
      /\ c \in 1 .. 2 /\ c <= k /\ (k > c => c = 2) /\ (c = 1 => k = 1)
  OBVIOUS
<1>2. g[0] = Memory(P, R, k)
  <2>1. 0 \in 0 .. Len(q) /\ c \in Nat /\ 0 <= c /\ left(0) = k /\ banks(0) = R
    BY <1>1
  <2>2. Kept(P, q, 0, c) = P
    <3> HIDE DEF c
    <3> QED BY <2>1, KeptBack
  <2> QED BY <1>1, <2>1, <2>2
<1>3. ASSUME NEW n \in 1 .. Len(q)
      PROVE  g[n] = FreeCall(1, g[n - 1], q[n])
  <2>1. /\ n \in 0 .. Len(q) /\ n - 1 \in 0 .. Len(q) /\ q[n] \in Packets /\ n > 0
        /\ q[1] \in Packets /\ (n >= 2 => q[2] \in Packets) /\ None \notin Packets
    BY <1>1, UsbDevAssumption
  <2>2. /\ g[n - 1] = Memory(Kept(P, q, n - 1, c), banks(n - 1), left(n - 1))
        /\ g[n] = Memory(Kept(P, q, n, c), banks(n), left(n))
    BY <2>1
  <2>3. PICK A, B, l, d :
          A = Kept(P, q, n - 1, c) /\ B = banks(n - 1) /\ l = left(n - 1) /\ d = c
    OBVIOUS
  <2>4. /\ n <= d => Kept(P, q, n, d) = P /\ A = P
        /\ n > d => Kept(P, q, n, d) = A \cup {q[n]}
    <3>1. d \in Nat /\ (n <= d => n - 1 <= d) /\ A = Kept(P, q, n - 1, d)
      BY <1>1, <2>1, <2>3
    <3>2. n <= d => Kept(P, q, n, d) = P /\ Kept(P, q, n - 1, d) = P
      BY <2>1, <3>1, KeptBack
    <3>3. n > d => Kept(P, q, n, d) = Kept(P, q, n - 1, d) \cup {q[n]}
      BY <3>1, KeptOneMore
    <3> QED BY <3>1, <3>2, <3>3
  <2>5. /\ g[n - 1] = Memory(A, B, l)
        /\ g[n] = Memory(Kept(P, q, n, d), banks(n), left(n))
    BY <2>2, <2>3
  <2>6. CASE n = 1
    <3>1. PICK S : S = [R EXCEPT !["EVEN"] = q[n]]
      OBVIOUS
    <3>2. B = R /\ l = k /\ n <= d /\ banks(n) = S /\ left(n) = k - 1
      BY <1>1, <2>3, <2>6, <3>1
    <3> HIDE DEF g, banks, left, c
    <3>3. FreeCall(1, Memory(P, R, k), q[n]) = Memory(P, S, k - 1)
      <4>1. Serves(S, R, "EVEN", q[n])
        BY <3>1 DEF Serves, Banks
      <4>2. Takes(Memory(P, R, k), q[n], Memory(P, S, k - 1))
        BY <4>1, FreeServes
      <4> QED BY <4>2 DEF Takes
    <3> QED BY <2>4, <2>5, <3>2, <3>3
  <2>7. CASE n = 2 /\ c = 2
    <3>1. PICK S : S = [R EXCEPT !["EVEN"] = q[1]]
      OBVIOUS
    <3>2. PICK S2, j : S2 = [S EXCEPT !["ODD"] = q[n]] /\ j = k - 1
      OBVIOUS
    <3>3. B = S /\ l = j /\ n <= d /\ banks(n) = S2 /\ left(n) = j - 1
      BY <1>1, <2>3, <2>7, <3>1, <3>2
    <3>4. j \in 1 .. 255 /\ S["EVEN"] # None /\ S["ODD"] = None
      <4>1. j \in 1 .. 255
        BY <1>1, <2>7, <3>2
      <4>2. q[1] # None
        BY <2>1
      <4>3. S["EVEN"] = q[1] /\ S["ODD"] = R["ODD"]
        BY <3>1 DEF Banks
      <4> QED BY <4>1, <4>2, <4>3
    <3> HIDE DEF g, banks, left, c
    <3>5. FreeCall(1, Memory(P, S, j), q[n]) = Memory(P, S2, j - 1)
      <4>1. Serves(S2, S, "ODD", q[n])
        BY <3>2, <3>4 DEF Serves, Banks
      <4>2. Takes(Memory(P, S, j), q[n], Memory(P, S2, j - 1))
        BY <3>4, <4>1, FreeServes
      <4> QED BY <4>2 DEF Takes
    <3> QED BY <2>4, <2>5, <3>3, <3>5
  <2>8. CASE n > c
    <3>1. banks(n) = B /\ left(n) = 0 /\ n > d /\ l \in 0 .. 255
      BY <1>1, <2>1, <2>3, <2>8
    <3>2. B \in [Banks -> Packets \cup {None}]
      BY <1>1, <2>1, <2>3, <2>8 DEF Banks
    <3>3. l = 0 \/ (B["EVEN"] # None /\ B["ODD"] # None)
      <4>1. CASE c = 1
        BY <1>1, <2>1, <2>3, <2>8, <4>1
      <4>2. CASE c = 2
        <5>1. B = [[R EXCEPT !["EVEN"] = q[1]] EXCEPT !["ODD"] = q[2]]
          BY <1>1, <2>1, <2>3, <2>8, <4>2
        <5>2. q[1] # None /\ q[2] # None
          BY <1>1, <2>1, <2>8, <4>2
        <5> HIDE DEF banks, left, c
        <5> QED BY <5>1, <5>2 DEF Banks
      <4> QED BY <1>1, <4>1, <4>2
    <3> HIDE DEF g, banks, left, c
    <3>4. FreeCall(1, Memory(A, B, l), q[n]) = Memory(A \cup {q[n]}, B, 0)
      BY <3>3, FreeUnasked, FreeInVain
    <3> QED BY <2>4, <2>5, <3>1, <3>4
  <2>9. n = 1 \/ (n = 2 /\ c = 2) \/ n > c
    BY <1>1, <2>1
  <2> HIDE DEF g, banks, left, c
  <2> QED BY <2>6, <2>7, <2>8, <2>9
<1>4. Frees(g, 1, Memory(P, R, k), q)
  <2>1. \A n \in 0 .. Len(q) :
          g[n] = IF n = 0 THEN Memory(P, R, k) ELSE FreeCall(1, g[n - 1], q[n])
    <3> HIDE DEF g
    <3> QED BY <1>1, <1>2, <1>3
  <2>2. g = [n \in 0 .. Len(q) |-> g[n]]
    OBVIOUS
  <2> HIDE DEF g
  <2> QED BY <2>1, <2>2 DEF Frees
<1>5. FreeAll(1, Memory(P, R, k), q) = g[Len(q)]
  <2> HIDE DEF g
  <2> QED BY <1>4, FreeAllIs
<1>6. g[Len(q)].pool = Kept(P, q, Len(q), c)
  BY <1>1 DEF Memory
<1>7. {i \in 1 .. Len(q) : i > c} = {i \in 1 .. Len(q) : ~(i <= 2 /\ i <= k)}
  BY <1>1
<1> HIDE DEF g, c
<1> QED BY <1>5, <1>6, <1>7 DEF Kept, EndsIn, Unserved

\* Two queues without a common packet make one without a repeated packet.
LEMMA DistinctConcat ==
  ASSUME NEW s \in Seq(Packets), NEW t \in Seq(Packets), Distinct(s), Distinct(t),
         Elements(s) \cap Elements(t) = {}
  PROVE  Distinct(s \o t)
<1>1. /\ Len(s) \in Nat /\ Len(t) \in Nat /\ Len(s \o t) = Len(s) + Len(t)
      /\ \A i \in 1 .. Len(s) + Len(t) :
           (s \o t)[i] = IF i <= Len(s) THEN s[i] ELSE t[i - Len(s)]
  BY ConcatProperties
<1>2. ASSUME NEW i \in 1 .. Len(s) + Len(t), NEW j \in 1 .. Len(s) + Len(t),
             (s \o t)[i] = (s \o t)[j]
      PROVE  i = j
  <2>1. CASE i <= Len(s) /\ j <= Len(s)
    <3>1. i \in 1 .. Len(s) /\ j \in 1 .. Len(s) /\ s[i] = s[j]
      BY <1>1, <1>2, <2>1
    <3> QED BY <3>1 DEF Distinct
  <2>2. CASE ~(i <= Len(s)) /\ ~(j <= Len(s))
    <3>1. /\ i - Len(s) \in 1 .. Len(t) /\ j - Len(s) \in 1 .. Len(t)
          /\ t[i - Len(s)] = t[j - Len(s)]
      BY <1>1, <1>2, <2>2
    <3>2. i - Len(s) = j - Len(s)
      BY <3>1 DEF Distinct
    <3> QED BY <1>1, <3>2
  <2>3. CASE i <= Len(s) /\ ~(j <= Len(s))
    <3>1. i \in 1 .. Len(s) /\ j - Len(s) \in 1 .. Len(t) /\ s[i] = t[j - Len(s)]
      BY <1>1, <1>2, <2>3
    <3>2. s[i] \in Elements(s) /\ t[j - Len(s)] \in Elements(t)
      BY <3>1 DEF Elements
    <3> QED BY <3>1, <3>2
  <2>4. CASE ~(i <= Len(s)) /\ j <= Len(s)
    <3>1. j \in 1 .. Len(s) /\ i - Len(s) \in 1 .. Len(t) /\ s[j] = t[i - Len(s)]
      BY <1>1, <1>2, <2>4
    <3>2. s[j] \in Elements(s) /\ t[i - Len(s)] \in Elements(t)
      BY <3>1 DEF Elements
    <3> QED BY <3>1, <3>2
  <2> QED BY <2>1, <2>2, <2>3, <2>4
<1> QED BY <1>1, <1>2 DEF Distinct

\* What the loops free after the receive banks.
Rest == HeldBy(txBank["EVEN"]) \o HeldBy(txBank["ODD"]) \o RxPackets \o txQueue

\* It holds no packet twice, none of the pool and none of the receive banks.
LEMMA RestIs ==
  ASSUME DevTypeOK, Own
  PROVE  /\ Rest \in Seq(Packets) /\ Distinct(Rest)
         /\ Elements(Rest) \cap usb_buffer_available = {}
         /\ rxBank["ODD"] # None =>
              rxBank["ODD"] \notin Elements(Rest) /\ rxBank["ODD"] \notin usb_buffer_available
<1> DEFINE c == HeldBy(txBank["EVEN"])
           d == HeldBy(txBank["ODD"])
<1>1. /\ c \in Seq(Packets) /\ Elements(c) = At["txEVEN"] /\ Distinct(c)
      /\ d \in Seq(Packets) /\ Elements(d) = At["txODD"] /\ Distinct(d)
  BY HeldByIs, AtIs DEF DevTypeOK, Banks
<1>2. /\ RxPackets \in Seq(Packets) /\ Elements(RxPackets) = At["rxQueue"]
      /\ txQueue \in Seq(Packets) /\ Elements(txQueue) = At["txQueue"]
      /\ Distinct(RxPackets) /\ Distinct(txQueue)
  BY PacketsOfQueue, AtIs DEF DevTypeOK, RxPackets, Own
<1>3. \A k, l \in Places : \A p \in At[k] : p \in At[l] => k = l
  BY DEF Own, Disjoint
<1> HIDE DEF c, d
<1>4. PICK f, g : f = c \o d /\ g = f \o RxPackets
  OBVIOUS
<1>5. f \in Seq(Packets) /\ Elements(f) = At["txEVEN"] \cup At["txODD"] /\ Distinct(f)
  <2>1. Elements(c) \cap Elements(d) = {}
    BY <1>1, <1>3 DEF Places
  <2>2. Distinct(c \o d)
    BY <1>1, <2>1, DistinctConcat
  <2> QED BY <1>1, <1>4, <2>2, PartOfConcat
<1>6. /\ g \in Seq(Packets) /\ Distinct(g)
      /\ Elements(g) = At["txEVEN"] \cup At["txODD"] \cup At["rxQueue"]
  <2>1. Elements(f) \cap Elements(RxPackets) = {}
    BY <1>2, <1>3, <1>5 DEF Places
  <2>2. PICK r : r = RxPackets
    OBVIOUS
  <2>3. r \in Seq(Packets) /\ Distinct(r) /\ Elements(f) \cap Elements(r) = {}
    BY <1>2, <2>1, <2>2
  <2>4. Distinct(f \o r)
    BY <1>5, <2>3, DistinctConcat
  <2>5. f \o r \in Seq(Packets) /\ Elements(f \o r) = Elements(f) \cup Elements(r)
    BY <1>5, <2>3, PartOfConcat
  <2> QED BY <1>2, <1>4, <1>5, <2>2, <2>4, <2>5
<1>7. /\ Rest \in Seq(Packets) /\ Distinct(Rest)
      /\ Elements(Rest) = At["txEVEN"] \cup At["txODD"] \cup At["rxQueue"] \cup At["txQueue"]
  <2>1. Elements(g) \cap Elements(txQueue) = {}
    BY <1>2, <1>3, <1>6 DEF Places
  <2>2. Rest = g \o txQueue
    BY <1>4 DEF Rest, c, d
  <2>3. Distinct(g \o txQueue)
    BY <1>2, <1>6, <2>1, DistinctConcat
  <2> QED BY <1>2, <1>6, <2>2, <2>3, PartOfConcat
<1>8. \A p \in Elements(Rest) : p \notin At["pool"] /\ p \notin At["rxODD"]
  BY <1>3, <1>7 DEF Places
<1>9. \A p \in At["rxODD"] : p \notin At["pool"]
  BY <1>3 DEF Places
<1>10. rxBank["ODD"] # None => rxBank["ODD"] \in At["rxODD"]
  BY AtIs, InUseIs
<1> QED BY <1>7, <1>8, <1>9, <1>10, AtIs

Associates(s, t, u) == (s \o t) \o u = s \o (t \o u)

LEMMA Associative ==
  ASSUME NEW s \in Seq(Packets), NEW t \in Seq(Packets), NEW u \in Seq(Packets)
  PROVE  Associates(s, t, u)
BY ConcatAssociative DEF Associates

Regroups(s, c, d, e, f) == s \o c \o d \o e \o f = s \o (c \o d \o e \o f)

LEMMA Regrouped ==
  ASSUME NEW s \in Seq(Packets), NEW c \in Seq(Packets), NEW d \in Seq(Packets),
         NEW e \in Seq(Packets), NEW f \in Seq(Packets)
  PROVE  Regroups(s, c, d, e, f)
<1>1. PICK x \in Seq(Packets) : x = c \o d
  BY ConcatProperties
<1>2. PICK y \in Seq(Packets) : y = x \o e
  BY ConcatProperties
<1>3. Associates(s, c, d) /\ Associates(s, x, e) /\ Associates(s, y, f)
  BY Associative
<1> QED BY <1>1, <1>2, <1>3 DEF Associates, Regroups

\* The packets freed are those of the receive banks, and then the rest.
LEMMA FreedIsRest ==
  ASSUME DevTypeOK, Own
  PROVE  /\ FreedInOrder = (HeldBy(rxBank["EVEN"]) \o HeldBy(rxBank["ODD"])) \o Rest
         /\ Elements(FreedInOrder) =
              InUse(rxBank["EVEN"]) \cup InUse(rxBank["ODD"]) \cup Elements(Rest)
<1>1. PICK a, b, c, d : /\ a = HeldBy(rxBank["EVEN"]) /\ b = HeldBy(rxBank["ODD"])
                        /\ c = HeldBy(txBank["EVEN"]) /\ d = HeldBy(txBank["ODD"])
  OBVIOUS
<1>2. /\ a \in Seq(Packets) /\ Elements(a) = InUse(rxBank["EVEN"])
      /\ b \in Seq(Packets) /\ Elements(b) = InUse(rxBank["ODD"])
      /\ c \in Seq(Packets) /\ d \in Seq(Packets)
  BY <1>1, HeldByIs DEF DevTypeOK, Banks
<1>3. PICK e, f, s : e = RxPackets /\ f = txQueue /\ s = a \o b
  OBVIOUS
<1>4. e \in Seq(Packets) /\ f \in Seq(Packets)
  BY <1>3, PacketsOfQueue DEF DevTypeOK, RxPackets
<1>5. s \in Seq(Packets) /\ Elements(s) = InUse(rxBank["EVEN"]) \cup InUse(rxBank["ODD"])
  BY <1>2, <1>3, PartOfConcat
<1>6. FreedInOrder = s \o c \o d \o e \o f /\ Rest = c \o d \o e \o f
  BY <1>1, <1>3 DEF FreedInOrder, Rest, RxPackets, PacketsOf
<1>7. s \o c \o d \o e \o f = s \o (c \o d \o e \o f)
  <2>1. /\ s \in Seq(Packets) /\ c \in Seq(Packets) /\ d \in Seq(Packets)
        /\ e \in Seq(Packets) /\ f \in Seq(Packets)
    BY <1>2, <1>4, <1>5
  <2>2. Regroups(s, c, d, e, f)
    BY <2>1, Regrouped
  <2> QED BY <2>2 DEF Regroups
<1>8. Rest \in Seq(Packets)
  BY RestIs
<1>9. FreedInOrder = s \o Rest
  BY <1>6, <1>7
<1>10. Elements(s \o Rest) = Elements(s) \cup Elements(Rest)
  BY <1>5, <1>8, PartOfConcat
<1> QED BY <1>1, <1>3, <1>5, <1>9, <1>10

\* The loop over the receive banks takes P, R and k to m.
AfterBanks(v, P, R, k, m) ==
  m = FreeRxBank(v, FreeRxBank(v, Memory(P, R, k), "EVEN"), "ODD")

LEMMA BanksUnasked ==
  ASSUME NEW P, NEW R, NEW k, NEW v, v = 0 \/ k = 0, NEW m, AfterBanks(v, P, R, k, m)
  PROVE  m = Memory(P \cup InUse(R["EVEN"]) \cup InUse(R["ODD"]), R, k)
<1>1. ASSUME NEW Q, NEW bank
      PROVE  FreeRxBank(v, Memory(Q, R, k), bank) = Memory(Q \cup InUse(R[bank]), R, k)
  <2>1. Memory(Q, R, k).rx = R
    BY DEF Memory
  <2>2. CASE R[bank] = None
    BY <2>1, <2>2 DEF FreeRxBank, InUse
  <2>3. CASE R[bank] # None
    BY <2>1, <2>3, FreeUnasked DEF FreeRxBank, InUse
  <2> QED BY <2>2, <2>3
<1> QED BY <1>1 DEF AfterBanks

LEMMA BothArmed ==
  ASSUME NEW P, NEW R, NEW k, R["EVEN"] # None, R["ODD"] # None,
         NEW m, AfterBanks(1, P, R, k, m)
  PROVE  m = Memory(P \cup {R["EVEN"], R["ODD"]}, R, 0)
<1>1. ASSUME NEW Q, NEW j, NEW bank \in Banks
      PROVE  FreeRxBank(1, Memory(Q, R, j), bank) = Memory(Q \cup {R[bank]}, R, 0)
  <2>1. Memory(Q, R, j).rx = R /\ R[bank] # None
    BY DEF Memory, Banks
  <2> QED BY <2>1, FreeInVain DEF FreeRxBank
<1>2. "EVEN" \in Banks /\ "ODD" \in Banks
  BY DEF Banks
<1>3. FreeRxBank(1, Memory(P, R, k), "EVEN") = Memory(P \cup {R["EVEN"]}, R, 0)
  BY <1>1, <1>2
<1>4. FreeRxBank(1, Memory(P \cup {R["EVEN"]}, R, 0), "ODD")
        = Memory((P \cup {R["EVEN"]}) \cup {R["ODD"]}, R, 0)
  BY <1>1, <1>2
<1> QED BY <1>3, <1>4 DEF AfterBanks

\* The banks are served and the pool is P.
Served(m, P) == \E S : m = Memory(P, S, 0)

\* The free of EVEN arms ODD with its packet, which the loop frees again.
LEMMA EvenArmed ==
  ASSUME NEW P, NEW R, NEW k, k \in 1 .. 255, R \in [Banks -> Packets \cup {None}],
         R["EVEN"] # None, R["ODD"] = None, NEW m, AfterBanks(1, P, R, k, m)
  PROVE  Served(m, P \cup {R["EVEN"]})
<1>1. PICK p : p = R["EVEN"]
  OBVIOUS
<1>2. PICK S : S = [R EXCEPT !["ODD"] = p]
  OBVIOUS
<1>3. /\ Serves(S, R, "ODD", p) /\ S["ODD"] = p /\ S["EVEN"] = p /\ p # None
  BY <1>1, <1>2 DEF Serves, Banks
<1>4. Takes(Memory(P, R, k), p, Memory(P, S, k - 1))
  BY <1>3, FreeServes
<1>5. FreeRxBank(1, Memory(P, R, k), "EVEN") = Memory(P, S, k - 1)
  <2>1. Memory(P, R, k).rx = R
    BY DEF Memory
  <2> QED BY <1>1, <1>4, <2>1 DEF FreeRxBank, Takes
<1>6. FreeCall(1, Memory(P, S, k - 1), p) = Memory(P \cup {p}, S, 0)
  BY <1>3, FreeInVain
<1>7. FreeRxBank(1, Memory(P, S, k - 1), "ODD") = Memory(P \cup {p}, S, 0)
  <2>1. Memory(P, S, k - 1).rx = S
    BY DEF Memory
  <2> QED BY <1>3, <1>6, <2>1 DEF FreeRxBank
<1> QED BY <1>1, <1>5, <1>7 DEF AfterBanks, Served

\* The free of ODD arms EVEN, which the loop has passed.
LEMMA OddArmed ==
  ASSUME NEW P, NEW R, NEW k, k \in 1 .. 255, R \in [Banks -> Packets \cup {None}],
         R["EVEN"] = None, R["ODD"] # None, NEW m, AfterBanks(1, P, R, k, m)
  PROVE  \E S : m = Memory(P, S, k - 1) /\ S["EVEN"] # None /\ S["ODD"] # None
<1>1. PICK p : p = R["ODD"]
  OBVIOUS
<1>2. PICK S : S = [R EXCEPT !["EVEN"] = p]
  OBVIOUS
<1>3. /\ Serves(S, R, "EVEN", p) /\ S["ODD"] = p /\ S["EVEN"] = p /\ p # None
  BY <1>1, <1>2 DEF Serves, Banks
<1>4. Takes(Memory(P, R, k), p, Memory(P, S, k - 1))
  BY <1>3, FreeServes
<1>5. Memory(P, R, k).rx = R
  BY DEF Memory
<1>6. FreeRxBank(1, Memory(P, R, k), "EVEN") = Memory(P, R, k)
  BY <1>5 DEF FreeRxBank
<1>7. FreeRxBank(1, Memory(P, R, k), "ODD") = Memory(P, S, k - 1)
  BY <1>1, <1>3, <1>4, <1>5 DEF FreeRxBank, Takes
<1> QED BY <1>3, <1>6, <1>7 DEF AfterBanks

\* What the closed form takes for lost.
LEMMA NoneCaptured ==
  ASSUME DevTypeOK, NEW v, v = 0 \/ usb_rx_memory_needed = 0 \/ rxBank["EVEN"] # None
  PROVE  Captured(v) = {}
<1>1. Len(FreedInOrder) \in Nat
  BY FreedIs
<1>2. CASE v = 0
  BY <1>2 DEF Captured
<1>3. CASE usb_rx_memory_needed = 0
  <2>1. {j \in 1 .. Len(FreedInOrder) : j <= usb_rx_memory_needed} = {}
    BY <1>1, <1>3
  <2> QED BY <2>1 DEF Captured
<1>4. CASE rxBank["EVEN"] # None
  <2>1. {j \in 1 .. Len(FreedInOrder) : j <= 0} = {}
    BY <1>1
  <2> QED BY <1>4, <2>1 DEF Captured
<1> QED BY <1>2, <1>3, <1>4

LEMMA OddCaptured ==
  ASSUME DevTypeOK, Own, usb_rx_memory_needed # 0,
         rxBank["EVEN"] = None, rxBank["ODD"] # None
  PROVE  Captured(1) = {rxBank["ODD"]}
<1>1. Cardinality(Starving) = 1
  BY StarvingIs DEF Starving, Ones
<1>2. PICK p : p = rxBank["ODD"] /\ p \in Packets
  BY DEF DevTypeOK, Banks
<1>3. /\ <<p>> \in Seq(Packets) /\ Len(<<p>>) = 1 /\ <<p>>[1] = p
      /\ Rest \in Seq(Packets) /\ <<>> \o <<p>> = <<p>>
  BY <1>2, RestIs
<1>4. FreedInOrder = <<p>> \o Rest
  BY <1>2, <1>3, FreedIsRest DEF HeldBy
<1>5. Len(<<p>> \o Rest) \in Nat /\ 1 \in 1 .. Len(<<p>> \o Rest) /\ (<<p>> \o Rest)[1] = p
  BY <1>3, ConcatProperties
<1>6. usb_rx_memory_needed \in 1 .. 255
  BY DEF DevTypeOK
<1>7. {j \in 1 .. Len(FreedInOrder) : j <= 1 /\ j <= usb_rx_memory_needed} = {1}
  BY <1>4, <1>5, <1>6
<1>8. Captured(1) = {FreedInOrder[i] : i \in {1}}
  BY <1>1, <1>7 DEF Captured
<1> QED BY <1>2, <1>4, <1>5, <1>8

LEMMA BothCaptured ==
  ASSUME DevTypeOK, Own, rxBank["EVEN"] = None, rxBank["ODD"] = None
  PROVE  /\ FreedInOrder = Rest
         /\ Captured(1) = {Rest[j] : j \in {i \in 1 .. Len(Rest) :
                                              i <= 2 /\ i <= usb_rx_memory_needed}}
<1>1. Cardinality(Starving) = 2
  BY StarvingIs DEF Starving, Ones
<1>2. Rest \in Seq(Packets)
  BY RestIs
<1>3. <<>> \o <<>> = <<>> /\ <<>> \o Rest = Rest
  BY <1>2, ConcatEmptySeq
<1>4. FreedInOrder = Rest
  BY <1>3, FreedIsRest DEF HeldBy
<1> QED BY <1>1, <1>4 DEF Captured

\* Call by call the loops leave the pool the closed form names.
LEMMA LoopsMatch ==
  ASSUME DevTypeOK, Own, NEW v \in {0, 1}
  PROVE  LoopPool(v) = PoolAfterFrees(v)
<1>1. PICK P, R, k, q : /\ P = usb_buffer_available /\ R = rxBank
                        /\ k = usb_rx_memory_needed /\ q = Rest
  OBVIOUS
<1>2. PICK m : AfterBanks(v, P, R, k, m)
  BY DEF AfterBanks
<1>3. /\ R \in [Banks -> Packets \cup {None}] /\ k \in 0 .. 255
      /\ q \in Seq(Packets) /\ Distinct(q) /\ Elements(q) \cap P = {}
      /\ R["ODD"] # None => R["ODD"] \notin Elements(q) /\ R["ODD"] \notin P
  BY <1>1, RestIs DEF DevTypeOK
<1>4. LoopPool(v) = FreeAll(v, m, q).pool
  BY <1>1, <1>2 DEF LoopPool, Rest, RxPackets, PacketsOf, AfterBanks
<1>5. PoolAfterFrees(v) = (P \cup Elements(FreedInOrder)) \ Captured(v)
  BY <1>1 DEF PoolAfterFrees, Elements
<1>6. Elements(FreedInOrder) = InUse(R["EVEN"]) \cup InUse(R["ODD"]) \cup Elements(q)
  BY <1>1, FreedIsRest
<1>7. ASSUME NEW U, NEW S, NEW j, m = Memory(U, S, j), j \in 0 .. 255, Quiet(v, S, j)
      PROVE  LoopPool(v) = U \cup Elements(q)
  <2>1. q \in Seq(Packets)
    BY <1>3
  <2>2. EndsIn(v, Memory(U, S, j), q, U \cup Elements(q))
    BY <1>7, <2>1, QuietLoop
  <2> QED BY <1>4, <1>7, <2>2 DEF EndsIn
<1>8. ASSUME NEW S, NEW j, m = Memory(P \cup InUse(R["EVEN"]) \cup InUse(R["ODD"]), S, j),
             j \in 0 .. 255, Quiet(v, S, j), v = 0 \/ k = 0 \/ R["EVEN"] # None
      PROVE  LoopPool(v) = PoolAfterFrees(v)
  <2>1. LoopPool(v) = (P \cup InUse(R["EVEN"]) \cup InUse(R["ODD"])) \cup Elements(q)
    BY <1>7, <1>8
  <2>2. Captured(v) = {}
    BY <1>1, <1>8, NoneCaptured
  <2> QED BY <1>5, <1>6, <2>1, <2>2
<1>9. CASE v = 0 \/ k = 0
  <2>1. m = Memory(P \cup InUse(R["EVEN"]) \cup InUse(R["ODD"]), R, k)
    BY <1>2, <1>9, BanksUnasked
  <2> QED BY <1>3, <1>8, <1>9, <2>1 DEF Quiet
<1>10. CASE v = 1 /\ k # 0 /\ R["EVEN"] # None
  <2>1. AfterBanks(1, P, R, k, m) /\ k \in 1 .. 255
    BY <1>2, <1>3, <1>10
  <2>2. CASE R["ODD"] = None
    <3>1. PICK S : m = Memory(P \cup {R["EVEN"]}, S, 0)
      <4>1. Served(m, P \cup {R["EVEN"]})
        BY <1>3, <1>10, <2>1, <2>2, EvenArmed
      <4> QED BY <4>1 DEF Served
    <3>2. P \cup InUse(R["EVEN"]) \cup InUse(R["ODD"]) = P \cup {R["EVEN"]}
      BY <1>10, <2>2 DEF InUse
    <3> QED BY <1>8, <1>10, <3>1, <3>2 DEF Quiet
  <2>3. CASE R["ODD"] # None
    <3>1. m = Memory(P \cup {R["EVEN"], R["ODD"]}, R, 0)
      BY <1>10, <2>1, <2>3, BothArmed
    <3>2. P \cup InUse(R["EVEN"]) \cup InUse(R["ODD"]) = P \cup {R["EVEN"], R["ODD"]}
      BY <1>10, <2>3 DEF InUse
    <3> QED BY <1>8, <1>10, <3>1, <3>2 DEF Quiet
  <2> QED BY <2>2, <2>3
<1>11. CASE v = 1 /\ k # 0 /\ R["EVEN"] = None /\ R["ODD"] # None
  <2>1. AfterBanks(1, P, R, k, m) /\ k \in 1 .. 255 /\ k - 1 \in 0 .. 255
    BY <1>2, <1>3, <1>11
  <2>2. PICK S : m = Memory(P, S, k - 1) /\ S["EVEN"] # None /\ S["ODD"] # None
    BY <1>3, <1>11, <2>1, OddArmed
  <2>3. LoopPool(v) = P \cup Elements(q)
    BY <1>7, <2>1, <2>2 DEF Quiet
  <2>4. Captured(v) = {R["ODD"]}
    BY <1>1, <1>11, OddCaptured
  <2>5. Elements(FreedInOrder) = {R["ODD"]} \cup Elements(q)
    BY <1>6, <1>11 DEF InUse
  <2> QED BY <1>3, <1>5, <1>11, <2>3, <2>4, <2>5
<1>12. CASE v = 1 /\ k # 0 /\ R["EVEN"] = None /\ R["ODD"] = None
  <2>1. k \in 1 .. 255 /\ q \in Seq(Packets) /\ R \in [Banks -> Packets \cup {None}]
    BY <1>3, <1>12
  <2>2. m = Memory(P, R, k)
    <3>1. Memory(P, R, k).rx = R
      BY DEF Memory
    <3> QED BY <1>2, <1>12, <3>1 DEF FreeRxBank, AfterBanks
  <2>3. EndsIn(1, Memory(P, R, k), q, Unserved(P, q, k))
    BY <1>12, <2>1, StarvedLoop
  <2>4. /\ Captured(v) = {q[j] : j \in {i \in 1 .. Len(q) : i <= 2 /\ i <= k}}
        /\ Elements(FreedInOrder) = Elements(q)
    BY <1>1, <1>12, BothCaptured
  <2>5. \A i, j \in 1 .. Len(q) : q[i] = q[j] => i = j
    BY <1>3 DEF Distinct
  <2>6. \A j \in 1 .. Len(q) : q[j] \notin P
    BY <1>3 DEF Elements
  <2>7. Unserved(P, q, k) =
          (P \cup Elements(q)) \ {q[j] : j \in {i \in 1 .. Len(q) : i <= 2 /\ i <= k}}
    BY <2>5, <2>6 DEF Unserved, Elements
  <2> QED BY <1>4, <1>5, <1>12, <2>2, <2>3, <2>4, <2>7 DEF EndsIn
<1> QED BY <1>9, <1>10, <1>11, <1>12

\* SET_CONFIGURATION's loops of usb_free, made one after the other on the counter
\* and the banks as each call leaves them, free exactly what PoolAfterFrees says,
\* in whatever state the request finds the device.
THEOREM LoopsCorrect == Spec => []ClosedFormMatchesLoops
<1>1. Inv /\ Own => ClosedFormMatchesLoops
  <2> SUFFICES ASSUME Inv, Own PROVE ClosedFormMatchesLoops
    OBVIOUS
  <2>1. DevTypeOK
    BY DEF Inv, DevInv
  <2> QED BY <2>1, LoopsMatch DEF ClosedFormMatchesLoops
<1>2. Inv /\ Own /\ [Next]_vars => Own'
  BY OwnNext
<1> QED BY <1>1, <1>2, OwnInit, InvAlways, PTL DEF Spec
=============================================================================
