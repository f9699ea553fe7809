--------------------------- MODULE Serial1Proofs ---------------------------
(***************************************************************************)
(* The UART port keeps its types, its pin and flag fall too early only     *)
(* under a putchar, and it is the pair of pipes of SerialPipes, for every  *)
(* ring size, alphabet and set of programs: no byte is lost, repeated or   *)
(* reordered between a ring and the UART, wherever the interrupt falls in  *)
(* a call.                                                                 *)
(***************************************************************************)
EXTENDS MCSerial1, TLAPS, SequenceTheorems

\* putchar's local names the slot after the head until it has become the head.
HeadIsNext == pc \in {"space", "head"} => head = NextTx(tx_buffer_head)

\* While the end of the last byte is awaited the ring holds no other, except one
\* whose putchar has yet to enable the interrupt again.
CompletingIsEmpty ==
  c2 = "COMPLETING" => tx_buffer_head = tx_buffer_tail \/ pc = "enable"

\* The inductive invariant: FallOnlyWhenSent is about steps, and a step that
\* drops the flag sees that the UART is empty but not that the ring is.
IInv == TypeOK /\ HeadIsNext /\ CompletingIsEmpty

\* The rings have room for a byte: a slot's successor is another slot.
LEMMA NextIsSlot ==
  /\ \A s \in TxSlots : NextTx(s) \in TxSlots /\ NextTx(s) # s
  /\ \A s \in RxSlots : NextRx(s) \in RxSlots
  /\ 0 \in TxSlots /\ 0 \in RxSlots
BY SerialAssumption DEF TxSlots, RxSlots, NextTx, NextRx

\* A byte moved to a UART with room fits.
LEMMA TransmitTypes ==
  ASSUME TypeOK, TDRE, Transmit
  PROVE  /\ uart' \in Seq(Bytes) /\ Len(uart') <= 2
         /\ tx_buffer_tail' \in TxSlots
<1>1. tx_buffer_tail \in TxSlots /\ tx_buffer \in [TxSlots -> Bytes] /\ uart \in Seq(Bytes)
  BY DEF TypeOK
<1>2. NextTx(tx_buffer_tail) \in TxSlots
  BY <1>1, NextIsSlot
<1>3. tx_buffer[NextTx(tx_buffer_tail)] \in Bytes
  BY <1>1, <1>2
<1>4. Len(uart) < 2 /\ Len(uart) \in Nat
  BY <1>1 DEF TDRE
<1> QED
  BY <1>1, <1>2, <1>3, <1>4 DEF Transmit

\* The receive half of the interrupt keeps its types.
LEMMA ReceiveTypes ==
  ASSUME TypeOK, Receive
  PROVE  /\ rx_buffer' \in [RxSlots -> Bytes] /\ rx_buffer_head' \in RxSlots
         /\ rx_buffer_tail' \in RxSlots /\ got' \in Bytes
         /\ arrived' \in Seq(Bytes) /\ Len(arrived') <= 1
<1>1. CASE arrived = <<>>
  BY <1>1 DEF TypeOK, Receive, rxVars
<1>2. CASE arrived # <<>>
  <2>1. Head(arrived) \in Bytes
    BY <1>2 DEF TypeOK
  <2>2. NextRx(rx_buffer_head) \in RxSlots
    BY NextIsSlot DEF TypeOK
  <2>3. arrived' = <<>> /\ rx_buffer_tail' = rx_buffer_tail /\ got' = got
    BY <1>2 DEF Receive
  <2>4. arrived' \in Seq(Bytes) /\ Len(arrived') <= 1
    BY <2>3
  <2>5. rx_buffer' \in [RxSlots -> Bytes] /\ rx_buffer_head' \in RxSlots
    BY <1>2, <2>1, <2>2 DEF TypeOK, Receive
  <2> QED
    BY <2>3, <2>4, <2>5 DEF TypeOK
<1> QED
  BY <1>1, <1>2

LEMMA IInvInit == Init => IInv
<1> SUFFICES ASSUME Init PROVE IInv
  OBVIOUS
<1>1. TypeOK
  <2>1. PICK b \in Bytes : /\ tx_buffer = [s \in TxSlots |-> b] /\ rx_buffer = [s \in RxSlots |-> b]
                           /\ c = b /\ got = b
    BY DEF Init
  <2>2. tx_buffer \in [TxSlots -> Bytes] /\ rx_buffer \in [RxSlots -> Bytes] /\ c \in Bytes /\ got \in Bytes
    BY <2>1
  <2>3. uart \in Seq(Bytes) /\ Len(uart) <= 2 /\ arrived \in Seq(Bytes) /\ Len(arrived) <= 1
    BY DEF Init
  <2> QED
    BY <2>2, <2>3, NextIsSlot DEF Init, TypeOK
<1>2. HeadIsNext /\ CompletingIsEmpty
  BY DEF Init, HeadIsNext, CompletingIsEmpty
<1> QED
  BY <1>1, <1>2 DEF IInv

\* The steps of putchar.
LEMMA IInvPutchar ==
  ASSUME IInv, PutcharStep \/ \E b \in Bytes : Putchar(b)
  PROVE  IInv'
<1> USE DEF IInv, rxVars, mainVars
<1>1. ASSUME NEW b \in Bytes, Putchar(b)  PROVE IInv'
  <2>1. NextTx(tx_buffer_head) \in TxSlots
    BY NextIsSlot DEF TypeOK
  <2>2. TypeOK'
    BY <1>1, <2>1 DEF TypeOK, Putchar
  <2> QED
    BY <1>1, <2>2 DEF Putchar, HeadIsNext, CompletingIsEmpty, NextTx
<1>2. CASE PutcharDrain
  <2>1. TypeOK'
    BY <1>2, TransmitTypes DEF TypeOK, PutcharDrain
  <2>2. c2 # "COMPLETING"
    BY <1>2, NextIsSlot DEF PutcharDrain, HeadIsNext, CompletingIsEmpty, TypeOK
  <2> QED
    BY <1>2, <2>1, <2>2 DEF PutcharDrain, HeadIsNext, CompletingIsEmpty, NextTx
<1>3. CASE PutcharStore
  <2>1. TypeOK'
    BY <1>3 DEF TypeOK, PutcharStore
  <2> QED
    BY <1>3, <2>1 DEF PutcharStore, HeadIsNext, CompletingIsEmpty, NextTx
<1>4. CASE PutcharHead
  <2>1. TypeOK'
    BY <1>4 DEF TypeOK, PutcharHead
  <2> QED
    BY <1>4, <2>1 DEF PutcharHead, HeadIsNext, CompletingIsEmpty
<1>5. CASE PutcharEnable
  <2>1. TypeOK'
    BY <1>5 DEF TypeOK, PutcharEnable, Return
  <2> QED
    BY <1>5, <2>1 DEF PutcharEnable, Return, HeadIsNext, CompletingIsEmpty
<1> QED
  BY <1>1, <1>2, <1>3, <1>4, <1>5 DEF PutcharStep

\* The steps of the other calls, which leave the transmit side alone.
LEMMA IInvOtherCalls ==
  ASSUME IInv, Flush \/ FlushReturn \/ Getchar \/ GetcharAdvance \/ Clear \/ End
  PROVE  IInv'
<1> USE DEF IInv, txVars, rxVars, mainVars
<1>1. TypeOK'
  <2>1. NextRx(rx_buffer_tail) \in RxSlots
    BY NextIsSlot DEF TypeOK
  <2>2. CASE Flush
    BY <2>2 DEF TypeOK, Flush
  <2>3. CASE FlushReturn
    BY <2>3 DEF TypeOK, FlushReturn, Return
  <2>4. CASE Getchar
    BY <2>4, <2>1 DEF TypeOK, Getchar
  <2>5. CASE GetcharAdvance
    BY <2>5, <2>1 DEF TypeOK, GetcharAdvance, Return
  <2>6. CASE Clear
    BY <2>6 DEF TypeOK, Clear
  <2>7. CASE End
    BY <2>7 DEF TypeOK, End
  <2> QED
    BY <2>2, <2>3, <2>4, <2>5, <2>6, <2>7
<1>2. UNCHANGED <<c2, tx_buffer_head, tx_buffer_tail>> /\ pc \notin {"space", "head", "enable"}
  BY DEF Flush, FlushReturn, Getchar, GetcharAdvance, Clear, End
<1>3. pc' \notin {"space", "head"}
  BY <1>2 DEF Flush, FlushReturn, Getchar, GetcharAdvance, Clear, End, Return
<1> QED
  BY <1>1, <1>2, <1>3 DEF HeadIsNext, CompletingIsEmpty

\* Closing and opening, which put the rings and the transmit interrupt aside.
LEMMA IInvCloseOpen ==
  ASSUME IInv, EndClose \/ Begin
  PROVE  IInv'
<1>1. CASE EndClose
  <2>1. TypeOK'
    BY <1>1, NextIsSlot DEF IInv, TypeOK, EndClose, Return
  <2> QED
    BY <1>1, <2>1 DEF IInv, EndClose, Return, HeadIsNext, CompletingIsEmpty
<1>2. CASE Begin
  <2>1. TypeOK'
    BY <1>2, NextIsSlot DEF IInv, TypeOK, Begin
  <2> QED
    BY <1>2, <2>1 DEF IInv, Begin, HeadIsNext, CompletingIsEmpty
<1> QED
  BY <1>1, <1>2

\* The interrupt.
LEMMA IInvInterrupt ==
  ASSUME IInv, uart0_status_isr
  PROVE  IInv'
<1> USE DEF IInv, mainVars
<1>1. UNCHANGED mainVars /\ Receive
  BY DEF uart0_status_isr
<1>2. CASE Refill
  <2>1. TypeOK'
    <3>1. CASE tx_buffer_head = tx_buffer_tail
      BY <1>1, <1>2, <3>1, ReceiveTypes DEF TypeOK, Refill
    <3>2. CASE tx_buffer_head # tx_buffer_tail
      BY <1>1, <1>2, <3>2, ReceiveTypes, TransmitTypes DEF TypeOK, Refill
    <3> QED
      BY <3>1, <3>2
  <2> QED
    BY <1>1, <1>2, <2>1 DEF Refill, HeadIsNext, CompletingIsEmpty, NextTx
<1>3. CASE Complete
  <2>1. TypeOK'
    BY <1>1, <1>3, ReceiveTypes DEF TypeOK, Complete
  <2> QED
    BY <1>1, <1>3, <2>1 DEF Complete, HeadIsNext, CompletingIsEmpty, NextTx
<1>4. CASE UNCHANGED txVars
  <2>1. TypeOK'
    BY <1>1, <1>4, ReceiveTypes DEF TypeOK, txVars
  <2> QED
    BY <1>1, <1>4, <2>1 DEF txVars, HeadIsNext, CompletingIsEmpty, NextTx
<1> QED
  BY <1>2, <1>3, <1>4 DEF uart0_status_isr

\* Every step keeps the invariant.
LEMMA IInvNext == IInv /\ [Next]_vars => IInv'
<1> SUFFICES ASSUME IInv, [Next]_vars PROVE IInv'
  OBVIOUS
<1>1. CASE Main
  BY <1>1, IInvPutchar, IInvOtherCalls, IInvCloseOpen DEF Main
<1>2. CASE uart0_status_isr
  BY <1>2, IInvInterrupt
<1>3. CASE Send
  <2>1. uart' \in Seq(Bytes) /\ Len(uart') <= 2
    BY <1>3 DEF IInv, TypeOK, Send
  <2>2. TypeOK'
    BY <1>3, <2>1 DEF IInv, TypeOK, Send, mainVars, rxVars
  <2> QED
    BY <1>3, <2>2 DEF IInv, Send, mainVars, HeadIsNext, CompletingIsEmpty, NextTx
<1>4. ASSUME NEW b \in Bytes, Arrive(b)  PROVE IInv'
  <2>1. TypeOK'
    BY <1>4 DEF IInv, TypeOK, Arrive, mainVars, txVars
  <2> QED
    BY <1>4, <2>1 DEF IInv, Arrive, mainVars, txVars, HeadIsNext, CompletingIsEmpty, NextTx
<1>5. CASE UNCHANGED vars
  BY <1>5 DEF IInv, vars, mainVars, txVars, rxVars, TypeOK, HeadIsNext, CompletingIsEmpty, NextTx
<1> QED
  BY <1>1, <1>2, <1>3, <1>4, <1>5 DEF Next

\* Only the end of the last byte takes the pin or the flag down.
LEMMA FallStep ==
  ASSUME IInv, [Next]_vars,
         (transmit_pin /\ ~transmit_pin') \/ (transmitting /\ ~transmitting')
  PROVE  AllSent \/ ~open \/ pc \in {"space", "head", "enable"}
<1>1. Complete \/ ~open
  <2>1. CASE Main
    BY <2>1 DEF Main, PutcharStep, Putchar, PutcharDrain, PutcharStore, PutcharHead,
                PutcharEnable, Flush, FlushReturn, Getchar, GetcharAdvance, Clear, End,
                EndClose, Begin, txVars
  <2>2. CASE uart0_status_isr
    BY <2>2 DEF uart0_status_isr, Refill, txVars
  <2>3. CASE Send \/ (\E b \in Bytes : Arrive(b)) \/ UNCHANGED vars
    BY <2>3 DEF Send, Arrive, vars, txVars
  <2> QED
    BY <2>1, <2>2, <2>3 DEF Next
<1>2. Complete => uart = <<>> /\ c2 = "COMPLETING"
  BY DEF Complete, TC
<1> QED
  BY <1>1, <1>2 DEF IInv, CompletingIsEmpty, AllSent

\* The invariant holds always.
THEOREM IInvAlways == Spec => []IInv
<1> QED
  BY IInvInit, IInvNext, PTL DEF Spec

\* Every variable of the port keeps its type; the UART is never overfilled.
THEOREM TypeCorrect == Spec => []TypeOK
<1>1. IInv => TypeOK
  BY DEF IInv
<1> QED
  BY <1>1, IInvAlways, PTL

\* The driver-enable pin and the flag that flush waits for fall only when all is
\* sent, except under a putchar.
THEOREM FallsCorrect == Spec => FallOnlyWhenSent
<1>1. IInv /\ [Next]_vars
        => [(transmit_pin /\ ~transmit_pin') \/ (transmitting /\ ~transmitting')
            => AllSent \/ ~open \/ pc \in {"space", "head", "enable"}]_vars
  BY FallStep
<1> QED
  BY <1>1, IInvAlways, PTL DEF Spec, FallOnlyWhenSent

-----------------------------------------------------------------------------
(* Sequences *)

\* A byte taken from the head of one sequence to the end of another.
LEMMA MoveHead ==
  ASSUME NEW s \in Seq(Bytes), NEW t \in Seq(Bytes), t # <<>>
  PROVE  Append(s, Head(t)) \o Tail(t) = s \o t
<1>1. Head(t) \in Bytes /\ Tail(t) \in Seq(Bytes) /\ Len(Tail(t)) = Len(t) - 1
      /\ \A n \in 1 .. Len(Tail(t)) : Tail(t)[n] = t[n + 1]
  BY HeadTailProperties
<1>2. Append(s, Head(t)) \in Seq(Bytes) /\ Len(Append(s, Head(t))) = Len(s) + 1
  BY <1>1, AppendProperties
<1> DEFINE u == Append(s, Head(t)) \o Tail(t)
<1>3. u \in Seq(Bytes) /\ Len(u) = Len(s) + Len(t)
  BY <1>1, <1>2, ConcatProperties, LenProperties
<1>4. s \o t \in Seq(Bytes) /\ Len(s \o t) = Len(s) + Len(t)
  BY ConcatProperties
<1>5. ASSUME NEW n \in 1 .. Len(s) + Len(t)  PROVE u[n] = (s \o t)[n]
  <2>1. (s \o t)[n] = IF n <= Len(s) THEN s[n] ELSE t[n - Len(s)]
    BY <1>5, ConcatProperties
  <2>2. u[n] = IF n <= Len(s) + 1 THEN Append(s, Head(t))[n] ELSE Tail(t)[n - (Len(s) + 1)]
    <3>1. n \in 1 .. Len(Append(s, Head(t))) + Len(Tail(t))
      BY <1>1, <1>2, LenProperties
    <3> QED
      BY <1>1, <1>2, <3>1, ConcatProperties
  <2>3. Len(s) \in Nat /\ Len(t) \in Nat /\ Len(t) > 0
    BY LenProperties, EmptySeq
  <2>4. CASE n <= Len(s)
    BY <1>1, <2>1, <2>2, <2>3, <2>4, AppendProperties
  <2>5. CASE n = Len(s) + 1
    <3>1. Append(s, Head(t))[Len(s) + 1] = Head(t) /\ Head(t) = t[1]
      BY <1>1, AppendProperties
    <3> QED
      BY <2>1, <2>2, <2>3, <2>5, <3>1
  <2>6. CASE n > Len(s) + 1
    <3>1. n - (Len(s) + 1) \in 1 .. Len(Tail(t)) /\ n - (Len(s) + 1) + 1 = n - Len(s)
      BY <1>1, <1>5, <2>3, <2>6
    <3> QED
      BY <1>1, <2>1, <2>2, <2>3, <2>6, <3>1
  <2> QED
    BY <2>3, <2>4, <2>5, <2>6
<1> HIDE DEF u
<1>6. u = s \o t
  BY <1>3, <1>4, <1>5, SeqEqual
<1> QED
  BY <1>6 DEF u

\* A byte put at the end of the second of two sequences.
LEMMA AppendRight ==
  ASSUME NEW s \in Seq(Bytes), NEW t \in Seq(Bytes), NEW b \in Bytes
  PROVE  s \o Append(t, b) = Append(s \o t, b)
<1>1. <<b>> \in Seq(Bytes) /\ s \o t \in Seq(Bytes)
  BY ConcatProperties
<1>2. s \o Append(t, b) = s \o (t \o <<b>>)
  BY AppendIsConcat
<1>3. (s \o t) \o <<b>> = s \o (t \o <<b>>)
  BY <1>1, ConcatAssociative
<1>4. Append(s \o t, b) = (s \o t) \o <<b>>
  BY <1>1, AppendIsConcat
<1> QED
  BY <1>2, <1>3, <1>4

\* The first of two sequences loses its head.
LEMMA TailLeft ==
  ASSUME NEW s \in Seq(Bytes), NEW t \in Seq(Bytes), s # <<>>
  PROVE  /\ s \o t # <<>> /\ Head(s \o t) = Head(s)
         /\ Tail(s \o t) = Tail(s) \o t
<1>1. Len(s) \in Nat /\ Len(s) > 0 /\ Len(t) \in Nat
  BY LenProperties, EmptySeq
<1>2. s \o t \in Seq(Bytes) /\ Len(s \o t) = Len(s) + Len(t)
      /\ \A n \in 1 .. Len(s) + Len(t) : (s \o t)[n] = IF n <= Len(s) THEN s[n] ELSE t[n - Len(s)]
  BY ConcatProperties
<1>3. s \o t # <<>>
  BY <1>1, <1>2, EmptySeq
<1>4. Head(s \o t) = Head(s)
  BY <1>1, <1>2, <1>3
<1>5. Tail(s) \in Seq(Bytes) /\ Len(Tail(s)) = Len(s) - 1
      /\ \A n \in 1 .. Len(Tail(s)) : Tail(s)[n] = s[n + 1]
  BY HeadTailProperties
<1>6. Tail(s \o t) \in Seq(Bytes) /\ Len(Tail(s \o t)) = Len(s) + Len(t) - 1
      /\ \A n \in 1 .. Len(s) + Len(t) - 1 : Tail(s \o t)[n] = (s \o t)[n + 1]
  BY <1>2, <1>3, HeadTailProperties
<1>7. Tail(s) \o t \in Seq(Bytes) /\ Len(Tail(s) \o t) = Len(s) + Len(t) - 1
      /\ \A n \in 1 .. Len(s) + Len(t) - 1 :
           (Tail(s) \o t)[n] = IF n <= Len(s) - 1 THEN Tail(s)[n] ELSE t[n - (Len(s) - 1)]
  BY <1>1, <1>5, ConcatProperties
<1>8. ASSUME NEW n \in 1 .. Len(s) + Len(t) - 1  PROVE Tail(s \o t)[n] = (Tail(s) \o t)[n]
  <2>1. Tail(s \o t)[n] = IF n + 1 <= Len(s) THEN s[n + 1] ELSE t[n + 1 - Len(s)]
    BY <1>1, <1>2, <1>6
  <2>2. n - (Len(s) - 1) = n + 1 - Len(s) /\ (n + 1 <= Len(s) <=> n <= Len(s) - 1)
    BY <1>1
  <2>3. (Tail(s) \o t)[n] = IF n <= Len(s) - 1 THEN Tail(s)[n] ELSE t[n + 1 - Len(s)]
    BY <1>7, <2>2
  <2> QED
    BY <1>1, <1>5, <2>1, <2>2, <2>3
<1>9. Tail(s \o t) = Tail(s) \o t
  BY <1>6, <1>7, <1>8, SeqEqual
<1> QED
  BY <1>3, <1>4, <1>9

\* Each of two sequences is the part of their concatenation that the other leaves.
LEMMA Parts ==
  ASSUME NEW s \in Seq(Bytes), NEW t \in Seq(Bytes)
  PROVE  /\ Len(s \o t) = Len(s) + Len(t) /\ Len(s) \in Nat /\ Len(t) \in Nat
         /\ SubSeq(s \o t, 1, Len(s)) = s
         /\ SubSeq(s \o t, Len(s) + 1, Len(s \o t)) = t
<1>1. Len(s) \in Nat /\ Len(t) \in Nat
  BY LenProperties
<1>2. Len(s \o t) = Len(s) + Len(t)
      /\ s \o t \in Seq(Bytes)
      /\ \A n \in 1 .. Len(s) + Len(t) : (s \o t)[n] = IF n <= Len(s) THEN s[n] ELSE t[n - Len(s)]
  BY ConcatProperties
<1>3. \A n \in 1 .. Len(s) + Len(t) : (s \o t)[n] \in Bytes
  BY <1>2, ElementOfSeq
<1> DEFINE a == SubSeq(s \o t, 1, Len(s))
           z == SubSeq(s \o t, Len(s) + 1, Len(s \o t))
<1>4. a = s
  <2>1. \A n \in 1 .. Len(s) : (s \o t)[n] \in Bytes
    BY <1>1, <1>3
  <2>2. a \in Seq(Bytes) /\ Len(a) = (IF 1 <= Len(s) THEN Len(s) - 1 + 1 ELSE 0)
        /\ \A n \in 1 .. Len(s) - 1 + 1 : a[n] = (s \o t)[1 + n - 1]
    BY <1>1, <2>1, SubSeqProperties
  <2> HIDE DEF a
  <2>3. Len(a) = Len(s) /\ \A n \in 1 .. Len(a) : a[n] = s[n]
    BY <1>1, <1>2, <2>2
  <2> QED
    BY <2>2, <2>3, SeqEqual
<1>5. z = t
  <2>1. \A n \in Len(s) + 1 .. Len(s) + Len(t) : (s \o t)[n] \in Bytes
    BY <1>1, <1>3
  <2>2. z = SubSeq(s \o t, Len(s) + 1, Len(s) + Len(t))
    BY <1>2
  <2> HIDE DEF z
  <2>3. /\ z \in Seq(Bytes)
        /\ Len(z) = (IF Len(s) + 1 <= Len(s) + Len(t) THEN Len(s) + Len(t) - (Len(s) + 1) + 1 ELSE 0)
        /\ \A n \in 1 .. Len(s) + Len(t) - (Len(s) + 1) + 1 : z[n] = (s \o t)[Len(s) + 1 + n - 1]
    BY <1>1, <2>1, <2>2, SubSeqProperties
  <2>4. Len(z) = Len(t)
    BY <1>1, <2>3
  <2>5. ASSUME NEW n \in 1 .. Len(z)  PROVE z[n] = t[n]
    <3> n \in Int /\ 1 <= n /\ n <= Len(t)
      BY <1>1, <2>4
    <3>1. n \in 1 .. Len(s) + Len(t) - (Len(s) + 1) + 1 /\ Len(s) + 1 + n - 1 = Len(s) + n
      BY <1>1
    <3>3. z[n] = (s \o t)[Len(s) + n]
      BY <2>3, <3>1
    <3>2. Len(s) + n \in 1 .. Len(s) + Len(t) /\ ~(Len(s) + n <= Len(s)) /\ Len(s) + n - Len(s) = n
      BY <1>1, <2>4
    <3> QED
      BY <1>2, <3>3, <3>2
  <2> QED
    BY <2>3, <2>4, <2>5, SeqEqual
<1> QED
  BY <1>1, <1>2, <1>4, <1>5

-----------------------------------------------------------------------------
(* Rings *)

Slots(size)   == 0 .. size - 1
After(s, size) == IF s + 1 >= size THEN 0 ELSE s + 1

\* A ring holds bytes, fewer than it has slots.
LEMMA RingTypes ==
  ASSUME NEW size \in Nat, NEW B \in [Slots(size) -> Bytes],
         NEW from \in Slots(size), NEW to \in Slots(size)
  PROVE  /\ Used(from, to, size) \in 0 .. size - 1
         /\ \A n \in 1 .. Used(from, to, size) : Slot(from, n, size) \in Slots(size)
         /\ Ring(B, from, to, size) \in Seq(Bytes)
         /\ Len(Ring(B, from, to, size)) = Used(from, to, size)
         /\ \A n \in 1 .. Used(from, to, size) :
              Ring(B, from, to, size)[n] = B[Slot(from, n, size)]
<1>1. Used(from, to, size) \in 0 .. size - 1
  BY DEF Used, Slots
<1>2. \A n \in 1 .. Used(from, to, size) : Slot(from, n, size) \in Slots(size)
  BY <1>1 DEF Used, Slot, Slots
<1>3. Ring(B, from, to, size) \in [1 .. Used(from, to, size) -> Bytes]
  BY <1>2 DEF Ring
<1>4. Used(from, to, size) \in Nat
  BY <1>1
<1>5. Ring(B, from, to, size) \in Seq(Bytes)
  BY <1>3, <1>4, SeqDef
<1>6. Len(Ring(B, from, to, size)) = Used(from, to, size)
  BY <1>3, <1>4, <1>5, LenProperties
<1> QED
  BY <1>1, <1>2, <1>5, <1>6 DEF Ring

\* A ring is empty when its ends meet, and has no room when one more would make them.
LEMMA RingEnds ==
  ASSUME NEW size \in Nat, NEW B \in [Slots(size) -> Bytes],
         NEW from \in Slots(size), NEW to \in Slots(size)
  PROVE  /\ Ring(B, from, to, size) = <<>> <=> from = to
         /\ After(to, size) = from <=> Used(from, to, size) = size - 1
<1>1. Used(from, to, size) = 0 <=> from = to
  BY DEF Used, Slots
<1>2. Len(<<>>) = 0
  BY EmptySeq
<1>3. Len(Ring(B, from, to, size)) = 0 <=> Ring(B, from, to, size) = <<>>
  BY <1>2, RingTypes, EmptySeq
<1>4. After(to, size) = from <=> Used(from, to, size) = size - 1
  BY DEF After, Used, Slots
<1> QED
  BY <1>1, <1>3, <1>4, RingTypes

\* What is written outside the ring is not in it.
LEMMA RingSame ==
  ASSUME NEW size \in Nat, NEW B \in [Slots(size) -> Bytes],
         NEW from \in Slots(size), NEW to \in Slots(size), NEW b \in Bytes
  PROVE  Ring([B EXCEPT ![After(to, size)] = b], from, to, size) = Ring(B, from, to, size)
<1> DEFINE D == [B EXCEPT ![After(to, size)] = b]
<1>1. D \in [Slots(size) -> Bytes]
  OBVIOUS
<1>2. ASSUME NEW n \in 1 .. Used(from, to, size)
      PROVE  D[Slot(from, n, size)] = B[Slot(from, n, size)]
  <2>1. Slot(from, n, size) \in Slots(size)
    BY RingTypes
  <2>2. Slot(from, n, size) # After(to, size)
    BY DEF Slot, After, Used, Slots
  <2> QED
    BY <2>1, <2>2
<1> QED
  BY <1>2 DEF Ring

\* The end moves on over a slot: its byte joins the ring.
LEMMA RingAppend ==
  ASSUME NEW size \in Nat, NEW B \in [Slots(size) -> Bytes],
         NEW from \in Slots(size), NEW to \in Slots(size), After(to, size) # from
  PROVE  Ring(B, from, After(to, size), size) = Append(Ring(B, from, to, size), B[After(to, size)])
<1> DEFINE new == After(to, size)
           R   == Ring(B, from, to, size)
           Q   == Ring(B, from, new, size)
<1>1. new \in Slots(size) /\ B[new] \in Bytes
  BY DEF After, Slots
<1>2. Used(from, new, size) = Used(from, to, size) + 1 /\ Used(from, to, size) \in Nat
      /\ Slot(from, Used(from, to, size) + 1, size) = new
  BY DEF After, Used, Slot, Slots
<1>3. R \in Seq(Bytes) /\ Len(R) = Used(from, to, size)
      /\ \A n \in 1 .. Used(from, to, size) : R[n] = B[Slot(from, n, size)]
  BY RingTypes
<1> HIDE DEF new
<1>4. Q \in Seq(Bytes) /\ Len(Q) = Used(from, new, size)
      /\ \A n \in 1 .. Used(from, new, size) : Q[n] = B[Slot(from, n, size)]
  BY <1>1, RingTypes
<1> HIDE DEF R, Q
<1>5. Append(R, B[new]) \in Seq(Bytes) /\ Len(Append(R, B[new])) = Len(R) + 1
      /\ \A n \in 1 .. Len(R) : Append(R, B[new])[n] = R[n]
      /\ Append(R, B[new])[Len(R) + 1] = B[new]
  BY <1>1, <1>3, AppendProperties
<1>6. \A n \in 1 .. Len(Q) : Q[n] = Append(R, B[new])[n]
  BY <1>2, <1>3, <1>4, <1>5
<1>7. Q = Append(R, B[new])
  BY <1>2, <1>3, <1>4, <1>5, <1>6, SeqEqual
<1> QED
  BY <1>7 DEF Q, R, new

\* The start moves on over a slot: its byte leaves the ring.
LEMMA RingTail ==
  ASSUME NEW size \in Nat, NEW B \in [Slots(size) -> Bytes],
         NEW from \in Slots(size), NEW to \in Slots(size), from # to
  PROVE  /\ Ring(B, from, to, size) # <<>>
         /\ Head(Ring(B, from, to, size)) = B[After(from, size)]
         /\ Tail(Ring(B, from, to, size)) = Ring(B, After(from, size), to, size)
<1> DEFINE new == After(from, size)
           R   == Ring(B, from, to, size)
           Q   == Ring(B, new, to, size)
<1>1. new \in Slots(size)
  BY DEF After, Slots
<1>2. Used(from, to, size) = Used(new, to, size) + 1 /\ Used(new, to, size) \in Nat
      /\ Slot(from, 1, size) = new
      /\ \A n \in 1 .. Used(new, to, size) : Slot(new, n, size) = Slot(from, n + 1, size)
  BY DEF After, Used, Slot, Slots
<1>3. R \in Seq(Bytes) /\ Len(R) = Used(from, to, size)
      /\ \A n \in 1 .. Used(from, to, size) : R[n] = B[Slot(from, n, size)]
  BY RingTypes
<1>4. R # <<>>
  BY RingEnds
<1> HIDE DEF new
<1>5. Q \in Seq(Bytes) /\ Len(Q) = Used(new, to, size)
      /\ \A n \in 1 .. Used(new, to, size) : Q[n] = B[Slot(new, n, size)]
  BY <1>1, RingTypes
<1> HIDE DEF R, Q
<1>6. Head(R) = B[new]
  BY <1>2, <1>3, <1>4
<1>7. Tail(R) \in Seq(Bytes) /\ Len(Tail(R)) = Len(R) - 1
      /\ \A n \in 1 .. Len(Tail(R)) : Tail(R)[n] = R[n + 1]
  BY <1>3, <1>4, HeadTailProperties
<1>8. Tail(R) = Q
  <2>1. Len(Tail(R)) = Len(Q)
    BY <1>2, <1>3, <1>5, <1>7
  <2>2. ASSUME NEW n \in 1 .. Len(Q) PROVE Tail(R)[n] = Q[n]
    <3>1. n \in 1 .. Used(new, to, size) /\ n \in 1 .. Len(Tail(R))
      BY <1>5, <2>1, Zenon
    <3>2. n + 1 \in 1 .. Used(from, to, size)
      BY <1>2, <3>1
    <3>3. Tail(R)[n] = B[Slot(from, n + 1, size)]
      BY <1>3, <1>7, <3>1, <3>2, Zenon
    <3> QED BY <1>2, <1>5, <3>1, <3>3, Zenon
  <2> QED
    BY <1>5, <1>7, <2>1, <2>2, SeqEqual
<1> QED
  BY <1>4, <1>6, <1>8 DEF Q, R, new

-----------------------------------------------------------------------------
(* What a call holds between two of its steps *)

\* A byte stored and not yet counted waits in its slot, and getchar gives up the
\* slot of the byte it took.
Held ==
  /\ pc = "head" => tx_buffer[head] = c /\ tx_buffer_tail # head
  /\ pc = "advance" => /\ rx_buffer_head # rx_buffer_tail
                       /\ got = rx_buffer[NextRx(rx_buffer_tail)]

\* The types the proofs use most.
LEMMA Types ==
  ASSUME IInv
  PROVE  /\ SERIAL1_TX_BUFFER_SIZE \in Nat /\ SERIAL1_RX_BUFFER_SIZE \in Nat
         /\ TxSlots = Slots(SERIAL1_TX_BUFFER_SIZE) /\ RxSlots = Slots(SERIAL1_RX_BUFFER_SIZE)
         /\ \A s \in TxSlots : NextTx(s) = After(s, SERIAL1_TX_BUFFER_SIZE) /\ NextTx(s) \in TxSlots
         /\ \A s \in RxSlots : NextRx(s) = After(s, SERIAL1_RX_BUFFER_SIZE) /\ NextRx(s) \in RxSlots
         /\ tx_buffer \in [TxSlots -> Bytes] /\ tx_buffer_head \in TxSlots /\ tx_buffer_tail \in TxSlots
         /\ rx_buffer \in [RxSlots -> Bytes] /\ rx_buffer_head \in RxSlots /\ rx_buffer_tail \in RxSlots
         /\ uart \in Seq(Bytes) /\ Len(uart) <= 2 /\ arrived \in Seq(Bytes) /\ Len(arrived) <= 1
         /\ c \in Bytes /\ got \in Bytes
         /\ TxRing \in Seq(Bytes) /\ RxRing \in Seq(Bytes)
<1>1. TxSlots = Slots(SERIAL1_TX_BUFFER_SIZE) /\ RxSlots = Slots(SERIAL1_RX_BUFFER_SIZE)
  BY DEF TxSlots, RxSlots, Slots
<1>2. \A s \in TxSlots : NextTx(s) = After(s, SERIAL1_TX_BUFFER_SIZE) /\ NextTx(s) \in TxSlots
  BY NextIsSlot DEF NextTx, After
<1>3. \A s \in RxSlots : NextRx(s) = After(s, SERIAL1_RX_BUFFER_SIZE) /\ NextRx(s) \in RxSlots
  BY NextIsSlot DEF NextRx, After
<1>4. SERIAL1_TX_BUFFER_SIZE \in Nat /\ SERIAL1_RX_BUFFER_SIZE \in Nat
  BY SerialAssumption
<1>5. TypeOK
  BY DEF IInv
<1>6. TxRing \in Seq(Bytes) /\ RxRing \in Seq(Bytes)
  BY <1>1, <1>4, <1>5, RingTypes DEF TypeOK, TxRing, RxRing
<1> QED
  BY <1>1, <1>2, <1>3, <1>4, <1>5, <1>6 DEF TypeOK

\* Successors of different slots differ.
LEMMA AfterInjective ==
  ASSUME NEW size \in Nat, NEW s \in Slots(size), NEW t \in Slots(size), s # t
  PROVE  After(s, size) # After(t, size)
BY DEF After, Slots

\* The interrupt takes neither the stored byte nor the one that was read.
LEMMA HeldInterrupt ==
  ASSUME IInv, Held, uart0_status_isr
  PROVE  Held'
<1>1. UNCHANGED <<pc, head, c>>
  BY DEF uart0_status_isr, mainVars
<1>2. ASSUME pc = "head"  PROVE tx_buffer'[head] = c /\ tx_buffer_tail' # head
  <2>1. tx_buffer' = tx_buffer /\ head = NextTx(tx_buffer_head)
    BY <1>2 DEF uart0_status_isr, Refill, Complete, txVars, IInv, HeadIsNext
  <2>2. \/ tx_buffer_tail' = tx_buffer_tail
        \/ tx_buffer_tail # tx_buffer_head /\ tx_buffer_tail' = NextTx(tx_buffer_tail)
    <3>1. CASE Refill
      BY <3>1 DEF Refill, Transmit
    <3>2. CASE Complete \/ UNCHANGED txVars
      BY <3>2 DEF Complete, txVars
    <3> QED
      BY <3>1, <3>2 DEF uart0_status_isr
  <2>3. tx_buffer_tail # tx_buffer_head => NextTx(tx_buffer_tail) # NextTx(tx_buffer_head)
    BY Types, AfterInjective
  <2>4. tx_buffer[head] = c /\ tx_buffer_tail # head
    BY <1>2 DEF Held
  <2> QED
    BY <2>1, <2>2, <2>3, <2>4
<1>3. ASSUME pc = "advance"
      PROVE  rx_buffer_head' # rx_buffer_tail' /\ got' = rx_buffer'[NextRx(rx_buffer_tail')]
  <2>1. got' = got /\ rx_buffer_tail' = rx_buffer_tail
    BY DEF uart0_status_isr, Receive, rxVars
  <2>2. \/ rx_buffer' = rx_buffer /\ rx_buffer_head' = rx_buffer_head
        \/ /\ NextRx(rx_buffer_head) # rx_buffer_tail
           /\ rx_buffer_head' = NextRx(rx_buffer_head)
           /\ rx_buffer' = [rx_buffer EXCEPT ![NextRx(rx_buffer_head)] = Head(arrived)]
    BY DEF uart0_status_isr, Receive, rxVars
  <2>3. NextRx(rx_buffer_head) # NextRx(rx_buffer_tail)
    BY <1>3, Types, AfterInjective DEF Held
  <2> QED
    BY <1>3, <2>1, <2>2, <2>3, Types DEF Held
<1> QED
  BY <1>1, <1>2, <1>3 DEF Held

LEMMA HeldNext == IInv /\ Held /\ [Next]_vars => Held'
<1> SUFFICES ASSUME IInv, Held, [Next]_vars PROVE Held'
  OBVIOUS
<1>1. CASE PutcharStore
  <2>1. pc' = "head" /\ tx_buffer'[head] = c /\ tx_buffer_tail' # head /\ UNCHANGED <<head, c>>
    BY <1>1 DEF PutcharStore, IInv, TypeOK
  <2> QED
    BY <2>1 DEF Held
<1>2. CASE Getchar
  BY <1>2 DEF Getchar, Held
<1>3. CASE uart0_status_isr
  BY <1>3, HeldInterrupt
<1>4. CASE \/ \E b \in Bytes : Putchar(b)
           \/ PutcharDrain \/ PutcharHead \/ PutcharEnable \/ Flush \/ FlushReturn
           \/ GetcharAdvance \/ Clear \/ End \/ EndClose \/ Begin
  <2>1. pc' \notin {"head", "advance"}
    BY <1>4 DEF Putchar, PutcharDrain, PutcharHead, PutcharEnable, Flush, FlushReturn,
                GetcharAdvance, Clear, End, EndClose, Begin, Return, mainVars
  <2> QED
    BY <2>1 DEF Held
<1>5. CASE Send \/ (\E b \in Bytes : Arrive(b)) \/ UNCHANGED vars
  BY <1>5 DEF Send, Arrive, vars, mainVars, txVars, rxVars, Held, NextRx
<1> QED
  BY <1>1, <1>2, <1>3, <1>4, <1>5 DEF Next, Main, PutcharStep

LEMMA HeldAlways == Spec => []Held
<1>1. Init => Held
  BY DEF Init, Held
<1> QED
  BY <1>1, HeldNext, IInvAlways, PTL DEF Spec

-----------------------------------------------------------------------------
(* The refinement *)

ToLine   == uart \o TxRing
FromLine == RxRing \o arrived

\* A byte on its way from the ring to the UART keeps its turn.
LEMMA TransmitRefines ==
  ASSUME IInv, tx_buffer_tail # tx_buffer_head, Transmit, UNCHANGED <<tx_buffer, tx_buffer_head>>
  PROVE  ToLine' = ToLine
<1>1. TxRing' = Ring(tx_buffer, NextTx(tx_buffer_tail), tx_buffer_head, SERIAL1_TX_BUFFER_SIZE)
  BY DEF TxRing, Transmit
<1>2. TxRing # <<>> /\ Head(TxRing) = tx_buffer[NextTx(tx_buffer_tail)] /\ Tail(TxRing) = TxRing'
  <2>1. /\ SERIAL1_TX_BUFFER_SIZE \in Nat
        /\ tx_buffer \in [Slots(SERIAL1_TX_BUFFER_SIZE) -> Bytes]
        /\ tx_buffer_tail \in Slots(SERIAL1_TX_BUFFER_SIZE)
        /\ tx_buffer_head \in Slots(SERIAL1_TX_BUFFER_SIZE)
        /\ NextTx(tx_buffer_tail) = After(tx_buffer_tail, SERIAL1_TX_BUFFER_SIZE)
    BY Types
  <2> QED BY <1>1, <2>1, RingTail, Zenon DEF TxRing
<1>3. uart' = Append(uart, Head(TxRing))
  BY <1>2 DEF Transmit
<1>4. Append(uart, Head(TxRing)) \o Tail(TxRing) = uart \o TxRing
  BY <1>2, Types, MoveHead
<1> QED
  BY <1>2, <1>3, <1>4 DEF ToLine

\* The transmit half of the interrupt moves a byte, or none.
LEMMA InterruptTransmits ==
  ASSUME IInv, uart0_status_isr
  PROVE  ToLine' = ToLine
<1>1. CASE Refill
  <2>1. CASE tx_buffer_head = tx_buffer_tail
    BY <1>1, <2>1 DEF Refill, ToLine, TxRing
  <2>2. CASE tx_buffer_head # tx_buffer_tail
    BY <1>1, <2>2, TransmitRefines DEF Refill
  <2> QED
    BY <2>1, <2>2
<1>2. CASE Complete \/ UNCHANGED txVars
  BY <1>2 DEF Complete, txVars, ToLine, TxRing
<1> QED
  BY <1>1, <1>2 DEF uart0_status_isr

\* The receive half moves the byte that arrived to the ring, or drops it when the
\* ring is full.
LEMMA InterruptReceives ==
  ASSUME IInv, Receive
  PROVE  /\ got' = got
         /\ \/ FromLine' = FromLine
            \/ /\ Len(FromLine) = SERIAL1_RX_BUFFER_SIZE
               /\ FromLine' = SubSeq(FromLine, 1, SERIAL1_RX_BUFFER_SIZE - 1)
<1> DEFINE new == NextRx(rx_buffer_head)
<1>1. CASE arrived = <<>>
  BY <1>1 DEF Receive, rxVars, FromLine, RxRing
<1>2. CASE arrived # <<>>
  <2>1. arrived' = <<>> /\ rx_buffer_tail' = rx_buffer_tail /\ got' = got
    BY <1>2 DEF Receive
  <2>2. Len(arrived) = 1 /\ Head(arrived) \in Bytes /\ arrived = <<Head(arrived)>>
    <3>1. arrived \in Seq(Bytes) /\ Len(arrived) <= 1
      BY Types
    <3>2. Len(arrived) = 1
      <4>1. Len(arrived) \in Nat \ {0}
        BY <1>2, <3>1, EmptySeq
      <4> QED
        BY <3>1, <4>1
    <3>3. arrived[1] = Head(arrived) /\ Head(arrived) \in Bytes
      BY <1>2, <3>1, HeadTailProperties
    <3>4. <<Head(arrived)>> \in Seq(Bytes) /\ Len(<<Head(arrived)>>) = 1
          /\ <<Head(arrived)>>[1] = Head(arrived)
      BY <3>3
    <3>5. \A n \in 1 .. Len(arrived) : arrived[n] = <<Head(arrived)>>[n]
      BY <3>2, <3>3, <3>4
    <3>6. arrived = <<Head(arrived)>>
      BY <3>1, <3>2, <3>4, <3>5, SeqEqual
    <3> QED
      BY <3>2, <3>3, <3>6
  <2>3. CASE new = rx_buffer_tail
    <3>1. UNCHANGED <<rx_buffer, rx_buffer_head>>
      BY <1>2, <2>3 DEF Receive
    <3>2. FromLine' = RxRing
      <4>1. RxRing' = RxRing
        BY <2>1, <3>1 DEF RxRing
      <4> QED
        BY <2>1, <4>1, Types, ConcatEmptySeq DEF FromLine
    <3>3. Len(RxRing) = SERIAL1_RX_BUFFER_SIZE - 1
      <4>1. After(rx_buffer_head, SERIAL1_RX_BUFFER_SIZE) = rx_buffer_tail
        BY <2>3, Types
      <4>2. Used(rx_buffer_tail, rx_buffer_head, SERIAL1_RX_BUFFER_SIZE) = SERIAL1_RX_BUFFER_SIZE - 1
        <5>1. /\ SERIAL1_RX_BUFFER_SIZE \in Nat
              /\ rx_buffer \in [Slots(SERIAL1_RX_BUFFER_SIZE) -> Bytes]
              /\ rx_buffer_tail \in Slots(SERIAL1_RX_BUFFER_SIZE)
              /\ rx_buffer_head \in Slots(SERIAL1_RX_BUFFER_SIZE)
          BY Types
        <5> QED BY <4>1, <5>1, RingEnds, Zenon
      <4>3. Len(RxRing) = Used(rx_buffer_tail, rx_buffer_head, SERIAL1_RX_BUFFER_SIZE)
        BY Types, RingTypes DEF RxRing
      <4> QED
        BY <4>2, <4>3
    <3>4. Len(FromLine) = Len(RxRing) + 1 /\ SubSeq(FromLine, 1, Len(RxRing)) = RxRing
      BY <2>2, Types, Parts DEF FromLine
    <3>5. Len(FromLine) = SERIAL1_RX_BUFFER_SIZE
      BY <3>3, <3>4, Types
    <3> QED
      BY <2>1, <3>2, <3>3, <3>4, <3>5
  <2>4. CASE new # rx_buffer_tail
    <3>1. rx_buffer' = [rx_buffer EXCEPT ![new] = Head(arrived)] /\ rx_buffer_head' = new
      BY <1>2, <2>4 DEF Receive
    <3>2. new \in RxSlots /\ rx_buffer' \in [RxSlots -> Bytes] /\ rx_buffer'[new] = Head(arrived)
          /\ new = After(rx_buffer_head, SERIAL1_RX_BUFFER_SIZE)
      BY <2>2, <3>1, Types
    <3> HIDE DEF new
    <3>3. Ring(rx_buffer', rx_buffer_tail, rx_buffer_head, SERIAL1_RX_BUFFER_SIZE) = RxRing
      <4>1. rx_buffer' = [rx_buffer EXCEPT ![After(rx_buffer_head, SERIAL1_RX_BUFFER_SIZE)] = Head(arrived)]
        BY <3>1, <3>2
      <4>2. /\ rx_buffer \in [Slots(SERIAL1_RX_BUFFER_SIZE) -> Bytes]
            /\ rx_buffer_tail \in Slots(SERIAL1_RX_BUFFER_SIZE)
            /\ rx_buffer_head \in Slots(SERIAL1_RX_BUFFER_SIZE)
            /\ SERIAL1_RX_BUFFER_SIZE \in Nat
        BY Types
      <4> QED
        BY <2>2, <4>1, <4>2, RingSame DEF RxRing
    <3>4. Ring(rx_buffer', rx_buffer_tail, new, SERIAL1_RX_BUFFER_SIZE)
            = Append(Ring(rx_buffer', rx_buffer_tail, rx_buffer_head, SERIAL1_RX_BUFFER_SIZE),
                     Head(arrived))
      <4>1. /\ SERIAL1_RX_BUFFER_SIZE \in Nat
            /\ rx_buffer_tail \in Slots(SERIAL1_RX_BUFFER_SIZE)
            /\ rx_buffer_head \in Slots(SERIAL1_RX_BUFFER_SIZE)
        BY Types
      <4>2. After(rx_buffer_head, SERIAL1_RX_BUFFER_SIZE) # rx_buffer_tail
            /\ rx_buffer' \in [Slots(SERIAL1_RX_BUFFER_SIZE) -> Bytes]
        BY <2>4, <3>2, Types
      <4>3. Ring(rx_buffer', rx_buffer_tail, After(rx_buffer_head, SERIAL1_RX_BUFFER_SIZE),
                 SERIAL1_RX_BUFFER_SIZE)
              = Append(Ring(rx_buffer', rx_buffer_tail, rx_buffer_head, SERIAL1_RX_BUFFER_SIZE),
                       rx_buffer'[After(rx_buffer_head, SERIAL1_RX_BUFFER_SIZE)])
        BY <4>1, <4>2, RingAppend, Zenon
      <4> QED BY <3>2, <4>3, Zenon
    <3>5. RxRing' = Append(RxRing, Head(arrived))
      BY <2>1, <3>1, <3>3, <3>4 DEF RxRing
    <3>6. FromLine' = Append(RxRing, Head(arrived))
      BY <2>1, <2>2, <3>5, Types, AppendProperties, ConcatEmptySeq DEF FromLine
    <3>7. Append(RxRing, Head(arrived)) = RxRing \o <<Head(arrived)>>
      BY <2>2, Types, AppendIsConcat
    <3> QED
      BY <2>1, <2>2, <3>6, <3>7 DEF FromLine
  <2> QED
    BY <2>3, <2>4
<1> QED
  BY <1>1, <1>2

\* The steps of putchar: the byte is given when the call begins and put when the
\* head moves over its slot.
LEMMA PutcharRefines ==
  ASSUME IInv, Held, PutcharStep \/ \E b \in Bytes : Putchar(b)
  PROVE  Pipes!PipesNext \/ UNCHANGED Pipes!pipes
<1>1. UNCHANGED <<rxVars>> /\ FromLine' = FromLine /\ got' = got
  BY DEF PutcharStep, Putchar, PutcharDrain, PutcharStore, PutcharHead, PutcharEnable,
         rxVars, FromLine, RxRing
<1>2. ASSUME NEW b \in Bytes, Putchar(b)  PROVE Pipes!Give(b)
  BY <1>1, <1>2 DEF Putchar, Pipes!Give, ToLine, FromLine, TxRing
<1>3. CASE PutcharDrain
  <2>1. head = NextTx(tx_buffer_head) /\ tx_buffer_tail = head
    BY <1>3 DEF PutcharDrain, IInv, HeadIsNext
  <2>2. tx_buffer_tail # tx_buffer_head
    BY <2>1, Types, NextIsSlot
  <2>3. ToLine' = ToLine
    BY <1>3, <2>2, TransmitRefines DEF PutcharDrain
  <2>4. c' = c
    BY <1>3 DEF PutcharDrain, mainVars
  <2> QED
    BY <1>1, <2>3, <2>4 DEF Pipes!pipes, ToLine, FromLine
<1>4. CASE PutcharStore
  <2>1. head = After(tx_buffer_head, SERIAL1_TX_BUFFER_SIZE)
    BY <1>4, Types DEF PutcharStore, IInv, HeadIsNext
  <2>2. tx_buffer' = [tx_buffer EXCEPT ![head] = c]
        /\ UNCHANGED <<tx_buffer_head, tx_buffer_tail, uart, c>>
    BY <1>4 DEF PutcharStore
  <2>3. /\ tx_buffer \in [Slots(SERIAL1_TX_BUFFER_SIZE) -> Bytes]
        /\ tx_buffer_tail \in Slots(SERIAL1_TX_BUFFER_SIZE)
        /\ tx_buffer_head \in Slots(SERIAL1_TX_BUFFER_SIZE)
        /\ SERIAL1_TX_BUFFER_SIZE \in Nat /\ c \in Bytes
    BY Types
  <2>4. TxRing' = TxRing
    BY <2>1, <2>2, <2>3, RingSame DEF TxRing
  <2> QED
    BY <1>1, <2>2, <2>4 DEF Pipes!pipes, FromLine
<1>5. CASE PutcharHead
  <2>1. head = After(tx_buffer_head, SERIAL1_TX_BUFFER_SIZE)
    BY <1>5, Types DEF PutcharHead, IInv, HeadIsNext
  <2>2. tx_buffer[head] = c /\ tx_buffer_tail # head
    BY <1>5 DEF PutcharHead, Held
  <2>3. tx_buffer_head' = head /\ UNCHANGED <<tx_buffer, tx_buffer_tail, uart, c>>
    BY <1>5 DEF PutcharHead
  <2>4. TxRing' = Append(TxRing, c)
    <3>1. /\ SERIAL1_TX_BUFFER_SIZE \in Nat
          /\ tx_buffer \in [Slots(SERIAL1_TX_BUFFER_SIZE) -> Bytes]
          /\ tx_buffer_tail \in Slots(SERIAL1_TX_BUFFER_SIZE)
          /\ tx_buffer_head \in Slots(SERIAL1_TX_BUFFER_SIZE)
      BY Types
    <3>2. Ring(tx_buffer, tx_buffer_tail, head, SERIAL1_TX_BUFFER_SIZE) = Append(TxRing, c)
      BY <2>1, <2>2, <3>1, RingAppend, Zenon DEF TxRing
    <3> QED BY <2>3, <3>2, Zenon DEF TxRing
  <2>5. uart \o Append(TxRing, c) = Append(uart \o TxRing, c)
    BY Types, AppendRight
  <2>6. Pipes!Put
    BY <1>1, <2>3, <2>4, <2>5 DEF Pipes!Put, FromLine
  <2> QED
    BY <2>6 DEF Pipes!PipesNext
<1>6. CASE PutcharEnable
  BY <1>1, <1>6 DEF PutcharEnable, Return, Pipes!pipes, FromLine, TxRing
<1> QED
  BY <1>2, <1>3, <1>4, <1>5, <1>6 DEF PutcharStep, Pipes!PipesNext

\* Emptying the receive ring leaves the byte still in the UART.
LEMMA RingForgotten ==
  ASSUME IInv, rx_buffer_head' = rx_buffer_tail', FromLine' = arrived
  PROVE  Pipes!Forget
<1>1. /\ Len(FromLine) = Len(RxRing) + Len(arrived) /\ Len(RxRing) \in Nat /\ Len(arrived) \in Nat
      /\ SubSeq(FromLine, Len(RxRing) + 1, Len(FromLine)) = arrived
  BY Types, Parts DEF FromLine
<1>2. Len(arrived) \in 0 .. 1 /\ Len(arrived) <= Len(FromLine)
      /\ Len(FromLine) + 1 - Len(arrived) = Len(RxRing) + 1
  BY <1>1, Types
<1> QED
  BY <1>1, <1>2 DEF Pipes!Forget, FromLine

\* A receive ring whose ends meet holds nothing.
LEMMA EmptyReceiveRing ==
  ASSUME IInv', rx_buffer_head' = rx_buffer_tail', arrived' = arrived
  PROVE  FromLine' = arrived
<1>1. Used(rx_buffer_tail', rx_buffer_head', SERIAL1_RX_BUFFER_SIZE) = 0
  <2>1. rx_buffer_tail' \in RxSlots
    BY DEF IInv, TypeOK
  <2>2. rx_buffer_tail' \in Int /\ rx_buffer_head' = rx_buffer_tail'
    BY <2>1, SerialAssumption DEF RxSlots
  <2>3. \A s \in Int : Used(s, s, SERIAL1_RX_BUFFER_SIZE) = 0
    BY DEF Used
  <2> QED
    BY <2>2, <2>3
<1>2. RxRing' = <<>>
  BY <1>1 DEF RxRing, Ring
<1>3. arrived' \in Seq(Bytes)
  BY DEF IInv, TypeOK
<1> QED
  BY <1>2, <1>3, ConcatEmptySeq DEF FromLine

\* The oldest bytes on their way out are those in the UART, two at most.
LEMMA UartBytes ==
  ASSUME IInv
  PROVE  /\ Len(uart) \in 0 .. 2 /\ Len(uart) <= Len(ToLine)
         /\ SubSeq(ToLine, 1, Len(uart)) = uart
         /\ SubSeq(ToLine, Len(uart) + 1, Len(ToLine)) = TxRing
<1>1. uart \in Seq(Bytes) /\ TxRing \in Seq(Bytes) /\ Len(uart) <= 2
  BY Types
<1>2. /\ Len(ToLine) = Len(uart) + Len(TxRing) /\ Len(uart) \in Nat /\ Len(TxRing) \in Nat
      /\ SubSeq(ToLine, 1, Len(uart)) = uart
      /\ SubSeq(ToLine, Len(uart) + 1, Len(ToLine)) = TxRing
  BY <1>1, Parts DEF ToLine
<1>3. Len(uart) \in 0 .. 2 /\ Len(uart) <= Len(ToLine)
  BY <1>1, <1>2
<1> QED
  BY <1>2, <1>3

\* The calls that read, clear, close and open.
LEMMA OtherCallsRefine ==
  ASSUME IInv, IInv', Held,
         \/ Flush \/ FlushReturn \/ End
         \/ Getchar \/ GetcharAdvance \/ Clear \/ EndClose \/ Begin
  PROVE  Pipes!PipesNext \/ UNCHANGED Pipes!pipes
<1>1. c' = c
  BY DEF Flush, FlushReturn, End, Getchar, GetcharAdvance, Clear, EndClose, Begin, mainVars
<1>2. CASE Flush \/ FlushReturn \/ End
  BY <1>2 DEF Flush, FlushReturn, End, txVars, rxVars, Pipes!pipes, TxRing, RxRing
<1>3. CASE Getchar
  <2>1. UNCHANGED <<ToLine, FromLine>>
    BY <1>3 DEF Getchar, txVars, ToLine, FromLine, TxRing, RxRing
  <2>2. rx_buffer_tail # rx_buffer_head /\ got' = rx_buffer[NextRx(rx_buffer_tail)]
    BY <1>3 DEF Getchar
  <2>3. RxRing # <<>> /\ Head(RxRing) = got'
    BY <2>2, Types, RingTail DEF RxRing
  <2>4. FromLine # <<>> /\ got' = Head(FromLine)
    BY <2>3, Types, TailLeft DEF FromLine
  <2>5. Pipes!Look
    BY <1>1, <2>1, <2>4 DEF Pipes!Look, ToLine, FromLine
  <2> QED
    BY <2>5 DEF Pipes!PipesNext
<1>4. CASE GetcharAdvance
  <2>1. ToLine' = ToLine /\ got' = got /\ arrived' = arrived
    BY <1>4 DEF GetcharAdvance, txVars, ToLine, TxRing
  <2>2. rx_buffer_tail # rx_buffer_head /\ got = rx_buffer[NextRx(rx_buffer_tail)]
    BY <1>4 DEF GetcharAdvance, Held
  <2>3. RxRing' = Ring(rx_buffer, NextRx(rx_buffer_tail), rx_buffer_head, SERIAL1_RX_BUFFER_SIZE)
    BY <1>4 DEF GetcharAdvance, RxRing
  <2>4. RxRing # <<>> /\ Head(RxRing) = got /\ Tail(RxRing) = RxRing'
    <3>1. /\ SERIAL1_RX_BUFFER_SIZE \in Nat
          /\ rx_buffer \in [Slots(SERIAL1_RX_BUFFER_SIZE) -> Bytes]
          /\ rx_buffer_tail \in Slots(SERIAL1_RX_BUFFER_SIZE)
          /\ rx_buffer_head \in Slots(SERIAL1_RX_BUFFER_SIZE)
          /\ NextRx(rx_buffer_tail) = After(rx_buffer_tail, SERIAL1_RX_BUFFER_SIZE)
      BY Types
    <3> QED BY <2>2, <2>3, <3>1, RingTail, Zenon DEF RxRing
  <2>5. FromLine # <<>> /\ got = Head(FromLine) /\ FromLine' = Tail(FromLine)
    BY <2>1, <2>4, Types, TailLeft DEF FromLine
  <2>6. Pipes!Take
    BY <1>1, <2>1, <2>5 DEF Pipes!Take, ToLine, FromLine
  <2> QED
    BY <2>6 DEF Pipes!PipesNext
<1>5. CASE Clear
  <2>1. ToLine' = ToLine /\ got' = got /\ arrived' = arrived /\ rx_buffer_head' = rx_buffer_tail'
    BY <1>5 DEF Clear, txVars, ToLine, TxRing
  <2>2. Pipes!Forget
    BY <2>1, EmptyReceiveRing, RingForgotten
  <2>3. Pipes!Clear
    BY <1>1, <2>1, <2>2 DEF Pipes!Clear, ToLine
  <2> QED
    BY <2>3 DEF Pipes!PipesNext
<1>6. CASE EndClose
  <2>1. /\ uart' = <<>> /\ got' = got /\ arrived' = arrived
        /\ rx_buffer_head' = rx_buffer_tail' /\ TxRing' = TxRing
    BY <1>6 DEF EndClose, TxRing
  <2>2. Pipes!Forget
    BY <2>1, EmptyReceiveRing, RingForgotten
  <2>3. ToLine' = TxRing
    BY <2>1, Types, ConcatEmptySeq DEF ToLine
  <2>4. /\ Len(uart) \in 0 .. 2 /\ Len(uart) <= Len(ToLine)
        /\ SubSeq(ToLine, Len(uart) + 1, Len(ToLine)) = TxRing
    BY UartBytes
  <2>5. Pipes!Close
    BY <1>1, <2>1, <2>2, <2>3, <2>4 DEF Pipes!Close, ToLine
  <2> QED
    BY <2>5 DEF Pipes!PipesNext
<1>7. CASE Begin
  <2>1. /\ uart' = uart /\ got' = got /\ arrived' = arrived
        /\ rx_buffer_head' = rx_buffer_tail' /\ tx_buffer_head' = 0 /\ tx_buffer_tail' = 0
    BY <1>7 DEF Begin
  <2>2. Pipes!Forget
    BY <2>1, EmptyReceiveRing, RingForgotten
  <2>3. TxRing' = <<>>
    BY <2>1 DEF TxRing, Ring, Used
  <2>4. ToLine' = uart
    BY <2>1, <2>3, Types, ConcatEmptySeq DEF ToLine
  <2>5. /\ Len(uart) \in 0 .. 2 /\ Len(uart) <= Len(ToLine)
        /\ SubSeq(ToLine, 1, Len(uart)) = uart
    BY UartBytes
  <2>6. Pipes!Open
    BY <1>1, <2>1, <2>2, <2>4, <2>5 DEF Pipes!Open, ToLine
  <2> QED
    BY <2>6 DEF Pipes!PipesNext
<1> QED
  BY <1>2, <1>3, <1>4, <1>5, <1>6, <1>7

\* The interrupt and the UART.
LEMMA HardwareRefines ==
  ASSUME IInv, uart0_status_isr \/ Send \/ \E b \in Bytes : Arrive(b)
  PROVE  Pipes!PipesNext \/ UNCHANGED Pipes!pipes
<1>1. c' = c
  BY DEF uart0_status_isr, Send, Arrive, mainVars
<1>2. CASE uart0_status_isr
  <2>1. ToLine' = ToLine
    BY <1>2, InterruptTransmits
  <2>2. /\ got' = got
        /\ \/ FromLine' = FromLine
           \/ /\ Len(FromLine) = SERIAL1_RX_BUFFER_SIZE
              /\ FromLine' = SubSeq(FromLine, 1, SERIAL1_RX_BUFFER_SIZE - 1)
    BY <1>2, InterruptReceives DEF uart0_status_isr
  <2>3. CASE FromLine' = FromLine
    BY <1>1, <2>1, <2>2, <2>3 DEF Pipes!pipes, ToLine, FromLine
  <2>4. CASE FromLine' # FromLine
    <3>1. Len(FromLine) = SERIAL1_RX_BUFFER_SIZE - 1 + 1
      BY <2>2, <2>4, Types
    <3>2. Pipes!Drop
      BY <1>1, <2>1, <2>2, <2>4, <3>1 DEF Pipes!Drop, ToLine, FromLine
    <3> QED
      BY <3>2 DEF Pipes!PipesNext
  <2> QED
    BY <2>3, <2>4
<1>3. CASE Send
  <2>1. uart # <<>> /\ uart' = Tail(uart) /\ TxRing' = TxRing
    BY <1>3 DEF Send, TxRing
  <2>2. FromLine' = FromLine /\ got' = got
    BY <1>3 DEF Send, rxVars, FromLine, RxRing
  <2>3. ToLine # <<>> /\ ToLine' = Tail(ToLine)
    BY <2>1, Types, TailLeft DEF ToLine
  <2>4. Pipes!Sent
    BY <1>1, <2>2, <2>3 DEF Pipes!Sent, ToLine, FromLine
  <2> QED
    BY <2>4 DEF Pipes!PipesNext
<1>4. ASSUME NEW b \in Bytes, Arrive(b)  PROVE Pipes!PipesNext
  <2>1. arrived = <<>> /\ arrived' = <<b>> /\ got' = got
    BY <1>4 DEF Arrive
  <2>2. ToLine' = ToLine /\ RxRing' = RxRing
    BY <1>4 DEF Arrive, txVars, ToLine, TxRing, RxRing
  <2>3. FromLine = RxRing /\ FromLine' = RxRing \o <<b>>
    BY <2>1, <2>2, Types, ConcatEmptySeq DEF FromLine
  <2>4. FromLine' = Append(FromLine, b)
    BY <2>3, Types, AppendIsConcat
  <2>5. Pipes!Arrive(b)
    BY <1>1, <2>1, <2>2, <2>4 DEF Pipes!Arrive, ToLine, FromLine
  <2> QED
    BY <2>5 DEF Pipes!PipesNext
<1> QED
  BY <1>2, <1>3, <1>4

\* Every step of the port is a step of the pipes or changes nothing in them.
LEMMA NextRefines ==
  ASSUME IInv, IInv', Held, [Next]_vars
  PROVE  [Pipes!PipesNext]_(Pipes!pipes)
<1>1. CASE UNCHANGED vars
  BY <1>1 DEF vars, mainVars, txVars, rxVars, Pipes!pipes, TxRing, RxRing
<1> QED
  BY <1>1, PutcharRefines, OtherCallsRefine, HardwareRefines DEF Next, Main

LEMMA InitRefines == Init => Pipes!PipesInit
<1> SUFFICES ASSUME Init PROVE Pipes!PipesInit
  OBVIOUS
<1>1. c \in Bytes /\ got \in Bytes
  BY DEF Init
<1>2. TxRing = <<>> /\ RxRing = <<>> /\ uart = <<>> /\ arrived = <<>>
  BY DEF Init, TxRing, RxRing, Ring, Used
<1>3. uart \o TxRing = <<>> /\ RxRing \o arrived = <<>>
  BY <1>2
<1> QED
  BY <1>1, <1>3 DEF Pipes!PipesInit

\* The port is a pair of pipes: a byte put is sent once and in its turn, a byte
\* that arrives is read once and in its turn, up to the losses the pipes name.
THEOREM PipesCorrect == Spec => BytesInOrder
<1>1. IInv /\ IInv' /\ Held /\ [Next]_vars => [Pipes!PipesNext]_(Pipes!pipes)
  BY NextRefines
<1> QED
  BY <1>1, InitRefines, IInvAlways, HeldAlways, PTL DEF Spec, BytesInOrder, Pipes!PipesSpec
=============================================================================
