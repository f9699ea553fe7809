--------------------------- MODULE HvSupplyProofs ---------------------------
(***************************************************************************)
(* What the supply controller guarantees whatever the host types, proved   *)
(* for every limit, every plant, every set of lines and every buffer size. *)
(***************************************************************************)
EXTENDS HvSupply, TLAPS, SequenceTheorems, NaturalsInduction, WellFoundedInduction

\* What the assumption says of the limits.
LEMMA LimitsPositive ==
  /\ MedLimit \in Nat \ {0} /\ HvLimit \in Nat \ {0} /\ RxSize \in Nat \ {0}
  /\ IntHalf \in Nat \ {0} /\ LongHalf \in Nat \ {0}
  /\ HvLimit < IntHalf /\ IntHalf <= LongHalf
BY HvSupplyAssumption

\* Between two rounds of the loop the high-voltage duty is the one written;
\* only an H line makes them differ, and then the limits are applied before
\* another line is read.
HvWritten ==
  /\ phase # "calc" => hv_switch_duty = pin11
  /\ phase = "calc" =>
       hv_switch_duty = pin11 \/ (acted # <<>> /\ Last(acted).letter = H)

\* At any time the duty kept, once within its limits, is what the last E or H line
\* asks for.
HvKept ==
  \/ HvOrders = {} /\ hv_switch_duty = 0
  \/ \E i \in HvOrders :
       /\ \A j \in HvOrders : j <= i
       /\ Constrain(hv_switch_duty, 0, HvLimit) \in Asked(acted[i])

IInv == TypeOK /\ HvWritten /\ HvKept

\* constrain() returns a value within its limits, and its argument if that is.
LEMMA ConstrainBounds ==
  ASSUME NEW x \in Int, NEW high \in Nat
  PROVE  /\ Constrain(x, 0, high) \in 0 .. high
         /\ x \in 0 .. high => Constrain(x, 0, high) = x
BY DEF Constrain

\* What the quotient and the remainder are.
LEMMA DivMod ==
  ASSUME NEW n \in Nat \ {0}, NEW a \in Int
  PROVE  a % n \in 0 .. n - 1 /\ a \div n \in Int /\ a = n * (a \div n) + (a % n)
OBVIOUS

\* An integer type wraps into its range, and leaves what is there alone.
LEMMA WrappedBounds ==
  ASSUME NEW v \in Int, NEW half \in Nat \ {0}
  PROVE  /\ Wrapped(v, half) \in -half .. half - 1
         /\ v \in -half .. half - 1 => Wrapped(v, half) = v
<1> DEFINE n == 2 * half
           a == v + half
           r == a % n
           q == a \div n
<1>1. n \in Nat \ {0} /\ a \in Int
  OBVIOUS
<1>2. r \in 0 .. n - 1 /\ q \in Int /\ a = n * q + r
  BY <1>1, DivMod
<1>3. Wrapped(v, half) = r - half
  BY DEF Wrapped
<1>4. ASSUME v \in -half .. half - 1  PROVE r = a
  <2>1. a \in 0 .. n - 1
    BY <1>4
  <2> HIDE DEF n, a, r, q
  <2>2. \A z \in Int : (z >= 1 => n * z >= n) /\ (z <= -1 => n * z <= -n)
    BY <1>1
  <2>3. q = 0
    BY <1>1, <1>2, <2>1, <2>2
  <2>4. n * q = 0
    BY <1>1, <2>3
  <2> QED BY <1>1, <1>2, <2>4
<1> QED
  BY <1>2, <1>3, <1>4

\* A byte more leaves a line a line.
LEMMA AbsorbType ==
  ASSUME NEW text \in Texts, NEW byte \in Bytes
  PROVE  Absorb(text, byte) \in Texts
<1>1. /\ text.letter \in Bytes \cup {NoByte} /\ text.minus \in BOOLEAN /\ text.value \in Nat
      /\ text.open \in {"sign", "digits", "closed"}
  BY DEF Texts
<1>2. CASE text.letter = NoByte
  <2>1. Absorb(text, byte) = [text EXCEPT !.letter = byte]
    BY <1>2 DEF Absorb
  <2> QED BY <2>1 DEF Texts
<1>3. CASE text.letter # NoByte /\ text.open # "closed" /\ byte \in Digits
  <2>1. 10 * text.value + byte - 48 \in Nat
    BY <1>1, <1>3 DEF Digits
  <2>2. Absorb(text, byte) =
          [text EXCEPT !.value = 10 * @ + byte - 48, !.open = "digits"]
    BY <1>3 DEF Absorb, Digits, MINUS
  <2> QED BY <2>1, <2>2 DEF Texts
<1>4. CASE text.letter # NoByte /\ text.open = "sign" /\ byte = MINUS
  <2>1. Absorb(text, byte) = [text EXCEPT !.minus = TRUE, !.open = "digits"]
    BY <1>4 DEF Absorb, Digits, MINUS
  <2> QED BY <2>1 DEF Texts
<1>5. CASE /\ text.letter # NoByte
           /\ ~(text.open # "closed" /\ byte \in Digits)
           /\ ~(text.open = "sign" /\ byte = MINUS)
  <2>1. Absorb(text, byte) = [text EXCEPT !.open = "closed"]
    BY <1>5 DEF Absorb
  <2> QED BY <2>1 DEF Texts
<1> QED
  BY <1>2, <1>3, <1>4, <1>5

\* The number of a line, in the types it goes through.
LEMMA NumberType ==
  ASSUME NEW text \in Texts
  PROVE  /\ Number(text) \in Int
         /\ toInt(text) \in -LongHalf .. LongHalf - 1
         /\ Wrapped(toInt(text), IntHalf) \in Ints
         /\ Number(text) \in Ints => Wrapped(toInt(text), IntHalf) = Number(text)
<1>1. Number(text) \in Int
  BY DEF Number, Texts
<1>2. /\ toInt(text) \in -LongHalf .. LongHalf - 1
      /\ Number(text) \in -LongHalf .. LongHalf - 1 => toInt(text) = Number(text)
  BY <1>1, LimitsPositive, WrappedBounds DEF toInt
<1>3. toInt(text) \in Int
  BY <1>2, LimitsPositive
<1>4. /\ Wrapped(toInt(text), IntHalf) \in Ints
      /\ toInt(text) \in Ints => Wrapped(toInt(text), IntHalf) = toInt(text)
  BY <1>3, LimitsPositive, WrappedBounds DEF Ints
<1>5. Ints \subseteq -LongHalf .. LongHalf - 1
  BY LimitsPositive DEF Ints
<1> QED
  BY <1>1, <1>2, <1>4, <1>5

\* What was added to a sequence last is its last element.
LEMMA LastOfAppend ==
  ASSUME NEW S, NEW s \in Seq(S), NEW x \in S
  PROVE  Append(s, x) \in Seq(S) /\ Append(s, x) # <<>> /\ Last(Append(s, x)) = x
BY DEF Last

\* The invariant holds when the controller starts.
LEMMA IInvInit == Init => IInv
<1> SUFFICES ASSUME Init PROVE IInv
  OBVIOUS
<1>1. /\ rx = <<>> /\ typing = <<>> /\ sent = <<>> /\ acted = <<>>
      /\ med_set_voltage = 0 /\ med_switch_duty = 0 /\ hv_switch_duty = 0
      /\ pin3 = 0 /\ pin11 = 0
  BY DEF Init
<1>2. input \in Texts
  BY DEF Init, Empty, Texts, NoByte
<1>3. phase = "poll" /\ clean \in BOOLEAN
  BY Zenon DEF Init
<1>4. rx \in Seq(Bytes) /\ Len(rx) <= RxSize /\ typing \in Seq(Bytes)
      /\ sent \in Seq(Lines) /\ acted \in Seq(Texts)
  BY <1>1, LimitsPositive
<1>5. /\ med_set_voltage \in -LongHalf .. LongHalf - 1 /\ hv_switch_duty \in Ints
      /\ med_switch_duty \in 0 .. MedLimit
      /\ pin3 \in 0 .. MedLimit /\ pin11 \in 0 .. HvLimit
  BY <1>1, LimitsPositive DEF Ints
<1>6. TypeOK
  BY <1>2, <1>3, <1>4, <1>5, Zenon DEF TypeOK
<1>7. HvWritten
  BY <1>1, <1>3 DEF HvWritten
<1>8. HvKept
  BY <1>1 DEF HvKept, HvOrders
<1> QED
  BY <1>6, <1>7, <1>8 DEF IInv

\* The three ifs leave numbers within their types, and record the line acted upon.
LEMMA ActType ==
  ASSUME IInv, Act, phase = "reading"
  PROVE  /\ med_set_voltage' \in -LongHalf .. LongHalf - 1 /\ hv_switch_duty' \in Ints
         /\ med_switch_duty' \in 0 .. MedLimit
         /\ pin3' \in 0 .. MedLimit /\ pin11' \in 0 .. HvLimit
         /\ acted' \in Seq(Texts)
         /\ hv_switch_duty' = pin11'
              \/ (acted' # <<>> /\ Last(acted').letter = H)
         /\ pin11' <= pin11
<1>1. input \in Texts
  BY DEF IInv, TypeOK
<1>2. acted' \in Seq(Texts) /\ acted' # <<>> /\ Last(acted') = input
  BY <1>1, LastOfAppend DEF Act, IInv, TypeOK
<1>3. /\ med_set_voltage \in -LongHalf .. LongHalf - 1 /\ hv_switch_duty \in Ints
      /\ med_switch_duty \in 0 .. MedLimit
      /\ pin3 \in 0 .. MedLimit /\ pin11 \in 0 .. HvLimit
  BY DEF IInv, TypeOK
<1>4. CASE input.letter = E /\ Stop
  BY <1>2, <1>3, <1>4, LimitsPositive DEF Stop, Ints
<1>5. CASE /\ input.letter = H /\ hv_switch_duty' = Wrapped(toInt(input), IntHalf)
           /\ UNCHANGED <<med_set_voltage, med_switch_duty, pin3, pin11>>
  BY <1>1, <1>2, <1>3, <1>5, NumberType, LimitsPositive
<1>6. CASE UNCHANGED duties /\ med_set_voltage' \in {med_set_voltage, toInt(input)}
  <2>1. hv_switch_duty = pin11
    BY DEF IInv, HvWritten
  <2>2. med_set_voltage' \in -LongHalf .. LongHalf - 1
    BY <1>1, <1>3, <1>6, NumberType
  <2> QED
    BY <1>2, <1>3, <1>6, <2>1, <2>2, LimitsPositive DEF duties
<1> QED
  BY <1>4, <1>5, <1>6 DEF Act

\* They leave the duty kept what the last E or H line asks for.
LEMMA ActKept ==
  ASSUME IInv, Act, phase = "reading"
  PROVE  HvKept'
<1>1. /\ input \in Texts /\ acted \in Seq(Texts) /\ acted' = Append(acted, input)
      /\ hv_switch_duty \in Int
  BY LimitsPositive DEF IInv, TypeOK, Act, Ints
<1>2. PICK last : last = Len(acted) + 1
  OBVIOUS
<1>3. /\ Len(acted) \in Nat /\ Len(acted') = last /\ acted'[last] = input
      /\ last \in Nat /\ last > Len(acted)
      /\ \A i \in 1 .. Len(acted) : acted'[i] = acted[i]
      /\ DOMAIN acted = 1 .. Len(acted) /\ DOMAIN acted' = 1 .. last
  BY <1>1, <1>2
<1>4. CASE input.letter \in {E, H}
  <2>1. last \in HvOrders' /\ \A j \in HvOrders' : j <= last
    BY <1>3, <1>4 DEF HvOrders
  <2>2. Constrain(hv_switch_duty', 0, HvLimit) \in Asked(input)
    <3>1. CASE input.letter = E
      <4>1. hv_switch_duty' = 0
        BY <3>1 DEF Act, Stop, E, H, M, Letters
      <4> QED BY <3>1, <4>1, LimitsPositive DEF Asked, Constrain
    <3>2. CASE input.letter = H
      <4>1. hv_switch_duty' = Wrapped(toInt(input), IntHalf) /\ input.letter # E
        BY <3>2 DEF Act, E, H, M, Letters
      <4>2. hv_switch_duty' \in Int
        BY <1>1, <4>1, NumberType, LimitsPositive DEF Ints
      <4>3. Constrain(hv_switch_duty', 0, HvLimit) \in 0 .. HvLimit
        BY <4>2, LimitsPositive, ConstrainBounds
      <4> QED BY <1>1, <4>1, <4>3, NumberType DEF Asked
    <3> QED BY <1>4, <3>1, <3>2
  <2>3. HvKept'
    BY <1>3, <2>1, <2>2 DEF HvKept, Asked, Number, Ints
  <2> QED BY <2>3
<1>5. CASE input.letter \notin {E, H}
  <2>1. hv_switch_duty' = hv_switch_duty
    BY <1>5 DEF Act, duties
  <2>2. HvOrders' = HvOrders /\ HvOrders \subseteq 1 .. Len(acted)
    <3>1. \A i \in 1 .. last : i \in 1 .. Len(acted) \/ i = last
      BY <1>2, <1>3
    <3>2. \A i \in 1 .. Len(acted) : i \in 1 .. last
      BY <1>2, <1>3
    <3> QED BY <1>3, <1>5, <3>1, <3>2 DEF HvOrders
  <2>3. HvKept
    BY DEF IInv
  <2> QED BY <1>3, <2>1, <2>2, <2>3 DEF HvKept, Asked, Number, Ints
<1> QED
  BY <1>4, <1>5

\* The lines a host may type.
LEMMA LineType ==
  ASSUME NEW line \in Lines
  PROVE  Append(line, NL) \in Seq(Bytes)
<1>1. line \in Seq(Bytes \ {NL})
  BY HvSupplyAssumption
<1>2. line \in Seq(Bytes) /\ NL \in Bytes
  BY <1>1 DEF Bytes
<1> QED
  BY <1>2

\* An action that leaves the duties, the lines acted upon and the phase alone.
LEMMA IInvDutiesUnchanged ==
  ASSUME IInv,
         rx' \in Seq(Bytes), Len(rx') <= RxSize, typing' \in Seq(Bytes),
         input' \in Texts, sent' \in Seq(Lines), clean' \in BOOLEAN,
         UNCHANGED <<med_set_voltage, duties, acted>>,
         phase' \in {"poll", "reading", "calc"},
         phase # "calc" \/ phase' = "calc"
  PROVE  IInv'
<1>1. UNCHANGED <<med_switch_duty, hv_switch_duty, pin3, pin11>>
  BY DEF duties
<1>2. TypeOK'
  BY <1>1 DEF IInv, TypeOK
<1>3. HvWritten'
  BY <1>1 DEF IInv, HvWritten
<1>4. HvKept'
  BY <1>1 DEF IInv, HvKept, HvOrders, Asked, Number, Ints
<1> QED
  BY <1>2, <1>3, <1>4 DEF IInv

\* The end of a line, by its newline or by the time-out.
LEMMA IInvAct ==
  ASSUME IInv, Act, phase = "reading", phase' = "calc",
         rx' \in Seq(Bytes), Len(rx') <= RxSize, clean' \in BOOLEAN,
         UNCHANGED <<typing, input, sent>>
  PROVE  IInv'
<1>1. TypeOK'
  BY ActType DEF IInv, TypeOK
<1>2. HvWritten'
  BY ActType DEF HvWritten
<1> QED
  BY <1>1, <1>2, ActKept DEF IInv

\* The round ends with both duties within their limits, and written.
LEMMA IInvCalc ==
  ASSUME IInv, calc_voltages
  PROVE  /\ IInv'
         /\ pin11' = Constrain(hv_switch_duty, 0, HvLimit)
<1>1. med_switch_duty \in Int /\ hv_switch_duty \in Int
      /\ HvLimit \in Nat /\ MedLimit \in Nat
  BY LimitsPositive DEF IInv, TypeOK, Ints
<1>2. med_switch_duty' \in 0 .. MedLimit
  <2>1. PICK reading \in Plant[pin3], set \in SetPoints :
          med_switch_duty' = Constrain(Stepped(reading, set), 0, MedLimit)
    BY DEF calc_voltages
  <2>2. Stepped(reading, set) \in Int
    BY <1>1 DEF Stepped
  <2> QED
    BY <1>1, <2>1, <2>2, ConstrainBounds
<1>3. hv_switch_duty' = Constrain(hv_switch_duty, 0, HvLimit)
      /\ hv_switch_duty' \in 0 .. HvLimit
  BY <1>1, ConstrainBounds DEF calc_voltages
<1>4. /\ pin3' = med_switch_duty' /\ pin11' = hv_switch_duty' /\ phase' = "poll"
      /\ UNCHANGED <<rx, typing, input, med_set_voltage, sent, acted, clean>>
  BY DEF calc_voltages
<1>5. hv_switch_duty' \in Ints
  BY <1>1, <1>3, LimitsPositive DEF Ints
<1>6. TypeOK'
  BY <1>2, <1>3, <1>4, <1>5 DEF IInv, TypeOK
<1>7. HvWritten'
  BY <1>4 DEF HvWritten
<1>8. HvKept'
  <2>1. Constrain(hv_switch_duty', 0, HvLimit) = Constrain(hv_switch_duty, 0, HvLimit)
    BY <1>1, <1>3, ConstrainBounds
  <2>2. hv_switch_duty = 0 => hv_switch_duty' = 0
    BY <1>1, <1>3 DEF Constrain
  <2>3. acted' = acted
    BY <1>4
  <2> QED BY <2>1, <2>2, <2>3 DEF IInv, HvKept, HvOrders, Asked, Number, Ints
<1> QED
  BY <1>3, <1>4, <1>6, <1>7, <1>8 DEF IInv

\* Every step of the host, the receive interrupt and the loop keeps it.
LEMMA IInvNext == IInv /\ [Next]_vars => IInv'
<1> SUFFICES ASSUME IInv, [Next]_vars PROVE IInv'
  OBVIOUS
<1> USE LimitsPositive
<1>1. /\ rx \in Seq(Bytes) /\ Len(rx) <= RxSize /\ typing \in Seq(Bytes)
      /\ input \in Texts /\ sent \in Seq(Lines) /\ clean \in BOOLEAN
      /\ phase \in {"poll", "reading", "calc"}
  BY DEF IInv, TypeOK
<1>2. ASSUME NEW line \in Lines, TypeLine(line) PROVE IInv'
  <2>1. typing' \in Seq(Bytes) /\ sent' \in Seq(Lines)
    BY <1>1, <1>2, LineType DEF TypeLine
  <2> QED
    BY <1>1, <1>2, <2>1, IInvDutiesUnchanged DEF TypeLine
<1>3. CASE Receive
  <2>1. typing' \in Seq(Bytes)
    BY <1>1, <1>3 DEF Receive
  <2>2. rx' \in Seq(Bytes) /\ Len(rx') <= RxSize /\ clean' \in BOOLEAN
    <3>1. typing # <<>> /\ Head(typing) \in Bytes
      BY <1>1, <1>3 DEF Receive
    <3>2. CASE Len(rx) < RxSize /\ rx' = Append(rx, Head(typing)) /\ UNCHANGED clean
      <4>1. rx' \in Seq(Bytes) /\ Len(rx') = Len(rx) + 1
        BY <1>1, <3>1, <3>2
      <4>2. Len(rx) \in Nat
        BY <1>1
      <4> QED
        BY <1>1, <3>2, <4>1, <4>2
    <3>3. CASE clean' = FALSE /\ UNCHANGED rx
      BY <1>1, <3>3
    <3> QED
      BY <1>3, <3>2, <3>3 DEF Receive
  <2> QED
    BY <1>1, <1>3, <2>1, <2>2, IInvDutiesUnchanged DEF Receive
<1>4. CASE Poll
  <2>1. input' \in Texts
    BY <1>4 DEF Poll, Empty, Texts, NoByte
  <2> QED
    BY <1>1, <1>4, <2>1, IInvDutiesUnchanged DEF Poll
<1>5. CASE ReadByte
  <2>1. rx' \in Seq(Bytes) /\ Len(rx') <= RxSize /\ Head(rx) \in Bytes
    BY <1>1, <1>5 DEF ReadByte
  <2>2. input' \in Texts
    BY <1>1, <1>5, <2>1, AbsorbType DEF ReadByte
  <2> QED
    BY <1>1, <1>5, <2>1, <2>2, IInvDutiesUnchanged DEF ReadByte
<1>6. CASE EndOfLine
  <2>1. rx' \in Seq(Bytes) /\ Len(rx') <= RxSize
    BY <1>1, <1>6 DEF EndOfLine
  <2> QED
    BY <1>1, <1>6, <2>1, IInvAct DEF EndOfLine
<1>7. CASE ReadTimeout
  BY <1>1, <1>7, IInvAct DEF ReadTimeout
<1>8. CASE calc_voltages
  BY <1>8, IInvCalc
<1>9. CASE UNCHANGED vars
  BY <1>1, <1>9, IInvDutiesUnchanged DEF vars
<1> QED
  BY <1>2, <1>3, <1>4, <1>5, <1>6, <1>7, <1>8, <1>9 DEF Next, Loop

\* So it always holds.
LEMMA IInvAlways == Spec => []IInv
BY IInvInit, IInvNext, PTL DEF Spec

\* Every variable keeps its type, whatever is typed, lost or cut.
THEOREM TypeCorrect == Spec => []TypeOK
<1>1. IInv => TypeOK
  BY DEF IInv
<1> QED
  BY IInvAlways, <1>1, PTL

\* Between two rounds pin 11 has what the last E or H line acted upon asks for: 0, or
\* its number within the limits, whatever the number's sign, size or mangling, and
\* whatever came after it.
THEOREM HvObeyed == Spec => []HvAsCommanded
<1>1. IInv => HvAsCommanded
  <2> SUFFICES ASSUME IInv, phase # "calc" PROVE HvAsCommanded
    BY DEF HvAsCommanded
  <2>1. /\ hv_switch_duty = pin11 /\ pin11 \in 0 .. HvLimit /\ HvLimit \in Nat
        /\ pin11 \in Int
    BY LimitsPositive DEF IInv, HvWritten, TypeOK
  <2>2. Constrain(hv_switch_duty, 0, HvLimit) = pin11
    BY <2>1, ConstrainBounds
  <2> QED BY <2>1, <2>2 DEF IInv, HvKept, HvAsCommanded
<1> QED
  BY IInvAlways, <1>1, PTL

\* A step that is not the end of a round leaves the high voltage or lowers it;
\* the end of a round raises it only when the line before was an H line.
LEMMA RiseStep ==
  IInv /\ [Next]_vars => (pin11' > pin11 => acted # <<>> /\ Last(acted).letter = H)
<1> SUFFICES ASSUME IInv, [Next]_vars, pin11' > pin11
             PROVE  acted # <<>> /\ Last(acted).letter = H
  OBVIOUS
<1>1. pin11 \in Int /\ pin11 \in 0 .. HvLimit /\ HvLimit \in Nat
  BY LimitsPositive DEF IInv, TypeOK
<1>2. CASE calc_voltages
  <2>1. hv_switch_duty # pin11
    BY <1>1, <1>2, IInvCalc, ConstrainBounds
  <2> QED
    BY <1>2, <2>1 DEF calc_voltages, IInv, HvWritten
<1>3. CASE Act /\ phase = "reading"
  BY <1>1, <1>3, ActType DEF IInv, TypeOK
<1>4. CASE UNCHANGED duties
  BY <1>1, <1>4 DEF duties
<1> QED
  BY <1>2, <1>3, <1>4
  DEF Next, Loop, TypeLine, Receive, Poll, ReadByte, EndOfLine, ReadTimeout, vars

\* The high voltage is raised by the H line acted upon last and by nothing
\* else.
THEOREM HvCommanded == Spec => HvRisesOnlyOnCommand
<1>1. IInv /\ [Next]_vars =>
        [pin11' > pin11 => acted # <<>> /\ Last(acted).letter = H]_vars
  BY RiseStep
<1> QED
  BY IInvAlways, <1>1, PTL DEF Spec, HvRisesOnlyOnCommand

-----------------------------------------------------------------------------
(* Lines are acted upon in the order typed                                   *)

\* A nonempty set of naturals has a least element.
LEMMA LeastElement ==
  ASSUME NEW T, T \subseteq Nat, T # {}
  PROVE  \E p \in T : \A q \in T : p <= q
<1>1. PICK p \in T : \A q \in T : <<q, p>> \notin OpToRel(<, Nat)
  BY NatLessThanWellFounded, WFMin
<1>2. \A q \in T : ~(q < p)
  BY <1>1 DEF OpToRel
<1> QED
  BY <1>2

\* g is what reading the first j bytes of the line, one by one, has made of them.
Reading(g, line, j) ==
  /\ g[0] = Empty
  /\ \A i \in 1 .. j : g[i] = Absorb(g[i - 1], line[i])

\* text is the first j bytes of the line, read.
ReadSoFar(line, j, text) == \E g : Reading(g, line, j) /\ g[j] = text

\* A line read to its end is the line parsed.
LEMMA ParsedIs ==
  ASSUME NEW line \in Seq(Bytes), NEW text, ReadSoFar(line, Len(line), text)
  PROVE  Parsed(line) = text
<1>1. PICK h : Reading(h, line, Len(line)) /\ h[Len(line)] = text
  BY DEF ReadSoFar
<1>2. Len(line) \in Nat /\ Len(line) \in 0 .. Len(line)
  OBVIOUS
<1> DEFINE g == [n \in 0 .. Len(line) |-> h[n]]
           F(f) == [n \in 0 .. Len(line) |->
                      IF n = 0 THEN Empty ELSE Absorb(f[n - 1], line[n])]
           upTo == CHOOSE f : f = F(f)
<1>3. Parsed(line) = upTo[Len(line)]
  BY DEF Parsed
<1>4. g = F(g)
  <2>1. ASSUME NEW n \in 0 .. Len(line)
        PROVE  h[n] = IF n = 0 THEN Empty ELSE Absorb(g[n - 1], line[n])
    <3>1. CASE n = 0
      BY <1>1, <3>1 DEF Reading
    <3>2. CASE n # 0
      <4>1. n \in 1 .. Len(line) /\ n - 1 \in 0 .. Len(line)
        BY <1>2, <3>2
      <4>2. g[n - 1] = h[n - 1]
        BY <4>1
      <4>3. h[n] = Absorb(h[n - 1], line[n])
        BY <1>1, <4>1 DEF Reading
      <4> QED BY <3>2, <4>2, <4>3
    <3> QED BY <3>1, <3>2
  <2> QED BY <2>1
<1>5. upTo = F(upTo)
  BY <1>4
<1>6. /\ g[0] = Empty
      /\ \A n \in 1 .. Len(line) : n - 1 \in 0 .. Len(line)
           /\ g[n] = Absorb(g[n - 1], line[n])
  <2>1. \A n \in 1 .. Len(line) : n \in 0 .. Len(line) /\ n - 1 \in 0 .. Len(line) /\ n # 0
    BY <1>2
  <2>2. 0 \in 0 .. Len(line)
    BY <1>2
  <2> QED BY <1>1, <2>1, <2>2 DEF Reading
<1> HIDE DEF upTo, g
<1>7. /\ upTo[0] = Empty
      /\ \A n \in 1 .. Len(line) : upTo[n] = Absorb(upTo[n - 1], line[n])
  <2>1. \A n \in 0 .. Len(line) :
          upTo[n] = IF n = 0 THEN Empty ELSE Absorb(upTo[n - 1], line[n])
    BY <1>5
  <2>2. \A n \in 1 .. Len(line) : n \in 0 .. Len(line) /\ n # 0
    BY <1>2
  <2> QED BY <1>2, <2>1, <2>2
<1>8. ASSUME NEW m \in 0 .. Len(line), upTo[m] # g[m]
      PROVE  FALSE
  <2> DEFINE Differ == {n \in 0 .. Len(line) : upTo[n] # g[n]}
  <2>1. Differ \subseteq Nat /\ Differ # {}
    BY <1>2, <1>8
  <2>2. PICK n \in Differ : \A k \in Differ : n <= k
    BY <2>1, LeastElement
  <2>3. n \in 1 .. Len(line) /\ n - 1 \in 0 .. Len(line) /\ ~(n <= n - 1)
    <3>1. n \in 0 .. Len(line) /\ n # 0
      BY <1>6, <1>7, <2>2
    <3> QED BY <1>2, <3>1
  <2>4. upTo[n - 1] = g[n - 1]
    BY <2>2, <2>3
  <2>5. upTo[n] = g[n]
    BY <1>6, <1>7, <2>3, <2>4
  <2> QED BY <2>2, <2>5
<1>9. upTo[Len(line)] = g[Len(line)]
  BY <1>2, <1>8
<1>10. g[Len(line)] = text
  BY <1>1, <1>2 DEF g
<1> QED BY <1>3, <1>9, <1>10

\* Nothing of a line has been read yet.
LEMMA ReadNone ==
  ASSUME NEW line PROVE ReadSoFar(line, 0, Empty)
<1> DEFINE g == [n \in {0} |-> Empty]
<1>1. Reading(g, line, 0) /\ g[0] = Empty
  BY DEF Reading
<1> HIDE DEF g
<1> QED BY <1>1 DEF ReadSoFar

\* A byte more of it is read.
LEMMA ReadMore ==
  ASSUME NEW line, NEW j \in Nat, NEW text, ReadSoFar(line, j, text)
  PROVE  ReadSoFar(line, j + 1, Absorb(text, line[j + 1]))
<1>1. PICK g : Reading(g, line, j) /\ g[j] = text
  BY DEF ReadSoFar
<1> DEFINE h == [n \in 0 .. j + 1 |-> IF n = j + 1 THEN Absorb(text, line[j + 1]) ELSE g[n]]
<1>2. h[0] = Empty
  BY <1>1 DEF Reading
<1>3. ASSUME NEW i \in 1 .. j + 1 PROVE h[i] = Absorb(h[i - 1], line[i])
  <2>1. i \in 0 .. j + 1 /\ i - 1 \in 0 .. j + 1 /\ i - 1 # j + 1
    OBVIOUS
  <2>2. h[i - 1] = g[i - 1]
    BY <2>1
  <2>3. CASE i = j + 1
    <3>1. h[i] = Absorb(text, line[j + 1]) /\ i - 1 = j
      BY <2>1, <2>3
    <3> QED BY <1>1, <2>2, <2>3, <3>1
  <2>4. CASE i # j + 1
    <3>1. i \in 1 .. j /\ h[i] = g[i]
      BY <2>1, <2>4
    <3> QED BY <1>1, <2>2, <3>1 DEF Reading
  <2> QED BY <2>3, <2>4
<1>4. h[j + 1] = Absorb(text, line[j + 1])
  OBVIOUS
<1> HIDE DEF h
<1>5. Reading(h, line, j + 1)
  BY <1>2, <1>3 DEF Reading
<1> QED BY <1>4, <1>5 DEF ReadSoFar

\* A line has a length, and no newline in it.
LEMMA LineBytes ==
  ASSUME NEW line \in Lines
  PROVE  /\ line \in Seq(Bytes) /\ Len(line) \in Nat
         /\ \A m \in 1 .. Len(line) : line[m] # NL /\ Append(line, NL)[m] = line[m]
         /\ Append(line, NL)[Len(line) + 1] = NL
<1>1. line \in Seq(Bytes \ {NL})
  BY HvSupplyAssumption
<1>2. NL \in Bytes
  BY DEF Bytes
<1>3. line \in Seq(Bytes)
  BY <1>1
<1>4. \A m \in 1 .. Len(line) : line[m] \in Bytes \ {NL}
  BY <1>1
<1>5. /\ \A m \in 1 .. Len(line) : Append(line, NL)[m] = line[m]
      /\ Append(line, NL)[Len(line) + 1] = NL
  BY <1>2, <1>3, AppendProperties
<1> QED
  BY <1>2, <1>3, <1>4, <1>5

\* The bytes not yet read are the lines after the k-th, each with its newline,
\* less the j bytes of the first of them that have been read: c[i] is where
\* the i-th line ends among them.
Cuts(c, lines, bytes, k, j) ==
  /\ c \in [k .. Len(lines) -> Int]
  /\ c[k] = 0 - j /\ c[Len(lines)] = Len(bytes)
  /\ \A i \in k .. Len(lines) : c[i] <= Len(bytes)
  /\ \A i \in k + 1 .. Len(lines) :
       /\ c[i] = c[i - 1] + Len(lines[i]) + 1
       /\ \A m \in 1 .. Len(lines[i]) + 1 :
            c[i - 1] + m >= 1 => bytes[c[i - 1] + m] = Append(lines[i], NL)[m]

Unread(lines, bytes, k, j) ==
  k <= Len(lines) /\ \E c : Cuts(c, lines, bytes, k, j)

\* A byte of a line that ends within the unread bytes is one of them.
LEMMA Within ==
  ASSUME NEW start \in Int, NEW len \in Nat, NEW size \in Nat,
         start + len + 1 <= size, NEW m \in 1 .. len + 1, start + m >= 1
  PROVE  start + m \in 1 .. size
OBVIOUS

\* A line more is typed.
LEMMA UnreadType ==
  ASSUME NEW lines \in Seq(Lines), NEW bytes \in Seq(Bytes), NEW k \in Nat,
         NEW j \in Nat, Unread(lines, bytes, k, j), NEW line \in Lines
  PROVE  Unread(Append(lines, line), bytes \o Append(line, NL), k, j)
<1> DEFINE more == Append(lines, line)
           longer == bytes \o Append(line, NL)
           n == Len(lines)
<1>1. PICK c : Cuts(c, lines, bytes, k, j)
  BY DEF Unread
<1>2. /\ n \in Nat /\ k <= n /\ Len(more) = n + 1
      /\ more[n + 1] = line /\ \A i \in 1 .. n : more[i] = lines[i]
  BY AppendProperties DEF Unread
<1>3. Append(line, NL) \in Seq(Bytes) /\ Len(Append(line, NL)) = Len(line) + 1
  BY LineType, LineBytes, AppendProperties
<1>4. /\ Len(bytes) \in Nat /\ Len(line) \in Nat
      /\ Len(longer) = Len(bytes) + Len(line) + 1
      /\ \A x \in 1 .. Len(bytes) : longer[x] = bytes[x]
      /\ \A m \in 1 .. Len(line) + 1 : longer[Len(bytes) + m] = Append(line, NL)[m]
  <2>1. Len(bytes) \in Nat /\ Len(line) \in Nat
    BY LineBytes
  <2>2. /\ Len(longer) = Len(bytes) + Len(Append(line, NL))
        /\ \A x \in 1 .. Len(bytes) + Len(Append(line, NL)) :
             longer[x] = IF x <= Len(bytes) THEN bytes[x] ELSE Append(line, NL)[x - Len(bytes)]
    BY <1>3, ConcatProperties
  <2>3. \A x \in 1 .. Len(bytes) : longer[x] = bytes[x]
    BY <1>3, <2>1, <2>2
  <2>4. ASSUME NEW m \in 1 .. Len(line) + 1
        PROVE  longer[Len(bytes) + m] = Append(line, NL)[m]
    <3>1. /\ Len(bytes) + m \in 1 .. Len(bytes) + Len(Append(line, NL))
          /\ ~(Len(bytes) + m <= Len(bytes)) /\ Len(bytes) + m - Len(bytes) = m
      BY <1>3, <2>1
    <3> QED BY <2>2, <3>1
  <2> QED BY <1>3, <2>1, <2>2, <2>3, <2>4
<1> DEFINE d == [i \in k .. n + 1 |-> IF i = n + 1 THEN Len(longer) ELSE c[i]]
<1> HIDE DEF more, longer
<1>5. \A i \in k .. n : d[i] = c[i] /\ c[i] \in Int /\ c[i] <= Len(bytes)
  <2>1. \A i \in k .. n : c[i] \in Int /\ c[i] <= Len(bytes)
    BY <1>1, Zenon DEF Cuts
  <2>2. ASSUME NEW i \in k .. n PROVE i \in k .. n + 1 /\ i # n + 1
    BY <1>2
  <2>3. ASSUME NEW i \in k .. n PROVE d[i] = c[i]
    BY <2>2, Zenon
  <2> QED BY <2>1, <2>3, Zenon
<1>6. d[n + 1] = Len(longer) /\ d[n] = Len(bytes)
  BY <1>1, <1>2 DEF Cuts
<1>7. d \in [k .. Len(more) -> Int]
  BY <1>1, <1>2, <1>4 DEF Cuts
<1> HIDE DEF d
<1>8. d[k] = 0 - j /\ d[Len(more)] = Len(longer)
  <2>1. k \in k .. n
    BY <1>2
  <2>2. c[k] = 0 - j
    BY <1>1 DEF Cuts
  <2> QED BY <1>2, <1>5, <1>6, <2>1, <2>2
<1>9. ASSUME NEW i \in k .. Len(more) PROVE d[i] <= Len(longer)
  <2>1. CASE i = n + 1
    <3>1. d[i] = Len(longer) /\ Len(longer) \in Int
      BY <1>4, <1>6, <2>1
    <3> QED BY <3>1
  <2>2. CASE i # n + 1
    <3>1. i \in k .. n
      BY <1>2, <2>2
    <3>2. d[i] \in Int /\ d[i] <= Len(bytes)
      BY <1>5, <3>1, Zenon
    <3> QED BY <1>4, <3>2
  <2> QED BY <2>1, <2>2
<1>10. ASSUME NEW i \in k + 1 .. Len(more)
       PROVE  /\ d[i] = d[i - 1] + Len(more[i]) + 1
              /\ \A m \in 1 .. Len(more[i]) + 1 :
                   d[i - 1] + m >= 1 => longer[d[i - 1] + m] = Append(more[i], NL)[m]
  <2>1. CASE i = n + 1
    <3>1. i - 1 = n /\ more[i] = line
      BY <1>2, <2>1
    <3>2. d[i] = Len(longer) /\ d[i - 1] = Len(bytes) /\ more[i] = line
      BY <1>6, <2>1, <3>1
    <3> QED BY <1>4, <3>2
  <2>2. CASE i # n + 1
    <3>1. i \in k + 1 .. n /\ i \in k .. n /\ i - 1 \in k .. n /\ more[i] = lines[i]
      BY <1>2, <2>2
    <3>2. d[i] = c[i] /\ d[i - 1] = c[i - 1] /\ c[i - 1] \in Int /\ c[i] <= Len(bytes)
      BY <1>5, <3>1
    <3>3. /\ c[i] = c[i - 1] + Len(lines[i]) + 1
          /\ \A m \in 1 .. Len(lines[i]) + 1 :
               c[i - 1] + m >= 1 => bytes[c[i - 1] + m] = Append(lines[i], NL)[m]
      BY <1>1, <3>1 DEF Cuts
    <3>4. lines[i] \in Lines /\ Len(lines[i]) \in Nat
      BY <1>2, <3>1, LineBytes
    <3>5. ASSUME NEW m \in 1 .. Len(lines[i]) + 1, c[i - 1] + m >= 1
          PROVE  longer[c[i - 1] + m] = Append(lines[i], NL)[m]
      <4>1. c[i - 1] + m \in 1 .. Len(bytes)
        <5>1. c[i - 1] + Len(lines[i]) + 1 <= Len(bytes)
          BY <3>2, <3>3
        <5> QED BY <1>4, <3>2, <3>4, <3>5, <5>1, Within
      <4> QED BY <1>4, <3>3, <3>5, <4>1
    <3> QED BY <3>1, <3>2, <3>3, <3>5
  <2> QED BY <2>1, <2>2
<1>11. Cuts(d, more, longer, k, j)
  BY <1>7, <1>8, <1>9, <1>10 DEF Cuts
<1> QED BY <1>2, <1>11 DEF Unread, more, longer

\* There is a line to read when there are bytes, and its next byte comes next.
LEMMA UnreadNext ==
  ASSUME NEW lines \in Seq(Lines), NEW bytes \in Seq(Bytes), bytes # <<>>,
         NEW k \in Nat, NEW j \in Nat, Unread(lines, bytes, k, j)
  PROVE  /\ k + 1 \in 1 .. Len(lines)
         /\ lines[k + 1] \in Lines
         /\ j <= Len(lines[k + 1]) => Head(bytes) = Append(lines[k + 1], NL)[j + 1]
<1>1. PICK c : Cuts(c, lines, bytes, k, j)
  BY DEF Unread
<1>2. Len(lines) \in Nat /\ k <= Len(lines) /\ Len(bytes) \in Nat /\ Len(bytes) >= 1
  BY DEF Unread
<1>3. k < Len(lines)
  BY <1>1, <1>2 DEF Cuts
<1>4. k + 1 \in 1 .. Len(lines) /\ k + 1 \in k + 1 .. Len(lines)
  BY <1>2, <1>3
<1>5. lines[k + 1] \in Lines
  BY <1>4
<1>6. Len(lines[k + 1]) \in Nat
  BY <1>5, LineBytes
<1>7. \A m \in 1 .. Len(lines[k + 1]) + 1 :
        c[k] + m >= 1 => bytes[c[k] + m] = Append(lines[k + 1], NL)[m]
  <2>1. PICK i \in k + 1 .. Len(lines) : i = k + 1
    BY <1>4
  <2>2. i - 1 = k
    BY <2>1
  <2>3. \A m \in 1 .. Len(lines[i]) + 1 :
          c[i - 1] + m >= 1 => bytes[c[i - 1] + m] = Append(lines[i], NL)[m]
    BY <1>1 DEF Cuts
  <2> QED BY <2>1, <2>2, <2>3
<1>8. ASSUME j <= Len(lines[k + 1])
      PROVE  Head(bytes) = Append(lines[k + 1], NL)[j + 1]
  <2>1. PICK m \in 1 .. Len(lines[k + 1]) + 1 : m = j + 1
    BY <1>6, <1>8
  <2>2. c[k] = 0 - j
    BY <1>1 DEF Cuts
  <2>3. c[k] + m = 1
    BY <2>1, <2>2
  <2>4. bytes[1] = Append(lines[k + 1], NL)[m]
    <3>1. bytes[c[k] + m] = Append(lines[k + 1], NL)[m]
      BY <1>7, <2>3
    <3> QED BY <2>3, <3>1
  <2>5. Head(bytes) = bytes[1]
    OBVIOUS
  <2> QED BY <2>1, <2>4, <2>5
<1> QED BY <1>4, <1>5, <1>8

\* A byte of it is read.
LEMMA UnreadTail ==
  ASSUME NEW lines \in Seq(Lines), NEW bytes \in Seq(Bytes), bytes # <<>>,
         NEW k \in Nat, NEW j \in Nat, Unread(lines, bytes, k, j)
  PROVE  Unread(lines, Tail(bytes), k, j + 1)
<1>1. PICK c : Cuts(c, lines, bytes, k, j)
  BY DEF Unread
<1>2. /\ Len(bytes) \in Nat /\ Len(bytes) >= 1 /\ Len(Tail(bytes)) = Len(bytes) - 1
      /\ \A x \in 1 .. Len(bytes) - 1 : Tail(bytes)[x] = bytes[x + 1]
      /\ Len(lines) \in Nat /\ k <= Len(lines)
  BY DEF Unread
<1> DEFINE d == [i \in k .. Len(lines) |-> c[i] - 1]
<1>3. \A i \in k .. Len(lines) : d[i] = c[i] - 1 /\ c[i] \in Int /\ c[i] <= Len(bytes)
  BY <1>1 DEF Cuts
<1>4. /\ d \in [k .. Len(lines) -> Int]
      /\ d[k] = 0 - (j + 1) /\ d[Len(lines)] = Len(Tail(bytes))
      /\ \A i \in k .. Len(lines) : d[i] <= Len(Tail(bytes))
  BY <1>1, <1>2, <1>3 DEF Cuts
<1> HIDE DEF d
<1>5. ASSUME NEW i \in k + 1 .. Len(lines)
      PROVE  /\ d[i] = d[i - 1] + Len(lines[i]) + 1
             /\ \A m \in 1 .. Len(lines[i]) + 1 :
                  d[i - 1] + m >= 1 => Tail(bytes)[d[i - 1] + m] = Append(lines[i], NL)[m]
  <2>1. i \in k .. Len(lines) /\ i - 1 \in k .. Len(lines) /\ i \in 1 .. Len(lines)
    BY <1>2
  <2>2. /\ d[i] = c[i] - 1 /\ d[i - 1] = c[i - 1] - 1
        /\ c[i - 1] \in Int /\ c[i] <= Len(bytes)
    BY <1>3, <2>1
  <2>3. /\ c[i] = c[i - 1] + Len(lines[i]) + 1
        /\ \A m \in 1 .. Len(lines[i]) + 1 :
             c[i - 1] + m >= 1 => bytes[c[i - 1] + m] = Append(lines[i], NL)[m]
    BY <1>1 DEF Cuts
  <2>4. Len(lines[i]) \in Nat
    BY <2>1, LineBytes
  <2>5. PICK y \in Int : y = c[i - 1]
    BY <2>2
  <2>6. d[i - 1] = y - 1 /\ d[i] = y - 1 + Len(lines[i]) + 1
    BY <2>2, <2>3, <2>4, <2>5
  <2>7. ASSUME NEW m \in 1 .. Len(lines[i]) + 1, y - 1 + m >= 1
        PROVE  Tail(bytes)[y - 1 + m] = Append(lines[i], NL)[m]
    <3>1. \E x \in Int : x = y - 1
      <4>1. y - 1 \in Int
        OBVIOUS
      <4> QED BY <4>1, Zenon
    <3>2. PICK x \in Int : x = y - 1
      BY <3>1
    <3>3. x + Len(lines[i]) + 1 <= Len(bytes) - 1 /\ Len(bytes) - 1 \in Nat
      <4>1. c[i] = y + Len(lines[i]) + 1
        BY <2>3, <2>5
      <4>2. y + Len(lines[i]) + 1 <= Len(bytes)
        BY <2>2, <4>1
      <4> QED BY <1>2, <2>4, <3>2, <4>2
    <3>4. x + m >= 1
      BY <2>7, <3>2
    <3>5. x + m \in 1 .. Len(bytes) - 1
      BY <2>4, <3>3, <3>4, Within
    <3>6. Tail(bytes)[x + m] = bytes[x + m + 1]
      BY <1>2, <3>5
    <3>7. x + m + 1 = y + m /\ y + m >= 1
      BY <3>2, <3>4
    <3>8. bytes[y + m] = Append(lines[i], NL)[m]
      BY <2>3, <2>5, <3>7
    <3>9. Tail(bytes)[x + m] = Append(lines[i], NL)[m]
      BY <3>6, <3>7, <3>8
    <3> QED BY <3>2, <3>9
  <2> QED BY <2>6, <2>7
<1>6. Cuts(d, lines, Tail(bytes), k, j + 1)
  BY <1>4, <1>5 DEF Cuts
<1> QED BY <1>2, <1>6 DEF Unread

\* A line read with its newline is done with.
LEMMA UnreadDone ==
  ASSUME NEW lines \in Seq(Lines), NEW bytes \in Seq(Bytes),
         NEW k \in Nat, k + 1 \in 1 .. Len(lines),
         Unread(lines, bytes, k, Len(lines[k + 1]) + 1)
  PROVE  Unread(lines, bytes, k + 1, 0)
<1>1. PICK c : Cuts(c, lines, bytes, k, Len(lines[k + 1]) + 1)
  BY DEF Unread
<1>2. Len(lines) \in Nat /\ k + 1 \in k + 1 .. Len(lines) /\ lines[k + 1] \in Lines
  OBVIOUS
<1>3. Len(lines[k + 1]) \in Nat
  BY <1>2, LineBytes
<1>4. c[k + 1] = 0
  <2>1. c[k + 1] = c[k + 1 - 1] + Len(lines[k + 1]) + 1
    BY <1>1, <1>2 DEF Cuts
  <2>2. k + 1 - 1 = k /\ c[k] = 0 - (Len(lines[k + 1]) + 1)
    BY <1>1 DEF Cuts
  <2> QED BY <1>3, <2>1, <2>2
<1> DEFINE d == [i \in k + 1 .. Len(lines) |-> c[i]]
<1>5. /\ d \in [k + 1 .. Len(lines) -> Int]
      /\ d[k + 1] = 0 - 0 /\ d[Len(lines)] = Len(bytes)
      /\ \A i \in k + 1 .. Len(lines) : d[i] = c[i] /\ d[i] <= Len(bytes)
  BY <1>1, <1>2, <1>4 DEF Cuts
<1> HIDE DEF d
<1>6. ASSUME NEW i \in k + 1 + 1 .. Len(lines)
      PROVE  /\ d[i] = d[i - 1] + Len(lines[i]) + 1
             /\ \A m \in 1 .. Len(lines[i]) + 1 :
                  d[i - 1] + m >= 1 => bytes[d[i - 1] + m] = Append(lines[i], NL)[m]
  <2>1. i \in k + 1 .. Len(lines) /\ i - 1 \in k + 1 .. Len(lines)
    BY <1>2
  <2>2. d[i] = c[i] /\ d[i - 1] = c[i - 1]
    BY <1>5, <2>1
  <2>3. /\ c[i] = c[i - 1] + Len(lines[i]) + 1
        /\ \A m \in 1 .. Len(lines[i]) + 1 :
             c[i - 1] + m >= 1 => bytes[c[i - 1] + m] = Append(lines[i], NL)[m]
    BY <1>1, <2>1 DEF Cuts
  <2> QED BY <2>2, <2>3
<1>7. Cuts(d, lines, bytes, k + 1, 0)
  BY <1>5, <1>6 DEF Cuts
<1> QED BY <1>2, <1>7 DEF Unread

\* The lines acted upon are the first ones typed, as parsed.
Prefix(done, lines) ==
  /\ Len(done) <= Len(lines)
  /\ \A i \in 1 .. Len(done) : done[i] = Parsed(lines[i])

\* What is in the buffer or still being typed is what follows them, less the
\* bytes of the line being read, of which input is what they make.
InOrder ==
  /\ Prefix(acted, sent)
  /\ \E j \in Nat :
       /\ Unread(sent, rx \o typing, Len(acted), j)
       /\ phase # "reading" => j = 0
       /\ phase = "reading" =>
            /\ Len(acted) + 1 \in 1 .. Len(sent)
            /\ j <= Len(sent[Len(acted) + 1])
            /\ ReadSoFar(sent[Len(acted) + 1], j, input)

CleanInOrder == clean => InOrder

\* Nothing has been typed.
LEMMA InOrderInit == Init => CleanInOrder
<1> SUFFICES ASSUME Init PROVE InOrder
  BY DEF CleanInOrder
<1>1. rx = <<>> /\ typing = <<>> /\ sent = <<>> /\ acted = <<>> /\ phase = "poll"
  BY DEF Init
<1>2. Prefix(acted, sent)
  BY <1>1 DEF Prefix
<1>3. Unread(<<>>, <<>>, 0, 0)
  <2> DEFINE c == [i \in {0} |-> 0]
  <2>1. Cuts(c, <<>>, <<>>, 0, 0)
    <3>1. Len(<<>>) = 0 /\ 0 .. 0 = {0} /\ 0 + 1 .. 0 = {}
      OBVIOUS
    <3>2. c \in [0 .. 0 -> Int] /\ c[0] = 0
      BY <3>1
    <3> HIDE DEF c
    <3> QED BY <3>1, <3>2 DEF Cuts
  <2> HIDE DEF c
  <2> QED BY <2>1 DEF Unread
<1>4. rx \o typing = <<>> /\ Len(acted) = 0
  BY <1>1
<1>5. Unread(sent, rx \o typing, Len(acted), 0)
  BY <1>1, <1>3, <1>4
<1> QED
  BY <1>1, <1>2, <1>5 DEF InOrder

\* A line typed, behind the others.
LEMMA InOrderType ==
  ASSUME TypeOK, InOrder, NEW line \in Lines, TypeLine(line)
  PROVE  InOrder'
<1>1. /\ rx \in Seq(Bytes) /\ sent \in Seq(Lines) /\ acted \in Seq(Texts)
      /\ typing = <<>> /\ typing' = Append(line, NL) /\ sent' = Append(sent, line)
      /\ rx' = rx /\ acted' = acted /\ phase' = phase /\ input' = input
  BY DEF TypeOK, TypeLine
<1>2. PICK j \in Nat :
        /\ Unread(sent, rx \o typing, Len(acted), j)
        /\ phase # "reading" => j = 0
        /\ phase = "reading" =>
             /\ Len(acted) + 1 \in 1 .. Len(sent)
             /\ j <= Len(sent[Len(acted) + 1])
             /\ ReadSoFar(sent[Len(acted) + 1], j, input)
  BY DEF InOrder
<1>3. rx \o typing = rx /\ Len(acted) \in Nat /\ Len(sent) \in Nat
  BY <1>1, ConcatEmptySeq
<1>4. Unread(sent', rx' \o typing', Len(acted'), j)
  BY <1>1, <1>2, <1>3, UnreadType
<1>5. Len(sent') = Len(sent) + 1 /\ \A i \in 1 .. Len(sent) : sent'[i] = sent[i]
  BY <1>1, AppendProperties
<1>6. Prefix(acted', sent')
  <2>1. Prefix(acted, sent)
    BY DEF InOrder
  <2>2. \A i \in 1 .. Len(acted) : i \in 1 .. Len(sent)
    BY <1>3, <2>1 DEF Prefix
  <2> QED BY <1>1, <1>3, <1>5, <2>1, <2>2 DEF Prefix
<1>7. ASSUME phase = "reading"
      PROVE  /\ Len(acted) + 1 \in 1 .. Len(sent')
             /\ sent'[Len(acted) + 1] = sent[Len(acted) + 1]
  BY <1>2, <1>3, <1>5, <1>7
<1> QED
  BY <1>1, <1>2, <1>4, <1>6, <1>7 DEF InOrder

\* A byte received is still unread.
LEMMA InOrderReceive ==
  ASSUME TypeOK, InOrder, Receive, clean'
  PROVE  InOrder'
<1>1. /\ rx \in Seq(Bytes) /\ typing \in Seq(Bytes) /\ typing # <<>>
      /\ typing' = Tail(typing) /\ rx' = Append(rx, Head(typing))
      /\ UNCHANGED <<sent, acted, phase, input>>
  BY DEF TypeOK, Receive
<1>2. Append(rx, Head(typing)) \o Tail(typing) = rx \o typing
  <2>1. Head(typing) \in Bytes /\ Tail(typing) \in Seq(Bytes) /\ <<Head(typing)>> \in Seq(Bytes)
    BY <1>1
  <2>2. Append(rx, Head(typing)) = rx \o <<Head(typing)>>
    BY <1>1, <2>1, AppendIsConcat
  <2>3. (rx \o <<Head(typing)>>) \o Tail(typing) = rx \o (<<Head(typing)>> \o Tail(typing))
    BY <1>1, <2>1, ConcatAssociative
  <2>4. <<Head(typing)>> \o Tail(typing) = typing
    BY <1>1, ConcatSimplifications, HeadTailProperties
  <2> QED BY <2>2, <2>3, <2>4
<1>3. rx' \o typing' = rx \o typing
  BY <1>1, <1>2
<1> QED
  BY <1>1, <1>3 DEF InOrder

\* A line begun: there are bytes only when there is a line to read.
LEMMA InOrderPoll ==
  ASSUME TypeOK, InOrder, Poll
  PROVE  InOrder'
<1>1. /\ rx \in Seq(Bytes) /\ typing \in Seq(Bytes) /\ sent \in Seq(Lines)
      /\ Len(acted) \in Nat /\ phase = "poll"
      /\ input' = Empty /\ phase' = (IF rx = <<>> THEN "calc" ELSE "reading")
      /\ UNCHANGED <<rx, typing, sent, acted>>
  BY DEF TypeOK, Poll
<1>2. Unread(sent, rx \o typing, Len(acted), 0) /\ Prefix(acted, sent)
  BY <1>1 DEF InOrder
<1>3. CASE rx = <<>>
  BY <1>1, <1>2, <1>3 DEF InOrder
<1>4. CASE rx # <<>>
  <2>1. rx \o typing \in Seq(Bytes) /\ rx \o typing # <<>>
    BY <1>1, <1>4, ConcatProperties, ConcatEqualIffEmpty
  <2>2. Len(acted) + 1 \in 1 .. Len(sent) /\ sent[Len(acted) + 1] \in Lines
    BY <1>1, <1>2, <2>1, UnreadNext
  <2>3. 0 <= Len(sent[Len(acted) + 1])
    BY <2>2, LineBytes
  <2>4. ReadSoFar(sent[Len(acted) + 1], 0, input')
    BY <1>1, ReadNone
  <2>5. phase' = "reading"
    BY <1>1, <1>4
  <2> QED BY <1>1, <1>2, <2>2, <2>3, <2>4, <2>5 DEF InOrder
<1> QED
  BY <1>3, <1>4

\* The head of what is unread, when the buffer is not empty.
LEMMA UnreadHead ==
  ASSUME TypeOK, rx # <<>>
  PROVE  /\ rx \o typing \in Seq(Bytes) /\ rx \o typing # <<>>
         /\ Head(rx \o typing) = Head(rx)
         /\ Tail(rx \o typing) = Tail(rx) \o typing
<1>1. rx \in Seq(Bytes) /\ typing \in Seq(Bytes)
  BY DEF TypeOK
<1> DEFINE whole == rx \o typing
<1>2. /\ whole \in Seq(Bytes) /\ Len(whole) = Len(rx) + Len(typing)
      /\ \A i \in 1 .. Len(rx) + Len(typing) :
           whole[i] = IF i <= Len(rx) THEN rx[i] ELSE typing[i - Len(rx)]
  BY <1>1, ConcatProperties
<1>3. Len(rx) \in Nat /\ Len(typing) \in Nat /\ Len(rx) >= 1 /\ rx[1] = Head(rx)
  BY <1>1
<1>4. /\ Tail(rx) \in Seq(Bytes) /\ Len(Tail(rx)) = Len(rx) - 1
      /\ \A i \in 1 .. Len(rx) - 1 : Tail(rx)[i] = rx[i + 1]
  BY <1>1
<1> HIDE DEF whole
<1>5. whole # <<>> /\ Head(whole) = whole[1] /\ 1 \in 1 .. Len(rx) + Len(typing)
  BY <1>2, <1>3
<1>6. /\ Tail(whole) \in Seq(Bytes) /\ Len(Tail(whole)) = Len(rx) + Len(typing) - 1
      /\ \A i \in 1 .. Len(rx) + Len(typing) - 1 : Tail(whole)[i] = whole[i + 1]
  BY <1>2, <1>5
<1>7. /\ Tail(rx) \o typing \in Seq(Bytes)
      /\ Len(Tail(rx) \o typing) = Len(rx) + Len(typing) - 1
      /\ \A i \in 1 .. Len(rx) + Len(typing) - 1 :
           (Tail(rx) \o typing)[i] =
             IF i <= Len(rx) - 1 THEN Tail(rx)[i] ELSE typing[i - (Len(rx) - 1)]
  <2>1. Len(Tail(rx)) + Len(typing) = Len(rx) + Len(typing) - 1
    BY <1>3, <1>4
  <2> QED BY <1>1, <1>4, <2>1, ConcatProperties
<1>8. ASSUME NEW i \in 1 .. Len(rx) + Len(typing) - 1
      PROVE  Tail(whole)[i] = (Tail(rx) \o typing)[i]
  <2>1. Tail(whole)[i] = whole[i + 1] /\ i + 1 \in 1 .. Len(rx) + Len(typing)
    BY <1>3, <1>6
  <2>2. CASE i <= Len(rx) - 1
    <3>1. i \in 1 .. Len(rx) - 1 /\ i + 1 <= Len(rx)
      BY <1>3, <2>2
    <3> QED BY <1>2, <1>4, <1>7, <2>1, <3>1
  <2>3. CASE ~(i <= Len(rx) - 1)
    <3>1. ~(i + 1 <= Len(rx)) /\ i + 1 - Len(rx) = i - (Len(rx) - 1)
      BY <1>3, <2>3
    <3> QED BY <1>2, <1>7, <2>1, <2>3, <3>1
  <2> QED BY <2>2, <2>3
<1>9. Tail(whole) = Tail(rx) \o typing
  BY <1>6, <1>7, <1>8, SeqEqual
<1>10. Head(whole) = Head(rx)
  BY <1>2, <1>3, <1>5
<1> QED
  BY <1>2, <1>5, <1>9, <1>10 DEF whole

\* A byte of the line read.
LEMMA InOrderReadByte ==
  ASSUME TypeOK, InOrder, ReadByte
  PROVE  InOrder'
<1>1. /\ sent \in Seq(Lines) /\ Len(acted) \in Nat /\ phase = "reading"
      /\ rx # <<>> /\ Head(rx) # NL
      /\ input' = Absorb(input, Head(rx)) /\ rx' = Tail(rx)
      /\ UNCHANGED <<typing, sent, acted, phase>>
  BY DEF TypeOK, ReadByte
<1> DEFINE line == sent[Len(acted) + 1]
<1>2. PICK j \in Nat :
        /\ Unread(sent, rx \o typing, Len(acted), j)
        /\ Len(acted) + 1 \in 1 .. Len(sent)
        /\ j <= Len(line)
        /\ ReadSoFar(line, j, input)
  BY <1>1 DEF InOrder
<1>3. line \in Lines /\ Head(rx) = Append(line, NL)[j + 1]
  BY <1>1, <1>2, UnreadHead, UnreadNext
<1> HIDE DEF line
<1>4. j + 1 <= Len(line) /\ Head(rx) = line[j + 1]
  <2>1. j # Len(line)
    BY <1>1, <1>3, LineBytes
  <2>2. Len(line) \in Nat
    BY <1>3, LineBytes
  <2>3. j + 1 \in 1 .. Len(line)
    BY <1>2, <2>1, <2>2
  <2> QED BY <1>3, <2>3, LineBytes
<1>5. ReadSoFar(line, j + 1, input')
  BY <1>1, <1>2, <1>4, ReadMore
<1>6. Unread(sent', rx' \o typing', Len(acted'), j + 1)
  BY <1>1, <1>2, UnreadHead, UnreadTail
<1> QED
  BY <1>1, <1>2, <1>4, <1>5, <1>6 DEF InOrder, line

\* A line read to its end and acted upon.
LEMMA InOrderEnd ==
  ASSUME TypeOK, InOrder, EndOfLine
  PROVE  InOrder'
<1>1. /\ sent \in Seq(Lines) /\ acted \in Seq(Texts) /\ Len(acted) \in Nat
      /\ phase = "reading" /\ rx # <<>> /\ Head(rx) = NL /\ input \in Texts
      /\ acted' = Append(acted, input) /\ rx' = Tail(rx) /\ phase' = "calc"
      /\ UNCHANGED <<typing, sent>>
  BY DEF TypeOK, EndOfLine, Act
<1> DEFINE line == sent[Len(acted) + 1]
<1>2. PICK j \in Nat :
        /\ Unread(sent, rx \o typing, Len(acted), j)
        /\ Len(acted) + 1 \in 1 .. Len(sent)
        /\ j <= Len(line)
        /\ ReadSoFar(line, j, input)
  BY <1>1 DEF InOrder
<1>3. line \in Lines /\ Head(rx) = Append(line, NL)[j + 1]
  BY <1>1, <1>2, UnreadHead, UnreadNext
<1> HIDE DEF line
<1>4. j = Len(line) /\ line \in Seq(Bytes)
  <2>1. Len(line) \in Nat /\ line \in Seq(Bytes)
    BY <1>3, LineBytes
  <2>2. ASSUME j # Len(line) PROVE FALSE
    <3>1. j + 1 \in 1 .. Len(line)
      BY <1>2, <2>1, <2>2
    <3> QED BY <1>1, <1>3, <3>1, LineBytes
  <2> QED BY <2>1, <2>2
<1>5. input = Parsed(line)
  BY <1>2, <1>4, ParsedIs
<1>6. Unread(sent, Tail(rx \o typing), Len(acted), Len(line) + 1)
  BY <1>1, <1>2, <1>4, UnreadHead, UnreadTail
<1>7. Unread(sent, Tail(rx) \o typing, Len(acted) + 1, 0)
  <2>1. Tail(rx \o typing) \in Seq(Bytes)
    BY <1>1, UnreadHead
  <2>2. Unread(sent, Tail(rx \o typing), Len(acted) + 1, 0)
    BY <1>1, <1>2, <1>6, <2>1, UnreadDone DEF line
  <2> QED BY <1>1, <2>2, UnreadHead
<1>8. /\ Len(acted') = Len(acted) + 1 /\ acted'[Len(acted) + 1] = input
      /\ \A i \in 1 .. Len(acted) : acted'[i] = acted[i]
  BY <1>1, AppendProperties
<1>9. Prefix(acted', sent')
  <2>1. Prefix(acted, sent)
    BY DEF InOrder
  <2>2. ASSUME NEW i \in 1 .. Len(acted) + 1
        PROVE  acted'[i] = Parsed(sent[i])
    <3>1. CASE i = Len(acted) + 1
      BY <1>5, <1>8, <3>1 DEF line
    <3>2. CASE i # Len(acted) + 1
      <4>1. i \in 1 .. Len(acted)
        BY <1>1, <3>2
      <4> QED BY <1>8, <2>1, <4>1 DEF Prefix
    <3> QED BY <3>1, <3>2
  <2>3. Len(acted) + 1 <= Len(sent)
    BY <1>1, <1>2
  <2> QED BY <1>1, <1>8, <2>2, <2>3 DEF Prefix
<1> QED
  BY <1>1, <1>7, <1>8, <1>9 DEF InOrder

\* Every step keeps the order, or leaves the run no longer clean.
LEMMA InOrderNext == TypeOK /\ CleanInOrder /\ [Next]_vars => CleanInOrder'
<1> SUFFICES ASSUME TypeOK, CleanInOrder, [Next]_vars, clean'
             PROVE  InOrder'
  BY DEF CleanInOrder
<1>1. clean
  BY DEF TypeOK, Next, Loop, TypeLine, Receive, Poll, ReadByte, EndOfLine, ReadTimeout,
         calc_voltages, vars
<1>2. InOrder
  BY <1>1 DEF CleanInOrder
<1>3. ASSUME NEW line \in Lines, TypeLine(line) PROVE InOrder'
  BY <1>2, <1>3, InOrderType
<1>4. CASE Receive
  BY <1>2, <1>4, InOrderReceive
<1>5. CASE Poll
  BY <1>2, <1>5, InOrderPoll
<1>6. CASE ReadByte
  BY <1>2, <1>6, InOrderReadByte
<1>7. CASE EndOfLine
  BY <1>2, <1>7, InOrderEnd
<1>8. CASE ReadTimeout
  BY <1>8 DEF ReadTimeout
<1>9. CASE calc_voltages
  <2>1. phase = "calc" /\ phase' = "poll" /\ UNCHANGED <<rx, typing, sent, acted>>
    BY <1>9 DEF calc_voltages
  <2> QED BY <1>2, <2>1 DEF InOrder
<1>10. CASE UNCHANGED vars
  <2>1. UNCHANGED <<rx, typing, input, phase, sent, acted>>
    BY <1>10 DEF vars
  <2> QED BY <1>2, <2>1 DEF InOrder
<1> QED
  BY <1>3, <1>4, <1>5, <1>6, <1>7, <1>8, <1>9, <1>10 DEF Next, Loop

\* A prefix by its elements is a prefix.
LEMMA InOrderIs == TypeOK /\ CleanInOrder => ActedInOrder
<1> SUFFICES ASSUME TypeOK, InOrder
             PROVE  IsPrefix(acted, [i \in DOMAIN sent |-> Parsed(sent[i])])
  BY DEF CleanInOrder, ActedInOrder
<1> DEFINE all == [i \in DOMAIN sent |-> Parsed(sent[i])]
<1>1. acted \in Seq(Texts) /\ sent \in Seq(Lines) /\ Prefix(acted, sent)
  BY DEF TypeOK, InOrder
<1>2. Len(acted) \in Nat /\ Len(sent) \in Nat /\ Len(acted) <= Len(sent)
      /\ DOMAIN sent = 1 .. Len(sent)
  BY <1>1 DEF Prefix
<1>3. Len(all) = Len(sent) /\ \A i \in 1 .. Len(sent) : all[i] = Parsed(sent[i])
  BY <1>2
<1> HIDE DEF all
<1>4. \A i \in 1 .. Len(acted) : all[i] = acted[i]
  <2>1. \A i \in 1 .. Len(acted) : i \in 1 .. Len(sent)
    BY <1>2
  <2> QED BY <1>1, <1>3, <2>1 DEF Prefix
<1>5. SubSeq(acted, 1, Len(acted)) = SubSeq(all, 1, Len(acted))
  <2> DEFINE n == Len(acted)
  <2>1. \A i \in 1 .. n : acted[i] \in Texts /\ all[i] \in Texts
    BY <1>1, <1>4
  <2>2. /\ n \in Int /\ 1 \in Int /\ n - 1 + 1 = n
        /\ (IF 1 <= n THEN n - 1 + 1 ELSE 0) = n
        /\ \A i \in 1 .. n : 1 + i - 1 = i
    BY <1>2
  <2> HIDE DEF n
  <2>3. /\ SubSeq(acted, 1, n) \in Seq(Texts) /\ Len(SubSeq(acted, 1, n)) = n
        /\ \A i \in 1 .. n : SubSeq(acted, 1, n)[i] = acted[i]
    BY <2>1, <2>2, SubSeqProperties
  <2>4. /\ SubSeq(all, 1, n) \in Seq(Texts) /\ Len(SubSeq(all, 1, n)) = n
        /\ \A i \in 1 .. n : SubSeq(all, 1, n)[i] = all[i]
    BY <2>1, <2>2, SubSeqProperties
  <2>5. SubSeq(acted, 1, n) = SubSeq(all, 1, n)
    BY <1>4, <2>3, <2>4, SeqEqual DEF n
  <2> QED BY <2>5 DEF n
<1> QED
  BY <1>2, <1>3, <1>5 DEF IsPrefix, all

\* Lines are acted upon one by one in the order typed, however their bytes
\* are spread over the rounds of the loop.
THEOREM ActedCorrect == Spec => []ActedInOrder
<1>1. Spec => []TypeOK
  BY TypeCorrect
<1>2. Init => CleanInOrder
  BY InOrderInit
<1>3. TypeOK /\ CleanInOrder /\ [Next]_vars => CleanInOrder'
  BY InOrderNext
<1>4. TypeOK /\ CleanInOrder => ActedInOrder
  BY InOrderIs
<1> QED
  BY <1>1, <1>2, <1>3, <1>4, PTL DEF Spec
=============================================================================
