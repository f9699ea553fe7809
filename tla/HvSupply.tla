------------------------------ MODULE HvSupply ------------------------------
(***************************************************************************)
(* The supply controller (firmware/firmware/firmware.ino): a loop that     *)
(* takes at most one command line from the serial port, then moves the     *)
(* medium supply's duty cycle a step towards its set voltage and writes    *)
(* both duty cycles.  The host types lines E (stop), H<n> (high-voltage    *)
(* duty) and M<n> (medium set voltage), whose bytes wait in the receive    *)
(* buffer while the loop is busy.                                          *)
(***************************************************************************)
EXTENDS Integers, Sequences, SequencesExt

CONSTANTS
  MedLimit, HvLimit,   \* the constrain() limits (160 and 20)
  RxSize,              \* bytes the receive buffer holds (63)
  IntHalf, LongHalf,   \* int holds -IntHalf .. IntHalf - 1 (2^15), long likewise (2^31)
  Plant,               \* what analogRead(A0) may return at each duty of pin 3
  Lines,               \* the lines the host types, each without its newline
  MaxLines             \* bound: lines the host types in all

\* The bytes of the protocol, and 0 for "no byte yet".
NL == 10
E  == 69
H  == 72
M  == 77
MINUS == 45
Letters == {E, H, M}
Digits  == 48 .. 57
NoByte  == 0
Bytes   == Letters \cup Digits \cup {MINUS, NL}

\* A line as parsed: its first byte, the sign and the digits of its number, and
\* what of the number the next byte may still be.
Texts == [letter : Bytes \cup {NoByte}, minus : BOOLEAN, value : Nat,
          open : {"sign", "digits", "closed"}]

ASSUME HvSupplyAssumption ==
  /\ {MedLimit, HvLimit, RxSize, IntHalf, LongHalf} \subseteq Nat \ {0}
  /\ HvLimit < IntHalf /\ IntHalf <= LongHalf
  /\ Plant \in [0 .. MedLimit -> SUBSET Nat]
  /\ Lines \subseteq Seq(Bytes \ {NL}) \ {<<>>}
  /\ \A line \in Lines : Head(line) \in Letters
  /\ MaxLines \in Nat

VARIABLES
  rx,                       \* the receive buffer
  typing,                   \* what is left of the line the host is typing
  input,                    \* what readStringUntil has read, as parsed
  phase,                    \* "poll", "reading" or "calc"
  med_set_voltage,
  med_switch_duty, hv_switch_duty,
  pin3, pin11,              \* the duty cycles last written
  sent, acted,              \* lines typed, and lines acted upon
  clean                     \* no byte was dropped, no line cut by the time-out

duties == <<med_switch_duty, hv_switch_duty, pin3, pin11>>
vars   == <<rx, typing, input, phase, med_set_voltage, duties, sent, acted, clean>>

-----------------------------------------------------------------------------
(* input[0] and input.substring(1).toInt(), a byte at a time: toInt takes    *)
(* a sign and the digits up to the first byte that is not one.               *)

Empty == [letter |-> NoByte, minus |-> FALSE, value |-> 0, open |-> "sign"]

Absorb(text, byte) ==
  CASE text.letter = NoByte -> [text EXCEPT !.letter = byte]
    [] text.letter # NoByte /\ text.open # "closed" /\ byte \in Digits ->
         [text EXCEPT !.value = 10 * @ + byte - 48, !.open = "digits"]
    [] text.letter # NoByte /\ text.open = "sign" /\ byte = MINUS ->
         [text EXCEPT !.minus = TRUE, !.open = "digits"]
    [] OTHER -> [text EXCEPT !.open = "closed"]

\* The number as written.
Number(text) == IF text.minus THEN -text.value ELSE text.value

Ints == -IntHalf .. IntHalf - 1

\* Slip: the number taken for an unsigned one.
MutWrapped(v, half) == v % (2 * half)

\* What an integer type of -half .. half - 1 makes of it: atol computes in long,
\* an assignment cuts off the bits that do not fit.
Wrapped(v, half) == ((v + half) % (2 * half)) - half

toInt(text) == Wrapped(Number(text), LongHalf)

Parsed(line) ==
  LET upTo[n \in 0 .. Len(line)] ==
        IF n = 0 THEN Empty ELSE Absorb(upTo[n - 1], line[n])
  IN  upTo[Len(line)]

Init ==
  /\ rx = <<>> /\ typing = <<>>
  /\ input = Empty /\ phase = "poll"
  /\ med_set_voltage = 0
  /\ med_switch_duty = 0 /\ hv_switch_duty = 0
  /\ pin3 = 0 /\ pin11 = 0
  /\ sent = <<>> /\ acted = <<>> /\ clean = TRUE

-----------------------------------------------------------------------------
(* The host and the receive interrupt *)

TypeLine(line) ==
  /\ typing = <<>>
  /\ Len(sent) < MaxLines
  /\ typing' = Append(line, NL)
  /\ sent' = Append(sent, line)
  /\ UNCHANGED <<rx, input, phase, med_set_voltage, duties, acted, clean>>

\* A byte arrives; when the buffer is full it is dropped.
Receive ==
  /\ typing # <<>>
  /\ typing' = Tail(typing)
  /\ \/ /\ Len(rx) < RxSize
        /\ rx' = Append(rx, Head(typing))
        /\ UNCHANGED clean
     \/ /\ Len(rx) = RxSize
        /\ clean' = FALSE
        /\ UNCHANGED rx
  /\ UNCHANGED <<sent, input, phase, med_set_voltage, duties, acted>>

-----------------------------------------------------------------------------
(* The loop *)

\* Slip: what the last line left is not cleared.
MutPoll ==
  /\ phase = "poll"
  /\ phase' = IF rx = <<>> THEN "calc" ELSE "reading"
  /\ UNCHANGED <<rx, typing, input, med_set_voltage, duties, sent, acted, clean>>

\* if(Serial.available())
Poll ==
  /\ phase = "poll"
  /\ phase' = IF rx = <<>> THEN "calc" ELSE "reading"
  /\ input' = Empty
  /\ UNCHANGED <<rx, typing, med_set_voltage, duties, sent, acted, clean>>

ReadByte ==
  /\ phase = "reading"
  /\ rx # <<>>
  /\ Head(rx) # NL
  /\ input' = Absorb(input, Head(rx))
  /\ rx' = Tail(rx)
  /\ UNCHANGED <<typing, phase, med_set_voltage, duties, sent, acted, clean>>

\* Slip: 'E' writes the pins and forgets the high-voltage duty.
MutStop ==
  /\ pin11' = 0 /\ med_switch_duty' = 0 /\ pin3' = 0
  /\ med_set_voltage' = 0
  /\ UNCHANGED hv_switch_duty

Stop ==
  /\ hv_switch_duty' = 0 /\ pin11' = 0
  /\ med_switch_duty' = 0 /\ pin3' = 0
  /\ med_set_voltage' = 0

\* The three ifs on input[0].
Act ==
  /\ acted' = Append(acted, input)
  /\ \/ input.letter = E /\ Stop
     \/ /\ input.letter = H
        /\ hv_switch_duty' = Wrapped(toInt(input), IntHalf)
        /\ UNCHANGED <<med_set_voltage, med_switch_duty, pin3, pin11>>
     \/ /\ input.letter = M
        /\ med_set_voltage' = toInt(input)
        /\ UNCHANGED duties
     \/ /\ input.letter \notin Letters
        /\ UNCHANGED <<med_set_voltage, duties>>

EndOfLine ==
  /\ phase = "reading"
  /\ rx # <<>>
  /\ Head(rx) = NL
  /\ rx' = Tail(rx)
  /\ phase' = "calc"
  /\ Act
  /\ UNCHANGED <<typing, input, sent, clean>>

\* readStringUntil gives up a second after the last byte.
ReadTimeout ==
  /\ phase = "reading"
  /\ rx = <<>>
  /\ phase' = "calc"
  /\ clean' = FALSE
  /\ Act
  /\ UNCHANGED <<rx, typing, input, sent>>

Constrain(x, low, high) == IF x < low THEN low ELSE IF x > high THEN high ELSE x

\* int(analogRead(A0) * 1.044)
Scaled(reading) == (reading * 1044) \div 1000

\* int(med_set_voltage): undefined where int cannot hold it.
SetPoints == IF med_set_voltage \in Ints THEN {med_set_voltage} ELSE Ints

\* Slip: the comparison the other way round.
MutStepped(reading, set) ==
  IF Scaled(reading) < set THEN med_switch_duty - 1 ELSE med_switch_duty + 1

Stepped(reading, set) ==
  IF Scaled(reading) > set THEN med_switch_duty - 1 ELSE med_switch_duty + 1

\* Slip: the pins are written before the limits are applied.
MutCalcVoltages ==
  /\ phase = "calc"
  /\ phase' = "poll"
  /\ \E reading \in Plant[pin3], set \in SetPoints :
       /\ pin3' = Stepped(reading, set)
       /\ med_switch_duty' = Constrain(Stepped(reading, set), 0, MedLimit)
  /\ pin11' = hv_switch_duty
  /\ hv_switch_duty' = Constrain(hv_switch_duty, 0, HvLimit)
  /\ UNCHANGED <<rx, typing, input, med_set_voltage, sent, acted, clean>>

\* calc_voltages, and the delay that lets the plant follow.
calc_voltages ==
  /\ phase = "calc"
  /\ phase' = "poll"
  /\ \E reading \in Plant[pin3], set \in SetPoints :
       med_switch_duty' = Constrain(Stepped(reading, set), 0, MedLimit)
  /\ pin3' = med_switch_duty'
  /\ hv_switch_duty' = Constrain(hv_switch_duty, 0, HvLimit)
  /\ pin11' = hv_switch_duty'
  /\ UNCHANGED <<rx, typing, input, med_set_voltage, sent, acted, clean>>

Loop == Poll \/ ReadByte \/ EndOfLine \/ ReadTimeout \/ calc_voltages
Next == (\E line \in Lines : TypeLine(line)) \/ Receive \/ Loop

Spec == Init /\ [][Next]_vars

\* The loop runs, and the bytes of a line begun arrive.
FairSpec == Spec /\ WF_vars(Loop) /\ WF_vars(Receive)

-----------------------------------------------------------------------------
TypeOK ==
  /\ rx \in Seq(Bytes) /\ Len(rx) <= RxSize
  /\ typing \in Seq(Bytes)
  /\ input \in Texts
  /\ phase \in {"poll", "reading", "calc"}
  /\ med_set_voltage \in -LongHalf .. LongHalf - 1
  /\ med_switch_duty \in 0 .. MedLimit /\ hv_switch_duty \in Ints
  /\ pin3 \in 0 .. MedLimit /\ pin11 \in 0 .. HvLimit
  /\ sent \in Seq(Lines) /\ acted \in Seq(Texts) /\ clean \in BOOLEAN

\* The lines acted upon that are about the high voltage.
HvOrders == {i \in DOMAIN acted : acted[i].letter \in {E, H}}

\* The duties such a line asks for: a number is brought within the limits; of one
\* that int cannot hold only the limits are promised.
Asked(text) ==
  IF text.letter = E THEN {0}
  ELSE IF Number(text) \in Ints THEN {Constrain(Number(text), 0, HvLimit)}
  ELSE 0 .. HvLimit

\* Between two rounds of the loop pin 11 has the duty the last E or H line asks for,
\* negative and oversized numbers and those of cut and mangled lines included, no
\* matter how many M lines, time-outs and rounds came after it.
HvAsCommanded ==
  phase # "calc" =>
    \/ HvOrders = {} /\ pin11 = 0
    \/ \E i \in HvOrders : (\A j \in HvOrders : j <= i) /\ pin11 \in Asked(acted[i])

\* The high-voltage duty is raised only by the H line acted upon last: a stop
\* is not undone by the controller itself, however many loops later.
HvRisesOnlyOnCommand ==
  [][pin11' > pin11 => acted # <<>> /\ Last(acted).letter = H]_vars

\* As long as no byte is dropped and no line is cut, lines are acted upon one
\* by one in the order typed.
ActedInOrder == clean => IsPrefix(acted, [i \in DOMAIN sent |-> Parsed(sent[i])])

\* A stop typed last is acted upon, behind whatever is queued before it, and
\* leaves the high voltage off for good, unless a byte was lost on the way.
StopHolds ==
  <>[](clean /\ sent # <<>> /\ Head(Last(sent)) = E => pin11 = 0 /\ hv_switch_duty = 0)

\* The duties at which the plant may read not above, or above, the set voltage.
MayRise ==
  {d \in 0 .. MedLimit : \E r \in Plant[d], set \in SetPoints : Scaled(r) <= set}
MayFall ==
  {d \in 0 .. MedLimit : \E r \in Plant[d], set \in SetPoints : Scaled(r) > set}

\* Once the host is quiet the duty cycle settles next to where the plant
\* crosses the set voltage, or at the limit it is driven to.
Settled ==
  /\ \E d \in MayRise \cup {0} : pin3 <= d + 1
  /\ \E d \in MayFall \cup {MedLimit} : pin3 >= d - 1
Regulates == <>[]Settled
=============================================================================
