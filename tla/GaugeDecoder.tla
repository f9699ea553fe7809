---------------------------- MODULE GaugeDecoder ----------------------------
(***************************************************************************)
(* The vacuum gauge's serial stream and the scripts that decode it         *)
(* (software/gauge.py, software/gauge_sound.py).  The gauge sends nine-    *)
(* byte frames without a pause; the script starts anywhere in one, reads   *)
(* two bytes at a time until it sees the magic pair 7, 5, then takes seven *)
(* more as the rest of the frame and checks their sum.                     *)
(***************************************************************************)
EXTENDS Integers, Sequences

CONSTANTS
  Sessions,    \* what the gauge may measure while a script runs: sets of
               \* readings <<status, error, high, low, version>>
  WireSize,    \* bound: bytes sent and not yet read
  MaxSkipped   \* bound: bytes skipped are counted up to here

ASSUME GaugeAssumption ==
  /\ \A readings \in Sessions : readings \subseteq [1 .. 5 -> 0 .. 255]
  /\ WireSize \in Nat /\ WireSize >= 9
  /\ MaxSkipped \in Nat

FrameLength == 9
Sum(bytes) ==
  LET upTo[n \in 0 .. Len(bytes)] == IF n = 0 THEN 0 ELSE upTo[n - 1] + bytes[n]
  IN  upTo[Len(bytes)]

\* The frame of a reading: length, page, the reading, sensor type, check sum.
Frame(reading) ==
  LET body == <<5>> \o reading \o <<10>> IN <<7>> \o body \o <<Sum(body) % 256>>

VARIABLES
  script,        \* which one runs: "gauge" or "gauge_sound"
  readings,      \* what the gauge may measure
  frame, place,  \* the frame being sent and the place of its next byte
  silent,        \* the gauge has stopped
  wire,          \* bytes sent and not yet read, each with its place in its frame
  input_string,  \* the bytes of the last read, with their places
  pc,            \* "magic", "rest", "report", "play" or "exited"
  skipped,       \* bytes read since the last report that were not part of it
  locked         \* a frame of the gauge has been reported

setting   == <<script, readings>>
gaugeVars == <<frame, place, silent>>
vars      == <<setting, gaugeVars, wire, input_string, pc, skipped, locked>>

Bytes(string) == [i \in DOMAIN string |-> string[i].byte]

Init ==
  /\ script \in {"gauge", "gauge_sound"}
  /\ readings \in Sessions
  /\ frame \in {Frame(r) : r \in readings}
  /\ place \in 1 .. FrameLength
  /\ silent = FALSE
  /\ wire = <<>>
  /\ input_string = <<>>
  /\ pc = "magic"
  /\ skipped = 0
  /\ locked = FALSE

-----------------------------------------------------------------------------
(* The gauge *)

SendByte ==
  /\ ~silent
  /\ Len(wire) < WireSize
  /\ wire' = Append(wire, [byte |-> frame[place], at |-> place])
  /\ \/ /\ place < FrameLength
        /\ place' = place + 1
        /\ UNCHANGED frame
     \/ /\ place = FrameLength
        /\ place' = 1
        /\ frame' \in {Frame(r) : r \in readings}
  /\ UNCHANGED <<setting, silent, input_string, pc, skipped, locked>>

FallSilent ==
  /\ ~silent
  /\ silent' = TRUE
  /\ UNCHANGED <<setting, frame, place, wire, input_string, pc, skipped, locked>>

-----------------------------------------------------------------------------
(* The script *)

\* gauge.read(n): n bytes, or the fewer that came before the time-out, which
\* only a gauge that has stopped makes expire.
Readable(n) == Len(wire) >= n \/ silent
Taken(n)    == SubSeq(wire, 1, IF Len(wire) < n THEN Len(wire) ELSE n)
Left(n)     == SubSeq(wire, Len(Taken(n)) + 1, Len(wire))

\* Slip: the second byte alone is taken for the magic pair.
MutIsMagic(string) == Len(string) = 2 /\ string[2].byte = 5

IsMagic(string) == Bytes(string) = <<7, 5>>

\* input_string[0] of an empty list, input_string[1] of a 7 alone
IndexError(string) == string = <<>> \/ Bytes(string) = <<7>>

Skip(n) == skipped' = IF skipped + n > MaxSkipped THEN MaxSkipped ELSE skipped + n

ReadMagic ==
  /\ pc = "magic"
  /\ Readable(2)
  /\ wire' = Left(2)
  /\ \/ /\ IsMagic(Taken(2))
        /\ pc' = "rest"
        /\ input_string' = Taken(2)
        /\ UNCHANGED skipped
     \/ /\ IndexError(Taken(2))
        /\ pc' = "exited"
        /\ UNCHANGED <<input_string, skipped>>
     \/ /\ ~IsMagic(Taken(2)) /\ ~IndexError(Taken(2))
        /\ Skip(Len(Taken(2)))
        /\ UNCHANGED <<pc, input_string>>
  /\ UNCHANGED <<setting, gaugeVars, locked>>

\* Slip: the sum takes in the length byte.
MutChecks(string) == Sum(SubSeq(Bytes(string), 1, 8)) % 256 = string[9].byte

Checks(string) == Sum(SubSeq(Bytes(string), 2, 8)) % 256 = string[9].byte

\* Slip: two bytes too many are read.
MutRest == FrameLength

Rest == FrameLength - 2

ReadRest ==
  /\ pc = "rest"
  /\ Readable(Rest)
  /\ wire' = Left(Rest)
  /\ LET string == input_string \o Taken(Rest) IN
     \/ /\ Len(string) < FrameLength          \* input_string[8] of a shorter list
        /\ pc' = "exited"
        /\ UNCHANGED <<input_string, skipped>>
     \/ /\ Len(string) >= FrameLength
        /\ Checks(string)
        /\ pc' = "report"
        /\ input_string' = string
        /\ UNCHANGED skipped
     \/ /\ Len(string) >= FrameLength
        /\ ~Checks(string)
        /\ pc' = "magic"
        /\ input_string' = <<>>
        /\ Skip(Len(string))
  /\ UNCHANGED <<setting, gaugeVars, locked>>

\* Nine bytes that were one frame of the gauge, not the end of one and the
\* start of the next.
Genuine(string) == \A i \in 1 .. FrameLength : string[i].at = i

\* The value is printed; gauge_sound.py goes on to play it.
Report ==
  /\ pc = "report"
  /\ pc' = IF script = "gauge_sound" THEN "play" ELSE "magic"
  /\ input_string' = <<>>
  /\ skipped' = 0
  /\ locked' = (locked \/ Genuine(input_string))
  /\ UNCHANGED <<setting, gaugeVars, wire>>

\* gauge.reset_input_buffer(), after as much as the gauge sent meanwhile.
ResetInput ==
  /\ pc = "play"
  /\ pc' = "magic"
  /\ wire' = <<>>
  /\ UNCHANGED <<setting, gaugeVars, input_string, skipped, locked>>

Script == ReadMagic \/ ReadRest \/ Report \/ ResetInput
Next   == SendByte \/ FallSilent \/ Script

Spec == Init /\ [][Next]_vars

\* The script runs; the gauge sends on unless it stops for good.
FairSpec == Spec /\ WF_vars(Script) /\ WF_vars(SendByte)

-----------------------------------------------------------------------------
TypeOK ==
  /\ script \in {"gauge", "gauge_sound"} /\ readings \in Sessions
  /\ frame \in {Frame(r) : r \in readings} /\ place \in 1 .. FrameLength
  /\ silent \in BOOLEAN /\ locked \in BOOLEAN
  /\ wire \in Seq([byte : 0 .. 255, at : 1 .. FrameLength]) /\ Len(wire) <= WireSize
  /\ pc \in {"magic", "rest", "report", "play", "exited"}
  /\ Len(input_string) \in {0, 2, FrameLength}
  /\ skipped \in 0 .. MaxSkipped

\* The magic pair turns up inside a frame, or from one to the next.
Imitates(session) == \E r, t \in session : \E i \in 2 .. FrameLength :
  LET stream == Frame(r) \o Frame(t) IN stream[i] = 7 /\ stream[i + 1] = 5

\* The sessions in which it never does.
Plain == {session \in Sessions : ~Imitates(session)}

\* What is reported was one frame of the gauge.  The sum has eight bits and
\* cannot tell a frame from what a script out of step reads, so this is so in
\* two cases: the magic pair never turns up out of its place, or the script
\* keeps its input and has reported one frame of the gauge before.
GenuineOnly ==
  pc = "report" /\ (readings \in Plain \/ (script = "gauge" /\ locked)) => Genuine(input_string)

\* Wherever in a frame the script starts, or starts again once it has thrown
\* its input away, it skips sixteen bytes at most: nine being odd, if the pairs
\* miss the start of the next frame they meet the one after.
InStepWithinTwoFrames == readings \in Plain => skipped <= 2 * FrameLength - 2

\* Once it has reported a frame of the gauge, a script that keeps its input
\* skips nothing, whatever the readings imitate and wherever the gauge stops:
\* each frame sent is reported.
StaysInStep == script = "gauge" /\ locked => skipped = 0

\* A gauge that keeps sending is reported again and again.
KeepsReporting == readings \in Plain => <>silent \/ []<>(pc = "report")
=============================================================================
