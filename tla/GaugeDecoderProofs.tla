------------------------- MODULE GaugeDecoderProofs -------------------------
(***************************************************************************)
(* What the gauge's scripts keep to, proved for every set of readings, in  *)
(* particular those whose bytes imitate the start of a frame, and every    *)
(* size of the buffer.                                                     *)
(*                                                                         *)
(* The bytes a script has in hand and those waiting are one piece of the   *)
(* stream the gauge sends (Framed), so that the place of the first of them *)
(* in its frame (First) follows from how many there are, and a read only   *)
(* moves it.                                                               *)
(***************************************************************************)
EXTENDS GaugeDecoder, SequenceTheorems, TLAPS

Byte     == 0 .. 255
Received == [byte : Byte, at : 1 .. FrameLength]

-----------------------------------------------------------------------------
(* Frames *)

\* A function on the first n numbers is a sequence of length n.
LEMMA FunctionIsSequence ==
  ASSUME NEW S, NEW n \in Nat, NEW s \in [1 .. n -> S]
  PROVE  s \in Seq(S) /\ Len(s) = n
<1>1. s \in Seq(S)
  BY SeqDef
<1>2. Len(s) \in Nat /\ DOMAIN s = 1 .. Len(s) /\ DOMAIN s = 1 .. n
  BY <1>1, LenProperties
<1>3. CASE Len(s) < n
  <2>1. n \in 1 .. n /\ n \notin 1 .. Len(s)
    BY <1>2, <1>3
  <2> QED BY <1>2, <2>1
<1>4. CASE n < Len(s)
  <2>1. Len(s) \in 1 .. Len(s) /\ Len(s) \notin 1 .. n
    BY <1>2, <1>4
  <2> QED BY <1>2, <2>1
<1> QED BY <1>1, <1>2, <1>3, <1>4

\* t is s with x before it, or after it, as built and as seen.
IsBefore(x, s, t) == t = <<x>> \o s
IsAfter(x, s, t)  == t = s \o <<x>>

SeenBefore(x, s, t) ==
  /\ t \in Seq(Byte) /\ Len(t) = Len(s) + 1
  /\ t[1] = x /\ \A i \in 1 .. Len(s) : t[i + 1] = s[i]

SeenAfter(x, s, t) ==
  /\ t \in Seq(Byte) /\ Len(t) = Len(s) + 1
  /\ t[Len(s) + 1] = x /\ \A i \in 1 .. Len(s) : t[i] = s[i]

\* An element before a sequence.
LEMMA Prepend ==
  ASSUME NEW x \in Byte, NEW s \in Seq(Byte), NEW t, IsBefore(x, s, t)
  PROVE  SeenBefore(x, s, t)
<1>1. <<x>> \in Seq(Byte) /\ Len(<<x>>) = 1 /\ <<x>>[1] = x
  OBVIOUS
<1>2. Len(s) \in Nat
  BY LenProperties
<1>3. /\ t \in Seq(Byte) /\ Len(t) = 1 + Len(s)
      /\ \A i \in 1 .. 1 + Len(s) : t[i] = IF i <= 1 THEN <<x>>[i] ELSE s[i - 1]
  BY <1>1, ConcatProperties DEF IsBefore
<1>4. t[1] = x
  BY <1>1, <1>2, <1>3
<1>5. ASSUME NEW i \in 1 .. Len(s) PROVE t[i + 1] = s[i]
  <2>1. i + 1 \in 1 .. 1 + Len(s) /\ ~(i + 1 <= 1) /\ i + 1 - 1 = i
    BY <1>2
  <2>2. t[i + 1] = s[i + 1 - 1]
    BY <1>3, <2>1
  <2> QED BY <2>1, <2>2
<1> QED BY <1>2, <1>3, <1>4, <1>5 DEF SeenBefore

\* The sum of seven bytes is a number.
LEMMA SumType ==
  ASSUME NEW s \in [1 .. 7 -> Nat]
  PROVE  Sum(s) \in Nat
<1> DEFINE F(f) == [n \in 0 .. Len(s) |-> IF n = 0 THEN 0 ELSE f[n - 1] + s[n]]
           upTo == CHOOSE f : f = F(f)
<1>1. Sum(s) = upTo[Len(s)]
  BY DEF Sum
<1>2. Len(s) = 7
  BY FunctionIsSequence
<1> DEFINE a1 == s[1]
           a2 == a1 + s[2]
           a3 == a2 + s[3]
           a4 == a3 + s[4]
           a5 == a4 + s[5]
           a6 == a5 + s[6]
           a7 == a6 + s[7]
           g == [n \in 0 .. 7 |-> CASE n = 0 -> 0 [] n = 1 -> a1 [] n = 2 -> a2
                  [] n = 3 -> a3 [] n = 4 -> a4 [] n = 5 -> a5 [] n = 6 -> a6 [] n = 7 -> a7]
<1>3. /\ g[0] = 0 /\ g[1] = a1 /\ g[2] = a2 /\ g[3] = a3 /\ g[4] = a4 /\ g[5] = a5
      /\ g[6] = a6 /\ g[7] = a7
  OBVIOUS
<1>4. \A i \in 1 .. 7 : s[i] \in Nat
  OBVIOUS
<1>5. /\ a1 = 0 + s[1] /\ a2 = a1 + s[2] /\ a3 = a2 + s[3] /\ a4 = a3 + s[4] /\ a5 = a4 + s[5]
      /\ a6 = a5 + s[6] /\ a7 = a6 + s[7]
      /\ a7 \in Nat
  BY <1>4
<1>6. g = F(g)
  <2>1. g = [n \in 0 .. 7 |-> g[n]]
    OBVIOUS
  <2> HIDE DEF a1, a2, a3, a4, a5, a6, a7, g
  <2>2. \A n \in 0 .. 7 : g[n] = IF n = 0 THEN 0 ELSE g[n - 1] + s[n]
    BY <1>3, <1>5
  <2> QED BY <1>2, <2>1, <2>2
<1>7. upTo = F(upTo)
  BY <1>6
<1> HIDE DEF upTo
<1>8. \A n \in 0 .. 7 : upTo[n] = IF n = 0 THEN 0 ELSE upTo[n - 1] + s[n]
  BY <1>2, <1>7
<1>9. /\ upTo[0] = 0 /\ upTo[1] = 0 + s[1] /\ upTo[2] = upTo[1] + s[2]
      /\ upTo[3] = upTo[2] + s[3] /\ upTo[4] = upTo[3] + s[4] /\ upTo[5] = upTo[4] + s[5]
      /\ upTo[6] = upTo[5] + s[6] /\ upTo[7] = upTo[6] + s[7]
  BY <1>8
<1>10. upTo[7] \in Nat
  BY <1>4, <1>9
<1> QED BY <1>1, <1>2, <1>10

\* An element after a sequence.
LEMMA PutLast ==
  ASSUME NEW x \in Byte, NEW s \in Seq(Byte), NEW t, IsAfter(x, s, t)
  PROVE  SeenAfter(x, s, t)
<1>1. t = Append(s, x)
  BY AppendIsConcat DEF IsAfter
<1> QED BY <1>1, AppendProperties DEF SeenAfter

\* A frame less its ends, and a whole one.
SeenBody(b, body) == body \in [1 .. 7 -> Byte] /\ body[1] = b

SeenWhole(a, body, d, f) ==
  /\ f \in [1 .. 9 -> Byte]
  /\ f[1] = a /\ f[2] = body[1] /\ f[9] = d
  /\ SubSeq(f, 2, 8) = body

\* A byte at either end of five others.
LEMMA BodyShape ==
  ASSUME NEW b \in Byte, NEW c \in Byte, NEW r \in Seq(Byte), Len(r) = 5,
         NEW t, IsBefore(b, r, t), NEW body, IsAfter(c, t, body)
  PROVE  SeenBody(b, body)
<1>1. SeenBefore(b, r, t)
  BY Prepend
<1>2. t \in Seq(Byte)
  BY <1>1 DEF SeenBefore
<1>3. SeenAfter(c, t, body)
  BY <1>2, PutLast
<1>4. Len(t) = 6 /\ Len(body) = 7 /\ 1 \in 1 .. Len(t) /\ body \in Seq(Byte)
  BY <1>1, <1>3 DEF SeenBefore, SeenAfter
<1>5. body[1] = b
  BY <1>1, <1>3, <1>4 DEF SeenBefore, SeenAfter
<1>6. body \in [1 .. Len(body) -> Byte]
  BY <1>4, LenProperties, Zenon
<1> QED BY <1>4, <1>5, <1>6, Zenon DEF SeenBody

\* A byte at either end of seven others.
LEMMA WholeShape ==
  ASSUME NEW a \in Byte, NEW d \in Byte, NEW body \in [1 .. 7 -> Byte],
         NEW t, IsBefore(a, body, t), NEW f, IsAfter(d, t, f)
  PROVE  SeenWhole(a, body, d, f)
<1>1. body \in Seq(Byte) /\ Len(body) = 7
  BY FunctionIsSequence
<1>2. t \in Seq(Byte) /\ Len(t) = 8 /\ t[1] = a /\ \A i \in 1 .. 7 : t[i + 1] = body[i]
  <2>1. SeenBefore(a, body, t)
    BY <1>1, Prepend
  <2> QED BY <1>1, <2>1 DEF SeenBefore
<1>3. /\ f \in Seq(Byte) /\ Len(f) = 9 /\ f[9] = d
      /\ \A i \in 1 .. 8 : f[i] = t[i]
  <2>1. SeenAfter(d, t, f)
    BY <1>2, PutLast
  <2> QED BY <1>2, <2>1 DEF SeenAfter
<1>4. f \in [1 .. 9 -> Byte]
  <2>1. f \in [1 .. Len(f) -> Byte]
    BY <1>3, LenProperties, Zenon
  <2> QED BY <1>3, <2>1, Zenon
<1>5. f[1] = a /\ f[2] = body[1]
  <2>1. t[1 + 1] = body[1]
    BY <1>2
  <2> QED BY <1>2, <1>3, <2>1
<1>6. SubSeq(f, 2, 8) = body
  <2>1. \A i \in 2 .. 8 : f[i] \in Byte
    BY <1>4
  <2>2. /\ SubSeq(f, 2, 8) \in Seq(Byte)
        /\ Len(SubSeq(f, 2, 8)) = 7
        /\ \A i \in 1 .. 7 : SubSeq(f, 2, 8)[i] = f[2 + i - 1]
    BY <2>1, SubSeqProperties
  <2>3. ASSUME NEW i \in 1 .. 7 PROVE SubSeq(f, 2, 8)[i] = body[i]
    <3>1. 2 + i - 1 = i + 1 /\ i + 1 \in 1 .. 8
      OBVIOUS
    <3>2. t[i + 1] = body[i]
      BY <1>2
    <3> QED BY <1>3, <2>2, <3>1, <3>2
  <2> QED BY <1>1, <2>2, <2>3, SeqEqual
<1> QED BY <1>3, <1>4, <1>5, <1>6 DEF SeenWhole

\* A frame: nine bytes, the first two the magic pair, the last the sum of the
\* seven before it.
LEMMA FrameIs ==
  ASSUME NEW r \in [1 .. 5 -> Byte]
  PROVE  /\ Frame(r) \in [1 .. FrameLength -> Byte]
         /\ Frame(r)[1] = 7 /\ Frame(r)[2] = 5
         /\ Frame(r)[9] = Sum(SubSeq(Frame(r), 2, 8)) % 256
<1>1. r \in Seq(Byte) /\ Len(r) = 5
  BY FunctionIsSequence
<1>2. 5 \in Byte /\ 10 \in Byte /\ 7 \in Byte
  BY DEF Byte
<1>3. PICK t, body : IsBefore(5, r, t) /\ IsAfter(10, t, body)
  BY DEF IsBefore, IsAfter
<1>4. body \in [1 .. 7 -> Byte] /\ body[1] = 5
  <2>1. SeenBody(5, body)
    BY <1>1, <1>2, <1>3, BodyShape
  <2> QED BY <2>1 DEF SeenBody
<1>5. Sum(body) % 256 \in Byte
  <2>1. body \in [1 .. 7 -> Nat]
    <3>1. Byte \subseteq Nat
      BY DEF Byte
    <3>2. \A j \in 1 .. 7 : body[j] \in Nat
      BY <1>4, <3>1
    <3> QED BY <1>4, <3>2
  <2>2. Sum(body) \in Nat
    BY <2>1, SumType
  <2> QED BY <2>2 DEF Byte
<1>6. PICK check : check = Sum(body) % 256
  OBVIOUS
<1>7. PICK u, f : IsBefore(7, body, u) /\ IsAfter(check, u, f)
  BY DEF IsBefore, IsAfter
<1>8. check \in Byte
  BY <1>5, <1>6
<1>9. /\ f \in [1 .. 9 -> Byte] /\ f[1] = 7 /\ f[2] = body[1] /\ f[9] = check
      /\ SubSeq(f, 2, 8) = body
  <2>1. SeenWhole(7, body, check, f)
    BY <1>2, <1>4, <1>7, <1>8, WholeShape
  <2> QED BY <2>1 DEF SeenWhole
<1>10. Frame(r) = f
  BY <1>3, <1>6, <1>7, Zenon DEF Frame, IsBefore, IsAfter
<1> QED BY <1>4, <1>6, <1>9, <1>10 DEF FrameLength

-----------------------------------------------------------------------------
(* The stream *)

\* The bytes of s from index b on are those of the frame f, with their places.
Holds(s, b, f) ==
  \A j \in 1 .. Len(s) : j \in b .. b + 8 =>
     s[j].byte = f[j - b + 1] /\ s[j].at = j - b + 1

\* s is the last of the stream, of which f is the frame being sent and p the
\* place of its next byte; before it, frames of the readings R.
Framed(s, p, f, R) ==
  /\ Holds(s, Len(s) - p + 2, f)
  /\ \A k \in Nat \ {0} : \E r \in R : Holds(s, Len(s) - p + 2 - 9 * k, Frame(r))

\* The place of the first byte of s, or of the next one when s is empty.
First(s, p) == ((p - 1 - Len(s)) % 9) + 1

\* Nine bytes from place i on, of the frames of r and t.
Spans(s, i, r, t) ==
  \A j \in 1 .. Len(s) : j <= 9 =>
     IF i + j - 1 <= 9 THEN s[j].byte = Frame(r)[i + j - 1] /\ s[j].at = i + j - 1
     ELSE s[j].byte = Frame(t)[i + j - 10] /\ s[j].at = i + j - 10

\* Quotient and remainder.
LEMMA DivideByNine ==
  ASSUME NEW a \in Int
  PROVE  \E q \in Int, m \in 0 .. 8 : a = 9 * q + m /\ a % 9 = m
<1>1. a \div 9 \in Int
  OBVIOUS
<1>2. PICK q \in Int : q = a \div 9
  BY <1>1
<1>3. 9 * (a \div 9) <= a /\ a < 9 * (a \div 9) + 9
  OBVIOUS
<1>4. 9 * q <= a /\ a < 9 * q + 9
  BY <1>2, <1>3
<1>5. a - 9 * q \in 0 .. 8
  BY <1>4
<1>6. PICK m \in 0 .. 8 : m = a - 9 * q
  BY <1>5
<1>7. a = 9 * q + m
  BY <1>6
<1>8. a % 9 = m
  BY <1>7
<1> QED BY <1>7, <1>8, Zenon

\* The place of the first byte is a place.
LEMMA FirstType ==
  ASSUME NEW s \in Seq(Received), NEW p \in 1 .. 9
  PROVE  First(s, p) \in 1 .. 9
<1>1. p - 1 - Len(s) \in Int
  BY LenProperties
<1>2. (p - 1 - Len(s)) % 9 \in 0 .. 8
  BY <1>1
<1> QED BY <1>2 DEF First

\* What s starts with: the rest of one frame, and the next.
LEMMA StartsWith ==
  ASSUME NEW s \in Seq(Received), NEW p \in 1 .. 9, NEW R, NEW f,
         \E r \in R : f = Frame(r), Framed(s, p, f, R)
  PROVE  \E r, t \in R : Spans(s, First(s, p), r, t)
<1> DEFINE b == Len(s) - p + 2
           a == p - 1 - Len(s)
           i == First(s, p)
<1>1. Len(s) \in Nat
  BY LenProperties
<1>2. a \in Int /\ a <= 8 /\ b = 1 - a
  BY <1>1
<1>3. PICK q \in Int, m \in 0 .. 8 : a = 9 * q + m /\ a % 9 = m
  BY <1>2, DivideByNine
<1>4. i = m + 1
  BY <1>3 DEF First
<1> DEFINE k == 0 - q
<1> HIDE DEF a, i
<1>5. k \in Nat /\ b - 9 * k = 2 - i /\ i \in 1 .. 9
  BY <1>2, <1>3, <1>4
<1>6. \A n \in Nat : \E r \in R : Holds(s, b - 9 * n, Frame(r))
  <2>1. ASSUME NEW n \in Nat PROVE \E r \in R : Holds(s, b - 9 * n, Frame(r))
    <3>1. CASE n = 0
      <4>1. b - 9 * n = b
        BY <1>1, <3>1
      <4>2. PICK r \in R : f = Frame(r)
        OBVIOUS
      <4> HIDE DEF b
      <4> QED BY <4>1, <4>2 DEF Framed, b
    <3>2. CASE n # 0
      <4>1. n \in Nat \ {0}
        BY <3>2
      <4> QED BY <4>1 DEF Framed
    <3> QED BY <3>1, <3>2
  <2> QED BY <2>1
<1> HIDE DEF b, k
<1>7. PICK r \in R : Holds(s, b - 9 * k, Frame(r))
  BY <1>5, <1>6
<1>8. ASSUME NEW j \in 1 .. Len(s), j <= 9, i + j - 1 <= 9
      PROVE  s[j].byte = Frame(r)[i + j - 1] /\ s[j].at = i + j - 1
  <2>1. Holds(s, 2 - i, Frame(r))
    BY <1>5, <1>7
  <2>2. j \in 2 - i .. 2 - i + 8
    BY <1>1, <1>5, <1>8
  <2>3. j - (2 - i) + 1 = i + j - 1
    BY <1>1, <1>5
  <2>4. s[j].byte = Frame(r)[j - (2 - i) + 1] /\ s[j].at = j - (2 - i) + 1
    BY <2>1, <2>2 DEF Holds
  <2> QED BY <2>3, <2>4
<1>9. CASE k = 0
  <2>1. ASSUME NEW j \in 1 .. Len(s) PROVE i + j - 1 <= 9
    <3>1. Len(s) - p + 2 = 2 - i
      BY <1>1, <1>5, <1>9 DEF b
    <3> QED BY <1>1, <1>5, <2>1, <3>1
  <2> QED BY <1>8, <2>1 DEF Spans, i
<1>10. CASE k # 0
  <2>1. k - 1 \in Nat
    BY <1>5, <1>10
  <2>2. PICK t \in R : Holds(s, b - 9 * (k - 1), Frame(t))
    BY <1>6, <2>1
  <2>3. b - 9 * (k - 1) = 11 - i
    BY <1>1, <1>5 DEF b
  <2>4. Holds(s, 11 - i, Frame(t))
    BY <2>2, <2>3
  <2>5. ASSUME NEW j \in 1 .. Len(s), j <= 9, ~(i + j - 1 <= 9)
        PROVE  s[j].byte = Frame(t)[i + j - 10] /\ s[j].at = i + j - 10
    <3>1. j \in 11 - i .. 11 - i + 8 /\ j - (11 - i) + 1 = i + j - 10
      BY <1>1, <1>5, <2>5
    <3>2. s[j].byte = Frame(t)[j - (11 - i) + 1] /\ s[j].at = j - (11 - i) + 1
      BY <2>4, <3>1 DEF Holds
    <3> QED BY <3>1, <3>2
  <2>6. Spans(s, i, r, t)
    BY <1>8, <2>5 DEF Spans
  <2> QED BY <2>6 DEF i
<1> QED BY <1>9, <1>10

\* t is s less its first n bytes.
Drops(s, n, t) ==
  /\ Len(s) = n + Len(t)
  /\ \A j \in 1 .. Len(t) : t[j] = s[j + n]

\* What is left when bytes are read is still the last of the stream.
LEMMA FramedDrops ==
  ASSUME NEW s \in Seq(Received), NEW t \in Seq(Received), NEW n \in Nat, Drops(s, n, t),
         NEW p \in 1 .. 9, NEW f, NEW R, Framed(s, p, f, R)
  PROVE  /\ Framed(t, p, f, R)
         /\ First(t, p) = ((First(s, p) - 1 + n) % 9) + 1
<1>1. Len(s) \in Nat /\ Len(t) \in Nat /\ Len(s) = n + Len(t)
  BY LenProperties DEF Drops
<1>2. ASSUME NEW b \in Int, NEW g, Holds(s, b, g)
      PROVE  Holds(t, b - n, g)
  <2>1. ASSUME NEW j \in 1 .. Len(t), j \in b - n .. b - n + 8
        PROVE  t[j].byte = g[j - (b - n) + 1] /\ t[j].at = j - (b - n) + 1
    <3>1. /\ j + n \in 1 .. Len(s) /\ j + n \in b .. b + 8
          /\ j + n - b + 1 = j - (b - n) + 1
      BY <1>1, <2>1
    <3>2. t[j] = s[j + n]
      BY DEF Drops
    <3>3. s[j + n].byte = g[j + n - b + 1] /\ s[j + n].at = j + n - b + 1
      BY <1>2, <3>1 DEF Holds
    <3> QED BY <3>1, <3>2, <3>3
  <2> QED BY <2>1 DEF Holds
<1>3. Holds(t, Len(t) - p + 2, f)
  <2>1. Len(s) - p + 2 \in Int /\ Len(s) - p + 2 - n = Len(t) - p + 2
    BY <1>1
  <2>2. Holds(s, Len(s) - p + 2, f)
    BY DEF Framed
  <2>3. Holds(t, Len(s) - p + 2 - n, f)
    BY <1>2, <2>1, <2>2
  <2> QED BY <2>1, <2>3
<1>4. ASSUME NEW k \in Nat \ {0}
      PROVE  \E r \in R : Holds(t, Len(t) - p + 2 - 9 * k, Frame(r))
  <2>1. PICK r \in R : Holds(s, Len(s) - p + 2 - 9 * k, Frame(r))
    BY DEF Framed
  <2>2. /\ Len(s) - p + 2 - 9 * k \in Int
        /\ Len(s) - p + 2 - 9 * k - n = Len(t) - p + 2 - 9 * k
    BY <1>1
  <2>3. Holds(t, Len(s) - p + 2 - 9 * k - n, Frame(r))
    BY <1>2, <2>1, <2>2
  <2> QED BY <2>2, <2>3
<1>5. First(t, p) = ((First(s, p) - 1 + n) % 9) + 1
  <2> DEFINE a == p - 1 - Len(s)
  <2>1. a \in Int /\ p - 1 - Len(t) = a + n
    BY <1>1
  <2> HIDE DEF a
  <2>2. (a + n) % 9 = ((a % 9) + n) % 9
    <3>1. PICK q \in Int, m \in 0 .. 8 : a = 9 * q + m /\ a % 9 = m
      BY <2>1, DivideByNine
    <3>2. PICK u \in Int, v \in 0 .. 8 : m + n = 9 * u + v /\ (m + n) % 9 = v
      BY <3>1, DivideByNine
    <3>3. a + n = 9 * (q + u) + v
      BY <3>1, <3>2
    <3>4. (a + n) % 9 = v
      BY <2>1, <3>2, <3>3
    <3> QED BY <3>1, <3>2, <3>4
  <2>3. First(s, p) - 1 = a % 9
    <3>1. a % 9 \in 0 .. 8
      BY <2>1
    <3> QED BY <3>1 DEF First, a
  <2> QED BY <2>1, <2>2, <2>3 DEF First
<1> QED BY <1>3, <1>4, <1>5 DEF Framed

\* t is s with x after it.
Adds(s, x, t) ==
  /\ Len(t) = Len(s) + 1 /\ t[Len(s) + 1] = x
  /\ \A j \in 1 .. Len(s) : t[j] = s[j]

\* t is the stream s with the byte x sent after it, the p-th of the frame f;
\* from then on q and g are the place and the frame.
Sends(s, x, t, p, f, R) ==
  /\ Adds(s, x, t)
  /\ x.byte = f[p] /\ x.at = p
  /\ Framed(s, p, f, R) /\ \E r \in R : f = Frame(r)

GoesOn(s, t, p, q, g, R) == Framed(t, q, g, R) /\ First(t, q) = First(s, p)

\* A byte sent, inside a frame or the last of one.
LEMMA FramedAdds ==
  ASSUME NEW s \in Seq(Received), NEW t \in Seq(Received), NEW x, NEW p \in 1 .. 9,
         NEW f, NEW R, Sends(s, x, t, p, f, R)
  PROVE  /\ p < 9 => GoesOn(s, t, p, p + 1, f, R)
         /\ p = 9 => \A g : GoesOn(s, t, p, 1, g, R)
<1>0. /\ Adds(s, x, t) /\ x.byte = f[p] /\ x.at = p
      /\ Framed(s, p, f, R) /\ \E r \in R : f = Frame(r)
  BY DEF Sends
<1> USE <1>0
<1>1. Len(s) \in Nat /\ Len(t) = Len(s) + 1
  BY LenProperties DEF Adds
<1>2. ASSUME NEW b \in Int, NEW g, Holds(s, b, g),
             Len(s) + 1 \in b .. b + 8 => x.byte = g[Len(s) + 1 - b + 1] /\ x.at = Len(s) + 1 - b + 1
      PROVE  Holds(t, b, g)
  <2>1. ASSUME NEW j \in 1 .. Len(t), j \in b .. b + 8
        PROVE  t[j].byte = g[j - b + 1] /\ t[j].at = j - b + 1
    <3>1. CASE j = Len(s) + 1
      <4>1. t[j] = x
        BY <3>1 DEF Adds
      <4> QED BY <1>2, <2>1, <3>1, <4>1
    <3>2. CASE j # Len(s) + 1
      <4>1. j \in 1 .. Len(s)
        BY <1>1, <3>2
      <4> QED BY <1>2, <2>1, <4>1 DEF Adds, Holds
    <3> QED BY <3>1, <3>2
  <2> QED BY <2>1 DEF Holds
<1> DEFINE b == Len(s) - p + 2
<1>3. b \in Int /\ Len(s) + 1 - b + 1 = p
  BY <1>1
<1>4. Holds(t, b, f)
  <2>1. Holds(s, b, f)
    BY DEF Framed
  <2> HIDE DEF b
  <2> QED BY <1>2, <1>3, <2>1
<1>5. \A k \in Nat \ {0} : \E r \in R : Holds(t, b - 9 * k, Frame(r))
  <2>1. ASSUME NEW k \in Nat \ {0} PROVE \E r \in R : Holds(t, b - 9 * k, Frame(r))
    <3>1. PICK r \in R : Holds(s, b - 9 * k, Frame(r))
      BY DEF Framed
    <3>2. b - 9 * k \in Int /\ Len(s) + 1 \notin b - 9 * k .. b - 9 * k + 8
      BY <1>1
    <3>3. Holds(t, b - 9 * k, Frame(r))
      BY <1>2, <3>1, <3>2
    <3> QED BY <3>3
  <2> QED BY <2>1
<1>6. ASSUME p < 9
      PROVE  Framed(t, p + 1, f, R) /\ First(t, p + 1) = First(s, p)
  <2>1. Len(t) - (p + 1) + 2 = b
    BY <1>1
  <2>2. p + 1 - 1 - Len(t) = p - 1 - Len(s)
    BY <1>1
  <2> HIDE DEF b
  <2> QED BY <1>4, <1>5, <2>1, <2>2 DEF Framed, First
<1>7. ASSUME p = 9, NEW g
      PROVE  Framed(t, 1, g, R) /\ First(t, 1) = First(s, p)
  <2>1. Len(t) - 1 + 2 = b + 9 /\ b \in Int
    BY <1>1, <1>7
  <2>2. Holds(t, b + 9, g)
    <3>1. \A j \in 1 .. Len(t) : j \notin b + 9 .. b + 9 + 8
      BY <1>1, <1>7
    <3> QED BY <3>1 DEF Holds
  <2>3. ASSUME NEW k \in Nat \ {0}
        PROVE  \E r \in R : Holds(t, b + 9 - 9 * k, Frame(r))
    <3>1. CASE k = 1
      <4>1. b + 9 - 9 * k = b
        BY <2>1, <3>1
      <4> HIDE DEF b
      <4> QED BY <1>4, <4>1
    <3>2. CASE k # 1
      <4>1. k - 1 \in Nat \ {0} /\ b + 9 - 9 * k = b - 9 * (k - 1)
        BY <2>1, <3>2
      <4> HIDE DEF b
      <4> QED BY <1>5, <4>1
    <3> QED BY <3>1, <3>2
  <2>4. First(t, 1) = First(s, p)
    <3> DEFINE a == 0 - 1 - Len(s)
    <3>1. a \in Int /\ 1 - 1 - Len(t) = a /\ p - 1 - Len(s) = a + 9
      BY <1>1, <1>7
    <3> HIDE DEF a
    <3>2. (a + 9) % 9 = a % 9
      BY <3>1
    <3> QED BY <3>1, <3>2 DEF First
  <2> HIDE DEF b
  <2> QED BY <2>1, <2>2, <2>3, <2>4 DEF Framed
<1> QED BY <1>6, <1>7 DEF GoesOn

\* The parts of a concatenation.
LEMMA ConcatDrops ==
  ASSUME NEW u \in Seq(Received), NEW v \in Seq(Received)
  PROVE  /\ u \o v \in Seq(Received) /\ Drops(u \o v, Len(u), v)
         /\ \A j \in 1 .. Len(u) : (u \o v)[j] = u[j]
<1> DEFINE s == u \o v
<1>1. /\ s \in Seq(Received) /\ Len(s) = Len(u) + Len(v)
      /\ \A i \in 1 .. Len(u) + Len(v) : s[i] = IF i <= Len(u) THEN u[i] ELSE v[i - Len(u)]
  BY ConcatProperties
<1>2. Len(u) \in Nat /\ Len(v) \in Nat
  BY LenProperties
<1> HIDE DEF s
<1>3. ASSUME NEW j \in 1 .. Len(v) PROVE v[j] = s[j + Len(u)]
  <2>1. /\ j + Len(u) \in 1 .. Len(u) + Len(v) /\ ~(j + Len(u) <= Len(u))
        /\ j + Len(u) - Len(u) = j
    BY <1>2
  <2> QED BY <1>1, <2>1
<1>4. ASSUME NEW j \in 1 .. Len(u) PROVE s[j] = u[j]
  <2>1. j \in 1 .. Len(u) + Len(v) /\ j <= Len(u)
    BY <1>2
  <2> QED BY <1>1, <2>1
<1>5. Drops(s, Len(u), v)
  BY <1>1, <1>3 DEF Drops
<1> QED BY <1>1, <1>4, <1>5 DEF s

\* A read takes the first bytes of the wire, at most n, and leaves the rest.
LEMMA ReadIs ==
  ASSUME wire \in Seq(Received), NEW n \in Nat
  PROVE  /\ Taken(n) \in Seq(Received) /\ Left(n) \in Seq(Received)
         /\ wire = Taken(n) \o Left(n)
         /\ Len(Taken(n)) = IF Len(wire) < n THEN Len(wire) ELSE n
         /\ Len(Left(n)) <= Len(wire)
<1> DEFINE m == IF Len(wire) < n THEN Len(wire) ELSE n
<1>1. Len(wire) \in Nat /\ m \in 0 .. Len(wire)
  BY LenProperties
<1> HIDE DEF m
<1>2. \A i \in 1 .. Len(wire) : wire[i] \in Received
  BY ElementOfSeq
<1>3. Taken(n) = SubSeq(wire, 1, m)
  BY DEF Taken, m
<1>4. Taken(n) \in Seq(Received) /\ Len(Taken(n)) = m
  <2>1. \A i \in 1 .. m : wire[i] \in Received
    BY <1>1, <1>2
  <2>2. /\ SubSeq(wire, 1, m) \in Seq(Received)
        /\ Len(SubSeq(wire, 1, m)) = IF 1 <= m THEN m - 1 + 1 ELSE 0
    BY <1>1, <2>1, SubSeqProperties
  <2> QED BY <1>1, <1>3, <2>2
<1>5. Left(n) = SubSeq(wire, m + 1, Len(wire))
  BY <1>4 DEF Left
<1>6. Left(n) \in Seq(Received)
  <2>1. \A i \in m + 1 .. Len(wire) : wire[i] \in Received
    BY <1>1, <1>2
  <2>2. SubSeq(wire, m + 1, Len(wire)) \in Seq(Received)
    BY <1>1, <2>1, SubSeqProperties
  <2> QED BY <1>5, <2>2
<1>7. wire = Taken(n) \o Left(n)
  <2>1. SubSeq(wire, 1, m) \o SubSeq(wire, m + 1, Len(wire)) = SubSeq(wire, 1, Len(wire))
    <3>1. /\ 1 \in 1 .. Len(wire) + 1 /\ m \in 1 - 1 .. Len(wire)
          /\ Len(wire) \in m .. Len(wire)
      BY <1>1
    <3> QED BY <3>1, ConcatAdjacentSubSeq
  <2>2. SubSeq(wire, 1, Len(wire)) = wire
    BY SubSeqFull
  <2> QED BY <1>3, <1>5, <2>1, <2>2
<1>8. Len(Left(n)) <= Len(wire)
  <2>1. Len(Taken(n)) \in Nat /\ Len(Left(n)) \in Nat
    BY <1>4, <1>6, LenProperties
  <2>2. Len(Taken(n) \o Left(n)) = Len(Taken(n)) + Len(Left(n))
    BY <1>4, <1>6, ConcatProperties
  <2> QED BY <1>7, <2>1, <2>2
<1> QED BY <1>4, <1>6, <1>7, <1>8 DEF m

-----------------------------------------------------------------------------
(* What a script sees of it *)

LEMMA BytesIs ==
  ASSUME NEW string \in Seq(Received)
  PROVE  /\ Bytes(string) \in Seq(Byte) /\ Len(Bytes(string)) = Len(string)
         /\ \A i \in 1 .. Len(string) : Bytes(string)[i] = string[i].byte
<1>1. Len(string) \in Nat /\ DOMAIN string = 1 .. Len(string)
  BY LenProperties
<1>2. \A i \in 1 .. Len(string) : string[i].byte \in Byte
  <2>1. \A i \in 1 .. Len(string) : string[i] \in Received
    BY ElementOfSeq
  <2> QED BY <2>1 DEF Received
<1>3. Bytes(string) = [i \in 1 .. Len(string) |-> string[i].byte]
  BY <1>1 DEF Bytes
<1>4. Bytes(string) \in [1 .. Len(string) -> Byte]
  BY <1>2, <1>3
<1> QED BY <1>1, <1>3, <1>4, FunctionIsSequence

\* The magic pair by its bytes.
LEMMA MagicIs ==
  ASSUME NEW string \in Seq(Received)
  PROVE  IsMagic(string) <=> Len(string) = 2 /\ string[1].byte = 7 /\ string[2].byte = 5
<1>1. /\ Bytes(string) \in Seq(Byte) /\ Len(Bytes(string)) = Len(string)
      /\ \A i \in 1 .. Len(string) : Bytes(string)[i] = string[i].byte
  BY BytesIs
<1>2. PICK pair : pair = <<7, 5>>
  OBVIOUS
<1>3. pair \in Seq(Byte) /\ Len(pair) = 2 /\ pair[1] = 7 /\ pair[2] = 5
  BY <1>2 DEF Byte
<1>4. ASSUME Bytes(string) = pair
      PROVE  Len(string) = 2 /\ string[1].byte = 7 /\ string[2].byte = 5
  <2>1. Len(Bytes(string)) = 2 /\ Bytes(string)[1] = 7 /\ Bytes(string)[2] = 5
    BY <1>3, <1>4, Zenon
  <2>2. Len(string) = 2
    BY <1>1, <2>1, Zenon
  <2>3. 1 \in 1 .. Len(string) /\ 2 \in 1 .. Len(string)
    BY <2>2
  <2> QED BY <1>1, <2>1, <2>2, <2>3, Zenon
<1>5. ASSUME Len(string) = 2, string[1].byte = 7, string[2].byte = 5
      PROVE  Bytes(string) = pair
  <2>1. \A i \in 1 .. 2 : Bytes(string)[i] = pair[i]
    BY <1>1, <1>3, <1>5
  <2> QED BY <1>1, <1>3, <1>5, <2>1, SeqEqual
<1> QED BY <1>2, <1>4, <1>5 DEF IsMagic

\* A 7 alone by its byte.
LEMMA ErrorIs ==
  ASSUME NEW string \in Seq(Received), Len(string) = 1, string[1].byte = 7
  PROVE  IndexError(string)
<1>1. /\ Bytes(string) \in Seq(Byte) /\ Len(Bytes(string)) = 1
      /\ \A i \in 1 .. 1 : Bytes(string)[i] = string[i].byte
  BY BytesIs
<1>2. PICK seven : seven = <<7>>
  OBVIOUS
<1>3. seven \in Seq(Byte) /\ Len(seven) = 1 /\ seven[1] = 7
  BY <1>2 DEF Byte
<1>4. \A i \in 1 .. 1 : Bytes(string)[i] = seven[i]
  BY <1>1, <1>3
<1>5. Bytes(string) = seven
  BY <1>1, <1>3, <1>4, SeqEqual
<1> QED BY <1>2, <1>5 DEF IndexError

\* The readings of a session make frames.
LEMMA FramesOf ==
  ASSUME NEW R \in Sessions, NEW r \in R
  PROVE  /\ r \in [1 .. 5 -> Byte]
         /\ Frame(r) \in Seq(Byte) /\ Len(Frame(r)) = 9
         /\ Frame(r) \in [1 .. 9 -> Byte]
         /\ Frame(r)[1] = 7 /\ Frame(r)[2] = 5
         /\ Frame(r)[9] = Sum(SubSeq(Frame(r), 2, 8)) % 256
<1>1. r \in [1 .. 5 -> Byte]
  BY GaugeAssumption DEF Byte
<1>2. Frame(r) \in [1 .. 9 -> Byte]
  BY <1>1, FrameIs DEF FrameLength
<1>3. Frame(r) \in Seq(Byte) /\ Len(Frame(r)) = 9
  <2>1. PICK f \in [1 .. 9 -> Byte] : f = Frame(r)
    BY <1>2
  <2>2. f \in Seq(Byte) /\ Len(f) = 9
    BY FunctionIsSequence
  <2> QED BY <2>1, <2>2
<1> QED BY <1>1, <1>2, <1>3, FrameIs

\* In step, the first bytes are the magic pair, and in their places.
LEMMA InStepPair ==
  ASSUME NEW s \in Seq(Received), NEW R \in Sessions, NEW r \in R, NEW t \in R,
         Spans(s, 1, r, t)
  PROVE  /\ Len(s) >= 1 => s[1].byte = 7
         /\ Len(s) >= 2 => s[2].byte = 5
         /\ \A j \in 1 .. Len(s) : j <= 9 => s[j].byte = Frame(r)[j] /\ s[j].at = j
<1>1. Len(s) \in Nat
  BY LenProperties
<1>2. ASSUME NEW j \in 1 .. Len(s), j <= 9
      PROVE  s[j].byte = Frame(r)[j] /\ s[j].at = j
  <2>1. 1 + j - 1 = j
    BY <1>1
  <2>2. s[j].byte = Frame(r)[1 + j - 1] /\ s[j].at = 1 + j - 1
    BY <1>2, <2>1 DEF Spans
  <2> QED BY <2>1, <2>2
<1>3. Len(s) >= 1 => s[1].byte = Frame(r)[1]
  BY <1>1, <1>2
<1>4. Len(s) >= 2 => s[2].byte = Frame(r)[2]
  BY <1>1, <1>2
<1> QED BY <1>2, <1>3, <1>4, FramesOf

\* The byte of two frames at a place of the first or beyond it.
LEMMA TwoFrames ==
  ASSUME NEW R \in Sessions, NEW r \in R, NEW t \in R, NEW x \in 1 .. 18
  PROVE  (Frame(r) \o Frame(t))[x] = IF x <= 9 THEN Frame(r)[x] ELSE Frame(t)[x - 9]
<1>1. /\ Frame(r) \in Seq(Byte) /\ Len(Frame(r)) = 9
      /\ Frame(t) \in Seq(Byte) /\ Len(Frame(t)) = 9
  BY FramesOf
<1>2. PICK f : f = Frame(r)
  OBVIOUS
<1>3. PICK g : g = Frame(t)
  OBVIOUS
<1>4. f \in Seq(Byte) /\ Len(f) = 9 /\ g \in Seq(Byte) /\ Len(g) = 9
  BY <1>1, <1>2, <1>3
<1>5. (f \o g)[x] = IF x <= 9 THEN f[x] ELSE g[x - 9]
  <2>1. \A i \in 1 .. Len(f) + Len(g) :
          (f \o g)[i] = IF i <= Len(f) THEN f[i] ELSE g[i - Len(f)]
    BY <1>4, ConcatProperties
  <2>2. Len(f) + Len(g) = 18
    BY <1>4
  <2>3. (f \o g)[x] = IF x <= Len(f) THEN f[x] ELSE g[x - Len(f)]
    BY <2>1, <2>2, Zenon
  <2> QED BY <1>4, <2>3, Zenon
<1> QED BY <1>2, <1>3, <1>5

\* Out of step, the bytes are those of the two frames from some place on.
LEMMA SpansTwo ==
  ASSUME NEW s \in Seq(Received), NEW R \in Sessions, NEW r \in R, NEW t \in R,
         NEW i \in 1 .. 9, Spans(s, i, r, t), NEW j \in 1 .. Len(s), j <= 9
  PROVE  s[j].byte = (Frame(r) \o Frame(t))[i + j - 1]
<1>1. Len(s) \in Nat
  BY LenProperties
<1>2. PICK x \in 1 .. 18 : x = i + j - 1
  BY <1>1
<1>3. x - 9 = i + j - 10
  BY <1>1, <1>2
<1>4. (Frame(r) \o Frame(t))[x] = IF x <= 9 THEN Frame(r)[x] ELSE Frame(t)[x - 9]
  BY TwoFrames
<1>5. s[j].byte = IF i + j - 1 <= 9 THEN Frame(r)[i + j - 1] ELSE Frame(t)[i + j - 10]
  BY DEF Spans
<1> QED BY <1>2, <1>3, <1>4, <1>5

\* Readings that never imitate the magic pair show it only in step.
LEMMA PairInStep ==
  ASSUME NEW s \in Seq(Received), NEW R \in Plain, NEW r \in R, NEW t \in R,
         NEW i \in 1 .. 9, Spans(s, i, r, t),
         Len(s) >= 2, s[1].byte = 7, s[2].byte = 5
  PROVE  i = 1
<1>1. R \in Sessions /\ ~Imitates(R)
  BY DEF Plain
<1>2. 1 \in 1 .. Len(s) /\ 2 \in 1 .. Len(s)
  BY LenProperties
<1>3. /\ (Frame(r) \o Frame(t))[i + 1 - 1] = 7
      /\ (Frame(r) \o Frame(t))[i + 2 - 1] = 5
  <2>1. 1 <= 9 /\ 2 <= 9
    OBVIOUS
  <2>2. s[1].byte = (Frame(r) \o Frame(t))[i + 1 - 1]
    BY <1>1, <1>2, <2>1, SpansTwo, Zenon
  <2>3. s[2].byte = (Frame(r) \o Frame(t))[i + 2 - 1]
    BY <1>1, <1>2, <2>1, SpansTwo, Zenon
  <2> QED BY <2>2, <2>3, Zenon
<1>4. i + 1 - 1 = i /\ i + 2 - 1 = i + 1
  OBVIOUS
<1>5. (Frame(r) \o Frame(t))[i] = 7 /\ (Frame(r) \o Frame(t))[i + 1] = 5
  BY <1>3, <1>4
<1>6. ASSUME i \in 2 .. 9 PROVE FALSE
  BY <1>1, <1>5, <1>6 DEF Imitates, FrameLength
<1> QED BY <1>6

\* Nine bytes in step check.
LEMMA InStepChecks ==
  ASSUME NEW string \in Seq(Received), Len(string) = 9, NEW R \in Sessions, NEW r \in R,
         \A j \in 1 .. 9 : string[j].byte = Frame(r)[j]
  PROVE  Checks(string)
<1>1. /\ Bytes(string) \in Seq(Byte) /\ Len(Bytes(string)) = 9
      /\ \A i \in 1 .. 9 : Bytes(string)[i] = Frame(r)[i]
  <2>1. /\ Bytes(string) \in Seq(Byte) /\ Len(Bytes(string)) = Len(string)
        /\ \A i \in 1 .. Len(string) : Bytes(string)[i] = string[i].byte
    BY BytesIs
  <2> QED BY <2>1, Zenon
<1>2. Frame(r) \in Seq(Byte) /\ Len(Frame(r)) = 9
  BY FramesOf
<1>3. Bytes(string) = Frame(r)
  BY <1>1, <1>2, SeqEqual
<1>4. string[9].byte = Frame(r)[9]
  OBVIOUS
<1> QED BY <1>3, <1>4, FramesOf DEF Checks

-----------------------------------------------------------------------------
(* The invariant *)

\* What a script has in hand and what waits, and the place of the first of it.
Stream == input_string \o wire
At     == First(Stream, place)

InHand ==
  /\ input_string \in Seq(Received)
  /\ pc \in {"magic", "play"} => input_string = <<>>
  /\ pc = "rest" => IsMagic(input_string)
  /\ pc = "report" => Len(input_string) = FrameLength
  /\ pc = "play" => script = "gauge_sound" /\ skipped = 0
  /\ pc # "exited" => Framed(Stream, place, frame, readings)

Inv == TypeOK /\ InHand

\* The parts of a state.
LEMMA Parts ==
  ASSUME Inv
  PROVE  /\ readings \in Sessions /\ place \in 1 .. 9
         /\ \E r \in readings : frame = Frame(r)
         /\ wire \in Seq(Received) /\ input_string \in Seq(Received)
         /\ Len(wire) \in Nat /\ Len(input_string) \in Nat
         /\ Stream \in Seq(Received) /\ Len(Stream) = Len(input_string) + Len(wire)
         /\ At \in 1 .. 9
<1>1. wire \in Seq(Received) /\ input_string \in Seq(Received)
  BY DEF Inv, TypeOK, InHand, Received, Byte
<1>2. Len(wire) \in Nat /\ Len(input_string) \in Nat
  BY <1>1, LenProperties
<1>3. Stream \in Seq(Received) /\ Len(Stream) = Len(input_string) + Len(wire)
  BY <1>1, ConcatProperties DEF Stream
<1>4. readings \in Sessions /\ place \in 1 .. 9 /\ \E r \in readings : frame = Frame(r)
  BY DEF Inv, TypeOK, FrameLength
<1>5. At \in 1 .. 9
  BY <1>3, <1>4, FirstType DEF At
<1> QED BY <1>1, <1>2, <1>3, <1>4, <1>5

\* The stream starts with the rest of one frame, and the next.
LEMMA StreamSpans ==
  ASSUME Inv, pc # "exited"
  PROVE  \E r, t \in readings : Spans(Stream, At, r, t)
<1>1. Framed(Stream, place, frame, readings)
  BY DEF Inv, InHand
<1> QED BY <1>1, Parts, StartsWith DEF At

\* With nothing in hand, the stream is what waits.
LEMMA EmptyHand ==
  ASSUME NEW s \in Seq(Received)
  PROVE  <<>> \o s = s
BY ConcatEmptySeq

\* Bytes of a stream that its first part spans.
LEMMA SpansPrefix ==
  ASSUME NEW u \in Seq(Received), NEW v \in Seq(Received), NEW i, NEW r, NEW t,
         Spans(u \o v, i, r, t)
  PROVE  Spans(u, i, r, t)
<1>1. /\ Len(u \o v) = Len(u) + Len(v) /\ Len(u) \in Nat /\ Len(v) \in Nat
  BY ConcatProperties, LenProperties
<1>2. \A j \in 1 .. Len(u) : (u \o v)[j] = u[j]
  BY ConcatDrops
<1>3. ASSUME NEW j \in 1 .. Len(u) PROVE j \in 1 .. Len(u \o v)
  BY <1>1
<1> QED BY <1>2, <1>3 DEF Spans

\* Joining pieces of it in either order.
EitherOrder(u, v, w) == u \o (v \o w) = (u \o v) \o w

LEMMA ConcatReceived ==
  ASSUME NEW u \in Seq(Received), NEW v \in Seq(Received), NEW w \in Seq(Received)
  PROVE  EitherOrder(u, v, w)
<1>1. (u \o v) \o w = u \o (v \o w)
  BY ConcatAssociative, SMTT(20)
<1> QED BY <1>1, Zenon DEF EitherOrder

\* A byte sent joins the stream, and the first of it stays the first.
LEMMA Sent ==
  ASSUME Inv, SendByte
  PROVE  /\ wire' \in Seq(Received) /\ Len(wire') = Len(wire) + 1
         /\ pc # "exited" => Framed(Stream', place', frame', readings) /\ At' = At
<1>p. /\ readings \in Sessions /\ place \in 1 .. 9
      /\ \E r \in readings : frame = Frame(r)
      /\ wire \in Seq(Received) /\ input_string \in Seq(Received)
      /\ Len(wire) \in Nat /\ Len(input_string) \in Nat
      /\ Stream \in Seq(Received) /\ Len(Stream) = Len(input_string) + Len(wire)
  BY Parts
<1> USE <1>p
<1>1. PICK x : x = [byte |-> frame[place], at |-> place]
  OBVIOUS
<1>2. x \in Received /\ x.byte = frame[place] /\ x.at = place
  <2>1. frame \in [1 .. 9 -> Byte]
    <3>1. PICK r \in readings : frame = Frame(r)
      OBVIOUS
    <3> QED BY <3>1, FramesOf
  <2> QED BY <1>1, <2>1 DEF Received, FrameLength
<1>3. wire' = Append(wire, x) /\ input_string' = input_string
  BY <1>1 DEF SendByte
<1>4. /\ wire' \in Seq(Received) /\ Len(wire') = Len(wire) + 1
      /\ wire'[Len(wire) + 1] = x
      /\ \A i \in 1 .. Len(wire) : wire'[i] = wire[i]
  BY <1>2, <1>3, AppendProperties
<1>5. /\ Stream' \in Seq(Received) /\ Len(Stream') = Len(Stream) + 1
      /\ Stream' = input_string \o wire'
  BY <1>3, <1>4, ConcatProperties DEF Stream
<1>6. Adds(Stream, x, Stream')
  <2>1. \A i \in 1 .. Len(input_string) + Len(wire) :
          Stream[i] = IF i <= Len(input_string) THEN input_string[i]
                      ELSE wire[i - Len(input_string)]
    BY ConcatProperties DEF Stream
  <2>2. \A i \in 1 .. Len(input_string) + Len(wire') :
          Stream'[i] = IF i <= Len(input_string) THEN input_string[i]
                       ELSE wire'[i - Len(input_string)]
    BY <1>4, <1>5, ConcatProperties
  <2>3. Stream'[Len(Stream) + 1] = x
    <3>1. /\ Len(Stream) + 1 \in 1 .. Len(input_string) + Len(wire')
          /\ ~(Len(Stream) + 1 <= Len(input_string))
          /\ Len(Stream) + 1 - Len(input_string) = Len(wire) + 1
      BY <1>4
    <3> QED BY <1>4, <2>2, <3>1
  <2>4. ASSUME NEW i \in 1 .. Len(Stream) PROVE Stream'[i] = Stream[i]
    <3>1. i \in 1 .. Len(input_string) + Len(wire) /\ i \in 1 .. Len(input_string) + Len(wire')
      BY <1>4
    <3>2. CASE i <= Len(input_string)
      BY <2>1, <2>2, <3>1, <3>2
    <3>3. CASE ~(i <= Len(input_string))
      <4>1. i - Len(input_string) \in 1 .. Len(wire)
        BY <3>1, <3>3
      <4>2. wire'[i - Len(input_string)] = wire[i - Len(input_string)]
        BY <1>4, <4>1
      <4> QED BY <2>1, <2>2, <3>1, <3>3, <4>2
    <3> QED BY <3>2, <3>3
  <2> QED BY <1>5, <2>3, <2>4 DEF Adds
<1>7. ASSUME pc # "exited"
      PROVE  Framed(Stream', place', frame', readings) /\ At' = At
  <2>1. Framed(Stream, place, frame, readings)
    BY <1>7 DEF Inv, InHand
  <2>2. PICK s \in Seq(Received) : s = Stream
    OBVIOUS
  <2>3. PICK t \in Seq(Received) : t = Stream'
    BY <1>5
  <2>4. /\ place < 9 => GoesOn(s, t, place, place + 1, frame, readings)
        /\ place = 9 => \A g : GoesOn(s, t, place, 1, g, readings)
    <3>1. Sends(s, x, t, place, frame, readings)
      BY <1>2, <1>6, <2>1, <2>2, <2>3 DEF Sends
    <3> QED BY <3>1, FramedAdds
  <2>5. At = First(s, place) /\ At' = First(t, place')
    BY <2>2, <2>3 DEF At
  <2>6. CASE place < FrameLength /\ place' = place + 1 /\ UNCHANGED frame
    BY <2>3, <2>4, <2>5, <2>6 DEF FrameLength, GoesOn
  <2>7. CASE place = FrameLength /\ place' = 1
    BY <2>3, <2>4, <2>5, <2>7 DEF FrameLength, GoesOn
  <2> QED BY <2>6, <2>7 DEF SendByte
<1> QED BY <1>4, <1>7

\* The bytes of a read, and the stream without them.
LEMMA Read ==
  ASSUME Inv, NEW n \in Nat
  PROVE  /\ Taken(n) \in Seq(Received) /\ Left(n) \in Seq(Received)
         /\ Len(Taken(n)) = IF Len(wire) < n THEN Len(wire) ELSE n
         /\ Len(Left(n)) \in Nat /\ Len(Left(n)) <= WireSize
         /\ Len(wire) = Len(Taken(n)) + Len(Left(n))
         /\ input_string \o Taken(n) \in Seq(Received)
         /\ Len(input_string \o Taken(n)) = Len(input_string) + Len(Taken(n))
         /\ (input_string \o Taken(n)) \o Left(n) = Stream
         /\ pc # "exited" =>
              LET m == Len(input_string \o Taken(n)) IN
              /\ Framed(Left(n), place, frame, readings)
              /\ First(Left(n), place) = ((At - 1 + m) % 9) + 1
<1>p. /\ wire \in Seq(Received) /\ input_string \in Seq(Received)
      /\ Len(wire) \in Nat /\ Len(input_string) \in Nat
      /\ Stream \in Seq(Received)
      /\ place \in 1 .. 9
  BY Parts
<1> USE <1>p
<1>1. /\ Taken(n) \in Seq(Received) /\ Left(n) \in Seq(Received)
      /\ wire = Taken(n) \o Left(n)
      /\ Len(Taken(n)) = IF Len(wire) < n THEN Len(wire) ELSE n
      /\ Len(Left(n)) <= Len(wire)
  BY ReadIs
<1>2. /\ Len(Left(n)) \in Nat
      /\ Len(wire) = Len(Taken(n)) + Len(Left(n))
      /\ input_string \o Taken(n) \in Seq(Received)
      /\ Len(input_string \o Taken(n)) = Len(input_string) + Len(Taken(n))
  <2>1. PICK u \in Seq(Received) : u = Taken(n)
    BY <1>1
  <2>2. PICK v \in Seq(Received) : v = Left(n)
    BY <1>1
  <2>3. Len(u \o v) = Len(u) + Len(v) /\ Len(u) \in Nat /\ Len(v) \in Nat
    BY ConcatProperties, LenProperties
  <2>4. input_string \o u \in Seq(Received) /\ Len(input_string \o u) = Len(input_string) + Len(u)
    BY ConcatProperties
  <2>5. wire = u \o v
    BY <1>1, <2>1, <2>2
  <2> QED BY <2>1, <2>2, <2>3, <2>4, <2>5
<1>3. (input_string \o Taken(n)) \o Left(n) = Stream
  <2>1. input_string \o (Taken(n) \o Left(n)) = (input_string \o Taken(n)) \o Left(n)
    <3>1. EitherOrder(input_string, Taken(n), Left(n))
      BY <1>1, ConcatReceived
    <3> QED BY <3>1, Zenon DEF EitherOrder
  <2> QED BY <1>1, <2>1, Zenon DEF Stream
<1>4. Len(Left(n)) <= WireSize
  <2>1. Len(wire) <= WireSize /\ WireSize \in Nat
    BY GaugeAssumption DEF Inv, TypeOK
  <2> QED BY <1>1, <1>2, <2>1
<1>5. ASSUME pc # "exited"
      PROVE  LET m == Len(input_string \o Taken(n)) IN
             /\ Framed(Left(n), place, frame, readings)
             /\ First(Left(n), place) = ((At - 1 + m) % 9) + 1
  <2>1. Framed(Stream, place, frame, readings)
    BY <1>5 DEF Inv, InHand
  <2>2. PICK u \in Seq(Received) : u = input_string \o Taken(n)
    BY <1>2
  <2>3. PICK v \in Seq(Received) : v = Left(n)
    BY <1>1
  <2>4. PICK s \in Seq(Received) : s = Stream
    OBVIOUS
  <2>5. s = u \o v
    BY <1>3, <2>2, <2>3, <2>4
  <2>6. Drops(s, Len(u), v) /\ Len(u) \in Nat
    BY <2>5, ConcatDrops, LenProperties
  <2>7. Framed(v, place, frame, readings) /\ First(v, place) = ((First(s, place) - 1 + Len(u)) % 9) + 1
    BY <2>1, <2>4, <2>6, FramedDrops
  <2> QED BY <2>2, <2>3, <2>4, <2>7 DEF At
<1> QED BY <1>1, <1>2, <1>3, <1>4, <1>5

\* A read of a pair, with nothing in hand.
LEMMA PairRead ==
  ASSUME Inv, pc = "magic"
  PROVE  /\ input_string = <<>> /\ Stream = wire /\ Stream = Taken(2) \o Left(2)
         /\ Taken(2) \in Seq(Received) /\ Left(2) \in Seq(Received)
         /\ Len(Taken(2)) \in 0 .. 2
         /\ Len(Taken(2)) = IF Len(wire) < 2 THEN Len(wire) ELSE 2
         /\ Len(Taken(2)) < 2 => Left(2) = <<>>
         /\ Len(Left(2)) \in Nat /\ Len(Left(2)) <= WireSize
         /\ Framed(Left(2), place, frame, readings)
         /\ First(Left(2), place) = ((At - 1 + Len(Taken(2))) % 9) + 1
<1>1. input_string = <<>>
  BY DEF Inv, InHand
<1>2. wire \in Seq(Received) /\ Len(wire) \in Nat
  BY Parts
<1>3. Stream = wire
  BY <1>1, <1>2, EmptyHand DEF Stream
<1>4. 2 \in Nat
  OBVIOUS
<1>5. /\ Taken(2) \in Seq(Received) /\ Left(2) \in Seq(Received)
      /\ Len(Taken(2)) = IF Len(wire) < 2 THEN Len(wire) ELSE 2
      /\ Len(Left(2)) \in Nat /\ Len(Left(2)) <= WireSize
      /\ Len(wire) = Len(Taken(2)) + Len(Left(2))
      /\ (input_string \o Taken(2)) \o Left(2) = Stream
      /\ pc # "exited" =>
           LET m == Len(input_string \o Taken(2)) IN
           /\ Framed(Left(2), place, frame, readings)
           /\ First(Left(2), place) = ((At - 1 + m) % 9) + 1
  BY <1>4, Read, Zenon
<1>a. Len(Taken(2)) \in Nat
  BY <1>5, LenProperties, Zenon
<1>b. \E k, c, m \in Nat : k = Len(wire) /\ c = Len(Taken(2)) /\ m = Len(Left(2))
  BY <1>2, <1>5, <1>a, Zenon
<1>c. PICK k, c, m \in Nat : k = Len(wire) /\ c = Len(Taken(2)) /\ m = Len(Left(2))
  BY <1>b
<1>6. input_string \o Taken(2) = Taken(2)
  <2>1. PICK u \in Seq(Received) : u = Taken(2)
    BY <1>5
  <2>2. <<>> \o u = u
    BY EmptyHand
  <2> QED BY <1>1, <2>1, <2>2
<1>7. /\ Framed(Left(2), place, frame, readings)
      /\ First(Left(2), place) = ((At - 1 + Len(Taken(2))) % 9) + 1
  BY <1>5, <1>6
<1>8. Len(Taken(2)) < 2 => Left(2) = <<>>
  <2>1. Len(Taken(2)) < 2 => Len(Left(2)) = 0
    <3>1. /\ c = IF k < 2 THEN k ELSE 2
          /\ k = c + m
      BY <1>5, <1>c, Zenon
    <3>2. c < 2 => m = 0
      BY <3>1
    <3> QED BY <1>c, <3>2, Zenon
  <2>2. PICK u \in Seq(Received) : u = Left(2)
    BY <1>5
  <2>3. Len(u) = 0 => u = <<>>
    BY EmptySeq, Zenon
  <2> QED BY <2>1, <2>2, <2>3
<1>9. Len(Taken(2)) \in 0 .. 2
  <2>1. c = IF k < 2 THEN k ELSE 2
    BY <1>5, <1>c, Zenon
  <2>2. c \in 0 .. 2
    BY <2>1
  <2> QED BY <1>c, <2>2, Zenon
<1>10. Stream = Taken(2) \o Left(2)
  BY <1>5, <1>6, Zenon
<1> QED BY <1>1, <1>3, <1>5, <1>7, <1>8, <1>9, <1>10, Zenon

\* A report of the nine bytes in hand leaves what waits, in the same place.
LEMMA ReportLeaves ==
  ASSUME Inv, pc = "report"
  PROVE  Framed(wire, place, frame, readings) /\ First(wire, place) = At
<1>1. /\ wire \in Seq(Received) /\ input_string \in Seq(Received) /\ place \in 1 .. 9
      /\ Stream \in Seq(Received) /\ At \in 1 .. 9
  BY Parts
<1>2. Drops(Stream, Len(input_string), wire)
  BY <1>1, ConcatDrops DEF Stream
<1>3. Len(input_string) = 9
  BY DEF Inv, InHand, FrameLength
<1>4. Framed(Stream, place, frame, readings)
  BY DEF Inv, InHand
<1>5. PICK s \in Seq(Received) : s = Stream
  BY <1>1
<1>6. Drops(s, 9, wire) /\ Framed(s, place, frame, readings) /\ 9 \in Nat
  BY <1>2, <1>3, <1>4, <1>5
<1>7. Framed(wire, place, frame, readings) /\ First(wire, place) = ((First(s, place) - 1 + 9) % 9) + 1
  BY <1>1, <1>6, FramedDrops
<1>8. First(s, place) = At
  BY <1>5 DEF At
<1>9. ((At - 1 + 9) % 9) + 1 = At
  <2>1. PICK a \in 1 .. 9 : a = At
    BY <1>1, Zenon
  <2>2. ((a - 1 + 9) % 9) + 1 = a
    OBVIOUS
  <2> QED BY <2>1, <2>2, Zenon
<1> QED BY <1>7, <1>8, <1>9

\* Nothing yet is a piece of any stream.
LEMMA FramedEmpty ==
  ASSUME NEW p \in 1 .. 9, NEW f, NEW R, R # {}
  PROVE  Framed(<<>>, p, f, R)
<1>1. Len(<<>>) = 0 /\ 1 .. 0 = {}
  OBVIOUS
<1>2. \A b, g : Holds(<<>>, b, g)
  BY <1>1 DEF Holds
<1> QED BY <1>2 DEF Framed

LEMMA InvInit ==
  ASSUME Init
  PROVE  Inv
<1>1. /\ input_string = <<>> /\ wire = <<>> /\ pc = "magic" /\ place \in 1 .. 9
      /\ readings # {}
  BY DEF Init, FrameLength
<1>2. TypeOK
  <2>1. wire \in Seq([byte : 0 .. 255, at : 1 .. FrameLength]) /\ Len(wire) = 0 /\ Len(input_string) = 0
    BY <1>1
  <2>2. Len(wire) <= WireSize /\ skipped \in 0 .. MaxSkipped
    BY <2>1, GaugeAssumption DEF Init
  <2>3. silent \in BOOLEAN /\ locked \in BOOLEAN
    BY DEF Init
  <2>4. /\ script \in {"gauge", "gauge_sound"} /\ readings \in Sessions
        /\ frame \in {Frame(r) : r \in readings} /\ place \in 1 .. FrameLength
        /\ pc \in {"magic", "rest", "report", "play", "exited"}
    BY Zenon DEF Init
  <2> QED BY <2>1, <2>2, <2>3, <2>4, Zenon DEF TypeOK
<1>3. Framed(<<>>, place, frame, readings)
  BY <1>1, FramedEmpty
<1>4. Stream = <<>>
  <2>1. <<>> \in Seq(Received)
    OBVIOUS
  <2> QED BY <1>1, <2>1, EmptyHand DEF Stream
<1>5. input_string \in Seq(Received)
  BY <1>1
<1> QED BY <1>1, <1>2, <1>3, <1>4, <1>5 DEF Inv, InHand

\* What is skipped is counted up to the bound.
LEMMA SkipType ==
  ASSUME Inv, NEW n \in Nat, Skip(n)
  PROVE  skipped' \in 0 .. MaxSkipped /\ skipped' <= skipped + n
BY GaugeAssumption DEF Inv, TypeOK, Skip

LEMMA SendByteInv ==
  ASSUME Inv, SendByte
  PROVE  Inv'
<1>1. /\ wire' \in Seq(Received) /\ Len(wire') = Len(wire) + 1
      /\ pc # "exited" => Framed(Stream', place', frame', readings)
  BY Sent
<1>2. Len(wire') <= WireSize
  <2>1. Len(wire) \in Nat
    BY Parts
  <2> QED BY <1>1, <2>1, GaugeAssumption DEF SendByte
<1>3. place' \in 1 .. FrameLength /\ frame' \in {Frame(r) : r \in readings}
  BY DEF SendByte, Inv, TypeOK, FrameLength
<1>4. UNCHANGED <<script, readings, silent, input_string, pc, skipped, locked>>
  BY DEF SendByte, setting
<1>5. TypeOK'
  BY <1>1, <1>2, <1>3, <1>4 DEF Inv, TypeOK, Received, Byte
<1>6. InHand'
  BY <1>1, <1>4, Zenon DEF Inv, InHand, IsMagic, Bytes
<1> QED BY <1>5, <1>6 DEF Inv

LEMMA FallSilentInv ==
  ASSUME Inv, FallSilent
  PROVE  Inv'
<1>1. /\ UNCHANGED <<script, readings, frame, place, wire, input_string, pc, skipped, locked>>
      /\ silent' = TRUE
  BY DEF FallSilent, setting
<1>2. TypeOK'
  BY <1>1 DEF Inv, TypeOK
<1>3. Stream' = Stream
  BY <1>1 DEF Stream
<1>4. InHand'
  BY <1>1, <1>3, Zenon DEF Inv, InHand, IsMagic, Bytes
<1> QED BY <1>2, <1>4 DEF Inv

LEMMA ReadMagicInv ==
  ASSUME Inv, ReadMagic
  PROVE  Inv'
<1>1. pc = "magic" /\ wire' = Left(2)
      /\ UNCHANGED <<script, readings, frame, place, silent, locked>>
  BY DEF ReadMagic, setting, gaugeVars
<1>2. /\ input_string = <<>> /\ Stream = Taken(2) \o Left(2)
      /\ Taken(2) \in Seq(Received) /\ Left(2) \in Seq(Received)
      /\ Len(Taken(2)) \in 0 .. 2
      /\ Len(Left(2)) <= WireSize
      /\ Framed(Left(2), place, frame, readings)
  BY <1>1, PairRead
<1>3. wire' \in Seq(Received) /\ Len(wire') <= WireSize
  BY <1>1, <1>2
<1>4. CASE IsMagic(Taken(2)) /\ pc' = "rest" /\ input_string' = Taken(2) /\ UNCHANGED skipped
  <2>1. Len(input_string') = 2
    BY <1>2, <1>4, MagicIs
  <2>2. TypeOK'
    BY <1>1, <1>3, <1>4, <2>1 DEF Inv, TypeOK, Received, Byte
  <2>3. Framed(Stream', place', frame', readings')
    <3>1. Stream' = Stream
      BY <1>1, <1>2, <1>4 DEF Stream
    <3>2. Framed(Stream, place, frame, readings)
      BY <1>1 DEF Inv, InHand
    <3> QED BY <1>1, <3>1, <3>2
  <2>4. IsMagic(input_string')
    BY <1>4
  <2>5. InHand'
    BY <1>2, <1>4, <2>3, <2>4 DEF InHand, IsMagic, Bytes
  <2> QED BY <2>2, <2>5 DEF Inv
<1>5. CASE pc' = "exited" /\ UNCHANGED <<input_string, skipped>>
  <2>1. TypeOK'
    BY <1>1, <1>3, <1>5 DEF Inv, TypeOK, Received, Byte
  <2>2. InHand'
    BY <1>5 DEF Inv, InHand
  <2> QED BY <2>1, <2>2 DEF Inv
<1>6. CASE Skip(Len(Taken(2))) /\ UNCHANGED <<pc, input_string>>
  <2>1. skipped' \in 0 .. MaxSkipped
    BY <1>2, <1>6, SkipType
  <2>2. TypeOK'
    BY <1>1, <1>3, <1>6, <2>1 DEF Inv, TypeOK, Received, Byte
  <2>3. Framed(Stream', place', frame', readings')
    <3>1. Stream' = Left(2)
      BY <1>1, <1>2, <1>6, EmptyHand DEF Stream
    <3> QED BY <1>1, <1>2, <3>1
  <2>4. InHand'
    BY <1>1, <1>6, <2>3 DEF Inv, InHand
  <2> QED BY <2>2, <2>4 DEF Inv
<1> QED BY <1>4, <1>5, <1>6 DEF ReadMagic

\* A read of the rest of a frame, with the magic pair in hand.
LEMMA RestRead ==
  ASSUME Inv, pc = "rest"
  PROVE  LET string == input_string \o Taken(Rest) IN
         /\ string \in Seq(Received) /\ Left(Rest) \in Seq(Received)
         /\ Len(string) \in 0 .. 9 /\ Len(string) >= 2
         /\ string[1].byte = 7 /\ string[2].byte = 5
         /\ Len(Left(Rest)) <= WireSize
         /\ string \o Left(Rest) = Stream
         /\ Framed(Left(Rest), place, frame, readings)
<1> DEFINE string == input_string \o Taken(Rest)
<1>1. Rest \in Nat /\ Rest = 7
  BY DEF Rest, FrameLength
<1>2. /\ Taken(Rest) \in Seq(Received) /\ Left(Rest) \in Seq(Received)
      /\ Len(Taken(Rest)) = IF Len(wire) < Rest THEN Len(wire) ELSE Rest
      /\ Len(Left(Rest)) <= WireSize
      /\ string \in Seq(Received)
      /\ Len(string) = Len(input_string) + Len(Taken(Rest))
      /\ string \o Left(Rest) = Stream
      /\ pc # "exited" => Framed(Left(Rest), place, frame, readings)
  BY <1>1, Read, Zenon
<1>3. Len(wire) \in Nat /\ input_string \in Seq(Received)
  BY Parts
<1>4. Len(input_string) = 2 /\ input_string[1].byte = 7 /\ input_string[2].byte = 5
  BY <1>3, MagicIs DEF Inv, InHand
<1>5. string[1].byte = 7 /\ string[2].byte = 5
  <2>1. PICK u \in Seq(Received) : u = Taken(Rest)
    BY <1>2
  <2>2. \A j \in 1 .. Len(input_string) : (input_string \o u)[j] = input_string[j]
    BY <1>3, ConcatDrops
  <2>3. 1 \in 1 .. Len(input_string) /\ 2 \in 1 .. Len(input_string)
    BY <1>4
  <2> QED BY <1>4, <2>1, <2>2, <2>3, Zenon
<1> HIDE DEF string
<1>6. Len(string) \in 0 .. 9 /\ Len(string) >= 2
  <2>1. PICK k \in Nat : k = Len(wire)
    BY <1>3
  <2>2. PICK c : c = IF k < 7 THEN k ELSE 7
    OBVIOUS
  <2>3. 2 + c \in 0 .. 9 /\ 2 + c >= 2
    BY <2>2
  <2>4. c = Len(Taken(Rest))
    BY <1>1, <1>2, <2>1, <2>2, Zenon
  <2>5. Len(string) = 2 + c
    BY <1>2, <1>4, <2>4, Zenon
  <2> QED BY <2>3, <2>5, Zenon
<1> QED BY <1>2, <1>5, <1>6, Zenon DEF string

LEMMA ReadRestInv ==
  ASSUME Inv, ReadRest
  PROVE  Inv'
<1> DEFINE string == input_string \o Taken(Rest)
<1>1. pc = "rest" /\ wire' = Left(Rest)
      /\ UNCHANGED <<script, readings, frame, place, silent, locked>>
  BY DEF ReadRest, setting, gaugeVars
<1>2. /\ string \in Seq(Received) /\ Left(Rest) \in Seq(Received)
      /\ Len(string) \in 0 .. 9
      /\ Len(Left(Rest)) <= WireSize
      /\ string \o Left(Rest) = Stream
      /\ Framed(Left(Rest), place, frame, readings)
  BY <1>1, RestRead, Zenon
<1>3. wire' \in Seq(Received) /\ Len(wire') <= WireSize
  BY <1>1, <1>2
<1> HIDE DEF string
<1>4. CASE pc' = "exited" /\ UNCHANGED <<input_string, skipped>>
  <2>1. TypeOK'
    BY <1>1, <1>3, <1>4 DEF Inv, TypeOK, Received, Byte
  <2>2. InHand'
    BY <1>4 DEF Inv, InHand
  <2> QED BY <2>1, <2>2 DEF Inv
<1>5. CASE Len(string) >= FrameLength /\ pc' = "report" /\ input_string' = string /\ UNCHANGED skipped
  <2>1. Len(input_string') = FrameLength
    <3>1. \E n \in 0 .. 9 : n = Len(string)
      BY <1>2, Zenon
    <3>2. PICK n \in 0 .. 9 : n = Len(string)
      BY <3>1
    <3>3. n >= FrameLength
      BY <1>5, <3>2, Zenon
    <3>4. n = FrameLength
      BY <3>3 DEF FrameLength
    <3> QED BY <1>5, <3>2, <3>4, Zenon
  <2>2. TypeOK'
    BY <1>1, <1>3, <1>5, <2>1 DEF Inv, TypeOK, Received, Byte
  <2>3. Framed(Stream', place', frame', readings')
    <3>1. Stream' = Stream
      BY <1>1, <1>2, <1>5 DEF Stream
    <3>2. Framed(Stream, place, frame, readings)
      BY <1>1 DEF Inv, InHand
    <3> QED BY <1>1, <3>1, <3>2
  <2>4. InHand'
    BY <1>2, <1>5, <2>1, <2>3 DEF InHand
  <2> QED BY <2>2, <2>4 DEF Inv
<1>6. CASE pc' = "magic" /\ input_string' = <<>> /\ Skip(Len(string))
  <2>1. skipped' \in 0 .. MaxSkipped
    BY <1>2, <1>6, SkipType
  <2>2. Len(input_string') = 0 /\ input_string' \in Seq(Received)
    BY <1>6
  <2>3. TypeOK'
    BY <1>1, <1>3, <1>6, <2>1, <2>2 DEF Inv, TypeOK, Received, Byte
  <2>4. Framed(Stream', place', frame', readings')
    <3>1. Stream' = Left(Rest)
      BY <1>1, <1>2, <1>6, EmptyHand DEF Stream
    <3> QED BY <1>1, <1>2, <3>1
  <2>5. InHand'
    BY <1>6, <2>2, <2>4 DEF InHand
  <2> QED BY <2>3, <2>5 DEF Inv
<1> QED BY <1>4, <1>5, <1>6 DEF ReadRest, string

LEMMA ReportInv ==
  ASSUME Inv, Report
  PROVE  Inv'
<1>1. /\ pc = "report" /\ pc' = IF script = "gauge_sound" THEN "play" ELSE "magic"
      /\ input_string' = <<>> /\ skipped' = 0 /\ locked' \in BOOLEAN
      /\ UNCHANGED <<script, readings, frame, place, silent, wire>>
  BY DEF Report, Genuine, setting, gaugeVars, Inv, TypeOK
<1>2. Len(input_string') = 0 /\ input_string' \in Seq(Received)
  BY <1>1
<1>3. TypeOK'
  BY <1>1, <1>2, GaugeAssumption DEF Inv, TypeOK
<1>4. Framed(Stream', place', frame', readings')
  <2>1. wire \in Seq(Received)
    BY Parts
  <2>2. Stream' = wire
    BY <1>1, <2>1, EmptyHand DEF Stream
  <2> QED BY <1>1, <2>2, ReportLeaves
<1>5. InHand'
  BY <1>1, <1>2, <1>4 DEF InHand
<1> QED BY <1>3, <1>5 DEF Inv

LEMMA ResetInputInv ==
  ASSUME Inv, ResetInput
  PROVE  Inv'
<1>1. /\ pc = "play" /\ pc' = "magic" /\ wire' = <<>>
      /\ UNCHANGED <<script, readings, frame, place, silent, input_string, skipped, locked>>
  BY DEF ResetInput, setting, gaugeVars
<1>2. wire' \in Seq([byte : 0 .. 255, at : 1 .. FrameLength]) /\ Len(wire') = 0
  BY <1>1
<1>3. TypeOK'
  BY <1>1, <1>2, GaugeAssumption DEF Inv, TypeOK
<1>4. input_string' = <<>> /\ input_string' \in Seq(Received)
  BY <1>1 DEF Inv, InHand
<1>5. Framed(Stream', place', frame', readings')
  <2>1. Stream' = <<>>
    <3>1. <<>> \in Seq(Received)
      OBVIOUS
    <3> QED BY <1>1, <1>4, <3>1, EmptyHand DEF Stream
  <2>2. readings # {} /\ place \in 1 .. 9
    BY Parts
  <2>3. Framed(<<>>, place, frame, readings)
    BY <2>2, FramedEmpty
  <2> QED BY <1>1, <2>1, <2>3
<1>6. InHand'
  BY <1>1, <1>4, <1>5 DEF InHand
<1> QED BY <1>3, <1>6 DEF Inv

LEMMA InvStep ==
  ASSUME Inv, [Next]_vars
  PROVE  Inv'
<1>1. CASE SendByte
  BY <1>1, SendByteInv
<1>2. CASE FallSilent
  BY <1>2, FallSilentInv
<1>3. CASE ReadMagic
  BY <1>3, ReadMagicInv
<1>4. CASE ReadRest
  BY <1>4, ReadRestInv
<1>5. CASE Report
  BY <1>5, ReportInv
<1>6. CASE ResetInput
  BY <1>6, ResetInputInv
<1>7. CASE UNCHANGED vars
  <2>1. UNCHANGED <<script, readings, frame, place, silent, wire, input_string, pc, skipped, locked>>
    BY <1>7 DEF vars, setting, gaugeVars
  <2>2. TypeOK'
    BY <2>1 DEF Inv, TypeOK
  <2>3. Stream' = Stream
    BY <2>1 DEF Stream
  <2>4. InHand'
    BY <2>1, <2>3, Zenon DEF Inv, InHand, IsMagic, Bytes
  <2> QED BY <2>2, <2>4 DEF Inv
<1> QED BY <1>1, <1>2, <1>3, <1>4, <1>5, <1>6, <1>7 DEF Next, Script

\* The invariant of the scripts.
LEMMA InvHolds == Spec => []Inv
<1>1. Init => Inv
  BY InvInit
<1>2. Inv /\ [Next]_vars => Inv'
  BY InvStep
<1> QED BY <1>1, <1>2, PTL DEF Spec

\* Every state of the scripts has its type: what a script has in hand is
\* nothing, a pair or a whole frame, and no more is sent than fits.
THEOREM TypeCorrect == Spec => []TypeOK
<1>1. Inv => TypeOK
  BY DEF Inv
<1> QED BY <1>1, InvHolds, PTL

-----------------------------------------------------------------------------
(* In step and out of it *)

\* A script in step reads the magic pair, or the gauge has stopped.
LEMMA MagicInStep ==
  ASSUME Inv, pc = "magic", At = 1
  PROVE  IsMagic(Taken(2)) \/ IndexError(Taken(2))
<1>1. PICK u \in Seq(Received) : u = Taken(2) /\ Len(u) \in 0 .. 2
  BY PairRead
<1>2. PICK v \in Seq(Received) : v = Left(2)
  BY PairRead
<1>3. Stream = u \o v
  BY <1>1, <1>2, PairRead
<1>4. PICK r, t \in readings : Spans(Stream, 1, r, t)
  BY StreamSpans
<1>5. Spans(u, 1, r, t)
  BY <1>3, <1>4, SpansPrefix
<1>6. readings \in Sessions
  BY Parts
<1>7. (Len(u) >= 1 => u[1].byte = 7) /\ (Len(u) >= 2 => u[2].byte = 5)
  BY <1>5, <1>6, InStepPair
<1>8. \E n \in 0 .. 2 : n = Len(u)
  BY <1>1, Zenon
<1>9. PICK n \in 0 .. 2 : n = Len(u)
  BY <1>8
<1>10. n = 0 \/ n = 1 \/ n = 2
  OBVIOUS
<1>11. CASE Len(u) = 0
  <2>1. u = <<>>
    BY <1>11, EmptySeq, Zenon
  <2> QED BY <1>1, <2>1 DEF IndexError
<1>12. CASE Len(u) = 1
  <2>1. u[1].byte = 7
    <3>1. 1 >= 1
      OBVIOUS
    <3> QED BY <1>7, <1>12, <3>1, Zenon
  <2> QED BY <1>1, <1>12, <2>1, ErrorIs
<1>13. CASE Len(u) = 2
  <2>1. u[1].byte = 7 /\ u[2].byte = 5
    <3>1. 2 >= 1 /\ 2 >= 2
      OBVIOUS
    <3> QED BY <1>7, <1>13, <3>1, Zenon
  <2> QED BY <1>1, <1>13, <2>1, MagicIs
<1> QED BY <1>9, <1>10, <1>11, <1>12, <1>13, Zenon

\* Readings that never imitate the magic pair: the script that reads it is in step.
LEMMA MagicPlain ==
  ASSUME Inv, pc = "magic", readings \in Plain, IsMagic(Taken(2))
  PROVE  At = 1
<1>1. PICK u \in Seq(Received) : u = Taken(2)
  BY PairRead
<1>2. PICK v \in Seq(Received) : v = Left(2)
  BY PairRead
<1>3. Stream = u \o v
  BY <1>1, <1>2, PairRead
<1>4. PICK r, t \in readings : Spans(Stream, At, r, t)
  BY StreamSpans
<1>5. Spans(u, At, r, t)
  BY <1>3, <1>4, SpansPrefix
<1>6. Len(u) = 2 /\ u[1].byte = 7 /\ u[2].byte = 5
  BY <1>1, MagicIs
<1>7. Len(u) >= 2
  BY <1>6
<1>8. At \in 1 .. 9
  BY Parts
<1> QED BY <1>5, <1>6, <1>7, <1>8, PairInStep

\* The rest of a frame in step completes it.
LEMMA RestInStep ==
  ASSUME Inv, pc = "rest", At = 1, Len(input_string \o Taken(Rest)) >= FrameLength
  PROVE  Checks(input_string \o Taken(Rest))
<1>1. PICK u \in Seq(Received) : u = input_string \o Taken(Rest) /\ Len(u) \in 0 .. 9
  BY RestRead
<1>2. PICK v \in Seq(Received) : v = Left(Rest)
  BY RestRead
<1>3. Stream = u \o v
  BY <1>1, <1>2, RestRead
<1>4. PICK r, t \in readings : Spans(Stream, 1, r, t)
  BY StreamSpans
<1>5. Spans(u, 1, r, t)
  BY <1>3, <1>4, SpansPrefix
<1>6. readings \in Sessions
  BY Parts
<1>7. \A j \in 1 .. Len(u) : j <= 9 => u[j].byte = Frame(r)[j] /\ u[j].at = j
  BY <1>5, <1>6, InStepPair
<1>8. Len(u) = 9
  <2>1. \E n \in 0 .. 9 : n = Len(u)
    BY <1>1, Zenon
  <2>2. PICK n \in 0 .. 9 : n = Len(u)
    BY <2>1
  <2>3. n >= FrameLength
    BY <1>1, <2>2, Zenon
  <2>4. n = 9
    BY <2>3 DEF FrameLength
  <2> QED BY <2>2, <2>4, Zenon
<1>9. \A j \in 1 .. 9 : u[j].byte = Frame(r)[j]
  <2>1. ASSUME NEW j \in 1 .. 9 PROVE u[j].byte = Frame(r)[j]
    <3>1. j <= 9
      OBVIOUS
    <3>2. j \in 1 .. Len(u)
      BY <1>8, Zenon
    <3> QED BY <1>7, <3>1, <3>2, Zenon
  <2> QED BY <2>1
<1> QED BY <1>1, <1>6, <1>8, <1>9, InStepChecks

\* Nine bytes in hand are one frame where they were read in step, and there only.
LEMMA GenuineInStep ==
  ASSUME Inv, pc = "report"
  PROVE  Genuine(input_string) <=> At = 1
<1>1. PICK u \in Seq(Received) : u = input_string
  BY Parts
<1>2. wire \in Seq(Received) /\ Stream = u \o wire /\ readings \in Sessions
  BY <1>1, Parts DEF Stream
<1>3. Len(u) = 9
  BY <1>1 DEF Inv, InHand, FrameLength
<1>4. ASSUME At = 1 PROVE Genuine(u)
  <2>1. PICK r, t \in readings : Spans(Stream, 1, r, t)
    BY <1>4, StreamSpans
  <2>2. Spans(u, 1, r, t)
    BY <1>2, <2>1, SpansPrefix
  <2>3. \A j \in 1 .. Len(u) : j <= 9 => u[j].byte = Frame(r)[j] /\ u[j].at = j
    BY <1>2, <2>2, InStepPair
  <2> QED BY <1>3, <2>3 DEF Genuine, FrameLength
<1>5. ASSUME Genuine(u) PROVE At = 1
  <2>1. PICK i \in 1 .. 9 : i = At
    BY Parts
  <2>2. PICK r, t \in readings : Spans(Stream, i, r, t)
    BY <2>1, StreamSpans
  <2>3. Spans(u, i, r, t)
    BY <1>2, <2>2, SpansPrefix
  <2>4. u[1].at = i
    <3>1. 1 \in 1 .. Len(u)
      BY <1>3
    <3> QED BY <2>3, <3>1 DEF Spans
  <2>5. u[1].at = 1
    BY <1>5 DEF Genuine, FrameLength
  <2> QED BY <2>1, <2>4, <2>5
<1> QED BY <1>1, <1>4, <1>5

-----------------------------------------------------------------------------
(* A script that keeps its input *)

\* From the first frame of the gauge it reports, it stays in step.
InStep == locked /\ script = "gauge" =>
            skipped = 0 /\ (pc \in {"magic", "rest", "report"} => At = 1)

LEMMA InStepStep ==
  ASSUME Inv, InStep, [Next]_vars
  PROVE  InStep'
<1>1. CASE SendByte
  <2>1. UNCHANGED <<script, pc, skipped, locked>>
    BY <1>1 DEF SendByte, setting
  <2>2. pc # "exited" => At' = At
    BY <1>1, Sent
  <2> QED BY <2>1, <2>2 DEF InStep
<1>2. CASE FallSilent
  <2>1. UNCHANGED <<script, pc, skipped, locked, input_string, wire, place>>
    BY <1>2 DEF FallSilent, setting
  <2> QED BY <2>1 DEF InStep, At, Stream
<1>3. CASE ReadMagic
  <2>1. pc = "magic" /\ wire' = Left(2) /\ UNCHANGED <<script, locked, place>>
    BY <1>3 DEF ReadMagic, setting, gaugeVars
  <2>2. CASE IsMagic(Taken(2)) /\ pc' = "rest" /\ input_string' = Taken(2) /\ UNCHANGED skipped
    <3>1. Stream' = Stream
      BY <2>1, <2>2, PairRead DEF Stream
    <3> QED BY <2>1, <2>2, <3>1 DEF InStep, At
  <2>3. CASE pc' = "exited" /\ UNCHANGED <<input_string, skipped>>
    BY <2>1, <2>3 DEF InStep
  <2>4. CASE ~IsMagic(Taken(2)) /\ ~IndexError(Taken(2)) /\ UNCHANGED pc
    <3>1. At # 1
      BY <2>1, <2>4, MagicInStep
    <3> QED BY <2>1, <2>4, <3>1 DEF InStep
  <2> QED BY <1>3, <2>2, <2>3, <2>4 DEF ReadMagic
<1>4. CASE ReadRest
  <2> DEFINE string == input_string \o Taken(Rest)
  <2>1. pc = "rest" /\ wire' = Left(Rest) /\ UNCHANGED <<script, locked, place>>
    BY <1>4 DEF ReadRest, setting, gaugeVars
  <2>2. CASE pc' = "exited" /\ UNCHANGED skipped
    BY <2>1, <2>2 DEF InStep
  <2>3. CASE Len(string) >= FrameLength /\ Checks(string) /\ pc' = "report"
             /\ input_string' = string /\ UNCHANGED skipped
    <3>1. Stream' = Stream
      <4>1. string \o Left(Rest) = Stream
        BY <2>1, RestRead
      <4> HIDE DEF string
      <4> QED BY <2>1, <2>3, <4>1 DEF Stream
    <3> HIDE DEF string
    <3> QED BY <2>1, <2>3, <3>1 DEF InStep, At
  <2>4. CASE Len(string) >= FrameLength /\ ~Checks(string) /\ pc' = "magic"
    <3>1. At # 1
      BY <2>1, <2>4, RestInStep
    <3> QED BY <2>1, <2>4, <3>1 DEF InStep
  <2> QED BY <1>4, <2>2, <2>3, <2>4 DEF ReadRest
<1>5. CASE Report
  <2>1. /\ pc = "report" /\ pc' = IF script = "gauge_sound" THEN "play" ELSE "magic"
        /\ input_string' = <<>> /\ skipped' = 0 /\ locked' = (locked \/ Genuine(input_string))
        /\ UNCHANGED <<script, place, wire>>
    BY <1>5 DEF Report, setting, gaugeVars
  <2>2. locked' /\ script = "gauge" => At = 1
    BY <2>1, GenuineInStep DEF InStep
  <2>3. wire \in Seq(Received)
    BY Parts
  <2>4. Stream' = wire
    BY <2>1, <2>3, EmptyHand DEF Stream
  <2>5. At' = At
    BY <2>1, <2>4, ReportLeaves DEF At
  <2> QED BY <2>1, <2>2, <2>5 DEF InStep
<1>6. CASE ResetInput
  <2>1. pc = "play" /\ pc' = "magic" /\ UNCHANGED <<script, locked>>
    BY <1>6 DEF ResetInput, setting
  <2>2. script # "gauge"
    BY <2>1 DEF Inv, InHand
  <2> QED BY <2>1, <2>2 DEF InStep
<1>7. CASE UNCHANGED vars
  <2>1. UNCHANGED <<script, pc, skipped, locked, input_string, wire, place>>
    BY <1>7 DEF vars, setting, gaugeVars
  <2> QED BY <2>1 DEF InStep, At, Stream
<1> QED BY <1>1, <1>2, <1>3, <1>4, <1>5, <1>6, <1>7 DEF Next, Script

\* The session does not change.
LEMMA SameSession ==
  ASSUME [Next]_vars
  PROVE  readings' = readings
BY DEF Next, vars, setting, SendByte, FallSilent, Script, ReadMagic, ReadRest, Report, ResetInput

LEMMA InStepHolds == Spec => []InStep
<1>1. Init => InStep
  BY DEF Init, InStep
<1>2. InStep /\ Inv /\ [Next]_vars => InStep'
  BY InStepStep
<1> QED BY <1>1, <1>2, InvHolds, PTL DEF Spec

\* Whatever is measured, readings that imitate the magic pair or pass for a
\* frame out of step included: a script that has reported one frame of the
\* gauge, and keeps its input, skips nothing from then on.
THEOREM StaysCorrect == Spec => []StaysInStep
<1>1. InStep => StaysInStep
  BY DEF InStep, StaysInStep
<1> QED BY <1>1, InStepHolds, PTL

-----------------------------------------------------------------------------
(* Readings that never imitate the magic pair *)

\* The bytes that pairs skip from place p of a frame before they meet the
\* start of one, the next or, from an odd place, the one after.
Cost(p) == IF p = 1 THEN 0 ELSE IF p % 2 = 0 THEN 10 - p ELSE 19 - p

\* With n bytes skipped before it, there is enough for them.
Affords(n, p) == n + Cost(p) <= 16

Counted ==
  /\ skipped <= 16
  /\ pc \in {"rest", "report"} => At = 1
  /\ pc = "magic" => Affords(skipped, At) \/ (silent /\ wire = <<>>)

LEMMA CostIs ==
  ASSUME NEW p \in 1 .. 9
  PROVE  /\ Cost(p) \in 0 .. 16
         /\ p # 1 => Cost(p) = 2 + Cost(((p - 1 + 2) % 9) + 1)
         /\ Affords(0, p)
<1>1. p \in {1, 2, 3, 4, 5, 6, 7, 8, 9}
  OBVIOUS
<1> QED BY <1>1 DEF Cost, Affords

LEMMA CountedStep ==
  ASSUME Inv, readings \in Plain, Counted, [Next]_vars
  PROVE  Counted'
<1>0. skipped \in Nat /\ At \in 1 .. 9
  BY Parts DEF Inv, TypeOK
<1>1. CASE SendByte
  <2>1. pc' = pc /\ skipped' = skipped /\ ~silent
    BY <1>1 DEF SendByte
  <2>2. pc # "exited" => At' = At
    BY <1>1, Sent
  <2>3. pc = "magic" => Affords(skipped, At)
    BY <2>1, Zenon DEF Counted
  <2>4. pc' = "magic" => Affords(skipped', At')
    BY <2>1, <2>2, <2>3, Zenon
  <2>5. skipped' <= 16 /\ (pc' \in {"rest", "report"} => At' = 1)
    BY <2>1, <2>2 DEF Counted
  <2> QED BY <2>4, <2>5, Zenon DEF Counted
<1>2. CASE FallSilent
  <2>1. UNCHANGED <<pc, skipped, input_string, wire, place>> /\ silent' = TRUE
    BY <1>2 DEF FallSilent
  <2>2. At' = At
    BY <2>1 DEF At, Stream
  <2> QED BY <2>1, <2>2 DEF Counted
<1>3. CASE ReadMagic
  <2>1. pc = "magic" /\ wire' = Left(2) /\ UNCHANGED <<place, silent>> /\ Readable(2)
    BY <1>3 DEF ReadMagic, gaugeVars
  <2>2. CASE IsMagic(Taken(2)) /\ pc' = "rest" /\ input_string' = Taken(2) /\ UNCHANGED skipped
    <3>1. Stream' = Stream
      BY <2>1, <2>2, PairRead DEF Stream
    <3>2. At = 1
      BY <2>1, <2>2, MagicPlain
    <3>3. At' = 1
      BY <2>1, <3>1, <3>2 DEF At
    <3> QED BY <2>2, <3>3 DEF Counted
  <2>3. CASE pc' = "exited" /\ UNCHANGED <<input_string, skipped>>
    BY <2>1, <2>3 DEF Counted
  <2>4. CASE ~IsMagic(Taken(2)) /\ ~IndexError(Taken(2)) /\ Skip(Len(Taken(2)))
             /\ UNCHANGED <<pc, input_string>>
    <3>1. At # 1
      BY <2>1, <2>4, MagicInStep
    <3>2. PICK n \in 0 .. 2 : n = Len(Taken(2))
      <4>1. Len(Taken(2)) \in 0 .. 2
        BY <2>1, PairRead
      <4>2. \E n \in 0 .. 2 : n = Len(Taken(2))
        BY <4>1, Zenon
      <4> QED BY <4>2
    <3>3. n # 0
      <4>1. CASE Len(Taken(2)) = 0
        <5>1. PICK u \in Seq(Received) : u = Taken(2)
          BY <2>1, PairRead
        <5>2. u = <<>>
          BY <4>1, <5>1, EmptySeq, Zenon
        <5> QED BY <2>4, <5>1, <5>2 DEF IndexError
      <4> QED BY <3>2, <4>1
    <3>4. skipped' <= skipped + n /\ skipped' \in Nat
      <4>1. Skip(n) /\ n \in Nat
        BY <2>4, <3>2
      <4> QED BY <4>1, SkipType
    <3>5. wire # <<>>
      <4>1. ASSUME wire = <<>> PROVE FALSE
        <5>1. Len(wire) = 0
          BY <4>1
        <5>2. Len(Taken(2)) = IF Len(wire) < 2 THEN Len(wire) ELSE 2
          BY <2>1, PairRead
        <5>3. 0 < 2
          OBVIOUS
        <5>4. Len(Taken(2)) = 0
          BY <5>1, <5>2, <5>3, Zenon
        <5> QED BY <3>2, <3>3, <5>4, Zenon
      <4> QED BY <4>1
    <3>6. PICK p \in 1 .. 9, k \in Nat : p = At /\ k = skipped
      BY <1>0
    <3>7. Affords(k, p)
      BY <2>1, <3>5, <3>6 DEF Counted
    <3>8. PICK q \in 1 .. 9 : q = ((p - 1 + 2) % 9) + 1
      OBVIOUS
    <3>9. Cost(p) = 2 + Cost(q)
      BY <3>1, <3>6, <3>8, CostIs
    <3>10. k + 2 + Cost(q) <= 16 /\ Cost(q) \in 0 .. 16
      <4>1. Cost(p) \in 0 .. 16 /\ Cost(q) \in 0 .. 16
        BY CostIs
      <4> QED BY <3>7, <3>9, <4>1 DEF Affords
    <3>11. PICK m \in Nat : m = skipped' /\ m <= k + n
      BY <3>4, <3>6
    <3>12. m <= 16 /\ Affords(m, q)
      BY <3>10, <3>11 DEF Affords
    <3>13. CASE n = 2
      <4>1. Stream' = wire'
        <5>1. wire' \in Seq(Received) /\ input_string' = <<>>
          BY <2>1, <2>4, PairRead
        <5> QED BY <5>1, EmptyHand DEF Stream
      <4>2. First(Left(2), place) = q
        <5>1. First(Left(2), place) = ((At - 1 + Len(Taken(2))) % 9) + 1
          BY <2>1, PairRead
        <5> QED BY <3>2, <3>6, <3>8, <3>13, <5>1, Zenon
      <4>3. At' = q
        BY <2>1, <4>1, <4>2 DEF At
      <4>4. Affords(skipped', At') /\ skipped' <= 16
        BY <3>11, <3>12, <4>3
      <4>5. pc' = "magic"
        BY <2>1, <2>4
      <4> QED BY <4>4, <4>5, Zenon DEF Counted
    <3>14. CASE n # 2
      <4>1. n < 2
        BY <3>14
      <4>2. Len(Taken(2)) < 2
        BY <3>2, <4>1, Zenon
      <4>3. wire' = <<>>
        BY <2>1, <4>2, PairRead, Zenon
      <4>4. silent
        <5>1. Len(Taken(2)) = IF Len(wire) < 2 THEN Len(wire) ELSE 2
          BY <2>1, PairRead
        <5>2. PICK d \in Nat : d = Len(wire)
          BY Parts
        <5>3. n = IF d < 2 THEN d ELSE 2
          BY <3>2, <5>1, <5>2, Zenon
        <5>4. ~(d >= 2)
          BY <4>1, <5>3
        <5> QED BY <2>1, <5>2, <5>4, Zenon DEF Readable
      <4>5. skipped' <= 16 /\ pc' = "magic" /\ silent'
        BY <2>1, <2>4, <3>11, <3>12, <4>4
      <4> QED BY <4>3, <4>5 DEF Counted
    <3> QED BY <3>13, <3>14
  <2> QED BY <1>3, <2>2, <2>3, <2>4 DEF ReadMagic
<1>4. CASE ReadRest
  <2> DEFINE string == input_string \o Taken(Rest)
  <2>1. pc = "rest" /\ At = 1
    BY <1>4 DEF ReadRest, Counted
  <2>2. CASE pc' = "exited" /\ UNCHANGED skipped
    BY <2>2 DEF Counted
  <2>4. CASE pc' = "report" /\ input_string' = string /\ UNCHANGED skipped
    <3>1. wire' = Left(Rest) /\ UNCHANGED place /\ string \o Left(Rest) = Stream
      BY <1>4, <2>1, RestRead DEF ReadRest, gaugeVars
    <3> HIDE DEF string
    <3>2. Stream' = Stream
      BY <2>4, <3>1 DEF Stream
    <3>3. At' = 1
      BY <2>1, <3>1, <3>2 DEF At
    <3> QED BY <2>4, <3>3 DEF Counted
  <2>3. CASE Len(string) >= FrameLength /\ ~Checks(string)
    BY <2>1, <2>3, RestInStep
  <2> QED BY <1>4, <2>2, <2>3, <2>4 DEF ReadRest
<1>5. CASE Report
  <2>1. /\ pc = "report" /\ pc' \in {"play", "magic"}
        /\ input_string' = <<>> /\ skipped' = 0 /\ UNCHANGED <<place, wire>>
    BY <1>5 DEF Report, gaugeVars
  <2>2. wire \in Seq(Received)
    BY Parts
  <2>3. Stream' = wire
    BY <2>1, <2>2, EmptyHand DEF Stream
  <2>4. At' = At
    BY <2>1, <2>3, ReportLeaves DEF At
  <2>5. Affords(0, At)
    BY <1>0, CostIs
  <2>6. 0 <= 16
    OBVIOUS
  <2>7. Affords(skipped', At') /\ skipped' <= 16 /\ pc' \notin {"rest", "report"}
    BY <2>1, <2>4, <2>5, <2>6
  <2> QED BY <2>7, Zenon DEF Counted
<1>6. CASE ResetInput
  <2>1. pc = "play" /\ pc' = "magic" /\ UNCHANGED skipped
    BY <1>6 DEF ResetInput
  <2>2. skipped = 0
    BY <2>1 DEF Inv, InHand
  <2>3. At' \in 1 .. 9
    <3>1. Stream' = <<>> /\ UNCHANGED place /\ place \in 1 .. 9
      <4>1. wire' = <<>> /\ input_string' = <<>> /\ UNCHANGED place
        BY <1>6 DEF ResetInput, Inv, InHand, gaugeVars
      <4>2. <<>> \in Seq(Received)
        OBVIOUS
      <4> QED BY <4>1, <4>2, EmptyHand, Parts DEF Stream
    <3>2. <<>> \in Seq(Received)
      OBVIOUS
    <3> QED BY <3>1, <3>2, FirstType DEF At
  <2>4. PICK p \in 1 .. 9 : p = At'
    BY <2>3
  <2>5. Affords(0, p)
    BY CostIs
  <2>6. 0 <= 16
    OBVIOUS
  <2>7. Affords(skipped', At') /\ skipped' <= 16 /\ pc' \notin {"rest", "report"}
    BY <2>1, <2>2, <2>4, <2>5, <2>6
  <2> QED BY <2>7, Zenon DEF Counted
<1>7. CASE UNCHANGED vars
  <2>1. UNCHANGED <<pc, skipped, input_string, wire, place, silent>>
    BY <1>7 DEF vars, gaugeVars
  <2>2. At' = At
    BY <2>1 DEF At, Stream
  <2> QED BY <2>1, <2>2 DEF Counted
<1> QED BY <1>1, <1>2, <1>3, <1>4, <1>5, <1>6, <1>7 DEF Next, Script

LEMMA CountedHolds == Spec => [](readings \in Plain => Counted)
<1>1. ASSUME Init PROVE readings \in Plain => Counted
  <2>1. Inv
    BY <1>1, InvInit
  <2>2. At \in 1 .. 9
    BY <2>1, Parts
  <2>3. Affords(0, At)
    BY <2>2, CostIs
  <2>4. pc = "magic" /\ skipped = 0
    BY <1>1 DEF Init
  <2>5. 0 <= 16
    OBVIOUS
  <2>6. Affords(skipped, At) /\ skipped <= 16 /\ pc \notin {"rest", "report"}
    BY <2>3, <2>4, <2>5
  <2> QED BY <2>6, Zenon DEF Counted
<1>2. (readings \in Plain => Counted) /\ Inv /\ [Next]_vars => (readings \in Plain => Counted)'
  BY CountedStep, SameSession
<1> QED BY <1>1, <1>2, InvHolds, PTL DEF Spec

\* Readings that never imitate the magic pair: a script started anywhere in a
\* frame, or again after it has thrown its input away, skips sixteen bytes at most.
THEOREM InStepCorrect == Spec => []InStepWithinTwoFrames
<1>1. (readings \in Plain => Counted) => InStepWithinTwoFrames
  BY DEF Counted, InStepWithinTwoFrames, FrameLength
<1> QED BY <1>1, CountedHolds, PTL

\* What is reported is one frame of the gauge: of readings that never imitate
\* the magic pair, whichever script runs and wherever it starts; and of any
\* readings, those that pass for a frame out of step included, once a script
\* that keeps its input has reported one frame of the gauge.
THEOREM GenuineCorrect == Spec => []GenuineOnly
<1>1. ASSUME Inv, InStep, readings \in Plain => Counted
      PROVE  GenuineOnly
  <2>1. pc = "report" /\ (readings \in Plain \/ (script = "gauge" /\ locked)) => At = 1
    BY <1>1 DEF InStep, Counted
  <2> QED BY <1>1, <2>1, GenuineInStep DEF GenuineOnly
<1> QED BY <1>1, InvHolds, InStepHolds, CountedHolds, PTL
=============================================================================
