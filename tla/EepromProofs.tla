---------------------------- MODULE EepromProofs ----------------------------
(***************************************************************************)
(* The EEPROM log, for every size of it and every alphabet: types, that no *)
(* half-word is programmed twice, and that it is the map of EepromMap.     *)
(***************************************************************************)
EXTENDS MCEeprom, NaturalsInduction, WellFoundedInduction, TLAPS

\* What the assumption says of the constants one by one.
LEMMA ConstantTypes ==
  /\ FLASH_BEGIN \in Nat /\ FLASH_END \in Nat /\ SECTOR \in Nat /\ EEPROM_SIZE \in Nat
  /\ FLASH_BEGIN > 1 /\ SECTOR > 0 /\ EEPROM_SIZE > 0
  /\ EEPROM_SIZE < FLASH_END - FLASH_BEGIN
  /\ Blank \in Bytes /\ Erased \notin Entries
BY EepromAssumption

LEMMA LeastElement ==
  ASSUME NEW T, T \subseteq Nat, T # {}
  PROVE  \E p \in T : \A q \in T : p <= q
<1>1. \E p \in T : \A q \in T : <<q, p>> \notin OpToRel(<, Nat)
  BY NatLessThanWellFounded, WFMin
<1>2. PICK p \in T : \A q \in T : <<q, p>> \notin OpToRel(<, Nat)
  BY <1>1
<1>3. \A q \in T : ~(q < p)
  BY <1>2 DEF OpToRel
<1> QED
  BY <1>3

\* A set of half-words has a last one.
LEMMA GreatestCell ==
  ASSUME NEW T, T \subseteq Cells, T # {}
  PROVE  \E p \in T : \A q \in T : q <= p
<1> DEFINE Up == {FLASH_END - q : q \in T}
<1>1. Up \subseteq Nat /\ Up # {}
  BY ConstantTypes DEF Cells
<1>2. PICK u \in Up : \A v \in Up : u <= v
  BY <1>1, LeastElement
<1>3. PICK p \in T : u = FLASH_END - p
  BY <1>2
<1>4. ASSUME NEW q \in T  PROVE q <= p
  <2>1. FLASH_END - p <= FLASH_END - q
    BY <1>2, <1>3
  <2> QED
    BY <2>1, ConstantTypes DEF Cells
<1> QED
  BY <1>4

-----------------------------------------------------------------------------
(* The log as a value *)

Logs == [Cells -> Entries \cup {Erased}]
Ends == FLASH_BEGIN - 1 .. FLASH_END - 1

\* The log is programmed up to half-word e and erased beyond it.
Dense(log, e) == \A x \in Cells : log[x] # Erased <=> x <= e

\* Half-word h is the first erased one.
Hole(log, h) == log[h] = Erased /\ \A b \in FLASH_BEGIN .. h - 1 : log[b] # Erased

\* The search stops before the first erased half-word.
LEMMA LogEndAtHole ==
  ASSUME NEW log \in Logs, NEW h \in Cells, Hole(log, h)
  PROVE  LogEnd(log) = h - 1
<1>1. ~(\A x \in Cells : log[x] # Erased)
  BY DEF Hole
<1>2. \A x \in Cells : Hole(log, x) => x = h
  BY ConstantTypes DEF Hole, Cells
<1>3. (CHOOSE x \in Cells : log[x] = Erased /\ \A b \in FLASH_BEGIN .. x - 1 : log[b] # Erased) = h
  BY <1>2 DEF Hole
<1> QED
  BY <1>1, <1>3 DEF LogEnd

\* It always stops in the log or just before it.
LEMMA LogEndInLog ==
  ASSUME NEW log \in Logs
  PROVE  LogEnd(log) \in Ends
<1>1. CASE \A x \in Cells : log[x] # Erased
  BY <1>1, ConstantTypes DEF LogEnd, Ends
<1>2. CASE \E x \in Cells : log[x] = Erased
  <2> DEFINE T == {x \in Cells : log[x] = Erased}
  <2>1. T \subseteq Nat /\ T # {}
    BY <1>2, ConstantTypes DEF Cells
  <2>2. PICK h \in T : \A q \in T : h <= q
    BY <2>1, LeastElement
  <2>3. h \in Cells /\ Hole(log, h)
    BY <2>2, ConstantTypes DEF Hole, Cells
  <2>4. LogEnd(log) = h - 1
    BY <2>3, LogEndAtHole
  <2> QED
    BY <2>3, <2>4, ConstantTypes DEF Cells, Ends
<1> QED
  BY <1>1, <1>2

\* It stops on the last entry of a log without gaps.
LEMMA LogEndOfDense ==
  ASSUME NEW log \in Logs, NEW e \in Ends, Dense(log, e)
  PROVE  LogEnd(log) = e
<1>1. CASE e = FLASH_END - 1
  <2>1. \A x \in Cells : log[x] # Erased
    BY <1>1, ConstantTypes DEF Dense, Cells
  <2> QED
    BY <1>1, <2>1 DEF LogEnd
<1>2. CASE e # FLASH_END - 1
  <2>1. e + 1 \in Cells /\ e \in Int
    BY <1>2, ConstantTypes DEF Ends, Cells
  <2>2. Hole(log, e + 1)
    BY <2>1, ConstantTypes DEF Dense, Hole, Cells
  <2>3. LogEnd(log) = e + 1 - 1
    BY <2>1, <2>2, LogEndAtHole
  <2> QED
    BY <2>1, <2>3
<1> QED
  BY <1>1, <1>2

\* A read returns a byte.
LEMMA ScanIsByte ==
  ASSUME NEW log \in Logs, NEW addr \in Addrs, NEW e \in Int
  PROVE  Scan(log, addr, e) \in Bytes
<1> DEFINE found == Found(log, addr, e)
<1>1. CASE found = {}
  BY <1>1, ConstantTypes DEF Scan
<1>2. CASE found # {}
  <2>1. found \subseteq Cells
    BY DEF Found
  <2>2. \E p \in found : \A q \in found : q <= p
    BY <1>2, <2>1, GreatestCell
  <2>3. (CHOOSE x \in found : \A d \in found : d <= x) \in found
    BY <2>2
  <2>4. \A x \in found : log[x] \in Entries
    BY DEF Found, Logs
  <2> QED
    BY <1>2, <2>3, <2>4 DEF Scan, Entries
<1> QED
  BY <1>1, <1>2

\* Erased half-words at the end do not change what is read.
LEMMA ScanBeyond ==
  ASSUME NEW log \in Logs, NEW addr \in Addrs, NEW e \in Int, NEW f \in Int, e <= f,
         \A x \in Cells : e < x /\ x <= f => log[x] = Erased
  PROVE  Scan(log, addr, f) = Scan(log, addr, e)
<1>1. Found(log, addr, f) = Found(log, addr, e)
  BY ConstantTypes DEF Found, Cells
<1> QED
  BY <1>1 DEF Scan

\* Half-words that stay as they are up to e give the same reads up to e.
LEMMA ScanSame ==
  ASSUME NEW log \in Logs, NEW log2 \in Logs, NEW addr \in Addrs, NEW e \in Int,
         \A x \in Cells : x <= e => log2[x] = log[x]
  PROVE  Scan(log2, addr, e) = Scan(log, addr, e)
<1>1. Found(log2, addr, e) = Found(log, addr, e)
  BY DEF Found
<1>2. CASE Found(log, addr, e) = {}
  BY <1>1, <1>2 DEF Scan
<1>3. CASE Found(log, addr, e) # {}
  <2> DEFINE last == CHOOSE x \in Found(log, addr, e) : \A d \in Found(log, addr, e) : d <= x
  <2>1. Found(log, addr, e) \subseteq Cells
    BY DEF Found
  <2>2. last \in Found(log, addr, e)
    BY <1>3, <2>1, GreatestCell
  <2>3. log2[last] = log[last]
    BY <2>2 DEF Found
  <2> QED
    BY <1>1, <1>3, <2>3 DEF Scan
<1> QED
  BY <1>2, <1>3

\* The log with an entry programmed after half-word p - 1.
Written(log, p, a, d) == [log EXCEPT ![p] = Entry(a, d)]

\* It is a log, whose last entry is what is read at its address.
LEMMA ScanWritten ==
  ASSUME NEW log \in Logs, NEW p \in Cells, NEW a \in Addrs, NEW d \in Bytes
  PROVE  /\ Written(log, p, a, d) \in Logs
         /\ \A addr \in Addrs : Scan(Written(log, p, a, d), addr, p)
                                  = IF addr = a THEN d ELSE Scan(log, addr, p - 1)
<1> DEFINE new == Written(log, p, a, d)
<1>1. Entry(a, d) \in Entries /\ Entry(a, d) # Erased /\ Entry(a, d).addr = a /\ Entry(a, d).data = d
  BY ConstantTypes DEF Entry, Entries
<1>2. new \in Logs /\ new[p] = Entry(a, d) /\ \A x \in Cells : x # p => new[x] = log[x]
  BY <1>1 DEF Written, Logs
<1>3. p \in Int /\ p - 1 \in Int
  BY ConstantTypes DEF Cells
<1>4. ASSUME NEW addr \in Addrs, addr = a  PROVE Scan(new, addr, p) = d
  <2> DEFINE found == Found(new, addr, p)
  <2>1. p \in found /\ \A x \in found : x <= p
    BY <1>1, <1>2, <1>3, <1>4 DEF Found
  <2>2. \A x \in found : (\A y \in found : y <= x) => x = p
    BY <2>1, <1>3, ConstantTypes DEF Found, Cells
  <2>3. (CHOOSE x \in found : \A y \in found : y <= x) = p
    BY <2>1, <2>2
  <2>4. found # {}
    BY <2>1
  <2> QED
    BY <1>1, <1>2, <2>3, <2>4 DEF Scan
<1>5. ASSUME NEW addr \in Addrs, addr # a  PROVE Scan(new, addr, p) = Scan(log, addr, p - 1)
  <2>1. Found(new, addr, p) = Found(new, addr, p - 1)
    BY <1>1, <1>2, <1>3, <1>5, ConstantTypes DEF Found, Cells
  <2>2. Scan(new, addr, p) = Scan(new, addr, p - 1)
    BY <2>1 DEF Scan
  <2>3. \A x \in Cells : x <= p - 1 => new[x] = log[x]
    BY <1>2, <1>3, ConstantTypes DEF Cells
  <2> QED
    BY <1>2, <1>3, <2>2, <2>3, ScanSame
<1> QED
  BY <1>2, <1>4, <1>5

\* And it has no gap if there was none.
LEMMA DenseWritten ==
  ASSUME NEW log \in Logs, NEW p \in Cells, NEW a \in Addrs, NEW d \in Bytes, Dense(log, p - 1)
  PROVE  Dense(Written(log, p, a, d), p)
<1>1. Entry(a, d) # Erased
  BY ConstantTypes DEF Entry, Entries
<1> QED
  BY <1>1, ConstantTypes DEF Written, Dense, Logs, Cells

-----------------------------------------------------------------------------
(* The inductive invariant *)

\* As long as every write survives a restart, flashend is the last entry of a log
\* without gaps.
KeptInv == trust = "kept" => pc = "idle" /\ Dense(flash, End)

\* A rewrite leaves flashend one past it, on an erased half-word,
FreshInv == trust = "fresh" => pc = "idle" /\ flashend \in Cells /\ Dense(flash, flashend - 1)

\* over which the next writes leave a gap.
StaleInv ==
  trust = "stale" =>
    /\ pc = "idle" /\ flashend \in Cells
    /\ \A x \in Cells : x > flashend => flash[x] = Erased
    /\ \E h \in Cells : h <= flashend /\ Hole(flash, h)

\* How far a rewrite is.
EraseInv == pc = "erase" => \A x \in Cells : x < flashaddr => flash[x] = Erased
ProgramInv ==
  pc = "program" =>
    /\ Dense(flash, flashaddr - 1)
    /\ flashaddr - FLASH_BEGIN <= i
    /\ \A a \in Addrs : Scan(flash, a, flashaddr - 1) = IF a < i THEN buf[a] ELSE Blank

\* None of the parts is inductive alone: whether Append meets an erased half-word
\* depends on what the last rewrite left, and a restart in between on both.
IInv ==
  /\ TypeOK
  /\ KeptInv /\ FreshInv /\ StaleInv
  /\ trust = "rewriting" => pc # "idle"
  /\ EraseInv /\ ProgramInv

\* The types the proofs use most.
LEMMA Types ==
  ASSUME IInv
  PROVE  /\ flash \in Logs /\ End \in Ends /\ End \in Nat
         /\ flashend \in Nat /\ flashaddr \in Cells /\ flashaddr \in Nat /\ i \in Nat
         /\ buf \in [Addrs -> Bytes]
         /\ flashend # Unknown => flashend = End
<1>1. flash \in Logs
  BY DEF IInv, TypeOK, Logs
<1>2. End \in Ends
  BY <1>1, LogEndInLog DEF IInv, TypeOK, End, Ends
<1> QED
  BY <1>1, <1>2, ConstantTypes DEF IInv, TypeOK, End, Ends, Cells, Unknown

\* Whenever a write may be appended, the next half-word is erased.
LEMMA AppendsFromInv == IInv => AppendsOnErased
<1> SUFFICES ASSUME IInv, pc = "idle", trust # "lost", End + 1 < FLASH_END
             PROVE  flash[End + 1] = Erased
  BY DEF AppendsOnErased
<1>1. End + 1 \in Cells
  BY Types, ConstantTypes DEF Ends, Cells
<1>2. CASE trust = "kept"
  BY <1>1, <1>2, Types DEF IInv, KeptInv, Dense
<1>3. CASE trust = "fresh"
  <2>1. flashend = End
    BY <1>3, ConstantTypes DEF IInv, FreshInv, Cells, Unknown, End
  <2> QED
    BY <1>1, <1>3, <2>1, Types DEF IInv, FreshInv, Dense
<1>4. CASE trust = "stale"
  <2>1. flashend = End
    BY <1>4, ConstantTypes DEF IInv, StaleInv, Cells, Unknown, End
  <2> QED
    BY <1>1, <1>4, <2>1, Types DEF IInv, StaleInv
<1> QED
  BY <1>2, <1>3, <1>4 DEF IInv, TypeOK

LEMMA IInvInit == Init => IInv
<1> SUFFICES ASSUME Init PROVE IInv
  OBVIOUS
<1>1. flash = [x \in Cells |-> Erased] /\ flashend = Unknown /\ pc = "idle" /\ trust = "kept"
  BY DEF Init
<1>2. flash \in Logs
  BY <1>1 DEF Logs
<1>3. Entry(0, Blank) \in Entries /\ NoBytes \in [Addrs -> Bytes]
  BY ConstantTypes DEF Entry, Entries, NoBytes, Addrs
<1>4. TypeOK
  BY <1>1, <1>2, <1>3, ConstantTypes DEF Init, TypeOK, Logs, Cells, Unknown
<1>5. Dense(flash, FLASH_BEGIN - 1) /\ FLASH_BEGIN - 1 \in Ends
  BY <1>1, ConstantTypes DEF Dense, Ends, Cells
<1>6. Dense(flash, End)
  BY <1>1, <1>2, <1>5, LogEndOfDense DEF End
<1> QED
  BY <1>1, <1>4, <1>6 DEF IInv, KeptInv, FreshInv, StaleInv, EraseInv, ProgramInv

\* Where a byte is appended, and what the log is then.
LEMMA AppendWrites ==
  ASSUME IInv, NEW addr \in Addrs, NEW data \in Bytes, Append(addr, data), trust # "lost"
  PROVE  /\ End + 1 \in Cells /\ End + 1 # Unknown /\ flashend' = End + 1 /\ End' = End + 1
         /\ flash' = Written(flash, End + 1, addr, data)
<1>1. flash[End + 1] = Erased
  BY AppendsFromInv DEF Append, AppendsOnErased
<1>2. End + 1 \in Cells
  BY Types, ConstantTypes DEF Append, Ends, Cells
<1>3. End + 1 # Unknown
  BY <1>2, ConstantTypes DEF Cells, Unknown
<1> QED
  BY <1>1, <1>2, <1>3 DEF Append, Program, Written, End

LEMMA IInvAppend ==
  ASSUME IInv, NEW addr \in Addrs, NEW data \in Bytes, Append(addr, data)
  PROVE  IInv'
<1>1. Entry(addr, data) \in Entries
  BY DEF Entry, Entries
<1>2. End + 1 \in Cells /\ End + 1 \in Ends
  BY Types, ConstantTypes DEF Append, Ends, Cells
<1>3. flash' \in Logs
  BY <1>1, <1>2, Types DEF Append, Program, Logs
<1>4. TypeOK'
  BY <1>1, <1>2, <1>3 DEF IInv, TypeOK, Append, Logs, Ends
<1>5. pc' = "idle" /\ trust' # "rewriting"
  BY DEF Append, IInv
<1>6. CASE trust = "lost"
  BY <1>4, <1>5, <1>6 DEF Append, IInv, KeptInv, FreshInv, StaleInv, EraseInv, ProgramInv
<1>7. CASE trust = "kept"
  <2>1. trust' = "kept"
    BY <1>7 DEF Append
  <2>2. Dense(flash, End + 1 - 1)
    BY <1>7, Types DEF IInv, KeptInv
  <2>3. Dense(flash', End')
    BY <1>2, <1>7, <2>2, AppendWrites, DenseWritten, Types
  <2> QED
    BY <1>4, <1>5, <2>1, <2>3 DEF IInv, KeptInv, FreshInv, StaleInv, EraseInv, ProgramInv
<1>8. CASE trust \in {"fresh", "stale"}
  <2>1. trust' = "stale"
    BY <1>8 DEF Append
  <2>2. flashend = End
    BY <1>8, ConstantTypes DEF IInv, FreshInv, StaleInv, Cells, Unknown, End
  <2>3. \A x \in Cells : x # End + 1 => flash'[x] = flash[x]
    BY <1>2, <1>8, AppendWrites, Types DEF Written, Logs
  <2>4. \A x \in Cells : x > End => flash[x] = Erased
    BY <1>8, <2>2, Types, ConstantTypes DEF IInv, FreshInv, StaleInv, Dense, Cells
  <2>5. \E h \in Cells : h <= End /\ Hole(flash, h)
    <3>1. CASE trust = "fresh"
      <4>1. Hole(flash, End) /\ End \in Cells
        BY <2>2, <3>1, Types, ConstantTypes DEF IInv, FreshInv, Dense, Hole, Cells
      <4> QED
        BY <4>1, Types
    <3>2. CASE trust = "stale"
      BY <2>2, <3>2 DEF IInv, StaleInv
    <3> QED
      BY <1>8, <3>1, <3>2
  <2>6. \A x \in Cells : x > End + 1 => flash'[x] = Erased
    BY <2>3, <2>4, Types, ConstantTypes DEF Cells
  <2>7. \E h \in Cells : h <= End + 1 /\ Hole(flash', h)
    <3>1. PICK h \in Cells : h <= End /\ Hole(flash, h)
      BY <2>5
    <3>2. h <= End + 1 /\ h < End + 1
      BY <3>1, Types, ConstantTypes DEF Cells
    <3>3. \A b \in FLASH_BEGIN .. h - 1 : b \in Cells /\ b # End + 1
      BY <3>1, <3>2, Types, ConstantTypes DEF Cells
    <3>4. Hole(flash', h)
      BY <2>3, <3>1, <3>2, <3>3, Types DEF Hole
    <3> QED
      BY <3>2, <3>4
  <2>8. flashend' = End + 1
    BY DEF Append
  <2> QED
    BY <1>2, <1>4, <1>5, <2>1, <2>6, <2>7, <2>8
       DEF IInv, KeptInv, FreshInv, StaleInv, EraseInv, ProgramInv
<1> QED
  BY <1>6, <1>7, <1>8 DEF IInv, TypeOK, Append

LEMMA IInvStartRewrite ==
  ASSUME IInv, NEW addr \in Addrs, NEW data \in Bytes, StartRewrite(addr, data)
  PROVE  IInv'
<1>1. [a \in Addrs |-> Scan(flash, a, FLASH_END - 1)] \in [Addrs -> Bytes]
  BY Types, ScanIsByte, ConstantTypes
<1>2. buf' \in [Addrs -> Bytes]
  BY <1>1 DEF StartRewrite
<1>3. flashend' \in Ends /\ FLASH_BEGIN \in Cells /\ Entry(addr, data) \in Entries
  BY Types, ConstantTypes DEF StartRewrite, Cells, Entry, Entries
<1>4. TypeOK'
  BY <1>2, <1>3 DEF IInv, TypeOK, StartRewrite, Ends, Cells
<1>5. EraseInv'
  BY ConstantTypes DEF StartRewrite, EraseInv, Cells
<1> QED
  BY <1>4, <1>5 DEF StartRewrite, IInv, KeptInv, FreshInv, StaleInv, ProgramInv

\* Outside idle nothing is promised of a restart.
LEMMA BusyTrust ==
  ASSUME IInv, pc # "idle"
  PROVE  trust \in {"rewriting", "lost"}
BY DEF IInv, TypeOK, KeptInv, FreshInv, StaleInv

\* Nothing is read from an erased log.
LEMMA ScanEmpty ==
  ASSUME NEW log, NEW e \in Int, NEW addr, e < FLASH_BEGIN
  PROVE  Scan(log, addr, e) = Blank
<1>1. Found(log, addr, e) = {}
  BY ConstantTypes DEF Found, Cells
<1> QED
  BY <1>1 DEF Scan

LEMMA IInvEraseSector ==
  ASSUME IInv, EraseSector
  PROVE  IInv'
<1>1. flash' = [x \in Cells |-> IF x \in flashaddr .. flashaddr + SECTOR - 1 THEN Erased ELSE flash[x]]
  BY DEF EraseSector
<1>2. flash' \in Logs
  BY <1>1, Types DEF Logs
<1>3. \A x \in Cells : x < flashaddr + SECTOR => flash'[x] = Erased
  BY <1>1, Types, ConstantTypes DEF EraseSector, IInv, EraseInv, Cells
<1>4. trust' \in {"rewriting", "lost"} /\ pc' # "idle"
  BY BusyTrust DEF EraseSector
<1>5. CASE flashaddr + SECTOR < FLASH_END
  <2>1. flashaddr' = flashaddr + SECTOR /\ pc' = "erase" /\ i' = i
    BY <1>5, Types, ConstantTypes DEF EraseSector
  <2>2. flashaddr' \in Cells
    BY <1>5, <2>1, Types, ConstantTypes DEF Cells
  <2>3. TypeOK'
    BY <1>2, <2>1, <2>2 DEF IInv, TypeOK, EraseSector, Logs, Cells
  <2> QED
    BY <1>3, <1>4, <2>1, <2>3 DEF IInv, KeptInv, FreshInv, StaleInv, EraseInv, ProgramInv
<1>6. CASE flashaddr + SECTOR >= FLASH_END
  <2>1. flashaddr' = FLASH_BEGIN /\ pc' = "program" /\ i' = 0
    BY <1>6, Types, ConstantTypes DEF EraseSector
  <2>2. TypeOK'
    BY <1>2, <2>1, ConstantTypes DEF IInv, TypeOK, EraseSector, Logs
  <2>3. \A x \in Cells : flash'[x] = Erased
    BY <1>3, <1>6, Types, ConstantTypes DEF Cells
  <2>4. Dense(flash', FLASH_BEGIN - 1)
    BY <2>3, ConstantTypes DEF Dense, Cells
  <2>5. \A a \in Addrs : Scan(flash', a, FLASH_BEGIN - 1) = Blank /\ ~(a < 0)
    BY ScanEmpty, ConstantTypes DEF Addrs
  <2>6. ProgramInv'
    BY <2>1, <2>4, <2>5, ConstantTypes DEF ProgramInv
  <2> QED
    BY <1>4, <2>1, <2>2, <2>6 DEF IInv, KeptInv, FreshInv, StaleInv, EraseInv
<1> QED
  BY <1>5, <1>6, Types, ConstantTypes

\* The first address of a set.
LEMMA FirstIsLeast ==
  ASSUME NEW S, S \subseteq Addrs, S # {}
  PROVE  First(S) \in S /\ \A b \in S : First(S) <= b
<1>1. S \subseteq Nat
  BY ConstantTypes DEF Addrs
<1>2. \E a \in S : \A b \in S : a <= b
  BY <1>1, LeastElement
<1> QED
  BY <1>2 DEF First

\* The two addresses of a pair, and the log with both.
LEMMA PairWrites ==
  ASSUME IInv, ProgramPair
  PROVE  \E a \in Addrs, b \in Addrs :
           /\ i <= a /\ a < b /\ i' = b + 1
           /\ \A x \in Addrs : i <= x /\ x <= b /\ x # a /\ x # b => buf[x] = Blank
           /\ flashaddr + 1 \in Cells
           /\ flash' = Written(Written(flash, flashaddr, a, buf[a]), flashaddr + 1, b, buf[b])
<1> DEFINE a == First(Left)
           b == First(Left \ {a})
<1>1. Left \subseteq Addrs /\ Left \ {a} \subseteq Addrs /\ Left \ {a} # {} /\ Left # {}
  BY DEF ProgramPair, Left
<1>2. a \in Left /\ \A x \in Left : a <= x
  BY <1>1, FirstIsLeast
<1>3. b \in Left \ {a} /\ \A x \in Left \ {a} : b <= x
  BY <1>1, FirstIsLeast
<1>4. a \in Addrs /\ b \in Addrs /\ i <= a /\ a < b
  BY <1>1, <1>2, <1>3, ConstantTypes DEF Left, Addrs
<1>5. \A x \in Addrs : i <= x /\ x <= b /\ x # a /\ x # b => buf[x] = Blank
  <2> SUFFICES ASSUME NEW x \in Addrs, i <= x, x <= b, x # a, x # b, buf[x] # Blank PROVE FALSE
    OBVIOUS
  <2>1. x \in Left \ {a}
    BY Types, ConstantTypes DEF Left, Addrs
  <2> QED
    BY <1>3, <1>4, <2>1, ConstantTypes DEF Addrs
<1>6. flashaddr - FLASH_BEGIN <= i
  BY DEF ProgramPair, IInv, ProgramInv
<1>7. flashaddr + 1 \in Cells
  BY <1>4, <1>6, Types, ConstantTypes DEF Cells, Addrs
<1>8. i' = b + 1 /\ flash' = [flash EXCEPT ![flashaddr]     = Entry(a, buf[a]),
                                           ![flashaddr + 1] = Entry(b, buf[b])]
  BY DEF ProgramPair
<1>9. flash' = Written(Written(flash, flashaddr, a, buf[a]), flashaddr + 1, b, buf[b])
  BY <1>8 DEF Written
<1> HIDE DEF a, b
<1> QED
  BY <1>4, <1>5, <1>7, <1>8, <1>9

LEMMA IInvProgramPair ==
  ASSUME IInv, ProgramPair
  PROVE  IInv'
<1>1. PICK a \in Addrs, b \in Addrs :
           /\ i <= a /\ a < b /\ i' = b + 1
           /\ \A x \in Addrs : i <= x /\ x <= b /\ x # a /\ x # b => buf[x] = Blank
           /\ flashaddr + 1 \in Cells
           /\ flash' = Written(Written(flash, flashaddr, a, buf[a]), flashaddr + 1, b, buf[b])
  BY PairWrites
<1> DEFINE mid == Written(flash, flashaddr, a, buf[a])
<1>2. /\ a \in Addrs /\ b \in Addrs /\ a \in Nat /\ b \in Nat /\ b < EEPROM_SIZE
      /\ buf[a] \in Bytes /\ buf[b] \in Bytes
      /\ flashaddr \in Nat /\ flashaddr + 1 - 1 = flashaddr
  <2>1. a \in Addrs /\ b \in Addrs
    OBVIOUS
  <2>2. a \in Nat /\ b \in Nat /\ b < EEPROM_SIZE
    BY <2>1, ConstantTypes DEF Addrs
  <2>3. buf \in [Addrs -> Bytes] /\ flashaddr \in Nat
    BY Types
  <2> QED
    BY <2>1, <2>2, <2>3
<1>3. mid \in Logs /\ \A x \in Addrs : Scan(mid, x, flashaddr)
                                        = IF x = a THEN buf[a] ELSE Scan(flash, x, flashaddr - 1)
  BY <1>2, Types, ScanWritten
<1>4. /\ flash' \in Logs
      /\ \A x \in Addrs : Scan(flash', x, flashaddr + 1)
                            = IF x = b THEN buf[b] ELSE Scan(mid, x, flashaddr)
  <2>1. flashaddr + 1 \in Cells /\ flash' = Written(mid, flashaddr + 1, b, buf[b])
    BY <1>1
  <2> HIDE DEF mid
  <2>2. /\ Written(mid, flashaddr + 1, b, buf[b]) \in Logs
        /\ \A x \in Addrs : Scan(Written(mid, flashaddr + 1, b, buf[b]), x, flashaddr + 1)
                              = IF x = b THEN buf[b] ELSE Scan(mid, x, flashaddr + 1 - 1)
    BY <1>2, <1>3, <2>1, ScanWritten
  <2> QED
    BY <1>2, <2>1, <2>2
<1>5. pc = "program" /\ pc' = "program" /\ buf' = buf /\ flashaddr' = flashaddr + 2
      /\ flashend' = flashend /\ trust' = trust /\ asked' = asked
  BY DEF ProgramPair
<1>6. /\ Dense(flash, flashaddr - 1) /\ flashaddr - FLASH_BEGIN <= i
      /\ \A x \in Addrs : Scan(flash, x, flashaddr - 1) = IF x < i THEN buf[x] ELSE Blank
  BY <1>5 DEF IInv, ProgramInv
<1>7. flashaddr' - FLASH_BEGIN <= i' /\ i' \in 0 .. EEPROM_SIZE /\ flashaddr' \in Cells
      /\ flashaddr' - 1 = flashaddr + 1
  <2>1. i + 2 <= b + 1 /\ i' = b + 1 /\ flashaddr' = flashaddr + 2 /\ flashaddr - FLASH_BEGIN <= i
    BY <1>1, <1>2, <1>5, <1>6, Types
  <2> QED
    BY <1>2, <2>1, Types, ConstantTypes DEF Cells
<1>8. TypeOK'
  BY <1>4, <1>5, <1>7 DEF IInv, TypeOK, Logs, Cells
<1>9. Dense(mid, flashaddr)
  BY <1>2, <1>6, Types, DenseWritten
<1>10. Dense(flash', flashaddr + 1)
  <2>1. Dense(mid, flashaddr + 1 - 1)
    BY <1>2, <1>9
  <2>2. flashaddr + 1 \in Cells /\ flash' = Written(mid, flashaddr + 1, b, buf[b])
    BY <1>1
  <2> HIDE DEF mid
  <2> QED
    BY <1>2, <1>3, <2>1, <2>2, DenseWritten
<1>11. ASSUME NEW x \in Addrs
       PROVE  Scan(flash', x, flashaddr + 1) = IF x < b + 1 THEN buf[x] ELSE Blank
  <2>1. x \in Int /\ a \in Int /\ b \in Int
    BY ConstantTypes DEF Addrs
  <2>2. CASE x = a \/ x = b
    BY <1>1, <1>3, <1>4, <2>1, <2>2
  <2>3. CASE x # a /\ x # b
    <3>1. Scan(flash', x, flashaddr + 1) = IF x < i THEN buf[x] ELSE Blank
      BY <1>3, <1>4, <1>6, <2>3
    <3> QED
      BY <1>1, <2>1, <2>3, <3>1, Types
  <2> QED
    BY <2>2, <2>3
<1>12. ProgramInv'
  BY <1>1, <1>5, <1>7, <1>10, <1>11 DEF ProgramInv
<1>13. trust' \in {"rewriting", "lost"}
  BY <1>5, BusyTrust
<1> QED
  BY <1>5, <1>8, <1>12, <1>13 DEF IInv, KeptInv, FreshInv, StaleInv, EraseInv

\* The end of a rewrite: the log holds buf, and flashend is one past its last entry.
LEMMA RewriteEnds ==
  ASSUME IInv, ProgramLast
  PROVE  /\ flash' \in Logs
         /\ flashend' \in Cells /\ Dense(flash', flashend' - 1)
         /\ \A x \in Addrs : Scan(flash', x, flashend' - 1) = buf[x]
<1>1. /\ Dense(flash, flashaddr - 1) /\ flashaddr - FLASH_BEGIN <= i
      /\ \A x \in Addrs : Scan(flash, x, flashaddr - 1) = IF x < i THEN buf[x] ELSE Blank
  BY DEF ProgramLast, IInv, ProgramInv
<1>2. CASE Left = {}
  <2>1. flashend' = flashaddr /\ flash' = flash
    BY <1>2 DEF ProgramLast
  <2>2. \A x \in Addrs : x < i \/ buf[x] = Blank
    BY <1>2, Types, ConstantTypes DEF Left, Addrs
  <2> QED
    BY <1>1, <2>1, <2>2, Types
<1>3. CASE Left # {}
  <2> DEFINE a == First(Left)
  <2>1. flashend' = flashaddr + 1 /\ flash' = Written(flash, flashaddr, a, buf[a])
    BY <1>3 DEF ProgramLast, Written
  <2>2. Left \subseteq Addrs
    BY DEF Left
  <2>3. a \in Left /\ \A x \in Left : x = a
    BY <1>3, <2>2, FirstIsLeast DEF ProgramLast
  <2>4. a \in Addrs /\ a >= i /\ buf[a] \in Bytes
    BY <2>3, Types DEF Left
  <2>5. flashaddr + 1 \in Cells /\ flashaddr + 1 - 1 = flashaddr
    BY <1>1, <2>4, Types, ConstantTypes DEF Cells, Addrs
  <2> HIDE DEF a
  <2>6. Dense(flash', flashaddr)
    BY <1>1, <2>1, <2>4, Types, DenseWritten
  <2>7. flash' \in Logs /\ \A x \in Addrs : Scan(flash', x, flashaddr)
                                        = IF x = a THEN buf[a] ELSE Scan(flash, x, flashaddr - 1)
    BY <2>1, <2>4, Types, ScanWritten
  <2>8. \A x \in Addrs : x < i \/ x = a \/ buf[x] = Blank
    BY <2>3, Types, ConstantTypes DEF Left, Addrs
  <2>9. \A x \in Addrs : Scan(flash', x, flashaddr) = buf[x]
    BY <1>1, <2>7, <2>8
  <2> QED
    <3>1. flashend' - 1 = flashaddr /\ flashend' \in Cells
      BY <2>1, <2>5, Types
    <3> QED
      BY <2>6, <2>7, <2>9, <3>1
<1> QED
  BY <1>2, <1>3

LEMMA IInvProgramLast ==
  ASSUME IInv, ProgramLast
  PROVE  IInv'
<1>1. NoBytes \in [Addrs -> Bytes] /\ FLASH_BEGIN \in Cells
  BY ConstantTypes DEF NoBytes, Cells
<1>2. flashend' \in Ends
  BY RewriteEnds, ConstantTypes DEF Cells, Ends
<1>3. TypeOK'
  BY <1>1, <1>2, RewriteEnds, ConstantTypes DEF IInv, TypeOK, ProgramLast, Return, Ends, Cells, Logs
<1>4. pc' = "idle" /\ trust' \in {"fresh", "lost"}
  BY DEF ProgramLast, Return
<1> QED
  BY <1>3, <1>4, RewriteEnds DEF IInv, KeptInv, FreshInv, StaleInv, EraseInv, ProgramInv

\* A restart finds the end of a log without gaps.
LEMMA IInvRestart ==
  ASSUME IInv, Restart
  PROVE  IInv'
<1>1. NoBytes \in [Addrs -> Bytes] /\ FLASH_BEGIN \in Cells
  BY ConstantTypes DEF NoBytes, Cells
<1>2. TypeOK'
  BY <1>1, ConstantTypes DEF IInv, TypeOK, Restart, Return, Cells, Unknown
<1>3. pc' = "idle" /\ trust' \in {"kept", "lost"} /\ flash' = flash /\ flashend' = Unknown
  BY DEF Restart, Return
<1>4. KeptInv'
  <2> SUFFICES ASSUME trust' = "kept" PROVE Dense(flash, LogEnd(flash))
    BY <1>3 DEF KeptInv, End
  <2>1. CASE trust = "kept"
    <3>1. Dense(flash, End)
      BY <2>1 DEF IInv, KeptInv
    <3> QED
      BY <3>1, Types, LogEndOfDense
  <2>2. CASE trust = "fresh"
    <3>1. flashend \in Cells /\ Dense(flash, flashend - 1)
      BY <2>2 DEF IInv, FreshInv
    <3>2. flashend - 1 \in Ends
      BY <3>1, ConstantTypes DEF Cells, Ends
    <3> QED
      BY <3>1, <3>2, Types, LogEndOfDense
  <2> QED
    BY <2>1, <2>2 DEF Restart
<1> QED
  BY <1>2, <1>3, <1>4 DEF IInv, FreshInv, StaleInv, EraseInv, ProgramInv

\* After the search flashend says what End said before.
LEMMA InitializeKeepsEnd ==
  ASSUME IInv, Initialize
  PROVE  End' = End /\ flashend' = End /\ flashend' # Unknown
<1>1. LogEnd(flash) # Unknown
  BY Types, LogEndInLog, ConstantTypes DEF Ends, Unknown
<1> QED
  BY <1>1 DEF Initialize, End

LEMMA IInvInitialize ==
  ASSUME IInv, Initialize
  PROVE  IInv'
<1>1. TypeOK'
  BY InitializeKeepsEnd, Types DEF IInv, TypeOK, Initialize, Ends
<1>2. pc' = "idle" /\ trust' = trust /\ flash' = flash
  BY DEF Initialize
<1>3. trust \in {"kept", "lost"}
  BY ConstantTypes DEF IInv, TypeOK, Initialize, FreshInv, StaleInv, Cells, Unknown
<1> QED
  BY <1>1, <1>2, <1>3, InitializeKeepsEnd DEF IInv, KeptInv, FreshInv, StaleInv, EraseInv, ProgramInv

\* Every step keeps the invariant.
LEMMA IInvNext == IInv /\ [Next]_vars => IInv'
<1> SUFFICES ASSUME IInv, [Next]_vars PROVE IInv'
  OBVIOUS
<1>1. CASE UNCHANGED vars
  BY <1>1 DEF vars, IInv, TypeOK, KeptInv, FreshInv, StaleInv, EraseInv, ProgramInv, End
<1> QED
  BY <1>1, IInvInitialize, IInvAppend, IInvStartRewrite, IInvEraseSector, IInvProgramPair,
     IInvProgramLast, IInvRestart DEF Next

\* The invariant holds always.
THEOREM IInvAlways == Spec => []IInv
<1> QED
  BY IInvInit, IInvNext, PTL DEF Spec

\* Every variable keeps its type: the rewrite stays within the log.
THEOREM TypeCorrect == Spec => []TypeOK
<1>1. IInv => TypeOK
  BY DEF IInv
<1> QED
  BY <1>1, IInvAlways, PTL

\* No half-word is programmed twice, unless a restart met a rewrite half done or
\* a gap.
THEOREM AppendsCorrect == Spec => []AppendsOnErased
<1> QED
  BY AppendsFromInv, IInvAlways, PTL

-----------------------------------------------------------------------------
(* The refinement *)

\* An empty log reads Blank, before a restart and after it.
LEMMA InitRefines == Init => Map!MapInit
<1> SUFFICES ASSUME Init PROVE Map!MapInit
  OBVIOUS
<1>1. flash \in Logs /\ trust = "kept" /\ End = LogEnd(flash) /\ asked = Entry(0, Blank)
  BY DEF Init, Logs, End
<1>2. Contents = Durable /\ Contents = [a \in Addrs |-> Scan(flash, a, End)]
  BY <1>1 DEF Contents, Durable
<1>3. \A a \in Addrs : Scan(flash, a, End) \in Bytes
  BY <1>1, LogEndInLog, ScanIsByte, ConstantTypes DEF Ends
<1>4. Contents \in [Addrs -> Bytes]
  BY <1>2, <1>3
<1>5. asked \in [addr : Addrs, data : Bytes]
  BY <1>1, ConstantTypes DEF Entry, Addrs
<1> QED
  BY <1>1, <1>2, <1>4, <1>5 DEF Map!MapInit

\* In a log without gaps a restart changes nothing.
LEMMA KeptReads == IInv /\ trust = "kept" => LogEnd(flash) = End
BY Types, LogEndOfDense DEF IInv, KeptInv

\* flashend one too far names an erased half-word: reads are those of a restart.
LEMMA FreshReads ==
  IInv /\ trust = "fresh" =>
    /\ flashend = End /\ LogEnd(flash) = flashend - 1
    /\ \A a \in Addrs : Scan(flash, a, End) = Scan(flash, a, LogEnd(flash))
<1> SUFFICES ASSUME IInv, trust = "fresh"
             PROVE  /\ flashend = End /\ LogEnd(flash) = flashend - 1
                    /\ \A a \in Addrs : Scan(flash, a, End) = Scan(flash, a, LogEnd(flash))
  OBVIOUS
<1>1. flashend \in Cells /\ Dense(flash, flashend - 1)
  BY DEF IInv, FreshInv
<1>2. flashend = End /\ flashend - 1 \in Ends /\ flashend \in Int
  BY <1>1, ConstantTypes DEF Cells, Ends, Unknown, End
<1>3. LogEnd(flash) = flashend - 1
  BY <1>1, <1>2, Types, LogEndOfDense
<1>4. \A x \in Cells : flashend - 1 < x /\ x <= flashend => flash[x] = Erased
  BY <1>1, <1>2, ConstantTypes DEF Dense, Cells
<1>5. \A a \in Addrs : Scan(flash, a, flashend) = Scan(flash, a, flashend - 1)
  BY <1>2, <1>4, Types, ScanBeyond
<1> QED
  BY <1>2, <1>3, <1>5

\* An appended entry is read at its address, and nothing else changes.
LEMMA AppendReads ==
  ASSUME IInv, NEW addr \in Addrs, NEW data \in Bytes, Append(addr, data), trust # "lost"
  PROVE  /\ Contents' = [Contents EXCEPT ![addr] = data]
         /\ asked' = [addr |-> addr, data |-> data]
<1>1. trust # "rewriting" /\ trust' # "rewriting"
  BY DEF IInv, Append
<1>2. Contents = [a \in Addrs |-> Scan(flash, a, End)] /\ Contents' = [a \in Addrs |-> Scan(flash', a, End')]
  BY <1>1 DEF Contents
<1>3. \A a \in Addrs : Scan(flash', a, End') = IF a = addr THEN data ELSE Scan(flash, a, End)
  <2>1. End + 1 \in Cells /\ End' = End + 1 /\ flash' = Written(flash, End + 1, addr, data) /\ End + 1 - 1 = End
    BY AppendWrites, Types
  <2> QED
    BY <2>1, Types, ScanWritten
<1>4. asked' = [addr |-> addr, data |-> data]
  BY DEF Append, Entry
<1> QED
  BY <1>2, <1>3, <1>4

LEMMA AppendRefines ==
  ASSUME IInv, IInv', NEW addr \in Addrs, NEW data \in Bytes, Append(addr, data)
  PROVE  Map!MapNext
<1>1. CASE trust = "lost"
  BY <1>1 DEF Append, Map!MapNext, Map!Lost
<1>2. CASE trust = "kept"
  <2>1. trust' = "kept"
    BY <1>2 DEF Append
  <2>2. LogEnd(flash') = End'
    <3>1. (IInv /\ trust = "kept" => LogEnd(flash) = End)'
      BY KeptReads, PTL
    <3> QED
      BY <2>1, <3>1
  <2>3. Durable' = Contents'
    BY <2>1, <2>2 DEF Contents, Durable
  <2>4. Map!Put(addr, data)
    BY <1>2, <2>1, <2>3, AppendReads DEF Map!Put, Map!Stored
  <2> QED
    BY <2>4 DEF Map!MapNext
<1>3. CASE trust \in {"fresh", "stale"}
  <2>1. trust' = "stale"
    BY <1>3 DEF Append
  <2>2. PICK h \in Cells : h <= End /\ Hole(flash, h)
    <3>1. CASE trust = "fresh"
      <4>1. flashend = End /\ flashend \in Cells /\ Dense(flash, flashend - 1)
        BY <3>1, FreshReads DEF IInv, FreshInv
      <4>2. Hole(flash, End)
        BY <4>1, ConstantTypes DEF Dense, Hole, Cells
      <4> QED
        BY <4>1, <4>2, Types
    <3>2. CASE trust = "stale"
      <4>1. flashend = End
        BY <3>2, ConstantTypes DEF IInv, StaleInv, Cells, Unknown, End
      <4> QED
        BY <3>2, <4>1 DEF IInv, StaleInv
    <3> QED
      BY <1>3, <3>1, <3>2
  <2>3. flash' = Written(flash, End + 1, addr, data) /\ End + 1 \in Cells
    BY <1>3, AppendWrites
  <2>4. h \in Int /\ h < End + 1 /\ \A b \in FLASH_BEGIN .. h - 1 : b \in Cells /\ b # End + 1
    BY <2>2, Types, ConstantTypes DEF Cells
  <2>5. \A x \in Cells : x < End + 1 => flash'[x] = flash[x]
    BY <2>3, Types, ConstantTypes DEF Written, Cells, Logs
  <2>6. Hole(flash', h)
    BY <2>2, <2>4, <2>5, Types, ConstantTypes DEF Hole, Cells
  <2>7. flash' \in Logs
    BY Types DEF IInv, TypeOK, Logs
  <2>8. LogEnd(flash) = h - 1 /\ LogEnd(flash') = h - 1
    BY <2>2, <2>6, <2>7, Types, LogEndAtHole
  <2>9. \A a \in Addrs : Scan(flash', a, h - 1) = Scan(flash, a, h - 1)
    <3>1. \A x \in Cells : x <= h - 1 => flash'[x] = flash[x]
      BY <2>4, <2>5, Types, ConstantTypes DEF Cells
    <3>2. h - 1 \in Int
      BY <2>4
    <3> QED
      BY <2>7, <3>1, <3>2, Types, ScanSame
  <2>10. Durable' = Durable
    BY <1>3, <2>1, <2>8, <2>9 DEF Durable
  <2>11. Map!Put(addr, data)
    BY <1>3, <2>1, <2>10, AppendReads DEF Map!Put, Map!Stored
  <2> QED
    BY <2>11 DEF Map!MapNext
<1>4. trust # "rewriting"
  BY DEF IInv, Append
<1> QED
  BY <1>1, <1>2, <1>3, <1>4 DEF IInv, TypeOK

LEMMA StartRewriteRefines ==
  ASSUME IInv, NEW addr \in Addrs, NEW data \in Bytes, StartRewrite(addr, data)
  PROVE  Map!MapNext
<1>1. CASE trust = "lost"
  BY <1>1 DEF StartRewrite, Map!MapNext, Map!Lost
<1>2. CASE trust # "lost"
  <2>1. trust' = "rewriting" /\ trust \in {"kept", "fresh", "stale"}
    BY <1>2 DEF StartRewrite, IInv, TypeOK
  <2>2. End = FLASH_END - 1
    BY Types, ConstantTypes DEF StartRewrite, Ends
  <2>3. Contents = [a \in Addrs |-> Scan(flash, a, FLASH_END - 1)]
    BY <2>1, <2>2 DEF Contents
  <2>4. Contents' = buf' /\ Durable' = buf'
    BY <2>1 DEF Contents, Durable
  <2>5. Contents' = [Contents EXCEPT ![addr] = data] /\ Durable' = Contents'
    BY <2>3, <2>4 DEF StartRewrite
  <2>6. asked' = [addr |-> addr, data |-> data]
    BY DEF StartRewrite, Entry
  <2>7. Map!PutAndRewrite(addr, data)
    BY <2>1, <2>5, <2>6 DEF Map!PutAndRewrite, Map!Stored
  <2> QED
    BY <2>7 DEF Map!MapNext
<1> QED
  BY <1>1, <1>2

LEMMA ProgramLastRefines ==
  ASSUME IInv, IInv', ProgramLast
  PROVE  Map!MapNext
<1>1. CASE trust = "lost"
  BY <1>1 DEF ProgramLast, Map!MapNext, Map!Lost
<1>2. CASE trust # "lost"
  <2>1. trust = "rewriting" /\ trust' = "fresh"
    BY <1>2, BusyTrust DEF ProgramLast
  <2>2. LogEnd(flash') = flashend' - 1 /\ \A a \in Addrs : Scan(flash', a, End') = Scan(flash', a, LogEnd(flash'))
    <3>1. (IInv /\ trust = "fresh" =>
             /\ flashend = End /\ LogEnd(flash) = flashend - 1
             /\ \A a \in Addrs : Scan(flash, a, End) = Scan(flash, a, LogEnd(flash)))'
      BY FreshReads, PTL
    <3> QED
      BY <2>1, <3>1
  <2>3. \A a \in Addrs : Scan(flash', a, LogEnd(flash')) = buf[a]
    BY <2>2, RewriteEnds
  <2>4. Contents' = [a \in Addrs |-> buf[a]] /\ Durable' = [a \in Addrs |-> buf[a]]
    BY <2>1, <2>2, <2>3 DEF Contents, Durable
  <2>5. Contents = buf /\ Durable = buf /\ buf = [a \in Addrs |-> buf[a]]
    BY <2>1, Types DEF Contents, Durable
  <2>6. Contents' = Contents /\ Durable' = Durable /\ asked' = asked
    BY <2>4, <2>5 DEF ProgramLast
  <2> QED
    BY <2>1, <2>6 DEF Map!MapNext, Map!Rewritten
<1> QED
  BY <1>1, <1>2

LEMMA RestartRefines ==
  ASSUME IInv, Restart
  PROVE  [Map!MapNext]_(Map!map)
<1>1. flash' = flash /\ asked' = asked /\ End' = LogEnd(flash)
  BY DEF Restart, End
<1>2. trust' # "rewriting"
  BY DEF Restart
<1>3. /\ Contents' = [a \in Addrs |-> Scan(flash, a, LogEnd(flash))]
      /\ Durable' = [a \in Addrs |-> Scan(flash, a, LogEnd(flash))]
  BY <1>1, <1>2 DEF Contents, Durable
<1>4. CASE trust = "kept"
  <2>1. Contents' = Contents /\ Durable' = Durable /\ trust' = trust
    BY <1>3, <1>4, KeptReads DEF Contents, Durable, Restart
  <2> QED
    BY <1>1, <2>1 DEF Map!map
<1>5. CASE trust = "fresh"
  <2>1. Contents' = Contents /\ Durable' = Durable /\ trust' = "kept"
    BY <1>3, <1>5, FreshReads DEF Contents, Durable, Restart
  <2> QED
    BY <1>1, <1>5, <2>1 DEF Map!MapNext, Map!Restart
<1>6. CASE trust = "stale"
  <2>1. Contents' = Durable /\ trust' = "lost"
    BY <1>3, <1>6 DEF Durable, Restart
  <2> QED
    BY <1>1, <1>6, <2>1 DEF Map!MapNext, Map!Restart
<1>7. CASE trust \in {"rewriting", "lost"}
  <2>1. trust' = "lost"
    BY <1>7 DEF Restart
  <2> QED
    BY <1>1, <1>7, <2>1 DEF Map!MapNext, Map!Restart, Map!Lost
<1> QED
  BY <1>4, <1>5, <1>6, <1>7 DEF IInv, TypeOK

\* Every step of the driver is a step of the map or changes nothing in it.
LEMMA NextRefines ==
  ASSUME IInv, IInv', [Next]_vars
  PROVE  [Map!MapNext]_(Map!map)
<1>1. CASE UNCHANGED vars
  BY <1>1 DEF vars, Map!map, Contents, Durable, End
<1>2. CASE Initialize
  <2>1. End' = End /\ flash' = flash /\ buf' = buf /\ trust' = trust /\ asked' = asked
    BY <1>2, InitializeKeepsEnd DEF Initialize
  <2> QED
    BY <2>1 DEF Map!map, Contents, Durable
<1>3. CASE EraseSector \/ ProgramPair
  <2>1. trust' = trust /\ buf' = buf /\ asked' = asked /\ trust \in {"rewriting", "lost"}
    BY <1>3, BusyTrust DEF EraseSector, ProgramPair
  <2>2. CASE trust = "rewriting"
    BY <2>1, <2>2 DEF Map!map, Contents, Durable
  <2>3. CASE trust = "lost"
    BY <2>1, <2>3 DEF Map!MapNext, Map!Lost
  <2> QED
    BY <2>1, <2>2, <2>3
<1> QED
  BY <1>1, <1>2, <1>3, AppendRefines, StartRewriteRefines, ProgramLastRefines, RestartRefines DEF Next

\* The driver is a map from addresses to bytes that survives a restart at any
\* moment until its log is full for the first time.
THEOREM MapCorrect == Spec => CrashSafeUntilFull
<1>1. IInv /\ IInv' /\ [Next]_vars => [Map!MapNext]_(Map!map)
  BY NextRefines
<1> QED
  BY <1>1, InitRefines, IInvAlways, PTL DEF Spec, CrashSafeUntilFull, Map!MapSpec
=============================================================================
