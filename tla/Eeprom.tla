------------------------------- MODULE Eeprom -------------------------------
(***************************************************************************)
(* The EEPROM emulation of the Teensy LC (teensy3/eeprom.c, KINETISL): a   *)
(* log of half-words in flash, an entry per write, scanned from its start. *)
(* A write that finds the log full keeps the latest byte of each address   *)
(* in RAM, erases the log and writes them back.                            *)
(*                                                                         *)
(* A step is one flash command with what the code does around it.  The     *)
(* board may restart between any two: flash stays, variables do not.       *)
(***************************************************************************)
EXTENDS Integers, FiniteSets

CONSTANTS FLASH_BEGIN, FLASH_END,  \* the log's first half-word, and the one after its last
          SECTOR,                  \* half-words one command erases (512)
          EEPROM_SIZE,             \* addresses (128)
          Bytes,                   \* the values of a byte
          Blank,                   \* the byte 0xFF, read where nothing was written
          Erased                   \* the half-word 0xFFFF, which is no entry

Addrs   == 0 .. EEPROM_SIZE - 1
Cells   == FLASH_BEGIN .. FLASH_END - 1
Entries == [addr : Addrs, data : Bytes]
Unknown == 0   \* flashend after a reset

ASSUME EepromAssumption ==
  /\ {FLASH_BEGIN, FLASH_END, SECTOR, EEPROM_SIZE} \subseteq Nat \ {0}
  /\ FLASH_BEGIN > 1                              \* so that BEGIN - 1 is not Unknown
  /\ FLASH_BEGIN % 2 = 0
  /\ EEPROM_SIZE < FLASH_END - FLASH_BEGIN        \* the rewritten log has room
  /\ (FLASH_END - FLASH_BEGIN) % SECTOR = 0
  /\ Blank \in Bytes
  /\ Erased \notin Entries

VARIABLES asked,      \* the write the program asked for last
          flash,      \* the log's half-words
          flashend,   \* the last entry as the code believes, or Unknown
          pc,         \* idle, or where eeprom_write_byte's rewrite is
          buf,        \* its copy of every byte
          flashaddr,  \* the half-word its next command starts at
          i,          \* the address it looks at next
          trust       \* history: see EepromMap

vars == <<asked, flash, flashend, pc, buf, flashaddr, i, trust>>

-----------------------------------------------------------------------------

\* Slip: the search stops on the erased half-word, not on the one before.
MutLogEnd(log) ==
  IF \A c \in Cells : log[c] # Erased THEN FLASH_END - 1
  ELSE CHOOSE c \in Cells : log[c] = Erased /\ \A b \in FLASH_BEGIN .. c - 1 : log[b] # Erased

\* eeprom_initialize: the half-word before the first erased one.
LogEnd(log) ==
  IF \A c \in Cells : log[c] # Erased THEN FLASH_END - 1
  ELSE (CHOOSE c \in Cells :
          log[c] = Erased /\ \A b \in FLASH_BEGIN .. c - 1 : log[b] # Erased) - 1

End == IF flashend = Unknown THEN LogEnd(flash) ELSE flashend

\* eeprom_read_byte: of the entries up to half-word end the last one counts.
Found(log, addr, end) == {c \in Cells : c <= end /\ log[c] # Erased /\ log[c].addr = addr}
Scan(log, addr, end) ==
  LET found == Found(log, addr, end)
  IN  IF found = {} THEN Blank
      ELSE log[CHOOSE c \in found : \A d \in found : d <= c].data

\* A read, or a write, finds flashend Unknown.
Initialize ==
  /\ pc = "idle"
  /\ flashend = Unknown
  /\ flashend' = LogEnd(flash)
  /\ UNCHANGED <<asked, flash, pc, buf, flashaddr, i, trust>>

Entry(addr, data) == [addr |-> addr, data |-> data]

\* Program half-word c.  On one already programmed the bits are ANDed: some entry.
Program(c, entry) ==
  \/ flash[c] = Erased /\ flash' = [flash EXCEPT ![c] = entry]
  \/ flash[c] # Erased /\ \E garbled \in Entries : flash' = [flash EXCEPT ![c] = garbled]

\* eeprom_write_byte while the log has room.
Append(addr, data) ==
  /\ asked' = Entry(addr, data)
  /\ pc = "idle"
  /\ End + 1 < FLASH_END
  /\ flashend' = End + 1
  /\ Program(End + 1, Entry(addr, data))
  /\ trust' = IF trust = "fresh" THEN "stale" ELSE trust
  /\ UNCHANGED <<pc, buf, flashaddr, i>>

\* Slip: the new byte is left out of the copy.
MutStartRewrite(addr, data) ==
  /\ asked' = Entry(addr, data)
  /\ pc = "idle"
  /\ End + 1 >= FLASH_END
  /\ flashend' = End
  /\ buf' = [a \in Addrs |-> Scan(flash, a, FLASH_END - 1)]
  /\ pc' = "erase"
  /\ flashaddr' = FLASH_BEGIN
  /\ trust' = IF trust = "lost" THEN "lost" ELSE "rewriting"
  /\ UNCHANGED <<flash, i>>

\* eeprom_write_byte when it has none.
StartRewrite(addr, data) ==
  /\ asked' = Entry(addr, data)
  /\ pc = "idle"
  /\ End + 1 >= FLASH_END
  /\ flashend' = End
  /\ buf' = [[a \in Addrs |-> Scan(flash, a, FLASH_END - 1)] EXCEPT ![addr] = data]
  /\ pc' = "erase"
  /\ flashaddr' = FLASH_BEGIN
  /\ trust' = IF trust = "lost" THEN "lost" ELSE "rewriting"
  /\ UNCHANGED <<flash, i>>

EraseSector ==
  /\ pc = "erase"
  /\ flash' = [c \in Cells |-> IF c \in flashaddr .. flashaddr + SECTOR - 1
                               THEN Erased ELSE flash[c]]
  /\ \/ /\ flashaddr + SECTOR < FLASH_END
        /\ flashaddr' = flashaddr + SECTOR
        /\ UNCHANGED <<pc, i>>
     \/ /\ flashaddr + SECTOR >= FLASH_END
        /\ flashaddr' = FLASH_BEGIN
        /\ pc' = "program"
        /\ i' = 0
  /\ UNCHANGED <<asked, flashend, buf, trust>>

NoBytes == [a \in Addrs |-> Blank]

\* The rewrite's local variables do not outlive it.
Return == pc' = "idle" /\ buf' = NoBytes /\ flashaddr' = FLASH_BEGIN /\ i' = 0

\* The addresses still to be written back; a Blank one needs no entry.
Left == {a \in Addrs : a >= i /\ buf[a] # Blank}
First(S) == CHOOSE a \in S : \A b \in S : a <= b

\* Slip: the loop's index stays at the second address of the pair.
MutProgramPair ==
  /\ pc = "program"
  /\ \E b \in Left : b # First(Left)
  /\ LET a == First(Left)
         b == First(Left \ {a})
     IN /\ flash' = [flash EXCEPT ![flashaddr]     = Entry(a, buf[a]),
                                  ![flashaddr + 1] = Entry(b, buf[b])]
        /\ i' = a
  /\ flashaddr' = flashaddr + 2
  /\ UNCHANGED <<asked, flashend, pc, buf, trust>>

\* Two entries at a time.
ProgramPair ==
  /\ pc = "program"
  /\ \E b \in Left : b # First(Left)
  /\ LET a == First(Left)
         b == First(Left \ {a})
     IN /\ flash' = [flash EXCEPT ![flashaddr]     = Entry(a, buf[a]),
                                  ![flashaddr + 1] = Entry(b, buf[b])]
        /\ i' = b + 1
  /\ flashaddr' = flashaddr + 2
  /\ UNCHANGED <<asked, flashend, pc, buf, trust>>

\* The odd one, if any.  flashend ends up after the last entry, not on it.
ProgramLast ==
  /\ pc = "program"
  /\ \/ /\ Left = {}
        /\ flashend' = flashaddr
        /\ UNCHANGED flash
     \/ /\ Left # {}
        /\ \A b \in Left : b = First(Left)
        /\ flashend' = flashaddr + 1
        /\ flash' = [flash EXCEPT ![flashaddr] = Entry(First(Left), buf[First(Left)])]
  /\ trust' = IF trust = "lost" THEN "lost" ELSE "fresh"
  /\ Return
  /\ UNCHANGED asked

\* Reset, or power lost and restored.
Restart ==
  /\ flashend' = Unknown
  /\ trust' = IF trust \in {"kept", "fresh"} THEN "kept" ELSE "lost"
  /\ Return
  /\ UNCHANGED <<asked, flash>>

Init ==
  /\ asked = Entry(0, Blank)
  /\ flash = [c \in Cells |-> Erased]
  /\ flashend = Unknown
  /\ pc = "idle" /\ buf = NoBytes /\ flashaddr = FLASH_BEGIN /\ i = 0
  /\ trust = "kept"

Next ==
  \/ Initialize
  \/ \E addr \in Addrs, data \in Bytes : Append(addr, data) \/ StartRewrite(addr, data)
  \/ EraseSector \/ ProgramPair \/ ProgramLast
  \/ Restart

Spec == Init /\ [][Next]_vars

-----------------------------------------------------------------------------
(* Properties *)

\* Every variable keeps its range: flashend stays within 16 bits and the rewrite
\* within the log, although nothing in its loops looks at FLASH_END.
TypeOK ==
  /\ asked \in Entries
  /\ flash \in [Cells -> Entries \cup {Erased}]
  /\ flashend \in {Unknown} \cup FLASH_BEGIN - 1 .. FLASH_END - 1
  /\ pc \in {"idle", "erase", "program"}
  /\ buf \in [Addrs -> Bytes]
  /\ flashaddr \in FLASH_BEGIN .. FLASH_END - 1
  /\ i \in 0 .. EEPROM_SIZE
  /\ trust \in {"kept", "fresh", "stale", "rewriting", "lost"}

\* A half-word is never programmed twice between two erasures, which would AND
\* two entries into one, whatever restarts, as long as no restart met the gap a
\* rewrite leaves (flashend = flashaddr) or a rewrite half done.
AppendsOnErased ==
  pc = "idle" /\ trust # "lost" /\ End + 1 < FLASH_END => flash[End + 1] = Erased
=============================================================================
