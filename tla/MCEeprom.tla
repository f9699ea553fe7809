------------------------------ MODULE MCEeprom ------------------------------
(* Model checking Eeprom, and the refinement to EepromMap. *)
EXTENDS Eeprom

\* What reads return, and what they would return after a restart.
Contents == IF trust = "rewriting" THEN buf ELSE [a \in Addrs |-> Scan(flash, a, End)]
Durable  == IF trust = "rewriting" THEN buf ELSE [a \in Addrs |-> Scan(flash, a, LogEnd(flash))]

Map == INSTANCE EepromMap WITH contents <- Contents, durable <- Durable

\* Until the log is full for the first time the driver is a map that survives a
\* restart at any moment.  After a rewrite reads are still right, but a restart
\* takes the program back to what the rewrite stored; a restart in the middle of
\* a rewrite, or a write after such a restart, loses what was stored.
CrashSafeUntilFull == Map!MapSpec
=============================================================================
