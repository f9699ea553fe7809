----------------------------- MODULE EepromMap -----------------------------
(***************************************************************************)
(* What the emulated EEPROM of the Teensy LC promises a program: a map     *)
(* from addresses to bytes, and how much of it a restart gives back.       *)
(***************************************************************************)
CONSTANTS Addrs, Bytes

VARIABLES asked,      \* the write asked for last
          contents,   \* what reads return
          durable,    \* what they would return after a restart
          trust       \* what the map can be relied on for

map == <<asked, contents, durable, trust>>

\* kept      every write survives a restart
\* fresh     just rewritten: survives a restart, which makes it kept again
\* stale     written since it was rewritten: a restart goes back to then
\* rewriting in the middle of being rewritten
\* lost      nothing is promised any more
Trust == {"kept", "fresh", "stale", "rewriting", "lost"}

MapInit ==
  /\ asked \in [addr : Addrs, data : Bytes]
  /\ contents \in [Addrs -> Bytes]
  /\ durable = contents
  /\ trust = "kept"

Stored(addr, data) ==
  /\ asked' = [addr |-> addr, data |-> data]
  /\ contents' = [contents EXCEPT ![addr] = data]

\* A write while the log has room.
Put(addr, data) ==
  /\ Stored(addr, data)
  /\ \/ trust = "kept" /\ durable' = contents' /\ UNCHANGED trust
     \/ trust \in {"fresh", "stale"} /\ trust' = "stale" /\ UNCHANGED durable

\* A write that finds the log full.
PutAndRewrite(addr, data) ==
  /\ trust \in {"kept", "fresh", "stale"}
  /\ Stored(addr, data)
  /\ durable' = contents'
  /\ trust' = "rewriting"

Rewritten == trust = "rewriting" /\ trust' = "fresh" /\ UNCHANGED <<asked, contents, durable>>

\* The power fails, or the board is reset.
Restart ==
  \/ trust = "fresh" /\ trust' = "kept" /\ UNCHANGED <<asked, contents, durable>>
  \/ trust = "stale" /\ trust' = "lost" /\ contents' = durable /\ UNCHANGED asked
  \/ trust = "rewriting" /\ trust' = "lost" /\ UNCHANGED asked

Lost == trust = "lost" /\ trust' = "lost"

MapNext ==
  \/ \E addr \in Addrs, data \in Bytes : Put(addr, data) \/ PutAndRewrite(addr, data)
  \/ Rewritten \/ Restart \/ Lost

MapSpec == MapInit /\ [][MapNext]_map
=============================================================================
