------------------------------ MODULE UsbPipes ------------------------------
(***************************************************************************)
(* What the CDC serial device promises its two users, seen as two pipes of *)
(* packets: packets leave a pipe in the order they entered it, each once.  *)
(* A pipe is emptied only when the host resets or configures the device.   *)
(* That may leave the hardware polling another bank than the one software  *)
(* fills first; until they meet again a packet may overtake one other.     *)
(* And a configuration without a reset may leave host and device with      *)
(* different data toggles: then one packet each way is dropped.            *)
(***************************************************************************)
EXTENDS Naturals, Sequences

CONSTANT Buffers   \* the packets' identities

VARIABLES toHost,    \* packets the firmware handed over, not yet collected
          fromHost,  \* packets the host delivered, not yet taken by a reader
          connected, \* the host collects and delivers
          inPhase,   \* hardware and software agree on the bank that is next
          toHostInStep, fromHostInStep
                     \* host and device agree on the toggle that is next

toggles == <<toHostInStep, fromHostInStep>>
pipes   == <<toHost, fromHost, connected, inPhase, toggles>>

In(p, pipe) == \E i \in 1 .. Len(pipe) : pipe[i] = p
New(p)      == ~In(p, toHost) /\ ~In(p, fromHost)

PipesInit ==
  /\ toHost = <<>> /\ fromHost = <<>> /\ connected = FALSE
  /\ inPhase = TRUE /\ toHostInStep = TRUE /\ fromHostInStep = TRUE

\* The phase may be found again by any step, and lost by none but the last two.
Steady == inPhase' \in {inPhase, TRUE}

\* A packet enters a pipe at its end; it is not already in either.
Send(p) ==
  /\ connected /\ New(p)
  /\ toHost' = Append(toHost, p)
  /\ Steady
  /\ UNCHANGED <<fromHost, connected, toggles>>

Deliver(p) ==
  /\ connected /\ New(p)
  /\ fromHostInStep
  /\ fromHost' = Append(fromHost, p)
  /\ Steady
  /\ UNCHANGED <<toHost, connected, toggles>>

\* Out of phase, a packet may go before the one that waits alone.
Overtake(p) ==
  /\ connected /\ New(p)
  /\ ~inPhase
  /\ Len(toHost) = 1
  /\ toHost' = <<p>> \o toHost
  /\ Steady
  /\ UNCHANGED <<fromHost, connected, toggles>>

\* Out of step, the host drops the packet it collects, and the device the one it
\* is sent, once.
Discarded ==
  /\ ~toHostInStep /\ toHostInStep' = TRUE
  /\ toHost # <<>>
  /\ toHost' = Tail(toHost)
  /\ Steady
  /\ UNCHANGED <<fromHost, connected, fromHostInStep>>

Missed ==
  /\ connected
  /\ ~fromHostInStep /\ fromHostInStep' = TRUE
  /\ UNCHANGED <<toHost, fromHost, connected, inPhase, toHostInStep>>

\* A packet leaves a pipe at its head.
Collected ==
  /\ toHostInStep
  /\ toHost # <<>>
  /\ toHost' = Tail(toHost)
  /\ Steady
  /\ UNCHANGED <<fromHost, connected, toggles>>

Taken ==
  /\ fromHost # <<>>
  /\ fromHost' = Tail(fromHost)
  /\ Steady
  /\ UNCHANGED <<toHost, connected, toggles>>

Meet == inPhase' = TRUE /\ UNCHANGED <<toHost, fromHost, connected, toggles>>

\* A bus reset cuts the host off, and brings the toggles in step.
CutOff ==
  /\ connected /\ connected' = FALSE
  /\ toHost' = <<>>
  /\ inPhase' \in BOOLEAN
  /\ toHostInStep' = TRUE /\ fromHostInStep' = TRUE
  /\ UNCHANGED fromHost

\* A configuration empties reception too.  It keeps the phase when it finds the
\* host with nothing to collect, and the toggles when it finds no host.
Reconfigure ==
  /\ toHost' = <<>> /\ fromHost' = <<>>
  /\ {connected', inPhase', toHostInStep', fromHostInStep'} \subseteq BOOLEAN
  /\ connected /\ toHost = <<>> => Steady
  /\ ~connected => UNCHANGED toggles

PipesNext ==
  \/ \E p \in Buffers : Send(p) \/ Deliver(p) \/ Overtake(p)
  \/ Collected \/ Discarded \/ Missed \/ Taken \/ Meet \/ CutOff \/ Reconfigure

PipesSpec == PipesInit /\ [][PipesNext]_pipes
=============================================================================
