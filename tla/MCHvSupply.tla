----------------------------- MODULE MCHvSupply -----------------------------
(* Model checking HvSupply: a plant that reads four times its duty cycle,  *)
(* give or take a count, and lines that stop, set, overdrive and overflow. *)
EXTENDS HvSupply

MCPlant == [d \in 0 .. MedLimit |-> {r \in {4 * d - 1, 4 * d, 4 * d + 1} : r >= 0}]

\* E, H70, H-9 and M9: int is scaled down, so that it cannot hold 70, which becomes
\* 6; H7 is a line cut short.
MCLines == {<<E>>, <<H, 55, 48>>, <<H, MINUS, 57>>, <<M, 57>>}
=============================================================================
