---------------------------- MODULE MCCoilDriver ----------------------------
(* Model checking CoilDriver: scaled-down clock, every stall up to the bound. *)
EXTENDS CoilDriver
=============================================================================
