------------------------------ MODULE MCFurnace ------------------------------
(* Model checking Furnace: a program of nine seconds, a clock whose int    *)
(* overflows after sixteen and whose milliseconds start again after 53,    *)
(* below zero as on the controller.                                        *)
EXTENDS Furnace

MCReadings == {0, 2, 3, 7}
=============================================================================
