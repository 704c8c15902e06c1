------------------------------ MODULE MC_Judger ------------------------------
(* Two tests with a limit of two thirds of a second, which the monitor  *)
(* and RLIMIT_CPU both turn into one second.                                 *)
EXTENDS Judger

MC_MemoryCosts == {5}
=============================================================================
