-------------------------- MODULE MC_AsyncLogging ---------------------------
(* Buffers of two lines and enough lines that three of them fill between    *)
(* two swaps: the spare is used up and one buffer is allocated.             *)
EXTENDS AsyncLogging
=============================================================================
