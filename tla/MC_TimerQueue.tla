---------------------------- MODULE MC_TimerQueue ----------------------------
(* Two one-shot timers and a repeating one. *)
EXTENDS TimerQueue

MCInterval == [t \in Timers |-> IF t = "every2" THEN 2 ELSE 0]
=============================================================================
