-------------------------- MODULE MC_ConnectionPool --------------------------
(* Three clients on a pool that starts with one connection and has a limit  *)
(* of three, at which, counted twice, it holds two: clients wait, the       *)
(* producer creates, the recycler closes.                                   *)
EXTENDS ConnectionPool

CONSTANTS c1, c2, c3, k1, k2, k3, k4

MC_Clients == {c1, c2, c3}
MC_Conns == {k1, k2, k3, k4}
=============================================================================
