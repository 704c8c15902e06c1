-------------------------- MODULE MC_TcpConnection --------------------------
(* One other thread, two messages of two units: a partial write, a second   *)
(* send behind it, a shutdown, an end of the connection from either side.   *)
EXTENDS TcpConnection

CONSTANTS u1, m1, m2

MC_Users == {u1}
MC_Msgs == {m1, m2}
=============================================================================
