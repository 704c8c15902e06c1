----------------------------- MODULE MC_TcpServer -----------------------------
(* Two threads at most; two peers and descriptors for both, or for one, so  *)
(* that a peer has to wait; other threads may shut the first connection.    *)
EXTENDS TcpServer

MCIoLoops == <<"io1", "io2">>
=============================================================================
