---------------------------- MODULE MC_EventLoop ----------------------------
(* An EventLoopThread with its owner and one more client thread, one I/O    *)
(* channel and functors enough for a batch, a late arrival and one queued   *)
(* from inside a batch.                                                     *)
EXTENDS EventLoopThread

CONSTANTS o, c1, t1, t2, t3, io, wake

MC_Clients == {o, c1}
MC_Tasks == {t1, t2, t3}
MC_IO == {io}
=============================================================================
