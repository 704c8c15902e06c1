---------------------------- MODULE ConnectionLife ----------------------------
(***************************************************************************)
(* What a TcpServer promises about its connections, without loops, threads  *)
(* or queues: each is accepted, established, closed and forgotten once and  *)
(* in this order.  Only a server that is being destroyed may let go of a    *)
(* connection before its time.                                              *)
(***************************************************************************)

CONSTANT Conns

VARIABLES
    serving,    \* the server has not begun to be destroyed
    life        \* per connection: how far it has come

Init ==
    /\ serving = TRUE
    /\ life = [c \in Conns |-> "none"]

Moves(c, from, to) ==
    /\ life[c] \in from
    /\ life' = [life EXCEPT ![c] = to]

\* A connection that belongs to the server's own loop is open at once.
Accept(c) == serving /\ \E to \in {"accepted", "open"} : Moves(c, {"none"}, to)

Live(c) == Moves(c, {"accepted"}, "open") \/ Moves(c, {"open"}, "closed")

\* Connections may be forgotten together, closed ones at any time.
Forget(dropped) == life' = [c \in Conns |-> IF c \in dropped THEN "gone" ELSE life[c]]

Release == \E dropped \in SUBSET {c \in Conns : life[c] = "closed"} : Forget(dropped)

Abandon == ~serving /\ \E dropped \in SUBSET {c \in Conns : life[c] # "none"} : Forget(dropped)

Next ==
    \/ UNCHANGED serving /\ (Release \/ Abandon \/ \E c \in Conns : Accept(c) \/ Live(c))
    \/ serving /\ serving' = FALSE /\ UNCHANGED life

Spec == Init /\ [][Next]_<<serving, life>>
=============================================================================
