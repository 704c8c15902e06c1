------------------------------ MODULE TcpServer ------------------------------
(***************************************************************************)
(* TcpServer.cc with Acceptor.cc and EventLoopThreadPool.cc: the server     *)
(* accepts in its own (base) loop, hands each connection to a loop of the   *)
(* pool, keeps the map of connections in the base loop and is destroyed     *)
(* after that loop has ended.  The loops run in parallel and reach each     *)
(* other only through their functor queues.                                 *)
(***************************************************************************)
EXTENDS Integers, Sequences, SequencesExt, FiniteSets

CONSTANTS
    Base,       \* loop_, the loop of the server
    IoLoops,    \* the loops of the EventLoopThreads, in the order of threads_
    MaxConns,   \* bound: peers that connect
    MaxFds,     \* bound: descriptors for connections
    Shared      \* the connections the program gives to other threads

ASSUME ServerAssumption ==
    /\ IoLoops \in Seq(Range(IoLoops)) /\ IsInjective(IoLoops)
    /\ Base \notin Range(IoLoops)
    /\ MaxConns \in Nat /\ MaxFds \in Nat
    /\ Shared \subseteq 1 .. MaxConns

VARIABLES
    server,      \* "new", "listening", "destroying" or "gone"
    loops,       \* loops_
    threadPos,   \* _thread_pos
    nextConnId,  \* nextConnId_; connections are named by it
    connections, \* connections_
    backlog,     \* external: peers waiting in the listening socket
    fds,         \* external: descriptors the process has for connections
    loopOf,      \* TcpConnection: loop_
    state,       \* TcpConnection: state_
    watched,     \* connections whose channel is registered for reading
    phase,       \* per loop: handling events or running functors
    quit,        \* loops whose quit_ is set
    pending,     \* per loop: pendingFunctors_
    batch,       \* per loop: doPendingFunctors' vector, from the functor to run
    ran,         \* per loop: connections of functors before that in the vector
    stopping,    \* connections another thread is in shutdown() of, past its test
    revived      \* history: such a shutdown() came after the connection had closed

pool     == <<loops, threadPos>>
acceptor == <<nextConnId, backlog, fds>>
conns    == <<connections, loopOf, state, watched>>
loopVars == <<phase, quit, pending, batch, ran>>
stops    == <<stopping, revived>>
vars == <<server, pool, acceptor, conns, loopVars, stops>>

Conns == 1 .. MaxConns
Loops == {Base} \cup Range(IoLoops)
Functors == [run : {"connectEstablished", "shutdownInLoop", "removeConnectionInLoop",
                    "connectDestroyed"},
             conn : Conns]

TypeOK ==
    /\ server \in {"new", "listening", "destroying", "gone"}
    /\ \E n \in 0 .. Len(IoLoops) : loops = SubSeq(IoLoops, 1, n)
    /\ threadPos \in 0 .. Len(loops)
    /\ nextConnId \in 1 .. MaxConns + 1 /\ backlog \in 0 .. MaxConns
    /\ fds \in 1 .. MaxFds
    /\ connections \subseteq Conns /\ watched \subseteq Conns
    /\ loopOf \in [Conns -> Loops]
    /\ state \in [Conns -> {"kConnecting", "kConnected", "kDisconnecting", "kDisconnected"}]
    /\ phase \in [Loops -> {"off", "events", "functors", "ended"}]
    /\ quit \subseteq Loops
    /\ pending \in [Loops -> Seq(Functors)] /\ batch \in [Loops -> Seq(Functors)]
    /\ ran \in [Loops -> SUBSET Conns]
    /\ stopping \subseteq Conns /\ revived \subseteq Conns

Init ==
    /\ server = "new" /\ loops = <<>> /\ threadPos = 0
    /\ nextConnId = 1 /\ backlog = 0 /\ fds \in 1 .. MaxFds
    /\ connections = {} /\ watched = {}
    /\ loopOf = [c \in Conns |-> Base]
    /\ state = [c \in Conns |-> "kConnecting"]
    /\ phase = [l \in Loops |-> IF l = Base THEN "events" ELSE "off"]
    /\ quit = {}
    /\ pending = [l \in Loops |-> <<>>] /\ batch = [l \in Loops |-> <<>>]
    /\ ran = [l \in Loops |-> {}]
    /\ stopping = {} /\ revived = {}

-----------------------------------------------------------------------------
(* Calls that go to a loop                                                  *)

Functor(f, c) == [run |-> f, conn |-> c]

QueueInLoop(l, f, c) == pending' = [pending EXCEPT ![l] = Append(@, Functor(f, c))]

\* What a loop has to run, in this order.
Queue(l) == batch[l] \o pending[l]

\* A connection lives as long as the map, a functor or a thread in shutdown()
\* holds a pointer to it; a functor that has run keeps its own until
\* doPendingFunctors returns, one that waits goes with its loop.
Held(c) ==
    \/ c \in connections \cup stopping
    \/ \E l \in Loops : c \in ran[l] \/ \E f \in Range(Queue(l)) : f.conn = c

OpenFds == {c \in 1 .. nextConnId - 1 : Held(c)}

\* TcpConnection::connectEstablished and connectDestroyed.
ConnectEstablished(c) ==
    /\ state' = [state EXCEPT ![c] = "kConnected"]
    /\ watched' = watched \cup {c}

ConnectDestroyed(c) ==
    IF state[c] = "kConnected"
    THEN /\ state' = [state EXCEPT ![c] = "kDisconnected"]
         /\ watched' = watched \ {c}
    ELSE UNCHANGED <<state, watched>>

\* Mutant: the connection stays in the map.
RemoveConnectionInLoopKeeps(c) ==
    /\ UNCHANGED connections
    /\ QueueInLoop(loopOf[c], "connectDestroyed", c)

RemoveConnectionInLoop(c) ==
    /\ connections' = connections \ {c}
    /\ QueueInLoop(loopOf[c], "connectDestroyed", c)

\* TcpServer::removeConnection in the thread of the connection: runInLoop.
RemoveConnection(c) ==
    IF loopOf[c] = Base THEN RemoveConnectionInLoop(c)
    ELSE /\ QueueInLoop(Base, "removeConnectionInLoop", c)
         /\ UNCHANGED connections

-----------------------------------------------------------------------------
(* The server, in the base loop                                             *)

InBase == phase[Base] = "events"

\* start(): started_ lets only the first call through.
Start ==
    /\ InBase /\ server = "new"
    /\ server' = "listening"
    /\ \E n \in 0 .. Len(IoLoops) : loops' = SubSeq(IoLoops, 1, n)
    /\ phase' = [l \in Loops |-> IF l \in Range(loops') THEN "events" ELSE phase[l]]
    /\ UNCHANGED <<threadPos, acceptor, conns, quit, pending, batch, ran, stops>>

\* external: a peer connects.
PeerConnects ==
    /\ server = "listening"
    /\ nextConnId + backlog <= MaxConns
    /\ backlog' = backlog + 1
    /\ UNCHANGED <<server, pool, nextConnId, fds, conns, loopVars, stops>>

\* The indices in the order in which getNextLoopByMinLoad looks at them.
Scan == LET n == Len(loops) IN
        [i \in 1 .. n |-> ((IF threadPos >= n THEN 0 ELSE threadPos) + i - 1) % n]

\* The first loop with the smallest load, at load 0 without looking further.
MinLoad(load) ==
    Scan[CHOOSE i \in DOMAIN Scan :
            /\ \A j \in DOMAIN Scan : load[Scan[i]] <= load[Scan[j]]
            /\ \A j \in 1 .. i - 1 : load[Scan[i]] < load[Scan[j]]]

\* Mutant: the position goes on from where it was, without being wrapped.
NextThreadPosUnwrapped(load) == threadPos + Len(loops)

\* _thread_pos stays at a loop without load.  After a whole round the index is
\* back at the start, or, started at 0, one past the end.
NextThreadPos(load) ==
    IF load[MinLoad(load)] = 0 THEN MinLoad(load)
    ELSE IF Scan[1] = 0 THEN Len(loops) ELSE threadPos

\* Load of each loop: load() walks a list that the loop's thread changes, without
\* its lock, so any value; two that differ and 0 are all that is told apart.
GetNextLoopByMinLoad(l) ==
    IF loops = <<>> THEN l = Base /\ UNCHANGED threadPos
    ELSE \E load \in [0 .. Len(loops) - 1 -> 0 .. 2] :
            /\ l = loops[MinLoad(load) + 1]
            /\ threadPos' = NextThreadPos(load)

\* Mutant: the new connection is not put into the map.
NewConnectionUnmapped(c, l) ==
    /\ nextConnId' = nextConnId + 1
    /\ UNCHANGED connections
    /\ loopOf' = [loopOf EXCEPT ![c] = l]
    /\ IF l = Base THEN ConnectEstablished(c) /\ UNCHANGED pending
       ELSE QueueInLoop(l, "connectEstablished", c) /\ UNCHANGED <<state, watched>>

NewConnection(c, l) ==
    /\ nextConnId' = nextConnId + 1
    /\ connections' = connections \cup {c}
    /\ loopOf' = [loopOf EXCEPT ![c] = l]
    /\ IF l = Base THEN ConnectEstablished(c) /\ UNCHANGED pending
       ELSE QueueInLoop(l, "connectEstablished", c) /\ UNCHANGED <<state, watched>>

\* Acceptor::handleRead takes one connection.  Without a descriptor accept fails
\* and nothing changes: the listening socket stays readable.
AcceptorHandleRead ==
    /\ InBase /\ server = "listening" /\ backlog > 0
    /\ Cardinality(OpenFds) < fds
    /\ backlog' = backlog - 1
    /\ \E l \in Loops : GetNextLoopByMinLoad(l) /\ NewConnection(nextConnId, l)
    /\ UNCHANGED <<server, loops, fds, phase, quit, batch, ran, stops>>

-----------------------------------------------------------------------------
(* ~TcpServer, in the thread of the base loop once loop() has returned      *)

BeginDestroy ==
    /\ server = "listening" /\ phase[Base] = "ended"
    /\ server' = "destroying"
    /\ UNCHANGED <<pool, acceptor, conns, loopVars, stops>>

\* One round of its loop over connections_.
DestroyConnection(c) ==
    /\ server = "destroying" /\ c \in connections
    /\ connections' = connections \ {c}
    /\ IF loopOf[c] = Base THEN ConnectDestroyed(c) /\ UNCHANGED pending
       ELSE QueueInLoop(loopOf[c], "connectDestroyed", c) /\ UNCHANGED <<state, watched>>
    /\ UNCHANGED <<server, pool, acceptor, loopOf, phase, quit, batch, ran, stops>>

\* Its members follow: threadPool_ quits and joins one thread after the other.
QuitNextLoop ==
    /\ server = "destroying" /\ connections = {}
    /\ \E i \in DOMAIN loops :
         /\ \A j \in 1 .. i - 1 : phase[loops[j]] = "ended"
         /\ loops[i] \notin quit
         /\ quit' = quit \cup {loops[i]}
    /\ UNCHANGED <<server, pool, acceptor, conns, phase, pending, batch, ran, stops>>

EndDestroy ==
    /\ server = "destroying" /\ connections = {}
    /\ \A l \in Range(loops) : phase[l] = "ended"
    /\ server' = "gone"
    /\ UNCHANGED <<pool, acceptor, conns, loopVars, stops>>

Destructor ==
    BeginDestroy \/ (\E c \in Conns : DestroyConnection(c)) \/ QuitNextLoop \/ EndDestroy

-----------------------------------------------------------------------------
(* The loops                                                                *)

\* Mutant: closeCallback_ is not called.
ReportCloseNever(c) ==
    /\ state' = [state EXCEPT ![c] = "kDisconnected"]
    /\ watched' = watched \ {c}
    /\ UNCHANGED <<server, pool, acceptor, connections, loopOf, loopVars, stops>>

\* TcpConnection::handleClose, with closeCallback_.
ReportClose(c) ==
    /\ state' = [state EXCEPT ![c] = "kDisconnected"]
    /\ watched' = watched \ {c}
    /\ RemoveConnection(c)
    /\ UNCHANGED <<server, pool, acceptor, loopOf, phase, quit, batch, ran, stops>>

\* The peer has closed.  A connection that was destroyed has closed its
\* descriptor and gets no more events, even one that connectDestroyed found in
\* kDisconnecting and left registered.
HandleClose(c) ==
    /\ c \in watched /\ Held(c) /\ phase[loopOf[c]] = "events"
    /\ ReportClose(c)

\* A revived connection may be closed again: a send() that was queued before
\* still writes, what it leaves is watched for (TcpConnection), and an event finds
\* the peer gone.
HandleCloseAgain(c) ==
    /\ c \in revived /\ state[c] = "kDisconnecting"
    /\ Held(c) /\ phase[loopOf[c]] = "events"
    /\ ReportClose(c)

\* A callback of the user in the loop of the connection calls shutdown(), which
\* calls shutdownInLoop at once: it changes nothing that is known here.
Shutdown(c) ==
    /\ state[c] = "kConnected" /\ Held(c) /\ phase[loopOf[c]] \in {"events", "functors"}
    /\ state' = [state EXCEPT ![c] = "kDisconnecting"]
    /\ UNCHANGED <<server, pool, acceptor, connections, loopOf, watched, loopVars, stops>>

\* Another thread calls shutdown(), one at a time for a connection: it tests
\* state_, ...
ShutdownTest(c) ==
    /\ c \in Shared /\ state[c] = "kConnected" /\ Held(c) /\ c \notin stopping
    /\ stopping' = stopping \cup {c}
    /\ UNCHANGED <<server, pool, acceptor, conns, loopVars, revived>>

\* ... stores kDisconnecting over what state_ has become, and queues
\* shutdownInLoop.  A caller that outlives the loop is left out.
ShutdownStore(c) ==
    /\ c \in stopping
    /\ loopOf[c] = Base \/ phase[loopOf[c]] # "ended"
    /\ state' = [state EXCEPT ![c] = "kDisconnecting"]
    /\ QueueInLoop(loopOf[c], "shutdownInLoop", c)
    /\ stopping' = stopping \ {c}
    /\ revived' = IF state[c] = "kDisconnected" THEN revived \cup {c} ELSE revived
    /\ UNCHANGED <<server, pool, acceptor, connections, loopOf, watched, phase, quit, batch,
                   ran>>

\* The program ends the base loop.
QuitBase ==
    /\ server = "listening" /\ Base \notin quit
    /\ quit' = quit \cup {Base}
    /\ UNCHANGED <<server, pool, acceptor, conns, phase, pending, batch, ran, stops>>

\* doPendingFunctors takes what is queued.
SwapFunctors(l) ==
    /\ phase[l] = "events"
    /\ pending[l] # <<>> \/ l \in quit
    /\ phase' = [phase EXCEPT ![l] = "functors"]
    /\ batch' = [batch EXCEPT ![l] = pending[l]]
    /\ pending' = [pending EXCEPT ![l] = <<>>]
    /\ UNCHANGED <<server, pool, acceptor, conns, quit, ran, stops>>

RunFunctor(l) ==
    /\ phase[l] = "functors" /\ batch[l] # <<>>
    /\ batch' = [batch EXCEPT ![l] = Tail(@)]
    /\ LET c == Head(batch[l]).conn
           f == Head(batch[l]).run
       IN /\ ran' = [ran EXCEPT ![l] = @ \cup {c}]
          /\ \/ /\ \/ f = "connectEstablished" /\ ConnectEstablished(c)
                   \/ f = "connectDestroyed" /\ ConnectDestroyed(c)
                   \/ f = "shutdownInLoop" /\ UNCHANGED <<state, watched>>
                /\ UNCHANGED <<connections, pending>>
             \/ /\ f = "removeConnectionInLoop" /\ RemoveConnectionInLoop(c)
                /\ UNCHANGED <<state, watched>>
    /\ UNCHANGED <<server, pool, acceptor, loopOf, phase, quit, stops>>

\* The end of an iteration, and of the vector.  A thread of the pool destroys its
\* loop with what is left in the queue; the base loop is older than the server.
EndIteration(l) ==
    /\ phase[l] = "functors" /\ batch[l] = <<>>
    /\ ran' = [ran EXCEPT ![l] = {}]
    /\ IF l \in quit
       THEN /\ phase' = [phase EXCEPT ![l] = "ended"]
            /\ pending' = IF l = Base THEN pending ELSE [pending EXCEPT ![l] = <<>>]
       ELSE phase' = [phase EXCEPT ![l] = "events"] /\ UNCHANGED pending
    /\ UNCHANGED <<server, pool, acceptor, conns, quit, batch, stops>>

LoopStep(l) == SwapFunctors(l) \/ RunFunctor(l) \/ EndIteration(l)

Next ==
    \/ Start \/ PeerConnects \/ AcceptorHandleRead \/ QuitBase \/ Destructor
    \/ \E c \in Conns : \/ HandleClose(c) \/ HandleCloseAgain(c)
                        \/ Shutdown(c) \/ ShutdownTest(c) \/ ShutdownStore(c)
    \/ \E l \in Loops : LoopStep(l)

Spec == Init /\ [][Next]_vars

\* The loops run, a call that was begun returns, peers that are served close in
\* the end.
FairSpec ==
    /\ Spec
    /\ WF_vars(AcceptorHandleRead) /\ WF_vars(Destructor)
    /\ \A l \in Loops : WF_vars(LoopStep(l))
    /\ \A c \in Conns : WF_vars(ShutdownStore(c)) /\ SF_vars(HandleClose(c))

-----------------------------------------------------------------------------
(* Properties                                                               *)

Positions == UNION {{l} \X DOMAIN Queue(l) : l \in Loops}

\* Where in the queues a functor is.
Queued(f, c) == {p \in Positions : Queue(p[1])[p[2]] = Functor(f, c)}

\* While the server serves, map, states and queues of all loops account for every
\* accepted connection: it is in the map, and then either waits for its one
\* connectEstablished, or is open, or has closed and its removal is on its way
\* to the base loop; or it is out of the map, not open, with at most one
\* connectDestroyed left.  removeConnection (TcpServer.cc:120) is called in the
\* thread of the connection, erase (133) happens in another.  Only a connection
\* that a late shutdown() revived may be closed and removed a second time.
Accounted ==
    server = "listening" => \A c \in Conns :
        LET est == Queued("connectEstablished", c)
            rem == Queued("removeConnectionInLoop", c)
            des == Queued("connectDestroyed", c)
        IN IF c >= nextConnId THEN ~Held(c) /\ est \cup rem \cup des = {}
           ELSE IF c \in connections
           THEN IF c \in watched
                THEN state[c] \in {"kConnected", "kDisconnecting"} /\ est \cup rem \cup des = {}
                ELSE IF state[c] = "kConnecting" THEN Cardinality(est) = 1 /\ rem \cup des = {}
                ELSE /\ est = {} /\ rem # {}
                     /\ c \notin revived => Cardinality(rem) = 1 /\ des = {}
           ELSE /\ c \notin watched /\ state[c] # "kConnecting" /\ est = {}
                /\ c \notin revived =>
                      state[c] = "kDisconnected" /\ rem = {} /\ Cardinality(des) <= 1

\* The life of a connection as its owner and its peers see it: it is open while
\* events are watched for, whatever a late shutdown() stores in state_.
Life(c) ==
    IF c >= nextConnId THEN "none"
    ELSE IF ~Held(c) THEN "gone"
    ELSE IF c \in watched THEN "open"
    ELSE IF state[c] = "kConnecting" THEN "accepted" ELSE "closed"

Connections == INSTANCE ConnectionLife WITH
    life <- [c \in Conns |-> Life(c)],
    serving <- server \in {"new", "listening"}

\* The server with its loops, queues and map implements the life of connections
\* of ConnectionLife: none is destroyed while it is open, none opens again once
\* it has closed, and only the destructor cuts one short.
LifeSpec == Connections!Spec

Up == server = "listening" /\ quit = {}

\* A peer that connects is accepted although descriptors run out: connections
\* that end give theirs back, and the listening socket stays readable after an
\* accept that failed (Acceptor.cc:51).
Served == \A c \in Conns : [](nextConnId + backlog > c => <>(nextConnId > c \/ ~Up))

\* A connection that has closed leaves the map and is destroyed, which closes its
\* descriptor, as long as the server is not.
Released == \A c \in Conns : [](Life(c) = "closed" => <>(Life(c) = "gone" \/ ~Up))
=============================================================================
