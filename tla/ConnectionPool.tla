--------------------------- MODULE ConnectionPool ---------------------------
(***************************************************************************)
(* The MySQL connection pool of src/mysql/ConnectionPool.cc: clients take   *)
(* connections from a FIFO queue and give them back, a producer thread adds *)
(* connections while the queue is empty, a recycler thread closes the ones  *)
(* idle for too long.  Everything happens in critical sections of one       *)
(* mutex, so a section is one action; a wait on the condition variable ends *)
(* one section and begins another.  Idle time is counted in ticks up to     *)
(* MaxIdleTime, beyond which it makes no difference.                        *)
(***************************************************************************)
EXTENDS Integers, Sequences, FiniteSets, SequencesExt

CONSTANTS
    Clients,      \* threads that call getConnection
    Conns,        \* MysqlConn objects; more than the pool can have at once
    None,         \* no connection
    MinSize, MaxSize, MaxIdleTime

ASSUME PoolAssumption ==
    /\ MinSize \in Nat /\ MaxSize \in Nat /\ MinSize <= MaxSize
    /\ MaxIdleTime \in Nat \ {0}
    /\ IsFiniteSet(Conns) /\ Cardinality(Conns) > MaxSize
    /\ None \notin Conns

VARIABLES
    connectionQueue,  \* connectionQueue_, oldest return first
    currentSize,      \* currentSize_
    idle,             \* time since refreshAliveTime, of the queued connections
    held,             \* the connection each client's shared_ptr owns, or None
    pcC,              \* the clients, in and around getConnection
    pcP               \* the producer: about to test the queue, or in cond_.wait

vars == <<connectionQueue, currentSize, idle, held, pcC, pcP>>

Queued == ToSet(connectionQueue)
InUse  == {held[c] : c \in Clients} \ {None}
Alive  == Queued \cup InUse

TypeOK ==
    /\ connectionQueue \in Seq(Conns)
    /\ currentSize \in Nat
    /\ idle \in [Conns -> 0 .. MaxIdleTime]
    /\ held \in [Clients -> Conns \cup {None}]
    /\ pcC \in [Clients -> {"idle", "waiting", "retry", "holding"}]
    /\ pcP \in {"test", "waiting"}

\* The constructor calls addConnection MinSize times: both addConnection and
\* the constructor's loop count the connection.
Init ==
    /\ connectionQueue \in {q \in [1 .. MinSize -> Conns] : IsInjective(q)}
    /\ currentSize = 2 * MinSize
    /\ idle = [k \in Conns |-> 0]
    /\ held = [c \in Clients |-> None]
    /\ pcC = [c \in Clients |-> "idle"]
    /\ pcP = "test"

\* Time passes for every queued connection.
Tick ==
    /\ \E k \in Queued : idle[k] < MaxIdleTime
    /\ idle' = [k \in Conns |->
                  IF k \in Queued /\ idle[k] < MaxIdleTime THEN idle[k] + 1 ELSE idle[k]]
    /\ UNCHANGED <<connectionQueue, currentSize, held, pcC, pcP>>

-----------------------------------------------------------------------------
(* cond_.notify_all: one condition variable serves clients and producer.    *)

WokenClients == [c \in Clients |-> IF pcC[c] = "waiting" THEN "retry" ELSE pcC[c]]

-----------------------------------------------------------------------------
(* The producer thread, produceConnection.                                  *)

ProducerWait ==
    /\ pcP = "test"
    /\ connectionQueue # <<>>
    /\ pcP' = "waiting"
    /\ UNCHANGED <<connectionQueue, currentSize, idle, held, pcC>>

\* Mutant: a new connection is not counted.
AddConnectionUncounted(k) ==
    /\ k \in Conns \ Alive
    /\ connectionQueue' = Append(connectionQueue, k)
    /\ idle' = [idle EXCEPT ![k] = 0]
    /\ UNCHANGED currentSize

\* addConnection: connect, refreshAliveTime, push, count.  Both its callers
\* count the connection once more.
AddConnection(k) ==
    /\ k \in Conns \ Alive
    /\ connectionQueue' = Append(connectionQueue, k)
    /\ idle' = [idle EXCEPT ![k] = 0]
    /\ currentSize' = (currentSize + 1) + 1

Produce ==
    /\ pcP = "test"
    /\ connectionQueue = <<>>
    /\ currentSize < MaxSize
    /\ \E k \in Conns : AddConnection(k)
    /\ pcC' = WokenClients
    /\ UNCHANGED <<held, pcP>>

\* At the limit with an empty queue the producer neither creates nor waits:
\* it releases the mutex and locks it again.
ProducerSpin ==
    /\ pcP = "test"
    /\ connectionQueue = <<>>
    /\ currentSize >= MaxSize
    /\ UNCHANGED vars

ProducerSpuriousWakeup ==
    /\ pcP = "waiting"
    /\ pcP' = "test"
    /\ UNCHANGED <<connectionQueue, currentSize, idle, held, pcC>>

-----------------------------------------------------------------------------
(* The recycler thread: one pass of the loop under the lock closes          *)
(* connections from the front while more than MinSize are queued and the    *)
(* front one has been idle for MaxIdleTime.                                 *)

Expired(k) == idle[k] >= MaxIdleTime

\* Mutant: the recycler looks only at the number of connections.
RecycleCountUntimed ==
    IF Len(connectionQueue) > MinSize THEN Len(connectionQueue) - MinSize ELSE 0

RecycleCount ==
    LET removable == {n \in 0 .. Len(connectionQueue) :
                        /\ n <= Len(connectionQueue) - MinSize \/ n = 0
                        /\ \A i \in 1 .. n : Expired(connectionQueue[i])}
    IN  CHOOSE n \in removable : \A m \in removable : m <= n

Recycle ==
    /\ connectionQueue' =
         SubSeq(connectionQueue, RecycleCount + 1, Len(connectionQueue))
    /\ currentSize' = currentSize - RecycleCount
    /\ UNCHANGED <<idle, held, pcC, pcP>>

-----------------------------------------------------------------------------
(* Clients.                                                                 *)

\* Mutant: the connection handed out stays in the queue.
TakeWithoutPop(c) ==
    /\ connectionQueue # <<>>
    /\ held' = [held EXCEPT ![c] = Head(connectionQueue)]
    /\ pcC' = [WokenClients EXCEPT ![c] = "holding"]
    /\ pcP' = "test"
    /\ UNCHANGED <<connectionQueue, currentSize, idle>>

\* Mutant: getConnection does not notify.
TakeSilently(c) ==
    /\ connectionQueue # <<>>
    /\ held' = [held EXCEPT ![c] = Head(connectionQueue)]
    /\ connectionQueue' = Tail(connectionQueue)
    /\ pcC' = [pcC EXCEPT ![c] = "holding"]
    /\ UNCHANGED <<currentSize, idle, pcP>>

\* The queue is not empty: own the front connection and notify_all.
Take(c) ==
    /\ connectionQueue # <<>>
    /\ held' = [held EXCEPT ![c] = Head(connectionQueue)]
    /\ connectionQueue' = Tail(connectionQueue)
    /\ pcC' = [WokenClients EXCEPT ![c] = "holding"]
    /\ pcP' = "test"
    /\ UNCHANGED <<currentSize, idle>>

\* The queue is empty: wait_for(timeout_).
Block(c) ==
    /\ connectionQueue = <<>>
    /\ pcC' = [pcC EXCEPT ![c] = "waiting"]
    /\ UNCHANGED <<connectionQueue, currentSize, idle, held, pcP>>

GetConnection(c) ==
    /\ pcC[c] = "idle"
    /\ Take(c) \/ Block(c)

\* wait_for returned, notified or timed out: test the queue again.
Retry(c) ==
    /\ pcC[c] = "retry"
    /\ Take(c) \/ Block(c)

\* Mutant: wait instead of wait_for.
TimeoutNever(c) == pcC[c] = "idle" /\ FALSE /\ UNCHANGED vars

Timeout(c) ==
    /\ pcC[c] = "waiting"
    /\ pcC' = [pcC EXCEPT ![c] = "retry"]
    /\ UNCHANGED <<connectionQueue, currentSize, idle, held, pcP>>

\* Mutant: the deleter does not refresh the idle time.
ReleaseStale(c) ==
    /\ pcC[c] = "holding"
    /\ connectionQueue' = Append(connectionQueue, held[c])
    /\ held' = [held EXCEPT ![c] = None]
    /\ pcC' = [pcC EXCEPT ![c] = "idle"]
    /\ UNCHANGED <<currentSize, idle, pcP>>

\* The last shared_ptr goes: its deleter puts the connection back, and
\* notifies nobody.
Release(c) ==
    /\ pcC[c] = "holding"
    /\ idle' = [idle EXCEPT ![held[c]] = 0]
    /\ connectionQueue' = Append(connectionQueue, held[c])
    /\ held' = [held EXCEPT ![c] = None]
    /\ pcC' = [pcC EXCEPT ![c] = "idle"]
    /\ UNCHANGED <<currentSize, pcP>>

-----------------------------------------------------------------------------
Producer == ProducerWait \/ Produce \/ ProducerSpin

ClientStep(c) == GetConnection(c) \/ Retry(c) \/ Timeout(c) \/ Release(c)

Next ==
    \/ Tick
    \/ Producer
    \/ ProducerSpuriousWakeup
    \/ Recycle
    \/ \E c \in Clients : ClientStep(c)

Spec == Init /\ [][Next]_vars

\* The producer keeps running, a timed wait ends and a woken client tests the
\* queue.  Nothing says that a client asks for a connection or returns it.
Fairness ==
    /\ WF_vars(Producer)
    /\ \A c \in Clients : WF_vars(Retry(c)) /\ WF_vars(Timeout(c))

FairSpec == Spec /\ Fairness

-----------------------------------------------------------------------------
(* Properties.                                                              *)

\* A connection is in one place: one position of the queue or one client.
Exclusive ==
    /\ IsInjective(connectionQueue)
    /\ \A c \in Clients : held[c] # None => held[c] \notin Queued
    /\ \A c, d \in Clients : c # d /\ held[c] # None => held[c] # held[d]

\* However connections are created, handed out and recycled, there are at
\* least MinSize and never more than MaxSize of them.
SizeWithinLimits ==
    /\ MinSize <= Cardinality(Alive)
    /\ Cardinality(Alive) <= MaxSize

\* The recycler may stop at the first connection that has not expired: "in
\* first-in first-out order, if the front one has not exceeded it the later
\* ones have not either" (src/mysql/ConnectionPool.cc:105).
IdleTimesDescend ==
    \A i, j \in 1 .. Len(connectionQueue) :
        i <= j => idle[connectionQueue[i]] >= idle[connectionQueue[j]]

\* A connection only ceases to exist when it is unused and has been idle for
\* MaxIdleTime, and a pass leaves no such connection above MinSize.
RecyclesOnlyIdle ==
    [][ /\ \A k \in Alive \ Alive' : k \in Queued /\ Expired(k)
        /\ Alive' # Alive /\ Alive' \subseteq Alive =>
             \/ Len(connectionQueue') = MinSize
             \/ \A k \in Queued' : ~Expired(k) ]_vars

\* A client does not wait forever beside a connection: unless the queue keeps
\* running empty, every client in getConnection gets one.
WaiterServed ==
    \/ []<>(connectionQueue = <<>>)
    \/ \A c \in Clients : (pcC[c] \in {"waiting", "retry"}) ~> (pcC[c] = "holding")

\* An empty queue below the limit is refilled: the producer, which waits while
\* the queue has connections, is woken by whoever takes the last one.
ProducerRefills ==
    (connectionQueue = <<>> /\ currentSize < MaxSize) ~> (connectionQueue # <<>>)

\* The producer refuses to create only at the limit: currentSize_ < maxSize_ is
\* "the limit on connections has not been reached" (src/mysql/ConnectionPool.cc:73).
RefusesOnlyAtLimit ==
    connectionQueue = <<>> /\ Cardinality(Alive) < MaxSize => currentSize < MaxSize
=============================================================================
