------------------------- MODULE ConnectionPoolProofs -------------------------
(***************************************************************************)
(* For every number of clients, every size of the pool and every idle time: *)
(* the types of ConnectionPool, that a connection is in one place, that the *)
(* pool stays within its limits although it counts connections twice, that  *)
(* the front of the queue has been idle longest, and that the recycler      *)
(* closes idle connections only, and all of them.                           *)
(***************************************************************************)
EXTENDS ConnectionPool, FiniteSetTheorems, DataLemmas

USE DEF vars

-----------------------------------------------------------------------------
(* The inductive invariant.                                                 *)

\* A client owns a connection from the end of getConnection to its return.
Holders == \A c \in Clients : held[c] # None <=> pcC[c] = "holding"

\* Creation counts a connection twice and recycling once, so the count is at
\* least twice the number of connections: it never goes below zero.
CountedTwice == 2 * Cardinality(Alive) <= currentSize

IInv ==
    /\ TypeOK
    /\ Holders
    /\ Exclusive
    /\ IdleTimesDescend
    /\ CountedTwice
    /\ SizeWithinLimits

-----------------------------------------------------------------------------
(* Sequences without repetition.                                            *)

\* A sequence without repetition has as many elements as positions.
LEMMA InjectionCardinality ==
    ASSUME NEW S, NEW s \in Seq(S), IsInjective(s)
    PROVE  IsFiniteSet(ToSet(s)) /\ Cardinality(ToSet(s)) = Len(s)
<1>1. Len(s) \in Nat /\ DOMAIN s = 1 .. Len(s) /\ s \in [1 .. Len(s) -> S]
    OBVIOUS
<1>2. IsFiniteSet(1 .. Len(s)) /\ Cardinality(1 .. Len(s)) = Len(s)
    BY <1>1, FS_Interval
<1>3. s \in Bijection(1 .. Len(s), ToSet(s))
    BY <1>1 DEF Bijection, Injection, Surjection, IsInjective, ToSet
<1>4. ExistsBijection(1 .. Len(s), ToSet(s))
    BY <1>3 DEF ExistsBijection
<1> QED BY <1>2, <1>4, FS_Bijection

\* A new element at the end.
LEMMA AppendInjection ==
    ASSUME NEW S, NEW s \in Seq(S), NEW e \in S, IsInjective(s), e \notin ToSet(s)
    PROVE  /\ Append(s, e) \in Seq(S) /\ IsInjective(Append(s, e))
           /\ ToSet(Append(s, e)) = ToSet(s) \cup {e}
<1> DEFINE t == Append(s, e)
<1>1. /\ t \in Seq(S) /\ Len(t) = Len(s) + 1 /\ Len(s) \in Nat
      /\ \A i \in 1 .. Len(s) : t[i] = s[i]
      /\ t[Len(s) + 1] = e
      /\ DOMAIN s = 1 .. Len(s) /\ DOMAIN t = 1 .. Len(s) + 1
    BY AppendProperties
<1> HIDE DEF t
<1>2. \A i \in 1 .. Len(s) + 1 : i \in 1 .. Len(s) \/ i = Len(s) + 1
    BY <1>1
<1>3. ToSet(t) = ToSet(s) \cup {e}
    BY <1>1, <1>2 DEF ToSet
<1>4. IsInjective(t)
    BY <1>1, <1>2 DEF IsInjective, ToSet
<1> QED BY <1>1, <1>3, <1>4 DEF t

\* What is left of a sequence behind its first n elements.
LEMMA DropInjection ==
    ASSUME NEW S, NEW s \in Seq(S), IsInjective(s), NEW n \in 0 .. Len(s),
           NEW t \in Seq(S), Len(t) = Len(s) - n,
           \A i \in 1 .. Len(t) : t[i] = s[i + n]
    PROVE  /\ IsInjective(t)
           /\ ToSet(t) = {s[i] : i \in n + 1 .. Len(s)}
           /\ ToSet(s) = {s[i] : i \in 1 .. n} \cup ToSet(t)
           /\ {s[i] : i \in 1 .. n} \cap ToSet(t) = {}
<1>1. /\ Len(s) \in Nat /\ n \in Nat /\ Len(t) \in Nat
      /\ DOMAIN s = 1 .. Len(s) /\ DOMAIN t = 1 .. Len(t)
    OBVIOUS
<1>2. \A i \in 1 .. Len(t) : i + n \in n + 1 .. Len(s)
    BY <1>1
<1>3. ASSUME NEW i \in n + 1 .. Len(s) PROVE i - n \in 1 .. Len(t) /\ s[i] = t[i - n]
  <2>1. i - n \in 1 .. Len(t) /\ (i - n) + n = i
    BY <1>1
  <2> QED BY <2>1
<1>4. ToSet(t) = {s[i] : i \in n + 1 .. Len(s)}
  <2>1. ToSet(t) = {t[i] : i \in 1 .. Len(t)}
    BY <1>1 DEF ToSet
  <2> QED BY <1>2, <1>3, <2>1
<1>5. IsInjective(t)
  <2>1. ASSUME NEW i \in 1 .. Len(t), NEW j \in 1 .. Len(t), t[i] = t[j] PROVE i = j
    <3>1. i + n \in 1 .. Len(s) /\ j + n \in 1 .. Len(s) /\ s[i + n] = s[j + n]
      BY <1>1, <1>2, <2>1
    <3>2. i + n = j + n
      BY <1>1, <3>1 DEF IsInjective
    <3> QED BY <3>2
  <2> QED BY <1>1, <2>1 DEF IsInjective
<1>6. ToSet(s) = {s[i] : i \in 1 .. n} \cup ToSet(t)
  <2>1. 1 .. Len(s) = (1 .. n) \cup (n + 1 .. Len(s))
    BY <1>1
  <2> QED BY <1>1, <1>4, <2>1 DEF ToSet
<1>7. {s[i] : i \in 1 .. n} \cap ToSet(t) = {}
  <2>1. ASSUME NEW i \in 1 .. n, NEW j \in n + 1 .. Len(s) PROVE s[i] # s[j]
    <3>1. i \in 1 .. Len(s) /\ j \in 1 .. Len(s) /\ i # j
      BY <1>1
    <3> QED BY <1>1, <3>1 DEF IsInjective
  <2> QED BY <1>4, <2>1
<1> QED BY <1>4, <1>5, <1>6, <1>7

\* The sequence that Recycle leaves, position by position.
LEMMA DropPositions ==
    ASSUME NEW S, NEW s \in Seq(S), NEW n \in 0 .. Len(s)
    PROVE  /\ SubSeq(s, n + 1, Len(s)) \in Seq(S)
           /\ Len(SubSeq(s, n + 1, Len(s))) = Len(s) - n
           /\ \A i \in 1 .. Len(s) - n : SubSeq(s, n + 1, Len(s))[i] = s[i + n]
<1> DEFINE t == SubSeq(s, n + 1, Len(s))
<1>1. /\ n \in Nat /\ Len(s) \in Nat /\ n <= Len(s)
      /\ \A i \in n + 1 .. Len(s) : s[i] \in S
    OBVIOUS
<1>2. /\ t \in Seq(S)
      /\ Len(t) = IF n + 1 <= Len(s) THEN Len(s) - (n + 1) + 1 ELSE 0
      /\ \A i \in 1 .. Len(s) - (n + 1) + 1 : t[i] = s[(n + 1) + i - 1]
    BY <1>1, SubSeqProperties
<1> HIDE DEF t
<1>3. Len(t) = Len(s) - n
    BY <1>1, <1>2
<1>4. ASSUME NEW i \in 1 .. Len(s) - n PROVE t[i] = s[i + n]
  <2>1. i \in 1 .. Len(s) - (n + 1) + 1 /\ (n + 1) + i - 1 = i + n
    BY <1>1
  <2>2. t[i] = s[(n + 1) + i - 1]
    BY <1>2, <2>1
  <2> QED BY <2>1, <2>2
<1> QED BY <1>2, <1>3, <1>4 DEF t

\* The first element and the others.
LEMMA TailInjection ==
    ASSUME NEW S, NEW s \in Seq(S), IsInjective(s), s # <<>>
    PROVE  /\ Head(s) \in S /\ Tail(s) \in Seq(S) /\ IsInjective(Tail(s))
           /\ ToSet(s) = ToSet(Tail(s)) \cup {Head(s)} /\ Head(s) \notin ToSet(Tail(s))
<1> DEFINE t == Tail(s)
<1>1. 1 \in 0 .. Len(s) /\ 1 .. 1 = {1} /\ Head(s) = s[1] /\ Head(s) \in S
    OBVIOUS
<1>2. t \in Seq(S) /\ Len(t) = Len(s) - 1 /\ \A i \in 1 .. Len(t) : t[i] = s[i + 1]
    BY HeadTailProperties
<1> HIDE DEF t
<1>3. {s[i] : i \in 1 .. 1} = {Head(s)}
    BY <1>1
<1>4. /\ IsInjective(t)
      /\ ToSet(s) = {s[i] : i \in 1 .. 1} \cup ToSet(t)
      /\ {s[i] : i \in 1 .. 1} \cap ToSet(t) = {}
    BY <1>1, <1>2, DropInjection
<1> QED BY <1>1, <1>2, <1>3, <1>4 DEF t
-----------------------------------------------------------------------------
(* The connections.                                                         *)

\* There are finitely many, no more than there are MysqlConn objects.
LEMMA AliveFinite ==
    ASSUME TypeOK
    PROVE  /\ Alive \in SUBSET Conns /\ IsFiniteSet(Alive) /\ Cardinality(Alive) \in Nat
           /\ Queued \subseteq Alive
<1>1. Queued \subseteq Conns
    BY DEF TypeOK, Queued, ToSet
<1>2. InUse \subseteq Conns
    BY DEF TypeOK, InUse
<1>3. Alive \in SUBSET Conns /\ Queued \subseteq Alive
    BY <1>1, <1>2 DEF Alive
<1> QED BY <1>3, PoolAssumption, FS_Subset, FS_CardinalityType

\* The recycler takes as many expired connections off the front as it may:
\* it keeps MinSize of them, and stops at the first that has not expired.
LEMMA RecycleCountProperties ==
    ASSUME TypeOK
    PROVE  /\ RecycleCount \in 0 .. Len(connectionQueue)
           /\ RecycleCount = 0 \/ RecycleCount <= Len(connectionQueue) - MinSize
           /\ \A i \in 1 .. RecycleCount : Expired(connectionQueue[i])
           /\ RecycleCount < Len(connectionQueue) - MinSize =>
                  ~ Expired(connectionQueue[RecycleCount + 1])
<1> DEFINE n == Len(connectionQueue)
           May(k) == /\ k <= n - MinSize \/ k = 0
                     /\ \A i \in 1 .. k : Expired(connectionQueue[i])
           R == {k \in 0 .. n : May(k)}
<1>1. n \in Nat /\ MinSize \in Nat
    BY PoolAssumption DEF TypeOK
<1>2. 0 \in R /\ R \subseteq 0 .. n
    BY <1>1
<1>3. \E k \in R : \A m \in R : m <= k
  <2> HIDE DEF R
  <2> QED BY <1>1, <1>2, LargestElement
<1>4. RecycleCount = CHOOSE k \in R : \A m \in R : m <= k
    BY DEF RecycleCount
<1>5. RecycleCount \in R /\ \A m \in R : m <= RecycleCount
  <2> HIDE DEF R
  <2> QED BY <1>3, <1>4
<1>6. ASSUME RecycleCount < n - MinSize, Expired(connectionQueue[RecycleCount + 1])
      PROVE  FALSE
  <2>1. RecycleCount \in 0 .. n /\ \A i \in 1 .. RecycleCount : Expired(connectionQueue[i])
    BY <1>5
  <2>2. \A i \in 1 .. RecycleCount + 1 : Expired(connectionQueue[i])
    BY <1>6, <2>1
  <2>3. RecycleCount + 1 \in R
    BY <1>1, <1>6, <2>1, <2>2
  <2> QED BY <1>5, <2>1, <2>3
<1> QED BY <1>5, <1>6

\* A step that only moves connections, and creates or closes none, keeps the
\* limits.
LEMMA SameConnections ==
    ASSUME CountedTwice, SizeWithinLimits, Alive' = Alive, currentSize' = currentSize
    PROVE  CountedTwice' /\ SizeWithinLimits'
BY DEF CountedTwice, SizeWithinLimits

\* A connection at the end of the queue, just refreshed, keeps the idle times in
\* order.
LEMMA IdleAppend ==
    ASSUME TypeOK, IdleTimesDescend, NEW k \in Conns, k \notin Queued,
           connectionQueue' = Append(connectionQueue, k), idle' = [idle EXCEPT ![k] = 0]
    PROVE  IdleTimesDescend' /\ idle' \in [Conns -> 0 .. MaxIdleTime]
<1> DEFINE n == Len(connectionQueue)
<1>1. idle' \in [Conns -> 0 .. MaxIdleTime]
    BY PoolAssumption DEF TypeOK
<1>2. /\ n \in Nat /\ Len(connectionQueue') = n + 1
      /\ \A i \in 1 .. n : /\ connectionQueue'[i] = connectionQueue[i]
                           /\ connectionQueue[i] \in Queued /\ connectionQueue[i] \in Conns
      /\ connectionQueue'[n + 1] = k
    BY AppendProperties DEF TypeOK, Queued, ToSet
<1>3. \A i \in 1 .. n : idle'[connectionQueue'[i]] = idle[connectionQueue[i]]
    BY <1>2 DEF TypeOK
<1>4. idle'[connectionQueue'[n + 1]] = 0
    BY <1>2 DEF TypeOK
<1>5. ASSUME NEW i \in 1 .. n + 1, NEW j \in 1 .. n + 1, i <= j
      PROVE  idle'[connectionQueue'[i]] >= idle'[connectionQueue'[j]]
  <2>1. CASE j = n + 1
    <3>1. idle'[connectionQueue'[i]] \in 0 .. MaxIdleTime
      <4>1. connectionQueue'[i] \in Conns
        BY <1>2
      <4> QED BY <1>1, <4>1
    <3> QED BY <1>4, <2>1, <3>1, PoolAssumption
  <2>2. CASE j # n + 1
    <3>1. i \in 1 .. n /\ j \in 1 .. n
      BY <1>2, <1>5, <2>2
    <3> QED BY <1>3, <1>5, <3>1 DEF IdleTimesDescend
  <2> QED BY <2>1, <2>2
<1> QED BY <1>1, <1>2, <1>5 DEF IdleTimesDescend

\* What is left of the queue behind its first n connections is in order, without
\* repetition, as before.
LEMMA IdleDrop ==
    ASSUME TypeOK, IdleTimesDescend, NEW n \in 0 .. Len(connectionQueue),
           Len(connectionQueue') = Len(connectionQueue) - n,
           \A i \in 1 .. Len(connectionQueue') : connectionQueue'[i] = connectionQueue[i + n],
           idle' = idle
    PROVE  IdleTimesDescend'
<1>1. Len(connectionQueue) \in Nat
    BY DEF TypeOK
<1>2. ASSUME NEW i \in 1 .. Len(connectionQueue'), NEW j \in 1 .. Len(connectionQueue'), i <= j
      PROVE  idle'[connectionQueue'[i]] >= idle'[connectionQueue'[j]]
  <2>1. /\ i + n \in 1 .. Len(connectionQueue) /\ j + n \in 1 .. Len(connectionQueue)
        /\ i + n <= j + n
    BY <1>1, <1>2
  <2>2. idle[connectionQueue[i + n]] >= idle[connectionQueue[j + n]]
    BY <2>1 DEF IdleTimesDescend
  <2> QED BY <2>2
<1> QED BY <1>2 DEF IdleTimesDescend

-----------------------------------------------------------------------------
(* The steps.                                                               *)

\* Steps that move no connection.
LEMMA ControlInv ==
    ASSUME IInv,
           \/ ProducerWait \/ ProducerSpin \/ ProducerSpuriousWakeup
           \/ \E c \in Clients : Timeout(c) \/ (pcC[c] # "holding" /\ Block(c))
           \/ UNCHANGED vars
    PROVE  IInv'
<1>1. UNCHANGED <<connectionQueue, currentSize, idle, held>>
    BY DEF ProducerWait, ProducerSpin, ProducerSpuriousWakeup, Timeout, Block
<1>2. /\ pcC' \in [Clients -> {"idle", "waiting", "retry", "holding"}]
      /\ pcP' \in {"test", "waiting"}
      /\ \A c \in Clients : pcC'[c] = "holding" <=> pcC[c] = "holding"
    BY DEF ProducerWait, ProducerSpin, ProducerSpuriousWakeup, Timeout, Block,
           IInv, TypeOK
<1>3. Queued' = Queued /\ Alive' = Alive
    BY <1>1 DEF Queued, Alive, InUse, ToSet
<1>4. TypeOK' /\ Holders'
    BY <1>1, <1>2 DEF IInv, TypeOK, Holders
<1>5. Exclusive' /\ IdleTimesDescend'
    BY <1>1, <1>3 DEF IInv, Exclusive, IdleTimesDescend, IsInjective
<1> QED BY <1>1, <1>3, <1>4, <1>5, SameConnections DEF IInv

\* Time passes alike for all queued connections.
LEMMA TickInv == ASSUME IInv, Tick PROVE IInv'
<1>1. UNCHANGED <<connectionQueue, currentSize, held, pcC, pcP>>
    BY DEF Tick
<1>2. Queued' = Queued /\ Alive' = Alive
    BY <1>1 DEF Queued, Alive, InUse, ToSet
<1>3. TypeOK'
    BY <1>1, PoolAssumption DEF Tick, IInv, TypeOK
<1>4. IdleTimesDescend'
  <2>1. ASSUME NEW i \in 1 .. Len(connectionQueue), NEW j \in 1 .. Len(connectionQueue), i <= j
        PROVE  idle'[connectionQueue[i]] >= idle'[connectionQueue[j]]
    <3> DEFINE a == connectionQueue[i]
               b == connectionQueue[j]
    <3>1. a \in Queued /\ b \in Queued /\ a \in Conns /\ b \in Conns
      BY DEF IInv, TypeOK, Queued, ToSet
    <3>2. idle[a] >= idle[b] /\ idle[a] \in 0 .. MaxIdleTime /\ idle[b] \in 0 .. MaxIdleTime
      BY <2>1, <3>1 DEF IInv, TypeOK, IdleTimesDescend
    <3>3. /\ idle'[a] = IF idle[a] < MaxIdleTime THEN idle[a] + 1 ELSE idle[a]
          /\ idle'[b] = IF idle[b] < MaxIdleTime THEN idle[b] + 1 ELSE idle[b]
      BY <3>1 DEF Tick
    <3> HIDE DEF a, b
    <3>4. idle'[a] >= idle'[b]
      BY <3>2, <3>3, PoolAssumption
    <3> QED BY <3>4 DEF a, b
  <2> QED BY <1>1, <2>1 DEF IdleTimesDescend
<1>5. Holders' /\ Exclusive'
    BY <1>1, <1>2 DEF IInv, Holders, Exclusive, IsInjective
<1> QED BY <1>1, <1>2, <1>3, <1>4, <1>5, SameConnections DEF IInv

\* The producer adds a connection to an empty queue.
LEMMA ProduceInv == ASSUME IInv, Produce PROVE IInv'
<1>1. PICK k \in Conns : AddConnection(k)
    BY DEF Produce
<1>2. k \notin Alive /\ k \notin Queued /\ k \notin InUse
    BY <1>1 DEF AddConnection, Alive
<1>3. /\ connectionQueue' = Append(connectionQueue, k) /\ connectionQueue' \in Seq(Conns)
      /\ IsInjective(connectionQueue') /\ Queued' = Queued \cup {k}
    BY <1>1, <1>2, AppendInjection DEF AddConnection, IInv, TypeOK, Exclusive, Queued
<1>4. held' = held /\ InUse' = InUse
    BY DEF Produce, InUse
<1>5. Alive' = Alive \cup {k}
    BY <1>3, <1>4 DEF Alive
<1>6. Cardinality(Alive') = Cardinality(Alive) + 1 /\ Cardinality(Alive) \in Nat
    BY <1>2, <1>5, AliveFinite, FS_AddElement DEF IInv
<1>7. currentSize' = currentSize + 2 /\ currentSize < MaxSize /\ currentSize \in Nat
    BY <1>1 DEF Produce, AddConnection, IInv, TypeOK
<1>8. CountedTwice' /\ SizeWithinLimits'
    BY <1>6, <1>7, PoolAssumption DEF IInv, CountedTwice, SizeWithinLimits
<1>9. IdleTimesDescend' /\ idle' \in [Conns -> 0 .. MaxIdleTime]
    BY <1>1, <1>2, IdleAppend DEF AddConnection, IInv
<1>10. /\ pcC' \in [Clients -> {"idle", "waiting", "retry", "holding"}]
       /\ \A c \in Clients : pcC'[c] = "holding" <=> pcC[c] = "holding"
    BY DEF Produce, WokenClients, IInv, TypeOK
<1>11. TypeOK' /\ Holders'
    BY <1>3, <1>4, <1>7, <1>9, <1>10 DEF Produce, IInv, TypeOK, Holders
<1>12. Exclusive'
  <2>1. \A c \in Clients : held[c] # None => held[c] # k
    BY <1>2 DEF InUse
  <2> QED BY <1>3, <1>4, <2>1 DEF IInv, Exclusive
<1> QED BY <1>8, <1>9, <1>11, <1>12 DEF IInv

\* A client takes the connection at the front.
LEMMA TakeInv ==
    ASSUME IInv, NEW c \in Clients, Take(c), pcC[c] # "holding"
    PROVE  IInv' /\ Alive' = Alive
<1> DEFINE h == Head(connectionQueue)
<1>1. held[c] = None /\ held \in [Clients -> Conns \cup {None}] /\ None \notin Conns
    BY PoolAssumption DEF IInv, TypeOK, Holders
<1>2. /\ connectionQueue' = Tail(connectionQueue) /\ connectionQueue' \in Seq(Conns)
      /\ h \in Conns /\ IsInjective(connectionQueue')
      /\ Queued = Queued' \cup {h} /\ h \notin Queued'
    BY TailInjection DEF Take, IInv, TypeOK, Exclusive, Queued
<1>3. held' = [held EXCEPT ![c] = h] /\ h # None
    BY <1>1, <1>2 DEF Take
<1>4. Alive' = Alive
  <2>1. InUse' = InUse \cup {h}
    BY <1>1, <1>3 DEF InUse
  <2> QED BY <1>2, <2>1 DEF Alive
<1>5. /\ pcC' \in [Clients -> {"idle", "waiting", "retry", "holding"}]
      /\ \A d \in Clients : pcC'[d] = "holding" <=> (pcC[d] = "holding" \/ d = c)
    BY DEF Take, WokenClients, IInv, TypeOK
<1>6. TypeOK' /\ Holders'
  <2>1. TypeOK'
    BY <1>1, <1>2, <1>3, <1>5 DEF Take, IInv, TypeOK
  <2>2. Holders'
    BY <1>1, <1>3, <1>5 DEF IInv, Holders
  <2> QED BY <2>1, <2>2
<1>7. Exclusive'
  <2>1. \A d \in Clients : d # c => held'[d] = held[d]
    BY <1>1, <1>3
  <2>2. \A d \in Clients : held[d] # None => held[d] \notin Queued
    BY DEF IInv, Exclusive
  <2>3. \A d \in Clients : held'[d] # None => held'[d] \notin Queued'
    BY <1>1, <1>2, <1>3, <2>1, <2>2
  <2>4. \A d \in Clients : d # c /\ held'[d] # None => held'[d] # held'[c]
    BY <1>1, <1>2, <1>3, <2>1, <2>2
  <2>5. \A d, e \in Clients : d # e /\ held'[d] # None => held'[d] # held'[e]
    BY <1>3, <2>1, <2>4 DEF IInv, Exclusive
  <2> QED BY <1>2, <2>3, <2>5 DEF Exclusive
<1>8. IdleTimesDescend'
  <2>1. /\ 1 \in 0 .. Len(connectionQueue) /\ Len(connectionQueue') = Len(connectionQueue) - 1
        /\ \A i \in 1 .. Len(connectionQueue') : connectionQueue'[i] = connectionQueue[i + 1]
    BY HeadTailProperties DEF Take, IInv, TypeOK
  <2>2. idle' = idle
    BY DEF Take
  <2> QED BY <2>1, <2>2, IdleDrop DEF IInv
<1>9. currentSize' = currentSize
    BY DEF Take
<1> QED BY <1>4, <1>6, <1>7, <1>8, <1>9, SameConnections DEF IInv

\* A client gives its connection back.
LEMMA ReleaseInv ==
    ASSUME IInv, NEW c \in Clients, Release(c)
    PROVE  IInv' /\ Alive' = Alive
<1> DEFINE k == held[c]
<1>1. /\ k # None /\ k \in Conns /\ k \notin Queued
      /\ \A d \in Clients : d # c => held[d] # k
      /\ held \in [Clients -> Conns \cup {None}] /\ None \notin Conns
    BY PoolAssumption DEF Release, IInv, TypeOK, Holders, Exclusive
<1>2. /\ connectionQueue' = Append(connectionQueue, k) /\ connectionQueue' \in Seq(Conns)
      /\ IsInjective(connectionQueue') /\ Queued' = Queued \cup {k}
    BY <1>1, AppendInjection DEF Release, IInv, TypeOK, Exclusive, Queued
<1>3. held' = [held EXCEPT ![c] = None]
    BY DEF Release
<1>4. Alive' = Alive
  <2>1. InUse = InUse' \cup {k}
    BY <1>1, <1>3 DEF InUse
  <2> QED BY <1>2, <2>1 DEF Alive
<1>5. /\ pcC' \in [Clients -> {"idle", "waiting", "retry", "holding"}]
      /\ \A d \in Clients : pcC'[d] = "holding" <=> (pcC[d] = "holding" /\ d # c)
    BY DEF Release, IInv, TypeOK
<1>6. IdleTimesDescend' /\ idle' \in [Conns -> 0 .. MaxIdleTime]
    BY <1>1, <1>2, IdleAppend DEF Release, IInv
<1>7. TypeOK' /\ Holders'
    BY <1>1, <1>2, <1>3, <1>5, <1>6 DEF Release, IInv, TypeOK, Holders
<1>8. Exclusive'
    BY <1>1, <1>2, <1>3 DEF IInv, Exclusive
<1>9. currentSize' = currentSize
    BY DEF Release
<1> QED BY <1>4, <1>6, <1>7, <1>8, <1>9, SameConnections DEF IInv

\* What a pass of the recycler does to the connections: it closes the first
\* RecycleCount of the queue, which nobody else owns.
LEMMA RecycleEffect ==
    ASSUME IInv, Recycle
    PROVE  LET n == RecycleCount
               closed == {connectionQueue[i] : i \in 1 .. n} IN
           /\ connectionQueue' \in Seq(Conns) /\ IsInjective(connectionQueue')
           /\ Len(connectionQueue') = Len(connectionQueue) - n
           /\ \A i \in 1 .. Len(connectionQueue') : connectionQueue'[i] = connectionQueue[i + n]
           /\ Queued' = {connectionQueue[i] : i \in n + 1 .. Len(connectionQueue)}
           /\ Queued = closed \cup Queued' /\ closed \cap Queued' = {}
           /\ Alive = closed \cup Alive' /\ closed \cap Alive' = {}
<1> DEFINE n == RecycleCount
           closed == {connectionQueue[i] : i \in 1 .. n}
<1>1. n \in 0 .. Len(connectionQueue) /\ connectionQueue \in Seq(Conns)
      /\ IsInjective(connectionQueue)
    BY RecycleCountProperties DEF IInv, TypeOK, Exclusive
<1> HIDE DEF n
<1>2. connectionQueue' = SubSeq(connectionQueue, n + 1, Len(connectionQueue))
    BY DEF Recycle, n
<1>3. /\ connectionQueue' \in Seq(Conns)
      /\ Len(connectionQueue') = Len(connectionQueue) - n
      /\ \A i \in 1 .. Len(connectionQueue') : connectionQueue'[i] = connectionQueue[i + n]
    BY <1>1, <1>2, DropPositions
<1>4. /\ IsInjective(connectionQueue')
      /\ Queued' = {connectionQueue[i] : i \in n + 1 .. Len(connectionQueue)}
      /\ Queued = closed \cup Queued' /\ closed \cap Queued' = {}
    BY <1>1, <1>3, DropInjection DEF Queued
<1> HIDE DEF closed
<1>5. InUse' = InUse /\ InUse \cap Queued = {}
    BY DEF Recycle, InUse, IInv, Exclusive
<1>6. Alive = closed \cup Alive' /\ closed \cap Alive' = {}
    BY <1>4, <1>5 DEF Alive
<1> QED BY <1>3, <1>4, <1>6 DEF n, closed

\* The recycler closes connections, and keeps at least MinSize when it does.
LEMMA RecycleInv == ASSUME IInv, Recycle PROVE IInv'
<1> DEFINE n == RecycleCount
           closed == {connectionQueue[i] : i \in 1 .. n}
<1>1. /\ n \in 0 .. Len(connectionQueue) /\ Len(connectionQueue) \in Nat
      /\ n = 0 \/ n <= Len(connectionQueue) - MinSize
      /\ connectionQueue \in Seq(Conns) /\ IsInjective(connectionQueue)
    BY RecycleCountProperties DEF IInv, TypeOK, Exclusive
<1>2. /\ connectionQueue' \in Seq(Conns) /\ IsInjective(connectionQueue')
      /\ Len(connectionQueue') = Len(connectionQueue) - n
      /\ \A i \in 1 .. Len(connectionQueue') : connectionQueue'[i] = connectionQueue[i + n]
      /\ Queued = closed \cup Queued' /\ closed \cap Queued' = {}
      /\ Alive = closed \cup Alive' /\ closed \cap Alive' = {}
    BY RecycleEffect
<1>3. currentSize' = currentSize - n /\ UNCHANGED <<idle, held, pcC, pcP>>
    BY DEF Recycle
<1> HIDE DEF n
<1> HIDE DEF closed
<1>4. /\ IsFiniteSet(Queued) /\ Cardinality(Queued) = Len(connectionQueue)
      /\ IsFiniteSet(Queued') /\ Cardinality(Queued') = Len(connectionQueue) - n
  <2>1. IsFiniteSet(Queued) /\ Cardinality(Queued) = Len(connectionQueue)
    BY <1>1, InjectionCardinality DEF Queued
  <2>2. IsFiniteSet(Queued') /\ Cardinality(Queued') = Len(connectionQueue')
    BY <1>2, InjectionCardinality DEF Queued
  <2> QED BY <1>2, <2>1, <2>2
<1>5. IsFiniteSet(closed) /\ Cardinality(closed) = n
  <2>1. IsFiniteSet(closed) /\ Cardinality(closed) \in Nat
    BY <1>2, <1>4, FS_Subset, FS_CardinalityType
  <2>2. Cardinality(Queued) = Cardinality(closed) + Cardinality(Queued') - Cardinality({})
    BY <1>2, <1>4, <2>1, FS_Union
  <2> QED BY <1>1, <1>4, <2>1, <2>2, FS_EmptySet
<1>6. /\ IsFiniteSet(Alive') /\ Cardinality(Alive') \in Nat
      /\ Cardinality(Alive) = n + Cardinality(Alive')
      /\ Cardinality(Queued') <= Cardinality(Alive')
  <2>1. IsFiniteSet(Alive) /\ Alive' \in SUBSET Alive
    BY <1>2, AliveFinite DEF IInv
  <2>2. IsFiniteSet(Alive') /\ Cardinality(Alive') \in Nat
    BY <2>1, FS_Subset, FS_CardinalityType
  <2>3. Cardinality(closed \cup Alive')
            = Cardinality(closed) + Cardinality(Alive') - Cardinality({})
    BY <1>2, <1>5, <2>2, FS_Union
  <2>4. Cardinality(Alive) = n + Cardinality(Alive')
    BY <1>1, <1>2, <1>5, <2>2, <2>3, FS_EmptySet
  <2>5. Queued' \in SUBSET Alive'
    BY DEF Alive
  <2>6. Cardinality(Queued') <= Cardinality(Alive')
    BY <2>2, <2>5, FS_Subset
  <2> QED BY <2>2, <2>4, <2>6
<1>7. CountedTwice' /\ currentSize' \in Nat
  <2>1. 2 * Cardinality(Alive') <= currentSize' /\ currentSize' \in Int
    BY <1>1, <1>3, <1>6 DEF IInv, CountedTwice, TypeOK
  <2> QED BY <1>6, <2>1 DEF CountedTwice
<1>8. SizeWithinLimits'
  <2>1. Cardinality(Alive') <= MaxSize
    BY <1>1, <1>6, PoolAssumption DEF IInv, SizeWithinLimits
  <2>2. MinSize <= Cardinality(Alive')
    <3>1. CASE n = 0
      BY <1>6, <3>1 DEF IInv, SizeWithinLimits
    <3>2. CASE n # 0
      BY <1>1, <1>4, <1>6, <3>2, PoolAssumption
    <3> QED BY <3>1, <3>2
  <2> QED BY <2>1, <2>2 DEF SizeWithinLimits
<1>9. TypeOK' /\ Holders'
    BY <1>2, <1>3, <1>7 DEF IInv, TypeOK, Holders
<1>10. Exclusive'
    BY <1>2, <1>3 DEF IInv, Exclusive
<1>11. IdleTimesDescend'
    BY <1>1, <1>2, <1>3, IdleDrop DEF IInv
<1> QED BY <1>7, <1>8, <1>9, <1>10, <1>11 DEF IInv

-----------------------------------------------------------------------------
(* The theorems.                                                            *)

\* The constructor fills the pool to its minimum.
LEMMA InitInv == ASSUME Init PROVE IInv
<1>1. /\ connectionQueue \in Seq(Conns) /\ IsInjective(connectionQueue)
      /\ Len(connectionQueue) = MinSize /\ MinSize \in Nat /\ MinSize <= MaxSize
      /\ MaxSize \in Nat /\ 0 \in 0 .. MaxIdleTime
    BY PoolAssumption DEF Init
<1>2. TypeOK
    BY <1>1 DEF Init, TypeOK
<1>3. InUse = {} /\ Alive = Queued
    BY DEF Init, InUse, Alive
<1>4. Cardinality(Alive) = MinSize
    BY <1>1, <1>3, InjectionCardinality DEF Queued
<1>5. Holders /\ Exclusive
    BY <1>1 DEF Init, Holders, Exclusive
<1>6. IdleTimesDescend
  <2>1. \A i \in 1 .. Len(connectionQueue) : connectionQueue[i] \in Conns
    BY <1>1
  <2> QED BY <2>1 DEF Init, IdleTimesDescend
<1>7. CountedTwice /\ SizeWithinLimits
    BY <1>1, <1>4 DEF Init, CountedTwice, SizeWithinLimits
<1> QED BY <1>2, <1>5, <1>6, <1>7 DEF IInv

\* Every step keeps it, so it always holds.
LEMMA Inductive == Spec => []IInv
<1>1. ASSUME IInv, [Next]_vars PROVE IInv'
  <2>1. CASE Tick
    BY <1>1, <2>1, TickInv
  <2>2. CASE Producer
    BY <1>1, <2>2, ControlInv, ProduceInv DEF Producer
  <2>3. CASE ProducerSpuriousWakeup \/ UNCHANGED vars
    BY <1>1, <2>3, ControlInv
  <2>4. CASE Recycle
    BY <1>1, <2>4, RecycleInv
  <2>5. ASSUME NEW c \in Clients, ClientStep(c) PROVE IInv'
    <3>1. CASE Timeout(c) \/ (pcC[c] # "holding" /\ Block(c))
      BY <1>1, <3>1, ControlInv
    <3>2. CASE pcC[c] # "holding" /\ Take(c)
      BY <1>1, <3>2, TakeInv
    <3>3. CASE Release(c)
      BY <1>1, <3>3, ReleaseInv
    <3>4. GetConnection(c) \/ Retry(c) => pcC[c] # "holding" /\ (Take(c) \/ Block(c))
      BY DEF GetConnection, Retry
    <3> QED BY <2>5, <3>1, <3>2, <3>3, <3>4 DEF ClientStep
  <2> QED BY <1>1, <2>1, <2>2, <2>3, <2>4, <2>5 DEF Next
<1> QED BY <1>1, InitInv, PTL DEF Spec

\* Every variable keeps its type: the count of connections is never negative.
THEOREM TypeCorrect == Spec => []TypeOK
<1>1. IInv => TypeOK
    BY DEF IInv
<1> QED BY <1>1, Inductive, PTL

\* No connection is ever in the hands of two clients, or in the queue while a
\* client uses it, or in the queue twice.
THEOREM ExclusiveHolds == Spec => []Exclusive
<1>1. IInv => Exclusive
    BY DEF IInv
<1> QED BY <1>1, Inductive, PTL

\* The pool keeps its minimum and its maximum, although addConnection and its
\* callers both count a connection.
THEOREM SizeWithinLimitsHolds == Spec => []SizeWithinLimits
<1>1. IInv => SizeWithinLimits
    BY DEF IInv
<1> QED BY <1>1, Inductive, PTL

\* The recycler may stop at the first connection that has not expired.
THEOREM IdleTimesDescendHolds == Spec => []IdleTimesDescend
<1>1. IInv => IdleTimesDescend
    BY DEF IInv
<1> QED BY <1>1, Inductive, PTL

-----------------------------------------------------------------------------
(* What the steps do to the set of connections.                             *)

\* Only the producer below its limit creates one and only the recycler closes any.
LEMMA AliveStep ==
    ASSUME IInv, [Next]_vars
    PROVE  \/ Alive' = Alive
           \/ Recycle
           \/ currentSize < MaxSize /\ \E k \in Conns \ Alive : Alive' = Alive \cup {k}
<1>1. CASE UNCHANGED <<connectionQueue, held>>
    BY <1>1 DEF Alive, Queued, InUse, ToSet
<1>2. CASE Tick \/ ProducerWait \/ ProducerSpin \/ ProducerSpuriousWakeup \/ UNCHANGED vars
    BY <1>1, <1>2 DEF Tick, ProducerWait, ProducerSpin, ProducerSpuriousWakeup
<1>3. CASE Produce
  <2>1. PICK k \in Conns : AddConnection(k)
    BY <1>3 DEF Produce
  <2>2. k \in Conns \ Alive /\ connectionQueue' = Append(connectionQueue, k) /\ k \notin Queued
    BY <2>1 DEF AddConnection, Alive
  <2>3. Queued' = Queued \cup {k}
    BY <2>2, AppendInjection DEF IInv, TypeOK, Exclusive, Queued
  <2>4. held' = held /\ currentSize < MaxSize
    BY <1>3 DEF Produce
  <2>5. Alive' = Alive \cup {k}
    BY <2>3, <2>4 DEF Alive, InUse
  <2> QED BY <2>2, <2>4, <2>5
<1>4. ASSUME NEW c \in Clients, ClientStep(c) PROVE Alive' = Alive
  <2>1. CASE Timeout(c) \/ Block(c)
    BY <1>1, <2>1 DEF Timeout, Block, Alive, Queued, InUse, ToSet
  <2>2. CASE pcC[c] # "holding" /\ Take(c)
    BY <1>4, <2>2, TakeInv
  <2>3. CASE Release(c)
    BY <1>4, <2>3, ReleaseInv
  <2>4. GetConnection(c) \/ Retry(c) => pcC[c] # "holding" /\ (Take(c) \/ Block(c))
    BY DEF GetConnection, Retry
  <2> QED BY <1>4, <2>1, <2>2, <2>3, <2>4 DEF ClientStep
<1> QED BY <1>2, <1>3, <1>4 DEF Next, Producer

\* A pass of the recycler closes only what has been idle for MaxIdleTime, and
\* when it closes anything it leaves MinSize connections or none that expired.
LEMMA RecycleOnlyIdle ==
    ASSUME IInv, Recycle
    PROVE  /\ \A k \in Alive \ Alive' : k \in Queued /\ Expired(k)
           /\ Alive' # Alive =>
                 \/ Len(connectionQueue') = MinSize
                 \/ \A k \in Queued' : ~Expired(k)
<1> DEFINE n == RecycleCount
           closed == {connectionQueue[i] : i \in 1 .. n}
<1>1. /\ n \in 0 .. Len(connectionQueue) /\ Len(connectionQueue) \in Nat
      /\ n = 0 \/ n <= Len(connectionQueue) - MinSize
      /\ \A i \in 1 .. n : Expired(connectionQueue[i])
      /\ n < Len(connectionQueue) - MinSize => ~ Expired(connectionQueue[n + 1])
    BY RecycleCountProperties DEF IInv, TypeOK
<1>2. /\ Len(connectionQueue') = Len(connectionQueue) - n
      /\ Queued' = {connectionQueue[i] : i \in n + 1 .. Len(connectionQueue)}
      /\ Queued = closed \cup Queued' /\ Alive = closed \cup Alive'
    BY RecycleEffect
<1> HIDE DEF n
<1>3. \A k \in Alive \ Alive' : k \in Queued /\ Expired(k)
    BY <1>1, <1>2
<1>4. ASSUME Alive' # Alive, Len(connectionQueue') # MinSize, NEW k \in Queued'
      PROVE  ~Expired(k)
  <2>1. n # 0
    BY <1>2, <1>4
  <2>2. n < Len(connectionQueue) - MinSize
    BY <1>1, <1>2, <1>4, <2>1, PoolAssumption
  <2>3. PICK j \in n + 1 .. Len(connectionQueue) : k = connectionQueue[j]
    BY <1>2
  <2>4. /\ n + 1 \in 1 .. Len(connectionQueue) /\ j \in 1 .. Len(connectionQueue)
        /\ n + 1 <= j
    BY <1>1, <2>2, PoolAssumption
  <2>5. idle[connectionQueue[n + 1]] >= idle[k]
    BY <2>3, <2>4 DEF IInv, IdleTimesDescend
  <2>6. /\ connectionQueue[n + 1] \in Conns /\ k \in Conns
        /\ ~ Expired(connectionQueue[n + 1])
    BY <1>1, <2>2, <2>3, <2>4 DEF IInv, TypeOK
  <2> QED BY <2>5, <2>6, PoolAssumption DEF Expired, IInv, TypeOK
<1> QED BY <1>3, <1>4

\* Connections disappear only by the recycler, which closes idle ones alone and
\* all it may: what RecyclesOnlyIdle says of one pass, for pools of every size.
THEOREM RecyclesOnlyIdleHolds == Spec => RecyclesOnlyIdle
<1> DEFINE A == /\ \A k \in Alive \ Alive' : k \in Queued /\ Expired(k)
                /\ Alive' # Alive /\ Alive' \subseteq Alive =>
                     \/ Len(connectionQueue') = MinSize
                     \/ \A k \in Queued' : ~Expired(k)
<1>1. ASSUME IInv, [Next]_vars PROVE A
    BY <1>1, AliveStep, RecycleOnlyIdle
<1>2. IInv /\ [Next]_vars => [A]_vars
    BY <1>1
<1> HIDE DEF A
<1>3. Spec => [][A]_vars
    BY <1>2, Inductive, PTL DEF Spec
<1> QED BY <1>3 DEF A, RecyclesOnlyIdle

\* The pool stops growing halfway: it never has more connections than half of
\* MaxSize + 1, or the MinSize it started with.
GrowsToHalf ==
    Cardinality(Alive) <= MinSize \/ 2 * Cardinality(Alive) <= MaxSize + 1

\* Counting a connection in addConnection (ConnectionPool.cc:118) and again in each
\* caller (21, 77) halves the limit of every pool, whatever the clients do.
THEOREM GrowsToHalfHolds == Spec => []GrowsToHalf
<1>1. ASSUME Init PROVE GrowsToHalf
  <2>1. InUse = {} /\ Alive = Queued
    BY <1>1 DEF Init, InUse, Alive
  <2>2. /\ connectionQueue \in Seq(Conns) /\ IsInjective(connectionQueue)
        /\ Len(connectionQueue) = MinSize
    BY <1>1, PoolAssumption DEF Init
  <2>3. Cardinality(Alive) = MinSize
    BY <2>1, <2>2, InjectionCardinality DEF Queued
  <2> QED BY <2>3, PoolAssumption DEF GrowsToHalf
<1>2. ASSUME IInv, GrowsToHalf, [Next]_vars PROVE GrowsToHalf'
  <2>1. IsFiniteSet(Alive) /\ Cardinality(Alive) \in Nat
    BY <1>2, AliveFinite DEF IInv
  <2>2. CASE Alive' = Alive
    BY <1>2, <2>2 DEF GrowsToHalf
  <2>3. CASE Recycle
    <3>1. Alive' \in SUBSET Alive
      BY <1>2, <2>3, RecycleEffect
    <3>2. Cardinality(Alive') <= Cardinality(Alive) /\ Cardinality(Alive') \in Nat
      BY <2>1, <3>1, FS_Subset, FS_CardinalityType
    <3> QED BY <1>2, <2>1, <3>2, PoolAssumption DEF GrowsToHalf
  <2>4. ASSUME NEW k \in Conns \ Alive, Alive' = Alive \cup {k}, currentSize < MaxSize
        PROVE  GrowsToHalf'
    <3>1. Cardinality(Alive') = Cardinality(Alive) + 1
      BY <2>1, <2>4, FS_AddElement
    <3>2. 2 * Cardinality(Alive) <= currentSize /\ currentSize \in Nat
      BY <1>2 DEF IInv, CountedTwice, TypeOK
    <3> QED BY <2>1, <2>4, <3>1, <3>2, PoolAssumption DEF GrowsToHalf
  <2> QED BY <1>2, <2>2, <2>3, <2>4, AliveStep
<1> QED BY <1>1, <1>2, Inductive, PTL DEF Spec

=============================================================================
