--------------------------- MODULE TcpServerProofs ---------------------------
(***************************************************************************)
(* For every number of loops, peers and descriptors: the types of          *)
(* TcpServer, the account that map, states and functor queues give of each *)
(* connection, and that the server implements ConnectionLife.              *)
(***************************************************************************)
EXTENDS TcpServer, FiniteSetTheorems, DataLemmas

USE DEF vars, pool, acceptor, conns, loopVars, stops

-----------------------------------------------------------------------------
(* The inductive invariant.                                                 *)

Kinds == {"connectEstablished", "shutdownInLoop", "removeConnectionInLoop", "connectDestroyed"}

\* The queues of all loops, each as it will be run.
Queues == [l \in Loops |-> Queue(l)]

\* The functors that are somewhere in q, and that one of a set F is there once.
FoundIn(q) == {f \in Functors : \E l \in Loops : \E i \in DOMAIN q[l] : q[l][i] = f}

OnceIn(q, F) ==
    \A l, m \in Loops : \A i \in DOMAIN q[l], j \in DOMAIN q[m] :
        q[l][i] \in F /\ q[m][j] \in F => l = m /\ i = j

Waiting == FoundIn(Queues)
Once(F) == OnceIn(Queues, F)

\* All functors of a connection, and those that open or remove it.
Of(c) == {f \in Functors : f.conn = c}
Core(c) == Of(c) \ {Functor("shutdownInLoop", c)}

Opened(c) == state[c] \in {"kConnected", "kDisconnecting"}

Serving == server \in {"new", "listening"}

\* A channel is registered while its connection is open and no longer; shutdown()
\* of another thread may put an open state over a closed one, not the channel.
Watches(c) ==
    /\ c \in watched => Opened(c) /\ c \notin revived
    /\ state[c] = "kConnected" => c \in watched
    /\ state[c] = "kDisconnecting" /\ c \notin watched => c \in revived
    /\ c \in revived \cup stopping => state[c] # "kConnecting"

\* Nothing is known of a connection that was not accepted yet.
Unborn(c) ==
    c >= nextConnId => /\ c \notin connections /\ state[c] = "kConnecting"
                       /\ Waiting \cap Of(c) = {} /\ \A l \in Loops : c \notin ran[l]

\* connectEstablished is queued once, and finds the connection as it was made:
\* also in a server that is being destroyed, it never opens a closed one.
Establishes(c) ==
    /\ Once({Functor("connectEstablished", c)})
    /\ Functor("connectEstablished", c) \in Waiting => state[c] = "kConnecting"

\* While the server serves, a connection has one functor at most that opens or
\* removes it, and which it is follows from the map and the state; ...
Account(c) ==
    IF c \in connections
    THEN /\ state[c] = "kConnecting" =>
               Waiting \cap Core(c) = {Functor("connectEstablished", c)}
         /\ state[c] = "kDisconnected" =>
               Waiting \cap Core(c) = {Functor("removeConnectionInLoop", c)}
         /\ Opened(c) => Waiting \cap Core(c) = {}
    ELSE /\ state[c] = "kDisconnected"
         /\ Waiting \cap Core(c) \subseteq {Functor("connectDestroyed", c)}

\* ... a revived one may have more, but is removed in any case.
Leaving(c) == c \in connections => Functor("removeConnectionInLoop", c) \in Waiting

InOrder(c) ==
    /\ Watches(c) /\ Unborn(c) /\ Establishes(c)
    /\ Serving /\ ~(c >= nextConnId) =>
           IF c \in revived THEN Leaving(c) ELSE Once(Core(c)) /\ Account(c)

\* start() has not been called: no loop, no thread.
NotStarted ==
    server = "new" => loops = <<>> /\ \A l \in Loops \ {Base} : phase[l] = "off"

\* A vector of functors is empty unless it is being run: a swap loses nothing.
Swapped == \A l \in Loops : phase[l] # "functors" => batch[l] = <<>>

\* Only the destructor ends the loops of the pool.
PoolRuns == Serving => quit \subseteq {Base}

Room == nextConnId + backlog <= MaxConns + 1

Control == NotStarted /\ Swapped /\ PoolRuns /\ Room

IInv == TypeOK /\ Control /\ \A c \in Conns : InOrder(c)

-----------------------------------------------------------------------------
(* Queues of functors.                                                      *)

(* Functors are named by what they run and for which connection.            *)
LEMMA FunctorNames ==
    /\ \A f \in Kinds, c \in Conns : /\ Functor(f, c) \in Functors
                                     /\ Functor(f, c).run = f /\ Functor(f, c).conn = c
                                     /\ Functor(f, c) \in Of(c)
                                     /\ Functor(f, c) \in Core(c) <=> f # "shutdownInLoop"
    /\ \A f \in Functors : /\ f.run \in Kinds /\ f.conn \in Conns
                           /\ f = Functor(f.run, f.conn)
    /\ \A f, g \in Kinds, c, d \in Conns : Functor(f, c) = Functor(g, d) => f = g /\ c = d
BY DEF Functors, Functor, Kinds, Of, Core

\* t is s with one more element, e.
Pushed(t, s, e) ==
    /\ Len(t) = Len(s) + 1
    /\ \A i \in 1 .. Len(s) : t[i] = s[i]
    /\ t[Len(s) + 1] = e

\* r is q with the functor f pushed on the queue of k.
PushedOn(r, q, k, f) ==
    /\ q \in [Loops -> Seq(Functors)] /\ r \in [Loops -> Seq(Functors)]
    /\ k \in Loops /\ f \in Functors
    /\ Pushed(r[k], q[k], f)
    /\ \A l \in Loops : l # k => r[l] = q[l]

(* A functor pushed on a queue is found as well, and is there once if none  *)
(* of its set was.                                                          *)
LEMMA PushFinds ==
    ASSUME NEW q, NEW r, NEW k, NEW f, PushedOn(r, q, k, f)
    PROVE  /\ FoundIn(r) = FoundIn(q) \cup {f}
           /\ \A F : OnceIn(q, F) /\ (f \notin F \/ FoundIn(q) \cap F = {}) => OnceIn(r, F)
<1>0. k \in Loops /\ f \in Functors
    BY DEF PushedOn
<1>1. \A l \in Loops : q[l] \in Seq(Functors) /\ r[l] \in Seq(Functors)
    BY DEF PushedOn
<1>2. \A l \in Loops : /\ DOMAIN q[l] = 1 .. Len(q[l]) /\ Len(q[l]) \in Nat
                       /\ DOMAIN r[l] = 1 .. Len(r[l])
                       /\ \A i \in DOMAIN q[l] : q[l][i] \in Functors
    BY <1>1, LenProperties, ElementOfSeq
<1>3. /\ Len(r[k]) = Len(q[k]) + 1
      /\ \A i \in 1 .. Len(q[k]) : r[k][i] = q[k][i]
      /\ r[k][Len(q[k]) + 1] = f
    BY DEF Pushed, PushedOn
<1>4. \A l \in Loops : l # k => r[l] = q[l]
    BY DEF PushedOn
<1>5. \A l \in Loops : \A i \in DOMAIN q[l] : i \in DOMAIN r[l] /\ r[l][i] = q[l][i]
    <2> SUFFICES ASSUME NEW l \in Loops, NEW i \in DOMAIN q[l]
        PROVE  i \in DOMAIN r[l] /\ r[l][i] = q[l][i]
        OBVIOUS
    <2>1. CASE l = k
        BY <1>2, <1>3, <2>1
    <2>2. CASE l # k
        BY <1>4, <2>2
    <2> QED
        BY <2>1, <2>2
<1>6. \A l \in Loops : \A i \in DOMAIN r[l] :
         \/ i \in DOMAIN q[l] /\ r[l][i] = q[l][i]
         \/ l = k /\ i = Len(q[k]) + 1 /\ r[l][i] = f
    BY <1>2, <1>3, <1>4
<1>7. Len(q[k]) + 1 \in DOMAIN r[k]
    BY <1>0, <1>2, <1>3
<1>8. FoundIn(r) = FoundIn(q) \cup {f}
    BY <1>0, <1>3, <1>5, <1>6, <1>7 DEF FoundIn
<1>9. ASSUME NEW F, OnceIn(q, F), f \notin F \/ FoundIn(q) \cap F = {} PROVE OnceIn(r, F)
    <2>1. CASE f \notin F
        BY <1>6, <1>9, <2>1 DEF OnceIn
    <2>2. CASE FoundIn(q) \cap F = {}
        <3>1. \A l \in Loops : \A i \in DOMAIN q[l] : q[l][i] \notin F
            BY <1>2, <2>2 DEF FoundIn
        <3> QED
            BY <1>6, <3>1 DEF OnceIn
    <2> QED
        BY <1>9, <2>1, <2>2
<1> QED
    BY <1>8, <1>9

(* The functor at the head of a queue is taken: nothing of a set that was   *)
(* there once is left if the functor belongs to it.                         *)
LEMMA PopFinds ==
    ASSUME NEW q \in [Loops -> Seq(Functors)], NEW r \in [Loops -> Seq(Functors)],
           NEW k \in Loops, q[k] # <<>>,
           \A l \in Loops : r[l] = IF l = k THEN Tail(q[k]) ELSE q[l]
    PROVE  /\ Head(q[k]) \in FoundIn(q)
           /\ FoundIn(q) = FoundIn(r) \cup {Head(q[k])}
           /\ \A F : OnceIn(q, F) =>
                 OnceIn(r, F) /\ (Head(q[k]) \in F => FoundIn(r) \cap F = {})
<1> DEFINE h == Head(q[k])
           n == Len(q[k])
<1>1. \A l \in Loops : q[l] \in Seq(Functors) /\ r[l] \in Seq(Functors)
    OBVIOUS
<1>2. \A l \in Loops : /\ DOMAIN q[l] = 1 .. Len(q[l]) /\ Len(q[l]) \in Nat
                       /\ DOMAIN r[l] = 1 .. Len(r[l])
                       /\ \A i \in DOMAIN q[l] : q[l][i] \in Functors
    BY <1>1, LenProperties, ElementOfSeq
<1>3. n \in Nat /\ n # 0
    BY <1>1, <1>2, EmptySeq
<1>4. h = q[k][1] /\ h \in Functors
    <2>1. q[k] \in Seq(Functors)
        BY <1>1
    <2> QED
        BY <2>1, <1>2, <1>3
<1>5. /\ Len(r[k]) = n - 1
      /\ \A i \in 1 .. n - 1 : r[k][i] = q[k][i + 1]
    <2>1. r[k] = Tail(q[k])
        OBVIOUS
    <2> QED
        BY <2>1, <1>1, HeadTailProperties
<1>6. \A l \in Loops : l # k => r[l] = q[l]
    OBVIOUS
<1> HIDE DEF h, n
<1>7. DOMAIN q[k] = 1 .. n /\ DOMAIN r[k] = 1 .. n - 1
    BY <1>2, <1>5 DEF n
<1>8. \A i \in DOMAIN r[k] : i + 1 \in DOMAIN q[k] /\ i + 1 # 1 /\ r[k][i] = q[k][i + 1]
    BY <1>3, <1>5, <1>7
<1>9. \A i \in DOMAIN q[k] : i # 1 => i - 1 \in DOMAIN r[k] /\ r[k][i - 1] = q[k][i]
    <2> SUFFICES ASSUME NEW i \in 1 .. n, i # 1 PROVE i - 1 \in 1 .. n - 1 /\ r[k][i - 1] = q[k][i]
        BY <1>7
    <2>1. i - 1 \in 1 .. n - 1 /\ (i - 1) + 1 = i
        BY <1>3
    <2> QED
        BY <1>5, <2>1
<1>10. 1 \in DOMAIN q[k]
    BY <1>3, <1>7
<1>11. h \in FoundIn(q)
    BY <1>4, <1>10 DEF FoundIn
<1>12. FoundIn(r) \subseteq FoundIn(q)
    BY <1>6, <1>8 DEF FoundIn
<1>13. FoundIn(q) \subseteq FoundIn(r) \cup {h}
    <2> SUFFICES ASSUME NEW l \in Loops, NEW i \in DOMAIN q[l], q[l][i] # h
        PROVE  \E j \in DOMAIN r[l] : r[l][j] = q[l][i]
        BY DEF FoundIn
    <2>1. CASE l = k
        BY <1>4, <1>9, <2>1
    <2>2. CASE l # k
        BY <1>6, <2>2
    <2> QED
        BY <2>1, <2>2
<1>14. ASSUME NEW F, OnceIn(q, F) PROVE OnceIn(r, F)
    <2> SUFFICES ASSUME NEW l \in Loops, NEW m \in Loops,
                        NEW i \in DOMAIN r[l], NEW j \in DOMAIN r[m],
                        r[l][i] \in F, r[m][j] \in F
        PROVE  l = m /\ i = j
        BY DEF OnceIn
    <2> DEFINE I == IF l = k THEN i + 1 ELSE i
               J == IF m = k THEN j + 1 ELSE j
    <2>1. I \in DOMAIN q[l] /\ q[l][I] = r[l][i]
        BY <1>6, <1>8
    <2>2. J \in DOMAIN q[m] /\ q[m][J] = r[m][j]
        BY <1>6, <1>8
    <2>3. l = m /\ I = J
        BY <1>14, <2>1, <2>2 DEF OnceIn
    <2>4. i \in Int /\ j \in Int
        BY <1>2
    <2> QED
        BY <2>3, <2>4
<1>15. ASSUME NEW F, OnceIn(q, F), h \in F, NEW g \in FoundIn(r) PROVE g \notin F
    <2> SUFFICES ASSUME g \in F PROVE FALSE
        OBVIOUS
    <2>1. PICK l \in Loops : \E i \in DOMAIN r[l] : r[l][i] = g
        BY <1>15 DEF FoundIn
    <2>2. PICK i \in DOMAIN r[l] : r[l][i] = g
        BY <2>1
    <2>3. CASE l = k
        <3>1. i + 1 \in DOMAIN q[k] /\ i + 1 # 1 /\ q[k][i + 1] = g
            BY <1>8, <2>2, <2>3
        <3> QED
            BY <1>4, <1>10, <1>15, <3>1 DEF OnceIn
    <2>4. CASE l # k
        <3>1. i \in DOMAIN q[l] /\ q[l][i] = g
            BY <1>6, <2>2, <2>4
        <3> QED
            BY <1>4, <1>10, <1>15, <2>4, <3>1 DEF OnceIn
    <2> QED
        BY <2>3, <2>4
<1> QED
    BY <1>11, <1>12, <1>13, <1>14, <1>15 DEF h

(* Pushing on the second of two sequences pushes on both together.          *)
LEMMA ConcatPushed ==
    ASSUME NEW S, NEW s \in Seq(S), NEW t \in Seq(S), NEW u \in Seq(S), NEW e,
           Pushed(u, t, e)
    PROVE  Pushed(s \o u, s \o t, e)
<1> DEFINE v == s \o t
           w == s \o u
<1>1. Len(s) \in Nat /\ Len(t) \in Nat
    BY LenProperties
<1>2. /\ Len(v) = Len(s) + Len(t)
      /\ \A i \in 1 .. Len(s) + Len(t) : v[i] = IF i <= Len(s) THEN s[i] ELSE t[i - Len(s)]
    BY ConcatProperties
<1>3. /\ Len(w) = Len(s) + Len(u)
      /\ \A i \in 1 .. Len(s) + Len(u) : w[i] = IF i <= Len(s) THEN s[i] ELSE u[i - Len(s)]
    BY ConcatProperties
<1>4. /\ Len(u) = Len(t) + 1 /\ \A i \in 1 .. Len(t) : u[i] = t[i]
      /\ u[Len(t) + 1] = e
    BY DEF Pushed
<1> HIDE DEF v, w
<1>5. ASSUME NEW i \in 1 .. Len(s) + Len(t) PROVE w[i] = v[i]
    <2>1. CASE i <= Len(s)
        BY <1>1, <1>2, <1>3, <1>4, <2>1
    <2>2. CASE ~(i <= Len(s))
        <3>1. i - Len(s) \in 1 .. Len(t)
            BY <1>1, <2>2
        <3>2. u[i - Len(s)] = t[i - Len(s)]
            BY <1>4, <3>1
        <3> QED
            BY <1>1, <1>2, <1>3, <1>4, <2>2, <3>2
    <2> QED
        BY <2>1, <2>2
<1>6. w[Len(v) + 1] = e
    <2>1. Len(v) + 1 \in 1 .. Len(s) + Len(u) /\ ~(Len(v) + 1 <= Len(s))
        BY <1>1, <1>2, <1>4
    <2>2. (Len(v) + 1) - Len(s) = Len(t) + 1
        BY <1>1, <1>2
    <2> QED
        BY <1>3, <1>4, <2>1, <2>2
<1>7. Len(w) = Len(v) + 1
    BY <1>1, <1>2, <1>3, <1>4
<1> QED
    BY <1>2, <1>5, <1>6, <1>7 DEF Pushed, v, w

(* Taking from the first takes from both.                                   *)
LEMMA ConcatTail ==
    ASSUME NEW S, NEW s \in Seq(S), NEW t \in Seq(S), s # <<>>
    PROVE  s \o t # <<>> /\ Head(s \o t) = Head(s) /\ Tail(s \o t) = Tail(s) \o t
<1> DEFINE u == s \o t
           a == Tail(s)
           b == a \o t
           c == Tail(u)
<1>1. /\ u \in Seq(S) /\ Len(u) = Len(s) + Len(t)
      /\ \A i \in 1 .. Len(s) + Len(t) : u[i] = IF i <= Len(s) THEN s[i] ELSE t[i - Len(s)]
    BY ConcatProperties
<1>2. Len(s) \in Nat /\ Len(t) \in Nat /\ Len(s) # 0
    BY LenProperties, EmptySeq
<1>3. u # <<>>
    BY <1>1, <1>2, EmptySeq
<1>4. /\ a \in Seq(S) /\ Len(a) = Len(s) - 1
      /\ \A i \in 1 .. Len(s) - 1 : a[i] = s[i + 1]
    BY HeadTailProperties
<1>5. /\ b \in Seq(S) /\ Len(b) = Len(a) + Len(t)
      /\ \A i \in 1 .. Len(a) + Len(t) : b[i] = IF i <= Len(a) THEN a[i] ELSE t[i - Len(a)]
    BY <1>4, ConcatProperties
<1>6. Head(u) = u[1] /\ Head(s) = s[1]
    OBVIOUS
<1> HIDE DEF u, a, b
<1>7. /\ c \in Seq(S) /\ Len(c) = Len(u) - 1
      /\ \A i \in 1 .. Len(u) - 1 : c[i] = u[i + 1]
    BY <1>1, <1>3, HeadTailProperties
<1> HIDE DEF c
<1>8. Len(b) = Len(c) /\ Len(c) = Len(s) - 1 + Len(t)
    BY <1>1, <1>2, <1>4, <1>5, <1>7
<1>9. ASSUME NEW i \in 1 .. Len(b) PROVE b[i] = c[i]
    <2>1. c[i] = u[i + 1] /\ i + 1 \in 1 .. Len(s) + Len(t)
        BY <1>1, <1>2, <1>7, <1>8
    <2>2. CASE i <= Len(s) - 1
        <3>1. b[i] = a[i] /\ a[i] = s[i + 1]
            BY <1>2, <1>4, <1>5, <1>8, <2>2
        <3>2. u[i + 1] = s[i + 1]
            BY <1>1, <1>2, <2>1, <2>2
        <3> QED
            BY <2>1, <3>1, <3>2
    <2>3. CASE ~(i <= Len(s) - 1)
        <3>1. i - Len(a) = (i + 1) - Len(s)
            BY <1>2, <1>4
        <3>2. b[i] = t[i - Len(a)]
            BY <1>2, <1>4, <1>5, <1>8, <2>3
        <3>3. u[i + 1] = t[(i + 1) - Len(s)]
            BY <1>1, <1>2, <2>1, <2>3
        <3> QED
            BY <2>1, <3>1, <3>2, <3>3
    <2> QED
        BY <2>2, <2>3
<1>10. b = c
    BY <1>5, <1>7, <1>8, <1>9, SeqEqual
<1>11. u[1] = s[1]
    BY <1>1, <1>2
<1> QED
    BY <1>3, <1>6, <1>10, <1>11 DEF u, a, b, c

(* The queues of the loops.                                                 *)
LEMMA QueuesType ==
    ASSUME batch \in [Loops -> Seq(Functors)], pending \in [Loops -> Seq(Functors)]
    PROVE  Queues \in [Loops -> Seq(Functors)]
<1>1. \A l \in Loops : Queue(l) \in Seq(Functors)
    BY ConcatProperties DEF Queue
<1> QED
    BY <1>1 DEF Queues

(* queueInLoop keeps the types, ...                                         *)
LEMMA QueueInLoopType ==
    ASSUME TypeOK, NEW k \in Loops, NEW f \in Kinds, NEW c \in Conns, QueueInLoop(k, f, c)
    PROVE  pending' \in [Loops -> Seq(Functors)]
<1>1. Append(pending[k], Functor(f, c)) \in Seq(Functors)
    BY FunctorNames, AppendProperties DEF TypeOK
<1> QED
    BY <1>1 DEF TypeOK, QueueInLoop

(* ... and pushes on the queue of the loop.                                 *)
LEMMA QueueInLoopPushes ==
    ASSUME TypeOK, NEW k \in Loops, NEW f \in Kinds, NEW c \in Conns, QueueInLoop(k, f, c)
    PROVE  /\ Pushed(pending'[k], pending[k], Functor(f, c))
           /\ \A l \in Loops : l # k => pending'[l] = pending[l]
<1>1. pending[k] \in Seq(Functors) /\ Functor(f, c) \in Functors
    BY FunctorNames DEF TypeOK
<1>2. Pushed(Append(pending[k], Functor(f, c)), pending[k], Functor(f, c))
    BY <1>1, AppendProperties DEF Pushed
<1>3. pending \in [Loops -> Seq(Functors)]
    BY DEF TypeOK
<1>4. /\ pending'[k] = Append(pending[k], Functor(f, c))
      /\ \A l \in Loops : l # k => pending'[l] = pending[l]
    BY <1>3 DEF QueueInLoop
<1> QED
    BY <1>2, <1>4, Zenon

(* Without a change of what is queued nothing changes.                      *)
LEMMA SameQueues ==
    ASSUME UNCHANGED <<pending, batch>>
    PROVE  Queues' = Queues /\ Waiting' = Waiting
           /\ \A l \in Loops : Queue(l)' = Queue(l)
BY DEF Queues, Queue, Waiting

\* The queues q become r: f is pushed on the functors p of the loop k, which
\* become s, behind those that the loops run, b.
Behind(r, q, s, p, b, k, f) ==
    /\ b \in [Loops -> Seq(Functors)] /\ p \in [Loops -> Seq(Functors)]
    /\ s \in [Loops -> Seq(Functors)]
    /\ q \in [Loops -> Seq(Functors)] /\ r \in [Loops -> Seq(Functors)]
    /\ k \in Loops /\ f \in Functors
    /\ Pushed(s[k], p[k], f) /\ \A l \in Loops : l # k => s[l] = p[l]
    /\ \A l \in Loops : q[l] = b[l] \o p[l] /\ r[l] = b[l] \o s[l]

(* A functor that is pushed on the pending functors of a loop is pushed on  *)
(* what the loop has to run.                                                *)
LEMMA PushedBehind ==
    ASSUME NEW r, NEW q, NEW s, NEW p, NEW b, NEW k, NEW f, Behind(r, q, s, p, b, k, f)
    PROVE  PushedOn(r, q, k, f)
<1>1. /\ k \in Loops /\ f \in Functors
      /\ b[k] \in Seq(Functors) /\ p[k] \in Seq(Functors) /\ s[k] \in Seq(Functors)
      /\ q[k] = b[k] \o p[k] /\ r[k] = b[k] \o s[k]
      /\ Pushed(s[k], p[k], f)
    BY DEF Behind
<1>2. Pushed(b[k] \o s[k], b[k] \o p[k], f)
    BY <1>1, ConcatPushed
<1>3. \A l \in Loops : l # k => r[l] = q[l]
    BY DEF Behind
<1>4. q \in [Loops -> Seq(Functors)] /\ r \in [Loops -> Seq(Functors)]
    BY DEF Behind
<1> QED
    BY <1>1, <1>2, <1>3, <1>4 DEF PushedOn

(* What queueInLoop does to the functors that wait.                         *)
LEMMA PushStep ==
    ASSUME TypeOK, NEW k \in Loops, NEW f \in Kinds, NEW c \in Conns,
           QueueInLoop(k, f, c), batch' = batch
    PROVE  /\ Waiting' = Waiting \cup {Functor(f, c)}
           /\ \A F : Once(F) /\ (Functor(f, c) \notin F \/ Waiting \cap F = {}) => Once(F)'
<1> DEFINE g == Functor(f, c)
<1>1. g \in Functors
    BY FunctorNames
<1>2. batch \in [Loops -> Seq(Functors)] /\ pending \in [Loops -> Seq(Functors)]
    BY DEF TypeOK
<1>3. /\ Queues \in [Loops -> Seq(Functors)]
      /\ Queues' \in [Loops -> Seq(Functors)]
    BY <1>2, QueueInLoopType, QueuesType DEF Queues, Queue
<1>4. /\ pending' \in [Loops -> Seq(Functors)]
      /\ Pushed(pending'[k], pending[k], g)
      /\ \A l \in Loops : l # k => pending'[l] = pending[l]
    BY <1>1, <1>2, QueueInLoopType, QueueInLoopPushes
<1>5. \A l \in Loops : Queues[l] = batch[l] \o pending[l] /\ Queues'[l] = batch[l] \o pending'[l]
    BY DEF Queues, Queue
<1> HIDE DEF g
<1>6. Behind(Queues', Queues, pending', pending, batch, k, g)
    BY <1>1, <1>2, <1>3, <1>4, <1>5 DEF Behind
<1>7. PushedOn(Queues', Queues, k, g)
    BY <1>6, PushedBehind
<1> QED
    BY <1>7, PushFinds DEF Waiting, Once, g

\* The queues when a loop has taken the functor that it runs.
Popped(k) == [l \in Loops |-> IF l = k THEN Tail(Queue(l)) ELSE Queue(l)]

(* The functor that a loop runs waits no more.                              *)
LEMMA PoppedQueues ==
    ASSUME TypeOK, NEW k \in Loops, batch[k] # <<>>
    PROVE  /\ Popped(k) \in [Loops -> Seq(Functors)]
           /\ \A l \in Loops : [batch EXCEPT ![k] = Tail(@)][l] \o pending[l] = Popped(k)[l]
           /\ [batch EXCEPT ![k] = Tail(@)] \in [Loops -> Seq(Functors)]
           /\ Head(batch[k]) \in Waiting
           /\ Waiting = FoundIn(Popped(k)) \cup {Head(batch[k])}
           /\ \A F : Once(F) => /\ OnceIn(Popped(k), F)
                                /\ Head(batch[k]) \in F => FoundIn(Popped(k)) \cap F = {}
<1>1. /\ batch \in [Loops -> Seq(Functors)] /\ pending \in [Loops -> Seq(Functors)]
      /\ batch[k] \in Seq(Functors) /\ pending[k] \in Seq(Functors)
    BY DEF TypeOK
<1>2. /\ Queue(k) # <<>> /\ Head(Queue(k)) = Head(batch[k])
      /\ Tail(Queue(k)) = Tail(batch[k]) \o pending[k]
    BY <1>1, ConcatTail DEF Queue
<1>3. Queues \in [Loops -> Seq(Functors)]
    BY <1>1, QueuesType
<1>4. Tail(batch[k]) \in Seq(Functors)
    BY <1>1, HeadTailProperties
<1>5. Tail(Queue(k)) \in Seq(Functors)
    BY <1>1, <1>2, <1>4, ConcatProperties
<1>6. Popped(k) \in [Loops -> Seq(Functors)]
    BY <1>3, <1>5 DEF Popped, Queues
<1>7. \A l \in Loops : Popped(k)[l] = IF l = k THEN Tail(Queues[k]) ELSE Queues[l]
    BY DEF Popped, Queues
<1>8. Queues[k] # <<>> /\ Head(Queues[k]) = Head(batch[k])
    BY <1>2 DEF Queues
<1>9. /\ Head(Queues[k]) \in FoundIn(Queues)
      /\ FoundIn(Queues) = FoundIn(Popped(k)) \cup {Head(Queues[k])}
      /\ \A F : OnceIn(Queues, F) => /\ OnceIn(Popped(k), F)
                                     /\ Head(Queues[k]) \in F => FoundIn(Popped(k)) \cap F = {}
    BY <1>3, <1>6, <1>7, <1>8, PopFinds, Zenon
<1>10. \A l \in Loops : [batch EXCEPT ![k] = Tail(@)][l] \o pending[l] = Popped(k)[l]
    BY <1>1, <1>2 DEF Popped, Queue
<1>11. [batch EXCEPT ![k] = Tail(@)] \in [Loops -> Seq(Functors)]
    BY <1>1, <1>4
<1> QED
    BY <1>6, <1>8, <1>9, <1>10, <1>11 DEF Waiting, Once

(* What a functor that queues nothing leaves.                               *)
LEMMA PopStep ==
    ASSUME TypeOK, NEW k \in Loops, batch[k] # <<>>,
           batch' = [batch EXCEPT ![k] = Tail(@)], pending' = pending
    PROVE  /\ Head(batch[k]) \in Waiting
           /\ Waiting = Waiting' \cup {Head(batch[k])}
           /\ \A F : Once(F) => Once(F)' /\ (Head(batch[k]) \in F => Waiting' \cap F = {})
<1>1. Queues' = Popped(k)
    <2>1. \A l \in Loops : Queues'[l] = Popped(k)[l]
        BY PoppedQueues DEF Queues, Queue
    <2> QED
        BY <2>1 DEF Queues, Popped
<1> QED
    BY <1>1, PoppedQueues DEF Waiting, Once

\* One functor, h, waits no more, and another, g, waits instead.
Replaces(h, g) ==
    \E rest : /\ Waiting = rest \cup {h}
              /\ Waiting' = rest \cup {g}
              /\ \A F : Once(F) => /\ h \in F => rest \cap F = {} /\ Once(F)'
                                   /\ g \notin F => Once(F)'

(* What a functor that queues another leaves.                               *)
LEMMA PopPushStep ==
    ASSUME TypeOK, NEW k \in Loops, batch[k] # <<>>,
           batch' = [batch EXCEPT ![k] = Tail(@)],
           NEW m \in Loops, NEW f \in Kinds, NEW c \in Conns, QueueInLoop(m, f, c)
    PROVE  /\ Head(batch[k]) \in Waiting
           /\ Replaces(Head(batch[k]), Functor(f, c))
<1> DEFINE g == Functor(f, c)
           h == Head(batch[k])
           d == [batch EXCEPT ![k] = Tail(@)]
           q == Popped(k)
<1>1. g \in Functors
    BY FunctorNames
<1>2. pending \in [Loops -> Seq(Functors)]
    BY DEF TypeOK
<1>3. d \in [Loops -> Seq(Functors)] /\ \A l \in Loops : d[l] \o pending[l] = q[l]
    BY PoppedQueues
<1>4. /\ pending' \in [Loops -> Seq(Functors)]
      /\ Pushed(pending'[m], pending[m], g)
      /\ \A l \in Loops : l # m => pending'[l] = pending[l]
    BY <1>1, <1>2, QueueInLoopType, QueueInLoopPushes
<1>5. \A l \in Loops : Queues'[l] = d[l] \o pending'[l]
    BY DEF Queues, Queue
<1>6. /\ h \in Waiting /\ Waiting = FoundIn(q) \cup {h}
      /\ \A F : Once(F) => OnceIn(q, F) /\ (h \in F => FoundIn(q) \cap F = {})
    BY PoppedQueues
<1>7. q \in [Loops -> Seq(Functors)] /\ Queues' \in [Loops -> Seq(Functors)]
    <2>1. pending' \in [Loops -> Seq(Functors)] /\ d \in [Loops -> Seq(Functors)]
        BY <1>3, QueueInLoopType
    <2>2. \A l \in Loops : d[l] \o pending'[l] \in Seq(Functors)
        BY <2>1, ConcatProperties
    <2>3. Queues' \in [Loops -> Seq(Functors)]
        BY <1>5, <2>2 DEF Queues
    <2> QED
        BY <2>3, PoppedQueues
<1> HIDE DEF g, h, d, q
<1>8. PushedOn(Queues', q, m, g)
    <2>1. Behind(Queues', q, pending', pending, d, m, g)
        BY <1>1, <1>2, <1>3, <1>4, <1>5, <1>7 DEF Behind
    <2> QED
        BY <2>1, PushedBehind
<1>9. /\ Waiting' = FoundIn(q) \cup {g}
      /\ \A F : OnceIn(q, F) /\ (g \notin F \/ FoundIn(q) \cap F = {}) => Once(F)'
    BY <1>8, PushFinds DEF Waiting, Once
<1>10. \A F : Once(F) => /\ h \in F => FoundIn(q) \cap F = {} /\ Once(F)'
                         /\ g \notin F => Once(F)'
    BY <1>6, <1>9
<1>11. Replaces(h, g)
    BY <1>6, <1>9, <1>10 DEF Replaces
<1> QED
    BY <1>6, <1>11 DEF g, h

-----------------------------------------------------------------------------
(* Connections that a step leaves alone, and what becomes of the others.    *)

\* A connection is held by the map, by a functor or by a call.
Kept(c) == c \in connections \/ c \in stopping \/ \E l \in Loops : c \in ran[l]

(* What holds a connection, in terms of the functors that wait.             *)
LEMMA HeldIs ==
    TypeOK => \A c \in Conns : Held(c) <=> Kept(c) \/ Waiting \cap Of(c) # {}
<1> SUFFICES ASSUME TypeOK, NEW c \in Conns
    PROVE  Held(c) <=> Kept(c) \/ Waiting \cap Of(c) # {}
    OBVIOUS
<1>1. \A l \in Loops : batch[l] \in Seq(Functors) /\ pending[l] \in Seq(Functors)
    BY DEF TypeOK
<1>2. \A l \in Loops : Queue(l) \in Seq(Functors)
    BY <1>1, ConcatProperties DEF Queue
<1>3. \A l \in Loops : \A i \in DOMAIN Queue(l) : Queue(l)[i] \in Functors
    BY <1>2, ElementOfSeq, LenProperties
<1>4. \A l \in Loops : Queues[l] = Queue(l)
    BY DEF Queues
<1>5. ASSUME NEW l \in Loops, NEW f \in Range(Queue(l)), f.conn = c
      PROVE  f \in Waiting \cap Of(c)
    <2>1. PICK i \in DOMAIN Queue(l) : f = Queue(l)[i]
        BY <1>5 DEF Range
    <2> QED
        BY <1>3, <1>4, <1>5, <2>1 DEF Waiting, FoundIn, Of
<1>6. ASSUME NEW f \in Waiting \cap Of(c)
      PROVE  \E l \in Loops : \E g \in Range(Queue(l)) : g.conn = c
    <2>1. f.conn = c
        BY DEF Of
    <2>2. PICK l \in Loops : \E i \in DOMAIN Queue(l) : Queue(l)[i] = f
        BY <1>4 DEF Waiting, FoundIn
    <2>3. f \in Range(Queue(l))
        BY <2>2 DEF Range
    <2> QED
        BY <2>1, <2>3
<1>7. Held(c) <=> Kept(c) \/ \E l \in Loops : \E f \in Range(Queue(l)) : f.conn = c
    BY DEF Held, Kept
<1> QED
    BY <1>5, <1>6, <1>7

(* The same after a step.                                                   *)
LEMMA HeldNext ==
    (TypeOK => \A c \in Conns : Held(c) <=> Kept(c) \/ Waiting \cap Of(c) # {})'
BY HeldIs, PTL

\* Of what is known of the connection d only its functors may change.
Same(d) ==
    /\ state'[d] = state[d]
    /\ d \in watched' <=> d \in watched
    /\ d \in connections' <=> d \in connections
    /\ d \in stopping' <=> d \in stopping
    /\ d \in revived' <=> d \in revived
    /\ d >= nextConnId' <=> d >= nextConnId

\* The functors of d are left alone.
Alone(d) ==
    /\ \A l \in Loops : d \in ran'[l] <=> d \in ran[l]
    /\ Waiting' \cap Of(d) = Waiting \cap Of(d)
    /\ \A F \in SUBSET Of(d) : Once(F) => Once(F)'

\* Nothing that is known of the connection d changes.
Untouched(d) == Same(d) /\ Alone(d)

(* What the account of a connection rests on, when its functors that open   *)
(* or remove it stay.                                                       *)
LEMMA AccountStays ==
    ASSUME NEW d \in Conns, Same(d), InOrder(d), Serving' => Serving,
           Waiting' \cap Core(d) = Waiting \cap Core(d),
           \A F \in SUBSET Core(d) : Once(F) => Once(F)'
    PROVE  /\ Establishes(d)' /\ Watches(d)'
           /\ Serving' /\ ~(d >= nextConnId') =>
                 IF d \in revived' THEN Leaving(d)' ELSE Once(Core(d))' /\ Account(d)'
<1>1. /\ Functor("connectEstablished", d) \in Core(d)
      /\ Functor("removeConnectionInLoop", d) \in Core(d)
    BY FunctorNames DEF Kinds
<1>2. Opened(d)' <=> Opened(d)
    BY DEF Same, Opened
<1>3. Watches(d)'
    BY <1>2 DEF Same, InOrder, Watches
<1>4. Establishes(d)'
    <2>1. {Functor("connectEstablished", d)} \in SUBSET Core(d)
        BY <1>1
    <2>2. Functor("connectEstablished", d) \in Waiting'
              <=> Functor("connectEstablished", d) \in Waiting
        BY <1>1
    <2>3. Once({Functor("connectEstablished", d)})'
        BY <2>1 DEF InOrder, Establishes
    <2> QED
        BY <2>2, <2>3 DEF Same, InOrder, Establishes
<1>5. Account(d) => Account(d)'
    BY <1>2 DEF Same, Account
<1>6. Leaving(d) => Leaving(d)'
    BY <1>1 DEF Same, Leaving
<1>7. Once(Core(d)) => Once(Core(d))'
    OBVIOUS
<1> QED
    BY <1>3, <1>4, <1>5, <1>6, <1>7 DEF InOrder, Same

(* What is left alone by a step stays in order, and is held as before.      *)
LEMMA UntouchedStays ==
    ASSUME TypeOK, TypeOK', NEW d \in Conns, Untouched(d), InOrder(d), Serving' => Serving
    PROVE  InOrder(d)' /\ Life(d)' = Life(d)
<1>1. Unborn(d)'
    BY DEF Untouched, Same, Alone, InOrder, Unborn
<1>2. Core(d) \subseteq Of(d)
    BY DEF Core
<1>3. /\ Waiting' \cap Core(d) = Waiting \cap Core(d)
      /\ \A F \in SUBSET Core(d) : Once(F) => Once(F)'
    BY <1>2 DEF Untouched, Alone
<1>4. InOrder(d)'
    BY <1>1, <1>3, AccountStays DEF InOrder, Untouched
<1>5. Kept(d)' <=> Kept(d)
    BY DEF Kept, Untouched, Same, Alone
<1>6. Held(d)' <=> Held(d)
    <2>1. Held(d) <=> Kept(d) \/ Waiting \cap Of(d) # {}
        BY HeldIs
    <2>2. Held(d)' <=> Kept(d)' \/ Waiting' \cap Of(d) # {}
        BY HeldNext
    <2> QED
        BY <1>5, <2>1, <2>2 DEF Untouched, Alone
<1>7. Life(d)' = Life(d)
    BY <1>6 DEF Life, Untouched, Same
<1> QED
    BY <1>4, <1>7

\* A step of the specification of lives.
Lives == [c \in Conns |-> Life(c)]
LifeStep == [Connections!Next]_<<Serving, Lives>>

\* What may become of one connection in a step.
Advances(c) ==
    \/ Life(c)' = Life(c)
    \/ Serving /\ Life(c) = "none" /\ Life(c)' \in {"accepted", "open"}
    \/ Life(c) = "accepted" /\ Life(c)' = "open"
    \/ Life(c) = "open" /\ Life(c)' = "closed"

Forgotten(c) ==
    \/ Life(c)' = Life(c)
    \/ Life(c) = "closed" /\ Life(c)' = "gone"

Dropped(c) ==
    \/ Life(c)' = Life(c)
    \/ Life(c) # "none" /\ Life(c)' = "gone"

(* Where no connection moves, the server may begin to be destroyed.         *)
LEMMA NothingMoves ==
    ASSUME \A d \in Conns : Life(d)' = Life(d), Serving' => Serving
    PROVE  LifeStep
<1>1. Lives' = Lives
    BY DEF Lives
<1>2. Serving \in BOOLEAN /\ Serving' \in BOOLEAN
    BY DEF Serving
<1>3. CASE Serving' = Serving
    BY <1>1, <1>3 DEF LifeStep
<1>4. CASE Serving' # Serving
    <2>1. Serving /\ Serving' = FALSE
        BY <1>2, <1>4
    <2> QED
        BY <1>1, <2>1 DEF LifeStep, Connections!Next, Serving, Lives
<1> QED
    BY <1>3, <1>4

(* One connection may advance, ...                                          *)
LEMMA OneMoves ==
    ASSUME NEW c \in Conns, Advances(c),
           \A d \in Conns \ {c} : Life(d)' = Life(d), Serving' = Serving
    PROVE  LifeStep
<1>1. Lives' = [Lives EXCEPT ![c] = Life(c)'] /\ Lives[c] = Life(c)
    BY DEF Lives
<1>2. CASE Life(c)' = Life(c)
    <2>1. Lives' = Lives
        BY <1>2 DEF Lives
    <2> QED
        BY <2>1 DEF LifeStep
<1>3. CASE Serving /\ Life(c) = "none" /\ Life(c)' \in {"accepted", "open"}
    <2>1. Connections!Accept(c)
        BY <1>1, <1>3 DEF Connections!Accept, Connections!Moves, Lives, Serving
    <2> QED
        BY <2>1 DEF LifeStep, Connections!Next, Serving
<1>4. CASE \/ Life(c) = "accepted" /\ Life(c)' = "open"
           \/ Life(c) = "open" /\ Life(c)' = "closed"
    <2>1. Connections!Live(c)
        BY <1>1, <1>4 DEF Connections!Live, Connections!Moves, Lives
    <2> QED
        BY <2>1 DEF LifeStep, Connections!Next, Serving
<1> QED
    BY <1>2, <1>3, <1>4 DEF Advances

(* ... closed ones may be forgotten together, ...                           *)
LEMMA SomeForgotten ==
    ASSUME Serving' = Serving, \A d \in Conns : Forgotten(d)
    PROVE  LifeStep
<1> DEFINE dropped == {d \in Conns : Life(d) = "closed" /\ Life(d)' = "gone"}
<1>1. Lives' = [d \in Conns |-> IF d \in dropped THEN "gone" ELSE Lives[d]]
    BY DEF Lives, Forgotten
<1>2. dropped \in SUBSET {d \in Conns : Lives[d] = "closed"}
    BY DEF Lives
<1> HIDE DEF dropped
<1>3. Connections!Release
    BY <1>1, <1>2 DEF Connections!Release, Connections!Forget, Lives
<1> QED
    BY <1>3 DEF LifeStep, Connections!Next, Serving

(* ... and a server that is being destroyed may drop any.                   *)
LEMMA SomeDropped ==
    ASSUME ~Serving, ~Serving', \A d \in Conns : Dropped(d)
    PROVE  LifeStep
<1> DEFINE dropped == {d \in Conns : Life(d) # "none" /\ Life(d)' = "gone"}
<1>1. Lives' = [d \in Conns |-> IF d \in dropped THEN "gone" ELSE Lives[d]]
    BY DEF Lives, Dropped
<1>2. dropped \in SUBSET {d \in Conns : Lives[d] # "none"}
    BY DEF Lives
<1>3. Connections!Abandon
    BY <1>1, <1>2 DEF Connections!Abandon, Connections!Forget, Lives, Serving
<1> QED
    BY <1>3 DEF LifeStep, Connections!Next, Serving

\* What every step does.
Fine == IInv' /\ LifeStep

(* A step that moves no connection.                                         *)
LEMMA AllUntouched ==
    ASSUME IInv, TypeOK', Control', \A d \in Conns : Untouched(d), Serving' => Serving
    PROVE  Fine
<1>1. \A d \in Conns : InOrder(d)' /\ Life(d)' = Life(d)
    BY UntouchedStays DEF IInv
<1> QED
    BY <1>1, NothingMoves DEF Fine, IInv

(* A step that moves one.                                                   *)
LEMMA OneTouched ==
    ASSUME IInv, TypeOK', Control', NEW c \in Conns,
           \A d \in Conns \ {c} : Untouched(d), Serving' = Serving,
           InOrder(c)', Advances(c) \/ (~Serving /\ Dropped(c))
    PROVE  Fine
<1>1. \A d \in Conns \ {c} : InOrder(d)' /\ Life(d)' = Life(d)
    BY UntouchedStays DEF IInv
<1>2. LifeStep
    <2>1. CASE Advances(c)
        BY <1>1, <2>1, OneMoves
    <2>2. CASE ~Serving /\ Dropped(c)
        BY <1>1, <2>2, SomeDropped DEF Dropped
    <2> QED
        BY <2>1, <2>2
<1> QED
    BY <1>1, <1>2 DEF Fine, IInv

-----------------------------------------------------------------------------
(* Steps that move no connection.                                           *)

(* The loops of the pool.                                                   *)
LEMMA LoopsIn ==
    ASSUME TypeOK
    PROVE  /\ loops \in Seq(Loops) /\ Len(loops) \in 0 .. Len(IoLoops)
           /\ \A i \in DOMAIN loops : loops[i] \in Loops /\ loops[i] # Base
<1>1. PICK n \in 0 .. Len(IoLoops) : loops = SubSeq(IoLoops, 1, n)
    BY DEF TypeOK
<1>2. IoLoops \in Seq(Range(IoLoops)) /\ Base \notin Range(IoLoops)
    BY ServerAssumption
<1>3. /\ Len(IoLoops) \in Nat
      /\ \A i \in 1 .. Len(IoLoops) : IoLoops[i] \in Range(IoLoops)
    BY <1>2, ElementOfSeq, LenProperties
<1>4. \A i \in 1 .. n : IoLoops[i] \in Range(IoLoops)
    BY <1>3
<1>5. /\ SubSeq(IoLoops, 1, n) \in Seq(Range(IoLoops))
      /\ Len(SubSeq(IoLoops, 1, n)) = IF 1 <= n THEN n - 1 + 1 ELSE 0
    BY <1>4, SubSeqProperties
<1>6. loops \in Seq(Range(IoLoops)) /\ Len(loops) = n
    BY <1>1, <1>5
<1>7. \A i \in DOMAIN loops : loops[i] \in Range(IoLoops)
    BY <1>6, ElementOfSeq, LenProperties
<1>8. loops \in Seq(Loops)
    BY <1>6, SeqMonotonic DEF Loops
<1> QED
    BY <1>2, <1>6, <1>7, <1>8 DEF Loops

(* A step that changes neither connections nor what is queued.              *)
LEMMA SameUntouched ==
    ASSUME UNCHANGED <<conns, nextConnId, ran, stops>>, Queues' = Queues
    PROVE  \A d \in Conns : Untouched(d)
BY DEF Untouched, Same, Alone, Waiting, Once

(* A peer that waits to be accepted takes one of the numbers left.          *)
LEMMA PeerConnectsStep ==
    ASSUME IInv, PeerConnects PROVE Fine
<1>1. TypeOK' /\ Control'
    BY ServerAssumption DEF IInv, TypeOK, Control, PeerConnects, NotStarted, Swapped, PoolRuns,
           Room, Serving
<1>2. \A d \in Conns : Untouched(d)
    BY SameQueues, SameUntouched DEF PeerConnects
<1> QED
    BY <1>1, <1>2, AllUntouched DEF PeerConnects, Serving

(* quit() of the base loop ends no loop of the pool.                        *)
LEMMA QuitBaseStep ==
    ASSUME IInv, QuitBase PROVE Fine
<1>1. TypeOK' /\ Control'
    BY DEF IInv, TypeOK, Control, QuitBase, NotStarted, Swapped, PoolRuns, Room, Serving, Loops
<1>2. \A d \in Conns : Untouched(d)
    BY SameQueues, SameUntouched DEF QuitBase
<1> QED
    BY <1>1, <1>2, AllUntouched DEF QuitBase, Serving

(* The server ceases to serve; no connection moves with that.               *)
LEMMA BeginDestroyStep ==
    ASSUME IInv, BeginDestroy PROVE Fine
<1>1. TypeOK' /\ Control'
    BY DEF IInv, TypeOK, Control, BeginDestroy, NotStarted, Swapped, PoolRuns, Room, Serving
<1>2. \A d \in Conns : Untouched(d)
    BY SameQueues, SameUntouched DEF BeginDestroy
<1> QED
    BY <1>1, <1>2, AllUntouched DEF BeginDestroy, Serving

(* The last step of the destructor finds no connection in the map.          *)
LEMMA EndDestroyStep ==
    ASSUME IInv, EndDestroy PROVE Fine
<1>1. TypeOK' /\ Control'
    BY DEF IInv, TypeOK, Control, EndDestroy, NotStarted, Swapped, PoolRuns, Room, Serving
<1>2. \A d \in Conns : Untouched(d)
    BY SameQueues, SameUntouched DEF EndDestroy
<1> QED
    BY <1>1, <1>2, AllUntouched DEF EndDestroy, Serving

(* The destructor quits a loop of the pool: it serves no more.              *)
LEMMA QuitNextLoopStep ==
    ASSUME IInv, QuitNextLoop PROVE Fine
<1>1. PICK i \in DOMAIN loops : quit' = quit \cup {loops[i]}
    BY DEF QuitNextLoop
<1>2. loops[i] \in Loops
    BY LoopsIn DEF IInv
<1>3. TypeOK' /\ Control'
    BY <1>1, <1>2 DEF IInv, TypeOK, Control, QuitNextLoop, NotStarted, Swapped, PoolRuns, Room,
           Serving
<1>4. \A d \in Conns : Untouched(d)
    BY SameQueues, SameUntouched DEF QuitNextLoop
<1> QED
    BY <1>3, <1>4, AllUntouched DEF QuitNextLoop, Serving

(* start() starts threads that have nothing to run yet.                     *)
LEMMA StartStep ==
    ASSUME IInv, Start PROVE Fine
<1>1. loops = <<>> /\ threadPos = 0
    <2>1. loops = <<>>
        BY DEF IInv, Control, NotStarted, Start
    <2>2. threadPos \in 0 .. Len(<<>>)
        BY <2>1 DEF IInv, TypeOK
    <2> QED
        BY <2>1, <2>2
<1>2. PICK n \in 0 .. Len(IoLoops) : loops' = SubSeq(IoLoops, 1, n)
    BY DEF Start
<1>3. Len(loops') \in Nat
    <2>1. IoLoops \in Seq(Range(IoLoops))
        BY ServerAssumption
    <2>2. \A i \in 1 .. n : IoLoops[i] \in Range(IoLoops)
        BY <2>1, ElementOfSeq, LenProperties
    <2> QED
        BY <1>2, <2>2, SubSeqProperties, LenProperties
<1>4. threadPos' \in 0 .. Len(loops')
    BY <1>1, <1>3 DEF Start
<1>5. \E m \in 0 .. Len(IoLoops) : loops' = SubSeq(IoLoops, 1, m)
    BY <1>2
<1>6. phase' \in [Loops -> {"off", "events", "functors", "ended"}]
    BY DEF Start, IInv, TypeOK
<1>7. TypeOK'
    BY <1>4, <1>5, <1>6 DEF Start, IInv, TypeOK
<1>8. \A l \in Loops : phase'[l] # "functors" => batch'[l] = <<>>
    <2> SUFFICES ASSUME NEW l \in Loops, phase'[l] # "functors" PROVE batch[l] = <<>>
        BY DEF Start
    <2>1. CASE phase[l] # "functors"
        BY <2>1 DEF IInv, Control, Swapped
    <2>2. CASE phase[l] = "functors"
        <3>1. l = Base
            BY <2>2 DEF IInv, Control, NotStarted, Start
        <3> QED
            BY <2>2, <3>1 DEF Start, InBase
    <2> QED
        BY <2>1, <2>2
<1>9. Control'
    BY <1>8 DEF IInv, Control, Start, NotStarted, Swapped, PoolRuns, Room, Serving
<1>10. \A d \in Conns : Untouched(d)
    BY SameQueues, SameUntouched DEF Start
<1> QED
    BY <1>7, <1>9, <1>10, AllUntouched DEF Start, Serving

(* doPendingFunctors' swap takes what is queued, and changes nothing of it. *)
LEMMA SwapStep ==
    ASSUME IInv, NEW k \in Loops, SwapFunctors(k) PROVE Fine
<1>1. /\ batch \in [Loops -> Seq(Functors)] /\ pending \in [Loops -> Seq(Functors)]
      /\ batch[k] = <<>>
    BY DEF IInv, TypeOK, Control, Swapped, SwapFunctors
<1>2. TypeOK'
    <2>1. <<>> \in Seq(Functors)
        OBVIOUS
    <2>2. /\ batch' \in [Loops -> Seq(Functors)] /\ pending' \in [Loops -> Seq(Functors)]
        BY <1>1, <2>1 DEF SwapFunctors
    <2> QED
        BY <2>2 DEF IInv, TypeOK, SwapFunctors
<1>3. Control'
    BY DEF IInv, TypeOK, Control, SwapFunctors, NotStarted, Swapped, PoolRuns, Room, Serving
<1>4. Queues' = Queues
    <2>1. ASSUME NEW l \in Loops PROVE Queue(l)' = Queue(l)
        <3>1. CASE l = k
            <4>1. batch'[l] = pending[l] /\ pending'[l] = <<>> /\ batch[l] = <<>>
                BY <1>1, <3>1 DEF SwapFunctors
            <4>2. pending[l] \in Seq(Functors)
                BY <1>1
            <4> QED
                BY <4>1, <4>2, ConcatEmptySeq DEF Queue
        <3>2. CASE l # k
            BY <1>1, <3>2 DEF SwapFunctors, Queue
        <3> QED
            BY <3>1, <3>2
    <2> QED
        BY <2>1 DEF Queues
<1>5. \A d \in Conns : Untouched(d)
    BY <1>4, SameUntouched DEF SwapFunctors
<1> QED
    BY <1>2, <1>3, <1>5, AllUntouched DEF SwapFunctors, Serving

-----------------------------------------------------------------------------
(* Steps that move one connection.                                          *)

(* Queueing a functor of one connection leaves those of the others alone, ...*)
LEMMA PushAlone ==
    ASSUME TypeOK, NEW k \in Loops, NEW f \in Kinds, NEW c \in Conns,
           QueueInLoop(k, f, c), batch' = batch, ran' = ran
    PROVE  \A d \in Conns \ {c} : Alone(d)
<1> SUFFICES ASSUME NEW d \in Conns \ {c} PROVE Alone(d)
    OBVIOUS
<1>1. Functor(f, c) \notin Of(d)
    BY DEF Functor, Of
<1>2. /\ Waiting' = Waiting \cup {Functor(f, c)}
      /\ \A F : Once(F) /\ (Functor(f, c) \notin F \/ Waiting \cap F = {}) => Once(F)'
    BY PushStep
<1> QED
    BY <1>1, <1>2 DEF Alone

\* What a step that runs the functor h in the loop k does to the vectors.
Takes(k, h) ==
    /\ batch[k] # <<>> /\ h = Head(batch[k]) /\ h.conn \in Conns
    /\ batch' = [batch EXCEPT ![k] = Tail(@)]
    /\ ran' = [ran EXCEPT ![k] = @ \cup {h.conn}]

(* The connection of a functor that runs is kept, no other.                 *)
LEMMA TakesRan ==
    ASSUME TypeOK, NEW k \in Loops, NEW h, Takes(k, h)
    PROVE  /\ ran' \in [Loops -> SUBSET Conns]
           /\ h.conn \in ran'[k]
           /\ \A d \in Conns \ {h.conn} : \A l \in Loops : d \in ran'[l] <=> d \in ran[l]
BY DEF TypeOK, Takes

(* A functor that runs and queues nothing waits no more.                    *)
LEMMA TakesPops ==
    ASSUME TypeOK, NEW k \in Loops, NEW h, Takes(k, h), pending' = pending
    PROVE  /\ Waiting = Waiting' \cup {h}
           /\ \A F : Once(F) => Once(F)' /\ (h \in F => Waiting' \cap F = {})
<1>1. /\ batch[k] # <<>> /\ h = Head(batch[k])
      /\ batch' = [batch EXCEPT ![k] = Tail(@)]
    BY DEF Takes
<1>2. /\ Waiting = Waiting' \cup {Head(batch[k])}
      /\ \A F : Once(F) => Once(F)' /\ (Head(batch[k]) \in F => Waiting' \cap F = {})
    BY <1>1, PopStep
<1> QED
    BY <1>1, <1>2

(* ... and so does running it, ...                                          *)
LEMMA PopAlone ==
    ASSUME TypeOK, NEW k \in Loops, NEW h, Takes(k, h), pending' = pending
    PROVE  \A d \in Conns \ {h.conn} : Alone(d)
<1> SUFFICES ASSUME NEW d \in Conns \ {h.conn} PROVE Alone(d)
    OBVIOUS
<1>1. h \notin Of(d)
    BY DEF Of
<1>2. /\ Waiting = Waiting' \cup {h}
      /\ \A F : Once(F) => Once(F)'
    BY TakesPops
<1> QED
    BY <1>1, <1>2, TakesRan DEF Alone

(* ... also when it queues another.                                         *)
LEMMA PopPushAlone ==
    ASSUME TypeOK, NEW k \in Loops, NEW h, Takes(k, h),
           NEW m \in Loops, NEW f \in Kinds, QueueInLoop(m, f, h.conn)
    PROVE  \A d \in Conns \ {h.conn} : Alone(d)
<1> SUFFICES ASSUME NEW d \in Conns \ {h.conn} PROVE Alone(d)
    OBVIOUS
<1>1. h \notin Of(d) /\ Functor(f, h.conn) \notin Of(d)
    BY DEF Of, Functor
<1>2. Replaces(h, Functor(f, h.conn))
    BY PopPushStep DEF Takes
<1> QED
    BY <1>1, <1>2, TakesRan DEF Alone, Replaces

(* shutdown() of an open connection leaves it open.                         *)
LEMMA ShutdownStep ==
    ASSUME IInv, NEW c \in Conns, Shutdown(c) PROVE Fine
<1>1. TypeOK' /\ Control'
    BY DEF IInv, TypeOK, Control, Shutdown, NotStarted, Swapped, PoolRuns, Room, Serving
<1>2. Queues' = Queues /\ Waiting' = Waiting /\ \A F : Once(F)' <=> Once(F)
    BY SameQueues DEF Shutdown, Once
<1>3. \A d \in Conns : Alone(d)
    BY <1>2 DEF Shutdown, Alone
<1>4. \A d \in Conns \ {c} : Untouched(d)
    BY <1>3 DEF Shutdown, Untouched, Same, IInv, TypeOK
<1>5. state[c] = "kConnected" /\ state'[c] = "kDisconnecting"
    BY DEF Shutdown, IInv, TypeOK
<1>6. InOrder(c) /\ Opened(c) /\ Opened(c)' /\ c \in watched /\ c \notin revived
    BY <1>5 DEF IInv, InOrder, Watches, Opened
<1>7. InOrder(c)'
    <2>1. Watches(c)' /\ Unborn(c)' /\ Establishes(c)'
        BY <1>2, <1>5, <1>6 DEF InOrder, Watches, Unborn, Establishes, Shutdown
    <2>2. Account(c) => Account(c)'
        BY <1>2, <1>5, <1>6 DEF Account, Shutdown
    <2> QED
        BY <1>2, <1>6, <2>1, <2>2 DEF InOrder, Serving, Shutdown
<1>8. Life(c)' = Life(c)
    <2>1. Held(c)' <=> Held(c)
        BY DEF Held, Shutdown, Queue
    <2> QED
        BY <1>5, <1>6, <2>1 DEF Life, Shutdown
<1> QED
    BY <1>1, <1>4, <1>7, <1>8, OneTouched DEF Advances, Shutdown, Serving

(* A shutdown() of another thread that has tested state_ changes nothing yet *)
(* but that the connection is held.                                         *)
LEMMA ShutdownTestStep ==
    ASSUME IInv, NEW c \in Conns, ShutdownTest(c) PROVE Fine
<1>1. TypeOK' /\ Control'
    BY DEF IInv, TypeOK, Control, ShutdownTest, NotStarted, Swapped, PoolRuns, Room, Serving
<1>2. Queues' = Queues /\ Waiting' = Waiting /\ \A F : Once(F)' <=> Once(F)
    BY SameQueues DEF ShutdownTest, Once
<1>3. \A d \in Conns : Alone(d)
    BY <1>2 DEF ShutdownTest, Alone
<1>4. \A d \in Conns \ {c} : Untouched(d)
    BY <1>3 DEF ShutdownTest, Untouched, Same
<1>5. state[c] = "kConnected" /\ InOrder(c)
    BY DEF ShutdownTest, IInv
<1>6. InOrder(c)'
    <2>1. Watches(c)' /\ Unborn(c)' /\ Establishes(c)'
        BY <1>2, <1>5 DEF InOrder, Watches, Unborn, Establishes, ShutdownTest, Opened
    <2>2. (Account(c) => Account(c)') /\ (Leaving(c) => Leaving(c)')
        BY <1>2 DEF Account, Leaving, Opened, ShutdownTest
    <2> QED
        BY <1>2, <1>5, <2>1, <2>2 DEF InOrder, Serving, ShutdownTest
<1>7. Life(c)' = Life(c)
    <2>1. Held(c)' /\ Held(c)
        BY DEF Held, ShutdownTest, Queue
    <2> QED
        BY <2>1 DEF Life, ShutdownTest
<1> QED
    BY <1>1, <1>4, <1>6, <1>7, OneTouched DEF Advances, ShutdownTest, Serving

(* What it does then: state_ is open again, also where the connection had   *)
(* closed, which changes neither the channel nor what is to happen to it.   *)
LEMMA ShutdownStoreStep ==
    ASSUME IInv, NEW c \in Conns, ShutdownStore(c) PROVE Fine
<1> DEFINE g == Functor("shutdownInLoop", c)
<1>0. PICK k \in Loops : k = loopOf[c]
    BY DEF IInv, TypeOK
<1>1. /\ c \in stopping /\ stopping' = stopping \ {c}
      /\ state' = [state EXCEPT ![c] = "kDisconnecting"]
      /\ QueueInLoop(k, "shutdownInLoop", c) /\ batch' = batch /\ ran' = ran
      /\ revived' = IF state[c] = "kDisconnected" THEN revived \cup {c} ELSE revived
      /\ UNCHANGED <<server, pool, acceptor, connections, loopOf, watched, phase, quit>>
    BY <1>0 DEF ShutdownStore
<1>2. TypeOK /\ InOrder(c) /\ "shutdownInLoop" \in Kinds
    BY DEF IInv, Kinds
<1>3. TypeOK'
    <2>1. pending' \in [Loops -> Seq(Functors)]
        BY <1>1, <1>2, QueueInLoopType
    <2>2. /\ state' \in [Conns -> {"kConnecting", "kConnected", "kDisconnecting",
                                   "kDisconnected"}]
          /\ stopping' \subseteq Conns /\ revived' \subseteq Conns
        BY <1>1, <1>2 DEF TypeOK
    <2> QED
        BY <1>1, <1>2, <2>1, <2>2 DEF TypeOK
<1>4. Control'
    BY <1>1 DEF IInv, Control, NotStarted, Swapped, PoolRuns, Room, Serving
<1>5. /\ Waiting' = Waiting \cup {g}
      /\ \A F : Once(F) /\ (g \notin F \/ Waiting \cap F = {}) => Once(F)'
    BY <1>1, <1>2, PushStep
<1>6. \A d \in Conns \ {c} : Untouched(d)
    <2>1. \A d \in Conns \ {c} : Alone(d)
        BY <1>1, <1>2, PushAlone
    <2>2. \A d \in Conns \ {c} : Same(d)
        BY <1>1, <1>2 DEF Same, TypeOK
    <2> QED
        BY <2>1, <2>2 DEF Untouched
<1>7. g \in Of(c) /\ g \notin Core(c)
    BY <1>2, FunctorNames
<1>8. /\ Functor("connectEstablished", c) \in Core(c)
      /\ Functor("removeConnectionInLoop", c) \in Core(c)
    BY FunctorNames DEF Kinds
<1> HIDE DEF g
<1>9. /\ Waiting' \cap Core(c) = Waiting \cap Core(c)
      /\ \A F \in SUBSET Core(c) : Once(F) => Once(F)'
    BY <1>5, <1>7
<1>10. /\ state[c] # "kConnecting" /\ state'[c] = "kDisconnecting" /\ ~(c >= nextConnId)
       /\ nextConnId' = nextConnId
    BY <1>1, <1>2 DEF InOrder, Watches, Unborn, TypeOK
<1>11. c \in watched => state[c] # "kDisconnected"
    BY <1>2 DEF InOrder, Watches, Opened
<1>12. Watches(c)'
    BY <1>1, <1>2, <1>10, <1>11 DEF InOrder, Watches, Opened, TypeOK
<1>13. Unborn(c)'
    BY <1>10 DEF Unborn
<1>14. Establishes(c)'
    <2>1. Functor("connectEstablished", c) \notin Waiting'
        BY <1>2, <1>8, <1>9, <1>10 DEF InOrder, Establishes
    <2>2. {Functor("connectEstablished", c)} \in SUBSET Core(c)
        BY <1>8
    <2> QED
        BY <1>2, <1>9, <2>1, <2>2 DEF InOrder, Establishes
<1>15. ASSUME Serving
       PROVE  IF c \in revived' THEN Leaving(c)' ELSE Once(Core(c))' /\ Account(c)'
    <2>1. IF c \in revived THEN Leaving(c) ELSE Once(Core(c)) /\ Account(c)
        BY <1>2, <1>10, <1>15 DEF InOrder
    <2>2. Leaving(c) => Leaving(c)'
        BY <1>1, <1>5 DEF Leaving
    <2>3. CASE c \in revived
        BY <1>1, <2>1, <2>2, <2>3
    <2>4. CASE c \notin revived /\ state[c] = "kDisconnected"
        <3>1. Leaving(c)
            BY <2>1, <2>4 DEF Account, Leaving
        <3> QED
            BY <1>1, <2>2, <2>4, <3>1
    <2>5. CASE c \notin revived /\ state[c] # "kDisconnected"
        <3>1. Opened(c) /\ Opened(c)' /\ c \notin revived'
            BY <1>1, <1>2, <1>10, <2>5 DEF Opened, TypeOK
        <3>2. c \in connections /\ Waiting \cap Core(c) = {}
            BY <2>1, <2>5, <3>1 DEF Account
        <3>3. Account(c)'
            BY <1>1, <1>9, <1>10, <3>1, <3>2 DEF Account
        <3> QED
            BY <1>9, <2>1, <2>5, <3>1, <3>3
    <2> QED
        BY <2>3, <2>4, <2>5
<1>16. InOrder(c)'
    BY <1>1, <1>12, <1>13, <1>14, <1>15 DEF InOrder, Serving
<1>17. Life(c)' = Life(c)
    <2>1. Held(c)
        BY <1>1 DEF Held
    <2>2. Held(c)'
        BY <1>3, <1>5, <1>7, HeldNext
    <2> QED
        BY <1>1, <1>10, <2>1, <2>2 DEF Life
<1> QED
    BY <1>1, <1>3, <1>4, <1>6, <1>16, <1>17, OneTouched DEF Advances, Serving

(* handleClose takes the channel from the poller and sends the connection on *)
(* its way out of the map.                                                  *)
LEMMA ReportCloseIs ==
    ASSUME IInv, NEW c \in Conns, ReportClose(c), ~(c >= nextConnId), state[c] # "kConnecting"
    PROVE  /\ TypeOK' /\ Control' /\ Serving' = Serving /\ nextConnId' = nextConnId
           /\ \A d \in Conns \ {c} : Untouched(d)
           /\ state'[c] = "kDisconnected" /\ watched' = watched \ {c} /\ revived' = revived
           /\ Unborn(c)' /\ Establishes(c)' /\ Held(c)'
           /\ \E g \in {Functor("connectDestroyed", c), Functor("removeConnectionInLoop", c)} :
                /\ Waiting' = Waiting \cup {g}
                /\ c \in connections' =>
                      c \in connections /\ g = Functor("removeConnectionInLoop", c)
                /\ c \in connections /\ c \notin connections' => g = Functor("connectDestroyed", c)
                /\ Waiting \cap Core(c) = {} /\ Once(Core(c)) => Once(Core(c))'
<1> DEFINE f == IF loopOf[c] = Base THEN "connectDestroyed" ELSE "removeConnectionInLoop"
           g == Functor(f, c)
<1>1. /\ QueueInLoop(Base, f, c) /\ batch' = batch /\ ran' = ran
      /\ connections' = IF loopOf[c] = Base THEN connections \ {c} ELSE connections
      /\ state' = [state EXCEPT ![c] = "kDisconnected"] /\ watched' = watched \ {c}
      /\ UNCHANGED <<server, pool, acceptor, loopOf, phase, quit, stops>>
    BY DEF ReportClose, RemoveConnection, RemoveConnectionInLoop
<1>2. f \in Kinds /\ Base \in Loops
    BY DEF Kinds, Loops
<1>3. TypeOK /\ InOrder(c)
    BY DEF IInv
<1>4. TypeOK'
    <2>1. pending' \in [Loops -> Seq(Functors)]
        BY <1>1, <1>2, <1>3, QueueInLoopType
    <2>2. /\ state' \in [Conns -> {"kConnecting", "kConnected", "kDisconnecting",
                                   "kDisconnected"}]
          /\ watched' \subseteq Conns /\ connections' \subseteq Conns
        BY <1>1, <1>3 DEF TypeOK
    <2> QED
        BY <1>1, <1>3, <2>1, <2>2 DEF TypeOK
<1>5. Control' /\ Serving' = Serving
    BY <1>1 DEF IInv, Control, NotStarted, Swapped, PoolRuns, Room, Serving
<1>6. /\ Waiting' = Waiting \cup {g}
      /\ \A F : Once(F) /\ (g \notin F \/ Waiting \cap F = {}) => Once(F)'
    BY <1>1, <1>2, <1>3, PushStep
<1>7. \A d \in Conns \ {c} : Untouched(d)
    <2>1. \A d \in Conns \ {c} : Alone(d)
        BY <1>1, <1>2, <1>3, PushAlone
    <2>2. \A d \in Conns \ {c} : Same(d)
        BY <1>1, <1>3 DEF Same, TypeOK
    <2> QED
        BY <2>1, <2>2 DEF Untouched
<1>8. /\ g \in Of(c) /\ g # Functor("connectEstablished", c)
      /\ g \in {Functor("connectDestroyed", c), Functor("removeConnectionInLoop", c)}
      /\ loopOf[c] = Base => g = Functor("connectDestroyed", c)
      /\ loopOf[c] # Base => g = Functor("removeConnectionInLoop", c)
    BY <1>2, FunctorNames DEF Kinds
<1> HIDE DEF g, f
<1>9. state'[c] = "kDisconnected" /\ nextConnId' = nextConnId /\ revived' = revived
    BY <1>1, <1>3 DEF TypeOK
<1>10. Unborn(c)'
    BY <1>9 DEF Unborn
<1>11. Establishes(c)'
    <2>1. g \notin {Functor("connectEstablished", c)}
        BY <1>8
    <2>2. Once({Functor("connectEstablished", c)})'
        BY <1>3, <1>6, <2>1 DEF InOrder, Establishes
    <2>3. Functor("connectEstablished", c) \notin Waiting'
        BY <1>3, <1>6, <1>8 DEF InOrder, Establishes
    <2> QED
        BY <2>2, <2>3 DEF Establishes
<1>12. Held(c)'
    BY <1>4, <1>6, <1>8, HeldNext
<1>13. /\ c \in connections' =>
              c \in connections /\ g = Functor("removeConnectionInLoop", c)
       /\ c \in connections /\ c \notin connections' => g = Functor("connectDestroyed", c)
    BY <1>1, <1>8
<1> QED
    BY <1>1, <1>4, <1>5, <1>6, <1>7, <1>8, <1>9, <1>10, <1>11, <1>12, <1>13

(* handleClose closes an open connection, which while the server serves is  *)
(* in the map and has nothing queued.                                       *)
LEMMA HandleCloseStep ==
    ASSUME IInv, NEW c \in Conns, HandleClose(c) PROVE Fine
<1>1. /\ c \in watched /\ Held(c) /\ ReportClose(c) /\ InOrder(c)
      /\ Opened(c) /\ c \notin revived /\ state[c] # "kConnecting" /\ ~(c >= nextConnId)
    BY DEF HandleClose, IInv, InOrder, Watches, Opened, Unborn
<1>2. /\ TypeOK' /\ Control' /\ Serving' = Serving /\ nextConnId' = nextConnId
      /\ \A d \in Conns \ {c} : Untouched(d)
      /\ state'[c] = "kDisconnected" /\ watched' = watched \ {c} /\ revived' = revived
      /\ Unborn(c)' /\ Establishes(c)' /\ Held(c)'
    BY <1>1, ReportCloseIs
<1>3. Watches(c)'
    BY <1>1, <1>2 DEF Watches
<1>4. ASSUME Serving PROVE Once(Core(c))' /\ Account(c)'
    <2>1. PICK g \in {Functor("connectDestroyed", c), Functor("removeConnectionInLoop", c)} :
             /\ Waiting' = Waiting \cup {g}
             /\ c \in connections' =>
                   c \in connections /\ g = Functor("removeConnectionInLoop", c)
             /\ c \in connections /\ c \notin connections' => g = Functor("connectDestroyed", c)
             /\ Waiting \cap Core(c) = {} /\ Once(Core(c)) => Once(Core(c))'
        BY <1>1, ReportCloseIs
    <2>2. c \in connections /\ Waiting \cap Core(c) = {} /\ Once(Core(c))
        BY <1>1, <1>4 DEF InOrder, Account, Opened
    <2>3. g \in Core(c)
        BY FunctorNames DEF Kinds
    <2>4. Waiting' \cap Core(c) = {g}
        BY <2>1, <2>2, <2>3
    <2> QED
        BY <1>2, <2>1, <2>2, <2>4 DEF Account, Opened
<1>5. InOrder(c)'
    BY <1>1, <1>2, <1>3, <1>4 DEF InOrder
<1>6. Advances(c)
    <2>1. Life(c) = "open"
        BY <1>1 DEF Life
    <2>2. Life(c)' = "closed"
        BY <1>1, <1>2 DEF Life
    <2> QED
        BY <2>1, <2>2 DEF Advances
<1> QED
    BY <1>2, <1>5, <1>6, OneTouched

(* handleClose of a revived connection, which is closed already, sends it   *)
(* out of the map once more.                                                *)
LEMMA HandleCloseAgainStep ==
    ASSUME IInv, NEW c \in Conns, HandleCloseAgain(c) PROVE Fine
<1>1. /\ c \in revived /\ c \notin watched /\ state[c] = "kDisconnecting" /\ Held(c)
      /\ ReportClose(c) /\ InOrder(c) /\ ~(c >= nextConnId)
    BY DEF HandleCloseAgain, IInv, InOrder, Watches, Unborn
<1>2. /\ TypeOK' /\ Control' /\ Serving' = Serving /\ nextConnId' = nextConnId
      /\ \A d \in Conns \ {c} : Untouched(d)
      /\ state'[c] = "kDisconnected" /\ watched' = watched \ {c} /\ revived' = revived
      /\ Unborn(c)' /\ Establishes(c)' /\ Held(c)'
    BY <1>1, ReportCloseIs
<1>3. Watches(c)'
    BY <1>1, <1>2 DEF Watches
<1>4. Leaving(c)'
    <2>1. PICK g : /\ Waiting' = Waiting \cup {g}
                   /\ c \in connections' => g = Functor("removeConnectionInLoop", c)
        BY <1>1, ReportCloseIs
    <2> QED
        BY <2>1 DEF Leaving
<1>5. InOrder(c)'
    BY <1>1, <1>2, <1>3, <1>4 DEF InOrder
<1>6. Life(c)' = Life(c)
    BY <1>1, <1>2 DEF Life
<1> QED
    BY <1>2, <1>5, <1>6, OneTouched DEF Advances

(* connectDestroyed closes a connection that is open, and no other.         *)
LEMMA DestroyedIs ==
    ASSUME TypeOK, NEW c \in Conns, Watches(c), ConnectDestroyed(c),
           stopping' = stopping, revived' = revived
    PROVE  /\ state' \in [Conns -> {"kConnecting", "kConnected", "kDisconnecting",
                                    "kDisconnected"}]
           /\ watched' \subseteq Conns
           /\ \A d \in Conns \ {c} : /\ state'[d] = state[d]
                                     /\ d \in watched' <=> d \in watched
           /\ Watches(c)'
           /\ \/ state' = state /\ watched' = watched
              \/ /\ state[c] = "kConnected" /\ c \in watched
                 /\ state'[c] = "kDisconnected" /\ c \notin watched'
BY DEF TypeOK, ConnectDestroyed, Watches, Opened

(* The destructor lets go of a connection of the base loop at once, ...     *)
LEMMA DestroyHereStep ==
    ASSUME IInv, NEW c \in Conns, DestroyConnection(c), loopOf[c] = Base PROVE Fine
<1>1. /\ connections' = connections \ {c} /\ c \in connections
      /\ UNCHANGED <<server, pool, acceptor, loopOf, loopVars, stops>>
      /\ ConnectDestroyed(c) /\ server = "destroying"
    BY DEF DestroyConnection
<1>2. TypeOK /\ InOrder(c)
    BY DEF IInv
<1>3. /\ state' \in [Conns -> {"kConnecting", "kConnected", "kDisconnecting", "kDisconnected"}]
      /\ watched' \subseteq Conns
      /\ \A d \in Conns \ {c} : state'[d] = state[d] /\ (d \in watched' <=> d \in watched)
      /\ Watches(c)'
      /\ \/ state' = state /\ watched' = watched
         \/ /\ state[c] = "kConnected" /\ c \in watched
            /\ state'[c] = "kDisconnected" /\ c \notin watched'
    BY <1>1, <1>2, DestroyedIs DEF InOrder
<1>4. TypeOK'
    BY <1>1, <1>2, <1>3 DEF TypeOK
<1>5. Control'
    BY <1>1 DEF IInv, Control, NotStarted, Swapped, PoolRuns, Room, Serving
<1>6. Queues' = Queues /\ Waiting' = Waiting
    BY <1>1, SameQueues
<1>7. \A d \in Conns \ {c} : Untouched(d)
    <2> SUFFICES ASSUME NEW d \in Conns \ {c} PROVE Untouched(d)
        OBVIOUS
    <2>1. Same(d)
        BY <1>1, <1>3 DEF Same
    <2>2. Alone(d)
        BY <1>1, <1>6 DEF Alone, Once
    <2> QED
        BY <2>1, <2>2 DEF Untouched
<1>8. ~ (c >= nextConnId) /\ nextConnId' = nextConnId
    BY <1>1, <1>2 DEF InOrder, Unborn
<1>9. InOrder(c)'
    <2>1. Unborn(c)'
        BY <1>8 DEF Unborn
    <2>2. Establishes(c)'
        BY <1>2, <1>3, <1>6 DEF InOrder, Establishes, Once
    <2> QED
        BY <1>1, <1>3, <2>1, <2>2 DEF InOrder, Serving
<1>10. Advances(c) \/ Dropped(c)
    <2>1. Held(c)
        BY <1>1 DEF Held
    <2>2. CASE ~Held(c)'
        BY <1>8, <2>1, <2>2 DEF Life, Dropped
    <2>3. CASE Held(c)' /\ state' = state /\ watched' = watched
        BY <1>8, <2>1, <2>3 DEF Life, Dropped
    <2>4. CASE Held(c)' /\ c \in watched /\ c \notin watched' /\ state'[c] = "kDisconnected"
        BY <1>8, <2>1, <2>4 DEF Life, Advances
    <2> QED
        BY <1>3, <2>2, <2>3, <2>4
<1> QED
    BY <1>1, <1>4, <1>5, <1>7, <1>9, <1>10, OneTouched DEF Serving

(* ... and sends connectDestroyed to the loop of another.                   *)
LEMMA DestroyThereStep ==
    ASSUME IInv, NEW c \in Conns, DestroyConnection(c), loopOf[c] # Base PROVE Fine
<1> DEFINE g == Functor("connectDestroyed", c)
           k == loopOf[c]
<1>1. /\ connections' = connections \ {c} /\ c \in connections
      /\ UNCHANGED <<server, pool, acceptor, loopOf, state, watched, phase, quit, batch, ran,
                     stops>>
      /\ QueueInLoop(k, "connectDestroyed", c) /\ server = "destroying"
    BY DEF DestroyConnection
<1>2. TypeOK /\ InOrder(c)
    BY DEF IInv
<1>3. k \in Loops /\ "connectDestroyed" \in Kinds
    BY <1>2 DEF TypeOK, Kinds
<1> HIDE DEF k
<1>4. TypeOK'
    <2>1. pending' \in [Loops -> Seq(Functors)]
        BY <1>1, <1>2, <1>3, QueueInLoopType
    <2> QED
        BY <1>1, <1>2, <2>1 DEF TypeOK
<1>5. Control'
    BY <1>1 DEF IInv, Control, NotStarted, Swapped, PoolRuns, Room, Serving
<1>6. /\ Waiting' = Waiting \cup {g}
      /\ \A F : Once(F) /\ (g \notin F \/ Waiting \cap F = {}) => Once(F)'
    BY <1>1, <1>2, <1>3, PushStep
<1>7. \A d \in Conns \ {c} : Untouched(d)
    <2>1. \A d \in Conns \ {c} : Alone(d)
        BY <1>1, <1>2, <1>3, PushAlone
    <2>2. \A d \in Conns \ {c} : Same(d)
        BY <1>1 DEF Same
    <2> QED
        BY <2>1, <2>2 DEF Untouched
<1>8. ~ (c >= nextConnId) /\ nextConnId' = nextConnId
    BY <1>1, <1>2 DEF InOrder, Unborn
<1>9. g \in Of(c) /\ g # Functor("connectEstablished", c)
    BY FunctorNames DEF Kinds
<1> HIDE DEF g
<1>10. InOrder(c)'
    <2>1. Watches(c)' /\ Unborn(c)'
        BY <1>1, <1>2, <1>8 DEF InOrder, Unborn, Watches, Opened
    <2>2. Establishes(c)'
        <3>1. g \notin {Functor("connectEstablished", c)}
            BY <1>9
        <3>2. Once({Functor("connectEstablished", c)})'
            BY <1>2, <1>6, <3>1 DEF InOrder, Establishes
        <3> QED
            BY <1>1, <1>2, <1>6, <1>9, <3>2 DEF InOrder, Establishes
    <2> QED
        BY <1>1, <2>1, <2>2 DEF InOrder, Serving
<1>11. Advances(c)
    <2>1. Held(c) /\ Held(c)'
        BY <1>1, <1>4, <1>6, <1>9, HeldNext DEF Held
    <2>2. Life(c)' = Life(c)
        BY <1>1, <1>8, <2>1 DEF Life
    <2> QED
        BY <2>2 DEF Advances
<1> QED
    BY <1>1, <1>4, <1>5, <1>7, <1>10, <1>11, OneTouched DEF Serving

(* A functor that is being run belongs to a connection that was accepted.   *)
LEMMA RunsAccepted ==
    ASSUME IInv, NEW k \in Loops, batch[k] # <<>>
    PROVE  LET h == Head(batch[k]) IN
           /\ h \in Functors /\ h \in Waiting /\ h.conn \in Conns /\ h \in Of(h.conn)
           /\ h = Functor(h.run, h.conn) /\ h.run \in Kinds
           /\ ~ (h.conn >= nextConnId) /\ Held(h.conn)
<1> DEFINE h == Head(batch[k])
<1>1. h \in Waiting
    BY PoppedQueues DEF IInv
<1> HIDE DEF h
<1>2. h \in Functors
    BY <1>1 DEF Waiting, FoundIn
<1>3. h.conn \in Conns /\ h = Functor(h.run, h.conn) /\ h.run \in Kinds
    BY <1>2, FunctorNames
<1>4. h \in Of(h.conn)
    BY <1>2 DEF Of
<1>5. InOrder(h.conn)
    BY <1>3 DEF IInv
<1>6. ~ (h.conn >= nextConnId) /\ Held(h.conn)
    BY <1>1, <1>3, <1>4, <1>5, HeldIs DEF InOrder, Unborn, IInv
<1> QED
    BY <1>1, <1>2, <1>3, <1>4, <1>6 DEF h

(* What running any functor does to types and control, and what it leaves.  *)
LEMMA RunTypes ==
    ASSUME IInv, NEW k \in Loops, RunFunctor(k), NEW h, h = Head(batch[k])
    PROVE  /\ TypeOK /\ Takes(k, h) /\ InOrder(h.conn)
           /\ h \in Waiting /\ h \in Of(h.conn) /\ h = Functor(h.run, h.conn)
           /\ ~ (h.conn >= nextConnId) /\ Held(h.conn) /\ Held(h.conn)'
           /\ TypeOK' /\ Control' /\ Serving' = Serving /\ nextConnId' = nextConnId
           /\ stopping' = stopping /\ revived' = revived
<1>0. /\ TypeOK /\ batch[k] # <<>> /\ phase[k] = "functors"
      /\ batch' = [batch EXCEPT ![k] = Tail(@)]
      /\ ran' = [ran EXCEPT ![k] = @ \cup {h.conn}]
      /\ UNCHANGED <<server, pool, acceptor, loopOf, phase, quit, stops>>
    BY DEF IInv, RunFunctor
<1>1. /\ h \in Waiting /\ h \in Of(h.conn) /\ h = Functor(h.run, h.conn) /\ h.conn \in Conns
      /\ ~ (h.conn >= nextConnId) /\ Held(h.conn)
    BY <1>0, RunsAccepted
<1>2. Takes(k, h) /\ InOrder(h.conn)
    BY <1>0, <1>1 DEF Takes, IInv
<1>3. batch' \in [Loops -> Seq(Functors)]
    BY <1>0, PoppedQueues
<1>4. ran' \in [Loops -> SUBSET Conns] /\ h.conn \in ran'[k]
    BY <1>0, <1>2, TakesRan
<1>5. /\ state' \in [Conns -> {"kConnecting", "kConnected", "kDisconnecting", "kDisconnected"}]
      /\ watched' \subseteq Conns /\ connections' \subseteq Conns
      /\ pending' \in [Loops -> Seq(Functors)]
    <2>1. CASE ConnectEstablished(h.conn) /\ UNCHANGED <<connections, pending>>
        BY <1>0, <1>1, <2>1 DEF TypeOK, ConnectEstablished
    <2>2. CASE ConnectDestroyed(h.conn) /\ UNCHANGED <<connections, pending>>
        BY <1>0, <1>1, <2>2 DEF TypeOK, ConnectDestroyed
    <2>3. CASE RemoveConnectionInLoop(h.conn) /\ UNCHANGED <<state, watched>>
        <3>1. loopOf[h.conn] \in Loops /\ "connectDestroyed" \in Kinds
            BY <1>0, <1>1 DEF TypeOK, Kinds
        <3>2. pending' \in [Loops -> Seq(Functors)]
            BY <1>0, <1>1, <2>3, <3>1, QueueInLoopType DEF RemoveConnectionInLoop
        <3> QED
            BY <1>0, <2>3, <3>2 DEF TypeOK, RemoveConnectionInLoop
    <2>4. CASE UNCHANGED <<state, watched, connections, pending>>
        BY <1>0, <2>4 DEF TypeOK
    <2> QED
        BY <2>1, <2>2, <2>3, <2>4 DEF RunFunctor
<1>6. TypeOK'
    BY <1>0, <1>3, <1>4, <1>5 DEF TypeOK
<1>7. Swapped'
    BY <1>0 DEF IInv, Control, Swapped, TypeOK
<1>8. Control' /\ Serving' = Serving
    BY <1>0, <1>7 DEF IInv, Control, NotStarted, PoolRuns, Room, Serving
<1>9. Held(h.conn)'
    BY <1>4 DEF Held
<1> QED
    BY <1>0, <1>1, <1>2, <1>6, <1>8, <1>9

(* connectEstablished opens a connection that was accepted.                 *)
LEMMA RunEstablishedStep ==
    ASSUME IInv, NEW k \in Loops, RunFunctor(k), Head(batch[k]).run = "connectEstablished"
    PROVE  Fine
<1>a. PICK h, c : h = Head(batch[k]) /\ c = h.conn
    OBVIOUS
<1>0. UNCHANGED <<connections, pending>> /\ ConnectEstablished(c)
    BY <1>a DEF RunFunctor
<1>1. /\ TypeOK /\ Takes(k, h) /\ InOrder(c) /\ c \in Conns
      /\ h \in Waiting /\ h \in Of(c) /\ h = Functor("connectEstablished", c)
      /\ ~ (c >= nextConnId) /\ Held(c) /\ Held(c)'
      /\ TypeOK' /\ Control' /\ Serving' = Serving /\ nextConnId' = nextConnId
      /\ stopping' = stopping /\ revived' = revived
    BY <1>a, RunTypes DEF Takes
<1>2. \A d \in Conns \ {c} : Alone(d)
    BY <1>a, <1>0, <1>1, PopAlone
<1>3. /\ Waiting = Waiting' \cup {h}
      /\ \A F : Once(F) => Once(F)' /\ (h \in F => Waiting' \cap F = {})
    BY <1>0, <1>1, TakesPops
<1>4. /\ state[c] = "kConnecting" /\ c \notin revived /\ c \notin watched
      /\ state'[c] = "kConnected" /\ c \in watched' /\ Opened(c)'
      /\ \A d \in Conns \ {c} : state'[d] = state[d] /\ (d \in watched' <=> d \in watched)
    BY <1>0, <1>1
       DEF InOrder, Establishes, Watches, ConnectEstablished, Opened, TypeOK
<1>5. \A d \in Conns \ {c} : Untouched(d)
    BY <1>0, <1>1, <1>2, <1>4 DEF Same, Untouched
<1>6. Establishes(c)'
    <2>1. Once({h})
        BY <1>1 DEF InOrder, Establishes
    <2>2. Once({h})' /\ Waiting' \cap {h} = {}
        BY <1>3, <2>1
    <2> QED
        BY <1>1, <2>2 DEF Establishes
<1>7. Watches(c)' /\ Unborn(c)'
    BY <1>1, <1>4 DEF Watches, Unborn
<1>8. ASSUME Serving PROVE Once(Core(c))' /\ Account(c)'
    <2>1. Once(Core(c)) /\ Account(c)
        BY <1>1, <1>4, <1>8 DEF InOrder
    <2>2. c \in connections
        BY <1>4, <2>1 DEF Account
    <2>3. h \in Core(c)
        BY <1>1, FunctorNames DEF Kinds
    <2>4. Once(Core(c))' /\ Waiting' \cap Core(c) = {}
        BY <1>3, <2>1, <2>3
    <2> QED
        BY <1>0, <1>4, <2>2, <2>4 DEF Account
<1>9. InOrder(c)'
    BY <1>1, <1>4, <1>6, <1>7, <1>8 DEF InOrder
<1>10. Advances(c)
    <2>1. Life(c) = "accepted" /\ Life(c)' = "open"
        BY <1>1, <1>4 DEF Life
    <2> QED
        BY <2>1 DEF Advances
<1> QED
    BY <1>1, <1>5, <1>9, <1>10, OneTouched

(* shutdownInLoop touches only the socket.                                  *)
LEMMA RunShutdownStep ==
    ASSUME IInv, NEW k \in Loops, RunFunctor(k), Head(batch[k]).run = "shutdownInLoop"
    PROVE  Fine
<1>a. PICK h, c : h = Head(batch[k]) /\ c = h.conn
    OBVIOUS
<1>0. UNCHANGED <<connections, pending, state, watched>>
    BY <1>a DEF RunFunctor
<1>1. /\ TypeOK /\ Takes(k, h) /\ InOrder(c) /\ c \in Conns
      /\ h \in Waiting /\ h \in Of(c) /\ h = Functor("shutdownInLoop", c)
      /\ ~ (c >= nextConnId) /\ Held(c) /\ Held(c)'
      /\ TypeOK' /\ Control' /\ Serving' = Serving /\ nextConnId' = nextConnId
      /\ stopping' = stopping /\ revived' = revived
    BY <1>a, RunTypes DEF Takes
<1>2. \A d \in Conns \ {c} : Alone(d)
    BY <1>a, <1>0, <1>1, PopAlone
<1>3. /\ Waiting = Waiting' \cup {h}
      /\ \A F : Once(F) => Once(F)'
    BY <1>0, <1>1, TakesPops
<1>4. \A d \in Conns : Same(d)
    BY <1>0, <1>1 DEF Same
<1>5. \A d \in Conns \ {c} : Untouched(d)
    BY <1>2, <1>4 DEF Untouched
<1>6. h \notin Core(c)
    BY <1>1, FunctorNames DEF Kinds
<1>7. Waiting' \cap Core(c) = Waiting \cap Core(c)
    BY <1>3, <1>6
<1>8. InOrder(c)'
    <2>1. Unborn(c)'
        BY <1>1 DEF Unborn
    <2> QED
        BY <1>1, <1>3, <1>4, <1>7, <2>1, AccountStays DEF InOrder
<1>9. Life(c)' = Life(c)
    BY <1>0, <1>1 DEF Life
<1> QED
    BY <1>1, <1>5, <1>8, <1>9, OneTouched DEF Advances

(* connectDestroyed is the last that happens to a connection.               *)
LEMMA RunDestroyedStep ==
    ASSUME IInv, NEW k \in Loops, RunFunctor(k), Head(batch[k]).run = "connectDestroyed"
    PROVE  Fine
<1>a. PICK h, c : h = Head(batch[k]) /\ c = h.conn
    OBVIOUS
<1>0. UNCHANGED <<connections, pending>> /\ ConnectDestroyed(c)
    BY <1>a DEF RunFunctor
<1>1. /\ TypeOK /\ Takes(k, h) /\ InOrder(c) /\ c \in Conns
      /\ h \in Waiting /\ h \in Of(c) /\ h = Functor("connectDestroyed", c)
      /\ ~ (c >= nextConnId) /\ Held(c) /\ Held(c)'
      /\ TypeOK' /\ Control' /\ Serving' = Serving /\ nextConnId' = nextConnId
      /\ stopping' = stopping /\ revived' = revived
    BY <1>a, RunTypes DEF Takes
<1>2. \A d \in Conns \ {c} : Alone(d)
    BY <1>a, <1>0, <1>1, PopAlone
<1>3. /\ Waiting = Waiting' \cup {h}
      /\ \A F : Once(F) => Once(F)' /\ (h \in F => Waiting' \cap F = {})
    BY <1>0, <1>1, TakesPops
<1>4. /\ \A d \in Conns \ {c} : state'[d] = state[d] /\ (d \in watched' <=> d \in watched)
      /\ Watches(c)'
      /\ \/ state' = state /\ watched' = watched
         \/ /\ state[c] = "kConnected" /\ c \in watched
            /\ state'[c] = "kDisconnected" /\ c \notin watched'
    BY <1>0, <1>1, DestroyedIs DEF InOrder
<1>5. \A d \in Conns \ {c} : Untouched(d)
    BY <1>0, <1>1, <1>2, <1>4 DEF Same, Untouched
<1>6. /\ h # Functor("connectEstablished", c) /\ h # Functor("removeConnectionInLoop", c)
      /\ h \in Core(c)
    BY <1>1, FunctorNames DEF Kinds
<1>7. Establishes(c)'
    BY <1>1, <1>3, <1>4, <1>6 DEF InOrder, Establishes
<1>8. ASSUME Serving PROVE IF c \in revived THEN Leaving(c)' ELSE Once(Core(c))' /\ Account(c)'
    <2>1. CASE c \in revived
        BY <1>0, <1>1, <1>3, <1>6, <1>8, <2>1 DEF InOrder, Leaving
    <2>2. CASE c \notin revived
        <3>1. Once(Core(c)) /\ Account(c)
            BY <1>1, <1>8, <2>2 DEF InOrder
        <3>2. c \notin connections /\ state[c] = "kDisconnected"
            BY <1>1, <1>6, <3>1 DEF Account, Opened, TypeOK
        <3>3. Once(Core(c))' /\ Waiting' \cap Core(c) = {}
            BY <1>3, <1>6, <3>1
        <3>4. state'[c] = "kDisconnected" /\ c \notin connections'
            BY <1>0, <1>4, <3>2
        <3> QED
            BY <2>2, <3>3, <3>4 DEF Account
    <2> QED
        BY <2>1, <2>2
<1>9. InOrder(c)'
    <2>1. Unborn(c)'
        BY <1>1 DEF Unborn
    <2> QED
        BY <1>1, <1>4, <1>7, <1>8, <2>1 DEF InOrder
<1>10. Advances(c)
    <2>1. CASE state' = state /\ watched' = watched
        BY <1>1, <2>1 DEF Life, Advances
    <2>2. CASE c \in watched /\ c \notin watched' /\ state'[c] = "kDisconnected"
        BY <1>1, <2>2 DEF Life, Advances
    <2> QED
        BY <1>4, <2>1, <2>2
<1> QED
    BY <1>1, <1>5, <1>9, <1>10, OneTouched

(* removeConnectionInLoop takes a closed connection from the map and leaves *)
(* it to its own loop.                                                      *)
LEMMA RunRemoveStep ==
    ASSUME IInv, NEW k \in Loops, RunFunctor(k), Head(batch[k]).run = "removeConnectionInLoop"
    PROVE  Fine
<1>a. PICK h, c : h = Head(batch[k]) /\ c = h.conn
    OBVIOUS
<1> DEFINE g == Functor("connectDestroyed", c)
<1>0. UNCHANGED <<state, watched>> /\ RemoveConnectionInLoop(c)
    BY <1>a DEF RunFunctor
<1>1. /\ TypeOK /\ Takes(k, h) /\ InOrder(c) /\ c \in Conns
      /\ h \in Waiting /\ h \in Of(c) /\ h = Functor("removeConnectionInLoop", c)
      /\ ~ (c >= nextConnId) /\ Held(c) /\ Held(c)'
      /\ TypeOK' /\ Control' /\ Serving' = Serving /\ nextConnId' = nextConnId
      /\ stopping' = stopping /\ revived' = revived
    BY <1>a, RunTypes DEF Takes
<1>2. PICK m \in Loops : m = loopOf[c]
    BY <1>1 DEF TypeOK
<1>3. connections' = connections \ {c} /\ QueueInLoop(m, "connectDestroyed", c)
    BY <1>0, <1>2 DEF RemoveConnectionInLoop
<1>4. "connectDestroyed" \in Kinds /\ g \in Core(c) /\ h \in Core(c)
      /\ g # Functor("connectEstablished", c) /\ h # Functor("connectEstablished", c)
      /\ h # g
    BY <1>1, FunctorNames DEF Kinds
<1>5. \A d \in Conns \ {c} : Alone(d)
    BY <1>a, <1>1, <1>3, <1>4, PopPushAlone
<1>6. PICK rest : /\ Waiting = rest \cup {h}
                  /\ Waiting' = rest \cup {g}
                  /\ \A F : Once(F) => /\ h \in F => rest \cap F = {} /\ Once(F)'
                                       /\ g \notin F => Once(F)'
    <2>1. Replaces(h, g)
        BY <1>1, <1>3, <1>4, PopPushStep DEF Takes
    <2> QED
        BY <2>1 DEF Replaces
<1> HIDE DEF g
<1>7. \A d \in Conns \ {c} : Untouched(d)
    BY <1>0, <1>1, <1>3, <1>5 DEF Same, Untouched
<1>8. Establishes(c)'
    <2>1. Once({Functor("connectEstablished", c)})'
        BY <1>1, <1>4, <1>6 DEF InOrder, Establishes
    <2>2. Functor("connectEstablished", c) \in Waiting'
              => Functor("connectEstablished", c) \in Waiting
        BY <1>4, <1>6
    <2> QED
        BY <1>0, <1>1, <2>1, <2>2 DEF InOrder, Establishes
<1>9. ASSUME Serving, c \notin revived PROVE Once(Core(c))' /\ Account(c)'
    <2>1. Once(Core(c)) /\ Account(c)
        BY <1>1, <1>9 DEF InOrder
    <2>2. state[c] = "kDisconnected"
        BY <1>1, <1>4, <2>1 DEF Account, Opened, TypeOK, g
    <2>3. Once(Core(c))' /\ Waiting' \cap Core(c) = {g}
        BY <1>4, <1>6, <2>1
    <2> QED
        BY <1>0, <1>3, <2>2, <2>3 DEF Account, g
<1>10. InOrder(c)'
    <2>1. Watches(c)' /\ Unborn(c)'
        BY <1>0, <1>1 DEF InOrder, Unborn, Watches, Opened
    <2>2. Leaving(c)'
        BY <1>3 DEF Leaving
    <2> QED
        BY <1>1, <1>8, <1>9, <2>1, <2>2 DEF InOrder
<1>11. Life(c)' = Life(c)
    BY <1>0, <1>1 DEF Life
<1> QED
    BY <1>1, <1>7, <1>10, <1>11, OneTouched DEF Advances

(* All functors.                                                            *)
LEMMA RunFunctorStep ==
    ASSUME IInv, NEW k \in Loops, RunFunctor(k) PROVE Fine
<1>1. \/ Head(batch[k]).run = "connectEstablished"
      \/ Head(batch[k]).run = "shutdownInLoop"
      \/ Head(batch[k]).run = "connectDestroyed"
      \/ Head(batch[k]).run = "removeConnectionInLoop"
    BY DEF RunFunctor
<1> QED
    BY <1>1, RunEstablishedStep, RunShutdownStep, RunDestroyedStep, RunRemoveStep

(* getNextLoopByMinLoad finds one of the loops.                             *)
LEMMA MinLoadIs ==
    ASSUME TypeOK, loops # <<>>, NEW load \in [0 .. Len(loops) - 1 -> 0 .. 2]
    PROVE  MinLoad(load) \in 0 .. Len(loops) - 1 /\ NextThreadPos(load) \in 0 .. Len(loops)
<1> DEFINE n == Len(loops)
<1>1. n \in Nat /\ n # 0
    BY LoopsIn, EmptySeq, LenProperties
<1>2. \A a \in Int : a % n \in 0 .. n - 1
    <2> HIDE DEF n
    <2> QED
        BY <1>1
<1>3. threadPos \in 0 .. n
    BY DEF TypeOK
<1>4. /\ DOMAIN Scan = 1 .. n
      /\ \A i \in 1 .. n : Scan[i] \in 0 .. n - 1
    <2>1. \A i \in 1 .. n : (IF threadPos >= n THEN 0 ELSE threadPos) + i - 1 \in Int
        BY <1>1, <1>3
    <2> QED
        BY <1>2, <2>1 DEF Scan
<1> DEFINE V == {load[Scan[i]] : i \in 1 .. n}
<1>5. PICK v \in V : \A w \in V : v <= w
    <2>1. V \subseteq Nat
        BY <1>4
    <2>2. load[Scan[1]] \in V
        BY <1>1
    <2>3. V # {}
        BY <2>2
    <2> HIDE DEF V
    <2> QED
        BY <2>1, <2>3, SmallestElement
<1> DEFINE M == {i \in 1 .. n : load[Scan[i]] = v}
<1>6. PICK m \in M : \A i \in M : m <= i
    <2>1. M \subseteq Nat /\ M # {}
        BY <1>5
    <2> HIDE DEF M
    <2> QED
        BY <2>1, SmallestElement
<1>7. \A j \in DOMAIN Scan : load[Scan[m]] <= load[Scan[j]]
    BY <1>4, <1>5
<1>8. ASSUME NEW j \in 1 .. m - 1 PROVE load[Scan[m]] < load[Scan[j]]
    <2>1. j \in 1 .. n /\ ~ (m <= j)
        BY <1>1
    <2>2. load[Scan[j]] \in Nat /\ load[Scan[m]] \in Nat /\ load[Scan[m]] = v
        BY <1>4, <2>1
    <2>3. load[Scan[j]] # v /\ v <= load[Scan[j]]
        BY <1>5, <1>6, <2>1
    <2> QED
        BY <2>2, <2>3
<1>9. \E i \in DOMAIN Scan : /\ \A j \in DOMAIN Scan : load[Scan[i]] <= load[Scan[j]]
                             /\ \A j \in 1 .. i - 1 : load[Scan[i]] < load[Scan[j]]
    BY <1>4, <1>7, <1>8
<1>10. PICK i \in DOMAIN Scan : MinLoad(load) = Scan[i]
    BY <1>9 DEF MinLoad
<1>11. MinLoad(load) \in 0 .. n - 1
    BY <1>4, <1>10
<1>12. NextThreadPos(load) \in 0 .. n
    BY <1>1, <1>3, <1>11 DEF NextThreadPos
<1> QED
    BY <1>11, <1>12

(* A connection is accepted under the next number, which nothing else has.  *)
LEMMA AcceptStep ==
    ASSUME IInv, AcceptorHandleRead PROVE Fine
<1>1. PICK l \in Loops : GetNextLoopByMinLoad(l) /\ NewConnection(nextConnId, l)
    BY DEF AcceptorHandleRead
<1>2. PICK c \in Conns : c = nextConnId
    BY ServerAssumption DEF AcceptorHandleRead, IInv, TypeOK, Control, Room, Conns
<1>3. /\ server = "listening" /\ backlog > 0 /\ backlog' = backlog - 1
      /\ UNCHANGED <<server, loops, fds, phase, quit, batch, ran, stops>>
      /\ nextConnId' = nextConnId + 1 /\ connections' = connections \cup {c}
      /\ loopOf' = [loopOf EXCEPT ![c] = l]
    BY <1>1, <1>2 DEF AcceptorHandleRead, NewConnection
<1>4. TypeOK /\ InOrder(c) /\ nextConnId \in Nat /\ backlog \in Nat
    BY DEF IInv, TypeOK
<1>5. threadPos' \in 0 .. Len(loops)
    <2>1. CASE loops = <<>>
        BY <1>1, <1>4, <2>1 DEF GetNextLoopByMinLoad, TypeOK
    <2>2. CASE loops # <<>>
        BY <1>1, <1>4, <2>2, MinLoadIs DEF GetNextLoopByMinLoad
    <2> QED
        BY <2>1, <2>2
<1>6. /\ c \notin connections /\ state[c] = "kConnecting" /\ Waiting \cap Of(c) = {}
      /\ Once({Functor("connectEstablished", c)}) /\ c \notin watched /\ c \notin revived
      /\ Once(Core(c))
    <2>1. c >= nextConnId
        BY <1>2, <1>4
    <2>2. Waiting \cap Of(c) = {}
        BY <1>4, <2>1 DEF InOrder, Unborn
    <2>3. Once(Core(c))
        <3>1. \A m \in Loops : \A i \in DOMAIN Queues[m] : Queues[m][i] \notin Core(c)
            BY <2>2 DEF Waiting, FoundIn, Core, Of
        <3> QED
            BY <3>1 DEF Once, OnceIn
    <2> QED
        BY <1>4, <2>1, <2>2, <2>3 DEF InOrder, Unborn, Establishes, Watches, Opened
<1>7. Serving /\ Serving' = Serving
    BY <1>3 DEF Serving
<1>8. Control'
    BY <1>3, <1>4, <1>7 DEF IInv, Control, NotStarted, Swapped, PoolRuns, Room, Serving
<1>9. /\ loopOf' \in [Conns -> Loops] /\ connections' \subseteq Conns
      /\ nextConnId' \in 1 .. MaxConns + 1 /\ backlog' \in 0 .. MaxConns
    BY <1>2, <1>3, <1>4, ServerAssumption DEF TypeOK, Conns
<1>10. Life(c) = "none" /\ ~ (c >= nextConnId')
    BY <1>2, <1>3, <1>4 DEF Life
<1>11. \A d \in Conns \ {c} : (d \in connections' <=> d \in connections)
                             /\ (d >= nextConnId' <=> d >= nextConnId)
    BY <1>2, <1>3, <1>4 DEF Conns
<1>12. CASE l = Base
    <2>1. ConnectEstablished(c) /\ UNCHANGED pending
        BY <1>1, <1>2, <1>12 DEF NewConnection
    <2>2. /\ state' \in [Conns -> {"kConnecting", "kConnected", "kDisconnecting",
                                   "kDisconnected"}]
          /\ watched' \subseteq Conns
          /\ \A d \in Conns \ {c} : state'[d] = state[d] /\ (d \in watched' <=> d \in watched)
          /\ state'[c] = "kConnected" /\ c \in watched'
        BY <1>4, <2>1 DEF ConnectEstablished, TypeOK
    <2>3. TypeOK'
        BY <1>3, <1>4, <1>5, <1>9, <2>1, <2>2 DEF TypeOK
    <2>4. Queues' = Queues /\ Waiting' = Waiting
        BY <1>3, <2>1, SameQueues
    <2>5. \A d \in Conns \ {c} : Untouched(d)
        <3>1. \A F : Once(F)' <=> Once(F)
            BY <2>4 DEF Once
        <3> QED
            BY <1>3, <1>11, <2>2, <2>4, <3>1 DEF Untouched, Same, Alone
    <2>6. InOrder(c)'
        <3>1. Waiting' \cap Core(c) = {} /\ Functor("connectEstablished", c) \notin Waiting'
            BY <1>6, <2>4, FunctorNames DEF Kinds, Core
        <3>2. Once(Core(c))' /\ Once({Functor("connectEstablished", c)})'
            BY <1>6, <2>4 DEF Once
        <3>3. Watches(c)' /\ Unborn(c)' /\ Establishes(c)'
            BY <1>3, <1>6, <1>10, <2>2, <3>1, <3>2 DEF Watches, Unborn, Establishes, Opened
        <3>4. Account(c)'
            BY <1>3, <2>2, <3>1 DEF Account, Opened
        <3> QED
            BY <1>3, <1>6, <3>2, <3>3, <3>4 DEF InOrder
    <2>7. Held(c)'
        BY <1>3 DEF Held
    <2>8. Advances(c)
        <3>1. Life(c)' = "open"
            BY <1>10, <2>2, <2>7 DEF Life
        <3> QED
            BY <1>7, <1>10, <3>1 DEF Advances
    <2> QED
        BY <1>7, <1>8, <2>3, <2>5, <2>6, <2>8, OneTouched
<1>13. CASE l # Base
    <2> DEFINE g == Functor("connectEstablished", c)
    <2>1. QueueInLoop(l, "connectEstablished", c) /\ UNCHANGED <<state, watched, batch>>
        BY <1>1, <1>2, <1>3, <1>13 DEF NewConnection
    <2>2. "connectEstablished" \in Kinds
        BY DEF Kinds
    <2>3. TypeOK'
        <3>1. pending' \in [Loops -> Seq(Functors)]
            BY <1>4, <2>1, <2>2, QueueInLoopType
        <3> QED
            BY <1>3, <1>4, <1>5, <1>9, <2>1, <3>1 DEF TypeOK
    <2>4. /\ Waiting' = Waiting \cup {g}
          /\ \A F : Once(F) /\ (g \notin F \/ Waiting \cap F = {}) => Once(F)'
        BY <1>4, <2>1, <2>2, PushStep
    <2>5. \A d \in Conns \ {c} : Untouched(d)
        <3>1. \A d \in Conns \ {c} : Alone(d)
            BY <1>3, <1>4, <2>1, <2>2, PushAlone
        <3>2. \A d \in Conns \ {c} : Same(d)
            BY <1>3, <1>11, <2>1 DEF Same
        <3> QED
            BY <3>1, <3>2 DEF Untouched
    <2>6. g \in Of(c) /\ g \in Core(c)
        BY <2>2, FunctorNames
    <2>7. Waiting' \cap Core(c) = {g} /\ Once(Core(c))' /\ Once({g})'
        <3>1. Waiting \cap Core(c) = {} /\ Waiting \cap {g} = {}
            BY <1>6, <2>6 DEF Core
        <3> QED
            BY <1>6, <2>4, <2>6, <3>1
    <2>8. InOrder(c)'
        <3>1. Watches(c)' /\ Unborn(c)' /\ Establishes(c)'
            BY <1>3, <1>4, <1>6, <1>10, <2>1, <2>7
               DEF InOrder, Watches, Unborn, Establishes, Opened
        <3>2. Account(c)'
            BY <1>3, <1>6, <2>1, <2>7 DEF Account, Opened
        <3> QED
            BY <1>3, <1>6, <2>7, <3>1, <3>2 DEF InOrder
    <2>9. Held(c)'
        BY <1>3 DEF Held
    <2>10. Advances(c)
        <3>1. Life(c)' = "accepted"
            BY <1>6, <1>10, <2>1, <2>9 DEF Life
        <3> QED
            BY <1>7, <1>10, <3>1 DEF Advances
    <2> QED
        BY <1>7, <1>8, <2>3, <2>5, <2>8, <2>10, OneTouched
<1> QED
    BY <1>12, <1>13

(* At the end of an iteration the functors that have run let go of their    *)
(* connections.  While the server serves only closed ones are forgotten     *)
(* with that.                                                               *)
LEMMA ForgottenStep ==
    ASSUME IInv, TypeOK', Control', Serving, Serving' = Serving,
           UNCHANGED <<conns, nextConnId, stops>>, Queues' = Queues,
           \A l \in Loops : ran'[l] \subseteq ran[l]
    PROVE  Fine
<1>1. Waiting' = Waiting /\ \A F : Once(F)' <=> Once(F)
    BY DEF Waiting, Once
<1>2. ASSUME NEW d \in Conns PROVE InOrder(d)' /\ Forgotten(d)
    <2>1. InOrder(d) /\ TypeOK
        BY DEF IInv
    <2>2. Same(d)
        BY DEF Same
    <2>3. Unborn(d)'
        BY <1>1, <2>1 DEF InOrder, Unborn
    <2>4. InOrder(d)'
        BY <1>1, <2>1, <2>2, <2>3, AccountStays DEF InOrder
    <2>5. Held(d)' => Held(d)
        <3>1. Held(d) <=> Kept(d) \/ Waiting \cap Of(d) # {}
            BY <2>1, HeldIs
        <3>2. Held(d)' <=> Kept(d)' \/ Waiting' \cap Of(d) # {}
            BY HeldNext
        <3> QED
            BY <1>1, <3>1, <3>2 DEF Kept
    <2>6. CASE d >= nextConnId \/ (Held(d)' <=> Held(d))
        BY <2>4, <2>6 DEF Forgotten, Life
    <2>7. CASE ~(d >= nextConnId) /\ Held(d) /\ ~Held(d)'
        <3>1. Waiting' \cap Of(d) = {} /\ d \notin connections /\ d \notin stopping
            <4>1. ~Kept(d)' /\ Waiting' \cap Of(d) = {}
                BY <2>7, HeldNext
            <4> QED
                BY <4>1 DEF Kept
        <3>2. d \notin watched /\ state[d] # "kConnecting"
            <4>1. CASE d \in revived
                BY <2>1, <4>1 DEF InOrder, Watches
            <4>2. CASE d \notin revived
                <5>1. state[d] = "kDisconnected"
                    BY <2>1, <2>7, <3>1, <4>2 DEF InOrder, Account
                <5> QED
                    BY <2>1, <5>1 DEF InOrder, Watches, Opened
            <4> QED
                BY <4>1, <4>2
        <3>3. Life(d) = "closed" /\ Life(d)' = "gone"
            BY <2>7, <3>2 DEF Life
        <3> QED
            BY <2>4, <3>3 DEF Forgotten
    <2> QED
        BY <2>5, <2>6, <2>7
<1>3. LifeStep
    BY <1>2, SomeForgotten
<1> QED
    BY <1>2, <1>3 DEF Fine, IInv

(* The loop of a thread ends when the server is being destroyed: what is    *)
(* left in its queue goes, and with it connections that nothing else holds. *)
LEMMA DroppedStep ==
    ASSUME IInv, TypeOK', Control', ~Serving, ~Serving',
           UNCHANGED <<conns, nextConnId, stops>>,
           \A l \in Loops : Queues'[l] = Queues[l] \/ Queues'[l] = <<>>,
           \A l \in Loops : ran'[l] \subseteq ran[l]
    PROVE  Fine
<1>1. \A l \in Loops : \A i \in DOMAIN Queues'[l] : Queues'[l] = Queues[l]
    <2>1. DOMAIN <<>> = {}
        OBVIOUS
    <2> QED
        BY <2>1
<1>2. Waiting' \subseteq Waiting
    BY <1>1 DEF Waiting, FoundIn
<1>3. \A F : Once(F) => Once(F)'
    BY <1>1 DEF Once, OnceIn
<1>4. ASSUME NEW d \in Conns PROVE InOrder(d)' /\ Dropped(d)
    <2>1. InOrder(d) /\ TypeOK
        BY DEF IInv
    <2>2. Watches(d)' /\ Unborn(d)'
        BY <1>2, <2>1 DEF InOrder, Watches, Unborn, Opened
    <2>3. Establishes(d)'
        BY <1>2, <1>3, <2>1 DEF InOrder, Establishes
    <2>4. InOrder(d)'
        BY <2>2, <2>3 DEF InOrder
    <2>5. Held(d)' => Held(d)
        <3>1. Held(d) <=> Kept(d) \/ Waiting \cap Of(d) # {}
            BY <2>1, HeldIs
        <3>2. Held(d)' <=> Kept(d)' \/ Waiting' \cap Of(d) # {}
            BY HeldNext
        <3> QED
            BY <1>2, <3>1, <3>2 DEF Kept
    <2>6. CASE d >= nextConnId \/ (Held(d)' <=> Held(d))
        BY <2>4, <2>6 DEF Dropped, Life
    <2>7. CASE ~(d >= nextConnId) /\ Held(d) /\ ~Held(d)'
        <3>1. Life(d)' = "gone" /\ Life(d) # "none"
            BY <2>7 DEF Life
        <3> QED
            BY <2>4, <3>1 DEF Dropped
    <2> QED
        BY <2>5, <2>6, <2>7
<1>5. LifeStep
    BY <1>4, SomeDropped
<1> QED
    BY <1>4, <1>5 DEF Fine, IInv

(* The end of an iteration, and of a loop that was told to quit.            *)
LEMMA EndIterationStep ==
    ASSUME IInv, NEW k \in Loops, EndIteration(k) PROVE Fine
<1>1. /\ phase[k] = "functors" /\ batch[k] = <<>>
      /\ UNCHANGED <<server, pool, acceptor, conns, quit, batch, stops>>
      /\ ran' = [ran EXCEPT ![k] = {}]
      /\ pending' = IF k \in quit /\ k # Base THEN [pending EXCEPT ![k] = <<>>] ELSE pending
      /\ phase' = [phase EXCEPT ![k] = IF k \in quit THEN "ended" ELSE "events"]
    BY DEF EndIteration
<1>2. TypeOK
    BY DEF IInv
<1>3. /\ pending' \in [Loops -> Seq(Functors)]
      /\ phase' \in [Loops -> {"off", "events", "functors", "ended"}]
      /\ ran' \in [Loops -> SUBSET Conns]
    <2>1. <<>> \in Seq(Functors)
        OBVIOUS
    <2> QED
        BY <1>1, <1>2, <2>1 DEF TypeOK
<1>4. TypeOK'
    BY <1>1, <1>2, <1>3 DEF TypeOK
<1>5. Control'
    <2>1. Swapped'
        BY <1>1, <1>2 DEF IInv, Control, Swapped, TypeOK
    <2>2. NotStarted'
        BY <1>1, <1>2 DEF IInv, Control, NotStarted, TypeOK
    <2> QED
        BY <1>1, <2>1, <2>2 DEF IInv, Control, PoolRuns, Room, Serving
<1>6. Serving' = Serving /\ UNCHANGED <<conns, nextConnId, stops>>
    BY <1>1 DEF Serving
<1>7. \A l \in Loops : ran'[l] \subseteq ran[l]
    BY <1>1, <1>2 DEF TypeOK
<1>8. CASE Serving
    <2>1. Queues' = Queues
        BY <1>1, <1>8, SameQueues DEF IInv, Control, PoolRuns
    <2> QED
        BY <1>4, <1>5, <1>6, <1>7, <1>8, <2>1, ForgottenStep
<1>9. CASE ~Serving /\ k \in quit /\ k # Base
    <2>1. batch'[k] = <<>> /\ pending'[k] = <<>>
        BY <1>1, <1>2, <1>9 DEF TypeOK
    <2>2. Queues'[k] = <<>> \o <<>>
        BY <2>1 DEF Queues, Queue
    <2>3. <<>> \o <<>> = <<>>
        OBVIOUS
    <2>4. \A l \in Loops : l # k => batch'[l] = batch[l] /\ pending'[l] = pending[l]
        BY <1>1, <1>2, <1>9 DEF TypeOK
    <2>5. \A l \in Loops : Queues'[l] = Queues[l] \/ Queues'[l] = <<>>
        BY <2>2, <2>3, <2>4 DEF Queues, Queue
    <2> QED
        BY <1>4, <1>5, <1>6, <1>7, <1>9, <2>5, DroppedStep
<1>10. CASE ~Serving /\ ~(k \in quit /\ k # Base)
    <2>1. Queues' = Queues
        BY <1>1, <1>10, SameQueues
    <2> QED
        BY <1>4, <1>5, <1>6, <1>7, <1>10, <2>1, DroppedStep
<1> QED
    BY <1>8, <1>9, <1>10

-----------------------------------------------------------------------------
(* The theorems.                                                            *)

(* The initial states.                                                      *)
LEMMA InitInv == Init => IInv /\ Connections!Init
<1> SUFFICES ASSUME Init PROVE IInv /\ Connections!Init
    OBVIOUS
<1>1. \A l \in Loops : Queue(l) = <<>>
    <2>1. \A l \in Loops : batch[l] = <<>> /\ pending[l] = <<>>
        BY DEF Init
    <2>2. <<>> \o <<>> = <<>>
        OBVIOUS
    <2> QED
        BY <2>1, <2>2 DEF Queue
<1>2. \A l \in Loops : DOMAIN Queues[l] = {}
    BY <1>1 DEF Queues
<1>3. Waiting = {} /\ \A F : Once(F)
    BY <1>2 DEF Waiting, FoundIn, Once, OnceIn
<1>4. TypeOK
    <2>1. IoLoops \in Seq(Range(IoLoops)) /\ Len(IoLoops) \in Nat
        BY ServerAssumption, LenProperties
    <2>2. loops = SubSeq(IoLoops, 1, 0) /\ 0 \in 0 .. Len(IoLoops)
        BY <2>1, SubSeqEmpty DEF Init
    <2>3. Len(loops) = 0
        BY DEF Init
    <2>4. \E n \in 0 .. Len(IoLoops) : loops = SubSeq(IoLoops, 1, n)
        BY <2>2
    <2>5. <<>> \in Seq(Functors)
        OBVIOUS
    <2>6. pending \in [Loops -> Seq(Functors)] /\ batch \in [Loops -> Seq(Functors)]
        BY <2>5 DEF Init
    <2>7. threadPos \in 0 .. Len(loops) /\ nextConnId \in 1 .. MaxConns + 1
          /\ backlog \in 0 .. MaxConns
        BY <2>3, ServerAssumption DEF Init
    <2>8. /\ loopOf \in [Conns -> Loops]
          /\ state \in [Conns -> {"kConnecting", "kConnected", "kDisconnecting", "kDisconnected"}]
          /\ phase \in [Loops -> {"off", "events", "functors", "ended"}]
        BY DEF Init, Loops
    <2>9. ran \in [Loops -> SUBSET Conns]
        BY DEF Init
    <2> QED
        BY <2>4, <2>6, <2>7, <2>8, <2>9 DEF TypeOK, Init
<1>5. Control
    BY ServerAssumption DEF Init, Control, NotStarted, Swapped, PoolRuns, Room, Loops
<1>6. ASSUME NEW c \in Conns PROVE c >= nextConnId /\ InOrder(c)
    <2>1. c >= nextConnId
        BY ServerAssumption DEF Init, Conns
    <2>2. Watches(c) /\ Unborn(c) /\ Establishes(c)
        BY <1>3 DEF Init, Watches, Unborn, Establishes, Opened
    <2> QED
        BY <1>3, <2>1, <2>2 DEF InOrder
<1>7. Connections!Init
    BY <1>6 DEF Connections!Init, Life, Init
<1> QED
    BY <1>4, <1>5, <1>6, <1>7 DEF IInv

(* Every step keeps the inductive invariant and is a step of ConnectionLife *)
(* or leaves all lives alone.                                               *)
LEMMA NextStep == IInv /\ [Next]_vars => IInv' /\ LifeStep
<1>1. ASSUME IInv, Next PROVE Fine
    <2>1. ASSUME NEW c \in Conns, DestroyConnection(c) PROVE Fine
        BY <1>1, <2>1, DestroyHereStep, DestroyThereStep
    <2>2. CASE Destructor
        BY <1>1, <2>1, <2>2, BeginDestroyStep, QuitNextLoopStep, EndDestroyStep DEF Destructor
    <2>3. ASSUME NEW c \in Conns,
                 \/ HandleClose(c) \/ HandleCloseAgain(c)
                 \/ Shutdown(c) \/ ShutdownTest(c) \/ ShutdownStore(c)
          PROVE  Fine
        BY <1>1, <2>3, HandleCloseStep, HandleCloseAgainStep, ShutdownStep, ShutdownTestStep,
           ShutdownStoreStep
    <2>4. ASSUME NEW l \in Loops, LoopStep(l) PROVE Fine
        BY <1>1, <2>4, SwapStep, RunFunctorStep, EndIterationStep DEF LoopStep
    <2> QED
        BY <1>1, <2>2, <2>3, <2>4, StartStep, PeerConnectsStep, AcceptStep, QuitBaseStep DEF Next
<1>2. ASSUME IInv, UNCHANGED vars PROVE Fine
    <2>1. TypeOK'
        BY <1>2 DEF IInv, TypeOK
    <2>2. Control'
        BY <1>2 DEF IInv, Control, NotStarted, Swapped, PoolRuns, Room, Serving
    <2>3. \A d \in Conns : Untouched(d)
        BY <1>2, SameQueues, SameUntouched
    <2> QED
        BY <1>2, <2>1, <2>2, <2>3, AllUntouched DEF Serving
<1> QED
    BY <1>1, <1>2 DEF Fine

(* The inductive invariant holds in every state.                            *)
LEMMA Inductive == Spec => []IInv
<1>1. Init => IInv
    BY InitInv
<1>2. IInv /\ [Next]_vars => IInv'
    BY NextStep
<1> QED
    BY <1>1, <1>2, PTL DEF Spec

(* Where a functor is queued follows from whether it is, and once.          *)
LEMMA QueuedIs ==
    ASSUME TypeOK, NEW f \in Kinds, NEW c \in Conns
    PROVE  /\ Functor(f, c) \in Waiting <=> Queued(f, c) # {}
           /\ Functor(f, c) \in Waiting /\ Once({Functor(f, c)})
                 => Cardinality(Queued(f, c)) = 1
<1> DEFINE g == Functor(f, c)
           P == {p \in Positions : Queue(p[1])[p[2]] = g}
<1>1. g \in Functors
    BY FunctorNames
<1>2. \A l \in Loops : Queues[l] = Queue(l)
    BY DEF Queues
<1>3. \A p : p \in Positions <=> \E l \in Loops : \E i \in DOMAIN Queue(l) : p = <<l, i>>
    BY DEF Positions
<1>4. ASSUME NEW p \in P PROVE g \in Waiting
    <2>1. PICK l \in Loops : \E i \in DOMAIN Queue(l) : p = <<l, i>>
        BY <1>3
    <2>2. PICK i \in DOMAIN Queue(l) : p = <<l, i>>
        BY <2>1
    <2>3. Queue(l)[i] = g
        BY <2>2
    <2> QED
        BY <1>1, <1>2, <2>3 DEF Waiting, FoundIn
<1>5. ASSUME g \in Waiting PROVE \E l \in Loops : \E i \in DOMAIN Queue(l) : Queue(l)[i] = g
    BY <1>2, <1>5 DEF Waiting, FoundIn
<1>6. ASSUME NEW l \in Loops, NEW i \in DOMAIN Queue(l), Queue(l)[i] = g PROVE <<l, i>> \in P
    BY <1>3, <1>6
<1>7. ASSUME g \in Waiting, Once({g}) PROVE Cardinality(P) = 1
    <2>1. PICK l \in Loops : \E i \in DOMAIN Queue(l) : Queue(l)[i] = g
        BY <1>5, <1>7
    <2>2. PICK i \in DOMAIN Queue(l) : Queue(l)[i] = g
        BY <2>1
    <2>3. <<l, i>> \in P
        BY <1>6, <2>2
    <2>4. ASSUME NEW p \in P PROVE p = <<l, i>>
        <3>1. PICK m \in Loops : \E j \in DOMAIN Queue(m) : p = <<m, j>>
            BY <1>3
        <3>2. PICK j \in DOMAIN Queue(m) : p = <<m, j>>
            BY <3>1
        <3>3. Queue(m)[j] = g
            BY <3>2
        <3> QED
            BY <1>2, <1>7, <2>2, <3>2, <3>3 DEF Once, OnceIn
    <2>5. P = {<<l, i>>}
        BY <2>3, <2>4
    <2> QED
        BY <2>5, FS_Singleton
<1>8. Queued(f, c) = P
    BY DEF Queued
<1> HIDE DEF P
<1>9. g \in Waiting => P # {}
    BY <1>5, <1>6
<1> QED
    BY <1>4, <1>7, <1>8, <1>9

(* Every variable of the server has its type.                               *)
THEOREM TypeCorrect == Spec => []TypeOK
<1>1. IInv => TypeOK
    BY DEF IInv
<1> QED
    BY <1>1, Inductive, PTL

(* Map, states and the queues of all loops account for every connection     *)
(* while the server serves: none is in the map without a way to open or to  *)
(* leave it, and none is removed or destroyed twice, although handleClose,  *)
(* the removal and the destruction of a connection run in different loops   *)
(* and other threads call shutdown(); one that a late shutdown() revived    *)
(* leaves the map all the same.                                             *)
THEOREM AccountedHolds == Spec => []Accounted
<1>1. IInv => Accounted
    <2> SUFFICES ASSUME IInv, server = "listening", NEW c \in Conns
        PROVE  LET est == Queued("connectEstablished", c)
                   rem == Queued("removeConnectionInLoop", c)
                   des == Queued("connectDestroyed", c)
               IN IF c >= nextConnId THEN ~Held(c) /\ est \cup rem \cup des = {}
                  ELSE IF c \in connections
                  THEN IF c \in watched
                       THEN /\ state[c] \in {"kConnected", "kDisconnecting"}
                            /\ est \cup rem \cup des = {}
                       ELSE IF state[c] = "kConnecting"
                       THEN Cardinality(est) = 1 /\ rem \cup des = {}
                       ELSE /\ est = {} /\ rem # {}
                            /\ c \notin revived => Cardinality(rem) = 1 /\ des = {}
                  ELSE /\ c \notin watched /\ state[c] # "kConnecting" /\ est = {}
                       /\ c \notin revived =>
                             state[c] = "kDisconnected" /\ rem = {} /\ Cardinality(des) <= 1
        BY DEF Accounted
    <2> DEFINE est == Queued("connectEstablished", c)
               rem == Queued("removeConnectionInLoop", c)
               des == Queued("connectDestroyed", c)
               e == Functor("connectEstablished", c)
               r == Functor("removeConnectionInLoop", c)
               d == Functor("connectDestroyed", c)
    <2>1. InOrder(c) /\ Serving /\ TypeOK
        BY DEF IInv, Serving
    <2>2. /\ e \in Core(c) /\ r \in Core(c) /\ d \in Core(c)
          /\ e # r /\ e # d /\ r # d
        BY FunctorNames DEF Kinds
    <2>3. \A f \in Core(c) : Once(Core(c)) => Once({f})
        BY DEF Once, OnceIn
    <2>4. /\ e \in Waiting <=> est # {}
          /\ r \in Waiting <=> rem # {}
          /\ d \in Waiting <=> des # {}
          /\ e \in Waiting /\ Once({e}) => Cardinality(est) = 1
          /\ r \in Waiting /\ Once({r}) => Cardinality(rem) = 1
          /\ d \in Waiting /\ Once({d}) => Cardinality(des) = 1
        BY <2>1, QueuedIs DEF Kinds
    <2>5. des = {} => Cardinality(des) = 0
        BY FS_EmptySet
    <2> HIDE DEF est, rem, des, e, r, d
    <2>6. CASE c >= nextConnId
        <3>1. ~Held(c)
            BY <2>1, <2>6, HeldIs DEF InOrder, Unborn, Kept, Watches
        <3>2. e \notin Waiting /\ r \notin Waiting /\ d \notin Waiting
            BY <2>1, <2>2, <2>6 DEF InOrder, Unborn, Core
        <3> QED
            BY <2>4, <2>6, <3>1, <3>2 DEF est, rem, des
    <2>7. CASE ~(c >= nextConnId) /\ c \in revived
        <3>1. c \notin watched /\ state[c] # "kConnecting" /\ Leaving(c)
            BY <2>1, <2>7 DEF InOrder, Watches
        <3>2. est = {} /\ (c \in connections => rem # {})
            BY <2>1, <2>4, <3>1 DEF InOrder, Establishes, Leaving, e, r
        <3> QED
            BY <2>7, <3>1, <3>2 DEF est, rem, des
    <2>8. CASE ~(c >= nextConnId) /\ c \notin revived
        <3>1. Once(Core(c)) /\ Account(c) /\ Watches(c)
            BY <2>1, <2>8 DEF InOrder
        <3>2. CASE c \in connections /\ c \in watched
            <4>1. Opened(c) /\ Waiting \cap Core(c) = {}
                BY <3>1, <3>2 DEF Account, Watches
            <4>2. est \cup rem \cup des = {}
                BY <2>2, <2>4, <4>1
            <4> QED
                BY <2>8, <3>2, <4>1, <4>2 DEF est, rem, des, Opened
        <3>3. CASE c \in connections /\ c \notin watched /\ state[c] = "kConnecting"
            <4>1. Waiting \cap Core(c) = {e}
                BY <3>1, <3>3 DEF Account, e
            <4>2. Cardinality(est) = 1 /\ rem \cup des = {}
                BY <2>2, <2>3, <2>4, <3>1, <4>1
            <4> QED
                BY <2>8, <3>3, <4>2 DEF est, rem, des
        <3>4. CASE c \in connections /\ c \notin watched /\ state[c] # "kConnecting"
            <4>1. state[c] = "kDisconnected"
                BY <2>1, <2>8, <3>1, <3>4 DEF Watches, TypeOK
            <4>2. Waiting \cap Core(c) = {r}
                BY <3>1, <3>4, <4>1 DEF Account, r
            <4>3. est = {} /\ rem # {} /\ Cardinality(rem) = 1 /\ des = {}
                BY <2>2, <2>3, <2>4, <3>1, <4>2
            <4> QED
                BY <2>8, <3>4, <4>3 DEF est, rem, des
        <3>5. CASE c \notin connections
            <4>1. state[c] = "kDisconnected" /\ Waiting \cap Core(c) \subseteq {d}
                BY <3>1, <3>5 DEF Account, d
            <4>2. c \notin watched
                BY <3>1, <4>1 DEF Watches, Opened
            <4>3. est = {} /\ rem = {} /\ Cardinality(des) <= 1
                BY <2>2, <2>3, <2>4, <2>5, <3>1, <4>1
            <4> QED
                BY <2>8, <3>5, <4>1, <4>2, <4>3 DEF est, rem, des
        <3> QED
            BY <3>2, <3>3, <3>4, <3>5
    <2> QED
        BY <2>6, <2>7, <2>8
<1> QED
    BY <1>1, Inductive, PTL

(* The server implements the life of connections: over all interleavings of *)
(* its loops a connection is accepted, opened, closed and forgotten once,   *)
(* in this order, and none is destroyed while it is open except by the      *)
(* destructor of the server.                                                *)
THEOREM ImplementsLife == Spec => LifeSpec
<1>1. Init => Connections!Init
    BY InitInv
<1>2. IInv /\ [Next]_vars
          => [Connections!Next]_<<server \in {"new", "listening"}, [c \in Conns |-> Life(c)]>>
    BY NextStep DEF LifeStep, Lives, Serving
<1> QED
    BY <1>1, <1>2, Inductive, PTL DEF Spec, LifeSpec, Connections!Spec
=============================================================================
