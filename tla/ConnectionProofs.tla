-------------------------- MODULE ConnectionProofs --------------------------
(***************************************************************************)
(* For every set of threads and messages, every message length and high-   *)
(* water mark: the types of TcpConnection, the agreement of the watched    *)
(* events with the output buffer, the pairing of the callbacks, the order  *)
(* of data and half close and the stream of units that reaches the socket. *)
(* And for every set of forms of requests, of any number of headers and    *)
(* length of body: that HttpServer, which a connection feeds, hands each   *)
(* request to its callback whole, wherever the stream was cut.             *)
(***************************************************************************)
EXTENDS TcpConnection, HttpServer, FiniteSetTheorems, DataLemmas, TLAPS

USE DEF vars, channel, socket, user

Unit == Msgs \X (1 .. MsgLen)

-----------------------------------------------------------------------------
(* Types.                                                                   *)

(* A message is MsgLen units.                                              *)
LEMMA UnitsType ==
  ASSUME NEW m \in Msgs
  PROVE  Units(m) \in Seq(Unit) /\ Len(Units(m)) = MsgLen
<1>1. MsgLen \in Nat
  BY ConnectionAssumption
<1>2. Units(m) \in [1 .. MsgLen -> Unit]
  BY <1>1 DEF Units, Unit
<1> QED
  BY <1>1, <1>2, SeqDef DEF Units

(* Both parts of a cut have the elements of the whole.                      *)
LEMMA SubSeqType ==
  ASSUME NEW S, NEW s \in Seq(S), NEW n \in 0 .. Len(s)
  PROVE  /\ SubSeq(s, 1, n) \in Seq(S)
         /\ SubSeq(s, n + 1, Len(s)) \in Seq(S)
         /\ Len(SubSeq(s, n + 1, Len(s))) = Len(s) - n
<1>1. Len(s) \in Nat /\ \A i \in 1 .. Len(s) : s[i] \in S
  BY LenProperties, ElementOfSeq
<1>2. SubSeq(s, 1, n) \in Seq(S)
  BY <1>1, SubSeqProperties
<1>3. /\ SubSeq(s, n + 1, Len(s)) \in Seq(S)
      /\ Len(SubSeq(s, n + 1, Len(s))) = Len(s) - n
  BY <1>1, SubSeqProperties
<1> QED
  BY <1>2, <1>3

(* The functors that are not connectEstablished.                           *)
Later == Functors \ {Do("established")}

(* What is queued is a functor; only connectEstablished is of its kind.     *)
LEMMA FunctorTypes ==
  /\ \A k \in {"destroyed", "shutdown", "writeComplete", "highWater"} : Do(k) \in Later
  /\ \A m \in Msgs : [kind |-> "send", msg |-> m] \in Later
  /\ Do("established") \in Functors
  /\ \A f \in Functors : f.kind = "established" => f = Do("established")
  /\ \A f \in Functors : f.kind = "send" => f.msg \in Msgs
<1>1. \A k \in {"destroyed", "shutdown", "writeComplete", "highWater"} : Do(k) \in Later
  BY DEF Later, Functors, Do
<1>2. \A m \in Msgs : [kind |-> "send", msg |-> m] \in Later
  BY DEF Later, Functors, Do
<1>3. Do("established") \in Functors
  BY DEF Functors, Do
<1>4. \A f \in Functors : f.kind = "established" => f = Do("established")
  BY DEF Functors, Do
<1>5. \A f \in Functors : f.kind = "send" => f.msg \in Msgs
  BY DEF Functors
<1> QED
  BY <1>1, <1>2, <1>3, <1>4, <1>5

(* A write queues later functors only.                                      *)
LEMMA AfterWriteType ==
  ASSUME NEW rest \in Nat
  PROVE  AfterWrite(rest) \in Seq(Later)
  BY FunctorTypes DEF AfterWrite

(* The initial state has the types.                                        *)
LEMMA TypeInit == Init => TypeOK
<1> SUFFICES ASSUME Init PROVE TypeOK
  OBVIOUS
<1>1. /\ <<>> \in Seq(Unit) /\ <<>> \in Seq(Msgs)
      /\ pending \in Seq(Functors)
  BY FunctorTypes DEF Init, Do
<1> QED
  BY <1>1 DEF Init, TypeOK, Unit

(* sendInLoop keeps the types of what it changes.                          *)
LEMMA SendInLoopType ==
  ASSUME TypeOK, NEW m \in Msgs, NEW queue \in Seq(Functors), SendInLoop(m, queue)
  PROVE  /\ pending' \in Seq(Functors)
         /\ out' \in Seq(Unit) /\ wire' \in Seq(Unit)
         /\ writing' \in BOOLEAN
         /\ taken' \in Seq(Msgs)
         /\ wrShut' = wrShut /\ unread' = unread
         /\ killed' \in BOOLEAN
         /\ peer' \in {"open", "fin", "reset", "gone"}
<1>1. ASSUME NEW n \in 0 .. MsgLen, Write(Units(m), n)
      PROVE  /\ wire' \in Seq(Unit) /\ wrShut' = wrShut /\ unread' = unread
             /\ killed' \in BOOLEAN /\ peer' \in {"open", "fin", "reset", "gone"}
  <2>1. SubSeq(Units(m), 1, n) \in Seq(Unit)
    BY UnitsType, SubSeqType
  <2>2. wire' \in Seq(Unit)
    BY <1>1, <2>1, ConcatProperties DEF Write, TypeOK, Unit
  <2>3. wrShut' = wrShut /\ unread' = unread
    BY <1>1 DEF Write
  <2>4. killed' \in BOOLEAN
    BY <1>1 DEF Write, Broken, TypeOK
  <2>5. peer' \in {"open", "fin", "reset", "gone"}
    BY <1>1 DEF Write, TypeOK
  <2> QED
    BY <2>2, <2>3, <2>4, <2>5
<1>2. ASSUME NEW n \in 0 .. MsgLen, n # 0,
             pending' = queue \o AfterWrite(MsgLen - n),
             out' = SubSeq(Units(m), n + 1, MsgLen),
             writing' = (n < MsgLen),
             taken' = Append(taken, m)
      PROVE  /\ pending' \in Seq(Functors) /\ out' \in Seq(Unit)
             /\ writing' \in BOOLEAN /\ taken' \in Seq(Msgs)
  <2>1. MsgLen - n \in Nat
    BY ConnectionAssumption
  <2>2. AfterWrite(MsgLen - n) \in Seq(Functors)
    BY <2>1, AfterWriteType DEF Later
  <2>3. out' \in Seq(Unit)
    BY <1>2, UnitsType, SubSeqType
  <2>4. pending' \in Seq(Functors)
    BY <1>2, <2>2, ConcatProperties
  <2>5. taken' \in Seq(Msgs)
    BY <1>2, AppendProperties DEF TypeOK
  <2> QED
    BY <1>2, <2>3, <2>4, <2>5
<1>3. ASSUME pending' = queue, UNCHANGED <<out, writing, taken>>
      PROVE  /\ pending' \in Seq(Functors) /\ out' \in Seq(Unit)
             /\ writing' \in BOOLEAN /\ taken' \in Seq(Msgs)
  BY <1>3 DEF TypeOK, Unit
<1>4. ASSUME NEW n \in 0 .. MsgLen, Write(Units(m), n),
             IF n = 0
             THEN pending' = queue /\ UNCHANGED <<out, writing, taken>>
             ELSE /\ pending' = queue \o AfterWrite(MsgLen - n)
                  /\ out' = SubSeq(Units(m), n + 1, MsgLen)
                  /\ writing' = (n < MsgLen)
                  /\ taken' = Append(taken, m)
      PROVE  /\ pending' \in Seq(Functors) /\ out' \in Seq(Unit) /\ wire' \in Seq(Unit)
             /\ writing' \in BOOLEAN /\ taken' \in Seq(Msgs)
             /\ wrShut' = wrShut /\ unread' = unread
             /\ killed' \in BOOLEAN
             /\ peer' \in {"open", "fin", "reset", "gone"}
  BY <1>1, <1>2, <1>3, <1>4, Zenon
<1>5. ASSUME pending' = queue, UNCHANGED <<out, writing, taken, socket>>
      PROVE  /\ wire' \in Seq(Unit) /\ wrShut' = wrShut /\ unread' = unread
             /\ killed' \in BOOLEAN /\ peer' \in {"open", "fin", "reset", "gone"}
  BY <1>5 DEF TypeOK, Unit
<1> QED
  BY <1>3, <1>4, <1>5, Zenon DEF SendInLoop

(* Handling an event only takes callbacks away.                            *)
LEMMA CallbackType ==
  ASSUME NEW c, calls \subseteq {"close", "error", "read", "write"}, Callback(c)
  PROVE  calls' \subseteq {"close", "error", "read", "write"}
  BY DEF Callback

(* Every step keeps the types.                                             *)
LEMMA TypeStep == TypeOK /\ [Next]_vars => TypeOK'
<1> SUFFICES ASSUME TypeOK, [Next]_vars PROVE TypeOK'
  OBVIOUS
<1> USE DEF TypeOK
<1>0. /\ \A k \in {"destroyed", "shutdown", "writeComplete", "highWater"} :
            Append(pending, Do(k)) \in Seq(Functors)
      /\ pending # <<>> => /\ Head(pending) \in Functors
                           /\ Tail(pending) \in Seq(Functors)
  BY FunctorTypes, AppendProperties, HeadTailProperties DEF Later
<1>1. CASE PeerSends
  BY <1>1 DEF PeerSends
<1>2. CASE PeerCloses
  <2>1. peer' \in {"open", "fin", "reset", "gone"}
    BY <1>2 DEF PeerCloses
  <2>2. unread' \in BOOLEAN
    <3>1. unread' = IF peer' = "reset" THEN FALSE ELSE unread
      BY <1>2 DEF PeerCloses
    <3> QED BY <3>1
  <2> QED
    BY <1>2, <2>1, <2>2, ZenonT(40) DEF PeerCloses
<1>3. ASSUME NEW m \in Msgs, LoopSend(m) PROVE TypeOK'
  BY <1>3, SendInLoopType DEF LoopSend, Unit
<1>4. CASE LoopShutdown
  BY <1>4 DEF LoopShutdown, ShutdownInLoop
<1>5. ASSUME NEW u \in Users, UserTest(u) PROVE TypeOK'
  <2>1. PICK call \in Fresh \cup {"shutdown"} : pcU' = [pcU EXCEPT ![u] = call]
    BY <1>5 DEF UserTest
  <2>2. pcU' \in [Users -> {"idle", "shutdown"} \cup Msgs]
    BY <2>1 DEF Fresh
  <2> QED
    BY <1>5, <2>2 DEF UserTest
<1>6. ASSUME NEW u \in Users, UserSend(u) PROVE TypeOK'
  <2>1. pending' \in Seq(Functors)
    BY <1>6, FunctorTypes, AppendProperties DEF UserSend, Later
  <2> QED
    BY <1>6, <2>1 DEF UserSend
<1>7. ASSUME NEW u \in Users, UserShutdown(u) PROVE TypeOK'
  BY <1>0, <1>7 DEF UserShutdown
<1>8. ASSUME NEW room \in BOOLEAN, Poll(room) PROVE TypeOK'
  <2>1. calls' \subseteq {"close", "error", "read", "write"}
    BY <1>8 DEF Poll, CallbacksOf
  <2>2. UNCHANGED <<state, reading, writing, out, pending, pcU, removal, destroyed, socket,
                    taken, closed, revived, user>>
    BY <1>8 DEF Poll
  <2> QED
    BY <2>1, <2>2
<1>9. CASE HandleHangUp
  <2>1. calls' \subseteq {"close", "error", "read", "write"}
    BY <1>9, CallbackType DEF HandleHangUp
  <2>2. /\ state' = "kDisconnected" /\ reading' = FALSE /\ writing' = FALSE
        /\ closed' = TRUE /\ removal' = TRUE /\ downs' \in Nat
    BY <1>9 DEF HandleHangUp, HandleClose
  <2>3. UNCHANGED <<ups, out, pending, pcU, destroyed, socket, taken, revived>>
    BY <1>9 DEF HandleHangUp, HandleClose
  <2> QED
    BY <2>1, <2>2, <2>3
<1>10. CASE HandleError
  BY <1>10, CallbackType DEF HandleError
<1>11. CASE HandleRead
  <2>1. calls' \subseteq {"close", "error", "read", "write"}
    BY <1>11, CallbackType DEF HandleRead
  <2>2. /\ state' \in {"kConnecting", "kConnected", "kDisconnecting", "kDisconnected"}
        /\ reading' \in BOOLEAN /\ writing' \in BOOLEAN
        /\ closed' \in BOOLEAN /\ removal' \in BOOLEAN /\ unread' \in BOOLEAN
    BY <1>11 DEF HandleRead, HandleClose
  <2>3. /\ peer' \in {"open", "fin", "reset", "gone"}
        /\ ups' \in Nat /\ downs' \in Nat
    BY <1>11 DEF HandleRead, HandleClose
  <2>4. UNCHANGED <<out, pending, pcU, destroyed, wire, wrShut, killed, taken, revived>>
    BY <1>11 DEF HandleRead
  <2> QED
    BY <2>1, <2>2, <2>3, <2>4
<1>12. CASE HandleWrite
  <2>1. ASSUME writing,
               NEW n \in 0 .. Len(out),
               wire' = wire \o SubSeq(out, 1, n),
               out' = SubSeq(out, n + 1, Len(out))
        PROVE  wire' \in Seq(Unit) /\ out' \in Seq(Unit)
    <3>1. SubSeq(out, 1, n) \in Seq(Unit) /\ out' \in Seq(Unit)
      BY <2>1, SubSeqType DEF Unit
    <3> QED
      BY <2>1, <3>1, ConcatProperties DEF Unit
  <2>2. /\ wire' \in Seq(Unit) /\ out' \in Seq(Unit)
        /\ pending' \in Seq(Functors)
        /\ writing' \in BOOLEAN /\ wrShut' \in BOOLEAN /\ killed' \in BOOLEAN
        /\ peer' \in {"open", "fin", "reset", "gone"}
    <3>1. CASE writing
      <4>1. PICK n \in 0 .. Len(out) :
               /\ wire' = wire \o SubSeq(out, 1, n)
               /\ out' = SubSeq(out, n + 1, Len(out))
               /\ writing' = (n < Len(out))
               /\ pending' = IF n = Len(out) THEN Append(pending, Do("writeComplete"))
                             ELSE pending
               /\ wrShut' = (wrShut \/ (n = Len(out) /\ state = "kDisconnected"))
        BY <1>12, <3>1 DEF HandleWrite
      <4>2. /\ killed' \in BOOLEAN
            /\ peer' \in {"open", "fin", "reset", "gone"}
        BY <1>12, <3>1 DEF HandleWrite, Broken
      <4>3. wire' \in Seq(Unit) /\ out' \in Seq(Unit)
        BY <2>1, <3>1, <4>1
      <4>4. pending' \in Seq(Functors) /\ writing' \in BOOLEAN /\ wrShut' \in BOOLEAN
        BY <1>0, <4>1
      <4> QED
        BY <4>2, <4>3, <4>4
    <3>2. CASE ~writing
      BY <1>12, <3>2 DEF HandleWrite, Unit
    <3> QED
      BY <3>1, <3>2
  <2>3. calls' \subseteq {"close", "error", "read", "write"}
    BY <1>12, CallbackType DEF HandleWrite
  <2> QED
    BY <1>12, <2>2, <2>3 DEF HandleWrite, Unit
<1>13. CASE ConnectEstablished
  BY <1>0, <1>13 DEF ConnectEstablished, Run
<1>14. CASE RunSend
  <2>1. Head(pending).msg \in Msgs /\ Tail(pending) \in Seq(Functors)
    BY <1>0, <1>14, FunctorTypes DEF RunSend, Run
  <2> QED
    BY <1>14, <2>1, SendInLoopType, ZenonT(40) DEF RunSend, Unit
<1>15. CASE RunShutdown
  <2>1. pending' \in Seq(Functors)
    BY <1>0, <1>15, HeadTailProperties DEF RunShutdown, Run
  <2>2. wrShut' \in BOOLEAN
    BY <1>0, <1>15 DEF RunShutdown, ShutdownInLoop
  <2> QED
    BY <1>0, <1>15, <2>1, <2>2 DEF RunShutdown
<1>16. CASE RunUserCallback
  BY <1>0, <1>16 DEF RunUserCallback, Run
<1>17. CASE ConnectDestroyed
  <2>1. pending' \in Seq(Functors)
    BY <1>0, <1>17 DEF ConnectDestroyed, Run
  <2>2. /\ state' \in {"kConnecting", "kConnected", "kDisconnecting", "kDisconnected"}
        /\ reading' \in BOOLEAN /\ writing' \in BOOLEAN
        /\ closed' \in BOOLEAN /\ destroyed' \in BOOLEAN
        /\ downs' \in Nat
    <3>1. destroyed' = TRUE
      BY <1>17 DEF ConnectDestroyed
    <3>2. CASE state = "kConnected"
      <4>1. /\ state' = "kDisconnected" /\ reading' = FALSE /\ writing' = FALSE
            /\ closed' = TRUE /\ downs' = downs + 1
        BY <1>17, <3>2 DEF ConnectDestroyed
      <4>2. downs' \in Nat
        BY <4>1
      <4> QED
        BY <3>1, <4>1, <4>2, Zenon
    <3>3. CASE state # "kConnected"
      <4>1. UNCHANGED <<state, reading, writing, closed, downs>>
        BY <1>17, <3>3 DEF ConnectDestroyed
      <4> QED
        BY <3>1, <4>1
    <3> QED
      BY <3>2, <3>3
  <2>3. UNCHANGED <<calls, out, pcU, removal, socket, taken, revived, ups>>
    BY <1>17 DEF ConnectDestroyed
  <2> QED
    BY <2>1, <2>2, <2>3
<1>18. CASE ServerRemoves \/ ServerDestroys
  <2>1. QueueDestroyed
    BY <1>18 DEF ServerRemoves, ServerDestroys
  <2>2. pending' \in Seq(Functors)
    BY <1>0, <2>1 DEF QueueDestroyed
  <2>3. UNCHANGED <<state, channel, out, pcU, removal, destroyed, socket, taken, closed,
                    revived, user>>
    BY <2>1 DEF QueueDestroyed
  <2> QED
    BY <2>2, <2>3
<1>19. CASE UNCHANGED vars
  BY <1>19
<1> QED
  BY <1>1, <1>2, <1>3, <1>4, <1>5, <1>6, <1>7, <1>8, <1>9, <1>10, <1>11, <1>12, <1>13,
     <1>14, <1>15, <1>16, <1>17, <1>18, <1>19
  DEF Next, UserStep, HandleEvent, RunFunctor


-----------------------------------------------------------------------------
(* The inductive invariant.                                                 *)

\* Until connectEstablished runs, it is the only thing that can happen.
Before ==
    ups = 0 =>
      /\ pending = <<Do("established")>>
      /\ state = "kConnecting" /\ ~reading /\ ~writing /\ calls = {} /\ out = <<>>
      /\ ~removal /\ ~closed /\ ~revived /\ downs = 0
      /\ \A u \in Users : pcU[u] = "idle"

\* It runs once.
After ==
    ups # 0 => ups = 1 /\ state # "kConnecting" /\ pending \in Seq(Later)

\* One event does not both close and read.
OneEnd == ~({"close", "read"} \subseteq calls)

\* After its end the connection is silent, unless its state was revived.
Over ==
    closed /\ ~revived =>
      /\ state = "kDisconnected" /\ downs = 1
      /\ ~reading /\ ~writing
      /\ calls \cap {"close", "read"} = {}

\* Until its end it has had no down callback and watches what it must.
Open ==
    ~closed =>
      /\ state # "kDisconnected" /\ ~revived /\ downs = 0
      /\ writing <=> out # <<>>

Inv == TypeOK /\ Before /\ After /\ OneEnd /\ Over /\ Open

(* The initial state satisfies the invariant.                               *)
LEMMA InvInit == Init => Inv
<1> SUFFICES ASSUME Init PROVE Inv
  OBVIOUS
<1>1. TypeOK
  BY TypeInit
<1>2. Before /\ After /\ OneEnd
  BY DEF Init, Before, After, OneEnd, Do
<1>3. Over /\ Open
  BY DEF Init, Over, Open
<1> QED
  BY <1>1, <1>2, <1>3 DEF Inv

(* Nothing of the invariant is disturbed by a step that changes none of its *)
(* variables but takes callbacks away.                                      *)
LEMMA QuietStep ==
  ASSUME Inv, calls' \subseteq calls,
         UNCHANGED <<state, reading, writing, out, pending, pcU, removal, closed, revived, user>>
  PROVE  Before' /\ After' /\ OneEnd' /\ Over' /\ Open'
<1>1. Before'
  BY DEF Inv, Before
<1>2. After'
  BY DEF Inv, After
<1>3. OneEnd'
  BY DEF Inv, OneEnd
<1>4. Over'
  BY DEF Inv, Over
<1>5. Open'
  BY DEF Inv, Open
<1> QED
  BY <1>1, <1>2, <1>3, <1>4, <1>5

(* The end of the connection in an event: its first, or a revived one's.    *)
LEMMA EndStep ==
  ASSUME Inv, NEW c \in {"close", "read"}, Callback(c), HandleClose,
         UNCHANGED <<out, pending, pcU, revived>>
  PROVE  Before' /\ After' /\ OneEnd' /\ Over' /\ Open'
<1>1. ups # 0 /\ UNCHANGED ups
  BY DEF Inv, Before, Callback, HandleClose
<1>2. Before'
  BY <1>1 DEF Before
<1>3. After'
  BY <1>1 DEF Inv, After, HandleClose
<1>4. calls' \cap {"close", "read"} = {}
  BY DEF Inv, OneEnd, Callback
<1>5. OneEnd'
  BY <1>4 DEF OneEnd
<1>6. ~revived => downs = 0
  BY DEF Inv, Over, Open, Callback
<1>7. Over'
  BY <1>4, <1>6 DEF Over, HandleClose
<1>8. Open'
  BY DEF Open, HandleClose
<1> QED
  BY <1>2, <1>3, <1>5, <1>7, <1>8

(* A functor queued on a connection that is up.                             *)
LEMMA QueueStep ==
  ASSUME Inv, ups # 0, NEW f \in Later, pending' = Append(pending, f)
  PROVE  pending' \in Seq(Later)
  BY AppendProperties DEF Inv, After

(* The functor that the loop takes is a later one once the connection is up. *)
LEMMA RunStep ==
  ASSUME Inv, NEW kind, kind # "established", Run(kind)
  PROVE  ups # 0 /\ Head(pending) \in Later /\ Tail(pending) \in Seq(Later)
<1>1. ups # 0
  BY DEF Inv, Before, Run, Do
<1>2. pending \in Seq(Later) /\ pending # <<>>
  BY <1>1 DEF Inv, After, Run
<1> QED
  BY <1>1, <1>2, HeadTailProperties

(* sendInLoop of a connection that is up: EPOLLOUT is watched if and only if *)
(* something of the message is left.                                        *)
LEMMA SendStep ==
  ASSUME Inv, ups # 0, NEW m \in Msgs, NEW queue \in Seq(Later), SendInLoop(m, queue),
         UNCHANGED <<state, reading, calls, pcU, removal, closed, revived, user>>
  PROVE  Before' /\ After' /\ OneEnd' /\ Over' /\ Open'
<1>1. CASE state = "kDisconnected" \/ writing \/ out # <<>>
  <2>1. pending' = queue /\ UNCHANGED <<out, writing>>
    BY <1>1 DEF SendInLoop
  <2> QED
    BY <2>1 DEF Inv, Before, After, OneEnd, Over, Open
<1>2. CASE ~(state = "kDisconnected" \/ writing \/ out # <<>>)
  <2>1. PICK n \in 0 .. MsgLen :
           IF n = 0
           THEN pending' = queue /\ UNCHANGED <<out, writing, taken>>
           ELSE /\ pending' = queue \o AfterWrite(MsgLen - n)
                /\ out' = SubSeq(Units(m), n + 1, MsgLen)
                /\ writing' = (n < MsgLen)
                /\ taken' = Append(taken, m)
    BY <1>2 DEF SendInLoop
  <2>2. CASE n = 0
    BY <2>1, <2>2 DEF Inv, Before, After, OneEnd, Over, Open
  <2>3. CASE n # 0
    <3>1. MsgLen - n \in Nat
      BY ConnectionAssumption
    <3>2. pending' \in Seq(Later)
      BY <2>1, <2>3, <3>1, AfterWriteType, ConcatProperties
    <3>3. out' \in Seq(Unit) /\ Len(out') = MsgLen - n
      <4>1. n \in 0 .. MsgLen /\ out' = SubSeq(Units(m), n + 1, MsgLen)
        BY <2>1, <2>3
      <4>2. Units(m) \in Seq(Unit) /\ Len(Units(m)) = MsgLen
        BY UnitsType
      <4> QED BY <4>1, <4>2, SubSeqType, ZenonT(40)
    <3>4. writing' <=> out' # <<>>
      <4>1. writing' <=> n < MsgLen
        BY <2>1, <2>3
      <4>2. out' = <<>> <=> Len(out') = 0
        BY <3>3, EmptySeq
      <4> QED
        BY <3>1, <3>3, <4>1, <4>2, ConnectionAssumption
    <3>5. Before' /\ After' /\ OneEnd'
      BY <3>2 DEF Inv, Before, After, OneEnd
    <3>6. Over'
      BY <1>2 DEF Inv, Over
    <3>7. Open'
      BY <3>4 DEF Inv, Open
    <3> QED
      BY <3>5, <3>6, <3>7
  <2> QED
    BY <2>2, <2>3
<1> QED
  BY <1>1, <1>2

(* handleWrite while EPOLLOUT is watched.                                   *)
LEMMA WriteStep ==
  ASSUME Inv, HandleWrite, writing
  PROVE  Before' /\ After' /\ OneEnd' /\ Over' /\ Open'
<1>1. ups # 0 /\ calls' \subseteq calls
  BY DEF Inv, Before, HandleWrite, Callback
<1>2. UNCHANGED <<state, reading, pcU, removal, closed, revived, user>>
  BY DEF HandleWrite
<1>3. PICK n \in 0 .. Len(out) :
         /\ out' = SubSeq(out, n + 1, Len(out))
         /\ writing' = (n < Len(out))
         /\ pending' = IF n = Len(out) THEN Append(pending, Do("writeComplete")) ELSE pending
  BY DEF HandleWrite
<1>4. out \in Seq(Unit) /\ Len(out) \in Nat
  BY LenProperties DEF Inv, TypeOK, Unit
<1>5. out' \in Seq(Unit) /\ Len(out') = Len(out) - n
  BY <1>3, <1>4, SubSeqType
<1>6. writing' <=> out' # <<>>
  <2>1. writing' <=> n < Len(out)
    BY <1>3
  <2>2. out' = <<>> <=> Len(out') = 0
    BY <1>5, EmptySeq
  <2> QED
    BY <1>4, <1>5, <2>1, <2>2
<1>7. pending' \in Seq(Later)
  BY <1>1, <1>3, QueueStep, FunctorTypes DEF Inv, After
<1>8. Before' /\ After' /\ OneEnd'
  BY <1>1, <1>2, <1>7 DEF Inv, Before, After, OneEnd
<1>9. Over'
  BY <1>2 DEF Inv, Over
<1>10. Open'
  BY <1>2, <1>6 DEF Inv, Open
<1> QED
  BY <1>8, <1>9, <1>10

(* Every step keeps the invariant.                                          *)
LEMMA InvStep == Inv /\ [Next]_vars => Inv'
<1> SUFFICES ASSUME Inv, [Next]_vars PROVE Inv'
  OBVIOUS
<1> DEFINE Life == Before /\ After /\ OneEnd /\ Over /\ Open
<1>0. TypeOK'
  BY TypeStep DEF Inv
<1> SUFFICES Life'
  BY <1>0 DEF Inv
<1>1. CASE PeerSends \/ PeerCloses \/ HandleError
  <2>1. calls' \subseteq calls
    BY <1>1 DEF PeerSends, PeerCloses, HandleError, Callback
  <2>2. UNCHANGED <<state, reading, writing, out, pending, pcU, removal, closed, revived, user>>
    BY <1>1 DEF PeerSends, PeerCloses, HandleError
  <2> QED
    BY <2>1, <2>2, QuietStep
<1>2. ASSUME NEW m \in Msgs, LoopSend(m) PROVE Life'
  <2>1. ups # 0 /\ pending \in Seq(Later)
    BY <1>2 DEF LoopSend, Inv, After
  <2> QED
    BY <1>2, <2>1, SendStep DEF LoopSend
<1>3. CASE LoopShutdown
  <2>1. ups # 0 /\ state = "kConnected" /\ state' = "kDisconnecting"
    BY <1>3 DEF LoopShutdown
  <2>2. UNCHANGED <<channel, out, pending, pcU, removal, closed, revived, user>>
    BY <1>3 DEF LoopShutdown
  <2> QED
    BY <2>1, <2>2 DEF Inv, Before, After, OneEnd, Over, Open
<1>4. ASSUME NEW u \in Users, UserTest(u) PROVE Life'
  <2>1. /\ ups # 0
        /\ UNCHANGED <<state, channel, out, pending, removal, closed, revived, user>>
    BY <1>4 DEF UserTest
  <2> QED
    BY <2>1 DEF Inv, Before, After, OneEnd, Over, Open
<1>5. ASSUME NEW u \in Users, UserSend(u) PROVE Life'
  <2>1. ups # 0
    BY <1>5, ConnectionAssumption DEF UserSend, Inv, Before
  <2>2. pending' \in Seq(Later)
    BY <1>5, <2>1, QueueStep, FunctorTypes DEF UserSend
  <2>3. UNCHANGED <<state, channel, out, removal, closed, revived, user>>
    BY <1>5 DEF UserSend
  <2> QED
    BY <2>1, <2>2, <2>3 DEF Inv, Before, After, OneEnd, Over, Open
<1>6. ASSUME NEW u \in Users, UserShutdown(u) PROVE Life'
  <2>1. ups # 0
    BY <1>6 DEF UserShutdown, Inv, Before
  <2>2. pending' \in Seq(Later)
    BY <1>6, <2>1, QueueStep, FunctorTypes DEF UserShutdown
  <2>3. /\ state' = "kDisconnecting"
        /\ revived' = (revived \/ state = "kDisconnected")
        /\ UNCHANGED <<channel, out, removal, closed, user>>
    BY <1>6 DEF UserShutdown
  <2>4. Before' /\ After' /\ OneEnd'
    BY <2>1, <2>2, <2>3 DEF Inv, Before, After, OneEnd
  <2>5. Over'
    BY <2>3 DEF Inv, Over
  <2>6. Open'
    BY <2>3 DEF Inv, Open
  <2> QED
    BY <2>4, <2>5, <2>6
<1>7. ASSUME NEW room \in BOOLEAN, Poll(room) PROVE Life'
  <2>1. (reading \/ writing) /\ OneEnd'
    BY <1>7 DEF Poll, CallbacksOf, OneEnd
  <2>2. UNCHANGED <<state, reading, writing, out, pending, pcU, removal, closed, revived, user>>
    BY <1>7 DEF Poll
  <2>3. Before' /\ After'
    BY <2>1, <2>2 DEF Inv, Before, After
  <2>4. Over' /\ Open'
    BY <2>1, <2>2 DEF Inv, Over, Open
  <2> QED
    BY <2>1, <2>3, <2>4
<1>8. CASE HandleHangUp
  BY <1>8, EndStep DEF HandleHangUp
<1>9. CASE HandleRead
  <2>1. Callback("read") /\ UNCHANGED <<out, pending, pcU, revived>>
    BY <1>9 DEF HandleRead
  <2>2. CASE HandleClose
    BY <2>1, <2>2, EndStep
  <2>3. CASE ~HandleClose
    <3>1. calls' \subseteq calls
      BY <2>1 DEF Callback
    <3>2. UNCHANGED <<state, reading, writing, removal, closed, user>>
      BY <1>9, <2>3 DEF HandleRead
    <3> QED
      BY <2>1, <3>1, <3>2, QuietStep
  <2> QED
    BY <2>2, <2>3
<1>10. CASE HandleWrite
  <2>1. CASE writing
    BY <1>10, <2>1, WriteStep
  <2>2. CASE ~writing
    <3>1. calls' \subseteq calls
      BY <1>10 DEF HandleWrite, Callback
    <3>2. UNCHANGED <<state, reading, writing, out, pending, pcU, removal, closed, revived, user>>
      BY <1>10, <2>2 DEF HandleWrite
    <3> QED
      BY <3>1, <3>2, QuietStep
  <2> QED
    BY <2>1, <2>2
<1>11. CASE ConnectEstablished
  <2>1. ups = 0
    <3>1. \A f \in Later : f.kind # "established"
      BY FunctorTypes DEF Later
    <3>2. pending \in Seq(Later) /\ pending # <<>> => Head(pending) \in Later
      BY HeadTailProperties
    <3> QED
      BY <1>11, <3>1, <3>2 DEF ConnectEstablished, Run, Inv, After
  <2>2. pending' = <<>>
    <3>1. pending = <<Do("established")>>
      BY <2>1 DEF Inv, Before
    <3>2. pending' = Tail(pending)
      BY <1>11 DEF ConnectEstablished
    <3>3. Tail(<<Do("established")>>) = <<>>
      OBVIOUS
    <3> QED BY <3>1, <3>2, <3>3, Zenon
  <2>3. /\ state' = "kConnected" /\ ups' = 1
        /\ UNCHANGED <<writing, calls, out, closed, revived, downs>>
    BY <1>11, <2>1 DEF ConnectEstablished
  <2>4. Before' /\ After' /\ OneEnd'
    BY <2>2, <2>3 DEF Inv, Before, After, OneEnd
  <2>5. Over' /\ Open'
    BY <2>1, <2>3 DEF Inv, Before, Over, Open
  <2> QED
    BY <2>4, <2>5
<1>12. CASE RunSend
  <2>1. ups # 0 /\ Head(pending) \in Later /\ Tail(pending) \in Seq(Later)
    BY <1>12, RunStep DEF RunSend
  <2>2. Head(pending).msg \in Msgs
    BY <1>12, <2>1, FunctorTypes DEF RunSend, Run, Later
  <2> QED
    BY <1>12, <2>1, <2>2, SendStep DEF RunSend
<1>13. CASE RunShutdown \/ RunUserCallback
  <2>1. ups # 0 /\ Tail(pending) \in Seq(Later)
    BY <1>13, RunStep DEF RunShutdown, RunUserCallback
  <2>2. /\ pending' = Tail(pending)
        /\ UNCHANGED <<state, channel, out, pcU, removal, closed, revived, user>>
    BY <1>13 DEF RunShutdown, RunUserCallback
  <2> QED
    BY <2>1, <2>2 DEF Inv, Before, After, OneEnd, Over, Open
<1>14. CASE ConnectDestroyed
  <2>1. ups # 0 /\ calls = {} /\ Tail(pending) \in Seq(Later)
    BY <1>14, RunStep DEF ConnectDestroyed, Run
  <2>2. pending' = Tail(pending) /\ UNCHANGED <<calls, out, pcU, removal, revived, ups>>
    BY <1>14 DEF ConnectDestroyed
  <2>3. CASE state = "kConnected"
    <3>1. /\ state' = "kDisconnected" /\ ~reading' /\ ~writing'
          /\ closed' /\ downs' = downs + 1
      BY <1>14, <2>3 DEF ConnectDestroyed
    <3>2. ~revived => downs = 0
      BY <2>3 DEF Inv, Over, Open
    <3>3. Before' /\ After' /\ OneEnd'
      BY <2>1, <2>2, <3>1 DEF Inv, Before, After, OneEnd
    <3>4. Over' /\ Open'
      BY <2>1, <2>2, <3>1, <3>2 DEF Over, Open
    <3> QED
      BY <3>3, <3>4
  <2>4. CASE state # "kConnected"
    <3>1. UNCHANGED <<state, reading, writing, closed, downs>>
      BY <1>14, <2>4 DEF ConnectDestroyed
    <3> QED
      BY <2>1, <2>2, <3>1 DEF Inv, Before, After, OneEnd, Over, Open
  <2> QED
    BY <2>3, <2>4
<1>15. CASE ServerRemoves \/ ServerDestroys
  <2>1. ups # 0 /\ QueueDestroyed
    BY <1>15 DEF ServerRemoves, ServerDestroys, Inv, Before
  <2>2. /\ pending' \in Seq(Later)
        /\ UNCHANGED <<state, channel, out, pcU, removal, closed, revived, user>>
    BY <2>1, QueueStep, FunctorTypes DEF QueueDestroyed
  <2> QED
    BY <2>1, <2>2 DEF Inv, Before, After, OneEnd, Over, Open
<1>16. CASE UNCHANGED vars
  BY <1>16, QuietStep
<1> QED
  BY <1>1, <1>2, <1>3, <1>4, <1>5, <1>6, <1>7, <1>8, <1>9, <1>10, <1>11, <1>12, <1>13,
     <1>14, <1>15, <1>16
  DEF Next, UserStep, HandleEvent, RunFunctor

(* The invariant holds in every behaviour.                                  *)
LEMMA Invariance == Spec => []Inv
  BY InvInit, InvStep, PTL DEF Spec

-----------------------------------------------------------------------------
(* The stream.                                                              *)

Sent == [i \in DOMAIN taken |-> Units(taken[i])]

(* What was accepted is a sequence of messages, each a sequence of units.   *)
LEMMA SentType ==
  ASSUME taken \in Seq(Msgs)
  PROVE  Sent \in Seq(Seq(Unit)) /\ Len(Sent) = Len(taken)
<1>1. Len(taken) \in Nat /\ DOMAIN taken = 1 .. Len(taken)
  BY LenProperties
<1>2. \A i \in 1 .. Len(taken) : Units(taken[i]) \in Seq(Unit)
  BY <1>1, UnitsType, ElementOfSeq
<1>3. Sent \in [1 .. Len(taken) -> Seq(Unit)]
  BY <1>1, <1>2 DEF Sent
<1> QED
  BY <1>1, <1>3, SeqDef DEF Sent

(* An accepted message is the last of what was accepted.                    *)
LEMMA SentAppend ==
  ASSUME taken \in Seq(Msgs), NEW m \in Msgs, taken' = Append(taken, m)
  PROVE  Sent' = Append(Sent, Units(m))
<1>1. /\ taken' \in Seq(Msgs) /\ Len(taken') = Len(taken) + 1 /\ Len(taken) \in Nat
      /\ \A i \in 1 .. Len(taken) : taken'[i] = taken[i]
      /\ taken'[Len(taken) + 1] = m
  BY AppendProperties, LenProperties
<1>2. Sent \in Seq(Seq(Unit)) /\ Len(Sent) = Len(taken)
  BY SentType
<1>3. Sent' \in Seq(Seq(Unit)) /\ Len(Sent') = Len(taken) + 1
  <2>1. Len(taken') \in Nat /\ DOMAIN taken' = 1 .. Len(taken')
    BY <1>1, LenProperties
  <2>2. \A i \in 1 .. Len(taken') : Units(taken'[i]) \in Seq(Unit)
    BY <1>1, <2>1, UnitsType, ElementOfSeq
  <2>3. Sent' \in [1 .. Len(taken') -> Seq(Unit)]
    BY <2>1, <2>2 DEF Sent
  <2> QED
    BY <1>1, <2>1, <2>3, SeqDef DEF Sent
<1>4. DOMAIN taken = 1 .. Len(taken) /\ DOMAIN taken' = 1 .. Len(taken) + 1
  BY <1>1, LenProperties
<1>5. \A i \in 1 .. Len(taken) + 1 :
         Sent'[i] = IF i <= Len(taken) THEN Sent[i] ELSE Units(m)
  BY <1>1, <1>4 DEF Sent
<1>6. Units(m) \in Seq(Unit)
  BY UnitsType
<1> DEFINE t == Append(Sent, Units(m))
<1>7. /\ t \in Seq(Seq(Unit)) /\ Len(t) = Len(taken) + 1
      /\ \A i \in 1 .. Len(taken) : t[i] = Sent[i]
      /\ t[Len(taken) + 1] = Units(m)
  BY <1>2, <1>6, AppendProperties
<1>8. \A i \in 1 .. Len(taken) + 1 : t[i] = Sent'[i]
  BY <1>1, <1>5, <1>7
<1> HIDE DEF t
<1>9. t = Sent'
  BY <1>1, <1>3, <1>7, <1>8, SeqEqual
<1> QED
  BY <1>9 DEF t

(* The two parts of a cut are the whole again.                              *)
LEMMA CutConcat ==
  ASSUME NEW S, NEW s \in Seq(S), NEW n \in 0 .. Len(s)
  PROVE  SubSeq(s, 1, n) \o SubSeq(s, n + 1, Len(s)) = s
<1>1. Len(s) \in Nat
  BY LenProperties
<1>2. n \in 1 - 1 .. Len(s) /\ 1 \in 1 .. Len(s) + 1 /\ Len(s) \in n .. Len(s)
  BY <1>1
<1>3. SubSeq(s, 1, n) \o SubSeq(s, n + 1, Len(s)) = SubSeq(s, 1, Len(s))
  BY <1>2, ConcatAdjacentSubSeq
<1>4. SubSeq(s, 1, Len(s)) = s
  BY SubSeqFull
<1> QED
  BY <1>3, <1>4, Zenon

(* A write of a buffer that takes n of its units neither loses nor repeats  *)
(* one: socket and rest together hold what they held.                       *)
LEMMA WriteWhole ==
  ASSUME NEW w \in Seq(Unit), NEW s \in Seq(Unit), NEW n \in 0 .. Len(s)
  PROVE  (w \o SubSeq(s, 1, n)) \o SubSeq(s, n + 1, Len(s)) = w \o s
<1> DEFINE a == SubSeq(s, 1, n)
           b == SubSeq(s, n + 1, Len(s))
<1>1. a \in Seq(Unit) /\ b \in Seq(Unit)
  BY SubSeqType
<1>2. a \o b = s
  BY CutConcat
<1> HIDE DEF a, b
<1>3. (w \o a) \o b = w \o (a \o b)
  BY <1>1, ConcatAssociative
<1>4. (w \o a) \o b = w \o s
  BY <1>2, <1>3
<1> QED
  BY <1>4 DEF a, b

StreamInv == wire \o out = FlattenSeq(Sent)

(* sendInLoop keeps the stream whole, whatever write() takes of the message. *)
LEMMA StreamSend ==
  ASSUME TypeOK, StreamInv, NEW m \in Msgs, NEW queue, SendInLoop(m, queue)
  PROVE  StreamInv'
<1>1. CASE UNCHANGED <<wire, out, taken>>
  BY <1>1 DEF StreamInv, Sent
<1>2. ASSUME NEW n \in 0 .. MsgLen, n # 0, out = <<>>,
             wire' = wire \o SubSeq(Units(m), 1, n),
             out' = SubSeq(Units(m), n + 1, MsgLen),
             taken' = Append(taken, m)
      PROVE  StreamInv'
  <2>1. Units(m) \in Seq(Unit) /\ Len(Units(m)) = MsgLen
    BY UnitsType
  <2>2. wire \in Seq(Unit) /\ taken \in Seq(Msgs)
    BY DEF TypeOK, Unit
  <2>3. wire' \o out' = wire \o Units(m)
    BY <1>2, <2>1, <2>2, WriteWhole
  <2>4. Sent' = Append(Sent, Units(m))
    BY <1>2, <2>2, SentAppend
  <2>5. FlattenSeq(Sent') = FlattenSeq(Sent) \o Units(m)
    BY <2>1, <2>2, <2>4, SentType, FlattenAppend
  <2>6. wire = FlattenSeq(Sent)
    BY <1>2, <2>2, ConcatEmptySeq DEF StreamInv
  <2>7. wire' \o out' = FlattenSeq(Sent')
    BY <2>3, <2>5, <2>6
  <2> QED
    BY <2>7 DEF StreamInv
<1>3. ASSUME NEW n \in 0 .. MsgLen, Write(Units(m), n), out = <<>>,
             IF n = 0
             THEN pending' = queue /\ UNCHANGED <<out, writing, taken>>
             ELSE /\ pending' = queue \o AfterWrite(MsgLen - n)
                  /\ out' = SubSeq(Units(m), n + 1, MsgLen)
                  /\ writing' = (n < MsgLen)
                  /\ taken' = Append(taken, m)
      PROVE  StreamInv'
  <2>1. wire' = wire \o SubSeq(Units(m), 1, n)
    BY <1>3 DEF Write
  <2>2. CASE n = 0
    <3>1. SubSeq(Units(m), 1, n) = <<>>
      BY <2>2, UnitsType, SubSeqEmpty
    <3>2. wire' = wire
      BY <2>1, <3>1, ConcatEmptySeq DEF TypeOK
    <3> QED
      BY <1>1, <1>3, <2>2, <3>2
  <2>3. CASE n # 0
    BY <1>2, <1>3, <2>1, <2>3
  <2> QED
    BY <2>2, <2>3
<1> QED
  BY <1>1, <1>3, Zenon DEF SendInLoop

(* Every step keeps the stream whole: only sendInLoop and handleWrite touch  *)
(* the buffer and the socket.                                               *)
LEMMA StreamStep == Inv /\ StreamInv /\ [Next]_vars => StreamInv'
<1> SUFFICES ASSUME Inv, StreamInv, [Next]_vars PROVE StreamInv'
  OBVIOUS
<1>0. TypeOK
  BY DEF Inv
<1>1. CASE UNCHANGED <<wire, out, taken>>
  BY <1>1 DEF StreamInv, Sent
<1>2. ASSUME NEW m \in Msgs, LoopSend(m) PROVE StreamInv'
  BY <1>0, <1>2, StreamSend DEF LoopSend
<1>3. CASE RunSend
  <2>1. Head(pending) \in Later
    BY <1>3, RunStep DEF RunSend
  <2>2. Head(pending).msg \in Msgs
    BY <1>3, <2>1, FunctorTypes DEF RunSend, Run, Later
  <2> QED
    BY <1>0, <1>3, <2>2, StreamSend DEF RunSend
<1>4. CASE HandleWrite
  <2>1. CASE writing
    <3>1. PICK n \in 0 .. Len(out) :
             /\ wire' = wire \o SubSeq(out, 1, n)
             /\ out' = SubSeq(out, n + 1, Len(out))
      BY <1>4, <2>1 DEF HandleWrite
    <3>2. wire \in Seq(Unit) /\ out \in Seq(Unit)
      BY <1>0 DEF TypeOK, Unit
    <3>3. wire' \o out' = wire \o out
      BY <3>1, <3>2, WriteWhole
    <3>4. Sent' = Sent
      BY <1>4 DEF HandleWrite, Sent
    <3> QED
      BY <3>3, <3>4 DEF StreamInv
  <2>2. CASE ~writing
    BY <1>1, <1>4, <2>2 DEF HandleWrite
  <2> QED
    BY <2>1, <2>2
<1>5. CASE PeerSends \/ PeerCloses \/ LoopShutdown
  BY <1>1, <1>5 DEF PeerSends, PeerCloses, LoopShutdown
<1>6. CASE \E u \in Users : UserStep(u)
  BY <1>1, <1>6 DEF UserStep, UserTest, UserSend, UserShutdown
<1>7. CASE \E room \in BOOLEAN : Poll(room)
  BY <1>1, <1>7 DEF Poll
<1>8. CASE HandleHangUp \/ HandleError \/ HandleRead
  BY <1>1, <1>8 DEF HandleHangUp, HandleError, HandleRead
<1>9. CASE ConnectEstablished \/ RunShutdown \/ RunUserCallback \/ ConnectDestroyed
  BY <1>1, <1>9 DEF ConnectEstablished, RunShutdown, RunUserCallback, ConnectDestroyed
<1>10. CASE ServerRemoves \/ ServerDestroys
  BY <1>1, <1>10 DEF ServerRemoves, ServerDestroys, QueueDestroyed
<1>11. CASE UNCHANGED vars
  BY <1>1, <1>11
<1> QED
  BY <1>2, <1>3, <1>4, <1>5, <1>6, <1>7, <1>8, <1>9, <1>10, <1>11
  DEF Next, HandleEvent, RunFunctor

-----------------------------------------------------------------------------
(* The theorems.                                                            *)

\* The variables have their types: handlers and functors, whatever write()
\* takes of a message, leave buffers of units and queues of functors.
THEOREM TypeCorrect == Spec => []TypeOK
<1>1. Inv => TypeOK
  BY DEF Inv
<1> QED
  BY <1>1, Invariance, PTL

\* EPOLLOUT is watched exactly while there is something to write, and nothing
\* is watched after the end (sendInLoop, handleWrite, handleClose,
\* connectDestroyed).
THEOREM EventsMatch == Spec => []EventsMatchBuffer
<1>1. Inv => EventsMatchBuffer
  BY DEF Inv, Over, Open, EventsMatchBuffer
<1> QED
  BY <1>1, Invariance, PTL

\* connectionCallback is called once up and once down, whichever of handleRead,
\* handleClose and connectDestroyed ends the connection first, unless the late
\* store of a shutdown() revived it.
THEOREM Pairing == Spec => []CallbackPairing
<1>1. Inv => CallbackPairing
  <2> SUFFICES ASSUME Inv, ~revived PROVE ups <= 1 /\ downs <= ups /\ (closed <=> downs = 1)
    BY DEF CallbackPairing
  <2>1. CASE ups = 0
    BY <2>1 DEF Inv, Before
  <2>2. CASE ups # 0
    BY <2>2 DEF Inv, After, Over, Open
  <2> QED
    BY <2>1, <2>2
<1> QED
  BY <1>1, Invariance, PTL

\* What the socket has taken followed by the output buffer is the accepted
\* messages, each whole and once, in the order of their acceptance, wherever
\* the writes of sendInLoop and handleWrite cut them.
THEOREM StreamWholeHolds == Spec => []StreamWhole
<1>1. Init => StreamInv
  <2> SUFFICES ASSUME Init PROVE StreamInv
    OBVIOUS
  <2>1. wire \o out = <<>>
    BY DEF Init
  <2>2. taken = <<>> /\ taken \in Seq(Msgs)
    BY DEF Init
  <2>3. Sent \in Seq(Seq(Unit)) /\ Len(Sent) = 0
    BY <2>2, SentType, EmptySeq
  <2>4. Sent = <<>>
    BY <2>3, EmptySeq
  <2> QED
    BY <2>1, <2>4, FlattenEmpty DEF StreamInv
<1>2. StreamInv => StreamWhole
  BY DEF StreamInv, StreamWhole, Sent
<1> QED
  BY <1>1, <1>2, StreamStep, Invariance, PTL DEF Spec

\* Until the connection has ended, the write side is shut only with an empty
\* output buffer (shutdownInLoop, handleWrite).
THEOREM HalfClose == Spec => HalfCloseAfterData
<1>1. Inv /\ [Next]_vars => [wrShut' /\ ~wrShut => out' = <<>> \/ closed]_vars
  <2> SUFFICES ASSUME Inv, Next, wrShut', ~wrShut, ~closed PROVE out' = <<>>
    OBVIOUS
  <2>1. ShutdownInLoop /\ UNCHANGED out => out' = <<>>
    BY DEF ShutdownInLoop, Inv, Open
  <2>2. CASE HandleWrite
    <3>1. PICK n \in 0 .. Len(out) :
             /\ out' = SubSeq(out, n + 1, Len(out))
             /\ wrShut' = (wrShut \/ (n = Len(out) /\ state = "kDisconnected"))
      BY <2>2 DEF HandleWrite
    <3>2. out \in Seq(Unit) /\ n = Len(out) /\ Len(out) \in Nat
      BY <3>1, LenProperties DEF Inv, TypeOK, Unit
    <3>3. out' \in Seq(Unit) /\ Len(out') = 0
      BY <3>1, <3>2, SubSeqType
    <3> QED
      BY <3>3, EmptySeq
  <2>3. CASE LoopShutdown \/ RunShutdown
    BY <2>1, <2>3 DEF LoopShutdown, RunShutdown
  <2>4. CASE (\E m \in Msgs : LoopSend(m)) \/ RunSend
    BY <2>4 DEF LoopSend, RunSend, SendInLoop, Write
  <2>5. CASE \E u \in Users : UserStep(u)
    BY <2>5 DEF UserStep, UserTest, UserSend, UserShutdown
  <2>6. CASE PeerSends \/ PeerCloses \/ \E room \in BOOLEAN : Poll(room)
    BY <2>6 DEF PeerSends, PeerCloses, Poll
  <2>7. CASE HandleHangUp \/ HandleError \/ HandleRead
    BY <2>7 DEF HandleHangUp, HandleError, HandleRead
  <2>8. CASE ConnectEstablished \/ RunUserCallback \/ ConnectDestroyed
    BY <2>8 DEF ConnectEstablished, RunUserCallback, ConnectDestroyed
  <2>9. CASE ServerRemoves \/ ServerDestroys
    BY <2>9 DEF ServerRemoves, ServerDestroys, QueueDestroyed
  <2> QED
    BY <2>2, <2>3, <2>4, <2>5, <2>6, <2>7, <2>8, <2>9 DEF Next, HandleEvent, RunFunctor
<1> QED
  BY <1>1, Invariance, PTL DEF Spec, HalfCloseAfterData

-----------------------------------------------------------------------------
(* HttpServer: the text of a request and its place in the stream            *)

\* The tokens a stream can hold.
Tokens == [kind : Lines \cup Fields \cup {"CR", "LF", "body"}, of : 1 .. MaxRequests]

\* The requests of the peer: a part of the type invariant.
AllRequests == requests \in [1 .. MaxRequests -> Shapes]

\* t[i] for every i in the text t of request r.
IsText(r, t) ==
    LET n == Len(requests[r].fields) IN
    /\ t \in Seq(Tokens)
    /\ Len(t) = 3 * n + 5 + requests[r].body
    /\ t[1] = Token(requests[r].line, r)
    /\ \A j \in 1 .. n : t[3 * j + 1] = Token(requests[r].fields[j], r)
    /\ \A j \in 0 .. n : t[3 * j + 2] = Token("CR", r)
    /\ t[3 * n + 4] = Token("CR", r)
    /\ \A i \in 1 .. requests[r].body : t[3 * n + 5 + i] = Token("body", r)
    /\ \A i \in 2 .. Len(t) : t[i].kind \notin Lines

\* A request has the form the assumption on Shapes gives it.
LEMMA RequestType ==
    ASSUME AllRequests, NEW r \in 1 .. MaxRequests
    PROVE  /\ requests[r].line \in Lines /\ requests[r].fields \in Seq(Fields)
           /\ requests[r].query \in BOOLEAN /\ requests[r].body \in Nat
           /\ Len(requests[r].fields) \in 0 .. MaxFields
<1>1. requests[r] \in Shapes
    BY DEF AllRequests
<1>2. requests[r] \in [line : Lines, fields : Seq(Fields), query : BOOLEAN, body : Nat]
    BY <1>1, ShapeAssumption
<1>3. Len(requests[r].fields) <= MaxFields
    BY <1>1, ShapeAssumption
<1>4. requests[r].fields \in Seq(Fields)
    BY <1>2
<1>5. Len(requests[r].fields) \in Nat
    BY <1>4
<1> QED BY <1>2, <1>3, <1>5, ShapeAssumption

\* Text, the parts of a request joined by concatenation, is that.
LEMMA TextIs ==
    ASSUME AllRequests, NEW r \in 1 .. MaxRequests
    PROVE  IsText(r, Text(r))
<1> DEFINE q == requests[r]
           n == Len(q.fields)
           L(k) == <<Token(k, r), Token("CR", r), Token("LF", r)>>
           s == [j \in 1 .. n |-> L(q.fields[j])]
           T == {t \in Tokens : t.kind \notin Lines}
           A == L(q.line)
           F == FlattenSeq(s)
           C == <<Token("CR", r), Token("LF", r)>>
           D == [i \in 1 .. q.body |-> Token("body", r)]
<1>1. q.line \in Lines /\ q.fields \in Seq(Fields) /\ q.body \in Nat /\ n \in Nat
    BY RequestType
<1>2. Text(r) = A \o F \o C \o D
  <2>1. DOMAIN q.fields = 1 .. n
    BY <1>1
  <2> QED BY <2>1 DEF Text
<1>3. \A k \in Lines \cup Fields \cup {"CR", "LF", "body"} :
        Token(k, r) \in Tokens /\ Token(k, r).kind = k
    BY DEF Token, Tokens
<1>4. \A k \in Fields \cup {"CR", "LF", "body"} : k \notin Lines
    BY DEF Fields, Lines
<1>5. \A k \in Fields : L(k) \in Seq(T)
    BY <1>3, <1>4
<1>6. s \in [1 .. n -> Seq(T)] /\ \A j \in 1 .. n : s[j] = L(q.fields[j]) /\ Len(s[j]) = 3
  <2>1. \A j \in 1 .. n : q.fields[j] \in Fields
    BY <1>1
  <2> HIDE DEF T
  <2> QED BY <1>5, <2>1
<1>7. /\ F \in Seq(T) /\ Len(F) = 3 * n
      /\ \A j \in 1 .. n : \A i \in 1 .. 3 : F[3 * (j - 1) + i] = L(q.fields[j])[i]
  <2>1. \A j \in 1 .. n : Len(s[j]) = 3
    BY <1>6
  <2>2. s \in [1 .. n -> Seq(T)]
    BY <1>6
  <2> HIDE DEF n, s, T, L
  <2>3. /\ F \in Seq(T) /\ Len(F) = 3 * n
        /\ \A j \in 1 .. n : \A i \in 1 .. 3 : F[3 * (j - 1) + i] = s[j][i]
    BY <1>1, <2>1, <2>2, FlattenThrees, ZenonT(40)
  <2> QED BY <1>6, <2>3
<1>8. /\ A \in Seq(Tokens) /\ Len(A) = 3 /\ A[1] = Token(q.line, r)
      /\ A[2] = Token("CR", r) /\ A[3] = Token("LF", r)
    BY <1>1, <1>3
<1>9. C \in Seq(T) /\ Len(C) = 2 /\ C[1] = Token("CR", r)
    BY <1>3, <1>4
<1>10. /\ D \in Seq(T) /\ Len(D) = q.body
       /\ \A i \in 1 .. q.body : D[i] = Token("body", r)
  <2>1. Len(D) = q.body /\ \A i \in 1 .. q.body : D[i] = Token("body", r)
    BY <1>1, <1>3
  <2>2. \A i \in 1 .. q.body : Token("body", r) \in T
    BY <1>3, <1>4
  <2> HIDE DEF T
  <2>3. D \in Seq(T)
    BY <1>1, <2>2
  <2> QED BY <2>1, <2>3
<1> DEFINE t == A \o F \o C \o D
<1>11. /\ T \subseteq Tokens /\ Seq(T) \subseteq Seq(Tokens)
       /\ \A z \in T : z.kind \notin Lines
    OBVIOUS
<1> HIDE DEF A, F, C, D, T
<1>12. /\ t \in Seq(Tokens) /\ Len(t) = Len(A) + Len(F) + Len(C) + Len(D)
       /\ \A i \in 1 .. Len(A) : t[i] = A[i]
       /\ \A i \in 1 .. Len(F) : t[Len(A) + i] = F[i]
       /\ \A i \in 1 .. Len(C) : t[Len(A) + Len(F) + i] = C[i]
       /\ \A i \in 1 .. Len(D) : t[Len(A) + Len(F) + Len(C) + i] = D[i]
  <2>1. A \in Seq(Tokens) /\ F \in Seq(Tokens) /\ C \in Seq(Tokens) /\ D \in Seq(Tokens)
    BY <1>7, <1>8, <1>9, <1>10, <1>11
  <2>2. t \in Seq(Tokens) /\ IsFour(t, A, F, C, D)
    BY <2>1, ConcatFour
  <2> HIDE DEF t
  <2> QED BY <2>2 DEF IsFour
<1> HIDE DEF t, n, L
<1>13. /\ Len(t) = 3 * n + 5 + q.body
       /\ \A i \in 1 .. 3 : t[i] = A[i]
       /\ \A i \in 1 .. 3 * n : t[3 + i] = F[i]
       /\ \A i \in 1 .. 2 : t[3 + 3 * n + i] = C[i]
       /\ \A i \in 1 .. q.body : t[3 * n + 5 + i] = D[i]
    BY <1>1, <1>7, <1>8, <1>9, <1>10, <1>12
<1>14. ASSUME NEW j \in 1 .. n
       PROVE  t[3 * j + 1] = Token(q.fields[j], r) /\ t[3 * j + 2] = Token("CR", r)
  <2>1. /\ 3 * (j - 1) + 1 \in 1 .. 3 * n /\ 3 * (j - 1) + 2 \in 1 .. 3 * n
        /\ 3 + (3 * (j - 1) + 1) = 3 * j + 1 /\ 3 + (3 * (j - 1) + 2) = 3 * j + 2
    BY <1>1
  <2>2. L(q.fields[j])[1] = Token(q.fields[j], r) /\ L(q.fields[j])[2] = Token("CR", r)
    BY DEF L
  <2>3. t[3 * j + 1] = F[3 * (j - 1) + 1] /\ t[3 * j + 2] = F[3 * (j - 1) + 2]
    BY <1>13, <2>1
  <2>4. F[3 * (j - 1) + 1] = L(q.fields[j])[1] /\ F[3 * (j - 1) + 2] = L(q.fields[j])[2]
    BY <1>7
  <2> QED BY <2>2, <2>3, <2>4
<1>15. ASSUME NEW i \in 2 .. Len(t) PROVE t[i].kind \notin Lines
  <2>1. CASE i \in 2 .. 3
    <3>1. t[i] = Token("CR", r) \/ t[i] = Token("LF", r)
      BY <1>8, <1>13, <2>1
    <3> QED BY <1>3, <1>4, <3>1
  <2>2. CASE i \in 4 .. 3 + 3 * n
    <3>1. i - 3 \in 1 .. 3 * n /\ 3 + (i - 3) = i
      BY <1>1, <2>2
    <3>2. t[i] = F[i - 3]
      BY <1>13, <3>1
    <3>3. F[i - 3] \in T
      <4>1. \A k \in 1 .. 3 * n : F[k] \in T
        BY <1>7
      <4> QED BY <3>1, <4>1
    <3> QED BY <1>11, <3>2, <3>3
  <2>3. CASE i \in 3 + 3 * n + 1 .. 3 + 3 * n + 2
    <3>1. i - (3 + 3 * n) \in 1 .. 2 /\ 3 + 3 * n + (i - (3 + 3 * n)) = i
      BY <1>1, <2>3
    <3>2. t[i] = C[i - (3 + 3 * n)]
      BY <1>13, <3>1
    <3>3. C[i - (3 + 3 * n)] \in T
      <4>1. \A k \in 1 .. 2 : C[k] \in T
        BY <1>9
      <4> QED BY <3>1, <4>1
    <3> QED BY <1>11, <3>2, <3>3
  <2>4. CASE i \in 3 * n + 5 + 1 .. 3 * n + 5 + q.body
    <3>1. i - (3 * n + 5) \in 1 .. q.body /\ 3 * n + 5 + (i - (3 * n + 5)) = i
      BY <1>1, <2>4
    <3>2. t[i] = D[i - (3 * n + 5)]
      BY <1>13, <3>1
    <3>3. D[i - (3 * n + 5)] \in T
      <4>1. \A k \in 1 .. q.body : D[k] \in T
        BY <1>10
      <4> QED BY <3>1, <4>1
    <3> QED BY <1>11, <3>2, <3>3
  <2> QED BY <1>1, <1>13, <2>1, <2>2, <2>3, <2>4
<1>16. t[2] = Token("CR", r) /\ t[1] = Token(q.line, r) /\ t[3 * n + 4] = Token("CR", r)
  <2>1. 3 + 3 * n + 1 = 3 * n + 4
    BY <1>1
  <2> QED BY <1>8, <1>9, <1>13, <2>1
<1>17. ASSUME NEW j \in 0 .. n PROVE t[3 * j + 2] = Token("CR", r)
  <2>1. CASE j = 0
    BY <1>16, <2>1
  <2>2. CASE j # 0
    BY <1>14, <2>2
  <2> QED BY <2>1, <2>2
<1>18. IsText(r, t)
    BY <1>10, <1>12, <1>13, <1>14, <1>15, <1>16, <1>17 DEF IsText, n
<1> QED BY <1>2, <1>18 DEF t

\* Where j headers of request r end.
FieldsEnd(r, j) == End(r - 1) + 3 * (1 + j)

\* The place of request r in the stream.
Layout(r) ==
    LET n == Len(requests[r].fields) IN
    /\ End(r - 1) \in Nat /\ HeaderEnd(r) \in Nat
    /\ HeaderEnd(r) = FieldsEnd(r, n) + 2
    /\ End(r) = HeaderEnd(r) + requests[r].body /\ End(r) <= Len(Stream)
    /\ Stream[End(r - 1) + 1] = Token(requests[r].line, r)
    /\ Stream[End(r - 1) + 2] = Token("CR", r)
    /\ \A j \in 0 .. n - 1 :
         /\ Stream[FieldsEnd(r, j) + 1] = Token(requests[r].fields[j + 1], r)
         /\ Stream[FieldsEnd(r, j) + 2] = Token("CR", r)
    /\ Stream[FieldsEnd(r, n) + 1] = Token("CR", r)
    /\ \A i \in 1 .. requests[r].body : Stream[HeaderEnd(r) + i] = Token("body", r)

\* The stream is the texts, and what could be taken for a request line is one.
StreamLayout ==
    /\ Stream \in Seq(Tokens)
    /\ End(0) = 0 /\ End(MaxRequests) = Len(Stream)
    /\ \A r \in 1 .. MaxRequests : Layout(r)
    /\ \A p \in 1 .. Len(Stream) : Stream[p].kind \in Lines =>
         /\ Stream[p].of \in 1 .. MaxRequests
         /\ p = End(Stream[p].of - 1) + 1

\* A request ends where the one before it ends and its own text is added.
LEMMA EndIs ==
    ASSUME AllRequests
    PROVE  /\ \A r \in 0 .. MaxRequests : End(r) \in Nat
           /\ Ends([r \in 0 .. MaxRequests |-> End(r)], [r \in 1 .. MaxRequests |-> Text(r)],
                   MaxRequests)
<1> DEFINE S(r) == [q \in 1 .. r |-> Text(q)]
           e == [r \in 0 .. MaxRequests |-> End(r)]
           s == [r \in 1 .. MaxRequests |-> Text(r)]
<1>1. MaxRequests \in Nat
    BY ShapeAssumption
<1>2. \A q \in 1 .. MaxRequests : Text(q) \in Seq(Tokens)
    BY TextIs DEF IsText
<1>3. \A r \in 0 .. MaxRequests : S(r) \in Seq(Seq(Tokens))
    BY <1>1, <1>2
<1>4. \A r \in 0 .. MaxRequests : End(r) = Len(FlattenSeq(S(r)))
    BY DEF End
<1>5. \A r \in 0 .. MaxRequests : FlattenSeq(S(r)) \in Seq(Tokens)
  <2> HIDE DEF S
  <2> QED BY <1>3, FlattenType
<1>6. \A r \in 0 .. MaxRequests : End(r) \in Nat
  <2> HIDE DEF S
  <2> QED BY <1>4, <1>5
<1>7. End(0) = 0
  <2>1. S(0) = <<>>
    OBVIOUS
  <2>2. 0 \in 0 .. MaxRequests
    BY <1>1
  <2> HIDE DEF S
  <2>3. Len(FlattenSeq(S(0))) = 0
    BY <2>1, FlattenEmpty
  <2> QED BY <1>4, <2>2, <2>3
<1>8. ASSUME NEW r \in 1 .. MaxRequests PROVE End(r) = End(r - 1) + Len(Text(r))
  <2>1. r \in Nat /\ r - 1 \in Nat /\ r \in 0 .. MaxRequests /\ r - 1 \in 0 .. MaxRequests
    BY <1>1
  <2>2. S(r) = Append(S(r - 1), Text(r))
    <3>1. S(r) \in Seq(Seq(Tokens)) /\ Len(S(r)) = r /\ \A i \in 1 .. r : S(r)[i] = Text(i)
      BY <1>3, <2>1
    <3>2. /\ S(r - 1) \in Seq(Seq(Tokens)) /\ Len(S(r - 1)) = r - 1
          /\ \A i \in 1 .. r - 1 : S(r - 1)[i] = Text(i)
      BY <1>3, <2>1
    <3> HIDE DEF S
    <3>3. Text(r) \in Seq(Tokens)
      BY <1>2
    <3>4. /\ Append(S(r - 1), Text(r)) \in Seq(Seq(Tokens))
          /\ Len(Append(S(r - 1), Text(r))) = r
          /\ \A i \in 1 .. r - 1 : Append(S(r - 1), Text(r))[i] = Text(i)
          /\ Append(S(r - 1), Text(r))[r] = Text(r)
      BY <2>1, <3>2, <3>3, AppendProperties
    <3>5. \A i \in 1 .. r : S(r)[i] = Append(S(r - 1), Text(r))[i]
      BY <2>1, <3>1, <3>4
    <3> QED BY <3>1, <3>4, <3>5, SeqEqual
  <2> HIDE DEF S
  <2>3. FlattenSeq(S(r)) = FlattenSeq(S(r - 1)) \o Text(r)
    BY <1>2, <1>3, <2>1, <2>2, FlattenAppend
  <2>4. FlattenSeq(S(r - 1)) \in Seq(Tokens) /\ Text(r) \in Seq(Tokens)
    BY <1>2, <1>5, <2>1
  <2>5. Len(FlattenSeq(S(r))) = Len(FlattenSeq(S(r - 1))) + Len(Text(r))
    BY <2>3, <2>4
  <2>6. End(r) = Len(FlattenSeq(S(r))) /\ End(r - 1) = Len(FlattenSeq(S(r - 1)))
    BY <1>4, <2>1
  <2> QED BY <2>5, <2>6
<1>9. Ends(e, s, MaxRequests)
  <2>1. e[0] = 0
    BY <1>1, <1>7
  <2>2. ASSUME NEW k \in 1 .. MaxRequests PROVE e[k] = e[k - 1] + Len(s[k])
    <3>1. k \in 0 .. MaxRequests /\ k - 1 \in 0 .. MaxRequests
      BY <1>1
    <3>2. e[k] = End(k) /\ e[k - 1] = End(k - 1) /\ s[k] = Text(k)
      BY <3>1
    <3> QED BY <1>8, <3>2
  <2> QED BY <2>1, <2>2 DEF Ends
<1> QED BY <1>6, <1>9

\* FlattenSeq puts the requests where Layout says, for every number of them.
LEMMA StreamIs ==
    ASSUME AllRequests
    PROVE  StreamLayout
<1> DEFINE s == [r \in 1 .. MaxRequests |-> Text(r)]
           e == [r \in 0 .. MaxRequests |-> End(r)]
<1>1. MaxRequests \in Nat
    BY ShapeAssumption
<1>2. \A q \in 1 .. MaxRequests :
        IsText(q, Text(q)) /\ Text(q) \in Seq(Tokens) /\ s[q] = Text(q)
    BY TextIs DEF IsText
<1>3. s \in [1 .. MaxRequests -> Seq(Tokens)] /\ s \in Seq(Seq(Tokens))
    BY <1>1, <1>2
<1>4. Stream = FlattenSeq(s)
    BY DEF Stream, AllRequests
<1>5. Stream \in Seq(Tokens)
  <2> HIDE DEF s
  <2> QED BY <1>3, <1>4, FlattenType
<1>6. \A r \in 0 .. MaxRequests : e[r] = End(r) /\ End(r) \in Nat
    BY EndIs
<1>7. e \in [0 .. MaxRequests -> Nat] /\ Ends(e, s, MaxRequests)
    BY EndIs
<1> HIDE DEF s, e
<1>8. Joins(Stream, e, s, MaxRequests)
    BY <1>1, <1>3, <1>4, <1>7, FlattenJoins
<1>9. End(0) = 0 /\ End(MaxRequests) = Len(Stream)
    BY <1>1, <1>6, <1>7, <1>8 DEF Ends, Joins
<1>10. ASSUME NEW r \in 1 .. MaxRequests
       PROVE  /\ End(r) \in Nat /\ End(r - 1) \in Nat
              /\ Len(Text(r)) \in Nat
              /\ End(r) = End(r - 1) + Len(Text(r))
              /\ \A i \in 1 .. Len(Text(r)) :
                   /\ End(r - 1) + i \in 1 .. Len(Stream)
                   /\ Stream[End(r - 1) + i] = Text(r)[i]
  <2>1. r \in 0 .. MaxRequests /\ r - 1 \in 0 .. MaxRequests
    BY <1>1
  <2>2. e[r] = End(r) /\ e[r - 1] = End(r - 1) /\ End(r) \in Nat /\ End(r - 1) \in Nat
    BY <1>6, <2>1
  <2>3. s[r] = Text(r) /\ Text(r) \in Seq(Tokens)
    BY <1>2
  <2>4. End(r) = End(r - 1) + Len(Text(r))
    BY <1>7, <2>2, <2>3 DEF Ends
  <2>5. ASSUME NEW i \in 1 .. Len(Text(r))
        PROVE  End(r - 1) + i \in 1 .. Len(Stream) /\ Stream[End(r - 1) + i] = Text(r)[i]
    <3>1. e[r - 1] + i \in 1 .. e[MaxRequests] /\ Stream[e[r - 1] + i] = s[r][i]
      BY <1>8, <2>3 DEF Joins
    <3>2. e[MaxRequests] = Len(Stream)
      BY <1>8 DEF Joins
    <3> QED BY <2>2, <2>3, <3>1, <3>2
  <2> QED BY <2>2, <2>3, <2>4, <2>5
<1>11. ASSUME NEW p \in 1 .. Len(Stream)
       PROVE  \E r \in 1 .. MaxRequests : p - End(r - 1) \in 1 .. Len(Text(r))
  <2>1. PICK r \in 1 .. MaxRequests : p - e[r - 1] \in 1 .. Len(s[r])
    BY <1>8 DEF Joins
  <2>2. r - 1 \in 0 .. MaxRequests
    BY <1>1
  <2>3. e[r - 1] = End(r - 1) /\ s[r] = Text(r)
    BY <1>2, <1>6, <2>2
  <2> QED BY <2>1, <2>3
<1>12. ASSUME NEW r \in 1 .. MaxRequests PROVE Layout(r)
  <2> DEFINE q == requests[r]
             n == Len(q.fields)
             t == Text(r)
             b == End(r - 1)
  <2>1. q.body \in Nat /\ n \in Nat /\ b \in Nat /\ End(r) \in Nat
    BY <1>10, RequestType
  <2>2. /\ Len(t) = 3 * n + 5 + q.body
        /\ t[1] = Token(q.line, r)
        /\ \A j \in 1 .. n : t[3 * j + 1] = Token(q.fields[j], r)
        /\ \A j \in 0 .. n : t[3 * j + 2] = Token("CR", r)
        /\ t[3 * n + 4] = Token("CR", r)
        /\ \A i \in 1 .. q.body : t[3 * n + 5 + i] = Token("body", r)
    BY <1>2 DEF IsText
  <2>3. /\ End(r) = b + Len(t)
        /\ \A i \in 1 .. Len(t) : b + i \in 1 .. Len(Stream) /\ Stream[b + i] = t[i]
    BY <1>10
  <2>4. Len(Stream) \in Nat
    BY <1>5
  <2>5. HeaderEnd(r) = End(r) - q.body
    BY DEF HeaderEnd
  <2> HIDE DEF q, n, t, b
  <2>6. End(r) = b + 3 * n + 5 + q.body /\ HeaderEnd(r) = b + 3 * n + 5
    BY <2>1, <2>2, <2>3, <2>5
  <2>7. \A j \in 0 .. n : FieldsEnd(r, j) = b + (3 * j + 3)
    BY <2>1 DEF FieldsEnd, b
  <2>8. /\ \A i \in 1 .. 3 * n + 5 + q.body : Stream[b + i] = t[i]
        /\ b + (3 * n + 5 + q.body) \in 1 .. Len(Stream)
    <3>1. 3 * n + 5 + q.body \in 1 .. 3 * n + 5 + q.body
      BY <2>1
    <3> QED BY <2>2, <2>3, <3>1
  <2>9. End(r) <= Len(Stream)
    BY <2>1, <2>4, <2>6, <2>8
  <2>10. Stream[b + 1] = Token(q.line, r) /\ Stream[b + 2] = Token("CR", r)
    <3>1. 1 \in 1 .. 3 * n + 5 + q.body /\ 2 \in 1 .. 3 * n + 5 + q.body /\ 0 \in 0 .. n
      BY <2>1
    <3>2. t[3 * 0 + 2] = Token("CR", r)
      BY <2>2, <3>1
    <3> QED BY <2>2, <2>8, <3>1, <3>2
  <2>11. ASSUME NEW j \in 0 .. n - 1
         PROVE  /\ Stream[FieldsEnd(r, j) + 1] = Token(q.fields[j + 1], r)
                /\ Stream[FieldsEnd(r, j) + 2] = Token("CR", r)
    <3>1. /\ j + 1 \in 1 .. n /\ j + 1 \in 0 .. n /\ j \in 0 .. n
          /\ 3 * (j + 1) + 1 \in 1 .. 3 * n + 5 + q.body
          /\ 3 * (j + 1) + 2 \in 1 .. 3 * n + 5 + q.body
          /\ b + (3 * j + 3) + 1 = b + (3 * (j + 1) + 1)
          /\ b + (3 * j + 3) + 2 = b + (3 * (j + 1) + 2)
      BY <2>1
    <3> QED BY <2>2, <2>7, <2>8, <3>1
  <2>12. Stream[FieldsEnd(r, n) + 1] = Token("CR", r)
    <3>1. /\ n \in 0 .. n /\ b + (3 * n + 3) + 1 = b + (3 * n + 4)
          /\ 3 * n + 4 \in 1 .. 3 * n + 5 + q.body
      BY <2>1
    <3> QED BY <2>2, <2>7, <2>8, <3>1
  <2>13. ASSUME NEW i \in 1 .. q.body PROVE Stream[HeaderEnd(r) + i] = Token("body", r)
    <3>1. b + 3 * n + 5 + i = b + (3 * n + 5 + i) /\ 3 * n + 5 + i \in 1 .. 3 * n + 5 + q.body
      BY <2>1
    <3> QED BY <2>2, <2>6, <2>8, <3>1
  <2>14. /\ HeaderEnd(r) \in Nat /\ HeaderEnd(r) = FieldsEnd(r, n) + 2
         /\ End(r) = HeaderEnd(r) + q.body
    BY <2>1, <2>6, <2>7
  <2> QED BY <2>1, <2>9, <2>10, <2>11, <2>12, <2>13, <2>14 DEF Layout, q, n, b
<1>13. ASSUME NEW p \in 1 .. Len(Stream), Stream[p].kind \in Lines
       PROVE  Stream[p].of \in 1 .. MaxRequests /\ p = End(Stream[p].of - 1) + 1
  <2>1. PICK r \in 1 .. MaxRequests : p - End(r - 1) \in 1 .. Len(Text(r))
    BY <1>11
  <2> DEFINE i == p - End(r - 1)
  <2>2. i \in 1 .. Len(Text(r)) /\ Stream[End(r - 1) + i] = Text(r)[i] /\ End(r - 1) + i = p
        /\ Len(Text(r)) \in Nat /\ i \in Int
    BY <1>10, <2>1
  <2> HIDE DEF i
  <2>3. \A k \in 2 .. Len(Text(r)) : Text(r)[k].kind \notin Lines
    BY <1>2 DEF IsText
  <2>4. i = 1
    BY <1>13, <2>2, <2>3
  <2>5. Text(r)[1].of = r
    <3>1. Text(r)[1] = Token(requests[r].line, r)
      BY <1>2 DEF IsText
    <3> QED BY <3>1 DEF Token
  <2> QED BY <2>2, <2>4, <2>5
<1> QED BY <1>5, <1>9, <1>12, <1>13 DEF StreamLayout

-----------------------------------------------------------------------------
(* The parser's place in the stream *)

\* How much of the stream the parser has retrieved.
Parsed == consumed - Len(buffer)

\* inputBuffer_ holds what was read and not retrieved.
Buffered ==
    /\ buffer \in Seq(Tokens)
    /\ consumed \in 0 .. Len(Stream) /\ Len(buffer) <= consumed
    /\ buffer = SubSeq(Stream, Parsed + 1, consumed)

\* The values of request_.
RequestRecords ==
    [line : 0 .. MaxRequests, fields : 0 .. MaxFields,
     params : SUBSET (1 .. MaxRequests), body : Seq(Tokens)]

\* request_ and the histories.
Records ==
    /\ request \in RequestRecords
    /\ handled \in Seq(RequestRecords)
    /\ sent \in Seq(Nat)

\* LOG_FATAL comes only behind a CR that nothing follows yet, and nothing comes after it.
AtLineEnd == aborted => ~parsing /\ Stream[consumed].kind = "CR"

\* Between two headers, the number parsed is the place in the stream: whatever the pieces
\* were, this is what bounds request.fields.
AtHeader ==
    /\ parseState = "kExpectRequestLine" => request.fields = 0
    /\ ~aborted /\ parseState = "kExpectHeaders" =>
         /\ request.line \in 1 .. MaxRequests
         /\ request.fields <= Len(requests[request.line].fields)
         /\ Parsed = FieldsEnd(request.line, request.fields)

\* The proviso of HandledWhole.
Sound == ~aborted /\ clean /\ \A r \in 1 .. MaxRequests : Begun(r) => WellFormed(r)

\* The callback was given request r.
HandledRequest(r) ==
    /\ handled[r].line = r
    /\ handled[r].fields = Len(requests[r].fields)
    /\ handled[r].body = [i \in 1 .. requests[r].body |-> Token("body", r)]
    /\ requests[r].query => r \in handled[r].params

\* The callback's calls and the responses.
Replied ==
    /\ Len(handled) <= MaxRequests
    /\ \A r \in DOMAIN handled : HandledRequest(r)
    /\ \A i \in DOMAIN sent : sent[i] = i
    /\ open => Len(sent) = Len(handled)

\* h requests have come whole, and of the next at most the header is incomplete, unless
\* it is whole and being parsed.
Reached(h) ==
    /\ End(h) <= consumed
    /\ h < MaxRequests =>
         consumed < HeaderEnd(h + 1) \/ (parsing /\ consumed = End(h + 1))

\* The parser is in request r, and request_ holds what was parsed of it.
ParserAt(r) ==
    /\ r <= MaxRequests /\ request.line = r
    /\ requests[r].query => r \in request.params
    /\ parseState \in {"kExpectBody", "kGotAll"} =>
         parsing /\ request.fields = Len(requests[r].fields)
    /\ parseState = "kExpectBody" => Parsed = HeaderEnd(r)
    /\ parseState = "kGotAll" =>
         /\ Parsed = End(r)
         /\ request.body = [i \in 1 .. requests[r].body |-> Token("body", r)]

\* The state of the parser is the place in the stream it has got to.
Progress ==
    /\ Replied
    /\ Reached(Len(handled))
    /\ parseState = "kExpectRequestLine" => Parsed = End(Len(handled))
    /\ parseState # "kExpectRequestLine" => ParserAt(Len(handled) + 1)

\* The variables with few values.
Flags ==
    /\ parsing \in BOOLEAN /\ open \in BOOLEAN /\ aborted \in BOOLEAN /\ clean \in BOOLEAN
    /\ parseState \in {"kExpectRequestLine", "kExpectHeaders", "kExpectBody", "kGotAll"}

\* The inductive invariant: what holds always, and what holds if the pieces are harmless.
HttpInv ==
    /\ AllRequests /\ Flags /\ Buffered /\ Records
    /\ AtLineEnd /\ AtHeader /\ (Sound => Progress)

\* The peer's requests do not change, so the stream and its places do not.
LEMMA StreamStays ==
    ASSUME requests' = requests
    PROVE  /\ Stream' = Stream
           /\ \A r : End(r)' = End(r) /\ HeaderEnd(r)' = HeaderEnd(r)
           /\ \A r, j : FieldsEnd(r, j)' = FieldsEnd(r, j)
<1>1. \A r : Text(r)' = Text(r)
    BY DEF Text, Token
<1>2. Stream' = Stream
    BY <1>1 DEF Stream
<1>3. \A r : End(r)' = End(r)
    BY <1>1 DEF End
<1> QED BY <1>2, <1>3 DEF HeaderEnd, FieldsEnd

\* The i-th token of the buffer is the i-th that was not parsed yet.
LEMMA BufferIs ==
    ASSUME Buffered, AllRequests
    PROVE  /\ consumed \in Nat /\ Len(buffer) \in Nat /\ Parsed \in 0 .. consumed
           /\ Len(buffer) = consumed - Parsed /\ consumed <= Len(Stream)
           /\ \A i \in 1 .. Len(buffer) :
                Parsed + i \in 1 .. Len(Stream) /\ buffer[i] = Stream[Parsed + i]
<1>1. Stream \in Seq(Tokens)
    BY StreamIs DEF StreamLayout
<1>2. consumed \in Nat /\ Len(buffer) \in Nat /\ Len(Stream) \in Nat /\ consumed <= Len(Stream)
      /\ Len(buffer) <= consumed /\ Parsed = consumed - Len(buffer)
    BY <1>1 DEF Buffered, Parsed
<1>3. Parsed \in 0 .. consumed /\ Len(buffer) = consumed - Parsed
    BY <1>2
<1>4. buffer = SubSeq(Stream, Parsed + 1, consumed)
    BY DEF Buffered
<1> HIDE DEF Parsed
<1>5. \A i \in 1 .. consumed - Parsed : Parsed + i \in 1 .. Len(Stream)
    BY <1>2, <1>3
<1>6. \A i \in 1 .. consumed - Parsed :
        SubSeq(Stream, Parsed + 1, consumed)[i] = Stream[Parsed + i]
    BY <1>1, <1>2, <1>3, SubSeqProperties
<1> QED BY <1>2, <1>3, <1>4, <1>5, <1>6

\* findCRLF finds the first CR of the buffer, or none.
LEMMA LineEndIs ==
    ASSUME buffer \in Seq(Tokens)
    PROVE  \/ FindCRLF = 0 /\ \A i \in 1 .. Len(buffer) : buffer[i].kind # "CR"
           \/ /\ FindCRLF \in 1 .. Len(buffer) /\ buffer[FindCRLF].kind = "CR"
              /\ \A i \in 1 .. FindCRLF - 1 : buffer[i].kind # "CR"
<1> DEFINE I == {i \in 1 .. Len(buffer) : buffer[i].kind = "CR"}
<1>1. FindCRLF = IF I # {} THEN CHOOSE x \in I : \A y \in I : x =< y ELSE 0
    BY DEF FindCRLF, SelectInSeq, Min
<1>2. CASE I = {}
    BY <1>1, <1>2
<1>3. CASE I # {}
  <2>1. I \subseteq Nat
    OBVIOUS
  <2>2. \E m \in I : \A k \in I : m <= k
    <3> HIDE DEF I
    <3> QED BY <1>3, <2>1, SmallestElement
  <2>3. FindCRLF \in I /\ \A y \in I : FindCRLF <= y
    BY <1>1, <1>3, <2>2
  <2> QED BY <2>3
<1> QED BY <1>2, <1>3

\* A line of one token at the front of the buffer.
LEMMA LineAtFront ==
    ASSUME Buffered, AllRequests,
           Stream[Parsed + 1].kind # "CR", Stream[Parsed + 2].kind = "CR"
    PROVE  FindCRLF = IF Len(buffer) > 1 THEN 2 ELSE 0
<1>1. buffer \in Seq(Tokens) /\ Len(buffer) \in Nat
    BY DEF Buffered
<1>2. \A i \in 1 .. Len(buffer) : buffer[i] = Stream[Parsed + i]
    BY BufferIs
<1>3. 1 \in 1 .. Len(buffer) => buffer[1].kind # "CR"
    BY <1>2
<1>4. 2 \in 1 .. Len(buffer) => buffer[2].kind = "CR"
    BY <1>2
<1> QED BY <1>1, <1>3, <1>4, LineEndIs

\* An empty line there.
LEMMA EmptyLineAtFront ==
    ASSUME Buffered, AllRequests, Stream[Parsed + 1].kind = "CR"
    PROVE  FindCRLF = IF Len(buffer) > 0 THEN 1 ELSE 0
<1>1. buffer \in Seq(Tokens) /\ Len(buffer) \in Nat
    BY DEF Buffered
<1>2. \A i \in 1 .. Len(buffer) : buffer[i] = Stream[Parsed + i]
    BY BufferIs
<1>3. 1 \in 1 .. Len(buffer) => buffer[1].kind = "CR"
    BY <1>2
<1> QED BY <1>1, <1>3, LineEndIs

\* retrieveUntil ends the process, or takes the line and two characters: the buffer is
\* the end of what was read again.
LEMMA RetrieveLineDoes ==
    ASSUME Buffered, AllRequests, FindCRLF # 0, RetrieveLine,
           requests' = requests, consumed' = consumed, ~aborted, aborted \in BOOLEAN
    PROVE  /\ Buffered'
           /\ \/ aborted' /\ Stream[consumed].kind = "CR"
              \/ ~aborted' /\ FindCRLF < Len(buffer) /\ Parsed' = Parsed + FindCRLF + 1
<1> DEFINE f == FindCRLF
<1>1. Stream' = Stream /\ Stream \in Seq(Tokens)
    BY StreamStays, StreamIs DEF StreamLayout
<1>2. f \in 1 .. Len(buffer) /\ buffer[f].kind = "CR"
    BY LineEndIs DEF Buffered
<1>3. /\ consumed \in Nat /\ Len(buffer) \in Nat /\ Parsed \in 0 .. consumed
      /\ Len(buffer) = consumed - Parsed /\ consumed <= Len(Stream)
      /\ \A i \in 1 .. Len(buffer) : buffer[i] = Stream[Parsed + i]
    BY BufferIs
<1>4. CASE f = Len(buffer)
  <2>1. aborted' /\ buffer' = buffer
    BY <1>4 DEF RetrieveLine
  <2>2. Buffered'
    BY <1>1, <2>1 DEF Buffered, Parsed
  <2>3. Stream[consumed].kind = "CR"
    BY <1>2, <1>3, <1>4
  <2> QED BY <2>1, <2>2, <2>3
<1>5. CASE f # Len(buffer)
  <2>1. ~aborted' /\ buffer' = SubSeq(buffer, f + 2, Len(buffer))
    BY <1>5 DEF RetrieveLine
  <2>2. f + 1 \in 0 .. consumed - Parsed /\ (f + 1) + 1 = f + 2
        /\ Parsed \in Nat /\ consumed \in Parsed .. Len(Stream)
    BY <1>1, <1>2, <1>3, <1>5
  <2> DEFINE k == f + 1
  <2>3. buffer = SubSeq(Stream, Parsed + 1, consumed)
    BY DEF Buffered
  <2> HIDE DEF k
  <2>4. SubSeq(buffer, k + 1, consumed - Parsed) = SubSeq(Stream, Parsed + k + 1, consumed)
    BY <1>1, <2>2, <2>3, SubSeqDrop DEF k
  <2>5. buffer' = SubSeq(Stream, Parsed + k + 1, consumed)
    BY <1>3, <2>1, <2>2, <2>4 DEF k
  <2>6. k \in Nat /\ Parsed + k \in 0 .. consumed
    BY <1>3, <2>2 DEF k
  <2>7. buffer' \in Seq(Tokens) /\ Len(buffer') = consumed - (Parsed + k)
    <3>1. \A i \in Parsed + k + 1 .. consumed : Stream[i] \in Tokens
      BY <1>1, <1>3, <2>6
    <3> HIDE DEF Parsed
    <3> QED BY <1>3, <2>5, <2>6, <3>1, SubSeqProperties
  <2>8. Parsed' = Parsed + k
    BY <1>3, <2>6, <2>7 DEF Parsed
  <2>9. Buffered'
    <3>1. Len(buffer') <= consumed
      BY <1>3, <2>6, <2>7
    <3>2. buffer' = SubSeq(Stream, Parsed' + 1, consumed)
      BY <2>5, <2>8
    <3> QED BY <1>1, <2>7, <3>1, <3>2 DEF Buffered
  <2>10. Parsed' = Parsed + FindCRLF + 1 /\ FindCRLF < Len(buffer)
    <3>1. Parsed + (f + 1) = Parsed + f + 1 /\ f < Len(buffer)
      BY <1>2, <1>3, <1>5
    <3> QED BY <2>8, <3>1 DEF k
  <2> QED BY <2>1, <2>9, <2>10
<1> QED BY <1>4, <1>5

\* What the proviso asks for is never regained: if it holds after a step, it held before.
LEMMA SoundBefore ==
    ASSUME AllRequests, requests' = requests, consumed \in Nat, consumed' \in Nat,
           consumed <= consumed', clean' => clean, aborted => aborted', Sound'
    PROVE  Sound
<1>1. ASSUME NEW r \in 1 .. MaxRequests, Begun(r) PROVE WellFormed(r)
  <2>1. End(r - 1)' = End(r - 1) /\ End(r - 1) \in Nat
    BY StreamStays, StreamIs DEF StreamLayout, Layout
  <2>2. Begun(r)'
    BY <1>1, <2>1 DEF Begun
  <2>3. WellFormed(r)'
    BY <2>2 DEF Sound
  <2> QED BY <2>3 DEF WellFormed
<1> QED BY <1>1 DEF Sound

\* The replies are right as long as the histories stay as they are.
LEMMA RepliedStays ==
    ASSUME Replied, requests' = requests, handled' = handled, sent' = sent, open' = open
    PROVE  Replied'
BY DEF Replied, HandledRequest, Token

\* A request line, or what there is of it, is at the front of the buffer.
LEMMA ExpectLine ==
    ASSUME AllRequests, Buffered, NEW r \in 1 .. MaxRequests, Parsed = End(r - 1)
    PROVE  /\ Len(buffer) > 0 => buffer[1] = Token(requests[r].line, r)
           /\ FindCRLF = IF Len(buffer) > 1 THEN 2 ELSE 0
<1>1. Stream[Parsed + 1] = Token(requests[r].line, r) /\ Stream[Parsed + 2] = Token("CR", r)
    BY StreamIs DEF StreamLayout, Layout
<1>2. requests[r].line # "CR"
    BY RequestType DEF Lines
<1>3. FindCRLF = IF Len(buffer) > 1 THEN 2 ELSE 0
    BY <1>1, <1>2, LineAtFront DEF Token
<1>4. Len(buffer) > 0 => buffer[1] = Stream[Parsed + 1]
    BY BufferIs
<1> QED BY <1>1, <1>3, <1>4

\* The same for the line behind j headers.
LEMMA ExpectHeader ==
    ASSUME AllRequests, Buffered, NEW r \in 1 .. MaxRequests,
           NEW j \in 0 .. Len(requests[r].fields), Parsed = FieldsEnd(r, j)
    PROVE  /\ j < Len(requests[r].fields) =>
                /\ Len(buffer) > 0 => buffer[1] = Token(requests[r].fields[j + 1], r)
                /\ FindCRLF = IF Len(buffer) > 1 THEN 2 ELSE 0
           /\ j = Len(requests[r].fields) => FindCRLF = IF Len(buffer) > 0 THEN 1 ELSE 0
<1> DEFINE n == Len(requests[r].fields)
<1>1. n \in Nat /\ requests[r].fields \in Seq(Fields)
    BY RequestType
<1>2. Layout(r)
    BY StreamIs DEF StreamLayout
<1>3. ASSUME j < n
      PROVE  /\ Len(buffer) > 0 => buffer[1] = Token(requests[r].fields[j + 1], r)
             /\ FindCRLF = IF Len(buffer) > 1 THEN 2 ELSE 0
  <2>1. j \in 0 .. n - 1
    BY <1>1, <1>3
  <2>2. /\ Stream[Parsed + 1] = Token(requests[r].fields[j + 1], r)
        /\ Stream[Parsed + 2] = Token("CR", r)
    BY <1>2, <2>1 DEF Layout
  <2>3. requests[r].fields[j + 1] # "CR"
    <3>1. j + 1 \in 1 .. n
      BY <1>1, <2>1
    <3>2. requests[r].fields[j + 1] \in Fields
      BY <1>1, <3>1
    <3> QED BY <3>2 DEF Fields
  <2>4. FindCRLF = IF Len(buffer) > 1 THEN 2 ELSE 0
    BY <2>2, <2>3, LineAtFront DEF Token
  <2>5. Len(buffer) > 0 => buffer[1] = Stream[Parsed + 1]
    BY BufferIs
  <2> QED BY <2>2, <2>4, <2>5
<1>4. ASSUME j = n PROVE FindCRLF = IF Len(buffer) > 0 THEN 1 ELSE 0
  <2>1. Stream[Parsed + 1] = Token("CR", r)
    BY <1>2, <1>4 DEF Layout
  <2> QED BY <2>1, EmptyLineAtFront DEF Token
<1> QED BY <1>3, <1>4

\* The invariant holds before anything was read.
LEMMA HttpInitInv == HttpInit => HttpInv
<1> SUFFICES ASSUME HttpInit PROVE HttpInv
    OBVIOUS
<1>1. AllRequests /\ Flags
    BY DEF HttpInit, AllRequests, Flags
<1>2. MaxRequests \in Nat /\ MaxFields \in Nat
    BY ShapeAssumption
<1>3. StreamLayout
    BY <1>1, StreamIs
<1>4. consumed = 0 /\ buffer = <<>> /\ Len(buffer) = 0 /\ Parsed = 0
  <2>1. consumed = 0
    BY DEF HttpInit
  <2>2. buffer = <<>>
    BY DEF HttpInit
  <2>3. Len(buffer) = 0
    BY <2>2
  <2>4. Parsed = 0
    BY <2>1, <2>3 DEF Parsed
  <2> QED BY <2>1, <2>2, <2>3, <2>4
<1>5. Buffered
  <2>1. Stream \in Seq(Tokens) /\ 0 \in 0 .. Len(Stream)
    BY <1>3 DEF StreamLayout
  <2>2. SubSeq(Stream, 0 + 1, 0) = <<>>
    BY <2>1
  <2> QED BY <1>4, <2>1, <2>2 DEF Buffered
<1>6. Records
    BY <1>2 DEF HttpInit, Records, RequestRecords, NoRequest
<1>7. AtLineEnd /\ AtHeader
    BY DEF HttpInit, AtLineEnd, AtHeader, NoRequest
<1>8. Replied
    BY <1>2 DEF HttpInit, Replied
<1>9. Reached(0)
  <2>1. End(0) <= consumed
    BY <1>3, <1>4 DEF StreamLayout
  <2>2. ASSUME 0 < MaxRequests PROVE consumed < HeaderEnd(0 + 1)
    <3>1. 1 \in 1 .. MaxRequests
      BY <1>2, <2>2
    <3>2. Layout(1) /\ Len(requests[1].fields) \in Nat
      BY <1>1, <1>3, <3>1, RequestType DEF StreamLayout
    <3>3. HeaderEnd(1) = FieldsEnd(1, Len(requests[1].fields)) + 2 /\ End(1 - 1) \in Nat
      BY <3>2 DEF Layout
    <3>4. HeaderEnd(1) = End(1 - 1) + 3 * (1 + Len(requests[1].fields)) + 2
      BY <3>3 DEF FieldsEnd
    <3>5. \A a, k \in Nat : 0 < a + 3 * (1 + k) + 2
      OBVIOUS
    <3>6. 0 < HeaderEnd(1)
      BY <3>2, <3>3, <3>4, <3>5
    <3>7. 0 + 1 = 1
      OBVIOUS
    <3> QED BY <1>4, <3>6, <3>7
  <2> QED BY <2>1, <2>2 DEF Reached
<1>10. Progress
  <2>1. Len(handled) = 0 /\ parseState = "kExpectRequestLine"
    BY DEF HttpInit
  <2> QED BY <1>3, <1>4, <1>8, <1>9, <2>1 DEF Progress, StreamLayout
<1> QED BY <1>1, <1>5, <1>6, <1>7, <1>10 DEF HttpInv

\* Types are a part of it.
LEMMA HttpInvType == HttpInv => HttpTypeOK
BY DEF HttpInv, AllRequests, Flags, Buffered, Records, RequestRecords, Parsed, HttpTypeOK

\* A piece arrives: it is added at the end, and if it is harmless it ends before the
\* body, or with it.
LEMMA OnMessageKeeps == HttpInv /\ OnMessage => HttpInv'
<1> SUFFICES ASSUME HttpInv, OnMessage PROVE HttpInv'
    OBVIOUS
<1>1. AllRequests /\ Flags /\ Buffered /\ Records /\ AtHeader /\ (Sound => Progress)
    BY DEF HttpInv
<1>2. PICK n \in 1 .. Len(Stream) - consumed :
        /\ consumed' = consumed + n
        /\ buffer' = buffer \o SubSeq(Stream, consumed + 1, consumed + n)
        /\ clean' = (clean /\ ~Harmful(consumed, consumed + n))
    BY DEF OnMessage
<1>3. /\ ~parsing /\ ~aborted /\ parsing' = TRUE
      /\ UNCHANGED <<requests, parseState, request, open, aborted, handled, sent>>
    BY DEF OnMessage
<1>4. StreamLayout /\ Stream \in Seq(Tokens) /\ Len(Stream) \in Nat
    BY <1>1, StreamIs DEF StreamLayout
<1>5. /\ consumed \in Nat /\ Len(buffer) \in Nat /\ Parsed \in 0 .. consumed
      /\ Len(buffer) = consumed - Parsed /\ consumed <= Len(Stream)
      /\ buffer = SubSeq(Stream, Parsed + 1, consumed)
    BY <1>1, BufferIs DEF Buffered
<1>6. /\ Stream' = Stream
      /\ \A r : End(r)' = End(r) /\ HeaderEnd(r)' = HeaderEnd(r)
      /\ \A r, j : FieldsEnd(r, j)' = FieldsEnd(r, j)
    BY <1>3, StreamStays
<1>7. consumed' \in 0 .. Len(Stream) /\ consumed <= consumed' /\ consumed' \in Nat
    BY <1>2, <1>4, <1>5
<1>8. buffer' = SubSeq(Stream, Parsed + 1, consumed')
  <2>1. /\ Parsed \in Nat /\ consumed \in Parsed .. Len(Stream)
        /\ consumed' \in consumed .. Len(Stream)
    BY <1>4, <1>5, <1>7
  <2> HIDE DEF Parsed
  <2> QED BY <1>2, <1>4, <1>5, <2>1, SubSeqMeet
<1>9. buffer' \in Seq(Tokens) /\ Len(buffer') = consumed' - Parsed
  <2>1. \A i \in Parsed + 1 .. consumed' : Stream[i] \in Tokens
    BY <1>4, <1>5, <1>7
  <2>2. Parsed \in Nat /\ consumed' \in Nat /\ Parsed <= consumed'
    BY <1>5, <1>7
  <2> HIDE DEF Parsed
  <2>3. \A a, b \in Nat : a <= b =>
          a + 1 \in Int /\ b \in Int /\ (IF a + 1 <= b THEN b - (a + 1) + 1 ELSE 0) = b - a
    OBVIOUS
  <2>4. SubSeq(Stream, Parsed + 1, consumed') \in Seq(Tokens)
    BY <2>1, <2>2, <2>3, SubSeqProperties
  <2>5. Len(SubSeq(Stream, Parsed + 1, consumed'))
          = IF Parsed + 1 <= consumed' THEN consumed' - (Parsed + 1) + 1 ELSE 0
    BY <2>1, <2>2, <2>3, SubSeqProperties
  <2>6. Len(SubSeq(Stream, Parsed + 1, consumed')) = consumed' - Parsed
    BY <2>2, <2>3, <2>5
  <2> QED BY <1>8, <2>4, <2>6
<1>10. Parsed' = Parsed
    BY <1>5, <1>7, <1>9 DEF Parsed
<1>11. Buffered'
  <2>1. consumed' - Parsed <= consumed'
    <3>1. \A a, b \in Nat : b - a <= b
      OBVIOUS
    <3>2. Parsed \in Nat
      BY <1>5
    <3> QED BY <1>7, <3>1, <3>2
  <2> QED BY <1>6, <1>7, <1>8, <1>9, <1>10, <2>1 DEF Buffered
<1>12. AllRequests' /\ Flags' /\ Records'
  <2>1. clean' \in BOOLEAN
    BY <1>2
  <2> QED BY <1>1, <1>3, <2>1 DEF AllRequests, Flags, Records
<1>13. AtLineEnd' /\ AtHeader'
    BY <1>1, <1>3, <1>6, <1>10 DEF AtLineEnd, AtHeader
<1>14. ASSUME Sound' PROVE Progress'
  <2>1. Progress /\ clean' /\ Replied
    <3>1. Sound
      BY <1>1, <1>2, <1>3, <1>5, <1>7, <1>14, SoundBefore
    <3> QED BY <1>1, <1>14, <3>1 DEF Sound, Progress
  <2> DEFINE h == Len(handled)
  <2>2. h \in Nat /\ h <= MaxRequests /\ MaxRequests \in Nat
    BY <1>1, <2>1, ShapeAssumption DEF Replied, Records
  <2>3. End(h) <= consumed /\ (h < MaxRequests => consumed < HeaderEnd(h + 1))
    BY <1>3, <2>1 DEF Progress, Reached
  <2>4. h < MaxRequests
    <3>1. ASSUME h = MaxRequests PROVE FALSE
      <4>1. End(h) = Len(Stream)
        BY <1>4, <3>1 DEF StreamLayout
      <4> QED BY <1>2, <1>4, <1>5, <2>3, <4>1
    <3> QED BY <2>2, <3>1
  <2>5. h + 1 \in 1 .. MaxRequests /\ (h + 1) - 1 = h
    BY <2>2, <2>4
  <2>6. End(h) \in Nat /\ End(h + 1) \in Nat /\ HeaderEnd(h + 1) \in Nat
        /\ HeaderEnd(h + 1) <= End(h + 1)
    <3>1. Layout(h + 1) /\ requests[h + 1].body \in Nat
      BY <1>1, <1>4, <2>5, RequestType DEF StreamLayout
    <3>2. /\ End((h + 1) - 1) \in Nat /\ HeaderEnd(h + 1) \in Nat
          /\ End(h + 1) = HeaderEnd(h + 1) + requests[h + 1].body
      BY <3>1 DEF Layout
    <3>3. \A a, b \in Nat : a + b \in Nat /\ a <= a + b
      OBVIOUS
    <3>4. End(h + 1) \in Nat /\ HeaderEnd(h + 1) <= End(h + 1)
      BY <3>1, <3>2, <3>3
    <3> QED BY <2>5, <3>2, <3>4
  <2>7. ~Harmful(consumed, consumed')
    BY <1>2, <2>1
  <2>8. DOMAIN requests = 1 .. MaxRequests
    BY <1>1 DEF AllRequests
  <2>9. /\ ~(HeaderEnd(h + 1) <= consumed' /\ consumed' < End(h + 1))
        /\ ~(consumed < End(h + 1) /\ End(h + 1) < consumed')
    BY <2>5, <2>7, <2>8 DEF Harmful
  <2>10. End(h) <= consumed' /\ (consumed' < HeaderEnd(h + 1) \/ consumed' = End(h + 1))
    BY <1>5, <1>7, <2>3, <2>4, <2>6, <2>9
  <2>11. Len(handled') = h
    BY <1>3
  <2>12. Reached(Len(handled))'
    BY <1>3, <1>6, <2>10, <2>11 DEF Reached
  <2>13. Replied'
    BY <1>3, <2>1, RepliedStays
  <2>14. parseState # "kExpectRequestLine" => ParserAt(h + 1)'
    BY <1>3, <1>6, <1>10, <2>1 DEF Progress, ParserAt
  <2>15. (parseState = "kExpectRequestLine" => Parsed = End(Len(handled)))'
    BY <1>3, <1>6, <1>10, <2>1 DEF Progress
  <2> QED BY <1>3, <1>6, <2>11, <2>12, <2>13, <2>14, <2>15 DEF Progress
<1> QED BY <1>11, <1>12, <1>13, <1>14 DEF HttpInv

\* The request that is being read.
LEMMA NextRequest ==
    ASSUME HttpInv, Len(handled) < MaxRequests
    PROVE  /\ Len(handled) + 1 \in 1 .. MaxRequests /\ (Len(handled) + 1) - 1 = Len(handled)
           /\ Layout(Len(handled) + 1)
           /\ requests[Len(handled) + 1].body \in Nat
           /\ Len(requests[Len(handled) + 1].fields) \in 0 .. MaxFields
<1>1. Len(handled) \in Nat /\ MaxRequests \in Nat /\ AllRequests
    BY ShapeAssumption DEF HttpInv, Records
<1>2. Len(handled) + 1 \in 1 .. MaxRequests /\ (Len(handled) + 1) - 1 = Len(handled)
    BY <1>1
<1> QED BY <1>1, <1>2, StreamIs, RequestType DEF StreamLayout

\* The parser returns for want of an end of line: the header is not complete.
LEMMA AwaitMoreKeeps == HttpInv /\ AwaitMore => HttpInv'
<1> SUFFICES ASSUME HttpInv, AwaitMore PROVE HttpInv'
    OBVIOUS
<1>1. /\ parsing /\ parseState \in {"kExpectRequestLine", "kExpectHeaders"} /\ FindCRLF = 0
      /\ parsing' = FALSE
      /\ UNCHANGED <<requests, consumed, buffer, parseState, request, open, aborted, handled,
                     sent, clean>>
    BY DEF AwaitMore, connection
<1>2. /\ AllRequests /\ Flags /\ Buffered /\ Records /\ AtLineEnd /\ AtHeader
      /\ (Sound => Progress)
    BY DEF HttpInv
<1>3. /\ Stream' = Stream /\ Parsed' = Parsed
      /\ \A r : End(r)' = End(r) /\ HeaderEnd(r)' = HeaderEnd(r)
      /\ \A r, j : FieldsEnd(r, j)' = FieldsEnd(r, j)
    BY <1>1, StreamStays DEF Parsed
<1>4. AllRequests' /\ Flags' /\ Buffered' /\ Records' /\ AtLineEnd' /\ AtHeader'
  <2>1. AllRequests' /\ Flags' /\ Records' /\ AtLineEnd'
    BY <1>1, <1>2, <1>3 DEF AllRequests, Flags, Records, AtLineEnd
  <2>2. Buffered' /\ AtHeader'
    BY <1>1, <1>2, <1>3 DEF Buffered, AtHeader
  <2> QED BY <2>1, <2>2
<1>5. ~aborted
    BY <1>1, <1>2 DEF AtLineEnd
<1>6. ASSUME Sound' PROVE Progress'
  <2>1. Progress
    <3>1. consumed \in Nat
      BY <1>2, BufferIs
    <3>2. Sound
      BY <1>1, <1>2, <1>6, <3>1, SoundBefore
    <3> QED BY <1>2, <3>2
  <2>2. ASSUME Len(handled) < MaxRequests PROVE consumed < HeaderEnd(Len(handled) + 1)
    <3> DEFINE r == Len(handled) + 1
               n == Len(requests[r].fields)
    <3>1. r \in 1 .. MaxRequests /\ r - 1 = Len(handled) /\ Layout(r) /\ n \in Nat
      BY <2>2, NextRequest
    <3>2. consumed \in Nat /\ Len(buffer) \in Nat /\ Len(buffer) = consumed - Parsed
          /\ Parsed \in Nat
      BY <1>2, BufferIs
    <3>3. HeaderEnd(r) = End(r - 1) + 3 * (1 + n) + 2 /\ End(r - 1) \in Nat
      BY <3>1 DEF Layout, FieldsEnd
    <3> HIDE DEF r, n
    <3>4. CASE parseState = "kExpectRequestLine"
      <4>1. Parsed = End(r - 1)
        BY <2>1, <3>1, <3>4 DEF Progress
      <4>2. Len(buffer) <= 1
        BY <1>1, <1>2, <3>1, <3>2, <4>1, ExpectLine
      <4>3. consumed <= End(r - 1) + 1
        BY <3>2, <4>1, <4>2
      <4>4. consumed < HeaderEnd(r)
        BY <3>1, <3>2, <3>3, <4>3
      <4> QED BY <4>4 DEF r
    <3>5. CASE parseState = "kExpectHeaders"
      <4> DEFINE j == request.fields
      <4>1. request.line = r /\ j <= n /\ Parsed = FieldsEnd(r, j) /\ j \in Nat
        BY <1>2, <1>5, <2>1, <3>5
           DEF Progress, ParserAt, AtHeader, Records, RequestRecords, r, n
      <4>2. j \in 0 .. n /\ Parsed = End(r - 1) + 3 * (1 + j)
        BY <3>1, <4>1 DEF FieldsEnd
      <4> HIDE DEF j
      <4>3. (j < n => Len(buffer) <= 1) /\ (j = n => Len(buffer) = 0)
        <5>1. j \in 0 .. Len(requests[r].fields)
          BY <4>2 DEF n
        <5>2. /\ j < n => FindCRLF = IF Len(buffer) > 1 THEN 2 ELSE 0
              /\ j = n => FindCRLF = IF Len(buffer) > 0 THEN 1 ELSE 0
          BY <1>2, <3>1, <4>1, <5>1, ExpectHeader DEF n
        <5> QED BY <1>1, <3>2, <5>2
      <4>4. consumed = End(r - 1) + 3 * (1 + j) + Len(buffer)
        BY <3>2, <3>3, <4>1, <4>2
      <4>5. consumed < HeaderEnd(r)
        <5>1. \A b, k, m, l \in Nat :
                k <= m /\ (k < m => l <= 1) /\ (k = m => l = 0) =>
                b + 3 * (1 + k) + l < b + 3 * (1 + m) + 2
          OBVIOUS
        <5>2. End(r - 1) \in Nat /\ j \in Nat /\ n \in Nat /\ Len(buffer) \in Nat /\ j <= n
          BY <3>1, <3>2, <3>3, <4>1
        <5>3. End(r - 1) + 3 * (1 + j) + Len(buffer) < End(r - 1) + 3 * (1 + n) + 2
          BY <4>3, <5>1, <5>2
        <5> QED BY <3>3, <4>4, <5>3
      <4> QED BY <4>5 DEF r
    <3> QED BY <1>1, <3>4, <3>5
  <2>3. Reached(Len(handled))'
    BY <1>1, <1>3, <2>1, <2>2 DEF Progress, Reached
  <2>4. Replied'
    BY <1>1, <2>1, RepliedStays DEF Progress
  <2>5. (parseState = "kExpectRequestLine" => Parsed = End(Len(handled)))'
    BY <1>1, <1>3, <2>1 DEF Progress
  <2>6. (parseState # "kExpectRequestLine" => ParserAt(Len(handled) + 1))'
    BY <1>1, <1>3, <2>1 DEF Progress, ParserAt
  <2> QED BY <2>3, <2>4, <2>5, <2>6 DEF Progress
<1> QED BY <1>4, <1>6 DEF HttpInv

\* There is a next request if there is something in the buffer.
LEMMA SomethingLeft ==
    ASSUME HttpInv, Progress, parseState = "kExpectRequestLine", FindCRLF # 0
    PROVE  Len(handled) < MaxRequests /\ End(Len(handled)) < consumed
<1>1. /\ AllRequests /\ Buffered /\ Parsed = End(Len(handled))
      /\ Len(handled) \in Nat /\ Len(handled) <= MaxRequests
    BY DEF HttpInv, Records, Progress, Replied
<1>2. /\ consumed \in Nat /\ Len(buffer) \in Nat /\ Parsed \in Nat
      /\ Len(buffer) = consumed - Parsed /\ consumed <= Len(Stream)
    BY <1>1, BufferIs
<1>3. FindCRLF \in 1 .. Len(buffer)
    BY <1>1, LineEndIs DEF Buffered
<1>4. Parsed < consumed
    BY <1>2, <1>3
<1>5. Len(handled) # MaxRequests
  <2>1. ASSUME Len(handled) = MaxRequests PROVE FALSE
    <3>1. Parsed = Len(Stream)
      BY <1>1, <2>1, StreamIs DEF StreamLayout
    <3> QED BY <1>2, <1>4, <3>1
  <2> QED BY <2>1
<1> QED BY <1>1, <1>4, <1>5, ShapeAssumption

\* A request line is parsed: it is that of the next request.
LEMMA ParseRequestLineKeeps == HttpInv /\ ParseRequestLine => HttpInv'
<1> SUFFICES ASSUME HttpInv, ParseRequestLine PROVE HttpInv'
    OBVIOUS
<1> DEFINE r == buffer[1].of
<1>1. /\ parsing /\ parseState = "kExpectRequestLine" /\ FindCRLF = 2 /\ buffer[1].kind = "good"
      /\ request' = [request EXCEPT !.line = r,
                                    !.params = IF requests[r].query THEN @ \cup {r} ELSE @]
      /\ RetrieveLine
      /\ parseState' = "kExpectHeaders" /\ parsing' = ~aborted'
      /\ UNCHANGED <<requests, consumed, open, handled, sent, clean>>
    BY DEF ParseRequestLine
<1>2. /\ AllRequests /\ Flags /\ Buffered /\ Records /\ AtLineEnd /\ AtHeader
      /\ (Sound => Progress)
    BY DEF HttpInv
<1>3. /\ Stream' = Stream
      /\ \A q : End(q)' = End(q) /\ HeaderEnd(q)' = HeaderEnd(q)
      /\ \A q, j : FieldsEnd(q, j)' = FieldsEnd(q, j)
    BY <1>1, StreamStays
<1>4. ~aborted /\ aborted \in BOOLEAN
    BY <1>1, <1>2 DEF AtLineEnd, Flags
<1>5. /\ Buffered'
      /\ \/ aborted' /\ Stream[consumed].kind = "CR"
         \/ ~aborted' /\ FindCRLF < Len(buffer) /\ Parsed' = Parsed + FindCRLF + 1
    BY <1>1, <1>2, <1>4, RetrieveLineDoes
<1>6. /\ consumed \in Nat /\ Len(buffer) \in Nat /\ Parsed \in Nat
      /\ Len(buffer) = consumed - Parsed /\ consumed <= Len(Stream)
      /\ \A i \in 1 .. Len(buffer) :
           Parsed + i \in 1 .. Len(Stream) /\ buffer[i] = Stream[Parsed + i]
    BY <1>2, BufferIs
<1>7. /\ Parsed + 1 \in 1 .. Len(Stream) /\ buffer[1] = Stream[Parsed + 1]
      /\ r \in 1 .. MaxRequests /\ Parsed = End(r - 1) /\ End(r - 1) \in Nat
  <2>1. FindCRLF \in 1 .. Len(buffer)
    BY <1>1, <1>2, LineEndIs DEF Buffered
  <2>2. 1 \in 1 .. Len(buffer)
    BY <1>6, <2>1
  <2>3. Parsed + 1 \in 1 .. Len(Stream) /\ buffer[1] = Stream[Parsed + 1]
    BY <1>6, <2>2
  <2>4. r \in 1 .. MaxRequests /\ Parsed + 1 = End(r - 1) + 1
    BY <1>1, <1>2, <2>3, StreamIs DEF StreamLayout, Lines
  <2>5. End(r - 1) \in Nat
    BY <1>2, <2>4, StreamIs DEF StreamLayout, Layout
  <2> QED BY <1>6, <2>3, <2>4, <2>5
<1> HIDE DEF r
<1>8. AllRequests' /\ Flags' /\ AtLineEnd'
  <2>1. aborted' \in BOOLEAN /\ parsing' \in BOOLEAN
    BY <1>1, <1>4, <1>5 DEF RetrieveLine
  <2> QED BY <1>1, <1>2, <1>3, <1>5, <2>1 DEF AllRequests, Flags, AtLineEnd
<1>9. /\ request'.line = r /\ request'.fields = request.fields
      /\ requests[r].query => r \in request'.params
      /\ request' \in RequestRecords
  <2> DEFINE P == IF requests[r].query THEN request.params \cup {r} ELSE request.params
  <2>1. request \in RequestRecords /\ request.params \subseteq 1 .. MaxRequests
    BY <1>2 DEF Records, RequestRecords
  <2>2. P \subseteq 1 .. MaxRequests /\ (requests[r].query => r \in P)
    BY <1>7, <2>1
  <2>3. request' = [request EXCEPT !.line = r, !.params = P]
    BY <1>1
  <2>4. r \in 0 .. MaxRequests
    BY <1>7, ShapeAssumption
  <2> HIDE DEF P
  <2> QED BY <2>1, <2>2, <2>3, <2>4 DEF RequestRecords
<1>10. Records'
    BY <1>1, <1>2, <1>9 DEF Records, RequestRecords
<1>11. AtHeader'
  <2>1. request.fields = 0
    BY <1>1, <1>2 DEF AtHeader
  <2>2. 0 <= Len(requests[r].fields)
    BY <1>2, <1>7, RequestType
  <2>3. ~aborted' => Parsed' = FieldsEnd(r, 0)
    BY <1>1, <1>5, <1>7 DEF FieldsEnd
  <2> QED BY <1>1, <1>3, <1>7, <1>9, <2>1, <2>2, <2>3 DEF AtHeader
<1>12. ASSUME Sound' PROVE Progress'
  <2>1. Progress /\ ~aborted'
    <3>1. Sound
      BY <1>1, <1>2, <1>4, <1>6, <1>12, SoundBefore
    <3> QED BY <1>2, <1>12, <3>1 DEF Sound
  <2>2. Len(handled) < MaxRequests
    BY <1>1, <2>1, SomethingLeft
  <2>3. r = Len(handled) + 1
    <3>1. Stream[End((Len(handled) + 1) - 1) + 1].of = Len(handled) + 1
          /\ (Len(handled) + 1) - 1 = Len(handled)
      BY <2>2, NextRequest DEF Layout, Token
    <3>2. Parsed = End(Len(handled))
      BY <1>1, <2>1 DEF Progress
    <3> QED BY <1>7, <3>1, <3>2 DEF r
  <2>4. Replied'
    BY <1>1, <2>1, RepliedStays DEF Progress
  <2>5. Reached(Len(handled))'
    BY <1>1, <1>3, <2>1 DEF Progress, Reached
  <2>6. ParserAt(Len(handled) + 1)'
    BY <1>1, <1>7, <1>9, <2>3, ShapeAssumption DEF ParserAt
  <2> QED BY <1>1, <2>4, <2>5, <2>6 DEF Progress
<1> QED BY <1>5, <1>8, <1>10, <1>11, <1>12 DEF HttpInv

\* A request line is rejected: it is not one of the well formed requests.
LEMMA RejectRequestLineKeeps == HttpInv /\ RejectRequestLine => HttpInv'
<1> SUFFICES ASSUME HttpInv, RejectRequestLine PROVE HttpInv'
    OBVIOUS
<1>1. /\ parsing /\ parseState = "kExpectRequestLine"
      /\ FindCRLF # 0 /\ ~(FindCRLF = 2 /\ buffer[1].kind = "good")
      /\ sent' = (IF open THEN Append(sent, 400) ELSE sent) /\ parsing' = FALSE
      /\ UNCHANGED <<requests, consumed, buffer, parseState, request, open, aborted, handled,
                     clean>>
    BY DEF RejectRequestLine, SendResponse, connection
<1>2. /\ AllRequests /\ Flags /\ Buffered /\ Records /\ AtLineEnd /\ AtHeader
      /\ (Sound => Progress)
    BY DEF HttpInv
<1>3. /\ Stream' = Stream /\ Parsed' = Parsed
      /\ \A q : End(q)' = End(q) /\ HeaderEnd(q)' = HeaderEnd(q)
      /\ \A q, j : FieldsEnd(q, j)' = FieldsEnd(q, j)
    BY <1>1, StreamStays DEF Parsed
<1>4. AllRequests' /\ Flags' /\ Buffered' /\ AtLineEnd' /\ AtHeader'
  <2>1. AllRequests' /\ Flags' /\ AtLineEnd'
    BY <1>1, <1>2, <1>3 DEF AllRequests, Flags, AtLineEnd
  <2>2. Buffered' /\ AtHeader'
    BY <1>1, <1>2, <1>3 DEF Buffered, AtHeader
  <2> QED BY <2>1, <2>2
<1>5. Records'
    BY <1>1, <1>2 DEF Records
<1>6. ASSUME Sound' PROVE FALSE
  <2> DEFINE r == Len(handled) + 1
  <2>1. Progress /\ Sound
    <3>1. consumed \in Nat
      BY <1>2, BufferIs
    <3>2. Sound
      BY <1>1, <1>2, <1>6, <3>1, SoundBefore
    <3> QED BY <1>2, <3>2
  <2>2. r \in 1 .. MaxRequests /\ r - 1 = Len(handled) /\ End(r - 1) < consumed
    BY <1>1, <2>1, SomethingLeft, NextRequest
  <2>3. Parsed = End(r - 1)
    BY <1>1, <2>1, <2>2 DEF Progress
  <2> HIDE DEF r
  <2>4. requests[r].line = "good"
    BY <2>1, <2>2 DEF Sound, Begun, WellFormed
  <2>5. FindCRLF = 2 /\ Len(buffer) > 1 /\ buffer[1] = Token(requests[r].line, r)
    <3>1. Len(buffer) \in Nat
      BY <1>2, BufferIs
    <3> QED BY <1>1, <1>2, <2>2, <2>3, <3>1, ExpectLine
  <2> QED BY <1>1, <2>4, <2>5 DEF Token
<1> QED BY <1>4, <1>5, <1>6 DEF HttpInv

\* A header, or the empty line behind the last, is parsed; nothing else ends the headers
\* of a well formed request.
LEMMA ParseHeaderKeeps == HttpInv /\ ParseHeader => HttpInv'
<1> SUFFICES ASSUME HttpInv, ParseHeader PROVE HttpInv'
    OBVIOUS
<1> DEFINE r == request.line
           j == request.fields
           n == Len(requests[r].fields)
           header == \E i \in 1 .. FindCRLF - 1 : buffer[i].kind = "field"
<1>1. /\ parsing /\ parseState = "kExpectHeaders" /\ FindCRLF # 0
      /\ IF header
         THEN request' = [request EXCEPT !.fields = @ + 1] /\ parseState' = parseState
         ELSE parseState' = "kExpectBody" /\ request' = request
      /\ RetrieveLine
      /\ parsing' = ~aborted'
      /\ UNCHANGED <<requests, consumed, open, handled, sent, clean>>
    BY DEF ParseHeader
<1>2. /\ AllRequests /\ Flags /\ Buffered /\ Records /\ AtLineEnd /\ AtHeader
      /\ (Sound => Progress)
    BY DEF HttpInv
<1>3. /\ Stream' = Stream
      /\ \A q : End(q)' = End(q) /\ HeaderEnd(q)' = HeaderEnd(q)
      /\ \A q, k : FieldsEnd(q, k)' = FieldsEnd(q, k)
    BY <1>1, StreamStays
<1>4. ~aborted /\ aborted \in BOOLEAN
    BY <1>1, <1>2 DEF AtLineEnd, Flags
<1>5. /\ Buffered'
      /\ \/ aborted' /\ Stream[consumed].kind = "CR"
         \/ ~aborted' /\ FindCRLF < Len(buffer) /\ Parsed' = Parsed + FindCRLF + 1
    BY <1>1, <1>2, <1>4, RetrieveLineDoes
<1>6. /\ consumed \in Nat /\ Len(buffer) \in Nat /\ Parsed \in Nat
      /\ Len(buffer) = consumed - Parsed /\ consumed <= Len(Stream)
    BY <1>2, BufferIs
<1>7. /\ r \in 1 .. MaxRequests /\ j \in Nat /\ n \in 0 .. MaxFields /\ j <= n
      /\ Parsed = FieldsEnd(r, j) /\ End(r - 1) \in Nat
  <2>1. r \in 1 .. MaxRequests /\ j <= n /\ Parsed = FieldsEnd(r, j) /\ j \in Nat
    BY <1>1, <1>2, <1>4 DEF AtHeader, Records, RequestRecords
  <2>2. n \in 0 .. MaxFields
    BY <1>2, <2>1, RequestType
  <2>3. End(r - 1) \in Nat
    BY <1>2, <2>1, StreamIs DEF StreamLayout, Layout
  <2> QED BY <2>1, <2>2, <2>3
<1>8. /\ j < n => /\ Len(buffer) > 0 => buffer[1] = Token(requests[r].fields[j + 1], r)
                  /\ FindCRLF = IF Len(buffer) > 1 THEN 2 ELSE 0
      /\ j = n => FindCRLF = IF Len(buffer) > 0 THEN 1 ELSE 0
  <2>1. j \in 0 .. n
    BY <1>7
  <2> QED BY <1>2, <1>7, <2>1, ExpectHeader
<1>9. header => j < n /\ FindCRLF = 2
  <2>1. j = n => FindCRLF = 1
    BY <1>1, <1>8
  <2>2. j = n => ~header
    BY <2>1
  <2> HIDE DEF header
  <2> QED BY <1>1, <1>7, <1>8, <2>2
<1>10. header => j + 1 \in 0 .. MaxFields /\ j + 1 <= n
  <2>1. MaxFields \in Nat
    BY ShapeAssumption
  <2>2. \A a, b, m \in Nat : a < b /\ b <= m => a + 1 \in 0 .. m /\ a + 1 <= b
    OBVIOUS
  <2>3. n \in Nat /\ n <= MaxFields
    BY <1>7, <2>1
  <2> HIDE DEF n, j, header
  <2> QED BY <1>7, <1>9, <2>1, <2>2, <2>3
<1> HIDE DEF header
<1>11. /\ request' \in RequestRecords
       /\ request'.line = r /\ request'.params = request.params
       /\ request'.fields = IF header THEN j + 1 ELSE j
  <2>1. request \in RequestRecords
    BY <1>2 DEF Records
  <2>2. CASE header
    BY <1>1, <1>10, <2>1, <2>2 DEF RequestRecords
  <2>3. CASE ~header
    BY <1>1, <2>1, <2>3
  <2> QED BY <2>2, <2>3
<1>12. AllRequests' /\ Flags' /\ AtLineEnd' /\ Records'
  <2>1. aborted' \in BOOLEAN /\ parsing' \in BOOLEAN
    BY <1>1, <1>4, <1>5 DEF RetrieveLine
  <2> QED BY <1>1, <1>2, <1>3, <1>5, <1>11, <2>1 DEF AllRequests, Flags, AtLineEnd, Records
<1>13. AtHeader'
  <2>1. CASE header
    <3>1. request'.fields <= Len(requests[r].fields)
      BY <1>10, <1>11, <2>1
    <3>2. ~aborted' => Parsed' = FieldsEnd(r, j + 1)
      <4>1. ~aborted' => Parsed' = End(r - 1) + 3 * (1 + j) + 3
        BY <1>5, <1>6, <1>7, <1>9, <2>1 DEF FieldsEnd
      <4>2. \A b, k \in Nat : b + 3 * (1 + k) + 3 = b + 3 * (1 + (k + 1))
        OBVIOUS
      <4> QED BY <1>7, <4>1, <4>2 DEF FieldsEnd
    <3> QED BY <1>1, <1>3, <1>7, <1>11, <2>1, <3>1, <3>2 DEF AtHeader
  <2>2. CASE ~header
    BY <1>1, <2>2 DEF AtHeader
  <2> QED BY <2>1, <2>2
<1>14. ASSUME Sound' PROVE Progress'
  <2>1. Progress /\ Sound /\ ~aborted'
    <3>1. Sound
      BY <1>1, <1>2, <1>4, <1>6, <1>14, SoundBefore
    <3> QED BY <1>2, <1>14, <3>1 DEF Sound
  <2>2. r = Len(handled) + 1 /\ (requests[r].query => r \in request.params)
    BY <1>1, <2>1 DEF Progress, ParserAt
  <2>3. Replied'
    BY <1>1, <2>1, RepliedStays DEF Progress
  <2>4. Reached(Len(handled))'
    BY <1>1, <1>3, <1>14, <2>1 DEF Progress, Reached
  <2>5. CASE header
    <3>1. parseState' = "kExpectHeaders"
      BY <1>1, <2>5
    <3>2. ParserAt(Len(handled) + 1)'
      BY <1>1, <1>7, <1>11, <2>2, <3>1 DEF ParserAt
    <3> QED BY <2>3, <2>4, <3>1, <3>2 DEF Progress
  <2>6. CASE ~header
    <3>1. j = n /\ FindCRLF = 1
      <4>1. ASSUME j < n PROVE FALSE
        <5>1. j + 1 \in 1 .. n
          BY <1>7, <4>1
        <5>2. WellFormed(r)
          <6>1. Parsed = End(r - 1) + 3 * (1 + j) /\ Parsed <= consumed
            BY <1>6, <1>7 DEF FieldsEnd
          <6>2. \A a, k \in Nat : a < a + 3 * (1 + k)
            OBVIOUS
          <6>3. End(r - 1) < Parsed
            BY <1>7, <6>1, <6>2
          <6>4. End(r - 1) < consumed
            BY <1>6, <1>7, <6>1, <6>3
          <6> QED BY <1>7, <2>1, <6>4 DEF Sound, Begun
        <5>3. requests[r].fields[j + 1] = "field"
          <6>1. requests[r].fields \in Seq(Fields)
            BY <1>2, <1>7, RequestType
          <6> QED BY <5>1, <5>2, <6>1 DEF WellFormed
        <5>4. FindCRLF = 2 /\ Len(buffer) > 0
          BY <1>1, <1>6, <1>8, <4>1
        <5>5. buffer[1].kind = "field"
          BY <1>8, <4>1, <5>3, <5>4 DEF Token
        <5> QED BY <2>6, <5>4, <5>5 DEF header
      <4>2. j = n
        BY <1>7, <4>1
      <4> QED BY <1>1, <1>8, <4>2
    <3>2. Parsed' = HeaderEnd(r)
      <4>1. Parsed' = Parsed + 2
        BY <1>5, <1>6, <2>1, <3>1
      <4>2. HeaderEnd(r) = FieldsEnd(r, n) + 2
        BY <1>2, <1>7, StreamIs DEF StreamLayout, Layout
      <4> QED BY <1>7, <3>1, <4>1, <4>2
    <3>3. parseState' = "kExpectBody" /\ parsing' = TRUE /\ request' = request
      BY <1>1, <2>1, <2>6
    <3>4. ParserAt(Len(handled) + 1)'
      BY <1>1, <1>3, <1>7, <1>11, <2>2, <3>1, <3>2, <3>3 DEF ParserAt
    <3> QED BY <2>3, <2>4, <3>3, <3>4 DEF Progress
  <2> QED BY <2>5, <2>6
<1> QED BY <1>5, <1>12, <1>13, <1>14 DEF HttpInv

\* The body is taken: the buffer holds it and nothing else.
LEMMA ParseBodyKeeps == HttpInv /\ ParseBody => HttpInv'
<1> SUFFICES ASSUME HttpInv, ParseBody PROVE HttpInv'
    OBVIOUS
<1>1. /\ parsing /\ parseState = "kExpectBody"
      /\ request' = [request EXCEPT !.body = buffer] /\ buffer' = <<>>
      /\ parseState' = "kGotAll"
      /\ UNCHANGED <<requests, consumed, parsing, open, aborted, handled, sent, clean>>
    BY DEF ParseBody
<1>2. /\ AllRequests /\ Flags /\ Buffered /\ Records /\ AtLineEnd /\ AtHeader
      /\ (Sound => Progress)
    BY DEF HttpInv
<1>3. /\ Stream' = Stream
      /\ \A q : End(q)' = End(q) /\ HeaderEnd(q)' = HeaderEnd(q)
    BY <1>1, StreamStays
<1>4. /\ consumed \in Nat /\ Len(buffer) \in Nat /\ Parsed \in Nat
      /\ Len(buffer) = consumed - Parsed /\ consumed <= Len(Stream)
      /\ \A i \in 1 .. Len(buffer) : buffer[i] = Stream[Parsed + i]
    BY <1>2, BufferIs
<1>5. buffer' \in Seq(Tokens) /\ Len(buffer') = 0
    BY <1>1
<1>6. Parsed' = consumed
  <2>1. Parsed' = consumed - 0
    BY <1>1, <1>5 DEF Parsed
  <2> QED BY <1>4, <2>1
<1>7. Buffered'
  <2>1. Stream \in Seq(Tokens)
    BY <1>2, StreamIs DEF StreamLayout
  <2>2. SubSeq(Stream, consumed + 1, consumed) = <<>>
    BY <1>4, <2>1
  <2>3. consumed \in 0 .. Len(Stream)
    BY <1>2 DEF Buffered
  <2>4. Len(buffer') <= consumed'
    BY <1>1, <1>4, <1>5
  <2>5. buffer' = SubSeq(Stream', Parsed' + 1, consumed')
    BY <1>1, <1>3, <1>6, <2>2
  <2> QED BY <1>1, <1>3, <1>5, <2>3, <2>4, <2>5 DEF Buffered
<1>8. buffer \in Seq(Tokens)
    BY <1>2 DEF Buffered
<1>9. AllRequests' /\ Flags' /\ Records' /\ AtLineEnd' /\ AtHeader'
  <2>1. Records'
    BY <1>1, <1>2, <1>8 DEF Records, RequestRecords
  <2> QED BY <1>1, <1>2, <1>3, <2>1 DEF AllRequests, Flags, AtLineEnd, AtHeader
<1>10. ASSUME Sound' PROVE Progress'
  <2> DEFINE r == Len(handled) + 1
             q == requests[r]
  <2>1. Progress
    <3>1. Sound
      BY <1>1, <1>2, <1>4, <1>10, SoundBefore
    <3> QED BY <1>2, <3>1
  <2>2. ParserAt(r) /\ r <= MaxRequests
    BY <1>1, <2>1 DEF Progress, ParserAt
  <2>3. Len(handled) < MaxRequests
    BY <1>2, <2>2, ShapeAssumption DEF Records
  <2>4. r \in 1 .. MaxRequests /\ Layout(r) /\ q.body \in Nat
    BY <2>3, NextRequest
  <2>5. Parsed = HeaderEnd(r)
    BY <1>1, <2>2 DEF ParserAt
  <2>6. consumed < HeaderEnd(r) \/ consumed = End(r)
    BY <2>1, <2>3 DEF Progress, Reached
  <2>7. HeaderEnd(r) \in Nat /\ End(r) = HeaderEnd(r) + q.body
    BY <2>4 DEF Layout
  <2> HIDE DEF r, q
  <2>8. consumed = End(r) /\ Len(buffer) = q.body
    BY <1>4, <2>4, <2>5, <2>6, <2>7
  <2>9. buffer = [i \in 1 .. q.body |-> Token("body", r)]
    <3>1. \A i \in 1 .. q.body : buffer[i] = Token("body", r)
      BY <1>4, <2>4, <2>5, <2>8 DEF Layout, q
    <3> QED BY <1>8, <2>8, <3>1
  <2>10. request'.body = buffer /\ request'.line = request.line
         /\ request'.fields = request.fields /\ request'.params = request.params
    BY <1>1, <1>2 DEF Records, RequestRecords
  <2>11. ParserAt(r)'
    <3>1. /\ r <= MaxRequests /\ request.line = r
          /\ requests[r].query => r \in request.params
          /\ request.fields = Len(requests[r].fields)
      BY <1>1, <2>2 DEF ParserAt
    <3>2. Parsed' = End(r)
      BY <1>6, <2>8
    <3>3. r' = r /\ requests'[r] = q
      BY <1>1 DEF r, q
    <3> QED BY <1>1, <1>3, <2>9, <2>10, <3>1, <3>2, <3>3 DEF ParserAt, Token, q
  <2>12. Replied'
    BY <1>1, <2>1, RepliedStays DEF Progress
  <2>13. Reached(Len(handled))'
    BY <1>1, <1>3, <2>1 DEF Progress, Reached
  <2>14. ParserAt(Len(handled) + 1)'
    BY <2>11 DEF r
  <2> QED BY <1>1, <2>12, <2>13, <2>14 DEF Progress
<1> QED BY <1>7, <1>9, <1>10 DEF HttpInv

\* The callback is called and answered, and the parser reset.
LEMMA OnRequestKeeps == HttpInv /\ OnRequest => HttpInv'
<1> SUFFICES ASSUME HttpInv, OnRequest PROVE HttpInv'
    OBVIOUS
<1>1. /\ parsing /\ parseState = "kGotAll"
      /\ handled' = Append(handled, request)
      /\ sent' = IF open THEN Append(sent, request.line) ELSE sent
    BY DEF OnRequest, SendResponse
<1>2. /\ open' \in {open, FALSE} /\ parsing' = FALSE
      /\ parseState' = "kExpectRequestLine"
      /\ request' = [NoRequest EXCEPT !.params = request.params, !.body = request.body]
      /\ UNCHANGED <<requests, consumed, buffer, aborted, clean>>
    BY DEF OnRequest, Reset, connection
<1>3. /\ AllRequests /\ Flags /\ Buffered /\ Records /\ AtLineEnd /\ AtHeader
      /\ (Sound => Progress)
    BY DEF HttpInv
<1>4. /\ Stream' = Stream /\ Parsed' = Parsed
      /\ \A q : End(q)' = End(q) /\ HeaderEnd(q)' = HeaderEnd(q)
    BY <1>2, StreamStays DEF Parsed
<1>5. request'.fields = 0 /\ request' \in RequestRecords
  <2>1. request \in RequestRecords
    BY <1>3 DEF Records
  <2>2. request' = [line |-> 0, fields |-> 0, params |-> request.params, body |-> request.body]
    BY <1>2 DEF NoRequest
  <2> QED BY <2>1, <2>2, ShapeAssumption DEF RequestRecords
<1>6. request \in RequestRecords /\ handled \in Seq(RequestRecords) /\ sent \in Seq(Nat)
      /\ request.line \in Nat
    BY <1>3, ShapeAssumption DEF Records, RequestRecords
<1>7. /\ handled' \in Seq(RequestRecords) /\ Len(handled') = Len(handled) + 1
      /\ \A q \in 1 .. Len(handled) : handled'[q] = handled[q]
      /\ handled'[Len(handled) + 1] = request
      /\ Len(handled) \in Nat
    BY <1>1, <1>6, AppendProperties
<1>8. /\ sent' \in Seq(Nat)
      /\ open => /\ Len(sent') = Len(sent) + 1 /\ sent'[Len(sent) + 1] = request.line
                 /\ \A i \in 1 .. Len(sent) : sent'[i] = sent[i]
      /\ ~open => sent' = sent
    BY <1>1, <1>6, AppendProperties
<1>9. AllRequests' /\ Flags' /\ Buffered' /\ Records' /\ AtLineEnd' /\ AtHeader'
  <2>1. AllRequests' /\ Flags' /\ AtLineEnd' /\ AtHeader'
    BY <1>2, <1>3, <1>4, <1>5 DEF AllRequests, Flags, AtLineEnd, AtHeader
  <2>2. Buffered' /\ Records'
    BY <1>2, <1>3, <1>4, <1>5, <1>7, <1>8 DEF Buffered, Records
  <2> QED BY <2>1, <2>2
<1>10. ASSUME Sound' PROVE Progress'
  <2> DEFINE h == Len(handled)
             r == h + 1
  <2>1. /\ consumed \in Nat /\ Parsed \in 0 .. consumed
    BY <1>3, BufferIs
  <2>2. Progress
    <3>1. Sound
      BY <1>2, <1>3, <1>10, <2>1, SoundBefore
    <3> QED BY <1>3, <3>1
  <2>3. /\ r <= MaxRequests /\ request.line = r /\ Parsed = End(r)
        /\ requests[r].query => r \in request.params
        /\ request.fields = Len(requests[r].fields)
        /\ request.body = [i \in 1 .. requests[r].body |-> Token("body", r)]
    BY <1>1, <2>2 DEF Progress, ParserAt
  <2>4. h \in Nat /\ h < MaxRequests
    BY <1>7, <2>3, ShapeAssumption
  <2>5. r \in 1 .. MaxRequests /\ Layout(r) /\ requests[r].body \in Nat
    BY <2>4, NextRequest
  <2>6. Replied'
    <3>1. Replied
      BY <2>2 DEF Progress
    <3>2. ASSUME NEW q \in DOMAIN handled' PROVE HandledRequest(q)'
      <4>1. q \in 1 .. h \/ q = r
        BY <1>7
      <4>2. CASE q \in 1 .. h
        <5>1. q \in DOMAIN handled
          BY <1>6, <4>2
        <5>2. HandledRequest(q)
          BY <3>1, <5>1 DEF Replied
        <5> QED BY <1>2, <1>7, <4>2, <5>2 DEF HandledRequest, Token
      <4>3. CASE q = r
        BY <1>2, <1>7, <2>3, <4>3 DEF HandledRequest, Token
      <4> QED BY <4>1, <4>2, <4>3
    <3>3. ASSUME NEW i \in DOMAIN sent' PROVE sent'[i] = i
      <4>1. \A k \in 1 .. Len(sent) : sent[k] = k
        BY <1>6, <3>1 DEF Replied
      <4>2. i \in 1 .. Len(sent') /\ Len(sent) \in Nat
        BY <1>6, <1>8
      <4>3. CASE open
        <5>1. Len(sent) = h
          BY <3>1, <4>3 DEF Replied
        <5> QED BY <1>8, <2>3, <4>1, <4>2, <4>3, <5>1
      <4>4. CASE ~open
        BY <1>8, <4>1, <4>2, <4>4
      <4> QED BY <4>3, <4>4
    <3>4. open' => Len(sent') = Len(handled')
      BY <1>2, <1>3, <1>7, <1>8, <3>1 DEF Replied, Flags
    <3>5. Len(handled') <= MaxRequests
      BY <1>7, <2>3
    <3> QED BY <3>2, <3>3, <3>4, <3>5 DEF Replied
  <2>7. consumed < HeaderEnd(r) \/ consumed = End(r)
    BY <2>2, <2>4 DEF Progress, Reached
  <2>8. HeaderEnd(r) \in Nat /\ End(r) = HeaderEnd(r) + requests[r].body
    BY <2>5 DEF Layout
  <2>9. consumed = End(r)
    BY <2>1, <2>3, <2>5, <2>7, <2>8
  <2>10. ASSUME r < MaxRequests PROVE consumed < HeaderEnd(r + 1)
    <3>1. r + 1 \in 1 .. MaxRequests /\ (r + 1) - 1 = r
      BY <2>4, <2>5, <2>10, ShapeAssumption
    <3>2. Layout(r + 1) /\ Len(requests[r + 1].fields) \in Nat
      BY <1>3, <3>1, StreamIs, RequestType DEF StreamLayout
    <3>3. HeaderEnd(r + 1) = End(r) + 3 * (1 + Len(requests[r + 1].fields)) + 2
      BY <3>1, <3>2 DEF Layout, FieldsEnd
    <3> QED BY <2>1, <2>9, <3>2, <3>3
  <2>11. Len(handled') = r
    BY <1>7
  <2>12. Reached(Len(handled))'
    BY <1>2, <1>4, <2>1, <2>9, <2>10, <2>11 DEF Reached
  <2>13. Parsed' = End(Len(handled))'
    BY <1>4, <2>3, <2>11
  <2> QED BY <1>2, <2>6, <2>12, <2>13 DEF Progress
<1> QED BY <1>9, <1>10 DEF HttpInv

\* Every step keeps the invariant.
LEMMA HttpStep == HttpInv /\ [HttpNext]_httpVars => HttpInv'
<1> SUFFICES ASSUME HttpInv, [HttpNext]_httpVars PROVE HttpInv'
    OBVIOUS
<1>1. CASE HttpNext
    BY <1>1, OnMessageKeeps, ParseRequestLineKeeps, RejectRequestLineKeeps, ParseHeaderKeeps,
       AwaitMoreKeeps, ParseBodyKeeps, OnRequestKeeps DEF HttpNext
<1>2. CASE UNCHANGED httpVars
  <2>1. UNCHANGED <<requests, consumed, buffer, parsing, parseState, request, open, aborted,
                    handled, sent, clean>>
    BY <1>2 DEF httpVars, connection
  <2>2. Stream' = Stream /\ Parsed' = Parsed
        /\ (\A r : End(r)' = End(r) /\ HeaderEnd(r)' = HeaderEnd(r))
        /\ (\A r, j : FieldsEnd(r, j)' = FieldsEnd(r, j))
    BY <2>1, StreamStays DEF Parsed
  <2>3. AllRequests' /\ Flags' /\ Buffered' /\ Records' /\ AtLineEnd' /\ AtHeader'
    BY <2>1, <2>2 DEF HttpInv, AllRequests, Flags, Buffered, Records, AtLineEnd, AtHeader
  <2>4. ASSUME Sound' PROVE Progress'
    <3>1. AllRequests /\ consumed \in Nat
      BY BufferIs DEF HttpInv
    <3>2. Progress
      BY <2>1, <2>4, <3>1, SoundBefore DEF HttpInv
    <3>3. Replied'
      BY <2>1, <3>2, RepliedStays DEF Progress
    <3> QED BY <2>1, <2>2, <3>2, <3>3 DEF Progress, Reached, ParserAt, Token
  <2> QED BY <2>3, <2>4 DEF HttpInv
<1> QED BY <1>1, <1>2

\* It holds throughout.
LEMMA HttpInductive == HttpSpec => []HttpInv
BY HttpInitInv, HttpStep, PTL DEF HttpSpec

\* For every set of forms of requests and every number of them: the parser's state has
\* its types, the number of headers never exceeds that of the request (HttpContext::reset
\* clears them between requests) and the buffer is the unparsed end of what was read.
THEOREM HttpTypeCorrect == HttpSpec => []HttpTypeOK
BY HttpInductive, HttpInvType, PTL

\* It implies HandledWhole: what was handled is what has come whole, because the ends of
\* the requests are in order.
LEMMA HttpInvWhole == HttpInv => HandledWhole
<1> SUFFICES ASSUME HttpInv PROVE HandledWhole
    OBVIOUS
<1>1. AllRequests /\ Buffered /\ Records /\ DOMAIN requests = 1 .. MaxRequests
      /\ AtLineEnd /\ (Sound => Progress)
    BY DEF HttpInv, AllRequests
<1>2. ASSUME ~parsing, ~aborted, clean, \A r \in 1 .. MaxRequests : Begun(r) => WellFormed(r)
      PROVE  /\ Len(handled) = Cardinality({r \in 1 .. MaxRequests : End(r) <= consumed})
             /\ \A i \in DOMAIN sent : sent[i] = i
             /\ \A r \in DOMAIN handled : HandledRequest(r)
  <2> DEFINE h == Len(handled)
  <2>1. Progress
    BY <1>1, <1>2 DEF Sound
  <2>2. /\ h \in Nat /\ h <= MaxRequests /\ MaxRequests \in Nat /\ End(h) <= consumed
        /\ h < MaxRequests => consumed < HeaderEnd(h + 1)
    BY <1>1, <1>2, <2>1, ShapeAssumption DEF Progress, Replied, Reached, Records
  <2>3. consumed \in Nat
    BY <1>1, BufferIs
  <2>4. \A r \in 1 .. MaxRequests :
          /\ End(r) \in Nat /\ HeaderEnd(r) \in Nat /\ End(r - 1) \in Nat
          /\ HeaderEnd(r) <= End(r) /\ End(r - 1) <= End(r)
    <3>1. ASSUME NEW r \in 1 .. MaxRequests
          PROVE  /\ End(r) \in Nat /\ HeaderEnd(r) \in Nat /\ End(r - 1) \in Nat
                 /\ HeaderEnd(r) <= End(r) /\ End(r - 1) <= End(r)
      <4> DEFINE n == Len(requests[r].fields)
                 m == requests[r].body
      <4>1. /\ n \in Nat /\ m \in Nat /\ End(r - 1) \in Nat /\ HeaderEnd(r) \in Nat
            /\ HeaderEnd(r) = End(r - 1) + 3 * (1 + n) + 2
            /\ End(r) = HeaderEnd(r) + m
        BY <1>1, StreamIs, RequestType DEF StreamLayout, Layout, FieldsEnd
      <4> HIDE DEF n, m
      <4> QED BY <4>1
    <3> QED BY <3>1
  <2> HIDE DEF h
  <2>5. \A r \in 1 .. h : End(r) <= consumed
    <3> DEFINE T == {k \in Nat : k < h => End(h - k) <= consumed}
    <3>1. 0 \in T
      BY <2>2
    <3>2. ASSUME NEW k \in T, k \in Nat PROVE k + 1 \in T
      <4>1. SUFFICES ASSUME k + 1 < h PROVE End(h - (k + 1)) <= consumed
        OBVIOUS
      <4>2. h - k \in 1 .. MaxRequests /\ (h - k) - 1 = h - (k + 1) /\ k < h
        BY <2>2, <3>2, <4>1
      <4>3. End(h - k) <= consumed
        BY <4>2
      <4>4. End(h - k) \in Nat /\ End((h - k) - 1) \in Nat /\ End((h - k) - 1) <= End(h - k)
        BY <2>4, <4>2
      <4> QED BY <2>3, <4>2, <4>3, <4>4
    <3>3. Nat \subseteq T
      <4> HIDE DEF T
      <4> QED BY <3>1, <3>2, InductionOnSet
    <3>4. ASSUME NEW r \in 1 .. h PROVE End(r) <= consumed
      <4>1. h - r \in Nat /\ h - r < h /\ h - (h - r) = r
        BY <2>2
      <4>2. h - r \in T
        BY <3>3, <4>1
      <4> QED BY <4>1, <4>2
    <3> QED BY <3>4
  <2>6. \A r \in h + 1 .. MaxRequests : End(r) > consumed
    <3> DEFINE T == {k \in Nat : h + 1 + k <= MaxRequests => End(h + 1 + k) > consumed}
    <3>1. 0 \in T
      <4>1. SUFFICES ASSUME h + 1 <= MaxRequests PROVE End(h + 1) > consumed
        BY <2>2
      <4>2. h + 1 \in 1 .. MaxRequests
        BY <2>2, <4>1
      <4> QED BY <2>2, <2>3, <2>4, <4>2
    <3>2. ASSUME NEW k \in T, k \in Nat PROVE k + 1 \in T
      <4>1. SUFFICES ASSUME h + 1 + (k + 1) <= MaxRequests PROVE End(h + 1 + (k + 1)) > consumed
        OBVIOUS
      <4>2. /\ h + 1 + (k + 1) \in 1 .. MaxRequests
            /\ (h + 1 + (k + 1)) - 1 = h + 1 + k /\ h + 1 + k <= MaxRequests
        BY <2>2, <3>2, <4>1
      <4>3. End(h + 1 + k) > consumed
        BY <4>2
      <4>4. End(h + 1 + k) \in Nat /\ End(h + 1 + (k + 1)) \in Nat
            /\ End(h + 1 + k) <= End(h + 1 + (k + 1))
        BY <2>4, <4>2
      <4> QED BY <2>3, <4>3, <4>4
    <3>3. Nat \subseteq T
      <4> HIDE DEF T
      <4> QED BY <3>1, <3>2, InductionOnSet
    <3>4. ASSUME NEW r \in h + 1 .. MaxRequests PROVE End(r) > consumed
      <4>1. r - (h + 1) \in Nat /\ h + 1 + (r - (h + 1)) = r
        BY <2>2
      <4>2. r - (h + 1) \in T
        BY <3>3, <4>1
      <4> QED BY <2>2, <4>1, <4>2
    <3> QED BY <3>4
  <2>7. {r \in 1 .. MaxRequests : End(r) <= consumed} = 1 .. h
    <3>1. ASSUME NEW r \in 1 .. MaxRequests PROVE End(r) <= consumed <=> r \in 1 .. h
      <4>1. r \in 1 .. h \/ r \in h + 1 .. MaxRequests
        BY <2>2
      <4>2. End(r) > consumed => ~(End(r) <= consumed)
        BY <2>3, <2>4
      <4> QED BY <2>2, <2>5, <2>6, <4>1, <4>2
    <3>2. 1 .. h \subseteq 1 .. MaxRequests
      BY <2>2
    <3> QED BY <3>1, <3>2
  <2>8. Cardinality(1 .. h) = h
    BY <2>2, FS_Interval
  <2> QED BY <2>1, <2>7, <2>8 DEF Progress, Replied, h
<1>3. aborted => Stream[consumed].kind = "CR"
    BY <1>1 DEF AtLineEnd
<1> QED BY <1>1, <1>2, <1>3 DEF HandledWhole, HandledRequest

\* Wherever the stream is cut: the requests that have come whole are handed to the callback
\* once, in order and with their own headers and body, and answered in order, under
\* HandledWhole's proviso on the pieces; the process ends only if a piece ends behind a CR
\* (HttpContext::parseRequest, HttpServer::onMessage).
THEOREM HandledWholeHolds == HttpSpec => []HandledWhole
BY HttpInductive, HttpInvWhole, PTL
=============================================================================
