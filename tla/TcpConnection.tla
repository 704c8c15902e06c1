---------------------------- MODULE TcpConnection ----------------------------
(***************************************************************************)
(* One connection of src/net/TcpConnection.cc: its state, the output buffer *)
(* between send() and the socket, the events its loop dispatches to it and  *)
(* its end.  The loop thread executes handlers and functors one at a time;  *)
(* other threads read and set state_ and queue functors between them.  User *)
(* code in the loop thread (message, connection and other callbacks) makes  *)
(* its calls right after the handler that invoked it, as they come last in  *)
(* every handler.  A message is a sequence of MsgLen units.                 *)
(***************************************************************************)
EXTENDS Integers, Sequences, FiniteSets, SequencesExt

CONSTANTS
    Users,          \* threads other than the loop's that use the connection
    Msgs,           \* messages, each sent at most once
    MsgLen,         \* units in a message
    HighWaterMark   \* highWaterMark_

ASSUME ConnectionAssumption ==
    /\ MsgLen \in Nat \ {0} /\ HighWaterMark \in Nat \ {0}
    /\ Msgs \cap {"idle", "shutdown"} = {}

VARIABLES
    state,      \* state_
    reading,    \* the channel is registered for EPOLLIN
    writing,    \* channel_->isWriting()
    out,        \* outputBuffer_, the units not yet written
    calls,      \* callbacks still to be made in this handleEventWithGuard
    pending,    \* functors queued on the loop for this connection
    pcU,        \* other threads: a call between its test of state_ and its effect
    removal,    \* closeCallback has asked the server to remove the connection
    destroyed,  \* connectDestroyed has run
    wire,       \* external: the units the kernel has taken
    wrShut,     \* external: SHUT_WR was done
    peer,       \* external: what the other side has done
    unread,     \* external: the peer's data waits to be read
    killed,     \* external: a write raised SIGPIPE, which nothing ignores
    taken,      \* history: messages that reached the socket or the buffer
    closed,     \* history: the channel has been disabled
    revived,    \* history: shutdown() has put kDisconnecting over kDisconnected
    ups, downs  \* history: connectionCallback while connected, disconnected

channel == <<reading, writing, calls>>
socket  == <<wire, wrShut, peer, unread, killed>>
user    == <<ups, downs>>
vars == <<state, channel, out, pending, pcU, removal, destroyed, socket, taken, closed, revived, user>>

Functors == [kind : {"established", "destroyed", "shutdown", "writeComplete", "highWater"}]
              \cup [kind : {"send"}, msg : Msgs]

\* Mutant: the message is read from one unit before its start.
UnitsOffByOne(m) == [i \in 1 .. MsgLen |-> <<m, i - 1>>]

Units(m) == [i \in 1 .. MsgLen |-> <<m, i>>]

TypeOK ==
    /\ state \in {"kConnecting", "kConnected", "kDisconnecting", "kDisconnected"}
    /\ reading \in BOOLEAN /\ writing \in BOOLEAN
    /\ out \in Seq(Msgs \X (1 .. MsgLen)) /\ wire \in Seq(Msgs \X (1 .. MsgLen))
    /\ calls \subseteq {"close", "error", "read", "write"}
    /\ pending \in Seq(Functors)
    /\ pcU \in [Users -> {"idle", "shutdown"} \cup Msgs]
    /\ removal \in BOOLEAN /\ destroyed \in BOOLEAN
    /\ closed \in BOOLEAN /\ revived \in BOOLEAN
    /\ wrShut \in BOOLEAN /\ unread \in BOOLEAN /\ killed \in BOOLEAN
    /\ peer \in {"open", "fin", "reset", "gone"}
    /\ taken \in Seq(Msgs)
    /\ ups \in Nat /\ downs \in Nat

\* TcpServer::newConnection has queued connectEstablished.
Init ==
    /\ state = "kConnecting"
    /\ reading = FALSE /\ writing = FALSE
    /\ out = <<>> /\ wire = <<>> /\ calls = {} /\ taken = <<>>
    /\ pending = <<[kind |-> "established"]>>
    /\ pcU = [u \in Users |-> "idle"]
    /\ removal = FALSE /\ destroyed = FALSE /\ closed = FALSE /\ revived = FALSE
    /\ wrShut = FALSE /\ unread = FALSE /\ killed = FALSE
    /\ peer = "open"
    /\ ups = 0 /\ downs = 0

Do(kind) == [kind |-> kind]

\* Messages no send() has been called with yet.
Fresh == {m \in Msgs : /\ m \notin ToSet(taken) /\ \A u \in Users : pcU[u] # m
                       /\ \A i \in DOMAIN pending : pending[i] # [kind |-> "send", msg |-> m]}

-----------------------------------------------------------------------------
(* External: the socket.                                                    *)

\* A write fails for good once the write side is shut or the peer's reset has
\* been reported: the kernel answers with SIGPIPE.
Broken == wrShut \/ peer = "gone"

PeerSends ==
    /\ peer = "open" /\ ~unread
    /\ unread' = TRUE
    /\ UNCHANGED <<state, channel, out, pending, pcU, removal, destroyed, wire, wrShut,
                   peer, killed, taken, closed, revived, user>>

PeerCloses ==
    /\ peer = "open"
    /\ peer' \in {"fin", "reset"}
    /\ unread' = IF peer' = "reset" THEN FALSE ELSE unread
    /\ UNCHANGED <<state, channel, out, pending, pcU, removal, destroyed, wire, wrShut,
                   killed, taken, closed, revived, user>>

-----------------------------------------------------------------------------
(* Sending, in the loop thread.                                             *)

\* ::write(fd, data) of the units of s: n of them are taken.  None are when the
\* socket buffer is full (EWOULDBLOCK) or the peer has reset the connection
\* (ECONNRESET, reported once).
Write(s, n) ==
    /\ n \in 0 .. Len(s)
    /\ Broken \/ peer = "reset" => n = 0
    /\ wire' = wire \o SubSeq(s, 1, n)
    /\ killed' = Broken
    /\ peer' = IF peer = "reset" THEN "gone" ELSE peer
    /\ UNCHANGED <<wrShut, unread>>

\* Functors that a partial or full write queues: the high-water callback if
\* the buffer, empty before, now holds HighWaterMark units.
AfterWrite(rest) ==
    IF rest = 0 THEN <<Do("writeComplete")>>
    ELSE IF rest >= HighWaterMark THEN <<Do("highWater")>>
    ELSE <<>>

\* Mutant: the whole message is buffered after a partial write.
SendInLoopRepeating(m, queue) ==
    \/ /\ state # "kDisconnected" /\ ~writing /\ out = <<>>
       /\ \E n \in 1 .. MsgLen :
             /\ Write(Units(m), n)
             /\ pending' = queue \o AfterWrite(MsgLen - n)
             /\ out' = IF n = MsgLen THEN <<>> ELSE Units(m)
             /\ writing' = (n < MsgLen)
             /\ taken' = Append(taken, m)
    \/ /\ state = "kDisconnected" \/ writing \/ out # <<>>
       /\ pending' = queue
       /\ UNCHANGED <<out, writing, taken, socket>>

\* Mutant: the rest is buffered without enableWriting.
SendInLoopUnwatched(m, queue) ==
    \/ /\ state # "kDisconnected" /\ ~writing /\ out = <<>>
       /\ \E n \in 1 .. MsgLen :
             /\ Write(Units(m), n)
             /\ pending' = queue \o AfterWrite(MsgLen - n)
             /\ out' = SubSeq(Units(m), n + 1, MsgLen)
             /\ taken' = Append(taken, m)
       /\ UNCHANGED writing
    \/ /\ state = "kDisconnected" \/ writing \/ out # <<>>
       /\ pending' = queue
       /\ UNCHANGED <<out, writing, taken, socket>>

\* sendInLoop.  `remaining` is set by a write that takes something; when the
\* channel is already writing, or the write fails, it is 0 and nothing of the
\* message is kept.
SendInLoop(m, queue) ==
    \/ /\ state # "kDisconnected" /\ ~writing /\ out = <<>>
       /\ \E n \in 0 .. MsgLen :
             /\ Write(Units(m), n)
             /\ IF n = 0
                THEN pending' = queue /\ UNCHANGED <<out, writing, taken>>
                ELSE /\ pending' = queue \o AfterWrite(MsgLen - n)
                     /\ out' = SubSeq(Units(m), n + 1, MsgLen)
                     /\ writing' = (n < MsgLen)
                     /\ taken' = Append(taken, m)
    \/ /\ state = "kDisconnected" \/ writing \/ out # <<>>
       /\ pending' = queue
       /\ UNCHANGED <<out, writing, taken, socket>>

\* send() called in the loop thread by user code that knows the connection.
LoopSend(m) ==
    /\ ups = 1 /\ ~destroyed
    /\ state = "kConnected"
    /\ m \in Fresh
    /\ SendInLoop(m, pending)
    /\ UNCHANGED <<state, reading, calls, pcU, removal, destroyed, closed, revived, user>>

\* Mutant: the write side is shut whatever the buffer holds.
ShutdownInLoopNow == wrShut' = TRUE

\* shutdownInLoop: only if nothing is waiting to be written.
ShutdownInLoop == wrShut' = IF writing THEN wrShut ELSE TRUE

LoopShutdown ==
    /\ ups = 1 /\ ~destroyed
    /\ state = "kConnected"
    /\ state' = "kDisconnecting"
    /\ ShutdownInLoop
    /\ UNCHANGED <<channel, out, pending, pcU, removal, destroyed, wire, peer, unread,
                   killed, taken, closed, revived, user>>

-----------------------------------------------------------------------------
(* Other threads: state_ is tested first, and acted upon in a later step.   *)

UserTest(u) ==
    /\ ups = 1
    /\ pcU[u] = "idle"
    /\ state = "kConnected"
    /\ \E call \in Fresh \cup {"shutdown"} : pcU' = [pcU EXCEPT ![u] = call]
    /\ UNCHANGED <<state, channel, out, pending, removal, destroyed, socket, taken, closed, revived, user>>

\* send() queues sendInLoop.
UserSend(u) ==
    /\ pcU[u] \in Msgs
    /\ pending' = Append(pending, [kind |-> "send", msg |-> pcU[u]])
    /\ pcU' = [pcU EXCEPT ![u] = "idle"]
    /\ UNCHANGED <<state, channel, out, removal, destroyed, socket, taken, closed, revived, user>>

\* shutdown() sets state_, whatever it has become, and queues shutdownInLoop.
UserShutdown(u) ==
    /\ pcU[u] = "shutdown"
    /\ state' = "kDisconnecting"
    /\ pending' = Append(pending, Do("shutdown"))
    /\ pcU' = [pcU EXCEPT ![u] = "idle"]
    /\ revived' = (revived \/ state = "kDisconnected")
    /\ UNCHANGED <<channel, out, removal, destroyed, socket, taken, closed, user>>

-----------------------------------------------------------------------------
(* Events of the channel, Channel::handleEventWithGuard.                    *)

BothShut == wrShut /\ peer = "fin"

\* What epoll may report; errors and hang-ups are reported unasked.
Possible ==
    (IF reading /\ (unread \/ peer # "open") THEN {"IN"} ELSE {})
      \cup (IF writing THEN {"OUT"} ELSE {})
      \cup (IF peer \in {"reset", "gone"} \/ BothShut THEN {"HUP"} ELSE {})
      \cup (IF peer = "reset" THEN {"ERR"} ELSE {})

\* Each flag of revents_ is tested in turn; the close callback only without IN.
CallbacksOf(revents) ==
    {c \in {"close", "error", "read", "write"} :
        \/ c = "close" /\ "HUP" \in revents /\ "IN" \notin revents
        \/ c = "error" /\ "ERR" \in revents
        \/ c = "read"  /\ "IN" \in revents
        \/ c = "write" /\ "OUT" \in revents}

\* A level-triggered poll reports all there is; the socket may have no room.
Poll(room) ==
    /\ reading \/ writing
    /\ calls = {}
    /\ LET revents == IF room THEN Possible ELSE Possible \ {"OUT"}
       IN  revents # {} /\ calls' = CallbacksOf(revents)
    /\ UNCHANGED <<state, reading, writing, out, pending, pcU, removal, destroyed, socket,
                   taken, closed, revived, user>>

Earlier == [close |-> {}, error |-> {"close"}, read |-> {"close", "error"},
            write |-> {"close", "error", "read"}]

Callback(c) ==
    /\ c \in calls
    /\ calls \cap Earlier[c] = {}
    /\ calls' = calls \ {c}

\* Mutant: closeCallback is not called.
HandleCloseUnreported ==
    /\ state' = "kDisconnected"
    /\ reading' = FALSE /\ writing' = FALSE
    /\ closed' = TRUE
    /\ downs' = downs + 1
    /\ UNCHANGED <<removal, ups>>

\* handleClose: disableAll, connectionCallback, closeCallback.
HandleClose ==
    /\ state' = "kDisconnected"
    /\ reading' = FALSE /\ writing' = FALSE
    /\ closed' = TRUE
    /\ downs' = downs + 1
    /\ removal' = TRUE
    /\ UNCHANGED ups

HandleHangUp ==
    /\ Callback("close")
    /\ HandleClose
    /\ UNCHANGED <<out, pending, pcU, destroyed, socket, taken, revived>>

\* handleError reads SO_ERROR, which clears it, and logs.
HandleError ==
    /\ Callback("error")
    /\ peer' = IF peer = "reset" THEN "gone" ELSE peer
    /\ UNCHANGED <<state, reading, writing, out, pending, pcU, removal, destroyed, wire,
                   wrShut, unread, killed, taken, closed, revived, user>>

\* handleRead: data goes to messageCallback, 0 is the end, an error is logged.
HandleRead ==
    /\ Callback("read")
    /\ \/ /\ unread
          /\ unread' = FALSE
          /\ UNCHANGED <<state, reading, writing, removal, closed, user, peer>>
       \/ /\ ~unread /\ peer \in {"fin", "gone"}
          /\ HandleClose
          /\ UNCHANGED <<peer, unread>>
       \/ /\ ~unread /\ peer = "reset"
          /\ peer' = "gone"
          /\ UNCHANGED <<state, reading, writing, removal, closed, user, unread>>
       \/ /\ ~unread /\ peer = "open"     \* EAGAIN
          /\ UNCHANGED <<state, reading, writing, removal, closed, user, peer, unread>>
    /\ UNCHANGED <<out, pending, pcU, destroyed, wire, wrShut, killed, taken, revived>>

\* Mutant: EPOLLOUT stays enabled when the buffer is empty.
HandleWriteWatching ==
    /\ Callback("write")
    /\ writing
    /\ \E n \in 0 .. Len(out) :
          /\ Broken \/ peer = "reset" => n = 0
          /\ wire' = wire \o SubSeq(out, 1, n)
          /\ out' = SubSeq(out, n + 1, Len(out))
    /\ UNCHANGED <<state, reading, writing, pending, pcU, removal, destroyed, wrShut, peer, unread,
                   killed, taken, closed, revived, user>>

\* handleWrite: writes what the socket takes of the buffer and, when it is
\* empty, stops watching for EPOLLOUT.  Only in kDisconnected does it go on to
\* shutdownInLoop.
HandleWrite ==
    /\ Callback("write")
    /\ \/ /\ writing
          /\ \E n \in 0 .. Len(out) :
                /\ Broken \/ peer = "reset" => n = 0
                /\ wire' = wire \o SubSeq(out, 1, n)
                /\ out' = SubSeq(out, n + 1, Len(out))
                /\ writing' = (n < Len(out))
                /\ pending' = IF n = Len(out) THEN Append(pending, Do("writeComplete"))
                              ELSE pending
                /\ wrShut' = (wrShut \/ (n = Len(out) /\ state = "kDisconnected"))
          /\ killed' = Broken
          /\ peer' = IF peer = "reset" THEN "gone" ELSE peer
       \/ /\ ~writing
          /\ UNCHANGED <<out, writing, pending, wire, wrShut, killed, peer>>
    /\ UNCHANGED <<state, reading, pcU, removal, destroyed, unread, taken, closed, revived, user>>

-----------------------------------------------------------------------------
(* Functors, run by the loop in the order they were queued.                 *)

Run(kind) == calls = {} /\ pending # <<>> /\ Head(pending).kind = kind

ConnectEstablished ==
    /\ Run("established")
    /\ state' = "kConnected"
    /\ reading' = TRUE
    /\ ups' = ups + 1
    /\ pending' = Tail(pending)
    /\ UNCHANGED <<writing, calls, out, pcU, removal, destroyed, socket, taken, closed, revived, downs>>

RunSend ==
    /\ Run("send")
    /\ SendInLoop(Head(pending).msg, Tail(pending))
    /\ UNCHANGED <<state, reading, calls, pcU, removal, destroyed, closed, revived, user>>

RunShutdown ==
    /\ Run("shutdown")
    /\ ShutdownInLoop
    /\ pending' = Tail(pending)
    /\ UNCHANGED <<state, channel, out, pcU, removal, destroyed, wire, peer, unread,
                   killed, taken, closed, revived, user>>

\* writeCompleteCallback and highWaterMarkCallback are user code.
RunUserCallback ==
    /\ Run("writeComplete") \/ Run("highWater")
    /\ pending' = Tail(pending)
    /\ UNCHANGED <<state, channel, out, pcU, removal, destroyed, socket, taken, closed, revived, user>>

\* Mutant: connectDestroyed does not test state_.
ConnectDestroyedAlways ==
    /\ Run("destroyed")
    /\ pending' = Tail(pending)
    /\ destroyed' = TRUE
    /\ state' = "kDisconnected"
    /\ reading' = FALSE /\ writing' = FALSE
    /\ closed' = TRUE
    /\ downs' = downs + 1
    /\ UNCHANGED <<calls, out, pcU, removal, socket, taken, revived, ups>>

\* connectDestroyed: the end of a connection whose handleClose has run, or of
\* one that the server drops; channel_->remove() is commented out.
ConnectDestroyed ==
    /\ Run("destroyed")
    /\ pending' = Tail(pending)
    /\ destroyed' = TRUE
    /\ IF state = "kConnected"
       THEN /\ state' = "kDisconnected"
            /\ reading' = FALSE /\ writing' = FALSE
            /\ closed' = TRUE
            /\ downs' = downs + 1
       ELSE UNCHANGED <<state, reading, writing, closed, downs>>
    /\ UNCHANGED <<calls, out, pcU, removal, socket, taken, revived, ups>>

\* External to the connection: TcpServer::removeConnectionInLoop answers the
\* close callback, or ~TcpServer drops a connection it still has; either way
\* connectDestroyed is queued once.
DestroyQueued == destroyed \/ \E i \in DOMAIN pending : pending[i].kind = "destroyed"

QueueDestroyed ==
    /\ ~DestroyQueued
    /\ pending' = Append(pending, Do("destroyed"))
    /\ UNCHANGED <<state, channel, out, pcU, removal, destroyed, socket, taken, closed, revived, user>>

ServerRemoves  == removal /\ QueueDestroyed
ServerDestroys == ~removal /\ ups = 1 /\ QueueDestroyed

-----------------------------------------------------------------------------
HandleEvent == HandleHangUp \/ HandleError \/ HandleRead \/ HandleWrite

RunFunctor == ConnectEstablished \/ RunSend \/ RunShutdown \/ RunUserCallback \/ ConnectDestroyed

UserStep(u) == UserTest(u) \/ UserSend(u) \/ UserShutdown(u)

Next ==
    /\ ~killed
    /\ \/ PeerSends \/ PeerCloses
       \/ \E m \in Msgs : LoopSend(m)
       \/ LoopShutdown
       \/ \E u \in Users : UserStep(u)
       \/ \E room \in BOOLEAN : Poll(room)
       \/ HandleEvent
       \/ RunFunctor
       \/ ServerRemoves \/ ServerDestroys

Spec == Init /\ [][Next]_vars

\* The loop runs its functors and handles what epoll reports; a level-triggered
\* poll reports EPOLLOUT whenever the peer has made room, which it does again
\* and again, and the write then takes something.
Fairness ==
    /\ WF_vars(~killed /\ RunFunctor)
    /\ WF_vars(~killed /\ HandleEvent)
    /\ SF_vars(~killed /\ writing /\ Poll(TRUE))
    /\ SF_vars(~killed /\ HandleWrite /\ Len(out') < Len(out))
    /\ WF_vars(~killed /\ ServerRemoves)
    /\ \A u \in Users : WF_vars(~killed /\ (UserSend(u) \/ UserShutdown(u)))

FairSpec == Spec /\ Fairness

-----------------------------------------------------------------------------
(* Properties.                                                              *)

\* The bytes the socket has taken and the ones in the output buffer are the
\* accepted messages: whole, in order, none twice, however each write() cut
\* them.
StreamWhole ==
    wire \o out = FlattenSeq([i \in DOMAIN taken |-> Units(taken[i])])

\* While the connection lives, EPOLLOUT is watched exactly when there is
\* something to write: neither forgotten (stuck data) nor left on (a busy loop).
\* Once its channel has been disabled nothing is watched.  That is not every end:
\* connectDestroyed of a connection in kDisconnecting leaves it registered.
EventsMatchBuffer ==
    /\ ~closed => (writing <=> out # <<>>)
    /\ closed /\ ~revived => ~reading /\ ~writing

\* The write side is shut while data waits in the buffer only at the end of a
\* connection: shutdown() does not cut a message short.
HalfCloseAfterData == [][wrShut' /\ ~wrShut => out' = <<>> \/ closed]_vars

\* connectionCallback: up once, then down once exactly if the channel has been
\* disabled, by a close or by connectDestroyed; unless a shutdown() of another
\* thread, late to store what it tested, has brought the connection back.
CallbackPairing ==
    ~revived => ups <= 1 /\ downs <= ups /\ (closed <=> downs = 1)

\* Buffered data leaves, if the peer goes on reading, or the connection ends.
Drains == (out # <<>>) ~> (out = <<>> \/ closed \/ killed)

\* A connection that ends is destroyed: whichever side ended it, its functor
\* gets into the loop and the last reference of the server is dropped.
ClosedIsDestroyed == closed ~> (destroyed \/ killed)

\* sendInLoop of a connected socket keeps what write() did not take: "when not
\* all the data can be written by the system call, the rest is put into
\* outputBuffer_" (src/net/TcpConnection.cc:236).
SendKeeps ==
    [][ RunSend /\ state # "kDisconnected" /\ peer = "open" /\ ~wrShut =>
          Head(pending).msg \in ToSet(taken') ]_vars
=============================================================================
