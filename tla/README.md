# A TLA+ development of myoj

`myoj` is two programs in one repository: a multi-reactor network library in
the style of muduo (`src/`, `include/`: event loops, connections, timers, an
HTTP server, an asynchronous logger, a MySQL connection pool) and an online
judge built on it (`oj/`). This directory holds TLA+ modules of its components,
TLC configurations that check them on small instances and TLAPS proofs of what
matters most. Paths below are relative to the repository.

## Inventory

### Network library

| Component | State | Operations | What is hard | What makes it correct |
|---|---|---|---|---|
| `EventLoop` | `quit_`, `pendingFunctors_`, `callingPendingFunctors_`, eventfd, active channels | `loop`, `quit`, `runInLoop`, `queueInLoop`, `wakeup`, `doPendingFunctors` | any thread queues and quits; push and wake-up are two steps; the batch is swapped out | functors run once, in order, soon; quit ends the loop |
| `EventLoopThread` | `loop_`, the thread | `startLoop`, `threadFunc`, destructor | a pointer to a stack object is published and withdrawn; quit against the start of the loop | the owner gets a live loop; the destructor ends it |
| `EventLoopThreadPool`, `ThreadLoadCounter` | loops, next position, time list per loop | `start`, `getNextLoopByRB`, `getNextLoopByMinLoad`, `load` | the load is read from another thread | every loop gets its share; indices in range |
| `Channel`, `EpollPoller`, `PollPoller` | registered events, `index_`, `channels_`, the kernel's interest list | `enable…`, `disable…`, `remove`, `handleEvent`, `poll` | several callbacks in one dispatch, the first may end the connection | the interest list agrees with the channels |
| `Acceptor`, `TcpServer` | listening socket, `connections_` | `start`, `newConnection`, `removeConnection` | a connection lives in its own loop, the map in the server's | every connection is established once, removed once, destroyed in its loop |
| `TcpConnection` | `state_`, output buffer, channel, socket | `send`, `shutdown`, `connectEstablished`, `connectDestroyed`, `handleRead/Write/Close/Error` | partial writes, resets, shutdown with pending data, calls of other threads that test `state_` first | the byte stream is what was sent; callbacks pair up; it ends |
| `Connector`, `TcpClient` | `state_`, `connect_`, channel, `connection_` | `start`, `stop`, `retry`, `disconnect` | a connection in progress against stop and retry | one descriptor, closed or handed over |
| `Buffer` | two indices and a vector | `append`, `retrieve`, `makeSpace`, `readFd` | index arithmetic | contents unchanged by moves |
| `TimerQueue` | ordered timers, timerfd | `addTimer`, `handleRead`, `reset` | expirations are wall-clock times, the timerfd is monotonic; callbacks add timers while the queue is open | the timerfd is armed for the earliest; no timer forgotten |
| `HttpServer`, `HttpContext` | parser state, request | `onMessage`, `parseRequest`, `onRequest`, `reset` | requests come in pieces, and pieces hold several | every request is handled once, with its own parts |
| `WorkThreadPool` | task queue, stop flag | `submitTask`, destructor | stop with tasks queued | every task runs |
| `AsyncLogging`, `LogFile` | two front buffers, full list, backend's spares | `append`, `threadFunc`, `start`, `stop` | buffers change hands between threads | no line lost, repeated or reordered |
| `ConnectionPool` | FIFO of idle connections, `currentSize_` | `getConnection` and its deleter, producer, recycler | one condition variable for all, timed waits, counts in several places | one owner, bounded size, waiters served |

Components interact by direct calls within a loop's thread, by functors queued
on another loop (`TcpServer` to `TcpConnection` and back), by callbacks from
channels (`Poller` → `Channel` → `TcpConnection`), and by mutex and condition
variable (`EventLoopThread`, `AsyncLogging`, `ConnectionPool`).

### Online judge

`OJServer` decodes HTTP requests and calls `Control`, which checks authority
(`UserList`: an in-memory map and tokens in Redis) and calls `ProblemList`
(MongoDB with a Redis cache and test files on disk), the article, comment and
status lists, and `Judger`, which compiles a submission, has the `judge`
program run it per test (child with resource limits, monitor thread, `wait4`)
and turns the outcome into a verdict. What is hard: a monitor thread that is
cancelled and not joined, a child that may stop, sleep, compute or end in any
way, and a verdict for each of them. Requests are handled in the one loop of the
server, so that the check-then-act sequences on the databases do not interleave
within a process.

## Plan

1. **Done** `FunctorQueue`, `EventLoop`, `EventLoopThread`: the core every
   other part runs on, with proofs, the composition's among them.
2. **Done** `TcpConnection`: the connection in its loop, with proofs.
   `TcpServer` with its map of connections over several loops; abstract
   specification `ConnectionLife`, with the proof that the server implements it.
3. **Done** `ConnectionPool`, `AsyncLogging`, with proofs.
4. **Done** `JudgeProgram` and `Judger`: from `fork` to the verdict, with proofs.
5. **Done** `TimerQueue`, with proofs; `HttpServer` with the parser and the
   buffer it reads, with proofs.
6. Open: `Connector`/`TcpClient` (a connection in progress against stop and
   retry), `Channel` with `EpollPoller` (interest list against `index_`).

## Modules

| Module | Models | Kind |
|---|---|---|
| `FunctorQueue` | what `queueInLoop` promises: a queue | abstract specification |
| `EventLoop` | `EventLoop.cc` | loop thread and clients |
| `EventLoopThread` | `EventLoopThread.cc` | composes `EventLoop` |
| `EventLoopProofs` | | proofs about `EventLoop` and `EventLoopThread` |
| `TcpConnection` | `TcpConnection.cc`, `Channel::handleEventWithGuard` | one connection |
| `ConnectionProofs` | | proofs about `TcpConnection` and `HttpServer` |
| `ConnectionLife` | what `TcpServer` promises of each connection | abstract specification |
| `TcpServer` | `TcpServer.cc`, `Acceptor.cc`, `EventLoopThreadPool.cc` | base loop, loops of the pool, peers; implements `ConnectionLife` |
| `TcpServerProofs` | | proofs about `TcpServer` |
| `TimerQueue` | `TimerQueue.cc`, `Timer.cc` | loop, other threads, two clocks |
| `TimerQueueProofs` | | proofs about `TimerQueue` |
| `HttpServer` | `HttpServer.cc`, `HttpContext.cc`, part of `Buffer` | one connection and its peer |
| `JudgeProgram` | `oj/judge`: `judge.c`, `child.c` | parent, monitor threads, children, clock |
| `Judger` | `oj/src/Judger.cpp` | composes `JudgeProgram` |
| `JudgerProofs` | | proofs about `Judger` and `JudgeProgram` |
| `ConnectionPool` | `ConnectionPool.cc` | clients, producer, recycler |
| `ConnectionPoolProofs` | | proofs about `ConnectionPool` |
| `AsyncLogging` | `AsyncLogging.cpp`, `FixedBuffer.h` | appenders, backend, owner |
| `AsyncLoggingProofs` | | proofs about `AsyncLogging` |
| `DataLemmas` | | lemmas on numbers, induction and `FlattenSeq` that the proofs share |
| `MC_*` | | constants for TLC |

Operators whose comment begins with *Mutant* are deliberate errors: each stands
before the definition it can replace, and replacing it must break the property
that `PROJECT.json` names beside it. They are used by no specification.

### EventLoop and EventLoopThread

The loop thread has a program counter through `loop()`: test of `quit_`, poll,
dispatch, `doPendingFunctors`. Handlers and functors run arbitrary user code,
of which `CallbackBody` keeps what touches the loop: nothing, `queueInLoop`,
`quit`. Other threads push (or store `quit_`) and write the eventfd in two
steps. The eventfd is a Boolean, since its counter is reset by one read.
`events_` has a capacity, so a poll reports any nonempty set of what is ready.
`EventLoopThread` adds the owner (`startLoop`, destructor) and the thread
(`threadFunc`), and lets clients use the loop only between `startLoop` and the
destructor. Its destructor calls `quit()` on a model object that stays there;
the real one lives in `threadFunc`'s frame (see the hazards).

`queued`, `ran` and `early` are history variables. `early` holds the functors an
init callback queues before `loop()`: the code writes no wake-up for those, and
`NoLostWakeup` exempts them.

### TcpConnection

The loop thread runs one handler or functor at a time. A dispatch is the list
`calls` of callbacks `handleEventWithGuard` makes for one report of epoll, in its
order. `pending` is the part of the loop's functor queue that concerns the
connection (`FunctorQueue` is what justifies a FIFO). Another thread's `send` or
`shutdown` tests `state_` in one step and acts in a later one; the caller holds a
`shared_ptr` and a buffer that outlives the functor, as the overload for
`shared_ptr<Buffer>` does. `sendInLoop` is translated with what it does when
`write` fails: `remaining` stays 0 and the message is gone (`taken` does not get
it). The socket is external: a write takes any number of units, none when the
socket is full, reset or shut; the peer sends, closes or resets; a reset after
the peer's FIN is left out. A write to a socket whose write side is shut, or
whose reset has been reported, raises SIGPIPE; nothing in the repository ignores
it, so the process ends (`killed`) and the branch for `EPIPE` is never reached.
The server appears as the functor it queues, `connectDestroyed`.

`revived` records the one way a connection that has ended can come back: a
`shutdown()` of another thread that stores `kDisconnecting` over a
`kDisconnected` it has not seen. `EventsMatchBuffer` and `CallbackPairing` speak
of connections whose channel was disabled (`closed`): one that `connectDestroyed`
finds in `kDisconnecting` is destroyed with its channel still registered, and
both leave it out.

### TcpServer

One level above `TcpConnection`: of a connection only its loop, `state_` and
whether its channel is registered remain, and there are several, in several
loops that run in parallel. Each loop handles events, swaps out its functors and
runs them one by one (the queue `EventLoop` is proved to be); wake-ups are left
to that module. `start` takes any prefix of `IoLoops`, so the pool may be empty
and all connections live in the base loop. `getNextLoopByMinLoad` is translated
with its odd `_thread_pos`; the loads are any three values, because `load()` is
computed from a list that another thread changes. `AcceptorHandleRead` is not
enabled without a descriptor: the code's failed `accept` changes nothing; how
many the process has (`fds`) is any number up to `MaxFds`. The destructor runs
when the base loop has ended, destroys the connections one by one, then quits
and joins the threads in order, while their loops go on.

A connection lives, and keeps its descriptor, while somebody holds a
`TcpConnectionPtr` (`Held`): the map, a functor, or a thread inside `shutdown()`.
A functor that has run holds its own until `doPendingFunctors` returns and the
vector goes: `ran` keeps those connections and `EndIteration` lets them go, all
at once. Between calls other threads are taken to hold weak pointers.

A peer's close and an error both reach the server through `handleClose`
(`ReportClose`). `shutdown()` in the loop of the connection is one step
(`Shutdown`): that loop does nothing between test and store, and another
thread's `shutdown()` would store the same. In another thread it is two
(`ShutdownTest`, `ShutdownStore`): the test of `state_`, and the store over
whatever `state_` has become, with the functor `shutdownInLoop`, which changes
nothing here but holds the connection. `Shared` are the connections the program
gives to other threads; several may be in such calls at once, each in one of
them; a caller that is still inside when the loop of the connection has ended is
left out, since it would touch a loop that is gone. `shutdown()` leaves a
connection in `kDisconnecting`, for which `connectDestroyed` does nothing, as in
the code. Stored late, over `kDisconnected`, it brings `state_` back but not the
channel (`revived`): `Accounted` and `Life` therefore go by what is registered
(`watched`), not by `state_`. A revived connection can be closed a second time
(`HandleCloseAgain`: a queued send writes again and enables its channel) and is
then removed and destroyed a second time, which changes nothing; `Accounted`
asks for single functors only of the others.

`LifeSpec` maps this to `ConnectionLife`: none, accepted, open, closed, gone.

### TimerQueue

Expirations are kept as the ticks that are left (`rem`), the timerfd likewise
(`left`), so that time needs no bound and no end. `Tick` moves both clocks,
`SetForward` and `SetBack` only the wall clock. `Poll` reports the timerfd, and
`handleRead` is the three steps at which something can come between: reading and
taking what has expired, each callback (which may add timers), and `reset`.
`stepped` is a history variable: the code does arm too late, or not at all, when
the wall clock is set.

### HttpServer

The stream of a peer is a sequence of tokens (a line without its end, CR, LF, a
piece of a body) that knows which request it is of. `OnMessage` reads any number
of them, so pieces end anywhere, between CR and LF too. Each turn of the loop in
`parseRequest` is an action. `request` keeps which request its line is of, the
number of headers, the requests whose parameters it holds and the body. `clean`
is a history variable: FALSE once a piece has ended inside a body or has run
over into the next request, where `HttpContext.cc:78` by design takes what is
there. Responses are handed to `TcpConnection::send`, which drops them after
`shutdown`. `sent` is what was handed over: whether it gets to the socket is the
business of `TcpConnection`, where `sendInLoop` may still drop it (run
`tcp_connection_send`).

### JudgeProgram and Judger

`runJudge` has a program counter (`call`); the monitor of each test is a thread
that may be created, asleep, past its sleep or gone, and stays when the next
test begins, since nobody joins it. The child's setup ends it, or becomes the
program, which does anything: compute (user or system time), wait, end in each
of the ways `wait4` can report, or stop itself. Time is in ticks, `Second` of
them a second, so that the two roundings (`realTimeLimit / 1000` down,
`cpuTimeLimit / 1000 + 1` up) differ. A thread that can run gets a processor
within `Delay` ticks. Costs left over from the test before, or from the stack,
are kept where `runJudge` returns early. `Judger` adds preparation, compilation,
the loop over the tests and the verdict. A checker, or the comparison of the
outputs, answers either way. A child that stopped itself is left behind by the
code (`NoStrayChild` excepts it), and that its pid may be another process's by
the time a late monitor kills it is not modelled. Memory is compared as in the
code: `ru_maxrss`, which counts kilobytes, against a limit in bytes.

### ConnectionPool

Every critical section of `mutex_` is one action. A condition-variable wait ends
a section; `notify_all` sends waiting clients to their test and the producer to
its own. The pool is created with `MinSize` connections; each creation is
counted twice, as in the code, so that `MaxSize` is met by the count and never
by the connections themselves (`GrowsToHalfHolds` below). Idle time is in ticks
capped at `MaxIdleTime`.

### AsyncLogging

Buffers are sequences of lines and move between `current`, `next`, `buffers`
(shared, under the lock) and `new1`, `new2`, `toWrite` (backend). `Null` is a
moved-from pointer. `append` and the backend's swap are one action each because
each is one critical section; the test of `running_`, the wait and the write are
actions of their own. `MaxLines` bounds the run. Every line has length one, so
that a line longer than what is left of a fresh buffer, which
`FixedBuffer::append` drops, is outside what `LinesKept` says.

## Runs

| Run | Instance | Shows |
|---|---|---|
| `event_loop` | owner, one client, one I/O channel, three functors (19 thousand states) | types; `NoLostWakeup`; `QueueSpec` (refinement of `FunctorQueue`); every functor queued after the start runs, every quit that finds the loop running ends it |
| `event_loop_quit` | the same | violated: `DestructorReturns` |
| `tcp_connection` | one other thread, two messages of two units, high-water mark 1 (43 thousand states) | stream integrity, events against buffer, callbacks in pairs, half close after data, drain and destruction |
| `tcp_connection_send` | the same | violated: `SendKeeps` |
| `connection_pool` | three clients, a limit of three, two idle ticks (9 thousand states) | exclusive ownership, limits, order of idle times, recycling, service of waiters, refill |
| `connection_pool_limit` | the same | violated: `RefusesOnlyAtLimit` |
| `async_logging` | buffers of two lines, eight lines (1 thousand states) | lines kept in order, spares refillable, full buffer wakes, liveness of lines and of `stop` |
| `tcp_server` | two loops at most, two peers, one or two descriptors, the first connection shared with other threads (252 thousand states) | types; `Accounted`: map, states and all queues agree; refinement of `ConnectionLife`; peers are served although descriptors run out; closed connections are released |
| `timer_queue` | two one-shot timers and one of two ticks, delays up to three (146 thousand states) | the timerfd is armed for the earliest timer or sooner; due timers run |
| `http` | two requests of ten shapes (42 thousand states) | whole requests are handled once, in order, with their own parts |
| `judging` | two tests, limit of two thirds of a second (904 thousand states) | the verdict is the last known failure; no stray child; every submission is judged |
| `judging_accept` | the same | violated: `AcceptedMeansPassed` |

Why the bounds are enough: three functors give a batch, a functor that arrives
while the batch runs and one that a functor queues; one I/O channel gives
handlers that queue before and after the wake-up channel's. Two units and two
messages give every kind of partial write, and a second message that meets an
empty buffer or a full one. Three clients and a limit of three give waiters beside
an owner, a queue of more than `MinSize`, and a count at its limit and past it.
It is only the count that gets there: because of it the pool never has more than
two real connections, and `SizeWithinLimits` is far from its upper bound as long
as each of them is counted twice. The three clients would take it to four, past
the limit, if a creation were not counted. Eight lines on buffers of two
fill three and more buffers between two swaps, so the spare is used up, a buffer
is allocated and the backend drops all but two. Two loops of the pool and the
base loop give each pair of places a connection can go between. Two connections
are what the loops, the map and the queues need to hold one beside another; one of
them may be in a `shutdown()` of another thread while it closes and while the
server is destroyed (with both, 2.3 million states, `Accounted` and `LifeSpec`
hold as well, and they are proved for any). `fds` is chosen at the start: with
one descriptor one peer waits for the other's end. Delays of three ticks and an
interval of two let a timer overtake, coincide with and follow the others. Two
requests are one that is cut and one that comes with or after it; three (2.1
million states) show nothing else. Two tests are what it takes for a verdict to
be overwritten, for a monitor to meet the next test's child and for costs to be
left over; with `Second` = 3 and a limit of two ticks the monitor sleeps one
second and the processor limit is one second, so both may end a program.

Deadlock is not checked where the system may stop: a loop that was quit, a
connection that has ended or whose process was killed, a logger that has stopped
or has no line left to append, a server that is gone or has no peers left, a
submission that is judged, a stream that is read. It is checked for the pool and
the timers.

### Fairness

- *Event loop.* A thread that can take a step of its own takes it; a client
  that has pushed goes on to the wake-up. No fairness for I/O, for calls or for
  the 10 s timeout of `epoll_wait`: what the liveness properties promise is due
  to the wake-up.
- *Connection.* The loop runs functors and handlers; the server answers
  `closeCallback`. A write that takes something is strongly fair: the peer makes
  room again and again (it need not stay, since EPOLLOUT is level-triggered and
  asked for until the buffer is empty). Without a peer that reads nothing
  drains.
- *Pool.* The producer runs, timed waits end and a woken client gets the mutex.
  The last is more than a C++ mutex promises: at its limit with an empty queue
  the producer locks and unlocks in a busy loop. No fairness for clients that
  ask for or return a connection, hence the first disjunct of `WaiterServed`.
- *Server.* Every loop runs; the listening socket is level-triggered, so accept
  is tried as long as a peer waits; the destructor goes on. Peers close in the
  end (strong fairness of `HandleClose`: the event stays reported, but the loop
  is at its functors in between). Without it a full server need serve nobody. A
  thread inside `shutdown()` comes out of it; nobody has to call it.
- *Timers.* The loop runs and the monotonic clock advances. No fairness for
  callers or for the wall clock.
- *Judge.* The parent, the monitor threads and the clock go on. None for the
  submitted program: it may sleep for ever, and `Judged` holds all the same.
- *Logger.* The backend runs and its timed wait ends; a `stop` that began goes
  on.

## Disagreements between the code and its words

1. `EventLoop.cc:68` clears `quit_` on entry to `loop()`; a destructor of
   `EventLoopThread` that comes between `startLoop` and that line waits for ever
   (run `event_loop_quit`).
2. `TcpConnection.cc:188`: a message that `write` cannot take at once, or that
   comes while earlier data is buffered, is dropped, where the comment at 236
   says that the rest goes to the output buffer (run `tcp_connection_send`).
3. `ConnectionPool.cc:77`: connections are counted twice and uncounted once, so
   the test under "the limit is not reached yet" (73) refuses too early (run
   `connection_pool_limit`).
4. `Judger.cpp:935`: a condition that `JudgmentResult` does not know leaves the
   result pending, and what is pending is accepted: a program that ends with an
   exit code, by a floating-point error or over its output limit, or that never
   ran, passes, where `common.h:9` gives the meaning "passed" to `RUN_SUCCESS`
   alone (run `judging_accept`).

Seen while modelling and reproduced by the models, without a run of their own:

- `Judger.cpp:764` repeats the condition of 759, and `getRunningCondition` calls
  a child killed by the monitor a runtime error unless it had used its processor
  time: a program that sleeps too long is RE.
- `Judger.cpp:732` and `judge.c:48` compare kilobytes with bytes, so that the
  memory limit is a thousand times what it says.
- `TcpConnection.cc:333`: after `shutdown()` with data in the output buffer the
  write side is never shut, since `handleWrite` tests `kDisconnected` where the
  connection is in `kDisconnecting`.
- `Buffer.h:116` searches for CR alone, and a piece that ends there stops the
  process at 122.
- `HttpRequest.h:153` leaves `params_` to the next request.
- `TimerQueue.cc:159`: a wall clock that is set back can leave timers with no
  timerfd.

## Proofs

`EventLoopProofs` (every set of clients, functors and channels; the only
assumption is `WakeupAssumption`):

- `TypeCorrect`: `Spec => []TypeOK`.
- `NoLostWakeupHolds`: `Spec => []NoLostWakeup`. `NoLostWakeup` alone is not
  inductive, because it speaks of the moment of polling; the invariant extends
  it over the places from which the loop reaches the poll without looking at
  the queue again, and ties `callingPendingFunctors_` to the program counter,
  which is what `queueInLoop` relies on when it writes no wake-up.
- `ImplementsQueue`: `Spec => QueueSpec`, from the invariant that what has run,
  the rest of the batch and the pending functors concatenate to what was queued.
- `ThreadTypeCorrect` (`ThreadTypeOK`) and `ThreadLosesNothing`
  (`ThreadSpec => []NoLostWakeup /\ QueueSpec`): the same for a loop inside an
  `EventLoopThread`, under `OwnerAssumption` as well. The composition consists of
  steps of `EventLoop` (`ThreadIsLoop`), so this takes no new invariant.

`ConnectionProofs` on `TcpConnection` (every set of threads and messages, every
message length and high-water mark; the only assumption is
`ConnectionAssumption`: both lengths are positive and no message is called
"idle" or "shutdown"):

- `TypeCorrect`: `Spec => []TypeOK`.
- `EventsMatch`: `Spec => []EventsMatchBuffer`.
- `Pairing`: `Spec => []CallbackPairing`.
- `HalfClose`: `Spec => HalfCloseAfterData`.
- `StreamWholeHolds`: `Spec => []StreamWhole`.

The first four share one inductive invariant, `Inv`. Neither `EventsMatchBuffer` nor
`CallbackPairing` is inductive: nothing in them says that `handleClose` is not
called twice. `Inv` adds why it is not: before `connectEstablished` nothing else
can happen (`Before`), it runs once (`After`), an event that calls the close
callback does not call the read callback (`OneEnd`, the test of `EPOLLIN` in
`handleEventWithGuard`), a connection that has ended is `kDisconnected`, watches
nothing and has no end left in the event being handled (`Over`), and one that
has not ended is not `kDisconnected` (`Open`). `revived` marks the runs in which
the late store of another thread's `shutdown()` breaks the last two.
`QuietStep`, `EndStep`, `SendStep` and `WriteStep` are the four kinds of step the
actions reduce to. `StreamWhole` is inductive given the types (`StreamInv`): a
send appends a message to what was taken and its two parts to the wire and the
buffer (`FlattenAppend`, `CutConcat`), a write moves units from one to the other
(`WriteWhole`).

`TcpServerProofs` (every sequence of distinct pool loops, every number of peers
and of descriptors, any connections shared with other threads:
`ServerAssumption`):

- `TypeCorrect`: `Spec => []TypeOK`. Its one hard part is `MinLoadIs`: a scan that
  begins anywhere finds a first loop of least load, and the position it leaves is
  one that the next scan wraps.
- `AccountedHolds`: `Spec => []Accounted`.
- `ImplementsLife`: `Spec => LifeSpec`, the refinement of `ConnectionLife`.

`Accounted` counts functors over the queues of all loops while the server
serves; it is not inductive, because a functor counts as one only if it is in
one place of one queue. The invariant `IInv` speaks of the set of functors that
wait (`Waiting`). `Account` says which of the functors that open or remove a
connection (`Core`) waits, given map and state, and `Once` that there is never a
second; `QueuedIs` turns both into the counts. For a connection that a late
`shutdown()` revived neither holds: for those it says only that one still in the
map has its removal queued (`Leaving`). It adds what the actions rely on: a
channel is registered while its connection is open, and `kDisconnecting` without
a registered channel is a revived connection (`Watches`); nothing is known of a
number that was not given out (`Unborn`); `connectEstablished` is queued once and
finds the connection as it was made, also while the server is being destroyed
(`Establishes`), which is what keeps a closed connection from being opened again;
a vector of functors is empty unless it is being run, so that the swap loses
nothing (`Swapped`); before `start` no thread runs (`NotStarted`); and only the
destructor ends a loop of the pool (`PoolRuns`), which is why functors are dropped
only when that is allowed. The proof of a step reduces to what it does to one
connection: `UntouchedStays` settles all others; `OneMoves`, `NothingMoves`,
`SomeForgotten` (the end of an iteration lets closed connections go) and
`SomeDropped` (the end of a thread) are the steps of `ConnectionLife`. The lemmas
before them say what pushing and taking does to the functors in the queues
(`PushFinds`, `PopFinds`, `PushStep`, `PopStep`, `PopPushStep`) and to who is held
(`HeldIs`, `HeldNext`).

`ConnectionPoolProofs` (every set of clients, every pool size, idle time and set
of connections larger than the limit: `PoolAssumption`):

- `TypeCorrect`, `ExclusiveHolds`, `SizeWithinLimitsHolds`,
  `IdleTimesDescendHolds`: the invariants of the run.
- `RecyclesOnlyIdleHolds`: `Spec => RecyclesOnlyIdle`.
- `GrowsToHalfHolds`: a pool never has more connections than half of
  `MaxSize + 1`, or than the `MinSize` it began with: what the third
  disagreement above shows on one instance holds of every pool.

The limits follow from `CountedTwice`: each connection is counted twice when it
is made and once less when it is closed, so `currentSize_` is at least twice the
number of connections, never negative, and under `MaxSize` only when there is
room. `Holders` ties a client's connection to its place in `getConnection`;
without it `Exclusive` does not survive a return.

`AsyncLoggingProofs` (every buffer size above 1 and every number of lines:
`LoggingAssumption`):

- `TypeCorrect`, `LinesKeptHolds`, `SparesRefillableHolds`,
  `FullBufferWakesHolds`.

`LinesKept` needs to know that spares are empty when they become current
(`TypeInv`) and that the backend holds no batch outside its write
(`BatchWritten`), or a swap would overwrite one. `SparesRefillable` needs
`SpareUsed`: the spare of the appenders is gone only if a buffer has filled since
the last swap, so whoever misses two spares has a second buffer to write.

`TimerQueueProofs` (every set of timers, delays and intervals:
`TimerAssumption`):

- `TypeCorrect`: `Spec => []TypeOK`, with a timer in one place at a time.
- `ArmedHolds`: `Spec => []Armed`.

`Armed` compares the timerfd with the least expiration; the invariant `InTime`
says instead that some timer is due when the descriptor is readable, so that
`handleRead` never finds nothing to restart, and that none is due more than a
tick before. It excepts a wall clock that was set, back for the first part and
either way for the second.

`ConnectionProofs` on `HttpServer` (every set of forms of requests, with any
number of headers and any length of body, and every number of requests:
`ShapeAssumption`):

- `HttpTypeCorrect`: `HttpSpec => []HttpTypeOK`. That `request.fields` stays
  within the headers of a request is not obvious: after a piece with half a body
  the parser takes what follows for a new request line, wherever it is.
- `HandledWholeHolds`: `HttpSpec => []HandledWhole`.

The proof has two layers. `TextIs` and `StreamIs` say which token is where in
the stream, by `FlattenJoins`, the lemma that `FlattenSeq` puts its members one
behind the other and nothing between them; `StreamLayout` also says that what
could be taken for a request line is one. `LineAtFront` and `EmptyLineAtFront`
turn that into what `findCRLF` returns. The invariant `HttpInv` then says where
the parser is. Its first parts hold always: the buffer is the end of what was
read (`Buffered`), the process ends only behind a CR (`AtLineEnd`), and between
two headers the number of headers parsed is the place in the stream, also after
pieces that did harm, because only a request line leads there (`AtHeader`). The
last part, `Progress`, holds as long as the proviso of `HandledWhole` does
(`Sound`): the place parsed to is the end of the last request handled, or that of
the header or body which `parseState` says (`ParserAt`), and what was read ends
before the next request's header does unless that request is whole and being
parsed (`Reached`). The proviso is only ever lost (`SoundBefore`), so a step needs
`Progress` only where it held before. Two actions cannot happen under it, or not
in one of their cases: `RejectRequestLine`, and a line without a colon before the
last header. `HandledWhole` follows because the ends of the requests are in order.

`DataLemmas` holds what several of these use: extreme elements of sets of
numbers, and `FlattenSeq`. The library states induction over a predicate, which
the provers here cannot be given; over a set of numbers they can, so induction
is derived once from the least element (`InductionOnSet`), and from it that the
fold behind `FlattenSeq` has exactly one value (`ConcatenationExists`,
`ConcatenationUnique`), what it is for the empty sequence and what appending adds
(`FlattenEmpty`, `FlattenAppend`) and where each member is (`FlattenJoins`).

`JudgerProofs` (every number of tests, every limit, every set of memory costs;
the only assumption is `JudgeAssumption`: these are natural numbers and a second
has a tick):

- `TypeCorrect`: `Spec => []TypeOK`, which says among others that a child never
  computes past `CpuRlimit` and that no wait exceeds `MaxWall`.
- `NoStrayChildHolds`: `Spec => []NoStrayChild`.
- `LastFailure`: `Spec => []LastFailureDecides`.

The invariant `IInv` has three parts beside the types. `Clocks`: a child that
can still compute is below its limit, clocks are 0 between two runs, and a
monitor that has not gone to sleep and is not cancelled belongs to the test in
hand, within `Delay` of the fork. `Children`: a stopped child is one that stopped
itself, a child that `wait4` returned for is reaped or such a one, and verdicts
exist only for tests behind the one in hand, so that `fork` for the next test
touches no judged child. `Verdict`: the result during the tests is that of the
last failure so far or comes from before the tests, and no verdict is pending,
which is why `Done()` changes it only when nothing failed.

Only model-checked:

- liveness, everywhere: it rests on `ENABLED` through the fairness, which is
  outside the prover's reach.

## Not modelled

- Formatting, logging calls, address handling and the bytes of messages; the
  lifetime of objects (raw `this` and references captured by functors, the loop
  in `threadFunc`'s frame, the static pool at exit) – listed as hazards where
  they bite.
- `Connector` and `TcpClient`, and the pollers' `index_`: in the plan.
  `WorkThreadPool` is started and never given a task.
- The destructor of `TimerQueue`, `getNextLoopByRB` (no caller), `tie()`.
- The data path of the online judge (`MongoDataBase.cpp`, `MysqlDataBase.cc`,
  `Control.cpp`, `OJServer.cc` and the lists): each request is decoded, put
  together as a query and answered in one thread. What these functions keep is
  in MongoDB, MySQL and Redis, outside the repository, and what can go wrong in
  them is in single queries.
- The code of others: of the repository's 57 thousand lines of implementation 42
  thousand are two copies of `json.hpp`, and 5 thousand more are the queries
  above. What the modules cover is to be measured against the rest.
