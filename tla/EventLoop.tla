------------------------------ MODULE EventLoop ------------------------------
(***************************************************************************)
(* The reactor of src/net/EventLoop.cc: one thread runs loop(), any thread  *)
(* may hand it functors with runInLoop/queueInLoop or stop it with quit().  *)
(* The eventfd that interrupts epoll_wait is a flag (readable or not): its  *)
(* counter is only tested against zero and reset by one read.               *)
(***************************************************************************)
EXTENDS Naturals, Sequences

CONSTANTS
    Clients,     \* threads other than the loop's own
    Tasks,       \* functors; each is queued at most once
    IOChannels,  \* channels other than the wakeup channel
    WakeupChannel

ASSUME WakeupAssumption == WakeupChannel \notin IOChannels

VARIABLES
    pcL,         \* where the loop thread is
    quit,        \* quit_
    pending,     \* pendingFunctors_
    functors,    \* doPendingFunctors' local vector, from the functor to run next
    calling,     \* callingPendingFunctors_
    eventfd,     \* wakeupFd_ is readable
    active,      \* activeChannels_ still to be handled in this iteration
    pcC,         \* where each client is in queueInLoop or quit
    queued,      \* history: the functors in the order they were pushed
    ran,         \* history: the functors in the order doPendingFunctors ran them
    early        \* history: the functors queued by the loop thread before loop()

loopVars == <<pcL, quit, pending, functors, calling, eventfd, active>>
history  == <<queued, ran, early>>
vars     == <<loopVars, pcC, history>>

Channels == IOChannels \cup {WakeupChannel}

TypeOK ==
    /\ pcL \in {"start", "check", "poll", "dispatch", "run", "stopped"}
    /\ quit \in BOOLEAN /\ calling \in BOOLEAN /\ eventfd \in BOOLEAN
    /\ pending \in Seq(Tasks) /\ functors \in Seq(Tasks)
    /\ active \subseteq Channels
    /\ pcC \in [Clients -> {"idle", "wake"}]
    /\ queued \in Seq(Tasks) /\ ran \in Seq(Tasks)
    /\ early \subseteq Tasks

Init ==
    /\ pcL = "start"
    /\ quit = FALSE /\ calling = FALSE /\ eventfd = FALSE
    /\ pending = <<>> /\ functors = <<>>
    /\ active = {}
    /\ pcC = [c \in Clients |-> "idle"]
    /\ queued = <<>> /\ ran = <<>> /\ early = {}

-----------------------------------------------------------------------------
(* Calls from the loop's own thread: made by a handler or by a functor.     *)

Fresh == {t \in Tasks : \A i \in DOMAIN queued : queued[i] # t}

\* The locked part of queueInLoop.
Push(t) ==
    /\ t \in Fresh
    /\ pending' = Append(pending, t)
    /\ queued' = Append(queued, t)

\* Mutant: a functor queued while functors run does not wake the loop.
QueueInLoopSilently(t) ==
    /\ Push(t)
    /\ UNCHANGED <<quit, eventfd>>

\* queueInLoop in the loop thread wakes the loop only while functors run:
\* otherwise doPendingFunctors is still to come in this iteration.
QueueInLoop(t) ==
    /\ Push(t)
    /\ eventfd' = IF calling THEN TRUE ELSE eventfd
    /\ UNCHANGED quit

\* quit() in the loop thread: the loop tests quit_ before it polls again.
QuitInLoop ==
    /\ quit' = TRUE
    /\ UNCHANGED <<pending, queued, eventfd>>

\* What a callback may ask of its loop.
CallbackBody ==
    \/ UNCHANGED <<quit, pending, queued, eventfd>>
    \/ \E t \in Tasks : QueueInLoop(t)
    \/ QuitInLoop

-----------------------------------------------------------------------------
(* The loop thread.                                                         *)

\* A ThreadInitCallback queues a functor before loop() is called.
QueueBeforeLoop(t) ==
    /\ pcL = "start"
    /\ QueueInLoop(t)
    /\ early' = early \cup {t}
    /\ UNCHANGED <<pcL, functors, calling, active, pcC, ran>>

\* loop() clears quit_, even one that another thread has already set.
EnterLoop ==
    /\ pcL = "start"
    /\ quit' = FALSE
    /\ pcL' = "check"
    /\ UNCHANGED <<pending, functors, calling, eventfd, active, pcC, history>>

CheckQuit ==
    /\ pcL = "check"
    /\ pcL' = IF quit THEN "stopped" ELSE "poll"
    /\ active' = {}
    /\ UNCHANGED <<quit, pending, functors, calling, eventfd, pcC, history>>

\* epoll_wait returns ready channels, as many as events_ holds: level-triggered,
\* so a readable eventfd is ready at every poll until it is read.
PollReady ==
    /\ pcL = "poll"
    /\ \E ready \in SUBSET (IOChannels \cup {ch \in {WakeupChannel} : eventfd}) :
          active' = ready
    /\ active' # {}
    /\ pcL' = "dispatch"
    /\ UNCHANGED <<quit, pending, functors, calling, eventfd, pcC, history>>

\* epoll_wait times out after kPollTimeMs with nothing ready.
PollTimeout ==
    /\ pcL = "poll"
    /\ ~eventfd
    /\ active' = {}
    /\ pcL' = "dispatch"
    /\ UNCHANGED <<quit, pending, functors, calling, eventfd, pcC, history>>

\* EventLoop::handleRead drains the eventfd.
HandleRead ==
    /\ pcL = "dispatch"
    /\ WakeupChannel \in active
    /\ active' = active \ {WakeupChannel}
    /\ eventfd' = FALSE
    /\ UNCHANGED <<pcL, quit, pending, functors, calling, pcC, history>>

HandleEvent(ch) ==
    /\ pcL = "dispatch"
    /\ ch \in active \ {WakeupChannel}
    /\ active' = active \ {ch}
    /\ CallbackBody
    /\ UNCHANGED <<pcL, functors, calling, pcC, ran, early>>

\* Mutant: the batch is copied instead of swapped out.
CopyFunctors ==
    /\ pcL = "dispatch"
    /\ active = {}
    /\ calling' = TRUE
    /\ functors' = pending
    /\ pcL' = "run"
    /\ UNCHANGED <<quit, pending, eventfd, active, pcC, history>>

\* The head of doPendingFunctors: everything queued so far becomes the batch.
SwapFunctors ==
    /\ pcL = "dispatch"
    /\ active = {}
    /\ calling' = TRUE
    /\ functors' = pending
    /\ pending' = <<>>
    /\ pcL' = "run"
    /\ UNCHANGED <<quit, eventfd, active, pcC, history>>

RunFunctor ==
    /\ pcL = "run"
    /\ functors # <<>>
    /\ ran' = Append(ran, Head(functors))
    /\ functors' = Tail(functors)
    /\ CallbackBody
    /\ UNCHANGED <<pcL, calling, active, pcC, early>>

FinishFunctors ==
    /\ pcL = "run"
    /\ functors = <<>>
    /\ calling' = FALSE
    /\ pcL' = "check"
    /\ UNCHANGED <<quit, pending, functors, eventfd, active, pcC, history>>

-----------------------------------------------------------------------------
(* Other threads.  The push (or the store to quit_) and the wake-up are two *)
(* steps: the loop runs between them.                                       *)

\* Mutant: queueInLoop without wakeup().
QueueFromClientSilently(c, t) ==
    /\ pcC[c] = "idle"
    /\ Push(t)
    /\ UNCHANGED <<pcL, quit, functors, calling, eventfd, active, pcC, ran, early>>

QueueFromClient(c, t) ==
    /\ pcC[c] = "idle"
    /\ Push(t)
    /\ pcC' = [pcC EXCEPT ![c] = "wake"]
    /\ UNCHANGED <<pcL, quit, functors, calling, eventfd, active, ran, early>>

\* Mutant: quit() without wakeup().
QuitFromClientSilently(c) ==
    /\ pcC[c] = "idle"
    /\ quit' = TRUE
    /\ UNCHANGED <<pcL, pending, functors, calling, eventfd, active, pcC, history>>

QuitFromClient(c) ==
    /\ pcC[c] = "idle"
    /\ quit' = TRUE
    /\ pcC' = [pcC EXCEPT ![c] = "wake"]
    /\ UNCHANGED <<pcL, pending, functors, calling, eventfd, active, history>>

Wakeup(c) ==
    /\ pcC[c] = "wake"
    /\ eventfd' = TRUE
    /\ pcC' = [pcC EXCEPT ![c] = "idle"]
    /\ UNCHANGED <<pcL, quit, pending, functors, calling, active, history>>

-----------------------------------------------------------------------------
LoopStep ==
    \/ EnterLoop
    \/ CheckQuit
    \/ PollReady
    \/ PollTimeout
    \/ HandleRead
    \/ \E ch \in IOChannels : HandleEvent(ch)
    \/ SwapFunctors
    \/ RunFunctor
    \/ FinishFunctors

ClientStep(c) ==
    \/ \E t \in Tasks : QueueFromClient(c, t)
    \/ QuitFromClient(c)
    \/ Wakeup(c)

Next ==
    \/ LoopStep
    \/ \E t \in Tasks : QueueBeforeLoop(t)
    \/ \E c \in Clients : ClientStep(c)

Spec == Init /\ [][Next]_vars

-----------------------------------------------------------------------------
(* Properties.                                                              *)

\* A wake-up that has been or is about to be written to the eventfd.
WakeupOwed == eventfd \/ \E c \in Clients : pcC[c] = "wake"

PendingLate == \E i \in DOMAIN pending : pending[i] \notin early

\* The loop never sleeps in epoll_wait on a functor queued since the loop
\* started, or on a request to quit, without a wake-up on its way: queueInLoop
\* and quit() may skip the eventfd only where the loop is sure to look again.
NoLostWakeup ==
    pcL = "poll" /\ (quit \/ PendingLate) => WakeupOwed

\* Callers of queueInLoop see a queue: functors run once each, in the order
\* they were pushed, whatever thread pushed them and whatever batch they ran in.
Queue == INSTANCE FunctorQueue WITH submitted <- queued
QueueSpec == Queue!Spec
=============================================================================
