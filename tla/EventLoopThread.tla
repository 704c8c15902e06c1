--------------------------- MODULE EventLoopThread ---------------------------
(***************************************************************************)
(* src/net/EventLoopThread.cc: an owner starts a thread that builds an      *)
(* EventLoop on its stack, publishes a pointer to it, runs loop() and takes *)
(* the pointer back; the owner's destructor quits the loop and joins.       *)
(* Composes EventLoop, whose clients get the loop through the owner.        *)
(***************************************************************************)
EXTENDS EventLoop

CONSTANT Owner   \* the thread that holds the EventLoopThread object

ASSUME OwnerAssumption == Owner \in Clients

VARIABLES
    pcT,     \* the started thread, in threadFunc
    pcO,     \* the owner, in startLoop and then in the destructor
    loop_    \* loop_ # nullptr

threadVars == <<pcT, pcO, loop_>>
allVars    == <<vars, threadVars>>

ThreadTypeOK ==
    /\ TypeOK
    /\ pcT \in {"none", "init", "published", "exited"}
    /\ pcO \in {"created", "waiting", "up", "quitting", "waking", "joining", "gone"}
    /\ loop_ \in BOOLEAN

\* Mutant: the constructor leaves in loop_ whatever was there.
ThreadInitUnset ==
    /\ Init
    /\ pcT = "none" /\ pcO = "created"
    /\ loop_ = WakeupChannel

ThreadInit ==
    /\ Init
    /\ pcT = "none" /\ pcO = "created"
    /\ loop_ = FALSE

\* startLoop: thread_.start(), then wait for loop_.
StartThread ==
    /\ pcO = "created"
    /\ pcO' = "waiting" /\ pcT' = "init"
    /\ UNCHANGED <<vars, loop_>>

\* The initCallback runs before the pointer is published.
InitCallback(t) ==
    /\ pcT = "init"
    /\ QueueBeforeLoop(t)
    /\ UNCHANGED threadVars

\* loop_ = &loop; notify_one, under the mutex.
Publish ==
    /\ pcT = "init"
    /\ pcT' = "published" /\ loop_' = TRUE
    /\ UNCHANGED <<vars, pcO>>

\* The owner's wait ends when it sees loop_ # nullptr with the mutex held.
StartLoopReturns ==
    /\ pcO = "waiting"
    /\ loop_
    /\ pcO' = "up"
    /\ UNCHANGED <<vars, pcT, loop_>>

\* loop.loop() and everything it calls.
RunLoop ==
    /\ pcT = "published"
    /\ LoopStep
    /\ UNCHANGED threadVars

\* loop() has returned: loop_ = nullptr, and the EventLoop dies with the frame.
ThreadExit ==
    /\ pcT = "published"
    /\ pcL = "stopped"
    /\ pcT' = "exited" /\ loop_' = FALSE
    /\ UNCHANGED <<vars, pcO>>

\* Threads that were given the loop use it until the owner destroys it; a call
\* that has begun is finished.
UseLoop(c) ==
    /\ pcO = "up"
    /\ \/ \E t \in Tasks : QueueFromClient(c, t)
       \/ Wakeup(c)
    /\ UNCHANGED threadVars

\* ~EventLoopThread tests loop_ without the mutex.  Null: the loop has ended by
\* itself, and the destructor neither quits nor joins.
DestructorTest ==
    /\ pcO = "up"
    /\ \A c \in Clients : pcC[c] = "idle"
    /\ pcO' = IF loop_ THEN "quitting" ELSE "gone"
    /\ UNCHANGED <<vars, pcT, loop_>>

DestructorQuit ==
    /\ pcO = "quitting"
    /\ QuitFromClient(Owner)
    /\ pcO' = "waking"
    /\ UNCHANGED <<pcT, loop_>>

DestructorWakeup ==
    /\ pcO = "waking"
    /\ Wakeup(Owner)
    /\ pcO' = "joining"
    /\ UNCHANGED <<pcT, loop_>>

Join ==
    /\ pcO = "joining"
    /\ pcT = "exited"
    /\ pcO' = "gone"
    /\ UNCHANGED <<vars, pcT, loop_>>

Destructor == DestructorTest \/ DestructorQuit \/ DestructorWakeup \/ Join

ThreadNext ==
    \/ StartThread
    \/ \E t \in Tasks : InitCallback(t)
    \/ Publish
    \/ StartLoopReturns
    \/ RunLoop
    \/ ThreadExit
    \/ \E c \in Clients : UseLoop(c)
    \/ Destructor

\* Every thread that can take a step of its own eventually does.  Nothing says
\* that I/O arrives, that a client calls or that the owner destroys; and the
\* 10 s timeout of epoll_wait is left out, so that what eventually happens
\* happens because of a wake-up.
Fairness ==
    /\ WF_allVars(StartThread) /\ WF_allVars(Publish) /\ WF_allVars(StartLoopReturns)
    /\ WF_allVars(RunLoop /\ (pcL = "poll" => eventfd))
    /\ WF_allVars(ThreadExit)
    /\ \A c \in Clients : WF_allVars(Wakeup(c) /\ UseLoop(c))
    /\ WF_allVars(DestructorQuit) /\ WF_allVars(DestructorWakeup) /\ WF_allVars(Join)

ThreadSpec == ThreadInit /\ [][ThreadNext]_allVars

FairThreadSpec == ThreadSpec /\ Fairness

-----------------------------------------------------------------------------
(* Properties.                                                              *)

\* A functor queued once the loop runs is run, or the loop stops: without
\* waiting for I/O or for the timeout of epoll_wait.
QueuedFunctorRuns ==
    \A t \in Tasks :
        ((\E i \in DOMAIN queued : queued[i] = t) /\ t \notin early)
            ~> ((\E i \in DOMAIN ran : ran[i] = t) \/ pcL = "stopped")

\* A quit() that finds the loop inside loop() ends it, and the destructor
\* that called it returns.
QuitWhileLoopingEnds ==
    (quit /\ pcL # "start") ~> (pcL = "stopped")

\* The destructor ends the loop and reclaims the thread ("exit the loop",
\* "reclaim the thread", src/net/EventLoopThread.cc:24 and :29).
DestructorReturns == (pcO = "quitting") ~> (pcO = "gone")
=============================================================================
