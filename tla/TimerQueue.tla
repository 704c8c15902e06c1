------------------------------ MODULE TimerQueue ------------------------------
(***************************************************************************)
(* The timers of src/src/timer: an ordered set of timers in one loop and a  *)
(* timerfd that is armed for the earliest.  Expirations are times of the    *)
(* wall clock, which may be set; the timerfd counts down on the monotonic   *)
(* clock.  Both are kept as the ticks that are left, so time never ends.    *)
(***************************************************************************)
EXTENDS Integers, FiniteSets, FiniteSetsExt

CONSTANTS
    Timers,      \* Timer objects; a deleted one may be made again
    Interval,    \* their intervals in ticks, 0 for a one-shot timer
    MaxDelay,    \* bound: ticks from now to a new expiration
    MaxLate,     \* bound: ticks that an expiration is counted as past
    Off          \* a timerfd that is not armed

ASSUME TimerAssumption ==
    /\ MaxDelay \in Nat \ {0} /\ MaxLate \in Nat \ {0}
    /\ Interval \in [Timers -> 0 .. MaxDelay]
    /\ Off \notin Nat

VARIABLES
    timers,      \* timers_
    rem,         \* ticks of the wall clock to the expiration of each timer
    left,        \* ticks until the timerfd is readable, 0 when it is
    queued,      \* timers in an addTimerInLoop functor
    event,       \* the timerfd is among the active channels of this iteration
    toRun,       \* expired: timers whose callback is still to run
    done,        \*   and those whose callback has run
    stepped      \* history: the wall clock has been set "forward", or "back"

vars == <<timers, rem, left, queued, event, toRun, done, stepped>>

expired == toRun \cup done
Known == timers \cup queued \cup expired

TypeOK ==
    /\ timers \subseteq Timers /\ queued \subseteq Timers
    /\ toRun \subseteq Timers /\ done \subseteq Timers
    /\ Cardinality(timers) + Cardinality(queued) + Cardinality(toRun) + Cardinality(done)
         = Cardinality(Known)
    /\ rem \in [Timers -> -MaxLate .. MaxDelay]
    /\ left \in 0 .. MaxDelay \cup {Off}
    /\ event \in BOOLEAN
    /\ stepped \in {"never", "forward", "back"}

Init ==
    /\ timers = {} /\ queued = {} /\ toRun = {} /\ done = {}
    /\ rem = [t \in Timers |-> 0]
    /\ left = Off /\ event = FALSE
    /\ stepped = "never"

-----------------------------------------------------------------------------
\* Mutant: no minimum; a timerfd that is set to 0 is disarmed.
DelayUnclamped(r) == IF r > 0 THEN r ELSE Off

\* resetTimerfd: 100 microseconds at least, here a tick.
Delay(r) == Max({r, 1})

Earliest(s) == Min({rem[t] : t \in s})

\* addTimerInLoop and insert: the timerfd is armed if t is before all others.
AddTimerInLoop(t, r) ==
    /\ timers' = timers \cup {t}
    /\ rem' = [rem EXCEPT ![t] = r]
    /\ left' = IF timers = {} \/ r < Earliest(timers) THEN Delay(r) ELSE left

\* A callback in the loop, of a timer too, adds a timer; runInLoop runs it here.
AddTimer(t) ==
    /\ t \notin Known
    /\ \E r \in -1 .. MaxDelay : AddTimerInLoop(t, r)
    /\ UNCHANGED <<queued, event, toRun, done, stepped>>

\* Another thread adds a timer: runInLoop queues it.
AddTimerElsewhere(t) ==
    /\ t \notin Known
    /\ \E r \in -1 .. MaxDelay : rem' = [rem EXCEPT ![t] = r]
    /\ queued' = queued \cup {t}
    /\ UNCHANGED <<timers, left, event, toRun, done, stepped>>

Idle == ~event /\ expired = {}

\* doPendingFunctors, after the handlers of the iteration.
RunFunctor(t) ==
    /\ Idle /\ t \in queued
    /\ queued' = queued \ {t}
    /\ AddTimerInLoop(t, rem[t])
    /\ UNCHANGED <<event, toRun, done, stepped>>

\* epoll_wait reports the timerfd.  Handlers of other channels may come before
\* handleRead and arm it anew.
Poll ==
    /\ Idle /\ left = 0
    /\ event' = TRUE
    /\ UNCHANGED <<timers, rem, left, queued, toRun, done, stepped>>

\* getExpired: everything up to now.
GetExpired == {t \in timers : rem[t] <= 0}

\* Mutant: what has expired is copied and not erased.
HandleReadCopies ==
    /\ event
    /\ event' = FALSE
    /\ left' = IF left = 0 THEN Off ELSE left
    /\ toRun' = GetExpired
    /\ UNCHANGED <<timers, rem, queued, done, stepped>>

\* A timerfd armed anew since the poll is not readable any more, and stays armed.
HandleRead ==
    /\ event
    /\ event' = FALSE
    /\ left' = IF left = 0 THEN Off ELSE left
    /\ toRun' = GetExpired
    /\ timers' = timers \ GetExpired
    /\ UNCHANGED <<rem, queued, done, stepped>>

RunCallback(t) ==
    /\ t \in toRun /\ rem[t] = Earliest(toRun)
    /\ toRun' = toRun \ {t}
    /\ done' = done \cup {t}
    /\ UNCHANGED <<timers, rem, left, queued, event, stepped>>

\* Mutant: a queue with timers that did not expire is not armed again.
ResetRepeating ==
    /\ toRun = {} /\ done # {}
    /\ LET again == {t \in done : Interval[t] > 0} IN
        /\ timers' = timers \cup again
        /\ rem' = [t \in Timers |-> IF t \in again THEN Interval[t] ELSE rem[t]]
        /\ left' = IF again = {} THEN left ELSE Delay(Min({rem'[t] : t \in timers'}))
    /\ done' = {}
    /\ UNCHANGED <<queued, event, toRun, stepped>>

\* reset: repeating timers start again from now, the others are deleted.  It
\* arms the timerfd in its loop over them, so not when nothing had expired.
Reset ==
    /\ toRun = {} /\ done # {}
    /\ LET again == {t \in done : Interval[t] > 0} IN
        /\ timers' = timers \cup again
        /\ rem' = [t \in Timers |-> IF t \in again THEN Interval[t] ELSE rem[t]]
    /\ left' = IF timers' = {} THEN left ELSE Delay(Min({rem'[t] : t \in timers'}))
    /\ done' = {}
    /\ UNCHANGED <<queued, event, toRun, stepped>>

-----------------------------------------------------------------------------
(* external: the clocks                                                     *)

Later(d) == [t \in Timers |-> IF t \in Known THEN Max({rem[t] - d, -MaxLate}) ELSE rem[t]]

Tick ==
    /\ rem' = Later(1)
    /\ left' = IF left \in {0, Off} THEN left ELSE left - 1
    /\ UNCHANGED <<timers, queued, event, toRun, done, stepped>>

SetForward ==
    /\ rem' = Later(2)
    /\ stepped' = IF stepped = "never" THEN "forward" ELSE stepped
    /\ UNCHANGED <<timers, left, queued, event, toRun, done>>

SetBack ==
    /\ \A t \in Known : rem[t] < MaxDelay
    /\ rem' = [t \in Timers |-> IF t \in Known THEN rem[t] + 1 ELSE rem[t]]
    /\ stepped' = "back"
    /\ UNCHANGED <<timers, left, queued, event, toRun, done>>

-----------------------------------------------------------------------------
LoopStep == Poll \/ HandleRead \/ Reset \/ \E t \in Timers : RunFunctor(t) \/ RunCallback(t)

Next ==
    \/ LoopStep
    \/ \E t \in Timers : AddTimer(t) \/ AddTimerElsewhere(t)
    \/ Tick \/ SetForward \/ SetBack

Spec == Init /\ [][Next]_vars

\* The loop and the monotonic clock go on.
FairSpec == Spec /\ WF_vars(LoopStep) /\ WF_vars(Tick)

-----------------------------------------------------------------------------
(* Properties                                                               *)

\* Outside handleRead a queue with timers has its timerfd armed, for the
\* earliest of them or sooner, in whatever order timers are added, expire, are
\* restarted and add others.  A wall clock that is set forward makes it later
\* than that.  One that is set back makes handleRead find nothing expired and
\* leave it off (TimerQueue.cc:159 is in the loop over the expired timers).
Armed ==
    expired = {} /\ timers # {} =>
        \/ stepped = "back"
        \/ left # Off /\ (stepped = "never" => left <= Delay(Earliest(timers)))

\* A timer that is due runs, again with the exception of a clock set back.
DueRuns ==
    \A t \in Timers :
        t \in timers /\ rem[t] <= 0 ~> t \in expired \/ stepped = "back"
=============================================================================
