-------------------------- MODULE TimerQueueProofs --------------------------
(***************************************************************************)
(* For every set of timers, every interval and every bound on delays: a    *)
(* timer is in one place at a time, and the timerfd is armed for the       *)
(* earliest timer, with the exceptions that a wall clock being set makes.  *)
(***************************************************************************)
EXTENDS TimerQueue, FiniteSetTheorems, DataLemmas

USE DEF vars, expired, Known

-----------------------------------------------------------------------------
(* The inductive invariant.                                                 *)

Types ==
    /\ timers \subseteq Timers /\ queued \subseteq Timers
    /\ toRun \subseteq Timers /\ done \subseteq Timers
    /\ rem \in [Timers -> -MaxLate .. MaxDelay]
    /\ left \in 0 .. MaxDelay \cup {Off}
    /\ event \in BOOLEAN
    /\ stepped \in {"never", "forward", "back"}

\* A timer is waiting to be added, in the queue, expired or run, one at a time.
Finite ==
    /\ IsFiniteSet(timers) /\ IsFiniteSet(queued)
    /\ IsFiniteSet(toRun) /\ IsFiniteSet(done)

Apart ==
    /\ timers \cap queued = {} /\ timers \cap toRun = {} /\ timers \cap done = {}
    /\ queued \cap toRun = {} /\ queued \cap done = {} /\ toRun \cap done = {}

\* handleRead finds what expired before it treated.
Treated == event => expired = {}

\* Outside handleRead the timerfd runs for the earliest timer: one timer is due
\* when the descriptor is readable, or handleRead would find nothing to restart
\* and leave the descriptor off; and no timer is due long before.
InTime ==
    expired = {} /\ timers # {} /\ stepped # "back" =>
        /\ left # Off
        /\ \E t \in timers : rem[t] <= left
        /\ stepped = "never" => \A t \in timers : left <= rem[t] \/ left <= 1

IInv == Types /\ Finite /\ Apart /\ Treated /\ InTime

-----------------------------------------------------------------------------
(* The operators.                                                           *)

(* A delay is at least a tick.                                              *)
LEMMA DelayIs ==
  ASSUME NEW r \in Int
  PROVE  Delay(r) = IF r > 1 THEN r ELSE 1
<1> DEFINE m == IF r > 1 THEN r ELSE 1
<1>1. m \in {r, 1} /\ \A y \in {r, 1} : m >= y
  OBVIOUS
<1>2. \A x \in {r, 1} : (\A y \in {r, 1} : x >= y) => x = m
  OBVIOUS
<1> HIDE DEF m
<1>3. Max({r, 1}) = m
  BY <1>1, <1>2 DEF Max
<1> QED
  BY <1>3 DEF m, Delay

(* The least expiration is the expiration of a timer, and of none a later.  *)
LEMMA LeastIs ==
  ASSUME NEW S, S # {}, NEW f, \A t \in S : f[t] \in -MaxLate .. MaxDelay
  PROVE  \E t \in S : /\ Min({f[x] : x \in S}) = f[t]
                      /\ \A x \in S : f[t] <= f[x]
<1> DEFINE D == {f[x] + MaxLate : x \in S}
           E == {f[x] : x \in S}
<1>1. MaxLate \in Nat /\ MaxDelay \in Nat
  BY TimerAssumption
<1>2. D \subseteq Nat /\ D # {}
  BY <1>1
<1> HIDE DEF D
<1>3. PICK m \in D : \A k \in D : m <= k
  BY <1>2, SmallestElement
<1>4. PICK t \in S : m = f[t] + MaxLate
  BY <1>3 DEF D
<1>5. \A x \in S : f[t] <= f[x]
  <2> SUFFICES ASSUME NEW x \in S PROVE f[t] <= f[x]
    OBVIOUS
  <2>1. f[x] + MaxLate \in D
    BY DEF D
  <2>2. f[t] + MaxLate <= f[x] + MaxLate
    BY <1>3, <1>4, <2>1
  <2> QED
    BY <1>1, <2>2
<1>6. f[t] \in E /\ (\A y \in E : f[t] <= y) /\ E \subseteq Int
  BY <1>1, <1>5
<1> HIDE DEF E
<1>7. \A x \in E : (\A y \in E : x <= y) => x = f[t]
  BY <1>6
<1>8. Min(E) = f[t]
  BY <1>6, <1>7 DEF Min
<1> QED
  BY <1>5, <1>8 DEF E

(* What the four places hold together, when no timer is in two of them.     *)
LEMMA PlacesAddUp == Finite /\ Apart =>
    Cardinality(timers) + Cardinality(queued) + Cardinality(toRun) + Cardinality(done)
      = Cardinality(Known)
<1> SUFFICES ASSUME Finite, Apart
    PROVE Cardinality(timers) + Cardinality(queued) + Cardinality(toRun) + Cardinality(done)
            = Cardinality(timers \cup queued \cup (toRun \cup done))
  OBVIOUS
<1>1. ASSUME NEW A, NEW B, IsFiniteSet(A), IsFiniteSet(B), A \cap B = {}
      PROVE  IsFiniteSet(A \cup B) /\ Cardinality(A \cup B) = Cardinality(A) + Cardinality(B)
  <2>1. Cardinality(A) \in Nat /\ Cardinality(B) \in Nat /\ Cardinality(A \cap B) = 0
    BY <1>1, FS_CardinalityType, FS_EmptySet
  <2>2. /\ IsFiniteSet(A \cup B)
        /\ Cardinality(A \cup B) = Cardinality(A) + Cardinality(B) - Cardinality(A \cap B)
    BY <1>1, FS_Union
  <2> QED
    BY <2>1, <2>2
<1>2. /\ IsFiniteSet(timers \cup queued)
      /\ Cardinality(timers \cup queued) = Cardinality(timers) + Cardinality(queued)
  BY <1>1 DEF Finite, Apart
<1>3. /\ IsFiniteSet(toRun \cup done)
      /\ Cardinality(toRun \cup done) = Cardinality(toRun) + Cardinality(done)
  BY <1>1 DEF Finite, Apart
<1>4. (timers \cup queued) \cap (toRun \cup done) = {}
  BY DEF Apart
<1>5. Cardinality((timers \cup queued) \cup (toRun \cup done))
        = Cardinality(timers \cup queued) + Cardinality(toRun \cup done)
  BY <1>1, <1>2, <1>3, <1>4
<1>6. /\ Cardinality(timers) \in Nat /\ Cardinality(queued) \in Nat
      /\ Cardinality(toRun) \in Nat /\ Cardinality(done) \in Nat
  BY FS_CardinalityType DEF Finite
<1> QED
  BY <1>2, <1>3, <1>5, <1>6

-----------------------------------------------------------------------------
(* The steps.                                                               *)

(* The initial state satisfies the invariant.                               *)
LEMMA InitInv == Init => IInv
<1> SUFFICES ASSUME Init PROVE IInv
  OBVIOUS
<1>1. 0 \in -MaxLate .. MaxDelay
  BY TimerAssumption
<1>2. Types
  <2>1. rem \in [Timers -> -MaxLate .. MaxDelay]
    BY <1>1 DEF Init
  <2> QED
    BY <2>1 DEF Init, Types
<1>3. Finite
  BY FS_EmptySet DEF Init, Finite
<1>4. Apart /\ Treated /\ InTime
  BY DEF Init, Apart, Treated, InTime
<1> QED
  BY <1>2, <1>3, <1>4 DEF IInv

(* addTimerInLoop arms the timerfd for the new timer if it is the earliest, *)
(* and else leaves it armed for the one that is.                            *)
LEMMA AddStep ==
  ASSUME IInv, NEW t \in Timers, t \notin timers, NEW r \in -MaxLate .. MaxDelay,
         AddTimerInLoop(t, r), UNCHANGED <<event, toRun, done, stepped>>
  PROVE  /\ timers' = timers \cup {t}
         /\ rem' \in [Timers -> -MaxLate .. MaxDelay]
         /\ left' \in 0 .. MaxDelay \cup {Off}
         /\ IsFiniteSet(timers')
         /\ InTime'
<1>0. /\ MaxLate \in Nat \ {0} /\ MaxDelay \in Nat \ {0} /\ Off \notin Nat
      /\ r \in Int /\ r <= MaxDelay
  BY TimerAssumption
<1>1. timers' = timers \cup {t} /\ rem' = [rem EXCEPT ![t] = r]
  BY DEF AddTimerInLoop
<1>2. rem' \in [Timers -> -MaxLate .. MaxDelay]
  BY <1>1 DEF IInv, Types
<1>3. IsFiniteSet(timers')
  BY <1>1, FS_AddElement DEF IInv, Finite
<1>4. Delay(r) \in 1 .. MaxDelay /\ r <= Delay(r) /\ (Delay(r) <= r \/ Delay(r) <= 1)
  BY <1>0, DelayIs
<1>5. left' \in 0 .. MaxDelay \cup {Off}
  BY <1>0, <1>4 DEF AddTimerInLoop, IInv, Types
<1>6. rem'[t] = r /\ \A x \in timers : rem'[x] = rem[x] /\ rem[x] \in -MaxLate .. MaxDelay
  BY <1>1 DEF IInv, Types
<1>7. InTime'
  <2> SUFFICES ASSUME expired = {}, stepped # "back"
      PROVE  /\ left' # Off
             /\ \E x \in timers' : rem'[x] <= left'
             /\ stepped = "never" => \A x \in timers' : left' <= rem'[x] \/ left' <= 1
    BY DEF InTime
  <2>1. CASE timers = {}
    <3>1. left' = Delay(r) /\ timers' = {t}
      BY <1>1, <2>1 DEF AddTimerInLoop
    <3> QED
      BY <1>0, <1>4, <1>6, <3>1
  <2>2. CASE timers # {}
    <3>1. PICK e \in timers : Earliest(timers) = rem[e] /\ \A x \in timers : rem[e] <= rem[x]
      BY <1>6, <2>2, LeastIs DEF Earliest
    <3>2. left' = IF r < rem[e] THEN Delay(r) ELSE left
      BY <2>2, <3>1 DEF AddTimerInLoop
    <3>3. CASE r < rem[e]
      <4>1. left' = Delay(r)
        BY <3>2, <3>3
      <4>2. \A x \in timers : r <= rem'[x]
        BY <1>0, <1>6, <3>1, <3>3
      <4> QED
        BY <1>0, <1>1, <1>4, <1>6, <4>1, <4>2
    <3>4. CASE ~(r < rem[e])
      <4>1. left' = left
        BY <3>2, <3>4
      <4>2. /\ left # Off
            /\ \E x \in timers : rem[x] <= left
            /\ stepped = "never" => \A x \in timers : left <= rem[x] \/ left <= 1
        BY <2>2 DEF IInv, InTime
      <4>3. left \in 0 .. MaxDelay
        BY <4>2 DEF IInv, Types
      <4>4. stepped = "never" => left <= r \/ left <= 1
        BY <1>0, <1>6, <3>4, <4>2, <4>3
      <4> QED
        BY <1>1, <1>6, <4>1, <4>2, <4>4
    <3> QED
      BY <3>3, <3>4
  <2> QED
    BY <2>1, <2>2
<1> QED
  BY <1>1, <1>2, <1>3, <1>5, <1>7

(* A callback adds a timer.                                                 *)
LEMMA AddTimerStep ==
  ASSUME IInv, NEW t \in Timers, AddTimer(t) PROVE IInv'
<1>1. PICK r \in -1 .. MaxDelay : AddTimerInLoop(t, r)
  BY DEF AddTimer
<1>2. r \in -MaxLate .. MaxDelay
  BY TimerAssumption
<1>3. t \notin Known /\ UNCHANGED <<queued, event, toRun, done, stepped>>
  BY DEF AddTimer
<1>4. /\ timers' = timers \cup {t}
      /\ rem' \in [Timers -> -MaxLate .. MaxDelay]
      /\ left' \in 0 .. MaxDelay \cup {Off}
      /\ IsFiniteSet(timers')
      /\ InTime'
  BY <1>1, <1>2, <1>3, AddStep
<1>5. Types'
  BY <1>3, <1>4 DEF IInv, Types
<1>6. Finite' /\ Apart' /\ Treated'
  BY <1>3, <1>4 DEF IInv, Finite, Apart, Treated
<1> QED
  BY <1>4, <1>5, <1>6 DEF IInv

(* Another thread adds a timer: its functor waits.                          *)
LEMMA AddElsewhereStep ==
  ASSUME IInv, NEW t \in Timers, AddTimerElsewhere(t) PROVE IInv'
<1>1. PICK r \in -1 .. MaxDelay : rem' = [rem EXCEPT ![t] = r]
  BY DEF AddTimerElsewhere
<1>2. r \in -MaxLate .. MaxDelay
  BY TimerAssumption
<1>3. /\ t \notin Known /\ queued' = queued \cup {t}
      /\ UNCHANGED <<timers, left, event, toRun, done, stepped>>
  BY DEF AddTimerElsewhere
<1>4. Types'
  BY <1>1, <1>2, <1>3 DEF IInv, Types
<1>5. Finite'
  BY <1>3, FS_AddElement DEF IInv, Finite
<1>6. Apart' /\ Treated'
  BY <1>3 DEF IInv, Apart, Treated
<1>7. \A x \in timers : rem'[x] = rem[x]
  BY <1>1, <1>3 DEF IInv, Types
<1>8. InTime'
  BY <1>3, <1>7 DEF IInv, InTime
<1> QED
  BY <1>4, <1>5, <1>6, <1>8 DEF IInv

(* The functor runs.                                                        *)
LEMMA RunFunctorStep ==
  ASSUME IInv, NEW t \in Timers, RunFunctor(t) PROVE IInv'
<1>1. /\ t \in queued /\ queued' = queued \ {t}
      /\ AddTimerInLoop(t, rem[t])
      /\ UNCHANGED <<event, toRun, done, stepped>>
  BY DEF RunFunctor
<1>2. t \notin timers /\ t \notin toRun /\ t \notin done /\ rem[t] \in -MaxLate .. MaxDelay
  BY <1>1 DEF IInv, Types, Apart
<1>3. /\ timers' = timers \cup {t}
      /\ rem' \in [Timers -> -MaxLate .. MaxDelay]
      /\ left' \in 0 .. MaxDelay \cup {Off}
      /\ IsFiniteSet(timers')
      /\ InTime'
  BY <1>1, <1>2, AddStep
<1>4. Types'
  BY <1>1, <1>3 DEF IInv, Types
<1>5. Finite'
  BY <1>1, <1>3, FS_RemoveElement DEF IInv, Finite
<1>6. Apart' /\ Treated'
  BY <1>1, <1>2, <1>3 DEF IInv, Apart, Treated
<1> QED
  BY <1>3, <1>4, <1>5, <1>6 DEF IInv

(* epoll_wait reports the timerfd, when nothing that expired is left.       *)
LEMMA PollStep ==
  ASSUME IInv, Poll PROVE IInv'
<1>1. Types' /\ Treated'
  BY DEF Poll, Idle, IInv, Types, Treated
<1>2. Finite' /\ Apart' /\ InTime'
  BY DEF Poll, IInv, Finite, Apart, InTime
<1> QED
  BY <1>1, <1>2 DEF IInv

(* handleRead moves what has expired.  If nothing has and timers are left,  *)
(* the descriptor was armed anew since the poll, and stays so.              *)
LEMMA HandleReadStep ==
  ASSUME IInv, HandleRead PROVE IInv'
<1>1. /\ event /\ event' = FALSE
      /\ left' = IF left = 0 THEN Off ELSE left
      /\ toRun' = GetExpired /\ timers' = timers \ GetExpired
      /\ UNCHANGED <<rem, queued, done, stepped>>
  BY DEF HandleRead
<1>2. expired = {} /\ GetExpired \subseteq timers
  BY <1>1 DEF IInv, Treated, GetExpired
<1>3. Types' /\ Treated'
  BY <1>1, <1>2 DEF IInv, Types, Treated
<1>4. Finite'
  BY <1>1, <1>2, FS_Subset DEF IInv, Finite
<1>5. Apart'
  BY <1>1, <1>2 DEF IInv, Apart
<1>6. InTime'
  <2> SUFFICES ASSUME GetExpired = {}, timers # {}, stepped # "back"
      PROVE  /\ left' # Off
             /\ \E t \in timers' : rem'[t] <= left'
             /\ stepped = "never" => \A t \in timers' : left' <= rem'[t] \/ left' <= 1
    BY <1>1 DEF InTime
  <2>1. /\ left # Off
        /\ \E t \in timers : rem[t] <= left
        /\ stepped = "never" => \A t \in timers : left <= rem[t] \/ left <= 1
    BY <1>2 DEF IInv, InTime
  <2>2. left # 0
    BY <2>1 DEF GetExpired
  <2> QED
    BY <1>1, <2>1, <2>2
<1> QED
  BY <1>3, <1>4, <1>5, <1>6 DEF IInv

(* The callback of an expired timer has run.                                *)
LEMMA CallbackStep ==
  ASSUME IInv, NEW t \in Timers, RunCallback(t) PROVE IInv'
<1>1. /\ t \in toRun /\ toRun' = toRun \ {t} /\ done' = done \cup {t}
      /\ UNCHANGED <<timers, rem, left, queued, event, stepped>>
  BY DEF RunCallback
<1>2. Types' /\ Apart'
  BY <1>1 DEF IInv, Types, Apart
<1>3. Finite'
  BY <1>1, FS_AddElement, FS_RemoveElement DEF IInv, Finite
<1>4. Treated' /\ InTime'
  BY <1>1 DEF IInv, Treated, InTime
<1> QED
  BY <1>2, <1>3, <1>4 DEF IInv

(* reset restarts the repeating timers and arms the timerfd for the earliest *)
(* of all that are in the queue.                                            *)
LEMMA ResetStep ==
  ASSUME IInv, Reset PROVE IInv'
<1> DEFINE again == {t \in done : Interval[t] > 0}
<1>0. /\ MaxLate \in Nat \ {0} /\ MaxDelay \in Nat \ {0} /\ Off \notin Nat
      /\ Interval \in [Timers -> 0 .. MaxDelay]
  BY TimerAssumption
<1>1. /\ toRun = {} /\ done # {} /\ timers' = timers \cup again
      /\ rem' = [t \in Timers |-> IF t \in again THEN Interval[t] ELSE rem[t]]
      /\ left' = IF timers' = {} THEN left ELSE Delay(Min({rem'[t] : t \in timers'}))
      /\ done' = {}
      /\ UNCHANGED <<queued, event, toRun, stepped>>
  BY DEF Reset
<1>2. again \subseteq done
  OBVIOUS
<1> HIDE DEF again
<1>3. rem' \in [Timers -> -MaxLate .. MaxDelay]
  <2> SUFFICES ASSUME NEW t \in Timers
      PROVE  (IF t \in again THEN Interval[t] ELSE rem[t]) \in -MaxLate .. MaxDelay
    BY <1>1
  <2>1. Interval[t] \in -MaxLate .. MaxDelay
    BY <1>0
  <2> QED
    BY <2>1 DEF IInv, Types
<1>4. timers' \subseteq Timers
  BY <1>1, <1>2 DEF IInv, Types
<1>5. timers' # {} => \E e \in timers' :
          left' = Delay(rem'[e]) /\ \A x \in timers' : rem'[e] <= rem'[x]
  <2> SUFFICES ASSUME timers' # {}
      PROVE \E e \in timers' : left' = Delay(rem'[e]) /\ \A x \in timers' : rem'[e] <= rem'[x]
    OBVIOUS
  <2>1. \A x \in timers' : rem'[x] \in -MaxLate .. MaxDelay
    BY <1>3, <1>4
  <2>2. PICK e \in timers' : /\ Min({rem'[x] : x \in timers'}) = rem'[e]
                             /\ \A x \in timers' : rem'[e] <= rem'[x]
    BY <2>1, LeastIs
  <2>3. left' = Delay(rem'[e])
    BY <1>1, <2>2
  <2> QED
    BY <2>2, <2>3
<1>6. ASSUME NEW e \in timers', left' = Delay(rem'[e]),
             \A x \in timers' : rem'[e] <= rem'[x]
      PROVE  /\ left' \in 1 .. MaxDelay
             /\ rem'[e] <= left'
             /\ \A x \in timers' : left' <= rem'[x] \/ left' <= 1
  <2>1. \A x \in timers' : rem'[x] \in -MaxLate .. MaxDelay
    BY <1>3, <1>4
  <2>2. left' = IF rem'[e] > 1 THEN rem'[e] ELSE 1
    BY <1>0, <1>6, <2>1, DelayIs
  <2> QED
    BY <1>0, <1>6, <2>1, <2>2
<1>7. left' \in 0 .. MaxDelay \cup {Off}
  <2>1. CASE timers' = {}
    BY <1>1, <2>1 DEF IInv, Types
  <2>2. CASE timers' # {}
    <3>1. left' \in 1 .. MaxDelay
      BY <1>5, <1>6, <2>2
    <3> QED
      BY <1>0, <3>1
  <2> QED
    BY <2>1, <2>2
<1>8. Types'
  BY <1>1, <1>3, <1>4, <1>7 DEF IInv, Types
<1>9. Finite'
  <2>1. IsFiniteSet(again)
    BY <1>2, FS_Subset DEF IInv, Finite
  <2> QED
    BY <1>1, <2>1, FS_Union, FS_EmptySet DEF IInv, Finite
<1>10. Apart' /\ Treated'
  BY <1>1, <1>2 DEF IInv, Apart, Treated
<1>11. InTime'
  BY <1>0, <1>5, <1>6 DEF InTime
<1> QED
  BY <1>8, <1>9, <1>10, <1>11 DEF IInv

(* Time that passes brings every expiration nearer, to the bound MaxLate.   *)
LEMMA LaterIs ==
  ASSUME IInv, NEW d \in Nat
  PROVE  /\ Later(d) \in [Timers -> -MaxLate .. MaxDelay]
         /\ \A t \in timers : Later(d)[t] =
               IF rem[t] - d >= -MaxLate THEN rem[t] - d ELSE -MaxLate
<1>0. MaxLate \in Nat /\ MaxDelay \in Nat
  BY TimerAssumption
<1>1. ASSUME NEW x \in Int, NEW y \in Int
      PROVE  Max({x, y}) = IF x >= y THEN x ELSE y
  <2> DEFINE m == IF x >= y THEN x ELSE y
  <2>1. m \in {x, y} /\ \A z \in {x, y} : m >= z
    OBVIOUS
  <2>2. \A w \in {x, y} : (\A z \in {x, y} : w >= z) => w = m
    OBVIOUS
  <2> HIDE DEF m
  <2>3. Max({x, y}) = m
    BY <2>1, <2>2 DEF Max
  <2> QED
    BY <2>3 DEF m
<1>2. ASSUME NEW t \in Timers
      PROVE  /\ rem[t] \in -MaxLate .. MaxDelay
             /\ Max({rem[t] - d, -MaxLate})
                  = IF rem[t] - d >= -MaxLate THEN rem[t] - d ELSE -MaxLate
  <2>1. rem[t] \in -MaxLate .. MaxDelay
    BY DEF IInv, Types
  <2>2. rem[t] - d \in Int /\ -MaxLate \in Int
    BY <1>0, <2>1
  <2> QED
    BY <1>1, <2>1, <2>2
<1>3. \A t \in Timers : Later(d)[t] = IF t \in Known
          THEN IF rem[t] - d >= -MaxLate THEN rem[t] - d ELSE -MaxLate
          ELSE rem[t]
  BY <1>2 DEF Later
<1>4. ASSUME NEW t \in Timers PROVE Later(d)[t] \in -MaxLate .. MaxDelay
  <2>1. rem[t] \in -MaxLate .. MaxDelay /\ d \in Nat
    BY <1>2
  <2>2. (IF rem[t] - d >= -MaxLate THEN rem[t] - d ELSE -MaxLate) \in -MaxLate .. MaxDelay
    BY <1>0, <2>1
  <2> QED
    BY <1>3, <2>1, <2>2
<1>5. Later(d) = [t \in Timers |-> Later(d)[t]]
  BY DEF Later
<1>6. Later(d) \in [Timers -> -MaxLate .. MaxDelay]
  BY <1>4, <1>5
<1> QED
  BY <1>3, <1>6 DEF IInv, Types

(* The monotonic clock takes the timerfd along.                             *)
LEMMA TickStep ==
  ASSUME IInv, Tick PROVE IInv'
<1>0. MaxLate \in Nat \ {0} /\ MaxDelay \in Nat \ {0} /\ Off \notin Nat
  BY TimerAssumption
<1>1. /\ rem' = Later(1) /\ left' = IF left \in {0, Off} THEN left ELSE left - 1
      /\ UNCHANGED <<timers, queued, event, toRun, done, stepped>>
  BY DEF Tick
<1>2. /\ rem' \in [Timers -> -MaxLate .. MaxDelay]
      /\ \A t \in timers : rem'[t] =
            IF rem[t] - 1 >= -MaxLate THEN rem[t] - 1 ELSE -MaxLate
  BY <1>1, LaterIs
<1>3. left' \in 0 .. MaxDelay \cup {Off}
  BY <1>0, <1>1 DEF IInv, Types
<1>4. Types' /\ Treated'
  BY <1>1, <1>2, <1>3 DEF IInv, Types, Treated
<1>5. Finite' /\ Apart'
  BY <1>1 DEF IInv, Finite, Apart
<1>6. InTime'
  <2> SUFFICES ASSUME expired = {}, timers # {}, stepped # "back"
      PROVE  /\ left' # Off
             /\ \E t \in timers : rem'[t] <= left'
             /\ stepped = "never" => \A t \in timers : left' <= rem'[t] \/ left' <= 1
    BY <1>1 DEF InTime
  <2>1. /\ left # Off
        /\ \E t \in timers : rem[t] <= left
        /\ stepped = "never" => \A t \in timers : left <= rem[t] \/ left <= 1
    BY DEF IInv, InTime
  <2>2. left \in 0 .. MaxDelay /\ left' = IF left = 0 THEN 0 ELSE left - 1
    BY <1>1, <2>1 DEF IInv, Types
  <2>3. \A t \in timers : rem[t] \in -MaxLate .. MaxDelay
    BY DEF IInv, Types
  <2>4. \A t \in timers : rem[t] <= left => rem'[t] <= left'
    BY <1>0, <1>2, <2>2, <2>3
  <2>5. \A t \in timers : left <= rem[t] \/ left <= 1 => left' <= rem'[t] \/ left' <= 1
    BY <1>0, <1>2, <2>2, <2>3
  <2>6. left' # Off
    BY <1>0, <2>2
  <2> QED
    BY <2>1, <2>4, <2>5, <2>6
<1> QED
  BY <1>4, <1>5, <1>6 DEF IInv

(* A wall clock that is set forward makes timers due before the timerfd is. *)
LEMMA ForwardStep ==
  ASSUME IInv, SetForward PROVE IInv'
<1>0. MaxLate \in Nat \ {0} /\ MaxDelay \in Nat \ {0} /\ Off \notin Nat
  BY TimerAssumption
<1>1. /\ rem' = Later(2) /\ stepped' = IF stepped = "never" THEN "forward" ELSE stepped
      /\ UNCHANGED <<timers, left, queued, event, toRun, done>>
  BY DEF SetForward
<1>2. /\ rem' \in [Timers -> -MaxLate .. MaxDelay]
      /\ \A t \in timers : rem'[t] =
            IF rem[t] - 2 >= -MaxLate THEN rem[t] - 2 ELSE -MaxLate
  BY <1>1, LaterIs
<1>3. Types' /\ Treated'
  BY <1>1, <1>2 DEF IInv, Types, Treated
<1>4. Finite' /\ Apart'
  BY <1>1 DEF IInv, Finite, Apart
<1>5. InTime'
  <2> SUFFICES ASSUME expired = {}, timers # {}, stepped # "back"
      PROVE  left # Off /\ \E t \in timers : rem'[t] <= left
    BY <1>1 DEF InTime, IInv, Types
  <2>1. left # Off /\ \E t \in timers : rem[t] <= left
    BY DEF IInv, InTime
  <2>2. left \in 0 .. MaxDelay /\ \A t \in timers : rem[t] \in -MaxLate .. MaxDelay
    BY <2>1 DEF IInv, Types
  <2>3. \A t \in timers : rem[t] <= left => rem'[t] <= left
    BY <1>0, <1>2, <2>2
  <2> QED
    BY <2>1, <2>3
<1> QED
  BY <1>3, <1>4, <1>5 DEF IInv

(* One that is set back makes them due after it.                            *)
LEMMA BackStep ==
  ASSUME IInv, SetBack PROVE IInv'
<1>0. MaxLate \in Nat /\ MaxDelay \in Nat
  BY TimerAssumption
<1>1. rem' \in [Timers -> -MaxLate .. MaxDelay]
  <2>1. ASSUME NEW t \in Timers
        PROVE  (IF t \in Known THEN rem[t] + 1 ELSE rem[t]) \in -MaxLate .. MaxDelay
    <3>1. rem[t] \in -MaxLate .. MaxDelay /\ (t \in Known => rem[t] < MaxDelay)
      BY DEF SetBack, IInv, Types
    <3> QED
      BY <1>0, <3>1
  <2> QED
    BY <2>1 DEF SetBack
<1>2. Types' /\ Treated' /\ InTime'
  BY <1>1 DEF SetBack, IInv, Types, Treated, InTime
<1>3. Finite' /\ Apart'
  BY DEF SetBack, IInv, Finite, Apart
<1> QED
  BY <1>2, <1>3 DEF IInv

(* The invariant holds in every behaviour.                                  *)
LEMMA Inductive == Spec => []IInv
<1>1. IInv /\ [Next]_vars => IInv'
  <2> SUFFICES ASSUME IInv, [Next]_vars PROVE IInv'
    OBVIOUS
  <2>1. CASE UNCHANGED vars
    BY <2>1 DEF IInv, Types, Finite, Apart, Treated, InTime
  <2>2. CASE LoopStep
    BY <2>2, PollStep, HandleReadStep, ResetStep, RunFunctorStep, CallbackStep DEF LoopStep
  <2>3. CASE \E t \in Timers : AddTimer(t) \/ AddTimerElsewhere(t)
    BY <2>3, AddTimerStep, AddElsewhereStep
  <2>4. CASE Tick \/ SetForward \/ SetBack
    BY <2>4, TickStep, ForwardStep, BackStep
  <2> QED
    BY <2>1, <2>2, <2>3, <2>4 DEF Next
<1> QED
  BY <1>1, InitInv, PTL DEF Spec

-----------------------------------------------------------------------------
(* The theorems.                                                            *)

\* The variables have their types, and a Timer object is in one place: in the
\* functor that adds it, in timers_, in the expired list before its callback or
\* after it.  None is deleted while another place still refers to it.
THEOREM TypeCorrect == Spec => []TypeOK
<1>1. IInv => TypeOK
  BY PlacesAddUp DEF IInv, Types, TypeOK
<1> QED
  BY <1>1, Inductive, PTL

\* Outside handleRead the timerfd is armed for the earliest timer or sooner,
\* unless the wall clock was set (insert, resetTimerfd, reset).
THEOREM ArmedHolds == Spec => []Armed
<1>1. IInv => Armed
  <2> SUFFICES ASSUME IInv, expired = {}, timers # {}, stepped # "back"
      PROVE  left # Off /\ (stepped = "never" => left <= Delay(Earliest(timers)))
    BY DEF Armed
  <2>1. left # Off /\ (stepped = "never" => \A t \in timers : left <= rem[t] \/ left <= 1)
    BY DEF IInv, InTime
  <2>2. MaxLate \in Nat /\ MaxDelay \in Nat
    BY TimerAssumption
  <2>3. left \in 0 .. MaxDelay /\ \A t \in timers : rem[t] \in -MaxLate .. MaxDelay
    BY <2>1 DEF IInv, Types
  <2>4. PICK e \in timers : Earliest(timers) = rem[e]
    BY <2>3, LeastIs DEF Earliest
  <2>5. Delay(rem[e]) = IF rem[e] > 1 THEN rem[e] ELSE 1
    BY <2>2, <2>3, DelayIs
  <2> QED
    BY <2>1, <2>2, <2>3, <2>4, <2>5
<1> QED
  BY <1>1, Inductive, PTL
=============================================================================
