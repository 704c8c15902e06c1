-------------------------- MODULE EventLoopProofs --------------------------
(***************************************************************************)
(* For every set of clients, functors and channels: the types, the absence *)
(* of lost wake-ups and the order of the functors of EventLoop, and that a *)
(* loop inside an EventLoopThread is such a loop.                          *)
(***************************************************************************)
EXTENDS EventLoopThread, SequenceTheorems, TLAPS

USE DEF Channels, loopVars, history, vars

(* Every variable keeps its type in every step. *)
LEMMA TypeOKInit == Init => TypeOK
<1>1. <<>> \in Seq(Tasks)
  BY EmptySeq
<1> QED
  BY <1>1, Zenon DEF Init, TypeOK

(* queueInLoop and a callback keep the types of what they may change. *)
LEMMA PushType ==
  ASSUME TypeOK, NEW t \in Tasks, Push(t)
  PROVE  pending' \in Seq(Tasks) /\ queued' \in Seq(Tasks)
  BY AppendProperties DEF TypeOK, Push

(* queueInLoop in the loop's thread keeps types, its wake-up included.      *)
LEMMA QueueInLoopType ==
  ASSUME TypeOK, NEW t \in Tasks, QueueInLoop(t)
  PROVE  /\ pending' \in Seq(Tasks) /\ queued' \in Seq(Tasks)
         /\ quit' \in BOOLEAN /\ eventfd' \in BOOLEAN
<1>1. pending' \in Seq(Tasks) /\ queued' \in Seq(Tasks)
  BY PushType DEF QueueInLoop
<1>2. quit' \in BOOLEAN /\ eventfd' \in BOOLEAN
  BY Zenon DEF TypeOK, QueueInLoop
<1> QED
  BY <1>1, <1>2

(* So does whatever a callback does to its loop.                            *)
LEMMA CallbackType ==
  ASSUME TypeOK, CallbackBody
  PROVE  /\ pending' \in Seq(Tasks) /\ queued' \in Seq(Tasks)
         /\ quit' \in BOOLEAN /\ eventfd' \in BOOLEAN
<1>1. CASE UNCHANGED <<quit, pending, queued, eventfd>>
  BY <1>1, Zenon DEF TypeOK
<1>2. ASSUME NEW t \in Tasks, QueueInLoop(t)
      PROVE  /\ pending' \in Seq(Tasks) /\ queued' \in Seq(Tasks)
             /\ quit' \in BOOLEAN /\ eventfd' \in BOOLEAN
  BY <1>2, QueueInLoopType
<1>3. CASE QuitInLoop
  BY <1>3, Zenon DEF TypeOK, QuitInLoop
<1> QED
  BY <1>1, <1>2, <1>3, Zenon DEF CallbackBody

(* Every step of the loop and of its clients keeps the types.               *)
LEMMA TypeOKStep == TypeOK /\ [Next]_vars => TypeOK'
<1> SUFFICES ASSUME TypeOK, [Next]_vars PROVE TypeOK'
  OBVIOUS
<1> USE DEF TypeOK
<1>1. CASE EnterLoop
  BY <1>1 DEF EnterLoop
<1>2. CASE CheckQuit
  BY <1>2 DEF CheckQuit
<1>3. CASE PollReady
  BY <1>3 DEF PollReady
<1>4. CASE PollTimeout
  BY <1>4 DEF PollTimeout
<1>5. CASE HandleRead
  BY <1>5 DEF HandleRead
<1>6. ASSUME NEW ch \in IOChannels, HandleEvent(ch) PROVE TypeOK'
  BY <1>6, CallbackType DEF HandleEvent
<1>7. CASE SwapFunctors
  BY <1>7 DEF SwapFunctors
<1>8. CASE RunFunctor
  <2>1. Head(functors) \in Tasks /\ Tail(functors) \in Seq(Tasks)
    BY <1>8, HeadTailProperties DEF RunFunctor
  <2>2. ran' \in Seq(Tasks) /\ functors' \in Seq(Tasks)
    BY <1>8, <2>1, AppendProperties DEF RunFunctor
  <2> QED
    BY <1>8, <2>2, CallbackType, Zenon DEF RunFunctor
<1>9. CASE FinishFunctors
  BY <1>9 DEF FinishFunctors
<1>10. ASSUME NEW t \in Tasks, QueueBeforeLoop(t) PROVE TypeOK'
  BY <1>10, QueueInLoopType, Zenon DEF QueueBeforeLoop
<1>11. ASSUME NEW c \in Clients, NEW t \in Tasks, QueueFromClient(c, t) PROVE TypeOK'
  BY <1>11, PushType DEF QueueFromClient
<1>12. ASSUME NEW c \in Clients, QuitFromClient(c) PROVE TypeOK'
  BY <1>12 DEF QuitFromClient
<1>13. ASSUME NEW c \in Clients, Wakeup(c) PROVE TypeOK'
  BY <1>13 DEF Wakeup
<1>14. CASE UNCHANGED vars
  BY <1>14
<1> QED
  BY <1>1, <1>2, <1>3, <1>4, <1>5, <1>6, <1>7, <1>8, <1>9, <1>10, <1>11, <1>12,
     <1>13, <1>14 DEF Next, LoopStep, ClientStep

(* The variables of EventLoop have their types in every state.              *)
THEOREM TypeCorrect == Spec => []TypeOK
  BY TypeOKInit, TypeOKStep, PTL DEF Spec

-----------------------------------------------------------------------------
(* NoLostWakeup is not inductive: a functor pushed while the loop runs a   *)
(* batch is noticed only at the next poll.  Outside "dispatch", where      *)
(* doPendingFunctors is still to come, a late functor always has its       *)
(* wake-up; and callingPendingFunctors_ tells exactly when one is needed.  *)
WakeInv ==
    /\ calling = (pcL = "run")
    /\ pcL # "dispatch" /\ PendingLate => WakeupOwed
    /\ pcL = "poll" /\ quit => WakeupOwed

(* Before anything was queued no wake-up is owed.                           *)
LEMMA WakeInvInit == Init => WakeInv
<1> SUFFICES ASSUME Init PROVE WakeInv
  OBVIOUS
<1>1. ~PendingLate
  BY DEF Init, PendingLate
<1> QED
  BY <1>1 DEF Init, WakeInv

(* Appending a functor makes no other functor late.                        *)
LEMMA LateAfterPush ==
  ASSUME TypeOK, NEW t \in Tasks, Push(t), early \subseteq early', PendingLate'
  PROVE  PendingLate \/ t \notin early'
<1>1. /\ DOMAIN pending = 1 .. Len(pending)
      /\ DOMAIN pending' = 1 .. Len(pending) + 1
      /\ Len(pending) \in Nat
      /\ \A i \in 1 .. Len(pending) : pending'[i] = pending[i]
      /\ pending'[Len(pending) + 1] = t
  <2>1. pending \in Seq(Tasks) /\ pending' = Append(pending, t)
    BY DEF TypeOK, Push
  <2>2. pending' \in Seq(Tasks)
    BY <2>1, AppendProperties
  <2> QED
    BY <2>1, <2>2, AppendProperties, LenProperties
<1>2. PICK i \in DOMAIN pending' : pending'[i] \notin early'
  BY DEF PendingLate
<1>3. CASE i \in 1 .. Len(pending)
  BY <1>1, <1>2, <1>3 DEF PendingLate
<1>4. CASE i = Len(pending) + 1
  BY <1>1, <1>2, <1>4
<1> QED
  BY <1>1, <1>2, <1>3, <1>4

(* No step leaves a late functor or a quit without its wake-up.             *)
LEMMA WakeInvStep == TypeOK /\ WakeInv /\ [Next]_vars => WakeInv'
<1> SUFFICES ASSUME TypeOK, WakeInv, [Next]_vars PROVE WakeInv'
  OBVIOUS
<1> USE DEF WakeInv
<1>1. CASE EnterLoop
  BY <1>1 DEF EnterLoop, PendingLate, WakeupOwed
<1>2. CASE CheckQuit
  BY <1>2 DEF CheckQuit, PendingLate, WakeupOwed
<1>3. CASE PollReady
  BY <1>3 DEF PollReady
<1>4. CASE PollTimeout
  BY <1>4 DEF PollTimeout
<1>5. CASE HandleRead
  BY <1>5 DEF HandleRead
<1>6. ASSUME NEW ch \in IOChannels, HandleEvent(ch) PROVE WakeInv'
  BY <1>6 DEF HandleEvent
<1>7. CASE SwapFunctors
  <2>1. ~PendingLate'
    BY <1>7 DEF SwapFunctors, PendingLate
  <2> QED
    BY <1>7, <2>1 DEF SwapFunctors
<1>8. CASE RunFunctor
  <2>1. pcL = "run" /\ pcL' = "run" /\ calling' = calling /\ pcC' = pcC /\ early' = early
    BY <1>8 DEF RunFunctor
  <2>2. CASE UNCHANGED <<quit, pending, queued, eventfd>>
    BY <2>1, <2>2 DEF PendingLate, WakeupOwed
  <2>3. ASSUME NEW t \in Tasks, QueueInLoop(t) PROVE WakeInv'
    BY <2>1, <2>3 DEF QueueInLoop, WakeupOwed
  <2>4. CASE QuitInLoop
    BY <2>1, <2>4 DEF QuitInLoop, PendingLate, WakeupOwed
  <2> QED
    BY <1>8, <2>2, <2>3, <2>4 DEF RunFunctor, CallbackBody
<1>9. CASE FinishFunctors
  BY <1>9 DEF FinishFunctors, PendingLate, WakeupOwed
<1>10. ASSUME NEW t \in Tasks, QueueBeforeLoop(t) PROVE WakeInv'
  <2>1. /\ pcL = "start" /\ pcL' = "start" /\ calling' = calling /\ pcC' = pcC
        /\ early' = early \cup {t} /\ Push(t)
        /\ eventfd' = IF calling THEN TRUE ELSE eventfd
    BY <1>10 DEF QueueBeforeLoop, QueueInLoop
  <2>2. PendingLate' => PendingLate
    BY <2>1, LateAfterPush
  <2> QED
    BY <2>1, <2>2 DEF WakeupOwed
<1>11. ASSUME NEW c \in Clients, NEW t \in Tasks, QueueFromClient(c, t) PROVE WakeInv'
  <2>1. pcC'[c] = "wake"
    BY <1>11 DEF QueueFromClient, TypeOK
  <2> QED
    BY <1>11, <2>1 DEF QueueFromClient, WakeupOwed
<1>12. ASSUME NEW c \in Clients, QuitFromClient(c) PROVE WakeInv'
  <2>1. pcC'[c] = "wake"
    BY <1>12 DEF QuitFromClient, TypeOK
  <2> QED
    BY <1>12, <2>1 DEF QuitFromClient, WakeupOwed
<1>13. ASSUME NEW c \in Clients, Wakeup(c) PROVE WakeInv'
  BY <1>13 DEF Wakeup, WakeupOwed
<1>14. CASE UNCHANGED vars
  BY <1>14 DEF PendingLate, WakeupOwed
<1> QED
  BY <1>1, <1>2, <1>3, <1>4, <1>5, <1>6, <1>7, <1>8, <1>9, <1>10, <1>11, <1>12,
     <1>13, <1>14 DEF Next, LoopStep, ClientStep

(* The loop never sleeps on a late functor or on quit_ without a wake-up   *)
(* on its way: the two-step queueInLoop and quit() of src/net/EventLoop.cc *)
(* lose no wake-up, for any number of clients.                             *)
THEOREM NoLostWakeupHolds == Spec => []NoLostWakeup
<1>1. WakeInv => NoLostWakeup
  BY DEF WakeInv, NoLostWakeup
<1> QED
  BY <1>1, TypeOKInit, TypeOKStep, WakeInvInit, WakeInvStep, PTL DEF Spec

-----------------------------------------------------------------------------
(* Where the functors are: those that ran, those of the batch being run    *)
(* and those still pending are, in this order, all that were pushed.       *)
OrderInv ==
    /\ queued = (ran \o functors) \o pending
    /\ pcL # "run" => functors = <<>>

(* At first nothing is queued and nothing has run.                          *)
LEMMA OrderInvInit == Init => OrderInv
<1>1. <<>> \o <<>> = <<>>
  BY EmptySeq, ConcatEmptySeq
<1> QED
  BY <1>1 DEF Init, OrderInv

(* Pushing leaves the batch alone and extends both ends of the equation.   *)
LEMMA OrderAfterPush ==
  ASSUME TypeOK, OrderInv, NEW t \in Tasks, Push(t)
  PROVE  queued' = (ran \o functors) \o pending'
<1>1. ran \o functors \in Seq(Tasks) /\ pending \in Seq(Tasks) /\ <<t>> \in Seq(Tasks)
  BY ConcatProperties DEF TypeOK
<1>2. queued' = ((ran \o functors) \o pending) \o <<t>>
  BY AppendIsConcat DEF TypeOK, OrderInv, Push
<1>3. pending' = pending \o <<t>>
  BY AppendIsConcat DEF TypeOK, Push
<1> QED
  BY <1>1, <1>2, <1>3, ConcatAssociative

(* A callback may push one functor, or none.                                *)
LEMMA OrderAfterCallback ==
  ASSUME TypeOK, OrderInv, CallbackBody
  PROVE  queued' = (ran \o functors) \o pending'
<1>1. CASE UNCHANGED <<quit, pending, queued, eventfd>>
  BY <1>1 DEF OrderInv
<1>2. ASSUME NEW t \in Tasks, QueueInLoop(t)
      PROVE  queued' = (ran \o functors) \o pending'
  BY <1>2, OrderAfterPush DEF QueueInLoop
<1>3. CASE QuitInLoop
  BY <1>3 DEF QuitInLoop, OrderInv
<1> QED
  BY <1>1, <1>2, <1>3 DEF CallbackBody

(* Running the head of the batch moves it from one part to the next.       *)
LEMMA RunKeepsConcat ==
  ASSUME TypeOK, functors # <<>>
  PROVE  Append(ran, Head(functors)) \o Tail(functors) = ran \o functors
<1>1. /\ ran \in Seq(Tasks) /\ functors \in Seq(Tasks)
      /\ Head(functors) \in Tasks /\ Tail(functors) \in Seq(Tasks)
  BY HeadTailProperties DEF TypeOK
<1>2. <<Head(functors)>> \o Tail(functors) = functors
  <2> DEFINE h == <<Head(functors)>>
             s == h \o Tail(functors)
  <2>1. h \in Seq(Tasks) /\ Len(h) = 1 /\ h[1] = Head(functors)
    BY <1>1
  <2>2. Len(functors) \in Nat \ {0} /\ Len(Tail(functors)) = Len(functors) - 1
    BY <1>1, EmptySeq, HeadTailProperties
  <2>3. s \in Seq(Tasks) /\ Len(s) = Len(functors)
    BY <1>1, <2>1, <2>2, ConcatProperties
  <2>4. ASSUME NEW i \in 1 .. Len(s) PROVE s[i] = functors[i]
    <3>1. s[i] = IF i <= 1 THEN h[i] ELSE Tail(functors)[i - 1]
      BY <1>1, <2>1, <2>2, <2>3, ConcatProperties
    <3>2. CASE i = 1
      BY <2>1, <3>1, <3>2
    <3>3. CASE i # 1
      <4>1. i - 1 \in 1 .. Len(Tail(functors)) /\ (i - 1) + 1 = i /\ ~(i <= 1)
        BY <2>2, <2>3, <3>3
      <4>2. Tail(functors)[i - 1] = functors[(i - 1) + 1]
        BY <1>1, <4>1, HeadTailProperties
      <4> QED
        BY <3>1, <4>1, <4>2
    <3> QED
      BY <3>2, <3>3
  <2> HIDE DEF s
  <2> QED
    BY <1>1, <2>3, <2>4, SeqEqual
<1>3. Append(ran, Head(functors)) = ran \o <<Head(functors)>>
  BY <1>1, AppendIsConcat
<1>4. <<Head(functors)>> \in Seq(Tasks)
  BY <1>1
<1> QED
  BY <1>1, <1>2, <1>3, <1>4, ConcatAssociative

(* Every step keeps the order: swaps and runs move functors in it.          *)
LEMMA OrderInvStep == TypeOK /\ OrderInv /\ [Next]_vars => OrderInv'
<1> SUFFICES ASSUME TypeOK, OrderInv, [Next]_vars PROVE OrderInv'
  OBVIOUS
<1>1. CASE EnterLoop
  BY <1>1 DEF EnterLoop, OrderInv
<1>2. CASE CheckQuit
  BY <1>2 DEF CheckQuit, OrderInv
<1>3. CASE PollReady
  BY <1>3 DEF PollReady, OrderInv
<1>4. CASE PollTimeout
  BY <1>4 DEF PollTimeout, OrderInv
<1>5. CASE HandleRead
  BY <1>5 DEF HandleRead, OrderInv
<1>6. ASSUME NEW ch \in IOChannels, HandleEvent(ch) PROVE OrderInv'
  BY <1>6, OrderAfterCallback DEF HandleEvent, OrderInv
<1>7. CASE SwapFunctors
  <2>1. functors = <<>> /\ ran \o functors = ran
    BY <1>7, ConcatEmptySeq DEF SwapFunctors, OrderInv, TypeOK
  <2>2. (ran \o pending) \o <<>> = ran \o pending
    BY ConcatProperties, ConcatEmptySeq DEF TypeOK
  <2> QED
    BY <1>7, <2>1, <2>2 DEF SwapFunctors, OrderInv
<1>8. CASE RunFunctor
  <2>1. queued' = (ran \o functors) \o pending'
    BY <1>8, OrderAfterCallback DEF RunFunctor
  <2>2. ran' \o functors' = ran \o functors
    BY <1>8, RunKeepsConcat DEF RunFunctor
  <2> QED
    BY <1>8, <2>1, <2>2 DEF RunFunctor, OrderInv
<1>9. CASE FinishFunctors
  BY <1>9 DEF FinishFunctors, OrderInv
<1>10. ASSUME NEW t \in Tasks, QueueBeforeLoop(t) PROVE OrderInv'
  BY <1>10, OrderAfterPush DEF QueueBeforeLoop, QueueInLoop, OrderInv
<1>11. ASSUME NEW c \in Clients, NEW t \in Tasks, QueueFromClient(c, t) PROVE OrderInv'
  BY <1>11, OrderAfterPush DEF QueueFromClient, OrderInv
<1>12. ASSUME NEW c \in Clients, QuitFromClient(c) PROVE OrderInv'
  BY <1>12 DEF QuitFromClient, OrderInv
<1>13. ASSUME NEW c \in Clients, Wakeup(c) PROVE OrderInv'
  BY <1>13 DEF Wakeup, OrderInv
<1>14. CASE UNCHANGED vars
  BY <1>14 DEF OrderInv
<1> QED
  BY <1>1, <1>2, <1>3, <1>4, <1>5, <1>6, <1>7, <1>8, <1>9, <1>10, <1>11, <1>12,
     <1>13, <1>14 DEF Next, LoopStep, ClientStep

(* The functor at the head of the batch is the oldest that has not run.    *)
LEMMA HeadIsOldest ==
  ASSUME TypeOK, OrderInv, functors # <<>>
  PROVE  Len(ran) < Len(queued) /\ Head(functors) = queued[Len(ran) + 1]
<1>1. /\ ran \in Seq(Tasks) /\ functors \in Seq(Tasks) /\ pending \in Seq(Tasks)
      /\ ran \o functors \in Seq(Tasks)
  BY ConcatProperties DEF TypeOK
<1>2. /\ Len(ran) \in Nat /\ Len(functors) \in Nat \ {0} /\ Len(pending) \in Nat
      /\ Len(ran \o functors) = Len(ran) + Len(functors)
      /\ Len(queued) = Len(ran \o functors) + Len(pending)
  BY <1>1, LenProperties, EmptySeq, ConcatProperties DEF OrderInv
<1>3. queued[Len(ran) + 1] = (ran \o functors)[Len(ran) + 1]
  BY <1>1, <1>2, ConcatProperties DEF OrderInv
<1>4. (ran \o functors)[Len(ran) + 1] = functors[1]
  BY <1>1, <1>2, ConcatProperties
<1> QED
  BY <1>1, <1>2, <1>3, <1>4

(* Every step of the loop is a step of the abstract queue, or none.        *)
LEMMA PushIsSubmit == ASSUME NEW t \in Tasks, Push(t) PROVE Queue!Submit(t)
  BY DEF Push, Fresh, Queue!Submit, Queue!Fresh

(* A callback submits one functor, or none.                                 *)
LEMMA CallbackIsSubmit ==
  ASSUME CallbackBody
  PROVE  UNCHANGED queued \/ \E t \in Tasks : Queue!Submit(t)
  BY PushIsSubmit DEF CallbackBody, QueueInLoop, QuitInLoop

(* Each step maps to submitting, running, both, or to nothing.              *)
LEMMA QueueStep ==
  TypeOK /\ OrderInv /\ [Next]_vars => [Queue!Next]_(Queue!queueVars)
<1> SUFFICES ASSUME TypeOK, OrderInv, [Next]_vars
             PROVE  [Queue!Next]_(Queue!queueVars)
  OBVIOUS
<1> USE DEF Queue!Next, Queue!queueVars
<1>1. CASE EnterLoop \/ CheckQuit \/ PollReady \/ PollTimeout \/ HandleRead
           \/ SwapFunctors \/ FinishFunctors \/ UNCHANGED vars
  BY <1>1 DEF EnterLoop, CheckQuit, PollReady, PollTimeout, HandleRead,
              SwapFunctors, FinishFunctors
<1>2. ASSUME NEW ch \in IOChannels, HandleEvent(ch) PROVE [Queue!Next]_(Queue!queueVars)
  BY <1>2, CallbackIsSubmit DEF HandleEvent
<1>3. CASE RunFunctor
  <2>1. Queue!RunNext
    BY <1>3, HeadIsOldest DEF RunFunctor, Queue!RunNext
  <2> QED
    BY <1>3, <2>1, CallbackIsSubmit DEF RunFunctor
<1>4. ASSUME NEW t \in Tasks, QueueBeforeLoop(t) PROVE [Queue!Next]_(Queue!queueVars)
  BY <1>4, PushIsSubmit DEF QueueBeforeLoop, QueueInLoop
<1>5. ASSUME NEW c \in Clients, ClientStep(c) PROVE [Queue!Next]_(Queue!queueVars)
  <2>1. ASSUME NEW t \in Tasks, QueueFromClient(c, t)
        PROVE  [Queue!Next]_(Queue!queueVars)
    BY <2>1, PushIsSubmit DEF QueueFromClient
  <2>2. CASE QuitFromClient(c) \/ Wakeup(c)
    BY <2>2 DEF QuitFromClient, Wakeup
  <2> QED
    BY <1>5, <2>1, <2>2 DEF ClientStep
<1> QED
  BY <1>1, <1>2, <1>3, <1>4, <1>5 DEF Next, LoopStep

(* The loop implements the functor queue: whatever the threads do, functors *)
(* handed to queueInLoop run once each and in the order they were pushed.   *)
THEOREM ImplementsQueue == Spec => QueueSpec
<1>1. Init => Queue!Init
  BY DEF Init, Queue!Init
<1> QED
  BY <1>1, TypeOKInit, TypeOKStep, OrderInvInit, OrderInvStep, QueueStep, PTL
     DEF Spec, QueueSpec, Queue!Spec

-----------------------------------------------------------------------------
(* The loop inside an EventLoopThread                                       *)

(* Owner, thread and those that were given the loop drive it only through  *)
(* what EventLoop lets its threads do.                                     *)
LEMMA ThreadStepIsLoopStep == [ThreadNext]_allVars => [Next]_vars
<1> SUFFICES ASSUME [ThreadNext]_allVars PROVE [Next]_vars
  OBVIOUS
<1>1. CASE StartThread \/ Publish \/ StartLoopReturns \/ ThreadExit \/ UNCHANGED allVars
  BY <1>1 DEF StartThread, Publish, StartLoopReturns, ThreadExit, allVars
<1>2. ASSUME NEW t \in Tasks, InitCallback(t) PROVE Next
  BY <1>2 DEF InitCallback, Next
<1>3. CASE RunLoop
  BY <1>3 DEF RunLoop, Next
<1>4. ASSUME NEW c \in Clients, UseLoop(c) PROVE Next
  BY <1>4 DEF UseLoop, Next, ClientStep
<1>5. CASE Destructor
  <2>1. CASE DestructorTest \/ Join
    BY <2>1 DEF DestructorTest, Join
  <2>2. CASE DestructorQuit \/ DestructorWakeup
    BY <2>2, OwnerAssumption DEF DestructorQuit, DestructorWakeup, Next, ClientStep
  <2> QED
    BY <1>5, <2>1, <2>2 DEF Destructor
<1> QED
  BY <1>1, <1>2, <1>3, <1>4, <1>5 DEF ThreadNext

(* EventLoopThread is composed of steps of EventLoop, so what is proved of *)
(* the loop can be used of the composition.                                *)
LEMMA ThreadIsLoop == ThreadSpec => Spec
<1>1. ThreadInit => Init
  BY DEF ThreadInit
<1> QED
  BY <1>1, ThreadStepIsLoopStep, PTL DEF ThreadSpec, Spec

(* Every variable of the composition has its type.                         *)
THEOREM ThreadTypeCorrect == ThreadSpec => []ThreadTypeOK
<1>1. ThreadInit => ThreadTypeOK
  BY TypeOKInit DEF ThreadInit, ThreadTypeOK
<1>2. ThreadTypeOK /\ [ThreadNext]_allVars => ThreadTypeOK'
  <2> SUFFICES ASSUME ThreadTypeOK, [ThreadNext]_allVars PROVE ThreadTypeOK'
    OBVIOUS
  <2>1. TypeOK'
    BY ThreadStepIsLoopStep, TypeOKStep DEF ThreadTypeOK
  <2>2. /\ pcT' \in {"none", "init", "published", "exited"}
        /\ pcO' \in {"created", "waiting", "up", "quitting", "waking", "joining", "gone"}
        /\ loop_' \in BOOLEAN
    <3> USE DEF ThreadTypeOK, threadVars
    <3>1. CASE StartThread \/ Publish \/ StartLoopReturns \/ ThreadExit \/ RunLoop
               \/ UNCHANGED allVars
      BY <3>1 DEF StartThread, Publish, StartLoopReturns, ThreadExit, RunLoop, allVars
    <3>2. CASE (\E t \in Tasks : InitCallback(t)) \/ \E c \in Clients : UseLoop(c)
      BY <3>2 DEF InitCallback, UseLoop
    <3>3. CASE Destructor
      BY <3>3 DEF Destructor, DestructorTest, DestructorQuit, DestructorWakeup, Join
    <3> QED
      BY <3>1, <3>2, <3>3 DEF ThreadNext
  <2> QED
    BY <2>1, <2>2 DEF ThreadTypeOK
<1> QED
  BY <1>1, <1>2, PTL DEF ThreadSpec

(* So no wake-up is lost inside an EventLoopThread either, and the functors *)
(* of its users run once each, in the order they were pushed.              *)
THEOREM ThreadLosesNothing == ThreadSpec => []NoLostWakeup /\ QueueSpec
  BY ThreadIsLoop, NoLostWakeupHolds, ImplementsQueue
=============================================================================
