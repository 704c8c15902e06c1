---------------------------- MODULE FunctorQueue ----------------------------
(***************************************************************************)
(* What EventLoop::queueInLoop promises its callers, without threads, locks *)
(* or wake-ups: functors submitted to a loop are run one at a time, each    *)
(* once, in the order they were submitted.  A functor may submit another    *)
(* one while it runs.                                                       *)
(***************************************************************************)
EXTENDS Naturals, Sequences

CONSTANT Tasks   \* the functors that may be submitted, each at most once

VARIABLES
    submitted,   \* the functors in the order they were submitted
    ran          \* the functors in the order they were run

queueVars == <<submitted, ran>>

Fresh == {t \in Tasks : \A i \in DOMAIN submitted : submitted[i] # t}

Init ==
    /\ submitted = <<>>
    /\ ran = <<>>

Submit(t) ==
    /\ t \in Fresh
    /\ submitted' = Append(submitted, t)

\* The next functor is the oldest one that has not run.
RunNext ==
    /\ Len(ran) < Len(submitted)
    /\ ran' = Append(ran, submitted[Len(ran) + 1])

Next ==
    \/ \E t \in Tasks : Submit(t) /\ UNCHANGED ran
    \/ RunNext /\ UNCHANGED submitted
    \/ RunNext /\ \E t \in Tasks : Submit(t)

Spec == Init /\ [][Next]_queueVars
=============================================================================
