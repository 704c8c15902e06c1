-------------------------------- MODULE Judger --------------------------------
(***************************************************************************)
(* The judging of one submission, Judger::Run() of oj/src/Judger.cpp:       *)
(* prepare, compile, run every test with JudgeProgram and make one verdict  *)
(* of what the tests gave.  Judger calls runJudge() in its own thread.      *)
(***************************************************************************)
EXTENDS JudgeProgram, FiniteSetsExt

VARIABLES
    phase,      \* what Run() does next
    result,     \* m_result
    runtime,    \* m_runtime
    verdicts,   \* per test: the Status in TestInfo
    ended,      \* history, per test: the condition it was judged by
    setup       \* history: the result before the first test

judgerVars == <<phase, result, runtime, verdicts, ended, setup>>
vars == <<programVars, judgerVars>>

Verdicts == {"PJ", "CE", "AC", "WA", "RE", "TLE", "MLE", "SE"}

TypeOK ==
    /\ ProgramTypeOK
    /\ phase \in {"init", "compile", "tests", "done"}
    /\ result \in Verdicts /\ setup \in Verdicts
    /\ runtime \in Nat
    /\ verdicts \in [Tests -> Verdicts \cup {"null"}]
    /\ ended \in [Tests -> Conditions \cup {"none"}]

Init ==
    /\ ProgramInit
    /\ phase = "init" /\ result = "PJ" /\ setup = "PJ" /\ runtime = 0
    /\ verdicts = [i \in Tests |-> "null"]
    /\ ended = [i \in Tests |-> "none"]

-----------------------------------------------------------------------------
\* Done(): what is still pending is accepted.
Final(r) == IF r = "PJ" THEN "AC" ELSE r

Finish(r) ==
    /\ phase' = "done" /\ result' = Final(r)
    /\ UNCHANGED <<runtime, verdicts, ended, programVars>>

\* Init(): no directory, no source file or an unknown language.
InitFails == phase = "init" /\ setup' = "SE" /\ Finish("SE")

\* Init() for C and C++.  When CompileSPJ() fails it sets SE, and its result
\* is not looked at.
Prepare ==
    /\ phase = "init"
    /\ phase' = "compile"
    /\ result' \in {"PJ", "SE"}
    /\ UNCHANGED <<runtime, verdicts, ended, setup, programVars>>

\* A language whose branch of Run() is commented out: nothing is compiled or run.
SkipLanguage == phase = "init" /\ \E r \in {"PJ", "SE"} : setup' = Final(r) /\ Finish(r)

\* CompileC, CompileCpp: no shell (SE), or no executable afterwards (CE).
CompileFails == phase = "compile" /\ \E r \in {"SE", "CE"} : setup' = r /\ Finish(r)

Compile ==
    /\ phase = "compile"
    /\ phase' = "tests"
    /\ setup' = Final(result)
    /\ UNCHANGED <<result, runtime, verdicts, ended, programVars>>

\* The loop of RunProgram().
NextTest ==
    /\ phase = "tests" /\ test < JudgeNum
    /\ Fork(test + 1) \/ ForkFails(test + 1)
    /\ UNCHANGED judgerVars

\* The conditions besides RUN_SUCCESS that JudgmentResult() knows.
Failed ==
    [TIME_LIMIT_EXCEED |-> "TLE", MEMORY_LIMIT_EXCEED |-> "MLE",
     RUNTIME_ERROR |-> "RE", SEGMENTATION_FAULT |-> "SE"]

\* Status of a test; same: the checker, or the comparison of the outputs, agrees.
TestStatus(c, k, same) ==
    IF c = "RUN_SUCCESS"
    THEN IF k.cpu > TimeLimit THEN "TLE"
         ELSE IF k.memory > MemoryBytes THEN "MLE"
         ELSE IF same THEN "AC" ELSE "WA"
    ELSE IF c \in DOMAIN Failed THEN Failed[c] ELSE "null"

\* Mutant: a test that passes makes the submission accepted again.
JudgmentOverwrites ==
    /\ phase = "tests" /\ call = "returned"
    /\ call' = "idle"
    /\ runtime' = Max({runtime, cost.cpu})
    /\ \E same \in BOOLEAN :
         LET v == TestStatus(condition, cost, same) IN
         /\ verdicts' = [verdicts EXCEPT ![test] = v]
         /\ result' = IF v = "null" THEN result ELSE v
    /\ ended' = [ended EXCEPT ![test] = condition]
    /\ UNCHANGED <<phase, setup, test, processes, threads, clocks, judgeResult, stops>>

\* JudgmentResult(): a test that passes leaves m_result as it is.
JudgmentResult ==
    /\ phase = "tests" /\ call = "returned"
    /\ call' = "idle"
    /\ runtime' = Max({runtime, cost.cpu})
    /\ \E same \in BOOLEAN :
         LET v == TestStatus(condition, cost, same) IN
         /\ verdicts' = [verdicts EXCEPT ![test] = v]
         /\ result' = IF v \in {"AC", "null"} THEN result ELSE v
    /\ ended' = [ended EXCEPT ![test] = condition]
    /\ UNCHANGED <<phase, setup, test, processes, threads, clocks, judgeResult, stops>>

AllTestsDone ==
    /\ phase = "tests" /\ call = "idle" /\ test = JudgeNum
    /\ UNCHANGED setup
    /\ Finish(result)

Run ==
    \/ InitFails \/ Prepare \/ SkipLanguage
    \/ CompileFails \/ Compile
    \/ NextTest \/ JudgmentResult \/ AllTestsDone

Next == Run \/ (ProgramNext /\ UNCHANGED judgerVars)

Spec == Init /\ [][Next]_vars

\* The judge's threads and the clock go on.  The submitted program need not.
FairSpec ==
    /\ Spec
    /\ WF_vars(Run)
    /\ WF_vars(Parent /\ UNCHANGED judgerVars)
    /\ WF_vars(Tick /\ UNCHANGED judgerVars)
    /\ WF_vars((\E i \in Tests : Monitor(i)) /\ UNCHANGED judgerVars)

-----------------------------------------------------------------------------
(* Properties                                                               *)

Failures == {i \in Tests : verdicts[i] \notin {"AC", "null"}}

\* The verdict of a submission is that of its last test with a failure that
\* JudgmentResult knows (Judger.cpp:728), whatever order passes, failures and
\* unknown conditions come in; without one it is what preparation and
\* compilation left, accepted if that is pending.
LastFailureDecides ==
    phase = "done" =>
        result = IF Failures = {} THEN setup ELSE verdicts[Max(Failures)]

\* When a test has been judged its child is gone: reaped, unless it was never
\* made, its monitor could not be created, or it stopped itself, for which
\* wait4(WSTOPPED) returns and after which nobody waits again.
NoStrayChild ==
    \A i \in Tests :
        ended[i] \notin {"none", "FORK_ERROR", "CREATE_THREAD_ERROR"} =>
            child[i] = "reaped" \/ i \in stops

\* Every submission gets a verdict, even if a program never ends: the monitor
\* thread ends it (judge.c:26).
Judged == phase = "init" ~> phase = "done"

\* A submission is accepted only if all its programs ran to a successful end:
\* of the conditions only RUN_SUCCESS means that a program passed
\* (oj/judge/common/common.h:9).
AcceptedMeansPassed ==
    phase = "done" /\ result = "AC" => \A i \in Tests : ended[i] \in {"none", "RUN_SUCCESS"}
=============================================================================
