----------------------------- MODULE JudgerProofs -----------------------------
(***************************************************************************)
(* For every number of tests and every limit: the types of Judger with      *)
(* JudgeProgram, with what keeps clocks and processor time in their ranges, *)
(* that no child is left behind, and that the last failure decides.         *)
(***************************************************************************)
EXTENDS Judger, TLAPS

USE DEF vars, programVars, processes, threads, clocks, judgeResult, judgerVars

-----------------------------------------------------------------------------
(* The limits and the helpers.                                              *)

(* The limits are natural numbers, RLIMIT_CPU is not 0.                     *)
LEMMA Limits ==
  /\ JudgeNum \in Nat /\ Delay \in Nat /\ TimeLimit \in Nat
  /\ SleepTime \in Nat /\ CpuRlimit \in Nat \ {0} /\ MemoryCosts \subseteq Nat
<1>1. /\ JudgeNum \in Nat /\ Second \in Nat \ {0} /\ Delay \in Nat
      /\ TimeLimit \in Nat /\ MemoryCosts \subseteq Nat
  BY JudgeAssumption
<1>2. TimeLimit \div Second \in Nat
  BY <1>1
<1>3. (2 * TimeLimit) \div Second \in Nat
  BY <1>1
<1>4. \A a \in Nat, b \in Nat \ {0} : a * b \in Nat /\ (a + 1) * b \in Nat \ {0}
  BY Z3
<1> QED
  BY <1>1, <1>2, <1>3, <1>4 DEF SleepTime, CpuRlimit, RealTimeLimit

(* The element that is not less than any is the maximum.                    *)
LEMMA MaxIs ==
  ASSUME NEW S \in SUBSET Int, NEW m \in S, \A n \in S : m >= n
  PROVE  Max(S) = m
<1>1. Max(S) \in S /\ \A n \in S : Max(S) >= n
  BY DEF Max
<1>2. Max(S) >= m /\ m >= Max(S) /\ Max(S) \in Int /\ m \in Int
  BY <1>1
<1> QED
  BY <1>2

(* The maximum of two numbers is one of them.                               *)
LEMMA MaxOfTwo ==
  ASSUME NEW a \in Nat, NEW b \in Nat
  PROVE  Max({a, b}) \in Nat
<1>1. CASE a >= b
  BY <1>1, MaxIs
<1>2. CASE b >= a
  BY <1>2, MaxIs
<1> QED
  BY <1>1, <1>2

(* However a child has ended, its condition is one of the conditions.       *)
LEMMA ConditionType ==
  ASSUME NEW s, NEW c \in [cpu : Nat, memory : Nat], NEW real \in Nat
  PROVE  RunningCondition(s, c, real) \in Conditions
<1>1. \A k \in DOMAIN SignalCondition : SignalCondition[k] \in Conditions
  BY DEF SignalCondition, Conditions
<1>2. {"MEMORY_LIMIT_EXCEED", "TIME_LIMIT_EXCEED", "RUN_SUCCESS", "RUNTIME_ERROR",
       "UNKNOWN_ERROR"} \subseteq Conditions
  BY DEF Conditions
<1> QED
  BY <1>1, <1>2 DEF RunningCondition

(* The status of a test is not pending.                                     *)
LEMMA StatusType ==
  ASSUME NEW c, NEW k \in [cpu : Nat, memory : Nat], NEW same \in BOOLEAN
  PROVE  TestStatus(c, k, same) \in (Verdicts \ {"PJ"}) \cup {"null"}
<1>1. \A d \in DOMAIN Failed : Failed[d] \in Verdicts \ {"PJ"}
  BY DEF Failed, Verdicts
<1>2. {"TLE", "MLE", "AC", "WA"} \subseteq Verdicts \ {"PJ"}
  BY DEF Verdicts
<1> QED
  BY <1>1, <1>2 DEF TestStatus

(* A verdict stays a verdict at the end.                                    *)
LEMMA FinalType == \A r \in Verdicts : Final(r) \in Verdicts \ {"PJ"}
  BY DEF Final, Verdicts

-----------------------------------------------------------------------------
(* The inductive invariant.                                                 *)

Running == call \in {"forked", "waiting", "waited"}

(* The clocks are in their ranges because they start at 0 for every child,  *)
(* because the monitor goes to sleep within Delay, and because a child that *)
(* could still compute has not reached its limit.                           *)
Clocks ==
    /\ call # "idle" => test \in Tests
    /\ ~Running => wall = 0 /\ utime = 0 /\ stime = 0
    /\ call = "forked" => wall <= Delay
    /\ Running /\ child[test] \in {"setup", "running"} => utime + stime < CpuRlimit
    /\ \A i \in Tests : monitor[i] = "created" /\ i \notin cancelled =>
          i = test /\ call \in {"waiting", "waited"} /\ wall <= Delay

NeverRan == {"FORK_ERROR", "CREATE_THREAD_ERROR"}

(* What is judged lies behind the test that runJudge() is at, and its child *)
(* was reaped before it was judged.                                         *)
Children ==
    /\ \A i \in Tests : child[i] = "stopped" => i \in stops
    /\ call = "waited" \/ (call = "returned" /\ condition \notin NeverRan) =>
          child[test] = "reaped" \/ test \in stops
    /\ \A i \in Tests : ended[i] # "none" \/ verdicts[i] # "null" =>
          i < test \/ (i = test /\ call = "idle")
    /\ NoStrayChild

(* i is the last of the tests that failed.                                  *)
Last(i) == i \in Failures /\ \A j \in Failures : i >= j

(* The result while the tests go on and when they are done.                 *)
Verdict ==
    /\ \A i \in Tests : verdicts[i] # "PJ"
    /\ phase \in {"init", "compile"} => Failures = {}
    /\ phase = "tests" =>
          \/ Failures = {} /\ setup = Final(result)
          \/ \E i \in Tests : Last(i) /\ result = verdicts[i]
    /\ LastFailureDecides

IInv == TypeOK /\ Clocks /\ Children /\ Verdict

(* All waits of the judge's threads fit into MaxWall.                       *)
LEMMA MaxWallType ==
  /\ MaxWall \in Nat /\ Delay \in 0 .. MaxWall
  /\ \A w \in 0 .. Delay : w + SleepTime \in 0 .. MaxWall
  BY Limits DEF MaxWall

-----------------------------------------------------------------------------
(* Initially.                                                               *)

(* The inductive invariant holds initially.                                 *)
LEMMA InvInit == Init => IInv
<1> SUFFICES ASSUME Init PROVE IInv
  OBVIOUS
<1>1. TypeOK
  <2>1. 0 \in 0 .. MaxWall /\ 0 \in 0 .. JudgeNum
    BY Limits DEF MaxWall
  <2> QED
    BY <2>1, Limits DEF Init, ProgramInit, TypeOK, ProgramTypeOK, Conditions, Verdicts
<1>2. Clocks
  BY DEF Init, ProgramInit, Clocks, Running
<1>3. Children
  BY DEF Init, ProgramInit, Children, NoStrayChild
<1>4. Verdict
  <2>1. Failures = {}
    BY DEF Init, Failures
  <2> QED
    BY <2>1 DEF Init, Verdict, LastFailureDecides
<1> QED
  BY <1>1, <1>2, <1>3, <1>4 DEF IInv

-----------------------------------------------------------------------------
(* The steps of JudgeProgram.  They leave the verdict alone.                *)

(* A step of runJudge() after fork().                                       *)
LEMMA ParentStep ==
  ASSUME TypeOK, Clocks, Children, UNCHANGED judgerVars, Parent
  PROVE  TypeOK' /\ Clocks' /\ Children'
<1>1. CASE CreateMonitor
  <2>1. TypeOK'
    BY <1>1 DEF CreateMonitor, TypeOK, ProgramTypeOK
  <2>2. Clocks'
    BY <1>1, Limits DEF CreateMonitor, TypeOK, ProgramTypeOK, Clocks, Running
  <2>3. Children'
    BY <1>1 DEF CreateMonitor, TypeOK, ProgramTypeOK, Clocks, Children, NeverRan, NoStrayChild
  <2> QED
    BY <2>1, <2>2, <2>3
<1>2. CASE CreateMonitorFails
  <2>1. TypeOK'
    BY <1>2, Limits, MaxWallType DEF CreateMonitorFails, KeepCosts, TypeOK, ProgramTypeOK,
       Conditions, Clocks
  <2>2. Clocks'
    BY <1>2, Limits DEF CreateMonitorFails, KeepCosts, TypeOK, ProgramTypeOK, Clocks, Running
  <2>3. Children'
    BY <1>2 DEF CreateMonitorFails, KeepCosts, TypeOK, ProgramTypeOK, Clocks, Children,
       NeverRan, NoStrayChild
  <2> QED
    BY <2>1, <2>2, <2>3
<1>3. CASE Wait
  <2>1. TypeOK'
    BY <1>3 DEF Wait, TypeOK, ProgramTypeOK
  <2>2. Clocks'
    BY <1>3, Limits DEF Wait, TypeOK, ProgramTypeOK, Clocks, Running
  <2>3. Children'
    BY <1>3 DEF Wait, TypeOK, ProgramTypeOK, Clocks, Children, NeverRan, NoStrayChild
  <2> QED
    BY <2>1, <2>2, <2>3
<1>4. CASE Classify
  <2>1. TypeOK'
    BY <1>4, Limits, ConditionType, MaxWallType DEF Classify, TypeOK, ProgramTypeOK, Clocks
  <2>2. Clocks'
    BY <1>4, Limits DEF Classify, TypeOK, ProgramTypeOK, Clocks, Running
  <2>3. Children'
    BY <1>4 DEF Classify, TypeOK, ProgramTypeOK, Clocks, Children, NeverRan, NoStrayChild
  <2> QED
    BY <2>1, <2>2, <2>3
<1> QED
  BY <1>1, <1>2, <1>3, <1>4 DEF Parent

(* A step of a monitor thread.                                              *)
LEMMA MonitorStep ==
  ASSUME TypeOK, Clocks, Children, UNCHANGED judgerVars, NEW i \in Tests, Monitor(i)
  PROVE  TypeOK' /\ Clocks' /\ Children'
<1>1. CASE MonitorSleeps(i)
  <2>1. TypeOK'
    BY <1>1, Limits, MaxWallType DEF MonitorSleeps, TypeOK, ProgramTypeOK, Clocks, Running
  <2>2. Clocks'
    BY <1>1, Limits DEF MonitorSleeps, TypeOK, ProgramTypeOK, Clocks, Running
  <2>3. Children'
    BY <1>1 DEF MonitorSleeps, TypeOK, ProgramTypeOK, Clocks, Children, NeverRan, NoStrayChild
  <2> QED
    BY <2>1, <2>2, <2>3
<1>2. CASE MonitorWakes(i)
  <2>1. TypeOK'
    BY <1>2 DEF MonitorWakes, TypeOK, ProgramTypeOK
  <2>2. Clocks'
    BY <1>2, Limits DEF MonitorWakes, TypeOK, ProgramTypeOK, Clocks, Running
  <2>3. Children'
    BY <1>2 DEF MonitorWakes, TypeOK, ProgramTypeOK, Clocks, Children, NeverRan, NoStrayChild
  <2> QED
    BY <2>1, <2>2, <2>3
<1>3. CASE MonitorKills(i)
  <2>1. TypeOK'
    BY <1>3 DEF MonitorKills, TypeOK, ProgramTypeOK
  <2>2. Clocks'
    BY <1>3, Limits DEF MonitorKills, TypeOK, ProgramTypeOK, Clocks, Running
  <2>3. Children'
    BY <1>3 DEF MonitorKills, TypeOK, ProgramTypeOK, Clocks, Children, NeverRan, NoStrayChild
  <2> QED
    BY <2>1, <2>2, <2>3
<1> QED
  BY <1>1, <1>2, <1>3 DEF Monitor

(* A step of a child.                                                       *)
LEMMA ChildStep ==
  ASSUME TypeOK, Clocks, Children, UNCHANGED judgerVars, NEW i \in Tests,
         ChildSetup(i) \/ ProgramEnds(i) \/ ProgramStops(i)
  PROVE  TypeOK' /\ Clocks' /\ Children'
<1>1. CASE ChildSetup(i)
  <2>4. ASSUME child' = [child EXCEPT ![i] = "running"] /\ UNCHANGED status PROVE TypeOK'
    BY <1>1, <2>4 DEF ChildSetup, TypeOK, ProgramTypeOK
  <2>5. ASSUME \E how \in {"exit 0", "exit n"} : Ends(i, how) PROVE TypeOK'
    <3>1. PICK how \in Endings : Ends(i, how)
      BY <2>5 DEF Endings
    <3> QED
      BY <1>1, <3>1 DEF ChildSetup, Ends, TypeOK, ProgramTypeOK
  <2>1. TypeOK'
    BY <1>1, <2>4, <2>5 DEF ChildSetup
  <2>2. Clocks'
    BY <1>1, Limits DEF ChildSetup, Ends, TypeOK, ProgramTypeOK, Clocks, Running
  <2>3. Children'
    BY <1>1 DEF ChildSetup, Ends, TypeOK, ProgramTypeOK, Clocks, Children, NeverRan,
       NoStrayChild
  <2> QED
    BY <2>1, <2>2, <2>3
<1>2. CASE ProgramEnds(i)
  <2>1. TypeOK'
    BY <1>2 DEF ProgramEnds, Ends, TypeOK, ProgramTypeOK
  <2>2. Clocks'
    BY <1>2, Limits DEF ProgramEnds, Ends, TypeOK, ProgramTypeOK, Clocks, Running
  <2>3. Children'
    BY <1>2 DEF ProgramEnds, Ends, TypeOK, ProgramTypeOK, Clocks, Children, NeverRan,
       NoStrayChild
  <2> QED
    BY <2>1, <2>2, <2>3
<1>3. CASE ProgramStops(i)
  <2>1. TypeOK'
    BY <1>3 DEF ProgramStops, TypeOK, ProgramTypeOK
  <2>2. Clocks'
    BY <1>3, Limits DEF ProgramStops, TypeOK, ProgramTypeOK, Clocks, Running
  <2>3. Children'
    BY <1>3 DEF ProgramStops, TypeOK, ProgramTypeOK, Clocks, Children, NeverRan, NoStrayChild
  <2> QED
    BY <2>1, <2>2, <2>3
<1> QED
  BY <1>1, <1>2, <1>3

(* Time passes.                                                             *)
LEMMA TickStep ==
  ASSUME TypeOK, Clocks, Children, UNCHANGED judgerVars, Tick
  PROVE  TypeOK' /\ Clocks' /\ Children'
<1>1. CASE IdleTick
  <2>1. TypeOK'
    BY <1>1, MaxWallType DEF IdleTick, Passes, TypeOK, ProgramTypeOK, Clocks, Running
  <2>2. Clocks'
    BY <1>1, Limits DEF IdleTick, Passes, TypeOK, ProgramTypeOK, Clocks, Running
  <2>3. Children'
    BY <1>1 DEF IdleTick, Passes, TypeOK, ProgramTypeOK, Clocks, Children, NeverRan,
       NoStrayChild
  <2> QED
    BY <2>1, <2>2, <2>3
<1>2. CASE BusyTick
  <2>1. TypeOK'
    BY <1>2, Limits, MaxWallType DEF BusyTick, Passes, Ends, TypeOK, ProgramTypeOK, Clocks,
       Running
  <2>2. Clocks'
    BY <1>2, Limits DEF BusyTick, Passes, Ends, TypeOK, ProgramTypeOK, Clocks, Running
  <2>3. Children'
    BY <1>2 DEF BusyTick, Passes, Ends, TypeOK, ProgramTypeOK, Clocks, Children, NeverRan,
       NoStrayChild
  <2> QED
    BY <2>1, <2>2, <2>3
<1> QED
  BY <1>1, <1>2 DEF Tick

(* The judger's part of the invariant is a matter of its own variables.      *)
LEMMA VerdictKept ==
  ASSUME Verdict, UNCHANGED <<phase, result, verdicts, setup>>
  PROVE  Verdict'
  BY DEF Verdict, LastFailureDecides, Failures, Last

(* Every step of the program keeps the invariant.                           *)
LEMMA ProgramStep ==
  ASSUME IInv, ProgramNext, UNCHANGED judgerVars
  PROVE  IInv'
<1>1. TypeOK' /\ Clocks' /\ Children'
  BY ParentStep, MonitorStep, ChildStep, TickStep DEF IInv, ProgramNext
<1>2. Verdict'
  BY VerdictKept DEF IInv
<1> QED
  BY <1>1, <1>2 DEF IInv

-----------------------------------------------------------------------------
(* The steps of Judger.                                                     *)

(* Preparation, compilation and the end leave the program alone.            *)
LEMMA ProgramKept ==
  ASSUME IInv, UNCHANGED <<programVars, verdicts, ended>>
  PROVE  ProgramTypeOK' /\ Clocks' /\ Children'
<1>1. ProgramTypeOK'
  BY DEF IInv, TypeOK, ProgramTypeOK
<1>2. Clocks'
  BY DEF IInv, Clocks, Running
<1>3. Children'
  BY DEF IInv, Children, NoStrayChild
<1> QED
  BY <1>1, <1>2, <1>3

(* The last failure is the greatest.                                        *)
LEMMA LastIsMax ==
  ASSUME NEW i \in Tests, Last(i)
  PROVE  Failures # {} /\ Max(Failures) = i
<1>1. Failures \in SUBSET Int /\ i \in Failures /\ \A j \in Failures : i >= j
  BY Limits DEF Failures, Last, Tests
<1> QED
  BY <1>1, MaxIs

(* A submission that ends before its tests.                                 *)
LEMMA EarlyEnd ==
  ASSUME IInv, phase \in {"init", "compile"}, NEW r \in Verdicts, Finish(r), setup' = Final(r)
  PROVE  IInv'
<1>1. ProgramTypeOK' /\ Clocks' /\ Children'
  BY ProgramKept DEF Finish
<1>2. TypeOK'
  BY <1>1, FinalType DEF Finish, IInv, TypeOK
<1>3. Verdict'
  <2>1. Failures' = {} /\ phase' = "done" /\ result' = setup'
    BY DEF Finish, IInv, Verdict, Failures
  <2> QED
    BY <2>1 DEF Finish, IInv, Verdict, LastFailureDecides
<1> QED
  BY <1>1, <1>2, <1>3 DEF IInv

(* Nothing has failed before the tests; their start fixes setup.            *)
LEMMA PrepareStep ==
  ASSUME IInv, Prepare \/ Compile
  PROVE  IInv'
<1>1. ProgramTypeOK' /\ Clocks' /\ Children'
  BY ProgramKept DEF Prepare, Compile
<1>2. TypeOK'
  BY <1>1, FinalType DEF Prepare, Compile, IInv, TypeOK, Verdicts
<1>3. Failures = {} /\ Failures' = {} /\ verdicts' = verdicts
  BY DEF Prepare, Compile, IInv, Verdict, Failures
<1>4. Verdict'
  BY <1>3 DEF Prepare, Compile, IInv, Verdict, LastFailureDecides, Final
<1> QED
  BY <1>1, <1>2, <1>4 DEF IInv

(* fork() for the next test, whose number no test before it has.            *)
LEMMA NextTestStep ==
  ASSUME IInv, NextTest
  PROVE  IInv'
<1>1. test + 1 \in Tests /\ test + 1 \in 0 .. JudgeNum /\ test \in Nat /\ Tests \subseteq Nat
  BY Limits DEF NextTest, IInv, TypeOK, ProgramTypeOK, Tests
<1>2. Verdict'
  BY VerdictKept DEF NextTest, IInv
<1>3. CASE Fork(test + 1)
  <2>1. TypeOK'
    BY <1>1, <1>3 DEF Fork, NextTest, IInv, TypeOK, ProgramTypeOK
  <2>2. Clocks'
    BY <1>1, <1>3, Limits DEF Fork, NextTest, IInv, TypeOK, ProgramTypeOK, Clocks, Running
  <2>3. \A i \in Tests : ended[i] # "none" \/ verdicts[i] # "null" => i < test + 1
    BY <1>1, <1>3 DEF Fork, IInv, Children
  <2>4. Children'
    BY <1>1, <1>3, <2>3 DEF Fork, NextTest, IInv, TypeOK, ProgramTypeOK, Children, NoStrayChild
  <2> QED
    BY <1>2, <2>1, <2>2, <2>4 DEF IInv
<1>4. CASE ForkFails(test + 1)
  <2>1. TypeOK'
    BY <1>1, <1>4, Limits DEF ForkFails, KeepCosts, NextTest, IInv, TypeOK, ProgramTypeOK,
       Conditions
  <2>2. Clocks'
    BY <1>1, <1>4 DEF ForkFails, NextTest, IInv, Clocks, Running
  <2>3. \A i \in Tests : ended[i] # "none" \/ verdicts[i] # "null" => i < test + 1
    BY <1>1, <1>4 DEF ForkFails, IInv, Children
  <2>4. Children'
    BY <1>1, <1>4, <2>3 DEF ForkFails, NextTest, IInv, Children, NeverRan, NoStrayChild
  <2> QED
    BY <1>2, <2>1, <2>2, <2>4 DEF IInv
<1> QED
  BY <1>3, <1>4 DEF NextTest

(* The test that is judged has no verdict yet and is behind all that have:  *)
(* it becomes the last failure, or nothing changes.                         *)
LEMMA JudgmentStep ==
  ASSUME IInv, JudgmentResult
  PROVE  IInv'
<1>1. PICK same \in BOOLEAN :
        LET v == TestStatus(condition, cost, same) IN
          /\ verdicts' = [verdicts EXCEPT ![test] = v]
          /\ result' = IF v \in {"AC", "null"} THEN result ELSE v
  BY DEF JudgmentResult
<1> DEFINE v == TestStatus(condition, cost, same)
<1>2. v \in (Verdicts \ {"PJ"}) \cup {"null"}
  BY StatusType DEF IInv, TypeOK, ProgramTypeOK
<1>3. /\ verdicts' = [verdicts EXCEPT ![test] = v]
      /\ result' = IF v \in {"AC", "null"} THEN result ELSE v
  BY <1>1
<1>4. test \in Tests /\ Tests \subseteq Nat
  BY Limits DEF JudgmentResult, IInv, Clocks, Tests
<1> HIDE DEF v
<1>5. \A i \in Tests : ended[i] # "none" \/ verdicts[i] # "null" => i < test
  BY <1>4 DEF JudgmentResult, IInv, Children
<1>6. TypeOK'
  <2>1. runtime' \in Nat
    BY MaxOfTwo DEF JudgmentResult, IInv, TypeOK, ProgramTypeOK
  <2>2. ProgramTypeOK'
    BY DEF JudgmentResult, IInv, TypeOK, ProgramTypeOK
  <2>3. verdicts' \in [Tests -> Verdicts \cup {"null"}] /\ result' \in Verdicts
    BY <1>2, <1>3 DEF IInv, TypeOK
  <2>4. ended' \in [Tests -> Conditions \cup {"none"}]
    BY DEF JudgmentResult, IInv, TypeOK, ProgramTypeOK
  <2> QED
    BY <2>1, <2>2, <2>3, <2>4 DEF JudgmentResult, IInv, TypeOK
<1>7. Clocks'
  BY DEF JudgmentResult, IInv, Clocks, Running
<1>8. Children'
  <2>1. \A i \in Tests : ended'[i] # "none" \/ verdicts'[i] # "null" => i < test \/ i = test
    BY <1>3, <1>4, <1>5 DEF JudgmentResult, IInv, TypeOK
  <2>2. NoStrayChild'
    BY <1>4 DEF JudgmentResult, IInv, TypeOK, ProgramTypeOK, Children, NeverRan, NoStrayChild
  <2> QED
    BY <2>1, <2>2 DEF JudgmentResult, IInv, Children
<1>9. Verdict'
  <2>1. phase = "tests" /\ phase' = "tests" /\ setup' = setup
    BY DEF JudgmentResult
  <2>2. \A i \in Tests : verdicts'[i] # "PJ"
    BY <1>2, <1>3 DEF IInv, TypeOK, Verdict
  <2>3. CASE v \in {"AC", "null"}
    <3>1. Failures' = Failures /\ result' = result /\ test \notin Failures
      BY <1>3, <1>4, <1>5, <2>3 DEF IInv, TypeOK, Failures
    <3>2. \A i \in Tests : Last(i) => Last(i)' /\ verdicts'[i] = verdicts[i]
      BY <1>3, <3>1 DEF IInv, TypeOK, Last
    <3>3. (phase' = "tests") =>
            \/ Failures' = {} /\ setup' = Final(result')
            \/ \E i \in Tests : Last(i)' /\ result' = verdicts'[i]
      BY <2>1, <3>1, <3>2 DEF IInv, Verdict, Final
    <3> QED
      BY <2>1, <2>2, <3>3 DEF Verdict, LastFailureDecides, Final
  <2>4. CASE v \notin {"AC", "null"}
    <3>1. Failures' = Failures \cup {test}
      BY <1>3, <1>4, <2>4 DEF IInv, TypeOK, Failures
    <3>2. \A j \in Failures : j < test
      BY <1>5 DEF Failures
    <3>3. ASSUME NEW i \in Tests, i = test
          PROVE  Last(i)' /\ result' = verdicts'[i]
      BY <1>3, <1>4, <2>4, <3>1, <3>2, <3>3 DEF IInv, TypeOK, Last, Failures
    <3>4. \E i \in Tests : Last(i)' /\ result' = verdicts'[i]
      BY <1>4, <3>3
    <3> QED
      BY <2>1, <2>2, <3>4 DEF Verdict, LastFailureDecides
  <2> QED
    BY <2>3, <2>4
<1> QED
  BY <1>6, <1>7, <1>8, <1>9 DEF IInv

(* With all tests judged the result is final.                               *)
LEMMA EndStep ==
  ASSUME IInv, AllTestsDone
  PROVE  IInv'
<1>1. ProgramTypeOK' /\ Clocks' /\ Children'
  BY ProgramKept DEF AllTestsDone, Finish
<1>2. TypeOK'
  BY <1>1, FinalType DEF AllTestsDone, Finish, IInv, TypeOK
<1>3. Verdict'
  <2>1. /\ phase' = "done" /\ result' = Final(result)
        /\ Failures' = Failures /\ verdicts' = verdicts /\ setup' = setup
    BY DEF AllTestsDone, Finish, Failures
  <2>2. CASE Failures = {} /\ setup = Final(result)
    BY <2>1, <2>2 DEF IInv, Verdict, LastFailureDecides
  <2>3. ASSUME NEW i \in Tests, Last(i), result = verdicts[i] PROVE Verdict'
    <3>1. Failures # {} /\ Max(Failures) = i
      BY <2>3, LastIsMax
    <3>2. result' = verdicts[i]
      BY <2>1, <2>3 DEF IInv, Verdict, Final
    <3> QED
      BY <2>1, <3>1, <3>2 DEF IInv, Verdict, LastFailureDecides
  <2> QED
    BY <2>2, <2>3 DEF AllTestsDone, IInv, Verdict
<1> QED
  BY <1>1, <1>2, <1>3 DEF IInv

-----------------------------------------------------------------------------
(* The theorems.                                                            *)

(* Every step of the specification keeps the invariant.                     *)
LEMMA Inductive == Spec => []IInv
<1>1. IInv /\ [Next]_vars => IInv'
  <2> SUFFICES ASSUME IInv, [Next]_vars PROVE IInv'
    OBVIOUS
  <2>1. CASE UNCHANGED vars
    <3>1. ProgramTypeOK' /\ Clocks' /\ Children'
      BY <2>1, ProgramKept
    <3>2. Verdict'
      BY <2>1, VerdictKept DEF IInv
    <3> QED
      BY <2>1, <3>1, <3>2 DEF IInv, TypeOK
  <2>2. CASE Run
    <3>1. CASE InitFails \/ SkipLanguage \/ CompileFails
      <4>1. PICK r \in Verdicts : Finish(r) /\ setup' = Final(r)
        BY <3>1 DEF InitFails, SkipLanguage, CompileFails, Verdicts, Final
      <4> QED
        BY <3>1, <4>1, EarlyEnd DEF InitFails, SkipLanguage, CompileFails
    <3>2. CASE Prepare \/ Compile
      BY <3>2, PrepareStep
    <3>3. CASE NextTest
      BY <3>3, NextTestStep
    <3>4. CASE JudgmentResult
      BY <3>4, JudgmentStep
    <3>5. CASE AllTestsDone
      BY <3>5, EndStep
    <3> QED
      BY <2>2, <3>1, <3>2, <3>3, <3>4, <3>5 DEF Run
  <2>3. CASE ProgramNext /\ UNCHANGED judgerVars
    BY <2>3, ProgramStep
  <2> QED
    BY <2>1, <2>2, <2>3 DEF Next
<1> QED
  BY <1>1, InvInit, PTL DEF Spec

(* The clocks, costs and verdicts stay in their ranges, for any number of   *)
(* tests and any limits: no wait of the judge's threads exceeds MaxWall and *)
(* no child its RLIMIT_CPU (child.c:38).                                    *)
THEOREM TypeCorrect == Spec => []TypeOK
<1>1. IInv => TypeOK
  BY DEF IInv
<1> QED
  BY <1>1, Inductive, PTL

(* When a test has been judged, its child has been reaped, unless it was    *)
(* never made, nobody waited for it, or it stopped itself (judge.c:139).    *)
THEOREM NoStrayChildHolds == Spec => []NoStrayChild
<1>1. IInv => NoStrayChild
  BY DEF IInv, Children
<1> QED
  BY <1>1, Inductive, PTL

(* The verdict is that of the last test that failed in a way JudgmentResult *)
(* knows (Judger.cpp:728), for any number of tests and whatever they do.    *)
THEOREM LastFailure == Spec => []LastFailureDecides
<1>1. IInv => LastFailureDecides
  BY DEF IInv, Verdict
<1> QED
  BY <1>1, Inductive, PTL
=============================================================================
