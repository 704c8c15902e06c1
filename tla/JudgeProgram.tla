----------------------------- MODULE JudgeProgram -----------------------------
(***************************************************************************)
(* One call of runJudge() of oj/judge/judge/judge.c for every test of a     *)
(* submission: the parent forks a child, starts a monitor thread that is to *)
(* kill the child after the wall-clock limit, waits for the child, cancels  *)
(* the monitor and classifies what happened.  The child redirects its       *)
(* files, limits itself and becomes the submitted program, which may do     *)
(* anything a program can do.  Time is in ticks, Second of them a second.   *)
(***************************************************************************)
EXTENDS Integers, FiniteSets

CONSTANTS
    JudgeNum,       \* m_judgenum, the number of tests
    Second,         \* ticks in a second
    TimeLimit,      \* m_timelimit in ticks
    MemoryLimit,    \* the problem's memory limit in KB
    MemoryCosts,    \* what ru_maxrss may be, in KB
    Delay           \* bound: ticks a thread that could run waits for a processor

ASSUME JudgeAssumption ==
    /\ JudgeNum \in Nat /\ Second \in Nat \ {0} /\ Delay \in Nat
    /\ TimeLimit \in Nat /\ MemoryLimit \in Nat /\ MemoryCosts \subseteq Nat

VARIABLES
    call,       \* where runJudge() stands
    test,       \* the test it was last called for
    child,      \* per test: the child process
    status,     \* per test: how the child ended, as wait4 reports it
    monitor,    \* per test: the monitor thread
    cancelled,  \* tests whose monitor has been sent a pthread_cancel
    wakeAt,     \* wall time at which the monitor's sleep ends
    wall,       \* wall time since the fork
    utime,      \* user and
    stime,      \*   system time of the child
    cost,       \* judgeResult: cpuTimeCost, memoryCost
    condition,  \* judgeResult: condition
    stops       \* history: tests whose program stopped itself

processes == <<child, status>>
threads   == <<monitor, cancelled, wakeAt>>
clocks    == <<wall, utime, stime>>
judgeResult == <<cost, condition>>
programVars == <<call, test, processes, threads, clocks, judgeResult, stops>>

Tests == 1 .. JudgeNum

\* RunProgramC_Cpp: the limits in execConfig, and what the child and the
\* monitor make of them: whole seconds, one rounded up, one rounded down.
RealTimeLimit == 2 * TimeLimit

\* Mutant: the processor time is rounded down to whole seconds.
CpuRlimitDown == (TimeLimit \div Second) * Second

CpuRlimit == (TimeLimit \div Second + 1) * Second
SleepTime == (RealTimeLimit \div Second) * Second

\* The limits are in bytes; ru_maxrss, which is compared with them, is in KB.
MemoryBytes == MemoryLimit * 1024

MaxWall == SleepTime + 2 * Delay

Endings == {"exit 0", "exit n", "SIGSEGV", "SIGFPE", "SIGXFSZ", "SIGXCPU", "SIGABRT"}

Conditions == {"RUN_SUCCESS", "RUNTIME_ERROR", "TIME_LIMIT_EXCEED", "MEMORY_LIMIT_EXCEED",
               "OUTPUT_LIMIT_EXCEED", "SEGMENTATION_FAULT", "FLOAT_ERROR", "UNKNOWN_ERROR",
               "FORK_ERROR", "CREATE_THREAD_ERROR"}

ProgramTypeOK ==
    /\ call \in {"idle", "forked", "waiting", "waited", "returned"}
    /\ test \in 0 .. JudgeNum
    /\ child \in [Tests -> {"none", "setup", "running", "stopped", "zombie", "reaped"}]
    /\ status \in [Tests -> Endings \cup {"none", "SIGKILL", "SIGSTOP"}]
    /\ monitor \in [Tests -> {"none", "created", "asleep", "woken", "gone"}]
    /\ cancelled \subseteq Tests
    /\ wall \in 0 .. MaxWall /\ wakeAt \in 0 .. MaxWall
    /\ utime \in Nat /\ stime \in Nat /\ utime + stime <= CpuRlimit
    /\ cost \in [cpu : Nat, memory : Nat]
    /\ condition \in Conditions /\ stops \subseteq Tests

ProgramInit ==
    /\ call = "idle" /\ test = 0
    /\ child = [i \in Tests |-> "none"] /\ status = [i \in Tests |-> "none"]
    /\ monitor = [i \in Tests |-> "none"] /\ cancelled = {}
    /\ wall = 0 /\ wakeAt = 0 /\ utime = 0 /\ stime = 0
    /\ cost = [cpu |-> 0, memory |-> 0]
    /\ condition = "UNKNOWN_ERROR" /\ stops = {}

-----------------------------------------------------------------------------
(* The parent: runJudge()                                                   *)

\* runJudge is entered for test i and fork() makes a child.
Fork(i) ==
    /\ call = "idle"
    /\ test' = i /\ call' = "forked"
    /\ child' = [child EXCEPT ![i] = "setup"]
    /\ UNCHANGED <<status, threads, clocks, judgeResult, stops>>

\* runJudge returns early: the costs stay those of the previous test.  Before
\* the first they are whatever is on the stack, as RunProgram declares
\* judgeResult without a value.
KeepCosts ==
    IF cancelled = {} THEN \E c \in {0, 2 * TimeLimit} : cost' = [cost EXCEPT !.cpu = c]
    ELSE UNCHANGED cost

ForkFails(i) ==
    /\ call = "idle"
    /\ test' = i /\ call' = "returned"
    /\ condition' = "FORK_ERROR" /\ KeepCosts
    /\ UNCHANGED <<processes, threads, clocks, stops>>

CreateMonitor ==
    /\ call = "forked"
    /\ call' = "waiting"
    /\ monitor' = [monitor EXCEPT ![test] = "created"]
    /\ UNCHANGED <<test, processes, cancelled, wakeAt, clocks, judgeResult, stops>>

\* pthread_create fails: nobody waits for the child, which goes on.
CreateMonitorFails ==
    /\ call = "forked"
    /\ call' = "returned"
    /\ condition' = "CREATE_THREAD_ERROR" /\ KeepCosts
    /\ wall' = 0 /\ utime' = 0 /\ stime' = 0
    /\ UNCHANGED <<test, processes, threads, stops>>

\* Mutant: wait4 with WNOHANG, which returns at once.
WaitNoHang ==
    /\ call = "waiting"
    /\ call' = "waited"
    /\ child' = [child EXCEPT ![test] = IF @ = "zombie" THEN "reaped" ELSE @]
    /\ UNCHANGED <<test, status, threads, clocks, judgeResult, stops>>

\* wait4(WSTOPPED) returns for a child that has ended, and for a stopped one.
Wait ==
    /\ call = "waiting"
    /\ child[test] \in {"zombie", "stopped"}
    /\ call' = "waited"
    /\ child' = [child EXCEPT ![test] = IF @ = "zombie" THEN "reaped" ELSE @]
    /\ UNCHANGED <<test, status, threads, clocks, judgeResult, stops>>

\* getRunningCondition: conditions of a child ended by a signal.
SignalCondition ==
    [SIGXCPU |-> "TIME_LIMIT_EXCEED", SIGFPE |-> "FLOAT_ERROR", SIGSEGV |-> "SEGMENTATION_FAULT",
     SIGXFSZ |-> "OUTPUT_LIMIT_EXCEED", SIGABRT |-> "RUNTIME_ERROR"]

RunningCondition(s, c, real) ==
    IF s = "exit 0"
    THEN IF c.memory > 2 * MemoryBytes THEN "MEMORY_LIMIT_EXCEED"
         ELSE IF c.cpu > TimeLimit \/ real > RealTimeLimit THEN "TIME_LIMIT_EXCEED"
         ELSE "RUN_SUCCESS"
    ELSE IF s = "SIGKILL"
    THEN IF c.cpu > TimeLimit THEN "TIME_LIMIT_EXCEED" ELSE "RUNTIME_ERROR"
    ELSE IF s \in DOMAIN SignalCondition THEN SignalCondition[s] ELSE "UNKNOWN_ERROR"

\* pthread_cancel, then the costs and the condition.  The thread is not joined.
Classify ==
    /\ call = "waited"
    /\ call' = "returned"
    /\ cancelled' = cancelled \cup {test}
    /\ \E m \in MemoryCosts : cost' = [cpu |-> utime, memory |-> m]
    /\ condition' = RunningCondition(status[test], cost', wall)
    /\ wall' = 0 /\ utime' = 0 /\ stime' = 0
    /\ UNCHANGED <<test, processes, monitor, wakeAt, stops>>

Parent == CreateMonitor \/ CreateMonitorFails \/ Wait \/ Classify

-----------------------------------------------------------------------------
(* The monitor thread of test i                                             *)

\* It copies its parameters and goes to sleep, a point of cancellation.
MonitorSleeps(i) ==
    /\ monitor[i] = "created"
    /\ IF i \in cancelled
       THEN monitor' = [monitor EXCEPT ![i] = "gone"] /\ UNCHANGED wakeAt
       ELSE monitor' = [monitor EXCEPT ![i] = "asleep"] /\ wakeAt' = wall + SleepTime
    /\ UNCHANGED <<call, test, processes, cancelled, clocks, judgeResult, stops>>

MonitorWakes(i) ==
    /\ monitor[i] = "asleep"
    /\ \/ i \in cancelled /\ monitor' = [monitor EXCEPT ![i] = "gone"]
       \/ i \notin cancelled /\ wall >= wakeAt /\ monitor' = [monitor EXCEPT ![i] = "woken"]
    /\ UNCHANGED <<call, test, processes, cancelled, wakeAt, clocks, judgeResult, stops>>

\* Mutant: the thread ends without the kill.
MonitorKillsNobody(i) ==
    /\ monitor[i] = "woken"
    /\ monitor' = [monitor EXCEPT ![i] = "gone"]
    /\ UNCHANGED <<call, test, processes, cancelled, wakeAt, clocks, judgeResult, stops>>

\* What happens to the child from now on is reported to nobody.
Waited(i) == i # test \/ call \in {"waited", "returned", "idle"}

\* kill() is no point of cancellation.  It does nothing to a process that has
\* ended, and nothing to one that was reaped as long as its pid is not reused.
MonitorKills(i) ==
    /\ monitor[i] = "woken"
    /\ monitor' = [monitor EXCEPT ![i] = "gone"]
    /\ IF child[i] \in {"setup", "running", "stopped"}
       THEN /\ child' = [child EXCEPT ![i] = "zombie"]
            /\ status' = IF Waited(i) THEN status ELSE [status EXCEPT ![i] = "SIGKILL"]
       ELSE UNCHANGED processes
    /\ UNCHANGED <<call, test, cancelled, wakeAt, clocks, judgeResult, stops>>

Monitor(i) == MonitorSleeps(i) \/ MonitorWakes(i) \/ MonitorKills(i)

-----------------------------------------------------------------------------
(* The child of test i and the system                                       *)

Ends(i, how) ==
    /\ child' = [child EXCEPT ![i] = "zombie"]
    /\ status' = [status EXCEPT ![i] = how]

\* runChild: a file that cannot be opened, a limit or a uid that cannot be set
\* (wallMemoryLimit, processLimit and uid are never given a value) ends the
\* child with a code other than 0, an execve that fails with 0.
ChildSetup(i) ==
    /\ child[i] = "setup"
    /\ \/ child' = [child EXCEPT ![i] = "running"] /\ UNCHANGED status
       \/ \E how \in {"exit 0", "exit n"} : Ends(i, how)
    /\ UNCHANGED <<call, test, threads, clocks, judgeResult, stops>>

\* external: the submitted program ends or stops.
ProgramEnds(i) ==
    /\ child[i] = "running"
    /\ \E how \in Endings : Ends(i, how)
    /\ UNCHANGED <<call, test, threads, clocks, judgeResult, stops>>

ProgramStops(i) ==
    /\ child[i] = "running"
    /\ child' = [child EXCEPT ![i] = "stopped"]
    /\ status' = [status EXCEPT ![i] = "SIGSTOP"]
    /\ stops' = stops \cup {i}
    /\ UNCHANGED <<call, test, threads, clocks, judgeResult>>

\* Time passes while runJudge is at work; threads are scheduled within Delay.
Passes ==
    /\ call \in {"forked", "waiting", "waited"}
    /\ wall < (IF call = "forked" \/ monitor[test] = "created" THEN Delay ELSE MaxWall)
    /\ wall' = wall + 1
    /\ UNCHANGED <<call, test, threads, judgeResult, stops>>

\* The child sleeps, waits, or has ended.
IdleTick == Passes /\ UNCHANGED <<processes, utime, stime>>

\* The child computes; at RLIMIT_CPU, whose two limits are equal, it is killed.
BusyTick ==
    /\ Passes
    /\ child[test] = "running"
    /\ \/ utime' = utime + 1 /\ UNCHANGED stime
       \/ stime' = stime + 1 /\ UNCHANGED utime
    /\ IF utime' + stime' = CpuRlimit THEN Ends(test, "SIGKILL") ELSE UNCHANGED processes

Tick == IdleTick \/ BusyTick

ProgramNext ==
    \/ Parent \/ Tick
    \/ \E i \in Tests : Monitor(i) \/ ChildSetup(i) \/ ProgramEnds(i) \/ ProgramStops(i)
=============================================================================
