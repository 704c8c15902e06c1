---------------------------- MODULE AsyncLogging ----------------------------
(***************************************************************************)
(* The double-buffered logger of src/logger/AsyncLogging.cpp: any thread    *)
(* appends lines to a current buffer; full buffers go to a list and a spare *)
(* takes over; a backend thread swaps the list for an empty one under the   *)
(* lock, writes it to the LogFile outside the lock and turns two of the     *)
(* written buffers into new spares.  The critical section of append() is    *)
(* one action; lines have length 1 and are numbered in the order in which   *)
(* their append() gets the lock.  A buffer is the sequence of its lines.    *)
(***************************************************************************)
EXTENDS Integers, Sequences, SequencesExt

CONSTANTS
    Size,       \* kLargeBuffer, in lines
    MaxLines,   \* bound: lines appended in a run
    Null        \* a unique_ptr that has been moved from

ASSUME LoggingAssumption ==
    /\ Size \in Nat /\ Size > 1 /\ MaxLines \in Nat
    /\ Null \notin Seq(1 .. MaxLines)

VARIABLES
    current, next,     \* currentBuffer_, nextBuffer_
    buffers,           \* buffers_
    running,           \* running_
    pcB,               \* the backend, in threadFunc
    new1, new2,        \* its newBuffer1, newBuffer2
    toWrite,           \* its buffersToWrite
    file,              \* what LogFile::append has been given
    pcS,               \* the thread that calls start() and stop()
    appended           \* history: number of lines appended

front   == <<current, next, buffers>>
backend == <<new1, new2, toWrite, file>>
vars    == <<front, running, pcB, backend, pcS, appended>>

\* append() keeps the length of a buffer below its capacity.
Buffer == {lines \in Seq(1 .. MaxLines) : Len(lines) < Size}

TypeOK ==
    /\ current \in Buffer
    /\ {next, new1, new2} \subseteq Buffer \cup {Null}
    /\ Range(buffers) \cup Range(toWrite) \subseteq Buffer
    /\ running \in BOOLEAN
    /\ pcB \in {"none", "test", "lock", "wait", "woken", "write", "stopped"}
    /\ file \in Seq(1 .. MaxLines)
    /\ pcS \in {"created", "started", "stopping", "joining", "joined"}
    /\ appended \in 0 .. MaxLines

Init ==
    /\ current = <<>> /\ next = <<>> /\ buffers = <<>>
    /\ running = FALSE
    /\ pcB = "none"
    /\ new1 = <<>> /\ new2 = <<>> /\ toWrite = <<>>
    /\ file = <<>>
    /\ pcS = "created"
    /\ appended = 0

-----------------------------------------------------------------------------
(* append().                                                                *)

\* Mutant: room for one byte more than there is.
AvailOffByOne(buffer) == Size - Len(buffer) + 1

\* FixedBuffer::avail and FixedBuffer::append.
Avail(buffer) == Size - Len(buffer)

Put(buffer, line) == IF Avail(buffer) > 1 THEN Append(buffer, line) ELSE buffer

\* cond_.notify_one: only the backend waits on it.
Notify == pcB' = IF pcB = "wait" THEN "woken" ELSE pcB

AppendToCurrent(line) ==
    /\ Avail(current) > 1
    /\ current' = Put(current, line)
    /\ UNCHANGED <<next, buffers, pcB>>

\* Mutant: append() does not notify.
AppendToFreshSilently(line) ==
    /\ Avail(current) <= 1
    /\ buffers' = Append(buffers, current)
    /\ current' = Put(IF next # Null THEN next ELSE <<>>, line)
    /\ next' = Null
    /\ UNCHANGED pcB

\* The full buffer goes to the list; the spare, or a new buffer, takes over.
AppendToFresh(line) ==
    /\ Avail(current) <= 1
    /\ buffers' = Append(buffers, current)
    /\ current' = Put(IF next # Null THEN next ELSE <<>>, line)
    /\ next' = Null
    /\ Notify

AppendLine ==
    /\ appended < MaxLines
    /\ appended' = appended + 1
    /\ AppendToCurrent(appended + 1) \/ AppendToFresh(appended + 1)
    /\ UNCHANGED <<running, backend, pcS>>

-----------------------------------------------------------------------------
(* start() and stop().                                                      *)

Start ==
    /\ pcS = "created"
    /\ running' = TRUE
    /\ pcB' = "test"
    /\ pcS' = "started"
    /\ UNCHANGED <<front, backend, appended>>

\* running_ is cleared and the backend notified without the lock.
StopRunning ==
    /\ pcS = "started"
    /\ running' = FALSE
    /\ pcS' = "stopping"
    /\ UNCHANGED <<front, pcB, backend, appended>>

StopNotify ==
    /\ pcS = "stopping"
    /\ Notify
    /\ pcS' = "joining"
    /\ UNCHANGED <<front, running, backend, appended>>

Join ==
    /\ pcS = "joining"
    /\ pcB = "stopped"
    /\ pcS' = "joined"
    /\ UNCHANGED <<front, running, pcB, backend, appended>>

-----------------------------------------------------------------------------
(* threadFunc().                                                            *)

TestRunning ==
    /\ pcB = "test"
    /\ pcB' = IF running THEN "lock" ELSE "stopped"
    /\ UNCHANGED <<front, running, backend, pcS, appended>>

\* Nothing full: wait_for(flushInterval_).
Wait ==
    /\ pcB = "lock"
    /\ buffers = <<>>
    /\ pcB' = "wait"
    /\ UNCHANGED <<front, running, backend, pcS, appended>>

\* Mutant: the backend goes on waiting until a buffer is full.
WaitUntilFull ==
    /\ pcB = "wait"
    /\ pcB' = "lock"
    /\ UNCHANGED <<front, running, backend, pcS, appended>>

\* Mutant: wait instead of wait_for.
WaitForever == pcB = "wait" /\ FALSE /\ UNCHANGED vars

WaitTimeout ==
    /\ pcB = "wait"
    /\ pcB' = "woken"
    /\ UNCHANGED <<front, running, backend, pcS, appended>>

\* Mutant: the spare is replaced whether it was used or not.
SwapBoth ==
    /\ \/ pcB = "lock" /\ buffers # <<>>
       \/ pcB = "woken"
    /\ toWrite' = Append(buffers, current)
    /\ buffers' = <<>>
    /\ current' = new1 /\ next' = new2
    /\ new1' = Null /\ new2' = Null
    /\ pcB' = "write"
    /\ UNCHANGED <<running, file, pcS, appended>>

\* The current buffer is taken too, and both spares are replaced.
Swap ==
    /\ \/ pcB = "lock" /\ buffers # <<>>
       \/ pcB = "woken"
    /\ toWrite' = Append(buffers, current)
    /\ buffers' = <<>>
    /\ current' = new1
    /\ new1' = Null
    /\ IF next = Null THEN next' = new2 /\ new2' = Null
                      ELSE UNCHANGED <<next, new2>>
    /\ pcB' = "write"
    /\ UNCHANGED <<running, file, pcS, appended>>

\* Mutant: a written buffer is reused as it is.
ResetNothing(buffer) == buffer

\* FixedBuffer::reset.
Reset(buffer) == <<>>

\* Write everything, keep at most two buffers and reuse them as spares.
Write ==
    /\ pcB = "write"
    /\ file' = file \o FlattenSeq(toWrite)
    /\ LET kept  == SubSeq(toWrite, 1, IF Len(toWrite) > 2 THEN 2 ELSE Len(toWrite))
           rest  == IF new1 = Null THEN SubSeq(kept, 1, Len(kept) - 1) ELSE kept
       IN  /\ new1' = IF new1 = Null THEN Reset(kept[Len(kept)]) ELSE new1
           /\ new2' = IF new2 = Null THEN Reset(rest[Len(rest)]) ELSE new2
    /\ toWrite' = <<>>
    /\ pcB' = "test"
    /\ UNCHANGED <<front, running, pcS, appended>>

-----------------------------------------------------------------------------
Backend == TestRunning \/ Wait \/ WaitTimeout \/ Swap \/ Write

Owner == Start \/ StopRunning \/ StopNotify \/ Join

Next == AppendLine \/ Owner \/ Backend

Spec == Init /\ [][Next]_vars

\* The backend runs and its timed wait ends; a stop() that began goes on.
Fairness == WF_vars(Backend) /\ WF_vars(StopNotify) /\ WF_vars(Join)

FairSpec == Spec /\ Fairness

-----------------------------------------------------------------------------
(* Properties.                                                              *)

Lines(n) == [i \in 1 .. n |-> i]

\* Every line appended is in exactly one place, and in order: written, taken
\* by the backend, in a full buffer or in the current one.  Recycling buffers
\* between the threads neither repeats, loses nor reorders a line.
LinesKept ==
    file \o FlattenSeq(toWrite) \o FlattenSeq(buffers) \o current = Lines(appended)

\* The backend takes its new spares from the buffers it wrote: there are enough
\* of them whenever it lacks one, so back() is never called on an empty vector,
\* and append() finds a current buffer.
SparesRefillable ==
    /\ pcB = "write" => Len(toWrite) >= (IF new1 = Null THEN 1 ELSE 0)
                                        + (IF new2 = Null THEN 1 ELSE 0)
    /\ pcB # "write" => new1 # Null /\ new2 # Null
    /\ current # Null

\* A full buffer does not wait for the flush interval: the backend sleeps only
\* while there is none, since append() fills and notifies under the lock under
\* which the backend decides to wait.
FullBufferWakes == pcB = "wait" => buffers = <<>>

\* While logging runs every line gets to the file, also one in a buffer that
\* never fills.
LineWritten ==
    \A n \in 1 .. MaxLines : (appended >= n /\ running) ~> (Len(file) >= n \/ ~running)

\* stop() returns: the backend sees running_ cleared even if the notification
\* comes before it waits.
StopReturns == (pcS = "stopping") ~> (pcS = "joined")
=============================================================================
