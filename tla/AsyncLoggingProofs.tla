-------------------------- MODULE AsyncLoggingProofs --------------------------
(***************************************************************************)
(* For every buffer size and every number of lines: the types of            *)
(* AsyncLogging, that no line is lost, repeated or reordered on its way     *)
(* through the buffers, that the backend always finds the spares it needs   *)
(* and that it never sleeps beside a full buffer.                           *)
(***************************************************************************)
EXTENDS AsyncLogging, DataLemmas

USE DEF front, backend, vars

-----------------------------------------------------------------------------
(* The inductive invariant.                                                 *)

\* The types, with the buffers in lists and every spare empty: append() puts
\* lines only into the current buffer, and a written one is reset.
TypeInv ==
    /\ current \in Buffer
    /\ next \in {<<>>, Null} /\ new1 \in {<<>>, Null} /\ new2 \in {<<>>, Null}
    /\ buffers \in Seq(Buffer) /\ toWrite \in Seq(Buffer)
    /\ running \in BOOLEAN
    /\ pcB \in {"none", "test", "lock", "wait", "woken", "write", "stopped"}
    /\ file \in Seq(1 .. MaxLines)
    /\ pcS \in {"created", "started", "stopping", "joining", "joined"}
    /\ appended \in 0 .. MaxLines

\* The spare is gone only if a buffer has filled since the last swap.
SpareUsed == next = Null => buffers # <<>>

\* The backend holds buffers only between its swap and the end of its write.
BatchWritten == pcB # "write" => toWrite = <<>>

\* The backend does not run before start().
NotStarted == pcS = "created" => pcB = "none"

IInv ==
    /\ TypeInv
    /\ NotStarted
    /\ SpareUsed
    /\ BatchWritten
    /\ SparesRefillable
    /\ FullBufferWakes
    /\ LinesKept
-----------------------------------------------------------------------------
(* Facts about lines and buffers.                                           *)

\* What the assumption says of the constants, as the proofs use it: a moved
\* pointer is no buffer, not even an empty one, and an empty buffer has room.
LEMMA Constants ==
    /\ Null # <<>> /\ Null \notin Buffer
    /\ <<>> \in Buffer /\ <<>> \in Seq(1 .. MaxLines) /\ Avail(<<>>) > 1
<1>1. <<>> \in Seq(1 .. MaxLines) /\ Len(<<>>) = 0
    BY EmptySeq
<1>2. Size \in Nat /\ Size > 1 /\ Null \notin Seq(1 .. MaxLines)
    BY LoggingAssumption
<1>3. <<>> \in Buffer /\ Avail(<<>>) > 1
    BY <1>1, <1>2 DEF Buffer, Avail
<1>4. Null # <<>> /\ Null \notin Buffer
    BY <1>1, <1>2 DEF Buffer
<1> QED BY <1>1, <1>3, <1>4

\* A list of buffers is a list of sequences of lines.
LEMMA BuffersAreSequences ==
    ASSUME NEW b \in Seq(Buffer)
    PROVE  b \in Seq(Seq(1 .. MaxLines)) /\ FlattenSeq(b) \in Seq(1 .. MaxLines)
<1>1. Buffer \subseteq Seq(1 .. MaxLines)
    BY DEF Buffer
<1>2. b \in Seq(Seq(1 .. MaxLines))
    BY <1>1, SeqMonotonic
<1> QED BY <1>2, FlattenType

\* One more line in order.
LEMMA NextLine ==
    ASSUME NEW n \in Nat, n < MaxLines
    PROVE  /\ n + 1 \in 1 .. MaxLines
           /\ Lines(n) \in Seq(1 .. MaxLines)
           /\ Lines(n) \o <<n + 1>> = Lines(n + 1)
<1>1. n + 1 \in 1 .. MaxLines
    BY LoggingAssumption
<1>2. Lines(n) \in Seq(1 .. MaxLines) /\ Lines(n + 1) \in Seq(1 .. MaxLines)
    BY LoggingAssumption DEF Lines
<1>3. Len(Lines(n)) = n /\ Len(Lines(n + 1)) = n + 1
    BY DEF Lines
<1>4. /\ Lines(n) \o <<n + 1>> \in Seq(1 .. MaxLines)
      /\ Len(Lines(n) \o <<n + 1>>) = n + 1
    BY <1>1, <1>2, <1>3
<1>5. ASSUME NEW i \in 1 .. n + 1
      PROVE  (Lines(n) \o <<n + 1>>)[i] = Lines(n + 1)[i]
    BY <1>1, <1>2, <1>3 DEF Lines
<1> QED BY <1>1, <1>2, <1>3, <1>4, <1>5, SeqEqual

-----------------------------------------------------------------------------
(* append().                                                                *)

\* The step that puts a line into the current buffer.
LEMMA AppendToCurrentInv ==
    ASSUME IInv, appended < MaxLines, appended' = appended + 1,
           AppendToCurrent(appended + 1), UNCHANGED <<running, backend, pcS>>
    PROVE  IInv'
<1> DEFINE L == 1 .. MaxLines
           rest == file \o FlattenSeq(toWrite) \o FlattenSeq(buffers)
<1>1. /\ current' = Append(current, appended + 1)
      /\ appended \in Nat /\ appended + 1 \in L
    BY LoggingAssumption DEF AppendToCurrent, Put, IInv, TypeInv
<1>2. current \in Seq(L) /\ Len(current) \in Nat /\ Len(current) + 1 < Size
    BY LoggingAssumption DEF AppendToCurrent, Avail, IInv, TypeInv, Buffer
<1>3. current' \in Buffer /\ current' # Null
  <2>1. current' \in Seq(L) /\ Len(current') = Len(current) + 1
    BY <1>1, <1>2, AppendProperties
  <2>2. current' \in Buffer
    BY <1>2, <2>1, LoggingAssumption DEF Buffer
  <2> QED BY <2>1, <2>2, Constants
<1>4. LinesKept'
  <2>1. rest \in Seq(L)
    BY BuffersAreSequences, ConcatProperties DEF IInv, TypeInv
  <2>2. current' = current \o <<appended + 1>> /\ <<appended + 1>> \in Seq(L)
    BY <1>1, <1>2
  <2>3. rest \o current' = (rest \o current) \o <<appended + 1>>
    <3> HIDE DEF rest
    <3> QED BY <1>2, <2>1, <2>2, ConcatAssociative
  <2>4. rest \o current' = Lines(appended + 1)
    BY <1>1, <2>3, NextLine DEF IInv, LinesKept
  <2> QED BY <2>4 DEF LinesKept, AppendToCurrent
<1>5. TypeInv'
    BY <1>1, <1>3, LoggingAssumption DEF AppendToCurrent, IInv, TypeInv
<1> QED
    BY <1>3, <1>4, <1>5
       DEF AppendToCurrent, IInv, NotStarted, SpareUsed, BatchWritten,
           SparesRefillable, FullBufferWakes

\* The step that puts the full buffer into the list and the line into a new one.
LEMMA AppendToFreshInv ==
    ASSUME IInv, appended < MaxLines, appended' = appended + 1,
           AppendToFresh(appended + 1), UNCHANGED <<running, backend, pcS>>
    PROVE  IInv'
<1> DEFINE L == 1 .. MaxLines
           before == file \o FlattenSeq(toWrite)
<1>1. appended \in Nat /\ appended + 1 \in L
    BY LoggingAssumption DEF IInv, TypeInv
<1>2. current' = <<appended + 1>>
  <2>1. current' = Put(<<>>, appended + 1)
    BY DEF AppendToFresh, IInv, TypeInv
  <2> QED BY <2>1, Constants DEF Put
<1>3. current' \in Seq(L) /\ current' \in Buffer /\ current' # Null
  <2>1. current' \in Seq(L) /\ Len(current') = 1
    BY <1>1, <1>2
  <2>2. current' \in Buffer
    BY <2>1, LoggingAssumption DEF Buffer
  <2> QED BY <2>1, <2>2, Constants
<1>4. buffers' = Append(buffers, current) /\ buffers' \in Seq(Buffer) /\ buffers' # <<>>
    BY AppendProperties DEF AppendToFresh, IInv, TypeInv
<1>5. pcB' # "wait" /\ (pcB' = "write" <=> pcB = "write")
      /\ pcB' \in {"none", "test", "lock", "wait", "woken", "write", "stopped"}
      /\ (pcB = "none" => pcB' = "none")
    BY DEF AppendToFresh, Notify, IInv, TypeInv
<1>6. LinesKept'
  <2>1. current \in Seq(L)
    BY DEF IInv, TypeInv, Buffer
  <2>2. /\ before \in Seq(L) /\ FlattenSeq(buffers) \in Seq(L)
        /\ before \o FlattenSeq(buffers) \in Seq(L)
    BY BuffersAreSequences, ConcatProperties DEF IInv, TypeInv
  <2>3. FlattenSeq(buffers') = FlattenSeq(buffers) \o current
    BY <1>4, <2>1, BuffersAreSequences, FlattenAppend DEF IInv, TypeInv
  <2>4. before \o FlattenSeq(buffers') = (before \o FlattenSeq(buffers)) \o current
    <3> HIDE DEF before
    <3> QED BY <2>1, <2>2, <2>3, ConcatAssociative
  <2>5. before \o FlattenSeq(buffers') \o current' = Lines(appended + 1)
    BY <1>1, <1>2, <2>4, NextLine DEF IInv, LinesKept
  <2> QED BY <2>5 DEF LinesKept
<1> QED
    BY <1>1, <1>3, <1>4, <1>5, <1>6, LoggingAssumption
       DEF AppendToFresh, IInv, TypeInv, NotStarted, SpareUsed, BatchWritten,
           SparesRefillable, FullBufferWakes

-----------------------------------------------------------------------------
(* threadFunc().                                                            *)

\* The swap takes every buffer, and gives back one or two spares.
LEMMA SwapInv == ASSUME IInv, Swap PROVE IInv'
<1> DEFINE L == 1 .. MaxLines
<1>1. pcB \in {"lock", "woken"} /\ toWrite = <<>> /\ new1 = <<>> /\ new2 = <<>>
    BY DEF Swap, IInv, TypeInv, BatchWritten, SparesRefillable
<1>2. /\ toWrite' = Append(buffers, current) /\ toWrite' \in Seq(Buffer)
      /\ Len(toWrite') = Len(buffers) + 1 /\ Len(buffers) \in Nat
      /\ buffers # <<>> => Len(buffers) >= 1
    BY AppendProperties, EmptySeq DEF Swap, IInv, TypeInv
<1>3. /\ current' = <<>> /\ current' \in Buffer /\ current' # Null
      /\ buffers' = <<>> /\ buffers' \in Seq(Buffer)
      /\ new1' = Null /\ new1' # <<>> /\ next' = <<>> /\ next' # Null
      /\ new2' = IF next = Null THEN Null ELSE <<>>
    BY <1>1, Constants, EmptySeq DEF Swap, IInv, TypeInv
<1>4. LinesKept'
  <2>1. /\ file \in Seq(L) /\ current \in Seq(L) /\ FlattenSeq(buffers) \in Seq(L)
        /\ file \o FlattenSeq(buffers) \in Seq(L)
    BY BuffersAreSequences, ConcatProperties DEF IInv, TypeInv, Buffer
  <2>2. FlattenSeq(toWrite') = FlattenSeq(buffers) \o current
    BY <1>2, <2>1, BuffersAreSequences, FlattenAppend DEF IInv, TypeInv
  <2>3. file \o FlattenSeq(toWrite') = (file \o FlattenSeq(buffers)) \o current
    BY <2>1, <2>2, ConcatAssociative
  <2>4. file \o FlattenSeq(toWrite') \in Seq(L)
    BY <2>1, <2>3, ConcatProperties
  <2>5. file \o FlattenSeq(toWrite) = file /\ FlattenSeq(buffers') = <<>>
    BY <1>1, <1>3, <2>1, FlattenEmpty, ConcatEmptySeq
  <2>6. (file \o FlattenSeq(toWrite')) \o FlattenSeq(buffers') \o current'
            = file \o FlattenSeq(toWrite')
    BY <1>3, <2>4, <2>5, ConcatEmptySeq
  <2> QED BY <2>3, <2>5, <2>6 DEF LinesKept, IInv, Swap
<1>5. TypeInv' /\ NotStarted'
    BY <1>1, <1>2, <1>3 DEF Swap, IInv, TypeInv, NotStarted
<1>6. SparesRefillable'
    BY <1>2, <1>3, Constants DEF Swap, IInv, TypeInv, SpareUsed, SparesRefillable
<1> QED
    BY <1>3, <1>4, <1>5, <1>6 DEF Swap, IInv, SpareUsed, BatchWritten, FullBufferWakes

\* The write empties the batch into the file and refills both spares.
LEMMA WriteInv == ASSUME IInv, Write PROVE IInv'
<1> DEFINE L == 1 .. MaxLines
<1>1. /\ new1' = <<>> /\ new2' = <<>> /\ new1' # Null /\ new2' # Null
    BY Constants DEF Write, Reset, IInv, TypeInv
<1>2. toWrite' = <<>> /\ toWrite' \in Seq(Buffer)
    BY EmptySeq DEF Write
<1>3. /\ file' = file \o FlattenSeq(toWrite) /\ file' \in Seq(L)
    BY BuffersAreSequences, ConcatProperties DEF Write, IInv, TypeInv
<1>4. LinesKept'
  <2>1. file' \o FlattenSeq(toWrite') = file'
    BY <1>2, <1>3, FlattenEmpty, ConcatEmptySeq
  <2> QED BY <1>3, <2>1 DEF Write, IInv, LinesKept
<1> QED
    BY <1>1, <1>2, <1>3, <1>4
       DEF Write, IInv, TypeInv, NotStarted, SpareUsed, BatchWritten, SparesRefillable,
           FullBufferWakes

\* The steps that touch neither buffers nor file.
LEMMA ControlInv ==
    ASSUME IInv, Owner \/ TestRunning \/ Wait \/ WaitTimeout \/ UNCHANGED vars
    PROVE  IInv'
<1>1. /\ UNCHANGED <<current, next, buffers, new1, new2, toWrite, file, appended>>
      /\ pcB' = "write" <=> pcB = "write"
      /\ pcB' = "wait" => buffers = <<>>
    BY DEF Owner, Start, StopRunning, StopNotify, Join, Notify, TestRunning, Wait,
           WaitTimeout, IInv, NotStarted, FullBufferWakes
<1>2. /\ running' \in BOOLEAN
      /\ pcB' \in {"none", "test", "lock", "wait", "woken", "write", "stopped"}
      /\ pcS' \in {"created", "started", "stopping", "joining", "joined"}
      /\ NotStarted'
    BY DEF Owner, Start, StopRunning, StopNotify, Join, Notify, TestRunning, Wait,
           WaitTimeout, IInv, TypeInv, NotStarted
<1> QED
    BY <1>1, <1>2 DEF IInv, TypeInv, SpareUsed, BatchWritten, SparesRefillable,
                      FullBufferWakes, LinesKept

-----------------------------------------------------------------------------
(* The theorems.                                                            *)

\* A logger that was just made keeps the invariant.
LEMMA InitInv == ASSUME Init PROVE IInv
<1>1. /\ <<>> \in Seq(Buffer) /\ <<>> \in Buffer /\ <<>> \in Seq(1 .. MaxLines)
      /\ <<>> # Null
    BY Constants, EmptySeq
<1>2. TypeInv
  <2>1. 0 \in 0 .. MaxLines
    BY LoggingAssumption
  <2> QED BY <1>1, <2>1 DEF Init, TypeInv
<1>3. LinesKept
  <2>1. Lines(0) = <<>>
    BY DEF Lines
  <2>2. <<>> \o <<>> \o <<>> \o <<>> = <<>>
    OBVIOUS
  <2> QED BY <2>1, <2>2, FlattenEmpty DEF Init, LinesKept
<1> QED
    BY <1>1, <1>2, <1>3 DEF Init, IInv, NotStarted, SpareUsed, BatchWritten,
                            SparesRefillable, FullBufferWakes

\* Every step keeps it, so it always holds.
LEMMA Inductive == Spec => []IInv
<1>1. ASSUME IInv, [Next]_vars PROVE IInv'
  <2>1. CASE AppendLine
    BY <1>1, <2>1, AppendToCurrentInv, AppendToFreshInv DEF AppendLine
  <2>2. CASE Owner
    BY <1>1, <2>2, ControlInv
  <2>3. CASE Backend
    BY <1>1, <2>3, ControlInv, SwapInv, WriteInv DEF Backend
  <2>4. CASE UNCHANGED vars
    BY <1>1, <2>4, ControlInv
  <2> QED BY <1>1, <2>1, <2>2, <2>3, <2>4 DEF Next
<1> QED BY <1>1, InitInv, PTL DEF Spec

\* Every variable keeps its type; a buffer never holds more than fits.
THEOREM TypeCorrect == Spec => []TypeOK
<1>1. ASSUME IInv PROVE TypeOK
  <2>1. Range(buffers) \subseteq Buffer /\ Range(toWrite) \subseteq Buffer
    BY <1>1, RangeOfSeq DEF IInv, TypeInv
  <2> QED BY <1>1, <2>1, Constants DEF IInv, TypeInv, TypeOK
<1> QED BY <1>1, Inductive, PTL

\* No line appended by any thread is lost, written twice or out of order
\* between append(), the swap and the file, whatever the size of the buffers.
THEOREM LinesKeptHolds == Spec => []LinesKept
<1>1. IInv => LinesKept
    BY DEF IInv
<1> QED BY <1>1, Inductive, PTL

\* threadFunc never takes a spare from an empty list of written buffers, and
\* append() always finds a current buffer.
THEOREM SparesRefillableHolds == Spec => []SparesRefillable
<1>1. IInv => SparesRefillable
    BY DEF IInv
<1> QED BY <1>1, Inductive, PTL

\* The backend is never left asleep beside a full buffer.
THEOREM FullBufferWakesHolds == Spec => []FullBufferWakes
<1>1. IInv => FullBufferWakes
    BY DEF IInv
<1> QED BY <1>1, Inductive, PTL
=============================================================================
