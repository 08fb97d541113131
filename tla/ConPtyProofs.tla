--------------------------- MODULE ConPtyProofs ---------------------------
(***************************************************************************)
(* What holds of ConPty for any number of chunks and bytes and any room in *)
(* the pipe: that threads end before what they use is closed, and that no  *)
(* byte is lost, doubled or reordered. And of OscStream, which observes    *)
(* the bytes that come out, for any writes and any limits: that the events *)
(* are those of the whole output, however it is cut.                       *)
(***************************************************************************)
EXTENDS ConPty, OscStream, FiniteSetTheorems, SequenceTheorems,
        WellFoundedInduction, TLAPS

-----------------------------------------------------------------------------
(* Threads and handles.                                                     *)

Readers == {"none", "check", "call", "inRead", "deliver", "notify", "leaving", "done"}
Writers == {"none", "wait", "asleep", "call", "inWrite", "done"}
Owners  == {"new", "up", "notify", "down"} \cup Stopping

\* stop() has joined a thread when it goes on to the next step.
Joined ==
  /\ owner \in {"joinWriter", "closeHandles", "down"} => reader \in {"none", "done"}
  /\ owner \in {"closeHandles", "down"} => writer \in {"none", "done"}
  /\ owner = "new" => open = {} /\ reader = "none" /\ writer = "none"

ThreadsInv ==
  /\ owner \in Owners /\ reader \in Readers /\ writer \in Writers
  /\ open \subseteq {"inputWrite", "outputRead", "hpc", "process"}
  /\ ThreadsBeforeHandles /\ Joined

\* No thread runs before start(), and nothing is open.
LEMMA ThreadsInit == Init => ThreadsInv
BY DEF Init, ThreadsInv, Owners, Readers, Writers, Stopping, ThreadsBeforeHandles, Joined

\* Every step keeps the threads of ConPty in order.
LEMMA ThreadsStep == ThreadsInv /\ [Next]_vars => ThreadsInv'
<1> SUFFICES ASSUME ThreadsInv, [Next]_vars PROVE ThreadsInv'
  OBVIOUS
<1> USE DEF ThreadsInv, Owners, Readers, Writers, Stopping, ThreadsBeforeHandles, Joined
<1>1. CASE Start \/ StartFails
  BY <1>1 DEF Start, StartFails
<1>2. CASE Write \/ WriteNotify \/ Stop
  BY <1>2 DEF Write, WriteNotify, Notify, Stop
<1>3. CASE Teardown
  <2>1. CASE StopKill \/ StopCancelRead \/ StopSet
    BY <2>1 DEF StopKill, StopCancelRead, StopSet
  <2>2. CASE StopNotify \/ StopCancelWrite
    BY <2>2 DEF StopNotify, Notify, StopCancelWrite
  <2>3. CASE StopJoinReader \/ StopJoinWriter \/ StopClose
    BY <2>3 DEF StopJoinReader, StopJoinWriter, StopClose
  <2> QED BY <1>3, <2>1, <2>2, <2>3 DEF Teardown
<1>4. CASE Reader
  <2>1. CASE ReaderCheck \/ ReaderCall \/ ReadReturns \/ ReaderLeave
    BY <2>1 DEF ReaderCheck, ReaderCall, ReadReturns, ReaderLeave
  <2>2. CASE Deliver \/ ReaderNotify
    BY <2>2 DEF Deliver, ReaderNotify, Notify
  <2> QED BY <1>4, <2>1, <2>2 DEF Reader
<1>5. CASE Writer
  BY <1>5 DEF Writer, WriterWait, WriterCall, WriteMoves, WriteReturns
<1>6. CASE World
  BY <1>6 DEF World, ConsolePrints, ConsoleReads, ShellExits, ConsoleLetsGo
<1>7. CASE UNCHANGED vars
  BY <1>7 DEF vars
<1> QED BY <1>1, <1>2, <1>3, <1>4, <1>5, <1>6, <1>7 DEF Next

\* ~ConPty(), stop(): no handle is closed, and no session torn down, while a
\* thread may still use it; and none is left open.
THEOREM ThreadsEndFirst == Spec => []ThreadsBeforeHandles
<1>1. ThreadsInv => ThreadsBeforeHandles
  BY DEF ThreadsInv
<1> QED BY ThreadsInit, ThreadsStep, <1>1, PTL DEF Spec

-----------------------------------------------------------------------------
(* Sequences.                                                               *)

\* A byte that goes from the front of one queue to the end of another.
LEMMA MoveHead ==
  ASSUME NEW S, NEW s \in Seq(S), NEW t \in Seq(S), t # <<>>
  PROVE  /\ Append(s, Head(t)) \in Seq(S) /\ Tail(t) \in Seq(S)
         /\ Append(s, Head(t)) \o Tail(t) = s \o t
<1>1. Head(t) \in S /\ Tail(t) \in Seq(S) /\ t = <<Head(t)>> \o Tail(t)
  BY HeadTailProperties
<1>2. <<Head(t)>> \in Seq(S)
  BY <1>1
<1>3. Append(s, Head(t)) = s \o <<Head(t)>>
  BY <1>1, AppendIsConcat
<1>4. (s \o <<Head(t)>>) \o Tail(t) = s \o (<<Head(t)>> \o Tail(t))
  BY <1>1, <1>2, ConcatAssociative
<1> QED BY <1>1, <1>3, <1>4, AppendProperties

\* An element at the end of the last of two.
LEMMA AppendLast ==
  ASSUME NEW S, NEW s \in Seq(S), NEW t \in Seq(S), NEW e \in S
  PROVE  s \o Append(t, e) = Append(s \o t, e)
<1>1. <<e>> \in Seq(S) /\ s \o t \in Seq(S)
  BY ConcatProperties
<1>2. /\ Append(t, e) = t \o <<e>>
      /\ Append(s \o t, e) = (s \o t) \o <<e>>
  BY <1>1, AppendIsConcat
<1> QED BY <1>1, <1>2, ConcatAssociative

-----------------------------------------------------------------------------
(* Output.                                                                  *)

OutTyped ==
  /\ chunk \in Seq(1..MaxOut) /\ outPipe \in Seq(1..MaxOut) /\ delivered \in Seq(1..MaxOut)
  /\ produced \in 0..MaxOut

\* A chunk waits only between a read and its delivery.
OutInv == OutTyped /\ OutputIntact /\ (reader # "deliver" => chunk = <<>>)

\* Nothing has come out.
LEMMA OutInit == Init => OutInv
BY PtyAssumption DEF Init, OutInv, OutTyped, OutputIntact

\* A step that touches nothing of the way out keeps it intact.
LEMMA OutUntouched ==
  ASSUME OutInv, UNCHANGED outVars, reader = "deliver" => reader' = "deliver"
  PROVE  OutInv'
BY DEF OutInv, OutTyped, OutputIntact, outVars

\* readerThread(): a read takes the oldest bytes of the pipe.
LEMMA ReadKeepsOut == ASSUME OutInv, ReadReturns PROVE OutInv'
<1>1. reader = "inRead" /\ chunk = <<>> /\ chunk' = outPipe /\ outPipe' = <<>>
  BY DEF ReadReturns, OutInv
<1>2. outPipe = <<>> \/ reader' = "deliver"
  BY DEF ReadReturns
<1>3. /\ delivered \o <<>> = delivered
      /\ delivered \o outPipe \in Seq(1..MaxOut)
      /\ (delivered \o outPipe) \o <<>> = delivered \o outPipe
  BY ConcatProperties, ConcatEmptySeq DEF OutInv, OutTyped
<1>4. OutTyped'
  BY <1>1 DEF ReadReturns, OutInv, OutTyped
<1> QED BY <1>1, <1>2, <1>3, <1>4 DEF ReadReturns, OutInv, OutputIntact

\* readerThread(): what was read is handed on.
LEMMA DeliverKeepsOut == ASSUME OutInv, Deliver PROVE OutInv'
<1>1. delivered' = delivered \o chunk /\ chunk' = <<>> /\ UNCHANGED <<outPipe, produced>>
  BY DEF Deliver
<1>2. /\ delivered \o chunk \in Seq(1..MaxOut)
      /\ (delivered \o chunk) \o <<>> = delivered \o chunk
  BY ConcatProperties, ConcatEmptySeq DEF OutInv, OutTyped
<1> QED BY <1>1, <1>2 DEF OutInv, OutTyped, OutputIntact

\* The console prints at the end of the pipe.
LEMMA PrintKeepsOut == ASSUME OutInv, ConsolePrints PROVE OutInv'
<1>1. /\ produced' = produced + 1 /\ outPipe' = Append(outPipe, produced + 1)
      /\ UNCHANGED <<chunk, delivered, reader>> /\ produced + 1 \in 1..MaxOut
  BY PtyAssumption DEF ConsolePrints, OutInv, OutTyped
<1>2. delivered \o chunk \in Seq(1..MaxOut)
  BY ConcatProperties DEF OutInv, OutTyped
<1>3. (delivered \o chunk) \o Append(outPipe, produced + 1)
        = Append((delivered \o chunk) \o outPipe, produced + 1)
  BY <1>1, <1>2, AppendLast DEF OutInv, OutTyped
<1>4. Append([i \in 1..produced |-> i], produced + 1) = [i \in 1..produced + 1 |-> i]
  BY DEF OutInv, OutTyped
<1>5. OutTyped'
  BY <1>1, AppendProperties DEF OutInv, OutTyped
<1> QED BY <1>1, <1>3, <1>4, <1>5 DEF OutInv, OutputIntact

\* Every step keeps the way out intact.
LEMMA OutStep == ThreadsInv /\ OutInv /\ [Next]_vars => OutInv'
<1> SUFFICES ASSUME ThreadsInv, OutInv, [Next]_vars PROVE OutInv'
  OBVIOUS
<1>1. CASE ReadReturns
  BY <1>1, ReadKeepsOut
<1>2. CASE Deliver
  BY <1>2, DeliverKeepsOut
<1>3. CASE ConsolePrints
  BY <1>3, PrintKeepsOut
<1>4. CASE Start \/ StartFails \/ Write \/ WriteNotify \/ Stop
  BY <1>4, OutUntouched
     DEF Start, StartFails, Write, WriteNotify, Stop, ThreadsInv, Joined
<1>5. CASE Teardown
  <2>1. UNCHANGED outVars /\ (reader = "deliver" => reader' = "deliver")
    BY <1>5 DEF Teardown, StopKill, StopCancelRead, StopSet, StopNotify,
                StopCancelWrite, StopJoinReader, StopJoinWriter, StopClose
  <2> QED BY <2>1, OutUntouched
<1>6. CASE ReaderCheck \/ ReaderCall \/ ReaderNotify \/ ReaderLeave
  BY <1>6, OutUntouched DEF ReaderCheck, ReaderCall, ReaderNotify, ReaderLeave
<1>7. CASE Writer
  BY <1>7, OutUntouched DEF Writer, WriterWait, WriterCall, WriteMoves, WriteReturns
<1>8. CASE ConsoleReads \/ ShellExits \/ ConsoleLetsGo
  BY <1>8, OutUntouched DEF ConsoleReads, ShellExits, ConsoleLetsGo
<1>9. CASE UNCHANGED vars
  BY <1>9, OutUntouched DEF vars
<1> QED
  BY <1>1, <1>2, <1>3, <1>4, <1>5, <1>6, <1>7, <1>8, <1>9 DEF Next, Reader, World

-----------------------------------------------------------------------------
(* Input.                                                                   *)

InTyped ==
  /\ writeQueue \in Seq(1..MaxIn) /\ pending \in Seq(1..MaxIn)
  /\ inPipe \in Seq(1..MaxIn) /\ received \in Seq(1..MaxIn) /\ accepted \in Seq(1..MaxIn)

\* What has left the queue, in the order write() took it.
Gone == received \o inPipe \o pending

\* Of what was accepted, that comes first; the rest is still in the queue until
\* stop() throws the queue away.  The writer takes the queue only with nothing in
\* its hands, and nobody adds to it after stop().
InInv ==
  /\ InTyped
  /\ writer \in {"none", "wait", "asleep"} => pending = <<>>
  /\ writeStop \in BOOLEAN /\ (writeStop => writeQueue = <<>>)
  /\ \E rest \in Seq(1..MaxIn) :
       Gone \o rest = accepted /\ (~writeStop => rest = writeQueue)

\* Nothing has been written.
LEMMA InInit == Init => InInv
<1> SUFFICES ASSUME Init PROVE InInv
  OBVIOUS
<1>1. <<>> \in Seq(1..MaxIn) /\ <<>> \o <<>> = <<>>
  BY ConcatEmptySeq
<1> QED BY <1>1 DEF Init, InInv, InTyped, Gone

\* A step that touches nothing of the way in keeps it intact.
LEMMA InUntouched ==
  ASSUME InInv, UNCHANGED <<inVars, writeStop>>,
         writer' \in {"none", "wait", "asleep"} => writer \in {"none", "wait", "asleep"}
  PROVE  InInv'
BY DEF InInv, InTyped, Gone, inVars

\* A step after which the same bytes have left the queue, which is as long as it
\* was or, with stop(), empty.
LEMMA GoneAsBefore ==
  ASSUME InInv, InTyped', Gone' = Gone, UNCHANGED accepted,
         writer' \in {"none", "wait", "asleep"} => pending' = <<>>,
         \/ UNCHANGED <<writeStop, writeQueue>>
         \/ writeStop' = TRUE /\ writeQueue' = <<>>
  PROVE  InInv'
<1>1. PICK rest \in Seq(1..MaxIn) :
        Gone \o rest = accepted /\ (~writeStop => rest = writeQueue)
  BY DEF InInv
<1>2. Gone' \o rest = accepted'
  BY <1>1
<1>3. CASE UNCHANGED <<writeStop, writeQueue>>
  BY <1>1, <1>2, <1>3 DEF InInv
<1>4. CASE writeStop' = TRUE /\ writeQueue' = <<>>
  BY <1>2, <1>4 DEF InInv
<1> QED BY <1>3, <1>4

\* write() from either thread.
LEMMA EnqueueKeepsIn ==
  ASSUME InInv, ~writeStop, Enqueue, UNCHANGED <<writer, writeStop>> PROVE InInv'
<1>1. /\ Len(accepted) + 1 \in 1..MaxIn
      /\ accepted' = Append(accepted, Len(accepted) + 1)
      /\ writeQueue' = Append(writeQueue, Len(accepted) + 1)
      /\ UNCHANGED <<pending, inPipe, received>>
  BY PtyAssumption, LenProperties DEF Enqueue, InInv, InTyped
<1>2. Gone \in Seq(1..MaxIn) /\ Gone' = Gone
  BY <1>1, ConcatProperties DEF InInv, InTyped, Gone
<1>3. Gone \o writeQueue = accepted
  BY DEF InInv
<1>4. InTyped'
  BY <1>1, AppendProperties DEF InInv, InTyped
<1>5. Gone' \o writeQueue' = accepted'
  BY <1>1, <1>2, <1>3, AppendLast DEF InInv, InTyped
<1> QED BY <1>1, <1>4, <1>5 DEF InInv, InTyped

\* The writer takes the whole queue.
LEMMA TakeKeepsIn == ASSUME InInv, WriterWait PROVE InInv'
<1>1. /\ pending = <<>> /\ pending' = writeQueue /\ writeQueue' = <<>>
      /\ UNCHANGED <<inPipe, received, accepted, writeStop>>
      /\ (writer' \in {"none", "wait", "asleep"} => writeQueue = <<>>)
  BY DEF WriterWait, InInv
<1>2. PICK rest \in Seq(1..MaxIn) :
        Gone \o rest = accepted /\ (~writeStop => rest = writeQueue)
  BY DEF InInv
<1> DEFINE before == received \o inPipe
<1>3. before \in Seq(1..MaxIn) /\ before \o <<>> = before
  BY ConcatProperties, ConcatEmptySeq DEF InInv, InTyped
<1>4. Gone = before
  BY <1>1, <1>3 DEF Gone
<1>5. Gone' = before \o writeQueue
  BY <1>1 DEF Gone
<1>6. InTyped' /\ <<>> \in Seq(1..MaxIn)
  BY <1>1 DEF InInv, InTyped
<1> HIDE DEF before
<1>7. CASE writeStop
  <2>1. Gone' \o rest = accepted'
    BY <1>1, <1>2, <1>3, <1>4, <1>5, <1>7 DEF InInv
  <2> QED BY <1>1, <1>6, <1>7, <2>1 DEF InInv
<1>8. CASE ~writeStop
  <2>1. before \o writeQueue \in Seq(1..MaxIn)
    BY <1>3, ConcatProperties DEF InInv, InTyped
  <2>2. Gone' \o <<>> = accepted'
    BY <1>1, <1>2, <1>4, <1>5, <1>8, <2>1, ConcatEmptySeq
  <2> QED BY <1>1, <1>6, <1>8, <2>2 DEF InInv
<1> QED BY <1>7, <1>8 DEF InInv

\* A byte goes into the pipe, or out of it to the console.
LEMMA MoveKeepsIn ==
  ASSUME InInv, WriteMoves \/ ConsoleReads PROVE InInv'
<1>1. UNCHANGED <<writer, writeStop, writeQueue, accepted>>
  BY DEF WriteMoves, ConsoleReads
<1>2. CASE WriteMoves
  <2>1. /\ writer = "inWrite" /\ pending # <<>> /\ received' = received
        /\ inPipe' = Append(inPipe, Head(pending)) /\ pending' = Tail(pending)
    BY <1>2 DEF WriteMoves
  <2>2. inPipe' \in Seq(1..MaxIn) /\ pending' \in Seq(1..MaxIn)
        /\ inPipe' \o pending' = inPipe \o pending
    BY <2>1, MoveHead DEF InInv, InTyped
  <2>3. Gone' = Gone
    <3>1. InTyped
      BY DEF InInv
    <3>2. Gone = received \o (inPipe \o pending)
      BY <3>1, ConcatAssociative DEF InTyped, Gone
    <3>3. received \in Seq(1..MaxIn) /\ inPipe' \in Seq(1..MaxIn) /\ pending' \in Seq(1..MaxIn)
      BY <2>2, <3>1 DEF InTyped
    <3>4. (received \o inPipe') \o pending' = received \o (inPipe' \o pending')
      BY <3>3, ConcatAssociative
    <3> QED BY <2>1, <2>2, <3>2, <3>4 DEF Gone
  <2>4. InTyped' /\ (writer' \in {"none", "wait", "asleep"} => pending' = <<>>)
    BY <1>1, <2>1, <2>2 DEF InInv, InTyped
  <2> QED BY <1>1, <2>3, <2>4, GoneAsBefore
<1>3. CASE ConsoleReads
  <2>1. /\ inPipe # <<>> /\ pending' = pending
        /\ received' = Append(received, Head(inPipe)) /\ inPipe' = Tail(inPipe)
    BY <1>3 DEF ConsoleReads
  <2>2. received' \in Seq(1..MaxIn) /\ inPipe' \in Seq(1..MaxIn)
        /\ received' \o inPipe' = received \o inPipe
    <3>1. received \in Seq(1..MaxIn) /\ inPipe \in Seq(1..MaxIn)
      BY DEF InInv, InTyped
    <3>2. /\ Append(received, Head(inPipe)) \in Seq(1..MaxIn) /\ Tail(inPipe) \in Seq(1..MaxIn)
          /\ Append(received, Head(inPipe)) \o Tail(inPipe) = received \o inPipe
      BY <2>1, <3>1, MoveHead
    <3> QED BY <2>1, <3>2
  <2>3. Gone' = Gone
    BY <2>1, <2>2 DEF Gone
  <2>4. InTyped' /\ (writer' \in {"none", "wait", "asleep"} => pending' = <<>>)
    BY <1>1, <2>1, <2>2 DEF InInv, InTyped
  <2> QED BY <1>1, <2>3, <2>4, GoneAsBefore
<1> QED BY <1>2, <1>3

\* stop() empties the queue: what was in it is the rest.
LEMMA StopKeepsIn == ASSUME InInv, StopSet PROVE InInv'
<1>1. InTyped' /\ Gone' = Gone /\ UNCHANGED <<accepted, writer, pending>>
  BY DEF StopSet, InInv, InTyped, Gone
<1>2. writeStop' = TRUE /\ writeQueue' = <<>>
  BY DEF StopSet
<1> QED BY <1>1, <1>2, GoneAsBefore DEF InInv

\* Every step keeps the way in intact.
LEMMA InStep == ThreadsInv /\ InInv /\ [Next]_vars => InInv'
<1> SUFFICES ASSUME ThreadsInv, InInv, [Next]_vars PROVE InInv'
  OBVIOUS
<1>1. CASE Start \/ StartFails \/ Stop
  BY <1>1, InUntouched DEF Start, StartFails, Stop, ThreadsInv, Joined
<1>2. CASE Write
  BY <1>2, EnqueueKeepsIn DEF Write
<1>3. CASE WriteNotify \/ StopNotify \/ ReaderNotify
  <2>1. UNCHANGED <<inVars, writeStop>> /\ Notify
    BY <1>3 DEF WriteNotify, StopNotify, ReaderNotify
  <2> QED BY <2>1, InUntouched DEF Notify
<1>4. CASE StopSet
  BY <1>4, StopKeepsIn
<1>5. CASE StopKill \/ StopCancelRead \/ StopCancelWrite \/ StopJoinReader
           \/ StopJoinWriter \/ StopClose
  BY <1>5, InUntouched DEF StopKill, StopCancelRead, StopCancelWrite, StopJoinReader,
                           StopJoinWriter, StopClose
<1>6. CASE Deliver
  BY <1>6, EnqueueKeepsIn, InUntouched DEF Deliver
<1>7. CASE ReaderCheck \/ ReaderCall \/ ReadReturns \/ ReaderLeave
  BY <1>7, InUntouched DEF ReaderCheck, ReaderCall, ReadReturns, ReaderLeave
<1>8. CASE WriterWait
  BY <1>8, TakeKeepsIn
<1>9. CASE WriterCall
  BY <1>9, InUntouched DEF WriterCall
<1>10. CASE WriteMoves \/ ConsoleReads
  BY <1>10, MoveKeepsIn
<1>11. CASE WriteReturns
  BY <1>11 DEF WriteReturns, InInv, InTyped, Gone, inVars
<1>12. CASE ConsolePrints \/ ShellExits \/ ConsoleLetsGo
  BY <1>12, InUntouched DEF ConsolePrints, ShellExits, ConsoleLetsGo
<1>13. CASE UNCHANGED vars
  BY <1>13, InUntouched DEF vars
<1> QED
  BY <1>1, <1>2, <1>3, <1>4, <1>5, <1>6, <1>7, <1>8, <1>9, <1>10, <1>11, <1>12, <1>13
     DEF Next, Teardown, Reader, Writer, World

-----------------------------------------------------------------------------
\* The flags.
FlagsInv ==
  running \in BOOLEAN /\ exited \in BOOLEAN /\ shell \in BOOLEAN /\ console \in BOOLEAN

\* Every step keeps the flags Booleans.
LEMMA FlagsStep == FlagsInv /\ [Next]_vars => FlagsInv'
<1> SUFFICES ASSUME FlagsInv, [Next]_vars PROVE FlagsInv'
  OBVIOUS
<1> USE DEF FlagsInv, worldVars
<1>1. CASE Start \/ StartFails \/ Write \/ WriteNotify \/ Stop
  BY <1>1, Zenon DEF Start, StartFails, Write, WriteNotify, Stop
<1>2. CASE Teardown
  BY <1>2, Zenon
     DEF Teardown, StopKill, StopCancelRead, StopSet, StopNotify, StopCancelWrite,
         StopJoinReader, StopJoinWriter, StopClose
<1>3. CASE Reader
  BY <1>3, Zenon
     DEF Reader, ReaderCheck, ReaderCall, ReadReturns, Deliver, ReaderNotify, ReaderLeave
<1>4. CASE Writer
  BY <1>4, Zenon DEF Writer, WriterWait, WriterCall, WriteMoves, WriteReturns
<1>5. CASE World
  BY <1>5, Zenon DEF World, ConsolePrints, ConsoleReads, ShellExits, ConsoleLetsGo
<1>6. CASE UNCHANGED vars
  BY <1>6 DEF vars
<1> QED BY <1>1, <1>2, <1>3, <1>4, <1>5, <1>6 DEF Next

\* What has left the queue is a beginning of what was accepted.
LEMMA InIntact == ASSUME InInv PROVE InputIntact
<1>1. PICK rest \in Seq(1..MaxIn) :
        Gone \o rest = accepted /\ (~writeStop => rest = writeQueue)
  BY DEF InInv
<1>2. Gone \in Seq(1..MaxIn)
  BY ConcatProperties DEF InInv, InTyped, Gone
<1>3. Len(Gone) \in 0..Len(accepted)
  BY <1>1, <1>2, ConcatProperties, LenProperties
<1>4. SubSeq(accepted, 1, Len(Gone)) = Gone
  <2>1. CASE Gone = <<>>
    BY <2>1, SubSeqEmpty
  <2>2. CASE Gone # <<>>
    <3>1. Len(Gone) \in 1..Len(Gone) /\ 1 \in 1..Len(Gone)
      BY <1>2, <2>2, EmptySeq, LenProperties
    <3> HIDE DEF Gone
    <3>2. SubSeq(Gone \o rest, 1, Len(Gone)) = SubSeq(Gone, 1, Len(Gone))
      BY <1>2, <3>1, SubSeqOfConcat1
    <3> QED BY <1>1, <1>2, <3>2, SubSeqFull
  <2> QED BY <2>1, <2>2
<1> QED BY <1>1, <1>3, <1>4 DEF InputIntact, Gone

\* The parts of the invariant give every variable its type.
LEMMA TypesAre == ThreadsInv /\ OutInv /\ InInv /\ FlagsInv => TypeOK
BY DEF ThreadsInv, Owners, Readers, Writers, OutInv, OutTyped, InInv, InTyped, FlagsInv,
       TypeOK

\* ConPty.cpp as a whole, with every thread at any place: nothing the console
\* prints and nothing write() accepts is lost, doubled or reordered, but for what
\* stop() throws away.
THEOREM BytesStayIntact == Spec => []BytesIntact
<1>1. Init => FlagsInv
  BY DEF Init, FlagsInv
<1>2. ThreadsInv /\ OutInv /\ InInv /\ FlagsInv => BytesIntact
  BY TypesAre, InIntact DEF BytesIntact, OutInv
<1> QED
  BY ThreadsInit, ThreadsStep, OutInit, OutStep, InInit, InStep, <1>1, FlagsStep, <1>2,
     PTL DEF Spec

-----------------------------------------------------------------------------
(* Recursive functions: one with the equations exists.                      *)

\* Among numbers there is a least.
LEMMA LeastNumber ==
  ASSUME NEW S \in SUBSET Nat, S # {} PROVE \E m \in S : \A k \in S : m <= k
<1> DEFINE Less == {ss \in Nat \X Nat : ss[1] < ss[2]}
<1>1. IsWellFoundedOn(Less, Nat)
  BY NatLessThanWellFounded DEF OpToRel
<1>2. \A y, x \in S : <<y, x>> \notin Less => x <= y
  OBVIOUS
<1> HIDE DEF Less
<1>3. \E x \in S : \A y \in S : ~(<<y, x>> \in Less)
  BY <1>1, WFMin
<1> QED
  BY <1>2, <1>3

\* What Ends says of i, given what it says of later places.
EndWith(s, f, i) ==
  IF i > Len(s) THEN 0
  ELSE IF s[i] = "BEL" THEN i
  ELSE IF s[i] # "ESC" THEN f[i + 1]
  ELSE IF i < Len(s) /\ s[i + 1] = "\\" THEN i + 1
  ELSE f[i + 2]

\* f has the equations from k on.
EndsFrom(s, f, k) == \A i \in k..Len(s) + 2 : f[i] = EndWith(s, f, i)

\* They can be met from any place on.
LEMMA EndsExist ==
  ASSUME NEW s \in Seq(Chars), NEW m \in 0..Len(s) + 1
  PROVE  \E f : EndsFrom(s, f, Len(s) + 2 - m)
<1> DEFINE n == Len(s)
           bad == {j \in 0..n + 1 : ~\E f : EndsFrom(s, f, n + 2 - j)}
<1>1. n \in Nat
  OBVIOUS
<1>2. ASSUME bad # {} PROVE FALSE
  <2>1. bad \in SUBSET Nat
    BY <1>1
  <2>2. PICK j \in bad : \A k \in bad : j <= k
    <3> HIDE DEF bad
    <3> QED
      BY <1>2, <2>1, LeastNumber
  <2>3. j \in 0..n + 1 /\ ~\E f : EndsFrom(s, f, n + 2 - j)
    OBVIOUS
  <2>4. CASE j = 0
    <3> DEFINE f == [i \in 1..n + 2 |-> 0]
    <3>1. f[n + 2] = 0 /\ n + 2 > n
      BY <1>1
    <3>2. \A i \in n + 2 - 0..n + 2 : i = n + 2
      BY <1>1
    <3>3. EndsFrom(s, f, n + 2 - 0)
      BY <3>1, <3>2 DEF EndsFrom, EndWith
    <3> QED
      BY <2>3, <2>4, <3>3
  <2>5. CASE j # 0
    <3>1. j - 1 \in 0..n + 1 /\ j - 1 \notin bad
      <4> HIDE DEF bad
      <4> QED
        BY <1>1, <2>2, <2>3, <2>5
    <3>2. PICK f : EndsFrom(s, f, n + 2 - (j - 1))
      BY <3>1
    <3> DEFINE k == n + 2 - j
               g == [i \in 1..n + 2 |-> IF i = k THEN EndWith(s, f, k) ELSE f[i]]
    <3>3. k \in 1..n + 1 /\ n + 2 - (j - 1) = k + 1 /\ k \in Nat
      BY <1>1, <2>3, <2>5
    <3>4. \A i \in k + 1..n + 2 : f[i] = EndWith(s, f, i)
      BY <3>2, <3>3 DEF EndsFrom
    <3>5. \A i \in k + 1..n + 2 : g[i] = f[i]
      BY <1>1, <3>3
    <3>6. g[k] = EndWith(s, f, k)
      BY <1>1, <3>3
    <3> HIDE DEF g
    <3>7. ASSUME NEW i \in k..n + 2 PROVE EndWith(s, g, i) = EndWith(s, f, i)
      <4>1. CASE i > n
        BY <4>1, <1>1, <3>3 DEF EndWith
      <4>2. CASE i <= n
        <5>1. i + 1 \in k + 1..n + 2 /\ i + 2 \in k + 1..n + 2
          BY <4>2, <1>1, <3>3
        <5> QED
          BY <3>5, <5>1 DEF EndWith
      <4> QED
        BY <4>1, <4>2, <1>1, <3>3
    <3>8. \A i \in k..n + 2 : i = k \/ i \in k + 1..n + 2
      BY <1>1, <3>3
    <3>9. EndsFrom(s, g, k)
      BY <3>4, <3>5, <3>6, <3>7, <3>8 DEF EndsFrom
    <3> QED
      BY <2>3, <3>9
  <2> QED
    BY <2>4, <2>5
<1> QED
  BY <1>1, <1>2

\* A table of the values f gives.
EndTable(s, f) == [i \in 1..Len(s) + 2 |-> EndWith(s, f, i)]

\* Ends(s) has the equations it was defined by.
LEMMA EndsEquation ==
  ASSUME NEW s \in Seq(Chars), NEW i \in 1..Len(s) + 2
  PROVE  Ends(s)[i] = EndWith(s, Ends(s), i)
<1> DEFINE n == Len(s)
           e == CHOOSE f : f = EndTable(s, f)
<1>1. n \in Nat
  OBVIOUS
<1>2. \E f : f = EndTable(s, f)
  <2>1. n + 1 \in 0..n + 1 /\ n + 2 - (n + 1) = 1
    BY <1>1
  <2>2. PICK f : EndsFrom(s, f, 1)
    <3>1. \E f : EndsFrom(s, f, n + 2 - (n + 1))
      BY <2>1, EndsExist
    <3> QED
      BY <2>1, <3>1
  <2> DEFINE g == [j \in 1..n + 2 |-> f[j]]
  <2>3. \A j \in 1..n + 2 : g[j] = f[j]
    OBVIOUS
  <2>4. g = [j \in 1..n + 2 |-> g[j]]
    OBVIOUS
  <2> HIDE DEF g
  <2>5. ASSUME NEW j \in 1..n + 2 PROVE g[j] = EndWith(s, g, j)
    <3>1. f[j] = EndWith(s, f, j)
      BY <2>2 DEF EndsFrom
    <3>2. CASE j > n
      BY <2>3, <3>1, <3>2 DEF EndWith
    <3>3. CASE j <= n
      <4>1. j + 1 \in 1..n + 2 /\ j + 2 \in 1..n + 2
        BY <1>1, <3>3
      <4> QED
        BY <2>3, <3>1, <4>1 DEF EndWith
    <3> QED
      BY <1>1, <3>2, <3>3
  <2>6. g = EndTable(s, g)
    BY <2>4, <2>5 DEF EndTable
  <2> QED
    BY <2>6
<1>3. e = EndTable(s, e)
  BY <1>2
<1>4. Ends(s) = e
  BY DEF Ends, EndTable, EndWith
<1> HIDE DEF e
<1> QED
  BY <1>3, <1>4 DEF EndTable

\* An end lies in the output and behind the place it is asked of.
LEMMA EndsInside ==
  ASSUME NEW s \in Seq(Chars), NEW i \in 1..Len(s) + 2
  PROVE  Ends(s)[i] = 0 \/ Ends(s)[i] \in i..Len(s)
<1> DEFINE n == Len(s)
           E == Ends(s)
           Fine(j) == E[j] = 0 \/ E[j] \in j..n
           bad == {m \in 0..n + 1 : ~Fine(n + 2 - m)}
<1>1. n \in Nat /\ s \in [1..n -> Chars]
  OBVIOUS
<1>2. \A j \in 1..n + 2 : E[j] = EndWith(s, E, j)
  BY EndsEquation
<1> HIDE DEF E
<1>3. ASSUME bad # {} PROVE FALSE
  <2>1. bad \in SUBSET Nat
    BY <1>1
  <2>2. PICK m \in bad : \A k \in bad : m <= k
    <3> HIDE DEF bad
    <3> QED
      BY <1>3, <2>1, LeastNumber
  <2>3. m \in 0..n + 1 /\ ~Fine(n + 2 - m)
    OBVIOUS
  <2>4. PICK j : j = n + 2 - m
    OBVIOUS
  <2>5. j \in 1..n + 2 /\ j \in Nat /\ ~Fine(j)
    BY <1>1, <2>3, <2>4
  <2>6. \A k \in j + 1..n + 2 : Fine(k)
    <3> SUFFICES ASSUME NEW k \in j + 1..n + 2, ~Fine(k) PROVE FALSE
      OBVIOUS
    <3>1. n + 2 - k \in 0..n + 1 /\ n + 2 - (n + 2 - k) = k /\ n + 2 - k < m
      BY <1>1, <2>3, <2>4, <2>5
    <3>2. n + 2 - k \in bad
      BY <3>1
    <3> HIDE DEF bad
    <3> QED
      BY <2>1, <2>2, <3>1, <3>2
  <2>7. E[j] = EndWith(s, E, j)
    BY <1>2, <2>5
  <2>8. CASE j > n
    BY <2>5, <2>7, <2>8 DEF EndWith
  <2>9. CASE j <= n
    <3>1. j + 1 \in j + 1..n + 2 /\ j + 2 \in j + 1..n + 2
      BY <1>1, <2>5, <2>9
    <3>2. Fine(j + 1) /\ Fine(j + 2)
      BY <2>6, <3>1
    <3>3. E[j] \in {j, j + 1, E[j + 1], E[j + 2]} /\ (E[j] = j + 1 => j < n \/ E[j] \in {E[j + 1], E[j + 2]})
      BY <1>1, <2>5, <2>7, <2>9 DEF EndWith
    <3> QED
      BY <1>1, <2>5, <2>9, <3>2, <3>3
  <2> QED
    BY <1>1, <2>5, <2>8, <2>9
<1>4. PICK m : m = n + 2 - i
  OBVIOUS
<1>5. m \in 0..n + 1 /\ n + 2 - m = i
  BY <1>1, <1>4
<1> QED
  BY <1>3, <1>5 DEF E

\* What Events says of i, given what it says of later places.
EventsWith(s, f, i) ==
  IF i >= Len(s) THEN <<>>
  ELSE IF s[i] = "ESC" /\ s[i + 1] = "]"
       THEN LET e == Ends(s)[i + 2]
            IN IF e = 0 THEN <<>> ELSE SaidIn(s, i + 2, e) \o f[e + 1]
       ELSE f[i + 1]

\* f has the equations from k on.
EventsFrom(s, f, k) == \A i \in k..Len(s) + 1 : f[i] = EventsWith(s, f, i)

\* An open OSC's end, looked up at i, is later.
LEMMA EndLater ==
  ASSUME NEW s \in Seq(Chars), NEW i \in 1..Len(s), i < Len(s)
  PROVE  LET e == Ends(s)[i + 2]
         IN e = 0 \/ e + 1 \in i + 1..Len(s) + 1
<1>1. Len(s) \in Nat /\ i + 2 \in 1..Len(s) + 2
  OBVIOUS
<1>2. Ends(s)[i + 2] = 0 \/ Ends(s)[i + 2] \in i + 2..Len(s)
  BY <1>1, EndsInside
<1> QED
  BY <1>1, <1>2

\* What is said of i depends on later places only.
LEMMA EventsSame ==
  ASSUME NEW s \in Seq(Chars), NEW f, NEW g, NEW i \in 1..Len(s) + 1,
         \A j \in i + 1..Len(s) + 1 : f[j] = g[j]
  PROVE  EventsWith(s, f, i) = EventsWith(s, g, i)
<1>1. Len(s) \in Nat
  OBVIOUS
<1>2. CASE i >= Len(s)
  BY <1>2 DEF EventsWith
<1>3. CASE i < Len(s)
  <2>1. i + 1 \in i + 1..Len(s) + 1
    BY <1>1, <1>3
  <2>2. Ends(s)[i + 2] = 0 \/ Ends(s)[i + 2] + 1 \in i + 1..Len(s) + 1
    BY <1>1, <1>3, EndLater
  <2>3. f[i + 1] = g[i + 1]
    BY <2>1
  <2>4. Ends(s)[i + 2] = 0 \/ f[Ends(s)[i + 2] + 1] = g[Ends(s)[i + 2] + 1]
    BY <2>2
  <2> QED
    BY <2>3, <2>4 DEF EventsWith
<1> QED
  BY <1>1, <1>2, <1>3

\* They can be met from any place on.
LEMMA EventsExist ==
  ASSUME NEW s \in Seq(Chars), NEW m \in 0..Len(s)
  PROVE  \E f : EventsFrom(s, f, Len(s) + 1 - m)
<1> DEFINE n == Len(s)
           bad == {j \in 0..n : ~\E f : EventsFrom(s, f, n + 1 - j)}
<1>1. n \in Nat
  OBVIOUS
<1>2. ASSUME bad # {} PROVE FALSE
  <2>1. bad \in SUBSET Nat
    BY <1>1
  <2>2. PICK j \in bad : \A k \in bad : j <= k
    <3> HIDE DEF bad
    <3> QED
      BY <1>2, <2>1, LeastNumber
  <2>3. j \in 0..n /\ ~\E f : EventsFrom(s, f, n + 1 - j)
    OBVIOUS
  <2>4. CASE j = 0
    <3> DEFINE f == [i \in 1..n + 1 |-> <<>>]
    <3>1. f[n + 1] = <<>> /\ n + 1 >= n
      BY <1>1
    <3>2. \A i \in n + 1 - 0..n + 1 : i = n + 1
      BY <1>1
    <3>3. EventsFrom(s, f, n + 1 - 0)
      BY <3>1, <3>2 DEF EventsFrom, EventsWith
    <3> QED
      BY <2>3, <2>4, <3>3
  <2>5. CASE j # 0
    <3>1. j - 1 \in 0..n /\ j - 1 \notin bad
      <4> HIDE DEF bad
      <4> QED
        BY <1>1, <2>2, <2>3, <2>5
    <3>2. PICK f : EventsFrom(s, f, n + 1 - (j - 1))
      BY <3>1
    <3> DEFINE k == n + 1 - j
               g == [i \in 1..n + 1 |-> IF i = k THEN EventsWith(s, f, k) ELSE f[i]]
    <3>3. k \in 1..n /\ n + 1 - (j - 1) = k + 1 /\ k \in Nat
      BY <1>1, <2>3, <2>5
    <3>4. \A i \in k + 1..n + 1 : f[i] = EventsWith(s, f, i)
      BY <3>2, <3>3 DEF EventsFrom
    <3>5. \A i \in k + 1..n + 1 : g[i] = f[i]
      BY <1>1, <3>3
    <3>6. g[k] = EventsWith(s, f, k)
      BY <1>1, <3>3
    <3> HIDE DEF g
    <3>7. ASSUME NEW i \in k..n + 1 PROVE EventsWith(s, g, i) = EventsWith(s, f, i)
      <4>1. i \in 1..n + 1 /\ \A o \in i + 1..n + 1 : o \in k + 1..n + 1
        BY <1>1, <3>3
      <4>2. \A o \in i + 1..n + 1 : g[o] = f[o]
        BY <3>5, <4>1
      <4> QED
        BY <4>1, <4>2, EventsSame
    <3>8. \A i \in k..n + 1 : i = k \/ i \in k + 1..n + 1
      BY <1>1, <3>3
    <3>9. EventsFrom(s, g, k)
      BY <3>4, <3>5, <3>6, <3>7, <3>8 DEF EventsFrom
    <3> QED
      BY <2>3, <3>9
  <2> QED
    BY <2>4, <2>5
<1> QED
  BY <1>1, <1>2

\* A table of the values f gives.
EventsTable(s, f) == [i \in 1..Len(s) + 1 |-> EventsWith(s, f, i)]

\* Events(s) has the equations it was defined by.
LEMMA EventsEquation ==
  ASSUME NEW s \in Seq(Chars), NEW i \in 1..Len(s) + 1
  PROVE  Events(s)[i] = EventsWith(s, Events(s), i)
<1> DEFINE n == Len(s)
           e == CHOOSE f : f = EventsTable(s, f)
<1>1. n \in Nat
  OBVIOUS
<1>2. \E f : f = EventsTable(s, f)
  <2>1. n \in 0..n /\ n + 1 - n = 1
    BY <1>1
  <2>2. PICK f : EventsFrom(s, f, 1)
    <3>1. \E f : EventsFrom(s, f, n + 1 - n)
      BY <2>1, EventsExist
    <3> QED
      BY <2>1, <3>1
  <2> DEFINE g == [j \in 1..n + 1 |-> f[j]]
  <2>3. \A j \in 1..n + 1 : g[j] = f[j]
    OBVIOUS
  <2>4. g = [j \in 1..n + 1 |-> g[j]]
    OBVIOUS
  <2> HIDE DEF g
  <2>5. ASSUME NEW j \in 1..n + 1 PROVE g[j] = EventsWith(s, g, j)
    <3>1. f[j] = EventsWith(s, f, j)
      BY <2>2 DEF EventsFrom
    <3>2. \A o \in j + 1..n + 1 : f[o] = g[o]
      BY <1>1, <2>3
    <3>3. EventsWith(s, f, j) = EventsWith(s, g, j)
      BY <3>2, EventsSame
    <3> QED
      BY <2>3, <3>1, <3>3
  <2>6. g = EventsTable(s, g)
    BY <2>4, <2>5 DEF EventsTable
  <2> QED
    BY <2>6
<1>3. e = EventsTable(s, e)
  BY <1>2
<1>4. Events(s) = e
  BY DEF Events, EventsTable, EventsWith
<1> HIDE DEF e
<1> QED
  BY <1>3, <1>4 DEF EventsTable

-----------------------------------------------------------------------------
\* The observers of a write: what comes after i characters of it.
ObserverWith(data, f, i) ==
  IF i = 0 THEN ObserverNow ELSE Fed(f[i - 1], data[i])

ObserversTo(data, f, k) == \A i \in 0..k : f[i] = ObserverWith(data, f, i)

\* The equations can be met up to any place.
LEMMA ObserversExist ==
  ASSUME NEW data \in Seq(Chars), NEW m \in 0..Len(data)
  PROVE  \E f : ObserversTo(data, f, m)
<1> DEFINE n == Len(data)
           bad == {j \in 0..n : ~\E f : ObserversTo(data, f, j)}
<1>1. n \in Nat
  OBVIOUS
<1>2. ASSUME bad # {} PROVE FALSE
  <2>1. bad \in SUBSET Nat
    BY <1>1
  <2>2. PICK j \in bad : \A k \in bad : j <= k
    <3> HIDE DEF bad
    <3> QED
      BY <1>2, <2>1, LeastNumber
  <2>3. j \in 0..n /\ ~\E f : ObserversTo(data, f, j)
    OBVIOUS
  <2>4. CASE j = 0
    <3> DEFINE f == [i \in 0..n |-> ObserverNow]
    <3>1. f[0] = ObserverNow
      BY <1>1
    <3>2. \A i \in 0..0 : i = 0
      OBVIOUS
    <3>3. ObserversTo(data, f, 0)
      BY <3>1, <3>2 DEF ObserversTo, ObserverWith
    <3> QED
      BY <2>3, <2>4, <3>3
  <2>5. CASE j # 0
    <3>1. j - 1 \in 0..n /\ j - 1 \notin bad
      <4> HIDE DEF bad
      <4> QED
        BY <1>1, <2>2, <2>3, <2>5
    <3>2. PICK f : ObserversTo(data, f, j - 1)
      BY <3>1
    <3> DEFINE g == [i \in 0..n |-> IF i = j THEN ObserverWith(data, f, j) ELSE f[i]]
    <3>3. j \in 1..n /\ j \in Nat
      BY <1>1, <2>3, <2>5
    <3>4. \A i \in 0..j - 1 : f[i] = ObserverWith(data, f, i)
      BY <3>2 DEF ObserversTo
    <3>5. \A i \in 0..j - 1 : g[i] = f[i]
      BY <1>1, <3>3
    <3>6. g[j] = ObserverWith(data, f, j)
      BY <1>1, <3>3
    <3> HIDE DEF g
    <3>7. ASSUME NEW i \in 0..j PROVE ObserverWith(data, g, i) = ObserverWith(data, f, i)
      <4>1. CASE i = 0
        BY <4>1 DEF ObserverWith
      <4>2. CASE i # 0
        <5>1. i - 1 \in 0..j - 1
          BY <4>2, <3>3
        <5> QED
          BY <3>5, <5>1, <4>2 DEF ObserverWith
      <4> QED
        BY <4>1, <4>2
    <3>8. \A i \in 0..j : i = j \/ i \in 0..j - 1
      BY <3>3
    <3>9. ObserversTo(data, g, j)
      BY <3>4, <3>5, <3>6, <3>7, <3>8 DEF ObserversTo
    <3> QED
      BY <2>3, <3>9
  <2> QED
    BY <2>4, <2>5
<1> QED
  BY <1>1, <1>2

\* A table of the observers f gives.
ObserverTable(data, f) == [i \in 0..Len(data) |-> ObserverWith(data, f, i)]

\* Observers(data) has the equations it was defined by.
LEMMA ObserversEquation ==
  ASSUME NEW data \in Seq(Chars), NEW i \in 0..Len(data)
  PROVE  Observers(data)[i] = ObserverWith(data, Observers(data), i)
<1> DEFINE n == Len(data)
           e == CHOOSE f : f = ObserverTable(data, f)
<1>1. n \in Nat
  OBVIOUS
<1>2. \E f : f = ObserverTable(data, f)
  <2>1. n \in 0..n
    BY <1>1
  <2>2. PICK f : ObserversTo(data, f, n)
    BY <2>1, ObserversExist
  <2> DEFINE g == [j \in 0..n |-> f[j]]
  <2>3. \A j \in 0..n : g[j] = f[j]
    OBVIOUS
  <2>4. g = [j \in 0..n |-> g[j]]
    OBVIOUS
  <2> HIDE DEF g
  <2>5. ASSUME NEW j \in 0..n PROVE g[j] = ObserverWith(data, g, j)
    <3>1. f[j] = ObserverWith(data, f, j)
      BY <2>2 DEF ObserversTo
    <3>2. CASE j = 0
      BY <2>3, <3>1, <3>2 DEF ObserverWith
    <3>3. CASE j # 0
      <4>1. j - 1 \in 0..n
        BY <1>1, <3>3
      <4> QED
        BY <2>3, <3>1, <3>3, <4>1 DEF ObserverWith
    <3> QED
      BY <3>2, <3>3
  <2>6. g = ObserverTable(data, g)
    BY <2>4, <2>5 DEF ObserverTable
  <2> QED
    BY <2>6
<1>3. e = ObserverTable(data, e)
  BY <1>2
<1>4. Observers(data) = e
  BY DEF Observers, ObserverTable, ObserverWith
<1> HIDE DEF e
<1> QED
  BY <1>3, <1>4 DEF ObserverTable

-----------------------------------------------------------------------------
(* The observer, character by character.                                    *)

Noted == [what : Chars, at : Nat]
Observer == [state : {"Ground", "Escape", "Osc", "OscEscape"},
             payload : Seq(Chars), overflow : BOOLEAN, at : Nat,
             events : Seq(Noted)]

\* What Finished adds to the events.
Reported(p, at) == [i \in DOMAIN Said(p) |-> [what |-> p[1], at |-> at]]

\* A payload that says nothing adds nothing, another one event.
LEMMA ReportedIs ==
  ASSUME NEW p \in Seq(Chars), NEW at \in Nat
  PROVE  \/ Said(p) = <<>> /\ Reported(p, at) = <<>> /\ Reported(p, at) \in Seq(Noted)
         \/ /\ Reported(p, at) \in Seq(Noted)
            /\ p # <<>> /\ p[1] \in Chars /\ Said(p) # <<>>
            /\ Reported(p, at) = <<[what |-> p[1], at |-> at]>>
            /\ [what |-> p[1], at |-> at] \in Noted
<1>1. CASE p # <<>> /\ p[1] \in {"m", "i"}
  <2>1. Said(p) = <<p[1]>> /\ DOMAIN Said(p) = 1..1 /\ 1..1 = {1}
    BY <1>1 DEF Said
  <2>2. Reported(p, at) = [i \in {1} |-> [what |-> p[1], at |-> at]]
    BY <2>1 DEF Reported
  <2>3. [i \in {1} |-> [what |-> p[1], at |-> at]] = <<[what |-> p[1], at |-> at]>>
    OBVIOUS
  <2>4. p[1] \in Chars
    BY <1>1 DEF Chars
  <2>5. \A x \in Noted : <<x>> \in Seq(Noted)
    OBVIOUS
  <2>6. [what |-> p[1], at |-> at] \in Noted
    BY <2>4 DEF Noted
  <2>7. PICK x : x = [what |-> p[1], at |-> at]
    OBVIOUS
  <2>8. Reported(p, at) = <<x>> /\ x \in Noted
    BY <2>2, <2>3, <2>6, <2>7
  <2>9. Reported(p, at) \in Seq(Noted)
    BY <2>5, <2>8
  <2>10. Said(p) # <<>>
    BY <2>1
  <2> QED
    BY <1>1, <2>4, <2>7, <2>8, <2>9, <2>10
<1>2. CASE ~(p # <<>> /\ p[1] \in {"m", "i"})
  <2>1. Said(p) = <<>> /\ DOMAIN Said(p) = {}
    BY <1>2 DEF Said
  <2> QED
    BY <2>1 DEF Reported
<1> QED
  BY <1>1, <1>2

\* The newest of a sequence of events.
LEMMA NewestIs ==
  ASSUME NEW T, NEW e \in Seq(T)
  PROVE  /\ Newest(e) \in Seq(T)
         /\ Len(Newest(e)) = IF Len(e) > MaxQueued THEN MaxQueued ELSE Len(e)
         /\ \A j \in 1..Len(Newest(e)) :
              Newest(e)[j] = e[Len(e) - Len(Newest(e)) + j]
<1>1. Len(e) \in Nat /\ MaxQueued \in Nat /\ MaxQueued >= 1
  BY QueueAssumption
<1>2. CASE Len(e) > MaxQueued
  <2>1. Newest(e) = SubSeq(e, Len(e) - MaxQueued + 1, Len(e))
    BY <1>2 DEF Newest
  <2>2. Len(e) - MaxQueued + 1 \in 1..Len(e)
    BY <1>1, <1>2
  <2>3. Newest(e) \in Seq(T)
    BY <2>1, <2>2
  <2>4. Len(Newest(e)) = MaxQueued
    BY <1>1, <1>2, <2>1, <2>2
  <2>5. \A j \in 1..MaxQueued : Newest(e)[j] = e[Len(e) - MaxQueued + 1 + j - 1]
    BY <1>1, <1>2, <2>1, <2>2
  <2> QED
    BY <1>1, <1>2, <2>3, <2>4, <2>5
<1>3. CASE ~(Len(e) > MaxQueued)
  <2>1. Newest(e) = e
    BY <1>3 DEF Newest
  <2> QED
    BY <1>1, <1>3, <2>1
<1> QED
  BY <1>2, <1>3

\* The payload grows by more, or it has overflowed.
Grew(o, r, more) ==
  /\ r.events = o.events
  /\ IF ~o.overflow /\ Len(o.payload) + Len(more) <= Limit(o.payload)
     THEN r.payload = o.payload \o more /\ r.overflow = FALSE
     ELSE r.payload = <<>> /\ r.overflow = TRUE

\* The sequence is at its end: an event, unless the payload overflowed.
Ended(o, r) ==
  /\ r.state = "Ground"
  /\ r.events = IF o.overflow THEN o.events
                ELSE Newest(o.events \o Reported(o.payload, o.at + 1))

\* Grown is that, and the observer stays one.
LEMMA GrownIs ==
  ASSUME NEW o \in Observer, NEW more \in Seq(Chars)
  PROVE  /\ Grown(o, more) \in Observer /\ Grew(o, Grown(o, more), more)
         /\ Grown(o, more).at = o.at /\ Grown(o, more).state = o.state
<1>1. o.payload \in Seq(Chars) /\ o.payload \o more \in Seq(Chars) /\ o.overflow \in BOOLEAN
  BY DEF Observer
<1>2. CASE ~o.overflow /\ Len(o.payload) + Len(more) <= Limit(o.payload)
  <2>1. Grown(o, more) = [o EXCEPT !.payload = o.payload \o more]
    BY <1>2 DEF Grown
  <2> QED
    BY <1>1, <1>2, <2>1 DEF Observer, Grew
<1>3. CASE ~(~o.overflow /\ Len(o.payload) + Len(more) <= Limit(o.payload))
  <2>1. Grown(o, more) = [o EXCEPT !.overflow = TRUE, !.payload = <<>>]
    BY <1>3 DEF Grown
  <2>2. <<>> \in Seq(Chars)
    OBVIOUS
  <2> QED
    BY <1>1, <1>3, <2>1, <2>2 DEF Observer, Grew
<1> QED
  BY <1>2, <1>3

\* So does Finished, which goes back to the ground.
LEMMA FinishedIs ==
  ASSUME NEW o \in Observer
  PROVE  /\ Finished(o) \in Observer /\ Finished(o).at = o.at
         /\ Finished(o).state = "Ground"
         /\ Finished(o).events = IF o.overflow THEN o.events
                                 ELSE Newest(o.events \o Reported(o.payload, o.at))
<1> DEFINE ev == IF o.overflow THEN o.events
                 ELSE Newest(o.events \o Reported(o.payload, o.at))
<1>1. Finished(o) = [o EXCEPT !.state = "Ground", !.events = ev]
  BY DEF Finished, Reported
<1>2. o.events \in Seq(Noted) /\ o.payload \in Seq(Chars) /\ o.at \in Nat
  BY DEF Observer
<1>3. Reported(o.payload, o.at) \in Seq(Noted)
  BY <1>2, ReportedIs
<1>4. o.events \o Reported(o.payload, o.at) \in Seq(Noted)
  BY <1>2, <1>3
<1>5. ev \in Seq(Noted)
  BY <1>2, <1>4, NewestIs
<1> HIDE DEF ev
<1>6. Finished(o) \in Observer /\ Finished(o).at = o.at
      /\ Finished(o).state = "Ground" /\ Finished(o).events = ev
  BY <1>1, <1>5 DEF Observer
<1> QED
  BY <1>6 DEF ev

\* What one character does, case by case.
FedSteps(o, c, r) ==
  /\ r \in Observer
  /\ r.at = o.at + 1
  /\ o.state = "Ground" =>
       /\ r.events = o.events
       /\ r.state = IF c = "ESC" THEN "Escape" ELSE "Ground"
  /\ o.state = "Escape" =>
       /\ r.events = o.events
       /\ c = "]" => r.state = "Osc" /\ r.payload = <<>> /\ r.overflow = FALSE
       /\ c = "ESC" => r.state = "Escape"
       /\ c \notin {"]", "ESC"} => r.state = "Ground"
  /\ o.state = "Osc" =>
       /\ c = "BEL" => Ended(o, r)
       /\ c = "ESC" => /\ r.state = "OscEscape" /\ r.payload = o.payload
                       /\ r.overflow = o.overflow /\ r.events = o.events
       /\ c \notin {"BEL", "ESC"} => r.state = "Osc" /\ Grew(o, r, <<c>>)
  /\ o.state = "OscEscape" =>
       /\ c = "\\" => Ended(o, r)
       /\ c # "\\" => r.state = "Osc" /\ Grew(o, r, <<"ESC", c>>)

\* Fed is that.
LEMMA FedIs ==
  ASSUME NEW o \in Observer, NEW c \in Chars
  PROVE  FedSteps(o, c, Fed(o, c))
<1> DEFINE n == [o EXCEPT !.at = o.at + 1]
           r == Fed(o, c)
<1>1. /\ n \in Observer /\ n.at = o.at + 1 /\ n.state = o.state /\ n.events = o.events
      /\ n.payload = o.payload /\ n.overflow = o.overflow
  <2>1. o.at \in Nat /\ o.at + 1 \in Nat
    BY DEF Observer
  <2>2. PICK b : b = o.at + 1
    OBVIOUS
  <2>3. n = [o EXCEPT !.at = b] /\ b \in Nat
    BY <2>1, <2>2
  <2>4. n \in Observer
    BY <2>3 DEF Observer
  <2>5. n.at = b /\ n.state = o.state /\ n.events = o.events
        /\ n.payload = o.payload /\ n.overflow = o.overflow
    BY <2>3 DEF Observer
  <2> QED
    BY <2>2, <2>4, <2>5
<1>2. r = CASE o.state = "Ground" -> IF c = "ESC" THEN [n EXCEPT !.state = "Escape"] ELSE n
       [] o.state = "Escape" ->
            IF c = "]" THEN [n EXCEPT !.state = "Osc", !.payload = <<>>,
                                      !.overflow = FALSE]
            ELSE [n EXCEPT !.state = IF c = "ESC" THEN "Escape" ELSE "Ground"]
       [] o.state = "Osc" ->
            IF c = "BEL" THEN Finished(n)
            ELSE IF c = "ESC" THEN [n EXCEPT !.state = "OscEscape"]
            ELSE Grown(n, <<c>>)
       [] o.state = "OscEscape" ->
            IF c = "\\" THEN Finished(n)
            ELSE [Grown(n, <<"ESC", c>>) EXCEPT !.state = "Osc"]
  BY DEF Fed
<1>3. o.state \in {"Ground", "Escape", "Osc", "OscEscape"}
  BY DEF Observer
<1>4. "ESC" \in Chars /\ <<c>> \in Seq(Chars) /\ <<"ESC", c>> \in Seq(Chars) /\ <<>> \in Seq(Chars)
  BY DEF Chars
<1>5. /\ Finished(n) \in Observer /\ Finished(n).at = n.at
      /\ Finished(n).state = "Ground"
      /\ Finished(n).events = IF n.overflow THEN n.events
                              ELSE Newest(n.events \o Reported(n.payload, n.at))
  BY <1>1, FinishedIs
<1>6. Ended(o, Finished(n))
  BY <1>1, <1>5 DEF Ended
<1>7. ASSUME NEW more \in Seq(Chars)
      PROVE  /\ Grown(n, more) \in Observer /\ Grew(o, Grown(n, more), more)
             /\ Grown(n, more).at = n.at /\ Grown(n, more).state = n.state
  <2>1. /\ Grown(n, more) \in Observer /\ Grew(n, Grown(n, more), more)
        /\ Grown(n, more).at = n.at /\ Grown(n, more).state = n.state
    BY <1>1, GrownIs
  <2> QED
    BY <1>1, <2>1 DEF Grew
<1> HIDE DEF n, r
<1>8. CASE o.state = "Ground"
  <2>1. r = IF c = "ESC" THEN [n EXCEPT !.state = "Escape"] ELSE n
    BY <1>2, <1>8
  <2>2. r \in Observer /\ r.at = n.at /\ r.events = n.events
        /\ r.state = IF c = "ESC" THEN "Escape" ELSE "Ground"
    BY <1>1, <1>8, <2>1 DEF Observer
  <2> QED
    BY <1>1, <1>8, <2>2 DEF r, FedSteps
<1>9. CASE o.state = "Escape"
  <2>1. r = IF c = "]" THEN [n EXCEPT !.state = "Osc", !.payload = <<>>,
                                      !.overflow = FALSE]
            ELSE [n EXCEPT !.state = IF c = "ESC" THEN "Escape" ELSE "Ground"]
    BY <1>2, <1>9
  <2>2. CASE c = "]"
    <3>1. r \in Observer /\ r.at = n.at /\ r.events = n.events /\ r.state = "Osc"
          /\ r.payload = <<>> /\ r.overflow = FALSE
      BY <1>1, <1>4, <2>1, <2>2 DEF Observer
    <3> QED
      BY <1>1, <1>9, <2>2, <3>1 DEF r, FedSteps
  <2>3. CASE c # "]"
    <3>1. r \in Observer /\ r.at = n.at /\ r.events = n.events
          /\ r.state = IF c = "ESC" THEN "Escape" ELSE "Ground"
      BY <1>1, <2>1, <2>3 DEF Observer
    <3> QED
      BY <1>1, <1>9, <2>3, <3>1 DEF r, FedSteps
  <2> QED
    BY <2>2, <2>3
<1>10. CASE o.state = "Osc"
  <2>1. r = IF c = "BEL" THEN Finished(n)
            ELSE IF c = "ESC" THEN [n EXCEPT !.state = "OscEscape"]
            ELSE Grown(n, <<c>>)
    BY <1>2, <1>10
  <2>2. CASE c = "BEL"
    <3>1. r = Finished(n)
      BY <2>1, <2>2
    <3> QED
      BY <1>1, <1>5, <1>6, <1>10, <2>2, <3>1 DEF r, FedSteps
  <2>3. CASE c = "ESC"
    <3>1. r \in Observer /\ r.at = n.at /\ r.events = n.events /\ r.state = "OscEscape"
          /\ r.payload = n.payload /\ r.overflow = n.overflow
      BY <1>1, <2>1, <2>3 DEF Observer
    <3> QED
      BY <1>1, <1>10, <2>3, <3>1 DEF r, FedSteps
  <2>4. CASE c \notin {"BEL", "ESC"}
    <3>1. r = Grown(n, <<c>>)
      BY <2>1, <2>4
    <3>2. /\ r \in Observer /\ Grew(o, r, <<c>>) /\ r.at = n.at /\ r.state = n.state
      BY <1>4, <1>7, <3>1
    <3> QED
      BY <1>1, <1>10, <2>4, <3>2 DEF r, FedSteps
  <2> QED
    BY <2>2, <2>3, <2>4
<1>11. CASE o.state = "OscEscape"
  <2>1. r = IF c = "\\" THEN Finished(n)
            ELSE [Grown(n, <<"ESC", c>>) EXCEPT !.state = "Osc"]
    BY <1>2, <1>11
  <2>2. CASE c = "\\"
    <3>1. r = Finished(n)
      BY <2>1, <2>2
    <3> QED
      BY <1>1, <1>5, <1>6, <1>11, <2>2, <3>1 DEF r, FedSteps
  <2>3. CASE c # "\\"
    <3> DEFINE g == Grown(n, <<"ESC", c>>)
    <3>1. g \in Observer /\ Grew(o, g, <<"ESC", c>>) /\ g.at = n.at
      BY <1>4, <1>7
    <3>2. r = [g EXCEPT !.state = "Osc"]
      BY <2>1, <2>3
    <3> HIDE DEF g
    <3>3. r \in Observer /\ r.at = n.at /\ r.state = "Osc" /\ r.events = g.events
          /\ r.payload = g.payload /\ r.overflow = g.overflow
      BY <3>1, <3>2 DEF Observer
    <3>4. Grew(o, r, <<"ESC", c>>)
      BY <3>1, <3>3 DEF Grew
    <3> QED
      BY <1>1, <1>11, <2>3, <3>3, <3>4 DEF r, FedSteps
  <2> QED
    BY <2>2, <2>3
<1> QED
  BY <1>3, <1>8, <1>9, <1>10, <1>11 DEF r, FedSteps

-----------------------------------------------------------------------------
(* Where the observer stands in the output.                                 *)

\* The outputs that begin with s.
Continuations(s) ==
  {t \in Seq(Chars) : Len(s) <= Len(t) /\ \A i \in 1..Len(s) : t[i] = s[i]}

\* The payload p and overflow o are those of an OSC with payload q so far.
Fits(q, p, o) ==
  /\ o \in BOOLEAN
  /\ o <=> Len(q) > Limit(q)
  /\ p = IF o THEN <<>> ELSE q

\* The OSC that begins at i is open at k: nothing before k ends it.
InOsc(s, i, k, p, o) ==
  /\ i \in 1..Len(s) /\ k \in i + 2..Len(s) + 1
  /\ s[i] = "ESC" /\ s[i + 1] = "]"
  /\ Fits(SubSeq(s, i + 2, k - 1), p, o)
  /\ \A t \in Continuations(s) : Ends(t)[i + 2] = Ends(t)[k]

\* The observer ob, after the output s, looks for what begins at i.
At(s, ob, i) ==
  \/ ob.state = "Ground" /\ i = Len(s) + 1
  \/ ob.state = "Escape" /\ i = Len(s) /\ i >= 1 /\ s[i] = "ESC"
  \/ ob.state = "Osc" /\ InOsc(s, i, Len(s) + 1, ob.payload, ob.overflow)
  \/ /\ ob.state = "OscEscape" /\ s[Len(s)] = "ESC"
     /\ InOsc(s, i, Len(s), ob.payload, ob.overflow)

\* Whatever follows s, its events are those of E and those found from i on.
Follows(s, E, i) ==
  \A t \in Continuations(s) : Events(t)[1] = E \o Events(t)[i]

\* An output that continues a longer one continues it.
LEMMA ContinuesBoth ==
  ASSUME NEW s \in Seq(Chars), NEW c \in Chars, NEW t \in Continuations(Append(s, c))
  PROVE  /\ t \in Seq(Chars) /\ t \in Continuations(s) /\ Len(t) >= Len(s) + 1
         /\ t[Len(s) + 1] = c
         /\ Append(s, c) \in Seq(Chars) /\ Len(Append(s, c)) = Len(s) + 1
<1>1. /\ Append(s, c) \in Seq(Chars) /\ Len(Append(s, c)) = Len(s) + 1
      /\ \A i \in 1..Len(s) : Append(s, c)[i] = s[i]
      /\ Append(s, c)[Len(s) + 1] = c
      /\ Len(s) \in Nat
  OBVIOUS
<1>2. /\ t \in Seq(Chars) /\ Len(s) + 1 <= Len(t)
      /\ \A i \in 1..Len(s) + 1 : t[i] = Append(s, c)[i]
  BY <1>1 DEF Continuations
<1>3. Len(s) + 1 \in 1..Len(s) + 1 /\ \A i \in 1..Len(s) : i \in 1..Len(s) + 1
  BY <1>1
<1>4. Len(t) \in Nat /\ Len(s) <= Len(t)
  BY <1>1, <1>2
<1>5. \A i \in 1..Len(s) : t[i] = s[i]
  BY <1>1, <1>2, <1>3
<1>6. t \in Continuations(s)
  BY <1>2, <1>4, <1>5 DEF Continuations
<1> QED
  BY <1>1, <1>2, <1>3, <1>6

\* It has the same parts.
LEMMA SameParts ==
  ASSUME NEW s \in Seq(Chars), NEW t \in Continuations(s),
         NEW a \in 1..Len(s) + 1, NEW b \in 0..Len(s)
  PROVE  SubSeq(t, a, b) = SubSeq(s, a, b) /\ SubSeq(s, a, b) \in Seq(Chars)
<1>1. /\ t \in Seq(Chars) /\ Len(s) <= Len(t) /\ Len(s) \in Nat /\ Len(t) \in Nat
      /\ \A i \in 1..Len(s) : t[i] = s[i]
      /\ a \in Int /\ b \in Int
  BY DEF Continuations
<1>2. \A i \in a..b : i \in 1..Len(s)
  BY <1>1
<1>3. \A i \in a..b : s[i] \in Chars /\ t[i] \in Chars /\ t[i] = s[i]
  BY <1>1, <1>2
<1>4. /\ SubSeq(s, a, b) \in Seq(Chars)
      /\ Len(SubSeq(s, a, b)) = IF a <= b THEN b - a + 1 ELSE 0
  BY <1>1, <1>3, SubSeqProperties
<1>5. /\ SubSeq(t, a, b) \in Seq(Chars)
      /\ Len(SubSeq(t, a, b)) = IF a <= b THEN b - a + 1 ELSE 0
  BY <1>1, <1>3, SubSeqProperties
<1>6. \A i \in 1..Len(SubSeq(s, a, b)) : SubSeq(s, a, b)[i] = s[a + i - 1]
                                         /\ SubSeq(t, a, b)[i] = t[a + i - 1]
                                         /\ a + i - 1 \in a..b
  BY <1>1, <1>4, <1>5
<1>7. \A i \in 1..Len(SubSeq(s, a, b)) : SubSeq(s, a, b)[i] = SubSeq(t, a, b)[i]
  BY <1>3, <1>6
<1> QED
  BY <1>4, <1>5, <1>7, SeqEqual

\* One character more.
LEMMA PartGrows ==
  ASSUME NEW s \in Seq(Chars), NEW c \in Chars, NEW a \in 1..Len(s) + 1
  PROVE  /\ SubSeq(Append(s, c), a, Len(s) + 1) = SubSeq(s, a, Len(s)) \o <<c>>
         /\ SubSeq(s, a, Len(s)) \in Seq(Chars)
<1> DEFINE n == Len(s)
           s2 == Append(s, c)
           x == SubSeq(s, a, n)
           y == SubSeq(s2, a, n + 1)
<1>1. /\ s2 \in Seq(Chars) /\ Len(s2) = n + 1 /\ s2[n + 1] = c /\ n \in Nat
      /\ \A i \in 1..n : s2[i] = s[i]
  OBVIOUS
<1>2. x \in Seq(Chars) /\ Len(x) = n - a + 1
      /\ \A i \in 1..Len(x) : x[i] = s[a + i - 1] /\ a + i - 1 \in 1..n
  <2>1. \A i \in a..n : s[i] \in Chars
    BY <1>1
  <2>2. x \in Seq(Chars) /\ Len(x) = IF a <= n THEN n - a + 1 ELSE 0
    BY <1>1, <2>1, SubSeqProperties
  <2> QED
    BY <1>1, <2>2
<1>3. y \in Seq(Chars) /\ Len(y) = n - a + 2
      /\ \A i \in 1..Len(y) : y[i] = s2[a + i - 1] /\ a + i - 1 \in 1..n + 1
  <2>1. \A i \in a..n + 1 : s2[i] \in Chars
    BY <1>1
  <2>2. y \in Seq(Chars) /\ Len(y) = IF a <= n + 1 THEN n + 1 - a + 1 ELSE 0
    BY <1>1, <2>1, SubSeqProperties
  <2> QED
    BY <1>1, <2>2
<1> HIDE DEF n, s2, x, y
<1>4. /\ x \o <<c>> \in Seq(Chars) /\ Len(x \o <<c>>) = Len(x) + 1
      /\ \A i \in 1..Len(x) : (x \o <<c>>)[i] = x[i]
      /\ (x \o <<c>>)[Len(x) + 1] = c
  BY <1>2
<1>5. a \in 1..n + 1
  BY DEF n
<1>6. \A i \in 1..Len(y) : y[i] = (x \o <<c>>)[i]
  <2> SUFFICES ASSUME NEW i \in 1..Len(y) PROVE y[i] = (x \o <<c>>)[i]
    OBVIOUS
  <2>1. CASE i \in 1..Len(x)
    BY <2>1, <1>1, <1>2, <1>3, <1>4
  <2>2. CASE i = Len(x) + 1
    <3>1. a + i - 1 = n + 1
      BY <1>1, <1>2, <1>5, <2>2
    <3> QED
      BY <3>1, <2>2, <1>1, <1>3, <1>4
  <2> QED
    BY <2>1, <2>2, <1>1, <1>2, <1>3, <1>5
<1>7. Len(y) = Len(x \o <<c>>)
  BY <1>1, <1>2, <1>3, <1>4, <1>5
<1>8. y = x \o <<c>>
  BY <1>3, <1>4, <1>6, <1>7, SeqEqual
<1> QED
  BY <1>2, <1>8 DEF n, s2, x, y

\* A payload that fits, grown by one character, or by an ESC and another.
LEMMA FitsGrown ==
  ASSUME NEW q \in Seq(Chars), NEW o \in Observer, NEW r \in Observer,
         NEW more \in Seq(Chars), NEW c \in Chars,
         more \in {<<c>>, <<"ESC", c>>},
         Fits(q, o.payload, o.overflow), Grew(o, r, more)
  PROVE  Fits(q \o more, r.payload, r.overflow)
<1>1. /\ MaxPayload \in Nat /\ MaxPayload >= 1 /\ MaxImage \in Nat /\ MaxImage >= 1
  BY QueueAssumption
<1>2. /\ Len(more) \in 1..2 /\ Len(more) \in Nat /\ Len(more) > 0
      /\ Len(more) = 2 => more[1] = "ESC"
  <2>1. CASE more = <<c>>
    BY <2>1
  <2>2. CASE more = <<"ESC", c>>
    <3>1. Len(<<"ESC", c>>) = 2 /\ <<"ESC", c>>[1] = "ESC"
      OBVIOUS
    <3> QED
      BY <2>2, <3>1
  <2> QED
    BY <2>1, <2>2
<1>3. /\ q \o more \in Seq(Chars) /\ Len(q \o more) = Len(q) + Len(more) /\ Len(q) \in Nat
      /\ q # <<>> => (q \o more)[1] = q[1] /\ Len(q) > 0
      /\ q = <<>> => q \o more = more
      /\ q \o more # <<>>
  <2>1. /\ q \o more \in Seq(Chars) /\ Len(q \o more) = Len(q) + Len(more)
        /\ \A i \in 1..Len(q) : (q \o more)[i] = q[i]
        /\ Len(q) \in Nat
    OBVIOUS
  <2>2. q = <<>> => q \o more = more
    BY ConcatEmptySeq
  <2>3. q # <<>> => Len(q) > 0 /\ 1 \in 1..Len(q)
    OBVIOUS
  <2>4. q \o more # <<>>
    <3>1. PICK m : m = Len(more)
      OBVIOUS
    <3>2. m \in Nat /\ m > 0
      BY <1>2, <3>1
    <3>3. PICK k : k = Len(q)
      OBVIOUS
    <3>4. k \in Nat /\ Len(q \o more) = k + m
      BY <2>1, <3>1, <3>3
    <3>5. Len(q \o more) > 0
      BY <3>2, <3>4
    <3>6. Len(<<>>) = 0
      OBVIOUS
    <3> QED
      BY <3>6, <3>5
  <2> QED
    BY <2>1, <2>2, <2>3, <2>4
<1>4. Limit(q) \in Nat /\ Limit(q) >= 1 /\ Limit(q \o more) \in Nat /\ Limit(q \o more) >= 1
  BY <1>1 DEF Limit
<1>5. q # <<>> => Limit(q \o more) = Limit(q)
  BY <1>3 DEF Limit
<1>6. q = <<>> => (Len(q) + Len(more) > Limit(q) <=> Len(q \o more) > Limit(q \o more))
  <2> SUFFICES ASSUME q = <<>>
               PROVE  Len(q) + Len(more) > Limit(q) <=> Len(q \o more) > Limit(q \o more)
    OBVIOUS
  <2>1. Len(q) = 0 /\ Limit(q) = MaxPayload /\ q \o more = more
    <3>1. Len(q) = 0
      OBVIOUS
    <3>2. Limit(q) = MaxPayload
      BY DEF Limit
    <3> QED
      BY <1>3, <3>1, <3>2
  <2>2. CASE Len(more) = 1
    <3>1. Limit(more) \in Nat /\ Limit(more) >= 1
      BY <1>4, <2>1
    <3>2. ~(Len(more) > Limit(more)) /\ ~(0 + Len(more) > MaxPayload)
      BY <1>1, <2>2, <3>1
    <3> QED
      BY <2>1, <3>2
  <2>3. CASE Len(more) = 2
    <3>1. Limit(more) = MaxPayload
      BY <1>2, <2>3 DEF Limit
    <3>2. Len(q) + Len(more) = Len(more)
      BY <2>1, <2>3
    <3> QED
      BY <2>1, <3>1, <3>2
  <2> QED
    BY <1>2, <2>2, <2>3
<1>7. CASE o.overflow
  <2>1. Len(q) > Limit(q) /\ q # <<>>
    BY <1>3, <1>4, <1>7 DEF Fits
  <2>2. r.overflow = TRUE /\ r.payload = <<>>
    BY <1>7 DEF Grew
  <2>3. Len(q \o more) > Limit(q \o more)
    BY <1>2, <1>3, <1>4, <1>5, <2>1
  <2> QED
    BY <2>2, <2>3 DEF Fits
<1>8. CASE ~o.overflow
  <2>1. ~(Len(q) > Limit(q)) /\ o.payload = q
    BY <1>8 DEF Fits
  <2>2. Len(q) + Len(more) > Limit(q) <=> Len(q \o more) > Limit(q \o more)
    BY <1>2, <1>3, <1>4, <1>5, <1>6
  <2>3. CASE Len(q) + Len(more) <= Limit(q)
    <3>1. r.payload = q \o more /\ r.overflow = FALSE
      BY <1>8, <2>1, <2>3 DEF Grew
    <3>2. ~(Len(q \o more) > Limit(q \o more))
      BY <1>2, <1>3, <1>4, <2>2, <2>3
    <3> QED
      BY <3>1, <3>2 DEF Fits
  <2>4. CASE ~(Len(q) + Len(more) <= Limit(q))
    <3>1. r.payload = <<>> /\ r.overflow = TRUE
      BY <1>8, <2>1, <2>4 DEF Grew
    <3>2. Len(q \o more) > Limit(q \o more)
      BY <1>2, <1>3, <1>4, <2>2, <2>4
    <3> QED
      BY <3>1, <3>2 DEF Fits
  <2> QED
    BY <2>3, <2>4
<1> QED
  BY <1>7, <1>8

-----------------------------------------------------------------------------
(* One character more, where an OSC is open.                                *)

\* Continuing is continuing what was continued.
LEMMA ContinuesFewer ==
  ASSUME NEW s \in Seq(Chars), NEW c \in Chars
  PROVE  /\ Continuations(Append(s, c)) \subseteq Continuations(s)
         /\ Append(s, c) \in Continuations(s)
<1>1. Continuations(Append(s, c)) \subseteq Continuations(s)
  BY ContinuesBoth
<1>2. /\ Append(s, c) \in Seq(Chars) /\ Len(Append(s, c)) = Len(s) + 1
      /\ \A i \in 1..Len(s) : Append(s, c)[i] = s[i]
      /\ Len(s) \in Nat
  OBVIOUS
<1>3. Append(s, c) \in Continuations(s)
  <2>1. PICK u : u = Append(s, c)
    OBVIOUS
  <2>2. u \in Seq(Chars) /\ Len(s) <= Len(u) /\ \A i \in 1..Len(s) : u[i] = s[i]
    BY <1>2, <2>1
  <2>3. u \in Continuations(s)
    BY <2>2 DEF Continuations
  <2> QED
    BY <2>1, <2>3
<1> QED
  BY <1>1, <1>3

\* An OSC open at a place stays open there.
LEMMA InOscStays ==
  ASSUME NEW s \in Seq(Chars), NEW c \in Chars, NEW i, NEW k, NEW p, NEW o,
         InOsc(s, i, k, p, o)
  PROVE  InOsc(Append(s, c), i, k, p, o)
<1> DEFINE s2 == Append(s, c)
<1>1. /\ s2 \in Seq(Chars) /\ Len(s2) = Len(s) + 1 /\ Len(s) \in Nat
      /\ \A j \in 1..Len(s) : s2[j] = s[j]
  OBVIOUS
<1>2. s2 \in Continuations(s) /\ Continuations(s2) \subseteq Continuations(s)
  BY ContinuesFewer
<1> HIDE DEF s2
<1>3. /\ i \in 1..Len(s) /\ k \in i + 2..Len(s) + 1
      /\ s[i] = "ESC" /\ s[i + 1] = "]"
      /\ Fits(SubSeq(s, i + 2, k - 1), p, o)
      /\ \A t \in Continuations(s) : Ends(t)[i + 2] = Ends(t)[k]
  BY DEF InOsc
<1>4. i + 1 \in 1..Len(s) /\ i + 2 \in 1..Len(s) + 1 /\ k - 1 \in 0..Len(s)
  BY <1>1, <1>3
<1>5. SubSeq(s2, i + 2, k - 1) = SubSeq(s, i + 2, k - 1)
  BY <1>2, <1>4, SameParts
<1>6. i \in 1..Len(s2) /\ k \in i + 2..Len(s2) + 1
  BY <1>1, <1>3
<1>7. s2[i] = "ESC" /\ s2[i + 1] = "]"
  BY <1>1, <1>3, <1>4
<1>8. \A t \in Continuations(s2) : Ends(t)[i + 2] = Ends(t)[k]
  BY <1>2, <1>3
<1>9. InOsc(s2, i, k, p, o)
  BY <1>3, <1>5, <1>6, <1>7, <1>8 DEF InOsc
<1> QED
  BY <1>9 DEF s2

\* "]" after an ESC opens one.
LEMMA InOscOpens ==
  ASSUME NEW s \in Seq(Chars), Len(s) >= 1, s[Len(s)] = "ESC"
  PROVE  InOsc(Append(s, "]"), Len(s), Len(Append(s, "]")) + 1, <<>>, FALSE)
<1> DEFINE s2 == Append(s, "]")
           n == Len(s)
<1>1. /\ s2 \in Seq(Chars) /\ Len(s2) = n + 1 /\ n \in Nat /\ n >= 1
      /\ s2[n + 1] = "]" /\ \A j \in 1..n : s2[j] = s[j]
  BY DEF Chars
<1>2. s2[n] = "ESC"
  BY <1>1
<1> HIDE DEF s2
<1>3. SubSeq(s2, n + 2, n + 1) = <<>>
  BY <1>1, SubSeqEmpty
<1>4. Fits(<<>>, <<>>, FALSE)
  <2>1. Limit(<<>>) = MaxPayload /\ MaxPayload \in Nat
    BY QueueAssumption DEF Limit
  <2>2. ~(0 > MaxPayload)
    BY <2>1
  <2>3. Len(<<>>) = 0
    OBVIOUS
  <2> QED
    BY <2>1, <2>2, <2>3 DEF Fits
<1>5. n \in 1..Len(s2) /\ n + 2 \in n + 2..Len(s2) + 1 /\ n + 2 - 1 = n + 1 /\ Len(s2) + 1 = n + 2
  BY <1>1
<1>6. InOsc(s2, n, n + 2, <<>>, FALSE)
  <2>1. PICK k : k = n + 2
    OBVIOUS
  <2>2. k - 1 = n + 1 /\ k \in n + 2..Len(s2) + 1
    BY <1>5, <2>1
  <2>3. Fits(SubSeq(s2, n + 2, k - 1), <<>>, FALSE)
    BY <1>3, <1>4, <2>2
  <2>4. \A t \in Continuations(s2) : Ends(t)[n + 2] = Ends(t)[k]
    BY <2>1
  <2>5. InOsc(s2, n, k, <<>>, FALSE)
    BY <1>1, <1>2, <1>5, <2>2, <2>3, <2>4 DEF InOsc
  <2> QED
    BY <2>1, <2>5
<1> QED
  BY <1>5, <1>6 DEF s2

\* A character of the payload.
LEMMA InOscGrows ==
  ASSUME NEW s \in Seq(Chars), NEW c \in Chars, c \notin {"BEL", "ESC"},
         NEW o \in Observer, NEW r \in Observer, NEW i,
         InOsc(s, i, Len(s) + 1, o.payload, o.overflow), Grew(o, r, <<c>>)
  PROVE  InOsc(Append(s, c), i, Len(Append(s, c)) + 1, r.payload, r.overflow)
<1> DEFINE s2 == Append(s, c)
           n == Len(s)
           q == SubSeq(s, i + 2, n)
<1>1. /\ s2 \in Seq(Chars) /\ Len(s2) = n + 1 /\ n \in Nat
      /\ \A j \in 1..n : s2[j] = s[j]
  OBVIOUS
<1>2. /\ i \in 1..n /\ n + 1 \in i + 2..n + 1
      /\ s[i] = "ESC" /\ s[i + 1] = "]"
      /\ Fits(q, o.payload, o.overflow)
      /\ \A t \in Continuations(s) : Ends(t)[i + 2] = Ends(t)[n + 1]
  <2>1. n + 1 - 1 = n
    BY <1>1
  <2> QED
    BY <2>1 DEF InOsc
<1>3. i + 1 \in 1..n /\ i + 2 \in 1..n + 1 /\ n + 2 \in i + 2..n + 2
  BY <1>1, <1>2
<1>4. SubSeq(s2, i + 2, n + 1) = q \o <<c>> /\ q \in Seq(Chars)
  BY <1>3, PartGrows
<1> HIDE DEF q
<1>5. Fits(q \o <<c>>, r.payload, r.overflow)
  <2>1. <<c>> \in Seq(Chars)
    OBVIOUS
  <2> QED
    BY <1>2, <1>4, <2>1, FitsGrown
<1>6. ASSUME NEW t \in Continuations(s2) PROVE Ends(t)[i + 2] = Ends(t)[n + 2]
  <2>1. /\ t \in Seq(Chars) /\ t \in Continuations(s) /\ Len(t) >= n + 1
        /\ t[n + 1] = c /\ Len(t) \in Nat
    BY ContinuesBoth
  <2>2. n + 1 \in 1..Len(t) + 2 /\ ~(n + 1 > Len(t)) /\ n + 1 + 1 = n + 2
    BY <1>1, <2>1
  <2>3. Ends(t)[n + 1] = EndWith(t, Ends(t), n + 1)
    BY <2>1, <2>2, EndsEquation
  <2>4. Ends(t)[n + 1] = Ends(t)[n + 2]
    BY <2>1, <2>2, <2>3 DEF EndWith
  <2> QED
    BY <1>2, <2>1, <2>4
<1> HIDE DEF s2
<1>7. i \in 1..Len(s2) /\ n + 2 \in i + 2..Len(s2) + 1 /\ n + 2 - 1 = n + 1
  BY <1>1, <1>2, <1>3
<1>8. s2[i] = "ESC" /\ s2[i + 1] = "]"
  BY <1>1, <1>2, <1>3
<1>9. InOsc(s2, i, n + 2, r.payload, r.overflow)
  <2>1. PICK k : k = n + 2
    OBVIOUS
  <2>2. k - 1 = n + 1 /\ k \in i + 2..Len(s2) + 1
    BY <1>7, <2>1
  <2>3. Fits(SubSeq(s2, i + 2, k - 1), r.payload, r.overflow)
    BY <1>4, <1>5, <2>2
  <2>4. \A t \in Continuations(s2) : Ends(t)[i + 2] = Ends(t)[k]
    BY <1>6, <2>1
  <2>5. InOsc(s2, i, k, r.payload, r.overflow)
    BY <1>7, <1>8, <2>2, <2>3, <2>4 DEF InOsc
  <2> QED
    BY <2>1, <2>5
<1>10. Len(s2) + 1 = n + 2
  BY <1>1
<1> QED
  BY <1>9, <1>10 DEF s2

\* An ESC that was none of an end, and the character after it.
LEMMA InOscGrowsTwo ==
  ASSUME NEW s \in Seq(Chars), NEW c \in Chars, c # "\\",
         NEW o \in Observer, NEW r \in Observer, NEW i,
         s[Len(s)] = "ESC",
         InOsc(s, i, Len(s), o.payload, o.overflow), Grew(o, r, <<"ESC", c>>)
  PROVE  InOsc(Append(s, c), i, Len(Append(s, c)) + 1, r.payload, r.overflow)
<1> DEFINE s2 == Append(s, c)
           n == Len(s)
           q == SubSeq(s, i + 2, n - 1)
<1>1. /\ s2 \in Seq(Chars) /\ Len(s2) = n + 1 /\ n \in Nat
      /\ \A j \in 1..n : s2[j] = s[j]
  OBVIOUS
<1>2. /\ i \in 1..n /\ n \in i + 2..n + 1
      /\ s[i] = "ESC" /\ s[i + 1] = "]"
      /\ Fits(q, o.payload, o.overflow)
      /\ \A t \in Continuations(s) : Ends(t)[i + 2] = Ends(t)[n]
  BY DEF InOsc
<1>3. i + 1 \in 1..n /\ i + 2 \in 1..n /\ n + 2 \in i + 2..n + 2 /\ i + 2 \in 1..n + 1
      /\ n \in i + 2..n /\ n \in 1..n
  BY <1>1, <1>2
<1>4. SubSeq(s2, i + 2, n + 1) = SubSeq(s, i + 2, n) \o <<c>>
  BY <1>3, PartGrows
<1>5. SubSeq(s, i + 2, n) = q \o <<"ESC">>
  BY <1>3, SubSeqRecursiveSecond
<1>6. q \in Seq(Chars) /\ <<"ESC">> \in Seq(Chars) /\ <<c>> \in Seq(Chars) /\ "ESC" \in Chars
  <2>1. s \in Continuations(s)
    BY <1>1 DEF Continuations
  <2>2. n - 1 \in 0..n
    BY <1>1, <1>3
  <2>3. q \in Seq(Chars)
    BY <1>3, <2>1, <2>2, SameParts
  <2> QED
    BY <2>3 DEF Chars
<1> HIDE DEF q
<1>7. SubSeq(s2, i + 2, n + 1) = q \o <<"ESC", c>> /\ <<"ESC", c>> \in Seq(Chars)
  <2>1. (q \o <<"ESC">>) \o <<c>> = q \o (<<"ESC">> \o <<c>>)
    BY <1>6, ConcatAssociative
  <2>2. <<"ESC">> \o <<c>> = <<"ESC", c>> /\ <<"ESC", c>> \in Seq(Chars)
    <3>1. /\ Len(<<"ESC">>) = 1 /\ Len(<<c>>) = 1 /\ <<"ESC">>[1] = "ESC" /\ <<c>>[1] = c
          /\ Len(<<"ESC", c>>) = 2 /\ <<"ESC", c>>[1] = "ESC" /\ <<"ESC", c>>[2] = c
      OBVIOUS
    <3>2. <<"ESC", c>> \in Seq(Chars)
      BY <1>6
    <3>3. PICK x : x = <<"ESC">>
      OBVIOUS
    <3>4. PICK y : y = <<c>>
      OBVIOUS
    <3>5. PICK z : z = <<"ESC", c>>
      OBVIOUS
    <3>6. /\ x \in Seq(Chars) /\ y \in Seq(Chars) /\ z \in Seq(Chars) /\ Len(x) = 1
          /\ Len(y) = 1 /\ Len(z) = 2 /\ x[1] = z[1] /\ y[1] = z[2]
      BY <1>6, <3>1, <3>2, <3>3, <3>4, <3>5
    <3>7. x \o y = z
      <4>1. x \o y \in Seq(Chars) /\ Len(x \o y) = 2 /\ (x \o y)[1] = x[1]
            /\ (x \o y)[2] = y[1]
        <5>1. /\ x \o y \in Seq(Chars) /\ Len(x \o y) = Len(x) + Len(y)
              /\ \A j \in 1..Len(x) + Len(y) :
                   (x \o y)[j] = IF j <= Len(x) THEN x[j] ELSE y[j - Len(x)]
          BY <3>6, ConcatProperties
        <5>2. Len(x) + Len(y) = 2 /\ 1 \in 1..2 /\ 2 \in 1..2 /\ 2 - 1 = 1
          BY <3>6
        <5> QED
          BY <3>6, <5>1, <5>2
      <4>2. \A j \in 1..2 : j = 1 \/ j = 2
        OBVIOUS
      <4>3. \A j \in 1..Len(x \o y) : (x \o y)[j] = z[j]
        BY <3>6, <4>1, <4>2
      <4>4. Len(x \o y) = Len(z)
        BY <3>6, <4>1
      <4> QED
        BY <3>6, <4>1, <4>3, <4>4, SeqEqual
    <3> QED
      BY <3>2, <3>3, <3>4, <3>5, <3>7
  <2> QED
    BY <1>4, <1>5, <2>1, <2>2
<1>8. Fits(q \o <<"ESC", c>>, r.payload, r.overflow)
  BY <1>2, <1>6, <1>7, FitsGrown
<1>9. ASSUME NEW t \in Continuations(s2) PROVE Ends(t)[i + 2] = Ends(t)[n + 2]
  <2>1. /\ t \in Seq(Chars) /\ t \in Continuations(s) /\ Len(t) >= n + 1
        /\ t[n + 1] = c /\ Len(t) \in Nat
    BY ContinuesBoth
  <2>2. t[n] = "ESC"
    BY <1>3, <2>1 DEF Continuations
  <2>3. n \in 1..Len(t) + 2 /\ ~(n > Len(t)) /\ n < Len(t)
    BY <1>1, <1>3, <2>1
  <2>4. Ends(t)[n] = EndWith(t, Ends(t), n)
    BY <2>1, <2>3, EndsEquation
  <2>5. Ends(t)[n] = Ends(t)[n + 2]
    BY <2>1, <2>2, <2>3, <2>4 DEF EndWith
  <2> QED
    BY <1>2, <2>1, <2>5
<1> HIDE DEF s2
<1>10. i \in 1..Len(s2) /\ n + 2 \in i + 2..Len(s2) + 1 /\ n + 2 - 1 = n + 1
  BY <1>1, <1>2, <1>3
<1>11. s2[i] = "ESC" /\ s2[i + 1] = "]"
  BY <1>1, <1>2, <1>3
<1>12. InOsc(s2, i, n + 2, r.payload, r.overflow)
  <2>1. PICK k : k = n + 2
    OBVIOUS
  <2>2. k - 1 = n + 1 /\ k \in i + 2..Len(s2) + 1
    BY <1>10, <2>1
  <2>3. Fits(SubSeq(s2, i + 2, k - 1), r.payload, r.overflow)
    BY <1>7, <1>8, <2>2
  <2>4. \A t \in Continuations(s2) : Ends(t)[i + 2] = Ends(t)[k]
    BY <1>9, <2>1
  <2>5. InOsc(s2, i, k, r.payload, r.overflow)
    BY <1>10, <1>11, <2>2, <2>3, <2>4 DEF InOsc
  <2> QED
    BY <2>1, <2>5
<1>13. Len(s2) + 1 = n + 2
  BY <1>1
<1> QED
  BY <1>12, <1>13 DEF s2

\* Where the payload of an OSC that ends at e ends.
PayloadTo(s, e) == e - (IF s[e] = "BEL" THEN 1 ELSE 2)

\* What an OSC says, given its payload.
LEMMA SaidInIs ==
  ASSUME NEW s, NEW i, NEW e, NEW q,
         q = SubSeq(s, i, PayloadTo(s, e))
  PROVE  /\ Len(q) > Limit(q) \/ Said(q) = <<>> => SaidIn(s, i, e) = <<>>
         /\ ~(Len(q) > Limit(q) \/ Said(q) = <<>>) =>
              SaidIn(s, i, e) = <<[what |-> q[1], seen |-> SubSeq(s, 1, e)]>>
  BY DEF SaidIn, PayloadTo

\* The end, whatever follows it: an event if the payload fits and says something.
LEMMA InOscEnds ==
  ASSUME NEW s \in Seq(Chars), NEW c \in Chars, NEW o \in Observer, NEW i, NEW k,
         InOsc(s, i, k, o.payload, o.overflow),
         \/ c = "BEL" /\ k = Len(s) + 1
         \/ c = "\\" /\ k = Len(s) /\ s[k] = "ESC",
         NEW t \in Continuations(Append(s, c))
  PROVE  /\ Ends(t)[i + 2] = Len(s) + 1
         /\ SaidIn(t, i + 2, Len(s) + 1) =
              IF o.overflow \/ Said(o.payload) = <<>> THEN <<>>
              ELSE <<[what |-> o.payload[1], seen |-> Append(s, c)]>>
<1> DEFINE s2 == Append(s, c)
           n == Len(s)
           q == SubSeq(s, i + 2, k - 1)
<1>1. /\ s2 \in Seq(Chars) /\ Len(s2) = n + 1 /\ n \in Nat
  OBVIOUS
<1>2. /\ i \in 1..n /\ k \in i + 2..n + 1
      /\ Fits(q, o.payload, o.overflow)
      /\ \A u \in Continuations(s) : Ends(u)[i + 2] = Ends(u)[k]
  BY DEF InOsc
<1>3. /\ t \in Seq(Chars) /\ t \in Continuations(s) /\ Len(t) >= n + 1
      /\ t[n + 1] = c /\ Len(t) \in Nat /\ t \in Continuations(s2)
  BY ContinuesBoth
<1>4. \A j \in 1..n : t[j] = s[j]
  BY <1>3 DEF Continuations
<1>5. k \in 1..Len(t) + 2 /\ ~(k > Len(t)) /\ k \in Nat /\ i \in Nat
  BY <1>1, <1>2, <1>3
<1>6. Ends(t)[k] = EndWith(t, Ends(t), k)
  BY <1>3, <1>5, EndsEquation
<1>7. Ends(t)[k] = n + 1
  <2>1. CASE c = "BEL" /\ k = n + 1
    BY <2>1, <1>3, <1>5, <1>6 DEF EndWith
  <2>2. CASE c = "\\" /\ k = n /\ s[k] = "ESC"
    <3>1. t[k] = "ESC" /\ k < Len(t) /\ k + 1 = n + 1
      BY <1>1, <1>2, <1>3, <1>4, <2>2
    <3> QED
      BY <2>2, <3>1, <1>3, <1>5, <1>6 DEF EndWith
  <2> QED
    BY <2>1, <2>2
<1>8. Ends(t)[i + 2] = n + 1
  BY <1>2, <1>3, <1>7
<1>9. n + 1 - (IF t[n + 1] = "BEL" THEN 1 ELSE 2) = k - 1
  <2>1. CASE c = "BEL" /\ k = n + 1
    BY <2>1, <1>1, <1>3
  <2>2. CASE c = "\\" /\ k = n
    BY <2>2, <1>1, <1>3
  <2> QED
    BY <2>1, <2>2
<1>10. i + 2 \in 1..n + 1 /\ k - 1 \in 0..n
  BY <1>1, <1>2, <1>5
<1>11. SubSeq(t, i + 2, k - 1) = q /\ q \in Seq(Chars)
  BY <1>3, <1>10, SameParts
<1>12. SubSeq(t, 1, n + 1) = s2
  <2>1. 1 \in 1..Len(s2) + 1 /\ n + 1 \in 0..Len(s2)
    BY <1>1
  <2>2. SubSeq(t, 1, n + 1) = SubSeq(s2, 1, n + 1)
    BY <1>1, <1>3, <2>1, SameParts
  <2>3. SubSeq(s2, 1, Len(s2)) = s2
    BY <1>1, SubSeqFull
  <2> QED
    BY <1>1, <2>2, <2>3
<1> HIDE DEF q, s2
<1>13. SaidIn(t, i + 2, n + 1) =
         IF Len(q) > Limit(q) \/ Said(q) = <<>> THEN <<>>
         ELSE <<[what |-> q[1], seen |-> s2]>>
  <2>1. q = SubSeq(t, i + 2, PayloadTo(t, n + 1))
    BY <1>9, <1>11 DEF PayloadTo
  <2>2. /\ Len(q) > Limit(q) \/ Said(q) = <<>> => SaidIn(t, i + 2, n + 1) = <<>>
        /\ ~(Len(q) > Limit(q) \/ Said(q) = <<>>) =>
             SaidIn(t, i + 2, n + 1) = <<[what |-> q[1], seen |-> SubSeq(t, 1, n + 1)]>>
    BY <2>1, SaidInIs
  <2> QED
    BY <1>12, <2>2
<1>14. CASE o.overflow
  BY <1>2, <1>8, <1>13, <1>14 DEF Fits, s2
<1>15. CASE ~o.overflow
  <2>1. o.payload = q /\ ~(Len(q) > Limit(q))
    BY <1>2, <1>15 DEF Fits
  <2> QED
    BY <1>8, <1>13, <1>15, <2>1 DEF s2
<1> QED
  BY <1>14, <1>15

-----------------------------------------------------------------------------
(* The events of the whole output, from where the observer stands.          *)

Happened == [what : Chars, seen : Seq(Chars)]

\* What no OSC begins with is passed over.
LEMMA EventsSkip ==
  ASSUME NEW t \in Seq(Chars), NEW i \in 1..Len(t),
         ~(t[i] = "ESC" /\ i < Len(t) /\ t[i + 1] = "]")
  PROVE  Events(t)[i] = Events(t)[i + 1]
<1>1. Len(t) \in Nat /\ i \in 1..Len(t) + 1 /\ i + 1 \in 1..Len(t) + 1
  OBVIOUS
<1>2. Events(t)[i] = EventsWith(t, Events(t), i)
      /\ Events(t)[i + 1] = EventsWith(t, Events(t), i + 1)
  BY <1>1, EventsEquation
<1>3. CASE i = Len(t)
  <2>1. i >= Len(t) /\ i + 1 >= Len(t)
    BY <1>1, <1>3
  <2> QED
    BY <1>2, <2>1 DEF EventsWith
<1>4. CASE i < Len(t)
  <2>1. ~(i >= Len(t))
    BY <1>1, <1>4
  <2>2. EventsWith(t, Events(t), i) = Events(t)[i + 1]
    BY <1>4, <2>1 DEF EventsWith
  <2> QED
    BY <1>2, <2>2
<1> QED
  BY <1>1, <1>3, <1>4

\* An OSC that ends is followed by the events behind it.
LEMMA EventsOsc ==
  ASSUME NEW t \in Seq(Chars), NEW i \in 1..Len(t), i < Len(t),
         t[i] = "ESC", t[i + 1] = "]"
  PROVE  /\ Ends(t)[i + 2] = 0 => Events(t)[i] = <<>>
         /\ Ends(t)[i + 2] # 0 =>
              Events(t)[i] = SaidIn(t, i + 2, Ends(t)[i + 2])
                               \o Events(t)[Ends(t)[i + 2] + 1]
<1>1. Len(t) \in Nat /\ i \in 1..Len(t) + 1 /\ ~(i >= Len(t))
  OBVIOUS
<1>2. Events(t)[i] = EventsWith(t, Events(t), i)
  BY <1>1, EventsEquation
<1> QED
  BY <1>1, <1>2 DEF EventsWith

\* They are events, with a beginning of the output.
LEMMA EventsType ==
  ASSUME NEW t \in Seq(Chars), NEW i \in 1..Len(t) + 1
  PROVE  Events(t)[i] \in Seq(Happened)
<1> DEFINE n == Len(t)
           E == Events(t)
           Fine(j) == E[j] \in Seq(Happened)
           bad == {m \in 0..n : ~Fine(n + 1 - m)}
<1>1. n \in Nat
  OBVIOUS
<1>2. \A j \in 1..n + 1 : E[j] = EventsWith(t, E, j)
  BY EventsEquation
<1> HIDE DEF E
<1>3. ASSUME bad # {} PROVE FALSE
  <2>1. bad \in SUBSET Nat
    BY <1>1
  <2>2. PICK m \in bad : \A k \in bad : m <= k
    <3> HIDE DEF bad
    <3> QED
      BY <1>3, <2>1, LeastNumber
  <2>3. m \in 0..n /\ ~Fine(n + 1 - m)
    OBVIOUS
  <2>4. PICK j : j = n + 1 - m
    OBVIOUS
  <2>5. j \in 1..n + 1 /\ j \in Nat /\ ~Fine(j)
    BY <1>1, <2>3, <2>4
  <2>6. \A k \in j + 1..n + 1 : Fine(k)
    <3> SUFFICES ASSUME NEW k \in j + 1..n + 1, ~Fine(k) PROVE FALSE
      OBVIOUS
    <3>1. n + 1 - k \in 0..n /\ n + 1 - (n + 1 - k) = k /\ n + 1 - k < m
      BY <1>1, <2>3, <2>4, <2>5
    <3>2. n + 1 - k \in bad
      BY <3>1
    <3> HIDE DEF bad
    <3> QED
      BY <2>1, <2>2, <3>1, <3>2
  <2>7. E[j] = EventsWith(t, E, j)
    BY <1>2, <2>5
  <2>8. CASE j >= n
    <3>1. E[j] = <<>>
      BY <2>7, <2>8 DEF EventsWith
    <3> QED
      BY <2>5, <3>1
  <2>9. CASE ~(j >= n)
    <3> DEFINE e == Ends(t)[j + 2]
    <3>1. j + 1 \in j + 1..n + 1 /\ j < n /\ j \in 1..n
      BY <1>1, <2>5, <2>9
    <3>2. e = 0 \/ e + 1 \in j + 1..n + 1
      BY <3>1, EndLater
    <3>3. e = 0 \/ e \in j + 2..n
      <4>1. j + 2 \in 1..Len(t) + 2
        BY <3>1
      <4> QED
        BY <4>1, EndsInside
    <3>4. CASE ~(t[j] = "ESC" /\ t[j + 1] = "]")
      <4>1. E[j] = E[j + 1]
        BY <2>7, <2>9, <3>4 DEF EventsWith
      <4> QED
        BY <2>5, <2>6, <3>1, <4>1
    <3>5. CASE (t[j] = "ESC" /\ t[j + 1] = "]") /\ e = 0
      <4>1. E[j] = <<>>
        BY <2>7, <2>9, <3>5 DEF EventsWith
      <4> QED
        BY <2>5, <4>1
    <3>6. CASE (t[j] = "ESC" /\ t[j + 1] = "]") /\ e # 0
      <4>1. E[j] = SaidIn(t, j + 2, e) \o E[e + 1]
        BY <2>7, <2>9, <3>6 DEF EventsWith
      <4>2. E[e + 1] \in Seq(Happened)
        BY <2>6, <3>2, <3>6
      <4> HIDE DEF e
      <4>3. SaidIn(t, j + 2, e) \in Seq(Happened)
        <5>1. PICK q : q = SubSeq(t, j + 2, PayloadTo(t, e))
          OBVIOUS
        <5>2. PICK b : b = PayloadTo(t, e)
          OBVIOUS
        <5>3. b \in Int /\ b <= n
          BY <1>1, <3>1, <3>3, <3>6, <5>2 DEF PayloadTo
        <5>4. \A k \in j + 2..b : t[k] \in Chars
          BY <1>1, <3>1, <5>3
        <5>5. q \in Seq(Chars)
          BY <2>5, <5>1, <5>2, <5>3, <5>4, SubSeqProperties
        <5>6. \A k \in 1..e : t[k] \in Chars
          BY <1>1, <3>1, <3>3, <3>6
        <5>7. SubSeq(t, 1, e) \in Seq(Chars)
          BY <3>1, <3>3, <3>6, <5>6, SubSeqProperties
        <5>8. /\ Len(q) > Limit(q) \/ Said(q) = <<>> => SaidIn(t, j + 2, e) = <<>>
              /\ ~(Len(q) > Limit(q) \/ Said(q) = <<>>) =>
                   SaidIn(t, j + 2, e) = <<[what |-> q[1], seen |-> SubSeq(t, 1, e)]>>
          BY <5>1, SaidInIs
        <5>9. CASE Len(q) > Limit(q) \/ Said(q) = <<>>
          <6>1. SaidIn(t, j + 2, e) = <<>>
            BY <5>8, <5>9
          <6> QED
            BY <6>1, EmptySeq
        <5>10. CASE ~(Len(q) > Limit(q) \/ Said(q) = <<>>)
          <6>1. q[1] \in Chars
            BY <5>10 DEF Said, Chars
          <6>2. PICK x : x = [what |-> q[1], seen |-> SubSeq(t, 1, e)]
            OBVIOUS
          <6>3. x \in Happened
            BY <5>7, <6>1, <6>2 DEF Happened
          <6>4. SaidIn(t, j + 2, e) = <<x>>
            BY <5>8, <5>10, <6>2
          <6>5. \A y \in Happened : <<y>> \in Seq(Happened)
            OBVIOUS
          <6> QED
            BY <6>3, <6>4, <6>5
        <5> QED
          BY <5>9, <5>10
      <4>4. E[j] \in Seq(Happened)
        BY <4>1, <4>2, <4>3, ConcatProperties
      <4> QED
        BY <2>5, <4>4
    <3> QED
      BY <3>4, <3>5, <3>6
  <2> QED
    BY <2>8, <2>9
<1>4. PICK m : m = n + 1 - i
  OBVIOUS
<1>5. m \in 0..n /\ n + 1 - m = i
  BY <1>1, <1>4
<1> QED
  BY <1>3, <1>5 DEF E

-----------------------------------------------------------------------------
(* One character more keeps the observer where it should stand.             *)

\* The events of the output and those of the observer grow together.
Tells(E, o, s, E2, r) ==
  \/ E2 = E /\ r.events = o.events
  \/ \E w \in Chars :
       /\ E2 = Append(E, [what |-> w, seen |-> s])
       /\ r.events = Newest(o.events \o <<[what |-> w, at |-> Len(s)]>>)

\* A character no OSC begins with.
LEMMA FollowsSkip ==
  ASSUME NEW s \in Seq(Chars), NEW c \in Chars, NEW E, NEW i \in 1..Len(s) + 1,
         Follows(s, E, i),
         \A t \in Continuations(Append(s, c)) :
           ~(t[i] = "ESC" /\ i < Len(t) /\ t[i + 1] = "]")
  PROVE  Follows(Append(s, c), E, i + 1)
<1> SUFFICES ASSUME NEW t \in Continuations(Append(s, c))
             PROVE  Events(t)[1] = E \o Events(t)[i + 1]
  BY DEF Follows
<1>1. t \in Seq(Chars) /\ t \in Continuations(s) /\ Len(t) >= Len(s) + 1
  BY ContinuesBoth
<1>2. i \in 1..Len(t)
  BY <1>1
<1>3. Events(t)[i] = Events(t)[i + 1]
  BY <1>1, <1>2, EventsSkip
<1> QED
  BY <1>1, <1>3 DEF Follows

\* A character that leaves the beginning where it was.
LEMMA FollowsStays ==
  ASSUME NEW s \in Seq(Chars), NEW c \in Chars, NEW E, NEW i, Follows(s, E, i)
  PROVE  Follows(Append(s, c), E, i)
BY ContinuesFewer DEF Follows

\* The end of an OSC.
LEMMA FollowsEnd ==
  ASSUME NEW s \in Seq(Chars), NEW c \in Chars,
         NEW o \in Observer, o.at = Len(s), Len(o.events) <= MaxQueued,
         NEW r, Ended(o, r), NEW i, NEW k, NEW E \in Seq(Happened), Follows(s, E, i),
         InOsc(s, i, k, o.payload, o.overflow),
         \/ c = "BEL" /\ k = Len(s) + 1
         \/ c = "\\" /\ k = Len(s) /\ s[k] = "ESC"
  PROVE  \E E2 \in Seq(Happened) : /\ Follows(Append(s, c), E2, Len(s) + 2)
                                   /\ Tells(E, o, Append(s, c), E2, r)
<1> DEFINE s2 == Append(s, c)
           n == Len(s)
           none == o.overflow \/ Said(o.payload) = <<>>
<1>1. s2 \in Seq(Chars) /\ Len(s2) = n + 1 /\ n \in Nat
  OBVIOUS
<1>2. i \in 1..n /\ i + 1 \in 1..n /\ s[i] = "ESC" /\ s[i + 1] = "]"
  <2>1. k \in i + 2..n + 1 /\ i \in 1..n /\ s[i] = "ESC" /\ s[i + 1] = "]"
    BY DEF InOsc
  <2> QED
    BY <1>1, <2>1
<1>3. o.payload \in Seq(Chars) /\ o.events \in Seq(Noted) /\ o.at \in Nat
      /\ o.overflow \in BOOLEAN
  BY DEF Observer
<1>4. ASSUME NEW t \in Continuations(s2)
      PROVE  /\ Events(t)[n + 2] \in Seq(Happened)
             /\ Events(t)[1] = E \o (SaidIn(t, i + 2, n + 1) \o Events(t)[n + 2])
             /\ SaidIn(t, i + 2, n + 1) =
                  IF o.overflow \/ Said(o.payload) = <<>> THEN <<>>
                  ELSE <<[what |-> o.payload[1], seen |-> s2]>>
  <2>1. /\ t \in Seq(Chars) /\ t \in Continuations(s) /\ Len(t) >= n + 1 /\ Len(t) \in Nat
    BY ContinuesBoth
  <2>2. t[i] = "ESC" /\ t[i + 1] = "]"
    BY <1>2, <2>1 DEF Continuations
  <2>3. i \in 1..Len(t) /\ i < Len(t) /\ n + 2 \in 1..Len(t) + 1 /\ n + 1 # 0
        /\ n + 1 + 1 = n + 2
    BY <1>1, <1>2, <2>1
  <2>4. /\ Ends(t)[i + 2] = n + 1
        /\ SaidIn(t, i + 2, n + 1) =
             IF o.overflow \/ Said(o.payload) = <<>> THEN <<>>
             ELSE <<[what |-> o.payload[1], seen |-> s2]>>
    BY InOscEnds
  <2>5. Events(t)[i] = SaidIn(t, i + 2, Ends(t)[i + 2]) \o Events(t)[Ends(t)[i + 2] + 1]
    BY <2>1, <2>2, <2>3, <2>4, EventsOsc
  <2>6. Events(t)[i] = SaidIn(t, i + 2, n + 1) \o Events(t)[n + 2]
    BY <2>3, <2>4, <2>5
  <2>7. Events(t)[1] = E \o Events(t)[i]
    BY <2>1 DEF Follows
  <2>8. Events(t)[n + 2] \in Seq(Happened)
    BY <2>1, <2>3, EventsType
  <2> QED
    BY <2>4, <2>6, <2>7, <2>8
<1> HIDE DEF s2
<1>5. CASE none
  <2>1. ASSUME NEW t \in Continuations(s2) PROVE Events(t)[1] = E \o Events(t)[n + 2]
    <3>1. SaidIn(t, i + 2, n + 1) = <<>>
      BY <1>4, <1>5
    <3>2. <<>> \o Events(t)[n + 2] = Events(t)[n + 2]
      BY <1>4, ConcatEmptySeq
    <3> QED
      BY <1>4, <3>1, <3>2
  <2>2. Follows(s2, E, n + 2)
    BY <2>1 DEF Follows
  <2>3. r.events = o.events
    <3>1. CASE o.overflow
      BY <3>1 DEF Ended
    <3>2. CASE ~o.overflow
      <4>1. Said(o.payload) = <<>> /\ o.at + 1 \in Nat
        BY <1>3, <1>5, <3>2
      <4>2. Reported(o.payload, o.at + 1) = <<>>
        BY <1>3, <4>1, ReportedIs
      <4>3. o.events \o <<>> = o.events
        BY <1>3, ConcatEmptySeq
      <4>4. r.events = Newest(o.events)
        BY <3>2, <4>2, <4>3 DEF Ended
      <4>5. ~(Len(o.events) > MaxQueued)
        <5>1. Len(o.events) \in Nat /\ MaxQueued \in Nat
          BY <1>3, QueueAssumption
        <5> QED
          BY <5>1
      <4> QED
        BY <4>4, <4>5 DEF Newest
    <3> QED
      BY <3>1, <3>2
  <2> QED
    BY <2>2, <2>3 DEF Tells, s2
<1>6. CASE ~none
  <2> DEFINE w == o.payload[1]
             x == [what |-> w, seen |-> s2]
             y == [what |-> w, at |-> n + 1]
  <2>1. ~o.overflow /\ o.at + 1 = n + 1 /\ n + 1 \in Nat
    BY <1>1, <1>6
  <2>2. /\ Reported(o.payload, n + 1) = <<y>> /\ w \in Chars
    BY <1>3, <1>6, <2>1, ReportedIs
  <2>3. x \in Happened
    BY <1>1, <2>2 DEF Happened
  <2> HIDE DEF w
  <2>4. r.events = Newest(o.events \o <<y>>)
    BY <2>1, <2>2 DEF Ended
  <2>5. ASSUME NEW t \in Continuations(s2) PROVE SaidIn(t, i + 2, n + 1) = <<x>>
    BY <1>4, <1>6 DEF w
  <2> HIDE DEF x
  <2>6. <<x>> \in Seq(Happened) /\ Append(E, x) = E \o <<x>> /\ Append(E, x) \in Seq(Happened)
    BY <2>3, AppendIsConcat, AppendProperties
  <2>7. ASSUME NEW t \in Continuations(s2)
        PROVE  Events(t)[1] = Append(E, x) \o Events(t)[n + 2]
    <3>1. PICK R : R = Events(t)[n + 2]
      OBVIOUS
    <3>2. R \in Seq(Happened)
      BY <1>4, <3>1
    <3>3. PICK X : X = <<x>>
      OBVIOUS
    <3>4. X \in Seq(Happened)
      BY <2>6, <3>3
    <3>5. (E \o X) \o R = E \o (X \o R)
      BY <3>2, <3>4, ConcatAssociative
    <3> QED
      BY <1>4, <2>5, <2>6, <3>1, <3>3, <3>5
  <2>8. Follows(s2, Append(E, x), n + 2)
    BY <2>7 DEF Follows
  <2>9. Tells(E, o, s2, Append(E, x), r)
    BY <1>1, <2>2, <2>4 DEF Tells, x
  <2> QED
    BY <2>6, <2>8, <2>9 DEF s2
<1> QED
  BY <1>5, <1>6

\* The observer is typed, knows its place, and stands where the events of the
\* output that have happened end.
Tracks(s, o, E) ==
  /\ o \in Observer /\ o.at = Len(s) /\ Len(o.events) <= MaxQueued
  /\ E \in Seq(Happened)
  /\ \E i : At(s, o, i) /\ Follows(s, E, i)

\* OscParser::feed() keeps track of the output by one character.
LEMMA TracksStep ==
  ASSUME NEW s \in Seq(Chars), NEW c \in Chars, NEW o, NEW E, Tracks(s, o, E)
  PROVE  \E E2 : /\ Tracks(Append(s, c), Fed(o, c), E2)
                 /\ Tells(E, o, Append(s, c), E2, Fed(o, c))
<1> DEFINE s2 == Append(s, c)
           n == Len(s)
           r == Fed(o, c)
<1>1. s2 \in Seq(Chars) /\ Len(s2) = n + 1 /\ n \in Nat /\ s2[n + 1] = c
      /\ \A j \in 1..n : s2[j] = s[j]
  OBVIOUS
<1>2. /\ o \in Observer /\ o.at = Len(s) /\ Len(o.events) <= MaxQueued
      /\ E \in Seq(Happened)
  BY DEF Tracks
<1>3. PICK i : At(s, o, i) /\ Follows(s, E, i)
  BY DEF Tracks
<1>4. /\ r \in Observer
      /\ r.at = o.at + 1
      /\ o.state = "Ground" =>
           /\ r.events = o.events
           /\ r.state = IF c = "ESC" THEN "Escape" ELSE "Ground"
      /\ o.state = "Escape" =>
           /\ r.events = o.events
           /\ c = "]" => r.state = "Osc" /\ r.payload = <<>> /\ r.overflow = FALSE
           /\ c = "ESC" => r.state = "Escape"
           /\ c \notin {"]", "ESC"} => r.state = "Ground"
      /\ o.state = "Osc" =>
           /\ c = "BEL" => Ended(o, r)
           /\ c = "ESC" => /\ r.state = "OscEscape" /\ r.payload = o.payload
                           /\ r.overflow = o.overflow /\ r.events = o.events
           /\ c \notin {"BEL", "ESC"} => r.state = "Osc" /\ Grew(o, r, <<c>>)
      /\ o.state = "OscEscape" =>
           /\ c = "\\" => Ended(o, r)
           /\ c # "\\" => r.state = "Osc" /\ Grew(o, r, <<"ESC", c>>)
  <2>1. FedSteps(o, c, r)
    BY <1>2, FedIs
  <2> QED
    BY <2>1 DEF FedSteps
<1> HIDE DEF s2, r
<1>5. ASSUME NEW E2 \in Seq(Happened), NEW i2,
             At(s2, r, i2), Follows(s2, E2, i2), Tells(E, o, s2, E2, r)
      PROVE  \E F : Tracks(s2, r, F) /\ Tells(E, o, s2, F, r)
  <2>1. r.at = Len(s2)
    BY <1>1, <1>2, <1>4
  <2>2. Len(r.events) <= MaxQueued
    <3>1. CASE r.events = o.events
      BY <1>2, <3>1
    <3>2. CASE \E w \in Chars : r.events = Newest(o.events \o <<[what |-> w, at |-> Len(s2)]>>)
      <4>1. PICK w \in Chars : r.events = Newest(o.events \o <<[what |-> w, at |-> Len(s2)]>>)
        BY <3>2
      <4>2. PICK x : x = [what |-> w, at |-> Len(s2)]
        OBVIOUS
      <4>3. x \in Noted
        BY <1>1, <4>2 DEF Noted
      <4>4. o.events \in Seq(Noted)
        BY <1>2 DEF Observer
      <4>5. o.events \o <<x>> \in Seq(Noted)
        BY <4>3, <4>4
      <4>6. Len(Newest(o.events \o <<x>>)) <= MaxQueued
        <5>1. PICK e : e = o.events \o <<x>>
          OBVIOUS
        <5>2. e \in Seq(Noted) /\ Len(e) \in Nat /\ MaxQueued \in Nat
          BY <4>5, <5>1, QueueAssumption
        <5>3. Len(Newest(e)) = IF Len(e) > MaxQueued THEN MaxQueued ELSE Len(e)
          BY <5>2, NewestIs
        <5>4. Len(Newest(e)) <= MaxQueued
          BY <5>2, <5>3
        <5> QED
          BY <5>1, <5>4
      <4> QED
        BY <4>1, <4>2, <4>6
    <3> QED
      BY <1>5, <3>1, <3>2 DEF Tells
  <2>3. Tracks(s2, r, E2)
    BY <1>4, <1>5, <2>1, <2>2 DEF Tracks
  <2> QED
    BY <1>5, <2>3
<1>6. CASE o.state = "Ground" /\ i = n + 1
  <2>1. r.events = o.events /\ Tells(E, o, s2, E, r)
    BY <1>4, <1>6 DEF Tells
  <2>2. CASE c = "ESC"
    <3>1. At(s2, r, i)
      BY <1>1, <1>4, <1>6, <2>2 DEF At
    <3>2. Follows(s2, E, i)
      BY <1>3, FollowsStays DEF s2
    <3> QED
      BY <1>2, <1>5, <2>1, <3>1, <3>2 DEF s2, r
  <2>3. CASE c # "ESC"
    <3>1. i + 1 = Len(s2) + 1 /\ i \in 1..Len(s) + 1
      BY <1>1, <1>6
    <3>2. At(s2, r, i + 1)
      BY <1>4, <1>6, <2>3, <3>1 DEF At
    <3>3. \A t \in Continuations(s2) : t[i] = c
      BY <1>6, ContinuesBoth DEF s2
    <3>4. Follows(s2, E, i + 1)
      BY <1>3, <2>3, <3>1, <3>3, FollowsSkip DEF s2
    <3> QED
      BY <1>2, <1>5, <2>1, <3>2, <3>4 DEF s2, r
  <2> QED
    BY <2>2, <2>3
<1>7. CASE o.state = "Escape" /\ i = n /\ i >= 1 /\ s[i] = "ESC"
  <2>1. r.events = o.events /\ Tells(E, o, s2, E, r)
    BY <1>4, <1>7 DEF Tells
  <2>2. i \in 1..Len(s) + 1 /\ i + 1 = n + 1 /\ i \in 1..n /\ n >= 1
    BY <1>1, <1>7
  <2>3. \A t \in Continuations(s2) : /\ t[i] = "ESC" /\ t[i + 1] = c
                                     /\ t \in Seq(Chars) /\ Len(t) >= n + 1
    <3> SUFFICES ASSUME NEW t \in Continuations(s2)
                 PROVE  /\ t[i] = "ESC" /\ t[i + 1] = c
                        /\ t \in Seq(Chars) /\ Len(t) >= n + 1
      OBVIOUS
    <3>1. t \in Continuations(s) /\ t[n + 1] = c /\ t \in Seq(Chars) /\ Len(t) >= n + 1
      BY ContinuesBoth DEF s2
    <3>2. t[i] = s[i]
      BY <2>2, <3>1 DEF Continuations
    <3> QED
      BY <1>7, <2>2, <3>1, <3>2
  <2>4. CASE c = "]"
    <3>1. r.state = "Osc" /\ r.payload = <<>> /\ r.overflow = FALSE
      BY <1>4, <1>7, <2>4
    <3>2. s[Len(s)] = "ESC" /\ Len(s) >= 1
      BY <1>7
    <3>3. InOsc(s2, i, Len(s2) + 1, <<>>, FALSE)
      BY <1>7, <2>4, <3>2, InOscOpens DEF s2
    <3>4. At(s2, r, i)
      BY <3>1, <3>3 DEF At
    <3>5. Follows(s2, E, i)
      BY <1>3, FollowsStays DEF s2
    <3> QED
      BY <1>2, <1>5, <2>1, <3>4, <3>5 DEF s2, r
  <2>5. CASE c # "]"
    <3>1. Follows(s2, E, i + 1)
      BY <1>3, <2>2, <2>3, <2>5, FollowsSkip DEF s2
    <3>2. CASE c = "ESC"
      <4>1. r.state = "Escape"
        BY <1>4, <1>7, <3>2
      <4>2. i + 1 = Len(s2) /\ i + 1 >= 1 /\ s2[i + 1] = "ESC"
        BY <1>1, <2>2, <3>2
      <4>3. At(s2, r, i + 1)
        BY <4>1, <4>2 DEF At
      <4> QED
        BY <1>2, <1>5, <2>1, <3>1, <4>3 DEF s2, r
    <3>3. CASE c # "ESC"
      <4>1. r.state = "Ground"
        BY <1>4, <1>7, <2>5, <3>3
      <4>2. i + 2 = Len(s2) + 1 /\ i + 1 \in 1..Len(s) + 1 /\ i + 1 + 1 = i + 2
        BY <1>1, <2>2
      <4>3. At(s2, r, i + 2)
        BY <4>1, <4>2 DEF At
      <4>4. \A t \in Continuations(s2) : Events(t)[i + 1] = Events(t)[i + 2]
        <5> SUFFICES ASSUME NEW t \in Continuations(s2)
                     PROVE  Events(t)[i + 1] = Events(t)[i + 2]
          OBVIOUS
        <5>1. t \in Seq(Chars) /\ i + 1 \in 1..Len(t) /\ t[i + 1] = c
          BY <1>1, <2>2, <2>3
        <5> QED
          BY <3>3, <4>2, <5>1, EventsSkip
      <4>5. Follows(s2, E, i + 2)
        BY <3>1, <4>4 DEF Follows
      <4> QED
        BY <1>2, <1>5, <2>1, <4>3, <4>5 DEF s2, r
    <3> QED
      BY <3>2, <3>3
  <2> QED
    BY <2>4, <2>5
<1>8. CASE o.state = "Osc" /\ InOsc(s, i, n + 1, o.payload, o.overflow)
  <2>1. CASE c = "BEL"
    <3>1. Ended(o, r)
      BY <1>4, <1>8, <2>1
    <3>2. PICK E2 \in Seq(Happened) : Follows(s2, E2, n + 2) /\ Tells(E, o, s2, E2, r)
      BY <1>2, <1>3, <1>8, <2>1, <3>1, FollowsEnd DEF s2
    <3>3. n + 2 = Len(s2) + 1
      BY <1>1
    <3>4. At(s2, r, n + 2)
      BY <3>1, <3>3 DEF At, Ended
    <3> QED
      BY <1>5, <3>2, <3>4 DEF s2, r
  <2>2. CASE c = "ESC"
    <3>1. r.state = "OscEscape" /\ r.payload = o.payload /\ r.overflow = o.overflow
          /\ r.events = o.events
      BY <1>4, <1>8, <2>2
    <3>2. InOsc(s2, i, n + 1, r.payload, r.overflow)
      BY <1>8, <3>1, InOscStays DEF s2
    <3>3. At(s2, r, i)
      BY <1>1, <2>2, <3>1, <3>2 DEF At
    <3>4. Follows(s2, E, i)
      BY <1>3, FollowsStays DEF s2
    <3>5. Tells(E, o, s2, E, r)
      BY <3>1 DEF Tells
    <3> QED
      BY <1>2, <1>5, <3>3, <3>4, <3>5 DEF s2, r
  <2>3. CASE c \notin {"BEL", "ESC"}
    <3>1. r.state = "Osc" /\ Grew(o, r, <<c>>)
      BY <1>4, <1>8, <2>3
    <3>2. InOsc(s2, i, Len(s2) + 1, r.payload, r.overflow)
      BY <1>2, <1>4, <1>8, <2>3, <3>1, InOscGrows DEF s2
    <3>3. At(s2, r, i)
      BY <3>1, <3>2 DEF At
    <3>4. Follows(s2, E, i)
      BY <1>3, FollowsStays DEF s2
    <3>5. Tells(E, o, s2, E, r)
      BY <3>1 DEF Tells, Grew
    <3> QED
      BY <1>2, <1>5, <3>3, <3>4, <3>5 DEF s2, r
  <2> QED
    BY <2>1, <2>2, <2>3
<1>9. CASE /\ o.state = "OscEscape" /\ s[n] = "ESC"
           /\ InOsc(s, i, n, o.payload, o.overflow)
  <2>1. CASE c = "\\"
    <3>1. Ended(o, r)
      BY <1>4, <1>9, <2>1
    <3>2. PICK E2 \in Seq(Happened) : Follows(s2, E2, n + 2) /\ Tells(E, o, s2, E2, r)
      BY <1>2, <1>3, <1>9, <2>1, <3>1, FollowsEnd DEF s2
    <3>3. n + 2 = Len(s2) + 1
      BY <1>1
    <3>4. At(s2, r, n + 2)
      BY <3>1, <3>3 DEF At, Ended
    <3> QED
      BY <1>5, <3>2, <3>4 DEF s2, r
  <2>2. CASE c # "\\"
    <3>1. r.state = "Osc" /\ Grew(o, r, <<"ESC", c>>)
      BY <1>4, <1>9, <2>2
    <3>2. InOsc(s2, i, Len(s2) + 1, r.payload, r.overflow)
      BY <1>2, <1>4, <1>9, <2>2, <3>1, InOscGrowsTwo DEF s2
    <3>3. At(s2, r, i)
      BY <3>1, <3>2 DEF At
    <3>4. Follows(s2, E, i)
      BY <1>3, FollowsStays DEF s2
    <3>5. Tells(E, o, s2, E, r)
      BY <3>1 DEF Tells, Grew
    <3> QED
      BY <1>2, <1>5, <3>3, <3>4, <3>5 DEF s2, r
  <2> QED
    BY <2>1, <2>2
<1> QED
  BY <1>3, <1>6, <1>7, <1>8, <1>9 DEF At

-----------------------------------------------------------------------------
(* The events of a write, and the queue.                                    *)

\* x is what waits of the events E when the first d are gone.
Waits(x, E, d) ==
  /\ Len(x) = IF Len(E) - d > MaxQueued THEN MaxQueued ELSE Len(E) - d
  /\ \A j \in 1..Len(x) : x[j] = E[Len(E) - Len(x) + j]

\* F continues E.
Prefix(E, F) == Len(E) <= Len(F) /\ \A j \in 1..Len(E) : F[j] = E[j]

\* What waited, and what came since: the newest of both are what waits now.
LEMMA NewestJoin ==
  ASSUME NEW T, NEW E \in Seq(T), NEW F \in Seq(T), Prefix(E, F),
         NEW d \in 0..Len(E), NEW x \in Seq(T), NEW y \in Seq(T),
         Waits(x, E, d), Waits(y, F, Len(E))
  PROVE  Waits(Newest(x \o y), F, d) /\ Newest(x \o y) \in Seq(T)
<1> DEFINE z == x \o y
           N == Newest(z)
<1>1. /\ z \in Seq(T) /\ Len(z) = Len(x) + Len(y)
      /\ \A j \in 1..Len(x) + Len(y) : z[j] = IF j <= Len(x) THEN x[j] ELSE y[j - Len(x)]
  BY ConcatProperties
<1>2. /\ N \in Seq(T)
      /\ Len(N) = IF Len(z) > MaxQueued THEN MaxQueued ELSE Len(z)
      /\ \A j \in 1..Len(N) : N[j] = z[Len(z) - Len(N) + j]
  BY <1>1, NewestIs
<1> HIDE DEF z, N
<1>3. PICK a, b, p, q, k : a = Len(E) /\ b = Len(F) /\ p = Len(x) /\ q = Len(y) /\ k = Len(N)
  OBVIOUS
<1>4. /\ a \in Nat /\ b \in Nat /\ p \in Nat /\ q \in Nat /\ k \in Nat /\ d \in Nat
      /\ d <= a /\ a <= b /\ MaxQueued \in Nat /\ MaxQueued >= 1
  BY <1>2, <1>3, QueueAssumption DEF Prefix
<1>5. /\ p = IF a - d > MaxQueued THEN MaxQueued ELSE a - d
      /\ q = IF b - a > MaxQueued THEN MaxQueued ELSE b - a
      /\ k = IF p + q > MaxQueued THEN MaxQueued ELSE p + q
  BY <1>1, <1>2, <1>3 DEF Waits
<1>6. k = IF b - d > MaxQueued THEN MaxQueued ELSE b - d
  BY <1>4, <1>5
<1>7. ASSUME NEW j \in 1..k PROVE N[j] = F[b - k + j]
  <2>1. PICK i : i = p + q - k + j
    OBVIOUS
  <2>2. i \in 1..p + q /\ i \in Nat /\ j \in Nat
    BY <1>4, <1>5, <2>1
  <2>3. N[j] = z[i]
    <3>1. Len(z) = p + q /\ Len(N) = k
      BY <1>1, <1>3
    <3>2. N[j] = z[Len(z) - Len(N) + j]
      BY <1>2, <3>1
    <3>3. Len(z) - Len(N) + j = i
      BY <1>4, <2>1, <2>2, <3>1
    <3> QED
      BY <3>2, <3>3
  <2>4. CASE i <= p
    <3>1. z[i] = x[i] /\ i \in 1..p
      BY <1>1, <1>3, <2>2, <2>4
    <3>2. x[i] = E[a - p + i]
      BY <1>3, <3>1 DEF Waits
    <3>3. q = b - a /\ a - p + i = b - k + j /\ b - k + j \in 1..a
      BY <1>4, <1>5, <2>1, <2>2, <2>4
    <3>4. F[b - k + j] = E[b - k + j]
      BY <1>3, <3>3 DEF Prefix
    <3> QED
      BY <2>3, <3>1, <3>2, <3>3, <3>4
  <2>5. CASE ~(i <= p)
    <3>1. z[i] = y[i - p] /\ i - p \in 1..q
      BY <1>1, <1>3, <1>4, <2>2, <2>5
    <3>2. y[i - p] = F[b - q + (i - p)]
      BY <1>3, <3>1 DEF Waits
    <3>3. b - q + (i - p) = b - k + j
      BY <1>4, <2>1, <2>2
    <3> QED
      BY <2>3, <3>1, <3>2, <3>3
  <2> QED
    BY <2>4, <2>5
<1>8. Waits(N, F, d)
  BY <1>3, <1>6, <1>7 DEF Waits
<1> QED
  BY <1>2, <1>8 DEF N, z

\* The events as the observer notes them.
Image(E) == [j \in 1..Len(E) |-> [what |-> E[j].what, at |-> Len(E[j].seen)]]

\* The image is as long, and is so element by element.
LEMMA ImageIs ==
  ASSUME NEW E \in Seq(Happened)
  PROVE  /\ Image(E) \in Seq(Noted) /\ Len(Image(E)) = Len(E)
         /\ \A j \in 1..Len(E) : Image(E)[j] = [what |-> E[j].what, at |-> Len(E[j].seen)]
<1>1. Len(E) \in Nat /\ \A j \in 1..Len(E) : E[j] \in Happened
  OBVIOUS
<1>2. ASSUME NEW j \in 1..Len(E)
      PROVE  [what |-> E[j].what, at |-> Len(E[j].seen)] \in Noted
  <2>1. PICK e : e = E[j]
    OBVIOUS
  <2>2. e.what \in Chars /\ e.seen \in Seq(Chars)
    BY <1>1, <2>1 DEF Happened
  <2>3. Len(e.seen) \in Nat
    BY <2>2
  <2>4. [what |-> e.what, at |-> Len(e.seen)] \in Noted
    BY <2>2, <2>3 DEF Noted
  <2> QED
    BY <2>1, <2>4
<1>3. Image(E) \in [1..Len(E) -> Noted]
  BY <1>2 DEF Image
<1>4. Image(E) \in Seq(Noted) /\ Len(Image(E)) = Len(E)
  BY <1>1, <1>3
<1>5. \A j \in 1..Len(E) : Image(E)[j] = [what |-> E[j].what, at |-> Len(E[j].seen)]
  BY DEF Image
<1> QED
  BY <1>4, <1>5

\* Every event knows the output up to its end.
Seen(E, s) ==
  \A j \in 1..Len(E) : /\ Len(E[j].seen) \in 1..Len(s)
                       /\ E[j].seen = SubSeq(s, 1, Len(E[j].seen))

\* Since the output s and its events E, F have become the events, of which the
\* observer o holds those it has not forgotten.
Gathered(s, E, now, o, F) ==
  /\ F \in Seq(Happened) /\ Prefix(E, F) /\ Seen(F, now)
  /\ \A j \in Len(E) + 1..Len(F) : Len(F[j].seen) > Len(s)
  /\ Waits(o.events, Image(F), Len(E))

\* One character more, and the observer still holds the newest of the new
\* events.
LEMMA GatheredStep ==
  ASSUME NEW s \in Seq(Chars), NEW E \in Seq(Happened), NEW now \in Seq(Chars),
         Len(s) <= Len(now), NEW c \in Chars,
         NEW o \in Observer, NEW r \in Observer, NEW F, NEW G,
         Gathered(s, E, now, o, F), Tells(F, o, Append(now, c), G, r)
  PROVE  Gathered(s, E, Append(now, c), r, G)
<1> DEFINE s2 == Append(now, c)
           n == Len(now)
<1>1. s2 \in Seq(Chars) /\ Len(s2) = n + 1 /\ n \in Nat /\ s2 \in Continuations(now)
      /\ Len(s) \in Nat /\ Len(E) \in Nat
  BY ContinuesFewer
<1>2. SubSeq(s2, 1, n + 1) = s2
  BY <1>1, SubSeqFull
<1> HIDE DEF s2
<1>3. /\ F \in Seq(Happened) /\ Prefix(E, F) /\ Seen(F, now)
      /\ \A j \in Len(E) + 1..Len(F) : Len(F[j].seen) > Len(s)
      /\ Waits(o.events, Image(F), Len(E))
      /\ Len(F) \in Nat
  BY DEF Gathered
<1>4. Seen(F, s2)
  <2> SUFFICES ASSUME NEW j \in 1..Len(F)
               PROVE  /\ Len(F[j].seen) \in 1..Len(s2)
                      /\ F[j].seen = SubSeq(s2, 1, Len(F[j].seen))
    BY DEF Seen
  <2>1. PICK l : l = Len(F[j].seen)
    OBVIOUS
  <2>2. l \in 1..n /\ F[j].seen = SubSeq(now, 1, l)
    BY <1>3, <2>1 DEF Seen
  <2>3. l \in 0..n /\ 1 \in 1..n + 1 /\ l \in 1..Len(s2)
    BY <1>1, <2>2
  <2>4. SubSeq(s2, 1, l) = SubSeq(now, 1, l)
    BY <1>1, <2>3, SameParts
  <2> QED
    BY <2>1, <2>2, <2>3, <2>4
<1>5. CASE G = F /\ r.events = o.events
  BY <1>3, <1>4, <1>5 DEF Gathered, s2
<1>6. ASSUME NEW w \in Chars, G = Append(F, [what |-> w, seen |-> s2]),
             r.events = Newest(o.events \o <<[what |-> w, at |-> Len(s2)]>>)
      PROVE  Gathered(s, E, s2, r, G)
  <2> DEFINE x == [what |-> w, seen |-> s2]
             y == [what |-> w, at |-> Len(s2)]
             m == Len(F)
  <2>1. x \in Happened /\ y \in Noted /\ x.seen = s2 /\ x.what = w
    BY <1>1 DEF Happened, Noted
  <2>2. y = [what |-> x.what, at |-> Len(x.seen)] /\ G = Append(F, x)
        /\ r.events = Newest(o.events \o <<y>>)
    BY <1>6
  <2> HIDE DEF x, y
  <2>3. /\ G \in Seq(Happened) /\ Len(G) = m + 1 /\ G[m + 1] = x
        /\ \A j \in 1..m : G[j] = F[j]
        /\ m \in Nat
    BY <1>3, <2>1, <2>2
  <2>4. Prefix(E, G)
    BY <1>1, <1>3, <2>3 DEF Prefix
  <2>5. Seen(G, s2)
    <3> SUFFICES ASSUME NEW j \in 1..Len(G)
                 PROVE  /\ Len(G[j].seen) \in 1..Len(s2)
                        /\ G[j].seen = SubSeq(s2, 1, Len(G[j].seen))
      BY DEF Seen
    <3>1. CASE j \in 1..m
      BY <1>4, <2>3, <3>1 DEF Seen
    <3>2. CASE j = m + 1
      BY <1>1, <1>2, <2>1, <2>3, <3>2
    <3> QED
      BY <2>3, <3>1, <3>2
  <2>6. \A j \in Len(E) + 1..Len(G) : Len(G[j].seen) > Len(s)
    <3> SUFFICES ASSUME NEW j \in Len(E) + 1..Len(G) PROVE Len(G[j].seen) > Len(s)
      OBVIOUS
    <3>1. CASE j \in Len(E) + 1..m
      <4>1. j \in 1..m
        BY <1>1, <3>1
      <4> QED
        BY <1>3, <2>3, <3>1, <4>1
    <3>2. CASE j = m + 1
      <4>1. Len(G[j].seen) = n + 1
        BY <1>1, <2>1, <2>3, <3>2
      <4> QED
        BY <1>1, <4>1
    <3> QED
      BY <1>1, <2>3, <3>1, <3>2
  <2>7. Waits(r.events, Image(G), Len(E))
    <3> DEFINE A == Image(F)
               B == Image(G)
               Y == <<y>>
    <3>1. /\ A \in Seq(Noted) /\ Len(A) = m
          /\ \A j \in 1..m : A[j] = [what |-> F[j].what, at |-> Len(F[j].seen)]
      BY <1>3, ImageIs
    <3>2. /\ B \in Seq(Noted) /\ Len(B) = m + 1
          /\ \A j \in 1..m + 1 : B[j] = [what |-> G[j].what, at |-> Len(G[j].seen)]
      BY <2>3, ImageIs
    <3>3. Y \in Seq(Noted) /\ Len(Y) = 1 /\ Y[1] = y
      BY <2>1
    <3>4. o.events \in Seq(Noted)
      BY DEF Observer
    <3>5. r.events = Newest(o.events \o Y) /\ Waits(o.events, A, Len(E))
      BY <1>3, <2>2
    <3> HIDE DEF A, B, Y
    <3>6. m + 1 \in 1..m + 1 /\ \A j \in 1..m : j \in 1..m + 1
      BY <2>3
    <3>7. Prefix(A, B)
      <4>1. \A j \in 1..m : B[j] = A[j]
        BY <2>3, <3>1, <3>2, <3>6
      <4>2. m <= m + 1
        BY <2>3
      <4> QED
        BY <3>1, <3>2, <4>1, <4>2 DEF Prefix
    <3>8. B[m + 1] = y
      BY <2>2, <2>3, <3>2, <3>6
    <3>9. Waits(Y, B, m)
      <4>1. MaxQueued \in Nat /\ MaxQueued >= 1
        BY QueueAssumption
      <4>2. m + 1 - m = 1 /\ ~(1 > MaxQueued) /\ m + 1 - 1 + 1 = m + 1
        BY <2>3, <4>1
      <4>3. Len(Y) = IF Len(B) - m > MaxQueued THEN MaxQueued ELSE Len(B) - m
        BY <3>2, <3>3, <4>2
      <4>4. \A j \in 1..1 : j = 1
        OBVIOUS
      <4>5. \A j \in 1..Len(Y) : Y[j] = B[Len(B) - Len(Y) + j]
        BY <3>2, <3>3, <3>8, <4>2, <4>4
      <4> QED
        BY <4>3, <4>5 DEF Waits
    <3>10. Len(E) \in 0..Len(A)
      BY <1>1, <1>3, <3>1 DEF Prefix
    <3>11. Waits(Newest(o.events \o Y), B, Len(E))
      BY <3>1, <3>2, <3>3, <3>4, <3>5, <3>7, <3>9, <3>10, NewestJoin
    <3> QED
      BY <3>5, <3>11 DEF B
  <2> QED
    BY <2>3, <2>4, <2>5, <2>6, <2>7 DEF Gathered
<1> QED
  BY <1>5, <1>6 DEF Tells, s2

-----------------------------------------------------------------------------
(* Between the writes.                                                      *)

\* The core was given everything; and of the events E of the output the first d
\* were taken with a poll, or are older than it, and of the others the newest
\* wait.
Kept(s, ob, core, waiting, taken, E, d) ==
  /\ s \in Seq(Chars) /\ core = s /\ taken \in 0..Len(s)
  /\ Tracks(s, ob, E) /\ Seen(E, s) /\ d \in 0..Len(E)
  /\ \A j \in 1..Len(E) : Len(E[j].seen) > taken <=> j > d
  /\ waiting \in Seq(Happened) /\ Waits(waiting, E, d)

OscInv == \E E, d : Kept(stream, ObserverNow, cored, semantic, drained, E, d)

\* Concatenation is associative.
LEMMA Regrouped ==
  ASSUME NEW S, NEW x \in Seq(S), NEW y \in Seq(S), NEW z \in Seq(S)
  PROVE  x \o (y \o z) = (x \o y) \o z
<1>1. (x \o y) \o z = x \o (y \o z)
  BY ConcatAssociative
<1> QED
  BY <1>1

\* The output when i characters of data are written.
Upto(data, i) == stream \o SubSeq(data, 1, i)

\* It grows by one character at a time, from the output to the whole write.
LEMMA UptoIs ==
  ASSUME stream \in Seq(Chars), NEW data \in Seq(Chars), NEW i \in 0..Len(data)
  PROVE  /\ Upto(data, i) \in Seq(Chars) /\ Len(Upto(data, i)) = Len(stream) + i
         /\ i = 0 => Upto(data, i) = stream
         /\ i = Len(data) => Upto(data, i) = stream \o data
         /\ i > 0 => Upto(data, i) = Append(Upto(data, i - 1), data[i])
<1>1. Len(data) \in Nat /\ Len(stream) \in Nat /\ i \in Nat
  OBVIOUS
<1>2. ASSUME NEW k \in 0..Len(data)
      PROVE  SubSeq(data, 1, k) \in Seq(Chars) /\ Len(SubSeq(data, 1, k)) = k
  <2>1. \A j \in 1..k : data[j] \in Chars
    BY <1>1
  <2>2. SubSeq(data, 1, k) \in Seq(Chars) /\ Len(SubSeq(data, 1, k)) = IF 1 <= k THEN k - 1 + 1 ELSE 0
    BY <1>1, <2>1, SubSeqProperties
  <2> QED
    BY <1>1, <2>2
<1>3. Upto(data, i) \in Seq(Chars) /\ Len(Upto(data, i)) = Len(stream) + i
  BY <1>2, ConcatProperties DEF Upto
<1>4. i = 0 => Upto(data, i) = stream
  <2> SUFFICES ASSUME i = 0 PROVE Upto(data, i) = stream
    OBVIOUS
  <2>1. SubSeq(data, 1, 0) = <<>>
    BY SubSeqEmpty
  <2>2. stream \o <<>> = stream
    BY ConcatEmptySeq
  <2> QED
    BY <2>1, <2>2 DEF Upto
<1>5. i = Len(data) => Upto(data, i) = stream \o data
  BY SubSeqFull DEF Upto
<1>6. i > 0 => Upto(data, i) = Append(Upto(data, i - 1), data[i])
  <2> SUFFICES ASSUME i > 0 PROVE Upto(data, i) = Append(Upto(data, i - 1), data[i])
    OBVIOUS
  <2>1. i \in 1..Len(data) /\ 1 \in 1..Len(data) /\ i - 1 \in 0..Len(data)
    BY <1>1
  <2>2. PICK a : a = SubSeq(data, 1, i - 1)
    OBVIOUS
  <2>3. PICK c : c = data[i]
    OBVIOUS
  <2>4. a \in Seq(Chars) /\ c \in Chars
    BY <1>2, <2>1, <2>2, <2>3
  <2>5. SubSeq(data, 1, i) = a \o <<c>>
    BY <2>1, <2>2, <2>3, SubSeqRecursiveSecond
  <2>6. PICK b : b = <<c>>
    OBVIOUS
  <2>7. b \in Seq(Chars)
    <3>1. \A x \in Chars : <<x>> \in Seq(Chars)
      OBVIOUS
    <3> QED
      BY <2>4, <2>6, <3>1
  <2>8. stream \o (a \o b) = (stream \o a) \o b
    <3>1. stream \in Seq(Chars) /\ a \in Seq(Chars) /\ b \in Seq(Chars)
      BY <2>4, <2>7
    <3> QED
      BY <3>1, Regrouped
  <2>9. stream \o a \in Seq(Chars)
    BY <2>4
  <2>10. Append(stream \o a, c) = (stream \o a) \o <<c>>
    BY <2>4, <2>9, AppendIsConcat
  <2> QED
    BY <2>2, <2>3, <2>5, <2>6, <2>8, <2>10 DEF Upto
<1> QED
  BY <1>3, <1>4, <1>5, <1>6

\* A write, up to any of its characters.
Read(data, E, i) ==
  \E F : /\ Tracks(Upto(data, i), Observers(data)[i], F)
         /\ Gathered(stream, E, Upto(data, i), Observers(data)[i], F)

\* The observer is right after every character of a write.
LEMMA WriteReads ==
  ASSUME stream \in Seq(Chars), NEW E, Tracks(stream, ObserverNow, E), Seen(E, stream),
         NEW data \in Seq(Chars), NEW i \in 0..Len(data)
  PROVE  Read(data, E, i)
<1> DEFINE n == Len(data)
           bad == {k \in 0..n : ~Read(data, E, k)}
<1>1. n \in Nat /\ Len(stream) \in Nat
  OBVIOUS
<1>2. E \in Seq(Happened)
  BY DEF Tracks
<1>3. ASSUME bad # {} PROVE FALSE
  <2>1. bad \in SUBSET Nat
    BY <1>1
  <2>2. PICK k \in bad : \A j \in bad : k <= j
    <3> HIDE DEF bad
    <3> QED
      BY <1>3, <2>1, LeastNumber
  <2>3. k \in 0..n /\ ~Read(data, E, k) /\ k \in Nat
    BY <1>1
  <2>4. CASE k = 0
    <3>1. Upto(data, 0) = stream
      BY <2>3, <2>4, UptoIs
    <3>2. Observers(data)[0] = ObserverNow
      <4>1. 0 \in 0..Len(data)
        BY <1>1
      <4>2. Observers(data)[0] = ObserverWith(data, Observers(data), 0)
        BY <4>1, ObserversEquation
      <4> QED
        BY <4>2 DEF ObserverWith
    <3>3. Gathered(stream, E, stream, ObserverNow, E)
      <4>1. Prefix(E, E) /\ Len(E) \in Nat
        BY <1>2 DEF Prefix
      <4>2. \A j \in Len(E) + 1..Len(E) : Len(E[j].seen) > Len(stream)
        BY <4>1
      <4>3. ObserverNow.events = <<>>
        BY DEF ObserverNow
      <4>4. Len(Image(E)) = Len(E)
        BY <1>2, ImageIs
      <4>5. Waits(<<>>, Image(E), Len(E))
        <5>1. Len(<<>>) = 0 /\ MaxQueued \in Nat
          BY QueueAssumption
        <5>2. Len(E) - Len(E) = 0 /\ ~(0 > MaxQueued)
          BY <4>1, <5>1
        <5>3. \A j \in 1..0 : FALSE
          OBVIOUS
        <5> QED
          BY <4>4, <5>1, <5>2, <5>3 DEF Waits
      <4> QED
        BY <1>2, <4>1, <4>2, <4>3, <4>5 DEF Gathered
    <3>4. Read(data, E, 0)
      BY <3>1, <3>2, <3>3 DEF Read
    <3> QED
      BY <2>3, <2>4, <3>4
  <2>5. CASE k # 0
    <3>1. k - 1 \in 0..n /\ k - 1 \notin bad /\ k \in 1..n /\ k > 0
      <4> HIDE DEF bad
      <4> QED
        BY <1>1, <2>2, <2>3, <2>5
    <3>2. PICK F : /\ Tracks(Upto(data, k - 1), Observers(data)[k - 1], F)
                   /\ Gathered(stream, E, Upto(data, k - 1), Observers(data)[k - 1], F)
      BY <3>1 DEF Read
    <3>3. PICK now, c, o, r : /\ now = Upto(data, k - 1) /\ c = data[k]
                              /\ o = Observers(data)[k - 1] /\ r = Observers(data)[k]
      OBVIOUS
    <3>4. c \in Chars
      BY <3>1, <3>3
    <3>5. r = Fed(o, c)
      <4>1. Observers(data)[k] = ObserverWith(data, Observers(data), k)
        BY <2>3, ObserversEquation
      <4> QED
        BY <2>5, <3>3, <4>1 DEF ObserverWith
    <3>6. now \in Seq(Chars) /\ Len(now) = Len(stream) + (k - 1)
      BY <3>1, <3>3, UptoIs
    <3>7. Upto(data, k) = Append(now, c)
      BY <2>3, <3>1, <3>3, UptoIs
    <3>8. Tracks(now, o, F) /\ Gathered(stream, E, now, o, F)
      BY <3>2, <3>3
    <3>9. PICK G : /\ Tracks(Append(now, c), r, G)
                   /\ Tells(F, o, Append(now, c), G, r)
      BY <3>4, <3>5, <3>6, <3>8, TracksStep
    <3>10. o \in Observer /\ r \in Observer
      BY <3>8, <3>9 DEF Tracks
    <3>11. Len(stream) <= Len(now)
      BY <1>1, <3>1, <3>6
    <3>12. Gathered(stream, E, Append(now, c), r, G)
      BY <1>2, <3>4, <3>6, <3>8, <3>9, <3>10, <3>11, GatheredStep
    <3>13. Read(data, E, k)
      BY <3>3, <3>7, <3>9, <3>12 DEF Read
    <3> QED
      BY <2>3, <3>13
  <2> QED
    BY <2>4, <2>5
<1> QED
  BY <1>3

-----------------------------------------------------------------------------
(* Every step keeps it.                                                     *)

\* Nothing waits when every event is gone.
LEMMA WaitsNone ==
  ASSUME NEW E, Len(E) \in Nat PROVE Waits(<<>>, E, Len(E))
<1>1. Len(<<>>) = 0 /\ MaxQueued \in Nat
  BY QueueAssumption
<1>2. Len(E) - Len(E) = 0 /\ ~(0 > MaxQueued)
  BY <1>1
<1>3. \A j \in 1..0 : FALSE
  OBVIOUS
<1> QED
  BY <1>1, <1>2, <1>3 DEF Waits

\* An observer whose events were taken stands where it stood.
LEMMA TracksSame ==
  ASSUME NEW s, NEW o, NEW r, NEW E, Tracks(s, o, E),
         r = [state |-> o.state, payload |-> o.payload, overflow |-> o.overflow,
              at |-> Len(s), events |-> <<>>]
  PROVE  Tracks(s, r, E)
<1>1. /\ o \in Observer /\ o.at = Len(s) /\ E \in Seq(Happened)
  BY DEF Tracks
<1>2. PICK i : At(s, o, i) /\ Follows(s, E, i)
  BY DEF Tracks
<1>3. /\ r.state = o.state /\ r.payload = o.payload /\ r.overflow = o.overflow
      /\ r.at = Len(s) /\ r.events = <<>>
  OBVIOUS
<1>4. r \in Observer
  <2>1. /\ o.state \in {"Ground", "Escape", "Osc", "OscEscape"}
        /\ o.payload \in Seq(Chars) /\ o.overflow \in BOOLEAN /\ Len(s) \in Nat
    BY <1>1 DEF Observer
  <2>2. <<>> \in Seq(Noted)
    OBVIOUS
  <2> QED
    BY <2>1, <2>2 DEF Observer
<1>5. At(s, r, i)
  BY <1>2, <1>3 DEF At
<1>6. Len(r.events) <= MaxQueued
  <2>1. Len(<<>>) = 0 /\ MaxQueued \in Nat
    BY QueueAssumption
  <2>2. 0 <= MaxQueued
    BY <2>1
  <2> QED
    BY <1>3, <2>1, <2>2
<1> QED
  BY <1>1, <1>2, <1>3, <1>4, <1>5, <1>6 DEF Tracks

\* The beginning of an output that ends within a write.
LEMMA WriteCut ==
  ASSUME stream \in Seq(Chars), NEW data \in Seq(Chars),
         NEW l \in Len(stream)..Len(stream \o data)
  PROVE  SubSeq(stream \o data, 1, l) = stream \o SubSeq(data, 1, l - Len(stream))
<1> DEFINE n == Len(stream)
           m == Len(data)
           i == l - n
           s1 == stream \o data
           u == Upto(data, i)
           a == SubSeq(data, 1, i)
<1>1. /\ s1 \in Seq(Chars) /\ Len(s1) = n + m /\ n \in Nat /\ m \in Nat
      /\ \A j \in 1..n + m : s1[j] = IF j <= n THEN stream[j] ELSE data[j - n]
  BY ConcatProperties
<1>2. l \in Nat /\ i \in 0..m /\ i \in Nat /\ n + i = l
  BY <1>1
<1>3. u \in Seq(Chars) /\ Len(u) = l
  BY <1>2, UptoIs
<1>4. /\ a \in Seq(Chars) /\ Len(a) = i
      /\ \A j \in 1..i : a[j] = data[j]
  <2>1. \A j \in 1..i : data[j] \in Chars
    BY <1>1, <1>2
  <2>2. a \in Seq(Chars) /\ Len(a) = IF 1 <= i THEN i - 1 + 1 ELSE 0
    BY <1>2, <2>1, SubSeqProperties
  <2> QED
    BY <1>1, <1>2, <2>2
<1> HIDE DEF a
<1>5. \A j \in 1..n + i : (stream \o a)[j] = IF j <= n THEN stream[j] ELSE a[j - n]
  BY <1>4, ConcatProperties
<1>6. u = stream \o a
  BY DEF Upto, a
<1> HIDE DEF u, s1
<1>7. \A j \in 1..l : s1[j] = u[j]
  <2> SUFFICES ASSUME NEW j \in 1..l PROVE s1[j] = u[j]
    OBVIOUS
  <2>1. j \in 1..n + m /\ j \in 1..n + i
    BY <1>1, <1>2
  <2>2. s1[j] = (IF j <= n THEN stream[j] ELSE data[j - n])
        /\ u[j] = (IF j <= n THEN stream[j] ELSE a[j - n])
    BY <1>1, <1>5, <1>6, <2>1
  <2>3. CASE j <= n
    BY <2>2, <2>3
  <2>4. CASE ~(j <= n)
    <3>1. j - n \in 1..i
      BY <1>1, <1>2, <2>1, <2>4
    <3> QED
      BY <1>4, <2>2, <2>4, <3>1
  <2> QED
    BY <2>3, <2>4
<1>8. s1 \in Continuations(u)
  <2>1. Len(u) <= Len(s1)
    BY <1>1, <1>2, <1>3
  <2> QED
    BY <1>1, <1>3, <1>7, <2>1 DEF Continuations
<1>9. SubSeq(s1, 1, l) = SubSeq(u, 1, l)
  <2>1. 1 \in 1..Len(u) + 1 /\ l \in 0..Len(u)
    BY <1>2, <1>3
  <2> QED
    BY <1>3, <1>8, <2>1, SameParts
<1>10. SubSeq(u, 1, l) = u
  BY <1>3, SubSeqFull
<1> QED
  BY <1>6, <1>9, <1>10 DEF s1, a

\* What Terminal::write() reads of the observer.
ReadEvents(data, events) ==
  [i \in DOMAIN events |->
     [what |-> events[i].what,
      seen |-> cored \o SubSeq(data, 1, events[i].at - Len(stream))]]

\* It is the newest of the events that came with the write.
LEMMA ReadIs ==
  ASSUME stream \in Seq(Chars), cored = stream, NEW data \in Seq(Chars),
         NEW E \in Seq(Happened), NEW o \in Observer, NEW F,
         Gathered(stream, E, stream \o data, o, F)
  PROVE  /\ ReadEvents(data, o.events) \in Seq(Happened)
         /\ Waits(ReadEvents(data, o.events), F, Len(E))
<1> DEFINE R == ReadEvents(data, o.events)
           n == Len(stream)
           s1 == stream \o data
<1>1. /\ F \in Seq(Happened) /\ Prefix(E, F) /\ Seen(F, s1)
      /\ \A j \in Len(E) + 1..Len(F) : Len(F[j].seen) > n
      /\ Waits(o.events, Image(F), Len(E))
  BY DEF Gathered
<1>2. o.events \in Seq(Noted)
  BY DEF Observer
<1>3. PICK k, b, a : k = Len(o.events) /\ b = Len(F) /\ a = Len(E)
  OBVIOUS
<1>4. /\ k \in Nat /\ a \in Nat /\ b \in Nat /\ a <= b
      /\ Len(Image(F)) = b /\ DOMAIN o.events = 1..k
      /\ n \in Nat /\ MaxQueued \in Nat
  BY <1>1, <1>2, <1>3, ImageIs, QueueAssumption DEF Prefix
<1>5. /\ k = IF b - a > MaxQueued THEN MaxQueued ELSE b - a
      /\ \A j \in 1..k : o.events[j] = Image(F)[b - k + j]
  BY <1>1, <1>3, <1>4 DEF Waits
<1>6. k <= b - a
  BY <1>4, <1>5
<1>7. R = [j \in 1..k |-> [what |-> o.events[j].what,
                           seen |-> cored \o SubSeq(data, 1, o.events[j].at - n)]]
  BY <1>4 DEF ReadEvents
<1> HIDE DEF R
<1>8. ASSUME NEW j \in 1..k
      PROVE  R[j] = F[b - k + j] /\ F[b - k + j] \in Happened
  <2>1. PICK q : q = b - k + j
    OBVIOUS
  <2>2. q \in 1..b /\ q \in a + 1..b
    BY <1>4, <1>6, <2>1
  <2>3. PICK e : e = F[q]
    OBVIOUS
  <2>4. e \in Happened
    BY <1>1, <1>3, <2>2, <2>3
  <2>5. PICK l : l = Len(e.seen)
    OBVIOUS
  <2>6. o.events[j] = [what |-> e.what, at |-> l]
    <3>1. o.events[j] = Image(F)[q]
      BY <1>5, <2>1
    <3>2. Image(F)[q] = [what |-> F[q].what, at |-> Len(F[q].seen)]
      BY <1>1, <1>3, <2>2, ImageIs
    <3> QED
      BY <2>3, <2>5, <3>1, <3>2
  <2>7. o.events[j].what = e.what /\ o.events[j].at = l
    BY <2>6
  <2>8. l > n /\ l \in 1..Len(s1) /\ e.seen = SubSeq(s1, 1, l)
    BY <1>1, <1>3, <2>2, <2>3, <2>5 DEF Seen
  <2>9. Len(s1) \in Nat
    BY ConcatProperties
  <2>10. l \in Len(stream)..Len(stream \o data)
    BY <1>4, <2>8, <2>9
  <2>11. e.seen = stream \o SubSeq(data, 1, l - n)
    BY <2>8, <2>10, WriteCut
  <2>12. R[j] = [what |-> e.what, seen |-> stream \o SubSeq(data, 1, l - n)]
    BY <1>7, <2>7
  <2>13. e = [what |-> e.what, seen |-> e.seen]
    BY <2>4 DEF Happened
  <2> QED
    BY <2>1, <2>3, <2>4, <2>11, <2>12, <2>13
<1>9. R \in [1..k -> Happened]
  BY <1>7, <1>8
<1>10. R \in Seq(Happened) /\ Len(R) = k
  BY <1>4, <1>9
<1>11. Waits(R, F, a)
  BY <1>3, <1>5, <1>8, <1>10 DEF Waits
<1> QED
  BY <1>3, <1>10, <1>11 DEF R

\* Terminal::write() keeps what waits right.
LEMMA WriteKeeps ==
  ASSUME NEW E, NEW d, Kept(stream, ObserverNow, cored, semantic, drained, E, d),
         NEW data \in Seq(Chars), OscWrite(data)
  PROVE  OscInv'
<1> DEFINE s1 == stream \o data
<1>1. /\ stream \in Seq(Chars) /\ cored = stream /\ drained \in 0..Len(stream)
      /\ Tracks(stream, ObserverNow, E) /\ Seen(E, stream) /\ d \in 0..Len(E)
      /\ \A j \in 1..Len(E) : Len(E[j].seen) > drained <=> j > d
      /\ semantic \in Seq(Happened) /\ Waits(semantic, E, d)
  BY DEF Kept
<1>2. E \in Seq(Happened)
  BY <1>1 DEF Tracks
<1>3. PICK o : o = Observers(data)[Len(data)]
  OBVIOUS
<1>4. /\ stream' = s1 /\ state' = o.state /\ payload' = o.payload
      /\ overflow' = o.overflow /\ cored' = cored \o data
      /\ semantic' = Newest(semantic \o ReadEvents(data, o.events))
      /\ drained' = drained
  BY <1>3 DEF OscWrite, ReadEvents
<1>5. Len(data) \in 0..Len(data) /\ Len(data) \in Nat
  OBVIOUS
<1>6. Upto(data, Len(data)) = s1 /\ s1 \in Seq(Chars)
  BY <1>1, <1>5, UptoIs
<1>7. PICK F : Tracks(s1, o, F) /\ Gathered(stream, E, s1, o, F)
  <2>1. Read(data, E, Len(data))
    BY <1>1, <1>5, WriteReads
  <2> QED
    BY <1>3, <1>6, <2>1 DEF Read
<1>8. PICK r : r = [state |-> o.state, payload |-> o.payload, overflow |-> o.overflow,
                    at |-> Len(s1), events |-> <<>>]
  OBVIOUS
<1>9. ObserverNow' = r
  BY <1>4, <1>8 DEF ObserverNow
<1>10. Tracks(s1, r, F)
  BY <1>7, <1>8, TracksSame
<1>11. o \in Observer
  BY <1>7 DEF Tracks
<1>12. /\ ReadEvents(data, o.events) \in Seq(Happened)
       /\ Waits(ReadEvents(data, o.events), F, Len(E))
  BY <1>1, <1>2, <1>7, <1>11, ReadIs
<1>13. PICK w : w = Newest(semantic \o ReadEvents(data, o.events))
  OBVIOUS
<1>14. /\ F \in Seq(Happened) /\ Prefix(E, F) /\ Seen(F, s1)
       /\ \A j \in Len(E) + 1..Len(F) : Len(F[j].seen) > Len(stream)
  BY <1>7 DEF Gathered
<1>15. Waits(w, F, d) /\ w \in Seq(Happened)
  BY <1>1, <1>2, <1>12, <1>13, <1>14, NewestJoin
<1>16. Len(s1) = Len(stream) + Len(data) /\ Len(stream) \in Nat /\ Len(E) \in Nat
       /\ Len(F) \in Nat /\ Len(E) <= Len(F)
  BY <1>1, <1>2, <1>14, ConcatProperties DEF Prefix
<1>17. drained \in 0..Len(s1) /\ d \in 0..Len(F)
  BY <1>1, <1>5, <1>16
<1>18. \A j \in 1..Len(F) : Len(F[j].seen) > drained <=> j > d
  <2> SUFFICES ASSUME NEW j \in 1..Len(F) PROVE Len(F[j].seen) > drained <=> j > d
    OBVIOUS
  <2>1. CASE j \in 1..Len(E)
    BY <1>1, <1>14, <2>1 DEF Prefix
  <2>2. CASE j \in Len(E) + 1..Len(F)
    <3>1. PICK l : l = Len(F[j].seen)
      OBVIOUS
    <3>2. l > Len(stream) /\ l \in 1..Len(s1)
      BY <1>14, <2>2, <3>1 DEF Seen
    <3>3. l > drained
      BY <1>1, <1>5, <1>16, <3>2
    <3>4. j > d
      BY <1>1, <1>16, <2>2
    <3> QED
      BY <3>1, <3>3, <3>4
  <2> QED
    BY <1>16, <2>1, <2>2
<1>19. Kept(s1, r, s1, w, drained, F, d)
  BY <1>6, <1>10, <1>14, <1>15, <1>17, <1>18 DEF Kept
<1>20. cored' = s1 /\ semantic' = w
  BY <1>1, <1>4, <1>13
<1>21. Kept(stream', ObserverNow', cored', semantic', drained', F, d)
  BY <1>4, <1>9, <1>19, <1>20
<1> QED
  BY <1>21 DEF OscInv

\* So does pollSemanticEvents().
LEMMA DrainKeeps ==
  ASSUME OscInv, OscDrain PROVE OscInv'
<1>1. PICK E, d : Kept(stream, ObserverNow, cored, semantic, drained, E, d)
  BY DEF OscInv
<1>2. /\ stream \in Seq(Chars) /\ cored = stream /\ drained \in 0..Len(stream)
      /\ Tracks(stream, ObserverNow, E) /\ Seen(E, stream) /\ d \in 0..Len(E)
  BY <1>1 DEF Kept
<1>3. E \in Seq(Happened) /\ Len(E) \in Nat /\ Len(stream) \in Nat
  BY <1>2 DEF Tracks
<1>4. ObserverNow' = ObserverNow
  BY DEF OscDrain, ObserverNow
<1>5. \A j \in 1..Len(E) : Len(E[j].seen) > Len(stream) <=> j > Len(E)
  <2> SUFFICES ASSUME NEW j \in 1..Len(E)
               PROVE  Len(E[j].seen) > Len(stream) <=> j > Len(E)
    OBVIOUS
  <2>1. PICK l : l = Len(E[j].seen)
    OBVIOUS
  <2>2. l \in 1..Len(stream)
    BY <1>2, <2>1 DEF Seen
  <2>3. ~(l > Len(stream)) /\ ~(j > Len(E))
    BY <1>3, <2>2
  <2> QED
    BY <2>1, <2>3
<1>6. Waits(<<>>, E, Len(E)) /\ <<>> \in Seq(Happened)
  BY <1>3, WaitsNone
<1>7. Len(E) \in 0..Len(E) /\ Len(stream) \in 0..Len(stream)
  BY <1>3
<1>8. Kept(stream, ObserverNow, cored, <<>>, Len(stream), E, Len(E))
  BY <1>2, <1>5, <1>6, <1>7 DEF Kept
<1>9. Kept(stream', ObserverNow', cored', semantic', drained', E, Len(E))
  BY <1>4, <1>8 DEF OscDrain
<1> QED
  BY <1>9 DEF OscInv

\* Nothing written, nothing waits.
LEMMA OscInvInit == OscInit => OscInv
<1> SUFFICES ASSUME OscInit PROVE OscInv
  OBVIOUS
<1>1. /\ stream = <<>> /\ state = "Ground" /\ payload = <<>> /\ overflow = FALSE
      /\ cored = <<>> /\ semantic = <<>> /\ drained = 0
  BY DEF OscInit
<1>2. Len(<<>>) = 0 /\ <<>> \in Seq(Chars) /\ <<>> \in Seq(Happened) /\ <<>> \in Seq(Noted)
  OBVIOUS
<1>3. PICK o : o = ObserverNow
  OBVIOUS
<1>4. o \in Observer /\ o.at = 0 /\ o.events = <<>> /\ o.state = "Ground"
  BY <1>1, <1>2, <1>3 DEF ObserverNow, Observer
<1>5. At(<<>>, o, 1)
  BY <1>2, <1>4 DEF At
<1>6. Follows(<<>>, <<>>, 1)
  <2> SUFFICES ASSUME NEW t \in Continuations(<<>>)
               PROVE  Events(t)[1] = <<>> \o Events(t)[1]
    BY DEF Follows
  <2>1. t \in Seq(Chars) /\ 1 \in 1..Len(t) + 1
    BY DEF Continuations
  <2>2. Events(t)[1] \in Seq(Happened)
    BY <2>1, EventsType
  <2> QED
    BY <2>2, ConcatEmptySeq
<1>7. MaxQueued \in Nat /\ 0 <= MaxQueued
  BY QueueAssumption
<1>8. Tracks(<<>>, o, <<>>)
  BY <1>2, <1>4, <1>5, <1>6, <1>7 DEF Tracks
<1>9. Waits(<<>>, <<>>, 0)
  BY <1>2, WaitsNone
<1>10. \A j \in 1..0 : FALSE
  OBVIOUS
<1>11. Kept(<<>>, o, <<>>, <<>>, 0, <<>>, 0)
  BY <1>2, <1>8, <1>9, <1>10 DEF Kept, Seen
<1> QED
  BY <1>1, <1>3, <1>11 DEF OscInv

\* At the end of the output there is nothing more to find.
LEMMA NothingBehind ==
  ASSUME NEW s \in Seq(Chars), NEW o, NEW i, At(s, o, i)
  PROVE  i \in 1..Len(s) + 1 /\ Events(s)[i] = <<>>
<1>1. Len(s) \in Nat /\ s \in Continuations(s)
  BY DEF Continuations
<1>2. CASE i = Len(s) + 1 \/ (i = Len(s) /\ i >= 1)
  <2>1. i \in 1..Len(s) + 1 /\ i >= Len(s)
    BY <1>1, <1>2
  <2>2. Events(s)[i] = EventsWith(s, Events(s), i)
    BY <2>1, EventsEquation
  <2> QED
    BY <2>1, <2>2 DEF EventsWith
<1>3. ASSUME NEW k, NEW p, NEW f, InOsc(s, i, k, p, f),
             k = Len(s) + 1 \/ (k = Len(s) /\ s[k] = "ESC")
      PROVE  i \in 1..Len(s) + 1 /\ Events(s)[i] = <<>>
  <2>1. /\ i \in 1..Len(s) /\ k \in i + 2..Len(s) + 1
        /\ s[i] = "ESC" /\ s[i + 1] = "]"
        /\ Ends(s)[i + 2] = Ends(s)[k]
    BY <1>1, <1>3 DEF InOsc
  <2>2. i < Len(s) /\ i \in 1..Len(s) + 1 /\ k \in 1..Len(s) + 2 /\ k \in Nat
    BY <1>1, <2>1
  <2>3. Ends(s)[k] = EndWith(s, Ends(s), k)
    BY <2>2, EndsEquation
  <2>4. Ends(s)[k] = 0
    <3>1. CASE k = Len(s) + 1
      <4>1. k > Len(s)
        BY <1>1, <3>1
      <4> QED
        BY <2>3, <4>1 DEF EndWith
    <3>2. CASE k = Len(s) /\ s[k] = "ESC"
      <4>1. ~(k > Len(s)) /\ ~(k < Len(s)) /\ k + 2 \in 1..Len(s) + 2 /\ k + 2 > Len(s)
        BY <1>1, <2>2, <3>2
      <4>2. Ends(s)[k] = Ends(s)[k + 2]
        BY <2>3, <3>2, <4>1 DEF EndWith
      <4>3. Ends(s)[k + 2] = EndWith(s, Ends(s), k + 2)
        BY <4>1, EndsEquation
      <4> QED
        BY <4>1, <4>2, <4>3 DEF EndWith
    <3> QED
      BY <1>3, <3>1, <3>2
  <2>5. Events(s)[i] = <<>>
    BY <2>1, <2>2, <2>4, EventsOsc
  <2> QED
    BY <2>2, <2>5
<1> QED
  BY <1>2, <1>3 DEF At

\* Nothing is found behind the observer, so what waits is what is found.
LEMMA OscInvHolds == OscInv => EventsWherePrinted
<1> SUFFICES ASSUME OscInv PROVE EventsWherePrinted
  OBVIOUS
<1>1. PICK E, d : Kept(stream, ObserverNow, cored, semantic, drained, E, d)
  BY DEF OscInv
<1>2. /\ stream \in Seq(Chars) /\ cored = stream
      /\ Tracks(stream, ObserverNow, E) /\ d \in 0..Len(E)
      /\ \A j \in 1..Len(E) : Len(E[j].seen) > drained <=> j > d
      /\ semantic \in Seq(Happened) /\ Waits(semantic, E, d)
  BY <1>1 DEF Kept
<1>3. E \in Seq(Happened) /\ Len(E) \in Nat /\ DOMAIN E = 1..Len(E)
  BY <1>2 DEF Tracks
<1>4. PICK i : At(stream, ObserverNow, i) /\ Follows(stream, E, i)
  BY <1>2 DEF Tracks
<1>5. Events(stream)[1] = E
  <2>1. stream \in Continuations(stream)
    BY <1>2 DEF Continuations
  <2>2. Events(stream)[1] = E \o Events(stream)[i]
    BY <1>4, <2>1 DEF Follows
  <2>3. Events(stream)[i] = <<>>
    BY <1>2, <1>4, NothingBehind
  <2>4. E \o <<>> = E
    BY <1>3, ConcatEmptySeq
  <2> QED
    BY <2>2, <2>3, <2>4
<1>6. PICK m : m = Len(E)
  OBVIOUS
<1>7. d \in Nat /\ d <= m /\ m \in Nat /\ MaxQueued \in Nat
  BY <1>2, <1>3, <1>6, QueueAssumption
<1>8. {j \in DOMAIN E : Len(E[j].seen) > drained} = d + 1..m
  <2>1. \A j \in 1..m : Len(E[j].seen) > drained <=> j > d
    BY <1>2, <1>6
  <2>2. {j \in 1..m : Len(E[j].seen) > drained} = {j \in 1..m : j > d}
    BY <2>1
  <2>3. {j \in 1..m : j > d} = d + 1..m
    BY <1>7
  <2> QED
    BY <1>3, <1>6, <2>2, <2>3
<1>9. Cardinality(d + 1..m) = m - d
  <2>1. d + 1 \in Int /\ m \in Int
    BY <1>7
  <2>2. Cardinality(d + 1..m) = IF d + 1 > m THEN 0 ELSE m - (d + 1) + 1
    BY <2>1, FS_Interval
  <2> QED
    BY <1>7, <2>2
<1>10. PICK k : k = IF m - d > MaxQueued THEN MaxQueued ELSE m - d
  OBVIOUS
<1>11. k \in 0..m /\ k \in Nat /\ Len(semantic) = k
  BY <1>2, <1>6, <1>7, <1>10 DEF Waits
<1>12. semantic = SubSeq(E, m - k + 1, m)
  <2>1. m - k + 1 \in Int /\ m \in Int /\ m - k + 1 \in 1..m + 1
    BY <1>7, <1>11
  <2>2. \A j \in m - k + 1..m : E[j] \in Happened
    BY <1>3, <1>6, <1>7, <2>1
  <2>3. PICK x : x = SubSeq(E, m - k + 1, m)
    OBVIOUS
  <2>4. x \in Seq(Happened) /\ Len(x) = IF m - k + 1 <= m THEN m - (m - k + 1) + 1 ELSE 0
    BY <2>1, <2>2, <2>3, SubSeqProperties
  <2>5. Len(x) = k
    BY <1>7, <1>11, <2>4
  <2>6. ASSUME NEW j \in 1..k PROVE semantic[j] = x[j]
    <3>1. semantic[j] = E[m - k + j]
      BY <1>2, <1>6, <1>11 DEF Waits
    <3>2. x[j] = E[m - k + 1 + j - 1]
      BY <1>3, <1>6, <1>7, <2>1, <2>3, <2>5
    <3>3. m - k + 1 + j - 1 = m - k + j
      BY <1>7, <1>11
    <3> QED
      BY <3>1, <3>2, <3>3
  <2> QED
    BY <1>2, <1>11, <2>3, <2>4, <2>5, <2>6, SeqEqual
<1> QED
  BY <1>2, <1>5, <1>6, <1>8, <1>9, <1>10, <1>12 DEF EventsWherePrinted

\* vt/OscParser.cpp and Terminal::write(): nothing of the output is kept from
\* the terminal, and however it is cut into writes, the events that wait are the
\* newest of those a reading of the whole output finds since the last poll, each
\* with the cursor of the moment its sequence ended.
THEOREM EventsAreWherePrinted == OscSpec => []EventsWherePrinted
<1>1. OscInit => OscInv
  BY OscInvInit
<1>2. OscInv /\ [OscNext]_oscVars => OscInv'
  <2> SUFFICES ASSUME OscInv, [OscNext]_oscVars PROVE OscInv'
    OBVIOUS
  <2>1. ASSUME NEW data \in Writes, OscWrite(data) PROVE OscInv'
    <3>1. data \in Seq(Chars)
      BY WritesAssumption
    <3>2. PICK E, d : Kept(stream, ObserverNow, cored, semantic, drained, E, d)
      BY DEF OscInv
    <3> QED
      BY <2>1, <3>1, <3>2, WriteKeeps
  <2>2. CASE OscDrain
    BY <2>2, DrainKeeps
  <2>3. CASE UNCHANGED oscVars
    BY <2>3 DEF oscVars, OscInv, ObserverNow
  <2> QED
    BY <2>1, <2>2, <2>3 DEF OscNext
<1>3. OscInv => EventsWherePrinted
  BY OscInvHolds
<1> QED
  BY <1>1, <1>2, <1>3, PTL DEF OscSpec

=============================================================================
