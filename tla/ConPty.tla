------------------------------- MODULE ConPty -------------------------------
(***************************************************************************)
(* One pseudo-terminal (pty/ConPty.cpp): the thread that owns it, the      *)
(* reader thread, the writer thread, and the console beyond the two pipes. *)
(*                                                                         *)
(* ReadFile and WriteFile block inside the kernel; CancelIoEx fails the    *)
(* calls that are there at that moment and is not remembered for the next  *)
(* one.  The console is external: it produces output and reads input when  *)
(* it likes, and after the shell has died it may keep the pipes open       *)
(* (ConPty.cpp:124).  Bytes are numbered in the order the console makes    *)
(* them or write() accepts them.                                           *)
(***************************************************************************)
EXTENDS Naturals, Sequences

CONSTANTS MaxOut,   \* bound on the chunks the console produces
          MaxIn,    \* bound on the bytes write() accepts
          PipeRoom  \* bytes the input pipe holds

ASSUME PtyAssumption == MaxOut \in Nat /\ MaxIn \in Nat

VARIABLES
  owner,      \* where the owner thread is in start(), write() or stop()
  open,       \* handles that are open
  running,    \* running_
  exited,     \* exited_
  reader,     \* where the reader thread is
  chunk,      \* what its last ReadFile returned
  outPipe,    \* console output not read yet
  produced,   \* chunks the console has made
  delivered,  \* chunks handed to onOutput
  writer,     \* where the writer thread is
  writeQueue, \* writeQueue_
  writeStop,  \* writeStop_
  pending,    \* what the writer has taken and not yet written
  inPipe,     \* input the console has not read yet
  received,   \* input the console has read
  accepted,   \* bytes write() has taken
  shell,      \* the shell process lives
  console     \* the console holds its ends of the pipes

outVars  == <<chunk, outPipe, produced, delivered>>
inVars   == <<writeQueue, pending, inPipe, received, accepted>>
worldVars == <<shell, console>>
vars == <<owner, open, running, exited, reader, writer, writeStop,
          outVars, inVars, worldVars>>

Stopping == {"kill", "cancelOut", "setStop", "notifyStop", "cancelIn",
             "joinReader", "joinWriter", "closeHandles"}

\* notify_one(): the writer, if it sleeps, looks at its condition again.
Notify == writer' = IF writer = "asleep" THEN "wait" ELSE writer

-----------------------------------------------------------------------------
(* The owner.                                                               *)

Init ==
  /\ owner = "new" /\ open = {}
  /\ running = FALSE /\ exited = FALSE
  /\ reader = "none" /\ writer = "none" /\ writeStop = FALSE
  /\ chunk = <<>> /\ outPipe = <<>> /\ produced = 0 /\ delivered = <<>>
  /\ writeQueue = <<>> /\ pending = <<>> /\ inPipe = <<>>
  /\ received = <<>> /\ accepted = <<>>
  /\ shell = FALSE /\ console = FALSE

Start ==
  /\ owner = "new"
  /\ owner' = "up"
  /\ open' = {"inputWrite", "outputRead", "hpc", "process"}
  /\ running' = TRUE
  /\ reader' = "check" /\ writer' = "wait"
  /\ shell' = TRUE /\ console' = TRUE
  /\ UNCHANGED <<exited, writeStop, outVars, inVars>>

\* The pipes or the pseudoconsole could not be made: start() has closed what it
\* had.  The shell could not be started: start() calls stop(), with no threads.
StartFails ==
  /\ owner = "new"
  /\ \/ owner' = "down" /\ UNCHANGED <<open, console>>
     \/ /\ owner' = "kill"
        /\ open' = {"inputWrite", "outputRead", "hpc"}
        /\ console' = TRUE
  /\ UNCHANGED <<running, exited, reader, writer, writeStop, outVars, inVars,
                 shell>>

\* write(): append under the lock; the notify comes after it is released.
Enqueue ==
  /\ Len(accepted) < MaxIn
  /\ accepted' = Append(accepted, Len(accepted) + 1)
  /\ writeQueue' = Append(writeQueue, Len(accepted) + 1)
  /\ UNCHANGED <<pending, inPipe, received>>

Write ==
  /\ owner = "up" /\ "inputWrite" \in open
  /\ ~writeStop
  /\ Enqueue
  /\ owner' = "notify"
  /\ UNCHANGED <<open, running, exited, reader, writer, writeStop, outVars,
                 worldVars>>

WriteNotify ==
  /\ owner = "notify"
  /\ Notify
  /\ owner' = "up"
  /\ UNCHANGED <<open, running, exited, reader, writeStop, outVars, inVars,
                 worldVars>>

\* stop(), step by step, from the destructor.
Stop ==
  /\ owner = "up"
  /\ running' = FALSE
  /\ owner' = "kill"
  /\ UNCHANGED <<open, exited, reader, writer, writeStop, outVars, inVars,
                 worldVars>>

StopKill ==
  /\ owner = "kill"
  /\ shell' = IF "process" \in open THEN FALSE ELSE shell
  /\ owner' = "cancelOut"
  /\ UNCHANGED <<open, running, exited, reader, writer, writeStop, outVars,
                 inVars, console>>

\* Mutant: the read is not cancelled.
StopCancelNothing ==
  /\ owner = "cancelOut"
  /\ owner' = "setStop"
  /\ UNCHANGED <<open, running, exited, reader, writer, writeStop, outVars,
                 inVars, worldVars>>

\* CancelIoEx(outputRead_): a ReadFile that is waiting now fails.
StopCancelRead ==
  /\ owner = "cancelOut"
  /\ reader' = IF reader = "inRead" THEN "leaving" ELSE reader
  /\ owner' = "setStop"
  /\ UNCHANGED <<open, running, exited, writer, writeStop, outVars, inVars,
                 worldVars>>

StopSet ==
  /\ owner = "setStop"
  /\ writeStop' = TRUE
  /\ writeQueue' = <<>>
  /\ owner' = "notifyStop"
  /\ UNCHANGED <<open, running, exited, reader, writer, outVars, pending,
                 inPipe, received, accepted, worldVars>>

StopNotify ==
  /\ owner = "notifyStop"
  /\ Notify
  /\ owner' = "cancelIn"
  /\ UNCHANGED <<open, running, exited, reader, writeStop, outVars, inVars,
                 worldVars>>

\* CancelIoEx(inputWrite_): a WriteFile that is waiting now fails.
StopCancelWrite ==
  /\ owner = "cancelIn"
  /\ writer' = IF writer = "inWrite" THEN "done" ELSE writer
  /\ owner' = "joinReader"
  /\ UNCHANGED <<open, running, exited, reader, writeStop, outVars, inVars,
                 worldVars>>

StopJoinReader ==
  /\ owner = "joinReader"
  /\ reader \in {"none", "done"}
  /\ owner' = "joinWriter"
  /\ UNCHANGED <<open, running, exited, reader, writer, writeStop, outVars,
                 inVars, worldVars>>

\* Mutant: the handles are closed under the writer.
StopSkipsWriter ==
  /\ owner = "joinWriter"
  /\ owner' = "closeHandles"
  /\ UNCHANGED <<open, running, exited, reader, writer, writeStop, outVars,
                 inVars, worldVars>>

StopJoinWriter ==
  /\ owner = "joinWriter"
  /\ writer \in {"none", "done"}
  /\ owner' = "closeHandles"
  /\ UNCHANGED <<open, running, exited, reader, writer, writeStop, outVars,
                 inVars, worldVars>>

StopClose ==
  /\ owner = "closeHandles"
  /\ open' = {}
  /\ console' = FALSE
  /\ owner' = "down"
  /\ UNCHANGED <<running, exited, reader, writer, writeStop, outVars, inVars,
                 shell>>

-----------------------------------------------------------------------------
(* The reader thread.                                                       *)

ReaderCheck ==
  /\ reader = "check"
  /\ reader' = IF running THEN "call" ELSE "leaving"
  /\ UNCHANGED <<owner, open, running, exited, writer, writeStop, outVars,
                 inVars, worldVars>>

ReaderCall ==
  /\ reader = "call"
  /\ reader' = "inRead"
  /\ UNCHANGED <<owner, open, running, exited, writer, writeStop, outVars,
                 inVars, worldVars>>

\* ReadFile returns what is in the pipe, or fails when the pipe is broken.
ReadReturns ==
  /\ reader = "inRead"
  /\ \/ outPipe # <<>> /\ reader' = "deliver"
     \/ outPipe = <<>> /\ ~console /\ reader' = "leaving"
  /\ chunk' = outPipe
  /\ outPipe' = <<>>
  /\ UNCHANGED <<owner, open, running, exited, writer, writeStop, produced,
                 delivered, inVars, worldVars>>

\* Mutant: the answer is written by the reader itself, which waits for room in the
\* pipe.
DeliverWaitsForRoom ==
  /\ reader = "deliver"
  /\ Len(inPipe) < PipeRoom
  /\ delivered' = delivered \o chunk
  /\ chunk' = <<>>
  /\ reader' = "check"
  /\ UNCHANGED <<owner, open, running, exited, writer, writeStop, outPipe,
                 produced, inVars, worldVars>>

\* onOutput: the terminal takes the chunk, and may answer a query in it through
\* write(), on this thread.
Deliver ==
  /\ reader = "deliver"
  /\ delivered' = delivered \o chunk
  /\ chunk' = <<>>
  /\ \/ reader' = "check" /\ UNCHANGED inVars
     \/ ~writeStop /\ Enqueue /\ reader' = "notify"
  /\ UNCHANGED <<owner, open, running, exited, writer, writeStop, outPipe,
                 produced, worldVars>>

ReaderNotify ==
  /\ reader = "notify"
  /\ Notify
  /\ reader' = "check"
  /\ UNCHANGED <<owner, open, running, exited, writeStop, outVars, inVars,
                 worldVars>>

ReaderLeave ==
  /\ reader = "leaving"
  /\ exited' = TRUE
  /\ reader' = "done"
  /\ UNCHANGED <<owner, open, running, writer, writeStop, outVars, inVars,
                 worldVars>>

-----------------------------------------------------------------------------
(* The writer thread.                                                       *)

\* Mutant: the queue is copied, not swapped out.
WriterWaitCopies ==
  /\ writer = "wait"
  /\ writer' = IF writeQueue # <<>> THEN "call"
               ELSE IF writeStop THEN "done" ELSE "asleep"
  /\ pending' = writeQueue
  /\ UNCHANGED <<owner, open, running, exited, reader, writeStop, outVars,
                 writeQueue, inPipe, received, accepted, worldVars>>

\* The condition is looked at, and the queue taken, under the lock.
WriterWait ==
  /\ writer = "wait"
  /\ writer' = IF writeQueue # <<>> THEN "call"
               ELSE IF writeStop THEN "done" ELSE "asleep"
  /\ pending' = writeQueue
  /\ writeQueue' = <<>>
  /\ UNCHANGED <<owner, open, running, exited, reader, writeStop, outVars,
                 inPipe, received, accepted, worldVars>>

WriterCall ==
  /\ writer = "call"
  /\ writer' = "inWrite"
  /\ UNCHANGED <<owner, open, running, exited, reader, writeStop, outVars,
                 inVars, worldVars>>

\* Inside WriteFile: bytes go over while the pipe has room.
WriteMoves ==
  /\ writer = "inWrite" /\ pending # <<>>
  /\ console /\ Len(inPipe) < PipeRoom
  /\ inPipe' = Append(inPipe, Head(pending))
  /\ pending' = Tail(pending)
  /\ UNCHANGED <<owner, open, running, exited, reader, writer, writeStop,
                 outVars, writeQueue, received, accepted, worldVars>>

\* WriteFile has written it all, or the pipe is broken and the thread gives up.
WriteReturns ==
  /\ writer = "inWrite"
  /\ \/ pending = <<>> /\ writer' = "wait"
     \/ pending # <<>> /\ ~console /\ writer' = "done"
  /\ UNCHANGED <<owner, open, running, exited, reader, writeStop, outVars,
                 inVars, worldVars>>

-----------------------------------------------------------------------------
(* The console and the shell in it.                                         *)

ConsolePrints ==
  /\ shell /\ console
  /\ produced < MaxOut
  /\ produced' = produced + 1
  /\ outPipe' = Append(outPipe, produced')
  /\ UNCHANGED <<owner, open, running, exited, reader, writer, writeStop,
                 chunk, delivered, inVars, worldVars>>

ConsoleReads ==
  /\ shell /\ console /\ inPipe # <<>>
  /\ received' = Append(received, Head(inPipe))
  /\ inPipe' = Tail(inPipe)
  /\ UNCHANGED <<owner, open, running, exited, reader, writer, writeStop,
                 outVars, writeQueue, pending, accepted, worldVars>>

ShellExits ==
  /\ shell
  /\ shell' = FALSE
  /\ UNCHANGED <<owner, open, running, exited, reader, writer, writeStop,
                 outVars, inVars, console>>

ConsoleLetsGo ==
  /\ console /\ ~shell
  /\ console' = FALSE
  /\ UNCHANGED <<owner, open, running, exited, reader, writer, writeStop,
                 outVars, inVars, shell>>

-----------------------------------------------------------------------------
Teardown ==
  \/ StopKill \/ StopCancelRead \/ StopSet \/ StopNotify \/ StopCancelWrite
  \/ StopJoinReader \/ StopJoinWriter \/ StopClose

Reader ==
  \/ ReaderCheck \/ ReaderCall \/ ReadReturns \/ Deliver \/ ReaderNotify
  \/ ReaderLeave

Writer == WriterWait \/ WriterCall \/ WriteMoves \/ WriteReturns

World == ConsolePrints \/ ConsoleReads \/ ShellExits \/ ConsoleLetsGo

Next ==
  \/ Start \/ StartFails \/ Write \/ WriteNotify \/ Stop
  \/ Teardown \/ Reader \/ Writer \/ World

\* The operating system runs every thread that can run.  Nothing makes the
\* console print, read or let go, or the owner call write() or stop().
Fairness ==
  WF_vars(WriteNotify) /\ WF_vars(Teardown) /\ WF_vars(Reader) /\ WF_vars(Writer)

Spec == Init /\ [][Next]_vars /\ Fairness

-----------------------------------------------------------------------------
(* Properties.                                                              *)

\* Every variable has its type.
TypeOK ==
  /\ owner \in {"new", "up", "notify", "down"} \cup Stopping
  /\ open \subseteq {"inputWrite", "outputRead", "hpc", "process"}
  /\ {running, exited, writeStop, shell, console} \subseteq BOOLEAN
  /\ reader \in {"none", "check", "call", "inRead", "deliver", "notify",
                 "leaving", "done"}
  /\ writer \in {"none", "wait", "asleep", "call", "inWrite", "done"}
  /\ {chunk, outPipe, delivered} \subseteq Seq(1..MaxOut)
  /\ produced \in 0..MaxOut
  /\ {writeQueue, pending, inPipe, received, accepted} \subseteq Seq(1..MaxIn)

\* What the console prints reaches the terminal once and in order, with nothing
\* missing, whatever the reader, stop() and a dying shell do meanwhile.
OutputIntact ==
  delivered \o chunk \o outPipe = [i \in 1..produced |-> i]

\* Keystrokes and the terminal's own answers, accepted from two threads, reach
\* the console once, in the order write() took them; only stop() drops any.
InputIntact ==
  /\ ~writeStop => received \o inPipe \o pending \o writeQueue = accepted
  /\ \E n \in 0..Len(accepted) :
       received \o inPipe \o pending = SubSeq(accepted, 1, n)

\* Nothing printed or typed is lost, doubled or reordered between the console and
\* the terminal, in either direction.
BytesIntact == TypeOK /\ OutputIntact /\ InputIntact

\* The terminal and the handles outlive the threads that use them: nothing is
\* closed while a thread may still call ReadFile, WriteFile or onOutput, and a
\* pseudo-terminal that is gone leaves no handle open (ConPty.cpp:209-232).
ThreadsBeforeHandles ==
  /\ reader \notin {"none", "done"} => {"outputRead", "inputWrite"} \subseteq open
  /\ writer \notin {"none", "done"} => "inputWrite" \in open
  /\ owner = "down" => open = {}

\* "a full pipe (child not reading during a large paste) can't freeze the
\* caller" (ConPty.h:38), nor, through the terminal's answers, the reader: what
\* was printed is shown even if the console never reads a byte.
OutputFlows ==
  \A n \in 1..MaxOut :
    produced >= n ~> Len(delivered) >= n \/ owner \in Stopping \cup {"down"}

\* No wake-up of the writer is lost: it never sleeps on a queue that has bytes.
WriterWakes ==
  writeQueue # <<>> ~> writeQueue = <<>> \/ writer \in {"inWrite", "done"}

\* Bytes move on in both directions as long as somebody takes them.
BytesMove == OutputFlows /\ WriterWakes

\* A thread between its last test and its blocking call when stop() cancels such
\* calls.
AboutToBlock ==
  \/ owner = "cancelOut" /\ reader = "call"
  \/ owner = "cancelIn" /\ writer = "call"

\* stop() ends, whatever the console does with its pipes, unless a thread was
\* about to block at the moment of the cancellation.
StopEndsUnlessMissed == owner = "kill" ~> owner = "down" \/ AboutToBlock

\* "Robust, deadlock-free teardown": "force both worker threads out of their
\* blocking I/O with CancelIoEx (so the joins can't depend on
\* ClosePseudoConsole)" (ConPty.cpp:176-183): stop() always ends.
StopEnds == owner = "kill" ~> owner = "down"
=============================================================================
