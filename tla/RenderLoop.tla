----------------------------- MODULE RenderLoop -----------------------------
(***************************************************************************)
(* How terminal output gets on screen: core/RenderSignal.h and             *)
(* Window::runMessageLoop.  Every pane has a reader thread that writes to  *)
(* its terminal and calls markRenderDirty(); the one UI thread drains its  *)
(* message queue, draws a frame if it has a reason to, and sleeps.         *)
(***************************************************************************)
EXTENDS Naturals, FiniteSets

CONSTANTS Pane,       \* panes of the tab on screen, each with its reader thread
          MaxWrites,  \* bound on the writes to one terminal
          MaxInputs   \* bound on the input messages waiting

ASSUME PanesAssumption == IsFiniteSet(Pane)
ASSUME BoundsAssumption == MaxWrites \in Nat /\ MaxInputs \in Nat

VARIABLES
  written,  \* writes each terminal has had
  drawn,    \* how many of them the pane's last snapshot held
  thread,   \* where each reader thread is
  dirty,    \* g_renderDirty
  wakes,    \* WM_LINEY_WAKE messages in the queue
  inputs,   \* other messages in the queue
  ui,       \* where the UI thread is
  didMsg,   \* didMsg of this turn of the loop
  toDraw    \* panes the frame has not taken a snapshot of yet

readerVars == <<written, thread>>
queueVars  == <<dirty, wakes, inputs>>
uiVars     == <<drawn, ui, didMsg, toDraw>>
vars == <<readerVars, queueVars, uiVars>>

\* g_renderDirty starts true: the first frame needs no reason.
Init ==
  /\ written = [p \in Pane |-> 0]
  /\ drawn = [p \in Pane |-> 0]
  /\ thread = [p \in Pane |-> "read"]
  /\ dirty = TRUE
  /\ wakes = 0 /\ inputs = 0
  /\ ui = "drain" /\ didMsg = FALSE /\ toDraw = {}

-----------------------------------------------------------------------------
(* The reader threads: onOutput is terminal_.write() and markRenderDirty(). *)

TerminalWrite(p) ==
  /\ thread[p] = "read"
  /\ written[p] < MaxWrites
  /\ written' = [written EXCEPT ![p] = @ + 1]
  /\ thread' = [thread EXCEPT ![p] = "mark"]
  /\ UNCHANGED <<queueVars, uiVars>>

\* Mutant: the test is the wrong way round.
MarkDirtyInverted(p) ==
  /\ thread[p] = "mark"
  /\ thread' = [thread EXCEPT ![p] = IF dirty THEN "post" ELSE "read"]
  /\ dirty' = TRUE
  /\ UNCHANGED <<written, wakes, inputs, uiVars>>

\* exchange(true): only the call that turned the flag on posts a wake.
MarkDirty(p) ==
  /\ thread[p] = "mark"
  /\ thread' = [thread EXCEPT ![p] = IF dirty THEN "read" ELSE "post"]
  /\ dirty' = TRUE
  /\ UNCHANGED <<written, wakes, inputs, uiVars>>

PostWake(p) ==
  /\ thread[p] = "post"
  /\ wakes' = wakes + 1
  /\ thread' = [thread EXCEPT ![p] = "read"]
  /\ UNCHANGED <<written, dirty, inputs, uiVars>>

-----------------------------------------------------------------------------
(* The UI thread.                                                           *)

InputArrives ==
  /\ inputs < MaxInputs
  /\ inputs' = inputs + 1
  /\ UNCHANGED <<dirty, wakes, readerVars, uiVars>>

\* PeekMessage and DispatchMessage.  The handler of an input message may call
\* markRenderDirty() itself, or stay in a menu's or a dialog's own loop.
DispatchWake ==
  /\ ui = "drain" /\ wakes > 0
  /\ wakes' = wakes - 1
  /\ didMsg' = TRUE
  /\ UNCHANGED <<dirty, inputs, readerVars, drawn, ui, toDraw>>

DispatchInput ==
  /\ ui = "drain" /\ inputs > 0
  /\ inputs' = inputs - 1
  /\ didMsg' = TRUE
  /\ \/ ui' = "modal" /\ UNCHANGED <<dirty, wakes>>
     \/ UNCHANGED <<ui, dirty, wakes>>
     \/ /\ UNCHANGED ui
        /\ dirty' = TRUE
        /\ wakes' = IF dirty THEN wakes ELSE wakes + 1
  /\ UNCHANGED <<readerVars, drawn, toDraw>>

\* The modal loop drains the queue too, and its WM_PAINT draws a frame.
ModalDispatch ==
  /\ ui = "modal"
  /\ \/ wakes > 0 /\ wakes' = wakes - 1 /\ UNCHANGED <<inputs, drawn>>
     \/ inputs > 0 /\ inputs' = inputs - 1 /\ UNCHANGED <<wakes, drawn>>
     \/ drawn' = written /\ UNCHANGED <<wakes, inputs>>
  /\ UNCHANGED <<dirty, readerVars, ui, didMsg, toDraw>>

ModalEnd ==
  /\ ui = "modal"
  /\ ui' = "drain"
  /\ UNCHANGED <<readerVars, queueVars, drawn, didMsg, toDraw>>

\* WM_QUIT: the loop returns.
Quit ==
  /\ ui = "drain"
  /\ ui' = "quit"
  /\ UNCHANGED <<readerVars, queueVars, drawn, didMsg, toDraw>>

\* The queue is empty: exchange(false), and a frame if a message was handled,
\* the flag was on, or the last frame is too old (`tick`).
TakeDirty(tick) ==
  /\ ui = "drain" /\ wakes = 0 /\ inputs = 0
  /\ dirty' = FALSE
  /\ didMsg' = FALSE
  /\ IF didMsg \/ dirty \/ tick
     THEN ui' = "render" /\ toDraw' = Pane
     ELSE ui' = "sleep" /\ UNCHANGED toDraw
  /\ UNCHANGED <<readerVars, wakes, inputs, drawn>>

\* renderFrame() takes the panes' snapshots one after the other.
Snapshot(p) ==
  /\ ui = "render" /\ p \in toDraw
  /\ drawn' = [drawn EXCEPT ![p] = written[p]]
  /\ toDraw' = toDraw \ {p}
  /\ UNCHANGED <<readerVars, queueVars, ui, didMsg>>

\* Mutant: the flag is cleared after the frame as well.
FrameEndsClears ==
  /\ ui = "render" /\ toDraw = {}
  /\ ui' = "sleep"
  /\ dirty' = FALSE
  /\ UNCHANGED <<readerVars, wakes, inputs, drawn, didMsg, toDraw>>

FrameEnds ==
  /\ ui = "render" /\ toDraw = {}
  /\ ui' = "sleep"
  /\ UNCHANGED <<readerVars, queueVars, drawn, didMsg, toDraw>>

\* Mutant: the wait's mask leaves posted messages out.
WakeForInput ==
  /\ ui = "sleep" /\ inputs > 0
  /\ ui' = "drain"
  /\ UNCHANGED <<readerVars, queueVars, drawn, didMsg, toDraw>>

\* MsgWaitForMultipleObjectsEx with MWMO_INPUTAVAILABLE: returns as soon as the
\* queue holds anything.
Wake ==
  /\ ui = "sleep" /\ wakes + inputs > 0
  /\ ui' = "drain"
  /\ UNCHANGED <<readerVars, queueVars, drawn, didMsg, toDraw>>

\* Its timeout, kIdleRenderMs.
Timeout ==
  /\ ui = "sleep"
  /\ ui' = "drain"
  /\ UNCHANGED <<readerVars, queueVars, drawn, didMsg, toDraw>>

-----------------------------------------------------------------------------
ReaderStep(p) == TerminalWrite(p) \/ MarkDirty(p) \/ PostWake(p)

LoopStep ==
  \/ DispatchWake \/ DispatchInput
  \/ \E tick \in BOOLEAN : TakeDirty(tick)
  \/ \E p \in Pane : Snapshot(p)
  \/ FrameEnds \/ Wake

Next ==
  \/ \E p \in Pane : ReaderStep(p)
  \/ InputArrives \/ LoopStep \/ ModalDispatch \/ ModalEnd \/ Quit \/ Timeout

\* The threads run when they can.  The timeout is not needed, and no user has
\* to end a menu or type anything.
Fairness ==
  /\ \A p \in Pane : WF_vars(MarkDirty(p) \/ PostWake(p))
  /\ WF_vars(LoopStep)

Spec == Init /\ [][Next]_vars /\ Fairness

-----------------------------------------------------------------------------
(* Properties.                                                              *)

\* Every variable has its type.
TypeOK ==
  /\ written \in [Pane -> Nat] /\ drawn \in [Pane -> Nat]
  /\ thread \in [Pane -> {"read", "mark", "post"}]
  /\ dirty \in BOOLEAN /\ didMsg \in BOOLEAN
  /\ wakes \in Nat /\ inputs \in Nat
  /\ ui \in {"drain", "modal", "quit", "render", "sleep"}
  /\ toDraw \in SUBSET Pane

\* Output that no frame shows yet has somebody on its way to see to it: the
\* thread that wrote it will mark, the flag is on, a frame is due after the
\* messages, or the frame being drawn has the pane still to come.
StaleIsCovered ==
  \A p \in Pane :
    drawn[p] # written[p] =>
      thread[p] = "mark" \/ dirty \/ didMsg \/ p \in toDraw

\* No wake-up is lost: while the loop sleeps with the flag on, a wake is in the
\* queue or a thread is about to post it.  A thread that found the flag on
\* relied on this and posted nothing (RenderSignal.h:25-28).
NoLostWake ==
  ui = "sleep" /\ dirty => wakes > 0 \/ \E p \in Pane : thread[p] = "post"

\* "Coalesce bursts of PTY output into one queued wake": the message queue
\* cannot be flooded.  It is not always one, as a thread may post late, but
\* never more than one for each thread and one for the flag.
WakesBounded == wakes <= Cardinality(Pane) + 1

\* What the flag is for (RenderSignal.h:24-32): as few wakes as that, and never
\* one too few.
WakesSound == NoLostWake /\ WakesBounded

\* All output is shown in the end without the idle timeout, unless the user
\* stays in a menu, quits, or never stops typing: the queue is emptied before
\* any frame, so input that keeps coming keeps the frame away.
OutputShown ==
  <>[](inputs = 0) =>
    \A p \in Pane : \A n \in 1..MaxWrites :
      written[p] >= n ~> drawn[p] >= n \/ ui \in {"modal", "quit"}
=============================================================================
