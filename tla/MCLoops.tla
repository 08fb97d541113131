------------------------------ MODULE MCLoops ------------------------------
(* The window's message loop and those of its boxes: RenderLoop with two    *)
(* panes and a short queue, and Requests with two tabs.  `part` says which  *)
(* one a behaviour is of; the other stays as it was at the start, so the    *)
(* states to check add up and do not multiply.                              *)
EXTENDS RenderLoop, Requests

VARIABLE part

mcVars == <<part, vars, requestVars>>

MCInit == part \in {"loop", "requests"} /\ Init /\ RequestsInit

InLoop     == part = "loop" /\ UNCHANGED <<part, requestVars>>
InRequests == part = "requests" /\ UNCHANGED <<part, vars>>

MCNext ==
  \/ \E p \in Pane : \/ InLoop /\ TerminalWrite(p)
                     \/ InLoop /\ MarkDirty(p)
                     \/ InLoop /\ PostWake(p)
                     \/ InLoop /\ Snapshot(p)
  \/ InLoop /\ InputArrives
  \/ InLoop /\ DispatchWake
  \/ InLoop /\ DispatchInput
  \/ InLoop /\ \E tick \in BOOLEAN : TakeDirty(tick)
  \/ InLoop /\ FrameEnds
  \/ InLoop /\ Wake
  \/ InLoop /\ ModalDispatch
  \/ InLoop /\ ModalEnd
  \/ InLoop /\ Quit
  \/ InLoop /\ Timeout

  \/ InRequests /\ OpenBox
  \/ InRequests /\ RequestAi
  \/ InRequests /\ CheckForUpdates
  \/ InRequests /\ \E s \in Session, d \in Dir : ChangeDir(s, d)
  \/ InRequests /\ CloseAtOnce
  \/ InRequests /\ AskToClose
  \/ InRequests /\ ShowTab
  \/ InRequests /\ AiAnswers
  \/ InRequests /\ AiFrees
  \/ InRequests /\ CheckEnds
  \/ InRequests /\ DownloadEnds
  \/ InRequests /\ PollClipboard
  \/ InRequests /\ PollInstaller
  \/ InRequests /\ PollUpdate
  \/ InRequests /\ PollAi
  \/ InRequests /\ No
  \/ InRequests /\ YesKeepsPointer
  \/ InRequests /\ YesClose
  \/ InRequests /\ YesSuggest
  \/ InRequests /\ YesConfirm
  \/ InRequests /\ YesUpdate
  \/ InRequests /\ QuitBox
  \/ InRequests /\ QuitLoop

\* The fairness of RenderLoop and of Requests.
MCFairness ==
  /\ \A p \in Pane : WF_mcVars(InLoop /\ (MarkDirty(p) \/ PostWake(p)))
  /\ WF_mcVars(InLoop /\ LoopStep)
  /\ WF_mcVars(InRequests /\ QuitStep)

MCSpec == MCInit /\ [][MCNext]_mcVars /\ MCFairness
=============================================================================
