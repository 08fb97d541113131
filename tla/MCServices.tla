----------------------------- MODULE MCServices -----------------------------
(* What the window has done for it by a shell, Git and the graphics device, *)
(* all of which fail: ConPty with a few chunks, a few bytes and an input    *)
(* pipe that fills up, Workspace with one repository, and Renderer with an  *)
(* atlas of one slot.  `part` says which one a behaviour is of; the others  *)
(* stay as they were at the start, so the states to check add up and do not *)
(* multiply.                                                                *)
EXTENDS ConPty, Workspace, Renderer

VARIABLE part

mcVars == <<part, vars, workspaceVars, rendererVars>>

MCInit ==
  /\ part \in {"conpty", "workspace", "renderer"}
  /\ Init /\ WorkspaceInit /\ RendererInit

InConPty    == part = "conpty" /\ UNCHANGED <<part, workspaceVars, rendererVars>>
InWorkspace == part = "workspace" /\ UNCHANGED <<part, vars, rendererVars>>
InRenderer  == part = "renderer" /\ UNCHANGED <<part, vars, workspaceVars>>

MCNext ==
  \/ InConPty /\ Start
  \/ InConPty /\ StartFails
  \/ InConPty /\ Write
  \/ InConPty /\ WriteNotify
  \/ InConPty /\ Stop
  \/ InConPty /\ StopKill
  \/ InConPty /\ StopCancelRead
  \/ InConPty /\ StopSet
  \/ InConPty /\ StopNotify
  \/ InConPty /\ StopCancelWrite
  \/ InConPty /\ StopJoinReader
  \/ InConPty /\ StopJoinWriter
  \/ InConPty /\ StopClose
  \/ InConPty /\ ReaderCheck
  \/ InConPty /\ ReaderCall
  \/ InConPty /\ ReadReturns
  \/ InConPty /\ Deliver
  \/ InConPty /\ ReaderNotify
  \/ InConPty /\ ReaderLeave
  \/ InConPty /\ WriterWait
  \/ InConPty /\ WriterCall
  \/ InConPty /\ WriteMoves
  \/ InConPty /\ WriteReturns
  \/ InConPty /\ ConsolePrints
  \/ InConPty /\ ConsoleReads
  \/ InConPty /\ ShellExits
  \/ InConPty /\ ConsoleLetsGo

  \/ InWorkspace /\ ReachRoot
  \/ InWorkspace /\ \E t \in DOMAIN disk : Edit(t)
  \/ InWorkspace /\ Rescan
  \/ InWorkspace /\ RestartWorkspace
  \/ InWorkspace /\ \E due \in BOOLEAN, more \in NewRows : DrawFrame(due, more)
  \/ InWorkspace /\ WorkerEnds
  \/ InWorkspace /\ MenuCancel
  \/ InWorkspace /\ MenuRefresh
  \/ InWorkspace /\ \E k \in DOMAIN rowsDrawn : OpenMenu(k)
  \/ \E ok \in BOOLEAN :
       \/ InWorkspace /\ MenuReload(ok)
       \/ InWorkspace /\ MenuNewWorktree(ok)
       \/ InWorkspace /\ MenuRemoveWorktree(ok)
       \/ InWorkspace /\ MenuRemove(ok)
       \/ InWorkspace /\ MenuPin(ok)
       \/ InWorkspace /\ \E k \in DOMAIN rowsDrawn : ClickHeader(k, ok)
       \/ InWorkspace /\ WorkerReads(ok)
       \/ InWorkspace /\ RestoreProjects(Paths, ok)
       \/ InWorkspace /\ \E p \in Paths : AddFolder(p, ok)

  \/ InRenderer /\ RemoveDevice
  \/ InRenderer /\ BuildTextFormats
  \/ InRenderer /\ DrawImage
  \/ InRenderer /\ \E positive \in BOOLEAN : Resize(positive)
  \/ InRenderer /\ \E g \in Glyphs : DrawGlyph(g)
  \/ InRenderer /\ BeginFrame
  \/ InRenderer /\ EndFrame

\* The fairness of ConPty, Workspace and Renderer, each in its part: nothing else
\* changes there.
MCFairness ==
  /\ WF_vars(part = "conpty" /\ WriteNotify) /\ WF_vars(part = "conpty" /\ Teardown)
  /\ WF_vars(part = "conpty" /\ Reader) /\ WF_vars(part = "conpty" /\ Writer)
  /\ WF_workspaceVars(part = "workspace" /\ DrawFrame(TRUE, 0))
  /\ WF_workspaceVars(part = "workspace" /\ WorkerEnds)
  /\ WF_workspaceVars(part = "workspace" /\ \E ok \in BOOLEAN : WorkerReads(ok))
  /\ WF_rendererVars(part = "renderer" /\ BeginFrame)
  /\ WF_rendererVars(part = "renderer" /\ EndFrame)

MCSpec == MCInit /\ [][MCNext]_mcVars /\ MCFairness
=============================================================================
