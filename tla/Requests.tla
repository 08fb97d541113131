------------------------------ MODULE Requests ------------------------------
(***************************************************************************)
(* What the window asks, and what is true when it is answered: message     *)
(* boxes on the UI thread, and the answers of worker threads that frames   *)
(* pick up (app/WindowSession.cpp, WindowAi.cpp, paste() and the           *)
(* confirming closes).  A box runs a loop of its own: frames are drawn in  *)
(* it, which poll and may open the next box on top, and the window obeys   *)
(* assistive technology although it is disabled for mouse and keyboard.    *)
(* A tab is one session here.                                              *)
(***************************************************************************)
EXTENDS Naturals, FiniteSets, SequencesExt

CONSTANTS Session, Dir,
          MaxBoxes,    \* bound on the boxes on top of each other
          MaxRequests, \* bound on the AI requests and update checks made
          MaxTold      \* bound on the commands obeyed while a box is open

ASSUME DirAssumption == Dir # {}
ASSUME SessionAssumption == IsFiniteSet(Session)

VARIABLES
  shells, shown,  \* tabs_, with their sessions, and activeTab_, from 1; 0: none
  cwd,          \* the directory of each session
  boxes,        \* the open boxes, the last on top
  worker,       \* the AI worker: "none", "asks", "ready" (aiReady_ set, aiBusy_ still)
  aiReady, aiAnswer, aiRequestedCwd,
  renamed,      \* aiRequestedCwd_ was set over an answer not yet shown
  checks, downloads, \* update threads under way
  updateReady, pendingUpdate, installerReady,
  launched,     \* the installer was started, which needs Liney gone
  quitting,     \* WM_QUIT: "no", "posted", "lost", or the loop has "ended"
  asked,        \* AI requests and update checks made
  told,         \* commands of assistive technology obeyed while a box was open
  acted         \* what this step did on a Yes

tabVars    == <<shells, shown, cwd>>
aiVars     == <<worker, aiReady, aiAnswer, aiRequestedCwd, renamed>>
updateVars == <<checks, downloads, updateReady, pendingUpdate, installerReady,
                launched>>
counted    == <<asked, told>>
requestVars == <<tabVars, boxes, acted, aiVars, updateVars, quitting, counted>>

SomeDir == CHOOSE d \in Dir : TRUE
Nothing == [kind |-> "none"]

RequestsInit ==
  /\ shells = SetToSeq(Session) /\ shown = 1
  /\ cwd = [s \in Session |-> SomeDir] /\ boxes = <<>> /\ acted = Nothing
  /\ worker = "none" /\ aiReady = FALSE
  /\ aiAnswer = SomeDir /\ aiRequestedCwd = SomeDir /\ renamed = FALSE
  /\ checks = 0 /\ downloads = 0 /\ updateReady = FALSE /\ pendingUpdate = FALSE
  /\ installerReady = FALSE /\ launched = FALSE
  /\ quitting = "no" /\ asked = 0 /\ told = 0

\* A posted WM_QUIT is taken as soon as no posted message is left, before any
\* input, WM_PAINT or WM_TIMER: then there is no click and no frame any more.
Runs  == quitting # "ended"
Idle  == quitting \in {"no", "lost"} /\ boxes = <<>>
Room  == Runs /\ Len(boxes) < MaxBoxes
Frame == Room /\ quitting # "posted" /\ shells # <<>>
Current == shells[shown]

\* A box: the session it is about; for an AI suggestion the directory its
\* request came from and whether aiRequestedCwd_ is another's by now; and what
\* has happened since it was opened: the sessions closed, whether another tab
\* has come up, and for the last question whether its shell changed directory.
BoxOf(kind, s) ==
  [kind |-> kind, about |-> s, dir |-> SomeDir, renamed |-> FALSE,
   gone |-> {}, left |-> FALSE, moved |-> FALSE]
Upper == Last(boxes)
Below == Front(boxes)

OnlyBoxes == UNCHANGED <<tabVars, aiVars, updateVars, quitting, counted>>
Silent == acted' = Nothing

-----------------------------------------------------------------------------
(* What the user starts, with no box open.                                  *)

\* paste() of several lines, which looks the session up first; the name of a
\* new worktree, inputBoxWithSuggestions(); every other box and menu.
OpenBox ==
  /\ Idle /\ shells # <<>>
  /\ \E kind \in {"paste", "worktree", "other"} :
       boxes' = <<BoxOf(kind, Current)>>
  /\ Silent /\ OnlyBoxes

\* requestAiForLastCommand(), from the pane menu.
RequestAi ==
  /\ Idle /\ shells # <<>> /\ asked < MaxRequests
  /\ worker = "none" \* !aiBusy_.exchange(true)
  /\ worker' = "asks" /\ aiRequestedCwd' = cwd[Current]
  /\ renamed' = aiReady
  /\ asked' = asked + 1
  /\ Silent /\ UNCHANGED <<tabVars, boxes, aiReady, aiAnswer, updateVars,
                           quitting, told>>

\* checkForUpdates(): any number of threads.
CheckForUpdates ==
  /\ Idle /\ asked < MaxRequests
  /\ checks' = checks + 1 /\ asked' = asked + 1
  /\ Silent /\ UNCHANGED <<tabVars, boxes, aiVars, downloads, updateReady,
                           pendingUpdate, installerReady, launched, quitting, told>>

\* The shell changes its directory (OSC 7), at any time; after the last
\* question about a suggestion nobody looks again.
ChangeDir(s, d) ==
  /\ Runs /\ cwd[s] # d
  /\ cwd' = [cwd EXCEPT ![s] = d]
  /\ boxes' = [i \in DOMAIN boxes |->
                 IF boxes[i].kind = "confirm" /\ boxes[i].about = s
                 THEN [boxes[i] EXCEPT !.moved = TRUE] ELSE boxes[i]]
  /\ Silent /\ UNCHANGED <<shells, shown, aiVars, updateVars, quitting, counted>>

-----------------------------------------------------------------------------
(* Closing and selecting, by a key or by kAccessibilityInvokeMessage.       *)

\* closeActivePane() of a tab with one pane; the last tab ends the program.
CloseShown ==
  /\ shells' = RemoveAt(shells, shown)
  /\ shown' = IF shown > Len(shells) - 1 THEN Len(shells) - 1 ELSE shown
  /\ quitting' = IF Len(shells) = 1 /\ Runs THEN "posted" ELSE quitting

\* Commands reach the window through the boxes, or there are none.
TheWindowIsTold ==
  IF boxes = <<>> THEN Idle /\ UNCHANGED told
  ELSE Runs /\ told < MaxTold /\ told' = told + 1

\* What the boxes that are open have noted once another tab has come up, and
\* these sessions are gone.
UnderBoxes(closed) ==
  [i \in DOMAIN boxes |-> [boxes[i] EXCEPT !.gone = @ \cup closed, !.left = TRUE]]

\* closeActivePaneConfirming(), when no command runs.
CloseAtOnce ==
  /\ TheWindowIsTold /\ shells # <<>>
  /\ CloseShown /\ boxes' = UnderBoxes({Current})
  /\ Silent /\ UNCHANGED <<cwd, aiVars, updateVars, asked>>

\* The same, when one does.
AskToClose ==
  /\ TheWindowIsTold /\ shells # <<>> /\ Room
  /\ boxes' = Append(boxes, BoxOf("close", Current))
  /\ Silent /\ UNCHANGED <<tabVars, aiVars, updateVars, quitting, asked>>

ShowTab ==
  /\ TheWindowIsTold
  /\ shown' \in DOMAIN shells \ {shown}
  /\ boxes' = UnderBoxes({})
  /\ Silent /\ UNCHANGED <<shells, cwd, aiVars, updateVars, quitting, asked>>

-----------------------------------------------------------------------------
(* Workers, and the frames that look for their results.                     *)

AiAnswers ==
  /\ worker = "asks"
  /\ worker' = "ready" /\ aiAnswer' = aiRequestedCwd /\ aiReady' = TRUE
  /\ Silent /\ UNCHANGED <<tabVars, boxes, aiRequestedCwd, renamed, updateVars,
                           quitting, counted>>

AiFrees ==
  /\ worker = "ready" /\ worker' = "none"
  /\ Silent /\ UNCHANGED <<tabVars, boxes, aiReady, aiAnswer, aiRequestedCwd,
                           renamed, updateVars, quitting, counted>>

\* pendingUpdate_: there is a newer release with an installer and a checksum.
CheckEnds ==
  /\ checks > 0 /\ checks' = checks - 1
  /\ updateReady' = TRUE /\ pendingUpdate' \in BOOLEAN
  /\ Silent /\ UNCHANGED <<tabVars, boxes, aiVars, downloads, installerReady,
                           launched, quitting, counted>>

\* A failed download sets updateReady_ and leaves pendingUpdate_.
DownloadEnds ==
  /\ downloads > 0 /\ downloads' = downloads - 1
  /\ \/ installerReady' = TRUE /\ UNCHANGED updateReady
     \/ updateReady' = TRUE /\ UNCHANGED installerReady
  /\ Silent /\ UNCHANGED <<tabVars, boxes, aiVars, checks, pendingUpdate,
                           launched, quitting, counted>>

\* pollClipboardRequests(): a program in any pane asks to set the clipboard; the
\* walk over tabs_ goes on after the answer.
PollClipboard ==
  /\ Frame
  /\ \E i \in DOMAIN shells : boxes' = Append(boxes, BoxOf("clip", shells[i]))
  /\ Silent /\ OnlyBoxes

\* pollUpdateResult(): the installer can be launched or not.
PollInstaller ==
  /\ Frame /\ installerReady
  /\ installerReady' = FALSE
  /\ \/ launched' = TRUE /\ quitting' = "posted"
     \/ UNCHANGED <<launched, quitting>>
  /\ Silent /\ UNCHANGED <<tabVars, boxes, aiVars, checks, downloads,
                           updateReady, pendingUpdate, counted>>

PollUpdate ==
  /\ Frame /\ ~installerReady /\ updateReady
  /\ updateReady' = FALSE
  /\ boxes' = IF pendingUpdate THEN Append(boxes, BoxOf("update", "none"))
              ELSE boxes
  /\ Silent /\ UNCHANGED <<tabVars, aiVars, checks, downloads, pendingUpdate,
                           installerReady, launched, quitting, counted>>

\* pollAiResult(); the boxes before the suggestion only inform.
PollAi ==
  /\ Frame /\ aiReady
  /\ aiReady' = FALSE
  /\ boxes' \in {boxes, Append(boxes, [BoxOf("suggest", "none") EXCEPT
                                         !.dir = aiAnswer, !.renamed = renamed])}
  /\ Silent /\ UNCHANGED <<tabVars, worker, aiAnswer, aiRequestedCwd, renamed,
                           updateVars, quitting, counted>>

-----------------------------------------------------------------------------
(* Answers.  Only the box on top returns.                                   *)

Answered(kinds) == quitting \in {"no", "lost"} /\ boxes # <<>> /\ Upper.kind \in kinds

Acts(on) ==
  acted' = [kind |-> Upper.kind, box |-> Upper, on |-> on,
            there |-> Contains(shells, on), known |-> cwd[on] = Upper.dir]

No ==
  /\ boxes # <<>> /\ Answered({Upper.kind})
  /\ boxes' = Below /\ Silent /\ OnlyBoxes

\* The session found before the box, or the list that was being walked, is used
\* after it.
YesKeepsPointer ==
  /\ Answered({"paste", "clip"})
  /\ Acts(Upper.about)
  /\ boxes' = Below /\ OnlyBoxes

\* The pane that is active by now is closed.
YesClose ==
  /\ Answered({"close"})
  /\ IF shells # <<>>
     THEN Acts(Current) /\ CloseShown /\ boxes' = Front(UnderBoxes({Current}))
     ELSE Silent /\ boxes' = Below /\ UNCHANGED <<shells, shown, quitting>>
  /\ UNCHANGED <<cwd, aiVars, updateVars, counted>>

\* Mutant: the directory is not compared.
YesSuggestUnchecked ==
  /\ Answered({"suggest"}) /\ shells # <<>>
  /\ boxes' = Append(Below, [BoxOf("confirm", Current) EXCEPT !.dir = Upper.dir])
  /\ Silent /\ OnlyBoxes

\* "Review for execution": the directory is compared, and the user asked again.
YesSuggest ==
  /\ Answered({"suggest"})
  /\ boxes' = IF shells # <<>> /\ cwd[Current] = aiRequestedCwd
              THEN Append(Below, [BoxOf("confirm", Current) EXCEPT
                                    !.dir = Upper.dir, !.renamed = Upper.renamed])
              ELSE Below
  /\ Silent /\ OnlyBoxes

\* sendUtf16() goes to the session that is active by now.
YesConfirm ==
  /\ Answered({"confirm"})
  /\ IF shells # <<>> THEN Acts(Current) ELSE Silent
  /\ boxes' = Below /\ OnlyBoxes

\* startDownloadAndInstall()
YesUpdate ==
  /\ Answered({"update"})
  /\ downloads' = downloads + 1
  /\ boxes' = Below
  /\ Silent /\ UNCHANGED <<tabVars, aiVars, checks, updateReady, pendingUpdate,
                           installerReady, launched, quitting, counted>>

-----------------------------------------------------------------------------
(* WM_QUIT.                                                                 *)

\* Mutant: the loop posts it again and goes on.
QuitBoxStays ==
  /\ quitting = "posted" /\ boxes # <<>>
  /\ UNCHANGED requestVars

\* A box's loop takes it and ends; MessageBox, inputBox() and the settings post
\* it again, inputBoxWithSuggestions() does not.
QuitBox ==
  /\ quitting = "posted" /\ boxes # <<>>
  /\ boxes' = Below
  /\ quitting' = IF Upper.kind = "worktree" THEN "lost" ELSE quitting
  /\ Silent /\ UNCHANGED <<tabVars, aiVars, updateVars, counted>>

\* runMessageLoop() returns; ~Window joins the workers.
QuitLoop ==
  /\ quitting = "posted" /\ boxes = <<>>
  /\ quitting' = "ended"
  /\ Silent /\ UNCHANGED <<tabVars, boxes, aiVars, updateVars, counted>>

RequestsNext ==
  \/ OpenBox \/ RequestAi \/ CheckForUpdates
  \/ \E s \in Session, d \in Dir : ChangeDir(s, d)
  \/ CloseAtOnce \/ AskToClose \/ ShowTab
  \/ AiAnswers \/ AiFrees \/ CheckEnds \/ DownloadEnds
  \/ PollClipboard \/ PollInstaller \/ PollUpdate \/ PollAi
  \/ No \/ YesKeepsPointer \/ YesClose \/ YesSuggest \/ YesConfirm \/ YesUpdate
  \/ QuitBox \/ QuitLoop

\* Every loop gets to WM_QUIT once the messages before it are handled.
QuitStep == QuitBox \/ QuitLoop
RequestsSpec ==
  RequestsInit /\ [][RequestsNext]_requestVars /\ WF_requestVars(QuitStep)

-----------------------------------------------------------------------------
\* A Yes reaches what its question was about.  The text is pasted, and the
\* clipboard walk goes on, in a session that is still there, unless the tab of
\* that very session was closed under the box.  The pane closed, or given a
\* suggested command, is there in any case, and the one named unless another tab
\* came up under the box; and the command runs in the directory its request came
\* from unless that happened, or the named shell changed its directory while the
\* last question was open, or a second AI request was made over an answer no
\* frame had shown.  The first and the second exception are what the code does:
\* it uses memory that was freed, and acts on a pane nobody asked about.
ActsOnAsked ==
  acted.kind # "none" =>
    /\ acted.kind \in {"paste", "clip"} => acted.there \/ acted.on \in acted.box.gone
    /\ acted.kind \in {"close", "confirm"} =>
         acted.there /\ (acted.box.left \/ acted.on = acted.box.about)
    /\ acted.kind = "confirm" =>
         acted.box.left \/ acted.box.moved \/ acted.box.renamed \/ acted.known

\* "An app-quit that arrived while this modal loop ran must not be swallowed"
\* (InputBox.cpp:138-143): once the installer has been started Liney ends,
\* through all the boxes that are open, unless the box for a new worktree was
\* one of them.
QuitIsHeard == launched ~> quitting \in {"ended", "lost"}
=============================================================================
