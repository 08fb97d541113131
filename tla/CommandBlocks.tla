--------------------------- MODULE CommandBlocks ---------------------------
(***************************************************************************)
(* Command blocks of one session: the marks a shell writes around each     *)
(* command (OSC 133), the bounded queue they wait in (vt/Terminal.cpp),    *)
(* the list the UI thread builds from them (core/TerminalSession.cpp), and *)
(* the line it guesses from the keys it sends while it believes the shell  *)
(* is at its prompt.                                                       *)
(*                                                                         *)
(* The shell is external.  It numbers its prompts; an event carries the    *)
(* number of the prompt it belongs to, which stands for the row Terminal   *)
(* stamps on it.  The shell writes straight into the event queue: the UI   *)
(* cannot tell a late chunk from a late frame.  Only the frame takes the   *)
(* events out, and it handles them one by one while the shell goes on.     *)
(*                                                                         *)
(* An event is a mark, its prompt, and for D the exit status; for C, which *)
(* the session does not look at, whether it is its prompt's first.  A key  *)
(* is the bytes it sends: a letter, a letter of two bytes, backspace,      *)
(* escape, return, or another control byte (Tab, Ctrl+C, Ctrl+U, ...).     *)
(***************************************************************************)
EXTENDS Integers, Sequences, SequencesExt, FiniteSets

CONSTANTS Keys,        \* the keys the user may press
          QueueCap,    \* events the terminal holds (256 in the code)
          BlockCap,    \* blocks the session keeps (1000 in the code)
          InputCap,    \* bytes of a line the session captures (64 KiB)
          Earlier,     \* commands the session has already recorded
          MaxPrompts,  \* bound on the prompts of the shell
          MaxKeys      \* bound on the keys pressed

ASSUME CapsAssumption ==
  /\ QueueCap \in Nat \ {0} /\ BlockCap \in Nat \ {0} /\ InputCap \in Nat
  /\ Earlier \in 0..BlockCap /\ MaxPrompts \in Nat /\ Earlier < MaxPrompts

VARIABLES
  shell,      \* the shell: what it is doing, its prompt's number, its line
  typed,      \* keys on their way to the shell
  events,     \* semanticEvents_
  batch,      \* the events a frame has drained and not handled yet
  line,       \* atPrompt_, promptEscape_, promptInputUtf8_, pendingCommandRow_,
              \* and whether pendingCommandStartedAt_ is set
  blocks,     \* commandBlocks_
  nextId,     \* nextCommandId_
  nav,        \* commandNavigation_
  buffer,     \* where the vector keeps its blocks: capacity, generation
  history,    \* the lines appended to the history file
  menu,       \* the pane menu: closed, or what lastCommand points at
  shown,      \* the block last jumped to, 0 for none
  accepted,   \* for each prompt, the line the shell accepted
  missed,     \* prompts that read a key the session did not capture for them,
              \* or whose line was continued or given up
  misled,     \* prompts for which it captured a key it cannot follow
  dropped,    \* the prompts the queue dropped a mark of
  pressed     \* keys pressed so far

blockVars == <<blocks, nextId, buffer>>
shellVars == <<shell, typed, accepted>>
ghosts    == <<shown, missed, misled, dropped, pressed>>
vars == <<shellVars, events, batch, line, blockVars, nav, history, menu,
          ghosts>>

(* The keys, as the bytes sendBytes() gets.  "w1" "w2" is one letter.        *)
Letter    == <<"a">>
Wide      == <<"w1", "w2">>
Backspace == <<"bs">>
Escape    == <<"esc">>
Return    == <<"cr">>
Control   == <<"ctl">>

AllKeys == {Letter, Wide, Backspace, Escape, Return, Control}

ASSUME KeysAssumption == Keys \subseteq AllKeys

Closed == [id |-> 0]

EarlierBlock(i) ==
  [id |-> i, command |-> <<Letter>>, state |-> "Succeeded", start |-> i,
   end |-> i, bookmarked |-> FALSE]

\* A session whose last command has just ended, or a new one.  A shell that
\* writes no C is still taken to be at its prompt.
Init ==
  /\ \E marksStart \in BOOLEAN :
       /\ shell = [at |-> IF Earlier = 0 THEN "D" ELSE "A",
                   prompt |-> Earlier + 1, line |-> <<>>,
                   marksStart |-> marksStart]
       /\ line = [atPrompt |-> Earlier > 0 /\ ~marksStart, escape |-> FALSE,
                  entered |-> FALSE, input |-> <<>>, row |-> Earlier]
  /\ typed = <<>> /\ events = <<>> /\ batch = <<>>
  /\ blocks = [i \in 1..Earlier |-> EarlierBlock(i)]
  /\ nextId = Earlier + 1 /\ nav = Earlier
  /\ buffer = [capacity |-> Earlier, generation |-> Earlier]
  /\ history = [i \in 1..Earlier |->
                  [id |-> i, command |-> <<Letter>>, state |-> "Succeeded"]]
  /\ menu = Closed /\ shown = 0
  /\ accepted = [i \in 1..Earlier |-> <<Letter>>]
  /\ missed = {} /\ misled = {} /\ dropped = {} /\ pressed = 0

-----------------------------------------------------------------------------
(* The shell and the terminal.                                              *)

\* Terminal::write(): a full queue drops its oldest event.
WriteEvent(e) ==
  IF Len(events) < QueueCap
    THEN events' = Append(events, e) /\ UNCHANGED dropped
    ELSE /\ events' = Append(Tail(events), e)
         /\ dropped' = IF Head(events).mark = "link" THEN dropped
                       ELSE dropped \cup {Head(events).prompt}

Mark(m, ok) == [mark |-> m, prompt |-> shell.prompt, ok |-> ok]

\* The prompt hook: D for the command before, then A, the prompt, and B.  A
\* shell that has no exit status to report sends none, which counts as 0.
WritePrompt ==
  /\ \/ /\ shell.at = "D"
        /\ \E ok \in IF shell.marksStart THEN BOOLEAN ELSE {TRUE} :
             WriteEvent([mark |-> "D", prompt |-> shell.prompt - 1, ok |-> ok])
        /\ shell' = [shell EXCEPT !.at = "A"]
     \/ /\ shell.at = "A"
        /\ WriteEvent(Mark("A", TRUE))
        /\ shell' = [shell EXCEPT !.at = "B"]
     \/ /\ shell.at = "B"
        /\ WriteEvent(Mark("B", TRUE))
        /\ shell' = [shell EXCEPT !.at = "prompt", !.line = <<>>]
  /\ UNCHANGED <<typed, accepted, batch, line, blockVars, nav, history,
                 menu, shown, missed, misled, pressed>>

\* What one key does to the line the shell is editing.  What a control byte makes
\* of it (completed, cut, moved in) is the shell's affair: the key stands for it.
Edited(text, key) ==
  CASE key = Backspace -> IF text = <<>> THEN <<>> ELSE Front(text)
    [] key = Escape    -> <<>>
    [] OTHER           -> Append(text, key)

\* The shell edits its line.  Keys the session sent for another prompt, or
\* did not capture at all, leave it behind.
ReadKey ==
  /\ shell.at \in {"prompt", "more"} /\ typed # <<>>
  /\ Head(typed).key # Return
  /\ shell' = [shell EXCEPT !.line = Edited(@, Head(typed).key)]
  /\ typed' = Tail(typed)
  /\ missed' = IF Head(typed).row = shell.prompt THEN missed
               ELSE missed \cup {shell.prompt}
  /\ UNCHANGED <<accepted, events, batch, line, blockVars, nav, history,
                 menu, shown, misled, dropped, pressed>>

\* Return: an integrated PowerShell writes C, whatever becomes of the line, cmd.exe
\* writes nothing.
TakeReturn ==
  /\ typed # <<>> /\ Head(typed).key = Return
  /\ IF shell.marksStart THEN WriteEvent(Mark("C", shell.at = "prompt"))
                         ELSE UNCHANGED <<events, dropped>>
  /\ typed' = Tail(typed)
  /\ UNCHANGED <<batch, line, blockVars, nav, history, menu, shown, misled, pressed>>

AcceptLine ==
  /\ shell.at \in {"prompt", "more"} /\ TakeReturn
  /\ shell' = [shell EXCEPT !.at = "run"]
  /\ accepted' = Append(accepted, shell.line)
  /\ missed' = IF Head(typed).row = shell.prompt THEN missed
               ELSE missed \cup {shell.prompt}

\* A line that is not complete: AcceptLine() only begins a new row of it, and the
\* shell goes on editing, with its mark written (ShellProfiles.cpp:81-84).  A line
\* has two rows at most here: a third C finds what the second one found.
ContinueLine ==
  /\ shell.at = "prompt" /\ TakeReturn
  /\ shell' = [shell EXCEPT !.at = "more", !.line = Append(@, Return)]
  /\ missed' = missed \cup {shell.prompt}
  /\ UNCHANGED accepted

\* Ctrl+C: the shell goes on to its next prompt with nothing to run and no C.
GiveUpLine ==
  /\ shell.at \in {"prompt", "more"} /\ typed # <<>>
  /\ Head(typed).key = Control
  /\ shell' = [shell EXCEPT !.at = "run"]
  /\ accepted' = Append(accepted, <<>>)
  /\ missed' = missed \cup {shell.prompt}
  /\ typed' = Tail(typed)
  /\ UNCHANGED <<events, batch, line, blockVars, nav, history, menu, shown, misled,
                 dropped, pressed>>

\* The command reads a key, or ends.  It may write other marks (links, images),
\* which take room in the queue: at most one, as it ends.
RunCommand ==
  /\ shell.at = "run"
  /\ \/ /\ typed # <<>> /\ typed' = Tail(typed)
        /\ UNCHANGED <<shell, events, dropped>>
     \/ /\ shell.prompt < MaxPrompts
        /\ shell' = [shell EXCEPT !.at = "D", !.prompt = @ + 1]
        /\ WriteEvent(Mark("link", TRUE)) \/ UNCHANGED <<events, dropped>>
        /\ UNCHANGED typed
  /\ UNCHANGED <<accepted, batch, line, blockVars, nav, history, menu, shown,
                 missed, misled, pressed>>

-----------------------------------------------------------------------------
(* Keys on their way to the shell: TerminalSession::sendBytes().            *)

\* Mutant: keys are captured while a command runs too.
CaptureAlways(l, key) ==
  IF key \in {Escape, Backspace, Return, Control} THEN l
  ELSE [l EXCEPT !.input = IF Len(@) < InputCap THEN @ \o key ELSE @]

\* capturePromptInput(): backspace takes one byte off; an escape swallows what
\* follows up to and including the next ASCII letter; other control bytes are passed
\* over; a full line takes no more.
Capture(l, key) ==
  IF ~l.atPrompt THEN l
  ELSE IF l.escape THEN [l EXCEPT !.escape = key # Letter]
  ELSE CASE key = Escape    -> [l EXCEPT !.escape = TRUE]
         [] key = Backspace -> [l EXCEPT !.input = IF @ = <<>> THEN @
                                                   ELSE Front(@)]
         [] key = Return    -> [l EXCEPT !.entered = TRUE]
         [] key = Control   -> l
         [] OTHER -> [l EXCEPT !.input =
                        SubSeq(@ \o key, 1, IF Len(@ \o key) < InputCap
                                            THEN Len(@ \o key) ELSE InputCap)]

\* A captured key the shell will not read the way the session does: any key
\* after return or within an escape, a control byte, half a letter erased, a line
\* too long.
Misleads(l, key) ==
  /\ l.atPrompt
  /\ \/ l.entered \/ l.escape \/ key \in {Escape, Control}
     \/ key = Backspace /\ l.input # <<>> /\ Last(l.input) = "w2"
     \/ key \in {Letter, Wide} /\ Len(l.input \o key) > InputCap

SendKey(s, key) ==
  [line  |-> Capture(s.line, key),
   typed |-> Append(s.typed,
               [key |-> key,
                row |-> IF s.line.atPrompt THEN s.line.row ELSE 0]),
   misled |-> IF Misleads(s.line, key) THEN s.misled \cup {s.line.row}
              ELSE s.misled]

\* One key after the other.
Sent(start, keys) ==
  LET sent[n \in 0..Len(keys)] ==
        IF n = 0 THEN start ELSE SendKey(sent[n - 1], keys[n])
  IN sent[Len(keys)]

SendKeys(keys) ==
  LET end == Sent([line |-> line, typed |-> typed, misled |-> misled], keys)
  IN /\ pressed + Len(keys) <= MaxKeys
     /\ line' = end.line /\ typed' = end.typed /\ misled' = end.misled
     /\ pressed' = pressed + Len(keys)

\* The UI thread takes input between two frames and outside the menu.
Idle == batch = <<>> /\ menu = Closed

PressKey ==
  /\ Idle
  /\ \E key \in Keys : SendKeys(<<key>>)
  /\ UNCHANGED <<shell, accepted, events, batch, blockVars, nav, history, menu,
                 shown, missed, dropped>>

-----------------------------------------------------------------------------
(* The frame: TerminalSession::processSemanticEvents().                     *)

\* drainSemanticEvents(): the queue is swapped out under the lock.  A frame is
\* drawn from the menu's own loop too.
Drain ==
  /\ batch = <<>> /\ events # <<>>
  /\ batch' = events /\ events' = <<>>
  /\ UNCHANGED <<shellVars, line, blockVars, nav, history, menu, ghosts>>

Running(list) == list # <<>> /\ Last(list).state = "Running"

\* MultiByteToWideChar(MB_ERR_INVALID_CHARS): half a letter spoils the line.
WellFormed(bytes) ==
  \A i \in 0..Len(bytes) :
    (i > 0 /\ bytes[i] = "w1") <=> (i < Len(bytes) /\ bytes[i + 1] = "w2")

Decoded(bytes) ==
  LET letters[n \in 0..Len(bytes)] ==
        IF n = 0 THEN <<>>
        ELSE IF bytes[n] = "w2" THEN letters[n - 1]
        ELSE Append(letters[n - 1], IF bytes[n] = "a" THEN Letter ELSE Wide)
  IN IF WellFormed(bytes) THEN letters[Len(bytes)] ELSE <<>>

NewBlock ==
  [id |-> nextId, command |-> Decoded(line.input), state |-> "Running",
   start |-> line.row, end |-> 0, bookmarked |-> FALSE]

\* Mutant: a block is made although one is running.
StartBlockAlways ==
  LET list == Append(blocks, NewBlock)
  IN [list |-> IF Len(list) > BlockCap THEN Tail(list) ELSE list,
      buffer |-> buffer, nextId |-> nextId + 1, input |-> <<>>]

\* startBlock(): nothing while the last block runs, and then the captured line
\* stays too.  A full vector moves to a larger buffer; a list over its cap
\* loses its oldest block in place.
StartBlock ==
  IF Running(blocks)
    THEN [list |-> blocks, buffer |-> buffer, nextId |-> nextId,
          input |-> line.input]
    ELSE LET list == Append(blocks, NewBlock)
         IN [list   |-> IF Len(list) > BlockCap THEN Tail(list) ELSE list,
             buffer |-> IF Len(list) <= buffer.capacity THEN buffer
                        ELSE [capacity   |-> IF buffer.capacity < 2 THEN Len(list)
                                ELSE buffer.capacity + buffer.capacity \div 2,
                              generation |-> buffer.generation + 1],
             nextId |-> nextId + 1,
             input  |-> <<>>]

\* The effect of startBlock() on a line that stays at the prompt or not.
Started(b, atPrompt) ==
  /\ blocks' = b.list /\ buffer' = b.buffer /\ nextId' = b.nextId
  /\ line' = [line EXCEPT !.atPrompt = atPrompt, !.input = b.input,
                          !.entered = @ /\ b.nextId = nextId]

Handling(mark) ==
  /\ batch # <<>> /\ Head(batch).mark = mark
  /\ batch' = Tail(batch)
  /\ UNCHANGED <<shellVars, events, menu, missed, misled, dropped, pressed>>

PromptStart ==
  /\ Handling("A")
  /\ line' = [line EXCEPT !.atPrompt = FALSE]
  /\ UNCHANGED <<blockVars, nav, history, shown>>

\* Mutant: the row of the prompt before is kept.
CommandStartKeepsRow ==
  /\ Handling("B")
  /\ line' = [line EXCEPT !.atPrompt = TRUE, !.escape = FALSE,
                          !.entered = FALSE, !.input = <<>>]
  /\ UNCHANGED <<blockVars, nav, history, shown>>

CommandStart ==
  /\ Handling("B")
  /\ line' = [atPrompt |-> TRUE, escape |-> FALSE, entered |-> FALSE,
              input |-> <<>>, row |-> Head(batch).prompt]
  /\ UNCHANGED <<blockVars, nav, history, shown>>

OutputStart ==
  /\ Handling("C")
  /\ Started(StartBlock, FALSE)
  /\ UNCHANGED <<nav, history, shown>>

Finished(block, e) ==
  [block EXCEPT !.state = IF e.ok THEN "Succeeded" ELSE "Failed",
                !.end = e.prompt]

\* Mutant: a command that failed is not ended.
CommandEndIfOk ==
  /\ Handling("D")
  /\ IF Running(blocks) /\ Head(batch).ok
       THEN /\ blocks' = Append(Front(blocks), Finished(Last(blocks), Head(batch)))
            /\ nav' = Len(blocks) /\ shown' = 0
       ELSE UNCHANGED <<blocks, nav, shown>>
  /\ UNCHANGED <<line, nextId, buffer, history>>

\* A shell that omits C gets its block here; the running block ends, and its
\* line, unless it is empty, goes to the history.
CommandEnd ==
  /\ Handling("D")
  /\ LET b == IF line.input # <<>> THEN StartBlock
              ELSE [list |-> blocks, buffer |-> buffer, nextId |-> nextId,
                    input |-> <<>>]
         block == Finished(Last(b.list), Head(batch))
     IN IF Running(b.list)
          THEN /\ Started([b EXCEPT !.list = Append(Front(@), block)],
                          line.atPrompt)
               /\ nav' = Len(b.list) /\ shown' = 0
               /\ history' = IF block.command = <<>> THEN history
                             ELSE Append(history, [id |-> block.id,
                                    command |-> block.command,
                                    state |-> block.state])
          ELSE Started(b, line.atPrompt) /\ UNCHANGED <<nav, history, shown>>

OtherEvent ==
  /\ Handling("link")
  /\ UNCHANGED <<line, blockVars, nav, history, shown>>

Handle == PromptStart \/ CommandStart \/ OutputStart \/ CommandEnd \/ OtherEvent

-----------------------------------------------------------------------------
(* Jumps and the pane menu.  nav counts from 0; nav = Len(blocks) is the     *)
(* bottom of the buffer.                                                     *)

JumpPreviousCommand ==
  /\ blocks # <<>>
  /\ nav' = (IF nav = 0 \/ nav > Len(blocks) THEN Len(blocks) ELSE nav) - 1
  /\ shown' = blocks[nav' + 1].id

JumpNextCommand ==
  /\ blocks # <<>>
  /\ IF nav + 1 >= Len(blocks)
       THEN nav' = Len(blocks) /\ shown' = 0
       ELSE nav' = nav + 1 /\ shown' = blocks[nav' + 1].id

Jump ==
  /\ batch = <<>>
  /\ JumpPreviousCommand \/ JumpNextCommand
  /\ menu' = Closed
  /\ UNCHANGED <<shellVars, events, batch, line, blockVars, history, missed,
                 misled, dropped, pressed>>

\* The pane menu keeps a pointer to the last block while its loop runs.
OpenMenu ==
  /\ Idle /\ blocks # <<>>
  /\ menu' = [id |-> Last(blocks).id, at |-> Len(blocks),
              generation |-> buffer.generation,
              canRun |-> /\ Last(blocks).command # <<>>
                         /\ Last(blocks).state # "Running"]
  /\ UNCHANGED <<shellVars, events, batch, line, blockVars, nav, history, ghosts>>

\* What the kept pointer leads to now: -1 for memory the vector has left.
Pointee == IF menu.generation = buffer.generation THEN blocks[menu.at].id ELSE -1

\* No command, or one that only reads: "Copy command", "Copy output".
CloseMenu ==
  /\ menu # Closed /\ batch = <<>>
  /\ menu' = Closed
  /\ UNCHANGED <<shellVars, events, batch, line, blockVars, nav, history,
                 ghosts>>

\* What a freed block would send is not modelled: nothing is sent.
RunAgain ==
  /\ menu # Closed /\ batch = <<>> /\ menu.canRun
  /\ menu' = Closed
  /\ IF Pointee = -1 \/ blocks[menu.at].command = <<>>
       THEN UNCHANGED <<line, typed, misled, pressed>>
       ELSE SendKeys(Append(blocks[menu.at].command, Return))
  /\ UNCHANGED <<shell, accepted, events, batch, blockVars, nav, history, shown,
                 missed, dropped>>

\* toggleBookmarkLastCommand(): whatever block is the last one by now.
ToggleBookmark ==
  /\ menu # Closed /\ batch = <<>>
  /\ menu' = Closed
  /\ blocks' = [blocks EXCEPT ![Len(blocks)].bookmarked = ~@]
  /\ UNCHANGED <<shellVars, events, batch, line, nextId, buffer, nav, history,
                 ghosts>>

MenuCommand == OpenMenu \/ CloseMenu \/ RunAgain \/ ToggleBookmark

Next ==
  \/ WritePrompt \/ ReadKey \/ AcceptLine \/ ContinueLine \/ GiveUpLine \/ RunCommand
  \/ PressKey \/ Drain \/ Handle \/ Jump \/ MenuCommand

\* Frames go on (RenderLoop), and a frame handles all it has drained.
Spec == Init /\ [][Next]_vars /\ WF_vars(Drain) /\ WF_vars(Handle)

-----------------------------------------------------------------------------
(* Properties.                                                              *)

Marks == {"A", "B", "C", "D", "link"}
Prompts == 0..MaxPrompts
Events == [mark : Marks, prompt : Prompts, ok : BOOLEAN]
Bytes == {"a", "w1", "w2"}
Blocks == [id : Nat \ {0}, command : Seq({Letter, Wide}),
           state : {"Running", "Succeeded", "Failed"}, start : Prompts,
           end : Prompts, bookmarked : BOOLEAN]

\* The variables keep their types, the lists their caps, and the position of the
\* jumps stays within the list (TerminalSession.cpp:342-361).
TypeOK ==
  /\ shell \in [at : {"D", "A", "B", "prompt", "more", "run"}, prompt : Prompts,
                line : Seq(AllKeys), marksStart : BOOLEAN]
  /\ typed \in Seq([key : AllKeys, row : Prompts])
  /\ events \in Seq(Events) /\ Len(events) <= QueueCap
  /\ batch \in Seq(Events) /\ Len(batch) <= QueueCap
  /\ line \in [atPrompt : BOOLEAN, escape : BOOLEAN, entered : BOOLEAN,
               input : Seq(Bytes), row : Prompts]
  /\ Len(line.input) <= InputCap
  /\ blocks \in Seq(Blocks) /\ Len(blocks) <= BlockCap
  /\ nextId \in Nat \ {0} /\ nav \in 0..Len(blocks)
  /\ buffer \in [capacity : Nat, generation : Nat]
  /\ missed \cup misled \subseteq Prompts /\ dropped \subseteq Prompts

\* Blocks are numbered without gaps and only the newest one can be running:
\* processSemanticEvents() ends or skips, never leaves one behind.
OnlyLastRuns ==
  \A i \in DOMAIN blocks :
    /\ blocks[i].id = nextId - 1 - (Len(blocks) - i)
    /\ i < Len(blocks) => blocks[i].state # "Running"

\* A block ends with the D of the prompt it was typed at, so that its status and
\* its output are its own, unless a mark of those prompts was dropped.
BlocksPair ==
  \A i \in DOMAIN blocks :
    LET b == blocks[i] IN
    b.state # "Running" /\ b.end # b.start =>
      \E n \in dropped : n \in b.start..b.end

\* The history holds every finished command once, in the order of the blocks,
\* with the line and the status the block keeps (CommandHistory.cpp:45).
HistoryAgrees ==
  /\ \A i, j \in DOMAIN history : i < j => history[i].id < history[j].id
  /\ \A i \in DOMAIN blocks :
       LET b == blocks[i] IN
       (b.command # <<>> /\ b.state # "Running") <=>
       \E h \in Range(history) : h = [id |-> b.id, command |-> b.command,
                                      state |-> b.state]

\* The captured line is the one the shell accepted, in every case but the named
\* ones: a key typed after return or before the session saw the prompt, an
\* escape, a control byte (completion, history, Ctrl+U), which only the shell acts
\* on, half a letter erased, a line over the cap, a line of several rows or given
\* up (Ctrl+C), a dropped mark (TerminalSession.cpp:175-196).
LineFollowed ==
  \A i \in DOMAIN blocks :
    LET b == blocks[i] IN
    b.start \notin missed \cup misled /\ dropped = {} => b.command = accepted[b.start]

\* When the session captured every key of a line of one row, the block's command is
\* the line the shell accepted: what is typed after return stays out of it.
RecordedIsAccepted ==
  \A i \in DOMAIN blocks :
    LET b == blocks[i] IN
    b.start \notin missed /\ dropped = {} => b.command = accepted[b.start]

\* While the menu is open its pointer, and the last block, are the block it
\* shows, unless a command has started since (WindowMouse.cpp:863-1015).
MenuShowsLast ==
  menu # Closed =>
    \/ Pointee = menu.id /\ Last(blocks).id = menu.id
    \/ nextId > menu.id + 1

\* What is kept of a command in three places, the list of blocks, the history and
\* the open menu, is of the same command, and of one command only.
BlocksAgree == TypeOK /\ BlocksPair /\ HistoryAgrees /\ MenuShowsLast

\* Once the shell is back at its prompt, and not asking for more of a line, no block
\* stays "running", unless a mark was dropped: the menu offers to run it again.
StatusSettles ==
  []<>(shell.at = "prompt" /\ dropped = {} => ~Running(blocks))
=============================================================================
