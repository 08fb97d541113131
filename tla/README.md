# Verification of Liney for Windows

Liney is a native Windows terminal: one process per window, one UI thread, two
threads per shell, a few detached workers, and a few files in
`%USERPROFILE%\.liney` and in the diagnostics folder that all its processes share.
This directory holds TLA+ models of the parts of it where order, ownership or failure
matter, the TLC configurations that check them, and proofs for the TLA+ proof
system. Paths below are relative to the repository's `src/` unless they begin with
`CHANGELOG.md`.

## 1. Inventory

| Component | State it keeps | Operations | What makes it correct |
|---|---|---|---|
| Pane tree (`app/Tab.cpp`, `Pane.h`) | a binary tree of heap-allocated panes with raw parent pointers, `active_`, `zoom_`, `compact_` | split, close, detach, swap, move, close others, zoom, focus, layout | a tree with matching links; no dangling pointer; each shell owned once |
| Window (`app/Window*.cpp`, `TabStripLayout.cpp`) | `tabs_`, `activeTab_`, the drawn tab rectangles, and raw pointers kept from one message to the next: `selPane_`, `dragDivider_`, `tabDragIndex_` | every mouse, keyboard, menu, palette and accessibility message | indexes stay in range, pointers stay live, the user stays in the tab they were in, the keyboard goes to what is on screen |
| Keyboard (`app/WindowInput.cpp`, `WindowPalette.cpp`) | which overlay is open, `swallowNextChar_`, half a surrogate pair | key press, character, boxes opened by a handler | a key and its characters act once |
| Find (`app/WindowFind.cpp`) | the query, the matches of the last frame, the active one, a row to jump to | open, edit, stamp, step, close | stepping visits every matching row in order |
| Pseudo-terminal (`pty/ConPty.cpp`) | two pipes, a pseudoconsole, a process, reader and writer threads, a write queue under a mutex | start, write, stop | bytes arrive once and in order both ways; nobody waits for ever; teardown ends and leaves nothing in use |
| Render loop (`core/RenderSignal.h`, `Window::runMessageLoop`) | an atomic dirty flag, a wake message, the message queue | mark dirty, dispatch, draw, sleep | output is drawn without the idle tick; wakes stay bounded |
| Renderer (`render/D2DRenderer.cpp`) | a D3D device and what is bound to it, a glyph atlas, a batch of quads | rebuild, resize, begin and end a frame, draw | no resource outlives its device; a batched quad finds its glyph; a lost frame is drawn again |
| Session (`core/TerminalSession.cpp`) | command blocks, the captured prompt line, a jump position, directory probes, inline images | feed, drain events, send keys, jump, bookmark, run again | a block is one command: its line, its rows, its status |
| Terminal core wrapper (`vt/Terminal.cpp`, `OscParser.cpp`) | the VT screen (libghostty-vt) under a mutex, an observer of the byte stream, a queue of 256 semantic events | write, snapshot, drain | an event is placed where it was printed, however reads are cut; oldest dropped |
| Layout and recovery (`app/WindowSession.cpp`, `util/Diagnostics.cpp`, `core/Config.cpp`) | `layout.json` and its backup, snapshots, a run marker and a recovery file per process | save, restore, ask, refresh every two seconds, clean up | a crashed session is offered, and not lost before it is resolved; one good layout survives; what can start comes back as it was |
| Configuration (`core/Config.cpp`) | `config.json`, read once, rewritten whole | load, seed, set aside, update keys | no other key is lost; no torn file; a bad file is set aside |
| Questions and background requests (`WindowSession.cpp`, `WindowAi.cpp`, `WindowMouse.cpp`, `util/InputBox.cpp`) | open boxes, result slots under mutexes, filled by threads, polled by frames | update check and download, AI answer, clipboard, confirming closes, quit | an answer acts on what was asked about; a quit is heard by every loop |
| Workspace (`workspace/*.cpp`, `WindowSession.cpp`, `WindowMouse.cpp`) | projects, exclusions, worktrees, statuses, sidebar rows, a refresh on a worker | rescan, add, remove, pin, worktrees, refresh, menus | a removed project stays away; a menu acts on the row it was opened on; the statuses catch up |
| Accessibility (`util/AccessibilityProvider.cpp`) | a reference-counted root, elements, text | publish, invoke, navigate, text ranges | clients may keep objects past the window's end; a range reads its own text |
| Settings and other forms, geometry, profiles and themes, entry points | | | see section 7 |

How they interact. A shell's bytes come through the reader thread of its `ConPty`
into `TerminalSession`'s output handler, which feeds `Terminal` (under its mutex) and
calls `markRenderDirty()`. `Terminal` answers queries of the program by
`ConPty::write()` on that same reader thread. The UI thread wakes, draws a frame,
drains each session's semantic events in it, and polls the background results.
Message boxes and menus run their own message loops, in which frames go on being
drawn. `Window` owns the tabs, a tab owns its panes, a leaf owns its session, a
session owns its `ConPty`. Processes meet only in files. Assistive technology calls
in on threads of its own and posts commands back.

What is hard: two threads and the kernel around a teardown; a wake-up that may be
lost; raw pointers and indexes kept across messages and across modal loops; a tree
rewritten by hand; a shell that runs ahead of what the window knows of it; bounded
queues that drop their oldest; a device that goes away between any two calls; crashes
between any two file operations; process ids used again. `PROJECT.json` lists each of
these under `hazards`, at its line.

## 2. Modules

| Module | Models | Correspondence |
|---|---|---|
| `PaneHeap` | the allocated panes | a function from the addresses in use to pane records; `SplitHeap`, `CollapseHeap`, `SwapSessions`, `ReplaceTree` are the pointer surgery of `Tab.cpp`; the parts of well-formedness (`LinksOf`, `OwnedByParent`, `WellFounded`, `SessionsDistinct`) |
| `PaneTree` | one tab | one action per method of `Tab` that changes it; `alive` and `detached` say which shells run and which ones the caller of `detachActive()` holds |
| `PaneRing` | the abstract tab | a row of shells, one focused; `MCPanes!ImplementsRing` is the refinement |
| `WindowTabs` | the window over its tabs | one action per handler that touches `tabs_`, `activeTab_` or the pointers kept between messages; all tabs share one heap so that an address can be freed and used again; a use of freed memory or an index past the end ends the run in `fault` |
| `SavedLayout` | what a layout says of tabs and panes | saving, restoring with any shells failing to start, snapshots, pins, drags; a closed or moved pane inside a tab is in `PaneTree`, here only what a file can tell apart |
| `FindWalk` | the find bar | stamps of a frame, steps between frames, jumps, output and edits in between; a query is how often it matches in each row |
| `Input` | the keyboard | `onKeyDown()` with every receiver in the order they are tried, and `onChar()` for what `TranslateMessage` posts behind it |
| `OscStream` | the observer of the byte stream | `OscWrite` is `Terminal::write()` with the observer's state machine run over one read; the reference definition `Events` reads the whole output at once |
| `ConPty` | one pseudo-terminal | `stop()` is cut where another thread can step in between; the threads' loops likewise; a blocking call is a state of its own, and `CancelIoEx` reaches only a thread that is in it; console and shell are external |
| `RenderLoop` | flag, wake, loop | one action per step of `markRenderDirty()` and of `runMessageLoop()`, one snapshot per pane and frame |
| `Renderer` | devices, atlas, batch | each call into Direct3D or Direct2D may fail; `made` says of each resource which device it is bound to; text formats, brush, target and atlas are made at the points the code makes them, and a brush that fails leaves the target bound without it |
| `CommandBlocks` | one session's commands | the shell numbers its prompts, and an event carries that number in place of a row; the event queue, the captured line byte by byte next to the shell's own, in which completion, history and Ctrl+U do what the session does not see and Return may only ask for another row; the block vector with its capacity, so that a pointer to a block can go stale |
| `Requests` | boxes and workers | `boxes` is the stack of modal loops; frames poll inside them; a box has noted which sessions were closed, whether another tab came up and whether its shell changed directory while it was open; `acted` records what a Yes was carried out on, and that box |
| `Workspace` | projects and sidebar | disk and saved lists on one side, `repos`, `rowsDrawn` and an open menu on the other; the rows that are neither (SSH hosts, files, agents) only come as further rows while a menu is open, which may have the row freed that its handler refers to; `unlisted` has the projects removed while the root could not be listed; the refresh is a worker with its list of paths and its results |
| `Recovery` | markers, recovery files, `layout.json` | one action per step of a start that another process can see; a layout is the number of the session it was made in; process ids are reused, and a process takes the marker and the file of its id for its own |
| `ConfigStore` | `config.json` | one action per file operation: read, back-up, open, write, rename; the seed of a first start, the repair and a change all go through the one temporary file; a process may end between any two, any call may fail, and the user edits the file; a value is the number of the change that made it |
| `Accessibility` | provider objects | `refs_` of the root, of children and of ranges, held by clients; the boundaries of characters, words, lines as the code computes them, and the movements built on them |
| `PaneHeapProofs`, `PaneTreeProofs`, `WindowTabsProofs`, `CommandBlocksProofs` | | theorems about the module they are named for |
| `ConPtyProofs`, `LoopProofs`, `SharedProofs`, `ServiceProofs` | | theorems about `ConPty` and `OscStream`; about `RenderLoop`, `Requests` and `Input`; about `Recovery`, `ConfigStore` and `Accessibility`; about `Workspace` and `Renderer` |
| `MCPanes`, `MCServices`, `MCLoops`, `MCShared` | several components side by side | see below |
| `MCWindowTabs`, `MCCommandBlocks`, `MCConPty`, `MCRecovery` | | constants, views and symmetry |

Four MC modules check several components in one run: `MCPanes` (`PaneTree`,
`FindWalk`, `Input`, `OscStream`, `SavedLayout`), `MCServices` (`ConPty`, `Workspace`,
`Renderer`), `MCLoops` (`RenderLoop`, `Requests`), `MCShared` (`Recovery`, `ConfigStore`,
`Accessibility`). A constant variable `part` says which one a behaviour is of, and the
others stay as they were at the start: the states add up and do not multiply, and no
claim about their interaction is made there. Where components do interact, one module
has both sides: `WindowTabs` the window and its panes on one heap, `CommandBlocks` the
shell, the queue, the session and the menu, `Requests` the boxes, the frames and the
workers, `Workspace` the disk, the worker, the frame and the menu, `ConPty` the
session's answers on the reader thread, `RenderLoop` the readers and the loop.

Simplifications that run through them. Rectangles, ratios and colours are left out,
and what depends on them (which pane is hit, which divider) is a choice over all
outcomes. File operations are atomic in `Recovery`, which is what
`writeFileAtomic()` is for; how far it is, its failures, crashes and the one name of
its temporary file included, is the subject of `ConfigStore`. In `Recovery` restoring a
recovery file and deleting it are one step, so two windows that answer the same
question at the same moment are not told apart there. The copies
`recovery-*.json.bak`, which nothing reads or deletes, and the headless test mode,
which asks nothing, are left out. In `Requests` a tab is one session.

Operators whose comment begins with "Mutant" are deliberate mistakes: each stands
before the definition it would replace, and `PROJECT.json` says which property finds
it out. The specifications do not use them.

## 3. Runs

| Run | Bounds | What it shows |
|---|---|---|
| `pane_tree` | 8 panes in the heap, 4 shells | every sequence of operations on trees of up to 4 leaves keeps `PanesSound`; `KillsOnlyItsTarget`; the tab implements `PaneRing` (`ImplementsRing`). Four leaves give every position of a pane to its sibling and grandparent that `closeActive()` distinguishes. |
| | 4 rows, a viewport of 2, 1 match in a row | `StepsToNextRow`: one step between two frames goes to the next matching row, and stays where it is if there is none (the search does not wrap). Four rows leave two outside the viewport to jump to. |
| | every kind of key | `KeysActOnce`: where a character may go twice or be lost. |
| | 8 characters of output, payload of 2, image of 3, 1 event queued | `EventsWherePrinted`: the same events at the same places as a parser of the whole output, however it is cut; the caps are passed within the bound. |
| | 3 shells, 1 file, 3 tabs, 5 changes | `LayoutReturns`, `OnlyDragUngroups`. Five changes are enough to split, pin, save, and open with a shell missing. |
| `window_tabs` | 4 panes, 3 shells, 3 tabs | `Forest` across all tabs; the pointers and indexes the window keeps go wrong in the named ways only: `OnlyDetachStrands`, `OnlyPaneMovesLoseSelection`, `OnlyStalePressEscapes`; `StaysInTab`. Three tabs are the least with a tab on each side of the active one. |
| `conpty` | 2 chunks out, 3 bytes in, a pipe of 1 byte | `BytesIntact`, `ThreadsBeforeHandles`, `BytesMove` (no lost wake-up, what is queued moves on unless shell or console stop), `StopEndsUnlessMissed`. A pipe of one byte makes the writer block at every byte, and three bytes fill queue, writer and pipe. |
| | 1 repository, 2 worktrees, 1 edit, 1 failure, 1 further row of another kind | `RemovedStays`, `MenuRefersToShown`, `StatusCatchesUp`. Two worktrees let a menu hold one that a rescan removes; one further row is enough to move the vector of rows, and the panel is taken to be tall enough for all of them. |
| | 2 glyphs, an atlas of 1 slot, 3 faults | `SameDevice`, `BatchSamplesItsGlyphs`, `FramesReachScreen`. One slot makes every second glyph reset the atlas; three faults fail a rebuild of a rebuild. |
| `render_loop` | 2 panes, 2 writes each, 1 input message | `StaleIsCovered`, `WakesSound`, `OutputShown` without the idle tick. |
| | 2 sessions, 2 directories, 2 boxes, 2 requests, 1 command from outside | `ActsOnAsked`, `QuitIsHeard`. Two boxes are one opened by a frame in the other, and one command closes or shows a tab under both. |
| `command_blocks` | 3 prompts, one of them recorded before, 3 keys if the shell does not prompt again and 2 if it does, queue of 3, list of 2, line of 2 bytes | `OnlyLastRuns`, `BlocksAgree`, `LineFollowed`, `StatusSettles`, through dropped, missing and late marks, backspaces in half a letter, a full line, lines edited by the shell, of several rows or given up; the menu's pointer. The queue and the list are full within two commands; a letter, a key that edits it and Return make a line, and two keys two. A line has two rows at most. |
| `recovery` | 3 process ids, 3 starts, 2 damaged files | `LiveNotOffered`, `ForgottenOnlyBy`, `DeletedOnlyResolved`, `GoodLayoutSurvives`. Three starts are two crashed sessions and one that finds both, or one id used twice while a third process asks about it. |
| | 2 windows, 2 keys, 2 changes, 1 failure | `NeverTorn`, `BrokenKept`, `KeysKept`. Two windows and two keys are the least with a change to lose; two changes are two savers, and one failure is a write that stops half-way with a later one to find its file. |
| | 2 slots, 1 reference each, 2 screens | `ClientsServed`. |
| `freed_pane` | as `window_tabs` | *violation*: moving a pane to a new tab leaves `selPane_` on freed memory. |
| `focus_shown` | as `window_tabs` | *violation*: choosing a project in the sidebar focuses a pane hidden by the zoom. |
| `stop_ends` | as `conpty` | *violation*: `stop()` can wait for ever. |
| `recorded_line` | 2 prompts, 3 keys, room for everything | *violation*: what is typed after Return becomes part of the recorded command. |
| `recovery_kept` | 3 ids, 3 starts, 1 damaged file | *violation*: a recovery file kept for another attempt is never looked for again. |
| `one_receiver` | every kind of key | *violation*: a character is dropped though nobody acted on its key. |

All runs switch the check for deadlock off, because the program may really stop or a
bound on what the environment does ends the run: a window closes, a pseudo-terminal is
torn down; starts, keys, changes and faults run out.
That a waiting thread is not left waiting is said by the liveness properties
instead.

The runs of `MCPanes` and `MCWindowTabs` use a VIEW that forgets which address a pane
has; it keeps the shape, the links and everything a variable says about a pane, and no
action looks at an address but to compare it. `recovery` uses symmetry over process
ids; it has safety properties only.

## 4. What the violations say

1. `WindowPalette.cpp:438-446` frees panes without `clearSelection()`, which
   `Window.h:191` asks for. The next drag or clear follows the pointer.
2. `Window.cpp:1225` moves the focus within a zoomed tab, against `Tab.cpp:288` and
   `CHANGELOG.md:465`.
3. `ConPty.cpp:200` cancels I/O once. A reader between its test (line 82) and
   its call is missed, and if the console keeps its pipe the join at line 209 has
   no end, against the comment at 176-183. `StopEndsUnlessMissed` shows that this
   is the only way.
4. `TerminalSession.cpp:189-193` goes on capturing after Return. With PowerShell the
   window is the time to the next frame; with cmd.exe, which writes no C, it is
   the whole command. `LineFollowed` shows when the line can be trusted.
5. `Diagnostics.cpp:100` deletes the marker before the user is asked, so a failed
   restore has no second attempt, against `CHANGELOG.md:282-283`. `ForgottenOnlyBy`
   lists the ways in which a file that stays is forgotten: a failed restore, a process
   that dies or fails to make its window before the answer, and a newer file. A file
   can also go unasked, see below.
6. `WindowInput.cpp` sets `swallowNextChar_` for shortcuts that post no character
   (with Alt, or a function key bound by the user), and the next letter typed is lost;
   the Escape that closes the palette reaches the find bar or the shell. `KeysActOnce` shows that these and the boxes opened by
   a handler are the only cases.

What else the models had to allow, and the properties name as exceptions or leave
open. The first three are against what the repository says of itself; the code does
them, and no run is spent on them:

- A process that gets a dead run's id takes that run's marker for its own
  (`Diagnostics.cpp:84`), never asks, and deletes its recovery file when it ends in order
  or replaces it at its first snapshot (259-262), against `CHANGELOG.md:282-283`
  (`DeletedOnlyResolved`).
- Removing a project while `workspaceRoot` cannot be listed writes no exclusion
  (`WindowSession.cpp:714-729`), and it is back with the root, against `CHANGELOG.md:182`
  (`RemovedStays`).
- A tab that is closed or shown under a box, which assistive technology can do, makes a
  Yes to "Close it anyway?" close the tab that is shown by then, whose job nobody was
  asked about (`Window.cpp:1352-1367`, against `CHANGELOG.md:509-511`), a suggested
  command go to the pane active by then, and a paste or the walk of the clipboard
  requests use a session that was freed (`ActsOnAsked`).
- A frame drawn while a sidebar menu is open rebuilds the rows. If more rows of other
  kinds have come, files of another folder for instance, the vector may move under the
  reference its handler keeps (`WindowMouse.cpp:307`, 515; `MenuRefersToShown`). The menu
  of an SSH host uses its row in the same way and is not modelled.
- A brush that cannot be made (`D2DRenderer.cpp:292-296`) leaves a target without one:
  every frame is skipped, `deviceLost_` is not set, and only a new size tries again
  (`FramesReachScreen`).
- `Move()` of a text range by one word or line makes it the one its start lies in
  (`AccessibilityProvider.cpp:509`, 594-595), so a client that reads on by it gets no
  further; moving the endpoints does (`ClientsServed`).
- What the session captures is not the shell's line after completion, history or
  Ctrl+U, W and the like, which it ignores (`TerminalSession.cpp:179-194`). PowerShell's
  Enter writes C for a line that is not complete (`ShellProfiles.cpp:81-84`), and the block
  has its first row only. A line given up with Ctrl+C is recorded with what was on it
  (`LineFollowed`).
- `inputBoxWithSuggestions()` (`InputBox.cpp:150-225`) does not post WM_QUIT again, as
  `inputBox()` (139-142) does: an update that quits while it is open is lost
  (`QuitIsHeard`).
- A second AI request overwrites `aiRequestedCwd_` while the first answer waits
  (`ActsOnAsked`). Overlapping downloads overwrite `installerPath_`.
- Two steps before a frame can jump over matching rows (`StepsToNextRow` speaks of one
  step between frames).
- The batch of glyphs is drawn after `EndDraw` and so over the overlays. A rebuild that
  fails half-way can leave `bindTarget()` with no context (`crashed` in `Renderer`).
- Two windows in `config.json` at once can tear it through the common temporary file
  and lose each other's change; two starts on a broken file can lose
  `config.json.invalid`; a failed read looks like an empty file; a failed move of a
  broken file (`Config.cpp:197-199`) is not noticed, and the file is overwritten.
- The in-memory project list of one window overwrites the additions of another. A
  failed save shows the toast all the same. A click that waited behind a handler
  which runs Git uses the rows from before (`late` in `MenuRefersToShown`).
- The observer does not end a string at ESC ESC `\` or ESC BEL.
- An accessible invocation names a tab by its index and may reach another one. An
  identical toast is not announced a second time.
- The saved active tab index is not adjusted for tabs that did not start
  (`WindowSession.cpp:616`); closing the last tab saves nothing, so an older
  layout returns (`WindowSession.cpp:300-304`); a failed snapshot still replaces the
  projects (`WindowSession.cpp:557`); a pinned tab dragged across the border ungroups the
  pins (`WindowMouse.cpp:555`, against `CHANGELOG.md:229-230`; `OnlyDragUngroups`).

## 5. Fairness

None for `PaneTree`, `WindowTabs`, `FindWalk`, `Input`, `OscStream`, `SavedLayout`,
`Recovery`, `ConfigStore` and `Accessibility`: users, shells, clients and failures drive
them, and their properties are about states and steps.

`ConPty` assumes weak fairness of the three threads' own steps, that is, that the
system schedules a thread that can run; not of the console, the shell, or the caller of
`write()` and `stop()`. `RenderLoop` assumes it of a reader thread that has begun
`markRenderDirty()` and of the loop, not of the idle timeout, so that `OutputShown` does
not lean on it; and it supposes that input stops, as the loop empties its queue before
each frame. `CommandBlocks` assumes it of drain and handling, which `RenderLoop`
justifies: frames go on, and a frame handles all it has drained. `Requests` assumes it
of the step in which a loop takes WM_QUIT, which `GetMessage` returns once the queue is
empty; not of the user's answers nor of any worker. `Workspace` assumes it of frames
with the refresh due (every few seconds) and of the worker, whose `git status` is killed
after five seconds; not of success: that failures stop is the bound `MaxTrouble`.
`Renderer` assumes it of frames, which the loop's idle tick brings (`kIdleRenderMs`); not
of success either (`MaxFaults`).

## 6. Proofs

The theorems hold for every value of the constants that the assumptions allow; the runs
show the same properties on the instances of section 3. `PROJECT.json` lists them under
`theorems`.

**`PaneHeapProofs`** has the lemmas about the four heap operations: each keeps a tree a
tree and says which shells it hosts. Well-foundedness is stated without recursion
(every non-empty set of panes has one with no child in it), as is "no leak"
(a set that contains the root and is closed under children is everything), so that
the provers need no induction.

**`PaneTreeProofs`**, for any set of addresses and sessions: `IInv` joins `TypeOK`, the
tree, `PointersLive` and `SessionOwnership`; `PointersLive` is not inductive without
the tree, since the pane that takes the focus after a close is found by following
links. One lemma per action; `PanesStaySound` (`PanesSound`) and its parts follow, and
`NoOtherShellEnds` is the action property.

**`WindowTabsProofs`**, for any addresses, sessions and bound on the tabs. The invariant
`Inv` says that each tab has a region of the heap to itself in which its panes are a tree
(`IsTab`), that the regions are disjoint and that together they are the heap (`Grove`). The
lemmas `Grove...` say what becomes of such regions when one tab splits, collapses, is
replaced, opens, is closed or moves, in terms of `PaneHeapProofs` applied to the region
alone. `Tree`, which the model reads off by a recursive walk, is shown to be the region:
in a well-founded heap the equations of the walk have one solution (`OneTable`,
`WalkIsSubtree`). With one lemma per action, `TabsShareNothing` is `Forest`. On top of
it come the four action properties of the run. `OnlyDetachFrees` and `HighlightStaysHome`
divide all steps into three kinds by what they do to the window's pointers
(`HoldsSelection`, `TakesSelection`, `DropsGestures`); that a restarted shell takes its
highlight along rests on no shell being shown twice. `StalePressOnly` and
`UserStaysInTab` divide them by what they do to places in the tab strip (`PlaceKinds`);
the latter needs that two tabs have different roots.

**`ConPtyProofs`** has two components. *ConPty*, for any number of chunks and bytes and
any room in the pipe:
`ThreadsEndFirst` needs that `stop()` has joined a thread when it goes on (`Joined`).
`BytesStayIntact` has three invariants: towards the window, what was delivered and what
the reader holds, with what is in the pipe, is what was printed, and a chunk waits only
between the read and its delivery (`OutInv`); towards the shell, what is gone, what the
writer has in hand and what is queued are what was accepted, until a teardown drops the
rest (`InInv`); and the flags keep their types (`FlagsInv`). Lemmas about taking from
the front of one sequence and appending to the end of another carry the steps.
*OscStream*, for any writes over its characters and any limits: `EventsAreWherePrinted`
(`EventsWherePrinted`). The observer goes forward by a character, the reference reads from
a place to the end, so the invariant speaks of everything that may yet follow: there is a
place `i` where the observer stands (`At`: outside, behind an ESC, or in an OSC whose
payload so far is the one it holds, or has overflowed), and in every continuation of the
output the events are those of a fixed sequence followed by those found from `i` on
(`Follows`). `TracksStep` keeps this over one character, in each state of the parser;
`WriteReads` over a write, with the observer's own events the newest of those that came
(`Gathered`); and `NewestJoin` says that a bounded queue emptied into another keeps the
newest of both. At the end of the output nothing is found behind the observer
(`NothingBehind`), and what waits is what the reference finds.

**`LoopProofs`** has three components. *Render loop*, for any finite set of panes and any
bounds: `StaleCovered`, and `WakesStaySound` from `WakeNeverLost` and `WakesStayBounded`.
`NoLostWake` must hold while a frame is drawn to hold in the sleep that follows
(`WakeUnderway`), and the bound on wakes needs the count of threads about to post, with
one more allowed while the flag is on (`WakesCounted`). *Requests*, for any finite set of
sessions and any directories: `YesMeansWhatWasAsked` (`ActsOnAsked`). A box may be opened
by a frame inside another, and tabs close and come up under all of them, so the invariant
says of every box of the stack that what it asks about is still so or that the change is
noted in it (`Stands`); closing the shown tab takes no other from the list (`OthersStay`). *Input*, for any bindings:
`KeysActOnceHolds` (`KeysActOnce`), from what each receiver of `onKeyDown()` leaves for the
character that follows.

**`CommandBlocksProofs`**, for any caps, keys, shells and number of prompts.
`LastAloneRuns` (`OnlyLastRuns`) adds to the property that the list is a sequence of
blocks. `OneCommandKept` (`BlocksAgree`) describes the stream of marks on its way through
the queue: each has a place in the order the shell wrote them, and a block is paired with
the D of its own prompt unless a mark was dropped (`PairInv`); the history and the open
menu follow (`HistInv`, `MenuInv`). `LineIsTheShells` (`LineFollowed`) has the invariant
`FollowInv`: as long as nothing was dropped, the captured line and the shell's own go
through the same states, byte by byte while the user types (`Typing`), and come apart only
in the named ways, of which a control byte, a line of several rows and one given up are
three; what Return does to the line is the same for the ways in which it is taken
(`LineTakenFollows`). It was checked by TLC on the run's instance first.

**`SharedProofs`** has three components. *Recovery*, for any process ids and any number of
starts: a running process has a layout and a live one a number; from it
`LiveNeverOffered`, the action properties `OnlyResolvedAreDeleted` (with the processes of a
reused id among those that take a file away) and `OneGoodLayout`, and
`ForgottenOnly` (`ForgottenOnlyBy`), which needs the order in which files were
written. *Configuration*, for any finite sets of windows and keys: `NeverTornHolds` (as long
as no process has opened the temporary file between another's open and rename of it, the
file about to be renamed is the whole text its writer means; that it is opened anew, and
emptied, is what makes a half-written one of an earlier process harmless), `OtherKeysSurvive`
(`KeysKept`: what a window is about to write is the file it read but for its own keys) and
`BrokenNeverLost` (`BrokenKept`). *Accessibility*, for any texts and finitely many
slots: `ClientsAreServed` (`ClientsServed`); references are counted; where the endpoints
stop on their way through the words or lines of a text, and which one `Move()` ends in, is
shown by looking for the least counterexample.

**`ServiceProofs`** has two components. *Workspace*, for any finite sets of directories:
`RemovedStayAway` (`RemovedStays`: neither the list in memory nor the saved one has a project
removed while its root was listed, and both exclude it if the root shows it; that the sorted list has only members
of the set it was made of, `NthIsOne`, is a counting argument) and `MenuKeepsItsRow`
(`MenuRefersToShown`: the row and the project of an open menu are those it was
opened on, whatever results a frame applies, and the vector of rows moves only when it
has grown). *Renderer*, for any glyphs, any size of the atlas
and any number of faults: `BoundToOneDevice` (each rebuilding step keeps a map of
resources that are bound to one device or to none), `BatchStaysTrue` (slots are filled in
order and hold what the cache says; an atlas is reset only when no batch waits on it) and
`RendererTypes`.

Assumptions, each named in the module that declares the constant: `Null`, `NoPid` and
`NoGlyph` are no addresses, process ids or glyphs (`NullAssumption`, `NoPidAssumption`,
`GlyphsAssumption`); panes on screen, windows, keys of the file, sessions, slots of the
accessibility clients and directories are finitely many (`PanesAssumption`,
`WindowAssumption`, `SessionAssumption`, `SlotAssumption`, `PathsAssumption`), and
directories are numbers, whose order stands for that of their names; there is a
directory (`DirAssumption`); writes are made of the characters told apart
(`WritesAssumption`); screens and needles are texts (`ScreensAssumption`); keys are
those of the keyboard (`KeysAssumption`); bounds are natural numbers
(`BoundsAssumption`, `CapsAssumption`, `PtyAssumption`, `AtlasAssumption`,
`TroubleAssumption`, `MaxTabsAssumption`, `QueueAssumption`, `MoreAssumption`), with a
queue and a list that hold at least one entry, at least one tab, and fewer commands of an
earlier session than prompts. The bounds themselves may be any numbers.

What stood in the way. The library's induction theorems cannot be instantiated, so
induction is done by hand: on numbers as the least counterexample (`WFMin` with
`NatLessThanWellFounded`), on trees by the well-foundedness of the heap. A recursive
function is a `CHOOSE`, and before anything can be said of it one must show that a function
with its equations exists. `SelectSeq` and `SortSeq` have no definition the
provers can expand: sorted lists of `Workspace` and `TogglePin` of `WindowTabs` are therefore
defined by the order itself.

Only model-checked: all liveness (`BytesMove`, `StopEndsUnlessMissed`, `StatusCatchesUp`,
`FramesReachScreen`, `OutputShown`, `QuitIsHeard`, `StatusSettles`), which with `ENABLED` is
out of the prover's reach; the refinement of `PaneRing` (`ImplementsRing`), whose mapping
reads the tree into a sequence recursively; `StepsToNextRow` of `FindWalk`, which is not
proved yet; `LayoutReturns` and `OnlyDragUngroups`, as `SavedLayout` is written with `RECURSIVE` operators on trees.

## 7. Not modelled

- The screen is libghostty-vt, outside the repository.
- Geometry of tab strip, panes and window, the window's rectangle in a layout, and
  drawing: floating-point layout and pixels with no protocol in them; what a step of
  another actor could disturb (the device, the atlas, the rows a click refers to) is in
  `Renderer`, `WindowTabs` and `Workspace`.
- The settings form's controls and the validation of single fields; its modal loop and
  the writes it ends in are in `Input`, `Requests` and `ConfigStore`.
- The bytes `KeyEncoder` makes of a key, the scoring of palette entries, the syntax of key
  bindings, JSON, Base64, the parsers of Git, SSH and profile files, themes, the
  characters a snapshot's name loses: pure functions of text, whose models would
  repeat the code character by character.
- Inline images, agent status and exports of a session; the pool of four directory
  probes, whose slots come back only when the network answers (a statement about a
  guard alone).
- The log, crash dumps, self-tests, arguments and the command-line tool.

## 8. Plan

1. Proofs: `StepsToNextRow` of `FindWalk`, with the invariant that the stamped matches
   are those of the viewport in order; the refinement of `PaneRing`, from a lemma about
   `LeafSeq` for each of the four heap operations.
2. `Workspace` with two processes over `ConfigStore`, for the project list that one
   window takes from the other.
3. Inline images of a session and the images of the renderer as one bounded pool.
4. Tab strip and responsive layout over integers against a reference definition.
