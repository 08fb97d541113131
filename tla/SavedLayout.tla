---------------------------- MODULE SavedLayout ----------------------------
(***************************************************************************)
(* What a window writes down of its tabs and panes, and what it makes of   *)
(* that: paneToJson(), writeLayoutTo(), paneFromJson(), restoreLayoutFrom()*)
(* and the named snapshots of app/WindowSession.cpp, with the handlers of  *)
(* app/Window.cpp that change what there is to write.  When it is read     *)
(* back, any shell may fail to start: its directory is gone, or is on a    *)
(* network that does not answer.  See Recovery for the files themselves.   *)
(*                                                                         *)
(* A shell stands for its command, directory and context.                  *)
(***************************************************************************)
EXTENDS Naturals, SequencesExt

CONSTANTS Shell, File,
          MaxTabs,   \* bound on the tabs
          MaxChanges \* bound on the changes and the openings of a window

ASSUME LayoutAssumption == MaxTabs \in Nat /\ MaxChanges \in Nat

VARIABLES
  on,      \* there is a window
  tabs,    \* tabs_: [tree |-> panes, pinned |-> pinned_]
  shown,   \* activeTab_, from 1
  files,   \* what each file says: tabs and the one shown; no tabs: no file
  started, \* the shells that started when a layout was last read
  changes

layoutVars == <<on, tabs, shown, files, started, changes>>

One(s) == [shell |-> s]
IsLeaf(t) == "shell" \in DOMAIN t
Pair(dir, a, b) == [dir |-> dir, a |-> a, b |-> b]

\* Tab::leaves(), from the first to the last.
RECURSIVE Shells(_)
Shells(t) == IF IsLeaf(t) THEN <<t.shell>> ELSE Shells(t.a) \o Shells(t.b)

RECURSIVE Subtrees(_)
Subtrees(t) == {t} \cup IF IsLeaf(t) THEN {} ELSE Subtrees(t.a) \cup Subtrees(t.b)

InTab(i) == ToSet(Shells(tabs[i].tree))
ShellsOf(ts) == FlattenSeq([i \in DOMAIN ts |-> Shells(ts[i].tree)])

\* Mutant: a split whose second child failed to start is dropped with its first.
RECURSIVE RestoredBothOrNone(_, _)
RestoredBothOrNone(t, ok) ==
  IF IsLeaf(t) THEN IF t.shell \in ok THEN <<t>> ELSE <<>>
  ELSE LET a == RestoredBothOrNone(t.a, ok)
           b == RestoredBothOrNone(t.b, ok)
       IN IF a # <<>> /\ b # <<>> THEN <<Pair(t.dir, a[1], b[1])>> ELSE b

\* paneFromJson(): the tree of the shells that start, none for an empty one.  A
\* split of which one child is left becomes that child.
RECURSIVE Restored(_, _)
Restored(t, ok) ==
  IF IsLeaf(t) THEN IF t.shell \in ok THEN <<t>> ELSE <<>>
  ELSE LET a == Restored(t.a, ok)
           b == Restored(t.b, ok)
       IN IF a # <<>> /\ b # <<>> THEN <<Pair(t.dir, a[1], b[1])>> ELSE a \o b

\* The trees of a layout's tabs, without those of which nothing starts.
Reopened(layout, ok) ==
  LET left == SelectSeq(layout.tabs, LAMBDA tab : Restored(tab.tree, ok) # <<>>)
  IN [i \in DOMAIN left |-> [left[i] EXCEPT !.tree = Restored(@, ok)[1]]]

Change == changes < MaxChanges /\ changes' = changes + 1

LayoutInit ==
  /\ on = FALSE /\ tabs = <<>> /\ shown = 1 /\ started = {} /\ changes = 0
  /\ files = [f \in File |-> [tabs |-> <<>>, shown |-> 1]]

-----------------------------------------------------------------------------
(* Changes.  A start that fails leaves all as it was.                       *)

TabOf(s) == [tree |-> One(s), pinned |-> FALSE]
Unused == Shell \ ToSet(ShellsOf(tabs))

\* newTabShell(): from the keyboard, a menu, the sidebar; a duplicate too.
NewTab(s) ==
  /\ on /\ Change /\ s \in Unused /\ Len(tabs) < MaxTabs
  /\ tabs' = Append(tabs, TabOf(s)) /\ shown' = Len(tabs) + 1
  /\ UNCHANGED <<on, files, started>>

RECURSIVE Replaced(_, _, _)
Replaced(t, s, by) ==
  IF IsLeaf(t) THEN IF t.shell = s THEN by ELSE t
  ELSE Pair(t.dir, Replaced(t.a, s, by), Replaced(t.b, s, by))

\* splitActive(), of the pane that is active in the tab.
SplitPane(s, dir, new) ==
  /\ on /\ Change /\ new \in Unused
  /\ shown \in DOMAIN tabs /\ s \in InTab(shown)
  /\ tabs' = [tabs EXCEPT ![shown].tree = Replaced(@, s, Pair(dir, One(s), One(new)))]
  /\ UNCHANGED <<on, shown, files, started>>

\* closeTab() and, for a tab's last pane, closeActivePane(): activeTabAfterClose();
\* with no tab left the window goes, and there is nothing to save.
CloseTab(i) ==
  /\ on /\ Change
  /\ tabs' = RemoveAt(tabs, i)
  /\ shown' = IF i < shown \/ (i = shown /\ i = Len(tabs) /\ i > 1) THEN shown - 1
              ELSE shown
  /\ on' = (tabs' # <<>>)
  /\ UNCHANGED <<files, started>>

SelectTab(i) ==
  /\ on /\ shown' = i
  /\ UNCHANGED <<on, tabs, files, started, changes>>

\* Mutant: the tabs are not sorted again.
TogglePinStays ==
  /\ on /\ Change /\ shown \in DOMAIN tabs
  /\ tabs' = [tabs EXCEPT ![shown].pinned = ~@]
  /\ UNCHANGED <<on, shown, files, started>>

\* togglePinActiveTab()
TogglePin ==
  /\ on /\ Change /\ shown \in DOMAIN tabs
  /\ LET now == [tabs EXCEPT ![shown].pinned = ~@]
     IN /\ tabs' = SelectSeq(now, LAMBDA tab : tab.pinned)
                   \o SelectSeq(now, LAMBDA tab : ~tab.pinned)
        /\ shown' = CHOOSE i \in DOMAIN tabs' : tabs'[i] = now[shown]
  /\ UNCHANGED <<on, files, started>>

\* onMouseMove() with tabDragIndex_ set: the tab that is shown goes to another's
\* place.
DragTab(to) ==
  /\ on /\ Change /\ shown \in DOMAIN tabs \ {to}
  /\ tabs' = InsertAt(RemoveAt(tabs, shown), to, tabs[shown])
  /\ shown' = to
  /\ UNCHANGED <<on, files, started>>

-----------------------------------------------------------------------------
(* Files.                                                                   *)

\* writeLayoutTo(): nothing is written without a tab.
Written(f) == IF tabs = <<>> THEN files
              ELSE [files EXCEPT ![f] = [tabs |-> tabs, shown |-> shown]]

\* restoreLayoutFrom(), when something starts.
RestoreFrom(f) ==
  /\ tabs' = Reopened(files[f], started')
  /\ shown' = IF files[f].shown <= Len(tabs') THEN files[f].shown ELSE 1

\* newTab(homeDir()), which may fail too.
FreshTab == shown' = 1 /\ (tabs' = <<>> \/ \E s \in Shell : tabs' = <<TabOf(s)>>)

\* Each start of a shell succeeds or fails.
ReadBack(f) ==
  /\ started' \in SUBSET ToSet(ShellsOf(files[f].tabs))
  /\ IF started' # {} THEN RestoreFrom(f) ELSE FreshTab

\* create(), and the saving in runMessageLoop() at the end, with rememberLayout_;
\* without it the window starts with one tab, and nothing is saved.
CreateWindow(f) ==
  /\ ~on /\ Change /\ on' = TRUE
  /\ ReadBack(f) \/ (FreshTab /\ started' = {})
  /\ UNCHANGED files
EndWindow(f) ==
  /\ on /\ on' = FALSE /\ tabs' = <<>>
  /\ files' \in {files, Written(f)}
  /\ UNCHANGED <<shown, started, changes>>

\* saveWorkspaceSnapshot(), openWorkspaceSnapshotMenu(): the tabs are closed first.
SaveSnapshot(f) ==
  /\ on /\ files' = Written(f)
  /\ UNCHANGED <<on, tabs, shown, started, changes>>
OpenSnapshot(f) ==
  /\ on /\ Change /\ files[f].tabs # <<>>
  /\ ReadBack(f)
  /\ UNCHANGED <<on, files>>

LayoutNext ==
  \/ \E s \in Shell : NewTab(s)
  \/ \E s, new \in Shell, dir \in {"rows", "cols"} : SplitPane(s, dir, new)
  \/ \E i \in DOMAIN tabs : CloseTab(i) \/ SelectTab(i) \/ DragTab(i)
  \/ TogglePin
  \/ \E f \in File : CreateWindow(f) \/ EndWindow(f) \/ SaveSnapshot(f) \/ OpenSnapshot(f)

LayoutSpec == LayoutInit /\ [][LayoutNext]_layoutVars

-----------------------------------------------------------------------------
\* The split that separates two shells of a tree, the first before the second.
Between(t, x, y) ==
  {p.dir : p \in {q \in Subtrees(t) : ~IsLeaf(q) /\ x \in ToSet(Shells(q.a))
                                                 /\ y \in ToSet(Shells(q.b))}}

\* now is what is left of saved when only the shells in ok start: the same shells
\* in the same order, together in a tab when they were, with the same split
\* between them, in a tab that is pinned when theirs was.
IsWhatIsLeft(now, saved, ok) ==
  /\ ShellsOf(now) = SelectSeq(ShellsOf(saved), LAMBDA s : s \in ok)
  /\ \A i \in DOMAIN now : \E j \in DOMAIN saved :
       LET mine == Shells(now[i].tree) IN
       /\ ToSet(mine) = ToSet(Shells(saved[j].tree)) \cap ok
       /\ now[i].pinned = saved[j].pinned
       /\ \A x, y \in ToSet(mine) :
            Between(now[i].tree, x, y) = Between(saved[j].tree, x, y)

\* What comes back of a layout or a snapshot is all of it that can start, as it
\* was; and the user is shown the tab they left, unless it, or one before it, did
\* not come back (restoreLayoutFrom() takes the saved index as it is).
LayoutReturns ==
  [][\A f \in File : ReadBack(f) /\ started' # {} =>
       /\ IsWhatIsLeft(tabs', files[f].tabs, started')
       /\ shown' \in DOMAIN tabs'
       /\ LET lost == {j \in DOMAIN files[f].tabs :
                         ToSet(Shells(files[f].tabs[j].tree)) \cap started' = {}}
          IN lost \cap 1..files[f].shown = {} =>
               ToSet(Shells(tabs'[shown'].tree))
                 \subseteq ToSet(Shells(files[f].tabs[files[f].shown].tree))]_layoutVars

Grouped(ts) == \A j \in DOMAIN ts : ts[j].pinned => \A i \in 1..j : ts[i].pinned

\* "Pinned tabs stay grouped first, and their metadata is preserved in layouts and
\* workspace snapshots" (CHANGELOG.md:229-230): they do but for a tab dragged
\* across the border, and for layouts saved after that.
OnlyDragUngroups ==
  [][Grouped(tabs) /\ (\A f \in File : Grouped(files[f].tabs)) /\ ~Grouped(tabs') =>
       \E to \in DOMAIN tabs : DragTab(to)]_layoutVars
=============================================================================
