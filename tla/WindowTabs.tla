----------------------------- MODULE WindowTabs -----------------------------
(***************************************************************************)
(* The window over its tabs: app/Window.cpp, WindowMouse.cpp, WindowInput.cpp *)
(* and the tab and pane commands of WindowPalette.cpp.                      *)
(*                                                                         *)
(* A tab is the part of Tab the window works with: root, focused leaf and  *)
(* zoomed leaf.  Which tabs are pinned and where panes are drawn is left   *)
(* out.  The panes of all tabs share one heap, so that the raw pointers    *)
(* the window keeps between messages (selPane_, dragDivider_) can dangle,  *)
(* and so that an address can be used again.                               *)
(* Tabs are counted from 1; tabDrag = 0 stands for tabDragIndex_ = -1.     *)
(*                                                                         *)
(* Every action is one message handled from start to end.  Where the code  *)
(* reads freed memory or indexes past tabs_ the behaviour is undefined:    *)
(* the model records that in `fault` and stops there.                      *)
(***************************************************************************)
EXTENDS PaneHeap, SequencesExt

CONSTANT MaxTabs  \* bound on the tabs open at once

ASSUME MaxTabsAssumption == MaxTabs \in Nat \ {0}

VARIABLES
  heap,         \* the panes of all tabs
  tabs,         \* tabs_
  activeTab,    \* activeTab_; nothing keeps it inside tabs_ but the handlers
  tabRects,     \* tabRects_.size(): the tabs drawn in the last frame
  selecting,    \* selecting_
  selPane,      \* selPane_
  dragDivider,  \* dragDivider_
  tabDrag,      \* tabDragIndex_
  marked,       \* sessions whose terminal holds a selection
  fault         \* undefined behaviour met so far

vars == <<heap, tabs, activeTab, tabRects, selecting, selPane,
          dragDivider, tabDrag, marked, fault>>

gesture == <<selecting, selPane, dragDivider, tabDrag>>

OnePaneTab(r) == [root |-> r, active |-> r, zoom |-> Null]

\* Everything t.root_ owns.
Tree(t) ==
  LET below[n \in DOMAIN heap] ==
        {n} \cup UNION {below[c] : c \in Children(heap, n)}
  IN below[t.root]

TabLeaves(t) == Tree(t) \cap Leaves(heap)

\* Panes hitTest can return: a zoomed pane covers the others.
HitTest(t) == IF t.zoom = Null THEN TabLeaves(t) ELSE {t.zoom}

HasTab == activeTab \in DOMAIN tabs
Tab    == tabs[activeTab]

\* Mutants: a tab closed to the left of the active one is not counted; nothing is
\* adjusted.
ActiveAfterCloseClampsOnly(erased) ==
  IF activeTab = Len(tabs) /\ activeTab > 1 THEN activeTab - 1 ELSE activeTab

ActiveAfterCloseUnadjusted(erased) == activeTab

\* activeTabAfterClose(); with the last tab gone the handlers return at once.
ActiveAfterClose(erased) ==
  LET n == Len(tabs)
      a == IF activeTab > n THEN n ELSE activeTab
  IN IF n = 1 THEN activeTab
     ELSE IF erased < a \/ (erased = a /\ a = n) THEN a - 1
     ELSE a

-----------------------------------------------------------------------------
(* Selection state.                                                         *)

Dangles(p) == p # Null /\ p \notin DOMAIN heap

\* The session selPane_ leads to.
Selected == IF selPane = Null THEN {} ELSE {heap[selPane].session}

\* Mutant: a divider drag is not ended.
ClearSelectionKeepsDivider ==
  /\ ~Dangles(selPane)
  /\ selecting' = FALSE
  /\ selPane' = Null
  /\ tabDrag' = 0
  /\ marked' = (marked \ Selected) \cap Hosted(heap')
  /\ UNCHANGED <<dragDivider, fault>>

\* clearSelection(); sessions that ended in this step take their mark along.
ClearSelection ==
  /\ ~Dangles(selPane)
  /\ selecting' = FALSE
  /\ selPane' = Null
  /\ dragDivider' = Null
  /\ tabDrag' = 0
  /\ marked' = (marked \ Selected) \cap Hosted(heap')
  /\ UNCHANGED fault

\* What a handler leaves alone when it changes neither panes nor tabs.
SameTabs == UNCHANGED <<heap, tabs, tabRects>>

\* Alone: copy from the menu or Ctrl+C, and the handlers that clear the
\* selection first and then find no tab, no room, or no shell to start.
ClearOnly == SameTabs /\ UNCHANGED activeTab /\ ClearSelection

-----------------------------------------------------------------------------
(* Tabs and panes.                                                          *)

Init ==
  \E r \in Node, s \in Session :
    /\ heap = [n \in {r} |-> Leaf(s, Null)]
    /\ tabs = <<OnePaneTab(r)>>
    /\ activeTab = 1
    /\ tabRects = 0
    /\ selecting = FALSE
    /\ selPane = Null
    /\ dragDivider = Null
    /\ tabDrag = 0
    /\ marked = {}
    /\ fault = "none"

\* newTabShell() with a shell that starts.
NewTabShell ==
  /\ Len(tabs) < MaxTabs
  /\ \E r \in Node \ DOMAIN heap, s \in Session \ Hosted(heap) :
       /\ heap' = [n \in DOMAIN heap \cup {r} |->
                     IF n = r THEN Leaf(s, Null) ELSE heap[n]]
       /\ tabs' = Append(tabs, OnePaneTab(r))
  /\ activeTab' = Len(tabs')
  /\ ClearSelection
  /\ UNCHANGED tabRects

SplitActive ==
  /\ HasTab
  /\ \E na, nb \in Node \ DOMAIN heap, s \in Session \ Hosted(heap) :
       /\ na # nb
       /\ heap' = SplitHeap(heap, Tab.active, na, nb, s)
       /\ tabs' = [tabs EXCEPT ![activeTab].active = nb, ![activeTab].zoom = Null]
  /\ ClearSelection
  /\ UNCHANGED <<activeTab, tabRects>>

FocusAfterCollapse ==
  FirstLeaf(CollapseHeap(heap, Tab.active), heap[Tab.active].parent)

EraseTab(i) ==
  /\ heap' = [n \in DOMAIN heap \ Tree(tabs[i]) |-> heap[n]]
  /\ tabs' = RemoveAt(tabs, i)
  /\ activeTab' = ActiveAfterClose(i)

CloseActivePane ==
  /\ HasTab
  /\ \/ /\ heap[Tab.active].parent # Null
        /\ heap' = CollapseHeap(heap, Tab.active)
        /\ tabs' = [tabs EXCEPT ![activeTab].active = FocusAfterCollapse,
                                ![activeTab].zoom = Null]
        /\ UNCHANGED activeTab
     \/ /\ heap[Tab.active].parent = Null
        /\ EraseTab(activeTab)
  /\ ClearSelection
  /\ UNCHANGED tabRects

CloseOtherPanes ==
  /\ HasTab
  /\ heap[Tab.root].isSplit
  /\ \E k \in Node \ DOMAIN heap :
       /\ heap' = ReplaceTree(heap, Tree(Tab), k, heap[Tab.active].session)
       /\ tabs' = [tabs EXCEPT ![activeTab].root = k, ![activeTab].active = k,
                               ![activeTab].zoom = Null]
  /\ ClearSelection
  /\ UNCHANGED <<activeTab, tabRects>>

\* closeTab(), from the x of a drawn tab, the tab menu or the palette.
CloseTab(i) ==
  /\ i \in DOMAIN tabs
  /\ EraseTab(i)
  /\ ClearSelection
  /\ UNCHANGED tabRects

\* closeTabSet() with the active tab as the anchor: the tabs to its right, to
\* its left, all others, or every tab.
CloseTabSet ==
  /\ HasTab
  /\ \/ \E first \in {1, activeTab}, last \in {activeTab, Len(tabs)} :
          /\ <<first, last>> # <<1, Len(tabs)>>
          /\ tabs' = SubSeq(tabs, first, last)
          /\ activeTab' = activeTab - first + 1
     \/ /\ tabs' = <<>>
        /\ UNCHANGED activeTab
  /\ heap' = [n \in UNION {Tree(tabs'[i]) : i \in DOMAIN tabs'} |-> heap[n]]
  /\ ClearSelection
  /\ UNCHANGED tabRects

\* The stable_sort by pinned(): the pinned come first, all in the order they had.
Partitioned(order, pinned) ==
  \A i, j \in DOMAIN order :
    i < j <=> \/ order[i] \in pinned /\ order[j] \notin pinned
              \/ (order[i] \in pinned <=> order[j] \in pinned) /\ order[i] < order[j]

\* The tabs that are pinned now are put first, and the focus stays on the same
\* tab.
TogglePin ==
  /\ HasTab
  /\ UNCHANGED <<heap, tabRects, gesture, marked, fault>>
  /\ \E order \in Injection(DOMAIN tabs, DOMAIN tabs) :
       /\ \E pinned \in SUBSET DOMAIN tabs : Partitioned(order, pinned)
       /\ tabs' = [i \in DOMAIN tabs |-> tabs[order[i]]]
  /\ activeTab' = CHOOSE i \in DOMAIN tabs' : tabs'[i].root = Tab.root

\* Palette actions 21 to 23 keep the selection as it is.
NextLeaf(n) ==
  LET list == LeafSeq(heap, Tab.root)
  IN \E i \in DOMAIN list :
       /\ Len(list) >= 2
       /\ list[i] = Tab.active
       /\ n = list[(i % Len(list)) + 1]

SwapOrMovePane ==
  /\ HasTab
  /\ \E next \in TabLeaves(Tab) :
       /\ NextLeaf(next)
       /\ heap' = SwapSessions(heap, Tab.active, next)
       /\ \E n \in {Tab.active, next} :
            tabs' = [tabs EXCEPT ![activeTab].active = n, ![activeTab].zoom = Null]
  /\ UNCHANGED <<activeTab, tabRects, gesture, marked, fault>>

DetachPane ==
  /\ HasTab
  /\ heap[Tab.active].parent # Null
  /\ Len(tabs) < MaxTabs
  /\ LET h == CollapseHeap(heap, Tab.active)
     IN \E r \in Node \ DOMAIN h :
          /\ heap' = [n \in DOMAIN h \cup {r} |->
                        IF n = r THEN Leaf(heap[Tab.active].session, Null)
                        ELSE h[n]]
          /\ tabs' = Append([tabs EXCEPT ![activeTab].active = FocusAfterCollapse,
                                         ![activeTab].zoom = Null],
                            OnePaneTab(r))
  /\ activeTab' = Len(tabs')
  /\ UNCHANGED <<tabRects, gesture, marked, fault>>

\* restartSession(): the pane stays, the exited session in it is replaced.
RestartSession ==
  /\ HasTab
  /\ \E s \in Session \ Hosted(heap) :
       heap' = [heap EXCEPT ![Tab.active].session = s]
  /\ marked' = marked \cap Hosted(heap')
  /\ UNCHANGED <<tabs, activeTab, tabRects, gesture, fault>>

-----------------------------------------------------------------------------
(* Focus.                                                                   *)

\* switchTab(), Ctrl+1 to Ctrl+9, the overflow menu and the palette.
SelectTab(i) ==
  /\ i \in DOMAIN tabs
  /\ activeTab' = i
  /\ SameTabs
  /\ ClearSelection

\* The accessibility provider's posted request; the selection stays.
InvokeTab(i) ==
  /\ i \in DOMAIN tabs
  /\ activeTab' = i
  /\ SameTabs
  /\ UNCHANGED <<gesture, marked, fault>>

\* openWorkspaceSession() that finds a pane to go back to.
ReuseSession(i, leaf) ==
  /\ i \in DOMAIN tabs
  /\ leaf \in TabLeaves(tabs[i])
  /\ activeTab' = i
  /\ tabs' = [tabs EXCEPT ![i].active = leaf]
  /\ UNCHANGED <<heap, tabRects>>
  /\ ClearSelection

\* toggleZoom() and equalizePanes().
Zoom ==
  /\ HasTab
  /\ tabs' = [tabs EXCEPT ![activeTab].zoom =
                 IF Tab.zoom = Null THEN Tab.active ELSE Null]
  /\ UNCHANGED <<heap, activeTab, tabRects, gesture, marked, fault>>

\* Alt+arrow: Tab::focusDir.
FocusDir ==
  /\ HasTab
  /\ \E leaf \in TabLeaves(Tab) :
       tabs' = [tabs EXCEPT ![activeTab].active = leaf, ![activeTab].zoom = Null]
  /\ UNCHANGED <<heap, activeTab, tabRects, gesture, marked, fault>>

\* renderFrame(): the tab strip is drawn for today's tabs and the active tab is
\* laid out, which drops a zoom target that left the tab.
RenderFrame ==
  /\ tabs # <<>>
  /\ tabRects' = Len(tabs)
  /\ IF HasTab
     THEN tabs' = [tabs EXCEPT ![activeTab].zoom =
                      IF Tab.zoom \in TabLeaves(Tab) THEN Tab.zoom ELSE Null]
     ELSE UNCHANGED tabs
  /\ UNCHANGED <<heap, activeTab, gesture, marked, fault>>

-----------------------------------------------------------------------------
(* The mouse.                                                               *)

\* A press on a tab of the last frame, which the left button starts to drag;
\* nothing asks whether tabs_ still has that tab.
TabPress(i) ==
  /\ i \in 1..tabRects
  /\ activeTab' = i
  /\ SameTabs
  /\ ~Dangles(selPane)
  /\ selecting' = FALSE
  /\ selPane' = Null
  /\ dragDivider' = Null
  /\ marked' = marked \ Selected
  /\ tabDrag' \in {0, i}
  /\ UNCHANGED fault

\* Mutant: the dragged tab is copied over the one at j.
TabDragCopies(j) ==
  /\ tabDrag \in DOMAIN tabs /\ j \in DOMAIN tabs /\ j \in 1..tabRects
  /\ j # tabDrag
  /\ tabs' = [tabs EXCEPT ![j] = tabs[tabDrag]]
  /\ tabDrag' = j
  /\ activeTab' = j
  /\ UNCHANGED <<heap, tabRects, selecting, selPane, dragDivider, marked,
                 fault>>

\* The dragged tab is taken out and put in at j.
TabDrag(j) ==
  /\ tabDrag \in DOMAIN tabs /\ j \in DOMAIN tabs /\ j \in 1..tabRects
  /\ j # tabDrag
  /\ tabs' = InsertAt(RemoveAt(tabs, tabDrag), j, tabs[tabDrag])
  /\ tabDrag' = j
  /\ activeTab' = j
  /\ UNCHANGED <<heap, tabRects, selecting, selPane, dragDivider, marked,
                 fault>>

DividerPress(n) ==
  /\ HasTab
  /\ Tab.zoom = Null
  /\ n \in Tree(Tab) \ Leaves(heap)
  /\ dragDivider' = n
  /\ UNCHANGED <<heap, tabs, activeTab, tabRects, selecting, selPane,
                 tabDrag, marked, fault>>

\* Mutant: the highlight held elsewhere stays.
PanePressKeepsOld(leaf) ==
  /\ HasTab
  /\ leaf \in HitTest(Tab)
  /\ tabs' = [tabs EXCEPT ![activeTab].active = leaf]
  /\ selecting' = TRUE
  /\ selPane' = leaf
  /\ marked' = marked \ {heap[leaf].session}
  /\ UNCHANGED <<heap, activeTab, tabRects, dragDivider, tabDrag, fault>>

\* A press in a pane: an application that tracks the mouse gets it, otherwise a
\* selection drag begins there and the one held elsewhere is dropped.
PanePress(leaf) ==
  /\ HasTab
  /\ leaf \in HitTest(Tab)
  /\ tabs' = [tabs EXCEPT ![activeTab].active = leaf]
  /\ \/ UNCHANGED <<gesture, marked>>
     \/ /\ ~Dangles(selPane)
        /\ selecting' = TRUE
        /\ selPane' = leaf
        /\ marked' = marked \ (Selected \cup {heap[leaf].session})
        /\ UNCHANGED <<dragDivider, tabDrag>>
  /\ UNCHANGED <<heap, activeTab, tabRects, fault>>

\* onMouseMove() with a selection drag on: the terminal under selPane_ marks.
PaneDrag ==
  /\ selecting /\ selPane # Null /\ ~Dangles(selPane)
  /\ tabDrag = 0 /\ dragDivider = Null
  /\ marked' = marked \cup (Selected \cap Session)
  /\ SameTabs
  /\ UNCHANGED <<activeTab, gesture, fault>>

\* Double click, triple click and Select all.
SelectText(leaf) ==
  /\ HasTab
  /\ leaf \in HitTest(Tab) \cup {Tab.active}
  /\ ~Dangles(selPane)
  /\ tabs' = [tabs EXCEPT ![activeTab].active = leaf]
  /\ selPane' = leaf
  /\ \E found \in SUBSET {heap[leaf].session} :
       marked' = (marked \ (Selected \ {heap[leaf].session})) \cup found
  /\ UNCHANGED <<heap, activeTab, tabRects, selecting, dragDivider,
                 tabDrag, fault>>

\* onMouseUp() ends the first gesture that is on.
MouseUp ==
  /\ \/ tabDrag # 0 /\ tabDrag' = 0 /\ UNCHANGED <<dragDivider, selecting>>
     \/ /\ tabDrag = 0 /\ dragDivider # Null
        /\ dragDivider' = Null /\ UNCHANGED <<tabDrag, selecting>>
     \/ /\ tabDrag = 0 /\ dragDivider = Null /\ selecting
        /\ selecting' = FALSE /\ UNCHANGED <<tabDrag, dragDivider>>
  /\ SameTabs
  /\ UNCHANGED <<activeTab, selPane, marked, fault>>

-----------------------------------------------------------------------------
(* Undefined behaviour.                                                     *)

\* Every handler that starts with clearSelection() reads *selPane_; a divider
\* drag reads and writes *dragDivider_.
UseFreedPane ==
  /\ Dangles(selPane) \/ (Dangles(dragDivider) /\ tabDrag = 0)
  /\ fault' = "freed pane"

\* onMouseMove() takes tabs_[tabDragIndex_] and inserts at a drawn index;
\* openTabMenu() and the palette's close-other-tabs take tabs_[activeTab_].
IndexPastTabs ==
  /\ \/ tabDrag # 0 /\ \E j \in 1..tabRects \ {tabDrag} :
                           ~({tabDrag, j} \subseteq DOMAIN tabs)
     \/ tabs # <<>> /\ ~HasTab
  /\ fault' = "tab index"

Fault ==
  /\ UseFreedPane \/ IndexPastTabs
  /\ UNCHANGED <<heap, tabs, activeTab, tabRects, gesture, marked>>

PaneStep ==
  \/ NewTabShell \/ SplitActive \/ CloseActivePane \/ CloseOtherPanes
  \/ \E i \in DOMAIN tabs : CloseTab(i)
  \/ CloseTabSet \/ TogglePin \/ SwapOrMovePane \/ DetachPane
  \/ RestartSession

FocusStep ==
  \/ ClearOnly
  \/ \E i \in DOMAIN tabs : SelectTab(i) \/ InvokeTab(i)
  \/ \E i \in DOMAIN tabs, leaf \in Leaves(heap) : ReuseSession(i, leaf)
  \/ Zoom \/ FocusDir \/ RenderFrame

MouseStep ==
  \/ \E i \in 1..tabRects : TabPress(i) \/ TabDrag(i)
  \/ \E n \in DOMAIN heap : DividerPress(n) \/ PanePress(n) \/ SelectText(n)
  \/ PaneDrag \/ MouseUp

Next == fault = "none" /\ (PaneStep \/ FocusStep \/ MouseStep \/ Fault)

Spec == Init /\ [][Next]_vars

-----------------------------------------------------------------------------
(* Properties.                                                              *)

\* Every variable has its type.
TypeOK ==
  /\ IsHeap(heap)
  /\ tabs \in Seq([root : Node, active : Node, zoom : Node \cup {Null}])
  /\ activeTab \in 1..MaxTabs /\ tabRects \in 0..MaxTabs
  /\ selecting \in BOOLEAN
  /\ {selPane, dragDivider} \subseteq Node \cup {Null}
  /\ tabDrag \in 0..MaxTabs
  /\ marked \subseteq Hosted(heap)
  /\ fault \in {"none", "freed pane", "tab index"}

\* The tabs' trees split the heap between them: no pane is shared or leaked,
\* no shell is shown twice, and every tab's focused and zoomed panes are leaves
\* of its own tree, whatever moved between tabs.
Forest ==
  /\ TypeOK
  /\ \A n \in DOMAIN heap : LinksOf(heap, n) /\ OwnedByParent(heap, n)
  /\ WellFounded(heap) /\ SessionsDistinct(heap)
  /\ \A i, j \in DOMAIN tabs : i # j => Tree(tabs[i]) \cap Tree(tabs[j]) = {}
  /\ DOMAIN heap = UNION {Tree(tabs[i]) : i \in DOMAIN tabs}
  /\ \A i \in DOMAIN tabs :
       /\ heap[tabs[i].root].parent = Null
       /\ {tabs[i].active, tabs[i].zoom} \subseteq TabLeaves(tabs[i]) \cup {Null}
       /\ tabs[i].active # Null

PointersLive == ~Dangles(selPane) /\ ~Dangles(dragDivider)

\* "drop selection (e.g. before freeing panes)" (Window.h:191): every handler
\* that frees panes first forgets the panes the mouse gestures point at, but
\* for the one that moves a pane to a new tab (WindowPalette.cpp:438-446).
OnlyDetachStrands ==
  [][PointersLive => PointersLive' \/ DetachPane]_vars

\* "pane whose terminal owns the selection" (Window.h:369): a highlight is only
\* ever on the session in selPane_, so clearSelection() and copySelection()
\* find it, until a palette command moves sessions between panes.
SelectionHome == ~Dangles(selPane) /\ marked \subseteq Selected

OnlyPaneMovesLoseSelection ==
  [][SelectionHome => SelectionHome' \/ DetachPane \/ SwapOrMovePane]_vars

TabIndexesValid ==
  /\ tabs # <<>> => HasTab
  /\ tabDrag # 0 => tabDrag \in DOMAIN tabs

\* activeTab_ and tabDragIndex_ stay inside tabs_ through every close, reorder
\* and detach; the one way out is a press on a tab that the last frame drew and
\* that has been closed since.
OnlyStalePressEscapes ==
  [][TabIndexesValid =>
       TabIndexesValid' \/ \E i \in Len(tabs) + 1..tabRects : TabPress(i)]_vars

\* Closing a background tab, closing tabs around the active one, reordering and
\* pinning keep the user in the tab they were in.
StaysInTab ==
  [][LET survives == HasTab /\ \E j \in DOMAIN tabs' : tabs'[j].root = Tab.root
     IN (survives /\ Len(tabs') < Len(tabs)) \/ (HasTab /\ TogglePin)
          => activeTab' \in DOMAIN tabs' /\ tabs'[activeTab'].root = Tab.root]_vars

\* "Re-selecting a project/worktree should return to its existing terminal"
\* (Window.cpp:1210): after a frame the pane that gets the keyboard is on
\* screen.
FocusShown ==
  [][RenderFrame /\ HasTab => Tab.zoom \in {Null, Tab.active}]_vars

\* "drop selection (e.g. before freeing panes)" (Window.h:191): no handler
\* follows a pane pointer after the pane was freed.
NoUseAfterFree == fault # "freed pane"
=============================================================================
