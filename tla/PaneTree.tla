------------------------------ MODULE PaneTree ------------------------------
(***************************************************************************)
(* One Tab (app/Tab.h, app/Tab.cpp): a binary split tree of panes with one *)
(* focused leaf and at most one zoomed leaf.  One action per method of the *)
(* class.  The callers hand SetActive and SetZoom pointers that hitTest or *)
(* leaves() just returned, so the actions range over the live panes.       *)
(***************************************************************************)
EXTENDS PaneHeap

VARIABLES
  heap,     \* the allocated panes
  root,     \* root_
  active,   \* active_, the focused leaf
  zoom,     \* zoom_, the leaf that fills the tab, or Null
  compact,  \* compactLayout_: too small to show every pane
  alive,    \* sessions whose TerminalSession object exists: running shells
  detached  \* sessions detachActive() returned to the caller, who owns them

vars == <<heap, root, active, zoom, compact, alive, detached>>

\* Destroying the panes of F destroys the sessions they still own.
DestroyedWith(F) == {heap[n].session : n \in F \cap Leaves(heap)}

-----------------------------------------------------------------------------

\* Tab(std::unique_ptr<TerminalSession>)
Init ==
  \E r \in Node, s \in Session :
    /\ heap = [n \in {r} |-> Leaf(s, Null)]
    /\ root = r
    /\ active = r
    /\ zoom = Null
    /\ compact = FALSE
    /\ alive = {s}
    /\ detached = {}

SetActive(p) ==
  /\ p \in Leaves(heap)
  /\ active' = p
  /\ UNCHANGED <<heap, root, zoom, compact, alive, detached>>

SplitActive(incoming) ==
  /\ incoming \notin Hosted(heap)
  /\ \E na, nb \in Node \ DOMAIN heap :
       /\ na # nb
       /\ heap' = SplitHeap(heap, active, na, nb, incoming)
       /\ active' = nb
  /\ zoom' = Null
  /\ alive' = alive \cup {incoming}
  /\ detached' = detached \ {incoming}
  /\ UNCHANGED <<root, compact>>

\* The focused pane goes away and focus lands on the first leaf of what took
\* its place.
CollapseActive ==
  /\ heap[active].parent # Null
  /\ heap' = CollapseHeap(heap, active)
  /\ active' = FirstLeaf(CollapseHeap(heap, active), heap[active].parent)
  /\ zoom' = Null
  /\ UNCHANGED <<root, compact>>

\* closeActive(); the only pane of a tab stays, and the caller drops the tab.
CloseActive ==
  \/ /\ CollapseActive
     /\ alive' = alive \ DestroyedWith({active})
     /\ UNCHANGED detached
  \/ /\ heap[active].parent = Null
     /\ zoom' = Null
     /\ UNCHANGED <<heap, root, active, compact, alive, detached>>

\* detachActive(); the session survives its pane.
DetachActive ==
  /\ CollapseActive
  /\ detached' = detached \cup {heap[active].session}
  /\ UNCHANGED alive

\* The caller of detachActive() lets go of what it was given.
DropDetached(s) ==
  /\ s \in detached
  /\ detached' = detached \ {s}
  /\ alive' = alive \ {s}
  /\ UNCHANGED <<heap, root, active, zoom, compact>>

\* list[(index + 1) % list.size()], for the active pane's index in leaves().
NextLeaf(n) ==
  LET list == LeafSeq(heap, root)
  IN \E i \in DOMAIN list :
       /\ Len(list) >= 2
       /\ list[i] = active
       /\ n = list[(i % Len(list)) + 1]

SwapActiveWithNext ==
  \E next \in Leaves(heap) :
    /\ NextLeaf(next)
    /\ heap' = SwapSessions(heap, active, next)
    /\ zoom' = Null
    /\ UNCHANGED <<root, active, compact, alive, detached>>

MoveActiveForward ==
  \E next \in Leaves(heap) :
    /\ NextLeaf(next)
    /\ heap' = SwapSessions(heap, active, next)
    /\ active' = next
    /\ zoom' = Null
    /\ UNCHANGED <<root, compact, alive, detached>>

\* Mutant: the first pane is kept, not the focused one.
CloseOthersKeepsFirst ==
  LET kept == FirstLeaf(heap, root)
  IN /\ heap[root].isSplit
     /\ \E k \in Node \ DOMAIN heap :
          /\ heap' = ReplaceTree(heap, Subtree(heap, root), k, heap[kept].session)
          /\ root' = k
          /\ active' = k
     /\ zoom' = Null
     /\ alive' = alive \ DestroyedWith(Subtree(heap, root) \ {kept})
     /\ UNCHANGED <<compact, detached>>

CloseOthers ==
  /\ heap[root].isSplit
  /\ \E k \in Node \ DOMAIN heap :
       /\ heap' = ReplaceTree(heap, Subtree(heap, root), k, heap[active].session)
       /\ root' = k
       /\ active' = k
  /\ zoom' = Null
  /\ alive' = alive \ DestroyedWith(Subtree(heap, root) \ {active})
  /\ UNCHANGED <<compact, detached>>

\* setZoom(p); nullptr and a split node both clear the zoom.
SetZoom(p) ==
  /\ zoom' = IF p \in Leaves(heap) THEN p ELSE Null
  /\ UNCHANGED <<heap, root, active, compact, alive, detached>>

\* focusDir(): in a compact layout the next or previous leaf, otherwise the
\* nearest leaf in that direction, if there is one.
FocusDir ==
  /\ zoom' = Null
  /\ active' \in Leaves(heap)
  /\ compact => \E i, j \in DOMAIN LeafSeq(heap, root) :
                  LET list == LeafSeq(heap, root) IN
                  /\ list[i] = active /\ list[j] = active'
                  /\ j \in {(i % Len(list)) + 1,
                            ((i + Len(list) - 2) % Len(list)) + 1}
  /\ UNCHANGED <<heap, root, compact, alive, detached>>

\* layout(): a zoom target that is no leaf of this tab any more is dropped.
Layout ==
  /\ zoom' = IF zoom \in Leaves(heap) THEN zoom ELSE Null
  /\ compact' \in IF zoom' # Null THEN {FALSE} ELSE BOOLEAN
  /\ UNCHANGED <<heap, root, active, alive, detached>>

Next ==
  \/ \E p \in DOMAIN heap : SetActive(p)
  \/ \E s \in Session : SplitActive(s)
  \/ CloseActive
  \/ DetachActive
  \/ \E s \in Session : DropDetached(s)
  \/ SwapActiveWithNext
  \/ MoveActiveForward
  \/ CloseOthers
  \/ \E p \in DOMAIN heap \cup {Null} : SetZoom(p)
  \/ FocusDir
  \/ Layout

Spec == Init /\ [][Next]_vars

-----------------------------------------------------------------------------
(* Properties.                                                              *)

\* Every variable has its type.
TypeOK ==
  /\ IsHeap(heap)
  /\ root \in Node
  /\ active \in Node
  /\ zoom \in Node \cup {Null}
  /\ compact \in BOOLEAN
  /\ alive \in SUBSET Session
  /\ detached \in SUBSET Session

\* The panes form one binary tree below root_: back links match the owning
\* pointers (closeActive and detachActive move whole subtrees up and re-parent
\* them by hand, Tab.cpp:117-125 and 139-147), nothing is circular, and no
\* allocated pane is out of reach of root_.
TreeShape ==
  /\ root \in DOMAIN heap /\ heap[root].parent = Null
  /\ \A n \in DOMAIN heap : LinksOf(heap, n) /\ OwnedByParent(heap, n)
  /\ \A n \in DOMAIN heap : heap[n].parent = Null => n = root
  /\ WellFounded(heap)
  /\ \A S \in SUBSET DOMAIN heap :
       ClosedUnderChildren(heap, S, root) => S = DOMAIN heap

\* active_ and zoom_ are raw pointers into a tree whose nodes are freed while
\* the tab lives on: both always point at a live leaf.
PointersLive ==
  /\ active \in Leaves(heap)
  /\ zoom # Null => zoom \in Leaves(heap)

\* A running shell is owned by exactly one pane or by the caller of
\* detachActive(): whatever sequence of splits, swaps and closes, no shell is
\* left running without a pane, shown twice, or destroyed while a pane shows it.
SessionOwnership ==
  /\ alive = Hosted(heap) \cup detached
  /\ Hosted(heap) \cap detached = {}
  /\ SessionsDistinct(heap)

\* The tab is well formed: its tree, the pointers into it and the shells it owns.
PanesSound == TypeOK /\ TreeShape /\ PointersLive /\ SessionOwnership

\* A step ends at most the shell it was asked to end: the focused one, all but
\* the focused one, or one that was detached.  The rest keep running.
KillsOnlyItsTarget ==
  [][LET ended == alive \ alive'
         focus == heap[active].session
     IN ended # {} => \/ ended = {focus} /\ Hosted(heap') = Hosted(heap) \ ended
                      \/ ended = Hosted(heap) \ {focus} /\ Hosted(heap') = {focus}
                      \/ ended \subseteq detached /\ UNCHANGED heap]_vars
=============================================================================
