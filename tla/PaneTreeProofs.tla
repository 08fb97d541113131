--------------------------- MODULE PaneTreeProofs ---------------------------
(***************************************************************************)
(* The invariants of PaneTree hold for any set of addresses and shells.    *)
(***************************************************************************)
EXTENDS PaneTree, PaneHeapProofs

\* What every step keeps: the types, one tree, live pointers, and shells that
\* are each owned once.
IInv ==
  /\ TypeOK
  /\ IsTree(heap, root)
  /\ PointersLive
  /\ SessionOwnership

\* The tree the invariant names is the one TreeShape describes.
LEMMA TreeShapeIsTree == TypeOK => (TreeShape <=> IsTree(heap, root))
BY DEF TypeOK, TreeShape, IsTree, IsForest, AllBelow

\* The focused pane shows a shell, which runs.
LEMMA ActiveShell ==
  ASSUME IInv
  PROVE  /\ active \in Leaves(heap) /\ active \in DOMAIN heap
         /\ heap[active].session \in Session
         /\ heap[active].session \in Hosted(heap)
         /\ IsHeap(heap)
BY DEF IInv, PointersLive, IsTree, IsForest, Leaves, LinksOf, Hosted

\* A new tab.
LEMMA InitInv == Init => IInv
<1> SUFFICES ASSUME Init PROVE IInv
  OBVIOUS
<1>1. PICK r \in Node, s \in Session :
        /\ heap = [n \in {r} |-> Leaf(s, Null)]
        /\ root = r /\ active = r /\ zoom = Null /\ compact = FALSE
        /\ alive = {s} /\ detached = {}
  BY DEF Init
<1>2. /\ IsTree(heap, root) /\ Leaves(heap) = {r}
      /\ Hosted(heap) = {s} /\ SessionsDistinct(heap)
  BY <1>1, SinglePane
<1>3. TypeOK
  BY <1>1, <1>2 DEF TypeOK, IsTree, IsForest
<1> QED
  BY <1>1, <1>2, <1>3 DEF IInv, PointersLive, SessionOwnership

\* splitActive().
LEMMA SplitInv == ASSUME IInv, NEW s \in Session, SplitActive(s) PROVE IInv'
<1>1. PICK na \in Node \ DOMAIN heap, nb \in Node \ DOMAIN heap :
        /\ na # nb
        /\ heap' = SplitHeap(heap, active, na, nb, s)
        /\ active' = nb
  BY DEF SplitActive
<1>2. IsSplitOf(heap', heap, active, na, nb, s)
  BY <1>1, ActiveShell, SplitFields
<1>3. IsTree(heap', root')
  BY <1>2, SplitTree DEF IInv, SplitActive
<1>4. /\ Leaves(heap') = (Leaves(heap) \ {active}) \cup {na, nb}
      /\ Hosted(heap') = Hosted(heap) \cup {s}
      /\ SessionsDistinct(heap')
  BY <1>2, SplitHosted DEF IInv, SessionOwnership, SplitActive
<1>5. TypeOK'
  BY <1>1, <1>3 DEF TypeOK, IInv, IsTree, IsForest, SplitActive
<1>6. PointersLive'
  BY <1>1, <1>4 DEF PointersLive, SplitActive
<1>7. SessionOwnership'
  BY <1>4 DEF SessionOwnership, IInv, SplitActive
<1> QED
  BY <1>3, <1>5, <1>6, <1>7 DEF IInv

\* What closeActive() and detachActive() have in common.
LEMMA CollapseStep ==
  ASSUME IInv, CollapseActive
  PROVE  /\ IsTree(heap', root') /\ PointersLive'
         /\ Hosted(heap') = Hosted(heap) \ {heap[active].session}
         /\ SessionsDistinct(heap')
<1> DEFINE up == heap[active].parent
           sib == Sibling(heap, active)
<1>1. IsForest(heap) /\ IsHeap(heap)
  BY DEF IInv, IsTree, IsForest
<1>2. IsCollapseOf(heap', heap, active, up, sib)
  BY <1>1, ActiveShell, CollapseFields DEF IInv, CollapseActive
<1>3. IsTree(heap', root')
  BY <1>2, CollapseTree DEF IInv, CollapseActive
<1>4. /\ Hosted(heap') = Hosted(heap) \ {heap[active].session}
      /\ SessionsDistinct(heap')
  BY <1>2, <1>1, CollapseHosted DEF IInv, SessionOwnership
<1>5. up \in DOMAIN heap'
  BY <1>2 DEF IsCollapseOf
<1>6. active' \in Leaves(heap')
  <2>1. IsForest(heap')
    BY <1>3 DEF IsTree
  <2> QED
    BY <1>5, <2>1, FirstLeafIsLeaf DEF CollapseActive
<1> QED
  BY <1>3, <1>4, <1>6 DEF PointersLive, CollapseActive

\* closeActive().
LEMMA CloseInv == ASSUME IInv, CloseActive PROVE IInv'
<1>1. CASE CollapseActive /\ alive' = alive \ DestroyedWith({active})
           /\ UNCHANGED detached
  <2>1. DestroyedWith({active}) = {heap[active].session}
    BY ActiveShell DEF DestroyedWith
  <2>2. TypeOK'
    BY <1>1, CollapseStep DEF TypeOK, IInv, IsTree, IsForest, PointersLive, Leaves, IsHeap,
       CollapseActive
  <2>3. SessionOwnership'
    BY <1>1, <2>1, CollapseStep, ActiveShell DEF SessionOwnership, IInv
  <2> QED
    BY <1>1, <2>2, <2>3, CollapseStep DEF IInv
<1>2. CASE zoom' = Null /\ UNCHANGED <<heap, root, active, compact, alive, detached>>
  BY <1>2 DEF IInv, TypeOK, PointersLive, SessionOwnership
<1> QED
  BY <1>1, <1>2 DEF CloseActive

\* detachActive().
LEMMA DetachInv == ASSUME IInv, DetachActive PROVE IInv'
<1>1. CollapseActive /\ alive' = alive
      /\ detached' = detached \cup {heap[active].session}
  BY DEF DetachActive
<1>2. TypeOK'
  BY <1>1, CollapseStep, ActiveShell DEF TypeOK, IInv, IsTree, IsForest, PointersLive,
     Leaves, IsHeap, CollapseActive
<1>3. SessionOwnership'
  BY <1>1, CollapseStep, ActiveShell DEF SessionOwnership, IInv
<1> QED
  BY <1>1, <1>2, <1>3, CollapseStep DEF IInv

\* swapActiveWithNext() and moveActiveForward().
LEMMA ExchangeInv ==
  ASSUME IInv, NEW next \in Leaves(heap),
         heap' = SwapSessions(heap, active, next), active' \in {active, next},
         zoom' = Null, UNCHANGED <<root, compact, alive, detached>>
  PROVE  IInv'
<1>1. /\ IsTree(heap', root) /\ Leaves(heap') = Leaves(heap)
      /\ Hosted(heap') = Hosted(heap) /\ SessionsDistinct(heap')
  BY ActiveShell, SwapTree DEF IInv, SessionOwnership
<1>2. TypeOK'
  BY <1>1, ActiveShell DEF TypeOK, IInv, IsTree, IsForest, Leaves, IsHeap
<1> QED
  BY <1>1, <1>2, ActiveShell DEF IInv, PointersLive, SessionOwnership

\* closeOthers().
LEMMA CloseOthersInv == ASSUME IInv, CloseOthers PROVE IInv'
<1>1. PICK k \in Node \ DOMAIN heap :
        /\ heap' = ReplaceTree(heap, DOMAIN heap, k, heap[active].session)
        /\ root' = k /\ active' = k
  BY SubtreeOfRoot DEF CloseOthers, IInv
<1>2. /\ IsTree(heap', root') /\ Leaves(heap') = {k}
      /\ Hosted(heap') = {heap[active].session} /\ SessionsDistinct(heap')
  BY <1>1, ReplaceWhole, ActiveShell
<1>3. alive' = alive \ DestroyedWith(DOMAIN heap \ {active})
  BY SubtreeOfRoot DEF CloseOthers, IInv
<1>4. DestroyedWith(DOMAIN heap \ {active}) = Hosted(heap) \ {heap[active].session}
  BY ActiveShell DEF DestroyedWith, Hosted, Leaves, SessionsDistinct, IInv,
     SessionOwnership
<1>5. TypeOK'
  BY <1>1, <1>2, <1>3 DEF TypeOK, IInv, IsTree, IsForest, CloseOthers
<1>6. PointersLive'
  BY <1>1, <1>2 DEF PointersLive, CloseOthers
<1>7. SessionOwnership'
  BY <1>2, <1>3, <1>4, ActiveShell DEF SessionOwnership, IInv, CloseOthers
<1> QED
  BY <1>2, <1>5, <1>6, <1>7 DEF IInv

\* The steps that move pointers only.
LEMMA PointerInv ==
  ASSUME IInv, active' \in Leaves(heap), zoom' \in Leaves(heap) \cup {Null},
         compact' \in BOOLEAN, UNCHANGED <<heap, root, alive, detached>>
  PROVE  IInv'
<1>1. Leaves(heap) \subseteq Node
  BY DEF IInv, TypeOK, IsHeap, Leaves
<1> QED
  BY <1>1 DEF IInv, TypeOK, PointersLive, SessionOwnership

\* Every step keeps the invariant.
LEMMA NextInv == IInv /\ [Next]_vars => IInv'
<1> SUFFICES ASSUME IInv, [Next]_vars PROVE IInv'
  OBVIOUS
<1>1. /\ active \in Leaves(heap) /\ zoom \in Leaves(heap) \cup {Null}
      /\ compact \in BOOLEAN
  BY DEF IInv, PointersLive, TypeOK
<1>2. ASSUME NEW p \in DOMAIN heap, SetActive(p) PROVE IInv'
  BY <1>1, <1>2, PointerInv DEF SetActive
<1>3. ASSUME NEW s \in Session, SplitActive(s) PROVE IInv'
  BY <1>3, SplitInv
<1>4. CASE CloseActive
  BY <1>4, CloseInv
<1>5. CASE DetachActive
  BY <1>5, DetachInv
<1>6. ASSUME NEW s \in Session, DropDetached(s) PROVE IInv'
  BY <1>6 DEF DropDetached, IInv, TypeOK, PointersLive, SessionOwnership
<1>7. CASE SwapActiveWithNext
  BY <1>7, ExchangeInv DEF SwapActiveWithNext
<1>8. CASE MoveActiveForward
  BY <1>8, ExchangeInv DEF MoveActiveForward
<1>9. CASE CloseOthers
  BY <1>9, CloseOthersInv
<1>10. ASSUME NEW p \in DOMAIN heap \cup {Null}, SetZoom(p) PROVE IInv'
  BY <1>1, <1>10, PointerInv DEF SetZoom
<1>11. CASE FocusDir
  BY <1>1, <1>11, PointerInv DEF FocusDir
<1>12. CASE Layout
  <2>1. compact' \in BOOLEAN
    BY <1>12 DEF Layout
  <2> QED
    BY <1>1, <1>12, <2>1, PointerInv DEF Layout
<1>13. CASE UNCHANGED vars
  BY <1>13 DEF vars, IInv, TypeOK, PointersLive, SessionOwnership
<1> QED
  BY <1>2, <1>3, <1>4, <1>5, <1>6, <1>7, <1>8, <1>9, <1>10, <1>11, <1>12, <1>13
  DEF Next

\* The invariant holds in every reachable state.
LEMMA Invariance == Spec => []IInv
BY InitInv, NextInv, PTL DEF Spec

\* Every variable of a tab has its type, for any set of addresses and shells.
THEOREM TypeCorrect == Spec => []TypeOK
<1>1. IInv => TypeOK
  BY DEF IInv
<1> QED
  BY <1>1, Invariance, PTL

\* The panes of a tab form one binary tree below root_ after any sequence of
\* splits, closes, moves and detaches (Tab.cpp:83-173, 240-250).
THEOREM TreeShapeHolds == Spec => []TreeShape
<1>1. IInv => TreeShape
  BY TreeShapeIsTree DEF IInv
<1> QED
  BY <1>1, Invariance, PTL

\* active_ and zoom_ never dangle.
THEOREM PointersNeverDangle == Spec => []PointersLive
<1>1. IInv => PointersLive
  BY DEF IInv
<1> QED
  BY <1>1, Invariance, PTL

\* A running shell is owned by exactly one pane, or by the caller of
\* detachActive().
THEOREM ShellsOwnedOnce == Spec => []SessionOwnership
<1>1. IInv => SessionOwnership
  BY DEF IInv
<1> QED
  BY <1>1, Invariance, PTL

\* The tab stays well formed: the four theorems above in one, as the runs check
\* it.
THEOREM PanesStaySound == Spec => []PanesSound
BY TypeCorrect, TreeShapeHolds, PointersNeverDangle, ShellsOwnedOnce, PTL DEF PanesSound

-----------------------------------------------------------------------------
(* What a step may end.                                                     *)

\* The shells that `ended` names are those a step may end.
Allowed ==
  LET ended == alive \ alive'
      focus == heap[active].session
  IN ended # {} => \/ ended = {focus} /\ Hosted(heap') = Hosted(heap) \ ended
                   \/ ended = Hosted(heap) \ {focus} /\ Hosted(heap') = {focus}
                   \/ ended \subseteq detached /\ UNCHANGED heap

\* Closing the focused pane.
LEMMA CloseEnds == ASSUME IInv, CloseActive PROVE Allowed
<1>1. CASE CollapseActive /\ alive' = alive \ DestroyedWith({active})
  <2>1. DestroyedWith({active}) = {heap[active].session}
    BY ActiveShell DEF DestroyedWith
  <2>2. heap[active].session \in alive
    BY ActiveShell DEF IInv, SessionOwnership
  <2>3. alive \ alive' = {heap[active].session}
    BY <1>1, <2>1, <2>2
  <2> QED
    BY <1>1, <2>3, CollapseStep DEF Allowed
<1>2. CASE alive' = alive
  BY <1>2 DEF Allowed
<1> QED
  BY <1>1, <1>2 DEF CloseActive

\* Closing the other panes.
LEMMA CloseOthersEnds == ASSUME IInv, CloseOthers PROVE Allowed
<1>1. PICK k \in Node \ DOMAIN heap :
        heap' = ReplaceTree(heap, DOMAIN heap, k, heap[active].session)
  BY SubtreeOfRoot DEF CloseOthers, IInv
<1>2. Hosted(heap') = {heap[active].session}
  BY <1>1, ReplaceWhole, ActiveShell
<1>3. alive' = alive \ DestroyedWith(DOMAIN heap \ {active})
  BY SubtreeOfRoot DEF CloseOthers, IInv
<1>4. DestroyedWith(DOMAIN heap \ {active}) = Hosted(heap) \ {heap[active].session}
  BY ActiveShell DEF DestroyedWith, Hosted, Leaves, SessionsDistinct, IInv,
     SessionOwnership
<1>5. alive \ alive' = Hosted(heap) \ {heap[active].session}
  BY <1>3, <1>4 DEF IInv, SessionOwnership
<1> QED
  BY <1>2, <1>5 DEF Allowed

\* No step ends a shell it was not asked to end.
THEOREM NoOtherShellEnds == Spec => KillsOnlyItsTarget
<1>1. IInv /\ [Next]_vars => [Allowed]_vars
  <2> SUFFICES ASSUME IInv, Next PROVE Allowed
    OBVIOUS
  <2>1. CASE CloseActive
    BY <2>1, CloseEnds
  <2>2. CASE CloseOthers
    BY <2>2, CloseOthersEnds
  <2>3. ASSUME NEW s \in Session, DropDetached(s) PROVE Allowed
    BY <2>3 DEF DropDetached, Allowed
  <2>4. ASSUME alive \subseteq alive' PROVE Allowed
    BY <2>4 DEF Allowed
  <2>5. \/ \E p \in DOMAIN heap : SetActive(p)
        \/ \E s \in Session : SplitActive(s)
        \/ DetachActive \/ SwapActiveWithNext \/ MoveActiveForward
        \/ \E p \in DOMAIN heap \cup {Null} : SetZoom(p)
        \/ FocusDir \/ Layout
        => alive \subseteq alive'
    BY DEF SetActive, SplitActive, DetachActive, SwapActiveWithNext,
       MoveActiveForward, SetZoom, FocusDir, Layout
  <2> QED
    BY <2>1, <2>2, <2>3, <2>4, <2>5 DEF Next
<1>2. KillsOnlyItsTarget <=> [][Allowed]_vars
  BY DEF KillsOnlyItsTarget, Allowed
<1> QED
  BY <1>1, <1>2, Invariance, PTL DEF Spec
=============================================================================
