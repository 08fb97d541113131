---------------------------- MODULE MCWindowTabs ----------------------------
(* WindowTabs with addresses and session names abstracted away.             *)
EXTENDS WindowTabs, FiniteSets

\* Two states that differ only in which address a pane has or which object a
\* session is are one state: what is kept of a tree is its shape and what the
\* window's variables say of each pane.
Mark(n) == <<n = selPane, n = dragDivider, heap[n].session \in marked>>

Drawing(t) ==
  LET draw[n \in DOMAIN heap] ==
        IF heap[n].isSplit
        THEN <<Mark(n), draw[heap[n].a], draw[heap[n].b]>>
        ELSE <<Mark(n), n = t.active, n = t.zoom>>
  IN <<t.zoom = Null, draw[t.root]>>

\* Following owning pointers down from a root then ends.
Drawable == /\ \A n \in DOMAIN heap : LinksOf(heap, n) /\ OwnedByParent(heap, n)
            /\ \A i \in DOMAIN tabs : heap[tabs[i].root].parent = Null

View ==
  <<IF Drawable THEN [i \in DOMAIN tabs |-> Drawing(tabs[i])] ELSE <<>>,
    Cardinality(DOMAIN heap), Cardinality(marked),
    activeTab, tabRects, selecting, selPane = Null, dragDivider = Null,
    PointersLive, tabDrag, fault>>
=============================================================================
