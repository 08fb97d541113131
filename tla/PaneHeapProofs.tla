--------------------------- MODULE PaneHeapProofs ---------------------------
(***************************************************************************)
(* What the pointer surgery of PaneHeap does to a well-formed tree, for    *)
(* every heap.  Nothing here is an induction over the tree: a tree is      *)
(* described by what every set of its panes must satisfy, and a set of the *)
(* new tree's panes is turned into one of the old tree's.                  *)
(***************************************************************************)
EXTENDS PaneHeap, TLAPS

\* Every pane can be reached from r.
AllBelow(h, r) ==
  \A S \in SUBSET DOMAIN h : ClosedUnderChildren(h, S, r) => S = DOMAIN h

\* h is made of trees.
IsForest(h) ==
  /\ IsHeap(h)
  /\ \A n \in DOMAIN h : LinksOf(h, n) /\ OwnedByParent(h, n)
  /\ WellFounded(h)

\* h is one tree, and r is its root.
IsTree(h, r) ==
  /\ IsForest(h)
  /\ r \in DOMAIN h /\ h[r].parent = Null
  /\ \A n \in DOMAIN h : h[n].parent = Null => n = r
  /\ AllBelow(h, r)

\* The types of a pane's fields.
LEMMA PaneFields ==
  ASSUME NEW h, IsHeap(h), NEW n \in DOMAIN h
  PROVE  /\ h[n] \in Pane /\ n \in Node
         /\ h[n].isSplit \in BOOLEAN
         /\ h[n].session \in Session \cup {Null}
         /\ h[n].a \in Node \cup {Null}
         /\ h[n].b \in Node \cup {Null}
         /\ h[n].parent \in Node \cup {Null}
<1>1. h[n] \in Pane /\ n \in Node
  BY DEF IsHeap
<1> QED
  BY <1>1 DEF Pane

\* A function whose values are panes is a heap.
LEMMA HeapByValues ==
  ASSUME NEW k, k = [n \in DOMAIN k |-> k[n]], DOMAIN k \subseteq Node,
         \A n \in DOMAIN k : k[n] \in Pane
  PROVE  IsHeap(k)
BY DEF IsHeap

-----------------------------------------------------------------------------
(* Splitting a leaf.                                                        *)

\* k is h with leaf p split into na, which keeps the shell of p, and nb.
IsSplitOf(k, h, p, na, nb, s) ==
  /\ k = [n \in DOMAIN k |-> k[n]]
  /\ DOMAIN k = DOMAIN h \cup {na, nb}
  /\ p \in DOMAIN h /\ ~h[p].isSplit
  /\ na \in Node /\ nb \in Node /\ na # nb
  /\ na \notin DOMAIN h /\ nb \notin DOMAIN h
  /\ k[na] = Leaf(h[p].session, p)
  /\ k[nb] = Leaf(s, p)
  /\ k[p] = [isSplit |-> TRUE, session |-> Null, a |-> na, b |-> nb,
             parent |-> h[p].parent]
  /\ \A n \in DOMAIN h : n # p => k[n] = h[n]

\* SplitHeap does that.
LEMMA SplitFields ==
  ASSUME NEW h, NEW p \in Leaves(h), NEW na \in Node, NEW nb \in Node,
         na # nb, na \notin DOMAIN h, nb \notin DOMAIN h, NEW s
  PROVE  IsSplitOf(SplitHeap(h, p, na, nb, s), h, p, na, nb, s)
BY DEF SplitHeap, Leaves, IsSplitOf

\* The types are right after a split.
LEMMA SplitIsHeap ==
  ASSUME NEW h, NEW k, NEW p, NEW na, NEW nb, NEW s \in Session,
         IsHeap(h), IsSplitOf(k, h, p, na, nb, s)
  PROVE  IsHeap(k)
<1>1. p \in Node /\ DOMAIN h \subseteq Node
      /\ h[p].session \in Session \cup {Null} /\ h[p].parent \in Node \cup {Null}
  BY PaneFields DEF IsSplitOf, IsHeap
<1>2. k[na] \in Pane
  BY <1>1 DEF IsSplitOf, Leaf, Pane
<1>3. k[nb] \in Pane
  BY <1>1 DEF IsSplitOf, Leaf, Pane
<1>4. k[p] \in Pane
  BY <1>1 DEF IsSplitOf, Pane
<1>5. ASSUME NEW n \in DOMAIN h, n # p
      PROVE  k[n] \in Pane
  BY <1>5, PaneFields DEF IsSplitOf
<1>6. \A n \in DOMAIN k : k[n] \in Pane
  BY <1>2, <1>3, <1>4, <1>5 DEF IsSplitOf
<1> QED
  BY <1>1, <1>6, HeapByValues DEF IsSplitOf

\* The links are right after a split.
LEMMA SplitLinks ==
  ASSUME NEW h, NEW k, NEW p, NEW na, NEW nb, NEW s \in Session, NEW r,
         IsTree(h, r), IsSplitOf(k, h, p, na, nb, s)
  PROVE  /\ r \in DOMAIN k /\ k[r].parent = Null
         /\ \A n \in DOMAIN k : LinksOf(k, n) /\ OwnedByParent(k, n)
         /\ \A n \in DOMAIN k : k[n].parent = Null => n = r
<1>1. p \in DOMAIN h /\ p # Null /\ na # Null /\ nb # Null /\ p # na /\ p # nb
  BY PaneFields, NullAssumption DEF IsSplitOf, IsTree, IsForest
<1>2. /\ ~k[na].isSplit /\ k[na].session = h[p].session
      /\ k[na].a = Null /\ k[na].b = Null /\ k[na].parent = p
  BY DEF IsSplitOf, Leaf
<1>3. /\ ~k[nb].isSplit /\ k[nb].session = s
      /\ k[nb].a = Null /\ k[nb].b = Null /\ k[nb].parent = p
  BY DEF IsSplitOf, Leaf
<1>4. /\ k[p].isSplit /\ k[p].session = Null /\ k[p].a = na /\ k[p].b = nb
      /\ k[p].parent = h[p].parent
  BY DEF IsSplitOf
<1>5. \A n \in DOMAIN h : n # p => k[n] = h[n]
  BY DEF IsSplitOf
<1>6. h[p].session \in Session /\ ~h[p].isSplit
  BY <1>1 DEF IsTree, IsForest, LinksOf, IsSplitOf
<1>7. \A n \in DOMAIN h : k[n].parent = h[n].parent
  BY <1>4, <1>5
<1>8. DOMAIN k = DOMAIN h \cup {na, nb}
  BY DEF IsSplitOf
<1>9. r \in DOMAIN k /\ k[r].parent = Null
  BY <1>7, <1>8 DEF IsTree, IsForest
<1>10. \A n \in DOMAIN k : k[n].parent = Null => n = r
  BY <1>1, <1>2, <1>3, <1>7, <1>8 DEF IsTree, IsForest
<1>11. LinksOf(k, na) /\ LinksOf(k, nb) /\ LinksOf(k, p)
  BY <1>1, <1>2, <1>3, <1>4, <1>6, <1>8 DEF LinksOf, IsSplitOf
<1>12. ASSUME NEW n \in DOMAIN h, n # p
       PROVE  LinksOf(k, n)
  <2>1. LinksOf(h, n) /\ k[n] = h[n]
    BY <1>5, <1>12 DEF IsTree, IsForest
  <2> QED
    BY <2>1, <1>7, <1>8 DEF LinksOf
<1>13. OwnedByParent(k, na) /\ OwnedByParent(k, nb)
  BY <1>1, <1>2, <1>3, <1>4, <1>8 DEF OwnedByParent, Children
<1>14. ASSUME NEW n \in DOMAIN h
       PROVE  OwnedByParent(k, n)
  <2>1. OwnedByParent(h, n) /\ k[n].parent = h[n].parent
    BY <1>7 DEF IsTree, IsForest
  <2>2. h[n].parent # Null => h[n].parent # p
    BY <2>1, <1>6 DEF OwnedByParent, Children
  <2> QED
    BY <2>1, <2>2, <1>5, <1>8 DEF OwnedByParent, Children
<1> QED
  BY <1>8, <1>9, <1>10, <1>11, <1>12, <1>13, <1>14

\* Nothing is circular after a split.
LEMMA SplitWellFounded ==
  ASSUME NEW h, NEW k, NEW p, NEW na, NEW nb, NEW s \in Session,
         WellFounded(h), IsSplitOf(k, h, p, na, nb, s)
  PROVE  WellFounded(k)
<1> SUFFICES ASSUME NEW S \in SUBSET DOMAIN k, S # {}
             PROVE  \E n \in S : Children(k, n) \cap S = {}
  BY DEF WellFounded
<1>1. CASE na \in S
  BY <1>1 DEF IsSplitOf, Leaf, Children
<1>2. CASE nb \in S
  BY <1>2 DEF IsSplitOf, Leaf, Children
<1>3. CASE na \notin S /\ nb \notin S
  <2>1. S \in SUBSET DOMAIN h
    BY <1>3 DEF IsSplitOf
  <2>2. PICK n \in S : Children(h, n) \cap S = {}
    BY <2>1 DEF WellFounded
  <2>3. Children(k, n) \cap S = {}
    BY <1>3, <2>1, <2>2 DEF IsSplitOf, Children
  <2> QED
    BY <2>3
<1> QED
  BY <1>1, <1>2, <1>3

\* Every pane can be reached after a split.
LEMMA SplitAllBelow ==
  ASSUME NEW h, NEW k, NEW p, NEW na, NEW nb, NEW s \in Session, NEW r,
         IsTree(h, r), IsSplitOf(k, h, p, na, nb, s)
  PROVE  AllBelow(k, r)
<1> SUFFICES ASSUME NEW S \in SUBSET DOMAIN k, ClosedUnderChildren(k, S, r)
             PROVE  S = DOMAIN k
  BY DEF AllBelow
<1> DEFINE T == S \cap DOMAIN h
<1>1. ASSUME NEW n \in T
      PROVE  Children(h, n) \subseteq T
  <2>1. CASE n = p
    BY <2>1 DEF IsSplitOf, Children
  <2>2. CASE n # p
    <3>1. Children(h, n) \subseteq S
      BY <2>2 DEF IsSplitOf, Children, ClosedUnderChildren
    <3>2. Children(h, n) \subseteq DOMAIN h
      BY DEF IsTree, IsForest, LinksOf, Children
    <3> QED
      BY <3>1, <3>2
  <2> QED
    BY <2>1, <2>2
<1>2. r \in T
  BY DEF ClosedUnderChildren, IsTree, IsForest
<1>3. T = DOMAIN h
  <2>1. ClosedUnderChildren(h, T, r)
    BY <1>1, <1>2 DEF ClosedUnderChildren
  <2> QED
    BY <2>1 DEF AllBelow, IsTree, IsForest
<1>4. na \in S /\ nb \in S
  BY <1>3 DEF IsSplitOf, ClosedUnderChildren, Children
<1> QED
  BY <1>3, <1>4 DEF IsSplitOf

\* A tree is a tree after a split.
LEMMA SplitTree ==
  ASSUME NEW h, NEW k, NEW p, NEW na, NEW nb, NEW s \in Session, NEW r,
         IsTree(h, r), IsSplitOf(k, h, p, na, nb, s)
  PROVE  IsTree(k, r)
<1>1. IsHeap(k)
  BY SplitIsHeap DEF IsTree, IsForest
<1>2. WellFounded(k)
  BY SplitWellFounded DEF IsTree, IsForest
<1> QED
  BY <1>1, <1>2, SplitLinks, SplitAllBelow DEF IsTree, IsForest

\* After a split the tree shows one shell more, and no shell twice.
LEMMA SplitHosted ==
  ASSUME NEW h, NEW k, NEW p, NEW na, NEW nb, NEW s \in Session,
         IsSplitOf(k, h, p, na, nb, s)
  PROVE  /\ Leaves(k) = (Leaves(h) \ {p}) \cup {na, nb}
         /\ Hosted(k) = Hosted(h) \cup {s}
         /\ SessionsDistinct(h) /\ s \notin Hosted(h) => SessionsDistinct(k)
<1>1. Leaves(k) = (Leaves(h) \ {p}) \cup {na, nb}
  BY DEF IsSplitOf, Leaves, Leaf
<1>2. /\ k[na].session = h[p].session /\ k[nb].session = s
      /\ \A n \in Leaves(h) \ {p} : k[n].session = h[n].session
      /\ p \in Leaves(h)
  BY DEF IsSplitOf, Leaves, Leaf
<1>3. Hosted(k) = Hosted(h) \cup {s}
  BY <1>1, <1>2 DEF Hosted
<1>4. ASSUME SessionsDistinct(h), s \notin Hosted(h)
      PROVE  SessionsDistinct(k)
  <2>1. \A n \in Leaves(h) : h[n].session # s
    BY <1>4 DEF Hosted
  <2> QED
    BY <1>1, <1>2, <1>4, <2>1 DEF SessionsDistinct
<1> QED
  BY <1>1, <1>3, <1>4

-----------------------------------------------------------------------------
(* Closing a leaf.                                                          *)

\* k is h without leaf p: its sibling sib is merged into its parent up.
IsCollapseOf(k, h, p, up, sib) ==
  /\ k = [n \in DOMAIN k |-> k[n]]
  /\ DOMAIN k = DOMAIN h \ {p, sib}
  /\ p \in DOMAIN h /\ ~h[p].isSplit
  /\ up \in DOMAIN h /\ up # Null /\ h[p].parent = up
  /\ h[up].isSplit /\ Children(h, up) = {p, sib} /\ p # sib
  /\ sib \in DOMAIN h /\ h[sib].parent = up
  /\ up # p /\ up # sib
  /\ k[up] = [h[sib] EXCEPT !.parent = h[up].parent]
  /\ \A n \in DOMAIN k : n # up /\ n \in Children(h, sib) =>
        k[n] = [h[n] EXCEPT !.parent = up]
  /\ \A n \in DOMAIN k : n # up /\ n \notin Children(h, sib) => k[n] = h[n]

\* CollapseHeap does that in a forest.
LEMMA CollapseFields ==
  ASSUME NEW h, IsForest(h), NEW p \in Leaves(h), h[p].parent # Null
  PROVE  IsCollapseOf(CollapseHeap(h, p), h, p, h[p].parent, Sibling(h, p))
<1> DEFINE up == h[p].parent
           sib == Sibling(h, p)
           k == CollapseHeap(h, p)
<1>1. p \in DOMAIN h /\ ~h[p].isSplit
  BY DEF Leaves
<1>2. up \in DOMAIN h /\ p \in Children(h, up) /\ LinksOf(h, up)
  BY <1>1 DEF IsTree, IsForest, OwnedByParent
<1>3. /\ h[up].isSplit /\ Children(h, up) = {p, sib} /\ p # sib
      /\ sib \in DOMAIN h /\ h[sib].parent = up
  BY <1>2 DEF Children, LinksOf, Sibling
<1>4. up # p /\ up # sib
  <2>1. {up} \in SUBSET DOMAIN h /\ {up} # {}
    BY <1>2
  <2>2. Children(h, up) \cap {up} = {}
    BY <2>1 DEF IsTree, IsForest, WellFounded
  <2> QED
    BY <2>2, <1>3
<1>5. up # Null
  OBVIOUS
<1>6. DOMAIN k = DOMAIN h \ {p, sib} /\ k = [n \in DOMAIN k |-> k[n]]
  BY DEF CollapseHeap
<1>7. /\ k[up] = [h[sib] EXCEPT !.parent = h[up].parent]
      /\ \A n \in DOMAIN k : n # up /\ n \in Children(h, sib) =>
            k[n] = [h[n] EXCEPT !.parent = up]
      /\ \A n \in DOMAIN k : n # up /\ n \notin Children(h, sib) => k[n] = h[n]
  BY <1>2, <1>4 DEF CollapseHeap
<1> HIDE DEF up, sib, k
<1> QED
  BY <1>1, <1>2, <1>3, <1>4, <1>5, <1>6, <1>7 DEF IsCollapseOf, up, sib, k

\* The panes of the heap after a close, field by field.
LEMMA CollapseValues ==
  ASSUME NEW h, NEW k, NEW p, NEW up, NEW sib,
         IsHeap(h), IsCollapseOf(k, h, p, up, sib)
  PROVE  /\ \A f \in DOMAIN k : f # up =>
                /\ k[f] \in Pane
                /\ k[f].isSplit = h[f].isSplit /\ k[f].session = h[f].session
                /\ k[f].a = h[f].a /\ k[f].b = h[f].b
                /\ k[f].parent = IF f \in Children(h, sib) THEN up ELSE h[f].parent
         /\ k[up] \in Pane
         /\ k[up].isSplit = h[sib].isSplit /\ k[up].session = h[sib].session
         /\ k[up].a = h[sib].a /\ k[up].b = h[sib].b
         /\ k[up].parent = h[up].parent
<1>1. ASSUME NEW f \in DOMAIN k, f # up
      PROVE  /\ k[f] \in Pane
             /\ k[f].isSplit = h[f].isSplit /\ k[f].session = h[f].session
             /\ k[f].a = h[f].a /\ k[f].b = h[f].b
             /\ k[f].parent = IF f \in Children(h, sib) THEN up ELSE h[f].parent
  <2>1. f \in DOMAIN h /\ h[f] \in Pane /\ up \in Node
    BY PaneFields DEF IsCollapseOf
  <2>2. CASE f \in Children(h, sib)
    <3>1. k[f] = [h[f] EXCEPT !.parent = up]
      BY <1>1, <2>2 DEF IsCollapseOf
    <3> QED
      BY <2>1, <2>2, <3>1 DEF Pane
  <2>3. CASE f \notin Children(h, sib)
    BY <1>1, <2>1, <2>3 DEF IsCollapseOf
  <2> QED
    BY <2>2, <2>3
<1>2. /\ k[up] \in Pane
      /\ k[up].isSplit = h[sib].isSplit /\ k[up].session = h[sib].session
      /\ k[up].a = h[sib].a /\ k[up].b = h[sib].b
      /\ k[up].parent = h[up].parent
  <2>1. h[sib] \in Pane /\ h[up].parent \in Node \cup {Null}
    BY PaneFields DEF IsCollapseOf
  <2>2. k[up] = [h[sib] EXCEPT !.parent = h[up].parent]
    BY DEF IsCollapseOf
  <2> QED
    BY <2>1, <2>2 DEF Pane
<1> QED
  BY <1>1, <1>2

\* The types are right after a close.
LEMMA CollapseIsHeap ==
  ASSUME NEW h, NEW k, NEW p, NEW up, NEW sib,
         IsHeap(h), IsCollapseOf(k, h, p, up, sib)
  PROVE  IsHeap(k)
<1>1. \A n \in DOMAIN k : k[n] \in Pane
  BY CollapseValues
<1>2. DOMAIN k \subseteq Node /\ k = [n \in DOMAIN k |-> k[n]]
  BY DEF IsCollapseOf, IsHeap
<1> QED
  BY <1>1, <1>2, HeapByValues

\* The children after a close: up has those of sib.
LEMMA CollapseChildren ==
  ASSUME NEW h, NEW k, NEW p, NEW up, NEW sib,
         IsHeap(h), IsCollapseOf(k, h, p, up, sib)
  PROVE  /\ Children(k, up) = Children(h, sib)
         /\ \A n \in DOMAIN k : n # up => Children(k, n) = Children(h, n)
<1>1. Children(k, up) = Children(h, sib)
  BY CollapseValues DEF Children
<1>2. ASSUME NEW n \in DOMAIN k, n # up
      PROVE  Children(k, n) = Children(h, n)
  BY <1>2, CollapseValues DEF Children
<1> QED
  BY <1>1, <1>2

\* Whose child a pane of a tree is.
LEMMA OneParent ==
  ASSUME NEW h, NEW r, IsTree(h, r), NEW n \in DOMAIN h,
         NEW c \in Children(h, n)
  PROVE  c \in DOMAIN h /\ h[c].parent = n /\ c # n /\ c # r
<1>1. LinksOf(h, n) /\ h[n].isSplit
  BY DEF IsTree, IsForest, Children
<1>2. c \in DOMAIN h /\ h[c].parent = n
  BY <1>1 DEF LinksOf, Children
<1>3. c # n
  <2>1. {n} \in SUBSET DOMAIN h /\ {n} # {}
    OBVIOUS
  <2>2. Children(h, n) \cap {n} = {}
    BY <2>1 DEF IsTree, IsForest, WellFounded
  <2> QED
    BY <2>2
<1>4. c # r
  BY <1>2, PaneFields, NullAssumption DEF IsTree, IsForest
<1> QED
  BY <1>2, <1>3, <1>4

\* Nothing is circular after a close.
LEMMA CollapseWellFounded ==
  ASSUME NEW h, NEW k, NEW p, NEW up, NEW sib,
         IsHeap(h), WellFounded(h), IsCollapseOf(k, h, p, up, sib)
  PROVE  WellFounded(k)
<1> SUFFICES ASSUME NEW S \in SUBSET DOMAIN k, S # {}
             PROVE  \E n \in S : Children(k, n) \cap S = {}
  BY DEF WellFounded
<1>1. CASE up \notin S
  <2>1. S \in SUBSET DOMAIN h
    BY DEF IsCollapseOf
  <2>2. PICK n \in S : Children(h, n) \cap S = {}
    BY <2>1 DEF WellFounded
  <2> QED
    BY <1>1, <2>2, CollapseChildren
<1>2. CASE up \in S
  <2> DEFINE T == S \cup {sib}
  <2>1. T \in SUBSET DOMAIN h /\ T # {}
    BY DEF IsCollapseOf
  <2>2. PICK n \in T : Children(h, n) \cap T = {}
    BY <2>1 DEF WellFounded
  <2>3. CASE n = sib
    <3>1. Children(k, up) \cap S = {}
      BY <2>2, <2>3, CollapseChildren
    <3> QED
      BY <3>1, <1>2
  <2>4. CASE n # sib
    <3>1. n \in S /\ n # up
      BY <2>2, <2>4 DEF IsCollapseOf
    <3>2. Children(k, n) \cap S = {}
      BY <3>1, <2>2, CollapseChildren
    <3> QED
      BY <3>1, <3>2
  <2> QED
    BY <2>3, <2>4
<1> QED
  BY <1>1, <1>2

\* Every pane can be reached after a close.
LEMMA CollapseAllBelow ==
  ASSUME NEW h, NEW k, NEW p, NEW up, NEW sib, NEW r,
         IsTree(h, r), IsCollapseOf(k, h, p, up, sib)
  PROVE  AllBelow(k, r)
<1> SUFFICES ASSUME NEW S \in SUBSET DOMAIN k, ClosedUnderChildren(k, S, r)
             PROVE  S = DOMAIN k
  BY DEF AllBelow
<1> DEFINE T == IF up \in S THEN S \cup {p, sib} ELSE S
<1>0. IsHeap(h)
  BY DEF IsTree, IsForest
<1>1. ASSUME NEW n \in T
      PROVE  Children(h, n) \subseteq T
  <2>1. CASE n = p
    BY <2>1 DEF IsCollapseOf, Children
  <2>2. CASE n = up
    BY <2>2 DEF IsCollapseOf
  <2>3. CASE n = sib
    <3>1. up \in S
      BY <2>3 DEF IsCollapseOf
    <3>2. Children(h, sib) \subseteq S
      BY <1>0, <3>1, CollapseChildren DEF ClosedUnderChildren
    <3> QED
      BY <2>3, <3>2
  <2>4. CASE n \in S /\ n # up
    BY <1>0, <2>4, CollapseChildren DEF ClosedUnderChildren
  <2> QED
    BY <2>1, <2>2, <2>3, <2>4
<1>2. r \in T /\ T \in SUBSET DOMAIN h
  BY DEF ClosedUnderChildren, IsCollapseOf
<1>3. T = DOMAIN h
  <2>1. ClosedUnderChildren(h, T, r)
    BY <1>1, <1>2 DEF ClosedUnderChildren
  <2> QED
    BY <1>2, <2>1 DEF AllBelow, IsTree, IsForest
<1> QED
  BY <1>3 DEF IsCollapseOf

\* The links are right after a close.
LEMMA CollapseLinks ==
  ASSUME NEW h, NEW k, NEW p, NEW up, NEW sib, NEW r,
         IsTree(h, r), IsCollapseOf(k, h, p, up, sib)
  PROVE  /\ r \in DOMAIN k /\ k[r].parent = Null
         /\ \A n \in DOMAIN k : LinksOf(k, n) /\ OwnedByParent(k, n)
         /\ \A n \in DOMAIN k : k[n].parent = Null => n = r
<1>0. IsHeap(h)
  BY DEF IsTree, IsForest
<1>1. r \in DOMAIN k
  BY DEF IsTree, IsForest, IsCollapseOf
<1>2. \A n \in DOMAIN k :
        k[n].parent = IF n \in Children(h, sib) THEN up ELSE h[n].parent
  <2>1. up \notin Children(h, sib)
    <3>1. {up, sib} \in SUBSET DOMAIN h /\ {up, sib} # {}
      BY DEF IsCollapseOf
    <3>2. Children(h, up) \cap {up, sib} = {} \/ Children(h, sib) \cap {up, sib} = {}
      BY <3>1 DEF IsTree, IsForest, WellFounded
    <3> QED
      BY <3>2 DEF IsCollapseOf
  <2> QED
    BY <1>0, <2>1, CollapseValues
<1>3. /\ k[r].parent = Null
      /\ \A n \in DOMAIN k : k[n].parent = Null => n = r
  <2>1. r \notin Children(h, sib)
    BY OneParent DEF IsCollapseOf
  <2> QED
    BY <1>1, <1>2, <2>1 DEF IsTree, IsForest, IsCollapseOf
<1>4. ASSUME NEW n \in DOMAIN k
      PROVE  OwnedByParent(k, n)
  <2>1. CASE n \in Children(h, sib)
    <3>1. k[n].parent = up /\ up \in DOMAIN k
      BY <1>2, <2>1 DEF IsCollapseOf
    <3>2. n \in Children(k, up)
      BY <1>0, <2>1, CollapseChildren
    <3> QED
      BY <3>1, <3>2 DEF OwnedByParent
  <2>2. CASE n \notin Children(h, sib)
    <3>1. k[n].parent = h[n].parent /\ n \in DOMAIN h /\ n # p /\ n # sib
      BY <1>2, <2>2 DEF IsCollapseOf
    <3>2. OwnedByParent(h, n)
      BY <3>1 DEF IsTree, IsForest
    <3> SUFFICES ASSUME k[n].parent # Null
                 PROVE  k[n].parent \in DOMAIN k /\ n \in Children(k, k[n].parent)
      BY DEF OwnedByParent
    <3> DEFINE q == h[n].parent
    <3>3. q \in DOMAIN h /\ n \in Children(h, q)
      BY <3>1, <3>2 DEF OwnedByParent
    <3>4. q # p /\ q # sib /\ q # up
      BY <2>2, <3>1, <3>3 DEF IsCollapseOf, Children
    <3>5. q \in DOMAIN k
      BY <3>3, <3>4 DEF IsCollapseOf
    <3>6. n \in Children(k, q)
      BY <1>0, <3>3, <3>4, <3>5, CollapseChildren
    <3> QED
      BY <3>1, <3>5, <3>6
  <2> QED
    BY <2>1, <2>2
<1>5. ASSUME NEW n \in DOMAIN k
      PROVE  LinksOf(k, n)
  <2> DEFINE m == IF n = up THEN sib ELSE n
  <2>1. m \in DOMAIN h /\ m # p /\ m # up
    BY DEF IsCollapseOf
  <2>2. /\ k[n].isSplit = h[m].isSplit /\ k[n].session = h[m].session
        /\ k[n].a = h[m].a /\ k[n].b = h[m].b
    BY <1>0, CollapseValues
  <2>3. LinksOf(h, m)
    BY <2>1 DEF IsTree, IsForest
  <2>4. ASSUME NEW c \in Children(h, m)
        PROVE  c \in DOMAIN k /\ k[c].parent = n
    <3>1. c \in DOMAIN h /\ h[c].parent = m
      BY <2>1, OneParent
    <3>2. c # p /\ c # sib
      BY <2>1, <3>1 DEF IsCollapseOf
    <3>3. c \in DOMAIN k
      BY <3>1, <3>2 DEF IsCollapseOf
    <3>4. CASE n = up
      BY <1>2, <3>3, <3>4
    <3>5. CASE n # up
      <4>1. c \notin Children(h, sib)
        <5>1. c \in Children(h, sib) => h[c].parent = sib
          BY OneParent DEF IsCollapseOf
        <5>2. m = n /\ n # sib
          BY <3>5 DEF IsCollapseOf
        <5> QED
          BY <3>1, <5>1, <5>2
      <4> QED
        BY <1>2, <3>1, <3>3, <3>5, <4>1
    <3> QED
      BY <3>3, <3>4, <3>5
  <2> HIDE DEF m
  <2>5. CASE h[m].isSplit
    <3>1. \A c \in {h[m].a, h[m].b} : c \in DOMAIN k /\ k[c].parent = n
      BY <2>4, <2>5 DEF Children
    <3> QED
      BY <2>2, <2>3, <2>5, <3>1 DEF LinksOf
  <2>6. CASE ~h[m].isSplit
    BY <2>2, <2>3, <2>6 DEF LinksOf
  <2> QED
    BY <2>5, <2>6
<1> QED
  BY <1>1, <1>3, <1>4, <1>5

\* A tree is a tree after a close.
LEMMA CollapseTree ==
  ASSUME NEW h, NEW k, NEW p, NEW up, NEW sib, NEW r,
         IsTree(h, r), IsCollapseOf(k, h, p, up, sib)
  PROVE  IsTree(k, r)
<1>1. IsHeap(k)
  BY CollapseIsHeap DEF IsTree, IsForest
<1>2. WellFounded(k)
  BY CollapseWellFounded DEF IsTree, IsForest
<1> QED
  BY <1>1, <1>2, CollapseLinks, CollapseAllBelow DEF IsTree, IsForest

\* After a close the panes show every shell but the one of p.
LEMMA CollapseHosted ==
  ASSUME NEW h, NEW k, NEW p, NEW up, NEW sib,
         IsHeap(h), IsCollapseOf(k, h, p, up, sib), SessionsDistinct(h)
  PROVE  /\ Hosted(k) = Hosted(h) \ {h[p].session}
         /\ h[p].session \in Hosted(h)
         /\ SessionsDistinct(k)
<1> DEFINE Old(n) == IF n = up THEN sib ELSE n
<1>1. ASSUME NEW n \in Leaves(k)
      PROVE  /\ Old(n) \in Leaves(h) /\ Old(n) # p
             /\ k[n].session = h[Old(n)].session
  BY CollapseValues DEF IsCollapseOf, Leaves
<1>2. ASSUME NEW m \in Leaves(h), m # p
      PROVE  \E n \in Leaves(k) : k[n].session = h[m].session
  <2>1. CASE m = sib
    BY <2>1, CollapseValues DEF IsCollapseOf, Leaves
  <2>2. CASE m # sib
    BY <1>2, <2>2, CollapseValues DEF IsCollapseOf, Leaves
  <2> QED
    BY <2>1, <2>2
<1>3. p \in Leaves(h)
  BY DEF IsCollapseOf, Leaves
<1>4. Hosted(k) = Hosted(h) \ {h[p].session}
  <2>1. \A m \in Leaves(h) : m # p => h[m].session # h[p].session
    BY <1>3 DEF SessionsDistinct
  <2>2. Hosted(k) \subseteq Hosted(h) \ {h[p].session}
    BY <1>1, <2>1 DEF Hosted
  <2>3. Hosted(h) \ {h[p].session} \subseteq Hosted(k)
    BY <1>2 DEF Hosted
  <2> QED
    BY <2>2, <2>3
<1>5. SessionsDistinct(k)
  <2> SUFFICES ASSUME NEW m \in Leaves(k), NEW n \in Leaves(k), m # n
               PROVE  k[m].session # k[n].session
    BY DEF SessionsDistinct
  <2>1. Old(m) # Old(n)
    BY DEF IsCollapseOf, Leaves
  <2> QED
    BY <1>1, <2>1 DEF SessionsDistinct
<1> QED
  BY <1>3, <1>4, <1>5 DEF Hosted

-----------------------------------------------------------------------------
(* Moving shells, keeping one pane.                                         *)

\* Swapping the shells of two leaves keeps the trees and the shells in them.
LEMMA SwapForest ==
  ASSUME NEW h, IsForest(h), NEW x \in Leaves(h), NEW y \in Leaves(h)
  PROVE  LET k == SwapSessions(h, x, y)
         IN /\ IsForest(k)
            /\ DOMAIN k = DOMAIN h /\ Leaves(k) = Leaves(h)
            /\ \A n \in DOMAIN h : /\ Children(k, n) = Children(h, n)
                                   /\ k[n].parent = h[n].parent
            /\ Hosted(k) = Hosted(h)
            /\ SessionsDistinct(h) => SessionsDistinct(k)
<1> DEFINE k == SwapSessions(h, x, y)
<1>1. /\ x \in DOMAIN h /\ y \in DOMAIN h /\ ~h[x].isSplit /\ ~h[y].isSplit
      /\ h[x].session \in Session /\ h[y].session \in Session
  BY DEF Leaves, IsForest, LinksOf
<1>2. \A n \in DOMAIN h : h[n] \in Pane
  BY PaneFields DEF IsForest
<1>3. /\ DOMAIN k = DOMAIN h /\ k = [n \in DOMAIN k |-> k[n]]
      /\ \A n \in DOMAIN h :
           /\ k[n] \in Pane
           /\ k[n].isSplit = h[n].isSplit
           /\ k[n].a = h[n].a /\ k[n].b = h[n].b /\ k[n].parent = h[n].parent
           /\ k[n].session = IF n = y THEN h[x].session
                             ELSE IF n = x THEN h[y].session ELSE h[n].session
  <2>1. DOMAIN k = DOMAIN h /\ k = [n \in DOMAIN k |-> k[n]]
    BY DEF SwapSessions
  <2>2. ASSUME NEW n \in DOMAIN h
        PROVE  /\ k[n] \in Pane
               /\ k[n].isSplit = h[n].isSplit
               /\ k[n].a = h[n].a /\ k[n].b = h[n].b /\ k[n].parent = h[n].parent
               /\ k[n].session = IF n = y THEN h[x].session
                                 ELSE IF n = x THEN h[y].session ELSE h[n].session
    BY <1>1, <1>2 DEF SwapSessions, Pane
  <2> QED
    BY <2>1, <2>2
<1> HIDE DEF k
<1>4. \A n \in DOMAIN h : Children(k, n) = Children(h, n)
  BY <1>3 DEF Children
<1>5. IsHeap(k)
  BY <1>3, HeapByValues DEF IsForest, IsHeap
<1>7. ASSUME NEW n \in DOMAIN k
      PROVE  LinksOf(k, n) /\ OwnedByParent(k, n)
  <2>1. LinksOf(h, n) /\ OwnedByParent(h, n) /\ n \in DOMAIN h
    BY <1>3 DEF IsForest
  <2>2. OwnedByParent(k, n)
    BY <2>1, <1>3, <1>4 DEF OwnedByParent
  <2>3. CASE h[n].isSplit
    BY <2>1, <2>2, <2>3, <1>1, <1>3 DEF LinksOf
  <2>4. CASE ~h[n].isSplit
    BY <2>1, <2>2, <2>4, <1>1, <1>3 DEF LinksOf
  <2> QED
    BY <2>2, <2>3, <2>4
<1>8. WellFounded(k)
  BY <1>3, <1>4 DEF IsForest, WellFounded
<1>10. Leaves(k) = Leaves(h)
  BY <1>3 DEF Leaves
<1>11. Hosted(k) = Hosted(h)
  <2>1. ASSUME NEW n \in Leaves(h)
        PROVE  \E m \in Leaves(h) : k[m].session = h[n].session
    <3>1. k[IF n = x THEN y ELSE IF n = y THEN x ELSE n].session = h[n].session
      BY <1>1, <1>3 DEF Leaves
    <3> QED
      BY <3>1
  <2>2. ASSUME NEW n \in Leaves(h)
        PROVE  \E m \in Leaves(h) : h[m].session = k[n].session
    BY <1>3 DEF Leaves
  <2>3. Hosted(h) \subseteq Hosted(k)
    BY <1>10, <2>1 DEF Hosted
  <2>4. Hosted(k) \subseteq Hosted(h)
    BY <1>10, <2>2 DEF Hosted
  <2> QED
    BY <2>3, <2>4
<1>12. SessionsDistinct(h) => SessionsDistinct(k)
  BY <1>3, <1>10 DEF SessionsDistinct, Leaves
<1> QED
  BY <1>3, <1>4, <1>5, <1>7, <1>8, <1>10, <1>11, <1>12 DEF IsForest, k

\* In one tree, they keep the tree.
LEMMA SwapTree ==
  ASSUME NEW h, NEW r, IsTree(h, r), NEW x \in Leaves(h), NEW y \in Leaves(h)
  PROVE  LET k == SwapSessions(h, x, y)
         IN /\ IsTree(k, r)
            /\ Leaves(k) = Leaves(h)
            /\ Hosted(k) = Hosted(h)
            /\ SessionsDistinct(h) => SessionsDistinct(k)
<1> DEFINE k == SwapSessions(h, x, y)
<1>1. /\ IsForest(k) /\ DOMAIN k = DOMAIN h /\ Leaves(k) = Leaves(h)
      /\ \A n \in DOMAIN h : Children(k, n) = Children(h, n) /\ k[n].parent = h[n].parent
      /\ Hosted(k) = Hosted(h)
      /\ SessionsDistinct(h) => SessionsDistinct(k)
  BY SwapForest DEF IsTree
<1> HIDE DEF k
<1>2. r \in DOMAIN k /\ k[r].parent = Null
      /\ \A n \in DOMAIN k : k[n].parent = Null => n = r
  BY <1>1 DEF IsTree
<1>3. AllBelow(k, r)
  BY <1>1 DEF IsTree, AllBelow, ClosedUnderChildren
<1> QED
  BY <1>1, <1>2, <1>3 DEF IsTree, k

\* A single leaf is a tree.
LEMMA SinglePane ==
  ASSUME NEW q \in Node, NEW s \in Session
  PROVE  LET k == [n \in {q} |-> Leaf(s, Null)]
         IN /\ IsTree(k, q)
            /\ Leaves(k) = {q}
            /\ Hosted(k) = {s}
            /\ SessionsDistinct(k)
<1> DEFINE k == [n \in {q} |-> Leaf(s, Null)]
<1>1. DOMAIN k = {q} /\ k[q] = Leaf(s, Null) /\ k = [n \in DOMAIN k |-> k[n]]
  OBVIOUS
<1> HIDE DEF k
<1>2. /\ ~k[q].isSplit /\ k[q].session = s /\ k[q].a = Null /\ k[q].b = Null
      /\ k[q].parent = Null /\ k[q] \in Pane
  BY <1>1 DEF Leaf, Pane
<1>3. IsHeap(k)
  BY <1>1, <1>2, HeapByValues
<1>4. Children(k, q) = {}
  BY <1>2 DEF Children
<1>5. LinksOf(k, q) /\ OwnedByParent(k, q)
  BY <1>2 DEF LinksOf, OwnedByParent
<1>6. WellFounded(k) /\ AllBelow(k, q)
  BY <1>1, <1>4 DEF WellFounded, AllBelow, ClosedUnderChildren
<1>7. Leaves(k) = {q} /\ Hosted(k) = {s} /\ SessionsDistinct(k)
  BY <1>1, <1>2 DEF Leaves, Hosted, SessionsDistinct
<1> QED
  BY <1>1, <1>2, <1>3, <1>5, <1>6, <1>7 DEF IsTree, IsForest, k

\* It is what replacing the whole tree leaves.
LEMMA ReplaceWhole ==
  ASSUME NEW h, NEW q \in Node, NEW s \in Session
  PROVE  /\ IsTree(ReplaceTree(h, DOMAIN h, q, s), q)
         /\ Leaves(ReplaceTree(h, DOMAIN h, q, s)) = {q}
         /\ Hosted(ReplaceTree(h, DOMAIN h, q, s)) = {s}
         /\ SessionsDistinct(ReplaceTree(h, DOMAIN h, q, s))
<1> DEFINE k == [n \in {q} |-> Leaf(s, Null)]
<1>1. ReplaceTree(h, DOMAIN h, q, s) = k
  BY DEF ReplaceTree
<1>2. IsTree(k, q) /\ Leaves(k) = {q} /\ Hosted(k) = {s} /\ SessionsDistinct(k)
  BY SinglePane
<1> HIDE DEF k
<1> QED
  BY <1>1, <1>2

-----------------------------------------------------------------------------
(* Walks.                                                                   *)

\* `while (p->isSplit) p = p->a` ends at a leaf of
\* whatever holds n and all its descendants.
LEMMA FirstLeafIsLeaf ==
  ASSUME NEW h, IsForest(h), NEW n \in DOMAIN h
  PROVE  /\ FirstLeaf(h, n) \in Leaves(h)
         /\ \A S \in SUBSET DOMAIN h : ClosedUnderFirst(h, S, n) => FirstLeaf(h, n) \in S
<1> DEFINE W == LeftSpine(h, n)
<1>1. n \in W /\ W \in SUBSET DOMAIN h
  BY DEF LeftSpine, ClosedUnderFirst
<1>2. ASSUME NEW m \in W, h[m].isSplit
      PROVE  h[m].a \in W
  <2>1. h[m].a \in DOMAIN h
    BY <1>1, <1>2 DEF IsTree, IsForest, LinksOf
  <2>2. ASSUME NEW S \in SUBSET DOMAIN h, ClosedUnderFirst(h, S, n)
        PROVE  h[m].a \in S
    <3>1. m \in S
      BY <2>2 DEF LeftSpine
    <3> QED
      BY <3>1, <1>2, <2>2 DEF ClosedUnderFirst
  <2> QED
    BY <2>1, <2>2 DEF LeftSpine
<1> HIDE DEF W
<1>3. PICK m \in W : Children(h, m) \cap W = {}
  BY <1>1 DEF IsTree, IsForest, WellFounded
<1>4. ~h[m].isSplit
  BY <1>2, <1>3 DEF Children
<1>5. FirstLeaf(h, n) \in W /\ ~h[FirstLeaf(h, n)].isSplit
  BY <1>3, <1>4 DEF FirstLeaf, W
<1> QED
  BY <1>1, <1>5 DEF Leaves, LeftSpine, W

\* The root owns every pane.
LEMMA SubtreeOfRoot ==
  ASSUME NEW h, NEW r, IsTree(h, r)
  PROVE  Subtree(h, r) = DOMAIN h
BY DEF IsTree, IsForest, AllBelow, Subtree
=============================================================================
