------------------------- MODULE WindowTabsProofs -------------------------
(***************************************************************************)
(* What holds of the window over its tabs for any set of addresses and     *)
(* sessions and any bound on the tabs. The invariant is that every tab has *)
(* a region of the heap to itself in which its panes are one tree, and     *)
(* that the regions cover the heap.                                        *)
(***************************************************************************)
EXTENDS WindowTabs, PaneHeapProofs, FiniteSetTheorems, SequenceTheorems

-----------------------------------------------------------------------------
(* What a pane owns.                                                        *)

\* In a forest the children of a pane are panes.
LEMMA ChildrenArePanes ==
  ASSUME NEW h, IsForest(h), NEW n \in DOMAIN h
  PROVE  Children(h, n) \subseteq DOMAIN h
BY DEF IsForest, LinksOf, Children

\* What a pane owns holds the pane and, with any pane, its children.
LEMMA SubtreeClosed ==
  ASSUME NEW h, IsForest(h), NEW n \in DOMAIN h
  PROVE  /\ n \in Subtree(h, n) /\ Subtree(h, n) \in SUBSET DOMAIN h
         /\ \A m \in Subtree(h, n) : Children(h, m) \subseteq Subtree(h, n)
<1>1. n \in Subtree(h, n) /\ Subtree(h, n) \in SUBSET DOMAIN h
  BY DEF Subtree, ClosedUnderChildren
<1>2. ASSUME NEW m \in Subtree(h, n), NEW c \in Children(h, m)
      PROVE  c \in Subtree(h, n)
  <2>1. c \in DOMAIN h
    BY <1>1, ChildrenArePanes
  <2>2. ASSUME NEW S \in SUBSET DOMAIN h, ClosedUnderChildren(h, S, n) PROVE c \in S
    BY <2>2 DEF Subtree, ClosedUnderChildren
  <2> QED
    BY <2>1, <2>2 DEF Subtree
<1> QED
  BY <1>1, <1>2

\* A pane owns itself and what its children own.
LEMMA SubtreeSplits ==
  ASSUME NEW h, IsForest(h), NEW n \in DOMAIN h
  PROVE  Subtree(h, n) = {n} \cup UNION {Subtree(h, c) : c \in Children(h, n)}
<1> DEFINE below == UNION {Subtree(h, c) : c \in Children(h, n)}
           S == {n} \cup below
<1>1. Children(h, n) \subseteq DOMAIN h
  BY ChildrenArePanes
<1>2. S \in SUBSET DOMAIN h
  BY <1>1 DEF Subtree
<1>3. ASSUME NEW m \in S, NEW c \in Children(h, m) PROVE c \in S
  <2>1. CASE m = n
    <3>1. c \in Subtree(h, c)
      BY <1>1, <2>1, SubtreeClosed
    <3> QED
      BY <2>1, <3>1
  <2>2. CASE m # n
    <3>1. PICK d \in Children(h, n) : m \in Subtree(h, d)
      BY <2>2
    <3>2. c \in Subtree(h, d)
      BY <1>1, <3>1, SubtreeClosed
    <3> QED
      BY <3>2
  <2> QED
    BY <2>1, <2>2
<1>4. Subtree(h, n) \subseteq S
  <2>1. n \in S
    OBVIOUS
  <2> HIDE DEF S
  <2> QED
    BY <1>2, <1>3, <2>1 DEF Subtree, ClosedUnderChildren
<1>5. ASSUME NEW c \in Children(h, n) PROVE Subtree(h, c) \subseteq Subtree(h, n)
  <2>1. c \in Subtree(h, n) /\ Subtree(h, n) \in SUBSET DOMAIN h
        /\ \A m \in Subtree(h, n) : Children(h, m) \subseteq Subtree(h, n)
    BY SubtreeClosed
  <2>2. ClosedUnderChildren(h, Subtree(h, n), c)
    BY <2>1 DEF ClosedUnderChildren
  <2> QED
    BY <2>1, <2>2 DEF Subtree
<1>6. n \in Subtree(h, n)
  BY SubtreeClosed
<1> QED
  BY <1>4, <1>5, <1>6

\* A table of what each pane owns.
TableOf(f, h) == [n \in DOMAIN h |-> {n} \cup UNION {f[c] : c \in Children(h, n)}]
Owns(f, h) == f = TableOf(f, h)

\* In a forest there is only one such table, and it is as Subtree says.
LEMMA OneTable ==
  ASSUME NEW h, IsForest(h)
  PROVE  /\ Owns([n \in DOMAIN h |-> Subtree(h, n)], h)
         /\ \A f : Owns(f, h) => \A n \in DOMAIN h : f[n] = Subtree(h, n)
<1> DEFINE g == [n \in DOMAIN h |-> Subtree(h, n)]
<1>1. ASSUME NEW n \in DOMAIN h
      PROVE  g[n] = {n} \cup UNION {g[c] : c \in Children(h, n)}
  <2>1. Children(h, n) \subseteq DOMAIN h
    BY ChildrenArePanes
  <2>2. \A c \in Children(h, n) : g[c] = Subtree(h, c)
    BY <2>1
  <2>3. g[n] = Subtree(h, n)
    OBVIOUS
  <2> HIDE DEF g
  <2>4. UNION {g[c] : c \in Children(h, n)} = UNION {Subtree(h, c) : c \in Children(h, n)}
    BY <2>2
  <2> QED
    BY <2>3, <2>4, SubtreeSplits
<1>2. Owns(g, h)
  <2>1. g = [n \in DOMAIN h |-> g[n]]
    OBVIOUS
  <2> HIDE DEF g
  <2> QED
    BY <1>1, <2>1 DEF Owns, TableOf
<1>3. ASSUME NEW f, Owns(f, h) PROVE \A n \in DOMAIN h : f[n] = Subtree(h, n)
  <2> DEFINE bad == {n \in DOMAIN h : f[n] # Subtree(h, n)}
  <2>1. ASSUME bad # {} PROVE FALSE
    <3>1. bad \in SUBSET DOMAIN h
      OBVIOUS
    <3>2. PICK n \in bad : Children(h, n) \cap bad = {}
      <4> HIDE DEF bad
      <4> QED
        BY <2>1, <3>1 DEF IsForest, WellFounded
    <3>3. n \in DOMAIN h /\ f[n] # Subtree(h, n)
      OBVIOUS
    <3>4. Children(h, n) \subseteq DOMAIN h
      BY <3>3, ChildrenArePanes
    <3>5. \A c \in Children(h, n) : f[c] = Subtree(h, c)
      BY <3>2, <3>4
    <3>6. f[n] = {n} \cup UNION {f[c] : c \in Children(h, n)}
      BY <1>3, <3>3 DEF Owns, TableOf
    <3>7. UNION {f[c] : c \in Children(h, n)} = UNION {Subtree(h, c) : c \in Children(h, n)}
      BY <3>5
    <3> QED
      BY <3>3, <3>6, <3>7, SubtreeSplits
  <2> QED
    BY <2>1
<1> QED
  BY <1>2, <1>3

\* What the walk down the owning pointers finds.
Walk(h, r) ==
  LET below[n \in DOMAIN h] == {n} \cup UNION {below[c] : c \in Children(h, n)}
  IN below[r]

\* The walk finds what the pane owns.
LEMMA WalkIsSubtree ==
  ASSUME NEW h, IsForest(h), NEW r \in DOMAIN h
  PROVE  Walk(h, r) = Subtree(h, r)
<1> DEFINE g == [n \in DOMAIN h |-> Subtree(h, n)]
           f == CHOOSE e : e = TableOf(e, h)
<1>1. g = TableOf(g, h)
  BY OneTable DEF Owns
<1>2. \E e : e = TableOf(e, h)
  <2> HIDE DEF g
  <2> QED
    BY <1>1
<1>3. f = TableOf(f, h)
  BY <1>2
<1>4. Walk(h, r) = f[r]
  BY DEF Walk, TableOf
<1> HIDE DEF f
<1>5. Owns(f, h)
  BY <1>3 DEF Owns
<1> QED
  BY <1>4, <1>5, OneTable

-----------------------------------------------------------------------------
(* Tabs: trees beside one another.                                          *)

\* The panes of R alone.
Part(h, R) == [n \in R |-> h[n]]

\* t is a tab of the panes R.
IsTab(h, t, R) ==
  /\ R \in SUBSET DOMAIN h
  /\ IsTree(Part(h, R), t.root)
  /\ t.active \in R \cap Leaves(h)
  /\ t.zoom \in (R \cap Leaves(h)) \cup {Null}

\* The tabs ts have the panes of h between them.
Grove(h, ts, reg) ==
  /\ DOMAIN reg = DOMAIN ts
  /\ \A i \in DOMAIN ts : IsTab(h, ts[i], reg[i])
  /\ \A i, j \in DOMAIN ts : i # j => reg[i] \cap reg[j] = {}
  /\ \A n \in DOMAIN h : \E i \in DOMAIN ts : n \in reg[i]

\* What a pane is does not depend on the panes beside the tree.
LEMMA PartFields ==
  ASSUME NEW h, NEW R \in SUBSET DOMAIN h, NEW k, k = Part(h, R)
  PROVE  /\ DOMAIN k = R /\ k = [n \in DOMAIN k |-> k[n]]
         /\ \A n \in R : k[n] = h[n] /\ Children(k, n) = Children(h, n)
         /\ Leaves(k) = R \cap Leaves(h)
<1>1. DOMAIN k = R /\ k = [n \in DOMAIN k |-> k[n]] /\ \A n \in R : k[n] = h[n]
  BY DEF Part
<1>2. Leaves(k) = R \cap Leaves(h)
  BY <1>1 DEF Leaves
<1> QED
  BY <1>1, <1>2 DEF Children

\* The links of a tab's panes.
LEMMA TabLinks ==
  ASSUME NEW h, NEW t, NEW R, IsTab(h, t, R), NEW n \in R
  PROVE  /\ n \in DOMAIN h /\ LinksOf(h, n) /\ OwnedByParent(h, n)
         /\ Children(h, n) \subseteq R
         /\ h[n].parent # Null => h[n].parent \in R
         /\ h[n].parent = Null <=> n = t.root
         /\ h[n] \in Pane /\ n \in Node
<1> DEFINE k == Part(h, R)
<1>1. /\ DOMAIN k = R /\ k = [m \in DOMAIN k |-> k[m]]
      /\ \A m \in R : k[m] = h[m] /\ Children(k, m) = Children(h, m)
  BY PartFields DEF IsTab
<1>2. IsTree(k, t.root) /\ n \in DOMAIN h
  BY DEF IsTab
<1> HIDE DEF k
<1>3. LinksOf(k, n) /\ OwnedByParent(k, n) /\ (k[n].parent = Null => n = t.root)
      /\ k[t.root].parent = Null
  BY <1>1, <1>2 DEF IsTree, IsForest
<1>4. R \subseteq DOMAIN h
  BY DEF IsTab
<1>5. LinksOf(h, n)
  BY <1>1, <1>3, <1>4 DEF LinksOf
<1>6. OwnedByParent(h, n) /\ (h[n].parent # Null => h[n].parent \in R)
  BY <1>1, <1>3, <1>4 DEF OwnedByParent
<1>7. Children(h, n) \subseteq R
  BY <1>1, <1>2, ChildrenArePanes DEF IsTree
<1>8. h[n].parent = Null <=> n = t.root
  BY <1>1, <1>3
<1>9. h[n] \in Pane /\ n \in Node
  BY <1>1, <1>2, PaneFields DEF IsTree, IsForest
<1> QED
  BY <1>2, <1>5, <1>6, <1>7, <1>8, <1>9

\* The panes of all tabs are a forest.
LEMMA GroveIsForest ==
  ASSUME NEW h, NEW ts, NEW reg, Grove(h, ts, reg), h = [n \in DOMAIN h |-> h[n]]
  PROVE  IsForest(h)
<1>1. ASSUME NEW n \in DOMAIN h
      PROVE /\ LinksOf(h, n) /\ OwnedByParent(h, n)
            /\ h[n] \in Pane /\ n \in Node
  <2>1. PICK i \in DOMAIN ts : n \in reg[i]
    BY DEF Grove
  <2>2. IsTab(h, ts[i], reg[i])
    BY DEF Grove
  <2> QED
    BY <2>1, <2>2, TabLinks
<1>2. IsHeap(h)
  BY <1>1, HeapByValues
<1>3. ASSUME NEW S \in SUBSET DOMAIN h, S # {}
      PROVE  \E n \in S : Children(h, n) \cap S = {}
  <2>1. PICK m \in S : TRUE
    BY <1>3
  <2>2. PICK i \in DOMAIN ts : m \in reg[i]
    BY DEF Grove
  <2>3. PICK R : R = reg[i]
    OBVIOUS
  <2>4. IsTab(h, ts[i], R)
    BY <2>3 DEF Grove
  <2> DEFINE k == Part(h, R)
             T == S \cap R
  <2>5. /\ DOMAIN k = R
        /\ \A n \in R : k[n] = h[n] /\ Children(k, n) = Children(h, n)
    BY <2>4, PartFields DEF IsTab
  <2>6. WellFounded(k)
    BY <2>4 DEF IsTab, IsTree, IsForest
  <2> HIDE DEF k
  <2>7. T \in SUBSET DOMAIN k /\ T # {}
    BY <2>2, <2>3, <2>5
  <2> HIDE DEF T
  <2>8. PICK n \in T : Children(k, n) \cap T = {}
    BY <2>6, <2>7 DEF WellFounded
  <2>9. n \in S /\ n \in R
    BY DEF T
  <2>10. Children(h, n) \subseteq R
    BY <2>4, <2>9, TabLinks
  <2> QED
    BY <2>5, <2>8, <2>9, <2>10 DEF T
<1> QED
  BY <1>1, <1>2, <1>3 DEF IsForest, WellFounded

\* What a tab's root owns is the tab's panes.
LEMMA SubtreeIsRegion ==
  ASSUME NEW h, NEW t, NEW R, IsTab(h, t, R)
  PROVE  Subtree(h, t.root) = R
<1> DEFINE k == Part(h, R)
<1>1. /\ DOMAIN k = R
      /\ \A m \in R : k[m] = h[m] /\ Children(k, m) = Children(h, m)
  BY PartFields DEF IsTab
<1>2. t.root \in R /\ AllBelow(k, t.root)
  BY <1>1 DEF IsTab, IsTree
<1> HIDE DEF k
<1>3. R \in SUBSET DOMAIN h
  BY DEF IsTab
<1>4. ClosedUnderChildren(h, R, t.root)
  BY <1>2, TabLinks DEF ClosedUnderChildren
<1>5. Subtree(h, t.root) \subseteq R
  BY <1>3, <1>4 DEF Subtree
<1>6. ASSUME NEW S \in SUBSET DOMAIN h, ClosedUnderChildren(h, S, t.root)
      PROVE  R \subseteq S
  <2> DEFINE T == S \cap R
  <2>1. ClosedUnderChildren(k, T, t.root)
    BY <1>1, <1>2, <1>4, <1>6 DEF ClosedUnderChildren
  <2>2. T \in SUBSET DOMAIN k
    BY <1>1
  <2>3. T = DOMAIN k
    <3> HIDE DEF T
    <3> QED
      BY <1>2, <2>1, <2>2 DEF AllBelow
  <2> QED
    BY <1>1, <2>3
<1>7. R \subseteq Subtree(h, t.root)
  BY <1>3, <1>6 DEF Subtree
<1> QED
  BY <1>5, <1>7

\* So is what the walk from the root finds.
LEMMA WalkIsRegion ==
  ASSUME NEW h, NEW ts, NEW reg, Grove(h, ts, reg), h = [n \in DOMAIN h |-> h[n]],
         NEW i \in DOMAIN ts
  PROVE  Walk(h, ts[i].root) = reg[i]
<1>1. IsForest(h) /\ IsTab(h, ts[i], reg[i])
  BY GroveIsForest DEF Grove
<1>2. DOMAIN Part(h, reg[i]) = reg[i]
  BY DEF Part
<1>3. ts[i].root \in DOMAIN h
  BY <1>1, <1>2 DEF IsTab, IsTree
<1> QED
  BY <1>1, <1>3, WalkIsSubtree, SubtreeIsRegion

-----------------------------------------------------------------------------
(* How a grove changes.                                                     *)

\* Panes that stay as they are stay the same tab.
LEMMA SameTab ==
  ASSUME NEW h, NEW t, NEW R, IsTab(h, t, R), NEW k, R \in SUBSET DOMAIN k,
         \A n \in R : k[n] = h[n]
  PROVE  IsTab(k, t, R)
<1>1. Part(k, R) = Part(h, R)
  BY DEF Part
<1>2. R \cap Leaves(k) = R \cap Leaves(h)
  BY DEF Leaves, IsTab
<1> QED
  BY <1>1, <1>2 DEF IsTab

\* us and ts differ in tab a at most.
OnlyAt(us, ts, a) ==
  DOMAIN us = DOMAIN ts /\ \A i \in DOMAIN ts : i # a => us[i] = ts[i]

\* One tab is given other panes, or another focus.
LEMMA OneTab ==
  ASSUME NEW h, NEW ts, NEW reg, Grove(h, ts, reg), NEW a \in DOMAIN ts,
         NEW k, NEW us, NEW R,
         OnlyAt(us, ts, a),
         IsTab(k, us[a], R), R \cap (DOMAIN h \ reg[a]) = {},
         DOMAIN k = (DOMAIN h \ reg[a]) \cup R,
         \A n \in DOMAIN h \ reg[a] : k[n] = h[n]
  PROVE  \E new : Grove(k, us, new)
<1> DEFINE new == [reg EXCEPT ![a] = R]
<1>1. DOMAIN new = DOMAIN us /\ new[a] = R /\ \A i \in DOMAIN ts : i # a => new[i] = reg[i]
  BY DEF Grove, OnlyAt
<1>0. DOMAIN us = DOMAIN ts /\ \A i \in DOMAIN ts : i # a => us[i] = ts[i]
  BY DEF OnlyAt
<1> HIDE DEF new
<1>2. ASSUME NEW i \in DOMAIN ts, i # a
      PROVE  IsTab(k, us[i], new[i]) /\ new[i] \in SUBSET (DOMAIN h \ reg[a])
  <2>1. IsTab(h, ts[i], reg[i]) /\ reg[i] \cap reg[a] = {}
    BY <1>2 DEF Grove
  <2>2. reg[i] \in SUBSET (DOMAIN h \ reg[a])
    BY <2>1 DEF IsTab
  <2>3. reg[i] \in SUBSET DOMAIN k /\ \A n \in reg[i] : k[n] = h[n]
    BY <2>2
  <2>4. IsTab(k, ts[i], reg[i])
    BY <2>1, <2>3, SameTab
  <2> QED
    BY <1>0, <1>1, <1>2, <2>2, <2>4
<1>3. \A i \in DOMAIN us : IsTab(k, us[i], new[i])
  BY <1>0, <1>1, <1>2
<1>4. ASSUME NEW i \in DOMAIN us, NEW j \in DOMAIN us, i # j PROVE new[i] \cap new[j] = {}
  <2>1. CASE i = a
    BY <1>0, <1>1, <1>2, <1>4, <2>1
  <2>2. CASE j = a
    BY <1>0, <1>1, <1>2, <1>4, <2>2
  <2>3. CASE i # a /\ j # a
    BY <1>0, <1>1, <1>4, <2>3 DEF Grove
  <2> QED
    BY <2>1, <2>2, <2>3
<1>5. ASSUME NEW n \in DOMAIN k PROVE \E i \in DOMAIN us : n \in new[i]
  <2>1. CASE n \in R
    BY <1>0, <1>1, <2>1
  <2>2. CASE n \notin R
    <3>1. n \in DOMAIN h /\ n \notin reg[a]
      BY <2>2
    <3>2. PICK i \in DOMAIN ts : n \in reg[i]
      BY <3>1 DEF Grove
    <3> QED
      BY <1>0, <1>1, <3>1, <3>2
  <2> QED
    BY <2>1, <2>2
<1> QED
  BY <1>1, <1>3, <1>4, <1>5 DEF Grove

\* A tab is added at the end.
LEMMA OneTabMore ==
  ASSUME NEW S, NEW h, NEW ts \in Seq(S), NEW reg, Grove(h, ts, reg),
         NEW k, NEW us, NEW t \in S, us = Append(ts, t), NEW R,
         IsTab(k, t, R), R \cap DOMAIN h = {}, DOMAIN k = DOMAIN h \cup R,
         \A n \in DOMAIN h : k[n] = h[n]
  PROVE  \E new : Grove(k, us, new)
<1> DEFINE last == Len(ts) + 1
           new == [i \in 1..last |-> IF i = last THEN R ELSE reg[i]]
<1>1. /\ Len(ts) \in Nat /\ DOMAIN ts = 1..Len(ts) /\ DOMAIN us = 1..last
      /\ us[last] = t /\ \A i \in DOMAIN ts : us[i] = ts[i]
  OBVIOUS
<1>2. /\ last \in DOMAIN us /\ last \notin DOMAIN ts
      /\ \A i \in DOMAIN us : i = last \/ i \in DOMAIN ts
      /\ DOMAIN ts \subseteq DOMAIN us
  BY <1>1
<1>3. /\ DOMAIN new = DOMAIN us /\ new[last] = R
      /\ \A i \in DOMAIN ts : new[i] = reg[i]
  BY <1>1, <1>2
<1> HIDE DEF new, last
<1>4. ASSUME NEW i \in DOMAIN ts PROVE IsTab(k, us[i], new[i]) /\ new[i] \in SUBSET DOMAIN h
  <2>1. IsTab(h, ts[i], reg[i])
    BY DEF Grove
  <2>2. reg[i] \in SUBSET DOMAIN k /\ \A n \in reg[i] : k[n] = h[n]
    BY <2>1 DEF IsTab
  <2>3. IsTab(k, ts[i], reg[i])
    BY <2>1, <2>2, SameTab
  <2>4. reg[i] \in SUBSET DOMAIN h
    BY <2>1 DEF IsTab
  <2> QED
    BY <1>1, <1>3, <2>3, <2>4
<1>5. \A i \in DOMAIN us : IsTab(k, us[i], new[i])
  BY <1>1, <1>2, <1>3, <1>4
<1>6. ASSUME NEW i \in DOMAIN us, NEW j \in DOMAIN us, i # j PROVE new[i] \cap new[j] = {}
  <2>1. CASE i = last
    BY <1>2, <1>3, <1>4, <1>6, <2>1
  <2>2. CASE j = last
    BY <1>2, <1>3, <1>4, <1>6, <2>2
  <2>3. CASE i # last /\ j # last
    BY <1>2, <1>3, <1>6, <2>3 DEF Grove
  <2> QED
    BY <2>1, <2>2, <2>3
<1>7. ASSUME NEW n \in DOMAIN k PROVE \E i \in DOMAIN us : n \in new[i]
  <2>1. CASE n \in R
    BY <1>2, <1>3, <2>1
  <2>2. CASE n \notin R
    <3>1. PICK i \in DOMAIN ts : n \in reg[i]
      BY <2>2 DEF Grove
    <3> QED
      BY <1>2, <1>3, <3>1
  <2> QED
    BY <2>1, <2>2
<1> QED
  BY <1>3, <1>5, <1>6, <1>7 DEF Grove

\* The tabs us are tabs of ts, each at most once, and k has their panes.
Picks(us, k, from, ts, h, reg) ==
  /\ from \in [DOMAIN us -> DOMAIN ts]
  /\ \A i \in DOMAIN us : us[i] = ts[from[i]]
  /\ \A i, j \in DOMAIN us : from[i] = from[j] => i = j
  /\ \A n \in DOMAIN k : k[n] = h[n] /\ \E i \in DOMAIN us : n \in reg[from[i]]
  /\ \A i \in DOMAIN us : reg[from[i]] \subseteq DOMAIN k

\* Tabs are put in another order, or some of them are closed.
LEMMA TabsPicked ==
  ASSUME NEW h, NEW ts, NEW reg, Grove(h, ts, reg),
         NEW k, NEW us, NEW from, Picks(us, k, from, ts, h, reg)
  PROVE  \E new : Grove(k, us, new)
<1> DEFINE new == [i \in DOMAIN us |-> reg[from[i]]]
<1>1. DOMAIN new = DOMAIN us /\ \A i \in DOMAIN us : new[i] = reg[from[i]]
  OBVIOUS
<1> HIDE DEF new
<1>2. /\ from \in [DOMAIN us -> DOMAIN ts]
      /\ \A i \in DOMAIN us : us[i] = ts[from[i]]
      /\ \A i, j \in DOMAIN us : from[i] = from[j] => i = j
      /\ \A n \in DOMAIN k : k[n] = h[n] /\ \E i \in DOMAIN us : n \in reg[from[i]]
      /\ \A i \in DOMAIN us : reg[from[i]] \subseteq DOMAIN k
  BY DEF Picks
<1>3. ASSUME NEW i \in DOMAIN us PROVE IsTab(k, us[i], new[i])
  <2>1. IsTab(h, ts[from[i]], reg[from[i]])
    BY <1>2 DEF Grove
  <2>2. reg[from[i]] \in SUBSET DOMAIN k
    BY <1>2
  <2> QED
    BY <1>1, <1>2, <2>1, <2>2, SameTab
<1>4. ASSUME NEW i \in DOMAIN us, NEW j \in DOMAIN us, i # j PROVE new[i] \cap new[j] = {}
  BY <1>1, <1>2, <1>4 DEF Grove
<1>5. \A n \in DOMAIN k : \E i \in DOMAIN us : n \in new[i]
  BY <1>1, <1>2
<1> QED
  BY <1>1, <1>3, <1>4, <1>5 DEF Grove

\* Another focus for tab a.
LEMMA GroveFocus ==
  ASSUME NEW h, h = [n \in DOMAIN h |-> h[n]],
         NEW ts, NEW reg, Grove(h, ts, reg), NEW a \in DOMAIN ts,
         NEW us, OnlyAt(us, ts, a),
         us[a].root = ts[a].root, us[a].active \in reg[a] \cap Leaves(h),
         us[a].zoom \in (reg[a] \cap Leaves(h)) \cup {Null}
  PROVE  \E new : Grove(h, us, new)
<1>1. IsTab(h, ts[a], reg[a])
  BY DEF Grove
<1>2. IsTab(h, us[a], reg[a])
  BY <1>1 DEF IsTab
<1>3. reg[a] \cap (DOMAIN h \ reg[a]) = {} /\ DOMAIN h = (DOMAIN h \ reg[a]) \cup reg[a]
  BY <1>1 DEF IsTab
<1> QED
  BY <1>2, <1>3, OneTab

\* Tab a's focused pane is split.
LEMMA GroveSplit ==
  ASSUME NEW h, h = [n \in DOMAIN h |-> h[n]],
         NEW ts, NEW reg, Grove(h, ts, reg), NEW a \in DOMAIN ts,
         NEW k, NEW na, NEW nb, NEW s \in Session,
         IsSplitOf(k, h, ts[a].active, na, nb, s),
         NEW us, OnlyAt(us, ts, a),
         us[a].root = ts[a].root, us[a].active = nb, us[a].zoom = Null
  PROVE  \E new : Grove(k, us, new)
<1>1. IsTab(h, ts[a], reg[a])
  BY DEF Grove
<1>2. PICK p, R, r : p = ts[a].active /\ R = reg[a] \cup {na, nb} /\ r = ts[a].root
  OBVIOUS
<1>3. p \in reg[a] /\ reg[a] \in SUBSET DOMAIN h
  BY <1>1, <1>2 DEF IsTab
<1>4. IsSplitOf(k, h, p, na, nb, s)
  BY <1>2
<1>5. /\ R \in SUBSET DOMAIN k /\ DOMAIN k = (DOMAIN h \ reg[a]) \cup R
      /\ R \cap (DOMAIN h \ reg[a]) = {}
      /\ \A n \in DOMAIN h \ reg[a] : k[n] = h[n]
  BY <1>2, <1>3, <1>4 DEF IsSplitOf
<1>6. PICK k1, h1 : k1 = Part(k, R) /\ h1 = Part(h, reg[a])
  OBVIOUS
<1>7. /\ DOMAIN k1 = R /\ k1 = [n \in DOMAIN k1 |-> k1[n]]
      /\ \A n \in R : k1[n] = k[n]
  BY <1>5, <1>6, PartFields
<1>8. DOMAIN h1 = reg[a] /\ \A n \in reg[a] : h1[n] = h[n]
  BY <1>3, <1>6, PartFields
<1>9. IsSplitOf(k1, h1, p, na, nb, s)
  BY <1>2, <1>3, <1>4, <1>7, <1>8 DEF IsSplitOf
<1>10. IsTree(h1, r)
  BY <1>1, <1>2, <1>6 DEF IsTab
<1>11. IsTree(k1, r)
  BY <1>9, <1>10, SplitTree
<1>12. nb \in R \cap Leaves(k)
  BY <1>2, <1>4 DEF IsSplitOf, Leaves, Leaf
<1>13. IsTab(k, us[a], R)
  BY <1>2, <1>5, <1>6, <1>11, <1>12 DEF IsTab
<1> QED
  BY <1>5, <1>13, OneTab

\* Tab a's focused pane, which has a parent, is closed; the focus goes to the
\* first leaf of what takes its place.
LEMMA GroveCollapse ==
  ASSUME NEW h, h = [n \in DOMAIN h |-> h[n]],
         NEW ts, NEW reg, Grove(h, ts, reg), NEW a \in DOMAIN ts,
         h[ts[a].active].parent # Null,
         NEW k, k = CollapseHeap(h, ts[a].active),
         NEW f, f = FirstLeaf(k, h[ts[a].active].parent),
         NEW us, OnlyAt(us, ts, a),
         us[a].root = ts[a].root, us[a].active = f, us[a].zoom = Null
  PROVE  /\ \E new : Grove(k, us, new)
         /\ IsCollapseOf(k, h, ts[a].active, h[ts[a].active].parent, Sibling(h, ts[a].active))
<1>1. IsTab(h, ts[a], reg[a]) /\ IsForest(h)
  BY GroveIsForest DEF Grove
<1>2. PICK p, up, sib, r, R, Q :
        /\ p = ts[a].active /\ up = h[p].parent /\ sib = Sibling(h, p)
        /\ r = ts[a].root /\ R = reg[a] \ {p, sib} /\ Q = reg[a]
  OBVIOUS
<1>3. p \in Q /\ p \in Leaves(h) /\ Q \in SUBSET DOMAIN h
  BY <1>1, <1>2 DEF IsTab
<1>4. IsCollapseOf(k, h, p, up, sib)
  BY <1>1, <1>2, <1>3, CollapseFields
<1>5. up \in Q /\ sib \in Q
  <2>1. up \in Q
    BY <1>1, <1>2, <1>3, <1>4, TabLinks DEF IsCollapseOf
  <2>2. Children(h, up) \subseteq Q
    BY <1>1, <1>2, <2>1, TabLinks
  <2> QED
    BY <1>4, <2>1, <2>2 DEF IsCollapseOf
<1>6. Children(h, sib) \subseteq Q /\ Children(h, up) \subseteq Q
  BY <1>1, <1>2, <1>5, TabLinks
<1>7. /\ R \in SUBSET DOMAIN k /\ DOMAIN k = (DOMAIN h \ reg[a]) \cup R
      /\ R \cap (DOMAIN h \ reg[a]) = {}
  BY <1>2, <1>3, <1>4, <1>5 DEF IsCollapseOf
<1>8. \A n \in DOMAIN h \ reg[a] : k[n] = h[n]
  BY <1>2, <1>3, <1>4, <1>5, <1>6, <1>7 DEF IsCollapseOf
<1>9. PICK k1, h1 : k1 = Part(k, R) /\ h1 = Part(h, Q)
  OBVIOUS
<1>10. /\ DOMAIN k1 = R /\ k1 = [n \in DOMAIN k1 |-> k1[n]]
       /\ \A n \in R : k1[n] = k[n]
  BY <1>7, <1>9, PartFields
<1>11. /\ DOMAIN h1 = Q
       /\ \A n \in Q : h1[n] = h[n] /\ Children(h1, n) = Children(h, n)
  BY <1>3, <1>9, PartFields
<1>12. IsCollapseOf(k1, h1, p, up, sib)
  <2>1. /\ h1[p] = h[p] /\ h1[up] = h[up] /\ h1[sib] = h[sib]
        /\ Children(h1, up) = Children(h, up) /\ Children(h1, sib) = Children(h, sib)
    BY <1>3, <1>5, <1>11
  <2>2. up \in R /\ k1[up] = k[up]
    BY <1>2, <1>4, <1>5, <1>10 DEF IsCollapseOf
  <2>3. /\ DOMAIN k1 = DOMAIN h1 \ {p, sib}
        /\ p \in DOMAIN h1 /\ up \in DOMAIN h1 /\ sib \in DOMAIN h1
    BY <1>2, <1>3, <1>5, <1>10, <1>11
  <2>4. k1[up] = [h1[sib] EXCEPT !.parent = h1[up].parent]
    BY <1>4, <2>1, <2>2 DEF IsCollapseOf
  <2>5. ASSUME NEW n \in DOMAIN k1, n # up, n \in Children(h1, sib)
        PROVE  k1[n] = [h1[n] EXCEPT !.parent = up]
    <3>1. n \in DOMAIN k /\ k1[n] = k[n] /\ h1[n] = h[n]
      BY <1>2, <1>7, <1>10, <1>11, <2>5
    <3> QED
      BY <1>4, <2>1, <2>5, <3>1 DEF IsCollapseOf
  <2>6. ASSUME NEW n \in DOMAIN k1, n # up, n \notin Children(h1, sib)
        PROVE  k1[n] = h1[n]
    <3>1. n \in DOMAIN k /\ k1[n] = k[n] /\ h1[n] = h[n]
      BY <1>2, <1>7, <1>10, <1>11, <2>6
    <3> QED
      BY <1>4, <2>1, <2>6, <3>1 DEF IsCollapseOf
  <2> QED
    BY <1>4, <1>10, <2>1, <2>3, <2>4, <2>5, <2>6 DEF IsCollapseOf
<1>13. IsTree(h1, r)
  BY <1>1, <1>2, <1>9 DEF IsTab
<1>14. IsTree(k1, r)
  BY <1>12, <1>13, CollapseTree
<1>15. f \in R \cap Leaves(k)
  <2>1. up \in R /\ up \in DOMAIN k
    BY <1>2, <1>4, <1>5 DEF IsCollapseOf
  <2>2. IsForest(k)
    <3>1. PICK g : g = FirstLeaf(k1, up)
      OBVIOUS
    <3>2. g \in Leaves(k1)
      BY <1>10, <1>14, <2>1, <3>1, FirstLeafIsLeaf DEF IsTree
    <3>3. g \in R \cap Leaves(k)
      BY <1>7, <1>9, <3>2, PartFields
    <3> DEFINE t == [root |-> r, active |-> g, zoom |-> Null]
               vs == [i \in DOMAIN ts |-> IF i = a THEN t ELSE ts[i]]
    <3>4. IsTab(k, t, R)
      BY <1>7, <1>9, <1>14, <3>3 DEF IsTab
    <3>5. OnlyAt(vs, ts, a) /\ vs[a] = t
      BY DEF OnlyAt
    <3> HIDE DEF t, vs
    <3>6. \E new : Grove(k, vs, new)
      BY <1>7, <1>8, <3>4, <3>5, OneTab
    <3> QED
      BY <1>4, <3>6, GroveIsForest DEF IsCollapseOf
  <2>3. ClosedUnderFirst(k, R, up)
    <3>1. ASSUME NEW n \in R, k[n].isSplit PROVE k[n].a \in R
      <4>1. k1[n] = k[n] /\ n \in DOMAIN k1
        BY <1>10
      <4>2. Children(k1, n) \subseteq DOMAIN k1
        BY <1>14, <4>1, ChildrenArePanes DEF IsTree
      <4> QED
        BY <1>10, <3>1, <4>1, <4>2 DEF Children
    <3> QED
      BY <2>1, <3>1 DEF ClosedUnderFirst
  <2>4. f = FirstLeaf(k, up)
    BY <1>2
  <2> QED
    BY <1>7, <2>1, <2>2, <2>3, <2>4, FirstLeafIsLeaf
<1>16. IsTab(k, us[a], R)
  BY <1>2, <1>7, <1>9, <1>14, <1>15 DEF IsTab
<1>17. \E new : Grove(k, us, new)
  BY <1>7, <1>8, <1>16, OneTab
<1> QED
  BY <1>2, <1>4, <1>17
\* Where the focus goes.
LEMMA CollapseFocus ==
  ASSUME NEW h, h = [n \in DOMAIN h |-> h[n]],
         NEW ts, NEW reg, Grove(h, ts, reg), NEW a \in DOMAIN ts,
         h[ts[a].active].parent # Null,
         NEW k, k = CollapseHeap(h, ts[a].active)
  PROVE  FirstLeaf(k, h[ts[a].active].parent) \in DOMAIN h
<1>1. PICK f : f = FirstLeaf(k, h[ts[a].active].parent)
  OBVIOUS
<1> DEFINE t == [root |-> ts[a].root, active |-> f, zoom |-> Null]
           us == [i \in DOMAIN ts |-> IF i = a THEN t ELSE ts[i]]
<1>2. OnlyAt(us, ts, a) /\ us[a] = t
  BY DEF OnlyAt
<1>3. us[a].root = ts[a].root /\ us[a].active = f /\ us[a].zoom = Null
  BY <1>2
<1> HIDE DEF us
<1>4. PICK new : Grove(k, us, new)
  BY <1>1, <1>2, <1>3, GroveCollapse
<1>5. IsCollapseOf(k, h, ts[a].active, h[ts[a].active].parent, Sibling(h, ts[a].active))
  BY <1>1, <1>2, <1>3, GroveCollapse
<1>6. a \in DOMAIN us
  BY <1>2 DEF OnlyAt
<1>7. f \in DOMAIN k
  BY <1>3, <1>4, <1>6 DEF Grove, IsTab, Leaves
<1> QED
  BY <1>1, <1>5, <1>7 DEF IsCollapseOf

-----------------------------------------------------------------------------
(* Shells that change hands.                                                *)

\* k and h differ in which shells their leaves show.
SameShape(k, h) ==
  /\ DOMAIN k = DOMAIN h /\ k = [n \in DOMAIN k |-> k[n]]
  /\ \A n \in DOMAIN h :
       /\ k[n] \in Pane
       /\ k[n].isSplit = h[n].isSplit
       /\ k[n].a = h[n].a /\ k[n].b = h[n].b /\ k[n].parent = h[n].parent
       /\ h[n].isSplit => k[n].session = h[n].session
       /\ ~h[n].isSplit => k[n].session \in Session

\* Trees stay trees.
LEMMA ShapeTree ==
  ASSUME NEW h, NEW r, IsTree(h, r), NEW k, SameShape(k, h)
  PROVE  IsTree(k, r) /\ Leaves(k) = Leaves(h)
<1>1. /\ DOMAIN k = DOMAIN h /\ k = [n \in DOMAIN k |-> k[n]]
      /\ \A n \in DOMAIN h :
           /\ k[n] \in Pane
           /\ k[n].isSplit = h[n].isSplit
           /\ k[n].a = h[n].a /\ k[n].b = h[n].b /\ k[n].parent = h[n].parent
           /\ h[n].isSplit => k[n].session = h[n].session
           /\ ~h[n].isSplit => k[n].session \in Session
  BY DEF SameShape
<1>2. \A n \in DOMAIN h : Children(k, n) = Children(h, n)
  BY <1>1 DEF Children
<1>3. IsHeap(k)
  BY <1>1, HeapByValues DEF IsTree, IsForest, IsHeap
<1>4. ASSUME NEW n \in DOMAIN k PROVE LinksOf(k, n) /\ OwnedByParent(k, n)
  <2>1. LinksOf(h, n) /\ OwnedByParent(h, n) /\ n \in DOMAIN h
    BY <1>1 DEF IsTree, IsForest
  <2>2. OwnedByParent(k, n)
    BY <2>1, <1>1, <1>2 DEF OwnedByParent
  <2>3. CASE h[n].isSplit
    <3>1. \A c \in {h[n].a, h[n].b} : c \in DOMAIN k /\ k[c].parent = n
      BY <1>1, <2>1, <2>3 DEF LinksOf
    <3>2. k[n].session = Null
      BY <1>1, <2>1, <2>3, NullAssumption DEF LinksOf
    <3> QED
      BY <1>1, <2>1, <2>2, <2>3, <3>1, <3>2 DEF LinksOf
  <2>4. CASE ~h[n].isSplit
    BY <2>1, <2>2, <2>4, <1>1 DEF LinksOf
  <2> QED
    BY <2>2, <2>3, <2>4
<1>5. WellFounded(k)
  BY <1>1, <1>2 DEF IsTree, IsForest, WellFounded
<1>6. AllBelow(k, r)
  BY <1>1, <1>2 DEF IsTree, AllBelow, ClosedUnderChildren
<1>7. r \in DOMAIN k /\ k[r].parent = Null /\ \A n \in DOMAIN k : k[n].parent = Null => n = r
  BY <1>1 DEF IsTree
<1>8. Leaves(k) = Leaves(h)
  BY <1>1 DEF Leaves
<1> QED
  BY <1>3, <1>4, <1>5, <1>6, <1>7, <1>8 DEF IsTree, IsForest

\* So do the tabs.
LEMMA GroveShape ==
  ASSUME NEW h, NEW ts, NEW reg, Grove(h, ts, reg), NEW k, SameShape(k, h)
  PROVE  Grove(k, ts, reg) /\ Leaves(k) = Leaves(h)
<1>1. DOMAIN k = DOMAIN h /\ Leaves(k) = Leaves(h)
  BY DEF SameShape, Leaves
<1>2. ASSUME NEW i \in DOMAIN ts PROVE IsTab(k, ts[i], reg[i])
  <2>1. IsTab(h, ts[i], reg[i])
    BY DEF Grove
  <2>2. PICK R, h1, k1, r :
          R = reg[i] /\ h1 = Part(h, R) /\ k1 = Part(k, R) /\ r = ts[i].root
    OBVIOUS
  <2>3. R \in SUBSET DOMAIN h /\ IsTree(h1, r)
    BY <2>1, <2>2 DEF IsTab
  <2>4. /\ DOMAIN h1 = R /\ DOMAIN k1 = R /\ k1 = [n \in DOMAIN k1 |-> k1[n]]
        /\ \A n \in R : h1[n] = h[n] /\ k1[n] = k[n]
    BY <1>1, <2>2, <2>3, PartFields
  <2>5. SameShape(k1, h1)
    BY <2>3, <2>4 DEF SameShape
  <2>6. IsTree(k1, r)
    BY <2>3, <2>5, ShapeTree
  <2> QED
    BY <1>1, <2>1, <2>2, <2>6 DEF IsTab
<1> QED
  BY <1>1, <1>2 DEF Grove

\* Two leaves exchange their shells.
LEMMA SwapShape ==
  ASSUME NEW h, IsForest(h), NEW x \in Leaves(h), NEW y \in Leaves(h),
         NEW k, k = SwapSessions(h, x, y)
  PROVE  SameShape(k, h)
<1>1. /\ x \in DOMAIN h /\ y \in DOMAIN h /\ ~h[x].isSplit /\ ~h[y].isSplit
      /\ h[x].session \in Session /\ h[y].session \in Session
  BY DEF Leaves, IsForest, LinksOf
<1>2. \A n \in DOMAIN h : h[n] \in Pane /\ (~h[n].isSplit => h[n].session \in Session)
  BY PaneFields DEF IsForest, LinksOf
<1>3. DOMAIN k = DOMAIN h /\ k = [n \in DOMAIN k |-> k[n]]
  BY DEF SwapSessions
<1>4. ASSUME NEW n \in DOMAIN h
      PROVE  /\ k[n] \in Pane
             /\ k[n].isSplit = h[n].isSplit
             /\ k[n].a = h[n].a /\ k[n].b = h[n].b /\ k[n].parent = h[n].parent
             /\ k[n].session = IF n = y THEN h[x].session
                               ELSE IF n = x THEN h[y].session ELSE h[n].session
  BY <1>1, <1>2 DEF SwapSessions, Pane
<1>5. \A n \in DOMAIN h :
        /\ h[n].isSplit => k[n].session = h[n].session
        /\ ~h[n].isSplit => k[n].session \in Session
  BY <1>1, <1>2, <1>4
<1> QED
  BY <1>3, <1>4, <1>5 DEF SameShape

WithSession(h, p, s) == [h EXCEPT ![p].session = s]

\* A leaf is given another shell.
LEMMA RestartShape ==
  ASSUME NEW h, IsForest(h), NEW p \in Leaves(h), NEW s \in Session,
         NEW k, k = WithSession(h, p, s)
  PROVE  /\ SameShape(k, h)
         /\ k[p].session = s /\ \A n \in DOMAIN h : n # p => k[n] = h[n]
<1>1. p \in DOMAIN h /\ ~h[p].isSplit
  BY DEF Leaves
<1>2. \A n \in DOMAIN h : h[n] \in Pane /\ (~h[n].isSplit => h[n].session \in Session)
  BY PaneFields DEF IsForest, LinksOf
<1>3. /\ DOMAIN k = DOMAIN h /\ k = [n \in DOMAIN k |-> k[n]]
      /\ \A n \in DOMAIN h : n # p => k[n] = h[n]
  BY DEF WithSession
<1>4. PICK u, v : u = k[p] /\ v = h[p]
  OBVIOUS
<1>5. v \in Pane /\ u = [v EXCEPT !.session = s]
  BY <1>1, <1>2, <1>4 DEF WithSession
<1>6. /\ u \in Pane /\ u.isSplit = v.isSplit /\ u.session = s
      /\ u.a = v.a /\ u.b = v.b /\ u.parent = v.parent
  BY <1>5 DEF Pane
<1> QED
  BY <1>1, <1>2, <1>3, <1>4, <1>6 DEF SameShape

\* Fewer panes, or the same ones, show no shell twice either.
LEMMA FewerSessions ==
  ASSUME NEW h, SessionsDistinct(h), NEW k, DOMAIN k \subseteq DOMAIN h,
         \A n \in DOMAIN k : k[n] = h[n]
  PROVE  SessionsDistinct(k)
BY DEF SessionsDistinct, Leaves

-----------------------------------------------------------------------------
(* The tab strip as a sequence.                                            *)

TabRecord == [root : Node, active : Node, zoom : Node \cup {Null}]

\* One tab of the sequence is written.
LEMMA OneWritten ==
  ASSUME NEW ts \in Seq(TabRecord), NEW a \in DOMAIN ts, NEW t \in TabRecord,
         NEW us, us = [ts EXCEPT ![a] = t]
  PROVE  /\ us \in Seq(TabRecord) /\ Len(us) = Len(ts) /\ OnlyAt(us, ts, a)
         /\ us[a] = t
BY DEF OnlyAt

WithFocus(ts, a, n, z) == [ts EXCEPT ![a].active = n, ![a].zoom = z]

\* Another focus and zoom.
LEMMA FocusWritten ==
  ASSUME NEW ts \in Seq(TabRecord), NEW a \in DOMAIN ts, NEW n \in Node, NEW z \in Node \cup {Null},
         NEW us, us = WithFocus(ts, a, n, z)
  PROVE  /\ us \in Seq(TabRecord) /\ Len(us) = Len(ts) /\ OnlyAt(us, ts, a)
         /\ us[a].root = ts[a].root /\ us[a].active = n /\ us[a].zoom = z
<1>1. PICK t, u : t = ts[a] /\ u = us[a]
  OBVIOUS
<1>2. t \in TabRecord /\ u = [t EXCEPT !.active = n, !.zoom = z]
  BY <1>1 DEF WithFocus
<1>3. u \in TabRecord /\ u.root = t.root /\ u.active = n /\ u.zoom = z
  BY <1>2 DEF TabRecord, OnePaneTab
<1>4. us = [ts EXCEPT ![a] = u]
  BY <1>1, <1>2 DEF WithFocus
<1>5. /\ us \in Seq(TabRecord) /\ Len(us) = Len(ts) /\ OnlyAt(us, ts, a)
      /\ us[a] = u
  BY <1>3, <1>4, OneWritten
<1> QED
  BY <1>1, <1>3, <1>5

WithActive(ts, a, n) == [ts EXCEPT ![a].active = n]

\* Another focus.
LEMMA ActiveWritten ==
  ASSUME NEW ts \in Seq(TabRecord), NEW a \in DOMAIN ts, NEW n \in Node,
         NEW us, us = WithActive(ts, a, n)
  PROVE  /\ us \in Seq(TabRecord) /\ Len(us) = Len(ts) /\ OnlyAt(us, ts, a)
         /\ us[a].root = ts[a].root /\ us[a].active = n /\ us[a].zoom = ts[a].zoom
<1>1. PICK t, u : t = ts[a] /\ u = us[a]
  OBVIOUS
<1>2. t \in TabRecord /\ u = [t EXCEPT !.active = n]
  BY <1>1 DEF WithActive
<1>3. u \in TabRecord /\ u.root = t.root /\ u.active = n /\ u.zoom = t.zoom
  BY <1>2 DEF TabRecord, OnePaneTab
<1>4. us = [ts EXCEPT ![a] = u]
  BY <1>1, <1>2 DEF WithActive
<1>5. /\ us \in Seq(TabRecord) /\ Len(us) = Len(ts) /\ OnlyAt(us, ts, a)
      /\ us[a] = u
  BY <1>3, <1>4, OneWritten
<1> QED
  BY <1>1, <1>3, <1>5

WithZoom(ts, a, z) == [ts EXCEPT ![a].zoom = z]

\* Another zoom.
LEMMA ZoomWritten ==
  ASSUME NEW ts \in Seq(TabRecord), NEW a \in DOMAIN ts, NEW z \in Node \cup {Null},
         NEW us, us = WithZoom(ts, a, z)
  PROVE  /\ us \in Seq(TabRecord) /\ Len(us) = Len(ts) /\ OnlyAt(us, ts, a)
         /\ us[a].root = ts[a].root /\ us[a].active = ts[a].active /\ us[a].zoom = z
<1>1. PICK t, u : t = ts[a] /\ u = us[a]
  OBVIOUS
<1>2. t \in TabRecord /\ u = [t EXCEPT !.zoom = z]
  BY <1>1 DEF WithZoom
<1>3. u \in TabRecord /\ u.root = t.root /\ u.active = t.active /\ u.zoom = z
  BY <1>2 DEF TabRecord, OnePaneTab
<1>4. us = [ts EXCEPT ![a] = u]
  BY <1>1, <1>2 DEF WithZoom
<1>5. /\ us \in Seq(TabRecord) /\ Len(us) = Len(ts) /\ OnlyAt(us, ts, a)
      /\ us[a] = u
  BY <1>3, <1>4, OneWritten
<1> QED
  BY <1>1, <1>3, <1>5

WithTab(ts, a, n) == [ts EXCEPT ![a].root = n, ![a].active = n, ![a].zoom = Null]

\* One new pane in place of the tree.
LEMMA TabWritten ==
  ASSUME NEW ts \in Seq(TabRecord), NEW a \in DOMAIN ts, NEW n \in Node,
         NEW us, us = WithTab(ts, a, n)
  PROVE  /\ us \in Seq(TabRecord) /\ Len(us) = Len(ts) /\ OnlyAt(us, ts, a)
         /\ us[a] = OnePaneTab(n)
<1>1. PICK t, u : t = ts[a] /\ u = us[a]
  OBVIOUS
<1>2. t \in TabRecord /\ u = [t EXCEPT !.root = n, !.active = n, !.zoom = Null]
  BY <1>1 DEF WithTab
<1>3. u \in TabRecord /\ u = OnePaneTab(n)
  BY <1>2 DEF TabRecord, OnePaneTab
<1>4. us = [ts EXCEPT ![a] = u]
  BY <1>1, <1>2 DEF WithTab
<1>50. u \in TabRecord
  BY <1>3
<1>5. /\ us \in Seq(TabRecord) /\ Len(us) = Len(ts) /\ OnlyAt(us, ts, a)
      /\ us[a] = u
  BY <1>50, <1>4, OneWritten
<1> QED
  BY <1>1, <1>3, <1>5

-----------------------------------------------------------------------------
(* Sequences of tabs.                                                       *)

\* RemoveAt(): what was right of i moves one place left.
LEMMA Removed ==
  ASSUME NEW S, NEW ts \in Seq(S), NEW i \in DOMAIN ts, NEW us, us = RemoveAt(ts, i)
  PROVE  /\ us \in Seq(S) /\ Len(us) = Len(ts) - 1 /\ Len(us) \in Nat
         /\ \A j \in DOMAIN us : /\ j < i => j \in DOMAIN ts /\ us[j] = ts[j]
                                 /\ j >= i => j + 1 \in DOMAIN ts /\ us[j] = ts[j + 1]
<1>1. PICK p, q : p = SubSeq(ts, 1, i - 1) /\ q = SubSeq(ts, i + 1, Len(ts))
  OBVIOUS
<1>2. /\ p \in Seq(S) /\ Len(p) = i - 1 /\ \A j \in 1..i - 1 : p[j] = ts[j]
  BY <1>1
<1>3. /\ q \in Seq(S) /\ Len(q) = Len(ts) - i
      /\ \A j \in 1..Len(ts) - i : q[j] = ts[i + j]
  BY <1>1
<1>4. us = p \o q
  BY <1>1 DEF RemoveAt
<1>5. us \in Seq(S) /\ Len(us) = Len(ts) - 1 /\ Len(us) \in Nat
  BY <1>2, <1>3, <1>4
<1>6. ASSUME NEW j \in DOMAIN us, j < i PROVE j \in DOMAIN ts /\ us[j] = ts[j]
  BY <1>2, <1>3, <1>4, <1>5, <1>6
<1>7. ASSUME NEW j \in DOMAIN us, j >= i PROVE j + 1 \in DOMAIN ts /\ us[j] = ts[j + 1]
  <2>1. j \in Nat /\ j <= Len(ts) - 1 /\ i \in Nat /\ i >= 1 /\ Len(ts) \in Nat
    BY <1>5
  <2>2. j - i + 1 \in 1..Len(ts) - i
    BY <1>7, <2>1
  <2>3. us[j] = q[j - i + 1]
    <3>1. us[j] = q[j - Len(p)] /\ j - Len(p) = j - i + 1
      BY <1>2, <1>3, <1>4, <1>5, <1>7, <2>1
    <3> QED
      BY <3>1
  <2> QED
    BY <1>3, <2>1, <2>2, <2>3
<1> QED
  BY <1>5, <1>6, <1>7

\* InsertAt(): from j on, one place right.
LEMMA Inserted ==
  ASSUME NEW S, NEW ts \in Seq(S), NEW j \in 1..Len(ts) + 1, NEW e \in S,
         NEW us, us = InsertAt(ts, j, e)
  PROVE  /\ us \in Seq(S) /\ Len(us) = Len(ts) + 1
         /\ us[j] = e
         /\ \A i \in DOMAIN us : /\ i < j => i \in DOMAIN ts /\ us[i] = ts[i]
                                 /\ i > j => i - 1 \in DOMAIN ts /\ us[i] = ts[i - 1]
<1>1. PICK p, q : p = SubSeq(ts, 1, j - 1) /\ q = SubSeq(ts, j, Len(ts))
  OBVIOUS
<1>2. /\ p \in Seq(S) /\ Len(p) = j - 1 /\ \A i \in 1..j - 1 : p[i] = ts[i]
  BY <1>1
<1>3. /\ q \in Seq(S) /\ Len(q) = Len(ts) - j + 1
      /\ \A i \in 1..Len(ts) - j + 1 : q[i] = ts[i + j - 1]
  BY <1>1
<1>4. us = p \o <<e>> \o q
  BY <1>1 DEF InsertAt
<1>5. PICK o : o = p \o <<e>>
  OBVIOUS
<1>6. /\ o \in Seq(S) /\ Len(o) = j /\ o[j] = e
      /\ \A i \in 1..j - 1 : o[i] = ts[i]
  BY <1>2, <1>5
<1>7. us = o \o q
  BY <1>4, <1>5
<1>8. us \in Seq(S) /\ Len(us) = Len(ts) + 1
  BY <1>3, <1>6, <1>7
<1>9. us[j] = e
  BY <1>3, <1>6, <1>7
<1>10. ASSUME NEW i \in DOMAIN us, i < j PROVE i \in DOMAIN ts /\ us[i] = ts[i]
  BY <1>3, <1>6, <1>7, <1>8, <1>10
<1>11. ASSUME NEW i \in DOMAIN us, i > j PROVE i - 1 \in DOMAIN ts /\ us[i] = ts[i - 1]
  <2>1. us[i] = q[i - j] /\ i - j \in 1..Len(ts) - j + 1
    BY <1>3, <1>6, <1>7, <1>8, <1>11
  <2> QED
    BY <1>3, <1>8, <1>11, <2>1
<1> QED
  BY <1>8, <1>9, <1>10, <1>11

\* SubSeq(): from first to last.
LEMMA Between ==
  ASSUME NEW S, NEW ts \in Seq(S), NEW first \in DOMAIN ts, NEW last \in DOMAIN ts,
         first <= last, NEW us, us = SubSeq(ts, first, last)
  PROVE  /\ us \in Seq(S) /\ Len(us) = last - first + 1
         /\ \A j \in DOMAIN us : first + j - 1 \in DOMAIN ts /\ us[j] = ts[first + j - 1]
OBVIOUS

\* A map of an interval to itself that sends no two places to one sends one to
\* every place.
LEMMA Permutes ==
  ASSUME NEW n \in Nat, NEW f \in Injection(1..n, 1..n), NEW m \in 1..n
  PROVE  \E i \in 1..n : f[i] = m
<1>1. IsFiniteSet(1..n)
  BY FS_Interval
<1>2. f \in Surjection(1..n, 1..n)
  BY <1>1, FS_Injection
<1> QED
  BY <1>2 DEF Surjection

-----------------------------------------------------------------------------
(* What the handlers make of panes and tabs.                               *)

\* One new pane is a tab of its own.
LEMMA OnePane ==
  ASSUME NEW k, NEW r \in Node, NEW s \in Session, r \in DOMAIN k,
         k[r] = Leaf(s, Null)
  PROVE  /\ IsTab(k, OnePaneTab(r), {r})
         /\ OnePaneTab(r) \in TabRecord
<1>1. Part(k, {r}) = [n \in {r} |-> Leaf(s, Null)]
  BY DEF Part
<1>2. IsTree(Part(k, {r}), r)
  BY <1>1, SinglePane
<1>3. r \in {r} \cap Leaves(k)
  BY DEF Leaves, Leaf
<1>4. PICK t : t = OnePaneTab(r)
  OBVIOUS
<1>5. t.root = r /\ t.active = r /\ t.zoom = Null
  BY <1>4 DEF OnePaneTab
<1>6. IsTab(k, t, {r})
  BY <1>2, <1>3, <1>5 DEF IsTab
<1> QED
  BY <1>4, <1>6 DEF OnePaneTab, TabRecord

\* Tab a's panes are freed and a new one takes their place.
LEMMA GroveReplace ==
  ASSUME NEW h, NEW ts, NEW reg, Grove(h, ts, reg), NEW a \in DOMAIN ts,
         NEW q \in Node, q \notin DOMAIN h, NEW s \in Session,
         NEW k, k = ReplaceTree(h, reg[a], q, s),
         NEW us, OnlyAt(us, ts, a),
         us[a] = OnePaneTab(q)
  PROVE  \E new : Grove(k, us, new)
<1>1. /\ DOMAIN k = (DOMAIN h \ reg[a]) \cup {q} /\ k[q] = Leaf(s, Null)
      /\ \A n \in DOMAIN h \ reg[a] : k[n] = h[n]
  BY DEF ReplaceTree
<1>2. IsTab(k, us[a], {q})
  BY <1>1, OnePane
<1> QED
  BY <1>1, <1>2, OneTab

\* A new pane is a new tab.
LEMMA GroveMore ==
  ASSUME NEW h, NEW ts \in Seq(TabRecord), NEW reg, Grove(h, ts, reg),
         NEW q \in Node, q \notin DOMAIN h, NEW s \in Session,
         NEW k, DOMAIN k = DOMAIN h \cup {q}, k[q] = Leaf(s, Null),
         \A n \in DOMAIN h : k[n] = h[n],
         NEW us, us = Append(ts, OnePaneTab(q))
  PROVE  \E new : Grove(k, us, new)
<1>1. IsTab(k, OnePaneTab(q), {q}) /\ OnePaneTab(q) \in TabRecord
  BY OnePane
<1>2. PICK t \in TabRecord : t = OnePaneTab(q)
  BY <1>1
<1> QED
  BY <1>1, <1>2, OneTabMore

\* Tab i is closed.
LEMMA GroveErase ==
  ASSUME NEW h, NEW ts \in Seq(TabRecord), NEW reg, Grove(h, ts, reg),
         NEW i \in DOMAIN ts,
         NEW k, k = [n \in DOMAIN h \ reg[i] |-> h[n]],
         NEW us, us = RemoveAt(ts, i)
  PROVE  \E new : Grove(k, us, new)
<1> DEFINE from == [j \in DOMAIN us |-> IF j < i THEN j ELSE j + 1]
<1>1. /\ us \in Seq(TabRecord) /\ Len(us) = Len(ts) - 1 /\ Len(us) \in Nat
      /\ \A j \in DOMAIN us : /\ j < i => j \in DOMAIN ts /\ us[j] = ts[j]
                              /\ j >= i => j + 1 \in DOMAIN ts /\ us[j] = ts[j + 1]
  BY Removed
<1>2. /\ DOMAIN us = 1..Len(ts) - 1 /\ DOMAIN ts = 1..Len(ts)
      /\ Len(ts) \in Nat /\ i \in Nat
  BY <1>1
<1>3. \A j \in DOMAIN us : /\ from[j] \in DOMAIN ts /\ us[j] = ts[from[j]]
                           /\ from[j] = IF j < i THEN j ELSE j + 1
  BY <1>1, <1>2
<1>4. from \in [DOMAIN us -> DOMAIN ts]
  BY <1>3
<1> HIDE DEF from
<1>5. \A j, m \in DOMAIN us : from[j] = from[m] => j = m
  BY <1>2, <1>3
<1>6. ASSUME NEW m \in DOMAIN ts, m # i PROVE \E j \in DOMAIN us : from[j] = m
  <2>1. CASE m < i
    <3>1. m \in DOMAIN us
      BY <1>2, <2>1
    <3> QED
      BY <1>3, <2>1, <3>1
  <2>2. CASE m > i
    <3>1. m - 1 \in DOMAIN us /\ ~(m - 1 < i) /\ m - 1 + 1 = m
      BY <1>2, <2>2
    <3> QED
      BY <1>3, <3>1
  <2> QED
    BY <1>2, <1>6, <2>1, <2>2
<1>7. \A j \in DOMAIN us : from[j] # i
  BY <1>2, <1>3
<1>8. /\ \A n \in DOMAIN k : k[n] = h[n] /\ \E j \in DOMAIN us : n \in reg[from[j]]
      /\ \A j \in DOMAIN us : reg[from[j]] \subseteq DOMAIN k
  <2>1. ASSUME NEW n \in DOMAIN h, n \notin reg[i]
        PROVE  \E j \in DOMAIN us : n \in reg[from[j]]
    <3>1. PICK m \in DOMAIN ts : n \in reg[m]
      BY DEF Grove
    <3> QED
      BY <1>6, <2>1, <3>1
  <2>2. ASSUME NEW j \in DOMAIN us, NEW n \in reg[from[j]]
        PROVE  n \in DOMAIN h /\ n \notin reg[i]
    BY <1>3, <1>7 DEF Grove, IsTab
  <2> QED
    BY <2>1, <2>2
<1>9. \A j \in DOMAIN us : us[j] = ts[from[j]]
  BY <1>3
<1>10. Picks(us, k, from, ts, h, reg)
  BY <1>4, <1>5, <1>8, <1>9 DEF Picks
<1> QED
  BY <1>10, TabsPicked

\* k has the panes of the tabs us, which are those of ts from first to last.
Cuts(us, k, first, last, ts, h, reg) ==
  /\ first \in DOMAIN ts /\ last \in DOMAIN ts /\ first <= last
  /\ us = SubSeq(ts, first, last)
  /\ \A n \in DOMAIN k : k[n] = h[n] /\ \E j \in DOMAIN us : n \in reg[first + j - 1]
  /\ \A j \in DOMAIN us : reg[first + j - 1] \subseteq DOMAIN k

\* The tabs from first to last are kept.
LEMMA GroveBetween ==
  ASSUME NEW h, NEW ts \in Seq(TabRecord), NEW reg, Grove(h, ts, reg),
         NEW us, NEW k, NEW first, NEW last, Cuts(us, k, first, last, ts, h, reg)
  PROVE  \E new : Grove(k, us, new)
<1>0. /\ first \in DOMAIN ts /\ last \in DOMAIN ts /\ first <= last
      /\ us = SubSeq(ts, first, last)
      /\ \A n \in DOMAIN k : k[n] = h[n] /\ \E j \in DOMAIN us : n \in reg[first + j - 1]
      /\ \A j \in DOMAIN us : reg[first + j - 1] \subseteq DOMAIN k
  BY DEF Cuts
<1> DEFINE from == [j \in DOMAIN us |-> first + j - 1]
<1>1. /\ us \in Seq(TabRecord) /\ Len(us) = last - first + 1
      /\ \A j \in DOMAIN us : first + j - 1 \in DOMAIN ts /\ us[j] = ts[first + j - 1]
  BY <1>0, Between
<1>2. \A j \in DOMAIN us : /\ from[j] \in DOMAIN ts /\ us[j] = ts[from[j]]
                           /\ from[j] = first + j - 1
  BY <1>1
<1>3. from \in [DOMAIN us -> DOMAIN ts]
  BY <1>2
<1> HIDE DEF from
<1>4. \A j, m \in DOMAIN us : from[j] = from[m] => j = m
  <2>1. first \in Nat /\ \A j \in DOMAIN us : j \in Nat
    BY <1>0, <1>1
  <2> QED
    BY <1>2, <2>1
<1>5. /\ \A n \in DOMAIN k : k[n] = h[n] /\ \E j \in DOMAIN us : n \in reg[from[j]]
      /\ \A j \in DOMAIN us : reg[from[j]] \subseteq DOMAIN k
  BY <1>0, <1>2
<1>6. \A j \in DOMAIN us : us[j] = ts[from[j]]
  BY <1>2
<1>7. Picks(us, k, from, ts, h, reg)
  BY <1>3, <1>4, <1>5, <1>6 DEF Picks
<1> QED
  BY <1>7, TabsPicked

\* The tabs us are the tabs ts in another order.
Reorders(us, ts, from, N) ==
  /\ N \in Nat /\ DOMAIN ts = 1..N /\ DOMAIN us = 1..N
  /\ from \in [1..N -> 1..N]
  /\ \A i, j \in 1..N : from[i] = from[j] => i = j
  /\ \A i \in 1..N : us[i] = ts[from[i]]

\* The tabs are put in another order.
LEMMA GroveOrder ==
  ASSUME NEW h, h = [n \in DOMAIN h |-> h[n]],
         NEW ts, NEW reg, Grove(h, ts, reg),
         NEW us, NEW from, NEW N, Reorders(us, ts, from, N)
  PROVE  \E new : Grove(h, us, new)
<1>0. /\ N \in Nat /\ DOMAIN ts = 1..N /\ DOMAIN us = 1..N
      /\ from \in [1..N -> 1..N]
      /\ \A i, j \in 1..N : from[i] = from[j] => i = j
      /\ \A i \in 1..N : us[i] = ts[from[i]]
  BY DEF Reorders
<1>1. ASSUME NEW n \in DOMAIN h PROVE \E i \in DOMAIN us : n \in reg[from[i]]
  <2>1. PICK m \in 1..N : n \in reg[m]
    BY <1>0 DEF Grove
  <2>2. from \in Injection(1..N, 1..N)
    BY <1>0 DEF Injection, IsInjective
  <2>3. PICK i \in 1..N : from[i] = m
    BY <1>0, <2>2, Permutes
  <2> QED
    BY <1>0, <2>1, <2>3
<1>2. ASSUME NEW i \in DOMAIN us PROVE reg[from[i]] \subseteq DOMAIN h
  <2>1. from[i] \in DOMAIN ts
    BY <1>0
  <2> QED
    BY <2>1 DEF Grove, IsTab
<1>3. from \in [DOMAIN us -> DOMAIN ts]
  BY <1>0
<1>4. Picks(us, h, from, ts, h, reg)
  BY <1>0, <1>1, <1>2, <1>3 DEF Picks
<1> QED
  BY <1>4, TabsPicked

\* Tab d is dragged to j.
LEMMA GroveMove ==
  ASSUME NEW h, h = [n \in DOMAIN h |-> h[n]],
         NEW ts \in Seq(TabRecord), NEW reg, Grove(h, ts, reg),
         NEW d \in DOMAIN ts, NEW j \in DOMAIN ts,
         NEW us, us = InsertAt(RemoveAt(ts, d), j, ts[d])
  PROVE  /\ us \in Seq(TabRecord) /\ Len(us) = Len(ts)
         /\ \E new : Grove(h, us, new)
<1> DEFINE N == Len(ts)
<1>1. PICK rs : rs = RemoveAt(ts, d)
  OBVIOUS
<1>2. /\ rs \in Seq(TabRecord) /\ Len(rs) = N - 1 /\ N \in Nat
      /\ \A m \in DOMAIN rs : /\ m < d => m \in DOMAIN ts /\ rs[m] = ts[m]
                              /\ m >= d => m + 1 \in DOMAIN ts /\ rs[m] = ts[m + 1]
  BY <1>1, Removed
<1>3. PICK e \in TabRecord : e = ts[d]
  OBVIOUS
<1>4. j \in 1..Len(rs) + 1 /\ us = InsertAt(rs, j, e)
  BY <1>1, <1>2, <1>3
<1>40. rs \in Seq(TabRecord)
  BY <1>2
<1>5. /\ us \in Seq(TabRecord) /\ Len(us) = N
      /\ us[j] = e
      /\ \A i \in DOMAIN us : /\ i < j => i \in DOMAIN rs /\ us[i] = rs[i]
                              /\ i > j => i - 1 \in DOMAIN rs /\ us[i] = rs[i - 1]
  <2>1. /\ us \in Seq(TabRecord) /\ Len(us) = Len(rs) + 1
        /\ us[j] = e
        /\ \A i \in DOMAIN us : /\ i < j => i \in DOMAIN rs /\ us[i] = rs[i]
                                /\ i > j => i - 1 \in DOMAIN rs /\ us[i] = rs[i - 1]
    BY ONLY <1>4, <1>40, Inserted, e \in TabRecord
  <2> QED
    BY <1>2, <2>1
<1> DEFINE left(m) == IF m < d THEN m ELSE m + 1
           from == [i \in 1..N |-> IF i = j THEN d
                                   ELSE IF i < j THEN left(i) ELSE left(i - 1)]
<1>6. DOMAIN us = 1..N /\ DOMAIN ts = 1..N /\ d \in 1..N /\ j \in 1..N /\ d \in Nat /\ j \in Nat
  BY <1>5
<1>7. ASSUME NEW i \in 1..N PROVE from[i] \in 1..N /\ us[i] = ts[from[i]]
  <2>1. CASE i = j
    BY <1>3, <1>5, <1>6, <2>1
  <2>2. CASE i < j
    BY <1>2, <1>5, <1>6, <2>2
  <2>3. CASE i > j
    BY <1>2, <1>5, <1>6, <2>3
  <2> QED
    BY <1>6, <2>1, <2>2, <2>3
<1>8. from \in [1..N -> 1..N]
  BY <1>7
<1>9. ASSUME NEW i \in 1..N, NEW m \in 1..N, from[i] = from[m] PROVE i = m
  BY <1>6, <1>9
<1> HIDE DEF from
<1>10. \A i, m \in 1..N : from[i] = from[m] => i = m
  BY <1>9
<1>11. \A i \in 1..N : us[i] = ts[from[i]]
  BY <1>7
<1>12. Reorders(us, ts, from, N)
  BY <1>2, <1>6, <1>8, <1>10, <1>11 DEF Reorders
<1> HIDE DEF N
<1>13. \E new : Grove(h, us, new)
  BY <1>12, GroveOrder
<1> QED
  BY <1>5, <1>13 DEF N

-----------------------------------------------------------------------------
(* The invariant.                                                          *)

\* The tabs have the panes between them, whatever moved between tabs.
Inv ==
  /\ TypeOK
  /\ Len(tabs) <= MaxTabs
  /\ SessionsDistinct(heap)
  /\ \E reg : Grove(heap, tabs, reg)

Gestures ==
  /\ selecting \in BOOLEAN
  /\ {selPane, dragDivider} \subseteq Node \cup {Null}
  /\ tabDrag \in 0..MaxTabs
  /\ fault \in {"none", "freed pane", "tab index"}

\* The types of what most handlers leave alone.
LEMMA InvTypes ==
  ASSUME Inv
  PROVE  /\ Gestures /\ marked \subseteq Hosted(heap) /\ SessionsDistinct(heap)
         /\ activeTab \in 1..MaxTabs /\ tabRects \in 0..MaxTabs
         /\ tabs \in Seq(TabRecord) /\ DOMAIN tabs = 1..Len(tabs)
         /\ Len(tabs) <= MaxTabs /\ Len(tabs) \in Nat /\ MaxTabs \in Nat
         /\ heap = [n \in DOMAIN heap |-> heap[n]]
         /\ (HasTab => activeTab \in DOMAIN tabs /\ Tab = tabs[activeTab])
<1>1. tabs \in Seq(TabRecord)
  BY Zenon DEF Inv, TypeOK, TabRecord
<1>2. /\ selecting \in BOOLEAN /\ {selPane, dragDivider} \subseteq Node \cup {Null}
      /\ tabDrag \in 0..MaxTabs /\ fault \in {"none", "freed pane", "tab index"}
      /\ marked \subseteq Hosted(heap) /\ SessionsDistinct(heap)
      /\ activeTab \in 1..MaxTabs /\ tabRects \in 0..MaxTabs
      /\ Len(tabs) <= MaxTabs /\ IsHeap(heap)
  BY Zenon DEF Inv, TypeOK
<1>3. Gestures
  BY <1>2 DEF Gestures
<1>4. heap = [n \in DOMAIN heap |-> heap[n]]
  BY <1>2 DEF IsHeap
<1>5. DOMAIN tabs = 1..Len(tabs) /\ Len(tabs) \in Nat /\ MaxTabs \in Nat
  BY <1>1, MaxTabsAssumption
<1> QED
  BY <1>1, <1>2, <1>3, <1>4, <1>5 DEF HasTab, Tab

\* What the invariant says of each tab, given the panes each has.
LEMMA Regions ==
  ASSUME Inv, NEW reg, Grove(heap, tabs, reg)
  PROVE  /\ heap = [n \in DOMAIN heap |-> heap[n]] /\ IsForest(heap)
         /\ tabs \in Seq(TabRecord) /\ DOMAIN tabs = 1..Len(tabs)
         /\ Len(tabs) <= MaxTabs /\ Len(tabs) \in Nat /\ MaxTabs \in Nat
         /\ \A i \in DOMAIN tabs :
              /\ Tree(tabs[i]) = reg[i] /\ reg[i] \in SUBSET DOMAIN heap
              /\ TabLeaves(tabs[i]) = reg[i] \cap Leaves(heap)
              /\ HitTest(tabs[i]) \subseteq reg[i] \cap Leaves(heap)
              /\ tabs[i].active \in reg[i] \cap Leaves(heap)
              /\ tabs[i].zoom \in (reg[i] \cap Leaves(heap)) \cup {Null}
              /\ tabs[i].root \in reg[i]
              /\ IsTab(heap, tabs[i], reg[i])
<1>1. heap = [n \in DOMAIN heap |-> heap[n]]
  BY InvTypes
<1>2. IsForest(heap)
  BY <1>1, GroveIsForest
<1>3. /\ tabs \in Seq(TabRecord) /\ DOMAIN tabs = 1..Len(tabs)
      /\ Len(tabs) <= MaxTabs /\ Len(tabs) \in Nat /\ MaxTabs \in Nat
  BY InvTypes
<1>4. ASSUME NEW i \in DOMAIN tabs
      PROVE  /\ Tree(tabs[i]) = reg[i] /\ reg[i] \in SUBSET DOMAIN heap
             /\ TabLeaves(tabs[i]) = reg[i] \cap Leaves(heap)
             /\ HitTest(tabs[i]) \subseteq reg[i] \cap Leaves(heap)
             /\ tabs[i].active \in reg[i] \cap Leaves(heap)
             /\ tabs[i].zoom \in (reg[i] \cap Leaves(heap)) \cup {Null}
             /\ tabs[i].root \in reg[i]
             /\ IsTab(heap, tabs[i], reg[i])
  <2>1. IsTab(heap, tabs[i], reg[i])
    BY DEF Grove
  <2>2. Walk(heap, tabs[i].root) = reg[i]
    BY <1>1, WalkIsRegion
  <2>3. Tree(tabs[i]) = Walk(heap, tabs[i].root)
    BY DEF Tree, Walk
  <2>4. Tree(tabs[i]) = reg[i]
    BY <2>2, <2>3
  <2>5. TabLeaves(tabs[i]) = reg[i] \cap Leaves(heap)
    BY <2>4 DEF TabLeaves
  <2>6. DOMAIN Part(heap, reg[i]) = reg[i]
    BY DEF Part
  <2> QED
    BY <2>1, <2>4, <2>5, <2>6 DEF HitTest, IsTab, IsTree
<1> QED
  BY <1>1, <1>2, <1>3, <1>4

\* The parts of the invariant.
LEMMA InvNext ==
  ASSUME tabs' \in Seq(TabRecord), Len(tabs') <= MaxTabs,
         activeTab' \in 1..MaxTabs, tabRects' \in 0..MaxTabs, Gestures',
         heap' = [n \in DOMAIN heap' |-> heap'[n]],
         marked' \subseteq Hosted(heap'), SessionsDistinct(heap'),
         \E new : Grove(heap', tabs', new)
  PROVE  Inv'
<1>1. IsHeap(heap')
  BY GroveIsForest DEF IsForest
<1> QED
  BY <1>1, Zenon DEF Inv, TypeOK, Gestures, TabRecord

\* clearSelection() leaves no mark on a session that is gone.
LEMMA ClearedOK ==
  ASSUME Inv, ClearSelection
  PROVE  Gestures' /\ marked' \subseteq Hosted(heap')
<1>1. MaxTabs \in Nat /\ Gestures
  BY InvTypes
<1>2. /\ selecting' = FALSE /\ selPane' = Null /\ dragDivider' = Null
      /\ tabDrag' = 0 /\ fault' = fault
      /\ marked' = (marked \ Selected) \cap Hosted(heap')
  BY DEF ClearSelection
<1>3. marked' \subseteq Hosted(heap')
  BY <1>2
<1>4. tabDrag' \in 0..MaxTabs
  BY <1>1, <1>2
<1>5. Gestures'
  BY <1>1, <1>2, <1>4, Zenon DEF Gestures
<1> QED
  BY <1>3, <1>5

\* A change of focus in one tab, or none.
LEMMA FocusOK ==
  ASSUME Inv, heap' = heap, NEW reg, Grove(heap, tabs, reg),
         NEW a \in DOMAIN tabs, tabs' \in Seq(TabRecord), Len(tabs') = Len(tabs),
         OnlyAt(tabs', tabs, a),
         tabs'[a].root = tabs[a].root, tabs'[a].active \in reg[a] \cap Leaves(heap),
         tabs'[a].zoom \in (reg[a] \cap Leaves(heap)) \cup {Null},
         activeTab' \in 1..MaxTabs, tabRects' \in 0..MaxTabs, Gestures',
         marked' \subseteq Hosted(heap')
  PROVE  Inv'
<1>1. heap = [n \in DOMAIN heap |-> heap[n]]
  BY Regions
<1>2. PICK us : us = tabs'
  OBVIOUS
<1>4. \E new : Grove(heap, us, new)
  BY <1>1, <1>2, GroveFocus
<1> QED
  BY <1>1, <1>2, <1>4, InvNext, InvTypes

\* No pane and no tab changes.
LEMMA SameOK ==
  ASSUME Inv, heap' = heap, tabs' = tabs,
         activeTab' \in 1..MaxTabs, tabRects' \in 0..MaxTabs, Gestures',
         marked' \subseteq Hosted(heap')
  PROVE  Inv'
<1>1. \E new : Grove(heap', tabs', new)
  BY DEF Inv
<1> QED
  BY <1>1, InvTypes, InvNext

-----------------------------------------------------------------------------
(* Tabs and panes.                                                          *)

\* The first tab.
LEMMA InitInv == Init => Inv
<1> SUFFICES ASSUME Init PROVE Inv
  OBVIOUS
<1>1. PICK r \in Node, s \in Session :
        /\ heap = [n \in {r} |-> Leaf(s, Null)]
        /\ tabs = <<OnePaneTab(r)>> /\ activeTab = 1 /\ tabRects = 0
        /\ selecting = FALSE /\ selPane = Null /\ dragDivider = Null
        /\ tabDrag = 0 /\ marked = {} /\ fault = "none"
  BY DEF Init
<1>2. IsTree(heap, r) /\ SessionsDistinct(heap)
  BY <1>1, SinglePane
<1>3. IsTab(heap, OnePaneTab(r), {r}) /\ OnePaneTab(r) \in TabRecord
  BY <1>1, OnePane
<1>4. PICK t \in TabRecord : t = OnePaneTab(r)
  BY <1>3
<1>5. /\ tabs = <<t>> /\ Len(tabs) = 1 /\ tabs \in Seq(TabRecord)
      /\ DOMAIN tabs = {1} /\ tabs[1] = t
  BY <1>1, <1>4
<1>6. PICK reg : reg = [i \in {1} |-> {r}]
  OBVIOUS
<1>7. Grove(heap, tabs, reg)
  <2>1. IsTab(heap, tabs[1], reg[1]) /\ DOMAIN reg = {1} /\ DOMAIN heap = reg[1]
    BY <1>1, <1>3, <1>4, <1>5, <1>6
  <2>2. DOMAIN tabs = {1}
    BY <1>5
  <2>3. \A i \in DOMAIN tabs : IsTab(heap, tabs[i], reg[i])
    BY <2>1, <2>2
  <2>4. \A i, j \in DOMAIN tabs : i # j => reg[i] \cap reg[j] = {}
    BY <2>2
  <2>5. 1 \in DOMAIN tabs /\ DOMAIN reg = DOMAIN tabs
    BY <2>1, <2>2
  <2>6. \A n \in DOMAIN heap : \E i \in DOMAIN tabs : n \in reg[i]
    BY <2>1, <2>5
  <2> QED
    BY <2>3, <2>4, <2>5, <2>6 DEF Grove
<1>8. Gestures /\ IsHeap(heap)
  <2>1. tabDrag \in 0..MaxTabs
    BY <1>1, MaxTabsAssumption
  <2> QED
    BY <1>1, <1>2, <2>1, Zenon DEF Gestures, IsTree, IsForest
<1>9. /\ activeTab \in 1..MaxTabs /\ tabRects \in 0..MaxTabs
      /\ marked \subseteq Hosted(heap) /\ Len(tabs) <= MaxTabs
  BY <1>1, <1>5, MaxTabsAssumption
<1> QED
  BY <1>2, <1>5, <1>7, <1>8, <1>9, Zenon DEF Inv, TypeOK, Gestures, TabRecord

\* newTabShell().
LEMMA NewTabInv == ASSUME Inv, NewTabShell PROVE Inv'
<1>1. PICK r \in Node \ DOMAIN heap, s \in Session \ Hosted(heap) :
        /\ heap' = [n \in DOMAIN heap \cup {r} |->
                      IF n = r THEN Leaf(s, Null) ELSE heap[n]]
        /\ tabs' = Append(tabs, OnePaneTab(r))
  BY DEF NewTabShell
<1>2. PICK reg : Grove(heap, tabs, reg)
  BY DEF Inv
<1>3. PICK k : k = heap'
  OBVIOUS
<1>4. /\ DOMAIN k = DOMAIN heap \cup {r} /\ k[r] = Leaf(s, Null)
      /\ \A n \in DOMAIN heap : k[n] = heap[n]
      /\ k = [n \in DOMAIN k |-> k[n]]
  BY <1>1, <1>3
<1>5. \E new : Grove(k, tabs', new)
  BY <1>1, <1>2, <1>4, InvTypes, GroveMore
<1>6. OnePaneTab(r) \in TabRecord
  BY <1>1 DEF OnePaneTab, TabRecord
<1>7. tabs' \in Seq(TabRecord) /\ Len(tabs') = Len(tabs) + 1
  BY <1>1, <1>6, InvTypes
<1>8. SessionsDistinct(k)
  BY <1>1, <1>4, InvTypes DEF SessionsDistinct, Leaves, Hosted, Leaf
<1>9. activeTab' \in 1..MaxTabs /\ tabRects' \in 0..MaxTabs /\ Len(tabs') <= MaxTabs
  BY <1>7, InvTypes DEF NewTabShell
<1>10. Gestures' /\ marked' \subseteq Hosted(heap')
  BY ClearedOK DEF NewTabShell
<1> QED
  BY <1>3, <1>4, <1>5, <1>7, <1>8, <1>9, <1>10, InvNext

\* Splitting the focused pane.
LEMMA SplitInv == ASSUME Inv, SplitActive PROVE Inv'
<1>1. PICK na \in Node \ DOMAIN heap, nb \in Node \ DOMAIN heap,
           s \in Session \ Hosted(heap) :
        /\ na # nb
        /\ heap' = SplitHeap(heap, Tab.active, na, nb, s)
        /\ tabs' = [tabs EXCEPT ![activeTab].active = nb, ![activeTab].zoom = Null]
  BY DEF SplitActive
<1>2. PICK reg : Grove(heap, tabs, reg)
  BY DEF Inv
<1>3. PICK k, us, a, p :
        /\ k = heap' /\ us = tabs' /\ a = activeTab
        /\ Tab = tabs[a] /\ a \in DOMAIN tabs /\ p = tabs[a].active
  BY InvTypes DEF SplitActive
<1>4. p \in Leaves(heap) /\ heap = [n \in DOMAIN heap |-> heap[n]]
  BY <1>2, <1>3, Regions
<1>5. IsSplitOf(k, heap, p, na, nb, s)
  BY <1>1, <1>3, <1>4, SplitFields
<1>6. us = WithFocus(tabs, a, nb, Null)
  BY <1>1, <1>3 DEF WithFocus
<1>7. /\ us \in Seq(TabRecord) /\ Len(us) = Len(tabs) /\ OnlyAt(us, tabs, a)
      /\ us[a].root = tabs[a].root /\ us[a].active = nb /\ us[a].zoom = Null
  <2>1. nb \in Node /\ Null \in Node \cup {Null} /\ a \in DOMAIN tabs
    BY <1>1, <1>3
  <2> QED
    BY <1>6, <2>1, InvTypes, FocusWritten
<1>8. \E new : Grove(k, us, new)
  BY <1>2, <1>3, <1>4, <1>5, <1>7, GroveSplit
<1>9. SessionsDistinct(k)
  BY <1>1, <1>5, SplitHosted, InvTypes
<1>10. k = [n \in DOMAIN k |-> k[n]]
  BY <1>5 DEF IsSplitOf
<1>11. activeTab' \in 1..MaxTabs /\ tabRects' \in 0..MaxTabs /\ Len(tabs') <= MaxTabs
  BY <1>3, <1>7, InvTypes DEF SplitActive
<1>12. Gestures' /\ marked' \subseteq Hosted(heap')
  BY ClearedOK DEF SplitActive
<1> QED
  BY <1>3, <1>7, <1>8, <1>9, <1>10, <1>11, <1>12, InvNext

-----------------------------------------------------------------------------
(* Handlers that close panes.                                              *)

\* Closing the focused pane, which is not its tab's only one.
LEMMA CollapseOK ==
  ASSUME Inv, NEW reg, Grove(heap, tabs, reg), NEW a \in DOMAIN tabs,
         heap[tabs[a].active].parent # Null,
         NEW k, k = CollapseHeap(heap, tabs[a].active),
         NEW f, f = FirstLeaf(k, heap[tabs[a].active].parent),
         NEW us, us = WithFocus(tabs, a, f, Null)
  PROVE  /\ us \in Seq(TabRecord) /\ Len(us) = Len(tabs)
         /\ \E new : Grove(k, us, new)
         /\ k = [n \in DOMAIN k |-> k[n]] /\ DOMAIN k \subseteq DOMAIN heap
         /\ SessionsDistinct(k)
         /\ Hosted(k) = Hosted(heap) \ {heap[tabs[a].active].session}
         /\ heap[tabs[a].active].session \in Hosted(heap)
<1>1. heap = [n \in DOMAIN heap |-> heap[n]] /\ IsForest(heap)
  BY Regions
<1>2. f \in DOMAIN heap
  BY <1>1, CollapseFocus
<1>3. f \in Node /\ IsHeap(heap)
  BY <1>1, <1>2 DEF IsForest, IsHeap
<1>4. /\ us \in Seq(TabRecord) /\ Len(us) = Len(tabs) /\ OnlyAt(us, tabs, a)
      /\ us[a].root = tabs[a].root /\ us[a].active = f /\ us[a].zoom = Null
  <2>1. Null \in Node \cup {Null} /\ tabs \in Seq(TabRecord)
    BY InvTypes
  <2> QED
    BY <1>3, <2>1, FocusWritten
<1>5. /\ \E new : Grove(k, us, new)
      /\ IsCollapseOf(k, heap, tabs[a].active, heap[tabs[a].active].parent,
                      Sibling(heap, tabs[a].active))
  BY <1>1, <1>4, GroveCollapse
<1>6. /\ Hosted(k) = Hosted(heap) \ {heap[tabs[a].active].session}
      /\ heap[tabs[a].active].session \in Hosted(heap) /\ SessionsDistinct(k)
  BY <1>3, <1>5, CollapseHosted, InvTypes
<1>7. k = [n \in DOMAIN k |-> k[n]] /\ DOMAIN k \subseteq DOMAIN heap
  BY <1>5 DEF IsCollapseOf
<1> QED
  BY <1>4, <1>5, <1>6, <1>7

\* Closing a tab.
LEMMA EraseOK ==
  ASSUME Inv, NEW i \in DOMAIN tabs, EraseTab(i)
  PROVE  /\ tabs' \in Seq(TabRecord) /\ Len(tabs') <= MaxTabs
         /\ activeTab' \in 1..MaxTabs
         /\ heap' = [n \in DOMAIN heap' |-> heap'[n]]
         /\ SessionsDistinct(heap')
         /\ \E new : Grove(heap', tabs', new)
<1>1. PICK reg : Grove(heap, tabs, reg)
  BY DEF Inv
<1>2. Tree(tabs[i]) = reg[i]
  BY <1>1, Regions
<1>3. PICK k, us : k = heap' /\ us = tabs'
  OBVIOUS
<1>4. k = [n \in DOMAIN heap \ reg[i] |-> heap[n]] /\ us = RemoveAt(tabs, i)
  BY <1>2, <1>3 DEF EraseTab
<1>5. tabs \in Seq(TabRecord) /\ Len(tabs) \in Nat /\ Len(tabs) <= MaxTabs /\ MaxTabs \in Nat
  BY InvTypes
<1>6. us \in Seq(TabRecord) /\ Len(us) = Len(tabs) - 1
  BY <1>4, <1>5, Removed
<1>7. \E new : Grove(k, us, new)
  BY <1>1, <1>4, <1>5, GroveErase
<1>8. SessionsDistinct(k)
  BY <1>4, InvTypes, FewerSessions
<1>9. activeTab' \in 1..MaxTabs
  <2>1. i \in 1..Len(tabs) /\ activeTab \in 1..MaxTabs
    BY InvTypes
  <2>2. activeTab' = ActiveAfterClose(i)
    BY DEF EraseTab
  <2>3. PICK n, a : n = Len(tabs) /\ a = IF activeTab > n THEN n ELSE activeTab
    OBVIOUS
  <2>4. /\ n \in Nat /\ n <= MaxTabs /\ a \in Nat /\ 1 <= a /\ a <= n
        /\ i \in Nat /\ 1 <= i /\ i <= n /\ activeTab \in Nat
    BY <1>5, <2>1, <2>3
  <2>5. activeTab' = IF n = 1 THEN activeTab
                     ELSE IF i < a \/ (i = a /\ a = n) THEN a - 1 ELSE a
    BY <2>2, <2>3 DEF ActiveAfterClose
  <2>6. CASE n = 1
    BY <2>1, <2>5, <2>6
  <2>7. CASE n # 1 /\ (i < a \/ (i = a /\ a = n))
    <3>1. activeTab' = a - 1 /\ a > 1
      BY <2>4, <2>5, <2>7
    <3> QED
      BY <1>5, <2>4, <3>1
  <2>8. CASE n # 1 /\ ~(i < a \/ (i = a /\ a = n))
    <3>1. activeTab' = a
      BY <2>5, <2>8
    <3> QED
      BY <1>5, <2>4, <3>1
  <2> QED
    BY <2>6, <2>7, <2>8
<1>10. k = [n \in DOMAIN k |-> k[n]]
  BY <1>4
<1>11. Len(us) <= MaxTabs
  BY <1>5, <1>6
<1> QED
  BY <1>3, <1>6, <1>7, <1>8, <1>9, <1>10, <1>11

\* closeTab() keeps the invariant.
LEMMA CloseTabInv == ASSUME Inv, NEW i \in DOMAIN tabs, CloseTab(i) PROVE Inv'
<1>1. tabRects' \in 0..MaxTabs
  BY InvTypes DEF CloseTab
<1>2. Gestures' /\ marked' \subseteq Hosted(heap')
  BY ClearedOK DEF CloseTab
<1>3. EraseTab(i)
  BY DEF CloseTab
<1> QED
  BY <1>1, <1>2, <1>3, EraseOK, InvNext

\* closeActivePane(), which collapses the split or closes the tab.
LEMMA ClosePaneInv == ASSUME Inv, CloseActivePane PROVE Inv'
<1>1. tabRects' \in 0..MaxTabs
  BY InvTypes DEF CloseActivePane
<1>2. Gestures' /\ marked' \subseteq Hosted(heap')
  BY ClearedOK DEF CloseActivePane
<1>3. CASE EraseTab(activeTab)
  <2>1. activeTab \in DOMAIN tabs
    BY InvTypes DEF CloseActivePane
  <2> QED
    BY <1>1, <1>2, <1>3, <2>1, EraseOK, InvNext
<1>4. CASE /\ heap[Tab.active].parent # Null
           /\ heap' = CollapseHeap(heap, Tab.active)
           /\ tabs' = [tabs EXCEPT ![activeTab].active = FocusAfterCollapse,
                                   ![activeTab].zoom = Null]
           /\ UNCHANGED activeTab
  <2>1. PICK reg : Grove(heap, tabs, reg)
    BY DEF Inv
  <2>2. PICK k, us, a, f :
          /\ k = heap' /\ us = tabs' /\ a = activeTab /\ f = FocusAfterCollapse
          /\ Tab = tabs[a] /\ a \in DOMAIN tabs
    BY InvTypes DEF CloseActivePane
  <2>3. k = CollapseHeap(heap, tabs[a].active) /\ heap[tabs[a].active].parent # Null
    BY <1>4, <2>2
  <2>4. f = FirstLeaf(k, heap[tabs[a].active].parent)
    BY <2>2, <2>3 DEF FocusAfterCollapse
  <2>5. us = WithFocus(tabs, a, f, Null)
    BY <1>4, <2>2 DEF WithFocus
  <2>6. /\ us \in Seq(TabRecord) /\ Len(us) = Len(tabs)
        /\ \E new : Grove(k, us, new)
        /\ k = [n \in DOMAIN k |-> k[n]]
        /\ SessionsDistinct(k)
    BY <2>1, <2>2, <2>3, <2>4, <2>5, CollapseOK
  <2>7. activeTab' \in 1..MaxTabs /\ Len(us) <= MaxTabs
    BY <1>4, <2>6, InvTypes
  <2> QED
    BY <1>1, <1>2, <2>2, <2>6, <2>7, InvNext
<1> QED
  BY <1>3, <1>4 DEF CloseActivePane

\* closeOtherPanes(): the tree gives way to one new pane.
LEMMA CloseOthersInv == ASSUME Inv, CloseOtherPanes PROVE Inv'
<1>1. PICK q \in Node \ DOMAIN heap :
        /\ heap' = ReplaceTree(heap, Tree(Tab), q, heap[Tab.active].session)
        /\ tabs' = [tabs EXCEPT ![activeTab].root = q, ![activeTab].active = q,
                                ![activeTab].zoom = Null]
  BY DEF CloseOtherPanes
<1>2. PICK reg : Grove(heap, tabs, reg)
  BY DEF Inv
<1>3. PICK k, us, a, p, s :
        /\ k = heap' /\ us = tabs' /\ a = activeTab
        /\ Tab = tabs[a] /\ a \in DOMAIN tabs /\ p = tabs[a].active
        /\ s = heap[p].session
  BY InvTypes DEF CloseOtherPanes
<1>4. /\ p \in reg[a] /\ p \in Leaves(heap) /\ IsForest(heap) /\ Tree(tabs[a]) = reg[a]
      /\ reg[a] \in SUBSET DOMAIN heap
  BY <1>2, <1>3, Regions
<1>5. s \in Session
  BY <1>3, <1>4 DEF IsForest, LinksOf, Leaves
<1>6. k = ReplaceTree(heap, reg[a], q, s)
  BY <1>1, <1>3, <1>4
<1>7. us = WithTab(tabs, a, q)
  BY <1>1, <1>3 DEF WithTab
<1>8. q \in Node /\ q \notin DOMAIN heap
  BY <1>1
<1>9. /\ us \in Seq(TabRecord) /\ Len(us) = Len(tabs) /\ OnlyAt(us, tabs, a)
      /\ us[a] = OnePaneTab(q)
  <2>1. a \in DOMAIN tabs /\ tabs \in Seq(TabRecord) /\ q \in Node
    BY <1>3, <1>8, InvTypes
  <2> QED
    BY <1>7, <2>1, TabWritten
<1>10. \E new : Grove(k, us, new)
  BY <1>2, <1>3, <1>5, <1>6, <1>8, <1>9, GroveReplace
<1>11. /\ k = [n \in DOMAIN k |-> k[n]]
       /\ DOMAIN k = (DOMAIN heap \ reg[a]) \cup {q} /\ k[q] = Leaf(s, Null)
       /\ \A n \in DOMAIN heap \ reg[a] : k[n] = heap[n]
  BY <1>6, <1>8 DEF ReplaceTree
<1>12. SessionsDistinct(k)
  <2>1. ASSUME NEW n \in DOMAIN heap \ reg[a], ~heap[n].isSplit
        PROVE  heap[n].session # s
    BY <1>3, <1>4, <2>1, InvTypes DEF SessionsDistinct, Leaves
  <2>2. SessionsDistinct(heap)
    BY InvTypes
  <2>3. k[q].session = s
    BY <1>11 DEF Leaf
  <2>4. ASSUME NEW m \in Leaves(k), NEW n \in Leaves(k), m # n
        PROVE  k[m].session # k[n].session
    <3>1. CASE m = q
      BY <1>11, <2>1, <2>3, <2>4, <3>1 DEF Leaves
    <3>2. CASE n = q
      BY <1>11, <2>1, <2>3, <2>4, <3>2 DEF Leaves
    <3>3. CASE m # q /\ n # q
      BY <1>11, <2>2, <2>4, <3>3 DEF Leaves, SessionsDistinct
    <3> QED
      BY <3>1, <3>2, <3>3
  <2> QED
    BY <2>4 DEF SessionsDistinct
<1>13. activeTab' \in 1..MaxTabs /\ tabRects' \in 0..MaxTabs /\ Len(us) <= MaxTabs
  BY <1>9, InvTypes DEF CloseOtherPanes
<1>14. Gestures' /\ marked' \subseteq Hosted(heap')
  BY ClearedOK DEF CloseOtherPanes
<1> QED
  BY <1>3, <1>9, <1>10, <1>11, <1>12, <1>13, <1>14, InvNext

\* closeTabSet().
LEMMA CloseSetInv == ASSUME Inv, CloseTabSet PROVE Inv'
<1>1. tabRects' \in 0..MaxTabs /\ Gestures' /\ marked' \subseteq Hosted(heap')
  BY InvTypes, ClearedOK DEF CloseTabSet
<1>2. heap' = [n \in UNION {Tree(tabs'[i]) : i \in DOMAIN tabs'} |-> heap[n]]
  BY DEF CloseTabSet
<1>3. PICK reg : Grove(heap, tabs, reg)
  BY DEF Inv
<1>4. PICK k, us : k = heap' /\ us = tabs'
  OBVIOUS
<1>5. /\ DOMAIN k = UNION {Tree(us[i]) : i \in DOMAIN us}
      /\ k = [n \in DOMAIN k |-> k[n]] /\ \A n \in DOMAIN k : k[n] = heap[n]
  BY <1>2, <1>4
<1>6. /\ tabs \in Seq(TabRecord) /\ DOMAIN tabs = 1..Len(tabs) /\ Len(tabs) \in Nat
      /\ Len(tabs) <= MaxTabs /\ MaxTabs \in Nat /\ activeTab \in DOMAIN tabs
      /\ activeTab \in 1..MaxTabs
      /\ \A i \in DOMAIN tabs : Tree(tabs[i]) = reg[i] /\ reg[i] \in SUBSET DOMAIN heap
  <2>1. activeTab \in DOMAIN tabs
    BY InvTypes DEF CloseTabSet
  <2> QED
    BY <1>3, <2>1, InvTypes, Regions
<1>7. ASSUME NEW first \in {1, activeTab}, NEW last \in {activeTab, Len(tabs)},
             tabs' = SubSeq(tabs, first, last), activeTab' = activeTab - first + 1
      PROVE  Inv'
  <2>1. first \in DOMAIN tabs /\ last \in DOMAIN tabs /\ first <= last
    BY <1>6
  <2>2. us = SubSeq(tabs, first, last)
    BY <1>4, <1>7
  <2>3. /\ us \in Seq(TabRecord) /\ Len(us) = last - first + 1
        /\ \A j \in DOMAIN us : first + j - 1 \in DOMAIN tabs /\ us[j] = tabs[first + j - 1]
    <3>1. tabs \in Seq(TabRecord)
      BY <1>6
    <3> QED
      BY <2>1, <2>2, <3>1, Between
  <2>4. \A j \in DOMAIN us : Tree(us[j]) = reg[first + j - 1] /\ Tree(us[j]) \in SUBSET DOMAIN heap
    BY <1>6, <2>3
  <2>5. /\ \A n \in DOMAIN k : k[n] = heap[n] /\ \E j \in DOMAIN us : n \in reg[first + j - 1]
        /\ \A j \in DOMAIN us : reg[first + j - 1] \subseteq DOMAIN k
    BY <1>5, <2>4
  <2>6. \E new : Grove(k, us, new)
    <3>1. Cuts(us, k, first, last, tabs, heap, reg)
      BY <2>1, <2>2, <2>5 DEF Cuts
    <3>2. tabs \in Seq(TabRecord)
      BY <1>6
    <3> QED
      BY <1>3, <3>1, <3>2, GroveBetween
  <2>7. SessionsDistinct(k)
    BY <1>5, <2>4, InvTypes, FewerSessions
  <2>8. activeTab' \in 1..MaxTabs /\ Len(us) <= MaxTabs
    <3>1. activeTab \in Nat /\ first \in Nat /\ last \in Nat /\ 1 <= first /\ last <= Len(tabs)
      BY <1>6, <2>1
    <3>2. first <= activeTab /\ activeTab <= MaxTabs
      BY <1>6, <2>1
    <3>3. activeTab' = activeTab - first + 1
      BY <1>7
    <3> QED
      BY <1>6, <2>1, <2>3, <3>1, <3>2, <3>3
  <2> QED
    BY <1>1, <1>4, <1>5, <2>3, <2>6, <2>7, <2>8, InvNext
<1>8. CASE tabs' = <<>> /\ activeTab' = activeTab
  <2>1. us = <<>> /\ DOMAIN us = {} /\ us \in Seq(TabRecord) /\ Len(us) = 0
    BY <1>4, <1>8
  <2>2. DOMAIN k = {}
    BY <1>5, <2>1
  <2>3. Grove(k, us, us)
    BY <2>1, <2>2 DEF Grove
  <2>4. SessionsDistinct(k)
    BY <2>2 DEF SessionsDistinct, Leaves
  <2>5. activeTab' \in 1..MaxTabs /\ Len(us) <= MaxTabs
    BY <1>6, <1>8, <2>1
  <2> QED
    BY <1>1, <1>4, <1>5, <2>1, <2>3, <2>4, <2>5, InvNext
<1> QED
  BY <1>7, <1>8 DEF CloseTabSet

-----------------------------------------------------------------------------
(* Handlers that move panes and tabs.                                      *)

\* togglePinActiveTab(): the same tabs in another order, and the same one active.
LEMMA TogglePinned ==
  ASSUME Inv, TogglePin, NEW reg, Grove(heap, tabs, reg)
  PROVE  /\ tabs' \in Seq(TabRecord) /\ Len(tabs') = Len(tabs)
         /\ \E new : Grove(heap, tabs', new)
         /\ activeTab' \in DOMAIN tabs' /\ tabs'[activeTab'].root = Tab.root
<1>1. PICK order \in Injection(DOMAIN tabs, DOMAIN tabs) :
        tabs' = [i \in DOMAIN tabs |-> tabs[order[i]]]
  BY DEF TogglePin
<1>2. PICK us, N : us = tabs' /\ N = Len(tabs)
  OBVIOUS
<1>3. tabs \in Seq(TabRecord) /\ DOMAIN tabs = 1..N /\ N \in Nat
  BY <1>2, InvTypes
<1>4. DOMAIN us = 1..N /\ \A i \in 1..N : us[i] = tabs[order[i]]
  BY <1>1, <1>2, <1>3
<1>5. order \in [1..N -> 1..N]
  BY <1>1, <1>3 DEF Injection
<1>6. \A i, j \in 1..N : order[i] = order[j] => i = j
  BY <1>1, <1>3, <1>5 DEF Injection, IsInjective
<1>7. Reorders(us, tabs, order, N)
  BY <1>3, <1>4, <1>5, <1>6 DEF Reorders
<1>8. heap = [n \in DOMAIN heap |-> heap[n]]
  BY InvTypes
<1>9. \E new : Grove(heap, us, new)
  BY <1>7, <1>8, GroveOrder
<1>10. us \in Seq(TabRecord) /\ Len(us) = N
  <2>1. \A i \in 1..N : us[i] \in TabRecord
    BY <1>3, <1>4, <1>5
  <2>2. us = [i \in 1..N |-> us[i]]
    BY <1>1, <1>2, <1>3, <1>4
  <2> QED
    BY <1>3, <2>1, <2>2
<1>11. activeTab \in 1..N /\ Tab = tabs[activeTab]
  BY <1>3, InvTypes DEF TogglePin
<1>12. order \in Injection(1..N, 1..N)
  BY <1>5, <1>6 DEF Injection, IsInjective
<1>13. PICK i \in 1..N : order[i] = activeTab
  BY <1>3, <1>11, <1>12, Permutes
<1>14. activeTab' = CHOOSE j \in DOMAIN us : us[j].root = Tab.root
  BY <1>2 DEF TogglePin
<1>15. i \in DOMAIN us /\ us[i].root = Tab.root
  BY <1>4, <1>11, <1>13
<1>16. activeTab' \in DOMAIN us /\ us[activeTab'].root = Tab.root
  BY <1>14, <1>15
<1> QED
  BY <1>2, <1>9, <1>10, <1>16

\* It keeps the invariant.
LEMMA TogglePinInv == ASSUME Inv, TogglePin PROVE Inv'
<1>1. PICK reg : Grove(heap, tabs, reg)
  BY DEF Inv
<1>2. /\ tabs' \in Seq(TabRecord) /\ Len(tabs') = Len(tabs)
      /\ \E new : Grove(heap, tabs', new)
      /\ activeTab' \in DOMAIN tabs'
  BY <1>1, TogglePinned
<1>3. /\ heap' = heap /\ tabRects' = tabRects /\ marked' = marked
      /\ selecting' = selecting /\ selPane' = selPane /\ dragDivider' = dragDivider
      /\ tabDrag' = tabDrag /\ fault' = fault
  BY DEF TogglePin, gesture
<1>4. Gestures'
  BY <1>3, InvTypes, Zenon DEF Gestures
<1>5. activeTab' \in 1..MaxTabs /\ Len(tabs') <= MaxTabs
  BY <1>2, InvTypes
<1>6. /\ tabRects' \in 0..MaxTabs /\ marked' \subseteq Hosted(heap')
      /\ SessionsDistinct(heap') /\ heap' = [n \in DOMAIN heap' |-> heap'[n]]
  BY <1>3, InvTypes
<1> QED
  BY <1>2, <1>3, <1>4, <1>5, <1>6, InvNext

\* Palette actions 21 to 23: two leaves of a tab trade their sessions.
LEMMA SwapInv == ASSUME Inv, SwapOrMovePane PROVE Inv'
<1>1. PICK next \in TabLeaves(Tab) :
        /\ heap' = SwapSessions(heap, Tab.active, next)
        /\ \E n \in {Tab.active, next} :
             tabs' = [tabs EXCEPT ![activeTab].active = n, ![activeTab].zoom = Null]
  BY DEF SwapOrMovePane
<1>2. PICK n \in {Tab.active, next} :
        tabs' = [tabs EXCEPT ![activeTab].active = n, ![activeTab].zoom = Null]
  BY <1>1
<1>3. PICK reg : Grove(heap, tabs, reg)
  BY DEF Inv
<1>4. PICK k, us, a, p :
        /\ k = heap' /\ us = tabs' /\ a = activeTab
        /\ Tab = tabs[a] /\ a \in DOMAIN tabs /\ p = tabs[a].active
  BY InvTypes DEF SwapOrMovePane
<1>5. /\ p \in reg[a] \cap Leaves(heap) /\ IsForest(heap)
      /\ TabLeaves(tabs[a]) = reg[a] \cap Leaves(heap)
  BY <1>3, <1>4, Regions
<1>6. next \in Leaves(heap) /\ n \in reg[a] \cap Leaves(heap)
  BY <1>1, <1>2, <1>4, <1>5
<1>7. k = SwapSessions(heap, p, next) /\ us = WithFocus(tabs, a, n, Null)
  BY <1>1, <1>2, <1>4 DEF WithFocus
<1>8. SameShape(k, heap)
  BY <1>5, <1>6, <1>7, SwapShape
<1>9. Hosted(k) = Hosted(heap) /\ SessionsDistinct(k)
  BY <1>5, <1>6, <1>7, SwapForest, InvTypes
<1>10. Grove(k, tabs, reg) /\ Leaves(k) = Leaves(heap)
  BY <1>3, <1>8, GroveShape
<1>11. k = [m \in DOMAIN k |-> k[m]]
  BY <1>8 DEF SameShape
<1>12. /\ us \in Seq(TabRecord) /\ Len(us) = Len(tabs) /\ OnlyAt(us, tabs, a)
       /\ us[a].root = tabs[a].root /\ us[a].active = n /\ us[a].zoom = Null
  <2>1. /\ n \in Node /\ Null \in Node \cup {Null} /\ a \in DOMAIN tabs
        /\ tabs \in Seq(TabRecord)
    BY <1>4, <1>5, <1>6, InvTypes DEF IsForest, IsHeap, Leaves
  <2> QED
    BY <1>7, <2>1, FocusWritten
<1>13. \E new : Grove(k, us, new)
  <2>1. us[a].active \in reg[a] \cap Leaves(k) /\ us[a].zoom \in (reg[a] \cap Leaves(k)) \cup {Null}
    BY <1>6, <1>10, <1>12
  <2> QED
    BY <1>4, <1>10, <1>11, <1>12, <2>1, GroveFocus
<1>14. /\ activeTab' = activeTab /\ tabRects' = tabRects /\ marked' = marked
       /\ selecting' = selecting /\ selPane' = selPane /\ dragDivider' = dragDivider
       /\ tabDrag' = tabDrag /\ fault' = fault
  BY DEF SwapOrMovePane, gesture
<1>15. Gestures'
  BY <1>14, InvTypes, Zenon DEF Gestures
<1>16. /\ activeTab' \in 1..MaxTabs /\ Len(us) <= MaxTabs /\ tabRects' \in 0..MaxTabs
       /\ marked' \subseteq Hosted(k)
  BY <1>9, <1>12, <1>14, InvTypes
<1> QED
  BY <1>4, <1>9, <1>11, <1>12, <1>13, <1>15, <1>16, InvNext

\* The pane that is moved to a new tab leaves a collapsed tree behind.
LEMMA DetachInv == ASSUME Inv, DetachPane PROVE Inv'
<1>1. PICK reg : Grove(heap, tabs, reg)
  BY DEF Inv
<1>2. PICK a, p, h, f, s :
        /\ a = activeTab /\ a \in DOMAIN tabs /\ Tab = tabs[a] /\ p = tabs[a].active
        /\ h = CollapseHeap(heap, p) /\ f = FocusAfterCollapse /\ s = heap[p].session
  BY InvTypes DEF DetachPane
<1>3. PICK r \in Node \ DOMAIN h :
        /\ heap' = [n \in DOMAIN h \cup {r} |-> IF n = r THEN Leaf(s, Null) ELSE h[n]]
        /\ tabs' = Append([tabs EXCEPT ![a].active = f, ![a].zoom = Null], OnePaneTab(r))
  BY <1>2 DEF DetachPane
<1>4. PICK vs : vs = WithFocus(tabs, a, f, Null)
  OBVIOUS
<1>5. f = FirstLeaf(h, heap[p].parent) /\ heap[p].parent # Null
  BY <1>2 DEF FocusAfterCollapse, DetachPane
<1>6. /\ vs \in Seq(TabRecord) /\ Len(vs) = Len(tabs)
      /\ \E new : Grove(h, vs, new)
      /\ h = [n \in DOMAIN h |-> h[n]] /\ DOMAIN h \subseteq DOMAIN heap
      /\ SessionsDistinct(h)
      /\ Hosted(h) = Hosted(heap) \ {s} /\ s \in Hosted(heap)
  BY <1>1, <1>2, <1>4, <1>5, CollapseOK
<1>7. s \in Session
  <2>1. p \in Leaves(heap) /\ IsForest(heap)
    BY <1>1, <1>2, Regions
  <2> QED
    BY <1>2, <2>1 DEF IsForest, LinksOf, Leaves
<1>8. PICK k, us : k = heap' /\ us = tabs'
  OBVIOUS
<1>9. /\ DOMAIN k = DOMAIN h \cup {r} /\ k[r] = Leaf(s, Null)
      /\ \A n \in DOMAIN h : k[n] = h[n]
      /\ k = [n \in DOMAIN k |-> k[n]]
  BY <1>3, <1>8
<1>10. us = Append(vs, OnePaneTab(r))
  BY <1>3, <1>4, <1>8 DEF WithFocus
<1>11. r \in Node /\ r \notin DOMAIN h
  BY <1>3
<1>12. \E new : Grove(k, us, new)
  <2>1. PICK new : Grove(h, vs, new)
    BY <1>6
  <2>2. /\ vs \in Seq(TabRecord) /\ r \in Node /\ r \notin DOMAIN h /\ s \in Session
        /\ DOMAIN k = DOMAIN h \cup {r} /\ k[r] = Leaf(s, Null)
        /\ \A n \in DOMAIN h : k[n] = h[n]
    BY <1>6, <1>7, <1>9, <1>11
  <2> QED
    BY <1>10, <2>1, <2>2, GroveMore
<1>13. OnePaneTab(r) \in TabRecord
  BY <1>11 DEF OnePaneTab, TabRecord
<1>14. us \in Seq(TabRecord) /\ Len(us) = Len(tabs) + 1
  BY <1>6, <1>10, <1>13
<1>15. SessionsDistinct(k) /\ Hosted(k) = Hosted(heap)
  <2>1. Leaves(k) = Leaves(h) \cup {r} /\ k[r].session = s
    BY <1>9 DEF Leaves, Leaf
  <2>2. \A n \in Leaves(h) : k[n] = h[n] /\ n # r /\ h[n].session \in Hosted(h)
    BY <1>9, <1>11 DEF Leaves, Hosted
  <2>3. SessionsDistinct(k)
    BY <1>6, <2>1, <2>2 DEF SessionsDistinct
  <2>4. Hosted(k) = Hosted(h) \cup {s}
    BY <2>1, <2>2 DEF Hosted
  <2> QED
    BY <1>6, <2>3, <2>4
<1>16. /\ activeTab' = Len(tabs') /\ Len(tabs) < MaxTabs /\ tabRects' = tabRects /\ marked' = marked
       /\ selecting' = selecting /\ selPane' = selPane /\ dragDivider' = dragDivider
       /\ tabDrag' = tabDrag /\ fault' = fault
  BY DEF DetachPane, gesture
<1>17. Gestures'
  BY <1>16, InvTypes, Zenon DEF Gestures
<1>18. /\ activeTab' \in 1..MaxTabs /\ Len(us) <= MaxTabs /\ tabRects' \in 0..MaxTabs
       /\ marked' \subseteq Hosted(k)
  BY <1>8, <1>14, <1>15, <1>16, InvTypes
<1> QED
  BY <1>8, <1>9, <1>12, <1>14, <1>15, <1>17, <1>18, InvNext

\* restartSession(): the new shell is nowhere else.
LEMMA RestartInv == ASSUME Inv, RestartSession PROVE Inv'
<1>1. PICK s \in Session \ Hosted(heap) :
        heap' = [heap EXCEPT ![Tab.active].session = s]
  BY DEF RestartSession
<1>2. PICK reg : Grove(heap, tabs, reg)
  BY DEF Inv
<1>3. PICK k, a, p :
        /\ k = heap' /\ a = activeTab
        /\ Tab = tabs[a] /\ a \in DOMAIN tabs /\ p = tabs[a].active
  BY InvTypes DEF RestartSession
<1>4. p \in Leaves(heap) /\ IsForest(heap)
  BY <1>2, <1>3, Regions
<1>5. k = WithSession(heap, p, s) /\ s \in Session
  BY <1>1, <1>3 DEF WithSession
<1>6. /\ SameShape(k, heap)
      /\ k[p].session = s /\ \A n \in DOMAIN heap : n # p => k[n] = heap[n]
  BY <1>4, <1>5, RestartShape
<1>7. Grove(k, tabs, reg) /\ Leaves(k) = Leaves(heap)
  BY <1>2, <1>6, GroveShape
<1>8. SessionsDistinct(k)
  <2>1. \A n \in Leaves(heap) : n # p => k[n].session = heap[n].session
    BY <1>6 DEF Leaves
  <2>2. \A n \in Leaves(heap) : heap[n].session \in Hosted(heap)
    BY DEF Hosted
  <2>3. SessionsDistinct(heap)
    BY InvTypes
  <2> QED
    BY <1>1, <1>6, <1>7, <2>1, <2>2, <2>3 DEF SessionsDistinct
<1>9. k = [m \in DOMAIN k |-> k[m]]
  BY <1>6 DEF SameShape
<1>10. /\ activeTab' = activeTab /\ tabRects' = tabRects /\ marked' = marked \cap Hosted(heap')
       /\ selecting' = selecting /\ selPane' = selPane /\ dragDivider' = dragDivider
       /\ tabDrag' = tabDrag /\ fault' = fault /\ tabs' = tabs
  BY DEF RestartSession, gesture
<1>11. Gestures'
  BY <1>10, InvTypes, Zenon DEF Gestures
<1>12. /\ activeTab' \in 1..MaxTabs /\ Len(tabs') <= MaxTabs /\ tabRects' \in 0..MaxTabs
       /\ marked' \subseteq Hosted(heap') /\ tabs' \in Seq(TabRecord)
  BY <1>10, InvTypes
<1> QED
  BY <1>3, <1>7, <1>8, <1>9, <1>10, <1>11, <1>12, InvNext

-----------------------------------------------------------------------------
(* Focus and the mouse.                                                     *)

\* switchTab() and the accessibility provider's request.
LEMMA SelectInv ==
  ASSUME Inv, NEW i \in DOMAIN tabs, SelectTab(i) \/ InvokeTab(i) PROVE Inv'
<1>1. /\ heap' = heap /\ tabs' = tabs /\ tabRects' \in 0..MaxTabs
      /\ activeTab' \in 1..MaxTabs
  BY InvTypes DEF SelectTab, InvokeTab, SameTabs
<1>2. CASE SelectTab(i)
  <2>1. Gestures' /\ marked' \subseteq Hosted(heap')
    BY <1>2, ClearedOK DEF SelectTab
  <2> QED
    BY <1>1, <2>1, SameOK
<1>3. CASE InvokeTab(i)
  <2>1. /\ marked' = marked /\ selecting' = selecting /\ selPane' = selPane
        /\ dragDivider' = dragDivider /\ tabDrag' = tabDrag /\ fault' = fault
    BY <1>3 DEF InvokeTab, gesture
  <2>2. Gestures' /\ marked' \subseteq Hosted(heap')
    BY <1>1, <2>1, InvTypes, Zenon DEF Gestures
  <2> QED
    BY <1>1, <2>2, SameOK
<1> QED
  BY <1>2, <1>3

\* clearSelection() alone.
LEMMA ClearOnlyInv == ASSUME Inv, ClearOnly PROVE Inv'
<1>1. /\ heap' = heap /\ tabs' = tabs /\ tabRects' \in 0..MaxTabs
      /\ activeTab' \in 1..MaxTabs
  BY InvTypes DEF ClearOnly, SameTabs
<1>2. Gestures' /\ marked' \subseteq Hosted(heap')
  BY ClearedOK DEF ClearOnly
<1> QED
  BY <1>1, <1>2, SameOK

\* openWorkspaceSession() on a pane that is there.
LEMMA ReuseInv ==
  ASSUME Inv, NEW i \in DOMAIN tabs, NEW leaf \in Leaves(heap), ReuseSession(i, leaf)
  PROVE  Inv'
<1>1. PICK reg : Grove(heap, tabs, reg)
  BY DEF Inv
<1>2. /\ heap' = heap /\ tabRects' \in 0..MaxTabs /\ activeTab' \in 1..MaxTabs
      /\ leaf \in TabLeaves(tabs[i])
  BY InvTypes DEF ReuseSession
<1>3. leaf \in reg[i] \cap Leaves(heap) /\ tabs[i].zoom \in (reg[i] \cap Leaves(heap)) \cup {Null}
  BY <1>1, <1>2, Regions
<1>4. tabs' = WithActive(tabs, i, leaf)
  BY DEF ReuseSession, WithActive
<1>5. leaf \in Node /\ tabs \in Seq(TabRecord)
  BY <1>1, Regions, InvTypes DEF Leaves, IsForest, IsHeap
<1>6. /\ tabs' \in Seq(TabRecord) /\ Len(tabs') = Len(tabs) /\ OnlyAt(tabs', tabs, i)
      /\ tabs'[i].root = tabs[i].root /\ tabs'[i].active = leaf
      /\ tabs'[i].zoom = tabs[i].zoom
  BY <1>4, <1>5, ActiveWritten
<1>7. Gestures' /\ marked' \subseteq Hosted(heap')
  BY ClearedOK DEF ReuseSession
<1> QED
  BY <1>1, <1>2, <1>3, <1>6, <1>7, FocusOK

\* What Zoom, FocusDir and RenderFrame leave alone.
LEMMA RestKept ==
  ASSUME Inv, heap' = heap, activeTab' = activeTab, UNCHANGED <<gesture, marked, fault>>
  PROVE  Gestures' /\ marked' \subseteq Hosted(heap') /\ activeTab' \in 1..MaxTabs
<1>1. /\ marked' = marked /\ selecting' = selecting /\ selPane' = selPane
      /\ dragDivider' = dragDivider /\ tabDrag' = tabDrag /\ fault' = fault
  BY DEF gesture
<1>2. Gestures'
  BY <1>1, InvTypes, Zenon DEF Gestures
<1> QED
  BY <1>1, <1>2, InvTypes

\* toggleZoom().
LEMMA ZoomInv == ASSUME Inv, Zoom PROVE Inv'
<1>1. PICK reg : Grove(heap, tabs, reg)
  BY DEF Inv
<1>2. PICK a, z : /\ a = activeTab /\ Tab = tabs[a] /\ a \in DOMAIN tabs
                  /\ z = IF Tab.zoom = Null THEN Tab.active ELSE Null
  BY InvTypes DEF Zoom
<1>3. /\ z \in (reg[a] \cap Leaves(heap)) \cup {Null} /\ z \in Node \cup {Null}
      /\ tabs[a].active \in reg[a] \cap Leaves(heap) /\ tabs \in Seq(TabRecord)
  BY <1>1, <1>2, Regions DEF Leaves, IsForest, IsHeap
<1>4. tabs' = WithZoom(tabs, a, z)
  BY <1>2 DEF Zoom, WithZoom
<1>5. /\ tabs' \in Seq(TabRecord) /\ Len(tabs') = Len(tabs) /\ OnlyAt(tabs', tabs, a)
      /\ tabs'[a].root = tabs[a].root /\ tabs'[a].active = tabs[a].active
      /\ tabs'[a].zoom = z
  BY <1>2, <1>3, <1>4, ZoomWritten
<1>6. heap' = heap /\ tabRects' \in 0..MaxTabs /\ activeTab' = activeTab
  BY InvTypes DEF Zoom
<1>7. Gestures' /\ marked' \subseteq Hosted(heap') /\ activeTab' \in 1..MaxTabs
  BY <1>6, RestKept DEF Zoom
<1> QED
  BY <1>1, <1>2, <1>3, <1>5, <1>6, <1>7, FocusOK

\* Tab::focusDir() stays among the leaves of the tab.
LEMMA FocusDirInv == ASSUME Inv, FocusDir PROVE Inv'
<1>1. PICK reg : Grove(heap, tabs, reg)
  BY DEF Inv
<1>2. PICK a : a = activeTab /\ Tab = tabs[a] /\ a \in DOMAIN tabs
  BY InvTypes DEF FocusDir
<1>3. PICK leaf \in TabLeaves(Tab) :
        tabs' = [tabs EXCEPT ![activeTab].active = leaf, ![activeTab].zoom = Null]
  BY DEF FocusDir
<1>4. leaf \in reg[a] \cap Leaves(heap) /\ leaf \in Node /\ tabs \in Seq(TabRecord)
  BY <1>1, <1>2, <1>3, Regions DEF Leaves, IsForest, IsHeap
<1>5. tabs' = WithFocus(tabs, a, leaf, Null)
  BY <1>2, <1>3 DEF WithFocus
<1>6. /\ tabs' \in Seq(TabRecord) /\ Len(tabs') = Len(tabs) /\ OnlyAt(tabs', tabs, a)
      /\ tabs'[a].root = tabs[a].root /\ tabs'[a].active = leaf /\ tabs'[a].zoom = Null
  <2>1. Null \in Node \cup {Null}
    OBVIOUS
  <2> QED
    BY <1>2, <1>4, <1>5, <2>1, FocusWritten
<1>7. heap' = heap /\ tabRects' \in 0..MaxTabs /\ activeTab' = activeTab
  BY InvTypes DEF FocusDir
<1>8. Gestures' /\ marked' \subseteq Hosted(heap') /\ activeTab' \in 1..MaxTabs
  BY <1>7, RestKept DEF FocusDir
<1>9. tabs'[a].zoom \in (reg[a] \cap Leaves(heap)) \cup {Null}
  BY <1>6
<1> QED
  BY <1>1, <1>2, <1>4, <1>6, <1>7, <1>8, <1>9, FocusOK

\* renderFrame() drops a zoom that left the tab.
LEMMA RenderInv == ASSUME Inv, RenderFrame PROVE Inv'
<1>1. heap' = heap /\ tabRects' \in 0..MaxTabs /\ activeTab' = activeTab
  BY InvTypes DEF RenderFrame
<1>2. Gestures' /\ marked' \subseteq Hosted(heap') /\ activeTab' \in 1..MaxTabs
  BY <1>1, RestKept DEF RenderFrame
<1>3. CASE ~HasTab
  BY <1>1, <1>2, <1>3, SameOK DEF RenderFrame
<1>4. CASE HasTab
  <2>1. PICK reg : Grove(heap, tabs, reg)
    BY DEF Inv
  <2>2. PICK a, z : /\ a = activeTab /\ Tab = tabs[a] /\ a \in DOMAIN tabs
                    /\ z = IF Tab.zoom \in TabLeaves(Tab) THEN Tab.zoom ELSE Null
    BY <1>4, InvTypes
  <2>3. /\ z \in (reg[a] \cap Leaves(heap)) \cup {Null} /\ z \in Node \cup {Null}
        /\ tabs[a].active \in reg[a] \cap Leaves(heap) /\ tabs \in Seq(TabRecord)
    BY <2>1, <2>2, Regions DEF Leaves, IsForest, IsHeap
  <2>4. tabs' = WithZoom(tabs, a, z)
    BY <1>4, <2>2 DEF RenderFrame, WithZoom
  <2>5. /\ tabs' \in Seq(TabRecord) /\ Len(tabs') = Len(tabs) /\ OnlyAt(tabs', tabs, a)
        /\ tabs'[a].root = tabs[a].root /\ tabs'[a].active = tabs[a].active
        /\ tabs'[a].zoom = z
    BY <2>2, <2>3, <2>4, ZoomWritten
  <2> QED
    BY <1>1, <1>2, <2>1, <2>2, <2>3, <2>5, FocusOK
<1> QED
  BY <1>3, <1>4

\* A press in the tab strip.
LEMMA TabPressInv ==
  ASSUME Inv, NEW i \in 1..tabRects, TabPress(i) PROVE Inv'
<1>1. /\ heap' = heap /\ tabs' = tabs /\ tabRects' \in 0..MaxTabs
      /\ activeTab' \in 1..MaxTabs /\ marked' \subseteq Hosted(heap')
      /\ tabDrag' \in 0..MaxTabs
  BY InvTypes DEF TabPress, SameTabs
<1>2. selecting' = FALSE /\ selPane' = Null /\ dragDivider' = Null /\ fault' = fault
  BY DEF TabPress
<1>3. Gestures'
  BY <1>1, <1>2, InvTypes, Zenon DEF Gestures
<1> QED
  BY <1>1, <1>3, SameOK

\* A tab dragged to another place.
LEMMA TabDragInv ==
  ASSUME Inv, NEW j \in 1..tabRects, TabDrag(j) PROVE Inv'
<1>1. PICK reg : Grove(heap, tabs, reg)
  BY DEF Inv
<1>2. PICK d : d = tabDrag
  OBVIOUS
<1>3. d \in DOMAIN tabs /\ j \in DOMAIN tabs /\ tabs' = InsertAt(RemoveAt(tabs, d), j, tabs[d])
  BY <1>2 DEF TabDrag
<1>4. heap = [n \in DOMAIN heap |-> heap[n]] /\ tabs \in Seq(TabRecord)
  BY InvTypes
<1>5. /\ tabs' \in Seq(TabRecord) /\ Len(tabs') = Len(tabs)
      /\ \E new : Grove(heap, tabs', new)
  BY <1>1, <1>3, <1>4, GroveMove
<1>6. /\ heap' = heap /\ tabRects' = tabRects /\ marked' = marked /\ tabDrag' = j
      /\ selecting' = selecting /\ selPane' = selPane /\ dragDivider' = dragDivider
      /\ fault' = fault /\ activeTab' = j
  BY DEF TabDrag
<1>7. j \in 1..MaxTabs /\ j \in 0..MaxTabs /\ Len(tabs') <= MaxTabs
  BY <1>3, <1>5, InvTypes
<1>8. Gestures'
  BY <1>6, <1>7, InvTypes, Zenon DEF Gestures
<1> QED
  BY <1>4, <1>5, <1>6, <1>7, <1>8, InvTypes, InvNext

\* A press on a divider.
LEMMA DividerInv ==
  ASSUME Inv, NEW n \in DOMAIN heap, DividerPress(n) PROVE Inv'
<1>1. n \in Node
  BY DEF Inv, TypeOK, IsHeap
<1>2. /\ heap' = heap /\ tabs' = tabs /\ activeTab' = activeTab /\ tabRects' = tabRects
      /\ marked' = marked /\ tabDrag' = tabDrag /\ selecting' = selecting
      /\ selPane' = selPane /\ dragDivider' = n /\ fault' = fault
  BY DEF DividerPress
<1>3. Gestures'
  BY <1>1, <1>2, InvTypes, Zenon DEF Gestures
<1> QED
  BY <1>2, <1>3, InvTypes, SameOK

\* The focus of the active tab moves to a pane that can be hit.
LEMMA PaneHit ==
  ASSUME Inv, HasTab, NEW n \in HitTest(Tab) \cup {Tab.active}, heap' = heap,
         tabs' = WithActive(tabs, activeTab, n),
         activeTab' = activeTab, tabRects' = tabRects, Gestures',
         marked' \subseteq Hosted(heap)
  PROVE  Inv'
<1>1. PICK reg : Grove(heap, tabs, reg)
  BY DEF Inv
<1>2. PICK a : a = activeTab /\ Tab = tabs[a] /\ a \in DOMAIN tabs
  BY InvTypes
<1>3. /\ n \in reg[a] \cap Leaves(heap) /\ n \in Node /\ tabs \in Seq(TabRecord)
      /\ tabs[a].zoom \in (reg[a] \cap Leaves(heap)) \cup {Null}
  BY <1>1, <1>2, Regions DEF Leaves, IsForest, IsHeap
<1>4. tabs' = WithActive(tabs, a, n)
  BY <1>2
<1>7. a \in DOMAIN tabs /\ n \in Node /\ tabs \in Seq(TabRecord)
  BY <1>2, <1>3
<1>5. /\ tabs' \in Seq(TabRecord) /\ Len(tabs') = Len(tabs) /\ OnlyAt(tabs', tabs, a)
      /\ tabs'[a].root = tabs[a].root /\ tabs'[a].active = n
      /\ tabs'[a].zoom = tabs[a].zoom
  BY <1>4, <1>7, ActiveWritten
<1>6. activeTab' \in 1..MaxTabs /\ tabRects' \in 0..MaxTabs /\ marked' \subseteq Hosted(heap')
  BY InvTypes
<1> QED
  BY <1>1, <1>2, <1>3, <1>5, <1>6, FocusOK

\* A press in a pane.
LEMMA PanePressInv ==
  ASSUME Inv, NEW n \in DOMAIN heap, PanePress(n) PROVE Inv'
<1>1. n \in Node
  BY DEF Inv, TypeOK, IsHeap
<1>2. CASE UNCHANGED <<gesture, marked>>
  <2>1. fault' = fault /\ heap' = heap /\ activeTab' = activeTab
    BY DEF PanePress
  <2>2. Gestures' /\ marked' \subseteq Hosted(heap)
    BY <1>2, <2>1, RestKept
  <2> QED
    BY <2>1, <2>2, PaneHit DEF PanePress, WithActive
<1>3. CASE /\ selecting' = TRUE /\ selPane' = n
           /\ marked' = marked \ (Selected \cup {heap[n].session})
           /\ UNCHANGED <<dragDivider, tabDrag>>
  <2>1. fault' = fault /\ marked' \subseteq Hosted(heap)
    BY <1>3, InvTypes DEF PanePress
  <2>2. Gestures'
    BY <1>1, <1>3, <2>1, InvTypes, Zenon DEF Gestures
  <2> QED
    BY <2>1, <2>2, PaneHit DEF PanePress, WithActive
<1> QED
  BY <1>2, <1>3 DEF PanePress

\* Double click, triple click and Select all.
LEMMA SelectTextInv ==
  ASSUME Inv, NEW n \in DOMAIN heap, SelectText(n) PROVE Inv'
<1>1. n \in Node
  BY DEF Inv, TypeOK, IsHeap
<1>2. n \in Leaves(heap)
  <2>1. PICK reg : Grove(heap, tabs, reg)
    BY DEF Inv
  <2>2. activeTab \in DOMAIN tabs /\ Tab = tabs[activeTab]
    BY InvTypes DEF SelectText
  <2> QED
    BY <2>1, <2>2, Regions DEF SelectText
<1>3. heap[n].session \in Hosted(heap)
  BY <1>2 DEF Hosted
<1>4. marked' \subseteq Hosted(heap)
  BY <1>3, InvTypes DEF SelectText
<1>5. /\ fault' = fault /\ selecting' = selecting /\ dragDivider' = dragDivider
      /\ tabDrag' = tabDrag /\ selPane' = n
  BY DEF SelectText
<1>6. Gestures'
  BY <1>1, <1>5, InvTypes, Zenon DEF Gestures
<1> QED
  BY <1>4, <1>6, PaneHit DEF SelectText, WithActive

\* A drag in a pane marks only a shell that is shown.
LEMMA PaneDragInv == ASSUME Inv, PaneDrag PROVE Inv'
<1>1. /\ heap' = heap /\ tabs' = tabs /\ activeTab' = activeTab /\ tabRects' = tabRects
      /\ tabDrag' = tabDrag /\ selecting' = selecting
      /\ selPane' = selPane /\ dragDivider' = dragDivider /\ fault' = fault
      /\ marked' = marked \cup (Selected \cap Session)
      /\ selPane # Null /\ selPane \in DOMAIN heap
  BY DEF PaneDrag, SameTabs, gesture, Dangles
<1>2. Gestures'
  BY <1>1, InvTypes, Zenon DEF Gestures
<1>3. PICK p : p = selPane /\ p \in DOMAIN heap /\ Selected = {heap[p].session}
  BY <1>1 DEF Selected
<1>4. IsForest(heap)
  BY Regions DEF Inv
<1>5. heap[p].session \in Session => p \in Leaves(heap)
  BY <1>3, <1>4, NullAssumption DEF IsForest, LinksOf, Leaves
<1>6. heap[p].session \in Session => heap[p].session \in Hosted(heap)
  BY <1>5 DEF Hosted
<1>7. marked' \subseteq Hosted(heap')
  BY <1>1, <1>3, <1>6, InvTypes
<1> QED
  BY <1>1, <1>2, <1>7, InvTypes, SameOK

\* The end of a gesture.
LEMMA MouseUpInv == ASSUME Inv, MouseUp PROVE Inv'
<1>1. /\ heap' = heap /\ tabs' = tabs /\ activeTab' = activeTab /\ tabRects' = tabRects
      /\ selPane' = selPane /\ marked' = marked /\ fault' = fault
  BY DEF MouseUp, SameTabs
<1>2. /\ tabDrag' = tabDrag \/ tabDrag' = 0
      /\ dragDivider' = dragDivider \/ dragDivider' = Null
      /\ selecting' = selecting \/ selecting' = FALSE
  <2>1. CASE tabDrag # 0
    BY <2>1 DEF MouseUp
  <2>2. CASE tabDrag = 0 /\ dragDivider # Null
    BY <2>2 DEF MouseUp
  <2>3. CASE tabDrag = 0 /\ dragDivider = Null
    BY <2>3 DEF MouseUp
  <2> QED
    BY <2>1, <2>2, <2>3, Zenon
<1>3. tabDrag' \in 0..MaxTabs
  <2>1. tabDrag \in 0..MaxTabs /\ MaxTabs \in Nat
    BY InvTypes, MaxTabsAssumption DEF Gestures
  <2>2. tabDrag' = tabDrag \/ tabDrag' = 0
    BY <1>2
  <2> QED
    BY <2>1, <2>2
<1>4. Gestures'
  BY <1>1, <1>2, <1>3, InvTypes, Zenon DEF Gestures
<1> QED
  BY <1>1, <1>4, InvTypes, SameOK

\* Every step keeps the invariant.
LEMMA NextInv == Inv /\ [Next]_vars => Inv'
<1> SUFFICES ASSUME Inv, [Next]_vars PROVE Inv'
  OBVIOUS
<1>1. CASE PaneStep
  <2>1. CASE NewTabShell
    BY <2>1, NewTabInv
  <2>2. CASE SplitActive
    BY <2>2, SplitInv
  <2>3. CASE CloseActivePane
    BY <2>3, ClosePaneInv
  <2>4. CASE CloseOtherPanes
    BY <2>4, CloseOthersInv
  <2>5. CASE \E i \in DOMAIN tabs : CloseTab(i)
    BY <2>5, CloseTabInv
  <2>6. CASE CloseTabSet
    BY <2>6, CloseSetInv
  <2>7. CASE TogglePin
    BY <2>7, TogglePinInv
  <2>8. CASE SwapOrMovePane
    BY <2>8, SwapInv
  <2>9. CASE DetachPane
    BY <2>9, DetachInv
  <2>10. CASE RestartSession
    BY <2>10, RestartInv
  <2> QED
    BY <1>1, <2>1, <2>2, <2>3, <2>4, <2>5, <2>6, <2>7, <2>8, <2>9, <2>10 DEF PaneStep
<1>2. CASE FocusStep
  BY <1>2, ClearOnlyInv, SelectInv, ReuseInv, ZoomInv, FocusDirInv, RenderInv DEF FocusStep
<1>3. CASE MouseStep
  BY <1>3, TabPressInv, TabDragInv, DividerInv, PanePressInv, SelectTextInv, PaneDragInv,
     MouseUpInv DEF MouseStep
<1>4. CASE Fault
  <2>1. /\ heap' = heap /\ tabs' = tabs /\ activeTab' = activeTab /\ tabRects' = tabRects
        /\ selecting' = selecting /\ selPane' = selPane /\ dragDivider' = dragDivider
        /\ tabDrag' = tabDrag /\ marked' = marked
        /\ fault' \in {"none", "freed pane", "tab index"}
    BY <1>4 DEF Fault, gesture, UseFreedPane, IndexPastTabs
  <2>2. Gestures'
    BY <2>1, InvTypes, Zenon DEF Gestures
  <2> QED
    BY <2>1, <2>2, InvTypes, SameOK
<1>5. CASE UNCHANGED vars
  <2>1. /\ heap' = heap /\ tabs' = tabs /\ activeTab' = activeTab /\ tabRects' = tabRects
        /\ UNCHANGED <<gesture, marked, fault>>
    BY <1>5 DEF vars, gesture
  <2>2. Gestures' /\ marked' \subseteq Hosted(heap') /\ activeTab' \in 1..MaxTabs
    BY <2>1, RestKept
  <2> QED
    BY <2>1, <2>2, InvTypes, SameOK
<1> QED
  BY <1>1, <1>2, <1>3, <1>4, <1>5 DEF Next

\* The invariant holds in every state.
LEMMA InvHolds == Spec => []Inv
BY InitInv, NextInv, PTL DEF Spec

\* It is what Forest says.
LEMMA InvIsForest == Inv => Forest
<1> SUFFICES ASSUME Inv PROVE Forest
  OBVIOUS
<1>1. PICK reg : Grove(heap, tabs, reg)
  BY DEF Inv
<1>2. IsForest(heap)
  BY <1>1, Regions
<1>3. \A i \in DOMAIN tabs : Tree(tabs[i]) = reg[i]
  BY <1>1, Regions
<1>4. \A i, j \in DOMAIN tabs : i # j => Tree(tabs[i]) \cap Tree(tabs[j]) = {}
  BY <1>1, <1>3 DEF Grove
<1>5. DOMAIN heap = UNION {Tree(tabs[i]) : i \in DOMAIN tabs}
  <2>1. \A n \in DOMAIN heap : \E i \in DOMAIN tabs : n \in Tree(tabs[i])
    BY <1>1, <1>3 DEF Grove
  <2>2. \A i \in DOMAIN tabs : Tree(tabs[i]) \subseteq DOMAIN heap
    BY <1>1, <1>3, Regions
  <2> QED
    BY <2>1, <2>2
<1>6. ASSUME NEW i \in DOMAIN tabs
      PROVE  /\ heap[tabs[i].root].parent = Null
             /\ {tabs[i].active, tabs[i].zoom} \subseteq TabLeaves(tabs[i]) \cup {Null}
             /\ tabs[i].active # Null
  <2>1. PICK t, R : t = tabs[i] /\ R = reg[i]
    OBVIOUS
  <2>2. /\ IsTab(heap, t, R) /\ t.root \in R
        /\ {t.active, t.zoom} \subseteq TabLeaves(t) \cup {Null}
        /\ t.active \in DOMAIN heap
    BY <1>1, <2>1, Regions DEF Leaves
  <2>3. heap[t.root].parent = Null
    BY <2>2, TabLinks
  <2>4. t.active # Null
    BY <1>2, <2>2, NullAssumption DEF IsForest, IsHeap
  <2> QED
    BY <2>1, <2>2, <2>3, <2>4
<1>7. TypeOK /\ SessionsDistinct(heap)
  BY Zenon DEF Inv
<1> QED
  BY <1>2, <1>4, <1>5, <1>6, <1>7, Zenon DEF Forest, IsForest

\* Forest: whatever was split, closed, moved, pinned or dragged, the tabs' trees
\* share no pane, leak none, and show no shell twice, for any set of addresses and
\* sessions and any bound on the tabs.
THEOREM TabsShareNothing == Spec => []Forest
BY InvHolds, InvIsForest, PTL

-----------------------------------------------------------------------------
(* What a step may do to the pointers the window keeps.                     *)

\* The selection stays on its pane, which may be marked further; a divider may
\* be taken or let go.
HoldsSelection ==
  /\ heap' = heap /\ selPane' = selPane
  /\ dragDivider' \in {dragDivider, Null} \cup DOMAIN heap
  /\ marked' \in {marked, marked \cup (Selected \cap Session)}

\* The selection goes to a pane that exists, and the highlight with it.
TakesSelection ==
  /\ heap' = heap /\ ~Dangles(selPane)
  /\ selPane' \in DOMAIN heap /\ dragDivider' = dragDivider
  /\ marked' \subseteq (marked \ Selected) \cup {heap[selPane'].session}

\* All gestures are dropped.
DropsGestures ==
  /\ ~Dangles(selPane)
  /\ selPane' = Null /\ dragDivider' = Null
  /\ marked' \subseteq marked \ Selected

\* Every step of the mouse, of the focus and of the tab strip is one of these.
LEMMA MouseKinds ==
  ASSUME MouseStep \/ FocusStep \/ TogglePin \/ Fault \/ UNCHANGED vars
  PROVE  HoldsSelection \/ TakesSelection \/ DropsGestures
<1>1. ASSUME NEW i \in 1..tabRects, TabPress(i) PROVE DropsGestures
  BY <1>1 DEF TabPress, DropsGestures
<1>2. ASSUME NEW i \in 1..tabRects, TabDrag(i) PROVE HoldsSelection
  BY <1>2 DEF TabDrag, HoldsSelection
<1>3. ASSUME NEW n \in DOMAIN heap, DividerPress(n) PROVE HoldsSelection
  BY <1>3 DEF DividerPress, HoldsSelection
<1>4. ASSUME NEW n \in DOMAIN heap, PanePress(n) PROVE HoldsSelection \/ TakesSelection
  BY <1>4 DEF PanePress, HoldsSelection, TakesSelection, gesture
<1>5. ASSUME NEW n \in DOMAIN heap, SelectText(n) PROVE TakesSelection
  <2>1. /\ ~Dangles(selPane) /\ selPane' = n /\ heap' = heap /\ dragDivider' = dragDivider
    BY <1>5 DEF SelectText
  <2>2. PICK found \in SUBSET {heap[n].session} :
          marked' = (marked \ (Selected \ {heap[n].session})) \cup found
    BY <1>5 DEF SelectText
  <2>3. marked' \subseteq (marked \ Selected) \cup {heap[n].session}
    BY <2>2
  <2> QED
    BY <2>1, <2>3 DEF TakesSelection
<1>6. ASSUME PaneDrag PROVE HoldsSelection
  BY <1>6 DEF PaneDrag, SameTabs, HoldsSelection, gesture
<1>7. ASSUME MouseUp PROVE HoldsSelection
  <2>1. heap' = heap /\ selPane' = selPane /\ marked' = marked
    BY <1>7 DEF MouseUp, SameTabs
  <2>2. dragDivider' \in {dragDivider, Null}
    BY <1>7 DEF MouseUp
  <2> QED
    BY <2>1, <2>2 DEF HoldsSelection
<1>8. ASSUME ClearSelection PROVE DropsGestures
  BY <1>8 DEF ClearSelection, DropsGestures
<1>9. ASSUME heap' = heap, UNCHANGED <<gesture, marked>> PROVE HoldsSelection
  BY <1>9 DEF HoldsSelection, gesture
<1>10. CASE MouseStep
  BY <1>10, <1>1, <1>2, <1>3, <1>4, <1>5, <1>6, <1>7 DEF MouseStep
<1>11. CASE FocusStep
  <2>1. ClearSelection \/ (heap' = heap /\ UNCHANGED <<gesture, marked>>)
    BY <1>11 DEF FocusStep, ClearOnly, SelectTab, InvokeTab, ReuseSession, Zoom, FocusDir,
                 RenderFrame, SameTabs
  <2> QED
    BY <2>1, <1>8, <1>9
<1>12. CASE TogglePin \/ Fault \/ UNCHANGED vars
  BY <1>12, <1>9 DEF TogglePin, Fault, vars, gesture
<1> QED
  BY <1>10, <1>11, <1>12

\* The steps that free or make panes clear the selection, but for the three that
\* change what a pane shows.
LEMMA PaneKinds ==
  ASSUME PaneStep, ~TogglePin
  PROVE  DropsGestures \/ DetachPane \/ SwapOrMovePane \/ RestartSession
<1>1. ASSUME ClearSelection PROVE DropsGestures
  BY <1>1 DEF ClearSelection, DropsGestures
<1> QED
  BY <1>1 DEF PaneStep, NewTabShell, SplitActive, CloseActivePane, CloseOtherPanes, CloseTab,
              CloseTabSet

\* A step with both pointers on live panes leaves them there.
LEMMA PointersStep ==
  ASSUME [Next]_vars, PointersLive PROVE PointersLive' \/ DetachPane
<1>1. CASE HoldsSelection \/ TakesSelection \/ DropsGestures
  BY <1>1 DEF HoldsSelection, TakesSelection, DropsGestures, PointersLive, Dangles
<1>2. CASE SwapOrMovePane \/ RestartSession
  <2>1. DOMAIN heap' = DOMAIN heap
    BY <1>2 DEF SwapOrMovePane, RestartSession, SwapSessions
  <2>2. selPane' = selPane /\ dragDivider' = dragDivider
    BY <1>2 DEF SwapOrMovePane, RestartSession, gesture
  <2> QED
    BY <2>1, <2>2 DEF PointersLive, Dangles
<1> QED
  BY <1>1, <1>2, MouseKinds, PaneKinds DEF Next

\* OnlyDetachStrands: whatever the shape of the trees, no handler but the one that
\* moves a pane to a new tab leaves selPane_ or dragDivider_ on a freed pane.
THEOREM OnlyDetachFrees == Spec => OnlyDetachStrands
<1>1. [Next]_vars => (PointersLive => PointersLive' \/ DetachPane)
  BY PointersStep
<1>2. [][Next]_vars => OnlyDetachStrands
  BY <1>1, PTL DEF OnlyDetachStrands
<1> QED
  BY <1>2, PTL DEF Spec

\* A step with the highlight on the session in selPane_ leaves it there.  For
\* restartSession() this needs that no shell is shown twice.
LEMMA SelectionStep ==
  ASSUME Inv, [Next]_vars, SelectionHome
  PROVE  SelectionHome' \/ DetachPane \/ SwapOrMovePane
<1>1. CASE HoldsSelection
  <2>1. Selected' = Selected
    BY <1>1 DEF HoldsSelection, Selected
  <2> QED
    BY <1>1, <2>1 DEF HoldsSelection, SelectionHome, Dangles
<1>2. CASE TakesSelection
  <2>1. marked' \subseteq {heap[selPane'].session}
    BY <1>2 DEF TakesSelection, SelectionHome
  <2>2. selPane' # Null /\ selPane' \in DOMAIN heap /\ heap' = heap
    BY <1>2, NullAssumption, InvTypes DEF TakesSelection, Inv, TypeOK, IsHeap
  <2> QED
    BY <2>1, <2>2 DEF SelectionHome, Dangles, Selected
<1>3. CASE DropsGestures
  BY <1>3 DEF DropsGestures, SelectionHome, Dangles
<1>4. CASE RestartSession
  <2>1. PICK s \in Session \ Hosted(heap) : heap' = [heap EXCEPT ![Tab.active].session = s]
    BY <1>4 DEF RestartSession
  <2>2. PICK p, k : p = Tab.active /\ k = heap'
    OBVIOUS
  <2>3. k = WithSession(heap, p, s)
    BY <2>1, <2>2 DEF WithSession
  <2>4. IsForest(heap) /\ p \in Leaves(heap)
    <3>1. PICK reg : Grove(heap, tabs, reg)
      BY DEF Inv
    <3>2. activeTab \in DOMAIN tabs /\ Tab = tabs[activeTab]
      BY <1>4, InvTypes DEF RestartSession
    <3> QED
      BY <2>2, <3>1, <3>2, Regions
  <2>5. /\ SameShape(k, heap) /\ k[p].session = s
        /\ \A n \in DOMAIN heap : n # p => k[n] = heap[n]
    BY <2>3, <2>4, RestartShape
  <2>6. selPane' = selPane /\ marked' = marked \cap Hosted(k)
    BY <1>4, <2>2 DEF RestartSession, gesture
  <2>7. DOMAIN k = DOMAIN heap
    BY <2>5 DEF SameShape
  <2>8. CASE selPane = p
    <3>1. selPane # Null /\ marked \subseteq {heap[p].session}
      BY <2>4, <2>8, NullAssumption DEF SelectionHome, Selected, IsForest, IsHeap, Leaves
    <3>2. heap[p].session \notin Hosted(k)
      <4> SUFFICES ASSUME NEW n \in Leaves(k), k[n].session = heap[p].session PROVE FALSE
        BY DEF Hosted
      <4>1. n \in Leaves(heap) /\ n \in DOMAIN heap
        BY <2>5 DEF SameShape, Leaves
      <4>2. heap[p].session \in Hosted(heap)
        BY <2>4 DEF Hosted
      <4>3. n # p
        BY <2>1, <2>5, <4>2
      <4>4. heap[n].session = heap[p].session
        BY <2>5, <4>1, <4>3
      <4> QED
        BY <2>4, <4>1, <4>3, <4>4, InvTypes DEF SessionsDistinct
    <3>3. marked' = {}
      BY <2>6, <3>1, <3>2
    <3> QED
      BY <2>2, <2>6, <2>7, <3>3 DEF SelectionHome, Dangles
  <2>9. CASE selPane # p
    <3>1. selPane # Null => k[selPane] = heap[selPane]
      BY <2>5, <2>9 DEF SelectionHome, Dangles
    <3>2. Selected' = Selected
      BY <2>2, <2>6, <3>1 DEF Selected
    <3> QED
      BY <2>2, <2>6, <2>7, <3>2 DEF SelectionHome, Dangles
  <2> QED
    BY <2>8, <2>9
<1> QED
  BY <1>1, <1>2, <1>3, <1>4, MouseKinds, PaneKinds DEF Next

\* OnlyPaneMovesLoseSelection: the highlight is where clearSelection() looks for
\* it until a palette command moves sessions between panes, for any trees.
THEOREM HighlightStaysHome == Spec => OnlyPaneMovesLoseSelection
<1>1. Inv /\ [Next]_vars
        => (SelectionHome => SelectionHome' \/ DetachPane \/ SwapOrMovePane)
  BY SelectionStep
<1>2. []Inv /\ [][Next]_vars => OnlyPaneMovesLoseSelection
  BY <1>1, PTL DEF OnlyPaneMovesLoseSelection
<1> QED
  BY <1>2, InvHolds, PTL DEF Spec

-----------------------------------------------------------------------------
(* What a step may do to the places in the tab strip.                       *)

\* The strip and the active tab keep their places.
KeepsPlace ==
  DOMAIN tabs' = DOMAIN tabs /\ activeTab' = activeTab /\ tabDrag' \in {0, tabDrag}

\* No tab is closed, and one of them is made active; a drag goes along.
TakesPlace ==
  /\ DOMAIN tabs \subseteq DOMAIN tabs' /\ activeTab' \in DOMAIN tabs'
  /\ tabDrag' \in {0, tabDrag, activeTab'}

\* A drawn tab is pressed that is no longer there.
StalePress == \E i \in Len(tabs) + 1..tabRects : TabPress(i)

\* Tabs are closed.
Closes == tabDrag' = 0 /\ (CloseTabSet \/ \E i \in DOMAIN tabs : EraseTab(i))

\* A sequence has the places of another that is as long.
LEMMA SameDomain ==
  ASSUME NEW S, NEW ts \in Seq(S), NEW us \in Seq(S)
  PROVE  /\ DOMAIN us = DOMAIN ts <=> Len(us) = Len(ts)
         /\ DOMAIN ts \subseteq DOMAIN us => Len(us) >= Len(ts)
<1>1. PICK m, n : m = Len(ts) /\ n = Len(us)
  OBVIOUS
<1>2. m \in Nat /\ n \in Nat /\ DOMAIN ts = 1..m /\ DOMAIN us = 1..n
  BY <1>1
<1>3. ASSUME 1..m \subseteq 1..n PROVE n >= m
  BY <1>2, <1>3
<1>4. ASSUME 1..n \subseteq 1..m PROVE m >= n
  BY <1>2, <1>4
<1> QED
  BY <1>1, <1>2, <1>3, <1>4

\* A gesture ended by clearSelection() leaves no tab being dragged.
LEMMA ClearedDrag == ClearSelection => tabDrag' = 0
BY DEF ClearSelection

\* Every step is one of these.
LEMMA PlaceKinds ==
  ASSUME Inv, [Next]_vars, Inv'
  PROVE  KeepsPlace \/ TakesPlace \/ StalePress \/ Closes
<1>1. /\ tabs \in Seq(TabRecord) /\ DOMAIN tabs = 1..Len(tabs) /\ Len(tabs) \in Nat
      /\ tabRects \in 0..MaxTabs /\ MaxTabs \in Nat
      /\ tabs' \in Seq(TabRecord) /\ DOMAIN tabs' = 1..Len(tabs') /\ Len(tabs') \in Nat
  <2>1. tabs' \in Seq(TabRecord)
    BY DEF Inv, TypeOK, TabRecord
  <2> QED
    BY <2>1, InvTypes
<1>2. ASSUME ClearSelection, activeTab' = activeTab, DOMAIN tabs' = DOMAIN tabs
      PROVE  KeepsPlace
  BY <1>2, ClearedDrag DEF KeepsPlace
<1>3. ASSUME UNCHANGED gesture, activeTab' = activeTab, DOMAIN tabs' = DOMAIN tabs
      PROVE  KeepsPlace
  BY <1>3 DEF KeepsPlace, gesture
<1>4. ASSUME NewTabShell PROVE TakesPlace
  <2>1. PICK r \in Node : tabs' = Append(tabs, OnePaneTab(r))
    BY <1>4 DEF NewTabShell
  <2>2. Len(tabs') = Len(tabs) + 1
    BY <1>1, <2>1
  <2>3. activeTab' = Len(tabs') /\ tabDrag' = 0
    BY <1>4, ClearedDrag DEF NewTabShell
  <2> QED
    BY <1>1, <2>2, <2>3 DEF TakesPlace
<1>5. ASSUME DetachPane PROVE TakesPlace
  <2>1. PICK r \in Node :
          tabs' = Append([tabs EXCEPT ![activeTab].active = FocusAfterCollapse,
                                      ![activeTab].zoom = Null], OnePaneTab(r))
    BY <1>5 DEF DetachPane
  <2>2. PICK us : us = [tabs EXCEPT ![activeTab].active = FocusAfterCollapse,
                                    ![activeTab].zoom = Null]
    OBVIOUS
  <2>3. tabs' = Append(us, OnePaneTab(r)) /\ DOMAIN us = DOMAIN tabs
    BY <2>1, <2>2
  <2>4. Len(us) = Len(tabs) /\ Len(tabs') = Len(us) + 1
    BY <1>1, <2>3
  <2>5. activeTab' = Len(tabs') /\ tabDrag' = tabDrag
    BY <1>5 DEF DetachPane, gesture
  <2> QED
    BY <1>1, <2>4, <2>5 DEF TakesPlace
<1>6. CASE PaneStep
  <2>1. CASE SplitActive \/ CloseOtherPanes
    BY <2>1, <1>2 DEF SplitActive, CloseOtherPanes
  <2>2. CASE CloseActivePane
    <3>1. tabDrag' = 0
      BY <2>2, ClearedDrag DEF CloseActivePane
    <3>2. CASE heap[Tab.active].parent # Null
      BY <2>2, <3>2, <1>2 DEF CloseActivePane
    <3>3. CASE heap[Tab.active].parent = Null
      BY <2>2, <3>1, <3>3 DEF CloseActivePane, Closes, HasTab
    <3> QED
      BY <3>2, <3>3
  <2>3. CASE \E i \in DOMAIN tabs : CloseTab(i)
    BY <2>3, ClearedDrag DEF CloseTab, Closes
  <2>4. CASE CloseTabSet
    BY <2>4, ClearedDrag DEF CloseTabSet, Closes
  <2>5. CASE TogglePin
    <3>1. PICK reg : Grove(heap, tabs, reg)
      BY DEF Inv
    <3>2. Len(tabs') = Len(tabs) /\ activeTab' \in DOMAIN tabs'
      BY <2>5, <3>1, TogglePinned
    <3>3. tabDrag' = tabDrag
      BY <2>5 DEF TogglePin, gesture
    <3> QED
      BY <1>1, <3>2, <3>3 DEF TakesPlace
  <2>6. CASE SwapOrMovePane \/ RestartSession
    BY <2>6, <1>3 DEF SwapOrMovePane, RestartSession
  <2> QED
    BY <1>4, <1>5, <1>6, <2>1, <2>2, <2>3, <2>4, <2>5, <2>6 DEF PaneStep
<1>7. CASE FocusStep
  <2>1. CASE ClearOnly
    BY <2>1, <1>2 DEF ClearOnly, SameTabs
  <2>2. CASE \E i \in DOMAIN tabs : SelectTab(i) \/ InvokeTab(i)
    BY <2>2, ClearedDrag DEF SelectTab, InvokeTab, SameTabs, gesture, TakesPlace
  <2>3. CASE \E i \in DOMAIN tabs, leaf \in Leaves(heap) : ReuseSession(i, leaf)
    BY <2>3, ClearedDrag DEF ReuseSession, TakesPlace
  <2>4. CASE Zoom \/ FocusDir \/ RenderFrame
    BY <2>4, <1>3 DEF Zoom, FocusDir, RenderFrame
  <2> QED
    BY <1>7, <2>1, <2>2, <2>3, <2>4 DEF FocusStep
<1>8. CASE MouseStep
  <2>1. ASSUME NEW i \in 1..tabRects, TabPress(i) PROVE TakesPlace \/ StalePress
    <3>1. CASE i \in DOMAIN tabs
      BY <2>1, <3>1 DEF TabPress, SameTabs, TakesPlace
    <3>2. CASE i \notin DOMAIN tabs
      <4>1. i \in Len(tabs) + 1..tabRects
        BY <1>1, <3>2
      <4> QED
        BY <2>1, <4>1 DEF StalePress
    <3> QED
      BY <3>1, <3>2
  <2>2. ASSUME NEW j \in 1..tabRects, TabDrag(j) PROVE TakesPlace
    <3>1. /\ tabDrag \in DOMAIN tabs /\ j \in DOMAIN tabs /\ tabDrag' = j /\ activeTab' = j
          /\ tabs' = InsertAt(RemoveAt(tabs, tabDrag), j, tabs[tabDrag])
      BY <2>2 DEF TabDrag
    <3>2. PICK reg : Grove(heap, tabs, reg)
      BY DEF Inv
    <3>3. PICK d : d = tabDrag
      OBVIOUS
    <3>4. d \in DOMAIN tabs /\ j \in DOMAIN tabs /\ tabs' = InsertAt(RemoveAt(tabs, d), j, tabs[d])
      BY <3>1, <3>3
    <3>5. heap = [n \in DOMAIN heap |-> heap[n]] /\ tabs \in Seq(TabRecord)
      BY InvTypes
    <3>6. Len(tabs') = Len(tabs)
      BY <3>2, <3>4, <3>5, GroveMove
    <3> QED
      BY <1>1, <3>1, <3>6 DEF TakesPlace
  <2>3. CASE \E n \in DOMAIN heap : DividerPress(n) \/ PanePress(n) \/ SelectText(n)
    BY <2>3 DEF DividerPress, PanePress, SelectText, KeepsPlace, gesture
  <2>4. CASE PaneDrag \/ MouseUp
    BY <2>4 DEF PaneDrag, MouseUp, SameTabs, KeepsPlace, gesture
  <2> QED
    BY <1>8, <2>1, <2>2, <2>3, <2>4 DEF MouseStep
<1>9. CASE Fault \/ UNCHANGED vars
  BY <1>9, <1>3 DEF Fault, vars, gesture
<1> QED
  BY <1>6, <1>7, <1>8, <1>9 DEF Next

\* A tab taken out of the strip: the active tab stays inside it, and a tab that
\* is still there stays the active one.
LEMMA EraseKeepsPlace ==
  ASSUME Inv, HasTab, NEW i \in DOMAIN tabs, EraseTab(i)
  PROVE  /\ Len(tabs') = Len(tabs) - 1
         /\ Len(tabs) # 1 => activeTab' \in 1..(Len(tabs) - 1)
         /\ i # activeTab => tabs'[activeTab'] = Tab
         /\ \A j \in DOMAIN tabs' : \E m \in DOMAIN tabs : m # i /\ tabs'[j] = tabs[m]
<1>1. PICK us, n, a, b : us = tabs' /\ n = Len(tabs) /\ a = activeTab /\ b = activeTab'
  OBVIOUS
<1>2. /\ tabs \in Seq(TabRecord) /\ DOMAIN tabs = 1..n /\ n \in Nat
      /\ a \in 1..n /\ i \in 1..n /\ Tab = tabs[a]
  BY <1>1, InvTypes
<1>3. us = RemoveAt(tabs, i)
  BY <1>1 DEF EraseTab
<1>4. /\ us \in Seq(TabRecord) /\ Len(us) = n - 1
      /\ \A j \in DOMAIN us : /\ j < i => j \in DOMAIN tabs /\ us[j] = tabs[j]
                              /\ j >= i => j + 1 \in DOMAIN tabs /\ us[j] = tabs[j + 1]
  BY <1>1, <1>2, <1>3, Removed
<1>5. b = IF n = 1 THEN a ELSE IF i < a \/ (i = a /\ a = n) THEN a - 1 ELSE a
  BY <1>1, <1>2 DEF EraseTab, ActiveAfterClose
<1>6. n # 1 => b \in 1..(n - 1)
  BY <1>2, <1>5
<1>7. DOMAIN us = 1..(n - 1)
  BY <1>2, <1>4
<1>8. ASSUME i # a PROVE us[b] = tabs[a]
  <2>1. n # 1 /\ b \in DOMAIN us
    BY <1>2, <1>6, <1>7, <1>8
  <2>2. CASE i < a
    <3>1. b = a - 1 /\ b >= i /\ b + 1 = a
      BY <1>2, <1>5, <2>1, <2>2
    <3> QED
      BY <1>4, <2>1, <3>1
  <2>3. CASE i > a
    <3>1. b = a /\ b < i
      BY <1>2, <1>5, <2>1, <2>3
    <3> QED
      BY <1>4, <2>1, <3>1
  <2> QED
    BY <1>2, <1>8, <2>2, <2>3
<1>9. ASSUME NEW j \in DOMAIN us PROVE \E m \in DOMAIN tabs : m # i /\ us[j] = tabs[m]
  <2>1. j \in Nat
    BY <1>2, <1>7
  <2>2. CASE j < i
    BY <1>2, <1>4, <2>1, <2>2
  <2>3. CASE j >= i
    <3>1. j + 1 \in DOMAIN tabs /\ us[j] = tabs[j + 1] /\ j + 1 # i
      BY <1>2, <1>4, <2>1, <2>3
    <3> QED
      BY <3>1
  <2> QED
    BY <1>2, <2>1, <2>2, <2>3
<1> QED
  BY <1>1, <1>2, <1>4, <1>6, <1>8, <1>9

\* The same for the sets of tabs that are closed around the active one.
LEMMA CloseSetKeepsPlace ==
  ASSUME Inv, CloseTabSet
  PROVE  tabs' = <<>> \/ (activeTab' \in DOMAIN tabs' /\ tabs'[activeTab'] = Tab)
<1>1. PICK us, n, a, b : us = tabs' /\ n = Len(tabs) /\ a = activeTab /\ b = activeTab'
  OBVIOUS
<1>2. /\ tabs \in Seq(TabRecord) /\ DOMAIN tabs = 1..n /\ n \in Nat
      /\ a \in 1..n /\ Tab = tabs[a]
  BY <1>1, InvTypes DEF CloseTabSet
<1>3. ASSUME NEW first \in {1, a}, NEW last \in {a, n},
             us = SubSeq(tabs, first, last), b = a - first + 1
      PROVE  b \in DOMAIN us /\ us[b] = tabs[a]
  <2>1. first \in DOMAIN tabs /\ last \in DOMAIN tabs /\ first <= a /\ a <= last /\ first <= last
    BY <1>2
  <2>2. /\ us \in Seq(TabRecord) /\ Len(us) = last - first + 1
        /\ \A j \in DOMAIN us : first + j - 1 \in DOMAIN tabs /\ us[j] = tabs[first + j - 1]
    BY <1>2, <1>3, <2>1, Between
  <2>3. b \in 1..Len(us) /\ first + b - 1 = a
    BY <1>2, <1>3, <2>1, <2>2
  <2>4. b \in DOMAIN us
    BY <2>2, <2>3
  <2> QED
    BY <2>2, <2>3, <2>4
<1> QED
  BY <1>1, <1>2, <1>3 DEF CloseTabSet

\* A step leaves the active tab and the dragged one inside the strip, unless the
\* press is on a tab that is gone.
LEMMA IndexesStep ==
  ASSUME Inv, [Next]_vars, TabIndexesValid
  PROVE  TabIndexesValid' \/ \E i \in Len(tabs) + 1..tabRects : TabPress(i)
<1>1. Inv'
  BY NextInv
<1>2. /\ tabs \in Seq(TabRecord) /\ DOMAIN tabs = 1..Len(tabs) /\ Len(tabs) \in Nat
      /\ tabs' \in Seq(TabRecord) /\ DOMAIN tabs' = 1..Len(tabs') /\ Len(tabs') \in Nat
  <2>1. tabs' \in Seq(TabRecord)
    BY <1>1 DEF Inv, TypeOK, TabRecord
  <2> QED
    BY <2>1, InvTypes
<1>3. CASE KeepsPlace
  <2>1. tabs' # <<>> => tabs # <<>>
    BY <1>2, <1>3 DEF KeepsPlace
  <2> QED
    BY <1>3, <2>1 DEF KeepsPlace, TabIndexesValid, HasTab
<1>4. CASE TakesPlace
  BY <1>4 DEF TakesPlace, TabIndexesValid, HasTab
<1>5. CASE Closes /\ ~CloseTabSet
  <2>1. PICK i \in DOMAIN tabs : EraseTab(i)
    BY <1>5 DEF Closes
  <2>2. HasTab
    BY <1>2, <2>1 DEF TabIndexesValid
  <2>3. Len(tabs') = Len(tabs) - 1 /\ (Len(tabs) # 1 => activeTab' \in 1..(Len(tabs) - 1))
    BY <2>1, <2>2, EraseKeepsPlace
  <2>4. Len(tabs) = 1 => tabs' = <<>>
    BY <1>2, <2>3
  <2>5. tabs' # <<>> => activeTab' \in DOMAIN tabs'
    BY <1>2, <2>3, <2>4
  <2> QED
    BY <1>5, <2>5 DEF Closes, TabIndexesValid, HasTab
<1>6. CASE Closes /\ CloseTabSet
  BY <1>6, CloseSetKeepsPlace DEF Closes, TabIndexesValid, HasTab
<1> QED
  BY <1>1, <1>3, <1>4, <1>5, <1>6, PlaceKinds DEF StalePress

\* OnlyStalePressEscapes: activeTab_ and tabDragIndex_ leave tabs_ only by a press
\* on a tab that the last frame drew and that has been closed since, for any
\* number of tabs and panes.
THEOREM StalePressOnly == Spec => OnlyStalePressEscapes
<1>1. Inv /\ [Next]_vars
        => (TabIndexesValid =>
              TabIndexesValid' \/ \E i \in Len(tabs) + 1..tabRects : TabPress(i))
  BY IndexesStep
<1>2. []Inv /\ [][Next]_vars => OnlyStalePressEscapes
  BY <1>1, PTL DEF OnlyStalePressEscapes
<1> QED
  BY <1>2, InvHolds, PTL DEF Spec

\* When tabs are closed or pinned and the user's tab is among those that stay, it
\* is the active one.
LEMMA StaysStep ==
  ASSUME Inv, [Next]_vars, HasTab,
         \/ Len(tabs') < Len(tabs) /\ \E j \in DOMAIN tabs' : tabs'[j].root = Tab.root
         \/ TogglePin
  PROVE  activeTab' \in DOMAIN tabs' /\ tabs'[activeTab'].root = Tab.root
<1>1. PICK reg : Grove(heap, tabs, reg)
  BY DEF Inv
<1>2. CASE TogglePin
  BY <1>1, <1>2, TogglePinned
<1>3. CASE /\ Len(tabs') < Len(tabs)
           /\ \E j \in DOMAIN tabs' : tabs'[j].root = Tab.root
  <2>1. Inv'
    BY NextInv
  <2>2. /\ tabs \in Seq(TabRecord) /\ DOMAIN tabs = 1..Len(tabs) /\ Len(tabs) \in Nat
        /\ tabs' \in Seq(TabRecord) /\ DOMAIN tabs' = 1..Len(tabs') /\ Len(tabs') \in Nat
        /\ activeTab \in DOMAIN tabs /\ Tab = tabs[activeTab]
    <3>1. tabs' \in Seq(TabRecord)
      BY <2>1 DEF Inv, TypeOK, TabRecord
    <3> QED
      BY <3>1, InvTypes
  <2>3. ~(DOMAIN tabs \subseteq DOMAIN tabs')
    BY <1>3, <2>2
  <2>4. Closes
    <3>1. ~KeepsPlace /\ ~TakesPlace
      BY <2>3 DEF KeepsPlace, TakesPlace
    <3>2. ~StalePress
      BY <2>3 DEF StalePress, TabPress, SameTabs
    <3> QED
      BY <2>1, <3>1, <3>2, PlaceKinds
  <2>5. CASE CloseTabSet
    BY <1>3, <2>2, <2>5, CloseSetKeepsPlace
  <2>6. CASE \E i \in DOMAIN tabs : EraseTab(i)
    <3>1. PICK i \in DOMAIN tabs : EraseTab(i)
      BY <2>6
    <3>2. /\ Len(tabs') = Len(tabs) - 1
          /\ Len(tabs) # 1 => activeTab' \in 1..(Len(tabs) - 1)
          /\ i # activeTab => tabs'[activeTab'] = Tab
          /\ \A j \in DOMAIN tabs' : \E m \in DOMAIN tabs : m # i /\ tabs'[j] = tabs[m]
      BY <3>1, EraseKeepsPlace
    <3>3. PICK m \in DOMAIN tabs : m # i /\ tabs[m].root = tabs[activeTab].root
      BY <1>3, <2>2, <3>2
    <3>4. m = activeTab
      <4>1. tabs[m].root \in reg[m] /\ tabs[activeTab].root \in reg[activeTab]
        BY <1>1, <2>2, Regions
      <4> QED
        BY <1>1, <2>2, <3>3, <4>1 DEF Grove
    <3>5. Len(tabs) # 1
      BY <1>3, <2>2, <3>2
    <3> QED
      BY <2>2, <3>2, <3>3, <3>4, <3>5
  <2> QED
    BY <2>4, <2>5, <2>6 DEF Closes
<1> QED
  BY <1>2, <1>3

\* StaysInTab: closing other tabs and pinning never move the user to another tab,
\* for any number of tabs and panes.
THEOREM UserStaysInTab == Spec => StaysInTab
<1>1. ASSUME Inv, [Next]_vars
      PROVE  LET survives == HasTab /\ \E j \in DOMAIN tabs' : tabs'[j].root = Tab.root
             IN (survives /\ Len(tabs') < Len(tabs)) \/ (HasTab /\ TogglePin)
                  => activeTab' \in DOMAIN tabs' /\ tabs'[activeTab'].root = Tab.root
  BY <1>1, StaysStep
<1>2. []Inv /\ [][Next]_vars => StaysInTab
  BY <1>1, PTL DEF StaysInTab
<1> QED
  BY <1>2, InvHolds, PTL DEF Spec

=============================================================================
