------------------------------ MODULE PaneHeap ------------------------------
(***************************************************************************)
(* The split tree of a tab: the nodes of Pane.h and the pointer surgery of *)
(* Tab.cpp, as functions of the heap they work on.                         *)
(*                                                                         *)
(* A heap maps the address of every Pane that is allocated now to its      *)
(* fields, so DOMAIN h is the set of live panes, an address outside it     *)
(* dangles, and an address that was freed may be allocated again.  dir,    *)
(* ratio and rect only steer the geometry and are left out.                *)
(***************************************************************************)
EXTENDS Naturals, Sequences

CONSTANTS Node,     \* addresses a Pane can be allocated at
          Session,  \* TerminalSession objects
          Null      \* nullptr

ASSUME NullAssumption == Null \notin Node \cup Session

Pane == [isSplit : BOOLEAN,
         session : Session \cup {Null},
         a       : Node \cup {Null},
         b       : Node \cup {Null},
         parent  : Node \cup {Null}]

IsHeap(h) == DOMAIN h \subseteq Node /\ h \in [DOMAIN h -> Pane]

Leaf(s, up) ==
  [isSplit |-> FALSE, session |-> s, a |-> Null, b |-> Null, parent |-> up]

Leaves(h)     == {n \in DOMAIN h : ~h[n].isSplit}
Children(h, n) == IF h[n].isSplit THEN {h[n].a, h[n].b} ELSE {}

\* The sessions whose unique_ptr some pane of the heap owns.
Hosted(h) == {h[n].session : n \in Leaves(h)}

-----------------------------------------------------------------------------
(* Walks.  A walk is described by the sets it cannot leave, which is what   *)
(* the proofs use: no induction over the tree is needed.                    *)

\* S holds r and, with any node, its children.
ClosedUnderChildren(h, S, r) ==
  r \in S /\ \A n \in S : Children(h, n) \subseteq S

\* Everything unique_ptr ownership frees with r.
Subtree(h, r) ==
  {n \in DOMAIN h :
     \A S \in SUBSET DOMAIN h : ClosedUnderChildren(h, S, r) => n \in S}

\* The nodes `while (p->isSplit) p = p->a` passes, from r down.
ClosedUnderFirst(h, S, r) ==
  r \in S /\ \A n \in S : h[n].isSplit => h[n].a \in S

LeftSpine(h, r) ==
  {n \in DOMAIN h :
     \A S \in SUBSET DOMAIN h : ClosedUnderFirst(h, S, r) => n \in S}

FirstLeaf(h, r) == CHOOSE n \in LeftSpine(h, r) : ~h[n].isSplit

\* collect(): the leaves below r, child a before child b.
LeafSeq(h, r) ==
  LET collect[n \in DOMAIN h] == IF h[n].isSplit
                                 THEN collect[h[n].a] \o collect[h[n].b]
                                 ELSE <<n>>
  IN collect[r]

-----------------------------------------------------------------------------
(* Surgery.                                                                 *)

\* Mutant: the two halves are mixed up.
SplitHeapReversed(h, p, na, nb, incoming) ==
  [n \in DOMAIN h \cup {na, nb} |->
     IF n = na THEN Leaf(incoming, p)
     ELSE IF n = nb THEN Leaf(h[p].session, p)
     ELSE IF n = p THEN [isSplit |-> TRUE, session |-> Null, a |-> na, b |-> nb,
                         parent |-> h[p].parent]
     ELSE h[n]]

\* Leaf p becomes a split: its session moves to the new pane na, the incoming
\* one goes to the new pane nb.
SplitHeap(h, p, na, nb, incoming) ==
  [n \in DOMAIN h \cup {na, nb} |->
     IF n = na THEN Leaf(h[p].session, p)
     ELSE IF n = nb THEN Leaf(incoming, p)
     ELSE IF n = p THEN [isSplit |-> TRUE, session |-> Null, a |-> na, b |-> nb,
                         parent |-> h[p].parent]
     ELSE h[n]]

Sibling(h, p) ==
  LET up == h[p].parent IN IF h[up].a = p THEN h[up].b ELSE h[up].a

\* Mutant: the sibling's children keep a freed pane as their parent.
CollapseHeapKeepsParents(h, p) ==
  LET up  == h[p].parent
      sib == Sibling(h, p)
  IN [n \in DOMAIN h \ {p, sib} |->
        IF n = up THEN [h[sib] EXCEPT !.parent = h[up].parent] ELSE h[n]]

\* Leaf p and its sibling are freed; their parent takes over what the sibling
\* held, and the sibling's children get it as their parent.
CollapseHeap(h, p) ==
  LET up  == h[p].parent
      sib == Sibling(h, p)
  IN [n \in DOMAIN h \ {p, sib} |->
        IF n = up THEN [h[sib] EXCEPT !.parent = h[up].parent]
        ELSE IF n \in Children(h, sib) THEN [h[n] EXCEPT !.parent = up]
        ELSE h[n]]

SwapSessions(h, x, y) ==
  [h EXCEPT ![x].session = h[y].session, ![y].session = h[x].session]

\* The panes of F are freed and one new pane k takes session s.
ReplaceTree(h, F, k, s) ==
  [n \in (DOMAIN h \ F) \cup {k} |-> IF n = k THEN Leaf(s, Null) ELSE h[n]]

-----------------------------------------------------------------------------
(* What a well-formed tree is.                                              *)

\* Every child points back at its parent, a split owns two panes and no
\* session, a leaf owns a session and no panes.
LinksOf(h, n) ==
  IF h[n].isSplit
  THEN /\ h[n].session = Null
       /\ h[n].a # h[n].b
       /\ \A c \in {h[n].a, h[n].b} : c \in DOMAIN h /\ h[c].parent = n
  ELSE h[n].session \in Session /\ h[n].a = Null /\ h[n].b = Null

\* A pane that has a parent is one of that parent's children.
OwnedByParent(h, n) ==
  h[n].parent # Null =>
    /\ h[n].parent \in DOMAIN h
    /\ n \in Children(h, h[n].parent)

\* No walk down the tree goes round in a circle.
WellFounded(h) ==
  \A S \in SUBSET DOMAIN h :
    S # {} => \E n \in S : Children(h, n) \cap S = {}

\* A session is never owned by two panes.
SessionsDistinct(h) ==
  \A m, n \in Leaves(h) : m # n => h[m].session # h[n].session
=============================================================================
