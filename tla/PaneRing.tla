------------------------------ MODULE PaneRing ------------------------------
(***************************************************************************)
(* What a tab promises its user, with no tree in sight: a row of shells in *)
(* reading order, one of them focused.                                     *)
(***************************************************************************)
EXTENDS Naturals, Sequences, SequencesExt

CONSTANT Session

VARIABLES order,  \* the shells, in the order leaves() lists them
          focus   \* position of the focused one

vars == <<order, focus>>

Init == \E s \in Session : order = <<s>> /\ focus = 1

\* The new shell is put right after the focused one and takes the focus.
Insert(s) ==
  /\ s \notin ToSet(order)
  /\ order' = InsertAt(order, focus + 1, s)
  /\ focus' = focus + 1

\* The focused shell leaves the row; focus moves to its successor or to some
\* shell before it.
Take ==
  /\ Len(order) > 1
  /\ order' = RemoveAt(order, focus)
  /\ focus' \in 1..focus
  /\ focus' <= Len(order')

Keep ==
  /\ order' = <<order[focus]>>
  /\ focus' = 1

\* The focused shell trades places with the next one round the row; focus stays
\* with the place or goes with the shell.
Exchange ==
  LET next == (focus % Len(order)) + 1
  IN /\ order' = [order EXCEPT ![focus] = order[next], ![next] = order[focus]]
     /\ focus' \in {focus, next}

Focus ==
  /\ focus' \in 1..Len(order)
  /\ UNCHANGED order

Next == (\E s \in Session : Insert(s)) \/ Take \/ Keep \/ Exchange \/ Focus

Spec == Init /\ [][Next]_vars
=============================================================================
