------------------------------ MODULE MCPanes ------------------------------
(* The panes of a tab, what is typed into, found in and said by one, and    *)
(* what is saved of them all: PaneTree on a small heap, and the row of      *)
(* shells it implements, and small instances of Input, FindWalk, OscStream  *)
(* and SavedLayout.                                                         *)
(* `part` says which one a behaviour is of; the others stay as they were at *)
(* the start, so the states to check add up and do not multiply.            *)
EXTENDS PaneTree, FindWalk, Input, OscStream, SavedLayout

VARIABLE part

mcVars == <<part, vars, findVars, inputVars, oscVars, layoutVars>>

\* Reading order and focus, read off the tree.
Order == LET list == LeafSeq(heap, root)
         IN [i \in DOMAIN list |-> heap[list[i]].session]
FocusAt == CHOOSE i \in DOMAIN Order : LeafSeq(heap, root)[i] = active

Ring == INSTANCE PaneRing WITH order <- Order, focus <- FocusAt

\* A tab is a row of shells with one focused, whatever tree shows it.
ImplementsRing == Ring!Spec

\* States that differ only in which addresses the panes were given are one
\* state; the shape of the tree, its links and its leaks are kept.
Shape ==
  LET shape[n \in DOMAIN heap] ==
        IF heap[n].isSplit THEN <<"split", shape[heap[n].a], shape[heap[n].b]>>
        ELSE <<"leaf", heap[n].session, n = active, n = zoom>>
  IN shape[root]

View == IF part = "panes"
        THEN <<IF WellFounded(heap) THEN Shape ELSE <<>>, compact, alive, detached,
               zoom = Null, TreeShape, Cardinality(DOMAIN heap)>>
        ELSE <<part, findVars, inputVars, oscVars, layoutVars>>

MCWrites ==
  {<<"ESC">>, <<"]", "m">>, <<"BEL">>, <<"ESC", "\\">>, <<"\\">>,
   <<"ESC", "]", "m", "BEL">>, <<"m", "ESC", "]">>, <<"i">>}

MCInit ==
  /\ part \in {"panes", "find", "input", "osc", "saved"}
  /\ Init /\ FindInit /\ InputInit /\ OscInit /\ LayoutInit
  /\ part # "panes" => root = CHOOSE n \in Node : TRUE
  /\ part # "find" => \A r \in DOMAIN hits : hits[r] = 0

InPanes == /\ part = "panes"
           /\ UNCHANGED <<part, findVars, inputVars, oscVars, layoutVars>>
InFind  == /\ part = "find"
           /\ UNCHANGED <<part, vars, inputVars, oscVars, layoutVars>>
InInput == /\ part = "input"
           /\ UNCHANGED <<part, vars, findVars, oscVars, layoutVars>>
InOsc   == /\ part = "osc"
           /\ UNCHANGED <<part, vars, findVars, inputVars, layoutVars>>
InSaved == /\ part = "saved"
           /\ UNCHANGED <<part, vars, findVars, inputVars, oscVars>>

MCNext ==
  \/ InPanes /\ \E p \in DOMAIN heap : SetActive(p)
  \/ InPanes /\ \E s \in Session : SplitActive(s)
  \/ InPanes /\ CloseActive
  \/ InPanes /\ DetachActive
  \/ InPanes /\ \E s \in Session : DropDetached(s)
  \/ InPanes /\ SwapActiveWithNext
  \/ InPanes /\ MoveActiveForward
  \/ InPanes /\ CloseOthers
  \/ InPanes /\ \E p \in DOMAIN heap \cup {Null} : SetZoom(p)
  \/ InPanes /\ FocusDir
  \/ InPanes /\ Layout

  \/ InFind /\ OpenFind
  \/ InFind /\ CloseFind
  \/ InFind /\ EditQuery
  \/ InFind /\ Output
  \/ InFind /\ Scroll
  \/ InFind /\ Stamp
  \/ InFind /\ \E up \in BOOLEAN : FindNext(up)

  \/ InInput /\ BoxEnds
  \/ InInput /\ OnChar
  \/ InInput /\ \E k \in Keys : OnKeyDown(k)

  \/ InOsc /\ \E data \in Writes : OscWrite(data)
  \/ InOsc /\ OscDrain

  \/ InSaved /\ TogglePin
  \/ \E s \in Shell : \/ InSaved /\ NewTab(s)
                      \/ InSaved /\ \E new \in Shell, dir \in {"rows", "cols"} :
                                     SplitPane(s, dir, new)
  \/ \E i \in DOMAIN tabs : \/ InSaved /\ CloseTab(i)
                            \/ InSaved /\ SelectTab(i)
                            \/ InSaved /\ DragTab(i)
  \/ \E f \in File : \/ InSaved /\ CreateWindow(f)
                     \/ InSaved /\ EndWindow(f)
                     \/ InSaved /\ SaveSnapshot(f)
                     \/ InSaved /\ OpenSnapshot(f)

MCSpec == MCInit /\ [][MCNext]_mcVars
=============================================================================
