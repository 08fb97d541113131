--------------------------- MODULE Accessibility ---------------------------
(***************************************************************************)
(* What assistive technology sees of the window:                           *)
(* util/AccessibilityProvider.cpp and                                      *)
(* Window::updateChromeAccessibility(). The window owns one reference of   *)
(* the root provider; a client, on threads of its own, owns references of  *)
(* the root, of children named by id, and of text ranges, and each of      *)
(* those keeps the root alive.  A range reads the copy of the screen it    *)
(* was made with.                                                          *)
(***************************************************************************)
EXTENDS Integers, SequencesExt

CONSTANTS
  Slot,      \* where a client keeps what it got
  Screens,   \* the texts the terminal may show: sequences of "a", " ", "\n"
  Needles,   \* what is searched
  Chromes,   \* what a frame may find in the window: [tabs, split, toast]
  MaxRefs    \* bound on the references a client takes of one object

\* A text is cells and line ends; what a client keeps can be counted.
Texts == Seq({"a", " ", "\n"})
ASSUME SlotAssumption == IsFiniteSet(Slot)
ASSUME ScreensAssumption == Screens \subseteq Texts /\ Needles \subseteq Texts

VARIABLES
  window,    \* hwnd_ is there
  elements, terminalText,  \* what was last published to the provider
  rootRefs,  \* refs_ of the root provider; 0 is a deleted one
  rooted,    \* references of the root a client holds
  object,    \* [Slot -> Free, a child or a range, with its refs_]
  posted     \* kAccessibilityInvokeMessage waiting: the ids

accVars == <<window, elements, terminalText, rootRefs, rooted, object, posted>>

Unit == {"Character", "Word", "Line", "Document"}
Unused == [kind |-> "free"]
NewTabId == <<"NewTab", 0>>
ClosePaneId == <<"ClosePane", 0>>
TabId(i) == <<"Tab", i>>
ToastId == <<"Toast", 0>>

\* updateChromeAccessibility(): one element for each thing drawn, tabs by index.
ChromeElements(c) ==
  <<NewTabId>> \o (IF c.split THEN <<ClosePaneId>> ELSE <<>>)
  \o [i \in 1..c.tabs |-> TabId(i)] \o (IF c.toast THEN <<ToastId>> ELSE <<>>)

AccInit ==
  /\ window = TRUE /\ elements = <<>> /\ terminalText = <<>>
  /\ rootRefs = 1 /\ rooted = 0
  /\ object = [s \in Slot |-> Unused] /\ posted = <<>>

KeepWindow == UNCHANGED <<window, elements, terminalText, posted>>
KeepClient == UNCHANGED <<rooted, object>>
-----------------------------------------------------------------------------
(* The window's thread.                                                     *)

\* renderFrame() publishes what it finds; a new message is announced through
\* a child that lives no longer than the call.
Publish ==
  /\ window
  /\ \E c \in Chromes : elements' = ChromeElements(c)
  /\ terminalText' \in Screens
  /\ UNCHANGED <<window, rootRefs, posted>> /\ KeepClient

\* kAccessibilityInvokeMessage: see WindowTabs for what the window does.
TakeInvoke ==
  /\ window /\ posted # <<>>
  /\ posted' = <<>>
  /\ UNCHANGED <<window, elements, terminalText, rootRefs>> /\ KeepClient

\* WM_GETOBJECT: the client gets a reference of the root.
GetRoot ==
  /\ window /\ rooted < MaxRefs
  /\ rootRefs' = rootRefs + 1 /\ rooted' = rooted + 1
  /\ KeepWindow /\ UNCHANGED object

\* ~Window().
WindowGone ==
  /\ window
  /\ window' = FALSE /\ rootRefs' = rootRefs - 1
  /\ posted' = <<>>
  /\ UNCHANGED <<elements, terminalText>> /\ KeepClient
-----------------------------------------------------------------------------
(* Objects of the client.  Made(s, o) is a constructor, which holds the     *)
(* root; a Release() that reaches zero is a destructor, which lets it go.   *)

Made(s, o) ==
  /\ object[s] = Unused
  /\ object' = [object EXCEPT ![s] = o] /\ rootRefs' = rootRefs + 1
  /\ KeepWindow /\ UNCHANGED rooted

ReleaseRoot ==
  /\ rooted > 0 /\ rooted' = rooted - 1 /\ rootRefs' = rootRefs - 1
  /\ KeepWindow /\ UNCHANGED object

AddRef(s) ==  \* QueryInterface(), GetPatternProvider()
  /\ object[s].kind # "free" /\ object[s].refs <= MaxRefs
  /\ object' = [object EXCEPT ![s].refs = @ + 1]
  /\ KeepWindow /\ UNCHANGED <<rootRefs, rooted>>

Release(s) ==
  /\ object[s].kind # "free"
  /\ IF object[s].refs = 1
     THEN object' = [object EXCEPT ![s] = Unused] /\ rootRefs' = rootRefs - 1
     ELSE object' = [object EXCEPT ![s].refs = @ - 1] /\ UNCHANGED rootRefs
  /\ KeepWindow /\ UNCHANGED rooted

\* Mutant: get_FragmentRoot() hands the root out and does not count it.
ToRootUncounted(s) ==
  /\ object[s].kind # "free" /\ rooted < MaxRefs
  /\ rooted' = rooted + 1
  /\ KeepWindow /\ UNCHANGED <<rootRefs, object>>

\* Parent, get_FragmentRoot(), get_SelectionContainer(), GetEnclosingElement().
ToRoot(s) ==
  /\ object[s].kind # "free" /\ rooted < MaxRefs
  /\ rootRefs' = rootRefs + 1 /\ rooted' = rooted + 1
  /\ KeepWindow /\ UNCHANGED object

Child(id) == [kind |-> "child", refs |-> 1, id |-> id]

\* Navigate() of the root: the first and the last of what is published.
FirstOrLast(s) ==
  /\ rooted > 0 /\ elements # <<>>
  /\ \E id \in {elements[1], Last(elements)} : Made(s, Child(id))

\* Navigate() of a child: its neighbour, if it is still published.
Neighbour(from, s) ==
  /\ object[from].kind = "child"
  /\ \E i \in DOMAIN elements, delta \in {-1, 1} :
       /\ elements[i] = object[from].id /\ i + delta \in DOMAIN elements
       /\ Made(s, Child(elements[i + delta]))

\* Invoke(): posted when the element is still published.
Invoke(s) ==
  /\ object[s].kind = "child" /\ Contains(elements, object[s].id)
  /\ window /\ posted = <<>>
  /\ posted' = <<object[s].id>>
  /\ UNCHANGED <<window, elements, terminalText, rootRefs>> /\ KeepClient
-----------------------------------------------------------------------------
(* TextRangeProvider: positions count from 0.                               *)

Clamp(x, lo, hi) == IF x < lo THEN lo ELSE IF x > hi THEN hi ELSE x

Normalize(r) ==
  LET start == Clamp(r.start, 0, Len(r.text))
  IN [r EXCEPT !.start = start, !.end = Clamp(r.end, start, Len(r.text))]

Range1(text, start, end) ==
  Normalize([kind |-> "range", refs |-> 1, text |-> text, start |-> start, end |-> end])

Delimiter(unit) == IF unit = "Line" THEN "\n" ELSE " "

\* Forward: past the next delimiter.  Back: the start of the unit before.
NextBoundary(text, position, unit, direction) ==
  LET size == Len(text)
      p == Clamp(position, 0, size)
      ends == {q \in p + 1..size : text[q] = Delimiter(unit)}
      starts == {q \in 1..p - 1 : text[q] = Delimiter(unit)}
  IN CASE unit = "Document" -> IF direction < 0 THEN 0 ELSE size
       [] unit = "Character" -> Clamp(p + direction, 0, size)
       [] unit \in {"Word", "Line"} /\ direction > 0 -> IF ends = {} THEN size ELSE Min(ends)
       [] OTHER -> IF starts = {} THEN 0 ELSE Max(starts)

Expanded(r, unit) ==
  LET start == IF unit = "Document" THEN 0 ELSE NextBoundary(r.text, r.start, unit, -1)
      end == IF unit = "Document" THEN Len(r.text)
             ELSE NextBoundary(r.text, start, unit, 1)
  IN Normalize([r EXCEPT !.start = start, !.end = end])

\* Move() by one unit: to the boundary, and then to the unit before it.
Moved(r, unit, direction) ==
  LET p == NextBoundary(r.text, r.start, unit, direction)
  IN Expanded([r EXCEPT !.start = p, !.end = p], unit)

\* An endpoint is put at a position; the other gives way.
EndpointAt(r, which, position) ==
  Normalize(IF which = "Start"
            THEN [r EXCEPT !.start = position, !.end = IF @ < position THEN position ELSE @]
            ELSE [r EXCEPT !.end = position, !.start = IF @ > position THEN position ELSE @])
Endpoint(r, which) == IF which = "Start" THEN r.start ELSE r.end

Becomes(s, r) ==
  /\ object' = [object EXCEPT ![s] = r]
  /\ KeepWindow /\ UNCHANGED <<rootRefs, rooted>>

DocumentRange(s) ==
  /\ rooted > 0 /\ Made(s, Range1(terminalText, 0, Len(terminalText)))
Clone(r, s) ==
  /\ object[r].kind = "range" /\ Made(s, [object[r] EXCEPT !.refs = 1])
FindText(r, s) ==
  /\ object[r].kind = "range"
  /\ \E needle \in Needles, at \in object[r].start..object[r].end :
       /\ at + Len(needle) <= object[r].end
       /\ SubSeq(object[r].text, at + 1, at + Len(needle)) = needle
       /\ Made(s, Range1(object[r].text, at, at + Len(needle)))

ExpandToEnclosingUnit(s) ==
  /\ object[s].kind = "range"
  /\ \E unit \in Unit : Becomes(s, Expanded(object[s], unit))
MoveByUnit(s) ==
  /\ object[s].kind = "range"
  /\ \E unit \in Unit, direction \in {-1, 1} :
       Becomes(s, Moved(object[s], unit, direction))
MoveEndpointByUnit(s) ==
  /\ object[s].kind = "range"
  /\ \E unit \in Unit, direction \in {-1, 1}, which \in {"Start", "End"} :
       Becomes(s, EndpointAt(object[s], which,
         NextBoundary(object[s].text, Endpoint(object[s], which), unit, direction)))
MoveEndpointByRange(s, target) ==
  /\ object[s].kind = "range" /\ object[target].kind = "range"
  /\ \E which, its \in {"Start", "End"} :
       Becomes(s, EndpointAt(object[s], which, Endpoint(object[target], its)))
-----------------------------------------------------------------------------
AccNext ==
  \/ Publish \/ TakeInvoke \/ GetRoot \/ WindowGone \/ ReleaseRoot
  \/ \E s \in Slot :
       \/ AddRef(s) \/ Release(s) \/ ToRoot(s) \/ FirstOrLast(s) \/ Invoke(s)
       \/ DocumentRange(s) \/ ExpandToEnclosingUnit(s) \/ MoveByUnit(s)
       \/ MoveEndpointByUnit(s)
  \/ \E s, t \in Slot :
       \/ Neighbour(s, t) \/ Clone(s, t) \/ FindText(s, t) \/ MoveEndpointByRange(s, t)

AccSpec == AccInit /\ [][AccNext]_accVars
-----------------------------------------------------------------------------
\* As long as the window or a client holds the root, a child or a range, the
\* root is there for it, and with the last of them it is deleted: no thread of
\* a client reaches a deleted root, whichever of the window and the client
\* goes first.
RootOutlives ==
  rootRefs = (IF window THEN 1 ELSE 0) + rooted
         + Cardinality({s \in Slot : object[s] # Unused})

\* The positions at which an endpoint stops that is moved on by one unit at a time.
Stops(text, p, unit, direction) ==
  LET From[q \in 0..Len(text)] ==
        LET next == NextBoundary(text, q, unit, direction)
        IN {q} \cup (IF next = q THEN {} ELSE From[next])
  IN From[p]

\* Where the words or lines of a text begin and end.
Edges(text, unit) ==
  {0, Len(text)} \cup {q \in 1..Len(text) : text[q] = Delimiter(unit)}

\* Whatever was done to it, with whichever other screen's range, a range lies in
\* its own text, so that GetText() and FindText() read it.  An endpoint that
\* MoveEndpointByUnit() takes over the text by words or lines, forward or back,
\* stops at the start of each of them and at the ends, so that nothing is skipped
\* and none is read twice.  Move() does not get on like that: by one word or line
\* forward it makes the range the one its start lies in, whole, which is where it
\* was; it skips nothing, and leaves it to the endpoints to read on
\* (AccessibilityProvider.cpp:509, 594-595).
RangesReadable ==
  \A s \in Slot : object[s].kind = "range" =>
    LET r == object[s]
        size == Len(r.text)
    IN /\ 0 <= r.start /\ r.start <= r.end /\ r.end <= size
       /\ \A unit \in {"Word", "Line"} :
            LET edges == Edges(r.text, unit)
                on    == Moved(r, unit, 1)
            IN /\ Stops(r.text, 0, unit, 1) = edges
               /\ Stops(r.text, size, unit, -1) = edges
               /\ edges \cap (on.start..on.end) = {on.start, on.end}
               /\ on.start <= r.start /\ (r.start < size => r.start < on.end)

\* Whatever clients hold serves them, past the window's end too: the objects are
\* there, and the texts can be read.
ClientsServed == RootOutlives /\ RangesReadable
=============================================================================
