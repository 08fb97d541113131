------------------------------ MODULE FindWalk ------------------------------
(***************************************************************************)
(* app/WindowFind.cpp: walking the matches of the find bar's query.        *)
(* Matches in the viewport are stamped once a frame; Enter and F3 step     *)
(* through them, and past the first or last the whole scrollback is        *)
(* searched and the viewport jumps.  Keys come between frames, any number  *)
(* at a time (RenderLoop empties the queue before it draws), and so does   *)
(* output.  A query is what it matches: how often in each row.             *)
(***************************************************************************)
EXTENDS Integers, Sequences, FiniteSetsExt, SequencesExt

CONSTANTS MaxRows, \* bound on the rows of the buffer
          Height,  \* rows of the viewport
          PerRow   \* bound on the matches in one row

ASSUME HeightAssumption == Height \in 1..MaxRows /\ MaxRows \in Nat
ASSUME PerRowAssumption == PerRow \in Nat

VARIABLES
  finding, \* findActive_, with a query that is not empty
  rows,    \* rows of the buffer, scrollback first
  hits,    \* matches of the query in each row there is or will be
  top,     \* viewportRow()
  matches, \* findMatches_: the rows of the viewport they are in
  index,   \* findIndex_, from 0; -1: none
  seek,    \* findSeekRow_; -1: none
  current,      \* the row of the active match in the last frame; -1: none
  step,    \* since the last frame: "none", "up", "down", or "more" steps
  moved    \* since the last frame: output came, or the query changed

findVars == <<finding, rows, hits, top, matches, index, seek, current, step, moved>>

Hit(from, to) == {r \in from..to : r < rows /\ hits[r] > 0}

FindInit ==
  /\ finding = FALSE /\ rows = Height /\ hits \in [0..MaxRows - 1 -> 0..PerRow]
  /\ top = 0 /\ matches = <<>> /\ index = -1 /\ seek = -1
  /\ current = -1 /\ step = "none" /\ moved = FALSE

\* openFind(), again too, with a query typed or taken from the selection.
OpenFind ==
  /\ finding' = TRUE /\ index' = -1 /\ seek' = -1 /\ moved' = TRUE
  /\ UNCHANGED <<rows, hits, top, matches, current, step>>

CloseFind ==
  /\ finding
  /\ finding' = FALSE /\ matches' = <<>> /\ index' = -1 /\ seek' = -1
  /\ UNCHANGED <<rows, hits, top, current, step, moved>>

\* onFindChar() and findBackspace(): a longer query matches less, a shorter one
\* more.
EditQuery ==
  /\ finding
  /\ \E r \in 0..rows - 1, n \in 0..PerRow : hits' = [hits EXCEPT ![r] = n]
  /\ index' = -1 /\ seek' = -1 /\ moved' = TRUE
  /\ UNCHANGED <<finding, rows, top, matches, current, step>>

\* A line of output; a viewport at the bottom goes along.
Output ==
  /\ rows < MaxRows
  /\ rows' = rows + 1
  /\ top' = IF top = rows - Height THEN top + 1 ELSE top
  /\ moved' = TRUE
  /\ UNCHANGED <<finding, hits, matches, index, seek, current, step>>

\* The user scrolls, or types, which snaps the viewport to the bottom.
Scroll ==
  /\ top' \in 0..rows - Height
  /\ moved' = TRUE
  /\ UNCHANGED <<finding, rows, hits, matches, index, seek, current, step>>

\* Mutant: a jump goes from the edge of the viewport, and up leaves out the row
\* next to it.
JumpFromEdge(up) ==
  LET refRow == IF up THEN top ELSE top + Height - 1
      beyond == IF up THEN Hit(0, refRow - 2) ELSE Hit(refRow + 1, rows - 1)
      best == IF up THEN Max(beyond) ELSE Min(beyond)
      target == Max({0, best - Height \div 2})
  IN IF beyond = {} THEN UNCHANGED <<top, seek>>
     ELSE seek' = best /\ top' = Min({target, rows - Height})

\* findJumpGlobal(): the nearest row beyond the active match, or beyond the edge
\* of the viewport, goes to the middle of the viewport.
Jump(up) ==
  LET refRow == IF index \in 0..Len(matches) - 1 THEN top + matches[index + 1]
                ELSE IF up THEN top ELSE top + Height - 1
      beyond == IF up THEN Hit(0, refRow - 1) ELSE Hit(refRow + 1, rows - 1)
      best == IF up THEN Max(beyond) ELSE Min(beyond)
      target == Max({0, best - Height \div 2})
  IN IF beyond = {} THEN UNCHANGED <<top, seek>>
     ELSE seek' = best /\ top' = Min({target, rows - Height})

\* findNext(), by Enter or F3.
FindNext(up) ==
  /\ finding
  /\ LET to == IF up THEN index - 1 ELSE index + 1
     IN IF index >= 0 /\ to \in 0..Len(matches) - 1
        THEN index' = to /\ UNCHANGED <<top, seek>>
        ELSE UNCHANGED index /\ Jump(up)
  /\ step' = IF step # "none" THEN "more" ELSE IF up THEN "up" ELSE "down"
  /\ UNCHANGED <<finding, rows, hits, matches, current, moved>>

\* The frame: stampFindMatches(), and drawFindBar(), which shows the index.
Stamp ==
  LET row(y) == [i \in 1..hits[top + y] |-> y]
      found == FlattenSeq([y \in 1..Height |-> row(y - 1)])
      off(i) == LET d == found[i] - (seek - top) IN IF d < 0 THEN -d ELSE d
      near == CHOOSE i \in 1..Len(found) :
                /\ \A j \in 1..Len(found) : off(i) <= off(j)
                /\ \A j \in 1..i - 1 : off(i) < off(j)
      now == IF found = <<>> THEN -1
             ELSE IF seek >= 0 THEN near - 1
             ELSE IF index \in 0..Len(found) - 1 THEN index
             ELSE Len(found) - 1
  IN /\ matches' = (IF finding THEN found ELSE <<>>)
     /\ IF finding
        THEN /\ index' = now
             /\ seek' = IF found = <<>> THEN seek ELSE -1
             /\ current' = IF now < 0 THEN -1 ELSE top + found[now + 1]
        ELSE UNCHANGED <<index, seek>> /\ current' = -1
     /\ step' = "none" /\ moved' = FALSE
     /\ UNCHANGED <<finding, rows, hits, top>>

FindStep ==
  \/ OpenFind \/ CloseFind \/ EditQuery \/ Output \/ Scroll \/ Stamp
  \/ \E up \in BOOLEAN : FindNext(up)

FindSpec == FindInit /\ [][FindStep]_findVars

-----------------------------------------------------------------------------
\* One step between two frames of an unchanged buffer goes to the next row that
\* matches, in its direction, or to another match of the same row; it stays only
\* when there is none.  It jumps over no row, however the viewport moves.  (After
\* two steps it may: the second jump adds the new viewportRow() to a row of the
\* old matches.)
StepsToNextRow ==
  [][LET next(now) == IF step = "up"
                      THEN /\ now <= current /\ Hit(now + 1, current - 1) = {}
                           /\ now = current => Hit(0, current - 1) = {} \/ hits[current] > 1
                      ELSE /\ now >= current /\ Hit(current + 1, now - 1) = {}
                           /\ now = current => Hit(current + 1, rows - 1) = {} \/ hits[current] > 1
     IN finding /\ current >= 0 /\ step \in {"up", "down"} /\ ~moved /\ step' = "none"
        => next(current')]_findVars
=============================================================================
