----------------------------- MODULE OscStream -----------------------------
(***************************************************************************)
(* What a shell's output says about commands, links and images: the        *)
(* observer of vt/OscParser.cpp, and Terminal::write() of vt/Terminal.cpp, *)
(* which hands the same bytes to the VT core piece by piece, so that the   *)
(* cursor can be read where each event ends.  ConPTY cuts the output       *)
(* anywhere.                                                               *)
(*                                                                         *)
(* Characters: ESC, BEL, "]", "\", and "m" and "i", which stand for the    *)
(* beginning of a payload that is a mark or an image.                      *)
(***************************************************************************)
EXTENDS Naturals, SequencesExt

Chars == {"ESC", "BEL", "]", "\\", "m", "i"}

CONSTANTS Writes,        \* what one read may bring
          MaxStream,     \* bound on the length of the output
          MaxPayload, MaxImage, \* kMaxPayload, kMaxImagePayload
          MaxQueued      \* kMaxQueuedEvents, and the queue of the terminal

ASSUME WritesAssumption == Writes \subseteq Seq(Chars)
ASSUME QueueAssumption ==
  /\ MaxStream \in Nat
  /\ {MaxPayload, MaxImage, MaxQueued} \subseteq Nat \ {0}

VARIABLES
  stream,   \* everything written so far
  state, payload, overflow, \* of the observer
  cored,    \* what the core has been given
  semantic, \* semanticEvents_: what, and the output before the cursor is read
  drained   \* the length of the output when they were last taken

oscVars == <<stream, state, payload, overflow, cored, semantic, drained>>

OscInit ==
  /\ stream = <<>> /\ state = "Ground" /\ payload = <<>> /\ overflow = FALSE
  /\ cored = <<>> /\ semantic = <<>> /\ drained = 0

Limit(p) == IF p # <<>> /\ p[1] = "i" THEN MaxImage ELSE MaxPayload

\* An event, if the payload says something; and the end of the queue.
Said(p) == IF p # <<>> /\ p[1] \in {"m", "i"} THEN <<p[1]>> ELSE <<>>
Newest(events) == LET n == Len(events)
                  IN IF n > MaxQueued THEN SubSeq(events, n - MaxQueued + 1, n)
                     ELSE events

\* The payload grows by what was seen, or has overflowed.
Grown(s, more) ==
  IF ~s.overflow /\ Len(s.payload) + Len(more) <= Limit(s.payload)
  THEN [s EXCEPT !.payload = @ \o more]
  ELSE [s EXCEPT !.overflow = TRUE, !.payload = <<>>]
Finished(s) ==
  [s EXCEPT !.state = "Ground",
     !.events = IF s.overflow THEN @
                ELSE Newest(@ \o [i \in DOMAIN Said(s.payload) |->
                                    [what |-> s.payload[1], at |-> s.at]])]

\* OscParser::feed(), one character.
Fed(s, c) ==
  LET n == [s EXCEPT !.at = @ + 1]
  IN CASE s.state = "Ground" -> IF c = "ESC" THEN [n EXCEPT !.state = "Escape"] ELSE n
       [] s.state = "Escape" ->
            IF c = "]" THEN [n EXCEPT !.state = "Osc", !.payload = <<>>,
                                      !.overflow = FALSE]
            ELSE [n EXCEPT !.state = IF c = "ESC" THEN "Escape" ELSE "Ground"]
       [] s.state = "Osc" ->
            IF c = "BEL" THEN Finished(n)
            ELSE IF c = "ESC" THEN [n EXCEPT !.state = "OscEscape"]
            ELSE Grown(n, <<c>>)
       [] s.state = "OscEscape" ->
            IF c = "\\" THEN Finished(n)
            ELSE [Grown(n, <<"ESC", c>>) EXCEPT !.state = "Osc"]

\* Mutant: the ESC at the end of a write is forgotten.
ObserverResumed == [state |-> IF state = "OscEscape" THEN "Osc" ELSE state,
                    payload |-> payload, overflow |-> overflow,
                    at |-> Len(stream), events |-> <<>>]

\* Terminal::write(): the whole read goes to the observer, then the core gets
\* the bytes up to each event's end, where the cursor is read, and the rest.
ObserverNow == [state |-> state, payload |-> payload, overflow |-> overflow,
                at |-> Len(stream), events |-> <<>>]

\* The observer before the first of the characters and after each of them.
Observers(data) ==
  LET after[i \in 0..Len(data)] ==
        IF i = 0 THEN ObserverNow ELSE Fed(after[i - 1], data[i])
  IN after

OscWrite(data) ==
  /\ Len(stream) + Len(data) <= MaxStream
  /\ LET after == Observers(data)[Len(data)]
         upTo(at) == cored \o SubSeq(data, 1, at - Len(stream))
         read == [i \in DOMAIN after.events |->
                    [what |-> after.events[i].what, seen |-> upTo(after.events[i].at)]]
     IN /\ stream' = stream \o data
        /\ state' = after.state /\ payload' = after.payload
        /\ overflow' = after.overflow
        /\ cored' = cored \o data
        /\ semantic' = Newest(semantic \o read)
  /\ UNCHANGED drained

\* pollSemanticEvents(): all of them are taken.
OscDrain ==
  /\ semantic # <<>>
  /\ semantic' = <<>> /\ drained' = Len(stream)
  /\ UNCHANGED <<stream, state, payload, overflow, cored>>

OscNext == \/ \E data \in Writes : OscWrite(data)
           \/ OscDrain

OscSpec == OscInit /\ [][OscNext]_oscVars
-----------------------------------------------------------------------------
\* The same, read off the whole output at once: an OSC begins at ESC "]" and
\* ends at the first BEL, or ESC "\", that is not the second of an ESC pair.
\* Where one ends of which only the part from i on is left; 0 if nowhere.
Ends(s) ==
  LET end[i \in 1..Len(s) + 2] ==
        IF i > Len(s) THEN 0
        ELSE IF s[i] = "BEL" THEN i
        ELSE IF s[i] # "ESC" THEN end[i + 1]
        ELSE IF i < Len(s) /\ s[i + 1] = "\\" THEN i + 1
        ELSE end[i + 2]
  IN end

\* The event of an OSC whose payload begins at i and which ends at e.
SaidIn(s, i, e) ==
  LET p == SubSeq(s, i, e - (IF s[e] = "BEL" THEN 1 ELSE 2))
  IN IF Len(p) > Limit(p) \/ Said(p) = <<>> THEN <<>>
     ELSE << [what |-> p[1], seen |-> SubSeq(s, 1, e)] >>

\* The events from i on, where no OSC is open.
Events(s) ==
  LET from[i \in 1..Len(s) + 1] ==
        IF i >= Len(s) THEN <<>>
        ELSE IF s[i] = "ESC" /\ s[i + 1] = "]"
             THEN LET e == Ends(s)[i + 2]
                  IN IF e = 0 THEN <<>> ELSE SaidIn(s, i + 2, e) \o from[e + 1]
             ELSE from[i + 1]
  IN from

\* Nothing of the output is kept from the terminal, and whatever way it was cut
\* into writes, the events waiting are the newest of those that ended since
\* the last poll, each with the cursor of the moment its sequence ended:
\* command blocks and link rows are placed by it.
EventsWherePrinted ==
  /\ cored = stream
  /\ LET all == Events(stream)[1]
         since == Cardinality({i \in DOMAIN all : Len(all[i].seen) > drained})
         kept == IF since > MaxQueued THEN MaxQueued ELSE since
     IN semantic = SubSeq(all, Len(all) - kept + 1, Len(all))
=============================================================================
