------------------------ MODULE CommandBlocksProofs ------------------------
(***************************************************************************)
(* What holds of the command blocks of a session, their history, their     *)
(* menu and the captured line, for any caps, any shell and any keys.       *)
(***************************************************************************)
EXTENDS CommandBlocks, SequenceTheorems, WellFoundedInduction, TLAPS

-----------------------------------------------------------------------------
(* The list of blocks.                                                     *)

IsBlock(b) ==
  b = [id |-> b.id, command |-> b.command, state |-> b.state, start |-> b.start,
       end |-> b.end, bookmarked |-> b.bookmarked]

IsList(s) == \E S : s \in Seq(S)

\* A list of blocks numbered without gaps up to next - 1, all of them finished
\* but perhaps the last one.
Numbered(list, next) ==
  /\ next \in Int
  /\ IsList(list)
  /\ \A i \in DOMAIN list :
       /\ IsBlock(list[i])
       /\ list[i].id = next - 1 - (Len(list) - i)
       /\ i < Len(list) => list[i].state # "Running"

Inv == Numbered(blocks, nextId)

\* A sequence of anything is a list.
LEMMA SeqIsList == ASSUME NEW S, NEW s \in Seq(S) PROVE IsList(s)
BY DEF IsList

\* A list that has been appended to is longer, and not empty.
LEMMA AppendNotEmpty ==
  ASSUME NEW S, NEW s \in Seq(S), NEW b PROVE Append(s, b) # <<>>
<1>1. s \in Seq(S \cup {b}) /\ b \in S \cup {b}
  OBVIOUS
<1>2. Len(Append(s, b)) = Len(s) + 1 /\ Len(s) \in Nat
  BY <1>1
<1>3. Len(<<>>) = 0
  OBVIOUS
<1> QED
  BY <1>2, <1>3

\* A command that ends stays the same block.
LEMMA FinishedIsBlock ==
  ASSUME NEW x, IsBlock(x), NEW e
  PROVE  IsBlock(Finished(x, e)) /\ Finished(x, e).id = x.id
<1> DEFINE status == IF e.ok THEN "Succeeded" ELSE "Failed"
           at == e.prompt
<1>1. Finished(x, e) = [x EXCEPT !.state = status, !.end = at]
  BY DEF Finished
<1> HIDE DEF status, at
<1>2. PICK i, c, t, f, g, m :
        x = [id |-> i, command |-> c, state |-> t, start |-> f, end |-> g,
             bookmarked |-> m]
  BY DEF IsBlock
<1>3. Finished(x, e) = [id |-> i, command |-> c, state |-> status, start |-> f,
                        end |-> at, bookmarked |-> m]
  BY <1>1, <1>2
<1> QED
  BY <1>2, <1>3 DEF IsBlock

\* The invariant says what OnlyLastRuns says.
LEMMA InvOnlyLastRuns == Inv => OnlyLastRuns
BY DEF Inv, Numbered, OnlyLastRuns

\* The blocks of earlier commands are numbered from one.
LEMMA InitInv == Init => Inv
<1> SUFFICES ASSUME Init PROVE Inv
  OBVIOUS
<1>1. Earlier \in Nat
  BY CapsAssumption
<1>2. /\ blocks = [i \in 1..Earlier |-> EarlierBlock(i)]
      /\ nextId = Earlier + 1
  BY DEF Init
<1>3. blocks \in Seq({EarlierBlock(i) : i \in 1..Earlier})
  BY <1>1, <1>2
<1>4. Len(blocks) = Earlier /\ DOMAIN blocks = 1..Earlier
  BY <1>1, <1>2, <1>3
<1>5. ASSUME NEW i \in DOMAIN blocks
      PROVE /\ IsBlock(blocks[i])
            /\ blocks[i].id = nextId - 1 - (Len(blocks) - i)
            /\ blocks[i].state # "Running"
  BY <1>1, <1>2, <1>4, <1>5 DEF IsBlock, EarlierBlock
<1> QED
  <2>1. IsList(blocks)
    BY <1>3, SeqIsList
  <2>2. nextId \in Int
    BY <1>1, <1>2
  <2> QED
    BY <2>1, <2>2, <1>5 DEF Inv, Numbered

\* A new block follows a finished one and takes the next number.
LEMMA AppendNumbered ==
  ASSUME NEW list, NEW next, Numbered(list, next), ~Running(list),
         NEW b, IsBlock(b), b.id = next
  PROVE  Numbered(Append(list, b), next + 1)
<1> DEFINE longer == Append(list, b)
<1>1. PICK S : list \in Seq(S)
  BY DEF Numbered, IsList
<1>2. longer \in Seq(S \cup {b})
  BY <1>1
<1>3. Len(list) \in Nat /\ Len(longer) = Len(list) + 1 /\ DOMAIN list = 1..Len(list)
      /\ DOMAIN longer = 1..(Len(list) + 1)
  BY <1>1
<1>4. ASSUME NEW i \in DOMAIN longer
      PROVE /\ IsBlock(longer[i])
            /\ longer[i].id = (next + 1) - 1 - (Len(longer) - i)
            /\ i < Len(longer) => longer[i].state # "Running"
  <2>1. CASE i = Len(list) + 1
    BY <1>1, <1>3, <2>1 DEF Numbered
  <2>2. CASE i # Len(list) + 1
    <3>1. i \in DOMAIN list /\ longer[i] = list[i]
      BY <1>1, <1>3, <2>2
    <3>2. list[i].state # "Running"
      BY <1>1, <1>3, <3>1 DEF Numbered, Running, Last
    <3> QED
      BY <1>3, <3>1, <3>2 DEF Numbered
  <2> QED
    BY <2>1, <2>2
<1>5. IsList(longer)
  BY <1>2, SeqIsList
<1>6. next + 1 \in Int
  BY DEF Numbered
<1> HIDE DEF longer
<1>7. Numbered(longer, next + 1)
  BY <1>4, <1>5, <1>6 DEF Numbered
<1> QED
  BY <1>7 DEF longer

\* Dropping the oldest block leaves no gap.
LEMMA TailNumbered ==
  ASSUME NEW list, NEW next, Numbered(list, next), list # <<>>
  PROVE  Numbered(Tail(list), next)
<1>1. PICK S : list \in Seq(S)
  BY DEF Numbered, IsList
<1>2. /\ Tail(list) \in Seq(S)
      /\ Len(list) \in Nat \ {0} /\ Len(Tail(list)) = Len(list) - 1
      /\ \A i \in DOMAIN Tail(list) : i \in 1..(Len(list) - 1)
           /\ i + 1 \in DOMAIN list /\ Tail(list)[i] = list[i + 1]
  BY <1>1
<1>3. IsList(Tail(list))
  BY <1>2, SeqIsList
<1> QED
  BY <1>2, <1>3 DEF Numbered

\* A block that is changed in place keeps its number; it does not begin to run.
LEMMA ReplaceLastNumbered ==
  ASSUME NEW list, NEW next, Numbered(list, next), list # <<>>,
         NEW b, IsBlock(b), b.id = Last(list).id
  PROVE  Numbered(Append(Front(list), b), next)
<1> DEFINE new == Append(Front(list), b)
<1>1. PICK S : list \in Seq(S)
  BY DEF Numbered, IsList
<1>2. Len(list) \in Nat \ {0} /\ DOMAIN list = 1..Len(list)
  BY <1>1
<1>3. /\ Front(list) \in Seq(S) /\ Len(Front(list)) = Len(list) - 1
      /\ \A i \in 1..(Len(list) - 1) : Front(list)[i] = list[i]
  BY <1>1, <1>2 DEF Front
<1> HIDE DEF new
<1>4. /\ new \in Seq(S \cup {b}) /\ Len(new) = Len(list)
      /\ DOMAIN new = 1..Len(list)
      /\ new[Len(list)] = b
      /\ \A i \in 1..(Len(list) - 1) : new[i] = list[i]
  <2> DEFINE front == Front(list)
  <2>1. front \in Seq(S \cup {b}) /\ b \in S \cup {b}
    BY <1>3
  <2> HIDE DEF front
  <2>2. /\ Append(front, b) \in Seq(S \cup {b})
        /\ Len(Append(front, b)) = Len(front) + 1
        /\ Append(front, b)[Len(front) + 1] = b
        /\ \A i \in 1..Len(front) : Append(front, b)[i] = front[i]
    BY <2>1
  <2>3. new = Append(front, b)
    BY DEF new, front
  <2>4. Len(front) = Len(list) - 1
    BY <1>3 DEF front
  <2>5. \A i \in 1..(Len(list) - 1) : front[i] = list[i]
    BY <1>3 DEF front
  <2>6. new \in Seq(S \cup {b})
    BY <2>2, <2>3
  <2>7. Len(new) = Len(list) /\ DOMAIN new = 1..Len(new)
    <3>1. Len(new) = Len(front) + 1
      BY <2>2, <2>3
    <3>2. DOMAIN new = 1..Len(new)
      BY <2>6
    <3> QED
      BY <1>2, <2>4, <3>1, <3>2
  <2>8. new[Len(list)] = b
    BY <1>2, <2>2, <2>3, <2>4
  <2>9. \A i \in 1..(Len(list) - 1) : new[i] = list[i]
    BY <2>2, <2>3, <2>4, <2>5
  <2>10. DOMAIN new = 1..Len(list)
    BY <2>7
  <2> QED
    BY <2>7, <2>8, <2>9, <2>6, <2>10
<1>5. IsList(new)
  BY <1>4, SeqIsList
<1>6. \A i \in DOMAIN list :
        /\ IsBlock(list[i]) /\ list[i].id = next - 1 - (Len(list) - i)
        /\ i < Len(list) => list[i].state # "Running"
  BY DEF Numbered
<1>7. b.id = next - 1
  BY <1>2, <1>6 DEF Numbered, Last
<1>8. ASSUME NEW i \in DOMAIN new
      PROVE /\ IsBlock(new[i]) /\ new[i].id = next - 1 - (Len(new) - i)
            /\ i < Len(new) => new[i].state # "Running"
  <2>1. CASE i = Len(list)
    BY <1>2, <1>4, <1>7, <2>1 DEF Numbered
  <2>2. CASE i # Len(list)
    BY <1>2, <1>4, <1>6, <2>2
  <2> QED
    BY <2>1, <2>2
<1>9. Numbered(new, next)
  BY <1>5, <1>8 DEF Numbered
<1> QED
  BY <1>9 DEF new

\* startBlock() keeps the list numbered.
LEMMA StartBlockNumbered ==
  ASSUME Inv PROVE Numbered(StartBlock.list, StartBlock.nextId)
<1>1. CASE Running(blocks)
  BY <1>1 DEF Inv, StartBlock
<1>2. CASE ~Running(blocks)
  <2>1. IsBlock(NewBlock) /\ NewBlock.id = nextId
    BY DEF IsBlock, NewBlock
  <2>2. Numbered(Append(blocks, NewBlock), nextId + 1)
    BY <1>2, <2>1, AppendNumbered DEF Inv
  <2>3. Append(blocks, NewBlock) # <<>>
    <3>1. PICK S : blocks \in Seq(S)
      BY DEF Inv, Numbered, IsList
    <3> QED
      BY <3>1, AppendNotEmpty
  <2>4. Numbered(Tail(Append(blocks, NewBlock)), nextId + 1)
    BY <2>2, <2>3, TailNumbered
  <2> QED
    BY <1>2, <2>2, <2>4 DEF StartBlock
<1> QED
  BY <1>1, <1>2

\* The end of a command changes the last block only.
LEMMA CommandEndInv == ASSUME Inv, CommandEnd PROVE Inv'
<1> DEFINE b == IF line.input # <<>> THEN StartBlock
                ELSE [list |-> blocks, buffer |-> buffer, nextId |-> nextId,
                      input |-> <<>>]
           block == Finished(Last(b.list), Head(batch))
<1>1. Numbered(b.list, b.nextId)
  BY StartBlockNumbered DEF Inv
<1>2. CASE Running(b.list)
  <2>1. blocks' = Append(Front(b.list), block) /\ nextId' = b.nextId
    BY <1>2 DEF CommandEnd, Started, StartBlock
  <2>2. b.list # <<>> /\ IsBlock(Last(b.list))
    <3> DEFINE list == b.list
    <3> HIDE DEF b
    <3>1. PICK S : list \in Seq(S)
      BY <1>1 DEF Numbered, IsList
    <3>2. list # <<>>
      BY <1>2 DEF Running
    <3>3. Len(list) \in DOMAIN list
      BY <3>1, <3>2
    <3> QED
      BY <1>1, <3>2, <3>3 DEF Numbered, Last
  <2>3. IsBlock(block) /\ block.id = Last(b.list).id
    BY <2>2, FinishedIsBlock
  <2> QED
    BY <1>1, <2>1, <2>2, <2>3, ReplaceLastNumbered DEF Inv
<1>3. CASE ~Running(b.list)
  BY <1>1, <1>3 DEF CommandEnd, Started, Inv
<1> QED
  BY <1>2, <1>3

\* A bookmark changes neither number nor status.
LEMMA ToggleBookmarkInv == ASSUME Inv, ToggleBookmark PROVE Inv'
<1>1. PICK S : blocks \in Seq(S)
  BY DEF Inv, Numbered, IsList
<1>2. /\ Len(blocks) \in Nat /\ DOMAIN blocks = 1..Len(blocks)
      /\ blocks' = [blocks EXCEPT ![Len(blocks)].bookmarked = ~@]
      /\ nextId' = nextId
  BY <1>1 DEF ToggleBookmark
<1>3. CASE blocks = <<>>
  BY <1>1, <1>2, <1>3 DEF Inv, Numbered
<1>4. CASE blocks # <<>>
  <2> DEFINE last == blocks[Len(blocks)]
             b == [last EXCEPT !.bookmarked = ~last.bookmarked]
  <2>1. Len(blocks) \in DOMAIN blocks
    BY <1>1, <1>2, <1>4
  <2>2. IsBlock(last)
    BY <2>1 DEF Inv, Numbered
  <2>3. IsBlock(b) /\ b.id = last.id /\ b.state = last.state
    BY <2>2 DEF IsBlock
  <2>4. blocks' = [blocks EXCEPT ![Len(blocks)] = b]
    BY <1>2
  <2> HIDE DEF b
  <2>5. /\ blocks' \in Seq(S \cup {b}) /\ Len(blocks') = Len(blocks)
        /\ DOMAIN blocks' = DOMAIN blocks /\ blocks'[Len(blocks)] = b
        /\ \A i \in DOMAIN blocks : i # Len(blocks) => blocks'[i] = blocks[i]
    BY <1>1, <1>2, <2>1, <2>4
  <2>6. IsList(blocks')
    BY <2>5, SeqIsList
  <2> QED
    BY <1>2, <2>1, <2>3, <2>5, <2>6 DEF Inv, Numbered
<1> QED
  BY <1>3, <1>4

\* The shell goes on.
ShellStep ==
  WritePrompt \/ ReadKey \/ AcceptLine \/ ContinueLine \/ GiveUpLine \/ RunCommand

\* Only the start and the end of a command and a bookmark touch the list.
LEMMA NextInv == Inv /\ [Next]_vars => Inv'
<1> SUFFICES ASSUME Inv, [Next]_vars PROVE Inv'
  OBVIOUS
<1>1. CASE CommandEnd
  BY <1>1, CommandEndInv
<1>2. CASE OutputStart
  BY <1>2, StartBlockNumbered DEF OutputStart, Started, Inv
<1>3. CASE ToggleBookmark
  BY <1>3, ToggleBookmarkInv
<1>4. ASSUME UNCHANGED <<blocks, nextId>> PROVE Inv'
  BY <1>4 DEF Inv
<1>5. \/ PromptStart \/ CommandStart \/ OtherEvent
      \/ ShellStep \/ PressKey \/ Drain
      \/ Jump \/ OpenMenu \/ CloseMenu \/ RunAgain \/ UNCHANGED vars
      => UNCHANGED <<blocks, nextId>>
  BY DEF PromptStart, CommandStart, OtherEvent, ShellStep, WritePrompt, ReadKey, AcceptLine,
         ContinueLine, GiveUpLine, TakeReturn, RunCommand, PressKey, Drain, Jump, OpenMenu, CloseMenu, RunAgain, vars,
         blockVars
<1> QED
  BY <1>1, <1>2, <1>3, <1>4, <1>5 DEF Next, ShellStep, Handle, MenuCommand

\* Blocks are numbered without gaps and only the newest one can be running
\* (TerminalSession.cpp:198-202), for any caps and any number of prompts.
THEOREM LastAloneRuns == Spec => []OnlyLastRuns
<1>1. Spec => []Inv
  BY InitInv, NextInv, PTL DEF Spec
<1> QED
  BY <1>1, InvOnlyLastRuns, PTL

-----------------------------------------------------------------------------
(* Sequences, keys and types.                                              *)

\* Among numbers there is a least.
LEMMA LeastNumber ==
  ASSUME NEW S \in SUBSET Nat, S # {} PROVE \E m \in S : \A k \in S : m <= k
<1> DEFINE Less == {ss \in Nat \X Nat : ss[1] < ss[2]}
<1>1. IsWellFoundedOn(Less, Nat)
  BY NatLessThanWellFounded DEF OpToRel
<1>2. \A y, x \in S : <<y, x>> \notin Less => x <= y
  OBVIOUS
<1> HIDE DEF Less
<1>3. \E x \in S : \A y \in S : ~(<<y, x>> \in Less)
  BY <1>1, WFMin
<1> QED
  BY <1>2, <1>3

\* What an appended sequence holds.
LEMMA Appended ==
  ASSUME NEW S, NEW s \in Seq(S), NEW x \in S, NEW t, t = Append(s, x)
  PROVE  /\ t \in Seq(S) /\ Len(s) \in Nat /\ Len(t) = Len(s) + 1
         /\ t[Len(t)] = x /\ \A i \in 1..Len(s) : t[i] = s[i]
         /\ DOMAIN s = 1..Len(s) /\ DOMAIN t = 1..Len(t)
OBVIOUS

\* What the rest of a sequence holds.
LEMMA TailIs ==
  ASSUME NEW S, NEW s \in Seq(S), s # <<>>, NEW t, t = Tail(s)
  PROVE  /\ t \in Seq(S) /\ Len(s) \in Nat \ {0} /\ Len(t) = Len(s) - 1
         /\ Head(s) = s[1] /\ Head(s) \in S /\ \A i \in 1..Len(t) : t[i] = s[i + 1]
         /\ DOMAIN s = 1..Len(s) /\ DOMAIN t = 1..Len(t)
OBVIOUS

\* What a sequence without its last element holds.
LEMMA FrontIs ==
  ASSUME NEW S, NEW s \in Seq(S), s # <<>>, NEW t, t = Front(s)
  PROVE  /\ t \in Seq(S) /\ Len(s) \in Nat \ {0} /\ Len(t) = Len(s) - 1
         /\ Last(s) = s[Len(s)] /\ Last(s) \in S /\ \A i \in 1..Len(t) : t[i] = s[i]
         /\ DOMAIN s = 1..Len(s) /\ DOMAIN t = 1..Len(t)
<1>1. Len(s) \in Nat \ {0} /\ DOMAIN s = 1..Len(s)
  OBVIOUS
<1>2. t = [i \in 1..(Len(s) - 1) |-> s[i]]
  BY <1>1 DEF Front
<1>3. t \in Seq(S) /\ Len(t) = Len(s) - 1 /\ DOMAIN t = 1..Len(t)
  <2> DEFINE n == Len(s) - 1
  <2>1. n \in Nat /\ \A i \in 1..n : s[i] \in S
    BY <1>1
  <2>2. t = [i \in 1..n |-> s[i]]
    BY <1>2
  <2> HIDE DEF n
  <2>3. t \in Seq(S) /\ Len(t) = n
    BY <2>1, <2>2
  <2> QED
    BY <2>3 DEF n
<1>4. Last(s) = s[Len(s)]
  BY DEF Last
<1>5. s[Len(s)] \in S
  BY <1>1
<1> QED
  BY <1>1, <1>2, <1>3, <1>4, <1>5
-----------------------------------------------------------------------------
(* Keys sent one after the other.                                           *)

\* What each of the keys leaves, the last one's being what sendBytes() leaves.
SentFrom(f, start, keys) ==
  [n \in 0..Len(keys) |-> IF n = 0 THEN start ELSE SendKey(f[n - 1], keys[n])]

Sends(f, start, keys, n) ==
  /\ f = [k \in 0..n |-> f[k]] /\ f[0] = start
  /\ \A k \in 1..n : f[k] = SendKey(f[k - 1], keys[k])

\* The table of the keys sent one after the other exists: its recursion goes
\* down to no key.
LEMMA SentExists ==
  ASSUME NEW start, NEW keys, Len(keys) \in Nat
  PROVE  \E f : f = SentFrom(f, start, keys)
<1> DEFINE size == Len(keys)
           bad == {n \in 0..size : ~\E f : Sends(f, start, keys, n)}
<1>1. bad \in SUBSET Nat /\ bad \subseteq 0..size
  OBVIOUS
<1>2. \A n \in 0..size : n \notin bad => \E f : Sends(f, start, keys, n)
  OBVIOUS
<1>3. \A n \in bad : ~\E f : Sends(f, start, keys, n)
  OBVIOUS
<1> HIDE DEF bad
<1>4. ASSUME bad # {} PROVE FALSE
  <2>1. PICK m \in bad : \A k \in bad : m <= k
    BY <1>1, <1>4, LeastNumber
  <2>2. CASE m = 0
    <3> DEFINE f == [k \in 0..0 |-> start]
    <3>1. Sends(f, start, keys, 0)
      BY DEF Sends
    <3> QED
      BY <1>3, <2>1, <2>2, <3>1
  <2>3. CASE m # 0
    <3>1. m \in 1..size /\ m - 1 \in 0..size
      BY <1>1, <2>3
    <3>2. m - 1 \notin bad
      BY <2>1, <3>1
    <3>3. PICK f : Sends(f, start, keys, m - 1)
      BY <1>2, <3>1, <3>2
    <3> DEFINE g == [k \in 0..m |-> IF k = m THEN SendKey(f[m - 1], keys[m]) ELSE f[k]]
    <3>4. g[0] = start /\ g = [k \in 0..m |-> g[k]]
      BY <3>1, <3>3 DEF Sends
    <3>5. ASSUME NEW k \in 1..m PROVE g[k] = SendKey(g[k - 1], keys[k])
      <4>1. CASE k = m
        <5>1. k - 1 \in 0..m /\ k - 1 # m /\ k \in 0..m
          BY <3>1, <4>1
        <5>2. g[k - 1] = f[m - 1] /\ g[k] = SendKey(f[m - 1], keys[m])
          BY <4>1, <5>1
        <5> QED
          BY <4>1, <5>2
      <4>2. CASE k # m
        <5>1. k \in 1..m - 1 /\ k - 1 \in 0..m /\ k - 1 # m /\ k \in 0..m
          BY <3>1, <4>2
        <5>2. g[k - 1] = f[k - 1] /\ g[k] = f[k]
          BY <4>2, <5>1
        <5> QED
          BY <3>3, <5>1, <5>2 DEF Sends
      <4> QED
        BY <4>1, <4>2
    <3> HIDE DEF g
    <3>6. Sends(g, start, keys, m)
      BY <3>4, <3>5 DEF Sends
    <3> QED
      BY <1>3, <2>1, <3>6
  <2> QED
    BY <2>2, <2>3
<1>5. PICK f : Sends(f, start, keys, size)
  <2>1. size \in 0..size
    OBVIOUS
  <2> QED
    BY <1>2, <1>4, <2>1
<1>6. f = SentFrom(f, start, keys)
  <2> DEFINE g == SentFrom(f, start, keys)
  <2>1. f = [n \in 0..size |-> f[n]]
    BY <1>5 DEF Sends
  <2>2. ASSUME NEW n \in 0..size
        PROVE  f[n] = IF n = 0 THEN start ELSE SendKey(f[n - 1], keys[n])
    BY <1>5 DEF Sends
  <2> QED
    BY <2>1, <2>2 DEF SentFrom
<1> QED
  BY <1>6

\* Sending keys is sending one after the other.
LEMMA SentIs ==
  ASSUME NEW start, NEW keys, Len(keys) \in Nat
  PROVE  \E f : Sends(f, start, keys, Len(keys)) /\ Sent(start, keys) = f[Len(keys)]
<1> DEFINE size == Len(keys)
           f == CHOOSE h : h = SentFrom(h, start, keys)
<1>1. f = SentFrom(f, start, keys)
  BY SentExists
<1>2. Sent(start, keys) = f[size]
  BY DEF Sent, SentFrom
<1> HIDE DEF f
<1>3. Sends(f, start, keys, size)
  <2>1. f = [n \in 0..size |-> f[n]]
    BY <1>1 DEF SentFrom
  <2>2. \A n \in 0..size : f[n] = IF n = 0 THEN start ELSE SendKey(f[n - 1], keys[n])
    BY <1>1 DEF SentFrom
  <2> QED
    BY <2>1, <2>2 DEF Sends
<1> QED
  BY <1>2, <1>3

\* What sendBytes() leaves is what the last of its keys leaves.
LEMMA SendKeysIs ==
  ASSUME NEW keys \in Seq(AllKeys), SendKeys(keys)
  PROVE  \E f : /\ Sends(f, [line |-> line, typed |-> typed, misled |-> misled], keys, Len(keys))
                /\ line' = f[Len(keys)].line /\ typed' = f[Len(keys)].typed
                /\ misled' = f[Len(keys)].misled
<1> DEFINE start == [line |-> line, typed |-> typed, misled |-> misled]
<1>1. Len(keys) \in Nat
  OBVIOUS
<1>2. /\ line' = Sent(start, keys).line /\ typed' = Sent(start, keys).typed
      /\ misled' = Sent(start, keys).misled
  BY DEF SendKeys
<1> HIDE DEF start
<1>3. PICK f : Sends(f, start, keys, Len(keys)) /\ Sent(start, keys) = f[Len(keys)]
  BY <1>1, SentIs
<1>4. line' = f[Len(keys)].line /\ typed' = f[Len(keys)].typed /\ misled' = f[Len(keys)].misled
  BY <1>2, <1>3
<1> QED
  BY <1>3, <1>4 DEF start
-----------------------------------------------------------------------------
(* Types.                                                                   *)

Text == Seq({Letter, Wide})
SentKeys == [key : AllKeys, row : Prompts]
Shells == [at : {"D", "A", "B", "prompt", "more", "run"}, prompt : Prompts,
           line : Seq(AllKeys), marksStart : BOOLEAN]
Lines == [atPrompt : BOOLEAN, escape : BOOLEAN, entered : BOOLEAN,
          input : Seq(Bytes), row : Prompts]

ShellTyped == shell \in Shells /\ shell.prompt >= 1
QueueTyped(q) == q \in Seq(Events) /\ Len(q) <= QueueCap
LineTyped(l) == l \in Lines /\ Len(l.input) <= InputCap
BlocksTyped == blocks \in Seq(Blocks) /\ Len(blocks) <= BlockCap
SentTyped(s) == s.typed \in Seq(SentKeys) /\ LineTyped(s.line) /\ s.misled \subseteq Prompts

Typed ==
  /\ ShellTyped /\ typed \in Seq(SentKeys) /\ QueueTyped(events) /\ QueueTyped(batch)
  /\ LineTyped(line) /\ BlocksTyped
  /\ nextId \in Nat \ {0} /\ nav \in 0..Len(blocks)
  /\ buffer \in [capacity : Nat, generation : Nat]
  /\ missed \subseteq Prompts /\ misled \subseteq Prompts /\ dropped \subseteq Prompts
  /\ menu # Closed => menu.at \in 1..Len(blocks)

\* The types hold when those of each variable do.
LEMMA TypedTypeOK == Typed => TypeOK
BY DEF Typed, TypeOK, ShellTyped, Shells, QueueTyped, LineTyped, Lines, BlocksTyped, SentKeys

\* The prompts are the numbers up to the last.
LEMMA PromptsAre == /\ MaxPrompts \in Nat /\ \A n \in Prompts : n \in Nat /\ n <= MaxPrompts
                    /\ 0 \in Prompts /\ \A n \in Nat : n <= MaxPrompts => n \in Prompts
BY CapsAssumption DEF Prompts

\* The keys are six.
LEMMA LetterKeys ==
  /\ Letter \in AllKeys /\ Wide \in AllKeys /\ Return \in AllKeys /\ Escape \in AllKeys
  /\ Letter # Wide /\ Letter # Return /\ Letter # Escape /\ Letter # Backspace
  /\ Wide # Return /\ Wide # Escape /\ Wide # Backspace
  /\ Return # Escape /\ Return # Backspace /\ Escape # Backspace
  /\ Control \in AllKeys /\ Control # Letter /\ Control # Wide /\ Control # Return
  /\ Control # Escape /\ Control # Backspace
BY DEF AllKeys, Letter, Wide, Return, Escape, Backspace, Control

\* A key is one of the six.
LEMMA KeyCases ==
  ASSUME NEW key \in AllKeys
  PROVE  \/ key = Letter \/ key = Wide \/ key = Return \/ key = Escape \/ key = Backspace
         \/ key = Control
BY DEF AllKeys

\* The two letters, as bytes.
LEMMA LettersBytes == Letter \in Seq(Bytes) /\ Wide \in Seq(Bytes) /\ Len(Letter) = 1 /\ Len(Wide) = 2
                      /\ Letter[1] = "a" /\ Wide[1] = "w1" /\ Wide[2] = "w2"
<1>1. "a" \in Bytes /\ "w1" \in Bytes /\ "w2" \in Bytes
  BY DEF Bytes
<1> QED
  BY <1>1 DEF Letter, Wide

\* What a key leaves of the captured line has its type and its cap.
LEMMA CaptureTyped ==
  ASSUME NEW l, LineTyped(l), NEW key \in AllKeys
  PROVE  LineTyped(Capture(l, key))
<1>1. l \in Lines /\ Len(l.input) <= InputCap /\ InputCap \in Nat /\ l.input \in Seq(Bytes)
  BY CapsAssumption DEF LineTyped, Lines
<1>2. ASSUME NEW e \in BOOLEAN PROVE LineTyped([l EXCEPT !.escape = e])
  BY <1>1, <1>2 DEF LineTyped, Lines
<1>3. LineTyped([l EXCEPT !.entered = TRUE])
  BY <1>1 DEF LineTyped, Lines
<1>4. ASSUME NEW i \in Seq(Bytes), Len(i) <= InputCap PROVE LineTyped([l EXCEPT !.input = i])
  BY <1>1, <1>4 DEF LineTyped, Lines
<1>5. CASE ~l.atPrompt
  BY <1>5 DEF Capture
<1>6. CASE l.atPrompt /\ l.escape
  <2>1. (key # Letter) \in BOOLEAN
    OBVIOUS
  <2>2. Capture(l, key) = [l EXCEPT !.escape = (key # Letter)]
    BY <1>6, Zenon DEF Capture
  <2> QED
    BY <1>2, <2>1, <2>2
<1>7. CASE l.atPrompt /\ ~l.escape /\ key = Escape
  <2>1. Capture(l, key) = [l EXCEPT !.escape = TRUE]
    BY <1>7, LetterKeys, Zenon DEF Capture
  <2> QED
    BY <1>2, <2>1
<1>8. CASE l.atPrompt /\ ~l.escape /\ key = Backspace
  <2> DEFINE i == IF l.input = <<>> THEN l.input ELSE Front(l.input)
  <2>1. Capture(l, key) = [l EXCEPT !.input = i]
    BY <1>8, LetterKeys, Zenon DEF Capture
  <2>2. i \in Seq(Bytes) /\ Len(i) <= InputCap
    BY <1>1, FrontIs
  <2> QED
    BY <1>4, <2>1, <2>2
<1>9. CASE l.atPrompt /\ ~l.escape /\ key = Return
  <2>1. Capture(l, key) = [l EXCEPT !.entered = TRUE]
    BY <1>9, LetterKeys, Zenon DEF Capture
  <2> QED
    BY <1>3, <2>1
<1>10. CASE l.atPrompt /\ ~l.escape /\ key \in {Letter, Wide}
  <2> DEFINE all == l.input \o key
             size == IF Len(all) < InputCap THEN Len(all) ELSE InputCap
             i == SubSeq(all, 1, size)
  <2>1. Capture(l, key) = [l EXCEPT !.input = i]
    BY <1>10, LetterKeys, Zenon DEF Capture
  <2>2. all \in Seq(Bytes)
    BY <1>1, <1>10, LettersBytes, ConcatProperties
  <2> HIDE DEF all
  <2>3. Len(all) \in Nat
    BY <2>2
  <2>4. size \in 0..Len(all) /\ size \in Nat /\ size <= InputCap
    BY <1>1, <2>3
  <2> HIDE DEF size
  <2>5. \A j \in 1..size : all[j] \in Bytes
    BY <2>2, <2>4
  <2>6. i \in Seq(Bytes) /\ Len(i) = size
    BY <2>2, <2>4, <2>5, SubSeqProperties
  <2> QED
    BY <1>4, <2>1, <2>4, <2>6
<1>11. CASE l.atPrompt /\ ~l.escape /\ key = Control
  <2>1. Capture(l, key) = l
    BY <1>11, LetterKeys, Zenon DEF Capture
  <2> QED
    BY <2>1
<1> QED
  BY <1>5, <1>6, <1>7, <1>8, <1>9, <1>10, <1>11, KeyCases

\* One key keeps the types.
LEMMA SendKeyTyped ==
  ASSUME NEW s, SentTyped(s), NEW key \in AllKeys
  PROVE  SentTyped(SendKey(s, key))
<1> DEFINE l == Capture(s.line, key)
           e == [key |-> key, row |-> IF s.line.atPrompt THEN s.line.row ELSE 0]
           t == Append(s.typed, e)
           m == IF Misleads(s.line, key) THEN s.misled \cup {s.line.row} ELSE s.misled
<1>1. SendKey(s, key) = [line |-> l, typed |-> t, misled |-> m]
  BY Zenon DEF SendKey
<1>2. LineTyped(l)
  BY CaptureTyped DEF SentTyped
<1>3. s.line.row \in Prompts /\ s.typed \in Seq(SentKeys) /\ s.misled \subseteq Prompts
  BY DEF SentTyped, LineTyped, Lines
<1>4. e \in SentKeys
  BY <1>3, PromptsAre DEF SentKeys
<1> HIDE DEF e
<1>5. t \in Seq(SentKeys)
  BY <1>3, <1>4
<1>6. m \subseteq Prompts
  BY <1>3
<1> HIDE DEF l, t, m
<1> QED
  BY <1>1, <1>2, <1>5, <1>6 DEF SentTyped

\* So do several.
LEMMA SendKeysTyped ==
  ASSUME Typed, NEW keys \in Seq(AllKeys), SendKeys(keys)
  PROVE  typed' \in Seq(SentKeys) /\ LineTyped(line') /\ misled' \subseteq Prompts
<1> DEFINE size == Len(keys)
           start == [line |-> line, typed |-> typed, misled |-> misled]
<1>1. size \in Nat
  OBVIOUS
<1>2. PICK f : /\ Sends(f, start, keys, size)
               /\ line' = f[size].line /\ typed' = f[size].typed /\ misled' = f[size].misled
  BY SendKeysIs
<1>3. SentTyped(start)
  BY DEF SentTyped, Typed
<1> HIDE DEF start
<1> DEFINE bad == {n \in 0..size : ~SentTyped(f[n])}
<1>4. bad \in SUBSET Nat /\ bad \subseteq 0..size
  OBVIOUS
<1>5. \A n \in 0..size : n \notin bad => SentTyped(f[n])
  OBVIOUS
<1>6. \A n \in bad : ~SentTyped(f[n])
  OBVIOUS
<1> HIDE DEF bad
<1>7. ASSUME bad # {} PROVE FALSE
  <2>1. PICK m \in bad : \A k \in bad : m <= k
    BY <1>4, <1>7, LeastNumber
  <2>2. m # 0
    BY <1>2, <1>3, <1>6, <2>1 DEF Sends
  <2>3. m \in 1..size /\ m - 1 \in 0..size /\ m - 1 \notin bad
    BY <1>4, <2>1, <2>2
  <2>4. f[m] = SendKey(f[m - 1], keys[m])
    BY <1>2, <2>3 DEF Sends
  <2>5. keys[m] \in AllKeys
    BY <2>3
  <2> QED
    BY <1>5, <1>6, <2>1, <2>3, <2>4, <2>5, SendKeyTyped
<1>8. SentTyped(f[size])
  <2>1. size \in 0..size
    BY <1>1
  <2> QED
    BY <1>5, <1>7, <2>1
<1> QED
  BY <1>2, <1>8 DEF SentTyped

\* A mark written keeps the queue typed and within its cap.
LEMMA WriteTyped ==
  ASSUME QueueTyped(events), dropped \subseteq Prompts, NEW e \in Events, WriteEvent(e)
  PROVE  QueueTyped(events') /\ dropped' \subseteq Prompts
<1>0. QueueCap \in Nat \ {0}
  BY CapsAssumption
<1>1. CASE Len(events) < QueueCap
  <2>1. events' = Append(events, e) /\ dropped' = dropped
    BY <1>1 DEF WriteEvent
  <2>2. events \in Seq(Events)
    BY DEF QueueTyped
  <2>3. events' \in Seq(Events) /\ Len(events') = Len(events) + 1 /\ Len(events) \in Nat
    BY <2>1, <2>2, Appended
  <2> QED
    BY <1>0, <1>1, <2>1, <2>3 DEF QueueTyped
<1>2. CASE ~(Len(events) < QueueCap)
  <2>1. events' = Append(Tail(events), e)
        /\ dropped' = IF Head(events).mark = "link" THEN dropped
                      ELSE dropped \cup {Head(events).prompt}
    BY <1>2 DEF WriteEvent
  <2>2. events \in Seq(Events) /\ Len(events) <= QueueCap
    BY DEF QueueTyped
  <2>3. events # <<>> /\ Len(events) = QueueCap
    BY <1>0, <1>2, <2>2
  <2>4. Tail(events) \in Seq(Events) /\ Len(Tail(events)) = Len(events) - 1 /\ Head(events) \in Events
    BY <2>2, <2>3, TailIs
  <2>5. events' \in Seq(Events) /\ Len(events') = QueueCap
    BY <1>0, <2>1, <2>3, <2>4, Appended
  <2>6. Head(events).prompt \in Prompts
    BY <2>4 DEF Events
  <2> QED
    BY <1>0, <2>1, <2>5, <2>6 DEF QueueTyped
<1> QED
  BY <1>1, <1>2

\* What the shell has: the prompt before its own is a prompt too.
LEMMA ShellIs ==
  ASSUME ShellTyped
  PROVE  /\ shell.at \in {"D", "A", "B", "prompt", "more", "run"} /\ shell.prompt \in Prompts
         /\ shell.prompt \in Nat \ {0} /\ shell.prompt - 1 \in Prompts
         /\ shell.line \in Seq(AllKeys) /\ shell.marksStart \in BOOLEAN
<1>1. /\ shell.at \in {"D", "A", "B", "prompt", "more", "run"} /\ shell.prompt \in Prompts
      /\ shell.line \in Seq(AllKeys) /\ shell.marksStart \in BOOLEAN /\ shell.prompt >= 1
  BY DEF ShellTyped, Shells
<1>2. shell.prompt \in Nat \ {0} /\ shell.prompt - 1 \in Nat /\ shell.prompt - 1 <= MaxPrompts
  BY <1>1, PromptsAre
<1> QED
  BY <1>1, <1>2, PromptsAre

\* What the prompt writes keeps the types.
LEMMA WritePromptTyped ==
  ASSUME Typed, WritePrompt PROVE ShellTyped' /\ QueueTyped(events') /\ dropped' \subseteq Prompts
<1>0. ShellTyped /\ QueueTyped(events) /\ dropped \subseteq Prompts
  BY DEF Typed
<1>1. ASSUME NEW a \in {"A", "B", "prompt"}, NEW k \in Seq(AllKeys),
             shell' = [shell EXCEPT !.at = a, !.line = k] PROVE ShellTyped'
  BY <1>0, <1>1 DEF ShellTyped, Shells
<1>2. ASSUME NEW a \in {"A", "B"}, shell' = [shell EXCEPT !.at = a] PROVE ShellTyped'
  BY <1>0, <1>2 DEF ShellTyped, Shells
<1>3. \A m \in {"A", "B", "C", "link"}, ok \in BOOLEAN : Mark(m, ok) \in Events
  BY <1>0, ShellIs DEF Mark, Events, Marks
<1>4. \A ok \in BOOLEAN : [mark |-> "D", prompt |-> shell.prompt - 1, ok |-> ok] \in Events
  BY <1>0, ShellIs DEF Events, Marks
<1>5. CASE shell.at = "D" /\ shell' = [shell EXCEPT !.at = "A"]
           /\ \E ok \in BOOLEAN : WriteEvent([mark |-> "D", prompt |-> shell.prompt - 1, ok |-> ok])
  BY <1>0, <1>2, <1>4, <1>5, WriteTyped
<1>6. CASE shell' = [shell EXCEPT !.at = "B"] /\ WriteEvent(Mark("A", TRUE))
  BY <1>0, <1>2, <1>3, <1>6, WriteTyped
<1>7. CASE shell' = [shell EXCEPT !.at = "prompt", !.line = <<>>] /\ WriteEvent(Mark("B", TRUE))
  <2>1. <<>> \in Seq(AllKeys)
    BY EmptySeq
  <2> QED
    BY <1>0, <1>1, <1>3, <1>7, <2>1, WriteTyped
<1> QED
  BY <1>5, <1>6, <1>7 DEF WritePrompt

\* An edited line is a line.
LEMMA EditedIs ==
  ASSUME NEW text \in Seq(AllKeys), NEW key \in AllKeys PROVE Edited(text, key) \in Seq(AllKeys)
<1>1. <<>> \in Seq(AllKeys)
  BY EmptySeq
<1>2. Append(text, key) \in Seq(AllKeys)
  OBVIOUS
<1>3. text # <<>> => Front(text) \in Seq(AllKeys)
  BY FrontIs
<1>4. CASE key = Backspace
  BY <1>1, <1>3, <1>4, Zenon DEF Edited
<1>5. CASE key = Escape
  BY <1>1, <1>5, LetterKeys, Zenon DEF Edited
<1>6. CASE key # Backspace /\ key # Escape
  BY <1>2, <1>6, Zenon DEF Edited
<1> QED
  BY <1>4, <1>5, <1>6

\* The shell's own steps.
LEMMA ShellSteps ==
  ASSUME Typed, ShellStep PROVE Typed'
<1>0. /\ ShellTyped /\ typed \in Seq(SentKeys) /\ QueueTyped(events) /\ dropped \subseteq Prompts
      /\ missed \subseteq Prompts
  BY DEF Typed
<1>1. ASSUME NEW a \in {"D", "A", "B", "prompt", "more", "run"}, NEW k \in Seq(AllKeys), NEW n \in Prompts, n >= 1,
             shell' = [shell EXCEPT !.at = a, !.line = k, !.prompt = n] PROVE ShellTyped'
  BY <1>0, <1>1 DEF ShellTyped, Shells
<1>2. ShellTyped' /\ typed' \in Seq(SentKeys) /\ QueueTyped(events') /\ dropped' \subseteq Prompts
      /\ missed' \subseteq Prompts
  <2>1. CASE WritePrompt
    BY <1>0, <2>1, WritePromptTyped DEF WritePrompt
  <2>2. CASE ReadKey
    <3>1. typed # <<>> /\ typed' = Tail(typed) /\ events' = events /\ dropped' = dropped
          /\ shell' = [shell EXCEPT !.line = Edited(shell.line, Head(typed).key)]
          /\ missed' \subseteq missed \cup {shell.prompt}
      BY <2>2 DEF ReadKey
    <3>2. Head(typed) \in SentKeys /\ Tail(typed) \in Seq(SentKeys)
      BY <1>0, <3>1, TailIs
    <3>3. Head(typed).key \in AllKeys
      BY <3>2 DEF SentKeys
    <3>4. Edited(shell.line, Head(typed).key) \in Seq(AllKeys)
      BY <1>0, <3>3, ShellIs, EditedIs
    <3>5. ShellTyped'
      BY <1>0, <3>1, <3>4 DEF ShellTyped, Shells
    <3> QED
      BY <1>0, <3>1, <3>2, <3>5, ShellIs
  <2>3. CASE AcceptLine \/ ContinueLine
    <3>1. /\ typed # <<>> /\ typed' = Tail(typed) /\ missed' \subseteq missed \cup {shell.prompt}
          /\ \/ shell' = [shell EXCEPT !.at = "run"]
             \/ shell' = [shell EXCEPT !.at = "more", !.line = Append(shell.line, Return)]
          /\ \/ WriteEvent(Mark("C", shell.at = "prompt"))
             \/ UNCHANGED <<events, dropped>>
      BY <2>3 DEF AcceptLine, ContinueLine, TakeReturn
    <3>2. Tail(typed) \in Seq(SentKeys)
      BY <1>0, <3>1, TailIs
    <3>3. Mark("C", shell.at = "prompt") \in Events
      BY <1>0, ShellIs DEF Mark, Events, Marks
    <3>4. QueueTyped(events') /\ dropped' \subseteq Prompts
      BY <1>0, <3>1, <3>3, WriteTyped
    <3>5. ShellTyped'
      <4>1. PICK text : text = Append(shell.line, Return) /\ text \in Seq(AllKeys)
        <5>1. shell.line \in Seq(AllKeys) /\ Return \in AllKeys
          BY <1>0, ShellIs, LetterKeys
        <5>2. Append(shell.line, Return) \in Seq(AllKeys)
          BY <5>1, Appended
        <5> QED
          BY <5>2
      <4>2. \/ shell' = [shell EXCEPT !.at = "run"]
            \/ shell' = [shell EXCEPT !.at = "more", !.line = text]
        BY <3>1, <4>1
      <4>3. CASE shell' = [shell EXCEPT !.at = "run"]
        BY <1>0, <4>3 DEF ShellTyped, Shells
      <4>4. CASE shell' = [shell EXCEPT !.at = "more", !.line = text]
        BY <1>0, <4>1, <4>4 DEF ShellTyped, Shells
      <4> QED
        BY <4>2, <4>3, <4>4
    <3> QED
      BY <1>0, <3>1, <3>2, <3>4, <3>5, ShellIs
  <2>5. CASE GiveUpLine
    <3>1. /\ typed # <<>> /\ typed' = Tail(typed) /\ missed' = missed \cup {shell.prompt}
          /\ shell' = [shell EXCEPT !.at = "run"] /\ UNCHANGED <<events, dropped>>
      BY <2>5 DEF GiveUpLine
    <3>2. Tail(typed) \in Seq(SentKeys)
      BY <1>0, <3>1, TailIs
    <3>3. ShellTyped'
      BY <1>0, <3>1 DEF ShellTyped, Shells
    <3> QED
      BY <1>0, <3>1, <3>2, <3>3, ShellIs
  <2>4. CASE RunCommand
    <3>1. CASE typed # <<>> /\ typed' = Tail(typed) /\ UNCHANGED <<shell, events, dropped>>
      <4>1. Tail(typed) \in Seq(SentKeys)
        BY <1>0, <3>1, TailIs
      <4> QED
        BY <1>0, <2>4, <3>1, <4>1 DEF RunCommand, ShellTyped
    <3>2. CASE /\ shell.prompt < MaxPrompts
               /\ shell' = [shell EXCEPT !.at = "D", !.prompt = shell.prompt + 1]
               /\ WriteEvent(Mark("link", TRUE)) \/ UNCHANGED <<events, dropped>>
               /\ typed' = typed
      <4>1. Mark("link", TRUE) \in Events
        BY <1>0, ShellIs DEF Mark, Events, Marks
      <4>2. shell.prompt + 1 \in Prompts /\ shell.prompt + 1 >= 1
        <5>1. shell.prompt + 1 \in Nat /\ shell.prompt + 1 <= MaxPrompts /\ shell.prompt + 1 >= 1
          BY <1>0, <3>2, ShellIs, PromptsAre
        <5> QED
          BY <5>1, PromptsAre
      <4>3. ShellTyped'
        BY <1>0, <3>2, <4>2 DEF ShellTyped, Shells
      <4> QED
        BY <1>0, <2>4, <3>2, <4>1, <4>3, WriteTyped DEF RunCommand
    <3> QED
      BY <2>4, <3>1, <3>2 DEF RunCommand
  <2> QED
    BY <2>1, <2>2, <2>3, <2>4, <2>5 DEF ShellStep
<1>3. UNCHANGED <<batch, line, blockVars, nav, misled, menu>>
  BY DEF ShellStep, WritePrompt, ReadKey, AcceptLine, ContinueLine, GiveUpLine, TakeReturn,
         RunCommand
<1> QED
  BY <1>2, <1>3 DEF Typed, blockVars, BlocksTyped
-----------------------------------------------------------------------------
(* The letters a line's bytes make.                                         *)

DecodeStep(text, x) ==
  IF x = "w2" THEN text ELSE Append(text, IF x = "a" THEN Letter ELSE Wide)

DecodeFrom(f, bytes) ==
  [n \in 0..Len(bytes) |-> IF n = 0 THEN <<>>
     ELSE IF bytes[n] = "w2" THEN f[n - 1]
     ELSE Append(f[n - 1], IF bytes[n] = "a" THEN Letter ELSE Wide)]

Decodes(f, bytes, n) ==
  /\ f = [k \in 0..n |-> f[k]] /\ f[0] = <<>>
  /\ \A k \in 1..n : f[k] = DecodeStep(f[k - 1], bytes[k])

\* The table of the letters decoded so far exists.
LEMMA DecodeExists ==
  ASSUME NEW bytes, Len(bytes) \in Nat
  PROVE  \E f : f = DecodeFrom(f, bytes)
<1> DEFINE size == Len(bytes)
           bad == {n \in 0..size : ~\E f : Decodes(f, bytes, n)}
<1>1. bad \in SUBSET Nat /\ bad \subseteq 0..size
  OBVIOUS
<1>2. \A n \in 0..size : n \notin bad => \E f : Decodes(f, bytes, n)
  OBVIOUS
<1>3. \A n \in bad : ~\E f : Decodes(f, bytes, n)
  OBVIOUS
<1> HIDE DEF bad
<1>4. ASSUME bad # {} PROVE FALSE
  <2>1. PICK m \in bad : \A k \in bad : m <= k
    BY <1>1, <1>4, LeastNumber
  <2>2. CASE m = 0
    <3> DEFINE f == [k \in 0..0 |-> <<>>]
    <3>1. Decodes(f, bytes, 0)
      BY DEF Decodes
    <3> QED
      BY <1>3, <2>1, <2>2, <3>1
  <2>3. CASE m # 0
    <3>1. m \in 1..size /\ m - 1 \in 0..size
      BY <1>1, <2>3
    <3>2. m - 1 \notin bad
      BY <2>1, <3>1
    <3>3. PICK f : Decodes(f, bytes, m - 1)
      BY <1>2, <3>1, <3>2
    <3> DEFINE g == [k \in 0..m |-> IF k = m THEN DecodeStep(f[m - 1], bytes[m]) ELSE f[k]]
    <3>4. g[0] = <<>> /\ g = [k \in 0..m |-> g[k]]
      BY <3>1, <3>3 DEF Decodes
    <3>5. ASSUME NEW k \in 1..m PROVE g[k] = DecodeStep(g[k - 1], bytes[k])
      <4>1. CASE k = m
        <5>1. k - 1 \in 0..m /\ k - 1 # m /\ k \in 0..m
          BY <3>1, <4>1
        <5>2. g[k - 1] = f[m - 1] /\ g[k] = DecodeStep(f[m - 1], bytes[m])
          BY <4>1, <5>1
        <5> QED
          BY <4>1, <5>2
      <4>2. CASE k # m
        <5>1. k \in 1..m - 1 /\ k - 1 \in 0..m /\ k - 1 # m /\ k \in 0..m
          BY <3>1, <4>2
        <5>2. g[k - 1] = f[k - 1] /\ g[k] = f[k]
          BY <4>2, <5>1
        <5> QED
          BY <3>3, <5>1, <5>2 DEF Decodes
      <4> QED
        BY <4>1, <4>2
    <3> HIDE DEF g
    <3>6. Decodes(g, bytes, m)
      BY <3>4, <3>5 DEF Decodes
    <3> QED
      BY <1>3, <2>1, <3>6
  <2> QED
    BY <2>2, <2>3
<1>5. PICK f : Decodes(f, bytes, size)
  <2>1. size \in 0..size
    OBVIOUS
  <2> QED
    BY <1>2, <1>4, <2>1
<1>6. f = DecodeFrom(f, bytes)
  <2>1. f = [n \in 0..size |-> f[n]]
    BY <1>5 DEF Decodes
  <2>2. ASSUME NEW n \in 0..size
        PROVE  f[n] = IF n = 0 THEN <<>>
                      ELSE IF bytes[n] = "w2" THEN f[n - 1]
                      ELSE Append(f[n - 1], IF bytes[n] = "a" THEN Letter ELSE Wide)
    <3>1. CASE n = 0
      BY <1>5, <3>1 DEF Decodes
    <3>2. CASE n # 0
      <4>0. n \in 1..size
        BY <3>2
      <4>1. f[n] = DecodeStep(f[n - 1], bytes[n])
        BY <1>5, <4>0, Zenon DEF Decodes
      <4>2. DecodeStep(f[n - 1], bytes[n]) =
              IF bytes[n] = "w2" THEN f[n - 1]
              ELSE Append(f[n - 1], IF bytes[n] = "a" THEN Letter ELSE Wide)
        BY Zenon DEF DecodeStep
      <4> QED
        BY <3>2, <4>1, <4>2
    <3> QED
      BY <3>1, <3>2
  <2> QED
    BY <2>1, <2>2 DEF DecodeFrom
<1> QED
  BY <1>6

\* Decoding is going over the bytes one after the other.
LEMMA DecodedIs ==
  ASSUME NEW bytes, Len(bytes) \in Nat
  PROVE  \E f : /\ Decodes(f, bytes, Len(bytes))
                /\ Decoded(bytes) = IF WellFormed(bytes) THEN f[Len(bytes)] ELSE <<>>
<1> DEFINE size == Len(bytes)
           f == CHOOSE h : h = DecodeFrom(h, bytes)
<1>1. f = DecodeFrom(f, bytes)
  BY DecodeExists
<1>2. Decoded(bytes) = IF WellFormed(bytes) THEN f[size] ELSE <<>>
  BY DEF Decoded, DecodeFrom
<1> HIDE DEF f
<1>3. Decodes(f, bytes, size)
  <2>1. f = [n \in 0..size |-> f[n]]
    BY <1>1 DEF DecodeFrom
  <2>2. ASSUME NEW n \in 0..size
        PROVE  f[n] = IF n = 0 THEN <<>> ELSE DecodeStep(f[n - 1], bytes[n])
    BY <1>1 DEF DecodeFrom, DecodeStep
  <2> QED
    BY <2>1, <2>2 DEF Decodes
<1> QED
  BY <1>2, <1>3

\* Lines that begin alike decode alike.
LEMMA DecodesAlike ==
  ASSUME NEW n \in Nat, NEW a, NEW b, \A k \in 1..n : a[k] = b[k],
         NEW f, NEW m \in Nat, n <= m, Decodes(f, a, m),
         NEW g, NEW l \in Nat, n <= l, Decodes(g, b, l)
  PROVE  f[n] = g[n]
<1> DEFINE bad == {k \in 0..n : f[k] # g[k]}
<1>1. bad \in SUBSET Nat /\ bad \subseteq 0..n
  OBVIOUS
<1>2. \A k \in 0..n : k \notin bad => f[k] = g[k]
  OBVIOUS
<1>3. \A k \in bad : f[k] # g[k]
  OBVIOUS
<1> HIDE DEF bad
<1>4. ASSUME bad # {} PROVE FALSE
  <2>1. PICK k \in bad : \A j \in bad : k <= j
    BY <1>1, <1>4, LeastNumber
  <2>2. k # 0
    BY <1>3, <2>1 DEF Decodes
  <2>3. k \in 1..n /\ k - 1 \in 0..n /\ k - 1 \notin bad /\ k \in 1..m /\ k \in 1..l
    BY <1>1, <2>1, <2>2
  <2>4. f[k] = DecodeStep(f[k - 1], a[k]) /\ g[k] = DecodeStep(g[k - 1], b[k])
    BY <2>3 DEF Decodes
  <2> QED
    BY <1>2, <1>3, <2>1, <2>3, <2>4
<1> QED
  <2>1. n \in 0..n
    OBVIOUS
  <2> QED
    BY <1>2, <1>4, <2>1

\* No letters are a text.
LEMMA EmptyText == <<>> \in Text /\ Len(<<>>) = 0
BY EmptySeq, Zenon DEF Text

\* A byte more leaves a text.
LEMMA StepText ==
  ASSUME NEW text \in Text, NEW x PROVE DecodeStep(text, x) \in Text
<1> DEFINE S == {Letter, Wide}
<1>1. Letter \in S /\ Wide \in S
  OBVIOUS
<1>2. Text = Seq(S)
  BY DEF Text
<1> HIDE DEF S
<1>3. Append(text, Letter) \in Seq(S) /\ Append(text, Wide) \in Seq(S)
  BY <1>1, <1>2
<1> QED
  BY <1>2, <1>3 DEF DecodeStep

\* What is decoded so far is a text, at every byte.
LEMMA DecodesText ==
  ASSUME NEW n \in Nat, NEW bytes, NEW f, Decodes(f, bytes, n)
  PROVE  \A k \in 0..n : f[k] \in Text
<1> DEFINE bad == {k \in 0..n : f[k] \notin Text}
<1>1. bad \in SUBSET Nat /\ bad \subseteq 0..n
  OBVIOUS
<1>2. \A k \in 0..n : k \notin bad => f[k] \in Text
  OBVIOUS
<1>3. \A k \in bad : f[k] \notin Text
  OBVIOUS
<1> HIDE DEF bad
<1>4. ASSUME bad # {} PROVE FALSE
  <2>1. PICK k \in bad : \A j \in bad : k <= j
    BY <1>1, <1>4, LeastNumber
  <2>2. k # 0
    BY <1>3, <2>1, EmptyText DEF Decodes
  <2>3. k \in 1..n /\ k - 1 \in 0..n /\ k - 1 \notin bad
    BY <1>1, <2>1, <2>2
  <2>4. f[k] = DecodeStep(f[k - 1], bytes[k])
    BY <2>3 DEF Decodes
  <2> QED
    BY <1>2, <1>3, <2>1, <2>3, <2>4, StepText
<1> QED
  BY <1>2, <1>4

\* A decoded line is letters.
LEMMA DecodedText ==
  ASSUME NEW bytes, Len(bytes) \in Nat PROVE Decoded(bytes) \in Text
<1>1. PICK f : /\ Decodes(f, bytes, Len(bytes))
               /\ Decoded(bytes) = IF WellFormed(bytes) THEN f[Len(bytes)] ELSE <<>>
  BY DecodedIs
<1>2. f[Len(bytes)] \in Text
  <2> DEFINE n == Len(bytes)
  <2> HIDE DEF n
  <2>1. n \in Nat /\ Decodes(f, bytes, n) /\ n \in 0..n
    BY <1>1 DEF n
  <2>2. f[n] \in Text
    BY <2>1, DecodesText
  <2> QED
    BY <2>2 DEF n
<1> QED
  BY <1>1, <1>2, EmptyText
-----------------------------------------------------------------------------
(* The frame and the user.                                                  *)

\* What the captured line has.
LEMMA LineIs ==
  ASSUME LineTyped(line)
  PROVE  /\ line.atPrompt \in BOOLEAN /\ line.escape \in BOOLEAN /\ line.entered \in BOOLEAN
         /\ line.input \in Seq(Bytes) /\ Len(line.input) \in Nat /\ line.row \in Prompts
<1>1. /\ line.atPrompt \in BOOLEAN /\ line.escape \in BOOLEAN /\ line.entered \in BOOLEAN
      /\ line.input \in Seq(Bytes) /\ line.row \in Prompts
  BY DEF LineTyped, Lines
<1> QED
  BY <1>1

\* startBlock() makes a block unless one runs.
LEMMA StartBlockIs ==
  /\ Running(blocks) => StartBlock = [list |-> blocks, buffer |-> buffer, nextId |-> nextId,
                                      input |-> line.input]
  /\ ~Running(blocks) =>
       /\ StartBlock.list = IF Len(Append(blocks, NewBlock)) > BlockCap
                            THEN Tail(Append(blocks, NewBlock)) ELSE Append(blocks, NewBlock)
       /\ StartBlock.nextId = nextId + 1 /\ StartBlock.input = <<>>
       /\ StartBlock.buffer = IF Len(Append(blocks, NewBlock)) <= buffer.capacity THEN buffer
             ELSE [capacity |-> IF buffer.capacity < 2 THEN Len(Append(blocks, NewBlock))
                                ELSE buffer.capacity + buffer.capacity \div 2,
                   generation |-> buffer.generation + 1]
<1>1. Running(blocks) => StartBlock = [list |-> blocks, buffer |-> buffer, nextId |-> nextId,
                                      input |-> line.input]
  BY DEF StartBlock
<1> DEFINE list == Append(blocks, NewBlock)
           l == IF Len(list) > BlockCap THEN Tail(list) ELSE list
           b == IF Len(list) <= buffer.capacity THEN buffer
                ELSE [capacity |-> IF buffer.capacity < 2 THEN Len(list)
                                   ELSE buffer.capacity + buffer.capacity \div 2,
                      generation |-> buffer.generation + 1]
<1>2. ~Running(blocks) =>
        StartBlock = [list |-> l, buffer |-> b, nextId |-> nextId + 1, input |-> <<>>]
  BY Zenon DEF StartBlock
<1> HIDE DEF l, b
<1>3. ~Running(blocks) => StartBlock.list = l /\ StartBlock.buffer = b
                          /\ StartBlock.nextId = nextId + 1 /\ StartBlock.input = <<>>
  BY <1>2
<1> QED
  BY <1>1, <1>3 DEF l, b

\* A new block is a block.
LEMMA NewBlockTyped ==
  ASSUME Typed PROVE NewBlock \in Blocks
<1>1. Decoded(line.input) \in Seq({Letter, Wide})
  BY LineIs, DecodedText, Zenon DEF Typed, Text
<1>2. line.row \in Prompts /\ 0 \in Prompts /\ nextId \in Nat \ {0}
  BY LineIs, PromptsAre DEF Typed
<1> DEFINE c == Decoded(line.input)
           T == Seq({Letter, Wide})
<1>3. c \in T /\ Blocks = [id : Nat \ {0}, command : T,
           state : {"Running", "Succeeded", "Failed"}, start : Prompts,
           end : Prompts, bookmarked : BOOLEAN]
  BY <1>1 DEF Blocks
<1>4. NewBlock = [id |-> nextId, command |-> c, state |-> "Running",
                  start |-> line.row, end |-> 0, bookmarked |-> FALSE]
  BY DEF NewBlock
<1> HIDE DEF c, T
<1> QED
  BY <1>2, <1>3, <1>4

\* startBlock() keeps the types and the caps of the list.
LEMMA StartBlockTyped ==
  ASSUME Typed
  PROVE  /\ StartBlock.list \in Seq(Blocks) /\ Len(StartBlock.list) <= BlockCap
         /\ Len(StartBlock.list) >= Len(blocks)
         /\ StartBlock.buffer \in [capacity : Nat, generation : Nat]
         /\ StartBlock.nextId \in Nat \ {0}
         /\ StartBlock.input \in Seq(Bytes) /\ Len(StartBlock.input) <= InputCap
<1>0. /\ blocks \in Seq(Blocks) /\ Len(blocks) <= BlockCap /\ Len(blocks) \in Nat
      /\ buffer \in [capacity : Nat, generation : Nat] /\ nextId \in Nat \ {0}
      /\ line.input \in Seq(Bytes) /\ Len(line.input) <= InputCap
      /\ BlockCap \in Nat \ {0} /\ InputCap \in Nat
  BY CapsAssumption, LineIs DEF Typed, BlocksTyped, LineTyped
<1>1. CASE Running(blocks)
  BY <1>0, <1>1, StartBlockIs
<1>2. CASE ~Running(blocks)
  <2> DEFINE list == Append(blocks, NewBlock)
  <2>1. list \in Seq(Blocks) /\ Len(list) = Len(blocks) + 1
    BY <1>0, NewBlockTyped, Appended
  <2> HIDE DEF list
  <2>2. list # <<>>
    BY <1>0, <2>1
  <2>3. Tail(list) \in Seq(Blocks) /\ Len(Tail(list)) = Len(list) - 1
    BY <2>1, <2>2, TailIs
  <2>4. StartBlock.list = IF Len(list) > BlockCap THEN Tail(list) ELSE list
    BY <1>2, StartBlockIs DEF list
  <2>5. StartBlock.list \in Seq(Blocks) /\ Len(StartBlock.list) <= BlockCap
        /\ Len(StartBlock.list) >= Len(blocks)
    BY <1>0, <2>1, <2>3, <2>4
  <2>6. StartBlock.nextId = nextId + 1 /\ StartBlock.input = <<>>
        /\ StartBlock.buffer = IF Len(list) <= buffer.capacity THEN buffer
             ELSE [capacity |-> IF buffer.capacity < 2 THEN Len(list)
                                ELSE buffer.capacity + buffer.capacity \div 2,
                   generation |-> buffer.generation + 1]
    BY <1>2, StartBlockIs DEF list
  <2>7. Len(list) \in Nat /\ buffer.capacity \in Nat /\ buffer.generation \in Nat
        /\ buffer.capacity \div 2 \in Nat
    BY <1>0, <2>1
  <2>8. StartBlock.buffer \in [capacity : Nat, generation : Nat]
    BY <1>0, <2>6, <2>7
  <2>9. <<>> \in Seq(Bytes) /\ Len(<<>>) = 0
    BY EmptySeq
  <2> QED
    BY <1>0, <2>5, <2>6, <2>8, <2>9
<1> QED
  BY <1>1, <1>2

\* A finished block is a block.
LEMMA FinishedTyped ==
  ASSUME NEW b \in Blocks, NEW e \in Events PROVE Finished(b, e) \in Blocks
<1> DEFINE T == Seq({Letter, Wide})
<1>1. Blocks = [id : Nat \ {0}, command : T,
           state : {"Running", "Succeeded", "Failed"}, start : Prompts,
           end : Prompts, bookmarked : BOOLEAN]
  BY DEF Blocks
<1>2. e.prompt \in Prompts
  BY DEF Events
<1> HIDE DEF T
<1> QED
  BY <1>1, <1>2 DEF Finished

\* What a frame does to the captured line.
LEMMA StartedTyped ==
  ASSUME LineTyped(line), NEW b, NEW a \in BOOLEAN, Started(b, a),
         b.input \in Seq(Bytes), Len(b.input) <= InputCap
  PROVE  LineTyped(line')
<1>1. line' = [line EXCEPT !.atPrompt = a, !.input = b.input,
                           !.entered = line.entered /\ b.nextId = nextId]
  BY DEF Started
<1> DEFINE e == line.entered /\ b.nextId = nextId
<1>2. e \in BOOLEAN
  BY LineIs
<1> HIDE DEF e
<1>3. line' = [line EXCEPT !.atPrompt = a, !.input = b.input, !.entered = e]
  BY <1>1 DEF e
<1> QED
  BY <1>2, <1>3 DEF LineTyped, Lines

\* The mark a frame handles is the first of its batch.
LEMMA HandlingTyped ==
  ASSUME Typed, NEW mark, Handling(mark)
  PROVE  /\ Head(batch) \in Events /\ Head(batch).prompt \in Prompts /\ QueueTyped(batch')
         /\ Head(batch) = batch[1] /\ Len(batch) \in Nat \ {0}
         /\ UNCHANGED <<shell, typed, events, missed, misled, dropped>>
<1>1. batch \in Seq(Events) /\ Len(batch) <= QueueCap /\ QueueCap \in Nat
  BY CapsAssumption DEF Typed, QueueTyped
<1>2. batch # <<>> /\ batch' = Tail(batch)
  BY DEF Handling
<1>3. /\ batch' \in Seq(Events) /\ Len(batch) \in Nat \ {0} /\ Len(batch') = Len(batch) - 1
      /\ Head(batch) = batch[1] /\ Head(batch) \in Events
  BY <1>1, <1>2, TailIs
<1>4. Head(batch).prompt \in Prompts
  BY <1>3 DEF Events
<1> QED
  BY <1>1, <1>3, <1>4 DEF Handling, shellVars, QueueTyped

\* A command's end keeps the types and the position of the jumps.
LEMMA CommandEndTyped ==
  ASSUME Typed, CommandEnd
  PROVE  BlocksTyped' /\ LineTyped(line') /\ nextId' \in Nat \ {0} /\ nav' \in 0..Len(blocks')
         /\ Len(blocks') >= Len(blocks) /\ buffer' \in [capacity : Nat, generation : Nat]
<1> DEFINE b == IF line.input # <<>> THEN StartBlock
                ELSE [list |-> blocks, buffer |-> buffer, nextId |-> nextId, input |-> <<>>]
           block == Finished(Last(b.list), Head(batch))
<1>0. /\ blocks \in Seq(Blocks) /\ Len(blocks) <= BlockCap /\ Len(blocks) \in Nat
      /\ buffer \in [capacity : Nat, generation : Nat] /\ nextId \in Nat \ {0}
      /\ LineTyped(line) /\ line.atPrompt \in BOOLEAN /\ InputCap \in Nat /\ BlockCap \in Nat
      /\ nav \in 0..Len(blocks)
  BY CapsAssumption, LineIs DEF Typed, BlocksTyped
<1>1. /\ b.list \in Seq(Blocks) /\ Len(b.list) <= BlockCap /\ Len(b.list) >= Len(blocks)
      /\ b.buffer \in [capacity : Nat, generation : Nat] /\ b.nextId \in Nat \ {0}
      /\ b.input \in Seq(Bytes) /\ Len(b.input) <= InputCap
  <2>1. CASE line.input # <<>>
    BY <2>1, StartBlockTyped
  <2>2. CASE line.input = <<>>
    <3>1. <<>> \in Seq(Bytes) /\ Len(<<>>) = 0
      BY EmptySeq
    <3> QED
      BY <1>0, <2>2, <3>1
  <2> QED
    BY <2>1, <2>2
<1>2. Handling("D") /\ Head(batch) \in Events
  BY HandlingTyped DEF CommandEnd
<1>3. CASE Running(b.list)
  <2> DEFINE n == [b EXCEPT !.list = Append(Front(@), block)]
  <2>1. Started(n, line.atPrompt) /\ nav' = Len(b.list)
    BY <1>3 DEF CommandEnd
  <2>2. /\ n.list = Append(Front(b.list), block) /\ n.buffer = b.buffer /\ n.nextId = b.nextId
        /\ n.input = b.input
    BY DEF StartBlock
  <2> HIDE DEF n
  <2>3. b.list # <<>>
    BY <1>3 DEF Running
  <2>4. Front(b.list) \in Seq(Blocks) /\ Len(Front(b.list)) = Len(b.list) - 1
        /\ Last(b.list) \in Blocks /\ Len(b.list) \in Nat
    BY <1>1, <2>3, FrontIs
  <2>5. block \in Blocks
    BY <1>2, <2>4, FinishedTyped
  <2> HIDE DEF b
  <2>6. n.list \in Seq(Blocks) /\ Len(n.list) = Len(b.list)
    BY <2>2, <2>4, <2>5, Appended
  <2>7. blocks' = n.list /\ buffer' = b.buffer /\ nextId' = b.nextId
    BY <2>1, <2>2 DEF Started
  <2>8. LineTyped(line')
    BY <1>0, <1>1, <2>1, <2>2, StartedTyped
  <2> QED
    BY <1>1, <2>1, <2>4, <2>6, <2>7, <2>8 DEF BlocksTyped
<1>4. CASE ~Running(b.list)
  <2>1. Started(b, line.atPrompt) /\ nav' = nav
    BY <1>4 DEF CommandEnd
  <2> HIDE DEF b
  <2>2. blocks' = b.list /\ buffer' = b.buffer /\ nextId' = b.nextId
    BY <2>1 DEF Started
  <2>3. LineTyped(line')
    BY <1>0, <1>1, <2>1, StartedTyped
  <2>4. nav' \in 0..Len(blocks')
    BY <1>0, <1>1, <2>1, <2>2
  <2> QED
    BY <1>1, <2>2, <2>3, <2>4 DEF BlocksTyped
<1> QED
  BY <1>3, <1>4

\* Every mark handled keeps the types.
LEMMA HandleTyped ==
  ASSUME Typed, Handle PROVE Typed'
<1>0. PICK mark : Handling(mark)
  BY DEF Handle, PromptStart, CommandStart, OutputStart, CommandEnd, OtherEvent
<1>1. /\ QueueTyped(batch') /\ Head(batch).prompt \in Prompts
      /\ UNCHANGED <<shell, typed, events, missed, misled, dropped, menu>>
  BY <1>0, HandlingTyped DEF Handling
<1>2. LineTyped(line) /\ BlocksTyped /\ nextId \in Nat \ {0} /\ nav \in 0..Len(blocks)
      /\ buffer \in [capacity : Nat, generation : Nat] /\ Len(blocks) \in Nat
  BY DEF Typed, BlocksTyped
<1>3. BlocksTyped' /\ LineTyped(line') /\ nextId' \in Nat \ {0} /\ nav' \in 0..Len(blocks')
      /\ Len(blocks') >= Len(blocks) /\ buffer' \in [capacity : Nat, generation : Nat]
  <2>1. CASE PromptStart
    <3>1. line' = [line EXCEPT !.atPrompt = FALSE] /\ UNCHANGED <<blocks, nextId, buffer, nav>>
      BY <2>1 DEF PromptStart, blockVars
    <3>2. LineTyped(line')
      BY <1>2, <3>1 DEF LineTyped, Lines
    <3> QED
      BY <1>2, <3>1, <3>2 DEF BlocksTyped
  <2>2. CASE CommandStart
    <3>1. /\ line' = [atPrompt |-> TRUE, escape |-> FALSE, entered |-> FALSE,
                      input |-> <<>>, row |-> Head(batch).prompt]
          /\ UNCHANGED <<blocks, nextId, buffer, nav>>
      BY <2>2 DEF CommandStart, blockVars
    <3>2. <<>> \in Seq(Bytes) /\ Len(<<>>) = 0 /\ InputCap \in Nat
      BY EmptySeq, CapsAssumption
    <3>3. LineTyped(line')
      BY <1>1, <3>1, <3>2 DEF LineTyped, Lines
    <3> QED
      BY <1>2, <3>1, <3>3 DEF BlocksTyped
  <2>3. CASE OutputStart
    <3>1. Started(StartBlock, FALSE) /\ nav' = nav
      BY <2>3 DEF OutputStart
    <3>2. blocks' = StartBlock.list /\ buffer' = StartBlock.buffer /\ nextId' = StartBlock.nextId
      BY <3>1 DEF Started
    <3>3. LineTyped(line')
      BY <1>2, <3>1, StartBlockTyped, StartedTyped
    <3>4. Len(blocks) \in Nat /\ Len(blocks') \in Nat /\ Len(blocks') >= Len(blocks)
      BY <1>2, <3>2, StartBlockTyped DEF BlocksTyped
    <3>5. nav' \in 0..Len(blocks')
      BY <1>2, <3>1, <3>4
    <3> QED
      BY <3>2, <3>3, <3>5, StartBlockTyped DEF BlocksTyped
  <2>4. CASE CommandEnd
    BY <2>4, CommandEndTyped
  <2>5. CASE OtherEvent
    BY <1>2, <2>5 DEF OtherEvent, blockVars, BlocksTyped
  <2> QED
    BY <2>1, <2>2, <2>3, <2>4, <2>5 DEF Handle
<1>4. Len(blocks') \in Nat
  BY <1>3 DEF BlocksTyped
<1>5. menu' # Closed => menu'.at \in 1..Len(blocks')
  BY <1>1, <1>2, <1>3, <1>4 DEF Typed
<1> QED
  BY <1>1, <1>3, <1>5 DEF Typed, ShellTyped

\* A block's command can be sent again as keys.
LEMMA CommandKeys ==
  ASSUME NEW b \in Blocks PROVE Append(b.command, Return) \in Seq(AllKeys)
<1> DEFINE T == {Letter, Wide}
<1>1. b.command \in Seq(T)
  BY Zenon DEF Blocks
<1>2. T \subseteq AllKeys /\ Return \in AllKeys
  BY LetterKeys
<1> HIDE DEF T
<1>3. b.command \in Seq(AllKeys)
  BY <1>1, <1>2
<1> QED
  BY <1>2, <1>3

\* What the user does keeps the types.
LEMMA UserTyped ==
  ASSUME Typed, PressKey \/ Drain \/ Jump \/ MenuCommand PROVE Typed'
<1>0. /\ ShellTyped /\ typed \in Seq(SentKeys) /\ QueueTyped(events) /\ QueueTyped(batch)
      /\ LineTyped(line) /\ BlocksTyped /\ nextId \in Nat \ {0} /\ nav \in 0..Len(blocks)
      /\ buffer \in [capacity : Nat, generation : Nat] /\ missed \subseteq Prompts
      /\ misled \subseteq Prompts /\ dropped \subseteq Prompts
      /\ menu # Closed => menu.at \in 1..Len(blocks)
  BY DEF Typed
<1>01. blocks \in Seq(Blocks) /\ Len(blocks) \in Nat
  BY <1>0 DEF BlocksTyped
<1>1. CASE PressKey
  <2>1. PICK key \in Keys : SendKeys(<<key>>)
    BY <1>1 DEF PressKey
  <2>2. <<key>> \in Seq(AllKeys)
    <3>1. key \in AllKeys
      BY KeysAssumption
    <3> QED
      BY <3>1
  <2>3. typed' \in Seq(SentKeys) /\ LineTyped(line') /\ misled' \subseteq Prompts
    BY <2>1, <2>2, SendKeysTyped
  <2> QED
    BY <1>0, <1>1, <2>3 DEF PressKey, Typed, ShellTyped, QueueTyped, BlocksTyped, blockVars
<1>2. CASE Drain
  <2>1. <<>> \in Seq(Events) /\ Len(<<>>) = 0 /\ QueueCap \in Nat
    BY EmptySeq, CapsAssumption
  <2>2. QueueTyped(events') /\ QueueTyped(batch')
    BY <1>0, <1>2, <2>1 DEF Drain, QueueTyped
  <2> QED
    BY <1>0, <1>2, <2>2 DEF Drain, Typed, ShellTyped, BlocksTyped, blockVars, shellVars, ghosts
<1>3. CASE Jump
  <2>1. nav' \in 0..Len(blocks)
    <3>1. blocks # <<>>
      BY <1>3 DEF Jump, JumpPreviousCommand, JumpNextCommand
    <3>2. Len(blocks) \in Nat \ {0}
      BY <1>01, <3>1
    <3>3. CASE JumpPreviousCommand
      BY <1>0, <3>2, <3>3 DEF JumpPreviousCommand
    <3>4. CASE JumpNextCommand
      BY <1>0, <3>2, <3>4 DEF JumpNextCommand
    <3> QED
      BY <1>3, <3>3, <3>4 DEF Jump
  <2>2. menu' = Closed /\ UNCHANGED <<shellVars, events, batch, line, blockVars, missed, misled, dropped>>
    BY <1>3 DEF Jump
  <2> QED
    BY <1>0, <2>1, <2>2 DEF Typed, ShellTyped, QueueTyped, BlocksTyped, blockVars, shellVars
<1>4. CASE OpenMenu
  <2>1. /\ menu' = [id |-> Last(blocks).id, at |-> Len(blocks), generation |-> buffer.generation,
                    canRun |-> /\ Last(blocks).command # <<>>
                               /\ Last(blocks).state # "Running"]
        /\ blocks # <<>>
        /\ UNCHANGED <<shellVars, events, batch, line, blockVars, nav, missed, misled, dropped>>
    BY <1>4 DEF OpenMenu, ghosts
  <2>2. menu'.at = Len(blocks)
    BY <2>1
  <2>3. Len(blocks) \in 1..Len(blocks)
    BY <1>01, <2>1
  <2> QED
    BY <1>0, <2>1, <2>2, <2>3 DEF Typed, ShellTyped, QueueTyped, BlocksTyped, blockVars, shellVars
<1>5. CASE CloseMenu
  <2>1. menu' = Closed
        /\ UNCHANGED <<shellVars, events, batch, line, blockVars, nav, missed, misled, dropped>>
    BY <1>5 DEF CloseMenu, ghosts
  <2> QED
    BY <1>0, <2>1 DEF Typed, ShellTyped, QueueTyped, BlocksTyped, blockVars, shellVars
<1>6. CASE RunAgain
  <2>1. menu' = Closed /\ menu # Closed
        /\ UNCHANGED <<shell, events, batch, blockVars, nav, missed, dropped>>
    BY <1>6 DEF RunAgain
  <2>2. typed' \in Seq(SentKeys) /\ LineTyped(line') /\ misled' \subseteq Prompts
    <3>1. CASE UNCHANGED <<line, typed, misled, pressed>>
      BY <1>0, <3>1
    <3>2. CASE SendKeys(Append(blocks[menu.at].command, Return))
      <4>1. blocks[menu.at] \in Blocks
        BY <1>0, <1>01, <2>1
      <4> QED
        BY <3>2, <4>1, CommandKeys, SendKeysTyped
    <3> QED
      BY <1>6, <3>1, <3>2 DEF RunAgain
  <2> QED
    BY <1>0, <2>1, <2>2 DEF Typed, ShellTyped, QueueTyped, BlocksTyped, blockVars
<1>7. CASE ToggleBookmark
  <2> DEFINE n == Len(blocks)
             b == [blocks[n] EXCEPT !.bookmarked = ~blocks[n].bookmarked]
  <2>1. /\ menu' = Closed /\ menu # Closed /\ blocks' = [blocks EXCEPT ![n] = b]
        /\ UNCHANGED <<shellVars, events, batch, line, nextId, buffer, nav, missed, misled, dropped>>
    BY <1>7 DEF ToggleBookmark, ghosts
  <2>2. n \in 1..n
    BY <1>0, <1>01, <2>1
  <2>3. b \in Blocks
    <3> DEFINE T == Seq({Letter, Wide})
    <3>1. Blocks = [id : Nat \ {0}, command : T,
             state : {"Running", "Succeeded", "Failed"}, start : Prompts,
             end : Prompts, bookmarked : BOOLEAN]
      BY DEF Blocks
    <3>2. blocks[n] \in Blocks
      BY <1>01, <2>2
    <3> HIDE DEF T
    <3> QED
      BY <3>1, <3>2
  <2> HIDE DEF b
  <2>4. blocks' \in Seq(Blocks) /\ Len(blocks') = n
    BY <1>01, <2>1, <2>2, <2>3
  <2> QED
    BY <1>0, <2>1, <2>4 DEF Typed, ShellTyped, QueueTyped, BlocksTyped, shellVars
<1> QED
  BY <1>1, <1>2, <1>3, <1>4, <1>5, <1>6, <1>7 DEF MenuCommand

\* The types hold at the start.
LEMMA InitTyped == Init => Typed
<1> SUFFICES ASSUME Init PROVE Typed
  OBVIOUS
<1>0. /\ Earlier \in Nat /\ Earlier <= BlockCap /\ MaxPrompts \in Nat /\ Earlier < MaxPrompts
      /\ QueueCap \in Nat /\ InputCap \in Nat /\ BlockCap \in Nat
  BY CapsAssumption
<1>1. Earlier \in Prompts /\ Earlier + 1 \in Prompts /\ Earlier + 1 >= 1
  BY <1>0, PromptsAre
<1>2. <<>> \in Seq(AllKeys) /\ <<>> \in Seq(SentKeys) /\ <<>> \in Seq(Events) /\ <<>> \in Seq(Bytes)
      /\ Len(<<>>) = 0
  BY EmptySeq
<1>3. PICK m \in BOOLEAN :
       /\ shell = [at |-> IF Earlier = 0 THEN "D" ELSE "A",
                   prompt |-> Earlier + 1, line |-> <<>>, marksStart |-> m]
       /\ line = [atPrompt |-> Earlier > 0 /\ ~m, escape |-> FALSE,
                  entered |-> FALSE, input |-> <<>>, row |-> Earlier]
  BY Zenon DEF Init
<1>4. ShellTyped
  BY <1>1, <1>2, <1>3 DEF ShellTyped, Shells
<1>5. LineTyped(line)
  <2>1. (Earlier > 0 /\ ~m) \in BOOLEAN
    OBVIOUS
  <2> QED
    BY <1>0, <1>1, <1>2, <1>3, <2>1 DEF LineTyped, Lines
<1>6. QueueTyped(events) /\ QueueTyped(batch) /\ typed \in Seq(SentKeys)
  BY <1>0, <1>2 DEF Init, QueueTyped
<1>7. \A i \in 1..Earlier : EarlierBlock(i) \in Blocks
  <2> SUFFICES ASSUME NEW i \in 1..Earlier PROVE EarlierBlock(i) \in Blocks
    OBVIOUS
  <2>1. <<Letter>> \in Seq({Letter, Wide})
    OBVIOUS
  <2> DEFINE T == Seq({Letter, Wide})
             c == <<Letter>>
  <2>2. Blocks = [id : Nat \ {0}, command : T,
             state : {"Running", "Succeeded", "Failed"}, start : Prompts,
             end : Prompts, bookmarked : BOOLEAN]
    BY DEF Blocks
  <2>3. EarlierBlock(i) = [id |-> i, command |-> c, state |-> "Succeeded", start |-> i,
                           end |-> i, bookmarked |-> FALSE]
    BY DEF EarlierBlock
  <2>4. c \in T
    BY <2>1
  <2> HIDE DEF T, c
  <2>5. i \in Nat \ {0} /\ i \in Prompts
    BY <1>0, PromptsAre
  <2> QED
    BY <2>2, <2>3, <2>4, <2>5
<1>8. blocks = [i \in 1..Earlier |-> EarlierBlock(i)]
  BY DEF Init
<1>9. blocks \in Seq(Blocks) /\ Len(blocks) = Earlier
  BY <1>0, <1>7, <1>8
<1>10. /\ nextId = Earlier + 1 /\ nav = Earlier
       /\ buffer = [capacity |-> Earlier, generation |-> Earlier]
       /\ menu = Closed /\ missed = {} /\ misled = {} /\ dropped = {}
  BY DEF Init
<1> QED
  BY <1>0, <1>4, <1>5, <1>6, <1>9, <1>10 DEF Typed, BlocksTyped

\* Every step keeps the types.
LEMMA NextTyped == ASSUME Typed, [Next]_vars PROVE Typed'
<1>1. CASE UNCHANGED vars
  BY <1>1 DEF vars, shellVars, blockVars, ghosts, Typed, ShellTyped, QueueTyped, BlocksTyped
<1>2. CASE Next
  BY <1>2, ShellSteps, HandleTyped, UserTyped DEF Next, ShellStep
<1> QED
  BY <1>1, <1>2

-----------------------------------------------------------------------------
(* The marks on their way from the shell to the session, in their order.    *)

\* The order of a prompt's marks: A, B, the first C, the others, a link, D.
Rank(e) == IF e.mark = "A" THEN 0 ELSE IF e.mark = "B" THEN 1
           ELSE IF e.mark = "C" THEN (IF e.ok THEN 2 ELSE 3)
           ELSE IF e.mark = "link" THEN 4 ELSE 5
Pos(e) == 6 * e.prompt + Rank(e)

\* The place of what the shell writes next.
NextPos == 6 * shell.prompt + (IF shell.at = "D" THEN -1 ELSE IF shell.at = "A" THEN 0
             ELSE IF shell.at = "B" THEN 1 ELSE IF shell.at = "prompt" THEN 2
             ELSE IF shell.at = "more" THEN 3 ELSE 4)

\* Prompts whose line may become a block with no C: all, when the shell writes none.
Skip == IF shell.marksStart THEN missed ELSE Prompts

Stream == Range(batch) \cup Range(events)

Sorted(s) == \A i, j \in DOMAIN s : i < j => Pos(s[i]) < Pos(s[j])

InOrder ==
  /\ Sorted(batch) /\ Sorted(events)
  /\ \A x \in Range(batch), y \in Range(events) : Pos(x) < Pos(y)

There(S, p) == \E x \in S : Pos(x) = p
Over(S, p) == \A x \in S : p < Pos(x)

\* What the session knows lies before what is on its way, and that before what is
\* still to come.
Near(S, next, row) ==
  Over(S, 6 * row + 1) /\ 6 * row + 1 < next /\ \A x \in S : Pos(x) < next

\* Of what was written nothing is missing but what was handled or dropped.
Starts(S, next, row, drop) ==
  \A n \in Prompts : 6 * n + 1 < next /\ row < n /\ n \notin drop => There(S, 6 * n + 1)
Kept(S, next, drop, k) ==
  \A n \in Prompts : 6 * n + k < next /\ n \notin drop =>
                       There(S, 6 * n + k) \/ Over(S, 6 * n + k)

StreamOk(S, next, row, drop, skip) ==
  /\ Near(S, next, row) /\ Starts(S, next, row, drop)
  /\ Kept(S, next, drop \cup skip, 2) /\ Kept(S, next, drop, 5)

\* On its way from one place to the other the shell leaves out nothing of these.
Passed(from, to, skip) ==
  /\ from <= to
  /\ \A n \in Prompts :
       /\ ~(from <= 6 * n + 1 /\ 6 * n + 1 < to) /\ ~(from <= 6 * n + 5 /\ 6 * n + 5 < to)
       /\ from <= 6 * n + 2 /\ 6 * n + 2 < to => n \in skip

\* A mark between the command's prompt and all that comes was dropped.
Cross(S, next, drop, s) ==
  \E n \in drop : s <= n /\ 6 * n <= next /\ \A x \in S : 6 * n <= Pos(x)

\* A running block's end is still to come, or one of its marks was dropped.
RunsOk(S, next, row, drop, s) ==
  /\ s <= row
  /\ Cross(S, next, drop, s) \/ (s = row /\ (6 * s + 5 >= next \/ There(S, 6 * s + 5)))

\* A mark's prompt and kind are its place.
LEMMA PosIs ==
  ASSUME NEW e \in Events
  PROVE  /\ Pos(e) \in Nat /\ e.prompt \in Prompts /\ e.prompt \in Nat
         /\ 6 * e.prompt <= Pos(e) /\ Pos(e) <= 6 * e.prompt + 5
         /\ e.mark = "A" <=> Pos(e) = 6 * e.prompt
         /\ e.mark = "B" <=> Pos(e) = 6 * e.prompt + 1
         /\ e.mark = "C" /\ e.ok <=> Pos(e) = 6 * e.prompt + 2
         /\ e.mark = "C" /\ ~e.ok <=> Pos(e) = 6 * e.prompt + 3
         /\ e.mark = "link" <=> Pos(e) = 6 * e.prompt + 4
         /\ e.mark = "D" <=> Pos(e) = 6 * e.prompt + 5
<1>1. e.prompt \in Prompts /\ e.mark \in {"A", "B", "C", "D", "link"}
  BY DEF Events, Marks
<1>2. e.prompt \in Nat
  BY <1>1, PromptsAre
<1>3. PICK r : r = Rank(e)
  OBVIOUS
<1>4. /\ e.mark = "A" => r = 0
      /\ e.mark = "B" => r = 1
      /\ e.mark = "C" /\ e.ok => r = 2
      /\ e.mark = "C" /\ ~e.ok => r = 3
      /\ e.mark = "link" => r = 4
      /\ e.mark = "D" => r = 5
  BY <1>3 DEF Rank
<1>5. Pos(e) = 6 * e.prompt + r
  BY <1>3 DEF Pos
<1> QED
  BY <1>1, <1>2, <1>4, <1>5

\* A mark is the one of its place.
LEMMA PlaceIs ==
  ASSUME NEW e \in Events, NEW n \in Nat, NEW k \in 0..5, Pos(e) = 6 * n + k
  PROVE  e.prompt = n
BY PosIs

\* The shell writes its next mark.
LEMMA WroteStream ==
  ASSUME NEW S \in SUBSET Events, NEW next \in Int, NEW row \in Prompts, NEW drop, NEW skip,
         StreamOk(S, next, row, drop, skip), NEW e \in Events, Pos(e) = next
  PROVE  StreamOk(S \cup {e}, next + 1, row, drop, skip)
<1> DEFINE T == S \cup {e}
<1>0. row \in Nat /\ \A n \in Prompts : n \in Nat
  BY PromptsAre
<1>1. \A x \in T : Pos(x) \in Nat
  BY PosIs
<1>2. \A p \in Int : There(S, p) => There(T, p)
  BY DEF There
<1>3. There(T, next)
  BY DEF There
<1>4. \A p \in Int : p < next /\ Over(S, p) => Over(T, p)
  BY DEF Over
<1>5. \A x \in T : Pos(x) < next + 1
  BY <1>1 DEF StreamOk, Near
<1> HIDE DEF T
<1>6. Near(T, next + 1, row)
  <2>1. Over(S, 6 * row + 1) /\ 6 * row + 1 < next
    BY DEF StreamOk, Near
  <2>2. 6 * row + 1 \in Int /\ 6 * row + 1 < next + 1
    BY <1>0, <2>1
  <2>3. Over(T, 6 * row + 1)
    BY <1>4, <2>1, <2>2
  <2> QED
    BY <1>5, <2>2, <2>3 DEF Near
<1>7. Starts(T, next + 1, row, drop)
  <2> SUFFICES ASSUME NEW n \in Prompts, 6 * n + 1 < next + 1, row < n, n \notin drop
               PROVE  There(T, 6 * n + 1)
    BY DEF Starts
  <2> n \in Nat
    BY <1>0
  <2>1. CASE 6 * n + 1 = next
    BY <1>3, <2>1
  <2>2. CASE 6 * n + 1 < next
    BY <1>2, <2>2 DEF StreamOk, Starts
  <2> QED
    BY <2>1, <2>2
<1>8. ASSUME NEW k \in Nat, NEW d, Kept(S, next, d, k) PROVE Kept(T, next + 1, d, k)
  <2> SUFFICES ASSUME NEW n \in Prompts, 6 * n + k < next + 1, n \notin d
               PROVE  There(T, 6 * n + k) \/ Over(T, 6 * n + k)
    BY DEF Kept
  <2> n \in Nat
    BY <1>0
  <2>1. CASE 6 * n + k = next
    BY <1>3, <2>1
  <2>2. CASE 6 * n + k < next
    BY <1>2, <1>4, <1>8, <2>2 DEF Kept
  <2> QED
    BY <2>1, <2>2
<1> QED
  BY <1>6, <1>7, <1>8 DEF StreamOk, T

\* The shell goes on without a mark, where none is written.
LEMMA WentOnStream ==
  ASSUME NEW S \in SUBSET Events, NEW next \in Int, NEW row \in Prompts, NEW drop, NEW skip,
         StreamOk(S, next, row, drop, skip), NEW later \in Int, NEW new, skip \subseteq new,
         Passed(next, later, new)
  PROVE  StreamOk(S, later, row, drop, new)
<1>0. row \in Nat /\ (\A n \in Prompts : n \in Nat) /\ next <= later
  BY PromptsAre DEF Passed
<1>1. \A x \in S : Pos(x) \in Nat
  BY PosIs
<1>2. Near(S, later, row)
  <2>1. 6 * row + 1 < later
    BY <1>0 DEF StreamOk, Near
  <2>2. \A x \in S : Pos(x) < later
    BY <1>0, <1>1 DEF StreamOk, Near
  <2> QED
    BY <2>1, <2>2 DEF StreamOk, Near
<1>3. Starts(S, later, row, drop)
  BY <1>0 DEF StreamOk, Starts, Passed
<1>4. ASSUME NEW k \in Nat, NEW d, NEW f, d \subseteq f, Kept(S, next, d, k),
             \A n \in Prompts : next <= 6 * n + k /\ 6 * n + k < later => n \in f
      PROVE  Kept(S, later, f, k)
  <2> SUFFICES ASSUME NEW n \in Prompts, 6 * n + k < later, n \notin f
               PROVE  There(S, 6 * n + k) \/ Over(S, 6 * n + k)
    BY DEF Kept
  <2>1. n \in Nat /\ n \notin d
    BY <1>0, <1>4
  <2>2. 6 * n + k < next
    BY <1>4, <2>1
  <2> QED
    BY <1>4, <2>1, <2>2 DEF Kept
<1>5. Kept(S, later, drop, 5)
  BY <1>4 DEF StreamOk, Passed
<1>6. Kept(S, later, drop \cup new, 2)
  <2>1. drop \cup skip \subseteq drop \cup new
    OBVIOUS
  <2>2. \A n \in Prompts : next <= 6 * n + 2 /\ 6 * n + 2 < later => n \in drop \cup new
    BY DEF Passed
  <2> QED
    BY <1>4, <2>1, <2>2 DEF StreamOk
<1> QED
  BY <1>2, <1>3, <1>5, <1>6 DEF StreamOk

\* The full queue drops a mark, and it is noted.
LEMMA DroppedStream ==
  ASSUME NEW S \in SUBSET Events, NEW next \in Int, NEW row \in Prompts, NEW drop, NEW skip,
         StreamOk(S, next, row, drop, skip), NEW x \in S, NEW new, drop \subseteq new,
         x.mark # "link" => x.prompt \in new
  PROVE  StreamOk(S \ {x}, next, row, new, skip)
<1> DEFINE T == S \ {x}
<1>0. row \in Nat /\ \A n \in Prompts : n \in Nat
  BY PromptsAre
<1>2. \A p \in Int : Over(S, p) => Over(T, p)
  BY DEF Over
<1>3. ASSUME NEW n \in Prompts, NEW k \in {1, 2, 5}, n \notin new, There(S, 6 * n + k)
      PROVE  There(T, 6 * n + k)
  <2>1. PICK y \in S : Pos(y) = 6 * n + k
    BY <1>3 DEF There
  <2>2. y # x
    <3>1. SUFFICES ASSUME y = x PROVE FALSE
      OBVIOUS
    <3>2. x.prompt = n
      <4>1. x \in Events /\ n \in Nat /\ k \in 0..5 /\ Pos(x) = 6 * n + k
        BY <1>0, <2>1, <3>1
      <4> QED
        BY <4>1, PlaceIs
    <3>3. x.mark # "link"
      BY <2>1, <3>1, <3>2, PosIs
    <3> QED
      BY <1>3, <3>2, <3>3
  <2> QED
    BY <2>1, <2>2 DEF There
<1>5. \A y \in T : y \in S
  OBVIOUS
<1> HIDE DEF T
<1>6. Near(T, next, row)
  BY <1>0, <1>2, <1>5 DEF StreamOk, Near
<1>7. Starts(T, next, row, new)
  BY <1>3 DEF StreamOk, Starts
<1>8. ASSUME NEW k \in {2, 5}, NEW d, NEW f, d \subseteq f, new \subseteq f, Kept(S, next, d, k)
      PROVE  Kept(T, next, f, k)
  <2> SUFFICES ASSUME NEW n \in Prompts, 6 * n + k < next, n \notin f
               PROVE  There(T, 6 * n + k) \/ Over(T, 6 * n + k)
    BY DEF Kept
  <2> n \in Nat /\ n \notin d /\ n \notin new
    BY <1>0, <1>8
  <2>1. There(S, 6 * n + k) \/ Over(S, 6 * n + k)
    BY <1>8 DEF Kept
  <2> QED
    BY <1>2, <1>3, <2>1
<1> QED
  <2>1. Kept(T, next, new, 5)
    BY <1>8 DEF StreamOk
  <2>2. Kept(T, next, new \cup skip, 2)
    <3>1. drop \cup skip \subseteq new \cup skip /\ new \subseteq new \cup skip
      OBVIOUS
    <3> QED
      BY <1>8, <3>1 DEF StreamOk
  <2> QED
    BY <1>6, <1>7, <2>1, <2>2 DEF StreamOk, T

\* The frame handles the first mark.
LEMMA HandledStream ==
  ASSUME NEW S \in SUBSET Events, NEW next \in Int, NEW row \in Prompts, NEW drop, NEW skip,
         StreamOk(S, next, row, drop, skip), NEW x \in S, Over(S \ {x}, Pos(x)),
         NEW r, r = IF x.mark = "B" THEN x.prompt ELSE row
  PROVE  StreamOk(S \ {x}, next, r, drop, skip) /\ row <= r
<1> DEFINE T == S \ {x}
<1>0. row \in Nat /\ (\A n \in Prompts : n \in Nat) /\ x.prompt \in Nat
  BY PromptsAre, PosIs
<1>1. \A y \in S : Pos(y) \in Nat
  BY PosIs
<1>2. 6 * row + 1 < Pos(x) /\ Pos(x) < next
  BY DEF StreamOk, Over, Near
<1>3. row <= r /\ r \in Nat /\ 6 * r + 1 < next /\ Over(T, 6 * r + 1)
  <2>1. CASE x.mark = "B"
    <3>1. Pos(x) = 6 * x.prompt + 1 /\ r = x.prompt
      BY <2>1, PosIs
    <3> QED
      BY <1>0, <1>2, <3>1
  <2>2. CASE x.mark # "B"
    <3>1. r = row
      BY <2>2
    <3> QED
      BY <1>0, <3>1 DEF StreamOk, Over, Near
  <2> QED
    BY <2>1, <2>2
<1>4. \A p \in Int : Over(S, p) => Over(T, p)
  BY DEF Over
<1>5. ASSUME NEW n \in Prompts, NEW k \in {2, 5}, There(S, 6 * n + k)
      PROVE  There(T, 6 * n + k) \/ Over(T, 6 * n + k)
  <2>1. PICK y \in S : Pos(y) = 6 * n + k
    BY <1>5 DEF There
  <2>2. CASE y = x
    BY <2>1, <2>2
  <2>3. CASE y # x
    BY <2>1, <2>3 DEF There
  <2> QED
    BY <2>2, <2>3
<1>6. ASSUME NEW n \in Prompts, r < n, There(S, 6 * n + 1) PROVE There(T, 6 * n + 1)
  <2>1. PICK y \in S : Pos(y) = 6 * n + 1
    BY <1>6 DEF There
  <2>2. CASE y = x
    <3>1. x.prompt = n
      BY <1>0, <2>1, <2>2, PlaceIs
    <3>2. x.mark = "B"
      BY <2>1, <2>2, <3>1, PosIs
    <3> QED
      BY <1>0, <1>6, <3>1, <3>2
  <2>3. CASE y # x
    BY <2>1, <2>3 DEF There
  <2> QED
    BY <2>2, <2>3
<1>7. \A y \in T : Pos(y) < next
  BY DEF StreamOk, Near
<1>8. \A n \in Prompts : r < n => row < n
  BY <1>0, <1>3
<1> HIDE DEF T
<1>9. Near(T, next, r)
  BY <1>3, <1>7 DEF Near
<1>10. Starts(T, next, r, drop)
  BY <1>6, <1>8 DEF StreamOk, Starts
<1>11. ASSUME NEW k \in {2, 5}, NEW d, Kept(S, next, d, k) PROVE Kept(T, next, d, k)
  <2> SUFFICES ASSUME NEW n \in Prompts, 6 * n + k < next, n \notin d
               PROVE  There(T, 6 * n + k) \/ Over(T, 6 * n + k)
    BY DEF Kept
  <2> n \in Nat
    BY <1>0
  <2>1. There(S, 6 * n + k) \/ Over(S, 6 * n + k)
    BY <1>11 DEF Kept
  <2> QED
    BY <1>4, <1>5, <2>1
<1> QED
  BY <1>3, <1>9, <1>10, <1>11 DEF StreamOk, T

\* A mark that is written or left out leaves the running block its end.
LEMMA CrossStays ==
  ASSUME NEW S, NEW next \in Int, NEW drop \in SUBSET Prompts, NEW s, Cross(S, next, drop, s),
         NEW T, NEW new, NEW later \in Int, next <= later, drop \subseteq new,
         \A x \in T : x \in S \/ Pos(x) = next
  PROVE  Cross(T, later, new, s)
<1>1. PICK n \in drop : s <= n /\ 6 * n <= next /\ \A x \in S : 6 * n <= Pos(x)
  BY DEF Cross
<1>2. n \in Nat
  BY <1>1, PromptsAre
<1>3. n \in new /\ 6 * n <= later /\ \A x \in T : 6 * n <= Pos(x)
  BY <1>1, <1>2
<1> QED
  BY <1>1, <1>3 DEF Cross

\* A mark written leaves the end of a running block where it was.
LEMMA WroteRuns ==
  ASSUME NEW S, NEW next \in Int, NEW row, NEW drop \in SUBSET Prompts, NEW s \in Prompts,
         RunsOk(S, next, row, drop, s), NEW e, Pos(e) = next
  PROVE  RunsOk(S \cup {e}, next + 1, row, drop, s)
<1> DEFINE T == S \cup {e}
<1>1. Cross(S, next, drop, s) => Cross(T, next + 1, drop, s)
  BY CrossStays
<1>2. 6 * s + 5 >= next => 6 * s + 5 >= next + 1 \/ There(T, 6 * s + 5)
  <2>1. s \in Nat
    BY PromptsAre
  <2>2. 6 * s + 5 = next => There(T, 6 * s + 5)
    BY DEF There
  <2> HIDE DEF T
  <2> QED
    BY <2>1, <2>2
<1>3. There(S, 6 * s + 5) => There(T, 6 * s + 5)
  BY DEF There
<1> QED
  BY <1>1, <1>2, <1>3 DEF RunsOk

\* So does a shell that goes on without a mark.
LEMMA WentOnRuns ==
  ASSUME NEW S, NEW next \in Int, NEW row, NEW drop \in SUBSET Prompts, NEW s \in Prompts,
         RunsOk(S, next, row, drop, s), NEW later \in Int, NEW skip, Passed(next, later, skip)
  PROVE  RunsOk(S, later, row, drop, s)
<1>0. next <= later
  BY DEF Passed
<1>1. Cross(S, next, drop, s) => Cross(S, later, drop, s)
  BY <1>0, CrossStays
<1>2. s \in Nat /\ ~(next <= 6 * s + 5 /\ 6 * s + 5 < later)
  BY PromptsAre DEF Passed
<1>3. 6 * s + 5 >= next => 6 * s + 5 >= later
  BY <1>2
<1> QED
  BY <1>1, <1>3 DEF RunsOk

\* A mark dropped is that end, or leaves it where it was.
LEMMA DroppedRuns ==
  ASSUME NEW S \in SUBSET Events, NEW next \in Int, NEW row \in Prompts,
         NEW drop \in SUBSET Prompts, NEW s \in Prompts, Near(S, next, row),
         RunsOk(S, next, row, drop, s), NEW x \in S, NEW new, drop \subseteq new,
         x.mark # "link" => x.prompt \in new
  PROVE  RunsOk(S \ {x}, next, row, new, s)
<1> DEFINE T == S \ {x}
<1>0. s \in Nat /\ row \in Nat
  BY PromptsAre
<1>1. Cross(S, next, drop, s) => Cross(T, next, new, s)
  BY CrossStays
<1>2. ASSUME s = row, There(S, 6 * s + 5) PROVE There(T, 6 * s + 5) \/ Cross(T, next, new, s)
  <2>1. PICK y \in S : Pos(y) = 6 * s + 5
    BY <1>2 DEF There
  <2>2. CASE y # x
    BY <2>1, <2>2 DEF There
  <2>3. CASE y = x
    <3>1. x.prompt = s
      BY <1>0, <2>1, <2>3, PlaceIs
    <3>2. s \in new
      BY <2>1, <2>3, <3>1, PosIs
    <3>3. 6 * s <= next
      BY <1>0, <1>2 DEF Near
    <3>4. \A z \in T : 6 * s <= Pos(z)
      <4>1. \A z \in S : Pos(z) \in Nat /\ 6 * s + 1 < Pos(z)
        BY <1>2, PosIs DEF Near, Over
      <4> QED
        BY <1>0, <4>1
    <3> QED
      BY <1>0, <3>2, <3>3, <3>4 DEF Cross
  <2> QED
    BY <2>2, <2>3
<1> QED
  BY <1>1, <1>2 DEF RunsOk

\* The frame handles a mark that ends no block.
LEMMA HandledRuns ==
  ASSUME NEW S \in SUBSET Events, NEW next \in Int, NEW row \in Prompts,
         NEW drop \in SUBSET Prompts, NEW s \in Prompts, Near(S, next, row),
         RunsOk(S, next, row, drop, s), NEW x \in S, Over(S \ {x}, Pos(x)), x.mark # "D",
         NEW r, r = IF x.mark = "B" THEN x.prompt ELSE row
  PROVE  RunsOk(S \ {x}, next, r, drop, s)
<1> DEFINE T == S \ {x}
<1>0. s \in Nat /\ row \in Nat /\ x.prompt \in Nat /\ Pos(x) \in Nat /\ x \in Events
  BY PromptsAre, PosIs
<1>1. Cross(S, next, drop, s) => Cross(T, next, drop, s)
  BY CrossStays
<1>2. 6 * row + 1 < Pos(x) /\ Pos(x) < next
  BY DEF Near, Over
<1>3. row <= r /\ s <= r
  <2>1. CASE x.mark = "B"
    <3>1. Pos(x) = 6 * x.prompt + 1 /\ r = x.prompt
      BY <2>1, PosIs
    <3> QED
      BY <1>0, <1>2, <3>1 DEF RunsOk
  <2> QED
    BY <1>0, <2>1 DEF RunsOk
<1>4. ASSUME There(S, 6 * s + 5) PROVE There(T, 6 * s + 5)
  <2>1. PICK y \in S : Pos(y) = 6 * s + 5
    BY <1>4 DEF There
  <2>2. y # x
    <3>1. SUFFICES ASSUME y = x PROVE FALSE
      OBVIOUS
    <3>2. x.prompt = s
      BY <1>0, <2>1, <3>1, PlaceIs
    <3> QED
      BY <2>1, <3>1, <3>2, PosIs
  <2> QED
    BY <2>1, <2>2 DEF There
<1>5. ASSUME s = row, x.mark = "B", 6 * s + 5 >= next \/ There(S, 6 * s + 5) PROVE FALSE
  <2>1. Pos(x) = 6 * x.prompt + 1
    BY <1>0, <1>5, PosIs
  <2>2. row < x.prompt
    BY <1>0, <1>2, <2>1
  <2>3. 6 * s + 5 < next
    BY <1>0, <1>2, <1>5, <2>1, <2>2
  <2>4. ~(6 * s + 5 >= next)
    BY <1>0, <2>3
  <2>5. There(T, 6 * s + 5)
    BY <1>4, <1>5, <2>4
  <2>6. PICK y \in T : Pos(y) = 6 * s + 5
    BY <2>5 DEF There
  <2>7. Pos(x) < 6 * s + 5
    BY <2>6 DEF Over
  <2> QED
    BY <1>0, <1>5, <2>1, <2>2, <2>7
<1>6. x.mark # "B" => r = row
  OBVIOUS
<1> QED
  BY <1>1, <1>3, <1>4, <1>5, <1>6 DEF RunsOk

\* A block that C starts has its end to come.
LEMMA StartRuns ==
  ASSUME NEW S \in SUBSET Events, NEW next \in Int, NEW row \in Prompts,
         NEW drop \in SUBSET Prompts, NEW skip, StreamOk(S, next, row, drop, skip),
         NEW x \in S, Over(S \ {x}, Pos(x)), x.mark = "C"
  PROVE  RunsOk(S \ {x}, next, row, drop, row)
<1> DEFINE T == S \ {x}
           n == x.prompt
<1>0. row \in Nat /\ n \in Nat /\ n \in Prompts /\ x \in Events /\ (Pos(x) = 6 * n + 2 \/ Pos(x) = 6 * n + 3)
  BY PromptsAre, PosIs
<1>1. 6 * row + 1 < Pos(x) /\ Pos(x) < next
  BY DEF StreamOk, Near, Over
<1>2. row <= n
  BY <1>0, <1>1
<1>3. \A y \in T : Pos(y) \in Nat /\ Pos(x) < Pos(y)
  BY PosIs DEF Over
<1>4. ASSUME n \in drop PROVE Cross(T, next, drop, row)
  <2>1. 6 * n <= next /\ \A y \in T : 6 * n <= Pos(y)
    BY <1>0, <1>1, <1>3
  <2> QED
    BY <1>2, <1>4, <2>1 DEF Cross
<1>5. CASE n = row
  <2>1. ASSUME n \notin drop, 6 * n + 5 < next PROVE There(T, 6 * n + 5)
    <3>1. There(S, 6 * n + 5) \/ Over(S, 6 * n + 5)
      BY <1>0, <2>1 DEF StreamOk, Kept
    <3>2. ~Over(S, 6 * n + 5)
      BY <1>0 DEF Over
    <3>3. PICK y \in S : Pos(y) = 6 * n + 5
      BY <3>1, <3>2 DEF There
    <3>4. y # x
      BY <1>0, <3>3
    <3> QED
      BY <3>3, <3>4 DEF There
  <2> QED
    BY <1>0, <1>4, <1>5, <2>1 DEF RunsOk
<1>6. CASE row < n
  <2>1. n \in drop
    <3>1. SUFFICES ASSUME n \notin drop PROVE FALSE
      OBVIOUS
    <3>2. There(S, 6 * n + 1)
      BY <1>0, <1>1, <1>6, <3>1 DEF StreamOk, Starts
    <3>3. PICK y \in S : Pos(y) = 6 * n + 1
      BY <3>2 DEF There
    <3>4. y \in T
      BY <1>0, <3>3
    <3> QED
      BY <1>0, <1>3, <3>3, <3>4
  <2> QED
    BY <1>0, <1>4, <2>1 DEF RunsOk
<1> QED
  BY <1>0, <1>2, <1>5, <1>6

\* The D of the running block is its own, or a mark between was dropped.
LEMMA EndsRunning ==
  ASSUME NEW S \in SUBSET Events, NEW next \in Int, NEW row \in Prompts,
         NEW drop \in SUBSET Prompts, NEW s \in Prompts, Near(S, next, row),
         RunsOk(S, next, row, drop, s), NEW x \in S, Over(S \ {x}, Pos(x)), x.mark = "D",
         x.prompt # s
  PROVE  \E n \in drop : n \in s..x.prompt
<1> DEFINE d == x.prompt
<1>0. row \in Nat /\ d \in Nat /\ s \in Nat /\ x \in Events /\ Pos(x) = 6 * d + 5
  BY PromptsAre, PosIs
<1>1. 6 * row + 1 < Pos(x) /\ Pos(x) < next
  BY DEF Near, Over
<1>2. row <= d
  BY <1>0, <1>1
<1>3. CASE Cross(S, next, drop, s)
  <2>1. PICK n \in drop : s <= n /\ 6 * n <= Pos(x)
    BY <1>3 DEF Cross
  <2>2. n \in Nat
    BY <2>1, PromptsAre
  <2>3. n \in s..d
    BY <1>0, <2>1, <2>2
  <2> QED
    BY <2>3
<1>4. CASE s = row /\ 6 * s + 5 >= next
  BY <1>0, <1>1, <1>2, <1>4
<1>5. CASE s = row /\ There(S, 6 * s + 5)
  <2>1. PICK y \in S : Pos(y) = 6 * s + 5
    BY <1>5 DEF There
  <2>2. y # x
    BY <1>0, <2>1
  <2>3. Pos(x) < Pos(y)
    BY <2>2 DEF Over
  <2> QED
    BY <1>0, <1>2, <1>5, <2>1, <2>3
<1> QED
  BY <1>3, <1>4, <1>5 DEF RunsOk

\* A D that starts its block too is of the row it starts at, or a B was dropped.
LEMMA EndsStarted ==
  ASSUME NEW S \in SUBSET Events, NEW next \in Int, NEW row \in Prompts,
         NEW drop \in SUBSET Prompts, NEW skip, StreamOk(S, next, row, drop, skip),
         NEW x \in S, Over(S \ {x}, Pos(x)), x.mark = "D", x.prompt # row
  PROVE  \E n \in drop : n \in row..x.prompt
<1> DEFINE d == x.prompt
<1>0. row \in Nat /\ d \in Nat /\ d \in Prompts /\ x \in Events /\ Pos(x) = 6 * d + 5
  BY PromptsAre, PosIs
<1>1. 6 * row + 1 < Pos(x) /\ Pos(x) < next
  BY DEF StreamOk, Near, Over
<1>2. row < d
  BY <1>0, <1>1
<1>3. d \in drop
  <2>1. SUFFICES ASSUME d \notin drop PROVE FALSE
    OBVIOUS
  <2>2. There(S, 6 * d + 1)
    BY <1>0, <1>1, <1>2, <2>1 DEF StreamOk, Starts
  <2>3. PICK y \in S : Pos(y) = 6 * d + 1
    BY <2>2 DEF There
  <2>4. Pos(x) < Pos(y)
    BY <1>0, <2>3 DEF Over
  <2> QED
    BY <1>0, <2>3, <2>4
<1>4. d \in row..d
  BY <1>0, <1>2
<1> QED
  BY <1>3, <1>4

\* A mark at the end of a queue.
LEMMA AppendedOrder ==
  ASSUME NEW s \in Seq(Events), Sorted(s), NEW e \in Events, \A x \in Range(s) : Pos(x) < Pos(e),
         NEW t, t = Append(s, e)
  PROVE  Sorted(t) /\ Range(t) = Range(s) \cup {e}
<1>1. /\ Len(s) \in Nat /\ Len(t) = Len(s) + 1 /\ t[Len(t)] = e
      /\ \A i \in 1..Len(s) : t[i] = s[i]
      /\ DOMAIN s = 1..Len(s) /\ DOMAIN t = 1..Len(t)
  BY Appended
<1>2. \A i \in 1..Len(s) : s[i] \in Range(s)
  BY <1>1 DEF Range
<1>3. Sorted(t)
  <2> SUFFICES ASSUME NEW i \in 1..Len(t), NEW j \in 1..Len(t), i < j PROVE Pos(t[i]) < Pos(t[j])
    BY <1>1 DEF Sorted
  <2>1. CASE j = Len(t)
    BY <1>1, <1>2, <2>1
  <2>2. CASE j # Len(t)
    <3>1. i \in 1..Len(s) /\ j \in 1..Len(s)
      BY <1>1, <2>2
    <3> QED
      BY <1>1, <3>1 DEF Sorted
  <2> QED
    BY <2>1, <2>2
<1>4. \A i \in 1..Len(t) : i \in 1..Len(s) \/ i = Len(t)
  BY <1>1
<1>5. Range(s) = {s[i] : i \in 1..Len(s)} /\ Range(t) = {t[i] : i \in 1..Len(t)}
  BY <1>1 DEF Range
<1>6. Range(t) \subseteq Range(s) \cup {e}
  BY <1>1, <1>4, <1>5
<1>7. Range(s) \cup {e} \subseteq Range(t)
  <2>1. e \in Range(t)
    BY <1>1, <1>5
  <2>2. \A i \in 1..Len(s) : i \in 1..Len(t)
    BY <1>1
  <2> QED
    BY <1>1, <1>5, <2>1, <2>2
<1> QED
  BY <1>3, <1>6, <1>7

\* The first mark of a queue leaves it.
LEMMA TailOrder ==
  ASSUME NEW s \in Seq(Events), s # <<>>, Sorted(s), NEW t, t = Tail(s)
  PROVE  /\ Sorted(t) /\ Range(t) = Range(s) \ {Head(s)} /\ Head(s) \in Range(s)
         /\ \A x \in Range(t) : Pos(Head(s)) < Pos(x)
<1>1. /\ t \in Seq(Events) /\ Len(s) \in Nat \ {0} /\ Len(t) = Len(s) - 1
      /\ Head(s) = s[1] /\ \A i \in 1..Len(t) : t[i] = s[i + 1]
      /\ DOMAIN s = 1..Len(s) /\ DOMAIN t = 1..Len(t)
  BY TailIs
<1>2. \A i \in 1..Len(t) : i + 1 \in 1..Len(s) /\ 1 < i + 1
  BY <1>1
<1>3. Range(s) = {s[i] : i \in 1..Len(s)} /\ Range(t) = {t[i] : i \in 1..Len(t)}
  BY <1>1 DEF Range
<1>4. 1 \in 1..Len(s)
  BY <1>1
<1>5. Sorted(t)
  <2> SUFFICES ASSUME NEW i \in 1..Len(t), NEW j \in 1..Len(t), i < j PROVE Pos(t[i]) < Pos(t[j])
    BY <1>1 DEF Sorted
  <2>1. i + 1 < j + 1
    OBVIOUS
  <2> QED
    BY <1>1, <1>2, <2>1 DEF Sorted
<1>6. \A x \in Range(t) : Pos(Head(s)) < Pos(x)
  BY <1>1, <1>2, <1>3, <1>4 DEF Sorted
<1>7. Head(s) \notin Range(t)
  <2>1. s[1] \in Events
    BY <1>4, <1>1
  <2>2. Pos(s[1]) \in Nat
    BY <2>1, PosIs
  <2> QED
    BY <1>1, <1>6, <2>2
<1>8. \A i \in 1..Len(s) : i = 1 \/ (i - 1 \in 1..Len(t) /\ i - 1 + 1 = i)
  BY <1>1
<1>9. Range(s) \ {Head(s)} \subseteq Range(t)
  BY <1>1, <1>3, <1>8
<1>10. Range(t) \subseteq Range(s) /\ Head(s) \in Range(s)
  BY <1>1, <1>2, <1>3, <1>4
<1> QED
  BY <1>5, <1>6, <1>7, <1>9, <1>10

Queues == QueueTyped(events) /\ QueueTyped(batch) /\ dropped \subseteq Prompts

\* What is on its way are marks.
LEMMA StreamEvents == ASSUME Queues PROVE Stream \in SUBSET Events
<1>1. events \in Seq(Events) /\ batch \in Seq(Events)
  BY DEF Queues, QueueTyped
<1>2. Range(events) \subseteq Events /\ Range(batch) \subseteq Events
  BY <1>1 DEF Range
<1> QED
  BY <1>2 DEF Stream

\* Terminal::write() adds a mark, perhaps at the cost of the oldest one.
LEMMA WriteStream ==
  ASSUME Queues, InOrder, NEW e \in Events, WriteEvent(e), \A x \in Stream : Pos(x) < Pos(e),
         batch' = batch
  PROVE  /\ InOrder'
         /\ \/ Stream' = Stream \cup {e} /\ dropped' = dropped
            \/ \E x \in Stream : /\ Stream' = (Stream \ {x}) \cup {e}
                                 /\ dropped \subseteq dropped'
                                 /\ x.mark # "link" => x.prompt \in dropped'
<1>0. events \in Seq(Events) /\ batch \in Seq(Events) /\ QueueCap \in Nat \ {0}
  BY CapsAssumption DEF Queues, QueueTyped
<1>1. /\ Sorted(events) /\ Sorted(batch)
      /\ \A x \in Range(events) : Pos(x) < Pos(e)
      /\ \A x \in Range(batch) : Pos(x) < Pos(e)
      /\ \A x \in Range(batch), y \in Range(events) : Pos(x) < Pos(y)
  BY DEF InOrder, Stream
<1>2. CASE Len(events) < QueueCap
  <2>1. events' = Append(events, e) /\ dropped' = dropped
    BY <1>2 DEF WriteEvent
  <2>2. Sorted(events') /\ Range(events') = Range(events) \cup {e}
    BY <1>0, <1>1, <2>1, AppendedOrder
  <2> QED
    BY <1>1, <2>1, <2>2 DEF InOrder, Stream
<1>3. CASE ~(Len(events) < QueueCap)
  <2> DEFINE x == Head(events)
             t == Tail(events)
  <2>1. /\ events' = Append(t, e)
        /\ dropped' = IF x.mark = "link" THEN dropped ELSE dropped \cup {x.prompt}
    BY <1>3 DEF WriteEvent
  <2>2. events # <<>>
    BY <1>0, <1>3
  <2>3. t \in Seq(Events)
    BY <1>0, <2>2, TailIs
  <2>4. Sorted(t) /\ Range(t) = Range(events) \ {x} /\ x \in Range(events)
    BY <1>0, <1>1, <2>2, TailOrder
  <2>5. \A y \in Range(t) : Pos(y) < Pos(e)
    BY <1>1, <2>4
  <2> HIDE DEF t, x
  <2>6. Sorted(events') /\ Range(events') = Range(t) \cup {e}
    BY <2>1, <2>3, <2>4, <2>5, AppendedOrder
  <2>7. InOrder'
    BY <1>1, <2>4, <2>6 DEF InOrder
  <2>8. x \notin Range(batch)
    <3>1. x \in Events
      BY <1>0, <2>4 DEF Range
    <3>2. Pos(x) \in Nat
      BY <3>1, PosIs
    <3> QED
      BY <1>1, <2>4, <3>2
  <2>9. Stream' = (Stream \ {x}) \cup {e} /\ x \in Stream
    BY <2>4, <2>6, <2>8 DEF Stream
  <2>10. dropped \subseteq dropped' /\ (x.mark # "link" => x.prompt \in dropped')
    BY <2>1
  <2> QED
    BY <2>7, <2>9, <2>10
<1> QED
  BY <1>2, <1>3

\* The frame takes the first mark it has drained.
LEMMA HandledOrder ==
  ASSUME Queues, InOrder, NEW mark, Handling(mark), NEW x, x = Head(batch)
  PROVE  /\ InOrder' /\ Stream' = Stream \ {x} /\ x \in Stream /\ Over(Stream \ {x}, Pos(x))
         /\ x.mark = mark /\ x \in Events
<1>0. /\ batch \in Seq(Events) /\ batch # <<>> /\ batch' = Tail(batch) /\ events' = events
      /\ x.mark = mark
  BY DEF Queues, QueueTyped, Handling
<1>1. /\ Sorted(events) /\ Sorted(batch)
      /\ \A b \in Range(batch), y \in Range(events) : Pos(b) < Pos(y)
  BY DEF InOrder
<1>2. /\ Sorted(batch') /\ Range(batch') = Range(batch) \ {x} /\ x \in Range(batch)
      /\ \A b \in Range(batch') : Pos(x) < Pos(b)
  BY <1>0, <1>1, TailOrder
<1>3. x \in Events /\ Pos(x) \in Nat
  <2>1. x \in Events
    BY <1>0, <1>2 DEF Range
  <2> QED
    BY <2>1, PosIs
<1>4. InOrder'
  BY <1>0, <1>1, <1>2 DEF InOrder
<1>5. x \notin Range(events)
  BY <1>1, <1>2, <1>3
<1>6. Stream' = Stream \ {x} /\ x \in Stream
  BY <1>0, <1>2, <1>5 DEF Stream
<1>7. Over(Stream \ {x}, Pos(x))
  BY <1>1, <1>2 DEF Stream, Over
<1> QED
  BY <1>0, <1>3, <1>4, <1>6, <1>7

\* A frame that takes the queue keeps the order.
LEMMA DrainedOrder ==
  ASSUME InOrder, Drain PROVE InOrder' /\ Stream' = Stream
<1>1. batch = <<>> /\ batch' = events /\ events' = <<>>
  BY DEF Drain
<1>2. Range(<<>>) = {} /\ Sorted(<<>>)
  BY DEF Range, Sorted
<1> QED
  BY <1>1, <1>2 DEF InOrder, Stream

-----------------------------------------------------------------------------
(* The stream and the running block, step by step.                          *)

Runs == Running(blocks) => RunsOk(Stream, NextPos, line.row, dropped, Last(blocks).start)

Streams == InOrder /\ StreamOk(Stream, NextPos, line.row, dropped, Skip)

\* The place of what the shell writes next, by what it is doing.
LEMMA NextPosIs ==
  ASSUME Typed
  PROVE  /\ NextPos \in Int /\ shell.prompt \in Nat /\ shell.prompt \in Prompts
         /\ shell.prompt - 1 \in Prompts
         /\ shell.at = "D" => NextPos = 6 * (shell.prompt - 1) + 5
         /\ shell.at = "A" => NextPos = 6 * shell.prompt
         /\ shell.at = "B" => NextPos = 6 * shell.prompt + 1
         /\ shell.at = "prompt" => NextPos = 6 * shell.prompt + 2
         /\ shell.at = "more" => NextPos = 6 * shell.prompt + 3
         /\ shell.at = "run" => NextPos = 6 * shell.prompt + 4
<1>1. /\ shell.prompt \in Nat /\ shell.prompt \in Prompts /\ shell.prompt - 1 \in Prompts
  BY ShellIs DEF Typed
<1>2. shell.at = "D" => NextPos = 6 * (shell.prompt - 1) + 5
  BY <1>1 DEF NextPos
<1>3. shell.at = "A" => NextPos = 6 * shell.prompt
  BY <1>1 DEF NextPos
<1>4. shell.at = "B" => NextPos = 6 * shell.prompt + 1
  BY <1>1 DEF NextPos
<1>5. shell.at = "prompt" => NextPos = 6 * shell.prompt + 2
  BY <1>1 DEF NextPos
<1>6. shell.at = "run" => NextPos = 6 * shell.prompt + 4
  BY <1>1 DEF NextPos
<1>8. shell.at = "more" => NextPos = 6 * shell.prompt + 3
  BY <1>1 DEF NextPos
<1>7. NextPos \in Int
  BY <1>1 DEF NextPos
<1> QED
  BY <1>1, <1>2, <1>3, <1>4, <1>5, <1>6, <1>7, <1>8

\* A step of the shell that writes a mark.
LEMMA WritesStream ==
  ASSUME Typed, Streams, Runs, NEW e \in Events, WriteEvent(e), Pos(e) = NextPos,
         NextPos' \in Int, Passed(NextPos + 1, NextPos', Skip'), Skip \subseteq Skip',
         UNCHANGED <<batch, line, blocks>>
  PROVE  Streams' /\ Runs'
<1> DEFINE S == Stream
           next == NextPos
           row == line.row
           skip == Skip
           s == Last(blocks).start
<1>0. Queues /\ S \in SUBSET Events /\ next \in Int /\ row \in Prompts /\ dropped \in SUBSET Prompts
  BY StreamEvents, NextPosIs, LineIs DEF Typed, Queues
<1>1. InOrder /\ StreamOk(S, next, row, dropped, skip)
  BY DEF Streams
<1>2. \A x \in S : Pos(x) < Pos(e)
  BY <1>1 DEF StreamOk, Near
<1>3. /\ InOrder'
      /\ \/ Stream' = S \cup {e} /\ dropped' = dropped
         \/ \E x \in S : /\ Stream' = (S \ {x}) \cup {e}
                         /\ dropped \subseteq dropped'
                         /\ x.mark # "link" => x.prompt \in dropped'
  BY <1>0, <1>1, <1>2, WriteStream
<1>4. Running(blocks) => s \in Prompts
  <2> SUFFICES ASSUME Running(blocks) PROVE s \in Prompts
    OBVIOUS
  <2>1. blocks \in Seq(Blocks) /\ blocks # <<>>
    BY DEF Typed, BlocksTyped, Running
  <2>2. Last(blocks) \in Blocks
    BY <2>1, FrontIs
  <2> QED
    BY <2>2, Zenon DEF Blocks
<1>5. dropped' \in SUBSET Prompts
  <2>1. QueueTyped(events) /\ dropped \subseteq Prompts
    BY DEF Typed
  <2> QED
    BY <2>1, WriteTyped
<1>6. Running(blocks)' = Running(blocks) /\ (Last(blocks).start)' = s
  BY DEF Running
<1> HIDE DEF S, next, row, skip, s
<1>7. StreamOk(Stream', next + 1, row, dropped', skip)
      /\ (Running(blocks) => RunsOk(Stream', next + 1, row, dropped', s))
  <2>1. CASE Stream' = S \cup {e} /\ dropped' = dropped
    <3>1. StreamOk(S \cup {e}, next + 1, row, dropped, skip)
      BY <1>0, <1>1, WroteStream DEF next
    <3>2. Running(blocks) => RunsOk(S \cup {e}, next + 1, row, dropped, s)
      BY <1>0, <1>4, WroteRuns DEF next, Runs, S, row, s
    <3> QED
      BY <2>1, <3>1, <3>2
  <2>2. CASE \E x \in S : /\ Stream' = (S \ {x}) \cup {e}
                          /\ dropped \subseteq dropped'
                          /\ x.mark # "link" => x.prompt \in dropped'
    <3>1. PICK x \in S : /\ Stream' = (S \ {x}) \cup {e}
                         /\ dropped \subseteq dropped'
                         /\ x.mark # "link" => x.prompt \in dropped'
      BY <2>2
    <3> DEFINE T == S \ {x}
    <3>2. T \in SUBSET Events
      BY <1>0
    <3>3. StreamOk(T, next, row, dropped', skip)
      BY <1>0, <1>1, <3>1, DroppedStream
    <3>4. Running(blocks) => RunsOk(T, next, row, dropped', s)
      BY <1>0, <1>1, <1>4, <3>1, DroppedRuns DEF StreamOk, next, Runs, S, row, s
    <3>5. StreamOk(T \cup {e}, next + 1, row, dropped', skip)
      BY <1>0, <3>2, <3>3, WroteStream DEF next
    <3>6. Running(blocks) => RunsOk(T \cup {e}, next + 1, row, dropped', s)
      BY <1>0, <1>4, <1>5, <3>4, WroteRuns DEF next
    <3> QED
      BY <3>1, <3>5, <3>6
  <2> QED
    BY <1>3, <2>1, <2>2
<1>8. PICK later, new, T, drop : /\ later = NextPos' /\ new = Skip' /\ T = Stream' /\ drop = dropped'
                                 /\ later \in Int /\ skip \subseteq new /\ Passed(next + 1, later, new)
  BY DEF next, skip
<1>9. T \in SUBSET Events /\ drop \in SUBSET Prompts /\ next + 1 \in Int
  BY <1>0, <1>3, <1>5, <1>8
<1>10. StreamOk(T, next + 1, row, drop, skip) /\ (Running(blocks) => RunsOk(T, next + 1, row, drop, s))
  BY <1>7, <1>8
<1>11. StreamOk(T, later, row, drop, new)
  BY <1>0, <1>8, <1>9, <1>10, WentOnStream
<1>12. Running(blocks) => RunsOk(T, later, row, drop, s)
  BY <1>0, <1>4, <1>8, <1>9, <1>10, WentOnRuns
<1>13. line'.row = row
  BY DEF row
<1> QED
  BY <1>3, <1>6, <1>8, <1>11, <1>12, <1>13 DEF Streams, Runs

\* A step of the shell that writes none.
LEMMA WritesNone ==
  ASSUME Typed, Streams, Runs, UNCHANGED <<events, batch, dropped, line, blocks>>,
         NextPos' \in Int, Passed(NextPos, NextPos', Skip'), Skip \subseteq Skip'
  PROVE  Streams' /\ Runs'
<1> DEFINE S == Stream
           next == NextPos
           row == line.row
           s == Last(blocks).start
<1>0. Queues /\ S \in SUBSET Events /\ next \in Int /\ row \in Prompts /\ dropped \in SUBSET Prompts
  BY StreamEvents, NextPosIs, LineIs DEF Typed, Queues
<1>1. PICK later, new, skip : /\ later = NextPos' /\ new = Skip' /\ skip = Skip
                              /\ later \in Int /\ skip \subseteq new /\ Passed(next, later, new)
  OBVIOUS
<1>2. InOrder /\ StreamOk(S, next, row, dropped, skip)
  BY <1>1 DEF Streams
<1>3. Running(blocks) => s \in Prompts /\ RunsOk(S, next, row, dropped, s)
  <2> SUFFICES ASSUME Running(blocks) PROVE s \in Prompts
    BY DEF Runs
  <2>1. blocks \in Seq(Blocks) /\ blocks # <<>>
    BY DEF Typed, BlocksTyped, Running
  <2>2. Last(blocks) \in Blocks
    BY <2>1, FrontIs
  <2> QED
    BY <2>2, Zenon DEF Blocks
<1>4. Running(blocks)' = Running(blocks) /\ (Last(blocks).start)' = s /\ Stream' = S
      /\ (InOrder <=> InOrder') /\ line'.row = row /\ dropped' = dropped
  BY DEF Running, Stream, InOrder
<1> HIDE DEF S, next, row, s
<1>5. StreamOk(S, later, row, dropped, new)
  BY <1>0, <1>1, <1>2, WentOnStream
<1>6. Running(blocks) => RunsOk(S, later, row, dropped, s)
  BY <1>0, <1>1, <1>3, WentOnRuns
<1> QED
  BY <1>1, <1>2, <1>4, <1>5, <1>6 DEF Streams, Runs

-----------------------------------------------------------------------------
(* What the start and the end of a command do to the list.                  *)

\* The list of blocks with the last one ended.
Ends(list, e) ==
  LET block == Finished(Last(list), e)
  IN /\ blocks' = Append(Front(list), block)
     /\ history' = IF block.command = <<>> THEN history
                   ELSE Append(history, [id |-> block.id, command |-> block.command,
                                         state |-> block.state])

\* The last element of a sequence is one of them.
LEMMA LastIs ==
  ASSUME NEW S, NEW s \in Seq(S), s # <<>>
  PROVE  Last(s) = s[Len(s)] /\ Last(s) \in S /\ Len(s) \in Nat \ {0}
BY FrontIs

\* A sequence without the element appended last is the one it was appended
\* to.
LEMMA FrontOf ==
  ASSUME NEW S, NEW t \in Seq(S), t # <<>>, NEW list \in Seq(S), Len(t) = Len(list) + 1,
         \A i \in 1..Len(list) : t[i] = list[i]
  PROVE  Front(t) = list
<1>1. PICK f : f = Front(t)
  OBVIOUS
<1>2. f \in Seq(S) /\ Len(f) = Len(t) - 1 /\ \A i \in 1..Len(f) : f[i] = t[i]
  BY <1>1, FrontIs
<1>3. Len(list) \in Nat
  OBVIOUS
<1>4. Len(f) = Len(list) /\ \A i \in 1..Len(f) : f[i] = list[i]
  BY <1>2, <1>3
<1>5. f = list
  BY <1>2, <1>4
<1> QED
  BY <1>1, <1>5

\* A list runs when the block appended last does.
LEMMA LastRuns ==
  ASSUME NEW S, NEW list \in Seq(S), NEW b \in S, NEW t, t = Append(list, b)
  PROVE  t # <<>> /\ Last(t) = b /\ (Running(t) <=> b.state = "Running") /\ Front(t) = list
<1>1. t \in Seq(S) /\ Len(list) \in Nat /\ Len(t) = Len(list) + 1 /\ t[Len(t)] = b
      /\ \A i \in 1..Len(list) : t[i] = list[i]
  BY Appended
<1>2. t # <<>>
  BY <1>1
<1>3. Last(t) = b
  BY <1>1, <1>2, LastIs
<1>4. Front(t) = list
  BY <1>1, <1>2, FrontOf
<1> QED
  BY <1>2, <1>3, <1>4 DEF Running

\* startBlock() adds the new block to what it keeps.
LEMMA StartBlockIn ==
  ASSUME NEW S, blocks \in Seq(S), NewBlock \in S, BlockCap \in Nat \ {0}
  PROVE  /\ StartBlock.list \in Seq(S)
         /\ Running(blocks) => StartBlock.list = blocks
         /\ ~Running(blocks) => StartBlock.list # <<>> /\ Last(StartBlock.list) = NewBlock
                                /\ Running(StartBlock.list)
<1> DEFINE long == Append(blocks, NewBlock)
<1>1. long \in Seq(S) /\ Len(long) \in Nat \ {0} /\ Len(long) = Len(blocks) + 1 /\ Len(blocks) \in Nat
      /\ long # <<>> /\ Last(long) = NewBlock
  <2> HIDE DEF NewBlock
  <2>1. blocks \in Seq(S) /\ NewBlock \in S
    OBVIOUS
  <2>2. long \in Seq(S) /\ Len(blocks) \in Nat /\ Len(long) = Len(blocks) + 1
    BY <2>1, Appended
  <2>3. long # <<>> /\ Last(long) = NewBlock
    BY <2>1, LastRuns
  <2> QED
    BY <2>2, <2>3
<1>2. CASE Running(blocks)
  BY <1>2, StartBlockIs
<1>3. CASE ~Running(blocks)
  <2>1. StartBlock.list = IF Len(long) > BlockCap THEN Tail(long) ELSE long
    BY <1>3, StartBlockIs
  <2>2. NewBlock.state = "Running"
    BY DEF NewBlock
  <2> HIDE DEF long
  <2>3. CASE Len(long) > BlockCap
    <3> DEFINE t == Tail(long)
    <3>1. t \in Seq(S) /\ Len(t) = Len(long) - 1 /\ \A i \in 1..Len(t) : t[i] = long[i + 1]
      BY <1>1, TailIs
    <3>2. Len(t) \in Nat \ {0} /\ t # <<>>
      <4> HIDE DEF t
      <4>1. Len(t) \in Nat \ {0}
        BY <1>1, <2>3, <3>1
      <4> QED
        BY <3>1, <4>1
    <3>3. t[Len(t)] = long[Len(long)]
      BY <1>1, <3>1, <3>2
    <3> HIDE DEF t
    <3>4. Last(t) = t[Len(t)] /\ Last(long) = long[Len(long)]
      BY <1>1, <3>1, <3>2, LastIs
    <3> QED
      BY <1>1, <1>3, <2>1, <2>2, <2>3, <3>1, <3>2, <3>3, <3>4 DEF Running, t
  <2>4. CASE ~(Len(long) > BlockCap)
    BY <1>1, <1>3, <2>1, <2>2, <2>4 DEF Running
  <2> QED
    BY <2>3, <2>4
<1> QED
  BY <1>2, <1>3

\* A D ends the running block, or one it has started first, or does nothing.
LEMMA CommandEndCases ==
  ASSUME Typed, CommandEnd, NEW e, e = Head(batch)
  PROVE  \/ /\ Running(blocks) /\ Ends(blocks, e)
            /\ nextId' = nextId /\ buffer' = buffer /\ line' = line
         \/ /\ ~Running(blocks) /\ line.input # <<>> /\ Ends(StartBlock.list, e)
            /\ nextId' = nextId + 1 /\ buffer' = StartBlock.buffer
            /\ line' = [line EXCEPT !.input = <<>>, !.entered = FALSE]
         \/ /\ ~Running(blocks) /\ line.input = <<>>
            /\ UNCHANGED <<blocks, history, nextId, buffer, line>>
<1> DEFINE b == IF line.input # <<>> THEN StartBlock
                ELSE [list |-> blocks, buffer |-> buffer, nextId |-> nextId, input |-> <<>>]
           block == Finished(Last(b.list), Head(batch))
           n == [b EXCEPT !.list = Append(Front(@), block)]
<1>0. /\ line \in Lines /\ line.entered \in BOOLEAN /\ nextId \in Nat /\ BlockCap \in Nat \ {0}
      /\ blocks \in Seq(Blocks) /\ NewBlock \in Blocks
  BY CapsAssumption, LineIs, NewBlockTyped DEF Typed, LineTyped, BlocksTyped
<1>1. /\ Running(b.list) => Started(n, line.atPrompt)
      /\ Running(b.list) => history' = IF block.command = <<>> THEN history
                             ELSE Append(history, [id |-> block.id, command |-> block.command,
                                                   state |-> block.state])
      /\ ~Running(b.list) => Started(b, line.atPrompt) /\ history' = history
  BY DEF CommandEnd
<1>2. /\ n.list = Append(Front(b.list), block) /\ n.buffer = b.buffer /\ n.nextId = b.nextId
      /\ n.input = b.input
  BY DEF StartBlock
<1>3. CASE Running(blocks)
  <2>1. b.list = blocks /\ b.buffer = buffer /\ b.nextId = nextId /\ b.input = line.input
    BY <1>3, StartBlockIs
  <2> HIDE DEF b
  <2>2. Started(n, line.atPrompt)
    BY <1>1, <1>3, <2>1
  <2>3. /\ n.list = Append(Front(blocks), block) /\ n.buffer = buffer /\ n.nextId = nextId
        /\ n.input = line.input
    BY <1>2, <2>1
  <2> HIDE DEF n
  <2>4. /\ blocks' = Append(Front(blocks), block) /\ nextId' = nextId /\ buffer' = buffer
        /\ line' = [line EXCEPT !.atPrompt = line.atPrompt, !.input = line.input,
                                !.entered = line.entered /\ n.nextId = nextId]
    BY <2>2, <2>3 DEF Started
  <2>5. (line.entered /\ n.nextId = nextId) = line.entered
    BY <1>0, <2>3
  <2>6. line' = line
    BY <1>0, <2>4, <2>5 DEF Lines
  <2>7. Ends(blocks, e)
    BY <1>1, <1>3, <2>1, <2>4 DEF Ends
  <2> QED
    BY <1>3, <2>4, <2>6, <2>7
<1>4. CASE ~Running(blocks) /\ line.input # <<>>
  <2>1. b = StartBlock
    BY <1>4
  <2>2. /\ Running(b.list) /\ b.nextId = nextId + 1 /\ b.input = <<>>
    BY <1>0, <1>4, <2>1, StartBlockIs, StartBlockIn
  <2> HIDE DEF b
  <2>3. Started(n, line.atPrompt)
    BY <1>1, <2>2
  <2>4. /\ n.list = Append(Front(b.list), block) /\ n.buffer = StartBlock.buffer
        /\ n.nextId = nextId + 1 /\ n.input = <<>>
    BY <1>2, <2>1, <2>2
  <2> HIDE DEF n
  <2>5. /\ blocks' = Append(Front(b.list), block) /\ nextId' = nextId + 1
        /\ buffer' = StartBlock.buffer
        /\ line' = [line EXCEPT !.atPrompt = line.atPrompt, !.input = <<>>,
                                !.entered = line.entered /\ n.nextId = nextId]
    BY <2>3, <2>4 DEF Started
  <2>6. (line.entered /\ n.nextId = nextId) = FALSE
    BY <1>0, <2>4
  <2>7. line' = [line EXCEPT !.input = <<>>, !.entered = FALSE]
    BY <1>0, <2>5, <2>6 DEF Lines
  <2>8. Ends(b.list, e)
    BY <1>1, <2>2, <2>5 DEF Ends
  <2> QED
    BY <1>4, <2>1, <2>5, <2>7, <2>8
<1>5. CASE ~Running(blocks) /\ line.input = <<>>
  <2>1. b.list = blocks /\ b.buffer = buffer /\ b.nextId = nextId /\ b.input = <<>>
    BY <1>5
  <2> HIDE DEF b
  <2>2. Started(b, line.atPrompt) /\ history' = history
    BY <1>1, <1>5, <2>1
  <2>3. /\ blocks' = blocks /\ nextId' = nextId /\ buffer' = buffer
        /\ line' = [line EXCEPT !.atPrompt = line.atPrompt, !.input = line.input,
                                !.entered = line.entered /\ b.nextId = nextId]
    BY <1>5, <2>1, <2>2 DEF Started
  <2>4. (line.entered /\ b.nextId = nextId) = line.entered
    BY <1>0, <2>1
  <2>5. line' = line
    BY <1>0, <2>3, <2>4 DEF Lines
  <2> QED
    BY <1>5, <2>2, <2>3, <2>5
<1> QED
  BY <1>3, <1>4, <1>5

\* A bookmark changes nothing else of the last block.
LEMMA BookmarkIs ==
  ASSUME Typed, ToggleBookmark
  PROVE  /\ blocks # <<>> /\ blocks' \in Seq(Blocks) /\ Len(blocks') = Len(blocks)
         /\ \A i \in 1..Len(blocks) :
              /\ blocks'[i].id = blocks[i].id /\ blocks'[i].command = blocks[i].command
              /\ blocks'[i].state = blocks[i].state /\ blocks'[i].start = blocks[i].start
              /\ blocks'[i].end = blocks[i].end
         /\ Running(blocks)' = Running(blocks) /\ (Last(blocks).start)' = Last(blocks).start
<1> DEFINE n == Len(blocks)
           b == [blocks[n] EXCEPT !.bookmarked = ~blocks[n].bookmarked]
           T == Seq({Letter, Wide})
<1>1. /\ blocks' = [blocks EXCEPT ![n] = b] /\ menu # Closed /\ blocks \in Seq(Blocks)
  BY DEF ToggleBookmark, Typed, BlocksTyped
<1>2. n \in Nat \ {0} /\ n \in 1..n /\ blocks # <<>>
  BY <1>1 DEF Typed
<1>3. Blocks = [id : Nat \ {0}, command : T, state : {"Running", "Succeeded", "Failed"},
                start : Prompts, end : Prompts, bookmarked : BOOLEAN]
  BY DEF Blocks
<1>4. blocks[n] \in Blocks
  BY <1>1, <1>2
<1>5. /\ b \in Blocks /\ b.id = blocks[n].id /\ b.command = blocks[n].command
      /\ b.state = blocks[n].state /\ b.start = blocks[n].start /\ b.end = blocks[n].end
  <2> HIDE DEF T
  <2> QED
    BY <1>3, <1>4
<1> HIDE DEF b
<1>6. blocks' \in Seq(Blocks) /\ Len(blocks') = n /\ blocks'[n] = b
      /\ \A i \in 1..n : i # n => blocks'[i] = blocks[i]
  BY <1>1, <1>2, <1>5
<1>7. blocks' # <<>>
  BY <1>2, <1>6
<1>8. Last(blocks') = b /\ Last(blocks) = blocks[n]
  BY <1>1, <1>2, <1>6, <1>7, FrontIs
<1> QED
  BY <1>2, <1>5, <1>6, <1>7, <1>8 DEF Running

-----------------------------------------------------------------------------
(* A block ends with the D of its own prompt.                               *)

Good(drop) ==
  {b \in Blocks : b.state # "Running" /\ b.end # b.start => \E n \in drop : n \in b.start..b.end}

PairInv == Streams /\ Runs /\ blocks \in Seq(Good(dropped))

\* Blocks that each pair with their marks are paired.
LEMMA GoodPairs == ASSUME blocks \in Seq(Good(dropped)) PROVE BlocksPair
<1> SUFFICES ASSUME NEW i \in DOMAIN blocks, blocks[i].state # "Running", blocks[i].end # blocks[i].start
             PROVE  \E n \in dropped : n \in blocks[i].start..blocks[i].end
  BY DEF BlocksPair
<1>1. blocks[i] \in Good(dropped)
  OBVIOUS
<1> QED
  BY <1>1 DEF Good

\* What one dropped mark excuses, more do.
LEMMA GoodMore ==
  ASSUME NEW old, NEW new, old \subseteq new, NEW s \in Seq(Good(old)) PROVE s \in Seq(Good(new))
<1>1. Good(old) \subseteq Good(new)
  BY DEF Good
<1> QED
  BY <1>1

\* What a block has.
LEMMA BlockIs ==
  ASSUME NEW b \in Blocks
  PROVE  b.start \in Prompts /\ b.end \in Prompts /\ b.id \in Nat
BY Zenon DEF Blocks

\* A finished block has the status and the end, and what it had before.
LEMMA FinishedIs ==
  ASSUME NEW b \in Blocks, NEW e \in Events, NEW f, f = Finished(b, e)
  PROVE  /\ f \in Blocks /\ f.id = b.id /\ f.command = b.command /\ f.start = b.start
         /\ f.end = e.prompt /\ f.state # "Running"
<1> DEFINE T == Seq({Letter, Wide})
<1>1. Blocks = [id : Nat \ {0}, command : T,
           state : {"Running", "Succeeded", "Failed"}, start : Prompts,
           end : Prompts, bookmarked : BOOLEAN]
  BY DEF Blocks
<1>2. f = [b EXCEPT !.state = IF e.ok THEN "Succeeded" ELSE "Failed", !.end = e.prompt]
  BY DEF Finished
<1>3. f \in Blocks
  BY FinishedTyped
<1> HIDE DEF T
<1> QED
  BY <1>1, <1>2, <1>3

\* A new block runs the captured line from the prompt's row.
LEMMA NewBlockIs ==
  NewBlock.id = nextId /\ NewBlock.start = line.row /\ NewBlock.state = "Running"
  /\ NewBlock.command = Decoded(line.input)
BY DEF NewBlock

\* The list with its last block ended.
LEMMA EndsIn ==
  ASSUME NEW S, NEW list \in Seq(S), list # <<>>, NEW e, Ends(list, e),
         Finished(Last(list), e) \in S
  PROVE  /\ blocks' \in Seq(S) /\ blocks' # <<>> /\ Last(blocks') = Finished(Last(list), e)
         /\ Front(blocks') = Front(list) /\ Len(blocks') = Len(list)
<1>1. PICK b : b = Finished(Last(list), e) /\ b \in S /\ blocks' = Append(Front(list), b)
  BY DEF Ends
<1>2. Front(list) \in Seq(S) /\ Len(Front(list)) = Len(list) - 1 /\ Len(list) \in Nat \ {0}
  BY FrontIs
<1>3. PICK f : f = Front(list)
  OBVIOUS
<1>4. f \in Seq(S) /\ Len(f) + 1 = Len(list) /\ blocks' = Append(f, b)
  BY <1>1, <1>2, <1>3
<1>5. blocks' \in Seq(S) /\ Len(blocks') = Len(f) + 1
  BY <1>1, <1>4, Appended
<1>6. blocks' # <<>> /\ Last(blocks') = b /\ Front(blocks') = f
  BY <1>1, <1>4, LastRuns
<1> QED
  BY <1>1, <1>3, <1>4, <1>5, <1>6

\* From one place to the next, over a place of no mark the session waits for.
LEMMA PassedIs ==
  ASSUME NEW next \in Int, NEW skip
  PROVE  /\ Passed(next, next, skip)
         /\ \A n \in Prompts : /\ Passed(6 * n + 3, 6 * n + 4, skip)
                               /\ Passed(6 * n + 4, 6 * n + 5, skip)
                               /\ n \in skip => /\ Passed(6 * n + 2, 6 * n + 3, skip)
                                              /\ Passed(6 * n + 2, 6 * n + 4, skip)
<1>1. \A n \in Prompts : n \in Nat
  BY PromptsAre
<1> QED
  BY <1>1 DEF Passed

\* A step of the shell writes the next mark, or passes places where it writes none,
\* or stays where it is.
LEMMA ShellMarks ==
  ASSUME Typed, ShellStep
  PROVE  /\ UNCHANGED <<batch, line, blocks, misled>> /\ shell'.marksStart = shell.marksStart
         /\ missed \subseteq missed' /\ Skip \subseteq Skip' /\ NextPos' \in Int
         /\ \/ \E e \in Events :
                 /\ WriteEvent(e) /\ Pos(e) = NextPos /\ Passed(NextPos + 1, NextPos', Skip')
                 /\ e.mark = "C" => shell.marksStart /\ e.prompt # 0
                 /\ e.mark = "C" /\ ~e.ok => shell.at = "more" /\ e.prompt = shell.prompt
            \/ UNCHANGED <<events, dropped>> /\ Passed(NextPos, NextPos', Skip')
<1> DEFINE Writes(e) ==
             /\ WriteEvent(e) /\ Pos(e) = NextPos /\ Passed(NextPos + 1, NextPos', Skip')
             /\ e.mark = "C" => shell.marksStart /\ e.prompt # 0
             /\ e.mark = "C" /\ ~e.ok => shell.at = "more" /\ e.prompt = shell.prompt
           Goes == UNCHANGED <<events, dropped>> /\ Passed(NextPos, NextPos', Skip')
           Goal == /\ shell'.marksStart = shell.marksStart /\ NextPos' \in Int
                   /\ (\E e \in Events : Writes(e)) \/ Goes
           p == shell.prompt
<1>0. /\ p \in Nat \ {0} /\ p \in Prompts /\ p - 1 \in Prompts /\ shell \in Shells
      /\ NextPos \in Int
  BY ShellIs, NextPosIs DEF Typed, ShellTyped
<1>1. /\ UNCHANGED <<batch, line, blocks, misled>> /\ missed \subseteq missed'
      /\ ContinueLine \/ GiveUpLine => p \in missed'
  BY DEF ShellStep, WritePrompt, ReadKey, AcceptLine, ContinueLine, GiveUpLine, TakeReturn,
         RunCommand, blockVars, ghosts
<1>2. \A m \in {"A", "B", "C", "link"}, ok \in BOOLEAN :
        Mark(m, ok) \in Events /\ Mark(m, ok).mark = m /\ Mark(m, ok).prompt = p
        /\ Mark(m, ok).ok = ok
  BY <1>0 DEF Mark, Events, Marks
<1>3. \A ok \in BOOLEAN : [mark |-> "D", prompt |-> p - 1, ok |-> ok] \in Events
  BY <1>0 DEF Events, Marks
<1>4. /\ \A q \in Int : Passed(q, q, Skip')
      /\ Passed(6 * p + 3, 6 * p + 4, Skip') /\ Passed(6 * p + 4, 6 * p + 5, Skip')
      /\ p \in Skip' => /\ Passed(6 * p + 2, 6 * p + 3, Skip')
                        /\ Passed(6 * p + 2, 6 * p + 4, Skip')
  BY <1>0, PassedIs
<1> HIDE DEF p
<1>5. Goal
  <2>1. CASE WritePrompt
    <3>1. CASE shell.at = "D"
      <4>1. PICK ok \in BOOLEAN : WriteEvent([mark |-> "D", prompt |-> p - 1, ok |-> ok])
        BY <2>1, <3>1 DEF WritePrompt, p
      <4>2. PICK e : e = [mark |-> "D", prompt |-> p - 1, ok |-> ok]
        OBVIOUS
      <4>3. shell' = [shell EXCEPT !.at = "A"]
        BY <2>1, <3>1 DEF WritePrompt
      <4>4. shell'.at = "A" /\ shell'.prompt = p /\ shell'.marksStart = shell.marksStart
        BY <1>0, <4>3 DEF Shells, p
      <4>5. NextPos = 6 * (p - 1) + 5 /\ NextPos' = 6 * p
        BY <1>0, <3>1, <4>4 DEF NextPos, p
      <4>6. e \in Events /\ e.mark = "D" /\ e.prompt = p - 1 /\ WriteEvent(e)
        BY <1>3, <4>1, <4>2
      <4>7. Pos(e) = NextPos /\ NextPos' = NextPos + 1 /\ NextPos' \in Int
        BY <1>0, <4>5, <4>6, PosIs
      <4> QED
        BY <1>4, <4>4, <4>6, <4>7
    <3>2. CASE shell.at = "A"
      <4>1. PICK e : e = Mark("A", TRUE)
        OBVIOUS
      <4>2. shell' = [shell EXCEPT !.at = "B"] /\ WriteEvent(e)
        BY <2>1, <3>2, <4>1 DEF WritePrompt
      <4>3. shell'.at = "B" /\ shell'.prompt = p /\ shell'.marksStart = shell.marksStart
        BY <1>0, <4>2 DEF Shells, p
      <4>4. NextPos = 6 * p /\ NextPos' = 6 * p + 1
        BY <1>0, <3>2, <4>3 DEF NextPos, p
      <4>5. e \in Events /\ e.mark = "A" /\ e.prompt = p
        BY <1>2, <4>1
      <4>6. Pos(e) = NextPos /\ NextPos' = NextPos + 1 /\ NextPos' \in Int
        BY <1>0, <4>4, <4>5, PosIs
      <4> QED
        BY <1>4, <4>2, <4>3, <4>5, <4>6
    <3>3. CASE shell.at = "B"
      <4>1. PICK e : e = Mark("B", TRUE)
        OBVIOUS
      <4>2. shell' = [shell EXCEPT !.at = "prompt", !.line = <<>>] /\ WriteEvent(e)
        BY <2>1, <3>3, <4>1 DEF WritePrompt
      <4>3. shell'.at = "prompt" /\ shell'.prompt = p /\ shell'.marksStart = shell.marksStart
        BY <1>0, <4>2 DEF Shells, p
      <4>4. NextPos = 6 * p + 1 /\ NextPos' = 6 * p + 2
        BY <1>0, <3>3, <4>3 DEF NextPos, p
      <4>5. e \in Events /\ e.mark = "B" /\ e.prompt = p
        BY <1>2, <4>1
      <4>6. Pos(e) = NextPos /\ NextPos' = NextPos + 1 /\ NextPos' \in Int
        BY <1>0, <4>4, <4>5, PosIs
      <4> QED
        BY <1>4, <4>2, <4>3, <4>5, <4>6
    <3> QED
      BY <2>1, <3>1, <3>2, <3>3 DEF WritePrompt
  <2>2. CASE ReadKey
    <3>1. shell' = [shell EXCEPT !.line = Edited(@, Head(typed).key)] /\ UNCHANGED <<events, dropped>>
      BY <2>2 DEF ReadKey
    <3>2. shell'.at = shell.at /\ shell'.prompt = p /\ shell'.marksStart = shell.marksStart
      BY <1>0, <3>1 DEF Shells, p
    <3>3. NextPos' = NextPos
      BY <3>2 DEF NextPos, p
    <3> QED
      BY <1>0, <1>4, <3>1, <3>2, <3>3
  <2>3. CASE AcceptLine \/ ContinueLine
    <3>1. /\ shell.at = "prompt" \/ (shell.at = "more" /\ AcceptLine)
          /\ \/ AcceptLine /\ shell' = [shell EXCEPT !.at = "run"]
             \/ ContinueLine /\ shell' = [shell EXCEPT !.at = "more", !.line = Append(@, Return)]
          /\ IF shell.marksStart THEN WriteEvent(Mark("C", shell.at = "prompt"))
                                 ELSE UNCHANGED <<events, dropped>>
      BY <2>3 DEF AcceptLine, ContinueLine, TakeReturn
    <3>2. /\ shell'.prompt = p /\ shell'.marksStart = shell.marksStart
          /\ shell'.at = "run" \/ (shell'.at = "more" /\ ContinueLine)
      BY <1>0, <3>1 DEF Shells, p
    <3>3. /\ shell.at = "prompt" => NextPos = 6 * p + 2
          /\ shell.at = "more" => NextPos = 6 * p + 3
          /\ shell'.at = "more" => NextPos' = 6 * p + 3
          /\ shell'.at = "run" => NextPos' = 6 * p + 4
      BY <1>0, <3>2 DEF NextPos, p
    <3>4. \/ shell.at = "prompt" /\ NextPos = 6 * p + 2 /\ NextPos' \in {6 * p + 3, 6 * p + 4}
          \/ shell.at = "more" /\ NextPos = 6 * p + 3 /\ NextPos' \in {6 * p + 3, 6 * p + 4}
      BY <3>1, <3>2, <3>3
    <3>5. NextPos' \in Int /\ Passed(6 * p + 3, NextPos', Skip')
      BY <1>0, <1>4, <3>4
    <3>6. CASE shell.marksStart
      <4>1. PICK b, e : b \in BOOLEAN /\ b = (shell.at = "prompt") /\ e = Mark("C", b)
        OBVIOUS
      <4>2. e \in Events /\ e.mark = "C" /\ e.prompt = p /\ e.ok = b
        BY <1>2, <4>1
      <4>3. WriteEvent(e)
        BY <3>1, <3>6, <4>1
      <4>4. shell.at = "prompt" => Pos(e) = 6 * p + 2
        <5>1. shell.at = "prompt" => e.ok
          BY <4>1, <4>2, Zenon
        <5> QED
          BY <4>2, <5>1, PosIs
      <4>5. shell.at = "more" => Pos(e) = 6 * p + 3
        <5>1. shell.at = "more" => ~e.ok
          BY <4>1, <4>2
        <5> QED
          BY <4>2, <5>1, PosIs
      <4>6. Pos(e) = NextPos
        BY <3>4, <4>4, <4>5
      <4>7. Passed(NextPos + 1, NextPos', Skip')
        <5>1. CASE shell.at = "prompt"
          <6>1. NextPos + 1 = 6 * p + 3
            BY <1>0, <3>4, <5>1
          <6> QED
            BY <3>5, <6>1
        <5>2. CASE shell.at = "more"
          <6>1. shell'.at = "run"
            BY <2>3, <3>1, <3>2, <5>2 DEF AcceptLine, ContinueLine
          <6>2. NextPos + 1 = 6 * p + 4 /\ NextPos' = 6 * p + 4
            BY <1>0, <3>3, <5>2, <6>1
          <6> QED
            BY <1>0, <1>4, <6>2
        <5> QED
          BY <3>1, <5>1, <5>2
      <4>8. ~e.ok => shell.at = "more"
        <5>1. ~e.ok => shell.at # "prompt"
          BY <4>1, <4>2, Zenon
        <5> QED
          BY <3>1, <5>1
      <4> QED
        BY <1>0, <3>2, <3>5, <3>6, <4>2, <4>3, <4>6, <4>7, <4>8 DEF p
    <3>7. CASE ~shell.marksStart
      <4>1. Skip' = Prompts
        BY <3>2, <3>7 DEF Skip, Prompts
      <4>2. Passed(NextPos, NextPos', Skip')
        <5>1. CASE shell.at = "prompt"
          BY <1>0, <1>4, <3>4, <4>1, <5>1
        <5>2. CASE shell.at = "more"
          BY <3>3, <3>5, <5>2
        <5> QED
          BY <3>1, <5>1, <5>2
      <4> QED
        BY <3>1, <3>2, <3>5, <3>7, <4>2
    <3> QED
      BY <3>6, <3>7
  <2>4. CASE GiveUpLine
    <3>1. /\ shell.at \in {"prompt", "more"} /\ shell' = [shell EXCEPT !.at = "run"]
          /\ UNCHANGED <<events, dropped>>
      BY <2>4 DEF GiveUpLine
    <3>2. shell'.at = "run" /\ shell'.prompt = p /\ shell'.marksStart = shell.marksStart
      BY <1>0, <3>1 DEF Shells, p
    <3>3. NextPos \in {6 * p + 2, 6 * p + 3} /\ NextPos' = 6 * p + 4
      BY <1>0, <3>1, <3>2 DEF NextPos, p
    <3>4. p \in Skip'
      BY <1>0, <1>1, <2>4 DEF Skip, Prompts
    <3>5. Passed(NextPos, NextPos', Skip') /\ NextPos' \in Int
      BY <1>0, <1>4, <3>3, <3>4
    <3> QED
      BY <3>1, <3>2, <3>5
  <2>5. CASE RunCommand
    <3>1. CASE UNCHANGED <<shell, events, dropped>>
      <4>1. NextPos' = NextPos
        BY <3>1 DEF NextPos
      <4> QED
        BY <1>0, <1>4, <3>1, <4>1
    <3>2. CASE ~UNCHANGED <<shell, events, dropped>>
      <4>1. /\ shell.at = "run" /\ shell' = [shell EXCEPT !.at = "D", !.prompt = @ + 1]
            /\ WriteEvent(Mark("link", TRUE)) \/ UNCHANGED <<events, dropped>>
        BY <2>5, <3>2 DEF RunCommand
      <4>2. shell'.at = "D" /\ shell'.prompt = p + 1 /\ shell'.marksStart = shell.marksStart
        BY <1>0, <4>1 DEF Shells, p
      <4>3. NextPos = 6 * p + 4 /\ NextPos' = 6 * (p + 1) - 1
        BY <1>0, <4>1, <4>2 DEF NextPos, p
      <4>4. NextPos' = 6 * p + 5 /\ NextPos + 1 = 6 * p + 5 /\ NextPos' \in Int
        BY <1>0, <4>3
      <4>5. CASE WriteEvent(Mark("link", TRUE))
        <5>1. PICK e : e = Mark("link", TRUE)
          OBVIOUS
        <5>2. e \in Events /\ e.mark = "link" /\ e.prompt = p /\ WriteEvent(e)
          BY <1>2, <4>5, <5>1
        <5>3. Pos(e) = NextPos
          BY <4>3, <5>2, PosIs
        <5> QED
          BY <1>4, <4>2, <4>4, <5>2, <5>3
      <4>6. CASE UNCHANGED <<events, dropped>>
        BY <1>4, <4>2, <4>3, <4>4, <4>6
      <4> QED
        BY <4>1, <4>5, <4>6
    <3> QED
      BY <3>1, <3>2
  <2> QED
    BY <2>1, <2>2, <2>3, <2>4, <2>5 DEF ShellStep
<1>6. Skip \subseteq Skip'
  BY <1>1, <1>5 DEF Skip, Prompts
<1> QED
  BY <1>1, <1>5, <1>6 DEF p

\* The shell's steps.
LEMMA ShellPairs ==
  ASSUME Typed, PairInv, ShellStep PROVE PairInv'
<1>0. Streams /\ Runs /\ blocks \in Seq(Good(dropped))
  BY DEF PairInv
<1>1. /\ UNCHANGED <<batch, line, blocks>> /\ Skip \subseteq Skip' /\ NextPos' \in Int
      /\ \/ \E e \in Events :
              WriteEvent(e) /\ Pos(e) = NextPos /\ Passed(NextPos + 1, NextPos', Skip')
         \/ UNCHANGED <<events, dropped>> /\ Passed(NextPos, NextPos', Skip')
  BY ShellMarks
<1>2. CASE \E e \in Events :
             WriteEvent(e) /\ Pos(e) = NextPos /\ Passed(NextPos + 1, NextPos', Skip')
  <2>1. Streams' /\ Runs'
    BY <1>0, <1>1, <1>2, WritesStream
  <2>2. dropped \subseteq dropped'
    BY <1>2 DEF WriteEvent
  <2>3. blocks' \in Seq(Good(dropped'))
    BY <1>0, <1>1, <2>2, GoodMore
  <2> QED
    BY <2>1, <2>3 DEF PairInv
<1>3. CASE UNCHANGED <<events, dropped>> /\ Passed(NextPos, NextPos', Skip')
  <2>1. Streams' /\ Runs'
    BY <1>0, <1>1, <1>3, WritesNone
  <2> QED
    BY <1>0, <1>1, <1>3, <2>1 DEF PairInv
<1> QED
  BY <1>1, <1>2, <1>3

\* The last of a list that runs starts at a prompt.
LEMMA LastStart ==
  ASSUME Typed, Running(blocks)
  PROVE  blocks # <<>> /\ Last(blocks) \in Blocks /\ Last(blocks).start \in Prompts
<1>1. blocks \in Seq(Blocks) /\ blocks # <<>>
  BY DEF Typed, BlocksTyped, Running
<1>2. Last(blocks) \in Blocks
  BY <1>1, LastIs
<1> QED
  BY <1>1, <1>2, BlockIs

\* The row a mark leaves.
LEMMA RowIs ==
  ASSUME Typed, Handle, NEW x, x = Head(batch)
  PROVE  line'.row = (IF x.mark = "B" THEN x.prompt ELSE line.row) /\ x.mark \in Marks
<1>1. line \in Lines
  BY DEF Typed, LineTyped
<1>2. ASSUME NEW b, NEW a, Started(b, a) PROVE line'.row = line.row
  BY <1>1, <1>2 DEF Started, Lines
<1>3. CASE PromptStart
  <2>1. line' = [line EXCEPT !.atPrompt = FALSE] /\ x.mark = "A"
    BY <1>3 DEF PromptStart, Handling
  <2> QED
    BY <1>1, <2>1 DEF Lines, Marks
<1>4. CASE CommandStart
  BY <1>4 DEF CommandStart, Handling, Marks
<1>5. CASE OutputStart
  BY <1>2, <1>5 DEF OutputStart, Handling, Marks
<1>6. CASE CommandEnd
  <2>1. line'.row = line.row
    BY <1>2, <1>6 DEF CommandEnd
  <2> QED
    BY <1>6, <2>1 DEF CommandEnd, Handling, Marks
<1>7. CASE OtherEvent
  BY <1>7 DEF OtherEvent, Handling, Marks
<1> QED
  BY <1>3, <1>4, <1>5, <1>6, <1>7 DEF Handle

\* A frame handles a mark.
LEMMA HandlePairs ==
  ASSUME Typed, PairInv, Handle PROVE PairInv'
<1> DEFINE S == Stream
           next == NextPos
           row == line.row
           skip == Skip
           x == Head(batch)
           s == Last(blocks).start
<1>0. /\ Queues /\ S \in SUBSET Events /\ next \in Int /\ row \in Prompts /\ dropped \in SUBSET Prompts
      /\ InOrder /\ StreamOk(S, next, row, dropped, skip) /\ blocks \in Seq(Good(dropped))
      /\ blocks \in Seq(Blocks) /\ BlockCap \in Nat \ {0}
  BY CapsAssumption, StreamEvents, NextPosIs, LineIs
     DEF Typed, Queues, PairInv, Streams, BlocksTyped
<1>1. PICK mark : Handling(mark)
  BY DEF Handle, PromptStart, CommandStart, OutputStart, CommandEnd, OtherEvent
<1>2. /\ InOrder' /\ Stream' = S \ {x} /\ x \in S /\ Over(S \ {x}, Pos(x)) /\ x.mark = mark /\ x \in Events
  BY <1>0, <1>1, HandledOrder
<1>3. shell' = shell /\ dropped' = dropped /\ NextPos' = next /\ Skip' = skip
  BY <1>1 DEF Handling, shellVars, NextPos, Skip, Prompts
<1>4. line'.row = IF x.mark = "B" THEN x.prompt ELSE row
  BY RowIs
<1>5. Running(blocks) => s \in Prompts /\ RunsOk(S, next, row, dropped, s)
  BY LastStart DEF PairInv, Runs
<1>6. NewBlock \in Blocks
  BY NewBlockTyped
<1>7. \/ UNCHANGED blocks /\ mark # "D"
      \/ OutputStart
      \/ CommandEnd
  BY <1>1 DEF Handle, PromptStart, CommandStart, OutputStart, CommandEnd, OtherEvent, blockVars,
              Handling
<1> HIDE DEF S, next, row, skip, s, x
<1>8. StreamOk(S \ {x}, next, line'.row, dropped, skip)
  BY <1>0, <1>2, <1>4, HandledStream
<1>9. Streams'
  BY <1>2, <1>3, <1>8 DEF Streams, skip
<1>10. ASSUME UNCHANGED blocks, mark # "D" PROVE PairInv'
  <2>1. Running(blocks) => RunsOk(S \ {x}, next, line'.row, dropped, s)
    BY <1>0, <1>2, <1>4, <1>5, <1>10, HandledRuns DEF StreamOk
  <2>2. Running(blocks)' = Running(blocks) /\ Last(blocks').start = s
    BY <1>10 DEF Running, s
  <2>3. Runs'
    BY <1>2, <1>3, <2>1, <2>2 DEF Runs
  <2> QED
    BY <1>0, <1>3, <1>9, <1>10, <2>3 DEF PairInv
<1>11. CASE OutputStart
  <2>1. mark = "C" /\ blocks' = StartBlock.list
    BY <1>2, <1>11 DEF OutputStart, Handling, Started, x
  <2>2. CASE Running(blocks)
    BY <1>10, <2>1, <2>2, StartBlockIs
  <2>3. CASE ~Running(blocks)
    <3>1. NewBlock \in Good(dropped)
      BY <1>6, NewBlockIs DEF Good
    <3>2. blocks' \in Seq(Good(dropped)) /\ blocks' # <<>> /\ Last(blocks') = NewBlock
      BY <1>0, <2>1, <2>3, <3>1, StartBlockIn
    <3>3. RunsOk(S \ {x}, next, row, dropped, row)
      BY <1>0, <1>2, <2>1, StartRuns
    <3>4. line'.row = row /\ Last(blocks').start = row
      BY <1>2, <1>4, <2>1, <3>2, NewBlockIs DEF row
    <3>5. Runs'
      BY <1>2, <1>3, <3>3, <3>4 DEF Runs
    <3> QED
      BY <1>3, <1>9, <3>2, <3>5 DEF PairInv
  <2> QED
    BY <2>2, <2>3
<1>12. CASE CommandEnd
  <2>0. mark = "D"
    BY <1>2, <1>12 DEF CommandEnd, Handling, x
  <2>1. CASE Running(blocks) /\ Ends(blocks, x)
    <3> DEFINE old == Last(blocks)
               new == Finished(old, x)
    <3>1. blocks # <<>> /\ old \in Blocks /\ old.start = s
      BY <2>1, LastStart DEF s
    <3>2. new \in Blocks /\ new.start = s /\ new.end = x.prompt /\ new.state # "Running"
      BY <1>2, <3>1, FinishedIs
    <3>3. x.prompt # s => \E n \in dropped : n \in s..x.prompt
      BY <1>0, <1>2, <1>5, <2>0, <2>1, EndsRunning DEF StreamOk
    <3>4. new \in Good(dropped)
      BY <3>2, <3>3 DEF Good
    <3>5. blocks' \in Seq(Good(dropped)) /\ Last(blocks') = new
      BY <1>0, <2>1, <3>1, <3>4, EndsIn
    <3>6. Runs'
      BY <3>2, <3>5 DEF Runs, Running
    <3> QED
      BY <1>3, <1>9, <3>5, <3>6 DEF PairInv
  <2>2. CASE ~Running(blocks) /\ Ends(StartBlock.list, x)
    <3> DEFINE new == Finished(NewBlock, x)
    <3>1. new \in Blocks /\ new.start = row /\ new.end = x.prompt /\ new.state # "Running"
      BY <1>2, <1>6, NewBlockIs, FinishedIs DEF row
    <3>2. x.prompt # row => \E n \in dropped : n \in row..x.prompt
      BY <1>0, <1>2, <2>0, EndsStarted
    <3>3. new \in Good(dropped)
      BY <3>1, <3>2 DEF Good
    <3>4. NewBlock \in Good(dropped)
      BY <1>6, NewBlockIs DEF Good
    <3>5. StartBlock.list \in Seq(Good(dropped)) /\ StartBlock.list # <<>>
          /\ Last(StartBlock.list) = NewBlock
      BY <1>0, <2>2, <3>4, StartBlockIn
    <3>6. blocks' \in Seq(Good(dropped)) /\ Last(blocks') = new
      BY <2>2, <3>3, <3>5, EndsIn
    <3>7. Runs'
      BY <3>1, <3>6 DEF Runs, Running
    <3> QED
      BY <1>3, <1>9, <3>6, <3>7 DEF PairInv
  <2>3. CASE ~Running(blocks) /\ UNCHANGED blocks
    <3>1. ~Running(blocks)'
      BY <2>3 DEF Running
    <3>2. Runs'
      BY <3>1 DEF Runs
    <3> QED
      BY <1>0, <1>3, <1>9, <2>3, <3>2 DEF PairInv
  <2> QED
    BY <1>12, <2>1, <2>2, <2>3, CommandEndCases DEF x
<1> QED
  BY <1>7, <1>10, <1>11, <1>12

\* A captured key leaves the row.
LEMMA CaptureRow ==
  ASSUME NEW l \in Lines, NEW key \in AllKeys
  PROVE  Capture(l, key).row = l.row
<1>1. /\ \A e : [l EXCEPT !.escape = e].row = l.row
      /\ \A e : [l EXCEPT !.entered = e].row = l.row
      /\ \A e : [l EXCEPT !.input = e].row = l.row
  BY DEF Lines
<1>2. CASE ~l.atPrompt \/ l.escape
  BY <1>1, <1>2, Zenon DEF Capture
<1>3. CASE l.atPrompt /\ ~l.escape /\ key = Escape
  BY <1>1, <1>3, Zenon DEF Capture
<1>4. CASE l.atPrompt /\ ~l.escape /\ key = Backspace
  BY <1>1, <1>4, LetterKeys, Zenon DEF Capture
<1>5. CASE l.atPrompt /\ ~l.escape /\ key = Return
  BY <1>1, <1>5, LetterKeys, Zenon DEF Capture
<1>6. CASE l.atPrompt /\ ~l.escape /\ key = Control
  BY <1>6, LetterKeys, Zenon DEF Capture
<1>7. CASE l.atPrompt /\ ~l.escape /\ key \notin {Escape, Backspace, Return, Control}
  BY <1>1, <1>7, Zenon DEF Capture
<1> QED
  BY <1>2, <1>3, <1>4, <1>5, <1>6, <1>7

\* What every key keeps, any number of them keep.
LEMMA SentIn ==
  ASSUME NEW I, NEW start \in I, NEW keys, Len(keys) \in Nat,
         \A s \in I : \A n \in 1..Len(keys) : SendKey(s, keys[n]) \in I
  PROVE  Sent(start, keys) \in I
<1> DEFINE size == Len(keys)
<1>1. size \in Nat
  OBVIOUS
<1>2. PICK f : Sends(f, start, keys, size) /\ Sent(start, keys) = f[size]
  BY SentIs
<1>3. \A s \in I : \A n \in 1..size : SendKey(s, keys[n]) \in I
  OBVIOUS
<1> HIDE DEF size
<1> DEFINE bad == {n \in 0..size : f[n] \notin I}
<1>4. bad \in SUBSET Nat /\ bad \subseteq 0..size
  OBVIOUS
<1>5. \A n \in 0..size : n \notin bad => f[n] \in I
  OBVIOUS
<1>6. \A n \in bad : f[n] \notin I
  OBVIOUS
<1> HIDE DEF bad
<1>7. ASSUME bad # {} PROVE FALSE
  <2>1. PICK m \in bad : \A k \in bad : m <= k
    BY <1>4, <1>7, LeastNumber
  <2>2. m # 0
    BY <1>2, <1>6, <2>1 DEF Sends
  <2>3. m \in 1..size /\ m - 1 \in 0..size /\ m - 1 \notin bad
    <3>1. m \in 0..size /\ m \in Nat
      BY <1>4, <2>1
    <3>2. m \in 1..size /\ m - 1 \in 0..size /\ m - 1 < m
      BY <1>1, <2>2, <3>1 DEF size
    <3> QED
      BY <2>1, <3>1, <3>2
  <2>4. f[m] = SendKey(f[m - 1], keys[m])
    BY <1>2, <2>3 DEF Sends
  <2> QED
    BY <1>3, <1>5, <1>6, <2>1, <2>3, <2>4
<1>8. size \in 0..size
  BY <1>1 DEF size
<1> QED
  BY <1>2, <1>5, <1>7, <1>8

\* And so do any number of them.
LEMMA SendKeysRow ==
  ASSUME Typed, NEW keys \in Seq(AllKeys), SendKeys(keys)
  PROVE  line'.row = line.row
<1> DEFINE start == [line |-> line, typed |-> typed, misled |-> misled]
           row == line.row
           I == {s \in [line : Lines, typed : Seq(SentKeys), misled : SUBSET Prompts] :
                   Len(s.line.input) <= InputCap /\ s.line.row = row}
<1>1. start \in I
  BY DEF Typed, LineTyped
<1>2. ASSUME NEW s \in I, NEW key \in AllKeys PROVE SendKey(s, key) \in I
  <2>1. SentTyped(s) /\ s.line \in Lines /\ s.line.row = row
    BY DEF SentTyped, LineTyped
  <2>2. SentTyped(SendKey(s, key))
    BY <2>1, SendKeyTyped
  <2>3. PICK t, m : SendKey(s, key) = [line |-> Capture(s.line, key), typed |-> t, misled |-> m]
    BY Zenon DEF SendKey
  <2>4. Capture(s.line, key).row = row
    BY <2>1, CaptureRow
  <2> QED
    BY <2>2, <2>3, <2>4 DEF SentTyped, LineTyped
<1>3. Len(keys) \in Nat /\ \A n \in 1..Len(keys) : keys[n] \in AllKeys
  OBVIOUS
<1>4. line' = Sent(start, keys).line
  BY DEF SendKeys
<1> HIDE DEF I, start
<1>5. Sent(start, keys) \in I
  BY <1>1, <1>2, <1>3, SentIn
<1> QED
  BY <1>4, <1>5 DEF I

\* Keys and jumps move none of it, and a bookmark none that counts.
LEMMA UserPairs ==
  ASSUME Typed, PairInv, PressKey \/ Drain \/ Jump \/ MenuCommand PROVE PairInv'
<1>0. /\ Streams /\ Runs /\ blocks \in Seq(Good(dropped))
  BY DEF PairInv
<1>1. UNCHANGED <<shell, dropped, missed>>
  BY DEF PressKey, Drain, Jump, MenuCommand, OpenMenu, CloseMenu, RunAgain, ToggleBookmark, shellVars,
         ghosts
<1>2. NextPos' = NextPos /\ Skip' = Skip
  BY <1>1 DEF NextPos, Skip, Prompts
<1>3. line'.row = line.row
  <2>1. CASE PressKey \/ RunAgain
    <3>1. line' = line \/ \E keys \in Seq(AllKeys) : SendKeys(keys)
      <4>1. CASE PressKey
        <5>1. PICK key \in Keys : SendKeys(<<key>>)
          BY <4>1 DEF PressKey
        <5>2. key \in AllKeys
          BY KeysAssumption
        <5>3. <<key>> \in Seq(AllKeys)
          BY <5>2
        <5> QED
          BY <5>1, <5>3
      <4>2. CASE RunAgain
        <5>1. menu # Closed
          BY <4>2 DEF RunAgain
        <5>2. menu.at \in 1..Len(blocks) /\ blocks \in Seq(Blocks)
          BY <5>1 DEF Typed, BlocksTyped
        <5>3. blocks[menu.at] \in Blocks
          BY <5>2
        <5>4. Append(blocks[menu.at].command, Return) \in Seq(AllKeys)
          BY <5>3, CommandKeys
        <5> QED
          BY <4>2, <5>4 DEF RunAgain
      <4> QED
        BY <2>1, <4>1, <4>2
    <3> QED
      BY <3>1, SendKeysRow
  <2>2. CASE ~(PressKey \/ RunAgain)
    BY <2>2 DEF Drain, Jump, MenuCommand, OpenMenu, CloseMenu, ToggleBookmark
  <2> QED
    BY <2>1, <2>2
<1>4. InOrder' /\ Stream' = Stream
  <2>1. CASE Drain
    BY <1>0, <2>1, DrainedOrder DEF Streams
  <2>2. CASE ~Drain
    <3>1. UNCHANGED <<events, batch>>
      BY <2>2 DEF PressKey, Jump, MenuCommand, OpenMenu, CloseMenu, RunAgain, ToggleBookmark
    <3> QED
      BY <1>0, <3>1 DEF Streams, InOrder, Stream
  <2> QED
    BY <2>1, <2>2
<1>5. Streams'
  BY <1>0, <1>1, <1>2, <1>3, <1>4 DEF Streams
<1>6. /\ Running(blocks)' = Running(blocks) /\ (Last(blocks).start)' = Last(blocks).start
      /\ blocks' \in Seq(Good(dropped))
  <2>1. CASE ToggleBookmark
    <3>1. /\ blocks' \in Seq(Blocks) /\ Len(blocks') = Len(blocks)
          /\ \A i \in 1..Len(blocks) : blocks'[i].state = blocks[i].state
                /\ blocks'[i].start = blocks[i].start /\ blocks'[i].end = blocks[i].end
      BY <2>1, BookmarkIs
    <3>2. ASSUME NEW i \in 1..Len(blocks) PROVE blocks'[i] \in Good(dropped)
      <4>1. blocks[i] \in Good(dropped) /\ blocks'[i] \in Blocks
        BY <1>0, <3>1
      <4> QED
        BY <3>1, <4>1 DEF Good
    <3>3. blocks' \in Seq(Good(dropped))
      BY <3>1, <3>2
    <3> QED
      BY <2>1, <3>3, BookmarkIs
  <2>2. CASE ~ToggleBookmark
    <3>1. blocks' = blocks
      BY <2>2 DEF PressKey, Drain, Jump, MenuCommand, OpenMenu, CloseMenu, RunAgain, blockVars
    <3> QED
      BY <1>0, <3>1 DEF Running
  <2> QED
    BY <2>1, <2>2
<1>7. Runs'
  BY <1>0, <1>1, <1>2, <1>3, <1>4, <1>6 DEF Runs
<1> QED
  BY <1>1, <1>5, <1>6, <1>7 DEF PairInv

\* At the start each block ends at its own prompt.
LEMMA InitPairs == ASSUME Init, Typed PROVE PairInv
<1>0. Earlier \in Nat /\ Earlier \in Prompts
  BY CapsAssumption, PromptsAre
<1>1. PICK m \in BOOLEAN :
       /\ shell = [at |-> IF Earlier = 0 THEN "D" ELSE "A",
                   prompt |-> Earlier + 1, line |-> <<>>, marksStart |-> m]
       /\ line = [atPrompt |-> Earlier > 0 /\ ~m, escape |-> FALSE,
                  entered |-> FALSE, input |-> <<>>, row |-> Earlier]
  BY Zenon DEF Init
<1>2. events = <<>> /\ batch = <<>> /\ dropped = {} /\ blocks = [i \in 1..Earlier |-> EarlierBlock(i)]
  BY DEF Init
<1>3. Range(<<>>) = {} /\ Sorted(<<>>)
  BY DEF Range, Sorted
<1>4. InOrder /\ Stream = {}
  BY <1>2, <1>3 DEF InOrder, Stream
<1>5. NextPos = 6 * (Earlier + 1) \/ (Earlier = 0 /\ NextPos = 5)
  BY <1>0, <1>1 DEF NextPos
<1>6. line.row = Earlier /\ 6 * Earlier + 1 < NextPos /\ NextPos <= 6 * Earlier + 6 /\ NextPos \in Int
  BY <1>0, <1>1, <1>5
<1>7. StreamOk({}, NextPos, line.row, dropped, Skip)
  <2>1. \A p : Over({}, p)
    BY DEF Over
  <2>2. Near({}, NextPos, line.row)
    BY <1>6, <2>1 DEF Near
  <2>3. \A n \in Prompts : n \in Nat
    BY PromptsAre
  <2>4. Starts({}, NextPos, line.row, dropped)
    BY <1>0, <1>6, <2>3 DEF Starts
  <2>5. \A k, d : Kept({}, NextPos, d, k)
    BY <2>1 DEF Kept
  <2> QED
    BY <2>2, <2>4, <2>5 DEF StreamOk
<1>8. blocks \in Seq(Blocks) /\ Len(blocks) = Earlier
  BY <1>0, <1>2 DEF Typed, BlocksTyped
<1>9. \A i \in 1..Earlier : blocks[i].state # "Running" /\ blocks[i].end = blocks[i].start
  BY <1>2 DEF EarlierBlock
<1>10. blocks \in Seq(Good(dropped))
  <2>1. ASSUME NEW i \in 1..Earlier PROVE blocks[i] \in Good(dropped)
    <3>1. blocks[i] \in Blocks
      BY <1>0, <1>8
    <3> QED
      BY <1>9, <3>1 DEF Good
  <2> QED
    BY <1>8, <2>1
<1>11. ~Running(blocks)
  <2>1. CASE Earlier = 0
    BY <1>8, <2>1 DEF Running
  <2>2. CASE Earlier # 0
    <3>1. blocks # <<>> /\ Earlier \in 1..Earlier
      BY <1>0, <1>8, <2>2
    <3>2. Last(blocks) = blocks[Earlier]
      BY <1>8, <3>1, LastIs
    <3> QED
      BY <1>9, <3>1, <3>2 DEF Running
  <2> QED
    BY <2>1, <2>2
<1> QED
  BY <1>4, <1>7, <1>10, <1>11 DEF PairInv, Streams, Runs

\* Every step keeps the blocks paired with their marks.
LEMMA NextPairs == ASSUME Typed, PairInv, [Next]_vars PROVE PairInv'
<1>1. CASE UNCHANGED vars
  <2>1. UNCHANGED <<shell, events, batch, line, blocks, missed, dropped>>
    BY <1>1 DEF vars, shellVars, blockVars, ghosts
  <2>2. NextPos' = NextPos /\ Stream' = Stream /\ (InOrder <=> InOrder') /\ Skip' = Skip
    BY <2>1 DEF NextPos, Stream, InOrder, Skip, Prompts
  <2> QED
    BY <2>1, <2>2 DEF PairInv, Streams, Runs, Running
<1>2. CASE Next
  BY <1>2, ShellPairs, HandlePairs, UserPairs DEF Next, ShellStep
<1> QED
  BY <1>1, <1>2

-----------------------------------------------------------------------------
(* The history holds every finished command once.                           *)

Records ==
  {h \in [id : Nat \ {0}, command : Text, state : {"Succeeded", "Failed"}] : h.command # <<>>}

RecordOf(b) == [id |-> b.id, command |-> b.command, state |-> b.state]

\* A block is in the history if it has ended and has a line.
Recorded(b, hist) ==
  (b.command # <<>> /\ b.state # "Running") <=> \E h \in Range(hist) : h = RecordOf(b)

Increasing(hist) == \A i, j \in DOMAIN hist : i < j => hist[i].id < hist[j].id
Below(hist, next) == \A h \in Range(hist) : h.id < next
Kinds(hist) == {b \in Blocks : Recorded(b, hist)}

HistInv ==
  /\ history \in Seq(Records) /\ Increasing(history) /\ blocks \in Seq(Kinds(history))
  /\ Below(history, IF Running(blocks) THEN nextId - 1 ELSE nextId)

\* With its invariant the history agrees with the blocks.
LEMMA HistAgrees == ASSUME HistInv PROVE HistoryAgrees
<1>1. \A i \in DOMAIN blocks : Recorded(blocks[i], history)
  BY DEF HistInv, Kinds
<1> QED
  BY <1>1 DEF HistInv, Increasing, Recorded, RecordOf, HistoryAgrees

\* The parts of a numbered list.
LEMMA NumbersAre ==
  ASSUME NEW list \in Seq(Blocks), NEW next \in Nat, Numbered(list, next), list # <<>>
  PROVE  /\ Last(list).id = next - 1 /\ Front(list) \in Seq(Blocks)
         /\ \A i \in 1..Len(Front(list)) : /\ Front(list)[i] = list[i] /\ list[i].id < next - 1
                                           /\ i \in 1..Len(list)
<1>1. Len(list) \in Nat \ {0} /\ Last(list) = list[Len(list)]
  BY LastIs
<1>2. /\ Front(list) \in Seq(Blocks) /\ Len(Front(list)) = Len(list) - 1
      /\ \A i \in 1..Len(Front(list)) : Front(list)[i] = list[i]
  BY FrontIs
<1>3. \A i \in 1..Len(list) : list[i].id = next - 1 - (Len(list) - i)
  BY DEF Numbered
<1>4. Last(list).id = next - 1
  BY <1>1, <1>3
<1>5. \A i \in 1..Len(list) : i < Len(list) => list[i].id < next - 1
  BY <1>1, <1>3
<1>6. \A i \in 1..(Len(list) - 1) : i \in 1..Len(list) /\ i < Len(list)
  BY <1>1
<1> QED
  BY <1>2, <1>4, <1>5, <1>6

\* A new block is in no history.
LEMMA NewRecorded ==
  ASSUME Below(history, nextId), NewBlock \in Blocks, nextId \in Nat
  PROVE  NewBlock \in Kinds(history)
<1>1. NewBlock.state = "Running" /\ NewBlock.id = nextId
  BY NewBlockIs
<1>2. \A h \in Range(history) : h.id # nextId
  BY DEF Below
<1>3. \A h \in Range(history) : h # RecordOf(NewBlock)
  BY <1>1, <1>2 DEF RecordOf
<1> QED
  BY <1>1, <1>3 DEF Kinds, Recorded

\* A history with one more line.
LEMMA AppendedRecord ==
  ASSUME NEW hist \in Seq(Records), Increasing(hist), NEW r \in Records, Below(hist, r.id),
         NEW longer, longer = Append(hist, r)
  PROVE  /\ longer \in Seq(Records) /\ Increasing(longer) /\ Below(longer, r.id + 1)
         /\ Range(longer) = Range(hist) \cup {r}
<1>1. /\ longer \in Seq(Records) /\ Len(hist) \in Nat /\ Len(longer) = Len(hist) + 1
      /\ longer[Len(longer)] = r /\ \A i \in 1..Len(hist) : longer[i] = hist[i]
      /\ DOMAIN hist = 1..Len(hist) /\ DOMAIN longer = 1..Len(longer)
  BY Appended
<1>2. Range(hist) = {hist[i] : i \in 1..Len(hist)} /\ Range(longer) = {longer[i] : i \in 1..Len(longer)}
  BY <1>1 DEF Range
<1>3. \A i \in 1..Len(longer) : i \in 1..Len(hist) \/ i = Len(longer)
  BY <1>1
<1>4. \A i \in 1..Len(hist) : i \in 1..Len(longer) /\ i < Len(longer)
  BY <1>1
<1>5. Len(longer) \in 1..Len(longer)
  BY <1>1
<1>6. Range(longer) = Range(hist) \cup {r}
  <2>1. Range(longer) \subseteq Range(hist) \cup {r}
    BY <1>1, <1>2, <1>3
  <2>2. Range(hist) \subseteq Range(longer)
    BY <1>1, <1>2, <1>4
  <2>3. r \in Range(longer)
    BY <1>1, <1>2, <1>5
  <2> QED
    BY <2>1, <2>2, <2>3
<1>7. Increasing(longer)
  <2> SUFFICES ASSUME NEW i \in 1..Len(longer), NEW j \in 1..Len(longer), i < j
               PROVE  longer[i].id < longer[j].id
    BY <1>1 DEF Increasing
  <2>1. i \in 1..Len(hist)
    BY <1>1, <1>3
  <2>2. CASE j = Len(longer)
    BY <1>1, <1>2, <2>1, <2>2 DEF Below
  <2>3. CASE j # Len(longer)
    <3>1. j \in 1..Len(hist)
      BY <1>3, <2>3
    <3> QED
      BY <1>1, <2>1, <3>1 DEF Increasing
  <2> QED
    BY <2>2, <2>3
<1>8. r.id \in Nat
  BY DEF Records
<1>9. Below(longer, r.id + 1)
  <2>1. \A h \in Range(hist) : h.id \in Nat /\ h.id < r.id
    BY <1>1, <1>2 DEF Below, Records
  <2> QED
    BY <1>6, <1>8, <2>1 DEF Below
<1> QED
  BY <1>1, <1>6, <1>7, <1>9

\* The end of the last block of a list.
LEMMA EndRecorded ==
  ASSUME history \in Seq(Records), Increasing(history), NEW list \in Seq(Kinds(history)),
         list # <<>>, NEW next \in Nat, Numbered(list, next), Below(history, next - 1),
         Last(list).state = "Running", NEW e \in Events, Ends(list, e), nextId' = next
  PROVE  HistInv'
<1> DEFINE old == Last(list)
           new == Finished(old, e)
           r == RecordOf(new)
<1>1. list \in Seq(Blocks) /\ old \in Kinds(history) /\ old \in Blocks
  <2>1. Kinds(history) \subseteq Blocks
    BY DEF Kinds
  <2>2. old \in Kinds(history)
    BY LastIs
  <2> QED
    BY <2>1, <2>2
<1>2. /\ new \in Blocks /\ new.id = old.id /\ new.command = old.command /\ new.state # "Running"
  BY <1>1, FinishedIs
<1>3. /\ old.id = next - 1
      /\ \A i \in 1..Len(Front(list)) : /\ Front(list)[i] = list[i] /\ list[i].id < next - 1
                                        /\ i \in 1..Len(list)
  BY <1>1, NumbersAre
<1>4. Front(list) \in Seq(Kinds(history)) /\ Len(Front(list)) \in Nat
  BY FrontIs
<1>5. blocks' = Append(Front(list), new)
  BY DEF Ends
<1>6. history' = IF new.command = <<>> THEN history ELSE Append(history, r)
  BY DEF Ends, RecordOf
<1>7. new.command # <<>> => r \in Records /\ r.id = next - 1
  <2>1. new.id \in Nat \ {0} /\ new.command \in Text /\ new.state \in {"Running", "Succeeded", "Failed"}
    <3> DEFINE T == Seq({Letter, Wide})
    <3>1. Blocks = [id : Nat \ {0}, command : T, state : {"Running", "Succeeded", "Failed"},
                    start : Prompts, end : Prompts, bookmarked : BOOLEAN]
      BY DEF Blocks
    <3>2. Text = T
      BY Zenon DEF Text
    <3> HIDE DEF T
    <3> QED
      BY <1>2, <3>1, <3>2
  <2> HIDE DEF new
  <2> QED
    BY <1>2, <1>3, <2>1 DEF Records, RecordOf
<1>8. next - 1 \in Int
  OBVIOUS
<1> HIDE DEF new, r
<1>9. /\ history' \in Seq(Records) /\ Increasing(history') /\ Below(history', next)
      /\ Range(history') = IF new.command = <<>> THEN Range(history) ELSE Range(history) \cup {r}
  <2>1. CASE new.command = <<>>
    <3>1. \A h \in Range(history) : h.id \in Nat
      BY DEF Range, Records
    <3> QED
      BY <1>6, <2>1, <3>1 DEF Below
  <2>2. CASE new.command # <<>>
    <3>1. Below(history, r.id) /\ r.id + 1 = next
      BY <1>7, <2>2
    <3> QED
      BY <1>6, <1>7, <2>2, <3>1, AppendedRecord
  <2> QED
    BY <2>1, <2>2
<1>10. new \in Kinds(history')
  <2>1. \A h \in Range(history) : h.id # new.id
    <3>1. \A h \in Range(history) : h.id \in Nat
      BY DEF Range, Records
    <3> QED
      BY <1>2, <1>3, <3>1 DEF Below
  <2>2. \A h \in Range(history) : h # RecordOf(new)
    BY <2>1 DEF RecordOf
  <2> QED
    BY <1>2, <1>9, <2>2 DEF Kinds, Recorded, r
<1>11. \A i \in 1..Len(Front(list)) : Front(list)[i] \in Kinds(history')
  <2> SUFFICES ASSUME NEW i \in 1..Len(Front(list)) PROVE list[i] \in Kinds(history')
    BY <1>3
  <2>1. list[i] \in Kinds(history) /\ list[i].id < next - 1 /\ list[i] \in Blocks
    BY <1>1, <1>3
  <2>2. list[i].id # new.id
    BY <1>2, <1>3, <2>1, BlockIs
  <2>3. RecordOf(list[i]) # r
    BY <2>2 DEF RecordOf, r
  <2>4. Recorded(list[i], history)
    BY <2>1 DEF Kinds
  <2>5. Recorded(list[i], history')
    BY <1>9, <2>3, <2>4 DEF Recorded
  <2> QED
    BY <2>1, <2>5 DEF Kinds
<1>12. Front(list) \in Seq(Kinds(history'))
  BY <1>4, <1>11
<1>13. blocks' \in Seq(Kinds(history')) /\ ~Running(blocks)'
  <2>1. PICK f : f = Front(list)
    OBVIOUS
  <2>2. f \in Seq(Kinds(history')) /\ blocks' = Append(f, new)
    BY <1>5, <1>12, <2>1
  <2>3. blocks' \in Seq(Kinds(history'))
    BY <1>10, <2>2, Appended
  <2>4. Last(blocks') = new
    BY <1>10, <2>2, LastRuns
  <2> QED
    BY <1>2, <2>3, <2>4 DEF Running
<1> QED
  BY <1>9, <1>13 DEF HistInv

\* Every step keeps the history in agreement with the blocks.
LEMMA NextHist ==
  ASSUME Typed, Inv, HistInv, [Next]_vars PROVE HistInv'
<1>0. /\ blocks \in Seq(Blocks) /\ nextId \in Nat \ {0} /\ BlockCap \in Nat \ {0}
      /\ history \in Seq(Records) /\ Increasing(history) /\ blocks \in Seq(Kinds(history))
      /\ NewBlock \in Blocks
  BY CapsAssumption, NewBlockTyped DEF Typed, BlocksTyped, HistInv
<1>1. CASE OutputStart
  <2>1. /\ blocks' = StartBlock.list /\ nextId' = StartBlock.nextId /\ history' = history
    BY <1>1 DEF OutputStart, Started
  <2>2. CASE Running(blocks)
    BY <2>1, <2>2, StartBlockIs DEF HistInv, Running
  <2>3. CASE ~Running(blocks)
    <3>1. NewBlock \in Kinds(history)
      BY <1>0, <2>3, NewRecorded DEF HistInv
    <3>2. blocks' \in Seq(Kinds(history)) /\ Running(blocks') /\ nextId' = nextId + 1
      BY <1>0, <2>1, <2>3, <3>1, StartBlockIn, StartBlockIs
    <3>3. Below(history, nextId) /\ nextId' - 1 = nextId
      BY <1>0, <2>3, <3>2 DEF HistInv
    <3>4. Running(blocks)'
      BY <3>2 DEF Running
    <3> QED
      BY <1>0, <2>1, <3>2, <3>3, <3>4 DEF HistInv
  <2> QED
    BY <2>2, <2>3
<1>2. CASE CommandEnd
  <2> DEFINE e == Head(batch)
  <2>0. e \in Events
    BY <1>2, HandlingTyped DEF CommandEnd
  <2>1. CASE Running(blocks) /\ Ends(blocks, e) /\ nextId' = nextId
    <3>1. blocks # <<>> /\ Last(blocks).state = "Running" /\ Numbered(blocks, nextId)
          /\ Below(history, nextId - 1)
      BY <2>1 DEF Running, Inv, HistInv
    <3> QED
      BY <1>0, <2>0, <2>1, <3>1, EndRecorded
  <2>2. CASE ~Running(blocks) /\ Ends(StartBlock.list, e) /\ nextId' = nextId + 1
    <3>1. NewBlock \in Kinds(history)
      BY <1>0, <2>2, NewRecorded DEF HistInv
    <3>2. /\ StartBlock.list \in Seq(Kinds(history)) /\ StartBlock.list # <<>>
          /\ Last(StartBlock.list).state = "Running"
      BY <1>0, <2>2, <3>1, StartBlockIn, NewBlockIs
    <3>3. Numbered(StartBlock.list, nextId + 1)
      BY <2>2, StartBlockNumbered, StartBlockIs
    <3>4. Below(history, nextId + 1 - 1)
      BY <1>0, <2>2 DEF HistInv
    <3>5. nextId + 1 \in Nat
      BY <1>0
    <3> QED
      BY <1>0, <2>0, <2>2, <3>2, <3>3, <3>4, <3>5, EndRecorded
  <2>3. CASE UNCHANGED <<blocks, history, nextId>>
    BY <2>3 DEF HistInv, Running
  <2> QED
    BY <1>2, <2>1, <2>2, <2>3, CommandEndCases
<1>3. CASE ToggleBookmark
  <2>1. /\ blocks' \in Seq(Blocks) /\ Len(blocks') = Len(blocks)
        /\ \A i \in 1..Len(blocks) : blocks'[i].state = blocks[i].state
              /\ blocks'[i].id = blocks[i].id /\ blocks'[i].command = blocks[i].command
        /\ Running(blocks)' = Running(blocks) /\ history' = history /\ nextId' = nextId
    BY <1>3, BookmarkIs DEF ToggleBookmark
  <2>2. ASSUME NEW i \in 1..Len(blocks) PROVE blocks'[i] \in Kinds(history)
    <3>1. blocks[i] \in Kinds(history) /\ blocks'[i] \in Blocks
      BY <1>0, <2>1
    <3>2. RecordOf(blocks'[i]) = RecordOf(blocks[i])
      BY <2>1 DEF RecordOf
    <3> QED
      BY <2>1, <3>1, <3>2 DEF Kinds, Recorded
  <2>3. blocks' \in Seq(Kinds(history))
    BY <2>1, <2>2
  <2> QED
    BY <1>0, <2>1, <2>3 DEF HistInv
<1>4. CASE UNCHANGED <<blocks, history, nextId>>
  BY <1>4 DEF HistInv, Running
<1>5. \/ PromptStart \/ CommandStart \/ OtherEvent
      \/ ShellStep \/ PressKey \/ Drain
      \/ Jump \/ OpenMenu \/ CloseMenu \/ RunAgain \/ UNCHANGED vars
      => UNCHANGED <<blocks, history, nextId>>
  BY DEF PromptStart, CommandStart, OtherEvent, ShellStep, WritePrompt, ReadKey, AcceptLine,
         ContinueLine, GiveUpLine, TakeReturn, RunCommand, PressKey, Drain, Jump, OpenMenu, CloseMenu, RunAgain, vars,
         blockVars
<1> QED
  BY <1>1, <1>2, <1>3, <1>4, <1>5 DEF Next, ShellStep, Handle, MenuCommand

\* The history agrees at the start.
LEMMA InitHist == ASSUME Init, Typed PROVE HistInv
<1>0. Earlier \in Nat
  BY CapsAssumption
<1>1. /\ blocks = [i \in 1..Earlier |-> EarlierBlock(i)] /\ nextId = Earlier + 1
      /\ history = [i \in 1..Earlier |-> [id |-> i, command |-> <<Letter>>, state |-> "Succeeded"]]
  BY DEF Init
<1>2. <<Letter>> \in Text /\ <<Letter>> # <<>>
  <2>1. <<Letter>> \in Seq({Letter, Wide})
    OBVIOUS
  <2> QED
    BY <2>1, Zenon DEF Text
<1>3. \A i \in 1..Earlier : /\ history[i] = [id |-> i, command |-> <<Letter>>, state |-> "Succeeded"]
                            /\ history[i] \in Records
  BY <1>0, <1>1, <1>2 DEF Records
<1>4. history \in Seq(Records) /\ Len(history) = Earlier /\ DOMAIN history = 1..Earlier
  BY <1>0, <1>1, <1>3
<1>5. Increasing(history)
  BY <1>3, <1>4 DEF Increasing
<1>6. Range(history) = {history[i] : i \in 1..Earlier}
  BY <1>4 DEF Range
<1>7. blocks \in Seq(Blocks) /\ Len(blocks) = Earlier
  BY <1>0, <1>1 DEF Typed, BlocksTyped
<1>8. \A i \in 1..Earlier : blocks[i] \in Kinds(history) /\ blocks[i].state = "Succeeded"
  <2> SUFFICES ASSUME NEW i \in 1..Earlier
               PROVE  blocks[i] \in Kinds(history) /\ blocks[i].state = "Succeeded"
    OBVIOUS
  <2>1. blocks[i].id = i /\ blocks[i].command = <<Letter>> /\ blocks[i].state = "Succeeded"
    BY <1>1 DEF EarlierBlock
  <2>2. RecordOf(blocks[i]) = history[i] /\ history[i] \in Range(history)
    BY <1>3, <1>6, <2>1 DEF RecordOf
  <2>3. blocks[i] \in Blocks
    BY <1>0, <1>7
  <2> QED
    BY <1>2, <2>1, <2>2, <2>3 DEF Kinds, Recorded
<1>9. blocks \in Seq(Kinds(history))
  BY <1>7, <1>8
<1>10. Below(history, Earlier + 1)
  <2>1. ASSUME NEW i \in 1..Earlier PROVE history[i].id = i
    <3>1. PICK c : history[i] = [id |-> i, command |-> c, state |-> "Succeeded"]
      BY <1>3
    <3> QED
      BY <3>1
  <2>2. \A i \in 1..Earlier : history[i].id < Earlier + 1
    BY <1>0, <2>1
  <2> QED
    BY <1>6, <2>2 DEF Below
<1>11. ~Running(blocks)
  <2>1. CASE Earlier = 0
    BY <1>7, <2>1 DEF Running
  <2>2. CASE Earlier # 0
    <3>1. blocks # <<>> /\ Earlier \in 1..Earlier
      BY <1>0, <1>7, <2>2
    <3>2. Last(blocks) = blocks[Earlier]
      BY <1>7, <3>1, LastIs
    <3> QED
      BY <1>8, <3>1, <3>2 DEF Running
  <2> QED
    BY <2>1, <2>2
<1> QED
  BY <1>1, <1>4, <1>5, <1>9, <1>10, <1>11 DEF HistInv

-----------------------------------------------------------------------------
(* The open menu shows the last block, until a command has started.         *)

MenuInv ==
  menu # Closed =>
    /\ menu.id \in Nat /\ menu.id < nextId
    /\ nextId = menu.id + 1 => menu.generation = buffer.generation /\ menu.at = Len(blocks)

\* With its invariant the open menu shows the block its pointer leads to.
LEMMA MenuShows == ASSUME Typed, Inv, MenuInv PROVE MenuShowsLast
<1> SUFFICES ASSUME menu # Closed, ~(nextId > menu.id + 1)
             PROVE  Pointee = menu.id /\ Last(blocks).id = menu.id
  BY DEF MenuShowsLast
<1>1. blocks \in Seq(Blocks) /\ nextId \in Nat /\ menu.at \in 1..Len(blocks)
  BY DEF Typed, BlocksTyped
<1>2. nextId = menu.id + 1 /\ menu.id \in Nat
  BY <1>1 DEF MenuInv
<1>3. menu.generation = buffer.generation /\ menu.at = Len(blocks)
  BY <1>2 DEF MenuInv
<1>4. blocks # <<>>
  BY <1>1
<1>5. Last(blocks) = blocks[Len(blocks)] /\ Last(blocks).id = nextId - 1
  BY <1>1, <1>4, LastIs, NumbersAre DEF Inv
<1> QED
  BY <1>2, <1>3, <1>5 DEF Pointee

\* Every step keeps the menu's pointer, or a command has started since.
LEMMA NextMenu == ASSUME Typed, Inv, MenuInv, [Next]_vars PROVE MenuInv'
<1>0. /\ blocks \in Seq(Blocks) /\ nextId \in Nat \ {0} /\ BlockCap \in Nat \ {0}
      /\ NewBlock \in Blocks
  BY CapsAssumption, NewBlockTyped DEF Typed, BlocksTyped
<1>1. ASSUME menu' = Closed PROVE MenuInv'
  BY <1>1 DEF MenuInv
<1>2. ASSUME menu' = menu, nextId' = nextId, buffer' = buffer, Len(blocks') = Len(blocks)
      PROVE  MenuInv'
  BY <1>2 DEF MenuInv
<1>3. ASSUME menu' = menu, nextId' = nextId + 1 PROVE MenuInv'
  BY <1>0, <1>3 DEF MenuInv
<1>4. CASE OpenMenu
  <2>1. /\ menu' = [id |-> Last(blocks).id, at |-> Len(blocks), generation |-> buffer.generation,
                    canRun |-> /\ Last(blocks).command # <<>>
                               /\ Last(blocks).state # "Running"]
        /\ blocks # <<>> /\ UNCHANGED <<blocks, nextId, buffer>>
    BY <1>4 DEF OpenMenu, blockVars
  <2>2. Last(blocks).id = nextId - 1
    BY <1>0, <2>1, NumbersAre DEF Inv
  <2>3. menu'.id = nextId - 1 /\ menu'.at = Len(blocks) /\ menu'.generation = buffer.generation
    BY <2>1, <2>2
  <2> QED
    BY <1>0, <2>1, <2>3 DEF MenuInv
<1>5. CASE OutputStart
  <2>1. /\ blocks' = StartBlock.list /\ nextId' = StartBlock.nextId /\ menu' = menu
        /\ buffer' = StartBlock.buffer
    BY <1>5 DEF OutputStart, Started, Handling
  <2>2. Running(blocks) => nextId' = nextId /\ buffer' = buffer /\ blocks' = blocks
    BY <2>1, StartBlockIs
  <2>3. ~Running(blocks) => nextId' = nextId + 1
    BY <2>1, StartBlockIs
  <2> QED
    BY <1>2, <1>3, <2>1, <2>2, <2>3
<1>6. CASE CommandEnd
  <2> DEFINE e == Head(batch)
  <2>1. menu' = menu /\ e \in Events
    BY <1>6, HandlingTyped DEF CommandEnd, Handling
  <2>2. CASE Running(blocks) /\ Ends(blocks, e) /\ nextId' = nextId /\ buffer' = buffer
    <3>1. blocks # <<>> /\ Last(blocks) \in Blocks
      BY <2>2, LastStart
    <3>2. Finished(Last(blocks), e) \in Blocks
      BY <2>1, <3>1, FinishedTyped
    <3>3. Len(blocks') = Len(blocks)
      BY <1>0, <2>2, <3>1, <3>2, EndsIn
    <3> QED
      BY <1>2, <2>1, <2>2, <3>3
  <2>3. CASE nextId' = nextId + 1
    BY <1>3, <2>1, <2>3
  <2>4. CASE UNCHANGED <<blocks, nextId, buffer>>
    BY <1>2, <2>1, <2>4
  <2> QED
    BY <1>6, <2>2, <2>3, <2>4, CommandEndCases
<1>7. \/ PromptStart \/ CommandStart \/ OtherEvent
      \/ ShellStep \/ PressKey \/ Drain
      \/ UNCHANGED vars
      => UNCHANGED <<menu, blocks, nextId, buffer>>
  BY DEF PromptStart, CommandStart, OtherEvent, ShellStep, WritePrompt, ReadKey, AcceptLine,
         ContinueLine, GiveUpLine, TakeReturn, RunCommand, PressKey, Drain, vars, blockVars, Handling
<1>8. Jump \/ CloseMenu \/ RunAgain \/ ToggleBookmark => menu' = Closed
  BY DEF Jump, CloseMenu, RunAgain, ToggleBookmark
<1> QED
  BY <1>1, <1>2, <1>4, <1>5, <1>6, <1>7, <1>8 DEF Next, ShellStep, Handle, MenuCommand

AgreeInv == Typed /\ Inv /\ PairInv /\ HistInv /\ MenuInv

\* What is kept of a command in the list of blocks, the history and the open menu
\* is of the same command (TerminalSession.cpp:198-373), whatever the caps, the
\* shell and the keys.
THEOREM OneCommandKept == Spec => []BlocksAgree
<1>1. Init => AgreeInv
  <2>1. Init => menu = Closed
    BY DEF Init
  <2> QED
    BY <2>1, InitTyped, InitInv, InitPairs, InitHist DEF AgreeInv, MenuInv
<1>2. AgreeInv /\ [Next]_vars => AgreeInv'
  BY NextTyped, NextInv, NextPairs, NextHist, NextMenu DEF AgreeInv
<1>3. AgreeInv => BlocksAgree
  BY TypedTypeOK, GoodPairs, HistAgrees, MenuShows DEF AgreeInv, PairInv, BlocksAgree
<1> QED
  BY <1>1, <1>2, <1>3, PTL DEF Spec

-----------------------------------------------------------------------------
(* What a captured key adds to the line's text.                             *)

\* A well-formed line with one more byte, or with the two of one letter.
LEMMA OneByteMore ==
  ASSUME NEW b, NEW c, NEW n \in Nat, Len(b) = n, Len(c) = n + 1,
         \A i \in 1..n : b[i] = c[i], WellFormed(b), WellFormed(c)
  PROVE  Decoded(c) = DecodeStep(Decoded(b), c[n + 1])
<1>1. PICK f : Decodes(f, b, n) /\ Decoded(b) = f[n]
  BY DecodedIs
<1>2. PICK m \in Nat : m = n + 1 /\ n <= m /\ m \in 1..m /\ m - 1 = n /\ Len(c) = m
  OBVIOUS
<1>3. PICK g : Decodes(g, c, m) /\ Decoded(c) = g[m]
  BY <1>2, DecodedIs
<1>4. f[n] = g[n]
  BY <1>1, <1>2, <1>3, DecodesAlike
<1>5. g[m] = DecodeStep(g[m - 1], c[m])
  BY <1>2, <1>3 DEF Decodes
<1> QED
  BY <1>1, <1>2, <1>3, <1>4, <1>5

\* Two bytes more are decoded after the others.
LEMMA TwoBytesMore ==
  ASSUME NEW b, NEW c, NEW n \in Nat, Len(b) = n, Len(c) = n + 2,
         \A i \in 1..n : b[i] = c[i], WellFormed(b), WellFormed(c)
  PROVE  Decoded(c) = DecodeStep(DecodeStep(Decoded(b), c[n + 1]), c[n + 2])
<1>1. PICK f : Decodes(f, b, n) /\ Decoded(b) = f[n]
  BY DecodedIs
<1>2. PICK m \in Nat : /\ m = n + 2 /\ n <= m /\ m \in 1..m /\ m - 1 = n + 1 /\ Len(c) = m
                       /\ n + 1 \in 1..m /\ n + 1 - 1 = n
  OBVIOUS
<1>3. PICK g : Decodes(g, c, m) /\ Decoded(c) = g[m]
  BY <1>2, DecodedIs
<1>4. f[n] = g[n]
  BY <1>1, <1>2, <1>3, DecodesAlike
<1>5. g[m] = DecodeStep(g[m - 1], c[m])
  BY <1>2, <1>3 DEF Decodes
<1>6. PICK p \in 1..m : p = n + 1 /\ p - 1 = n
  BY <1>2
<1>7. g[p] = DecodeStep(g[p - 1], c[p])
  BY <1>3 DEF Decodes
<1> QED
  BY <1>1, <1>2, <1>3, <1>4, <1>5, <1>6, <1>7

\* What a joined sequence holds.
LEMMA Joined ==
  ASSUME NEW S, NEW b \in Seq(S), NEW d \in Seq(S), NEW c, c = b \o d
  PROVE  /\ c \in Seq(S) /\ Len(c) = Len(b) + Len(d) /\ Len(b) \in Nat /\ Len(d) \in Nat
         /\ \A i \in 1..Len(b) : c[i] = b[i]
         /\ \A i \in 1..Len(d) : c[Len(b) + i] = d[i]
<1>1. Len(b) \in Nat /\ Len(d) \in Nat
  OBVIOUS
<1>2. /\ c \in Seq(S) /\ Len(c) = Len(b) + Len(d)
      /\ \A i \in 1..(Len(b) + Len(d)) : c[i] = IF i <= Len(b) THEN b[i] ELSE d[i - Len(b)]
  BY ConcatProperties
<1> DEFINE n == Len(b)
           k == Len(d)
<1> HIDE DEF n, k
<1>3. n \in Nat /\ k \in Nat
  BY <1>1 DEF n, k
<1>4. \A i \in 1..n : i \in 1..(n + k) /\ i <= n
  BY <1>3
<1>5. \A i \in 1..k : n + i \in 1..(n + k) /\ ~(n + i <= n) /\ n + i - n = i
  BY <1>3
<1> QED
  BY <1>1, <1>2, <1>4, <1>5 DEF n, k

\* A letter typed.
LEMMA LetterTyped ==
  ASSUME NEW b \in Seq(Bytes), WellFormed(b), NEW c, c = b \o Letter
  PROVE  WellFormed(c) /\ Decoded(c) = Append(Decoded(b), Letter)
<1> DEFINE n == Len(b)
<1>1. /\ c \in Seq(Bytes) /\ n \in Nat /\ Len(c) = n + 1 /\ c[n + 1] = "a" /\ Len(c) \in Nat
      /\ \A i \in 1..n : c[i] = b[i]
  <2>0. Letter \in Seq(Bytes)
    BY LettersBytes
  <2>1. c \in Seq(Bytes) /\ Len(c) = Len(b) + Len(Letter) /\ Len(b) \in Nat
    BY <2>0, Joined
  <2>2. Len(Letter) = 1 /\ Letter[1] = "a"
    BY LettersBytes
  <2>3. \A i \in 1..Len(b) : c[i] = b[i]
    BY <2>0, Joined
  <2>4. c[Len(b) + 1] = "a"
    <3>1. \A j \in 1..Len(Letter) : c[Len(b) + j] = Letter[j]
      BY <2>0, Joined
    <3>2. 1 \in 1..Len(Letter)
      BY <2>2
    <3> QED
      BY <2>2, <3>1, <3>2
  <2> QED
    BY <2>1, <2>2, <2>3, <2>4
<1>2. \A i \in 0..n : (i > 0 /\ b[i] = "w1") <=> (i < n /\ b[i + 1] = "w2")
  BY DEF WellFormed
<1>3. \A i \in 0..Len(c) : (i > 0 /\ c[i] = "w1") <=> (i < Len(c) /\ c[i + 1] = "w2")
  <2> SUFFICES ASSUME NEW i \in 0..(n + 1)
               PROVE  (i > 0 /\ c[i] = "w1") <=> (i < n + 1 /\ c[i + 1] = "w2")
    BY <1>1
  <2> HIDE DEF n
  <2>1. CASE i = n + 1
    BY <1>1, <2>1
  <2>2. CASE i = n
    <3>1. ~(i > 0 /\ b[i] = "w1")
      BY <1>1, <1>2, <2>2
    <3>2. i > 0 => c[i] = b[i]
      BY <1>1, <2>2
    <3> QED
      BY <1>1, <2>2, <3>1, <3>2
  <2>3. CASE i # n /\ i # n + 1
    <3>1. i < n /\ i \in 0..n /\ i + 1 \in 1..n /\ (i > 0 => i \in 1..n) /\ i < n + 1
      BY <1>1, <2>3
    <3> QED
      BY <1>1, <1>2, <3>1
  <2> QED
    BY <2>1, <2>2, <2>3
<1>4. WellFormed(c)
  BY <1>3 DEF WellFormed
<1>5. Decoded(c) = DecodeStep(Decoded(b), c[n + 1])
  BY <1>1, <1>4, OneByteMore
<1>6. \A x : DecodeStep(x, "a") = Append(x, Letter)
  BY Zenon DEF DecodeStep
<1> QED
  BY <1>1, <1>4, <1>5, <1>6

\* A letter of two bytes typed.
LEMMA WideTyped ==
  ASSUME NEW b \in Seq(Bytes), WellFormed(b), NEW c, c = b \o Wide
  PROVE  WellFormed(c) /\ Decoded(c) = Append(Decoded(b), Wide)
<1> DEFINE n == Len(b)
<1>1. /\ c \in Seq(Bytes) /\ n \in Nat /\ Len(c) = n + 2 /\ c[n + 1] = "w1" /\ c[n + 2] = "w2"
      /\ Len(c) \in Nat /\ \A i \in 1..n : c[i] = b[i]
  <2>0. Wide \in Seq(Bytes)
    BY LettersBytes
  <2>1. c \in Seq(Bytes) /\ Len(c) = Len(b) + Len(Wide) /\ Len(b) \in Nat
    BY <2>0, Joined
  <2>2. Len(Wide) = 2 /\ Wide[1] = "w1" /\ Wide[2] = "w2"
    BY LettersBytes
  <2>3. \A i \in 1..Len(b) : c[i] = b[i]
    BY <2>0, Joined
  <2>4. c[Len(b) + 1] = "w1" /\ c[Len(b) + 2] = "w2"
    <3>1. \A j \in 1..Len(Wide) : c[Len(b) + j] = Wide[j]
      BY <2>0, Joined
    <3>2. 1 \in 1..Len(Wide) /\ 2 \in 1..Len(Wide)
      BY <2>2
    <3> QED
      BY <2>2, <3>1, <3>2
  <2> QED
    BY <2>1, <2>2, <2>3, <2>4
<1>3. \A i \in 0..n : (i > 0 /\ b[i] = "w1") <=> (i < n /\ b[i + 1] = "w2")
  BY DEF WellFormed
<1>4. \A i \in 0..Len(c) : (i > 0 /\ c[i] = "w1") <=> (i < Len(c) /\ c[i + 1] = "w2")
  <2> SUFFICES ASSUME NEW i \in 0..(n + 2)
               PROVE  (i > 0 /\ c[i] = "w1") <=> (i < n + 2 /\ c[i + 1] = "w2")
    BY <1>1
  <2> HIDE DEF n
  <2>1. CASE i = n + 2
    BY <1>1, <2>1
  <2>2. CASE i = n + 1
    BY <1>1, <2>2
  <2>3. CASE i = n
    <3>1. ~(i > 0 /\ b[i] = "w1")
      BY <1>1, <1>3, <2>3
    <3>2. i > 0 => c[i] = b[i]
      BY <1>1, <2>3
    <3> QED
      BY <1>1, <2>3, <3>1, <3>2
  <2>4. CASE i # n /\ i # n + 1 /\ i # n + 2
    <3>1. i < n /\ i \in 0..n /\ i + 1 \in 1..n /\ (i > 0 => i \in 1..n) /\ i < n + 2
      BY <1>1, <2>4
    <3> QED
      BY <1>1, <1>3, <3>1
  <2> QED
    BY <2>1, <2>2, <2>3, <2>4
<1>5. WellFormed(c)
  BY <1>4 DEF WellFormed
<1>6. Decoded(c) = DecodeStep(DecodeStep(Decoded(b), c[n + 1]), c[n + 2])
  BY <1>1, <1>5, TwoBytesMore
<1>7. \A x : DecodeStep(x, "w1") = Append(x, Wide) /\ DecodeStep(x, "w2") = x
  BY Zenon DEF DecodeStep
<1> QED
  BY <1>1, <1>5, <1>6, <1>7

\* A letter erased, of one byte.
LEMMA LetterErased ==
  ASSUME NEW b \in Seq(Bytes), WellFormed(b), b # <<>>, Last(b) # "w2", NEW c, c = Front(b)
  PROVE  WellFormed(c) /\ Decoded(b) = Append(Decoded(c), Letter)
<1> DEFINE n == Len(c)
<1>1. /\ c \in Seq(Bytes) /\ Len(b) \in Nat \ {0} /\ n = Len(b) - 1
      /\ Last(b) = b[Len(b)] /\ Last(b) \in Bytes /\ \A i \in 1..n : c[i] = b[i]
  BY FrontIs
<1>2. n \in Nat /\ Len(b) = n + 1
  BY <1>1
<1> HIDE DEF n
<1>3. \A i \in 0..(n + 1) : (i > 0 /\ b[i] = "w1") <=> (i < n + 1 /\ b[i + 1] = "w2")
  BY <1>2 DEF WellFormed
<1>4. b[n + 1] = "a"
  <2>1. b[n + 1] # "w1"
    BY <1>2, <1>3
  <2> QED
    BY <1>1, <1>2, <2>1 DEF Bytes
<1>5. \A i \in 0..n : (i > 0 /\ c[i] = "w1") <=> (i < n /\ c[i + 1] = "w2")
  <2> SUFFICES ASSUME NEW i \in 0..n
               PROVE  (i > 0 /\ c[i] = "w1") <=> (i < n /\ c[i + 1] = "w2")
    OBVIOUS
  <2>1. i \in 0..(n + 1) /\ i < n + 1 /\ (i > 0 => i \in 1..n) /\ (i < n => i + 1 \in 1..n)
    BY <1>2
  <2>2. CASE i = n
    <3>1. ~(i > 0 /\ b[i] = "w1")
      BY <1>2, <1>3, <1>4, <2>1, <2>2
    <3>2. i > 0 => c[i] = b[i]
      BY <1>1, <2>1 DEF n
    <3> QED
      BY <1>2, <2>2, <3>1, <3>2
  <2>3. CASE i # n
    <3>1. i < n /\ i + 1 \in 1..n
      BY <1>2, <2>3
    <3>2. c[i + 1] = b[i + 1] /\ (i > 0 => c[i] = b[i])
      BY <1>1, <2>1, <3>1 DEF n
    <3> QED
      BY <1>3, <2>1, <3>1, <3>2
  <2> QED
    BY <2>2, <2>3
<1>6. WellFormed(c)
  BY <1>5 DEF WellFormed, n
<1>7. Decoded(b) = DecodeStep(Decoded(c), b[n + 1])
  <2>1. Len(c) = n /\ \A i \in 1..n : c[i] = b[i]
    BY <1>1 DEF n
  <2> QED
    BY <1>2, <1>6, <2>1, OneByteMore
<1>8. \A x : DecodeStep(x, "a") = Append(x, Letter)
  BY Zenon DEF DecodeStep
<1> QED
  BY <1>4, <1>6, <1>7, <1>8

\* An empty line has no letters.
LEMMA EmptyDecoded == WellFormed(<<>>) /\ Decoded(<<>>) = <<>>
<1>1. Len(<<>>) = 0
  OBVIOUS
<1>2. WellFormed(<<>>)
  BY <1>1 DEF WellFormed
<1>3. PICK f : Decodes(f, <<>>, 0) /\ Decoded(<<>>) = f[0]
  BY <1>1, <1>2, DecodedIs
<1>4. f[0] = <<>>
  BY <1>3, Zenon DEF Decodes
<1> QED
  BY <1>2, <1>3, <1>4

\* Backspace takes the last letter off, where there is one.
LEMMA EditedBack ==
  ASSUME NEW text PROVE Edited(text, Backspace) = IF text = <<>> THEN <<>> ELSE Front(text)
BY LetterKeys, Zenon DEF Edited

\* A letter typed and erased leaves the text as it was.
LEMMA AppendedFront ==
  ASSUME NEW d \in Seq({Letter, Wide}), NEW x \in {Letter, Wide}
  PROVE  Append(d, x) # <<>> /\ Front(Append(d, x)) = d
<1> DEFINE S == {Letter, Wide}
<1>1. d \in Seq(S) /\ x \in S
  OBVIOUS
<1> HIDE DEF S
<1> QED
  BY <1>1, LastRuns

\* A sequence up to its length is itself.
LEMMA WholeSeq ==
  ASSUME NEW S, NEW s \in Seq(S), NEW n, n = Len(s) PROVE SubSeq(s, 1, n) = s
OBVIOUS

\* A captured key that does not mislead does to the line what the shell will do.
LEMMA CaptureFollows ==
  ASSUME NEW l, LineTyped(l), NEW key \in AllKeys, l.atPrompt, ~Misleads(l, key),
         WellFormed(l.input), ~l.escape, NEW m, m = Capture(l, key)
  PROVE  /\ WellFormed(m.input) /\ ~m.escape /\ ~l.entered
         /\ key = Return => m.entered /\ Decoded(m.input) = Decoded(l.input)
         /\ key # Return => Decoded(m.input) = Edited(Decoded(l.input), key)
<1>0. l \in Lines /\ l.input \in Seq(Bytes) /\ InputCap \in Nat /\ Len(l.input) <= InputCap
  BY CapsAssumption DEF LineTyped, Lines
<1>1. /\ ~l.entered /\ key # Escape /\ key # Control
      /\ ~(key = Backspace /\ l.input # <<>> /\ Last(l.input) = "w2")
      /\ ~(key \in {Letter, Wide} /\ Len(l.input \o key) > InputCap)
  BY DEF Misleads
<1>2. ASSUME NEW i PROVE [l EXCEPT !.input = i].input = i /\ [l EXCEPT !.input = i].escape = l.escape
  BY <1>0 DEF Lines
<1>3. CASE key = Return
  <2>1. m = [l EXCEPT !.entered = TRUE]
    BY <1>3, LetterKeys, Zenon DEF Capture
  <2>2. m.input = l.input /\ m.escape = l.escape /\ m.entered = TRUE
    BY <1>0, <2>1 DEF Lines
  <2> QED
    BY <1>1, <1>3, <2>2
<1>4. CASE key = Backspace /\ l.input = <<>>
  <2>1. m = [l EXCEPT !.input = l.input]
    BY <1>4, LetterKeys, Zenon DEF Capture
  <2>2. m.input = <<>> /\ m.escape = l.escape
    BY <1>2, <1>4, <2>1
  <2>3. Decoded(<<>>) = <<>>
    BY EmptyDecoded
  <2>4. Edited(<<>>, Backspace) = <<>>
    BY Zenon DEF Edited
  <2> QED
    BY <1>1, <1>4, <2>2, <2>3, <2>4, LetterKeys
<1>5. CASE key = Backspace /\ l.input # <<>>
  <2> DEFINE c == Front(l.input)
             d == Decoded(c)
  <2>1. m = [l EXCEPT !.input = c]
    BY <1>5, LetterKeys, Zenon DEF Capture
  <2> HIDE DEF c
  <2>2. m.input = c /\ m.escape = l.escape
    BY <1>2, <2>1
  <2>3. WellFormed(c) /\ Decoded(l.input) = Append(d, Letter)
    BY <1>0, <1>1, <1>5, LetterErased DEF c
  <2>4. c \in Seq(Bytes)
    BY <1>0, <1>5, FrontIs DEF c
  <2>5. d \in Seq({Letter, Wide})
    <3>1. Len(c) \in Nat
      BY <2>4
    <3>2. Decoded(c) \in Text
      BY <3>1, DecodedText
    <3> QED
      BY <3>2, Zenon DEF Text
  <2> HIDE DEF d
  <2>6. Append(d, Letter) # <<>> /\ Front(Append(d, Letter)) = d
    BY <2>5, AppendedFront
  <2>7. Edited(Decoded(l.input), key) = d
    BY <1>5, <2>3, <2>6, EditedBack
  <2> QED
    BY <1>1, <1>5, <2>2, <2>3, <2>7, LetterKeys DEF d
<1>6. CASE key \in {Letter, Wide}
  <2> DEFINE all == l.input \o key
             size == IF Len(all) < InputCap THEN Len(all) ELSE InputCap
             i == SubSeq(all, 1, size)
  <2>1. m = [l EXCEPT !.input = i]
    BY <1>6, LetterKeys, Zenon DEF Capture
  <2>2. all \in Seq(Bytes)
    BY <1>0, <1>6, LettersBytes, ConcatProperties
  <2>3. ~(Len(all) > InputCap)
    BY <1>1, <1>6
  <2>4. WellFormed(all) /\ Decoded(all) = Append(Decoded(l.input), key)
    <3>1. CASE key = Letter
      BY <1>0, <3>1, LetterTyped
    <3>2. CASE key = Wide
      BY <1>0, <3>2, WideTyped
    <3> QED
      BY <1>6, <3>1, <3>2
  <2> HIDE DEF all
  <2>5. size = Len(all) /\ Len(all) \in Nat
    BY <1>0, <2>2, <2>3
  <2> HIDE DEF size
  <2>6. i = all
    BY <2>2, <2>5, WholeSeq
  <2>7. m.input = all /\ m.escape = l.escape
    BY <1>2, <2>1, <2>6
  <2>8. Edited(Decoded(l.input), key) = Append(Decoded(l.input), key)
    BY <1>6, LetterKeys, Zenon DEF Edited
  <2> QED
    BY <1>1, <1>6, <2>4, <2>7, <2>8, LetterKeys
<1> QED
  BY <1>1, <1>3, <1>4, <1>5, <1>6, KeyCases

-----------------------------------------------------------------------------
(* What the shell will make of the keys on their way to it.                 *)

\* A key of the line at a row, that edits it.
Edits(k, row) == k.row = row /\ k.key # Return

\* The shell's line after each of the keys sent for a row.
IsTrail(t, text, keys, row) ==
  /\ t[0] = text
  /\ \A k \in 1..Len(keys) : t[k] = IF Edits(keys[k], row) THEN Edited(t[k - 1], keys[k].key)
                                                           ELSE t[k - 1]

Reaches(text, keys, row, end) == \E t : IsTrail(t, text, keys, row) /\ t[Len(keys)] = end

\* A key more.
LEMMA TrailGrows ==
  ASSUME NEW text, NEW keys \in Seq(SentKeys), NEW row, NEW end, Reaches(text, keys, row, end),
         NEW x \in SentKeys, NEW more, more = Append(keys, x),
         NEW new, new = IF Edits(x, row) THEN Edited(end, x.key) ELSE end
  PROVE  Reaches(text, more, row, new)
<1>1. PICK t : IsTrail(t, text, keys, row) /\ t[Len(keys)] = end
  BY DEF Reaches
<1>2. PICK n \in Nat : n = Len(keys)
  OBVIOUS
<1>3. PICK m \in Nat : m = n + 1 /\ m \in 1..m /\ m - 1 = n /\ n # m
  OBVIOUS
<1>4. Len(more) = m /\ more[m] = x /\ \A i \in 1..n : more[i] = keys[i]
  BY <1>2, <1>3, Appended
<1> DEFINE u == [k \in 0..m |-> IF k = m THEN new ELSE t[k]]
<1>5. u[m] = new /\ u[0] = t[0] /\ \A k \in 0..n : u[k] = t[k]
  BY <1>3
<1> HIDE DEF u
<1>6. ASSUME NEW k \in 1..m
      PROVE  u[k] = IF Edits(more[k], row) THEN Edited(u[k - 1], more[k].key) ELSE u[k - 1]
  <2>1. CASE k = m
    <3>1. u[m - 1] = end
      BY <1>1, <1>2, <1>3, <1>5
    <3> QED
      BY <1>4, <1>5, <2>1, <3>1
  <2>2. CASE k # m
    <3>1. k \in 1..n /\ k - 1 \in 0..n /\ k \in 0..n
      BY <1>3, <2>2
    <3>2. t[k] = IF Edits(keys[k], row) THEN Edited(t[k - 1], keys[k].key) ELSE t[k - 1]
      BY <1>1, <1>2, <3>1 DEF IsTrail
    <3> QED
      BY <1>4, <1>5, <3>1, <3>2
  <2> QED
    BY <2>1, <2>2
<1> QED
  BY <1>1, <1>4, <1>5, <1>6 DEF Reaches, IsTrail

\* The shell has read the first of them.
LEMMA TrailShifts ==
  ASSUME NEW text, NEW keys \in Seq(SentKeys), keys # <<>>, NEW row, NEW end,
         Reaches(text, keys, row, end), NEW x, x = Head(keys), NEW rest, rest = Tail(keys),
         NEW new, new = IF Edits(x, row) THEN Edited(text, x.key) ELSE text
  PROVE  Reaches(new, rest, row, end)
<1>1. PICK t : IsTrail(t, text, keys, row) /\ t[Len(keys)] = end
  BY DEF Reaches
<1>2. PICK m \in Nat : m = Len(keys) - 1 /\ Len(keys) = m + 1 /\ 1 \in 1..Len(keys)
  BY TailIs
<1>3. Len(rest) = m /\ x = keys[1] /\ \A i \in 1..m : rest[i] = keys[i + 1]
  BY <1>2, TailIs
<1> DEFINE u == [k \in 0..m |-> t[k + 1]]
<1>4. u[0] = t[1] /\ u[m] = end /\ \A k \in 0..m : u[k] = t[k + 1]
  BY <1>1, <1>2
<1> HIDE DEF u
<1>5. t[1] = IF Edits(keys[1], row) THEN Edited(t[0], keys[1].key) ELSE t[0]
  <2>1. 1 - 1 = 0
    OBVIOUS
  <2> QED
    BY <1>1, <1>2, <2>1, Zenon DEF IsTrail
<1>6. u[0] = new
  BY <1>1, <1>3, <1>4, <1>5 DEF IsTrail
<1>7. ASSUME NEW k \in 1..m
      PROVE  u[k] = IF Edits(rest[k], row) THEN Edited(u[k - 1], rest[k].key) ELSE u[k - 1]
  <2>1. PICK j \in 1..Len(keys) : j = k + 1 /\ j - 1 = k /\ k \in 0..m /\ k - 1 \in 0..m /\ (k - 1) + 1 = k
    BY <1>2
  <2>2. t[j] = IF Edits(keys[j], row) THEN Edited(t[j - 1], keys[j].key) ELSE t[j - 1]
    BY <1>1, <2>1 DEF IsTrail
  <2> QED
    BY <1>3, <1>4, <2>1, <2>2
<1> QED
  BY <1>3, <1>4, <1>6, <1>7 DEF Reaches, IsTrail

\* Keys of other lines leave it.
LEMMA TrailRests ==
  ASSUME NEW text, NEW keys, Len(keys) \in Nat, NEW row, \A k \in 1..Len(keys) : ~Edits(keys[k], row)
  PROVE  Reaches(text, keys, row, text) /\ \A end : Reaches(text, keys, row, end) => end = text
<1>1. PICK n \in Nat : n = Len(keys)
  OBVIOUS
<1>2. Reaches(text, keys, row, text)
  <2> DEFINE t == [k \in 0..n |-> text]
  <2>1. t[0] = text /\ t[n] = text /\ \A k \in 1..n : t[k] = t[k - 1]
    BY <1>1
  <2> HIDE DEF t
  <2> QED
    BY <1>1, <2>1 DEF Reaches, IsTrail
<1>3. ASSUME NEW end, Reaches(text, keys, row, end) PROVE end = text
  <2>1. PICK t : IsTrail(t, text, keys, row) /\ t[n] = end
    BY <1>1, <1>3 DEF Reaches
  <2> DEFINE bad == {k \in 0..n : t[k] # text}
  <2>2. bad \in SUBSET Nat /\ (\A k \in bad : k \in 0..n /\ t[k] # text)
        /\ (\A k \in 0..n : k \notin bad => t[k] = text)
    BY <1>1
  <2> HIDE DEF bad
  <2>3. ASSUME bad # {} PROVE FALSE
    <3>1. PICK m \in bad : \A k \in bad : m <= k
      BY <2>2, <2>3, LeastNumber
    <3>2. t[0] = text
      BY <2>1 DEF IsTrail
    <3>3. m \in 1..n /\ m - 1 \in 0..n /\ m - 1 < m /\ m \in Nat
      <4>1. m # 0 /\ m \in 0..n
        BY <2>2, <3>1, <3>2
      <4> QED
        BY <4>1
    <3>4. m - 1 \notin bad
      BY <3>1, <3>3
    <3>5. t[m] = t[m - 1]
      BY <1>1, <2>1, <3>3 DEF IsTrail
    <3> QED
      BY <2>2, <3>1, <3>3, <3>4, <3>5
  <2> QED
    BY <1>1, <2>1, <2>2, <2>3
<1> QED
  BY <1>2, <1>3

\* The captured line is what the shell's will be once it has read the keys on their
\* way; and nothing follows a return.
Typing(l, keys, text) ==
  /\ Reaches(text, keys, l.row, Decoded(l.input))
  /\ \A i \in 1..Len(keys) : keys[i].row = l.row /\ keys[i].key = Return =>
       l.entered /\ \A j \in 1..Len(keys) : i < j => keys[j].row # l.row

\* A key of the line itself.
LEMMA OwnKey ==
  ASSUME NEW l, LineTyped(l), NEW key \in AllKeys, l.atPrompt, ~Misleads(l, key),
         WellFormed(l.input), ~l.escape, NEW keys \in Seq(SentKeys), NEW text,
         Typing(l, keys, text), NEW m, m = Capture(l, key), NEW x, x = [key |-> key, row |-> l.row],
         NEW more, more = Append(keys, x)
  PROVE  WellFormed(m.input) /\ ~m.escape /\ Typing(m, more, text)
<1>0. l \in Lines /\ l.row \in Prompts
  BY DEF LineTyped, Lines
<1>1. x \in SentKeys /\ x.key = key /\ x.row = l.row
  BY <1>0 DEF SentKeys
<1>2. m.row = l.row
  BY <1>0, CaptureRow
<1>3. /\ WellFormed(m.input) /\ ~m.escape /\ ~l.entered
      /\ key = Return => m.entered /\ Decoded(m.input) = Decoded(l.input)
      /\ key # Return => Decoded(m.input) = Edited(Decoded(l.input), key)
  BY CaptureFollows
<1>4. Decoded(m.input) = IF Edits(x, l.row) THEN Edited(Decoded(l.input), x.key) ELSE Decoded(l.input)
  BY <1>1, <1>3 DEF Edits
<1>5. Reaches(text, more, l.row, Decoded(m.input))
  <2>1. PICK row, end, new : row = l.row /\ end = Decoded(l.input) /\ new = Decoded(m.input)
    OBVIOUS
  <2>2. Reaches(text, keys, row, end)
    BY <2>1 DEF Typing
  <2>3. new = IF Edits(x, row) THEN Edited(end, x.key) ELSE end
    BY <1>4, <2>1
  <2>4. Reaches(text, more, row, new)
    BY <1>1, <2>2, <2>3, TrailGrows
  <2> QED
    BY <2>1, <2>4
<1>6. PICK n \in Nat : n = Len(keys) /\ Len(more) = n + 1 /\ more[n + 1] = x
                       /\ \A i \in 1..n : more[i] = keys[i]
  BY <1>1, Appended
<1>7. ASSUME NEW i \in 1..n + 1, more[i].row = l.row, more[i].key = Return
      PROVE  m.entered /\ \A j \in 1..n + 1 : i < j => more[j].row # l.row
  <2>1. CASE i \in 1..n
    <3>1. l.entered
      BY <1>6, <1>7, <2>1 DEF Typing
    <3> QED
      BY <1>3, <3>1
  <2>2. CASE i = n + 1
    <3>1. key = Return
      BY <1>1, <1>6, <1>7, <2>2
    <3>2. \A j \in 1..n + 1 : ~(i < j)
      BY <2>2
    <3> QED
      BY <1>3, <3>1, <3>2
  <2>3. i \in 1..n \/ i = n + 1
    OBVIOUS
  <2> QED
    BY <2>1, <2>2, <2>3
<1> QED
  BY <1>2, <1>3, <1>5, <1>6, <1>7 DEF Typing

\* A key of another line.
LEMMA OtherKey ==
  ASSUME NEW l, NEW keys \in Seq(SentKeys), NEW text, Typing(l, keys, text),
         NEW x \in SentKeys, x.row # l.row, NEW more, more = Append(keys, x)
  PROVE  Typing(l, more, text)
<1>1. Reaches(text, more, l.row, Decoded(l.input))
  <2>1. ~Edits(x, l.row)
    BY DEF Edits
  <2> QED
    BY <2>1, TrailGrows DEF Typing
<1>2. PICK n \in Nat : n = Len(keys) /\ Len(more) = n + 1 /\ more[n + 1] = x
                       /\ \A i \in 1..n : more[i] = keys[i]
  BY Appended
<1>3. ASSUME NEW i \in 1..n + 1, more[i].row = l.row, more[i].key = Return
      PROVE  l.entered /\ \A j \in 1..n + 1 : i < j => more[j].row # l.row
  <2>1. i \in 1..n
    BY <1>2, <1>3
  <2>2. l.entered /\ \A j \in 1..n : i < j => keys[j].row # l.row
    BY <1>2, <1>3, <2>1 DEF Typing
  <2>3. ASSUME NEW j \in 1..n + 1, i < j PROVE more[j].row # l.row
    <3>1. CASE j = n + 1
      BY <1>2, <3>1
    <3>2. CASE j \in 1..n
      BY <1>2, <2>2, <2>3, <3>2
    <3>3. j = n + 1 \/ j \in 1..n
      OBVIOUS
    <3> QED
      BY <3>1, <3>2, <3>3
  <2> QED
    BY <2>2, <2>3
<1> QED
  BY <1>1, <1>2, <1>3 DEF Typing

\* The shell reads a key of the line.
LEMMA ReadOwn ==
  ASSUME NEW l, NEW keys \in Seq(SentKeys), NEW text, Typing(l, keys, text), keys # <<>>,
         NEW x, x = Head(keys), x.key # Return, x.row = l.row, NEW rest, rest = Tail(keys)
  PROVE  Typing(l, rest, Edited(text, x.key))
<1>1. Reaches(Edited(text, x.key), rest, l.row, Decoded(l.input))
  <2>1. PICK row, end, new : row = l.row /\ end = Decoded(l.input) /\ new = Edited(text, x.key)
    OBVIOUS
  <2>2. Reaches(text, keys, row, end)
    BY <2>1 DEF Typing
  <2>3. new = IF Edits(x, row) THEN Edited(text, x.key) ELSE text
    BY <2>1 DEF Edits
  <2>4. Reaches(new, rest, row, end)
    BY <2>2, <2>3, TrailShifts
  <2> QED
    BY <2>1, <2>4
<1>2. PICK n \in Nat : n = Len(rest) /\ Len(keys) = n + 1 /\ \A i \in 1..n : rest[i] = keys[i + 1]
  <2>1. Len(rest) \in Nat /\ Len(keys) = Len(rest) + 1 /\ \A i \in 1..Len(rest) : rest[i] = keys[i + 1]
    BY TailIs
  <2> QED
    BY <2>1
<1>3. ASSUME NEW i \in 1..n, rest[i].row = l.row, rest[i].key = Return
      PROVE  l.entered /\ \A j \in 1..n : i < j => rest[j].row # l.row
  <2>1. i + 1 \in 1..n + 1 /\ keys[i + 1].row = l.row /\ keys[i + 1].key = Return
    BY <1>2, <1>3
  <2>2. l.entered /\ \A j \in 1..n + 1 : i + 1 < j => keys[j].row # l.row
    BY <1>2, <2>1 DEF Typing
  <2>3. ASSUME NEW j \in 1..n, i < j PROVE rest[j].row # l.row
    <3>1. j + 1 \in 1..n + 1 /\ i + 1 < j + 1
      BY <2>3
    <3> QED
      BY <1>2, <2>2, <3>1
  <2> QED
    BY <2>2, <2>3
<1> QED
  BY <1>1, <1>2, <1>3 DEF Typing

\* The shell accepts the line.
LEMMA ReadReturn ==
  ASSUME NEW l, NEW keys \in Seq(SentKeys), NEW text, Typing(l, keys, text), keys # <<>>,
         NEW x, x = Head(keys), x.key = Return, x.row = l.row
  PROVE  l.entered /\ Decoded(l.input) = text
<1>1. Len(keys) \in Nat /\ 1 \in 1..Len(keys) /\ keys[1] = x
  BY TailIs
<1>2. l.entered /\ \A j \in 1..Len(keys) : 1 < j => keys[j].row # l.row
  BY <1>1 DEF Typing
<1>3. \A k \in 1..Len(keys) : ~Edits(keys[k], l.row)
  <2> SUFFICES ASSUME NEW k \in 1..Len(keys) PROVE ~Edits(keys[k], l.row)
    OBVIOUS
  <2>1. k = 1 \/ 1 < k
    BY <1>1
  <2> QED
    BY <1>1, <1>2, <2>1 DEF Edits
<1>4. Decoded(l.input) = text
  BY <1>1, <1>3, TrailRests DEF Typing
<1> QED
  BY <1>2, <1>4

\* A new line, of which no key has been sent.
LEMMA FreshTyping ==
  ASSUME NEW l, l.input = <<>>, NEW keys, Len(keys) \in Nat,
         \A k \in 1..Len(keys) : keys[k].row # l.row
  PROVE  Typing(l, keys, <<>>)
<1>1. Reaches(<<>>, keys, l.row, <<>>)
  <2>1. \A k \in 1..Len(keys) : ~Edits(keys[k], l.row)
    BY DEF Edits
  <2> QED
    BY <2>1, TrailRests
<1>2. Decoded(l.input) = <<>>
  BY EmptyDecoded
<1> QED
  BY <1>1, <1>2 DEF Typing

\* The shell is at the prompt of a row.
AtRow(row) == shell.at = "prompt" /\ shell.prompt = row

\* It has accepted the line.
Settled(l) == l.row \in DOMAIN accepted /\ Decoded(l.input) = accepted[l.row] /\ l.entered

LineOk(l, keys) ==
  /\ WellFormed(l.input) /\ ~l.escape
  /\ AtRow(l.row) => Typing(l, keys, shell.line)
  /\ ~AtRow(l.row) => Settled(l)

\* What a key sent leaves in place.
LEMMA SendKeyIs ==
  ASSUME NEW s, SentTyped(s), NEW key \in AllKeys, NEW t, t = SendKey(s, key)
  PROVE  /\ t \in [line : Lines, typed : Seq(SentKeys), misled : SUBSET Prompts]
         /\ t.line \in Lines /\ Len(t.line.input) <= InputCap /\ t.typed \in Seq(SentKeys)
         /\ t.misled \in SUBSET Prompts /\ s.misled \subseteq t.misled
         /\ t.line = Capture(s.line, key) /\ t.line.row = s.line.row
         /\ t.line.atPrompt = s.line.atPrompt /\ (~s.line.atPrompt => t.line = s.line)
         /\ t.typed = Append(s.typed, [key |-> key,
                               row |-> IF s.line.atPrompt THEN s.line.row ELSE 0])
         /\ (Misleads(s.line, key) => s.line.row \in t.misled)
<1>1. SentTyped(t)
  BY SendKeyTyped
<1>2. PICK l, k, m : /\ l = Capture(s.line, key)
                     /\ k = Append(s.typed, [key |-> key, row |-> IF s.line.atPrompt THEN s.line.row ELSE 0])
                     /\ m = IF Misleads(s.line, key) THEN s.misled \cup {s.line.row} ELSE s.misled
  OBVIOUS
<1>3. t = [line |-> l, typed |-> k, misled |-> m]
  BY <1>2, Zenon DEF SendKey
<1>4. t.line = l /\ t.typed = k /\ t.misled = m
  BY <1>3
<1>5. s.line \in Lines
  BY DEF SentTyped, LineTyped
<1>6. l.row = s.line.row
  BY <1>2, <1>5, CaptureRow
<1>7. ~s.line.atPrompt => l = s.line
  BY <1>2, Zenon DEF Capture
<1>8. l.atPrompt = s.line.atPrompt
  <2>1. /\ \A e : [s.line EXCEPT !.escape = e].atPrompt = s.line.atPrompt
        /\ \A e : [s.line EXCEPT !.entered = e].atPrompt = s.line.atPrompt
        /\ \A e : [s.line EXCEPT !.input = e].atPrompt = s.line.atPrompt
    BY <1>5 DEF Lines
  <2>2. CASE ~s.line.atPrompt \/ s.line.escape
    BY <1>2, <2>1, <2>2, Zenon DEF Capture
  <2>3. CASE s.line.atPrompt /\ ~s.line.escape /\ key = Escape
    BY <1>2, <2>1, <2>3, Zenon DEF Capture
  <2>4. CASE s.line.atPrompt /\ ~s.line.escape /\ key = Backspace
    BY <1>2, <2>1, <2>4, LetterKeys, Zenon DEF Capture
  <2>5. CASE s.line.atPrompt /\ ~s.line.escape /\ key = Return
    BY <1>2, <2>1, <2>5, LetterKeys, Zenon DEF Capture
  <2>6. CASE s.line.atPrompt /\ ~s.line.escape /\ key = Control
    BY <1>2, <2>6, LetterKeys, Zenon DEF Capture
  <2>7. CASE s.line.atPrompt /\ ~s.line.escape /\ key \notin {Escape, Backspace, Return, Control}
    BY <1>2, <2>1, <2>7, Zenon DEF Capture
  <2> QED
    BY <2>2, <2>3, <2>4, <2>5, <2>6, <2>7
<1>9. s.misled \subseteq m /\ (Misleads(s.line, key) => s.line.row \in m)
  BY <1>2
<1>10. t.line \in Lines /\ Len(t.line.input) <= InputCap /\ t.typed \in Seq(SentKeys)
       /\ t.misled \in SUBSET Prompts
  BY <1>1 DEF SentTyped, LineTyped
<1>11. t \in [line : Lines, typed : Seq(SentKeys), misled : SUBSET Prompts]
  BY <1>3, <1>4, <1>10
<1> QED
  BY <1>2, <1>4, <1>6, <1>7, <1>8, <1>9, <1>10, <1>11

Tagged(row) == {k \in SentKeys : k.row <= row}

\* Keys sent are sent for the line's row or for none, and only at a prompt they are
\* captured.
LEMMA SendKeysKeep ==
  ASSUME Typed, typed \in Seq(Tagged(line.row)), NEW keys \in Seq(AllKeys), SendKeys(keys)
  PROVE  /\ line'.row = line.row /\ line'.atPrompt = line.atPrompt /\ misled \subseteq misled'
         /\ (~line.atPrompt => line' = line) /\ typed' \in Seq(Tagged(line.row))
<1> DEFINE start == [line |-> line, typed |-> typed, misled |-> misled]
           row == line.row
           I == {s \in [line : Lines, typed : Seq(SentKeys), misled : SUBSET Prompts] :
                   /\ Len(s.line.input) <= InputCap /\ s.line.row = row
                   /\ s.line.atPrompt = line.atPrompt /\ misled \subseteq s.misled
                   /\ (~line.atPrompt => s.line = line) /\ s.typed \in Seq(Tagged(row))}
<1>0. row \in Prompts /\ row \in Nat /\ 0 \in Prompts
  BY LineIs, PromptsAre DEF Typed
<1>1. start \in I
  BY DEF Typed, LineTyped
<1>2. ASSUME NEW s \in I, NEW key \in AllKeys PROVE SendKey(s, key) \in I
  <2>1. SentTyped(s) /\ s.line \in Lines /\ s.line.row = row
    BY DEF SentTyped, LineTyped
  <2>2. PICK t : t = SendKey(s, key)
    OBVIOUS
  <2>3. PICK x : x = [key |-> key, row |-> IF s.line.atPrompt THEN s.line.row ELSE 0]
    OBVIOUS
  <2>4. x \in SentKeys /\ x.row <= row
    BY <1>0, <2>1, <2>3 DEF SentKeys
  <2>5. x \in Tagged(row)
    BY <2>4 DEF Tagged
  <2>6. t.typed = Append(s.typed, x)
    BY <2>1, <2>2, <2>3, SendKeyIs
  <2>7. t.typed \in Seq(Tagged(row))
    BY <2>5, <2>6, Appended
  <2>8. /\ t \in [line : Lines, typed : Seq(SentKeys), misled : SUBSET Prompts]
        /\ Len(t.line.input) <= InputCap /\ t.line.row = row
        /\ t.line.atPrompt = s.line.atPrompt /\ s.misled \subseteq t.misled
        /\ (~s.line.atPrompt => t.line = s.line)
    BY <2>1, <2>2, SendKeyIs
  <2> QED
    BY <2>2, <2>7, <2>8
<1>3. Len(keys) \in Nat /\ \A n \in 1..Len(keys) : keys[n] \in AllKeys
  OBVIOUS
<1>4. line' = Sent(start, keys).line /\ typed' = Sent(start, keys).typed /\ misled' = Sent(start, keys).misled
  BY DEF SendKeys
<1> HIDE DEF I, start
<1>5. Sent(start, keys) \in I
  BY <1>1, <1>2, <1>3, SentIn
<1> QED
  BY <1>4, <1>5 DEF I

\* One key that the session and the shell read alike.
LEMMA KeyFollows ==
  ASSUME NEW l, LineTyped(l), l.row # 0, NEW key \in AllKeys, ~Misleads(l, key),
         NEW k \in Seq(SentKeys), LineOk(l, k), NEW m, m = Capture(l, key), m.row = l.row,
         ~l.atPrompt => m = l,
         NEW x, x = [key |-> key, row |-> IF l.atPrompt THEN l.row ELSE 0],
         NEW more, more = Append(k, x)
  PROVE  LineOk(m, more)
<1>1. WellFormed(l.input) /\ ~l.escape
  BY DEF LineOk
<1>2. CASE ~l.atPrompt
  <2>1. x = [key |-> key, row |-> 0]
    BY <1>2
  <2>2. x \in SentKeys /\ x.row # l.row
    BY <2>1, PromptsAre DEF SentKeys
  <2>3. \A text : Typing(l, k, text) => Typing(l, more, text)
    BY <2>2, OtherKey
  <2> QED
    BY <1>2, <2>3 DEF LineOk
<1>3. CASE l.atPrompt
  <2>1. x = [key |-> key, row |-> l.row]
    BY <1>3
  <2>2. AtRow(l.row)
    <3>1. ~l.entered
      BY <1>3 DEF Misleads
    <3> QED
      BY <3>1 DEF LineOk, Settled
  <2>3. PICK text : text = shell.line
    OBVIOUS
  <2>4. Typing(l, k, text)
    BY <2>2, <2>3 DEF LineOk
  <2>5. WellFormed(m.input) /\ ~m.escape /\ Typing(m, more, text)
    BY <1>1, <1>3, <2>1, <2>4, OwnKey
  <2> QED
    BY <2>2, <2>3, <2>5 DEF LineOk
<1> QED
  BY <1>2, <1>3

\* As long as the shell reads the keys the way the session does, the captured line
\* stays the shell's.
LEMMA SendKeysFollow ==
  ASSUME Typed, line.row # 0, line.row \notin missed \cup misled => LineOk(line, typed),
         NEW keys \in Seq(AllKeys), SendKeys(keys)
  PROVE  line.row \notin missed \cup misled' => LineOk(line', typed')
<1> DEFINE start == [line |-> line, typed |-> typed, misled |-> misled]
           row == line.row
           I == {s \in [line : Lines, typed : Seq(SentKeys), misled : SUBSET Prompts] :
                   /\ Len(s.line.input) <= InputCap /\ s.line.row = row
                   /\ row \notin missed \cup s.misled => LineOk(s.line, s.typed)}
<1>0. row \in Prompts /\ row \in Nat /\ 0 \in Prompts
  BY LineIs, PromptsAre DEF Typed
<1>1. start \in I
  BY DEF Typed, LineTyped
<1>2. ASSUME NEW s \in I, NEW key \in AllKeys PROVE SendKey(s, key) \in I
  <2>1. SentTyped(s) /\ LineTyped(s.line) /\ s.line \in Lines /\ s.line.row = row /\ s.typed \in Seq(SentKeys)
    BY DEF SentTyped, LineTyped
  <2>2. PICK t : t = SendKey(s, key)
    OBVIOUS
  <2>3. PICK l, m, k, x :
          /\ l = s.line /\ m = t.line /\ k = s.typed
          /\ x = [key |-> key, row |-> IF s.line.atPrompt THEN s.line.row ELSE 0]
    OBVIOUS
  <2>4. /\ t \in [line : Lines, typed : Seq(SentKeys), misled : SUBSET Prompts]
        /\ Len(t.line.input) <= InputCap /\ t.line.row = row /\ s.misled \subseteq t.misled
        /\ m = Capture(l, key) /\ (~l.atPrompt => m = l) /\ t.typed = Append(k, x)
        /\ (Misleads(l, key) => row \in t.misled)
    BY <2>1, <2>2, <2>3, SendKeyIs
  <2>5. ASSUME row \notin missed \cup t.misled PROVE LineOk(m, t.typed)
    <3>1. LineOk(l, k) /\ ~Misleads(l, key) /\ LineTyped(l) /\ l.row = row /\ m.row = row
          /\ k \in Seq(SentKeys)
      BY <2>1, <2>3, <2>4, <2>5
    <3>2. PICK more : more = t.typed
      OBVIOUS
    <3>3. x = [key |-> key, row |-> IF l.atPrompt THEN l.row ELSE 0]
      BY <2>3
    <3> HIDE DEF I
    <3>4. LineOk(m, more)
      BY <2>4, <3>1, <3>2, <3>3, KeyFollows
    <3> QED
      BY <3>2, <3>4
  <2> QED
    BY <2>2, <2>3, <2>4, <2>5
<1>3. Len(keys) \in Nat /\ \A n \in 1..Len(keys) : keys[n] \in AllKeys
  OBVIOUS
<1>4. line' = Sent(start, keys).line /\ typed' = Sent(start, keys).typed /\ misled' = Sent(start, keys).misled
  BY DEF SendKeys
<1> HIDE DEF I, start
<1>5. Sent(start, keys) \in I
  BY <1>1, <1>2, <1>3, SentIn
<1> QED
  BY <1>4, <1>5 DEF I

-----------------------------------------------------------------------------
(* Whether the captured line is still to become a block.                    *)

\* The place of the mark that makes the line of a row a block.
Takes(row, marks) == 6 * row + (IF marks THEN 2 ELSE 5)

Alive(S, next, p) == p >= next \/ There(S, p)

Live == Alive(Stream, NextPos, Takes(line.row, shell.marksStart))

\* The place is a number.
LEMMA TakesIs ==
  ASSUME NEW row \in Nat, NEW marks
  PROVE  /\ Takes(row, marks) \in Nat
         /\ marks => Takes(row, marks) = 6 * row + 2
         /\ ~marks => Takes(row, marks) = 6 * row + 5
BY DEF Takes

\* It is no place of a link.
LEMMA TakesNoLink ==
  ASSUME NEW row \in Nat, NEW marks, NEW n \in Nat PROVE Takes(row, marks) # 6 * n + 4
<1>1. 6 * row + 2 # 6 * n + 4 /\ 6 * row + 5 # 6 * n + 4
  OBVIOUS
<1> QED
  BY <1>1, TakesIs

\* A mark written keeps the line as it is.
LEMMA AliveWrote ==
  ASSUME NEW S, NEW next \in Int, NEW p \in Nat, NEW e, Pos(e) = next
  PROVE  Alive(S \cup {e}, next + 1, p) <=> Alive(S, next, p)
<1>1. CASE p = next
  BY <1>1 DEF Alive, There
<1>2. CASE p # next
  <2>1. There(S \cup {e}, p) <=> There(S, p)
    BY <1>2 DEF There
  <2>2. p >= next + 1 <=> p >= next
    BY <1>2
  <2> QED
    BY <2>1, <2>2 DEF Alive
<1> QED
  BY <1>1, <1>2

\* So does a place passed without a mark, unless it is the line's own, of a shell that
\* leaves it out.
LEMMA AlivePassed ==
  ASSUME NEW S, NEW from \in Int, NEW to \in Int, NEW skip, Passed(from, to, skip),
         NEW row \in Prompts, NEW marks, NEW p, p = Takes(row, marks)
  PROVE  /\ Alive(S, to, p) => Alive(S, from, p)
         /\ Alive(S, from, p) /\ ~Alive(S, to, p) => marks /\ row \in skip
<1>1. row \in Nat /\ p \in Nat /\ (marks => p = 6 * row + 2) /\ (~marks => p = 6 * row + 5)
  BY PromptsAre, TakesIs
<1>2. from <= to /\ ~(from <= 6 * row + 5 /\ 6 * row + 5 < to)
      /\ (from <= 6 * row + 2 /\ 6 * row + 2 < to => row \in skip)
  BY DEF Passed
<1>3. p >= to => p >= from
  BY <1>1, <1>2
<1>4. p >= from /\ ~(p >= to) => marks /\ row \in skip
  BY <1>1, <1>2
<1> QED
  BY <1>3, <1>4 DEF Alive

\* And a mark of another place that goes.
LEMMA AliveOther ==
  ASSUME NEW S, NEW next \in Int, NEW p \in Nat, NEW x \in S, Pos(x) # p
  PROVE  Alive(S \ {x}, next, p) <=> Alive(S, next, p)
BY DEF Alive, There

\* The mark itself leaves nothing to come.
LEMMA AliveGone ==
  ASSUME NEW S, NEW next \in Int, NEW x \in S, Pos(x) \in Nat, Pos(x) < next,
         Over(S \ {x}, Pos(x))
  PROVE  ~Alive(S \ {x}, next, Pos(x)) /\ Alive(S, next, Pos(x))
BY DEF Alive, There, Over

\* A step of the shell that drops no mark keeps the line as it is, or gives it up.
LEMMA ShellLive ==
  ASSUME Typed, PairInv, ShellStep, dropped' = {}
  PROVE  /\ dropped = {} /\ (Live' => Live)
         /\ Live /\ ~Live' => shell.marksStart /\ line.row \in missed'
<1> DEFINE S == Stream
           next == NextPos
           row == line.row
           p == Takes(row, shell.marksStart)
<1>0. /\ Queues /\ S \in SUBSET Events /\ next \in Int /\ row \in Nat /\ row \in Prompts
      /\ InOrder /\ StreamOk(S, next, row, dropped, Skip)
  BY StreamEvents, NextPosIs, LineIs, PromptsAre DEF Typed, Queues, PairInv, Streams
<1>1. p \in Nat /\ \A n \in Nat : p # 6 * n + 4
  BY <1>0, TakesIs, TakesNoLink
<1>2. PICK later, new, T : /\ later = NextPos' /\ new = Skip' /\ T = Stream' /\ later \in Int
  BY ShellMarks
<1>3. /\ UNCHANGED <<batch, line>> /\ shell'.marksStart = shell.marksStart
      /\ shell.marksStart => new = missed'
  BY <1>2, ShellMarks DEF Skip
<1>4. (Live' <=> Alive(T, later, p)) /\ (Live <=> Alive(S, next, p))
  BY <1>2, <1>3 DEF Live
<1>5. p = Takes(row, shell.marksStart)
  OBVIOUS
<1> HIDE DEF S, next, p, row
<1>6. \/ \E e \in Events : WriteEvent(e) /\ Pos(e) = next /\ Passed(next + 1, later, new)
      \/ UNCHANGED <<events, dropped>> /\ Passed(next, later, new)
  BY <1>2, ShellMarks DEF next
<1>7. ASSUME NEW R, NEW from \in Int, T = R, Passed(from, later, new), Alive(R, from, p) <=> Alive(S, next, p)
      PROVE  /\ Live' => Live
             /\ Live /\ ~Live' => shell.marksStart /\ line.row \in missed'
  <2>1. PICK m : m = shell.marksStart
    OBVIOUS
  <2>2. /\ Alive(R, later, p) => Alive(R, from, p)
        /\ Alive(R, from, p) /\ ~Alive(R, later, p) => m /\ row \in new
    BY <1>0, <1>2, <1>5, <1>7, <2>1, AlivePassed
  <2> QED
    BY <1>3, <1>4, <1>7, <2>1, <2>2 DEF row
<1>8. CASE \E e \in Events : WriteEvent(e) /\ Pos(e) = next /\ Passed(next + 1, later, new)
  <2>1. PICK e \in Events : WriteEvent(e) /\ Pos(e) = next /\ Passed(next + 1, later, new)
    BY <1>8
  <2>2. \A x \in S : Pos(x) < Pos(e)
    BY <1>0, <2>1 DEF StreamOk, Near
  <2>3. \/ Stream' = S \cup {e} /\ dropped' = dropped
        \/ \E x \in S : /\ Stream' = (S \ {x}) \cup {e}
                        /\ dropped \subseteq dropped'
                        /\ x.mark # "link" => x.prompt \in dropped'
    BY <1>0, <1>3, <2>1, <2>2, WriteStream DEF S
  <2>4. CASE Stream' = S \cup {e} /\ dropped' = dropped
    <3>1. Alive(S \cup {e}, next + 1, p) <=> Alive(S, next, p)
      BY <1>0, <1>1, <2>1, AliveWrote
    <3> QED
      BY <1>0, <1>2, <1>7, <2>1, <2>4, <3>1
  <2>5. CASE \E x \in S : /\ Stream' = (S \ {x}) \cup {e}
                          /\ dropped \subseteq dropped'
                          /\ x.mark # "link" => x.prompt \in dropped'
    <3>1. PICK x \in S : Stream' = (S \ {x}) \cup {e} /\ dropped \subseteq dropped' /\ x.mark = "link"
      BY <2>5
    <3>2. Pos(x) # p
      BY <1>0, <1>1, <3>1, PosIs
    <3>3. Alive(S \ {x}, next, p) <=> Alive(S, next, p)
      BY <1>0, <1>1, <3>2, AliveOther
    <3>4. Alive((S \ {x}) \cup {e}, next + 1, p) <=> Alive(S \ {x}, next, p)
      BY <1>0, <1>1, <2>1, AliveWrote
    <3>5. Alive((S \ {x}) \cup {e}, next + 1, p) <=> Alive(S, next, p)
      BY <3>3, <3>4
    <3>6. dropped = {} /\ T = (S \ {x}) \cup {e} /\ next + 1 \in Int
      BY <1>0, <1>2, <3>1
    <3> QED
      BY <1>7, <2>1, <3>5, <3>6
  <2> QED
    BY <2>3, <2>4, <2>5
<1>9. CASE UNCHANGED <<events, dropped>> /\ Passed(next, later, new)
  <2>1. T = S /\ dropped = {}
    BY <1>2, <1>3, <1>9 DEF Stream, S
  <2> QED
    BY <1>0, <1>7, <1>9, <2>1
<1> QED
  BY <1>6, <1>8, <1>9

-----------------------------------------------------------------------------
(* The captured line is the shell's.                                        *)

\* A shell that writes no C has none on the way, and a second one is of a line missed.
RightMarks ==
  {x \in Events : x.mark = "C" => /\ shell.marksStart /\ x.prompt # 0
                                  /\ ~x.ok => x.prompt \in missed}

\* The block has the line the shell accepted at its prompt.
Followed == {b \in Blocks : b.start \notin missed \cup misled =>
                 b.start \in DOMAIN accepted /\ b.command = accepted[b.start]}

Silent(l) == ~l.atPrompt /\ l.input = <<>>

\* What the session has not seen of the shell's prompt it has not captured either.
Plain ==
  /\ accepted \in Seq(Seq(AllKeys))
  /\ Len(accepted) = IF shell.at = "run" THEN shell.prompt ELSE shell.prompt - 1
  /\ typed \in Seq(Tagged(line.row))
  /\ Stream \subseteq RightMarks
  /\ line.row = 0 => Silent(line)
  /\ shell.at = "prompt" /\ shell.prompt > line.row /\ shell.prompt \notin missed => shell.line = <<>>
  /\ \A n \in DOMAIN accepted : n > line.row => n \in missed
  /\ shell.at = "more" => shell.prompt \in missed

LineTrue ==
  line.row # 0 /\ Live =>
    ~Running(blocks) /\ (line.row \notin missed \cup misled => LineOk(line, typed))

Follows ==
  /\ shell.marksStart /\ ~Live => Silent(line) \/ line.row \in missed
  /\ blocks \in Seq(Followed)
  /\ LineTrue

FollowInv == Plain /\ (dropped = {} => Follows)

\* Blocks that follow their lines agree with the property.
LEMMA FollowedLine == FollowInv => LineFollowed
<1> SUFFICES ASSUME FollowInv, NEW i \in DOMAIN blocks,
                    blocks[i].start \notin missed \cup misled, dropped = {}
             PROVE  blocks[i].command = accepted[blocks[i].start]
  BY DEF LineFollowed
<1>1. blocks \in Seq(Followed)
  BY DEF FollowInv, Follows
<1>2. blocks[i] \in Followed
  BY <1>1
<1> QED
  BY <1>2 DEF Followed

\* The parts of the shell.
LEMMA ShellParts ==
  ASSUME Typed
  PROVE  /\ shell \in Shells /\ shell.prompt \in Nat \ {0} /\ line.row \in Nat
         /\ line.row \in Prompts /\ line \in Lines /\ LineTyped(line) /\ typed \in Seq(SentKeys)
BY ShellIs, LineIs, PromptsAre DEF Typed, ShellTyped, LineTyped

\* Of the marks on their way, none but those written are new.
LEMMA ShellRight ==
  ASSUME Typed, PairInv, Plain, ShellStep
  PROVE  Stream' \subseteq RightMarks'
<1>0. /\ Queues /\ InOrder /\ Near(Stream, NextPos, line.row) /\ Stream \subseteq RightMarks
      /\ shell.at = "more" => shell.prompt \in missed
  BY DEF Typed, Queues, PairInv, Streams, StreamOk, Plain
<1>1. UNCHANGED <<batch, line>> /\ shell'.marksStart = shell.marksStart /\ missed \subseteq missed'
  BY ShellMarks
<1>2. RightMarks \subseteq RightMarks'
  BY <1>1 DEF RightMarks, Events, Prompts, Marks
<1>3. CASE \E e \in Events :
             /\ WriteEvent(e) /\ Pos(e) = NextPos /\ (e.mark = "C" => shell.marksStart /\ e.prompt # 0)
             /\ e.mark = "C" /\ ~e.ok => shell.at = "more" /\ e.prompt = shell.prompt
  <2>1. PICK e \in Events :
             /\ WriteEvent(e) /\ Pos(e) = NextPos /\ (e.mark = "C" => shell.marksStart /\ e.prompt # 0)
             /\ e.mark = "C" /\ ~e.ok => shell.at = "more" /\ e.prompt = shell.prompt
    BY <1>3
  <2>2. e \in RightMarks
    BY <1>0, <2>1 DEF RightMarks
  <2>3. \A x \in Stream : Pos(x) < Pos(e)
    BY <1>0, <2>1 DEF Near
  <2>4. Stream' \subseteq Stream \cup {e}
    BY <1>0, <1>1, <2>1, <2>3, WriteStream
  <2> QED
    BY <1>0, <1>2, <2>2, <2>4
<1>4. CASE UNCHANGED events
  BY <1>0, <1>1, <1>2, <1>4 DEF Stream
<1> QED
  BY <1>3, <1>4, ShellMarks

\* Blocks go on following as more prompts are missed and more lines accepted.
LEMMA FollowedMore ==
  ASSUME blocks \in Seq(Followed), blocks' = blocks, missed \subseteq missed', misled \subseteq misled',
         \A n \in DOMAIN accepted : n \in DOMAIN accepted' /\ accepted'[n] = accepted[n]
  PROVE  blocks' \in Seq(Followed')
<1>1. Followed \subseteq Followed'
  BY DEF Followed
<1> QED
  BY <1>1

\* A prompt the shell writes comes before any key it reads at it.
LEMMA WritePromptFollows ==
  ASSUME Typed, PairInv, FollowInv, WritePrompt PROVE FollowInv'
<1>0. /\ shell \in Shells /\ shell.prompt \in Nat \ {0} /\ line.row \in Nat /\ Plain
      /\ 6 * line.row + 1 < NextPos
  BY ShellParts DEF FollowInv, PairInv, Streams, StreamOk, Near
<1>1. UNCHANGED <<typed, accepted, batch, line, blocks, missed, misled>>
  BY DEF WritePrompt, blockVars
<1>2. \/ shell.at = "D" /\ shell' = [shell EXCEPT !.at = "A"]
      \/ shell.at = "A" /\ shell' = [shell EXCEPT !.at = "B"]
      \/ shell.at = "B" /\ shell' = [shell EXCEPT !.at = "prompt", !.line = <<>>]
  BY DEF WritePrompt
<1>3. /\ shell.at \in {"D", "A", "B"} /\ shell'.at \in {"A", "B", "prompt"}
      /\ shell'.at = "prompt" => shell.at = "B" /\ shell'.line = <<>>
      /\ shell'.prompt = shell.prompt /\ shell'.marksStart = shell.marksStart
  BY <1>0, <1>2 DEF Shells
<1>4. Stream' \subseteq RightMarks'
  BY <1>0, ShellRight DEF ShellStep
<1>5. Plain'
  BY <1>0, <1>1, <1>3, <1>4 DEF Plain, Silent, Tagged
<1>6. ASSUME dropped' = {} PROVE Follows'
  <2>1. Follows /\ (Live' => Live) /\ (Live /\ ~Live' => line.row \in missed')
    BY <1>6, ShellLive DEF FollowInv, ShellStep
  <2>2. blocks' \in Seq(Followed')
    BY <1>1, <2>1, FollowedMore DEF Follows
  <2>3. ~AtRow(line.row) /\ ~AtRow(line.row)'
    <3>1. shell.at = "B" => line.row < shell.prompt
      BY <1>0, NextPosIs
    <3> QED
      BY <1>0, <1>1, <1>3, <3>1 DEF AtRow
  <2>4. LineOk(line, typed) => LineOk(line, typed)'
    BY <1>1, <2>3 DEF LineOk, Settled
  <2>5. LineTrue'
    BY <1>1, <2>1, <2>4 DEF Follows, LineTrue, Running
  <2> QED
    BY <1>1, <1>3, <2>1, <2>2, <2>5 DEF Follows, Silent
<1> QED
  BY <1>5, <1>6 DEF FollowInv

\* A key read is one the session captured for the prompt, or the prompt is missed.
LEMMA ReadKeyFollows ==
  ASSUME Typed, PairInv, FollowInv, ReadKey PROVE FollowInv'
<1> DEFINE q == shell.prompt
           x == Head(typed)
           row == line.row
<1>0. /\ shell \in Shells /\ q \in Nat \ {0} /\ row \in Nat /\ Plain
      /\ typed \in Seq(SentKeys) /\ typed \in Seq(Tagged(row))
  BY ShellParts DEF FollowInv, Plain
<1>1. UNCHANGED <<accepted, batch, line, blocks, misled>>
  BY DEF ReadKey, blockVars
<1>2. /\ shell.at \in {"prompt", "more"} /\ typed # <<>> /\ x.key # Return
      /\ shell' = [shell EXCEPT !.line = Edited(shell.line, x.key)] /\ typed' = Tail(typed)
      /\ missed' = IF x.row = q THEN missed ELSE missed \cup {q}
  BY DEF ReadKey
<1>3. /\ shell'.at = shell.at /\ shell'.prompt = q /\ shell'.marksStart = shell.marksStart
      /\ shell'.line = Edited(shell.line, x.key)
  BY <1>0, <1>2 DEF Shells
<1>4. Stream' \subseteq RightMarks'
  BY <1>0, ShellRight DEF ShellStep
<1>5. x \in Tagged(row) /\ x \in SentKeys /\ typed' \in Seq(Tagged(row)) /\ typed' \in Seq(SentKeys)
  BY <1>0, <1>2, TailIs
<1>6. x.row <= row
  BY <1>5 DEF Tagged
<1>7. missed \subseteq missed' /\ (q > row => q \in missed')
  BY <1>0, <1>2, <1>6
<1> HIDE DEF x, q, row
<1>8. Plain'
  <2>1. row' = row /\ q' = q
    BY <1>1, <1>3 DEF row, q
  <2> QED
    BY <1>0, <1>1, <1>3, <1>4, <1>5, <1>7, <2>1 DEF Plain, Silent, Tagged, row, q
<1>9. ASSUME dropped' = {} PROVE Follows'
  <2>1. Follows /\ (Live' => Live) /\ (Live /\ ~Live' => line.row \in missed')
    BY <1>9, ShellLive DEF FollowInv, ShellStep
  <2>2. blocks' \in Seq(Followed')
    BY <1>1, <1>7, <2>1, FollowedMore DEF Follows
  <2>3. AtRow(row)' <=> AtRow(row)
    BY <1>1, <1>3 DEF AtRow, row, q
  <2>4. ASSUME LineOk(line, typed), row \notin missed' PROVE LineOk(line, typed)'
    <3>1. CASE AtRow(row)
      <4>1. q = row /\ x.row = row
        BY <1>2, <2>4, <3>1 DEF AtRow, q
      <4>2. PICK text : text = shell.line
        OBVIOUS
      <4>3. Typing(line, typed, text)
        BY <2>4, <3>1, <4>2 DEF LineOk, row
      <4>4. Typing(line, typed', Edited(text, x.key))
        BY <1>0, <1>2, <4>1, <4>3, ReadOwn DEF x, row
      <4>5. Typing(line, typed, shell.line)'
        BY <1>1, <1>3, <4>2, <4>4 DEF Typing, Reaches, IsTrail
      <4> QED
        BY <1>1, <2>3, <2>4, <3>1, <4>5 DEF LineOk, row
    <3>2. CASE ~AtRow(row)
      BY <1>1, <2>3, <2>4, <3>2 DEF LineOk, Settled, row
    <3> QED
      BY <3>1, <3>2
  <2>5. LineTrue'
    BY <1>1, <1>7, <2>1, <2>4 DEF Follows, LineTrue, Running, row
  <2> QED
    BY <1>1, <1>3, <1>7, <2>1, <2>2, <2>5 DEF Follows, Silent
<1> QED
  BY <1>8, <1>9 DEF FollowInv

\* The line accepted is the captured one, or the prompt is missed.
LEMMA LineTakenFollows ==
  ASSUME Typed, PairInv, FollowInv, AcceptLine \/ GiveUpLine PROVE FollowInv'
<1> DEFINE q == shell.prompt
           x == Head(typed)
           row == line.row
<1>0. /\ shell \in Shells /\ q \in Nat \ {0} /\ row \in Nat /\ Plain
      /\ typed \in Seq(SentKeys) /\ typed \in Seq(Tagged(row)) /\ accepted \in Seq(Seq(AllKeys))
  BY ShellParts DEF FollowInv, Plain
<1>1. UNCHANGED <<batch, line, blocks, misled>>
  BY DEF AcceptLine, GiveUpLine, TakeReturn, blockVars
<1>2. /\ shell.at \in {"prompt", "more"} /\ typed # <<>>
      /\ shell' = [shell EXCEPT !.at = "run"] /\ typed' = Tail(typed)
      /\ missed' \in {missed, missed \cup {q}} /\ (x.row # q => q \in missed')
      /\ \/ accepted' = Append(accepted, shell.line) /\ x.key = Return
         \/ accepted' = Append(accepted, <<>>) /\ q \in missed'
  BY DEF AcceptLine, GiveUpLine, TakeReturn
<1>3. shell'.at = "run" /\ shell'.prompt = q /\ shell'.marksStart = shell.marksStart
      /\ shell.line \in Seq(AllKeys)
  BY <1>0, <1>2 DEF Shells
<1>4. Stream' \subseteq RightMarks'
  BY <1>0, ShellRight DEF ShellStep
<1>5. x \in Tagged(row) /\ x \in SentKeys /\ typed' \in Seq(Tagged(row)) /\ typed' \in Seq(SentKeys)
  BY <1>0, <1>2, TailIs
<1>6. x.row <= row
  BY <1>5 DEF Tagged
<1>7. missed \subseteq missed' /\ (q > row => q \in missed')
  BY <1>0, <1>2, <1>6
<1>8. Len(accepted) = q - 1
  BY <1>0, <1>2 DEF Plain
<1>9. PICK S, text : /\ S = Seq(AllKeys) /\ text \in S /\ accepted' = Append(accepted, text)
                     /\ q \in missed' \/ (x.key = Return /\ text = shell.line)
  <2>1. <<>> \in Seq(AllKeys)
    OBVIOUS
  <2> QED
    BY <1>2, <1>3, <2>1
<1>10. /\ accepted' \in Seq(S) /\ Len(accepted') = q /\ accepted'[q] = text
       /\ DOMAIN accepted = 1..(q - 1) /\ DOMAIN accepted' = 1..q
       /\ \A n \in 1..(q - 1) : accepted'[n] = accepted[n]
  <2>1. accepted \in Seq(S) /\ text \in S /\ accepted' = Append(accepted, text)
    BY <1>0, <1>9
  <2>2. /\ accepted' \in Seq(S) /\ Len(accepted') = Len(accepted) + 1 /\ accepted'[Len(accepted')] = text
        /\ \A i \in 1..Len(accepted) : accepted'[i] = accepted[i]
        /\ DOMAIN accepted = 1..Len(accepted) /\ DOMAIN accepted' = 1..Len(accepted')
    BY <2>1, Appended
  <2>3. Len(accepted') = q
    BY <1>0, <1>8, <2>2
  <2> QED
    BY <1>8, <2>2, <2>3
<1>11. \A n \in 1..q : n \in 1..(q - 1) \/ n = q
  BY <1>0
<1>12. \A n \in 1..(q - 1) : n \in 1..q
  BY <1>0
<1>13. q \in 1..q
  BY <1>0
<1> HIDE DEF x, q, row
<1>14. Plain'
  <2>1. row' = row /\ q' = q
    BY <1>1, <1>3 DEF row, q
  <2>2. \A n \in 1..q : n > row => n \in missed'
    BY <1>0, <1>7, <1>10, <1>11 DEF Plain, row
  <2>3. shell'.at # "prompt" /\ shell'.at # "more"
    BY <1>3
  <2>4. accepted' \in Seq(Seq(AllKeys)) /\ Len(accepted') = shell'.prompt
    BY <1>3, <1>9, <1>10
  <2>5. typed' \in Seq(Tagged(line.row))'
    BY <1>5, <2>1 DEF Tagged, row
  <2>6. (line.row = 0 => Silent(line))'
    BY <1>0, <1>1 DEF Plain, Silent
  <2>7. (\A n \in DOMAIN accepted : n > line.row => n \in missed)'
    BY <1>10, <2>1, <2>2 DEF row
  <2> QED
    BY <1>3, <1>4, <2>3, <2>4, <2>5, <2>6, <2>7 DEF Plain
<1>15. ASSUME dropped' = {} PROVE Follows'
  <2>1. Follows /\ (Live' => Live) /\ (Live /\ ~Live' => line.row \in missed')
    BY <1>15, ShellLive DEF FollowInv, ShellStep
  <2>2. \A n \in DOMAIN accepted : n \in DOMAIN accepted' /\ accepted'[n] = accepted[n]
    BY <1>10, <1>12
  <2>3. blocks' \in Seq(Followed')
    BY <1>1, <1>7, <2>1, <2>2, FollowedMore DEF Follows
  <2>4. ASSUME LineOk(line, typed), row \notin missed' PROVE LineOk(line, typed)'
    <3>1. line.entered /\ row \in DOMAIN accepted' /\ Decoded(line.input) = accepted'[row]
      <4>1. CASE AtRow(row)
        <5>1. q = row /\ x.row = row /\ x.key = Return /\ text = shell.line
          BY <1>2, <1>9, <2>4, <4>1 DEF AtRow, q
        <5>2. Typing(line, typed, text)
          BY <2>4, <4>1, <5>1 DEF LineOk, row
        <5>3. line.entered /\ Decoded(line.input) = text
          BY <1>0, <1>2, <5>1, <5>2, ReadReturn DEF x, row
        <5> QED
          BY <1>10, <1>13, <5>1, <5>3
      <4>2. CASE ~AtRow(row)
        BY <2>2, <2>4, <4>2 DEF LineOk, Settled, row
      <4> QED
        BY <4>1, <4>2
    <3>2. ~AtRow(row)' /\ row' = row
      BY <1>1, <1>3 DEF AtRow, row
    <3>3. Settled(line)'
      BY <1>1, <3>1 DEF Settled, row
    <3> QED
      BY <1>1, <2>4, <3>2, <3>3 DEF LineOk, row
  <2>5. LineTrue'
    BY <1>1, <1>7, <2>1, <2>4 DEF Follows, LineTrue, Running, row
  <2> QED
    BY <1>1, <1>3, <1>7, <2>1, <2>3, <2>5 DEF Follows, Silent, row
<1> QED
  BY <1>14, <1>15 DEF FollowInv

\* A line that goes on is missed.
LEMMA ContinueLineFollows ==
  ASSUME Typed, PairInv, FollowInv, ContinueLine PROVE FollowInv'
<1> DEFINE q == shell.prompt
           row == line.row
<1>0. /\ shell \in Shells /\ q \in Nat \ {0} /\ row \in Nat /\ Plain
      /\ typed \in Seq(SentKeys) /\ typed \in Seq(Tagged(row))
  BY ShellParts DEF FollowInv, Plain
<1>1. UNCHANGED <<accepted, batch, line, blocks, misled>>
  BY DEF ContinueLine, TakeReturn, blockVars
<1>2. /\ shell.at = "prompt" /\ typed # <<>> /\ typed' = Tail(typed)
      /\ shell' = [shell EXCEPT !.at = "more", !.line = Append(shell.line, Return)]
      /\ missed' = missed \cup {q}
  BY DEF ContinueLine, TakeReturn
<1>3. shell'.at = "more" /\ shell'.prompt = q /\ shell'.marksStart = shell.marksStart
  BY <1>0, <1>2 DEF Shells
<1>4. Stream' \subseteq RightMarks'
  BY <1>0, ShellRight DEF ShellStep
<1>5. typed' \in Seq(Tagged(row))
  BY <1>0, <1>2, TailIs
<1>6. missed \subseteq missed' /\ q \in missed' /\ row' = row
  BY <1>1, <1>2
<1> HIDE DEF q, row
<1>7. Plain'
  <2>1. Len(accepted') = IF shell'.at = "run" THEN shell'.prompt ELSE shell'.prompt - 1
    BY <1>0, <1>1, <1>2, <1>3 DEF Plain, q
  <2>2. typed' \in Seq(Tagged(line.row))'
    BY <1>5, <1>6 DEF Tagged, row
  <2> QED
    BY <1>0, <1>1, <1>3, <1>4, <1>6, <2>1, <2>2 DEF Plain, Silent, q
<1>8. ASSUME dropped' = {} PROVE Follows'
  <2>1. Follows /\ (Live' => Live) /\ (Live /\ ~Live' => line.row \in missed')
    BY <1>8, ShellLive DEF FollowInv, ShellStep
  <2>2. blocks' \in Seq(Followed')
    BY <1>1, <1>6, <2>1, FollowedMore DEF Follows
  <2>3. ASSUME LineOk(line, typed), row \notin missed' PROVE LineOk(line, typed)'
    <3>1. ~AtRow(row) /\ ~AtRow(row)'
      BY <1>3, <1>6, <2>3 DEF AtRow, q
    <3> QED
      BY <1>1, <1>6, <2>3, <3>1 DEF LineOk, Settled, row
  <2>4. LineTrue'
    BY <1>1, <1>6, <2>1, <2>3 DEF Follows, LineTrue, Running, row
  <2> QED
    BY <1>1, <1>3, <1>6, <2>1, <2>2, <2>4 DEF Follows, Silent
<1> QED
  BY <1>7, <1>8 DEF FollowInv

\* A command that runs has its line already.
LEMMA RunCommandFollows ==
  ASSUME Typed, PairInv, FollowInv, RunCommand PROVE FollowInv'
<1> DEFINE row == line.row
<1>0. /\ shell \in Shells /\ shell.prompt \in Nat \ {0} /\ row \in Nat /\ Plain
      /\ typed \in Seq(SentKeys) /\ typed \in Seq(Tagged(row))
  BY ShellParts DEF FollowInv, Plain
<1>1. UNCHANGED <<accepted, batch, line, blocks, missed, misled>>
  BY DEF RunCommand, blockVars
<1>2. /\ shell.at = "run"
      /\ \/ typed # <<>> /\ typed' = Tail(typed) /\ shell' = shell
         \/ shell' = [shell EXCEPT !.at = "D", !.prompt = shell.prompt + 1] /\ typed' = typed
  BY DEF RunCommand
<1>3. /\ \/ shell'.at = "run" /\ shell'.prompt = shell.prompt
         \/ shell'.at = "D" /\ shell'.prompt = shell.prompt + 1
      /\ shell'.marksStart = shell.marksStart
  BY <1>0, <1>2 DEF Shells
<1>4. Stream' \subseteq RightMarks'
  BY <1>0, ShellRight DEF ShellStep
<1>5. typed' \in Seq(Tagged(row))
  <2>1. CASE typed # <<>> /\ typed' = Tail(typed)
    BY <1>0, <2>1, TailIs
  <2> QED
    BY <1>0, <1>2, <2>1
<1>6. row' = row
  BY <1>1
<1> HIDE DEF row
<1>7. Plain'
  <2>1. shell'.at # "prompt" /\ shell'.at # "more"
    BY <1>3
  <2>2. Len(accepted) = shell.prompt
    BY <1>0, <1>2 DEF Plain
  <2>3. Len(accepted') = IF shell'.at = "run" THEN shell'.prompt ELSE shell'.prompt - 1
    BY <1>0, <1>1, <1>3, <2>2
  <2>4. typed' \in Seq(Tagged(line.row))'
    BY <1>5, <1>6 DEF Tagged, row
  <2> QED
    BY <1>0, <1>1, <1>4, <2>1, <2>3, <2>4 DEF Plain, Silent
<1>8. ASSUME dropped' = {} PROVE Follows'
  <2>1. Follows /\ (Live' => Live) /\ (Live /\ ~Live' => line.row \in missed')
    BY <1>8, ShellLive DEF FollowInv, ShellStep
  <2>2. blocks' \in Seq(Followed')
    BY <1>1, <2>1, FollowedMore DEF Follows
  <2>3. ~AtRow(row) /\ ~AtRow(row)'
    BY <1>2, <1>3 DEF AtRow
  <2>4. LineOk(line, typed) => LineOk(line, typed)'
    BY <1>1, <2>3 DEF LineOk, Settled, row
  <2>5. LineTrue'
    BY <1>1, <2>1, <2>4 DEF Follows, LineTrue, Running
  <2> QED
    BY <1>1, <1>3, <2>1, <2>2, <2>5 DEF Follows, Silent
<1> QED
  BY <1>7, <1>8 DEF FollowInv

\* What a frame that handles a mark has, when none was dropped.
LEMMA HandledIs ==
  ASSUME Typed, PairInv, FollowInv, NEW mark, Handling(mark), NEW x, x = Head(batch)
  PROVE  /\ shell \in Shells /\ shell.prompt \in Nat \ {0} /\ line.row \in Nat /\ line.row \in Prompts
         /\ line \in Lines /\ Plain /\ (dropped = {} => Follows)
         /\ Stream \in SUBSET Events /\ NextPos \in Int /\ dropped \in SUBSET Prompts
         /\ StreamOk(Stream, NextPos, line.row, dropped, Skip)
         /\ Stream' = Stream \ {x} /\ x \in Stream /\ Over(Stream \ {x}, Pos(x)) /\ x.mark = mark
         /\ x \in Events /\ Pos(x) \in Nat /\ 6 * line.row + 1 < Pos(x) /\ Pos(x) < NextPos
         /\ shell' = shell /\ typed' = typed /\ accepted' = accepted /\ missed' = missed
         /\ misled' = misled /\ dropped' = dropped /\ NextPos' = NextPos
         /\ Stream' \subseteq RightMarks' /\ x \in RightMarks
<1>0. /\ Queues /\ InOrder /\ Stream \in SUBSET Events
      /\ StreamOk(Stream, NextPos, line.row, dropped, Skip)
  BY StreamEvents DEF Typed, Queues, PairInv, Streams
<1>1. /\ Stream' = Stream \ {x} /\ x \in Stream /\ Over(Stream \ {x}, Pos(x)) /\ x.mark = mark
      /\ x \in Events
  BY <1>0, HandledOrder
<1>2. /\ shell' = shell /\ typed' = typed /\ accepted' = accepted /\ missed' = missed
      /\ misled' = misled /\ dropped' = dropped
  BY DEF Handling, shellVars
<1>3. NextPos' = NextPos /\ RightMarks' = RightMarks
  BY <1>2 DEF NextPos, RightMarks
<1>4. Pos(x) \in Nat /\ 6 * line.row + 1 < Pos(x) /\ Pos(x) < NextPos
  BY <1>0, <1>1, PosIs DEF StreamOk, Near, Over
<1>5. Stream \subseteq RightMarks
  BY DEF FollowInv, Plain
<1>6. Stream' \subseteq RightMarks' /\ x \in RightMarks
  BY <1>1, <1>3, <1>5
<1>7. dropped \in SUBSET Prompts
  BY DEF Typed
<1> QED
  BY <1>0, <1>1, <1>2, <1>3, <1>4, <1>6, <1>7, ShellParts, NextPosIs DEF FollowInv

\* A mark that is not the line's leaves it to come.
LEMMA HandledLive ==
  ASSUME Typed, PairInv, FollowInv, NEW mark, Handling(mark), NEW x, x = Head(batch),
         line'.row = line.row, Pos(x) # Takes(line.row, shell.marksStart)
  PROVE  Live' <=> Live
<1>1. /\ line.row \in Nat /\ NextPos \in Int /\ Stream' = Stream \ {x} /\ x \in Stream
      /\ NextPos' = NextPos /\ shell' = shell
  BY HandledIs
<1>2. Takes(line.row, shell.marksStart) \in Nat
  BY <1>1, TakesIs
<1> QED
  BY <1>1, <1>2, AliveOther DEF Live

\* The line's mark leaves nothing to come.
LEMMA HandledGone ==
  ASSUME Typed, PairInv, FollowInv, NEW mark, Handling(mark), NEW x, x = Head(batch),
         line'.row = line.row, Pos(x) = Takes(line.row, shell.marksStart)
  PROVE  Live /\ ~Live'
<1>1. /\ NextPos \in Int /\ Stream' = Stream \ {x} /\ x \in Stream /\ Over(Stream \ {x}, Pos(x))
      /\ NextPos' = NextPos /\ shell' = shell /\ Pos(x) \in Nat /\ Pos(x) < NextPos
  BY HandledIs
<1>2. Live <=> Alive(Stream, NextPos, Pos(x))
  BY DEF Live
<1>3. Live' <=> Alive(Stream \ {x}, NextPos, Pos(x))
  BY <1>1 DEF Live
<1> QED
  BY <1>1, <1>2, <1>3, AliveGone

\* The plain part stays when the row stays and the line is not opened or filled.
LEMMA PlainStays ==
  ASSUME Typed, PairInv, FollowInv, NEW mark, Handling(mark), line'.row = line.row,
         Silent(line) => Silent(line')
  PROVE  Plain'
<1> DEFINE x == Head(batch)
<1>1. /\ shell' = shell /\ typed' = typed /\ accepted' = accepted /\ missed' = missed
      /\ Stream' \subseteq RightMarks' /\ Plain
  BY HandledIs
<1>2. Tagged(line.row)' = Tagged(line.row)
  BY DEF Tagged
<1>3. (line.row = 0 => Silent(line))'
  BY <1>1 DEF Plain, Silent
<1> QED
  BY <1>1, <1>2, <1>3 DEF Plain

\* Marks that leave the line's row, text and blocks.
LEMMA OtherMarkFollows ==
  ASSUME Typed, PairInv, FollowInv, PromptStart \/ OtherEvent PROVE FollowInv'
<1> DEFINE x == Head(batch)
<1>1. PICK mark : Handling(mark) /\ mark \in {"A", "link"}
  BY DEF PromptStart, OtherEvent
<1>2. /\ line.row \in Nat /\ line \in Lines /\ x.mark = mark /\ x \in Events
      /\ shell' = shell /\ typed' = typed /\ accepted' = accepted /\ missed' = missed
      /\ misled' = misled /\ dropped' = dropped /\ (dropped = {} => Follows)
  BY <1>1, HandledIs
<1>3. blocks' = blocks /\ (line' = line \/ line' = [line EXCEPT !.atPrompt = FALSE])
  BY DEF PromptStart, OtherEvent, blockVars
<1>4. /\ line'.row = line.row /\ line'.input = line.input /\ line'.escape = line.escape
      /\ line'.entered = line.entered /\ (~line.atPrompt => ~line'.atPrompt)
  BY <1>2, <1>3 DEF Lines
<1>5. Pos(x) # Takes(line.row, shell.marksStart)
  <2>1. x.prompt \in Nat /\ (Pos(x) = 6 * x.prompt \/ Pos(x) = 6 * x.prompt + 4)
    BY <1>1, <1>2, PosIs
  <2>2. \A n \in Nat : 6 * n # 6 * line.row + 2 /\ 6 * n # 6 * line.row + 5
    BY <1>2
  <2> QED
    BY <1>2, <2>1, <2>2, TakesIs, TakesNoLink
<1>6. Live' <=> Live
  BY <1>1, <1>4, <1>5, HandledLive
<1>7. Plain'
  BY <1>1, <1>4, PlainStays DEF Silent
<1>8. ASSUME dropped' = {} PROVE Follows'
  <2>1. Follows
    BY <1>2, <1>8
  <2>2. blocks' \in Seq(Followed')
    BY <1>2, <1>3, <2>1, FollowedMore DEF Follows
  <2>3. LineOk(line, typed) => LineOk(line, typed)'
    <3>1. \A text : Typing(line, typed, text) => Typing(line', typed, text)
      BY <1>4 DEF Typing
    <3> QED
      BY <1>2, <1>4, <3>1 DEF LineOk, Settled, AtRow, Typing, Reaches, IsTrail
  <2>4. LineTrue'
    BY <1>2, <1>3, <1>4, <1>6, <2>1, <2>3 DEF Follows, LineTrue, Running
  <2> QED
    BY <1>2, <1>4, <1>6, <2>1, <2>2, <2>4 DEF Follows, Silent
<1> QED
  BY <1>7, <1>8 DEF FollowInv

\* Keys of earlier rows are not of a later one.
LEMMA TaggedMore ==
  ASSUME NEW row \in Nat, NEW n \in Nat, row < n
  PROVE  Tagged(row) \subseteq Tagged(n) /\ \A k \in Tagged(row) : k.row # n
<1>1. \A k \in SentKeys : k.row \in Nat
  BY PromptsAre DEF SentKeys
<1> QED
  BY <1>1 DEF Tagged

\* A line begins empty, and so does the shell's, or the prompt was missed.
LEMMA CommandStartFollows ==
  ASSUME Typed, PairInv, FollowInv, CommandStart PROVE FollowInv'
<1> DEFINE x == Head(batch)
           S == Stream
           next == NextPos
           row == line.row
           skip == Skip
<1>0. PICK n : n = x.prompt
  OBVIOUS
<1>1. Handling("B")
  BY DEF CommandStart
<1>2. /\ shell \in Shells /\ shell.prompt \in Nat \ {0} /\ row \in Nat /\ row \in Prompts /\ Plain
      /\ (dropped = {} => Follows) /\ S \in SUBSET Events /\ next \in Int /\ dropped \in SUBSET Prompts
      /\ StreamOk(S, next, row, dropped, skip)
      /\ Stream' = S \ {x} /\ x \in S /\ Over(S \ {x}, Pos(x)) /\ x.mark = "B" /\ x \in Events
      /\ 6 * row + 1 < Pos(x) /\ Pos(x) < next
      /\ shell' = shell /\ typed' = typed /\ accepted' = accepted /\ missed' = missed
      /\ misled' = misled /\ dropped' = dropped /\ NextPos' = next
      /\ Stream' \subseteq RightMarks'
  BY <1>1, HandledIs
<1>3. blocks' = blocks /\ line' = [atPrompt |-> TRUE, escape |-> FALSE, entered |-> FALSE,
                                   input |-> <<>>, row |-> n]
  BY <1>0 DEF CommandStart, blockVars
<1>4. /\ line'.row = n /\ line'.input = <<>> /\ ~line'.escape
  BY <1>3
<1>5. n \in Nat /\ n \in Prompts /\ Pos(x) = 6 * n + 1 /\ row < n
  <2>1. n \in Nat /\ n \in Prompts /\ Pos(x) = 6 * n + 1
    BY <1>0, <1>2, PosIs
  <2> QED
    BY <1>2, <2>1
<1>6. /\ typed \in Seq(Tagged(row)) /\ accepted \in Seq(Seq(AllKeys))
      /\ Len(accepted) = IF shell.at = "run" THEN shell.prompt ELSE shell.prompt - 1
      /\ shell.at = "prompt" /\ shell.prompt > row /\ shell.prompt \notin missed => shell.line = <<>>
      /\ \A k \in DOMAIN accepted : k > row => k \in missed
      /\ shell.at = "more" => shell.prompt \in missed
  BY <1>2 DEF Plain
<1>7. typed \in Seq(Tagged(n)) /\ Len(typed) \in Nat /\ \A k \in 1..Len(typed) : typed[k].row # n
  <2>0. row \in Nat /\ n \in Nat /\ row < n
    BY <1>2, <1>5
  <2>1. Tagged(row) \subseteq Tagged(n) /\ \A k \in Tagged(row) : k.row # n
    BY <2>0, TaggedMore
  <2>2. \A k \in Tagged(row) : k.row # n
    BY <2>1
  <2>3. \A k \in 1..Len(typed) : typed[k] \in Tagged(row)
    BY <1>6
  <2> QED
    BY <1>6, <2>1, <2>2, <2>3
<1>8. ASSUME NEW k \in {2, 5}, NEW f, Kept(S, next, f, k), n \notin f
      PROVE  6 * n + k >= next \/ There(S \ {x}, 6 * n + k)
  <2> SUFFICES ASSUME ~(6 * n + k >= next) PROVE There(S \ {x}, 6 * n + k)
    OBVIOUS
  <2>1. 6 * n + k < next
    BY <1>2, <1>5
  <2>2. There(S, 6 * n + k) \/ Over(S, 6 * n + k)
    BY <1>5, <1>8, <2>1 DEF Kept
  <2>3. ~Over(S, 6 * n + k)
    BY <1>2, <1>5 DEF Over
  <2>4. PICK y \in S : Pos(y) = 6 * n + k
    BY <2>2, <2>3 DEF There
  <2>5. y # x
    BY <1>5, <2>4
  <2> QED
    BY <2>4, <2>5 DEF There
<1>9. Running(blocks) /\ dropped = {} => FALSE
  <2> SUFFICES ASSUME Running(blocks), dropped = {} PROVE FALSE
    OBVIOUS
  <2>1. PICK s : s = Last(blocks).start /\ s \in Prompts /\ s \in Nat
    BY LastStart, PromptsAre
  <2>2. RunsOk(S, next, row, dropped, s)
    BY <2>1 DEF PairInv, Runs
  <2>3. RunsOk(S \ {x}, next, n, dropped, s)
    BY <1>0, <1>2, <1>5, <2>1, <2>2, HandledRuns DEF StreamOk
  <2>4. \A T : ~Cross(T, next, dropped, s)
    BY DEF Cross
  <2>5. s = n /\ s <= row
    BY <2>2, <2>3, <2>4 DEF RunsOk
  <2> QED
    BY <1>2, <1>5, <2>5
<1>10. AtRow(n) \/ n \in DOMAIN accepted \/ n \in missed
  <2>1. /\ shell.at = "D" => 6 * n + 1 < 6 * (shell.prompt - 1) + 5
        /\ shell.at = "A" => 6 * n + 1 < 6 * shell.prompt
        /\ shell.at = "B" => 6 * n + 1 < 6 * shell.prompt + 1
        /\ shell.at = "prompt" => 6 * n + 1 < 6 * shell.prompt + 2
        /\ shell.at = "more" => 6 * n + 1 < 6 * shell.prompt + 3
        /\ shell.at = "run" => 6 * n + 1 < 6 * shell.prompt + 4
    BY <1>2, <1>5, NextPosIs
  <2>2. shell.at \in {"D", "A", "B", "prompt", "more", "run"}
    BY <1>2 DEF Shells
  <2>3. AtRow(n) \/ n \in 1..Len(accepted) \/ n \in missed
    <3>1. CASE shell.at = "run"
      BY <1>2, <1>5, <1>6, <2>1, <3>1
    <3>2. CASE shell.at = "prompt"
      BY <1>2, <1>5, <1>6, <2>1, <3>2 DEF AtRow
    <3>3. CASE shell.at \in {"D", "A", "B"}
      <4>0. n \in Nat /\ n # 0 /\ shell.prompt \in Nat
        BY <1>2, <1>5
      <4>1. n < shell.prompt
        BY <2>1, <3>3, <4>0
      <4>2. Len(accepted) = shell.prompt - 1
        BY <1>6, <3>3
      <4> QED
        BY <4>0, <4>1, <4>2
    <3>4. CASE shell.at = "more"
      <4>0. n \in Nat /\ n # 0 /\ shell.prompt \in Nat /\ n <= shell.prompt
        BY <1>2, <1>5, <2>1, <3>4
      <4>1. Len(accepted) = shell.prompt - 1
        BY <1>6, <3>4
      <4> QED
        BY <1>6, <3>4, <4>0, <4>1
    <3> QED
      BY <2>2, <3>1, <3>2, <3>3, <3>4
  <2> QED
    BY <1>6, <2>3
<1> HIDE DEF S, next, x, skip
<1>11. Plain'
  <2>1. (typed \in Seq(Tagged(line.row)))'
    <3>1. Tagged(line.row)' = Tagged(n)
      BY <1>4 DEF Tagged
    <3> QED
      BY <1>2, <1>7, <3>1
  <2>2. (line.row = 0 => Silent(line))'
    <3>1. n # 0
      BY <1>2, <1>5
    <3> QED
      BY <1>4, <3>1
  <2>3. (shell.at = "prompt" /\ shell.prompt > line.row /\ shell.prompt \notin missed => shell.line = <<>>)'
    BY <1>2, <1>4, <1>5, <1>6
  <2>4. (\A k \in DOMAIN accepted : k > line.row => k \in missed)'
    <3>1. \A k \in DOMAIN accepted : k \in Nat
      BY <1>6
    <3> QED
      BY <1>2, <1>4, <1>5, <1>6, <3>1
  <2> QED
    BY <1>2, <1>6, <2>1, <2>2, <2>3, <2>4 DEF Plain
<1>12. ASSUME dropped' = {} PROVE Follows'
  <2>1. Follows
    BY <1>2, <1>12
  <2>2. blocks' \in Seq(Followed')
    BY <1>2, <1>3, <2>1, FollowedMore DEF Follows
  <2>3. Live' \/ (shell.marksStart /\ n \in missed)
    <3> SUFFICES ASSUME shell.marksStart => n \notin missed PROVE Live'
      OBVIOUS
    <3>1. Kept(S, next, dropped, 5) /\ Kept(S, next, dropped \cup skip, 2)
      BY <1>2 DEF StreamOk
    <3>2. n \notin dropped /\ (shell.marksStart => n \notin dropped \cup skip)
      BY <1>2, <1>12 DEF skip, Skip
    <3>3. /\ 6 * n + 5 >= next \/ There(S \ {x}, 6 * n + 5)
          /\ shell.marksStart => 6 * n + 2 >= next \/ There(S \ {x}, 6 * n + 2)
      BY <1>8, <3>1, <3>2
    <3>4. Alive(S \ {x}, next, Takes(n, shell.marksStart))
      BY <1>5, <3>3, TakesIs DEF Alive
    <3> QED
      BY <1>2, <1>4, <3>4 DEF Live
  <2>4. ASSUME n \notin missed \cup misled PROVE LineOk(line, typed)'
    <3>1. WellFormed(<<>>)
      BY EmptyDecoded
    <3>2. AtRow(n)
      BY <1>5, <1>6, <1>10, <2>4
    <3>3. shell.line = <<>>
      BY <1>5, <1>6, <2>4, <3>2 DEF AtRow
    <3>4. PICK l : l = line'
      OBVIOUS
    <3>5. Typing(l, typed, <<>>)
      BY <1>4, <1>7, <3>4, FreshTyping
    <3>6. Typing(line', typed', shell'.line)
      BY <1>2, <3>3, <3>4, <3>5
    <3>7. Typing(line, typed, shell.line)'
      BY <3>6 DEF Typing, Reaches, IsTrail
    <3>8. AtRow(line.row)'
      BY <1>2, <1>4, <3>2 DEF AtRow
    <3> QED
      BY <1>4, <3>1, <3>7, <3>8 DEF LineOk
  <2>5. LineTrue'
    BY <1>2, <1>3, <1>4, <1>9, <1>12, <2>4 DEF LineTrue, Running
  <2> QED
    BY <1>2, <1>4, <2>2, <2>3, <2>5 DEF Follows
<1> QED
  BY <1>11, <1>12 DEF FollowInv

\* The block a mark makes of the line has the line the shell accepted.
LEMMA NewFollows ==
  ASSUME Typed, Follows, Live, line.row # 0, NextPos > 6 * line.row + 2
  PROVE  ~Running(blocks) /\ NewBlock \in Followed
<1>0. line.row \in Nat
  BY ShellParts
<1>1. ~Running(blocks) /\ (line.row \notin missed \cup misled => LineOk(line, typed))
  BY DEF Follows, LineTrue
<1>2. ~AtRow(line.row)
  BY <1>0, NextPosIs DEF AtRow
<1>3. NewBlock.start = line.row /\ NewBlock.command = Decoded(line.input) /\ NewBlock \in Blocks
  BY NewBlockTyped, NewBlockIs DEF Typed
<1>4. line.row \notin missed \cup misled =>
        line.row \in DOMAIN accepted /\ Decoded(line.input) = accepted[line.row]
  BY <1>1, <1>2 DEF LineOk, Settled
<1> QED
  BY <1>1, <1>3, <1>4 DEF Followed

\* A C makes the line a block at the row it belongs to.
LEMMA OutputStartFollows ==
  ASSUME Typed, PairInv, FollowInv, OutputStart PROVE FollowInv'
<1> DEFINE x == Head(batch)
           S == Stream
           next == NextPos
           row == line.row
<1>0. PICK n : n = x.prompt
  OBVIOUS
<1>1. Handling("C")
  BY DEF OutputStart
<1>2. /\ row \in Nat /\ row \in Prompts /\ line \in Lines /\ Plain
      /\ (dropped = {} => Follows) /\ S \in SUBSET Events /\ next \in Int
      /\ StreamOk(S, next, row, dropped, Skip) /\ Stream' = S \ {x} /\ NextPos' = next
      /\ x \in S /\ Over(S \ {x}, Pos(x)) /\ x.mark = "C" /\ x \in Events
      /\ 6 * row + 1 < Pos(x) /\ Pos(x) < next
      /\ shell' = shell /\ accepted' = accepted /\ missed' = missed
      /\ misled' = misled /\ dropped' = dropped /\ x \in RightMarks
  BY <1>1, HandledIs
<1>3. /\ shell.marksStart /\ n # 0 /\ n \in Nat /\ n \in Prompts
      /\ x.ok => Pos(x) = 6 * n + 2
      /\ ~x.ok => Pos(x) = 6 * n + 3 /\ n \in missed
  <2>1. shell.marksStart /\ n # 0 /\ (~x.ok => n \in missed)
    BY <1>0, <1>2 DEF RightMarks
  <2>2. n \in Nat /\ n \in Prompts
    BY <1>0, <1>2, PosIs
  <2>3. x.ok => Pos(x) = 6 * n + 2
    BY <1>0, <1>2, PosIs
  <2>4. ~x.ok => Pos(x) = 6 * n + 3
    BY <1>0, <1>2, PosIs
  <2> QED
    BY <2>1, <2>2, <2>3, <2>4
<1>4. Started(StartBlock, FALSE)
  BY DEF OutputStart
<1>5. line'.row = line.row /\ ~line'.atPrompt /\ line'.input = StartBlock.input /\ blocks' = StartBlock.list
  BY <1>2, <1>4 DEF Started, Lines
<1>6. Silent(line) => Silent(line')
  <2>1. StartBlock.input = line.input \/ StartBlock.input = <<>>
    BY StartBlockIs
  <2> QED
    BY <1>5, <2>1 DEF Silent
<1>7. Plain'
  BY <1>1, <1>5, <1>6, PlainStays
<1>8. ASSUME dropped' = {} PROVE Follows'
  <2>0. Follows /\ dropped = {} /\ blocks \in Seq(Followed) /\ BlockCap \in Nat \ {0}
    BY <1>2, <1>8, CapsAssumption DEF Follows
  <2>1. n = row
    <3>0. Pos(x) = 6 * n + 2 \/ Pos(x) = 6 * n + 3
      BY <1>3
    <3>1. row <= n
      BY <1>2, <1>3, <3>0
    <3>2. ASSUME row < n PROVE FALSE
      <4>1. Starts(S, next, row, dropped) /\ 6 * n + 1 < next
        BY <1>2, <1>3, <3>0 DEF StreamOk
      <4>2. There(S, 6 * n + 1)
        BY <1>3, <2>0, <3>2, <4>1 DEF Starts
      <4>3. PICK y \in S : Pos(y) = 6 * n + 1
        BY <4>2 DEF There
      <4>4. Pos(x) < Pos(y)
        BY <1>2, <1>3, <3>0, <4>3 DEF Over
      <4> QED
        BY <1>3, <3>0, <4>3, <4>4
    <3> QED
      BY <1>2, <1>3, <3>1, <3>2
  <2>2. Followed' = Followed
    BY <1>2 DEF Followed
  <2>3. CASE x.ok
    <3>1. Pos(x) = Takes(line.row, shell.marksStart)
      BY <1>2, <1>3, <2>1, <2>3, TakesIs
    <3>2. Live /\ ~Live'
      BY <1>1, <1>5, <3>1, HandledGone
    <3>3. NextPos > 6 * line.row + 2 /\ line.row # 0
      BY <1>2, <1>3, <2>1, <2>3
    <3>4. ~Running(blocks) /\ NewBlock \in Followed
      BY <2>0, <3>2, <3>3, NewFollows
    <3>5. blocks' \in Seq(Followed)
      BY <1>5, <2>0, <3>4, StartBlockIn
    <3>6. line'.input = <<>>
      BY <1>5, <3>4, StartBlockIs
    <3>7. Silent(line)'
      BY <1>5, <3>6 DEF Silent
    <3> QED
      BY <2>2, <3>2, <3>5, <3>7 DEF Follows, LineTrue
  <2>4. CASE ~x.ok
    <3>1. line.row \in missed /\ Pos(x) = 6 * row + 3 /\ Takes(line.row, shell.marksStart) = 6 * row + 2
      BY <1>2, <1>3, <2>1, <2>4, TakesIs
    <3>2. ~Live'
      <4>1. ~(6 * row + 2 >= next)
        BY <1>2, <3>1
      <4>2. ~There(S \ {x}, 6 * row + 2)
        <5> SUFFICES ASSUME NEW y \in S \ {x}, Pos(y) = 6 * row + 2 PROVE FALSE
          BY DEF There
        <5>1. Pos(x) < Pos(y)
          BY <1>2 DEF Over
        <5> QED
          BY <1>2, <3>1, <5>1
      <4> QED
        BY <1>2, <1>5, <3>1, <4>1, <4>2 DEF Live, Alive
    <3>3. blocks' \in Seq(Followed)
      <4>1. CASE Running(blocks)
        BY <1>5, <2>0, <4>1, StartBlockIs
      <4>2. CASE ~Running(blocks)
        <5>1. NewBlock \in Blocks /\ NewBlock.start = line.row
          BY NewBlockTyped, NewBlockIs DEF Typed
        <5>2. NewBlock \in Followed
          BY <3>1, <5>1 DEF Followed
        <5> QED
          BY <1>5, <2>0, <4>2, <5>2, StartBlockIn
      <4> QED
        BY <4>1, <4>2
    <3> QED
      BY <1>2, <1>5, <2>2, <3>1, <3>2, <3>3 DEF Follows, LineTrue
  <2> QED
    BY <2>3, <2>4
<1> QED
  BY <1>7, <1>8 DEF FollowInv

\* The end of a block leaves its line.
LEMMA FinishedFollows ==
  ASSUME NEW b \in Followed, NEW e \in Events PROVE Finished(b, e) \in Followed
<1>1. b \in Blocks
  BY DEF Followed
<1>2. PICK f : f = Finished(b, e)
  OBVIOUS
<1>3. f \in Blocks /\ f.command = b.command /\ f.start = b.start
  BY <1>1, <1>2, FinishedIs
<1> QED
  BY <1>2, <1>3 DEF Followed

\* A D of a shell that writes no C makes the line a block too, and ends it.
LEMMA CommandEndFollows ==
  ASSUME Typed, PairInv, FollowInv, CommandEnd PROVE FollowInv'
<1> DEFINE x == Head(batch)
           S == Stream
           next == NextPos
           row == line.row
<1>0. PICK d : d = x.prompt
  OBVIOUS
<1>1. Handling("D")
  BY DEF CommandEnd
<1>2. /\ row \in Nat /\ row \in Prompts /\ line \in Lines /\ Plain
      /\ (dropped = {} => Follows) /\ S \in SUBSET Events /\ next \in Int
      /\ dropped \in SUBSET Prompts
      /\ StreamOk(S, next, row, dropped, Skip) /\ Stream' = S \ {x} /\ NextPos' = next
      /\ x \in S /\ Over(S \ {x}, Pos(x)) /\ x.mark = "D" /\ x \in Events
      /\ 6 * row + 1 < Pos(x) /\ Pos(x) < next
      /\ shell' = shell /\ typed' = typed /\ accepted' = accepted /\ missed' = missed
      /\ misled' = misled /\ dropped' = dropped
  BY <1>1, HandledIs
<1>3. d \in Nat /\ d \in Prompts /\ Pos(x) = 6 * d + 5
  BY <1>0, <1>2, PosIs
<1>4. Followed' = Followed
  BY <1>2 DEF Followed
<1>5. BlockCap \in Nat \ {0}
  BY CapsAssumption
<1>6. CASE Running(blocks) /\ Ends(blocks, x) /\ line' = line
  <2>1. Plain'
    BY <1>1, <1>6, PlainStays
  <2>2. ASSUME dropped' = {} PROVE Follows'
    <3>0. Follows /\ blocks \in Seq(Followed)
      BY <1>2, <2>2 DEF Follows
    <3>1. row = 0 \/ ~Live
      BY <1>6, <3>0 DEF Follows, LineTrue
    <3>2. Live' => Live
      <4>1. CASE Pos(x) = Takes(line.row, shell.marksStart)
        BY <1>1, <1>6, <4>1, HandledGone
      <4>2. CASE Pos(x) # Takes(line.row, shell.marksStart)
        BY <1>1, <1>6, <4>2, HandledLive
      <4> QED
        BY <4>1, <4>2
    <3>3. ~Live => ~Live'
      BY <3>2
    <3>4. shell.marksStart /\ ~Live' => Silent(line) \/ line.row \in missed
      <4>1. CASE row = 0
        BY <1>2, <4>1 DEF Plain
      <4>2. CASE ~Live
        BY <3>0, <4>2 DEF Follows
      <4> QED
        BY <3>1, <4>1, <4>2
    <3>5. blocks # <<>>
      BY <1>6 DEF Running
    <3>6. Last(blocks) \in Followed
      BY <3>0, <3>5, LastIs
    <3>7. blocks' \in Seq(Followed)
      BY <1>2, <1>6, <3>0, <3>5, <3>6, FinishedFollows, EndsIn
    <3>8. LineTrue'
      BY <1>6, <3>1, <3>3 DEF LineTrue
    <3> QED
      BY <1>2, <1>4, <1>6, <3>4, <3>7, <3>8 DEF Follows, Silent
  <2> QED
    BY <2>1, <2>2 DEF FollowInv
<1>7. CASE /\ ~Running(blocks) /\ line.input # <<>> /\ Ends(StartBlock.list, x)
           /\ line' = [line EXCEPT !.input = <<>>, !.entered = FALSE]
  <2>0. line'.row = line.row /\ ~Silent(line)
    BY <1>2, <1>7 DEF Lines, Silent
  <2>1. Plain'
    BY <1>1, <2>0, PlainStays
  <2>2. ASSUME dropped' = {} PROVE Follows'
    <3>0. Follows /\ blocks \in Seq(Followed) /\ dropped = {}
      BY <1>2, <2>2 DEF Follows
    <3>1. d = row
      BY <1>0, <1>2, <3>0, EndsStarted
    <3>2. row # 0 /\ (shell.marksStart => Live \/ row \in missed)
      BY <1>2, <2>0, <3>0 DEF Plain, Follows
    <3>3. ~shell.marksStart \/ (~Live /\ row \in missed)
      <4> SUFFICES ASSUME shell.marksStart, Live PROVE FALSE
        BY <3>2
      <4>1. Alive(S, next, 6 * row + 2)
        BY <1>2, TakesIs DEF Live
      <4>2. ~(6 * row + 2 >= next)
        BY <1>2, <1>3, <3>1
      <4>3. PICK y \in S : Pos(y) = 6 * row + 2
        BY <4>1, <4>2 DEF Alive, There
      <4>4. y # x
        BY <1>2, <1>3, <3>1, <4>3
      <4>5. Pos(x) < Pos(y)
        BY <1>2, <4>3, <4>4 DEF Over
      <4> QED
        BY <1>2, <1>3, <3>1, <4>3, <4>5
    <3>4. ASSUME ~shell.marksStart PROVE NewBlock \in Followed /\ ~Live'
      <4>1. Pos(x) = Takes(line.row, shell.marksStart)
        BY <1>2, <1>3, <3>1, <3>4, TakesIs
      <4>2. Live /\ ~Live'
        BY <1>1, <2>0, <4>1, HandledGone
      <4>3. NextPos > 6 * line.row + 2
        BY <1>2, <1>3, <3>1
      <4> QED
        BY <3>0, <3>2, <4>2, <4>3, NewFollows
    <3>5. ASSUME shell.marksStart, ~Live, row \in missed PROVE NewBlock \in Followed /\ ~Live'
      <4>1. ~Live'
        <5>1. Takes(line.row, shell.marksStart) = 6 * row + 2
          BY <1>2, <3>5, TakesIs
        <5>2. Pos(x) # Takes(line.row, shell.marksStart)
          BY <1>2, <1>3, <3>1, <5>1
        <5> QED
          BY <1>1, <2>0, <3>5, <5>2, HandledLive
      <4>2. NewBlock \in Blocks /\ NewBlock.start = line.row
        BY NewBlockTyped, NewBlockIs DEF Typed
      <4> QED
        BY <3>5, <4>1, <4>2 DEF Followed
    <3>7. NewBlock \in Followed /\ ~Live' /\ (shell.marksStart => row \in missed)
      BY <3>3, <3>4, <3>5
    <3>8. StartBlock.list \in Seq(Followed) /\ StartBlock.list # <<>> /\ Last(StartBlock.list) = NewBlock
      BY <1>5, <1>7, <3>0, <3>7, StartBlockIn
    <3>9. Finished(NewBlock, x) \in Followed
      BY <1>2, <3>7, FinishedFollows
    <3>10. blocks' \in Seq(Followed)
      BY <1>7, <3>8, <3>9, EndsIn
    <3> QED
      BY <1>2, <1>4, <2>0, <3>7, <3>10 DEF Follows, LineTrue
  <2> QED
    BY <2>1, <2>2 DEF FollowInv
<1>8. CASE ~Running(blocks) /\ line.input = <<>> /\ UNCHANGED <<blocks, line>>
  <2>1. Plain'
    BY <1>1, <1>8, PlainStays
  <2>2. ASSUME dropped' = {} PROVE Follows'
    <3>0. Follows /\ blocks' \in Seq(Followed')
      BY <1>2, <1>4, <1>8, <2>2 DEF Follows
    <3>1. CASE Pos(x) = Takes(line.row, shell.marksStart)
      <4>1. Live /\ ~Live'
        BY <1>1, <1>8, <3>1, HandledGone
      <4>2. ~shell.marksStart
        <5>1. 6 * d + 5 # 6 * row + 2
          BY <1>2, <1>3
        <5> QED
          BY <1>2, <1>3, <3>1, <5>1, TakesIs
      <4> QED
        BY <1>2, <3>0, <4>1, <4>2 DEF Follows, LineTrue
    <3>2. CASE Pos(x) # Takes(line.row, shell.marksStart)
      <4>1. Live' <=> Live
        BY <1>1, <1>8, <3>2, HandledLive
      <4>2. LineOk(line, typed)' <=> LineOk(line, typed)
        BY <1>2, <1>8 DEF LineOk, Settled, AtRow, Typing, Reaches, IsTrail
      <4>3. LineTrue'
        BY <1>2, <1>8, <3>0, <4>1, <4>2 DEF Follows, LineTrue, Running
      <4> QED
        BY <1>2, <1>8, <3>0, <4>1, <4>3 DEF Follows, Silent
    <3> QED
      BY <3>1, <3>2
  <2> QED
    BY <2>1, <2>2 DEF FollowInv
<1> HIDE DEF x
<1> QED
  BY <1>6, <1>7, <1>8, CommandEndCases DEF x

\* Keys, as a key press or a command sent again.
LEMMA KeysFollow ==
  ASSUME Typed, FollowInv, NEW keys \in Seq(AllKeys), SendKeys(keys),
         UNCHANGED <<shell, accepted, events, batch, blocks, missed, dropped>>
  PROVE  FollowInv'
<1>0. Plain /\ (dropped = {} => Follows) /\ line.row \in Nat
  BY ShellParts DEF FollowInv
<1>1. /\ line'.row = line.row /\ line'.atPrompt = line.atPrompt /\ misled \subseteq misled'
      /\ (~line.atPrompt => line' = line) /\ typed' \in Seq(Tagged(line.row))
  BY <1>0, SendKeysKeep DEF Plain
<1>2. Stream' = Stream /\ NextPos' = NextPos /\ RightMarks' = RightMarks /\ (Live' <=> Live)
  BY <1>1 DEF Stream, NextPos, RightMarks, Live
<1>3. Silent(line) => Silent(line')
  BY <1>1 DEF Silent
<1>4. Tagged(line.row)' = Tagged(line.row)
  BY <1>1 DEF Tagged
<1>5. Plain'
  <2>1. (line.row = 0 => Silent(line))'
    BY <1>0, <1>1, <1>3 DEF Plain, Silent
  <2> QED
    BY <1>0, <1>1, <1>2, <1>4, <2>1 DEF Plain
<1>6. ASSUME dropped' = {} PROVE Follows'
  <2>1. Follows
    BY <1>0, <1>6
  <2>2. blocks' \in Seq(Followed')
    BY <1>1, <2>1, FollowedMore DEF Follows
  <2>3. (shell.marksStart /\ ~Live => Silent(line) \/ line.row \in missed)'
    BY <1>1, <1>2, <1>3, <2>1 DEF Follows, Silent
  <2>4. ASSUME line.row # 0, Live
        PROVE  ~Running(blocks) /\ (line.row \notin missed \cup misled' => LineOk(line, typed)')
    <3>1. ~Running(blocks) /\ (line.row \notin missed \cup misled => LineOk(line, typed))
      BY <2>1, <2>4 DEF Follows, LineTrue
    <3>2. line.row \notin missed \cup misled' => LineOk(line', typed')
      BY <2>4, <3>1, SendKeysFollow
    <3>3. LineOk(line', typed') => LineOk(line, typed)'
      BY DEF LineOk, Settled, AtRow, Typing, Reaches, IsTrail
    <3> QED
      BY <3>1, <3>2, <3>3
  <2>5. LineTrue'
    BY <1>1, <1>2, <2>4 DEF LineTrue, Running
  <2> QED
    BY <2>2, <2>3, <2>5 DEF Follows
<1> QED
  BY <1>5, <1>6 DEF FollowInv

\* Nothing else of what the user and the frames do touches the line.
LEMMA UserFollows ==
  ASSUME Typed, PairInv, FollowInv, PressKey \/ Drain \/ Jump \/ MenuCommand \/ UNCHANGED vars
  PROVE  FollowInv'
<1>1. CASE \E keys \in Seq(AllKeys) : SendKeys(keys) /\ (PressKey \/ RunAgain)
  <2>1. UNCHANGED <<shell, accepted, events, batch, blocks, missed, dropped>>
    BY <1>1 DEF PressKey, RunAgain, blockVars
  <2> QED
    BY <1>1, <2>1, KeysFollow
<1>2. CASE UNCHANGED <<shell, accepted, line, typed, missed, misled, dropped>>
           /\ Stream' = Stream /\ Running(blocks)' = Running(blocks)
           /\ (blocks \in Seq(Followed) => blocks' \in Seq(Followed))
  <2>1. NextPos' = NextPos /\ RightMarks' = RightMarks /\ (Live' <=> Live) /\ Followed' = Followed
    BY <1>2 DEF NextPos, RightMarks, Live, Followed
  <2>2. Plain' <=> Plain
    BY <1>2, <2>1 DEF Plain, Silent, Tagged
  <2>3. LineOk(line, typed)' <=> LineOk(line, typed)
    BY <1>2 DEF LineOk, Settled, AtRow, Typing, Reaches, IsTrail
  <2>4. LineTrue' <=> LineTrue
    BY <1>2, <2>1, <2>3 DEF LineTrue
  <2>5. Follows => Follows'
    BY <1>2, <2>1, <2>4 DEF Follows, Silent
  <2> QED
    BY <1>2, <2>2, <2>5 DEF FollowInv
<1>3. CASE PressKey
  <2>1. PICK key \in Keys : SendKeys(<<key>>)
    BY <1>3 DEF PressKey
  <2>2. key \in AllKeys
    BY KeysAssumption
  <2>3. <<key>> \in Seq(AllKeys)
    BY <2>2
  <2> QED
    BY <1>1, <1>3, <2>1, <2>3
<1>4. CASE RunAgain
  <2>1. CASE UNCHANGED <<line, typed, misled>>
    <3>1. UNCHANGED <<shell, accepted, line, typed, missed, misled, dropped, events, batch, blocks>>
      BY <1>4, <2>1 DEF RunAgain, blockVars
    <3> QED
      BY <1>2, <3>1 DEF Stream, Running
  <2>2. CASE ~UNCHANGED <<line, typed, misled>>
    <3>1. menu # Closed
      BY <1>4 DEF RunAgain
    <3>2. menu.at \in 1..Len(blocks) /\ blocks \in Seq(Blocks)
      BY <3>1 DEF Typed, BlocksTyped
    <3>3. blocks[menu.at] \in Blocks
      BY <3>2
    <3>4. Append(blocks[menu.at].command, Return) \in Seq(AllKeys)
      BY <3>3, CommandKeys
    <3>5. SendKeys(Append(blocks[menu.at].command, Return))
      BY <1>4, <2>2 DEF RunAgain
    <3> QED
      BY <1>1, <1>4, <3>4, <3>5
  <2> QED
    BY <2>1, <2>2
<1>5. CASE Drain
  <2>1. Stream' = Stream
    BY <1>5, DrainedOrder DEF PairInv, Streams
  <2>2. UNCHANGED <<shell, accepted, line, typed, missed, misled, dropped, blocks>>
    BY <1>5 DEF Drain, shellVars, blockVars, ghosts
  <2> QED
    BY <1>2, <2>1, <2>2 DEF Running
<1>6. CASE ToggleBookmark
  <2>1. UNCHANGED <<shell, accepted, line, typed, missed, misled, dropped, events, batch>>
    BY <1>6 DEF ToggleBookmark, shellVars, ghosts
  <2>2. /\ blocks' \in Seq(Blocks) /\ Len(blocks') = Len(blocks)
        /\ \A i \in 1..Len(blocks) : blocks'[i].command = blocks[i].command
              /\ blocks'[i].start = blocks[i].start
        /\ Running(blocks)' = Running(blocks)
    BY <1>6, BookmarkIs
  <2>3. ASSUME blocks \in Seq(Followed) PROVE blocks' \in Seq(Followed)
    <3>1. ASSUME NEW i \in 1..Len(blocks) PROVE blocks'[i] \in Followed
      <4>1. blocks[i] \in Followed /\ blocks'[i] \in Blocks
        BY <2>2, <2>3
      <4> QED
        BY <2>2, <4>1 DEF Followed
    <3> QED
      BY <2>2, <3>1
  <2> QED
    BY <1>2, <2>1, <2>2, <2>3 DEF Stream
<1>7. CASE Jump \/ OpenMenu \/ CloseMenu \/ UNCHANGED vars
  <2>1. UNCHANGED <<shell, accepted, line, typed, missed, misled, dropped, events, batch, blocks>>
    BY <1>7 DEF Jump, OpenMenu, CloseMenu, vars, shellVars, blockVars, ghosts
  <2> QED
    BY <1>2, <2>1 DEF Stream, Running
<1> QED
  BY <1>3, <1>4, <1>5, <1>6, <1>7 DEF MenuCommand

\* Every step keeps the captured line the shell's.
LEMMA NextFollows ==
  ASSUME Typed, PairInv, FollowInv, [Next]_vars PROVE FollowInv'
BY WritePromptFollows, ReadKeyFollows, LineTakenFollows, ContinueLineFollows, RunCommandFollows, OtherMarkFollows,
   CommandStartFollows, OutputStartFollows, CommandEndFollows, UserFollows DEF Next, Handle

\* It is at the start.
LEMMA InitFollows == ASSUME Init, Typed PROVE FollowInv
<1>0. Earlier \in Nat /\ Earlier \in Prompts
  BY CapsAssumption, PromptsAre
<1>1. PICK m \in BOOLEAN :
       /\ shell = [at |-> IF Earlier = 0 THEN "D" ELSE "A",
                   prompt |-> Earlier + 1, line |-> <<>>, marksStart |-> m]
       /\ line = [atPrompt |-> Earlier > 0 /\ ~m, escape |-> FALSE,
                  entered |-> FALSE, input |-> <<>>, row |-> Earlier]
  BY Zenon DEF Init
<1>2. /\ events = <<>> /\ batch = <<>> /\ typed = <<>> /\ missed = {} /\ misled = {} /\ dropped = {}
      /\ blocks = [i \in 1..Earlier |-> EarlierBlock(i)]
      /\ accepted = [i \in 1..Earlier |-> <<Letter>>]
  BY DEF Init
<1>3. Stream = {}
  <2>1. Range(<<>>) = {}
    BY DEF Range
  <2> QED
    BY <1>2, <2>1 DEF Stream
<1>4. /\ shell.prompt = Earlier + 1 /\ shell.at \notin {"prompt", "more", "run"} /\ line.row = Earlier
      /\ line.input = <<>> /\ (Earlier = 0 => ~line.atPrompt) /\ shell.marksStart = m
      /\ (m => ~line.atPrompt)
  <2>1. PICK a : a = (Earlier > 0 /\ ~m)
    OBVIOUS
  <2>2. line = [atPrompt |-> a, escape |-> FALSE, entered |-> FALSE, input |-> <<>>, row |-> Earlier]
    BY <1>1, <2>1, Zenon
  <2>3. line.atPrompt = a /\ line.input = <<>> /\ line.row = Earlier
    BY <2>2
  <2>4. shell.prompt = Earlier + 1 /\ shell.at \notin {"prompt", "more", "run"}
    BY <1>1
  <2>5. shell.marksStart = m
    BY <1>1, Zenon
  <2>6. (Earlier = 0 => ~line.atPrompt) /\ (m => ~line.atPrompt)
    <3>1. Earlier = 0 => ~(Earlier > 0)
      BY <1>0
    <3> QED
      BY <2>1, <2>3, <3>1, Zenon
  <2> QED
    BY <2>3, <2>4, <2>5, <2>6
<1>5. accepted \in Seq(Seq(AllKeys)) /\ Len(accepted) = Earlier /\ DOMAIN accepted = 1..Earlier
      /\ \A i \in 1..Earlier : accepted[i] = <<Letter>>
  <2>1. <<Letter>> \in Seq(AllKeys)
    BY DEF AllKeys
  <2>2. PICK S, e : S = Seq(AllKeys) /\ e = <<Letter>>
    OBVIOUS
  <2>3. accepted = [i \in 1..Earlier |-> e] /\ e \in S
    BY <1>2, <2>1, <2>2
  <2>4. accepted \in Seq(S) /\ Len(accepted) = Earlier /\ DOMAIN accepted = 1..Earlier
        /\ \A i \in 1..Earlier : accepted[i] = e
    BY <1>0, <2>3
  <2> QED
    BY <2>2, <2>4
<1>6. typed \in Seq(Tagged(line.row))
  BY <1>2
<1>7. \A n \in 1..Earlier : ~(n > Earlier)
  BY <1>0
<1>8. Plain
  <2>1. Len(accepted) = IF shell.at = "run" THEN shell.prompt ELSE shell.prompt - 1
    BY <1>0, <1>4, <1>5
  <2>2. \A n \in DOMAIN accepted : n > line.row => n \in missed
    BY <1>4, <1>5, <1>7
  <2>3. line.row = 0 => Silent(line)
    BY <1>4 DEF Silent
  <2> QED
    BY <1>3, <1>4, <1>5, <1>6, <2>1, <2>2, <2>3 DEF Plain
<1>9. line.row # 0 => ~Live
  <2> SUFFICES ASSUME Earlier # 0 PROVE ~Live
    BY <1>4
  <2>1. shell.at = "A" /\ NextPos = 6 * (Earlier + 1)
    BY <1>0, <1>1 DEF NextPos
  <2>2. PICK p : p = Takes(Earlier, shell.marksStart)
    OBVIOUS
  <2>3. p = 6 * Earlier + 2 \/ p = 6 * Earlier + 5
    BY <1>0, <2>2, TakesIs
  <2>4. ~(p >= NextPos)
    BY <1>0, <2>1, <2>3
  <2> QED
    BY <1>3, <1>4, <2>2, <2>4 DEF Live, Alive, There
<1>10. blocks \in Seq(Followed)
  <2>1. blocks \in Seq(Blocks) /\ Len(blocks) = Earlier
    BY <1>0, <1>2 DEF Typed, BlocksTyped
  <2>2. ASSUME NEW i \in 1..Earlier PROVE blocks[i] \in Followed
    <3>1. blocks[i].start = i /\ blocks[i].command = <<Letter>>
      BY <1>2 DEF EarlierBlock
    <3>2. blocks[i] \in Blocks
      BY <1>0, <2>1
    <3> QED
      BY <1>5, <3>1, <3>2 DEF Followed
  <2> QED
    BY <2>1, <2>2
<1>11. Follows
  BY <1>4, <1>9, <1>10 DEF Follows, LineTrue, Silent
<1> QED
  BY <1>8, <1>11 DEF FollowInv

\* The command of a block is the line the shell accepted at its prompt, in every
\* case but the named ones (TerminalSession.cpp:215-327), whatever the caps, the
\* shell and the keys.
THEOREM LineIsTheShells == Spec => []LineFollowed
<1>1. Init => Typed /\ PairInv /\ FollowInv
  BY InitTyped, InitPairs, InitFollows
<1>2. Typed /\ PairInv /\ FollowInv /\ [Next]_vars => (Typed /\ PairInv /\ FollowInv)'
  BY NextTyped, NextPairs, NextFollows
<1> QED
  BY <1>1, <1>2, FollowedLine, PTL DEF Spec

=============================================================================
