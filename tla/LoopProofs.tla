---------------------------- MODULE LoopProofs ----------------------------
(***************************************************************************)
(* What holds of the window's message loop and of the boxes it opens, of   *)
(* the background requests and of the keys it is sent, for any panes,      *)
(* sessions, bindings and queues.                                          *)
(***************************************************************************)
EXTENDS RenderLoop, Requests, Input, FiniteSetTheorems, SequenceTheorems, TLAPS

-----------------------------------------------------------------------------
(* The render loop.                                                        *)

\* A frame is under way only while it is drawn.
DrawsInFrame == toDraw # {} => ui = "render"

\* NoLostWake must hold while the frame is drawn for it to hold in the sleep
\* that follows.
WakeUnderway ==
  ui \in {"render", "sleep"} /\ dirty =>
    wakes > 0 \/ \E p \in Pane : thread[p] = "post"

\* The wakes posted and about to be posted: only a switch of the flag from off
\* to on adds one, and it is switched off only when none is in the queue.
Posting == {p \in Pane : thread[p] = "post"}
WakesCounted ==
  wakes + Cardinality(Posting) <= Cardinality(Pane) + (IF dirty THEN 1 ELSE 0)

IInv == TypeOK /\ DrawsInFrame /\ StaleIsCovered /\ WakeUnderway /\ WakesCounted

\* A count of threads is a number, and no more than the panes.
LEMMA CountType ==
  ASSUME NEW P \in SUBSET Pane
  PROVE  /\ IsFiniteSet(P) /\ Cardinality(P) \in Nat /\ Cardinality(Pane) \in Nat
         /\ Cardinality(P) <= Cardinality(Pane)
BY PanesAssumption, FS_Subset, FS_CardinalityType

\* The loop starts in the invariant.
LEMMA InitInv == Init => IInv
<1> SUFFICES ASSUME Init PROVE IInv
  OBVIOUS
<1>1. TypeOK /\ DrawsInFrame /\ StaleIsCovered /\ WakeUnderway
  BY DEF Init, TypeOK, DrawsInFrame, StaleIsCovered, WakeUnderway
<1>2. WakesCounted
  <2>1. Posting = {}
    BY DEF Init, Posting
  <2>2. Cardinality(Posting) = 0
    BY <2>1, FS_EmptySet
  <2> QED
    BY <2>2, CountType DEF Init, WakesCounted
<1> QED
  BY <1>1, <1>2 DEF IInv

\* Every step keeps the types.
LEMMA NextType == TypeOK /\ [Next]_vars => TypeOK'
<1> SUFFICES ASSUME TypeOK, [Next]_vars PROVE TypeOK'
  OBVIOUS
<1> USE DEF TypeOK, readerVars, queueVars, uiVars
<1>1. ASSUME NEW p \in Pane, ReaderStep(p) PROVE TypeOK'
  <2>1. CASE TerminalWrite(p)
    BY <2>1 DEF TerminalWrite
  <2>2. CASE MarkDirty(p)
    BY <2>2 DEF MarkDirty
  <2>3. CASE PostWake(p)
    BY <2>3 DEF PostWake
  <2> QED
    BY <1>1, <2>1, <2>2, <2>3 DEF ReaderStep
<1>2. CASE InputArrives
  BY <1>2 DEF InputArrives
<1>3. CASE DispatchWake
  BY <1>3 DEF DispatchWake
<1>4. CASE DispatchInput
  <2>1. wakes' \in Nat /\ inputs' \in Nat /\ ui' \in {"drain", "modal"}
    BY <1>4 DEF DispatchInput
  <2>2. dirty' \in BOOLEAN
    BY <1>4 DEF DispatchInput
  <2>3. didMsg' \in BOOLEAN /\ UNCHANGED <<readerVars, drawn, toDraw>>
    BY <1>4 DEF DispatchInput
  <2> QED
    BY <2>1, <2>2, <2>3
<1>5. ASSUME NEW tick \in BOOLEAN, TakeDirty(tick) PROVE TypeOK'
  BY <1>5 DEF TakeDirty
<1>6. ASSUME NEW p \in Pane, Snapshot(p) PROVE TypeOK'
  BY <1>6 DEF Snapshot
<1>7. CASE FrameEnds \/ Wake \/ ModalEnd \/ Quit \/ Timeout
  BY <1>7 DEF FrameEnds, Wake, ModalEnd, Quit, Timeout
<1>8. CASE ModalDispatch
  BY <1>8 DEF ModalDispatch
<1>9. CASE UNCHANGED vars
  BY <1>9 DEF vars
<1> QED
  BY <1>1, <1>2, <1>3, <1>4, <1>5, <1>6, <1>7, <1>8, <1>9 DEF Next, LoopStep

\* Nothing stale is forgotten.
LEMMA NextStale ==
  TypeOK /\ DrawsInFrame /\ StaleIsCovered /\ [Next]_vars
    => (DrawsInFrame /\ StaleIsCovered)'
<1> SUFFICES ASSUME TypeOK, DrawsInFrame, StaleIsCovered, [Next]_vars
             PROVE  (DrawsInFrame /\ StaleIsCovered)'
  OBVIOUS
<1> USE DEF TypeOK, DrawsInFrame, StaleIsCovered, readerVars, queueVars, uiVars
<1>1. ASSUME NEW p \in Pane, ReaderStep(p) PROVE (DrawsInFrame /\ StaleIsCovered)'
  <2>1. CASE TerminalWrite(p)
    BY <2>1 DEF TerminalWrite
  <2>2. CASE MarkDirty(p)
    BY <2>2 DEF MarkDirty
  <2>3. CASE PostWake(p)
    BY <2>3 DEF PostWake
  <2> QED
    BY <1>1, <2>1, <2>2, <2>3 DEF ReaderStep
<1>2. CASE InputArrives
  BY <1>2 DEF InputArrives
<1>3. CASE DispatchWake
  BY <1>3 DEF DispatchWake
<1>4. CASE DispatchInput
  BY <1>4 DEF DispatchInput
<1>5. ASSUME NEW tick \in BOOLEAN, TakeDirty(tick)
      PROVE  (DrawsInFrame /\ StaleIsCovered)'
  BY <1>5 DEF TakeDirty
<1>6. ASSUME NEW p \in Pane, Snapshot(p) PROVE (DrawsInFrame /\ StaleIsCovered)'
  BY <1>6 DEF Snapshot
<1>7. CASE FrameEnds \/ Wake \/ ModalEnd \/ Quit \/ Timeout
  BY <1>7 DEF FrameEnds, Wake, ModalEnd, Quit, Timeout
<1>8. CASE ModalDispatch
  BY <1>8 DEF ModalDispatch
<1>9. CASE UNCHANGED vars
  BY <1>9 DEF vars
<1> QED
  BY <1>1, <1>2, <1>3, <1>4, <1>5, <1>6, <1>7, <1>8, <1>9 DEF Next, LoopStep

\* No wake-up is lost.
LEMMA NextWake == TypeOK /\ WakeUnderway /\ [Next]_vars => WakeUnderway'
<1> SUFFICES ASSUME TypeOK, WakeUnderway, [Next]_vars PROVE WakeUnderway'
  OBVIOUS
<1> USE DEF TypeOK, WakeUnderway, readerVars, queueVars, uiVars
<1>1. ASSUME NEW p \in Pane, ReaderStep(p) PROVE WakeUnderway'
  <2>1. CASE TerminalWrite(p)
    <3>1. \A q \in Pane : thread[q] = "post" => thread'[q] = "post"
      BY <2>1 DEF TerminalWrite
    <3> QED
      BY <2>1, <3>1 DEF TerminalWrite
  <2>2. CASE MarkDirty(p)
    <3>1. CASE dirty
      <4>1. \A q \in Pane : thread[q] = "post" => thread'[q] = "post"
        BY <2>2 DEF MarkDirty
      <4> QED
        BY <2>2, <3>1, <4>1 DEF MarkDirty
    <3>2. CASE ~dirty
      <4>1. thread'[p] = "post"
        BY <2>2, <3>2 DEF MarkDirty
      <4> QED
        BY <4>1
    <3> QED
      BY <3>1, <3>2
  <2>3. CASE PostWake(p)
    <3>1. wakes' > 0
      BY <2>3 DEF PostWake
    <3> QED
      BY <3>1
  <2> QED
    BY <1>1, <2>1, <2>2, <2>3 DEF ReaderStep
<1>2. CASE InputArrives
  BY <1>2 DEF InputArrives
<1>3. CASE DispatchWake
  BY <1>3 DEF DispatchWake
<1>4. CASE DispatchInput
  BY <1>4 DEF DispatchInput
<1>5. ASSUME NEW tick \in BOOLEAN, TakeDirty(tick) PROVE WakeUnderway'
  BY <1>5 DEF TakeDirty
<1>6. ASSUME NEW p \in Pane, Snapshot(p) PROVE WakeUnderway'
  BY <1>6 DEF Snapshot
<1>7. CASE FrameEnds \/ Wake \/ ModalEnd \/ Quit \/ Timeout
  BY <1>7 DEF FrameEnds, Wake, ModalEnd, Quit, Timeout
<1>8. CASE ModalDispatch
  BY <1>8 DEF ModalDispatch
<1>9. CASE UNCHANGED vars
  BY <1>9 DEF vars
<1> QED
  BY <1>1, <1>2, <1>3, <1>4, <1>5, <1>6, <1>7, <1>8, <1>9 DEF Next, LoopStep

\* The queue stays short.
LEMMA NextCount == TypeOK /\ WakesCounted /\ [Next]_vars => WakesCounted'
<1> SUFFICES ASSUME TypeOK, WakesCounted, [Next]_vars PROVE WakesCounted'
  OBVIOUS
<1>0. /\ Posting \in SUBSET Pane /\ IsFiniteSet(Posting)
      /\ Cardinality(Posting) \in Nat /\ Cardinality(Pane) \in Nat
      /\ Cardinality(Posting) <= Cardinality(Pane)
      /\ wakes \in Nat /\ dirty \in BOOLEAN
  BY CountType DEF Posting, TypeOK
<1>a. ASSUME thread' = thread PROVE Posting' = Posting
  BY <1>a DEF Posting
<1>b. ASSUME thread' = thread, dirty' = dirty, wakes' \in Nat, wakes' <= wakes
      PROVE  WakesCounted'
  <2>1. Cardinality(Posting') = Cardinality(Posting)
    BY <1>b, <1>a
  <2>2. CASE dirty
    BY <1>0, <1>b, <2>1, <2>2 DEF WakesCounted
  <2>3. CASE ~dirty
    BY <1>0, <1>b, <2>1, <2>3 DEF WakesCounted
  <2> QED
    BY <2>2, <2>3
<1>c. ASSUME thread' = thread, ~dirty, dirty', wakes' = wakes + 1
      PROVE  WakesCounted'
  <2>1. Cardinality(Posting') = Cardinality(Posting)
    BY <1>c, <1>a
  <2> QED
    BY <1>0, <1>c, <2>1 DEF WakesCounted
<1>1. ASSUME NEW p \in Pane, TerminalWrite(p) PROVE WakesCounted'
  <2>1. Posting' = Posting /\ wakes' = wakes /\ dirty' = dirty
    BY <1>1 DEF Posting, TerminalWrite, TypeOK, queueVars
  <2> QED
    BY <2>1 DEF WakesCounted
<1>2. ASSUME NEW p \in Pane, MarkDirty(p) PROVE WakesCounted'
  <2>1. p \notin Posting /\ dirty' /\ wakes' = wakes
    BY <1>2 DEF MarkDirty, Posting
  <2>2. CASE dirty
    <3>1. Posting' = Posting
      BY <1>2, <2>2 DEF MarkDirty, Posting, TypeOK
    <3> QED
      BY <2>1, <2>2, <3>1 DEF WakesCounted
  <2>3. CASE ~dirty
    <3>1. Posting' = Posting \cup {p}
      BY <1>2, <2>3 DEF MarkDirty, Posting, TypeOK
    <3>2. Cardinality(Posting') = Cardinality(Posting) + 1
      BY <1>0, <2>1, <3>1, FS_AddElement
    <3> QED
      BY <1>0, <2>1, <2>3, <3>2 DEF WakesCounted
  <2> QED
    BY <2>2, <2>3
<1>3. ASSUME NEW p \in Pane, PostWake(p) PROVE WakesCounted'
  <2>1. p \in Posting /\ dirty' = dirty /\ wakes' = wakes + 1
    BY <1>3 DEF PostWake, Posting
  <2>2. Posting' = Posting \ {p}
    BY <1>3 DEF PostWake, Posting, TypeOK
  <2>3. Cardinality(Posting') = Cardinality(Posting) - 1
    BY <1>0, <2>1, <2>2, FS_RemoveElement
  <2> QED
    BY <1>0, <2>1, <2>3 DEF WakesCounted
<1>4. CASE InputArrives \/ FrameEnds \/ Wake \/ ModalEnd \/ Quit \/ Timeout
           \/ (\E p \in Pane : Snapshot(p)) \/ UNCHANGED vars
  <2>1. thread' = thread /\ dirty' = dirty /\ wakes' = wakes
    BY <1>4 DEF InputArrives, FrameEnds, Wake, ModalEnd, Quit, Timeout,
       Snapshot, vars, readerVars, queueVars, uiVars
  <2>2. wakes' \in Nat /\ wakes' <= wakes
    BY <2>1, <1>0
  <2> QED
    BY <2>1, <2>2, <1>b
<1>5. CASE DispatchWake \/ DispatchInput \/ ModalDispatch
  <2>1. CASE DispatchWake
    <3>1. thread' = thread /\ dirty' = dirty /\ wakes' \in Nat /\ wakes' <= wakes
      BY <1>0, <2>1 DEF DispatchWake, readerVars
    <3> QED
      BY <3>1, <1>b
  <2>2. CASE DispatchInput
    <3>1. thread' = thread
      BY <2>2 DEF DispatchInput, readerVars
    <3>2. \/ dirty' = dirty /\ wakes' = wakes
          \/ ~dirty /\ dirty' /\ wakes' = wakes + 1
      <4>1. CASE dirty
        BY <2>2, <4>1, <1>0 DEF DispatchInput
      <4>2. CASE ~dirty
        BY <2>2, <4>2, <1>0 DEF DispatchInput
      <4> QED
        BY <4>1, <4>2
    <3>3. wakes' = wakes => wakes' \in Nat /\ wakes' <= wakes
      BY <1>0
    <3> QED
      BY <3>1, <3>2, <3>3, <1>b, <1>c
  <2>3. CASE ModalDispatch
    <3>1. thread' = thread /\ dirty' = dirty /\ wakes' \in Nat /\ wakes' <= wakes
      BY <1>0, <2>3 DEF ModalDispatch, readerVars
    <3> QED
      BY <3>1, <1>b
  <2> QED
    BY <1>5, <2>1, <2>2, <2>3
<1>6. ASSUME NEW tick \in BOOLEAN, TakeDirty(tick) PROVE WakesCounted'
  <2>1. thread' = thread /\ wakes' = 0 /\ dirty' = FALSE
    BY <1>6 DEF TakeDirty, readerVars
  <2>2. Posting' = Posting
    BY <2>1 DEF Posting
  <2> QED
    BY <1>0, <2>1, <2>2 DEF WakesCounted
<1> QED
  BY <1>1, <1>2, <1>3, <1>4, <1>5, <1>6 DEF Next, LoopStep, ReaderStep

\* The inductive invariant holds throughout.
LEMMA Invariance == Spec => []IInv
<1>1. IInv /\ [Next]_vars => IInv'
  BY NextType, NextStale, NextWake, NextCount DEF IInv
<1> QED
  BY <1>1, InitInv, PTL DEF Spec

\* Output that is not on screen always has somebody on its way to see to it,
\* however many panes print (RenderSignal.h:24-32, Window.cpp:541-571).
THEOREM StaleCovered == Spec => []StaleIsCovered
<1>1. IInv => StaleIsCovered
  BY DEF IInv
<1> QED
  BY <1>1, Invariance, PTL

\* The loop never sleeps through output.
THEOREM WakeNeverLost == Spec => []NoLostWake
<1>1. IInv => NoLostWake
  BY DEF IInv, WakeUnderway, NoLostWake
<1> QED
  BY <1>1, Invariance, PTL

\* The wakes in the message queue never outnumber the threads by more than one.
THEOREM WakesStayBounded == Spec => []WakesBounded
<1>1. IInv => WakesBounded
  <2> SUFFICES ASSUME IInv PROVE WakesBounded
    OBVIOUS
  <2>1. Cardinality(Posting) \in Nat /\ Cardinality(Pane) \in Nat
    BY CountType DEF Posting
  <2> QED
    BY <2>1 DEF IInv, TypeOK, WakesCounted, WakesBounded
<1> QED
  BY <1>1, Invariance, PTL

\* Both together: the wakes are few, and none is missing.
THEOREM WakesStaySound == Spec => []WakesSound
<1>1. NoLostWake /\ WakesBounded => WakesSound
  BY DEF WakesSound
<1> QED
  BY <1>1, WakeNeverLost, WakesStayBounded, PTL

-----------------------------------------------------------------------------
(* Questions and background requests.                                      *)

Kinds == {"paste", "worktree", "other", "close", "clip", "update", "suggest",
          "confirm"}
Box == [kind : Kinds, about : Session \cup {"none"}, dir : Dir,
        renamed : BOOLEAN, gone : SUBSET Session, left : BOOLEAN, moved : BOOLEAN]

RequestTypes ==
  /\ shells \in Seq(Session)
  /\ shells # <<>> => shown \in 1..Len(shells)
  /\ cwd \in [Session -> Dir]
  /\ aiReady \in BOOLEAN /\ renamed \in BOOLEAN
  /\ aiAnswer \in Dir /\ aiRequestedCwd \in Dir

AnswerKnown == aiReady => renamed \/ aiAnswer = aiRequestedCwd

\* What a box asks about is still so, or what has happened to it since is noted:
\* of the tabs, the shown one, the directories and aiRequestedCwd_ as given.
Stands(b, tabs, at, dirs, from) ==
  /\ b.kind = "suggest" => b.renamed \/ b.dir = from
  /\ b.kind \in {"paste", "clip"} => b.about \in b.gone \/ Contains(tabs, b.about)
  /\ b.kind \in {"close", "confirm"} => b.left \/ (tabs # <<>> /\ b.about = tabs[at])
  /\ b.kind = "confirm" => b.left \/ b.moved \/ b.renamed \/ dirs[b.about] = b.dir

BoxesStand == \A i \in 1..Len(boxes) : Stands(boxes[i], shells, shown, cwd, aiRequestedCwd)

BoxesOk == boxes \in Seq(Box) /\ BoxesStand

RequestsInv == RequestTypes /\ AnswerKnown /\ BoxesOk

\* A directory to start from is one of the directories (a shell starts
\* somewhere).
LEMMA SomeDirIs == SomeDir \in Dir
BY DirAssumption DEF SomeDir

\* A box that has just been opened is one of the boxes.
LEMMA NewBox ==
  ASSUME NEW kind \in Kinds, NEW s \in Session \cup {"none"}
  PROVE  BoxOf(kind, s) \in Box
BY SomeDirIs DEF BoxOf, Box

\* The tabs without the shown one.
LEMMA RemoveTab ==
  ASSUME NEW S, NEW s \in Seq(S), NEW i \in 1..Len(s)
  PROVE  RemoveAt(s, i) \in Seq(S) /\ Len(RemoveAt(s, i)) = Len(s) - 1
<1> DEFINE a == SubSeq(s, 1, i - 1)
           b == SubSeq(s, i + 1, Len(s))
<1>1. a \in Seq(S) /\ Len(a) = i - 1
  BY SubSeqProperties
<1>2. b \in Seq(S) /\ Len(b) = Len(s) - i
  BY SubSeqProperties
<1> HIDE DEF a, b
<1>3. a \o b \in Seq(S) /\ Len(a \o b) = Len(a) + Len(b)
  BY <1>1, <1>2, ConcatProperties
<1>4. Len(s) \in Nat /\ i \in Int
  OBVIOUS
<1>5. Len(a \o b) = Len(s) - 1
  BY <1>1, <1>2, <1>3, <1>4
<1> QED
  BY <1>3, <1>5 DEF RemoveAt, a, b

\* The boxes under the one on top.
LEMMA FrontIs ==
  ASSUME NEW S, NEW s \in Seq(S), s # <<>>
  PROVE  /\ Front(s) \in Seq(S) /\ Len(Front(s)) = Len(s) - 1 /\ Len(s) \in Nat \ {0}
         /\ \A i \in 1..(Len(s) - 1) : Front(s)[i] = s[i]
         /\ Last(s) \in S /\ Last(s) = s[Len(s)]
<1>1. Len(s) \in Nat \ {0}
  OBVIOUS
<1> DEFINE n == Len(s) - 1
<1>2. n \in Nat /\ \A i \in 1..n : s[i] \in S
  BY <1>1
<1> HIDE DEF n
<1>3. /\ SubSeq(s, 1, n) \in Seq(S)
      /\ Len(SubSeq(s, 1, n)) = IF 1 <= n THEN n - 1 + 1 ELSE 0
      /\ \A i \in 1..(n - 1 + 1) : SubSeq(s, 1, n)[i] = s[1 + i - 1]
  BY <1>2, SubSeqProperties
<1>4. Len(SubSeq(s, 1, n)) = n /\ \A i \in 1..n : SubSeq(s, 1, n)[i] = s[i]
  BY <1>2, <1>3
<1> QED
  BY <1>1, <1>3, <1>4 DEF Front, Last, n

\* The tabs at the start.
LEMMA FirstTabs == SetToSeq(Session) \in Seq(Session)
<1>1. Cardinality(Session) \in Nat
  BY SessionAssumption, FS_CardinalityType
<1>2. \E f \in [1..Cardinality(Session) -> Session] : IsInjective(f)
  <2>1. PICK f : f \in Bijection(1..Cardinality(Session), Session)
    BY SessionAssumption, FS_CardinalityType DEF ExistsBijection
  <2>2. f \in [1..Cardinality(Session) -> Session] /\ IsInjective(f)
    BY <2>1 DEF Bijection, Injection, IsInjective
  <2> QED
    BY <2>2
<1>3. SetToSeq(Session) \in [1..Cardinality(Session) -> Session]
  BY <1>2 DEF SetToSeq
<1> QED
  BY <1>1, <1>3

\* At the start no box is open and nothing has been asked.
LEMMA RequestsInvInit == RequestsInit => RequestsInv
<1> SUFFICES ASSUME RequestsInit PROVE RequestsInv
  OBVIOUS
<1>1. shells \in Seq(Session) /\ boxes = <<>>
  BY FirstTabs DEF RequestsInit
<1>2. shells # <<>> => shown \in 1..Len(shells)
  BY <1>1 DEF RequestsInit
<1>3. RequestTypes
  <2>1. cwd \in [Session -> Dir] /\ aiAnswer \in Dir /\ aiRequestedCwd \in Dir
    BY SomeDirIs DEF RequestsInit
  <2>2. aiReady \in BOOLEAN /\ renamed \in BOOLEAN
    BY DEF RequestsInit
  <2> QED
    BY <1>1, <1>2, <2>1, <2>2 DEF RequestTypes
<1>4. boxes \in Seq(Box) /\ Len(boxes) = 0
  BY <1>1, EmptySeq
<1>5. BoxesOk
  BY <1>4 DEF BoxesOk, BoxesStand
<1>6. AnswerKnown
  BY DEF RequestsInit, AnswerKnown
<1> QED
  BY <1>3, <1>5, <1>6 DEF RequestsInv


\* A step that leaves alone what the boxes are about keeps them sound: it opens
\* no box, or closes the one on top, or opens one that stands and asks about
\* nothing below.
Around == <<shells, shown, cwd, aiRequestedCwd>>

\* A step that leaves the boxes, and what they stand for, alone keeps them
\* standing.
LEMMA BoxesKept ==
  ASSUME BoxesOk, UNCHANGED <<Around, boxes>> PROVE BoxesOk'
BY DEF BoxesOk, BoxesStand, Around

\* The box in front is answered and the one below it comes to the front.
LEMMA BoxClosed ==
  ASSUME BoxesOk, UNCHANGED Around, boxes # <<>>, boxes' = Below PROVE BoxesOk'
<1> USE DEF BoxesOk
<1>1. /\ boxes' \in Seq(Box) /\ Len(boxes') = Len(boxes) - 1 /\ Len(boxes) \in Nat
      /\ \A i \in 1..Len(boxes') : boxes'[i] = boxes[i] /\ i \in 1..Len(boxes)
  BY FrontIs DEF Below
<1>2. BoxesStand'
  BY <1>1 DEF BoxesStand, Around
<1> QED
  BY <1>1, <1>2

\* A box opened over the others stands for the state it was opened in; the
\* ones below keep what they stood for.
LEMMA BoxOpened ==
  ASSUME BoxesOk, UNCHANGED Around,
         NEW b \in Box, boxes' = Append(boxes, b),
         Stands(b, shells, shown, cwd, aiRequestedCwd)
  PROVE  BoxesOk'
<1> USE DEF BoxesOk
<1>1. /\ boxes' \in Seq(Box) /\ Len(boxes') = Len(boxes) + 1 /\ Len(boxes) \in Nat
      /\ \A i \in 1..Len(boxes) : boxes'[i] = boxes[i]
      /\ boxes'[Len(boxes) + 1] = b
  BY AppendProperties
<1>2. BoxesStand'
  BY <1>1 DEF BoxesStand, Around
<1> QED
  BY <1>1, <1>2

\* The shown tab closes; the one shown after it is there, if any is.
LEMMA CloseShownTypes ==
  ASSUME RequestTypes, shells # <<>>, CloseShown
  PROVE  shells' \in Seq(Session) /\ (shells' # <<>> => shown' \in 1..Len(shells'))
<1>1. /\ shells \in Seq(Session) /\ shown \in 1..Len(shells) /\ Len(shells) \in Nat
      /\ shells' = RemoveAt(shells, shown)
      /\ shown' = IF shown > Len(shells) - 1 THEN Len(shells) - 1 ELSE shown
  BY DEF RequestTypes, CloseShown
<1>2. shells' \in Seq(Session) /\ Len(shells') = Len(shells) - 1
  BY <1>1, RemoveTab
<1>3. shells' # <<>> => Len(shells') >= 1
  BY <1>2
<1> QED
  BY <1>1, <1>2, <1>3

\* Whoever had a tab still has it once another one is removed.
LEMMA OthersStay ==
  ASSUME NEW S, NEW s \in Seq(S), NEW i \in 1..Len(s), NEW x, Contains(s, x), x # s[i]
  PROVE  Contains(RemoveAt(s, i), x)
<1> DEFINE a == SubSeq(s, 1, i - 1)
           b == SubSeq(s, i + 1, Len(s))
<1>1. a \in Seq(S) /\ Len(a) = i - 1 /\ \A k \in 1..(i - 1) : a[k] = s[k]
  BY SubSeqProperties
<1>2. b \in Seq(S) /\ Len(b) = Len(s) - i /\ \A k \in 1..(Len(s) - i) : b[k] = s[i + k]
  BY SubSeqProperties
<1> HIDE DEF a, b
<1>3. Len(s) \in Nat /\ i \in Nat \ {0} /\ i <= Len(s)
  OBVIOUS
<1> DEFINE c == a \o b
<1>4. /\ Len(c) = Len(s) - 1
      /\ \A k \in 1..Len(c) : c[k] = IF k <= Len(a) THEN a[k] ELSE b[k - Len(a)]
  <2>1. /\ Len(a \o b) = Len(a) + Len(b)
        /\ \A k \in 1..(Len(a) + Len(b)) :
             (a \o b)[k] = IF k <= Len(a) THEN a[k] ELSE b[k - Len(a)]
    BY <1>1, <1>2, ConcatProperties
  <2>2. Len(a) + Len(b) = Len(s) - 1
    BY <1>1, <1>2, <1>3
  <2> QED
    BY <2>1, <2>2
<1> HIDE DEF c
<1>5. PICK k \in 1..Len(s) : s[k] = x
  BY DEF Contains
<1>6. k # i
  BY <1>5
<1>7. \E m \in 1..Len(c) : c[m] = x
  <2>1. CASE k <= i - 1
    <3>1. k \in 1..Len(c) /\ k \in 1..(i - 1) /\ k <= Len(a)
      BY <1>1, <1>3, <1>4, <2>1
    <3>2. c[k] = a[k] /\ a[k] = s[k]
      BY <1>1, <1>4, <3>1
    <3> QED
      BY <1>5, <3>1, <3>2
  <2>2. CASE k > i
    <3>1. /\ k - 1 \in 1..Len(c) /\ ~(k - 1 <= Len(a)) /\ k - 1 - Len(a) = k - i
          /\ k - i \in 1..(Len(s) - i) /\ i + (k - i) = k
      BY <1>1, <1>3, <1>4, <2>2
    <3>2. c[k - 1] = b[k - i] /\ b[k - i] = s[k]
      BY <1>2, <1>4, <3>1
    <3> QED
      BY <1>5, <3>1, <3>2
  <2> QED
    BY <1>3, <1>6, <2>1, <2>2
<1> QED
  BY <1>7 DEF Contains, RemoveAt, a, b, c

\* The boxes under a change of tabs, with what is noted of it.
LEMMA UnderAre ==
  ASSUME BoxesOk, NEW S \in SUBSET Session
  PROVE  /\ UnderBoxes(S) \in Seq(Box) /\ Len(UnderBoxes(S)) = Len(boxes)
         /\ \A i \in 1..Len(boxes) :
              /\ UnderBoxes(S)[i].left /\ UnderBoxes(S)[i].gone = boxes[i].gone \cup S
              /\ UnderBoxes(S)[i].kind = boxes[i].kind
              /\ UnderBoxes(S)[i].about = boxes[i].about
              /\ UnderBoxes(S)[i].renamed = boxes[i].renamed
              /\ UnderBoxes(S)[i].dir = boxes[i].dir
<1>1. DOMAIN boxes = 1..Len(boxes) /\ Len(boxes) \in Nat
      /\ \A i \in 1..Len(boxes) : boxes[i] \in Box
  BY DEF BoxesOk
<1>2. \A i \in 1..Len(boxes) :
        /\ UnderBoxes(S)[i] \in Box /\ UnderBoxes(S)[i].left
        /\ UnderBoxes(S)[i].gone = boxes[i].gone \cup S
        /\ UnderBoxes(S)[i].kind = boxes[i].kind
        /\ UnderBoxes(S)[i].about = boxes[i].about
        /\ UnderBoxes(S)[i].renamed = boxes[i].renamed
        /\ UnderBoxes(S)[i].dir = boxes[i].dir
  BY <1>1 DEF UnderBoxes, Box
<1>3. UnderBoxes(S) \in [1..Len(boxes) -> Box]
  BY <1>1, <1>2 DEF UnderBoxes
<1> QED
  BY <1>1, <1>2, <1>3

\* Another tab is shown, or the shown one is closed, under the boxes: each of
\* them has it noted, and still stands.
LEMMA BoxesUnder ==
  ASSUME RequestTypes, BoxesOk, NEW S \in SUBSET Session,
         \A x \in Session : Contains(shells, x) => x \in S \/ Contains(shells', x)
  PROVE  \A i \in 1..Len(boxes) :
           Stands(UnderBoxes(S)[i], shells', shown', cwd, aiRequestedCwd)
<1> SUFFICES ASSUME NEW i \in 1..Len(boxes)
             PROVE  Stands(UnderBoxes(S)[i], shells', shown', cwd, aiRequestedCwd)
  OBVIOUS
<1>1. Stands(boxes[i], shells, shown, cwd, aiRequestedCwd)
  BY DEF BoxesOk, BoxesStand
<1> DEFINE u == UnderBoxes(S)[i]
<1>2. /\ u.left /\ u.gone = boxes[i].gone \cup S /\ u.kind = boxes[i].kind
      /\ u.about = boxes[i].about /\ u.renamed = boxes[i].renamed /\ u.dir = boxes[i].dir
  BY UnderAre
<1> HIDE DEF u
<1>3. ASSUME Contains(shells, u.about) PROVE u.about \in S \/ Contains(shells', u.about)
  <2>1. u.about \in Session
    BY <1>3 DEF RequestTypes, Contains
  <2> QED
    BY <1>3, <2>1
<1>4. Stands(u, shells', shown', cwd, aiRequestedCwd)
  BY <1>1, <1>2, <1>3 DEF Stands
<1> QED
  BY <1>4 DEF u

\* The tabs that are left when the shown one closes.
LEMMA ShownGone ==
  ASSUME RequestTypes, shells # <<>>, CloseShown
  PROVE  /\ Current \in Session
         /\ \A x \in Session : Contains(shells, x) => x \in {Current} \/ Contains(shells', x)
<1>1. /\ shells \in Seq(Session) /\ shown \in 1..Len(shells)
      /\ shells' = RemoveAt(shells, shown) /\ Current = shells[shown]
  BY DEF RequestTypes, CloseShown, Current
<1> QED
  BY <1>1, OthersStay

\* The types, and the answer that waits for a frame.
LEMMA RequestTypesStep ==
  RequestTypes /\ AnswerKnown /\ [RequestsNext]_requestVars
    => RequestTypes' /\ AnswerKnown'
<1> SUFFICES ASSUME RequestTypes, AnswerKnown, [RequestsNext]_requestVars
             PROVE  RequestTypes' /\ AnswerKnown'
  OBVIOUS
<1> USE DEF RequestTypes, AnswerKnown, tabVars, aiVars
<1>1. CASE UNCHANGED <<tabVars, aiVars>>
  BY <1>1
<1>2. CASE RequestAi
  BY <1>2 DEF RequestAi, Current
<1>3. ASSUME NEW s \in Session, NEW d \in Dir, ChangeDir(s, d)
      PROVE  RequestTypes' /\ AnswerKnown'
  BY <1>3 DEF ChangeDir
<1>4. CASE CloseAtOnce
  <2>1. shells' \in Seq(Session) /\ (shells' # <<>> => shown' \in 1..Len(shells'))
    BY <1>4, CloseShownTypes DEF CloseAtOnce
  <2> QED
    BY <1>4, <2>1 DEF CloseAtOnce
<1>5. CASE ShowTab
  BY <1>5 DEF ShowTab
<1>6. CASE AiAnswers
  BY <1>6 DEF AiAnswers
<1>7. CASE AiFrees
  BY <1>7 DEF AiFrees
<1>8. CASE PollAi
  BY <1>8 DEF PollAi
<1>9. CASE YesClose
  <2>1. CASE shells = <<>>
    BY <1>9, <2>1 DEF YesClose
  <2>2. CASE shells # <<>>
    <3>1. shells' \in Seq(Session) /\ (shells' # <<>> => shown' \in 1..Len(shells'))
      BY <1>9, <2>2, CloseShownTypes DEF YesClose
    <3> QED
      BY <1>9, <3>1 DEF YesClose
  <2> QED
    BY <2>1, <2>2
<1>10. CASE OpenBox \/ CheckForUpdates \/ AskToClose \/ CheckEnds \/ DownloadEnds
            \/ PollClipboard \/ PollInstaller \/ PollUpdate \/ No
            \/ YesKeepsPointer \/ YesSuggest \/ YesConfirm \/ YesUpdate
            \/ QuitBox \/ QuitLoop \/ UNCHANGED requestVars
  <2>1. UNCHANGED <<tabVars, aiVars>>
    BY <1>10 DEF OpenBox, CheckForUpdates, AskToClose, CheckEnds, DownloadEnds,
       PollClipboard, PollInstaller, PollUpdate, No, YesKeepsPointer, YesSuggest,
       YesConfirm, YesUpdate, QuitBox, QuitLoop, OnlyBoxes, requestVars
  <2> QED
    BY <1>1, <2>1
<1> QED
  BY <1>2, <1>3, <1>4, <1>5, <1>6, <1>7, <1>8, <1>9, <1>10 DEF RequestsNext

\* The first box is about the shown tab.
LEMMA OpenBoxKeeps == ASSUME RequestsInv, OpenBox PROVE BoxesOk'
<1> USE DEF RequestsInv, RequestTypes
<1>1. PICK kind \in {"paste", "worktree", "other"} : boxes' = <<BoxOf(kind, Current)>>
  BY DEF OpenBox
<1>2. UNCHANGED Around /\ shells # <<>>
  BY DEF OpenBox, OnlyBoxes, tabVars, aiVars, Around
<1> DEFINE b == BoxOf(kind, Current)
<1>3. Current \in Session /\ Contains(shells, Current)
  BY <1>2 DEF Current, Contains
<1>4. b \in Box
  BY <1>3, NewBox DEF Kinds
<1>5. b.kind = kind /\ b.about = Current
  BY DEF BoxOf
<1> HIDE DEF b
<1>6. boxes' \in Seq(Box) /\ Len(boxes') = 1 /\ boxes'[1] = b
  BY <1>1, <1>4 DEF b
<1>7. Stands(b, shells, shown, cwd, aiRequestedCwd)
  BY <1>3, <1>5 DEF Stands
<1> QED
  BY <1>2, <1>6, <1>7 DEF BoxesOk, BoxesStand, Around

\* Another directory is noted in the last question about a suggestion, and
\* nothing else is about directories.
LEMMA ChangeDirKeeps ==
  ASSUME RequestsInv, NEW s \in Session, NEW d \in Dir, ChangeDir(s, d)
  PROVE  BoxesOk'
<1> USE DEF RequestsInv, BoxesOk
<1>1. DOMAIN boxes = 1..Len(boxes) /\ Len(boxes) \in Nat
      /\ \A i \in 1..Len(boxes) : boxes[i] \in Box
  OBVIOUS
<1>2. boxes' = [i \in 1..Len(boxes) |->
                  IF boxes[i].kind = "confirm" /\ boxes[i].about = s
                  THEN [boxes[i] EXCEPT !.moved = TRUE] ELSE boxes[i]]
  BY <1>1 DEF ChangeDir
<1>3. \A i \in 1..Len(boxes) :
        /\ boxes'[i] \in Box /\ boxes'[i].kind = boxes[i].kind
        /\ boxes'[i].about = boxes[i].about /\ boxes'[i].left = boxes[i].left
        /\ boxes[i].kind = "confirm" /\ boxes[i].about = s => boxes'[i].moved
        /\ ~(boxes[i].kind = "confirm" /\ boxes[i].about = s) => boxes'[i] = boxes[i]
  BY <1>1, <1>2 DEF Box
<1>4. boxes' \in [1..Len(boxes) -> Box]
  BY <1>2, <1>3
<1>5. boxes' \in Seq(Box) /\ Len(boxes') = Len(boxes)
  BY <1>1, <1>4
<1>6. BoxesStand'
  <2> SUFFICES ASSUME NEW i \in 1..Len(boxes)
               PROVE  Stands(boxes'[i], shells', shown', cwd', aiRequestedCwd')
    BY <1>5 DEF BoxesStand
  <2>1. Stands(boxes[i], shells, shown, cwd, aiRequestedCwd)
    BY DEF BoxesStand
  <2>2. /\ UNCHANGED <<shells, shown, aiRequestedCwd>>
        /\ \A t \in Session \ {s} : cwd'[t] = cwd[t]
    BY DEF ChangeDir, aiVars, RequestTypes
  <2>3. CASE boxes[i].kind = "confirm" /\ boxes[i].about = s
    BY <1>3, <2>1, <2>2, <2>3 DEF Stands
  <2>4. CASE boxes[i].kind = "confirm" /\ boxes[i].about # s
    <3>1. boxes'[i] = boxes[i]
      BY <1>3, <2>4
    <3>2. boxes[i].left \/ boxes[i].about \in Session
      BY <2>1, <2>4 DEF Stands, RequestTypes
    <3> QED
      BY <2>1, <2>2, <2>4, <3>1, <3>2 DEF Stands
  <2>5. CASE boxes[i].kind # "confirm"
    BY <1>3, <2>1, <2>2, <2>5 DEF Stands
  <2> QED
    BY <2>3, <2>4, <2>5
<1> QED
  BY <1>5, <1>6

\* The question whether to close is about the shown tab.
LEMMA AskToCloseKeeps == ASSUME RequestsInv, AskToClose PROVE BoxesOk'
<1> USE DEF RequestsInv, RequestTypes
<1> DEFINE b == BoxOf("close", Current)
<1>1. UNCHANGED Around /\ shells # <<>> /\ boxes' = Append(boxes, b)
  BY DEF AskToClose, tabVars, aiVars, Around
<1>2. b \in Box
  BY <1>1, NewBox DEF Kinds, Current
<1>3. b.kind = "close" /\ b.about = Current
  BY DEF BoxOf
<1> HIDE DEF b
<1>4. Stands(b, shells, shown, cwd, aiRequestedCwd)
  BY <1>1, <1>3 DEF Stands, Current
<1> QED
  BY <1>1, <1>2, <1>4, BoxOpened

\* The shown tab is closed, or another one shown, by a command.
LEMMA ToldKeeps == ASSUME RequestsInv, CloseAtOnce \/ ShowTab PROVE BoxesOk'
<1> USE DEF RequestsInv
<1>1. UNCHANGED <<cwd, aiRequestedCwd>> /\ Len(boxes) \in Nat
  BY DEF CloseAtOnce, ShowTab, aiVars, BoxesOk
<1>2. PICK S \in SUBSET Session :
        /\ boxes' = UnderBoxes(S)
        /\ \A x \in Session : Contains(shells, x) => x \in S \/ Contains(shells', x)
  <2>1. CASE CloseAtOnce
    <3>1. shells # <<>> /\ CloseShown /\ boxes' = UnderBoxes({Current})
      BY <2>1 DEF CloseAtOnce
    <3>2. {Current} \in SUBSET Session
      BY <3>1, ShownGone
    <3> QED
      BY <3>1, <3>2, ShownGone
  <2>2. CASE ShowTab
    <3>1. boxes' = UnderBoxes({}) /\ shells' = shells
      BY <2>2 DEF ShowTab
    <3>2. {} \in SUBSET Session
      OBVIOUS
    <3> QED
      BY <3>1, <3>2
  <2> QED
    BY <2>1, <2>2
<1>3. /\ UnderBoxes(S) \in Seq(Box) /\ Len(UnderBoxes(S)) = Len(boxes)
      /\ \A i \in 1..Len(boxes) :
           Stands(UnderBoxes(S)[i], shells', shown', cwd, aiRequestedCwd)
  BY <1>2, UnderAre, BoxesUnder
<1> QED
  BY <1>1, <1>2, <1>3 DEF BoxesOk, BoxesStand

\* "Review for execution" asks again, about the pane that is active now.
LEMMA YesSuggestKeeps == ASSUME RequestsInv, YesSuggest PROVE BoxesOk'
<1> USE DEF RequestsInv, RequestTypes
<1>1. UNCHANGED Around /\ boxes # <<>> /\ Upper.kind = "suggest"
  BY DEF YesSuggest, Answered, OnlyBoxes, tabVars, aiVars, Around
<1>2. CASE boxes' = Below
  BY <1>1, <1>2, BoxClosed
<1>3. CASE boxes' # Below
  <2> DEFINE b == [BoxOf("confirm", Current) EXCEPT !.dir = Upper.dir,
                                                    !.renamed = Upper.renamed]
  <2>1. /\ shells # <<>> /\ cwd[Current] = aiRequestedCwd
        /\ boxes' = Append(Below, b)
    BY <1>3 DEF YesSuggest
  <2>2. /\ Below \in Seq(Box) /\ Len(Below) = Len(boxes) - 1 /\ Len(boxes) \in Nat \ {0}
        /\ \A i \in 1..(Len(boxes) - 1) : Below[i] = boxes[i]
        /\ Upper \in Box /\ Upper = boxes[Len(boxes)]
    BY <1>1, FrontIs DEF Below, Upper, BoxesOk
  <2>3. Stands(Upper, shells, shown, cwd, aiRequestedCwd)
    BY <2>2 DEF BoxesOk, BoxesStand
  <2>4. BoxOf("confirm", Current) \in Box
    BY <2>1, NewBox DEF Kinds, Current
  <2>5. /\ b \in Box /\ b.kind = "confirm" /\ b.about = Current
        /\ b.dir = Upper.dir /\ b.renamed = Upper.renamed
    BY <2>2, <2>4 DEF BoxOf, Box
  <2> HIDE DEF b
  <2>6. Stands(b, shells, shown, cwd, aiRequestedCwd)
    BY <1>1, <2>1, <2>3, <2>5 DEF Stands, Current
  <2>7. /\ boxes' \in Seq(Box) /\ Len(boxes') = Len(boxes)
        /\ \A i \in 1..(Len(boxes) - 1) : boxes'[i] = boxes[i]
        /\ boxes'[Len(boxes)] = b
    <3>1. /\ boxes' \in Seq(Box) /\ Len(boxes') = Len(Below) + 1
          /\ \A i \in 1..Len(Below) : boxes'[i] = Below[i]
          /\ boxes'[Len(Below) + 1] = b
      BY <2>1, <2>2, <2>5, AppendProperties
    <3> QED
      BY <2>2, <3>1
  <2>8. BoxesStand'
    BY <1>1, <2>2, <2>6, <2>7 DEF BoxesOk, BoxesStand, Around
  <2> QED
    BY <2>7, <2>8 DEF BoxesOk
<1> QED
  BY <1>2, <1>3

\* The pane that is active by now is closed, under the boxes below.
LEMMA YesCloseKeeps == ASSUME RequestsInv, YesClose PROVE BoxesOk'
<1> USE DEF RequestsInv
<1>1. boxes # <<>> /\ UNCHANGED <<cwd, aiRequestedCwd>>
  BY DEF YesClose, Answered, aiVars
<1>2. CASE shells = <<>>
  <2>1. boxes' = Below /\ UNCHANGED Around
    BY <1>1, <1>2 DEF YesClose, Around
  <2> QED
    BY <1>1, <2>1, BoxClosed
<1>3. CASE shells # <<>>
  <2>1. CloseShown /\ boxes' = Front(UnderBoxes({Current}))
    BY <1>3 DEF YesClose
  <2>2. /\ Current \in Session
        /\ \A x \in Session : Contains(shells, x) => x \in {Current} \/ Contains(shells', x)
    BY <1>3, <2>1, ShownGone
  <2>3. PICK S \in SUBSET Session : S = {Current}
    BY <2>2
  <2> DEFINE u == UnderBoxes(S)
  <2>4. /\ u \in Seq(Box) /\ Len(u) = Len(boxes) /\ Len(boxes) \in Nat \ {0}
        /\ \A i \in 1..Len(boxes) : Stands(u[i], shells', shown', cwd, aiRequestedCwd)
    BY <1>1, <2>2, <2>3, UnderAre, BoxesUnder DEF BoxesOk
  <2> HIDE DEF u
  <2>5. u # <<>>
    BY <2>4
  <2>6. /\ Front(u) \in Seq(Box) /\ Len(Front(u)) = Len(boxes) - 1
        /\ \A i \in 1..(Len(boxes) - 1) : Front(u)[i] = u[i]
    BY <2>4, <2>5, FrontIs
  <2>7. boxes' = Front(u)
    BY <2>1, <2>3 DEF u
  <2> QED
    BY <1>1, <2>4, <2>6, <2>7 DEF BoxesOk, BoxesStand
<1> QED
  BY <1>2, <1>3

\* A frame opens a box about a session it found in the list, about an update or
\* about the answer that has come.
LEMMA PollKeeps ==
  ASSUME RequestsInv, PollClipboard \/ PollUpdate \/ PollAi PROVE BoxesOk'
<1> USE DEF RequestsInv, RequestTypes
<1>1. UNCHANGED Around
  BY DEF PollClipboard, PollUpdate, PollAi, OnlyBoxes, tabVars, aiVars, Around
<1>2. CASE UNCHANGED boxes
  BY <1>1, <1>2, BoxesKept
<1>3. CASE PollClipboard
  <2>1. PICK i \in DOMAIN shells : boxes' = Append(boxes, BoxOf("clip", shells[i]))
    BY <1>3 DEF PollClipboard
  <2> DEFINE b == BoxOf("clip", shells[i])
  <2>2. shells[i] \in Session /\ Contains(shells, shells[i])
    BY DEF Contains
  <2>3. b \in Box /\ b.kind = "clip" /\ b.about = shells[i]
    BY <2>2, NewBox DEF Kinds, BoxOf
  <2> HIDE DEF b
  <2>4. Stands(b, shells, shown, cwd, aiRequestedCwd)
    BY <2>2, <2>3 DEF Stands
  <2> QED
    BY <1>1, <2>1, <2>3, <2>4, BoxOpened DEF b
<1>4. CASE PollUpdate
  <2> DEFINE b == BoxOf("update", "none")
  <2>1. b \in Box /\ b.kind = "update"
    BY NewBox DEF Kinds, BoxOf
  <2>2. UNCHANGED boxes \/ boxes' = Append(boxes, b)
    BY <1>4 DEF PollUpdate
  <2> HIDE DEF b
  <2>3. Stands(b, shells, shown, cwd, aiRequestedCwd)
    BY <2>1 DEF Stands
  <2> QED
    BY <1>1, <1>2, <2>1, <2>2, <2>3, BoxOpened
<1>5. CASE PollAi
  <2> DEFINE b == [BoxOf("suggest", "none") EXCEPT !.dir = aiAnswer, !.renamed = renamed]
  <2>1. BoxOf("suggest", "none") \in Box
    BY NewBox DEF Kinds
  <2>2. b \in Box /\ b.kind = "suggest" /\ b.dir = aiAnswer /\ b.renamed = renamed
    BY <2>1 DEF BoxOf, Box
  <2>3. UNCHANGED boxes \/ boxes' = Append(boxes, b)
    BY <1>5 DEF PollAi
  <2>4. renamed \/ aiAnswer = aiRequestedCwd
    BY <1>5 DEF PollAi, AnswerKnown
  <2> HIDE DEF b
  <2>5. Stands(b, shells, shown, cwd, aiRequestedCwd)
    BY <2>2, <2>4 DEF Stands
  <2> QED
    BY <1>1, <1>2, <2>2, <2>3, <2>5, BoxOpened
<1> QED
  BY <1>3, <1>4, <1>5

\* Every step keeps the boxes sound.
LEMMA BoxesStep == RequestsInv /\ [RequestsNext]_requestVars => BoxesOk'
<1> SUFFICES ASSUME RequestsInv, [RequestsNext]_requestVars PROVE BoxesOk'
  OBVIOUS
<1>1. BoxesOk
  BY DEF RequestsInv
<1>2. CASE RequestAi
  <2>1. boxes = <<>> /\ boxes' = boxes
    BY <1>2 DEF RequestAi, Idle
  <2>2. boxes' \in Seq(Box) /\ Len(boxes') = 0
    BY <2>1, EmptySeq
  <2> QED
    BY <2>2 DEF BoxesOk, BoxesStand
<1>3. CASE CloseAtOnce \/ ShowTab
  BY <1>3, ToldKeeps
<1>4. CASE No \/ YesKeepsPointer \/ YesConfirm \/ YesUpdate \/ QuitBox
  <2>1. UNCHANGED Around /\ boxes # <<>> /\ boxes' = Below
    BY <1>4 DEF No, YesKeepsPointer, YesConfirm, YesUpdate, QuitBox, Answered,
       OnlyBoxes, tabVars, aiVars, Around
  <2> QED
    BY <1>1, <2>1, BoxClosed
<1>5. CASE CheckForUpdates \/ AiAnswers \/ AiFrees \/ CheckEnds \/ DownloadEnds
           \/ PollInstaller \/ QuitLoop \/ UNCHANGED requestVars
  <2>1. UNCHANGED <<Around, boxes>>
    BY <1>5 DEF CheckForUpdates, AiAnswers, AiFrees, CheckEnds, DownloadEnds,
       PollInstaller, QuitLoop, requestVars, tabVars, aiVars, Around
  <2> QED
    BY <1>1, <2>1, BoxesKept
<1> QED
  BY <1>2, <1>3, <1>4, <1>5, OpenBoxKeeps, ChangeDirKeeps, AskToCloseKeeps,
     YesSuggestKeeps, YesCloseKeeps, PollKeeps DEF RequestsNext

\* What a Yes does was asked about.
LEMMA ActsStep ==
  RequestsInv /\ ActsOnAsked /\ [RequestsNext]_requestVars => ActsOnAsked'
<1> SUFFICES ASSUME RequestsInv, ActsOnAsked, [RequestsNext]_requestVars
             PROVE  ActsOnAsked'
  OBVIOUS
<1>1. CASE UNCHANGED acted
  BY <1>1 DEF ActsOnAsked
<1>2. CASE Silent
  BY <1>2 DEF Silent, Nothing, ActsOnAsked
<1>3. ASSUME boxes # <<>>
      PROVE  Stands(Upper, shells, shown, cwd, aiRequestedCwd)
  <2>1. Upper = boxes[Len(boxes)] /\ Len(boxes) \in Nat \ {0}
    BY <1>3, FrontIs DEF Upper, RequestsInv, BoxesOk
  <2> QED
    BY <2>1 DEF RequestsInv, BoxesOk, BoxesStand
<1>4. CASE YesKeepsPointer
  <2>1. boxes # <<>> /\ Upper.kind \in {"paste", "clip"} /\ Acts(Upper.about)
    BY <1>4 DEF YesKeepsPointer, Answered
  <2> QED
    BY <1>3, <2>1 DEF Acts, Stands, ActsOnAsked
<1>5. ASSUME shells # <<>> PROVE Contains(shells, Current)
  BY <1>5 DEF RequestsInv, RequestTypes, Contains, Current
<1>6. CASE YesClose \/ YesConfirm
  <2>1. boxes # <<>> /\ Upper.kind \in {"close", "confirm"}
    BY <1>6 DEF YesClose, YesConfirm, Answered
  <2>2. CASE shells = <<>>
    BY <1>2, <1>6, <2>2 DEF YesClose, YesConfirm
  <2>3. CASE shells # <<>>
    <3>1. Acts(Current)
      BY <1>6, <2>3 DEF YesClose, YesConfirm
    <3> QED
      BY <1>3, <1>5, <2>1, <2>3, <3>1 DEF Acts, Stands, ActsOnAsked, Current
  <2> QED
    BY <2>2, <2>3
<1>7. CASE UNCHANGED requestVars
  BY <1>1, <1>7 DEF requestVars
<1>8. CASE ~(YesKeepsPointer \/ YesClose \/ YesConfirm \/ UNCHANGED requestVars)
  <2>1. Silent
    BY <1>8 DEF RequestsNext, OpenBox, RequestAi, CheckForUpdates, ChangeDir,
       CloseAtOnce, AskToClose, ShowTab, AiAnswers, AiFrees, CheckEnds, DownloadEnds,
       PollClipboard, PollInstaller, PollUpdate, PollAi, No, YesSuggest, YesUpdate,
       QuitBox, QuitLoop
  <2> QED
    BY <1>2, <2>1
<1> QED
  BY <1>4, <1>6, <1>7, <1>8

\* The invariant holds in every reachable state, and with it what was asked
\* is what is done.
LEMMA RequestsInvariance == RequestsSpec => [](RequestsInv /\ ActsOnAsked)
<1>1. RequestsInit => ActsOnAsked
  BY DEF RequestsInit, Nothing, ActsOnAsked
<1>2. RequestsInv /\ [RequestsNext]_requestVars => RequestsInv'
  BY RequestTypesStep, BoxesStep DEF RequestsInv
<1> QED
  BY <1>1, <1>2, RequestsInvInit, ActsStep, PTL DEF RequestsSpec

\* For any sessions and directories, boxes opened over one another in any order
\* and tabs closed or shown under them: a Yes reaches what its question was
\* about, a pane that is there where one is closed or typed into, and the
\* directory a suggestion came from, but for the cases ActsOnAsked names, each of
\* which is something that happened under that very box (Window.cpp,
\* WindowSession.cpp, WindowMouse.cpp, WindowAi.cpp).
THEOREM YesMeansWhatWasAsked == RequestsSpec => []ActsOnAsked
BY RequestsInvariance, PTL

-----------------------------------------------------------------------------
(* Key presses and characters.                                             *)

\* Who acted on the key of a character, or nobody.
Taker == {"none", "palette", "command", "find", "shell"}
Unit == {"x", "hi", "lo", "esc", "enter", "back", "ctl"}

\* The characters of one key at a time: none, one, or the pair of a text.
CharsAre ==
  \/ chars = <<>>
  \/ \E u \in Unit, w \in Taker :
       chars = <<[unit |-> u, by |-> w]>> /\ (u = "lo" => w = "none")
  \/ chars = <<[unit |-> "hi", by |-> "none"], [unit |-> "lo", by |-> "none"]>>

\* What the flag was set for is still to come.
OwnIsNext == swallow /\ armed = "own" => chars # <<>> /\ chars[1].by # "none"

\* A character that was acted on and would not be dropped is in a box, or is
\* the Escape of the palette.
TakenIsDropped ==
  chars # <<>> /\ chars[1].by # "none" =>
    swallow \/ box \/ (chars[1].by = "palette" /\ chars[1].unit = "esc")

\* The second half of a pair finds its first half, or goes where that went.
HalvesTogether ==
  chars # <<>> /\ chars[1].unit = "lo" =>
    high \/ palette \/ find \/ armed # "own"

InputInv ==
  /\ {swallow, box, palette, find, high} \subseteq BOOLEAN
  /\ armed \in {"own", "silent", "box"}
  /\ CharsAre /\ OwnIsNext /\ TakenIsDropped /\ HalvesTogether
  /\ KeysActOnce

\* What each key posts.
LEMMA PostIs ==
  ASSUME NEW k \in Keys, NEW who \in Taker, Post(k, who)
  PROVE  /\ Posts[k] = <<>> => chars' = <<>>
         /\ \/ Posts[k] = <<>> /\ chars' = <<>>
            \/ \E u \in Unit \ {"lo"} :
                 Posts[k] = <<u>> /\ chars' = <<[unit |-> u, by |-> who]>>
            \/ /\ k = "pair"
               /\ chars' = <<[unit |-> "hi", by |-> who], [unit |-> "lo", by |-> who]>>
<1>1. \/ Posts[k] = <<>>
      \/ \E u \in Unit \ {"lo"} : Posts[k] = <<u>>
      \/ k = "pair" /\ Posts[k] = <<"hi", "lo">>
  BY DEF Posts, Keys, Unit
<1>2. CASE Posts[k] = <<>>
  BY <1>2 DEF Post
<1>3. ASSUME NEW u \in Unit \ {"lo"}, Posts[k] = <<u>>
      PROVE  chars' = <<[unit |-> u, by |-> who]>>
  BY <1>3 DEF Post
<1>4. CASE k = "pair" /\ Posts[k] = <<"hi", "lo">>
  BY <1>4 DEF Post
<1> QED
  BY <1>1, <1>2, <1>3, <1>4

\* No key is down at the start.
LEMMA InputInitInv == InputInit => InputInv
<1> SUFFICES ASSUME InputInit PROVE InputInv
  OBVIOUS
<1>1. last.to = "shell" /\ last.by = "none"
  BY DEF InputInit
<1>2. KeysActOnce
  BY <1>1 DEF KeysActOnce
<1>3. /\ {swallow, box, palette, find, high} \subseteq BOOLEAN
      /\ armed \in {"own", "silent", "box"}
  BY DEF InputInit
<1> QED
  BY <1>2, <1>3 DEF InputInit, InputInv, CharsAre, OwnIsNext, TakenIsDropped,
     HalvesTogether

\* A character is written to the shell or swallowed, by what the key press
\* before it did.
LEMMA OnCharInv == ASSUME InputInv, OnChar PROVE InputInv'
<1> USE DEF InputInv
<1> DEFINE c == Head(chars)
<1>1. CASE \E u \in Unit, w \in Taker :
             chars = <<[unit |-> u, by |-> w]>> /\ (u = "lo" => w = "none")
  <2>1. PICK u \in Unit, w \in Taker :
             chars = <<[unit |-> u, by |-> w]>> /\ (u = "lo" => w = "none")
    BY <1>1
  <2>2. c.unit = u /\ c.by = w /\ chars[1].unit = u /\ chars[1].by = w /\ chars # <<>>
    BY <2>1
  <2>3. chars' = <<>>
    BY <2>1 DEF OnChar
  <2>4. /\ last'.unit = u /\ last'.by = w /\ last'.boxed = box /\ last'.why = armed
        /\ last'.to = "dropped" => swallow \/ (u = "lo" /\ ~high /\ ~palette /\ ~find)
        /\ last'.to # "dropped" => ~swallow
    BY <2>2 DEF OnChar
  <2>5. KeysActOnce'
    BY <2>1, <2>2, <2>4 DEF OwnIsNext, TakenIsDropped, HalvesTogether, KeysActOnce
  <2>6. swallow' => FALSE
    BY DEF OnChar
  <2>7. {swallow', box', palette', find', high'} \subseteq BOOLEAN
    BY DEF OnChar
  <2> QED
    BY <2>3, <2>5, <2>6, <2>7 DEF OnChar, CharsAre, OwnIsNext, TakenIsDropped,
       HalvesTogether
<1>2. CASE chars = <<[unit |-> "hi", by |-> "none"], [unit |-> "lo", by |-> "none"]>>
  <2>1. c.unit = "hi" /\ c.by = "none" /\ chars # <<>> /\ chars[1].by = "none"
    BY <1>2
  <2>2. chars' = <<[unit |-> "lo", by |-> "none"]>>
    BY <1>2 DEF OnChar
  <2>3. ~swallow'
    BY DEF OnChar
  <2>4. CharsAre'
    BY <2>2 DEF CharsAre, Unit, Taker
  <2>5. chars'[1].unit = "lo" /\ chars'[1].by = "none"
    BY <2>2
  <2>6. /\ last'.by = "none" /\ last'.why = armed
        /\ last'.to = "dropped" => swallow
    BY <2>1 DEF OnChar
  <2>7. KeysActOnce'
    BY <2>1, <2>6 DEF KeysActOnce, OwnIsNext
  <2>8. HalvesTogether'
    <3>1. CASE swallow
      BY <2>1, <3>1 DEF OnChar, HalvesTogether, OwnIsNext
    <3>2. CASE ~swallow /\ palette
      BY <3>2 DEF OnChar, HalvesTogether
    <3>3. CASE ~swallow /\ ~palette /\ find
      BY <2>1, <3>3 DEF OnChar, HalvesTogether
    <3>4. CASE ~swallow /\ ~palette /\ ~find
      BY <2>1, <3>4 DEF OnChar, HalvesTogether
    <3> QED
      BY <3>1, <3>2, <3>3, <3>4
  <2>9. {swallow', box', palette', find', high'} \subseteq BOOLEAN
    BY DEF OnChar
  <2> QED
    BY <2>3, <2>4, <2>5, <2>7, <2>8, <2>9 DEF OnChar, OwnIsNext, TakenIsDropped
<1> QED
  BY <1>1, <1>2 DEF OnChar, CharsAre

\* A key is taken with the flag set for its own character or for none, or in a
\* box; or it is the palette's Escape; or nobody takes it.
LEMMA OnKeyDownInv == ASSUME InputInv, NEW k \in Keys, OnKeyDown(k) PROVE InputInv'
<1> USE DEF InputInv
<1>1. chars = <<>> /\ ~box /\ UNCHANGED <<high, last>> /\ KeysActOnce'
  BY DEF OnKeyDown, KeysActOnce
<1>2. swallow => armed # "own"
  BY <1>1 DEF OwnIsNext
<1>3. \A q \in {"f3", "upDown", "edit", "bound", "scroll"} : Posts[q] = <<>>
  BY DEF Posts
<1>4. /\ {swallow', box', palette', find', high'} \subseteq BOOLEAN
      /\ armed' \in {"own", "silent", "box"}
  BY <1>1 DEF OnKeyDown, PaletteTakes, BindingTakes, FindTakes, ShortcutTakes,
     FallsThrough, RunAction, Take
<1>5. PICK who \in Taker :
        /\ Post(k, who)
        /\ k = "pair" => who = "none"
        /\ \/ UNCHANGED <<swallow, armed, box>> /\ (who = "none" \/ Posts[k] = <<>>)
           \/ who # "none" /\ (Take(k, TRUE) \/ Take(k, FALSE))
           \/ who = "palette" /\ k \in {"esc", "upDown"} /\ swallow' = FALSE
              /\ UNCHANGED <<box, armed>>
  <2>1. CASE PaletteTakes(k)
    BY <2>1 DEF PaletteTakes, RunAction, Taker
  <2>2. CASE BindingTakes(k)
    BY <2>2 DEF BindingTakes, RunAction, Taker
  <2>3. CASE FindTakes(k)
    BY <1>3, <2>3 DEF FindTakes, Taker
  <2>4. CASE ShortcutTakes(k)
    BY <1>3, <2>4 DEF ShortcutTakes, Taker
  <2>5. CASE FallsThrough(k)
    BY <1>3, <2>5 DEF FallsThrough, Taker
  <2> QED
    BY <2>1, <2>2, <2>3, <2>4, <2>5 DEF OnKeyDown
<1>6. \/ Posts[k] = <<>> /\ chars' = <<>>
      \/ \E u \in Unit \ {"lo"} :
           Posts[k] = <<u>> /\ chars' = <<[unit |-> u, by |-> who]>>
      \/ /\ k = "pair"
         /\ chars' = <<[unit |-> "hi", by |-> who], [unit |-> "lo", by |-> who]>>
  BY <1>5, PostIs
<1>7. Posts[k] = <<>> => chars' = <<>>
  BY <1>5, PostIs
<1>8. CharsAre'
  BY <1>5, <1>6 DEF CharsAre, Unit, Taker
<1>9. HalvesTogether'
  BY <1>6 DEF HalvesTogether, Unit
<1>10. CASE UNCHANGED <<swallow, armed, box>> /\ (who = "none" \/ Posts[k] = <<>>)
  <2>1. chars' # <<>> => chars'[1].by = "none"
    BY <1>6, <1>10, <1>7
  <2> QED
    BY <1>1, <1>2, <1>4, <1>8, <1>9, <1>10, <2>1 DEF OwnIsNext, TakenIsDropped
<1>11. CASE who # "none" /\ (Take(k, TRUE) \/ Take(k, FALSE))
  <2>1. chars' # <<>> => chars'[1].by = who /\ Posts[k] # <<>>
    BY <1>5, <1>6, <1>11
  <2>2. chars' = <<>> => Posts[k] = <<>>
    BY <1>6
  <2>3. OwnIsNext'
    BY <1>2, <1>11, <2>1, <2>2 DEF Take, OwnIsNext
  <2>4. TakenIsDropped'
    BY <1>11 DEF Take, TakenIsDropped
  <2> QED
    BY <1>1, <1>4, <1>8, <1>9, <2>3, <2>4
<1>12. CASE /\ who = "palette" /\ k \in {"esc", "upDown"} /\ swallow' = FALSE
            /\ UNCHANGED <<box, armed>>
  <2>1. Posts["esc"] = <<"esc">>
    BY DEF Posts
  <2>2. chars' # <<>> => chars'[1].by = "palette" /\ chars'[1].unit = "esc"
    BY <1>3, <1>6, <1>12, <2>1
  <2>3. OwnIsNext' /\ TakenIsDropped'
    BY <1>12, <2>2 DEF OwnIsNext, TakenIsDropped
  <2> QED
    BY <1>1, <1>4, <1>8, <1>9, <2>3
<1> QED
  BY <1>5, <1>10, <1>11, <1>12

\* Every step keeps what the pending characters say of the presses they come
\* from.
LEMMA InputNextInv == InputInv /\ [InputNext]_inputVars => InputInv'
<1> SUFFICES ASSUME InputInv, [InputNext]_inputVars PROVE InputInv'
  OBVIOUS
<1>1. CASE BoxEnds
  BY <1>1 DEF BoxEnds, InputInv, CharsAre, OwnIsNext, TakenIsDropped, HalvesTogether,
     KeysActOnce
<1>2. CASE UNCHANGED inputVars
  BY <1>2 DEF inputVars, InputInv, CharsAre, OwnIsNext, TakenIsDropped,
     HalvesTogether, KeysActOnce
<1> QED
  BY <1>1, <1>2, OnCharInv, OnKeyDownInv DEF InputNext

\* For any bindings: a character a key press posts is dropped only after a
\* silent shortcut or one that asked in a box, and goes to a second receiver
\* only from inside such a box or with the Escape that closes the palette
\* (KeysActOnce, WindowKeyboard.cpp).
THEOREM KeysActOnceHolds == InputSpec => []KeysActOnce
<1>1. InputInv => KeysActOnce
  BY DEF InputInv
<1> QED
  BY <1>1, InputInitInv, InputNextInv, PTL DEF InputSpec

=============================================================================
