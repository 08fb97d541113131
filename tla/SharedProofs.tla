--------------------------- MODULE SharedProofs ---------------------------
(***************************************************************************)
(* What holds of the files several processes share and of the objects the  *)
(* window lends to screen readers, for any number of them.                 *)
(***************************************************************************)
EXTENDS Recovery, ConfigStore, Accessibility, FiniteSetTheorems, SequenceTheorems,
        WellFoundedInduction, TLAPS

-----------------------------------------------------------------------------
(* Snapshots and crash recovery.                                           *)

\* The part of the type invariant the other facts rest on; a process that has
\* begun has been given a number.
Numbered == \A p \in Pids : Live(p) => born[p] \in Layouts

Inv ==
  /\ Typed /\ StageAgrees
  /\ born \in [Pids -> 0..MaxStarts] /\ starts \in 0..MaxStarts /\ Numbered
  /\ damaged \in Nat
  /\ LiveNotOffered

\* The constants that stand for contents differ.
LEMMA Contents ==
  /\ None \notin Layouts /\ Invalid \notin Layouts /\ None # Invalid
  /\ Content = {None, Invalid} \cup Layouts
  /\ NoPid \notin Pids
BY NoPidAssumption, BoundsAssumption DEF None, Invalid, Layouts, Content

\* The first state.
LEMMA InitInv == Init => Inv
BY Contents, BoundsAssumption
   DEF Init, Inv, Typed, StageAgrees, Numbered, LiveNotOffered, Live, Stages

\* A step that starts a process: the id may be one that another process means to
\* ask about, and is then in reused.
LEMMA StartInv == ASSUME Inv, NEW p \in Pids, Start(p) PROVE Inv'
<1> USE Contents
<1>1. (starts + 1) \in Layouts /\ starts' \in 0..MaxStarts
  BY BoundsAssumption DEF Inv, Start, Layouts
<1>2. Typed'
  BY DEF Inv, Typed, Start, Stages, runFiles, saved
<1>3. StageAgrees'
  BY DEF Inv, Typed, StageAgrees, Start, Stages
<1>4. born' \in [Pids -> 0..MaxStarts] /\ Numbered'
  BY <1>1 DEF Inv, Typed, Numbered, Live, Start, Layouts
<1>5. LiveNotOffered'
  BY DEF Inv, Typed, LiveNotOffered, Live, Start
<1> QED BY <1>1, <1>2, <1>3, <1>4, <1>5 DEF Inv, Start

\* The scan and the marker: only the file of a dead process is chosen.
LEMMA ScanInv ==
  ASSUME Inv, NEW p \in Pids, ScanMarker(p) \/ MarkRun(p) PROVE Inv'
<1> USE Contents
<1>1. CASE ScanMarker(p)
  <2>1. Typed'
    BY <1>1 DEF Inv, Typed, ScanMarker, saved, NoNewerThan
  <2>2. StageAgrees' /\ Numbered' /\ LiveNotOffered'
    BY <1>1 DEF Inv, Typed, StageAgrees, Numbered, LiveNotOffered, Live, ScanMarker,
                counts
  <2> QED BY <1>1, <2>1, <2>2 DEF Inv, ScanMarker, counts
<1>2. CASE MarkRun(p)
  <2>1. Typed'
    BY <1>2 DEF Inv, Typed, MarkRun, saved, Stages
  <2>2. StageAgrees' /\ Numbered' /\ LiveNotOffered'
    BY <1>2 DEF Inv, Typed, StageAgrees, Numbered, LiveNotOffered, Live, MarkRun,
                counts
  <2> QED BY <1>2, <2>1, <2>2 DEF Inv, MarkRun, counts
<1> QED BY <1>1, <1>2

\* The window is made, or is not.
LEMMA CreateInv ==
  ASSUME Inv, NEW p \in Pids, Create(p) \/ CreateFails(p) PROVE Inv'
<1> USE Contents
<1>1. Typed'
  BY DEF Inv, Typed, Create, CreateFails, Stages, runFiles, saved
<1>2. StageAgrees' /\ Numbered' /\ LiveNotOffered'
  BY DEF Inv, Typed, StageAgrees, Numbered, LiveNotOffered, Live, Create, CreateFails,
         counts
<1> QED BY <1>1, <1>2 DEF Inv, Create, CreateFails, counts

\* The answer to the question, and the tabs a window opens with.
LEMMA OpenInv ==
  ASSUME Inv, NEW p \in Pids, AnswerYes(p) \/ AnswerNo(p) \/ OpenTabs(p)
  PROVE Inv'
<1> USE Contents
<1>1. CASE AnswerYes(p)
  <2>1. Typed'
    BY <1>1 DEF Inv, Typed, StageAgrees, AnswerYes, RestoreSucceeds, RestoreFails,
                DeleteRecovery, IsLayout, Stages, saved
  <2>2. StageAgrees' /\ Numbered' /\ LiveNotOffered'
    BY <1>1 DEF Inv, Typed, StageAgrees, Numbered, LiveNotOffered, Live, AnswerYes,
                RestoreSucceeds, RestoreFails, IsLayout, counts
  <2> QED BY <1>1, <2>1, <2>2 DEF Inv, AnswerYes, counts
<1>2. CASE AnswerNo(p)
  <2>1. Typed'
    BY <1>2 DEF Inv, Typed, AnswerNo, DeleteRecovery, Stages, saved
  <2>2. StageAgrees' /\ Numbered' /\ LiveNotOffered'
    BY <1>2 DEF Inv, Typed, StageAgrees, Numbered, LiveNotOffered, Live, AnswerNo,
                counts
  <2> QED BY <1>2, <2>1, <2>2 DEF Inv, AnswerNo, counts
<1>3. CASE OpenTabs(p)
  <2>1. born[p] \in Layouts
    BY <1>3 DEF Inv, Numbered, Live, OpenTabs
  <2>2. Typed'
    BY <1>3, <2>1 DEF Inv, Typed, OpenTabs, Fresh, RestoreSucceeds, RestoreFails,
                      RepairPrimary, IsLayout, Stages, runFiles, saved
  <2>3. StageAgrees' /\ Numbered' /\ LiveNotOffered'
    BY <1>3, <2>1 DEF Inv, Typed, StageAgrees, Numbered, LiveNotOffered, Live,
                      OpenTabs, Fresh, RestoreSucceeds, IsLayout, counts
  <2> QED BY <1>3, <2>2, <2>3 DEF Inv, OpenTabs, counts
<1> QED BY <1>1, <1>2, <1>3

\* The window's life.
LEMMA RunInv ==
  ASSUME Inv, NEW p \in Pids, RecoveryTimer(p) \/ Close(p) PROVE Inv'
<1> USE Contents
<1>1. CASE RecoveryTimer(p)
  <2>1. Typed'
    BY <1>1 DEF Inv, Typed, StageAgrees, RecoveryTimer, WriteRecovery, saved
  <2>2. StageAgrees' /\ Numbered' /\ LiveNotOffered'
    BY <1>1 DEF Inv, Typed, StageAgrees, Numbered, LiveNotOffered, Live,
                RecoveryTimer, counts
  <2> QED BY <1>1, <2>1, <2>2 DEF Inv, RecoveryTimer, counts
<1>2. CASE Close(p)
  <2>1. Typed'
    BY <1>2 DEF Inv, Typed, StageAgrees, Close, SaveWithBackup, saved, runFiles,
                Stages
  <2>2. StageAgrees' /\ Numbered' /\ LiveNotOffered'
    BY <1>2 DEF Inv, Typed, StageAgrees, Numbered, LiveNotOffered, Live, Close,
                counts
  <2> QED BY <1>2, <2>1, <2>2 DEF Inv, Close, counts
<1> QED BY <1>1, <1>2

\* The end of a process: its id leaves reused as it stops being live.
LEMMA EndInv ==
  ASSUME Inv, NEW p \in Pids, Exit(p) \/ Crash(p) PROVE Inv'
<1> USE Contents
<1>1. Gone(p) /\ recovery' \in [Pids -> Content] /\ markers' \subseteq Pids
      /\ newer' \in [Pids -> SUBSET Pids]
  <2>1. CASE Exit(p)
    BY <2>1 DEF Inv, Typed, Exit, DeleteRecovery
  <2>2. CASE Crash(p)
    BY <2>2 DEF Inv, Typed, Crash, runFiles
  <2> QED BY <2>1, <2>2
<1>2. Typed'
  BY <1>1 DEF Inv, Typed, Gone, saved, Stages
<1>3. StageAgrees' /\ Numbered'
  BY <1>1 DEF Inv, Typed, StageAgrees, Numbered, Live, Gone
<1>4. LiveNotOffered'
  BY <1>1 DEF Inv, Typed, LiveNotOffered, Live, Gone
<1>5. born' \in [Pids -> 0..MaxStarts] /\ starts' = starts /\ damaged' = damaged
  BY <1>1, BoundsAssumption DEF Inv, Gone
<1> QED BY <1>2, <1>3, <1>4, <1>5 DEF Inv

\* Damage from outside touches files only.
LEMMA DamageInv == ASSUME Inv, Damage PROVE Inv'
<1> USE Contents
<1>1. Typed'
  BY DEF Inv, Typed, Damage, procVars, saved
<1>2. StageAgrees' /\ Numbered' /\ LiveNotOffered'
  BY DEF Inv, Typed, StageAgrees, Numbered, LiveNotOffered, Live, Damage, procVars
<1> QED BY <1>1, <1>2 DEF Inv, Damage

\* Every step keeps the invariant.
LEMMA NextInv == Inv /\ [Next]_vars => Inv'
<1> SUFFICES ASSUME Inv, [Next]_vars PROVE Inv'
  OBVIOUS
<1>1. CASE UNCHANGED vars
  BY <1>1 DEF vars, procVars, runFiles, saved, counts, Inv, Typed, StageAgrees,
              Numbered, LiveNotOffered, Live
<1>2. CASE Next
  BY <1>2, StartInv, ScanInv, CreateInv, OpenInv, RunInv, EndInv, DamageInv DEF Next
<1> QED BY <1>1, <1>2

\* The invariant holds of every run.
THEOREM InvHolds == Spec => []Inv
<1>1. Init => Inv
  BY InitInv
<1>2. Inv /\ [Next]_vars => Inv'
  BY NextInv
<1> QED BY <1>1, <1>2, PTL DEF Spec

\* No process means to ask about a live one, but for an id the system has used
\* again (Diagnostics.cpp:85).
THEOREM LiveNeverOffered == Spec => []LiveNotOffered
<1>1. Inv => LiveNotOffered
  BY DEF Inv
<1> QED BY <1>1, InvHolds, PTL

\* What one step may do to the recovery files.
Resolved ==
  \A q \in Pids :
    recovery[q] \in Layouts /\ recovery'[q] # recovery[q] /\ damaged' = damaged =>
      (\E p \in Pids : ResolvedBy(p, q)) \/ RecoveryTimer(q) \/ Exit(q)

\* A process that is not asking deletes and writes its own file only.
LEMMA OwnFileOnly ==
  ASSUME Inv, NEW p \in Pids,
         RecoveryTimer(p) \/ Exit(p),
         NEW q \in Pids, recovery'[q] # recovery[q]
  PROVE p = q
BY DEF Inv, Typed, RecoveryTimer, Exit, WriteRecovery, DeleteRecovery

\* "Yes": the file deleted is the one whose layout the process now runs.
LEMMA YesResolves ==
  ASSUME Inv, NEW p \in Pids, AnswerYes(p),
         NEW q \in Pids, recovery'[q] # recovery[q]
  PROVE ResolvedBy(p, q)
<1>1. stage[p] = "ask" /\ RestoreSucceeds(p, recovery[previous[p]])
      /\ DeleteRecovery(previous[p])
  BY DEF AnswerYes
<1>2. previous[p] = q
  BY <1>1, Contents DEF Inv, Typed, DeleteRecovery
<1> QED
  BY <1>1, <1>2 DEF Inv, Typed, RestoreSucceeds, ResolvedBy

\* For any number of processes and of lives of an id: a recovery file goes only
\* when the question about it is settled, or when a process of that id writes or
\* deletes it as its own (DeletedOnlyResolved, Diagnostics.cpp:84, 259-262).
THEOREM OnlyResolvedAreDeleted == Spec => DeletedOnlyResolved
<1>1. Inv /\ [Next]_vars => [Resolved]_vars
  <2> SUFFICES ASSUME Inv, Next, NEW q \in Pids,
                      recovery'[q] # recovery[q], damaged' = damaged
               PROVE (\E p \in Pids : ResolvedBy(p, q)) \/ RecoveryTimer(q) \/ Exit(q)
    BY DEF Resolved
  <2>1. CASE \E p \in Pids : AnswerYes(p)
    BY <2>1, YesResolves
  <2>2. ASSUME NEW p \in Pids, AnswerNo(p)
        PROVE ResolvedBy(p, q)
    BY <2>2 DEF Inv, Typed, AnswerNo, DeleteRecovery, ResolvedBy
  <2>3. CASE \E p \in Pids : RecoveryTimer(p) \/ Exit(p)
    BY <2>3, OwnFileOnly
  <2>4. CASE \E p \in Pids : Start(p) \/ ScanMarker(p) \/ MarkRun(p) \/ Create(p)
                             \/ CreateFails(p) \/ OpenTabs(p) \/ Close(p) \/ Crash(p)
    BY <2>4 DEF Start, ScanMarker, MarkRun, Create, CreateFails, OpenTabs, Close,
                Crash, runFiles
  <2>5. CASE Damage
    BY <2>5 DEF Inv, Damage
  <2> QED
    BY <2>1, <2>2, <2>3, <2>4, <2>5 DEF Next
<1>2. DeletedOnlyResolved <=> [][Resolved]_vars
  BY DEF DeletedOnlyResolved, Resolved
<1> QED
  BY <1>1, <1>2, InvHolds, PTL DEF Spec

\* What one step may do to layout.json and its backup.
Survives ==
  (IsLayout(primary) \/ IsLayout(backup)) /\ damaged' = damaged =>
    \/ IsLayout(primary') \/ IsLayout(backup')
    \/ \E p \in Pids : /\ stage[p] = "run" /\ stage'[p] = "closing"
                       /\ primary = Invalid /\ primary' = Invalid

\* While layout.json or its backup is good, only damage from outside, or a save
\* over a bad layout.json that fails half-way, leaves both bad
\* (Config.cpp:441-450, WindowSession.cpp:525-537).
THEOREM OneGoodLayout == Spec => GoodLayoutSurvives
<1>1. Inv /\ [Next]_vars => [Survives]_vars
  <2> SUFFICES ASSUME Inv, Next, IsLayout(primary) \/ IsLayout(backup),
                      damaged' = damaged
               PROVE Survives
    BY DEF Survives
  <2>1. CASE UNCHANGED saved
    BY <2>1 DEF Survives, saved
  <2>2. ASSUME NEW p \in Pids, OpenTabs(p) PROVE Survives
    BY <2>2 DEF Survives, OpenTabs, RestoreSucceeds, RepairPrimary, IsLayout, saved
  <2>3. ASSUME NEW p \in Pids, Close(p) PROVE Survives
    <3>1. stage[p] = "run" /\ stage'[p] = "closing" /\ layout[p] \in Layouts
      BY <2>3 DEF Inv, Typed, StageAgrees, Close
    <3>2. CASE UNCHANGED saved
      BY <3>2 DEF Survives, saved
    <3>3. CASE SaveWithBackup(layout[p])
      BY <3>1, <3>3, Contents DEF Inv, Typed, Survives, SaveWithBackup, IsLayout, saved
    <3> QED BY <2>3, <3>2, <3>3 DEF Close
  <2>4. CASE \E p \in Pids : Start(p) \/ ScanMarker(p) \/ MarkRun(p) \/ Create(p)
               \/ CreateFails(p) \/ AnswerYes(p) \/ AnswerNo(p) \/ RecoveryTimer(p) \/ Exit(p) \/ Crash(p)
    BY <2>1, <2>4 DEF Start, ScanMarker, MarkRun, Create, CreateFails, AnswerYes, AnswerNo,
                      RecoveryTimer, Exit, Crash, Gone
  <2>5. CASE Damage
    BY <2>5 DEF Inv, Typed, Damage
  <2> QED
    BY <2>2, <2>3, <2>4, <2>5 DEF Next
<1>2. GoodLayoutSurvives <=> [][Survives]_vars
  BY DEF GoodLayoutSurvives, Survives
<1> QED
  BY <1>1, <1>2, InvHolds, PTL DEF Spec

\* Of two recovery files one was written after the other.
Ordered ==
  \A q, r \in Pids :
    q # r /\ recovery[q] # None /\ recovery[r] # None => q \in newer[r] \/ r \in newer[q]

\* What a process has seen stays true while it scans: a file it does not know as
\* older than the one it has chosen is newer, until that one is written again.
OlderTrue ==
  \A p, q, r \in Pids :
    previous[p] = q /\ q \in older[p] /\ recovery[q] # None
    /\ recovery[r] # None /\ r \notin older[p] => r \in newer[q]

OrderInv == Ordered /\ OlderTrue

\* A deleted file takes nothing from the order of those that stay.
LEMMA DeleteKeepsOrder ==
  ASSUME Inv, OrderInv, NEW x \in Pids, DeleteRecovery(x),
         \A p \in Pids : previous'[p] = NoPid
                       \/ (previous'[p] = previous[p] /\ older'[p] = older[p])
  PROVE  OrderInv'
<1> USE Contents DEF Inv, Typed, DeleteRecovery
<1>1. \A q \in Pids : recovery'[q] # None => q # x /\ recovery[q] # None
                                          /\ newer'[q] = newer[q] \ {x}
  OBVIOUS
<1>2. Ordered'
  BY <1>1 DEF OrderInv, Ordered
<1>3. OlderTrue'
  BY <1>1 DEF OrderInv, OlderTrue
<1> QED
  BY <1>2, <1>3 DEF OrderInv

\* A file written by the recovery timer is the newest of its process.
LEMMA WriteKeepsOrder ==
  ASSUME Inv, OrderInv, NEW p \in Pids, RecoveryTimer(p) PROVE OrderInv'
<1> USE DEF Inv, Typed
<1>1. /\ UNCHANGED previous
      /\ recovery' = [recovery EXCEPT ![p] = layout[p]]
      /\ newer' = [q \in Pids |-> IF q = p \/ recovery[q] = None THEN {}
                                 ELSE newer[q] \cup {p}]
      /\ older' = [q \in Pids |-> older[q] \ {p}]
  BY DEF RecoveryTimer, WriteRecovery
<1>2. \A q \in Pids \ {p} : recovery'[q] = recovery[q] /\
                            (recovery[q] # None => newer'[q] = newer[q] \cup {p})
  BY <1>1
<1>3. Ordered'
  BY <1>2 DEF OrderInv, Ordered
<1>4. OlderTrue'
  BY <1>1, <1>2 DEF OrderInv, OlderTrue
<1> QED
  BY <1>3, <1>4 DEF OrderInv

\* The newest file so far is chosen, and the others it was compared with.
LEMMA ScanKeepsOrder ==
  ASSUME Inv, OrderInv, NEW p \in Pids, ScanMarker(p) PROVE OrderInv'
<1> USE DEF Inv, Typed
<1>1. UNCHANGED <<recovery, newer>>
  BY DEF ScanMarker
<1>2. CASE UNCHANGED <<previous, older>>
  BY <1>1, <1>2 DEF OrderInv, Ordered, OlderTrue
<1>3. ASSUME NEW q \in Pids, previous' = [previous EXCEPT ![p] = q],
             older' = [older EXCEPT ![p] = NoNewerThan(q)]
      PROVE  OrderInv'
  <2>1. Ordered'
    BY <1>1 DEF OrderInv, Ordered
  <2>2. ASSUME NEW r \in Pids, recovery[q] # None, recovery[r] # None,
               r \notin NoNewerThan(q)
        PROVE  r \in newer[q]
    BY <2>2 DEF OrderInv, Ordered, NoNewerThan
  <2>3. OlderTrue'
    BY <1>1, <1>3, <2>2 DEF OrderInv, OlderTrue
  <2> QED
    BY <2>1, <2>3 DEF OrderInv
<1> QED
  BY <1>2, <1>3 DEF ScanMarker

\* Every step keeps the order of the files that a crash may leave.
LEMMA OrderStep == Inv /\ OrderInv /\ [Next]_vars => OrderInv'
<1> SUFFICES ASSUME Inv, OrderInv, [Next]_vars PROVE OrderInv'
  OBVIOUS
<1> USE DEF Inv, Typed
<1>1. ASSUME UNCHANGED <<recovery, newer>>,
             \A p \in Pids : previous'[p] = NoPid
                           \/ (previous'[p] = previous[p] /\ older'[p] = older[p])
      PROVE  OrderInv'
  BY <1>1, Contents DEF OrderInv, Ordered, OlderTrue
<1>2. ASSUME NEW p \in Pids, Start(p) \/ MarkRun(p) \/ Create(p) \/ CreateFails(p)
                             \/ OpenTabs(p) \/ Close(p)
      PROVE  OrderInv'
  BY <1>1, <1>2 DEF Start, MarkRun, Create, CreateFails, OpenTabs, Close, runFiles
<1>3. ASSUME NEW p \in Pids, Crash(p) PROVE OrderInv'
  BY <1>1, <1>3 DEF Crash, Gone, runFiles
<1>4. ASSUME NEW p \in Pids, Exit(p) PROVE OrderInv'
  BY <1>4, DeleteKeepsOrder DEF Exit, Gone
<1>5. ASSUME NEW p \in Pids, AnswerYes(p) \/ AnswerNo(p) PROVE OrderInv'
  <2>1. previous[p] \in Pids
    BY <1>5, Contents DEF AnswerYes, AnswerNo, StageAgrees
  <2>2. \A q \in Pids : previous'[q] = NoPid
                      \/ (previous'[q] = previous[q] /\ older'[q] = older[q])
    BY <1>5 DEF AnswerYes, AnswerNo
  <2>3. CASE DeleteRecovery(previous[p])
    BY <2>1, <2>2, <2>3, DeleteKeepsOrder
  <2>4. CASE UNCHANGED <<recovery, newer>>
    BY <1>1, <2>2, <2>4
  <2> QED
    BY <1>5, <2>3, <2>4 DEF AnswerYes, AnswerNo
<1>6. CASE Damage
  <2>1. UNCHANGED <<previous, older, newer>>
    BY <1>6 DEF Damage, procVars
  <2>2. \A q \in Pids : recovery'[q] # None => recovery[q] # None
    BY <1>6, Contents DEF Damage
  <2> QED
    BY <2>1, <2>2 DEF OrderInv, Ordered, OlderTrue
<1>7. CASE UNCHANGED vars
  BY <1>1, <1>7 DEF vars, procVars, runFiles
<1> QED
  BY <1>2, <1>3, <1>4, <1>5, <1>6, <1>7, WriteKeepsOrder, ScanKeepsOrder DEF Next

\* What a step does to what can be found.
Forgets ==
  \A q \in Pids :
    recovery[q] # None /\ recovery'[q] # None /\ Found(q) /\ ~Found(q)' =>
      \E p \in Pids :
        \/ previous[p] = q /\ stage[p] = "ask" /\ stage'[p] = "open"
        \/ previous[p] = q /\ stage'[p] \in {"off", "closing"}
        \/ /\ stage[p] = "scan" /\ previous'[p] # q
           /\ q \in older'[p] \/ (previous[p] = q /\ q \notin older[p])

\* A scan lets a file go only for a newer one.
LEMMA ScanForgets ==
  ASSUME Inv, OrderInv, NEW p \in Pids, ScanMarker(p),
         NEW q \in Pids, recovery[q] # None, Found(q), ~Found(q)'
  PROVE  /\ stage[p] = "scan" /\ previous'[p] # q
         /\ q \in older'[p] \/ (previous[p] = q /\ q \notin older[p])
<1> USE DEF Inv, Typed
<1>1. PICK r \in todo[p] :
        /\ markers' = IF Live(r) THEN markers ELSE markers \ {r}
        /\ IF ~Live(r) /\ recovery[r] # None
              /\ (previous[p] = NoPid \/ r \notin older[p])
             THEN /\ previous' = [previous EXCEPT ![p] = r]
                  /\ older' = [older EXCEPT ![p] = NoNewerThan(r)]
             ELSE UNCHANGED <<previous, older>>
  BY DEF ScanMarker
<1>2. stage[p] = "scan" /\ UNCHANGED stage /\ r \in Pids
  BY DEF ScanMarker
<1>3. previous'[p] # q
  BY <1>2 DEF Found
<1>4. CASE r = q
  <2>1. ~Live(q)
    BY <1>1, <1>2, <1>4 DEF Found
  <2>2. ~(previous[p] = NoPid \/ q \notin older[p])
    BY <1>1, <1>3, <1>4, <2>1
  <2> QED
    BY <1>1, <1>2, <1>3, <1>4, <2>1, <2>2
<1>5. CASE r # q
  <2>1. q \notin markers
    BY <1>1, <1>5 DEF Found
  <2>2. PICK o \in Pids : stage[o] \in {"scan", "create", "ask"} /\ previous[o] = q
    BY <2>1 DEF Found
  <2>3. o = p /\ previous' # previous
    BY <1>1, <1>2, <2>2 DEF Found
  <2>4. recovery[r] # None /\ r \notin older[p] /\ older'[p] = NoNewerThan(r)
    BY <1>1, <2>2, <2>3, Contents
  <2>5. ASSUME q \in older[p] PROVE q \in NoNewerThan(r)
    BY <1>2, <2>2, <2>3, <2>4, <2>5 DEF OrderInv, OlderTrue, NoNewerThan
  <2> QED
    BY <1>2, <1>3, <2>2, <2>3, <2>4, <2>5
<1> QED
  BY <1>4, <1>5

\* For any number of processes and of starts: a file that stays stops being
\* found only by a restore that fails, by the end of the process that took
\* its marker, or for a file that is newer than it is or than it was when
\* that process looked (ForgottenOnlyBy, Diagnostics.cpp:94-100).
THEOREM ForgottenOnly == Spec => ForgottenOnlyBy
<1>1. Inv /\ OrderInv /\ [Next]_vars => [Forgets]_vars
  <2> SUFFICES ASSUME Inv, OrderInv, Next, NEW q \in Pids,
                      recovery[q] # None, recovery'[q] # None,
                      Found(q), ~Found(q)'
               PROVE  \E p \in Pids :
                        \/ previous[p] = q /\ stage[p] = "ask" /\ stage'[p] = "open"
                        \/ previous[p] = q /\ stage'[p] \in {"off", "closing"}
                        \/ /\ stage[p] = "scan" /\ previous'[p] # q
                           /\ q \in older'[p] \/ (previous[p] = q /\ q \notin older[p])
    BY DEF Forgets
  <2> USE DEF Inv, Typed
  <2>1. ASSUME NEW p \in Pids, ScanMarker(p)
        PROVE  /\ stage[p] = "scan" /\ previous'[p] # q
               /\ q \in older'[p] \/ (previous[p] = q /\ q \notin older[p])
    BY <2>1, ScanForgets
  <2>2. ASSUME NEW p \in Pids, AnswerYes(p) \/ AnswerNo(p)
        PROVE  previous[p] = q /\ stage[p] = "ask" /\ stage'[p] = "open"
    <3>1. /\ stage[p] = "ask" /\ UNCHANGED markers /\ previous[p] \in Pids
          /\ \A o \in Pids \ {p} : previous'[o] = previous[o] /\ stage'[o] = stage[o]
      BY <2>2, Contents DEF StageAgrees, AnswerYes, AnswerNo, RestoreSucceeds
    <3>2. previous[p] = q
      BY <3>1 DEF Found
    <3>3. ~DeleteRecovery(previous[p])
      BY <3>2 DEF DeleteRecovery
    <3> QED
      BY <2>2, <3>1, <3>2, <3>3 DEF AnswerYes, AnswerNo
  <2>3. ASSUME NEW p \in Pids, CreateFails(p) \/ Crash(p) \/ Exit(p)
        PROVE  previous[p] = q /\ stage'[p] \in {"off", "closing"}
    <3>1. ~Exit(q)
      BY DEF Exit, DeleteRecovery
    <3>2. /\ stage'[p] \in {"off", "closing"} /\ (q \in markers => q \in markers')
          /\ \A o \in Pids \ {p} : previous'[o] = previous[o] /\ stage'[o] = stage[o]
      BY <2>3, <3>1 DEF CreateFails, Crash, Exit, Gone, runFiles
    <3> QED
      BY <3>2 DEF Found
  <2>4. ASSUME NEW p \in Pids, Start(p) \/ MarkRun(p) \/ Create(p) \/ OpenTabs(p)
                               \/ RecoveryTimer(p) \/ Close(p)
        PROVE  FALSE
    <3>1. UNCHANGED previous /\ markers \subseteq markers'
      BY <2>4 DEF Start, MarkRun, Create, OpenTabs, RecoveryTimer, Close, runFiles
    <3>2. \A o \in Pids : /\ stage[o] \in {"scan", "create", "ask"}
                         /\ previous[o] = q
                           => stage'[o] \in {"scan", "create", "ask"}
      BY <2>4, Contents DEF Start, MarkRun, Create, OpenTabs, RecoveryTimer, Close, Fresh,
         RestoreSucceeds
    <3> QED
      BY <3>1, <3>2 DEF Found
  <2>5. CASE Damage
    BY <2>5 DEF Damage, procVars, Found
  <2> QED
    BY <2>1, <2>2, <2>3, <2>4, <2>5 DEF Next
<1>2. ForgottenOnlyBy <=> [][Forgets]_vars
  BY DEF ForgottenOnlyBy, Forgets
<1>3. Init => OrderInv
  BY Contents DEF Init, OrderInv, Ordered, OlderTrue
<1> QED
  BY <1>1, <1>2, <1>3, OrderStep, InvHolds, PTL DEF Spec

-----------------------------------------------------------------------------
(* The configuration file.                                                 *)

\* The steps of a process between two rests.
Busy == Window \ {w \in Window : doing[w] \in {"off", "idle"}}

\* Files have these two fields and no others.
IsFile(f) == f = [is |-> f.is, of |-> f.of]

\* The values a process may be at, and the steps with the temporary file in hand.
Places == {"off", "idle", "aside", "backup", "open", "write", "rename"}
InTmp(w) == doing[w] \in {"write", "rename"}

\* As long as nobody has opened the temporary file of another process, one process
\* at most has it in hand; one that is about to be renamed is whole, and
\* config.json is neither torn nor empty.  A temporary file that an earlier process
\* left half-written is opened anew, and emptied, before it is written.
TornInv ==
  /\ doing \in [Window -> Places] /\ IsFile(file) /\ IsFile(tmp)
  /\ shared \in BOOLEAN /\ (shared => overlap)
  /\ ~shared => /\ \A v, w \in Window : InTmp(v) /\ InTmp(w) => v = w
                /\ file.is \notin {"torn", "empty"}
                /\ \A w \in Window : doing[w] = "rename" => tmp.is \notin {"torn", "empty"}

\* As long as no two processes have been in the middle of something at once, at
\* most one is.
AloneInv == /\ overlap \in BOOLEAN
            /\ ~overlap => \A v, w \in Busy : v = w

\* "overlap" means what it says.
LEMMA AtMostOne ==
  ASSUME NEW S, IsFiniteSet(S), ~(Cardinality(S) > 1), NEW v \in S, NEW w \in S
  PROVE  v = w
<1> SUFFICES ASSUME v # w PROVE FALSE
  OBVIOUS
<1>1. {v, w} \subseteq S
  OBVIOUS
<1>2. Cardinality({v, w}) = 2
  <2>1. IsFiniteSet({v}) /\ Cardinality({v}) = 1
    BY FS_Singleton
  <2>2. Cardinality({v} \cup {w}) = 2
    BY <2>1, FS_AddElement
  <2>3. {v} \cup {w} = {v, w}
    OBVIOUS
  <2> QED BY <2>2, <2>3
<1>3. Cardinality(S) \in Nat /\ Cardinality({v, w}) <= Cardinality(S)
  BY <1>1, FS_Subset, FS_CardinalityType
<1> QED BY <1>2, <1>3

\* A step of one process: where it goes, and what becomes of overlap.
LEMMA GoesKeeps ==
  ASSUME TornInv, AloneInv, NEW w \in Window, NEW to \in Places, Goes(w, to)
  PROVE  /\ doing' \in [Window -> Places] /\ AloneInv'
         /\ overlap => overlap'
         /\ doing'[w] = to /\ \A v \in Window \ {w} : doing'[v] = doing[v]
<1>1. /\ doing' \in [Window -> Places]
      /\ doing'[w] = to /\ \A v \in Window \ {w} : doing'[v] = doing[v]
  BY DEF TornInv, Goes
<1> DEFINE B == {v \in Window : doing'[v] \notin {"off", "idle"}}
<1>2. overlap' = (overlap \/ Cardinality(B) > 1)
  BY DEF Goes
<1>3. Busy' = B
  BY DEF Busy
<1>4. IsFiniteSet(B)
  BY WindowAssumption, FS_Subset
<1>5. overlap' \in BOOLEAN /\ (overlap => overlap')
  BY <1>2 DEF AloneInv
<1>6. ASSUME ~overlap' PROVE ~overlap /\ \A u, v \in Busy' : u = v
  <2>1. ~overlap /\ ~(Cardinality(B) > 1)
    BY <1>2, <1>6
  <2> HIDE DEF B
  <2> QED BY <1>3, <1>4, <2>1, AtMostOne
<1> QED BY <1>1, <1>5, <1>6 DEF AloneInv

\* Every step of a process takes it somewhere.
LEMMA GoesSomewhere ==
  ASSUME NEW w \in Window, WindowStep(w)
  PROVE  \E to \in Places : Goes(w, to)
BY DEF WindowStep, LoadRead, Seed, SetAside, UpdateRead, Backup, OpenTmp, WriteTmp,
   Rename, Rests, EndProcess, Places

LEMMA TornInit == ConfigInit => TornInv /\ AloneInv
<1> SUFFICES ASSUME ConfigInit PROVE TornInv /\ AloneInv
  OBVIOUS
<1>1. file.is \notin {"torn", "empty"} /\ IsFile(file) /\ IsFile(tmp)
  BY DEF ConfigInit, Bad, Good, IsFile
<1>2. /\ doing \in [Window -> Places] /\ overlap = FALSE /\ shared = FALSE
      /\ Busy = {} /\ \A w \in Window : doing[w] = "off"
  BY DEF ConfigInit, Busy, Places
<1> QED BY <1>1, <1>2 DEF TornInv, AloneInv, InTmp

\* A step of one process keeps the temporary file to one process, and torn files
\* out of config.json.
LEMMA TornWindow ==
  ASSUME TornInv, AloneInv, NEW w \in Window, WindowStep(w)
  PROVE  TornInv' /\ AloneInv'
<1> USE DEF Bad, Good, Parses, IsFile
<1>1. PICK to \in Places : Goes(w, to)
  BY GoesSomewhere
<1>2. /\ doing' \in [Window -> Places] /\ AloneInv'
      /\ doing'[w] = to /\ \A v \in Window \ {w} : doing'[v] = doing[v]
      /\ overlap => overlap'
  BY <1>1, GoesKeeps
<1>3. CASE LoadRead(w) \/ UpdateRead(w) \/ EndProcess(w) \/ Backup(w)
  <2>1. UNCHANGED <<file, tmp, shared>>
    BY <1>3 DEF LoadRead, UpdateRead, EndProcess, Backup, files
  <2>2. ~InTmp(w)'
    BY <1>3, <1>2, GoesKeeps DEF LoadRead, Seed, UpdateRead, EndProcess, Backup, InTmp, Places
  <2> QED BY <1>2, <2>1, <2>2 DEF TornInv, InTmp
<1>4. CASE SetAside(w)
  <2>1. file' \in {file, Bad("none")} /\ UNCHANGED <<tmp, shared>>
    BY <1>4 DEF SetAside
  <2>2. ~InTmp(w)'
    BY <1>4, <1>2, GoesKeeps DEF SetAside, InTmp, Places
  <2> QED BY <1>2, <2>1, <2>2 DEF TornInv, InTmp
<1>5. CASE OpenTmp(w)
  <2>1. CASE doing'[w] = "idle" /\ UNCHANGED <<tmp, open, shared>>
    BY <1>2, <1>5, <2>1 DEF OpenTmp, TornInv, InTmp
  <2>2. CASE /\ tmp' = Bad("empty") /\ doing'[w] = "write"
             /\ shared' = (shared \/ \E v \in Window : doing[v] \in {"write", "rename"})
    <3>1. ~shared' => ~shared /\ \A v \in Window : ~InTmp(v)
      BY <2>2 DEF InTmp, TornInv
    <3>2. shared' => overlap'
      BY <1>2, <1>5, <2>2 DEF OpenTmp, TornInv, AloneInv, Busy
    <3> QED BY <1>2, <1>5, <2>2, <3>1, <3>2 DEF OpenTmp, TornInv, InTmp
  <2> QED BY <1>5, <2>1, <2>2, GoesKeeps DEF OpenTmp, Places
<1>6. CASE WriteTmp(w)
  <2>1. UNCHANGED <<file, shared>> /\ IsFile(tmp') /\ doing[w] = "write"
    BY <1>6 DEF WriteTmp
  <2>2. doing'[w] = "idle" \/ (doing'[w] = "rename" /\ (~shared => tmp'.is = "good"))
    BY <1>6, GoesKeeps DEF WriteTmp, Rests, Places
  <2>3. ~shared => \A v \in Window \ {w} : ~InTmp(v)
    BY <2>1 DEF TornInv, InTmp
  <2> QED BY <1>2, <2>1, <2>2, <2>3 DEF TornInv, InTmp
<1>7. CASE Rename(w)
  <2>1. doing[w] = "rename" /\ file' \in {file, tmp} /\ IsFile(file') /\ IsFile(tmp')
        /\ UNCHANGED shared
    BY <1>7 DEF Rename, TornInv
  <2>2. doing'[w] = "idle"
    BY <1>7, GoesKeeps DEF Rename, Rests, Places
  <2>3. ~shared => \A v \in Window \ {w} : ~InTmp(v)
    BY <2>1 DEF TornInv, InTmp
  <2> QED BY <1>2, <2>1, <2>2, <2>3 DEF TornInv, InTmp
<1> QED BY <1>3, <1>4, <1>5, <1>6, <1>7 DEF WindowStep

LEMMA TornStep == TornInv /\ AloneInv /\ [ConfigNext]_configVars => TornInv' /\ AloneInv'
<1> SUFFICES ASSUME TornInv, AloneInv, [ConfigNext]_configVars PROVE TornInv' /\ AloneInv'
  OBVIOUS
<1>1. CASE HandEdit
  <2>1. file'.is \in {"good", "broken"} /\ IsFile(file')
    BY <1>1 DEF HandEdit, TornInv, IsFile, Parses, Bad
  <2> QED BY <1>1, <2>1 DEF HandEdit, TornInv, AloneInv, Busy, InTmp, procs
<1>2. CASE UNCHANGED configVars
  BY <1>2 DEF TornInv, AloneInv, Busy, InTmp, configVars, files, procs
<1> QED BY <1>1, <1>2, TornWindow DEF ConfigNext

\* writeFileAtomic(): config.json is torn or emptied by nobody but the user unless
\* one process has opened the temporary file that another had in hand, for any
\* number of windows, through every start, repair and change.
THEOREM NeverTornHolds == ConfigSpec => []NeverTorn
<1>1. TornInv => NeverTorn
  BY DEF TornInv, NeverTorn
<1> QED BY TornInit, TornStep, <1>1, PTL DEF ConfigSpec

\* What a process that saves is about to put in the place of config.json.  As
\* long as no two processes have been in the middle of something at once: it is
\* not a file that the user broke, when the process saw it; and every key that
\* is not being changed is the file's.
Saves(w) == doing[w] \in {"backup", "open", "write", "rename"}
KeptOf(w) ==
  /\ doing[w] = "rename" => tmp = Good(out[w])
  /\ Saves(w) /\ known[w] =>
       /\ file.is # "broken"
       /\ Parses(file) => \A k \in Key \ keys[w] : out[w][k] = file.of[k]
KeptTypes ==
  /\ out = [w \in Window |-> out[w]] /\ keys = [w \in Window |-> keys[w]]
  /\ known \in [Window -> BOOLEAN]
KeptInv == KeptTypes /\ (~overlap => \A w \in Window : KeptOf(w))

\* A process in the middle of something is the only one.
LEMMA OthersRest ==
  ASSUME TornInv, AloneInv, ~overlap, NEW w \in Window, doing[w] \notin {"off", "idle"},
         NEW v \in Window \ {w}
  PROVE  doing[v] \in {"off", "idle"}
BY DEF TornInv, AloneInv, Busy, Places

\* The tables keep their domains.
LEMMA KeptTypesStep ==
  KeptTypes /\ [ConfigNext]_configVars => KeptTypes'
<1> SUFFICES ASSUME KeptTypes, [ConfigNext]_configVars PROVE KeptTypes'
  OBVIOUS
<1> USE DEF KeptTypes
<1>1. CASE UNCHANGED <<out, keys, known>>
  BY <1>1
<1>2. ASSUME NEW w \in Window, SetAside(w) PROVE KeptTypes'
  BY <1>2 DEF SetAside
<1>3. ASSUME NEW w \in Window, UpdateRead(w) PROVE KeptTypes'
  BY <1>3 DEF UpdateRead
<1>6. ASSUME NEW w \in Window, LoadRead(w) PROVE KeptTypes'
  BY <1>6 DEF LoadRead, Seed
<1>4. CASE HandEdit \/ UNCHANGED configVars
  BY <1>1, <1>4 DEF HandEdit, configVars, procs
<1>5. ASSUME NEW w \in Window, WindowStep(w), ~SetAside(w), ~UpdateRead(w), ~LoadRead(w)
      PROVE  KeptTypes'
  <2>1. UNCHANGED <<out, keys, known>>
    BY <1>5 DEF WindowStep, Backup, OpenTmp, WriteTmp, Rename, EndProcess
  <2> QED
    BY <1>1, <2>1
<1> QED
  BY <1>2, <1>3, <1>4, <1>5, <1>6 DEF ConfigNext

\* What a step of one process leaves of another.
LEMMA OthersKept ==
  ASSUME TornInv, AloneInv, KeptInv, NEW w \in Window, WindowStep(w), ~overlap', ~overlap,
         NEW v \in Window \ {w}, doing'[v] = doing[v]
  PROVE  KeptOf(v)'
<1>1. CASE doing[w] \notin {"off", "idle"}
  <2>1. doing'[v] \in {"off", "idle"}
    BY <1>1, OthersRest
  <2> QED
    BY <2>1 DEF KeptOf, Saves
<1>2. CASE doing[w] \in {"off", "idle"}
  <2>1. LoadRead(w) \/ UpdateRead(w) \/ EndProcess(w)
    BY <1>2 DEF WindowStep, SetAside, Backup, OpenTmp, WriteTmp, Rename
  <2>2. UNCHANGED <<file, tmp>>
    BY <2>1 DEF LoadRead, UpdateRead, EndProcess, files
  <2>3. out'[v] = out[v] /\ keys'[v] = keys[v] /\ known'[v] = known[v]
    BY <2>1 DEF LoadRead, Seed, UpdateRead, EndProcess, KeptInv, KeptTypes
  <2>4. KeptOf(v)
    BY DEF KeptInv
  <2> QED
    BY <2>2, <2>3, <2>4 DEF KeptOf, Saves, Parses
<1> QED
  BY <1>1, <1>2

\* What a step of one process makes of its own save.
LEMMA OwnKept ==
  ASSUME TornInv, AloneInv, KeptInv, NEW w \in Window, WindowStep(w), ~overlap', ~overlap
  PROVE  KeptOf(w)'
<1> USE DEF Good, Bad, Parses, Saves
<1>1. KeptOf(w) /\ KeptTypes
  BY DEF KeptInv
<1>2. ASSUME NEW to \in {"off", "idle", "aside"}, Goes(w, to) PROVE KeptOf(w)'
  <2>1. doing'[w] = to
    BY <1>2, GoesKeeps DEF Places
  <2> QED
    BY <2>1 DEF KeptOf
<1>3. CASE LoadRead(w)
  <2>1. CASE Seed(w)
    <3>1. doing'[w] = "open" /\ ~known'[w]
      BY <1>1, <2>1, GoesKeeps DEF Seed, KeptTypes, Places
    <3> QED
      BY <3>1 DEF KeptOf
  <2> QED
    BY <1>2, <1>3, <2>1 DEF LoadRead
<1>5. CASE Rename(w) \/ EndProcess(w)
  BY <1>2, <1>5 DEF Rename, EndProcess, Rests
<1>6. CASE SetAside(w)
  <2>1. doing'[w] = "open"
    BY <1>6, GoesKeeps DEF SetAside, Places
  <2>2. known'[w] => file' = Bad("none")
    BY <1>1, <1>6 DEF SetAside, KeptTypes
  <2> QED
    BY <2>1, <2>2 DEF KeptOf
<1>7. CASE UpdateRead(w)
  <2>1. CASE Goes(w, "idle")
    BY <1>2, <2>1
  <2>2. CASE Goes(w, "backup")
    <3>1. doing'[w] = "backup" /\ UNCHANGED file
      BY <1>7, <2>2, GoesKeeps DEF UpdateRead, files, Places
    <3>2. ASSUME known'[w]
          PROVE  Parses(file) /\ \A k \in Key \ keys'[w] : out'[w][k] = file.of[k]
      <4>1. PICK ks \in SUBSET Key \ {{}} :
              /\ keys' = [keys EXCEPT ![w] = ks]
              /\ \/ /\ Parses(file) /\ known' = [known EXCEPT ![w] = TRUE]
                    /\ out' = [out EXCEPT ![w] =
                                [q \in Key |-> IF q \in ks
                                              THEN [p \in Key |-> IF p \in ks
                                                                 THEN changes + 1
                                                                 ELSE mem[w][p]][q]
                                              ELSE file.of[q]]]
                 \/ known' = [known EXCEPT ![w] = FALSE]
                 \/ Goes(w, "idle")
        BY <1>7 DEF UpdateRead
      <4>2. ~Goes(w, "idle")
        BY <2>2, GoesKeeps DEF Places
      <4>3. keys'[w] = ks
        BY <1>1, <3>2, <4>1 DEF KeptTypes
      <4>4. known' # [known EXCEPT ![w] = FALSE]
        BY <1>1, <3>2 DEF KeptTypes
      <4> QED
        BY <1>1, <3>2, <4>1, <4>2, <4>3, <4>4 DEF KeptTypes
    <3> QED
      BY <3>1, <3>2 DEF KeptOf
  <2> QED
    BY <1>7, <2>1, <2>2 DEF UpdateRead
<1>8. CASE Backup(w)
  <2>1. CASE Goes(w, "idle")
    BY <1>2, <2>1
  <2>2. CASE Goes(w, "open")
    <3>1. doing'[w] = "open" /\ doing[w] = "backup"
      BY <1>8, <2>2, GoesKeeps DEF Backup, Places
    <3> QED
      BY <1>1, <1>8, <3>1 DEF Backup, KeptOf
  <2> QED
    BY <1>8, <2>1, <2>2 DEF Backup
<1>9. CASE OpenTmp(w)
  <2>1. CASE Goes(w, "idle")
    BY <1>2, <2>1
  <2>2. CASE Goes(w, "write")
    <3>1. doing'[w] = "write" /\ doing[w] = "open"
      BY <1>9, <2>2, GoesKeeps DEF OpenTmp, Places
    <3> QED
      BY <1>1, <1>9, <3>1 DEF OpenTmp, KeptOf
  <2> QED
    BY <1>9, <2>1, <2>2 DEF OpenTmp
<1>10. CASE WriteTmp(w)
  <2>1. CASE Goes(w, "idle")
    BY <1>2, <2>1
  <2>2. CASE Goes(w, "rename")
    <3>1. doing'[w] = "rename" /\ doing[w] = "write"
      BY <1>10, <2>2, GoesKeeps DEF WriteTmp, Places
    <3>2. tmp' = Good(out[w])
      BY <1>10, <3>1, GoesKeeps DEF WriteTmp, Rests, TornInv, Places
    <3> QED
      BY <1>1, <1>10, <3>1, <3>2 DEF WriteTmp, KeptOf
  <2> QED
    BY <1>10, <2>1, <2>2 DEF WriteTmp, Rests
<1> QED
  BY <1>3, <1>5, <1>6, <1>7, <1>8, <1>9, <1>10 DEF WindowStep

\* The file of the start has lost nothing.
LEMMA KeptInit == ConfigInit => KeptInv
BY DEF ConfigInit, KeptInv, KeptTypes, KeptOf, Saves

\* No step of a load or a save loses the broken file or a key of the other
\* window.
LEMMA KeptStep == TornInv /\ AloneInv /\ KeptInv /\ [ConfigNext]_configVars => KeptInv'
<1> SUFFICES ASSUME TornInv, AloneInv, KeptInv, [ConfigNext]_configVars PROVE KeptInv'
  OBVIOUS
<1>1. KeptTypes'
  BY KeptTypesStep DEF KeptInv
<1>2. ASSUME NEW w \in Window, WindowStep(w), ~overlap', NEW v \in Window
      PROVE  KeptOf(v)'
  <2>1. PICK to \in Places : Goes(w, to)
    BY <1>2, GoesSomewhere
  <2>2. ~overlap /\ (v # w => doing'[v] = doing[v])
    BY <1>2, <2>1, GoesKeeps
  <2> QED
    BY <1>2, <2>2, OthersKept, OwnKept
<1>3. CASE HandEdit
  <2>1. \A w \in Window : doing'[w] \in {"off", "idle"}
    BY <1>3 DEF HandEdit, procs
  <2>2. \A w \in Window : KeptOf(w)'
    BY <2>1 DEF KeptOf, Saves
  <2> QED
    BY <1>1, <2>2 DEF KeptInv
<1>4. CASE UNCHANGED configVars
  BY <1>1, <1>4 DEF KeptInv, KeptOf, Saves, Parses, configVars, files, procs
<1> QED
  BY <1>1, <1>2, <1>3, <1>4 DEF ConfigNext, KeptInv

\* The two invariants hold together in every reachable state.
LEMMA ConfigInvariance == ConfigSpec => [](TornInv /\ AloneInv /\ KeptInv)
BY TornInit, TornStep, KeptInit, KeptStep, PTL DEF ConfigSpec

\* For any windows and keys: a file that does not parse leaves its place only
\* by being moved to config.json.invalid, while two windows save at the same
\* time, or after a failed read or move (BrokenKept, Config.cpp:193-211).
THEOREM BrokenNeverLost == ConfigSpec => BrokenKept
<1> DEFINE Kept ==
      file.is = "broken" /\ file'.is # "broken" =>
        \/ invalid' = file
        \/ overlap
        \/ \E w \in Window : doing[w] = "rename" /\ ~known[w]
<1>1. ASSUME TornInv, AloneInv, KeptInv, [ConfigNext]_configVars PROVE [Kept]_configVars
  <2> SUFFICES ASSUME ConfigNext, ~overlap, file.is = "broken", file'.is # "broken",
                      invalid' # file
               PROVE  \E w \in Window : doing[w] = "rename" /\ ~known[w]
    BY <1>1 DEF configVars, files
  <2>1. ~HandEdit
    BY DEF HandEdit, Parses
  <2>2. PICK w \in Window : WindowStep(w)
    BY <2>1 DEF ConfigNext
  <2>3. KeptOf(w)
    BY <1>1 DEF KeptInv
  <2>4. file' # file
    OBVIOUS
  <2>5. SetAside(w) \/ Rename(w)
    BY <2>2, <2>4 DEF WindowStep, LoadRead, UpdateRead, Backup, OpenTmp, WriteTmp,
       EndProcess, files
  <2>7. ~SetAside(w)
    BY <2>4 DEF SetAside
  <2>8. CASE Rename(w)
    BY <2>3, <2>8 DEF Rename, KeptOf, Saves
  <2> QED
    BY <2>5, <2>7, <2>8
<1> QED
  BY <1>1, ConfigInvariance, PTL DEF ConfigSpec, BrokenKept

\* For any windows and keys: a save leaves the keys it did not change as they
\* are in the file, unless its read failed or two windows save at the same
\* time (KeysKept, Config.cpp:387-389).
THEOREM OtherKeysSurvive == ConfigSpec => KeysKept
<1> DEFINE Kept ==
      \A w \in Window :
        doing[w] = "rename" /\ doing'[w] = "idle" /\ ~overlap /\ known[w]
          /\ Parses(file) /\ file' # file =>
            \A k \in Key \ keys[w] : file'.of[k] = file.of[k]
<1>1. ASSUME TornInv, AloneInv, KeptInv, [ConfigNext]_configVars PROVE [Kept]_configVars
  <2> SUFFICES ASSUME ConfigNext, NEW w \in Window, doing[w] = "rename",
                      doing'[w] = "idle", ~overlap, known[w], Parses(file), file' # file,
                      NEW k \in Key \ keys[w]
               PROVE  file'.of[k] = file.of[k]
    BY <1>1 DEF configVars
  <2>1. ~HandEdit
    BY DEF HandEdit
  <2>2. PICK v \in Window : WindowStep(v)
    BY <2>1 DEF ConfigNext
  <2>3. v = w
    <3>1. PICK to \in Places : Goes(v, to)
      BY <2>2, GoesSomewhere
    <3> QED
      BY <1>1, <3>1, GoesKeeps
  <2>4. Rename(w)
    <3>1. ~EndProcess(w)
      BY <1>1, GoesKeeps DEF EndProcess, Places
    <3> QED
      BY <2>2, <2>3, <3>1 DEF WindowStep, LoadRead, SetAside, UpdateRead, Backup,
         OpenTmp, WriteTmp
  <2>5. KeptOf(w)
    BY <1>1 DEF KeptInv
  <2>6. file' = tmp /\ tmp = Good(out[w])
    BY <2>4, <2>5 DEF Rename, KeptOf
  <2> QED
    BY <2>5, <2>6 DEF KeptOf, Saves, Good
<1> QED
  BY <1>1, ConfigInvariance, PTL DEF ConfigSpec, KeysKept
-----------------------------------------------------------------------------
(* Screen readers: elements and text ranges.                               *)

\* Among numbers there is a least.
LEMMA LeastNumber ==
  ASSUME NEW S \in SUBSET Nat, S # {} PROVE \E m \in S : \A k \in S : m <= k
<1> DEFINE Less == {ss \in Nat \X Nat : ss[1] < ss[2]}
<1>1. IsWellFoundedOn(Less, Nat)
  BY NatLessThanWellFounded DEF OpToRel
<1>2. \A y, x \in S : <<y, x>> \notin Less => x <= y
  OBVIOUS
<1> HIDE DEF Less
<1>3. \E x \in S : \A y \in S : ~(<<y, x>> \in Less)
  BY <1>1, WFMin
<1> QED
  BY <1>2, <1>3

\* And among those up to a bound a greatest.
LEMMA GreatestNumber ==
  ASSUME NEW n \in Nat, NEW S \in SUBSET 0..n, S # {} PROVE \E m \in S : \A k \in S : k <= m
<1> DEFINE T == {k \in Nat : n - k \in S}
<1>1. T \in SUBSET Nat
  OBVIOUS
<1>2. PICK s \in S : TRUE
  OBVIOUS
<1>3. n - s \in T
  BY <1>2
<1>4. \A t \in T : n - t \in S
  OBVIOUS
<1>5. \A k \in S : n - k \in T
  OBVIOUS
<1> HIDE DEF T
<1>6. PICK t \in T : \A u \in T : t <= u
  BY <1>1, <1>3, LeastNumber
<1>7. n - t \in S /\ \A k \in S : k <= n - t
  BY <1>1, <1>4, <1>5, <1>6
<1> QED
  BY <1>7

\* The least element of a set of positions is one of them and below all of
\* them.
LEMMA MinIs ==
  ASSUME NEW S \in SUBSET Nat, S # {} PROVE Min(S) \in S /\ \A k \in S : Min(S) <= k
BY LeastNumber DEF Min

\* The greatest element of a bounded set of positions is one of them and
\* above all.
LEMMA MaxIs ==
  ASSUME NEW n \in Nat, NEW S \in SUBSET 0..n, S # {}
  PROVE  Max(S) \in S /\ \A k \in S : k <= Max(S)
BY GreatestNumber DEF Max

\* A sequence has a length.
LEMMA LengthIs ==
  ASSUME NEW S, NEW t \in Seq(S) PROVE Len(t) \in Nat
OBVIOUS

\* A text has a length.
LEMMA TextLength ==
  ASSUME NEW text \in Texts PROVE Len(text) \in Nat
BY LengthIs, Zenon DEF Texts

\* The delimiters behind a position, and those before it.
Behind(text, p, unit) == {q \in p + 1..Len(text) : text[q] = Delimiter(unit)}
Before(text, p, unit) == {q \in 1..p - 1 : text[q] = Delimiter(unit)}

\* From a position within the text, a word or line boundary is the nearest
\* stop behind or before it, or the end of the text.
LEMMA BoundaryByUnit ==
  ASSUME NEW text, NEW p, NEW unit \in {"Word", "Line"}, NEW direction,
         Clamp(p, 0, Len(text)) = p
  PROVE  NextBoundary(text, p, unit, direction) =
           IF direction > 0
           THEN IF Behind(text, p, unit) = {} THEN Len(text) ELSE Min(Behind(text, p, unit))
           ELSE IF Before(text, p, unit) = {} THEN 0 ELSE Max(Before(text, p, unit))
<1>1. unit # "Document" /\ unit # "Character"
  OBVIOUS
<1>2. CASE direction > 0
  BY <1>1, <1>2, Zenon DEF NextBoundary, Behind
<1>3. CASE ~(direction > 0)
  BY <1>1, <1>3, Zenon DEF NextBoundary, Before
<1> QED
  BY <1>2, <1>3

\* A clamped value lies in its bounds, and a value within them is left alone.
LEMMA ClampIs ==
  ASSUME NEW x \in Int, NEW lo \in Int, NEW hi \in Int, lo <= hi
  PROVE  Clamp(x, lo, hi) \in lo..hi /\ (x \in lo..hi => Clamp(x, lo, hi) = x)
BY DEF Clamp

Delims(text, unit) == {q \in 1..Len(text) : text[q] = Delimiter(unit)}

\* A step by a unit forward ends behind the next delimiter or at the end of the
\* text.
LEMMA ForwardIs ==
  ASSUME NEW text \in Texts, NEW p \in 0..Len(text), NEW unit \in {"Word", "Line"},
         NEW next, next = NextBoundary(text, p, unit, 1)
  PROVE  /\ next \in p..Len(text) /\ (p < Len(text) => p < next)
         /\ next = Len(text) \/ next \in Delims(text, unit)
         /\ \A q \in p + 1..next - 1 : q \notin Delims(text, unit)
<1> DEFINE size == Len(text)
           ends == Behind(text, p, unit)
<1>1. size \in Nat /\ p \in Nat /\ p <= size
  BY TextLength
<1>2. Clamp(p, 0, size) = p
  BY <1>1, ClampIs
<1>3. next = IF ends = {} THEN size ELSE Min(ends)
  BY <1>2, BoundaryByUnit
<1>4. \A q \in p + 1..size : q \in Delims(text, unit) <=> q \in ends
  BY <1>1 DEF Delims, Behind
<1>5. ends \in SUBSET (p + 1..size)
  BY DEF Behind
<1> HIDE DEF ends
<1> HIDE DEF size
<1>6. CASE ends = {}
  BY <1>1, <1>3, <1>4, <1>6 DEF size
<1>7. CASE ends # {}
  <2>1. ends \in SUBSET Nat
    BY <1>1, <1>5
  <2>2. next \in ends /\ \A k \in ends : next <= k
    <3>1. Min(ends) \in ends /\ \A k \in ends : Min(ends) <= k
      BY <1>7, <2>1, MinIs
    <3> QED
      BY <1>3, <1>7, <3>1
  <2>3. next \in p + 1..size
    BY <1>5, <2>2
  <2> QED
    BY <1>1, <1>4, <2>2, <2>3 DEF size
<1> QED
  BY <1>6, <1>7

\* A step back ends behind the delimiter before, or at the start.
LEMMA BackIs ==
  ASSUME NEW text \in Texts, NEW p \in 0..Len(text), NEW unit \in {"Word", "Line"},
         NEW next, next = NextBoundary(text, p, unit, -1)
  PROVE  /\ next \in 0..p /\ (0 < p => next < p)
         /\ next = 0 \/ next \in Delims(text, unit)
         /\ \A q \in next + 1..p - 1 : q \notin Delims(text, unit)
<1> DEFINE size == Len(text)
           begins == Before(text, p, unit)
<1>1. size \in Nat /\ p \in Nat /\ p <= size
  BY TextLength
<1>2. Clamp(p, 0, size) = p
  BY <1>1, ClampIs
<1>3. next = IF begins = {} THEN 0 ELSE Max(begins)
  BY <1>2, BoundaryByUnit
<1>4. \A q \in 1..p - 1 : q \in Delims(text, unit) <=> q \in begins
  BY <1>1 DEF Delims, Before
<1>5. begins \in SUBSET (1..p - 1)
  BY DEF Before
<1> HIDE DEF begins
<1> HIDE DEF size
<1>6. CASE begins = {}
  BY <1>1, <1>3, <1>4, <1>6 DEF size
<1>7. CASE begins # {}
  <2>1. begins \in SUBSET 0..p
    BY <1>1, <1>5
  <2>2. next \in begins /\ \A k \in begins : k <= next
    BY <1>1, <1>3, <1>7, <2>1, MaxIs
  <2>3. next \in 1..p - 1
    BY <1>5, <2>2
  <2> QED
    BY <1>1, <1>4, <2>2, <2>3 DEF size
<1> QED
  BY <1>6, <1>7

\* Wherever it begins, a step by any unit ends in the text.
LEMMA BoundaryInText ==
  ASSUME NEW text \in Texts, NEW p \in Int, NEW unit \in Unit, NEW direction \in {-1, 1}
  PROVE  NextBoundary(text, p, unit, direction) \in 0..Len(text)
<1> DEFINE size == Len(text)
           c == Clamp(p, 0, size)
<1>1. size \in Nat
  BY TextLength
<1>2. c \in 0..size
  BY <1>1, ClampIs
<1>3. Clamp(c, 0, size) = c
  BY <1>1, <1>2, ClampIs
<1>4. CASE unit = "Document"
  BY <1>1, <1>4 DEF NextBoundary
<1>5. CASE unit = "Character"
  <2>1. c + direction \in Int
    BY <1>2
  <2>2. Clamp(c + direction, 0, size) \in 0..size
    BY <1>1, <2>1, ClampIs
  <2> QED
    BY <1>5, <2>2 DEF NextBoundary
<1>6. CASE unit \in {"Word", "Line"}
  <2>1. NextBoundary(text, p, unit, direction) = NextBoundary(text, c, unit, direction)
    BY <1>3 DEF NextBoundary
  <2>2. CASE direction = 1
    <3>1. NextBoundary(text, c, unit, 1) \in c..size
      BY <1>2, <1>6, ForwardIs
    <3> QED
      BY <1>1, <1>2, <2>1, <2>2, <3>1
  <2>3. CASE direction = -1
    <3>1. NextBoundary(text, c, unit, -1) \in 0..c
      BY <1>2, <1>6, BackIs
    <3> QED
      BY <1>1, <1>2, <2>1, <2>3, <3>1
  <2> QED
    BY <2>2, <2>3
<1> QED
  BY <1>4, <1>5, <1>6 DEF Unit

\* The function a reader's stops are taken from.
StopsFrom(f, text, unit, direction) ==
  [q \in 0..Len(text) |->
     LET next == NextBoundary(text, q, unit, direction)
     IN {q} \cup (IF next = q THEN {} ELSE f[next])]

Forward(text, unit) ==
  [q \in 0..Len(text) |-> {q, Len(text)} \cup {x \in Delims(text, unit) : x > q}]
Back(text, unit) ==
  [q \in 0..Len(text) |-> {q, 0} \cup {x \in Delims(text, unit) : x < q}]

\* The table of the stops ahead exists: its recursion goes down to the end of
\* the text.
LEMMA ForwardStops ==
  ASSUME NEW text \in Texts, NEW unit \in {"Word", "Line"}
  PROVE  Forward(text, unit) = StopsFrom(Forward(text, unit), text, unit, 1)
<1> DEFINE size == Len(text)
           g == Forward(text, unit)
<1>1. size \in Nat
  BY TextLength
<1>2. Delims(text, unit) \subseteq 1..size
  BY DEF Delims
<1> SUFFICES ASSUME NEW q \in 0..size, NEW next, next = NextBoundary(text, q, unit, 1)
             PROVE  g[q] = {q} \cup (IF next = q THEN {} ELSE g[next])
  BY DEF StopsFrom, Forward
<1>3. /\ next \in q..size /\ (q < size => q < next)
      /\ next = size \/ next \in Delims(text, unit)
      /\ \A x \in q + 1..next - 1 : x \notin Delims(text, unit)
  BY ForwardIs
<1>4. /\ g[q] = {q, size} \cup {x \in Delims(text, unit) : x > q}
      /\ g[next] = {next, size} \cup {x \in Delims(text, unit) : x > next}
  BY <1>1, <1>3 DEF Forward
<1> HIDE DEF g, size
<1>5. CASE next = q
  <2>1. q = size
    BY <1>1, <1>3, <1>5
  <2>2. {x \in Delims(text, unit) : x > q} = {}
    BY <1>1, <1>2, <2>1
  <2> QED
    BY <1>4, <1>5, <2>1, <2>2
<1>6. CASE next # q
  <2>1. {x \in Delims(text, unit) : x > q} \subseteq {next, size} \cup {x \in Delims(text, unit) : x > next}
    BY <1>1, <1>2, <1>3
  <2>2. {x \in Delims(text, unit) : x > next} \subseteq {x \in Delims(text, unit) : x > q}
    BY <1>1, <1>2, <1>3
  <2>3. next = size \/ next \in {x \in Delims(text, unit) : x > q}
    BY <1>1, <1>3, <1>6
  <2> QED
    BY <1>4, <1>6, <2>1, <2>2, <2>3
<1> QED
  BY <1>5, <1>6

\* The table of the stops behind exists.
LEMMA BackStops ==
  ASSUME NEW text \in Texts, NEW unit \in {"Word", "Line"}
  PROVE  Back(text, unit) = StopsFrom(Back(text, unit), text, unit, -1)
<1> DEFINE size == Len(text)
           g == Back(text, unit)
<1>1. size \in Nat
  BY TextLength
<1>2. Delims(text, unit) \subseteq 1..size
  BY DEF Delims
<1> SUFFICES ASSUME NEW q \in 0..size, NEW next, next = NextBoundary(text, q, unit, -1)
             PROVE  g[q] = {q} \cup (IF next = q THEN {} ELSE g[next])
  BY DEF StopsFrom, Back
<1>3. /\ next \in 0..q /\ (0 < q => next < q)
      /\ next = 0 \/ next \in Delims(text, unit)
      /\ \A x \in next + 1..q - 1 : x \notin Delims(text, unit)
  BY BackIs
<1>4. /\ g[q] = {q, 0} \cup {x \in Delims(text, unit) : x < q}
      /\ g[next] = {next, 0} \cup {x \in Delims(text, unit) : x < next}
  BY <1>1, <1>3 DEF Back
<1> HIDE DEF g, size
<1>5. CASE next = q
  <2>1. q = 0
    BY <1>1, <1>3, <1>5
  <2>2. {x \in Delims(text, unit) : x < q} = {}
    BY <1>1, <1>2, <2>1
  <2> QED
    BY <1>4, <1>5, <2>1, <2>2
<1>6. CASE next # q
  <2>1. {x \in Delims(text, unit) : x < q} \subseteq {next, 0} \cup {x \in Delims(text, unit) : x < next}
    BY <1>1, <1>2, <1>3
  <2>2. {x \in Delims(text, unit) : x < next} \subseteq {x \in Delims(text, unit) : x < q}
    BY <1>1, <1>2, <1>3
  <2>3. next = 0 \/ next \in {x \in Delims(text, unit) : x < q}
    BY <1>1, <1>3, <1>6
  <2> QED
    BY <1>4, <1>6, <2>1, <2>2, <2>3
<1> QED
  BY <1>5, <1>6

\* The equation has one solution: of two there would be a position nearest to the
\* end at which they differ, and the step from there leads to a nearer one.
LEMMA OneForward ==
  ASSUME NEW text \in Texts, NEW unit \in {"Word", "Line"},
         NEW f, f = StopsFrom(f, text, unit, 1),
         NEW g, g = StopsFrom(g, text, unit, 1)
  PROVE  \A q \in 0..Len(text) : f[q] = g[q]
<1> DEFINE size == Len(text)
           bad == {q \in 0..size : f[q] # g[q]}
<1>1. size \in Nat /\ bad \in SUBSET 0..size
  BY TextLength
<1>2. \A q \in 0..size : f[q] # g[q] => q \in bad
  OBVIOUS
<1>3. \A q \in bad : f[q] # g[q]
  OBVIOUS
<1> HIDE DEF bad
<1>4. CASE bad # {}
  <2>1. PICK m \in bad : \A k \in bad : k <= m
    BY <1>1, <1>4, GreatestNumber
  <2> DEFINE next == NextBoundary(text, m, unit, 1)
  <2>2. m \in 0..size
    BY <1>1
  <2>3. /\ f[m] = {m} \cup (IF next = m THEN {} ELSE f[next])
        /\ g[m] = {m} \cup (IF next = m THEN {} ELSE g[next])
    BY <2>2 DEF StopsFrom
  <2>4. next \in m..size
    BY <2>2, ForwardIs
  <2> HIDE DEF next
  <2>5. next # m => f[next] = g[next]
    BY <1>1, <1>2, <2>1, <2>2, <2>4
  <2> QED
    BY <1>3, <2>1, <2>3, <2>5
<1> QED
  BY <1>2, <1>4

\* There is only one table of the stops behind.
LEMMA OneBack ==
  ASSUME NEW text \in Texts, NEW unit \in {"Word", "Line"},
         NEW f, f = StopsFrom(f, text, unit, -1),
         NEW g, g = StopsFrom(g, text, unit, -1)
  PROVE  \A q \in 0..Len(text) : f[q] = g[q]
<1> DEFINE size == Len(text)
           bad == {q \in 0..size : f[q] # g[q]}
<1>1. size \in Nat /\ bad \in SUBSET 0..size
  BY TextLength
<1>2. \A q \in 0..size : f[q] # g[q] => q \in bad
  OBVIOUS
<1>3. \A q \in bad : f[q] # g[q]
  OBVIOUS
<1> HIDE DEF bad
<1>4. CASE bad # {}
  <2>0. bad \in SUBSET Nat
    BY <1>1
  <2>1. PICK m \in bad : \A k \in bad : m <= k
    BY <1>4, <2>0, LeastNumber
  <2> DEFINE next == NextBoundary(text, m, unit, -1)
  <2>2. m \in 0..size
    BY <1>1
  <2>3. /\ f[m] = {m} \cup (IF next = m THEN {} ELSE f[next])
        /\ g[m] = {m} \cup (IF next = m THEN {} ELSE g[next])
    BY <2>2 DEF StopsFrom
  <2>4. next \in 0..m
    BY <2>2, BackIs
  <2> HIDE DEF next
  <2>5. next # m => f[next] = g[next]
    BY <1>1, <1>2, <2>1, <2>2, <2>4
  <2> QED
    BY <1>3, <2>1, <2>3, <2>5
<1> QED
  BY <1>2, <1>4

\* A reader who steps forward through a text by words or lines, or back, stops at
\* the start of each and at both ends.
LEMMA StopsAtEach ==
  ASSUME NEW text \in Texts, NEW unit \in {"Word", "Line"},
         NEW all, all = {0, Len(text)} \cup Delims(text, unit)
  PROVE  Stops(text, 0, unit, 1) = all /\ Stops(text, Len(text), unit, -1) = all
<1> DEFINE size == Len(text)
           f == CHOOSE h : h = StopsFrom(h, text, unit, 1)
           b == CHOOSE h : h = StopsFrom(h, text, unit, -1)
<1>1. size \in Nat /\ Delims(text, unit) \subseteq 1..size
  BY TextLength DEF Delims
<1>2. Stops(text, 0, unit, 1) = f[0] /\ Stops(text, size, unit, -1) = b[size]
  BY DEF Stops, StopsFrom
<1>3. f = StopsFrom(f, text, unit, 1)
  BY ForwardStops
<1>4. b = StopsFrom(b, text, unit, -1)
  BY BackStops
<1> HIDE DEF f, b
<1>5. f[0] = Forward(text, unit)[0]
  BY <1>1, <1>3, ForwardStops, OneForward
<1>6. b[size] = Back(text, unit)[size]
  BY <1>1, <1>4, BackStops, OneBack
<1>7. Forward(text, unit)[0] = {0, size} \cup {x \in Delims(text, unit) : x > 0}
  BY <1>1 DEF Forward
<1>8. Back(text, unit)[size] = {size, 0} \cup {x \in Delims(text, unit) : x < size}
  BY <1>1 DEF Back
<1> HIDE DEF size
<1>9. {0, size} \cup {x \in Delims(text, unit) : x > 0} = {0, size} \cup Delims(text, unit)
  BY <1>1
<1>10. {size, 0} \cup {x \in Delims(text, unit) : x < size} = {0, size} \cup Delims(text, unit)
  BY <1>1
<1> QED
  BY <1>2, <1>5, <1>6, <1>7, <1>8, <1>9, <1>10 DEF size
-----------------------------------------------------------------------------
RangeObjects ==
  [kind : {"range"}, refs : Int, text : Texts, start : Int, end : Int]
Readable ==
  {r \in RangeObjects : 0 <= r.start /\ r.start <= r.end /\ r.end <= Len(r.text)}
IsChild(o) ==
  o.refs \in Int /\ o = [kind |-> "child", refs |-> o.refs, id |-> o.id]
ObjectOk(o) == IsChild(o) \/ o \in Readable

Taken(obj) == {s \in Slot : obj[s] # Unused}

AccInv ==
  /\ window \in BOOLEAN /\ rooted \in Nat /\ terminalText \in Texts
  /\ object = [s \in Slot |-> object[s]]
  /\ \A s \in Slot : object[s] # Unused => ObjectOk(object[s])
  /\ RootOutlives

\* normalize() makes a range readable: its ends are in order and within the
\* text.
LEMMA NormalizeIs ==
  ASSUME NEW r \in RangeObjects PROVE Normalize(r) \in Readable
<1>1. r.text \in Texts /\ r.start \in Int /\ r.end \in Int
  BY DEF RangeObjects
<1>2. PICK size : size = Len(r.text)
  OBVIOUS
<1>3. PICK start : start = Clamp(r.start, 0, size)
  OBVIOUS
<1>4. PICK end : end = Clamp(r.end, start, size)
  OBVIOUS
<1>5. size \in Nat
  BY <1>1, <1>2, TextLength
<1>6. start \in 0..size
  <2>1. 0 <= size /\ 0 \in Int /\ size \in Int
    BY <1>5
  <2> QED
    BY <1>1, <1>3, <2>1, ClampIs
<1>7. end \in start..size
  <2>1. start <= size /\ start \in Int /\ size \in Int
    BY <1>5, <1>6
  <2> QED
    BY <1>1, <1>4, <2>1, ClampIs
<1>8. Normalize(r) = [r EXCEPT !.start = start, !.end = end]
  BY <1>2, <1>3, <1>4, Zenon DEF Normalize
<1> DEFINE n == [r EXCEPT !.start = start, !.end = end]
<1>9. n \in RangeObjects /\ n.start = start /\ n.end = end /\ n.text = r.text
  <2>1. start \in Int /\ end \in Int
    BY <1>5, <1>6, <1>7
  <2> QED
    BY <2>1 DEF RangeObjects
<1>10. 0 <= n.start /\ n.start <= n.end /\ n.end <= Len(n.text)
  BY <1>2, <1>5, <1>6, <1>7, <1>9
<1> QED
  BY <1>8, <1>9, <1>10 DEF Readable

\* What a readable range has.
LEMMA ReadableIs ==
  ASSUME NEW r \in Readable
  PROVE  /\ r \in RangeObjects /\ r.kind = "range" /\ r.refs \in Int /\ r.text \in Texts
         /\ r.start \in 0..Len(r.text) /\ r.end \in r.start..Len(r.text)
         /\ Len(r.text) \in Nat /\ r # Unused /\ ObjectOk(r)
<1>1. r \in RangeObjects /\ r.kind = "range" /\ r.refs \in Int /\ r.text \in Texts
  BY DEF Readable, RangeObjects
<1>2. Len(r.text) \in Nat
  BY <1>1, TextLength
<1>3. r # Unused
  BY <1>1 DEF Unused
<1>4. r.start \in Int /\ r.end \in Int
  BY <1>1 DEF RangeObjects
<1>5. 0 <= r.start /\ r.start <= r.end /\ r.end <= Len(r.text)
  BY DEF Readable
<1> QED
  BY <1>1, <1>2, <1>3, <1>4, <1>5 DEF ObjectOk

\* A range whose ends are moved is still a range object.
LEMMA MovedIs ==
  ASSUME NEW r \in RangeObjects, NEW start \in Int, NEW end \in Int
  PROVE  [r EXCEPT !.start = start, !.end = end] \in RangeObjects
BY DEF RangeObjects

\* A range made from any two positions is readable.
LEMMA Range1Is ==
  ASSUME NEW text \in Texts, NEW start \in Int, NEW end \in Int
  PROVE  Range1(text, start, end) \in Readable
<1> DEFINE r == [kind |-> "range", refs |-> 1, text |-> text, start |-> start, end |-> end]
<1>1. r \in RangeObjects
  BY DEF RangeObjects
<1> QED
  BY <1>1, NormalizeIs, Zenon DEF Range1

\* A range expanded to a unit is readable, whatever it was before.
LEMMA ExpandedIs ==
  ASSUME NEW r \in RangeObjects, NEW unit \in Unit
  PROVE  Expanded(r, unit) \in Readable
<1> DEFINE start == IF unit = "Document" THEN 0 ELSE NextBoundary(r.text, r.start, unit, -1)
           end == IF unit = "Document" THEN Len(r.text) ELSE NextBoundary(r.text, start, unit, 1)
<1>1. r.text \in Texts /\ r.start \in Int
  BY DEF RangeObjects
<1>2. Len(r.text) \in Nat
  BY <1>1, TextLength
<1>3. start \in Int
  <2>1. NextBoundary(r.text, r.start, unit, -1) \in 0..Len(r.text)
    BY <1>1, BoundaryInText
  <2> QED
    BY <1>2, <2>1
<1> HIDE DEF start
<1>4. end \in Int
  <2>1. NextBoundary(r.text, start, unit, 1) \in 0..Len(r.text)
    BY <1>1, <1>3, BoundaryInText
  <2> QED
    BY <1>2, <2>1
<1> HIDE DEF end
<1>5. Normalize([r EXCEPT !.start = start, !.end = end]) \in Readable
  BY <1>3, <1>4, MovedIs, NormalizeIs
<1> QED
  BY <1>5, Zenon DEF Expanded, start, end

\* A range one end of which is moved is readable: the other end gives way.
LEMMA EndpointAtIs ==
  ASSUME NEW r \in RangeObjects, NEW which, NEW position \in Int
  PROVE  EndpointAt(r, which, position) \in Readable
<1>1. r.start \in Int /\ r.end \in Int
  BY DEF RangeObjects
<1>3. CASE which = "Start"
  <2> DEFINE moved == [r EXCEPT !.start = position,
                                !.end = IF @ < position THEN position ELSE @]
  <2>1. moved \in RangeObjects
    BY <1>1 DEF RangeObjects
  <2>2. EndpointAt(r, which, position) = Normalize(moved)
    BY <1>3, Zenon DEF EndpointAt
  <2> QED
    BY <2>1, <2>2, NormalizeIs
<1>4. CASE which # "Start"
  <2> DEFINE moved == [r EXCEPT !.end = position,
                                !.start = IF @ > position THEN position ELSE @]
  <2>1. moved \in RangeObjects
    BY <1>1 DEF RangeObjects
  <2>2. EndpointAt(r, which, position) = Normalize(moved)
    BY <1>4, Zenon DEF EndpointAt
  <2> QED
    BY <2>1, <2>2, NormalizeIs
<1> QED
  BY <1>3, <1>4

\* What a constructor makes is counted.
LEMMA MadeKeeps ==
  ASSUME AccInv, NEW s \in Slot, NEW o, Made(s, o), o # Unused, ObjectOk(o)
  PROVE  AccInv'
<1>1. Taken(object') = Taken(object) \cup {s} /\ s \notin Taken(object)
  BY DEF AccInv, Made, Taken
<1>2. IsFiniteSet(Taken(object))
  BY SlotAssumption, FS_Subset DEF Taken
<1>3. Cardinality(Taken(object')) = Cardinality(Taken(object)) + 1
  BY <1>1, <1>2, FS_AddElement
<1>4. Cardinality(Taken(object)) \in Nat
  BY <1>2, FS_CardinalityType
<1>5. rootRefs = (IF window THEN 1 ELSE 0) + rooted + Cardinality(Taken(object))
  BY DEF AccInv, RootOutlives, Taken
<1>6. window \in BOOLEAN /\ rooted \in Nat
  BY DEF AccInv
<1>7. rootRefs' = rootRefs + 1 /\ window' = window /\ rooted' = rooted
  BY DEF Made, KeepWindow
<1>8. rootRefs' = (IF window' THEN 1 ELSE 0) + rooted' + Cardinality(Taken(object'))
  BY <1>3, <1>4, <1>5, <1>6, <1>7
<1>9. RootOutlives'
  BY <1>8 DEF RootOutlives, Taken
<1>10. object' = [x \in Slot |-> IF x = s THEN o ELSE object[x]]
  BY DEF AccInv, Made
<1>11. \A x \in Slot : object'[x] # Unused => ObjectOk(object'[x])
  BY <1>10 DEF AccInv
<1>12. object' = [x \in Slot |-> object'[x]]
  BY <1>10
<1>13. window' \in BOOLEAN /\ rooted' \in Nat /\ terminalText' \in Texts
  BY <1>7 DEF AccInv, Made, KeepWindow
<1> QED
  BY <1>9, <1>11, <1>12, <1>13 DEF AccInv

\* What a range becomes is what is kept in its place.
LEMMA BecomesKeeps ==
  ASSUME AccInv, NEW s \in Slot, NEW o, object[s] # Unused, o # Unused, ObjectOk(o),
         object' = [object EXCEPT ![s] = o], KeepWindow, UNCHANGED <<rootRefs, rooted>>
  PROVE  AccInv'
<1>1. object' = [x \in Slot |-> IF x = s THEN o ELSE object[x]]
  BY DEF AccInv
<1>2. {x \in Slot : object'[x] # Unused} = {x \in Slot : object[x] # Unused}
  BY <1>1
<1>3. RootOutlives'
  BY <1>2 DEF AccInv, RootOutlives, KeepWindow
<1>4. \A x \in Slot : object'[x] # Unused => ObjectOk(object'[x])
  BY <1>1 DEF AccInv
<1>5. object' = [x \in Slot |-> object'[x]]
  BY <1>1
<1> QED
  BY <1>3, <1>4, <1>5 DEF AccInv, KeepWindow

\* What is not free is a child or a range.
LEMMA KindsAre ==
  ASSUME AccInv, NEW s \in Slot
  PROVE  /\ object[s].kind = "range" => object[s] \in Readable
         /\ object[s].kind # "free" => object[s] # Unused /\ ObjectOk(object[s])
<1>1. CASE object[s] = Unused
  BY <1>1 DEF Unused
<1>2. CASE object[s] # Unused
  <2>1. ObjectOk(object[s])
    BY <1>2 DEF AccInv
  <2>2. IsChild(object[s]) => object[s].kind = "child"
    <3> DEFINE o == object[s]
    <3>1. o = [kind |-> "child", refs |-> o.refs, id |-> o.id] => o.kind = "child"
      OBVIOUS
    <3> QED
      BY <3>1 DEF IsChild
  <2> QED
    BY <1>2, <2>1, <2>2 DEF ObjectOk
<1> QED
  BY <1>1, <1>2

\* A child element that GetChild hands out is a live object with one
\* reference.
LEMMA ChildIs ==
  ASSUME NEW id PROVE Child(id) # Unused /\ ObjectOk(Child(id))
<1> DEFINE c == Child(id)
<1>1. c = [kind |-> "child", refs |-> 1, id |-> id]
  BY DEF Child
<1>2. c.kind = "child" /\ c.refs = 1 /\ c.id = id
  BY <1>1
<1> HIDE DEF c
<1>3. c # Unused
  BY <1>2 DEF Unused
<1>4. IsChild(c)
  BY <1>1, <1>2 DEF IsChild
<1> QED
  BY <1>3, <1>4 DEF ObjectOk, c

\* A reference count is a number.
LEMMA CountIs ==
  ASSUME NEW o, ObjectOk(o) PROVE o.refs \in Int
BY ReadableIs DEF ObjectOk, IsChild

\* A change of the count changes nothing else of the object.
LEMMA CountedIs ==
  ASSUME NEW o, o # Unused, ObjectOk(o), NEW n \in Int
  PROVE  [o EXCEPT !.refs = n] # Unused /\ ObjectOk([o EXCEPT !.refs = n]) /\ o.refs \in Int
         /\ (o \in Readable => [o EXCEPT !.refs = n] \in Readable)
<1>1. CASE IsChild(o)
  <2> DEFINE c == [kind |-> "child", refs |-> n, id |-> o.id]
  <2>1. [o EXCEPT !.refs = n] = c
    BY <1>1 DEF IsChild
  <2>2. c.refs = n /\ c.kind = "child" /\ c.id = o.id
    OBVIOUS
  <2>3. IsChild(c)
    BY <2>2 DEF IsChild
  <2>4. c # Unused
    BY <2>2 DEF Unused
  <2>5. o \notin Readable
    <3>1. o.kind = "child"
      BY <1>1 DEF IsChild
    <3> QED
      BY <3>1, ReadableIs
  <2> QED
    BY <1>1, <2>1, <2>3, <2>4, <2>5 DEF ObjectOk, IsChild
<1>2. CASE o \in Readable
  <2>1. [o EXCEPT !.refs = n] \in Readable
    BY <1>2 DEF Readable, RangeObjects
  <2> QED
    BY <1>2, <2>1, ReadableIs
<1> QED
  BY <1>1, <1>2 DEF ObjectOk
-----------------------------------------------------------------------------
\* At the start no client has an object.
LEMMA AccInitInv == AccInit => AccInv
<1> SUFFICES ASSUME AccInit PROVE AccInv
  OBVIOUS
<1>1. Taken(object) = {}
  BY DEF AccInit, Taken
<1>2. RootOutlives
  <2>1. Cardinality(Taken(object)) = 0
    BY <1>1, FS_EmptySet
  <2>2. rootRefs = (IF window THEN 1 ELSE 0) + rooted + Cardinality(Taken(object))
    BY <2>1 DEF AccInit
  <2> QED
    BY <2>2 DEF RootOutlives, Taken
<1>3. terminalText \in Texts
  BY EmptySeq, Zenon DEF AccInit, Texts
<1> QED
  BY <1>2, <1>3 DEF AccInit, AccInv

\* The screens and what is searched in them are texts.
LEMMA ScreenTexts == Screens \subseteq Texts /\ Needles \subseteq Texts
BY ScreensAssumption

\* What the window does keeps the objects of its clients in order.
LEMMA WindowSteps ==
  ASSUME AccInv, Publish \/ TakeInvoke \/ GetRoot \/ WindowGone \/ ReleaseRoot
  PROVE  AccInv'
<1> DEFINE held == Cardinality({s \in Slot : object[s] # Unused})
<1>0. rootRefs = (IF window THEN 1 ELSE 0) + rooted + held
  BY DEF AccInv, RootOutlives
<1>1. held \in Nat
  BY SlotAssumption, FS_Subset, FS_CardinalityType
<1> HIDE DEF held
<1>2. window \in BOOLEAN /\ rooted \in Nat
  BY DEF AccInv
<1>3. object' = object
  BY DEF Publish, TakeInvoke, GetRoot, WindowGone, ReleaseRoot, KeepClient, KeepWindow
<1>4. terminalText' \in Texts
  BY ScreenTexts DEF AccInv, Publish, TakeInvoke, GetRoot, WindowGone, ReleaseRoot, KeepClient, KeepWindow
<1>5. /\ rootRefs' = (IF window' THEN 1 ELSE 0) + rooted' + held
      /\ window' \in BOOLEAN /\ rooted' \in Nat
  <2>1. CASE Publish \/ TakeInvoke
    BY <1>0, <1>2, <2>1 DEF Publish, TakeInvoke, KeepClient
  <2>2. CASE GetRoot
    <3>1. rootRefs' = rootRefs + 1 /\ rooted' = rooted + 1 /\ window' = window
      BY <2>2 DEF GetRoot, KeepWindow
    <3> QED
      BY <1>0, <1>1, <1>2, <3>1
  <2>3. CASE WindowGone
    <3>1. window /\ ~window' /\ window' = FALSE /\ rootRefs' = rootRefs - 1 /\ rooted' = rooted
      BY <2>3 DEF WindowGone, KeepClient
    <3>2. rootRefs = 1 + rooted + held
      BY <1>0, <3>1
    <3>3. rootRefs' = 0 + rooted' + held
      BY <1>1, <1>2, <3>1, <3>2
    <3> QED
      BY <1>2, <3>1, <3>3
  <2>4. CASE ReleaseRoot
    <3>1. /\ rootRefs' = rootRefs - 1 /\ rooted > 0 /\ rooted' = rooted - 1
          /\ window' = window
      BY <2>4 DEF ReleaseRoot, KeepWindow
    <3> QED
      BY <1>0, <1>1, <1>2, <3>1
  <2> QED
    BY <2>1, <2>2, <2>3, <2>4
<1>6. RootOutlives'
  BY <1>3, <1>5 DEF held, RootOutlives
<1> QED
  BY <1>3, <1>4, <1>5, <1>6 DEF AccInv

\* A call on one element keeps the objects in order.
LEMMA ObjectSteps ==
  ASSUME AccInv, NEW s \in Slot,
         AddRef(s) \/ Release(s) \/ ToRoot(s) \/ FirstOrLast(s) \/ Invoke(s)
  PROVE  AccInv'
<1>1. CASE AddRef(s)
  <2> DEFINE o == [object[s] EXCEPT !.refs = @ + 1]
             n == object[s].refs + 1
  <2>1. object[s] # Unused /\ ObjectOk(object[s])
    BY <1>1, KindsAre DEF AddRef
  <2>2. n \in Int
    <3>1. object[s].refs \in Int
      BY <2>1, CountIs
    <3> QED
      BY <3>1
  <2>3. object' = [object EXCEPT ![s] = [object[s] EXCEPT !.refs = n]]
    BY <1>1 DEF AddRef, AccInv
  <2> HIDE DEF n
  <2>4. [object[s] EXCEPT !.refs = n] # Unused /\ ObjectOk([object[s] EXCEPT !.refs = n])
    BY <2>1, <2>2, CountedIs
  <2> QED
    BY <1>1, <2>1, <2>3, <2>4, BecomesKeeps DEF AddRef
<1>2. CASE Release(s)
  <2>1. object[s] # Unused /\ ObjectOk(object[s])
    BY <1>2, KindsAre DEF Release
  <2>2. CASE object[s].refs = 1
    <3>1. object' = [object EXCEPT ![s] = Unused] /\ rootRefs' = rootRefs - 1
      BY <1>2, <2>2 DEF Release
    <3>2. window' = window /\ rooted' = rooted /\ terminalText' = terminalText
      BY <1>2 DEF Release, KeepWindow
    <3>3. object' = [x \in Slot |-> IF x = s THEN Unused ELSE object[x]]
      BY <3>1 DEF AccInv
    <3>4. Taken(object') = Taken(object) \ {s} /\ s \in Taken(object)
      BY <2>1, <3>3 DEF Taken
    <3>5. IsFiniteSet(Taken(object))
      BY SlotAssumption, FS_Subset DEF Taken
    <3>6. Cardinality(Taken(object')) = Cardinality(Taken(object)) - 1
      BY <3>4, <3>5, FS_RemoveElement
    <3>7. Cardinality(Taken(object)) \in Nat
      BY <3>5, FS_CardinalityType
    <3>8. rootRefs = (IF window THEN 1 ELSE 0) + rooted + Cardinality(Taken(object))
      BY DEF AccInv, RootOutlives, Taken
    <3>9. window \in BOOLEAN /\ rooted \in Nat
      BY DEF AccInv
    <3>10. rootRefs' = (IF window' THEN 1 ELSE 0) + rooted' + Cardinality(Taken(object'))
      BY <3>1, <3>2, <3>6, <3>7, <3>8, <3>9
    <3>11. RootOutlives'
      BY <3>10 DEF RootOutlives, Taken
    <3>12. \A x \in Slot : object'[x] # Unused => ObjectOk(object'[x])
      BY <3>3 DEF AccInv
    <3>13. object' = [x \in Slot |-> object'[x]]
      BY <3>3
    <3> QED
      BY <3>2, <3>11, <3>12, <3>13 DEF AccInv
  <2>3. CASE object[s].refs # 1
    <3> DEFINE n == object[s].refs - 1
    <3>1. n \in Int
      <4>1. object[s].refs \in Int
        BY <2>1, CountIs
      <4> QED
        BY <4>1
    <3>2. object' = [object EXCEPT ![s] = [object[s] EXCEPT !.refs = n]]
      BY <1>2, <2>3 DEF Release, AccInv
    <3> HIDE DEF n
    <3>3. [object[s] EXCEPT !.refs = n] # Unused /\ ObjectOk([object[s] EXCEPT !.refs = n])
      BY <2>1, <3>1, CountedIs
    <3> QED
      BY <1>2, <2>1, <2>3, <3>2, <3>3, BecomesKeeps DEF Release
  <2> QED
    BY <2>2, <2>3
<1>3. CASE ToRoot(s)
  <2> DEFINE held == Cardinality({x \in Slot : object[x] # Unused})
  <2>1. rootRefs = (IF window THEN 1 ELSE 0) + rooted + held
    BY DEF AccInv, RootOutlives
  <2>2. held \in Nat
    BY SlotAssumption, FS_Subset, FS_CardinalityType
  <2> HIDE DEF held
  <2>3. window \in BOOLEAN /\ rooted \in Nat
    BY DEF AccInv
  <2>4. object' = object /\ window' = window /\ terminalText' = terminalText
        /\ rooted' = rooted + 1 /\ rootRefs' = rootRefs + 1
    BY <1>3 DEF ToRoot, KeepWindow
  <2>5. rootRefs' = (IF window' THEN 1 ELSE 0) + rooted' + held
    BY <2>1, <2>2, <2>3, <2>4
  <2>6. RootOutlives'
    BY <2>4, <2>5 DEF held, RootOutlives
  <2> QED
    BY <2>3, <2>4, <2>6 DEF AccInv
<1>4. CASE FirstOrLast(s)
  <2>1. PICK id : Made(s, Child(id))
    BY <1>4 DEF FirstOrLast
  <2> QED
    BY <2>1, ChildIs, MadeKeeps
<1>5. CASE Invoke(s)
  BY <1>5 DEF Invoke, KeepClient, AccInv, RootOutlives
<1> QED
  BY <1>1, <1>2, <1>3, <1>4, <1>5

\* A call on one text range keeps the objects in order.
LEMMA RangeSteps ==
  ASSUME AccInv, NEW s \in Slot,
         DocumentRange(s) \/ ExpandToEnclosingUnit(s) \/ MoveByUnit(s) \/ MoveEndpointByUnit(s)
  PROVE  AccInv'
<1> DEFINE r == object[s]
<1>0. ASSUME r.kind = "range"
      PROVE  /\ r \in Readable /\ r \in RangeObjects /\ r # Unused /\ r.text \in Texts
             /\ r.start \in Int /\ r.end \in Int
  <2>1. r \in Readable
    BY <1>0, KindsAre
  <2> QED
    BY <2>1, ReadableIs DEF RangeObjects
<1>1. ASSUME NEW q, q \in Readable, r.kind = "range", Becomes(s, q) PROVE AccInv'
  <2>1. q # Unused /\ ObjectOk(q)
    BY <1>1, ReadableIs
  <2> QED
    BY <1>0, <1>1, <2>1, BecomesKeeps DEF Becomes
<1>2. CASE DocumentRange(s)
  <2>1. terminalText \in Texts /\ Len(terminalText) \in Int
    BY TextLength DEF AccInv
  <2>2. Range1(terminalText, 0, Len(terminalText)) \in Readable
    BY <2>1, Range1Is
  <2>3. Made(s, Range1(terminalText, 0, Len(terminalText)))
    BY <1>2 DEF DocumentRange
  <2> QED
    BY <2>2, <2>3, ReadableIs, MadeKeeps
<1>3. CASE ExpandToEnclosingUnit(s)
  <2>1. r.kind = "range"
    BY <1>3 DEF ExpandToEnclosingUnit
  <2>2. PICK unit \in Unit : Becomes(s, Expanded(r, unit))
    BY <1>3 DEF ExpandToEnclosingUnit
  <2>3. Expanded(r, unit) \in Readable
    BY <1>0, <2>1, ExpandedIs
  <2> QED
    BY <1>1, <2>1, <2>2, <2>3
<1>4. CASE MoveByUnit(s)
  <2>1. r.kind = "range"
    BY <1>4 DEF MoveByUnit
  <2>2. PICK unit \in Unit, direction \in {-1, 1} :
          Becomes(s, Moved(r, unit, direction))
    BY <1>4, Zenon DEF MoveByUnit
  <2> DEFINE p == NextBoundary(r.text, r.start, unit, direction)
  <2>3. p \in 0..Len(r.text) /\ Len(r.text) \in Nat
    BY <1>0, <2>1, BoundaryInText, TextLength
  <2>4. p \in Int
    BY <2>3
  <2>5. Becomes(s, Expanded([r EXCEPT !.start = p, !.end = p], unit))
    BY <2>2, Zenon DEF Moved
  <2> HIDE DEF p
  <2>6. Expanded([r EXCEPT !.start = p, !.end = p], unit) \in Readable
    BY <1>0, <2>1, <2>4, MovedIs, ExpandedIs
  <2> QED
    BY <1>1, <2>1, <2>5, <2>6
<1>5. CASE MoveEndpointByUnit(s)
  <2>1. r.kind = "range"
    BY <1>5 DEF MoveEndpointByUnit
  <2>2. PICK unit \in Unit, direction \in {-1, 1}, which \in {"Start", "End"} :
          Becomes(s, EndpointAt(r, which,
                       NextBoundary(r.text, Endpoint(r, which), unit, direction)))
    BY <1>5, Zenon DEF MoveEndpointByUnit
  <2> DEFINE p == NextBoundary(r.text, Endpoint(r, which), unit, direction)
  <2>3. Endpoint(r, which) \in Int
    BY <1>0, <2>1 DEF Endpoint
  <2>4. p \in 0..Len(r.text) /\ Len(r.text) \in Nat
    BY <1>0, <2>1, <2>3, BoundaryInText, TextLength
  <2>5. p \in Int
    BY <2>4
  <2>6. EndpointAt(r, which, p) \in Readable
    BY <1>0, <2>1, <2>5, EndpointAtIs
  <2> QED
    BY <1>1, <2>1, <2>2, <2>6
<1> QED
  BY <1>2, <1>3, <1>4, <1>5

\* A call that hands out a second object, or reads one, keeps both in order.
LEMMA PairSteps ==
  ASSUME AccInv, NEW s \in Slot, NEW t \in Slot,
         Neighbour(s, t) \/ Clone(s, t) \/ FindText(s, t) \/ MoveEndpointByRange(s, t)
  PROVE  AccInv'
<1> DEFINE r == object[s]
<1>0. ASSUME NEW x \in Slot, object[x].kind = "range"
      PROVE  /\ object[x] \in Readable /\ object[x] \in RangeObjects /\ object[x] # Unused
             /\ object[x].text \in Texts /\ object[x].start \in Int /\ object[x].end \in Int
  <2>1. object[x] \in Readable
    BY <1>0, KindsAre
  <2> QED
    BY <2>1, ReadableIs DEF RangeObjects
<1>1. CASE Neighbour(s, t)
  <2>1. PICK id : Made(t, Child(id))
    BY <1>1 DEF Neighbour
  <2> QED
    BY <2>1, ChildIs, MadeKeeps
<1>2. CASE Clone(s, t)
  <2>1. r.kind = "range" /\ Made(t, [r EXCEPT !.refs = 1])
    BY <1>2 DEF Clone
  <2>2. [r EXCEPT !.refs = 1] \in Readable
    BY <1>0, <2>1 DEF Readable, RangeObjects
  <2> QED
    BY <2>1, <2>2, ReadableIs, MadeKeeps
<1>3. CASE FindText(s, t)
  <2>1. PICK needle \in Needles, at \in r.start..r.end :
          r.kind = "range" /\ Made(t, Range1(r.text, at, at + Len(needle)))
    BY <1>3, Zenon DEF FindText
  <2>2. Len(needle) \in Nat
    BY ScreenTexts, TextLength
  <2>3. at \in Int /\ at + Len(needle) \in Int
    BY <1>0, <2>1, <2>2
  <2>4. Range1(r.text, at, at + Len(needle)) \in Readable
    BY <1>0, <2>1, <2>3, Range1Is
  <2> QED
    BY <2>1, <2>4, ReadableIs, MadeKeeps
<1>4. CASE MoveEndpointByRange(s, t)
  <2>1. r.kind = "range" /\ object[t].kind = "range"
    BY <1>4 DEF MoveEndpointByRange
  <2>2. PICK which \in {"Start", "End"}, its \in {"Start", "End"} :
          Becomes(s, EndpointAt(r, which, Endpoint(object[t], its)))
    BY <1>4, Zenon DEF MoveEndpointByRange
  <2>3. Endpoint(object[t], its) \in Int
    BY <1>0, <2>1 DEF Endpoint
  <2>4. EndpointAt(r, which, Endpoint(object[t], its)) \in Readable
    BY <1>0, <2>1, <2>3, EndpointAtIs
  <2> QED
    BY <1>0, <2>1, <2>2, <2>4, ReadableIs, BecomesKeeps DEF Becomes
<1> QED
  BY <1>1, <1>2, <1>3, <1>4

\* Every step keeps the invariant.
LEMMA AccNextInv == AccInv /\ [AccNext]_accVars => AccInv'
<1> SUFFICES ASSUME AccInv, [AccNext]_accVars PROVE AccInv'
  OBVIOUS
<1>1. CASE UNCHANGED accVars
  BY <1>1 DEF AccInv, accVars, RootOutlives
<1>2. CASE AccNext
  BY <1>2, WindowSteps, ObjectSteps, RangeSteps, PairSteps DEF AccNext
<1> QED
  BY <1>1, <1>2

\* Move() by one word or line forward ends on the one its start lies in.
LEMMA MovedOnIs ==
  ASSUME NEW r \in Readable, NEW unit \in {"Word", "Line"},
         NEW on, on = Moved(r, unit, 1),
         NEW edges, edges = {0, Len(r.text)} \cup Delims(r.text, unit)
  PROVE  /\ edges \cap (on.start..on.end) = {on.start, on.end}
         /\ on.start <= r.start /\ (r.start < Len(r.text) => r.start < on.end)
<1>0. PICK text, p, size : text = r.text /\ p = r.start /\ size = Len(text)
  OBVIOUS
<1>1. text \in Texts /\ size \in Nat /\ p \in 0..size /\ r \in RangeObjects
  BY <1>0, ReadableIs
<1>2. PICK n : n = NextBoundary(text, p, unit, 1)
  OBVIOUS
<1>3. PICK b : b = NextBoundary(text, n, unit, -1)
  OBVIOUS
<1>4. PICK e : e = NextBoundary(text, b, unit, 1)
  OBVIOUS
<1>5. /\ n \in p..size /\ (p < size => p < n) /\ (n = size \/ n \in Delims(text, unit))
      /\ \A q \in p + 1..n - 1 : q \notin Delims(text, unit)
  <2>1. p \in 0..Len(text)
    BY <1>0, <1>1
  <2>2. /\ n \in p..Len(text) /\ (p < Len(text) => p < n)
        /\ n = Len(text) \/ n \in Delims(text, unit)
        /\ \A q \in p + 1..n - 1 : q \notin Delims(text, unit)
    BY <1>1, <1>2, <2>1, ForwardIs
  <2> QED
    BY <1>0, <2>2
<1>6. /\ b \in 0..n /\ (0 < n => b < n) /\ (b = 0 \/ b \in Delims(text, unit))
      /\ \A q \in b + 1..n - 1 : q \notin Delims(text, unit)
  <2>1. n \in 0..Len(text)
    BY <1>0, <1>1, <1>5
  <2> QED
    BY <1>1, <1>3, <2>1, BackIs
<1>7. /\ e \in b..size /\ (b < size => b < e) /\ (e = size \/ e \in Delims(text, unit))
      /\ \A q \in b + 1..e - 1 : q \notin Delims(text, unit)
  <2>1. b \in 0..Len(text)
    BY <1>0, <1>1, <1>5, <1>6
  <2>2. /\ e \in b..Len(text) /\ (b < Len(text) => b < e)
        /\ e = Len(text) \/ e \in Delims(text, unit)
        /\ \A q \in b + 1..e - 1 : q \notin Delims(text, unit)
    BY <1>1, <1>4, <2>1, ForwardIs
  <2> QED
    BY <1>0, <2>2
<1>8. on.start = b /\ on.end = e
  <2>1. PICK at : at = [r EXCEPT !.start = n, !.end = n]
    OBVIOUS
  <2>2. on = Expanded(at, unit)
    BY <1>0, <1>2, <2>1, Zenon DEF Moved
  <2>3. at \in RangeObjects /\ at.text = text /\ at.start = n
    <3>1. n \in Int
      BY <1>1, <1>5
    <3> QED
      BY <1>0, <1>1, <2>1, <3>1 DEF RangeObjects
  <2>4. on = Normalize([at EXCEPT !.start = b, !.end = e])
    BY <1>3, <1>4, <2>2, <2>3 DEF Expanded
  <2>5. PICK to : to = [at EXCEPT !.start = b, !.end = e]
    OBVIOUS
  <2>6. to.text = text /\ to.start = b /\ to.end = e /\ to \in RangeObjects
    <3>1. b \in Int /\ e \in Int
      BY <1>1, <1>5, <1>6, <1>7
    <3> QED
      BY <2>3, <2>5, <3>1 DEF RangeObjects
  <2>7. Clamp(b, 0, size) = b /\ Clamp(e, b, size) = e
    BY <1>1, <1>5, <1>6, <1>7 DEF Clamp
  <2>8. on = [to EXCEPT !.start = b, !.end = e]
    BY <1>0, <2>4, <2>5, <2>6, <2>7 DEF Normalize
  <2> QED
    BY <2>6, <2>8 DEF RangeObjects
<1>9. b <= p
  BY <1>1, <1>5, <1>6
<1>10. p < size => p < e
  BY <1>1, <1>5, <1>6, <1>7
<1>11. \A q \in Delims(text, unit) : q \in 1..size
  BY <1>0 DEF Delims
<1>12. edges = {0, size} \cup Delims(text, unit)
  BY <1>0
<1>13. edges \cap (b..e) = {b, e}
  <2>1. b \in edges /\ e \in edges
    BY <1>6, <1>7, <1>12
  <2>2. ASSUME NEW q \in edges, q \in b..e, q # b, q # e PROVE FALSE
    <3>1. q \in b + 1..e - 1 /\ q # 0 /\ q # size
      BY <1>1, <1>5, <1>6, <1>7, <2>2
    <3> QED
      BY <1>7, <1>12, <3>1
  <2>3. b \in b..e /\ e \in b..e
    BY <1>1, <1>5, <1>6, <1>7
  <2> QED
    BY <2>1, <2>2, <2>3
<1> QED
  BY <1>0, <1>8, <1>9, <1>10, <1>13

\* In a state of the invariant the clients are served.
LEMMA AccInvServes == AccInv => ClientsServed
<1> SUFFICES ASSUME AccInv, NEW s \in Slot, object[s].kind = "range"
             PROVE  LET r == object[s]
                        size == Len(r.text)
                    IN /\ 0 <= r.start /\ r.start <= r.end /\ r.end <= size
                       /\ \A unit \in {"Word", "Line"} :
                            LET edges == Edges(r.text, unit)
                                on    == Moved(r, unit, 1)
                            IN /\ Stops(r.text, 0, unit, 1) = edges
                               /\ Stops(r.text, size, unit, -1) = edges
                               /\ edges \cap (on.start..on.end) = {on.start, on.end}
                               /\ on.start <= r.start
                               /\ r.start < size => r.start < on.end
  BY Zenon DEF ClientsServed, RangesReadable, AccInv
<1> DEFINE r == object[s]
           size == Len(r.text)
<1>1. r \in Readable
  BY KindsAre
<1>2. r.text \in Texts
  BY <1>1, ReadableIs
<1>3. 0 <= r.start /\ r.start <= r.end /\ r.end <= size
  BY <1>1 DEF Readable
<1>4. ASSUME NEW unit \in {"Word", "Line"}, NEW edges, edges = Edges(r.text, unit),
             NEW on, on = Moved(r, unit, 1)
      PROVE  /\ Stops(r.text, 0, unit, 1) = edges
             /\ Stops(r.text, size, unit, -1) = edges
             /\ edges \cap (on.start..on.end) = {on.start, on.end}
             /\ on.start <= r.start
             /\ r.start < size => r.start < on.end
  <2>1. edges = {0, size} \cup Delims(r.text, unit)
    BY <1>4 DEF Edges, Delims
  <2>2. Stops(r.text, 0, unit, 1) = edges /\ Stops(r.text, size, unit, -1) = edges
    BY <1>2, <2>1, StopsAtEach
  <2> QED
    BY <1>1, <1>4, <2>1, <2>2, MovedOnIs
<1> QED
  BY <1>3, <1>4, Zenon

\* For any texts, any number of client objects and any calls: the root stays
\* alive while an object of its clients is held, and every range held has its
\* ends in order within its own text, over which endpoints step by words and lines
\* without missing one, while Move() forward stays on the one it is in
\* (ClientsServed, AccessibilityProvider.cpp:483-502, 509, 594-595).
THEOREM ClientsAreServed == AccSpec => []ClientsServed
<1>1. AccSpec => []AccInv
  BY AccInitInv, AccNextInv, PTL DEF AccSpec
<1> QED
  BY <1>1, AccInvServes, PTL

=============================================================================
