------------------------------ MODULE Recovery ------------------------------
(***************************************************************************)
(* Crash recovery and the saved layout, over several processes and several *)
(* lives of one process id: the run markers and recovery files of          *)
(* util/Diagnostics.cpp, the question Window::create() asks about them,    *)
(* the two-second recovery timer, and layout.json with its backup          *)
(* (app/WindowSession.cpp).                                                *)
(*                                                                         *)
(* A layout is the number of the session it was first made in, and stands  *)
(* for its tabs and its project list.  A file holds a layout, is missing,  *)
(* or does not parse.  Each file is replaced in one step (writeFileAtomic).*)
(* A process may be killed between any two steps; a logoff kills it too,   *)
(* as the window does not handle WM_ENDSESSION.                            *)
(***************************************************************************)
EXTENDS Naturals, Sequences, FiniteSets, SequencesExt

CONSTANTS Pids,       \* process ids; the system uses them again
          MaxStarts,  \* bound on the processes started
          MaxBad,     \* bound on the files damaged from outside
          NoPid

ASSUME NoPidAssumption == NoPid \notin Pids
ASSUME BoundsAssumption == MaxStarts \in Nat /\ MaxBad \in Nat

None    == 0               \* no such file, or no layout
Invalid == MaxStarts + 1   \* a file that does not parse
Layouts == 1..MaxStarts
Content == 0..MaxStarts + 1

VARIABLES
  stage,     \* for each pid, where its process is; "off" when there is none
  todo,      \* run markers its directory scan has still to look at
  previous,  \* g_previousRecoveryLayout, as the pid it is named after
  older,     \* the files no newer than that one was when it was looked at
  layout,    \* the layout its tabs have
  projects,  \* projects_, as the layout they belong to
  markers,   \* run-<pid>.active files
  recovery,  \* recovery-<pid>.json files
  newer,     \* for each of those files, the files written after it
  primary,   \* layout.json
  backup,    \* layout.json.bak
  config,    \* the project list in config.json
  born,      \* which start a live process is, and the layout a new tab gets
  starts,    \* processes started so far
  damaged,   \* files damaged so far
  reused     \* pids started while another process meant to ask about them

procVars == <<stage, todo, previous, older, layout, projects>>
runFiles == <<markers, recovery, newer>>
saved    == <<primary, backup>>
counts   == <<born, starts, damaged, reused>>
vars == <<procVars, runFiles, saved, config, counts>>

Live(p) == stage[p] # "off"

Init ==
  /\ stage = [p \in Pids |-> "off"]
  /\ todo = [p \in Pids |-> {}]
  /\ previous = [p \in Pids |-> NoPid]
  /\ older = [p \in Pids |-> {}]
  /\ layout = [p \in Pids |-> None]
  /\ projects = [p \in Pids |-> None]
  /\ markers = {} /\ recovery = [p \in Pids |-> None]
  /\ newer = [p \in Pids |-> {}]
  /\ primary = None /\ backup = None /\ config = None
  /\ born = [p \in Pids |-> 0] /\ starts = 0 /\ damaged = 0 /\ reused = {}

-----------------------------------------------------------------------------
(* Files.                                                                   *)

DeleteRecovery(q) ==
  /\ recovery' = [recovery EXCEPT ![q] = None]
  /\ newer' = [p \in Pids |-> IF p = q THEN {} ELSE newer[p] \ {q}]

WriteRecovery(q, content) ==
  /\ recovery' = [recovery EXCEPT ![q] = content]
  /\ newer' = [p \in Pids |-> IF p = q \/ recovery[p] = None THEN {}
                             ELSE newer[p] \cup {q}]
  /\ older' = [p \in Pids |-> older[p] \ {q}]

NoNewerThan(q) == {q} \cup {r \in Pids : q \in newer[r]}

\* writeFileAtomicWithBackup(): the copy may fail, and then nothing is written;
\* the write may fail after it.
SaveWithBackup(content) ==
  \/ UNCHANGED saved
  \/ backup' = (IF primary = None THEN backup ELSE primary) /\ UNCHANGED primary
  \/ /\ backup' = (IF primary = None THEN backup ELSE primary)
     /\ primary' = content

-----------------------------------------------------------------------------
(* Start-up: initializeDiagnostics().                                       *)

Start(p) ==
  /\ stage[p] = "off" /\ starts < MaxStarts
  /\ starts' = starts + 1 /\ born' = [born EXCEPT ![p] = starts + 1]
  /\ stage' = [stage EXCEPT ![p] = "scan"]
  /\ todo' = [todo EXCEPT ![p] = markers]
  /\ reused' = IF \E r \in Pids : previous[r] = p THEN reused \cup {p} ELSE reused
  /\ UNCHANGED <<previous, older, layout, projects, runFiles, saved, config,
                 damaged>>

\* Mutant: a live process counts as crashed.
ScanIgnoresLife(p) ==
  /\ stage[p] = "scan"
  /\ \E q \in todo[p] :
       /\ todo' = [todo EXCEPT ![p] = @ \ {q}]
       /\ markers' = markers \ {q}
       /\ previous' = [previous EXCEPT ![p] = IF recovery[q] # None THEN q ELSE @]
  /\ UNCHANGED <<stage, older, layout, projects, recovery, newer, saved,
                 config, counts>>

\* Mutant: the marker goes although its file was not chosen for want of a look.
ScanOnlyFirst(p) ==
  /\ stage[p] = "scan"
  /\ \E q \in todo[p] :
       /\ todo' = [todo EXCEPT ![p] = @ \ {q}]
       /\ IF Live(q) THEN UNCHANGED <<markers, previous>>
          ELSE /\ markers' = {r \in markers : Live(r)}
               /\ previous' = [previous EXCEPT ![p] =
                                 IF recovery[q] # None /\ @ = NoPid THEN q ELSE @]
  /\ UNCHANGED <<stage, older, layout, projects, recovery, newer, saved,
                 config, counts>>

\* findStaleRun(), one marker: a process that is gone leaves its recovery file,
\* if it is the newest so far; its marker is deleted at once.
ScanMarker(p) ==
  /\ stage[p] = "scan"
  /\ \E q \in todo[p] :
       /\ todo' = [todo EXCEPT ![p] = @ \ {q}]
       /\ markers' = IF Live(q) THEN markers ELSE markers \ {q}
       /\ IF ~Live(q) /\ recovery[q] # None
             /\ (previous[p] = NoPid \/ q \notin older[p])
            THEN /\ previous' = [previous EXCEPT ![p] = q]
                 /\ older' = [older EXCEPT ![p] = NoNewerThan(q)]
            ELSE UNCHANGED <<previous, older>>
  /\ UNCHANGED <<stage, layout, projects, recovery, newer, saved,
                 config, counts>>

MarkRun(p) ==
  /\ stage[p] = "scan" /\ todo[p] = {}
  /\ markers' = markers \cup {p}
  /\ stage' = [stage EXCEPT ![p] = "create"]
  /\ UNCHANGED <<todo, previous, older, layout, projects, recovery, newer,
                 saved, config, counts>>

-----------------------------------------------------------------------------
(* Window::create().                                                        *)

\* The window and its renderer exist, and the configured projects are loaded.
Create(p) ==
  /\ stage[p] = "create"
  /\ stage' = [stage EXCEPT ![p] = IF previous[p] = NoPid THEN "open" ELSE "ask"]
  /\ projects' = [projects EXCEPT ![p] = config]
  /\ UNCHANGED <<todo, previous, older, layout, runFiles, saved, config, counts>>

\* There is no window, or no renderer for it: the process ends in good order.
CreateFails(p) ==
  /\ stage[p] = "create"
  /\ stage' = [stage EXCEPT ![p] = "closing"]
  /\ UNCHANGED <<todo, previous, older, layout, projects, runFiles, saved, config,
                 counts>>

IsLayout(content) == content \in Layouts

\* restoreLayoutFrom() fails: the file is missing or does not parse, or none of
\* its shells starts, and then its projects have been taken over and saved.
RestoreFails(p, content) ==
  \/ ~IsLayout(content) /\ UNCHANGED <<projects, config>>
  \/ /\ IsLayout(content)
     /\ projects' = [projects EXCEPT ![p] = content]
     /\ config' = content

RestoreSucceeds(p, content) ==
  /\ IsLayout(content)
  /\ projects' = [projects EXCEPT ![p] = content]
  /\ config' = content
  /\ layout' = [layout EXCEPT ![p] = content]
  /\ stage' = [stage EXCEPT ![p] = "run"]

\* Mutant: the file is deleted whatever came of it.
AnswerYesDeletes(p) ==
  /\ stage[p] = "ask"
  /\ \/ RestoreSucceeds(p, recovery[previous[p]])
     \/ /\ RestoreFails(p, recovery[previous[p]])
        /\ stage' = [stage EXCEPT ![p] = "open"]
        /\ UNCHANGED layout
  /\ DeleteRecovery(previous[p])
  /\ previous' = [previous EXCEPT ![p] = NoPid]
  /\ older' = [older EXCEPT ![p] = {}]
  /\ UNCHANGED <<todo, markers, saved, counts>>

\* "Restore?"  Yes: what the file holds by now is restored, and only then is it
\* deleted.  It is not asked about again in this process.
AnswerYes(p) ==
  /\ stage[p] = "ask"
  /\ \/ /\ RestoreSucceeds(p, recovery[previous[p]])
        /\ DeleteRecovery(previous[p])
     \/ /\ RestoreFails(p, recovery[previous[p]])
        /\ stage' = [stage EXCEPT ![p] = "open"]
        /\ UNCHANGED <<layout, recovery, newer>>
  /\ previous' = [previous EXCEPT ![p] = NoPid]
  /\ older' = [older EXCEPT ![p] = {}]
  /\ UNCHANGED <<todo, markers, saved, counts>>

AnswerNo(p) ==
  /\ stage[p] = "ask"
  /\ DeleteRecovery(previous[p])
  /\ previous' = [previous EXCEPT ![p] = NoPid]
  /\ older' = [older EXCEPT ![p] = {}]
  /\ stage' = [stage EXCEPT ![p] = "open"]
  /\ UNCHANGED <<todo, layout, projects, markers, saved, config, counts>>

\* newTab(): a layout of its own, numbered after the start of its process.
Fresh(p) ==
  /\ layout' = [layout EXCEPT ![p] = born[p]]
  /\ stage' = [stage EXCEPT ![p] = "run"]

\* Mutant: the backup is "repaired" from the primary.
RepairBackwards == backup' = primary /\ UNCHANGED primary

\* The repair of restoreLayout(), which may fail.
RepairPrimary == UNCHANGED backup /\ primary' \in {primary, backup}

\* restoreLayout(), when the user has asked for it: the primary file, then the
\* backup, then a fresh tab.
OpenTabs(p) ==
  /\ stage[p] = "open"
  /\ \/ /\ Fresh(p) /\ UNCHANGED <<projects, config, saved>>
     \/ RestoreSucceeds(p, primary) /\ UNCHANGED saved
     \/ RestoreSucceeds(p, backup) /\ RepairPrimary
     \/ /\ RestoreFails(p, IF IsLayout(backup) THEN backup ELSE primary)
        /\ Fresh(p) /\ UNCHANGED saved
  /\ UNCHANGED <<todo, previous, older, runFiles, counts>>

-----------------------------------------------------------------------------
(* The life of a window.                                                    *)

\* WM_TIMER: the recovery file follows the window; the write may fail.
RecoveryTimer(p) ==
  /\ stage[p] = "run"
  /\ WriteRecovery(p, layout[p])
  /\ UNCHANGED <<stage, todo, previous, layout, projects, markers, saved,
                 config, counts>>

\* The loop ends: saveLayout(), if the user has asked for it.
Close(p) ==
  /\ stage[p] = "run"
  /\ stage' = [stage EXCEPT ![p] = "closing"]
  /\ UNCHANGED saved \/ SaveWithBackup(layout[p])
  /\ UNCHANGED <<todo, previous, older, layout, projects, runFiles, config,
                 counts>>

\* Nothing of a process outlives it.
Gone(p) ==
  /\ stage' = [stage EXCEPT ![p] = "off"]
  /\ todo' = [todo EXCEPT ![p] = {}]
  /\ previous' = [previous EXCEPT ![p] = NoPid]
  /\ older' = [older EXCEPT ![p] = {}]
  /\ layout' = [layout EXCEPT ![p] = None]
  /\ projects' = [projects EXCEPT ![p] = None]
  /\ born' = [born EXCEPT ![p] = 0]
  /\ reused' = reused \ {p}
  /\ UNCHANGED <<saved, config, starts, damaged>>

\* markCleanShutdown().
Exit(p) ==
  /\ stage[p] = "closing"
  /\ markers' = markers \ {p}
  /\ DeleteRecovery(p)
  /\ Gone(p)

Crash(p) ==
  /\ Live(p)
  /\ Gone(p)
  /\ UNCHANGED runFiles

\* A file is damaged from outside: a disk, an editor, another program.
Damage ==
  /\ damaged < MaxBad /\ damaged' = damaged + 1
  /\ \/ primary # None /\ primary' = Invalid /\ UNCHANGED <<backup, recovery>>
     \/ /\ \E q \in Pids : recovery[q] # None /\ recovery' = [recovery EXCEPT ![q] = Invalid]
        /\ UNCHANGED saved
  /\ UNCHANGED <<procVars, markers, newer, config, born, starts, reused>>

Next ==
  \/ \E p \in Pids :
       \/ Start(p) \/ ScanMarker(p) \/ MarkRun(p) \/ Create(p) \/ CreateFails(p)
       \/ AnswerYes(p) \/ AnswerNo(p) \/ OpenTabs(p)
       \/ RecoveryTimer(p) \/ Close(p) \/ Exit(p) \/ Crash(p)
  \/ Damage

Spec == Init /\ [][Next]_vars

-----------------------------------------------------------------------------
(* Properties.                                                              *)

Stages == {"off", "scan", "create", "ask", "open", "run", "closing"}

Typed ==
  /\ stage \in [Pids -> Stages] /\ todo \in [Pids -> SUBSET Pids]
  /\ previous \in [Pids -> Pids \cup {NoPid}]
  /\ older \in [Pids -> SUBSET Pids] /\ newer \in [Pids -> SUBSET Pids]
  /\ layout \in [Pids -> {None} \cup Layouts] /\ projects \in [Pids -> Content]
  /\ markers \subseteq Pids /\ recovery \in [Pids -> Content]
  /\ primary \in Content /\ backup \in Content
  /\ config \in {None} \cup Layouts

\* A process has a layout from its first tab to its end, and one that is about to
\* ask has a file to ask about.
StageAgrees ==
  \A p \in Pids :
    /\ stage[p] = "run" => layout[p] # None
    /\ layout[p] # None => stage[p] \in {"run", "closing"}
    /\ stage[p] = "ask" => previous[p] # NoPid

\* The variables keep their types; a running window has a layout, a process that
\* asks has a file to ask about, and the order of writing is one of files that exist.
TypeOK ==
  /\ Typed /\ StageAgrees
  /\ \A p, q \in Pids : q \in newer[p] => recovery[p] # None /\ recovery[q] # None

\* Some process means to ask about q's file, or the next one to start will look.
Found(q) ==
  q \in markers \/ \E p \in Pids : stage[p] \in {"scan", "create", "ask"} /\ previous[p] = q

\* The layout of a run that crashed can still be found: a file that was kept
\* because its restore failed is kept for another attempt.
KeptIsFound ==
  [][\A p, q \in Pids :
       (/\ stage[p] = "ask" /\ stage'[p] = "open" /\ previous[p] = q
        /\ recovery'[q] = recovery[q] /\ ~Live(q)) => Found(q)']_vars

\* A recovery file that stays stops being found only when its restore fails,
\* when the process that had taken its marker dies or fails to make a window
\* first, or when that process prefers a newer file (Diagnostics.cpp:94-100):
\* newer than it is, or than it was when that process looked, for a process that
\* got the dead one's id may have written it again since.
ForgottenOnlyBy ==
  [][\A q \in Pids :
       recovery[q] # None /\ recovery'[q] # None /\ Found(q) /\ ~Found(q)' =>
         \E p \in Pids :
           \/ previous[p] = q /\ stage[p] = "ask" /\ stage'[p] = "open"
           \/ previous[p] = q /\ stage'[p] \in {"off", "closing"}
           \/ /\ stage[p] = "scan" /\ previous'[p] # q
              /\ q \in older'[p] \/ (previous[p] = q /\ q \notin older[p])]_vars

\* p's user was asked about q's file, and p runs its layout now or was told no
\* (Window.cpp:328-340).
ResolvedBy(p, q) ==
  /\ stage[p] = "ask" /\ previous[p] = q
  /\ (stage'[p] = "run" /\ layout'[p] = recovery[q]) \/ AnswerNo(p)

\* A recovery file that holds a layout is deleted or replaced by the program only
\* when a question about it is settled, or by a process of that id, at its first
\* snapshot or its orderly end (Diagnostics.cpp:259-262).  The latter need not be
\* the process that wrote it: one that gets a dead run's id passes over that run's
\* marker as its own (Diagnostics.cpp:84) and takes its file away without a
\* question, which CHANGELOG.md:282-283 says never happens.
DeletedOnlyResolved ==
  [][\A q \in Pids :
       recovery[q] \in Layouts /\ recovery'[q] # recovery[q] /\ damaged' = damaged =>
         (\E p \in Pids : ResolvedBy(p, q)) \/ RecoveryTimer(q) \/ Exit(q)]_vars

\* No process means to ask about the file of a live one, unless the system gave
\* the dead process's id to a new one in the meantime.
LiveNotOffered ==
  \A p, q \in Pids : previous[p] = q /\ Live(q) => q \in reused

\* While layout.json or its backup is good, no step but damage from outside
\* leaves both bad, except a save that copies a bad layout.json over the backup
\* and then fails to write.
GoodLayoutSurvives ==
  [][(IsLayout(primary) \/ IsLayout(backup)) /\ damaged' = damaged =>
       \/ IsLayout(primary') \/ IsLayout(backup')
       \/ \E p \in Pids : /\ stage[p] = "run" /\ stage'[p] = "closing"
                          /\ primary = Invalid /\ primary' = Invalid]_vars
=============================================================================
