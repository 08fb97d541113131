----------------------------- MODULE ConfigStore -----------------------------
(***************************************************************************)
(* config.json, which every window of Liney, each a process of its own,    *)
(* reads at its start and changes key by key: core/Config.cpp, with its    *)
(* callers in app/Window.cpp and app/WindowSession.cpp.  A change is read, *)
(* back-up, temporary file, rename, a first start and a repair the last    *)
(* two of these; a process may end between any two, and any call may fail. *)
(* The user edits the file as well.                                        *)
(*                                                                         *)
(* A value is the number of the change that made it; 0 is the default.     *)
(***************************************************************************)
EXTENDS Naturals, FiniteSets

CONSTANTS Window,     \* the processes
          Key,        \* the keys of config.json
          MaxChanges, \* bound on the changes made
          MaxTrouble  \* bound on failed calls, ended processes and bad edits

ASSUME WindowAssumption == IsFiniteSet(Window) /\ IsFiniteSet(Key)
ASSUME TroubleAssumption == MaxChanges \in Nat /\ MaxTrouble \in Nat

VARIABLES
  file, bak, tmp, invalid, \* config.json, and the same with a suffix
  doing,      \* where each process is
  mem,     \* each process's values
  out,     \* what it is about to write
  keys,    \* the keys it is changing
  known,   \* the call that showed or moved the file for it did not fail
  open,    \* processes that have the temporary file open
  changes, trouble,
  overlap, \* two processes have been in the middle of something at once
  shared   \* one has opened the temporary file before another renamed it

files == <<file, bak, tmp, invalid>>
procs == <<doing, mem, out, keys, known, open>>
configVars == <<files, procs, changes, trouble, overlap, shared>>

Defaults == [k \in Key |-> 0]
Good(v) == [is |-> "good", of |-> v]
\* "none": no file; "empty"; "torn": not a JSON object; "broken": the same, by
\* the user's hand.
Bad(s) == [is |-> s, of |-> Defaults]
Parses(f) == f.is = "good"
\* What loadConfig() takes from a file: each key, or its default if it is
\* missing or not of its type.
Values(f) == f.of

ConfigInit ==
  /\ file \in {Bad("none"), Good(Defaults)}
  /\ bak = Bad("none") /\ tmp = Bad("none") /\ invalid = Bad("none")
  /\ doing = [w \in Window |-> "off"]
  /\ mem = [w \in Window |-> Defaults] /\ out = mem
  /\ keys = [w \in Window |-> {}] /\ known = [w \in Window |-> TRUE]
  /\ open = {} /\ changes = 0 /\ trouble = 0
  /\ overlap = FALSE /\ shared = FALSE

Trouble == trouble < MaxTrouble /\ trouble' = trouble + 1

Goes(w, to) ==
  /\ doing' = [doing EXCEPT ![w] = to]
  /\ overlap' = (overlap \/ Cardinality({v \in Window :
                                doing'[v] \notin {"off", "idle"}}) > 1)

Rests(w) == Goes(w, "idle") /\ open' = open \ {w}

-----------------------------------------------------------------------------
(* loadConfig().                                                            *)

\* What a load without a file writes; nobody looks whether that works.
Seed(w) ==
  /\ mem' = [mem EXCEPT ![w] = Defaults] /\ out' = [out EXCEPT ![w] = Defaults]
  /\ known' = [known EXCEPT ![w] = FALSE]
  /\ Goes(w, "open")

\* readFile(): a file that cannot be read looks empty, and an empty one is taken
\* for a first start.
LoadRead(w) ==
  /\ doing[w] = "off"
  /\ \/ /\ Parses(file)
        /\ mem' = [mem EXCEPT ![w] = Values(file)]
        /\ Goes(w, "idle") /\ UNCHANGED <<out, known, trouble>>
     \/ file.is \in {"none", "empty"} /\ Seed(w) /\ UNCHANGED trouble
     \/ file.is \in {"torn", "broken"} /\ Goes(w, "aside") /\ UNCHANGED <<mem, out, known, trouble>>
     \/ file.is # "none" /\ Trouble /\ Seed(w)
  /\ UNCHANGED <<files, keys, open, changes, shared>>

\* Mutant: the file stays where it is, to be overwritten.
SetAsideNowhere(w) ==
  /\ doing[w] = "aside"
  /\ out' = [out EXCEPT ![w] = IF Parses(bak) THEN Values(bak) ELSE Defaults]
  /\ mem' = [mem EXCEPT ![w] = out'[w]]
  /\ Goes(w, "open")
  /\ UNCHANGED <<files, keys, known, open, changes, trouble, shared>>

\* A file that does not parse is moved away, whatever it is by now; the back-up,
\* or the defaults, take its place.  Nobody looks whether the move failed.
SetAside(w) ==
  /\ doing[w] = "aside"
  /\ \/ /\ invalid' = IF file.is = "none" THEN Bad("none") ELSE file
        /\ file' = Bad("none") /\ known' = [known EXCEPT ![w] = TRUE]
        /\ UNCHANGED trouble
     \/ /\ file.is # "none" /\ Trouble /\ invalid' = Bad("none")
        /\ known' = [known EXCEPT ![w] = FALSE] /\ UNCHANGED file
  /\ out' = [out EXCEPT ![w] = IF Parses(bak) THEN Values(bak) ELSE Defaults]
  /\ mem' = [mem EXCEPT ![w] = out'[w]]
  /\ Goes(w, "open")
  /\ UNCHANGED <<bak, tmp, keys, open, changes, shared>>

-----------------------------------------------------------------------------
(* updateConfigFile(), and the writers below it.                            *)

\* Mutant: the process writes all it has in memory.
UpdateReadAll(w) ==
  /\ doing[w] = "idle" /\ changes < MaxChanges /\ Parses(file)
  /\ \E k \in Key :
       /\ mem' = [mem EXCEPT ![w][k] = changes + 1]
       /\ keys' = [keys EXCEPT ![w] = {k}]
       /\ out' = [out EXCEPT ![w] = mem'[w]]
  /\ changes' = changes + 1 /\ known' = [known EXCEPT ![w] = TRUE]
  /\ Goes(w, "backup")
  /\ UNCHANGED <<files, open, trouble, shared>>

\* saveFontSize(), persistWorkspaceConfig(), the settings: some keys get the
\* process's own values.  A file that does not parse is left alone, and so is one
\* of a newer schema version, which is not told from the others here.
UpdateRead(w) ==
  /\ doing[w] = "idle" /\ changes < MaxChanges
  /\ \E ks \in SUBSET Key \ {{}} :
       LET mine == [k \in Key |-> IF k \in ks THEN changes + 1 ELSE mem[w][k]]
           Merge(v) == [k \in Key |-> IF k \in ks THEN mine[k] ELSE v[k]]
       IN /\ mem' = [mem EXCEPT ![w] = mine]
          /\ keys' = [keys EXCEPT ![w] = ks]
          /\ \/ /\ Parses(file) /\ out' = [out EXCEPT ![w] = Merge(file.of)]
                /\ known' = [known EXCEPT ![w] = TRUE]
                /\ Goes(w, "backup") /\ UNCHANGED trouble
             \/ /\ IF file.is \in {"none", "empty"} THEN UNCHANGED trouble ELSE Trouble
                /\ out' = [out EXCEPT ![w] = Merge(Defaults)]
                /\ known' = [known EXCEPT ![w] = FALSE]
                /\ Goes(w, "backup")
             \/ /\ file.is \notin {"none", "empty"}
                /\ Goes(w, "idle") /\ UNCHANGED <<out, known, trouble>>
  /\ changes' = changes + 1
  /\ UNCHANGED <<files, open, shared>>

\* writeFileAtomicWithBackup(): without a back-up there is no save.
Backup(w) ==
  /\ doing[w] = "backup"
  /\ \/ file.is = "none" /\ Goes(w, "open") /\ UNCHANGED <<bak, trouble>>
     \/ file.is # "none" /\ bak' = file /\ Goes(w, "open") /\ UNCHANGED trouble
     \/ file.is # "none" /\ Trouble /\ bak' \in {bak, Bad("torn")} /\ Goes(w, "idle")
  /\ UNCHANGED <<file, tmp, invalid, mem, out, keys, known, open, changes, shared>>

\* writeFileAtomic(): open with trunc, write, rename.  The stream shares the
\* file with other writers, and not with a rename.
OpenTmp(w) ==
  /\ doing[w] = "open"
  /\ \/ /\ tmp' = Bad("empty") /\ open' = open \cup {w}
        /\ shared' = (shared \/ \E v \in Window : doing[v] \in {"write", "rename"})
        /\ Goes(w, "write") /\ UNCHANGED trouble
     \/ Trouble /\ Goes(w, "idle") /\ UNCHANGED <<tmp, open, shared>>
  /\ UNCHANGED <<file, bak, invalid, mem, out, keys, known, changes>>

\* Mutant: a write that failed is renamed all the same.
WriteTmpUnchecked(w) ==
  /\ doing[w] = "write"
  /\ open' = open \ {w} /\ Goes(w, "rename")
  /\ \/ tmp' = Good(out[w]) /\ UNCHANGED trouble
     \/ tmp' = Bad("torn") /\ Trouble
  /\ UNCHANGED <<file, bak, invalid, mem, out, keys, known, changes, shared>>

WriteTmp(w) ==
  /\ doing[w] = "write"
  /\ \/ /\ tmp' \in {Good(out[w])} \cup
                    (IF shared THEN {Bad("torn")} ELSE {}) \* two texts in one
        /\ open' = open \ {w} /\ Goes(w, "rename") /\ UNCHANGED trouble
     \/ Trouble /\ tmp' = Bad("torn") /\ Rests(w) \* the disk is full
  /\ UNCHANGED <<file, bak, invalid, mem, out, keys, known, changes, shared>>

\* A rename that fails deletes the temporary file, unless it is open.
Rename(w) ==
  /\ doing[w] = "rename"
  /\ LET blocked == open # {} \/ tmp.is = "none"
     IN \/ ~blocked /\ file' = tmp /\ tmp' = Bad("none") /\ UNCHANGED trouble
        \/ /\ IF blocked THEN UNCHANGED trouble ELSE Trouble
           /\ tmp' = IF open # {} THEN tmp ELSE Bad("none")
           /\ UNCHANGED file
  /\ Rests(w)
  /\ UNCHANGED <<bak, invalid, mem, out, keys, known, changes, shared>>

\* A crash, or the power; and the next start.
EndProcess(w) ==
  /\ doing[w] # "off" /\ Trouble
  /\ Goes(w, "off")
  /\ open' = open \ {w}
  /\ UNCHANGED <<files, mem, out, keys, known, changes, shared>>

\* The user saves the file in an editor, with or without a slip.
HandEdit ==
  /\ changes < MaxChanges /\ changes' = changes + 1
  /\ \A w \in Window : doing[w] \in {"off", "idle"}
  /\ Parses(file)
  /\ \/ /\ \E k \in Key : file' = [file EXCEPT !.of[k] = changes + 1]
        /\ UNCHANGED trouble
     \/ file' = Bad("broken") /\ Trouble
  /\ UNCHANGED <<bak, tmp, invalid, procs, overlap, shared>>

WindowStep(w) ==
  \/ LoadRead(w) \/ SetAside(w)
  \/ UpdateRead(w) \/ Backup(w) \/ OpenTmp(w) \/ WriteTmp(w) \/ Rename(w)
  \/ EndProcess(w)

ConfigNext == HandEdit \/ \E w \in Window : WindowStep(w)

ConfigSpec == ConfigInit /\ [][ConfigNext]_configVars

-----------------------------------------------------------------------------
\* "A crash/power loss mid-write can't leave a truncated JSON file behind"
\* (Config.cpp:422-423), nor can a full disk or a failed rename, in a first start, a
\* repair or a change, and a temporary file that an earlier process left
\* half-written is never taken: unless one process opened the temporary file, which
\* has one name for all, between another's open and rename of it, config.json is
\* torn or emptied by nobody but the user.
NeverTorn == file.is \in {"torn", "empty"} => shared

\* "The invalid file is preserved" (Config.cpp:193-211): what the user wrote,
\* slip and all, is only ever moved to config.json.invalid, by one window at
\* once, and replaced there by a later one.  A read that fails looks like an
\* empty file, and a move that fails like one that was made, and then the rename
\* of the defaults or the back-up overwrites it.
BrokenKept ==
  [][file.is = "broken" /\ file'.is # "broken" =>
       \/ invalid' = file
       \/ overlap
       \/ \E w \in Window : doing[w] = "rename" /\ ~known[w]]_configVars

\* "Every other key survives the rewrite" (Config.cpp:387-389): whatever other
\* windows and the user have saved since this window read its own values, a
\* change of some keys leaves the others of the file as they are, unless its read
\* failed or two windows save at the same time.
KeysKept ==
  [][\A w \in Window :
       doing[w] = "rename" /\ doing'[w] = "idle" /\ ~overlap /\ known[w]
         /\ Parses(file) /\ file' # file =>
           \A k \in Key \ keys[w] : file'.of[k] = file.of[k]]_configVars
=============================================================================
