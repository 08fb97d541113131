----------------------------- MODULE Workspace -----------------------------
(***************************************************************************)
(* The projects in the sidebar: workspace/Workspace.cpp, the workspace     *)
(* part of app/WindowSession.cpp, drawLeftSidebar(), and the rows' clicks  *)
(* and menus of app/WindowMouse.cpp.                                       *)
(*                                                                         *)
(* Paths are numbers, in the order of their names; those in Root are Git   *)
(* repositories under workspaceRoot, the others ordinary folders.  A       *)
(* worktree is a pair of its repository and a number, 1 the main one; its  *)
(* status is the number of changes made in it.                             *)
(***************************************************************************)
EXTENDS Naturals, SequencesExt

CONSTANTS Root, Folder,
          MaxTrees,   \* worktrees of a repository
          MaxEdits,   \* bound on the changes made in worktrees
          MaxTrouble, \* bound on failed Git calls, failed saves and losses of the root
          MaxMore     \* bound on the other rows that come while a menu is open

ASSUME PathsAssumption ==
  /\ Root \cup Folder \subseteq Nat /\ Root \cap Folder = {}
  /\ IsFiniteSet(Root) /\ IsFiniteSet(Folder)
ASSUME MoreAssumption == MaxMore \in Nat

VARIABLES
  reachable, \* workspaceRoot can be listed
  trees,     \* worktrees on disk: how many each repository has
  disk,      \* the status of each worktree on disk
  lists,     \* projects_ and workspaceExclusions_
  saved,     \* the same in config.json
  repos,     \* workspace_.repos()
  rowsDrawn, \* the first part of sidebarRows_: repository and worktree index; 0: the
             \* header.  Rows of SSH hosts, agents and files come after it
  menu,      \* the context menu that is open, and what its handler holds
  work,      \* the refresh: "idle", "runs", "ready", its paths and results
  removed,   \* projects whose removal was saved and not taken back
  unlisted,  \* those removed last while the root could not be listed
  trouble

diskVars == <<reachable, trees, disk>>
listVars == <<lists, saved, removed, unlisted>>
workspaceVars == <<diskVars, listVars, repos, rowsDrawn, menu, work, trouble>>

Paths == Root \cup Folder
NoMenu == [at |-> 0]
NoWork == [state |-> "idle", todo |-> <<>>, results |-> <<>>]

Ok(ok) == IF ok THEN UNCHANGED trouble
          ELSE trouble < MaxTrouble /\ trouble' = trouble + 1

\* The k-th of a set of numbers, and what is left of a list at some of its places.
Nth(S, k) == CHOOSE n \in S : Cardinality({m \in S : m <= n}) = k
Kept(s, S) == [k \in 1..Cardinality(S) |-> s[Nth(S, k)]]

\* rescanWorkspace(): scan(), the exclusions, then the explicit projects, in
\* order.  Everything is collapsed and unloaded.
Rescanned(l) ==
  LET found == IF reachable THEN Root ELSE {}
      shown == (found \ l.exclusions) \cup l.projects
  IN [i \in 1..Cardinality(shown) |->
        [path |-> Nth(shown, i), git |-> Nth(shown, i) \in found,
         expanded |-> FALSE, loaded |-> FALSE, trees |-> <<>>]]

\* loadWorktrees() and refreshStatus() of each; without Git the root alone.  The
\* status of a worktree that was listed is taken to be read as well.
Loaded(repo, ok) ==
  [repo EXCEPT !.loaded = TRUE,
     !.trees = IF ok THEN [n \in 1..trees[repo.path] |->
                             [tree |-> n, status |-> disk[<<repo.path, n>>]]]
               ELSE <<[tree |-> 1, status |-> 0]>>]
Load(repo, ok) == IF repo.loaded THEN repo ELSE Loaded(repo, ok)

\* drawLeftSidebar(): one row for each project and, below it, its worktrees.  The
\* panel is taken to be tall enough for them.
RowsOf(rs) ==
  FlattenSeq([i \in DOMAIN rs |->
    <<<<i, 0>>>> \o (IF rs[i].expanded
                     THEN [w \in DOMAIN rs[i].trees |-> <<i, w>>] ELSE <<>>)])

WorkspaceInit ==
  /\ reachable = TRUE /\ trees = [p \in Root |-> 1]
  /\ disk = [t \in Root \X (1..MaxTrees) |-> 0]
  /\ lists = [projects |-> {}, exclusions |-> {}]
  /\ saved = lists /\ repos = Rescanned(lists) /\ rowsDrawn = <<>>
  /\ menu = NoMenu /\ work = NoWork /\ removed = {} /\ unlisted = {} /\ trouble = 0

-----------------------------------------------------------------------------
(* The disk.                                                                *)

ReachRoot ==
  /\ reachable' = ~reachable /\ Ok(reachable')
  /\ UNCHANGED <<trees, disk, listVars, repos, rowsDrawn, menu, work>>

Edit(t) ==
  /\ t[2] <= trees[t[1]] /\ SumFunction(disk) < MaxEdits
  /\ disk' = [disk EXCEPT ![t] = @ + 1]
  /\ UNCHANGED <<reachable, trees, listVars, repos, rowsDrawn, menu, work, trouble>>

-----------------------------------------------------------------------------
(* Frames, in the window's loop or a menu's, and the refresh thread.        *)

\* Mutant: the worktrees that answered are all there are.
AppliedAsList(rs, results) ==
  [i \in DOMAIN rs |-> [rs[i] EXCEPT !.trees =
    SelectSeq(@, LAMBDA w : <<rs[i].path, w.tree>> \in DOMAIN results)]]

\* Results are matched by path, and nothing but the status is changed.
Applied(rs, results) ==
  [i \in DOMAIN rs |-> [rs[i] EXCEPT !.trees =
    [w \in DOMAIN @ |->
       LET t == <<rs[i].path, @[w].tree>>
       IN IF t \in DOMAIN results THEN [@[w] EXCEPT !.status = results[t]]
          ELSE @[w]]]]

\* sidebarRows_ is cleared and filled again, with `more` other rows than when the
\* menu was opened: a shell's "cd" changes the list of files.  Rows that do not fit
\* have the vector allocated anew, and the handler refers to freed memory.
RowsRedrawn(more) ==
  /\ rowsDrawn' = RowsOf(repos')
  /\ menu' = IF menu = NoMenu THEN menu
             ELSE [menu EXCEPT !.grown = @ \/ more > 0,
                               !.freed = @ \/ more > 0
                                           \/ ~(DOMAIN rowsDrawn' \subseteq menu.room)]

\* They matter to the menu of a worktree, whose handler uses the row once more.
NewRows == IF menu # NoMenu /\ menu.row[2] # 0 THEN 0..MaxMore ELSE {0}

\* Mutant: workspaceRefreshBusy_ is not reset.
DrawFrameStaysBusy(due, more) ==
  /\ repos' = IF work.state = "ready" THEN Applied(repos, work.results) ELSE repos
  /\ RowsRedrawn(more)
  /\ work' = IF due /\ work.state = "idle"
             THEN [state |-> "runs", results |-> <<>>,
                   todo |-> SetToSeq({t \in DOMAIN disk : t[2] <= trees[t[1]]})]
             ELSE [work EXCEPT !.state = IF @ = "ready" THEN "busy" ELSE @]
  /\ UNCHANGED <<diskVars, listVars, trouble>>

\* renderFrame(), with pollWorkspaceStatusRefresh(): a new round is due every 15
\* seconds, and starts when the last has been applied.
DrawFrame(due, more) ==
  LET done  == work.state = "ready"
      now   == IF done THEN Applied(repos, work.results) ELSE repos
      todo  == FlattenSeq([i \in DOMAIN now |->
                 [w \in DOMAIN now[i].trees |-> <<now[i].path, now[i].trees[w].tree>>]])
      free  == IF done THEN NoWork ELSE work
  IN /\ UNCHANGED <<diskVars, listVars, trouble>>
     /\ repos' = now /\ RowsRedrawn(more)
     /\ work' = IF due /\ free.state = "idle" /\ todo # <<>>
                THEN [state |-> "runs", todo |-> todo, results |-> <<>>]
                ELSE free

\* One "git status" of the thread; a call that fails leaves no result.
WorkerReads(ok) ==
  /\ work.state = "runs" /\ work.todo # <<>>
  /\ Ok(ok)
  /\ LET t == Head(work.todo)
     IN work' = [work EXCEPT !.todo = Tail(@),
                   !.results = IF ok THEN (t :> disk[t]) @@ @ ELSE @]
  /\ UNCHANGED <<diskVars, listVars, repos, rowsDrawn, menu>>

WorkerEnds ==
  /\ work.state = "runs" /\ work.todo = <<>>
  /\ work' = [work EXCEPT !.state = "ready"]
  /\ UNCHANGED <<diskVars, listVars, repos, rowsDrawn, menu, trouble>>

-----------------------------------------------------------------------------
(* Clicks and menus.  A row is looked up in the rows of the last frame.     *)

Free == menu = NoMenu
RowRepo(k) == rowsDrawn[k][1]

\* onMouseDown() on the header of a repository; a row whose index is past the
\* list does nothing.
ClickHeader(k, ok) ==
  LET i    == RowRepo(k)
      repo == IF repos[i].expanded THEN repos[i] ELSE Load(repos[i], ok)
  IN /\ Free /\ rowsDrawn[k][2] = 0 /\ i \in DOMAIN repos /\ repos[i].git
     /\ IF ~repos[i].expanded /\ ~repos[i].loaded THEN Ok(ok)
        ELSE ok /\ UNCHANGED trouble
     /\ repos' = [repos EXCEPT ![i] = [repo EXCEPT !.expanded = ~@]]
     /\ UNCHANGED <<diskVars, listVars, rowsDrawn, menu, work>>

\* onMouseDownRight(): a reference to the row and one to the project are kept
\* until the menu, and the box it leads to, are closed.  sidebarRows_ is taken to
\* have no room for more rows than it holds by then, which is the worst case.
OpenMenu(k) ==
  /\ Free /\ RowRepo(k) \in DOMAIN repos
  /\ rowsDrawn[k][2] \in {0} \cup DOMAIN repos[RowRepo(k)].trees
  /\ menu' = [at |-> k, row |-> rowsDrawn[k], room |-> DOMAIN rowsDrawn,
               grown |-> FALSE, freed |-> FALSE, told |-> FALSE,
               late |-> rowsDrawn # RowsOf(repos)]
  /\ UNCHANGED <<diskVars, listVars, repos, rowsDrawn, work, trouble>>

\* What the handler's references lead to after the menu.
Held == ~Free /\ menu.at \in DOMAIN rowsDrawn /\ ~menu.told
HeldRow == rowsDrawn[menu.at]
MenuRepo == menu.row[1]
Git == Held /\ repos[MenuRepo].git

MenuCancel ==
  /\ ~Free /\ menu' = NoMenu
  /\ UNCHANGED <<diskVars, listVars, repos, rowsDrawn, work, trouble>>

Reload(ok) == [Loaded(repos[MenuRepo], ok) EXCEPT !.expanded = TRUE]

\* "Refresh Git status" of a project.
MenuReload(ok) ==
  /\ Git /\ menu.row[2] = 0 /\ Ok(ok)
  /\ repos' = [repos EXCEPT ![MenuRepo] = Reload(ok)]
  /\ menu' = NoMenu
  /\ UNCHANGED <<diskVars, listVars, rowsDrawn, work>>

\* "Refresh Git status" of a worktree, repo.worktrees[row.worktree], where row may
\* by now be anything in freed memory; past the end it is undefined what happens,
\* and not modelled.  A call that fails changes nothing (MenuCancel).
MenuRefresh ==
  /\ Held /\ menu.row[2] # 0
  /\ \E w \in DOMAIN repos[MenuRepo].trees :
       /\ menu.freed \/ w = HeldRow[2]
       /\ repos' = [repos EXCEPT ![MenuRepo].trees[w].status =
                      disk[<<repos[MenuRepo].path, repos[MenuRepo].trees[w].tree>>]]
  /\ menu' = NoMenu
  /\ UNCHANGED <<diskVars, listVars, rowsDrawn, work, trouble>>

\* addWorktree() and removeWorktree(): Git is asked, and the list is loaded again
\* whether it did it or not.
ChangeTrees(n, expanded, ok) ==
  LET p == repos[MenuRepo].path
  IN /\ n \in 1..MaxTrees /\ Ok(ok)
     /\ trees' = IF ok THEN [trees EXCEPT ![p] = n] ELSE trees
     /\ repos' = [repos EXCEPT ![MenuRepo] =
          [@ EXCEPT !.loaded = TRUE, !.expanded = expanded,
             !.trees = [m \in 1..trees'[p] |-> [tree |-> m, status |-> disk[<<p, m>>]]]]]
     /\ menu' = NoMenu
     /\ UNCHANGED <<reachable, disk, listVars, rowsDrawn, work>>

\* "New worktree", and an agent's task; a name that is refused is a MenuCancel.
MenuNewWorktree(ok) ==
  /\ Git /\ menu.row[2] = 0
  /\ ChangeTrees(trees[repos[MenuRepo].path] + 1, TRUE, ok)

\* "Remove worktree", of any but the main one.
MenuRemoveWorktree(ok) ==
  /\ Git /\ menu.row[2] > 1
  /\ ChangeTrees(trees[repos[MenuRepo].path] - 1, repos[MenuRepo].expanded, ok)

-----------------------------------------------------------------------------
(* The lists of projects; persistWorkspaceConfig() may fail.                *)

Persist(ok) == Ok(ok) /\ saved' = IF ok THEN lists' ELSE saved

TakenBack(ps) == removed' = removed \ ps /\ unlisted' = unlisted \ ps

\* Mutant: only the list of explicit projects is changed.
MenuRemoveNoExclusion(ok) ==
  LET p == repos[MenuRepo].path
  IN /\ Held /\ menu.row[2] = 0
     /\ lists' = [lists EXCEPT !.projects = @ \ {p}]
     /\ repos' = Kept(repos, {i \in DOMAIN repos : repos[i].path # p})
     /\ Persist(ok)
     /\ removed' = IF ok THEN removed \cup {p} ELSE removed
     /\ menu' = NoMenu
     /\ UNCHANGED <<diskVars, unlisted, rowsDrawn, work>>

\* removeProject(): a project the root shows at this moment is excluded; one of a
\* root that cannot be listed is not, unless it has been before.
MenuRemove(ok) ==
  LET p == repos[MenuRepo].path
  IN /\ Held /\ menu.row[2] = 0
     /\ lists' = [lists EXCEPT !.projects = @ \ {p},
                    !.exclusions = IF reachable /\ p \in Root THEN @ \cup {p} ELSE @]
     /\ repos' = Kept(repos, {i \in DOMAIN repos : repos[i].path # p})
     /\ Persist(ok)
     /\ removed' = IF ok THEN removed \cup {p} ELSE removed
     /\ unlisted' = IF ~ok THEN unlisted
                    ELSE IF p \in Root \ lists'.exclusions THEN unlisted \cup {p}
                    ELSE unlisted \ {p}
     /\ menu' = NoMenu
     /\ UNCHANGED <<diskVars, rowsDrawn, work>>

\* toggleFavoriteProject(): the favourites, which come first in the list, are
\* not modelled, the rescan is.
MenuPin(ok) ==
  /\ Held /\ menu.row[2] = 0
  /\ UNCHANGED lists /\ Persist(ok)
  /\ repos' = Rescanned(lists)
  /\ menu' = NoMenu
  /\ UNCHANGED <<diskVars, removed, unlisted, rowsDrawn, work>>

\* addWorkspaceFolder()
AddFolder(p, ok) ==
  /\ Free
  /\ lists' = [lists EXCEPT !.projects = @ \cup {p}, !.exclusions = @ \ {p}]
  /\ Persist(ok) /\ TakenBack({p})
  /\ repos' = Rescanned(lists')
  /\ UNCHANGED <<diskVars, rowsDrawn, menu, work>>

\* restoreLayoutFrom(): the projects of the layout, whatever they are.
RestoreProjects(ps, ok) ==
  /\ Free
  /\ lists' = [lists EXCEPT !.projects = ps]
  /\ Persist(ok) /\ TakenBack(ps)
  /\ repos' = Rescanned(lists')
  /\ UNCHANGED <<diskVars, rowsDrawn, menu, work>>

\* Liney ends, in order or not, and is started.
RestartWorkspace ==
  /\ lists' = saved /\ repos' = Rescanned(saved)
  /\ TakenBack(saved.projects)
  /\ rowsDrawn' = <<>> /\ menu' = NoMenu /\ work' = NoWork
  /\ UNCHANGED <<diskVars, saved, trouble>>

\* The settings change workspaceRoot, or the same is listed again: in the menu
\* only through assistive technology.
Rescan ==
  /\ repos' = Rescanned(lists)
  /\ menu' = IF Free THEN menu ELSE [menu EXCEPT !.told = TRUE]
  /\ UNCHANGED <<diskVars, listVars, rowsDrawn, work, trouble>>

WorkspaceNext ==
  \/ ReachRoot \/ WorkerEnds \/ MenuCancel \/ MenuRefresh \/ RestartWorkspace \/ Rescan
  \/ \E t \in DOMAIN disk : Edit(t)
  \/ \E due \in BOOLEAN, more \in NewRows : DrawFrame(due, more)
  \/ \E k \in DOMAIN rowsDrawn : OpenMenu(k)
  \/ \E ok \in BOOLEAN :
       \/ MenuReload(ok) \/ MenuNewWorktree(ok) \/ MenuRemoveWorktree(ok)
       \/ MenuRemove(ok) \/ MenuPin(ok)
       \/ \E k \in DOMAIN rowsDrawn : ClickHeader(k, ok)
       \/ WorkerReads(ok) \/ RestoreProjects(Paths, ok)
       \/ \E p \in Paths : AddFolder(p, ok)

\* Frames go on, and a "git status" ends after five seconds at the latest.
WorkspaceFairness ==
  /\ WF_workspaceVars(DrawFrame(TRUE, 0)) /\ WF_workspaceVars(WorkerEnds)
  /\ WF_workspaceVars(\E ok \in BOOLEAN : WorkerReads(ok))
WorkspaceSpec == WorkspaceInit /\ [][WorkspaceNext]_workspaceVars /\ WorkspaceFairness

-----------------------------------------------------------------------------
\* A project removed from the workspace does not come back, by a rescan, a new
\* start or a failed save, unless it is added again, a layout has it, or it was
\* removed while the root could not be listed: then no exclusion is written
\* (WindowSession.cpp:714-729), and it is back as soon as the root is, against
\* CHANGELOG.md:182, "now survives rescans and restarts".
RemovedStays == \A i \in DOMAIN repos : repos[i].path \notin removed \ unlisted

\* Frames drawn inside a context menu, and the results they apply, leave alone
\* what the menu's handler still refers to: the row, the project, and the
\* worktree that is used without another look at the length of the list
\* (WindowMouse.cpp:307, 515).  Only other rows that come meanwhile, as the files
\* of another folder do, may have the rows freed under the handler's reference.
\* Left out are what assistive technology does to the list meanwhile, and a menu
\* opened late, by a click that waited behind the one that changed the list.
MenuRefersToShown ==
  ~Free /\ ~menu.told /\ ~menu.late =>
    /\ Held /\ HeldRow = menu.row
    /\ menu.freed => menu.grown
    /\ MenuRepo \in DOMAIN repos
    /\ menu.row[2] \in {0} \cup DOMAIN repos[MenuRepo].trees

\* When changes and failures stop, the sidebar comes to show the status of every
\* worktree, whatever answers were under way and however often the list is
\* rebuilt; the refresh never stays busy.
ShowsDisk ==
  \A i \in DOMAIN repos : \A w \in DOMAIN repos[i].trees :
    repos[i].trees[w].status = disk[<<repos[i].path, repos[i].trees[w].tree>>]
StatusCatchesUp == []<>ShowsDisk
=============================================================================
