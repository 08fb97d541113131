-------------------------- MODULE ServiceProofs ---------------------------
(***************************************************************************)
(* What holds of the projects in the sidebar and of what is drawn with the *)
(* graphics device, for any projects, worktrees and glyphs.                *)
(***************************************************************************)
EXTENDS Workspace, Renderer, FiniteSetTheorems, TLAPS

-----------------------------------------------------------------------------
(* Sets of numbers put in order.                                           *)

\* The k-th of a finite set of numbers is one of them: counting the ones up to it
\* gives every number of the set a place of its own, and there are as many places
\* as numbers.
LEMMA NthIsOne ==
  ASSUME NEW S \in SUBSET Nat, IsFiniteSet(S), NEW k \in 1..Cardinality(S)
  PROVE  Nth(S, k) \in S
<1> DEFINE Upto(n) == {m \in S : m <= n}
           place == [n \in S |-> Cardinality(Upto(n))]
           places == 1..Cardinality(S)
<1>1. Cardinality(S) \in Nat
  BY FS_CardinalityType
<1>2. ASSUME NEW n \in S
      PROVE /\ IsFiniteSet(Upto(n)) /\ Cardinality(Upto(n)) \in Nat
            /\ Cardinality(Upto(n)) <= Cardinality(S)
  <2>1. Upto(n) \in SUBSET S
    OBVIOUS
  <2> HIDE DEF Upto
  <2> QED
    BY <2>1, FS_Subset, FS_CardinalityType
<1>3. ASSUME NEW n \in S PROVE Cardinality(Upto(n)) # 0
  <2>1. n \in Upto(n)
    OBVIOUS
  <2>2. IsFiniteSet(Upto(n))
    BY <1>2
  <2> HIDE DEF Upto
  <2> QED
    BY <2>1, <2>2, FS_EmptySet
<1>4. place \in [S -> places]
  BY <1>1, <1>2, <1>3
<1>5. ASSUME NEW m \in S, NEW n \in S, m < n PROVE place[m] # place[n]
  <2>1. m \in Nat /\ n \in Nat /\ S \subseteq Nat
    OBVIOUS
  <2>2. n \in Upto(n) /\ n \notin Upto(m)
    BY <1>5, <2>1
  <2>3. \A i \in S : i <= m => i <= n
    BY <1>5, <2>1
  <2>4. Upto(m) \in SUBSET Upto(n) /\ n \in Upto(n) /\ n \notin Upto(m)
    BY <2>2, <2>3
  <2>5. IsFiniteSet(Upto(n))
    BY <1>2
  <2>6. place[m] = Cardinality(Upto(m)) /\ place[n] = Cardinality(Upto(n))
    OBVIOUS
  <2> HIDE DEF Upto, place
  <2> QED
    BY <2>4, <2>5, <2>6, FS_Subset
<1>6. place \in Injection(S, places)
  <2>1. \A m, n \in S : m # n => m < n \/ n < m
    OBVIOUS
  <2>2. \A m, n \in S : place[m] = place[n] => m = n
    BY <1>5, <2>1
  <2> HIDE DEF place
  <2> QED
    BY <1>4, <2>2 DEF Injection, IsInjective
<1>7. IsFiniteSet(places) /\ Cardinality(places) = Cardinality(S)
  <2>1. IsFiniteSet(1..Cardinality(S))
        /\ Cardinality(1..Cardinality(S)) =
             IF 1 > Cardinality(S) THEN 0 ELSE Cardinality(S) - 1 + 1
    BY <1>1, FS_Interval
  <2> QED
    BY <1>1, <2>1
<1>8. place \in Surjection(S, places)
  BY <1>6, <1>7, FS_Injection
<1>9. PICK n \in S : place[n] = k
  BY <1>8 DEF Surjection
<1>10. Cardinality(Upto(n)) = k
  BY <1>9
<1> QED
  BY <1>10 DEF Nth

-----------------------------------------------------------------------------
(* Removed projects.                                                       *)

\* Neither list has a project that is gone for good, and both exclude it if the
\* root would show it: so no rescan finds it, from the list in memory or the saved
\* one.  One removed while the root could not be listed is not gone for good.
GoneForGood == removed \ unlisted
Stays(l, taken) == taken \cap l.projects = {} /\ taken \cap Root \subseteq l.exclusions

IsLists(l) ==
  l = [projects |-> l.projects, exclusions |-> l.exclusions] /\ l.projects \subseteq Paths

IsRepo(r) == r = [path |-> r.path, git |-> r.git, expanded |-> r.expanded,
                  loaded |-> r.loaded, trees |-> r.trees]

\* A list of projects.
IsShown(rs) ==
  /\ \E n \in Nat : DOMAIN rs = 1..n
  /\ \A i \in DOMAIN rs : IsRepo(rs[i])

RemovedInv ==
  /\ IsLists(lists) /\ IsLists(saved) /\ IsShown(repos)
  /\ Stays(lists, GoneForGood) /\ Stays(saved, GoneForGood)
  /\ RemovedStays

\* Root and Folder together are a finite set of numbers.
LEMMA FinitePaths == IsFiniteSet(Paths) /\ Paths \subseteq Nat /\ Root \subseteq Paths
BY PathsAssumption, FS_Union DEF Paths

\* A rescan lists the projects of the list and what the root shows, and nothing
\* that was removed.
LEMMA RescanLeavesOut ==
  ASSUME NEW l, IsLists(l), NEW taken, Stays(l, taken), NEW rs, rs = Rescanned(l)
  PROVE  IsShown(rs) /\ \A i \in DOMAIN rs : rs[i].path \notin taken
<1> DEFINE found == IF reachable THEN Root ELSE {}
           shown == (found \ l.exclusions) \cup l.projects
<1>1. shown \in SUBSET Paths
  BY FinitePaths DEF IsLists
<1>2. IsFiniteSet(shown) /\ shown \in SUBSET Nat
  BY <1>1, FinitePaths, FS_Subset
<1>3. \A p \in shown : p \notin taken
  BY DEF Stays
<1>4. rs = [i \in 1..Cardinality(shown) |->
        [path |-> Nth(shown, i), git |-> Nth(shown, i) \in found,
         expanded |-> FALSE, loaded |-> FALSE, trees |-> <<>>]]
  BY DEF Rescanned
<1> HIDE DEF shown, found
<1>5. Cardinality(shown) \in Nat
  BY <1>2, FS_CardinalityType
<1>6. DOMAIN rs = 1..Cardinality(shown)
  BY <1>4
<1>7. ASSUME NEW i \in DOMAIN rs PROVE IsRepo(rs[i]) /\ rs[i].path \notin taken
  <2>1. Nth(shown, i) \in shown
    BY <1>2, <1>6, NthIsOne
  <2>2. rs[i].path = Nth(shown, i) /\ IsRepo(rs[i])
    BY <1>4, <1>6 DEF IsRepo
  <2> QED
    BY <1>3, <2>1, <2>2
<1> QED
  BY <1>5, <1>6, <1>7 DEF IsShown

\* A project of which the path is kept is the same project.
LEMMA SameRepo ==
  ASSUME NEW p, NEW g, NEW d, NEW m, NEW u, NEW x,
         x = [path |-> p, git |-> g, expanded |-> d, loaded |-> m, trees |-> u]
  PROVE  IsRepo(x) /\ x.path = p
BY DEF IsRepo

\* What is kept of a list was in it.
LEMMA KeptIsOld ==
  ASSUME NEW rs, IsShown(rs), NEW S \in SUBSET DOMAIN rs, NEW t, t = Kept(rs, S)
  PROVE  IsShown(t) /\ \A k \in DOMAIN t : \E i \in S : t[k] = rs[i]
<1>1. PICK n \in Nat : DOMAIN rs = 1..n
  BY DEF IsShown
<1>2. IsFiniteSet(S) /\ S \in SUBSET Nat
  <2>1. IsFiniteSet(1..n)
    BY FS_Interval
  <2> QED
    BY <1>1, <2>1, FS_Subset
<1>3. Cardinality(S) \in Nat
  BY <1>2, FS_CardinalityType
<1>4. t = [k \in 1..Cardinality(S) |-> rs[Nth(S, k)]]
  BY DEF Kept
<1>5. ASSUME NEW k \in DOMAIN t PROVE \E i \in S : t[k] = rs[i]
  BY <1>2, <1>4, NthIsOne
<1> QED
  BY <1>3, <1>4, <1>5 DEF IsShown

\* removeProject() leaves the project out of the list shown and of the lists kept.
LEMMA MenuRemoveKeeps ==
  ASSUME RemovedInv, NEW ok \in BOOLEAN, MenuRemove(ok) PROVE RemovedInv'
<1> DEFINE p == repos[MenuRepo].path
           more == IF ok /\ p \notin Root \ lists'.exclusions THEN {p} ELSE {}
<1>1. /\ lists' = [lists EXCEPT !.projects = @ \ {p},
                     !.exclusions = IF reachable /\ p \in Root THEN @ \cup {p} ELSE @]
      /\ repos' = Kept(repos, {i \in DOMAIN repos : repos[i].path # p})
      /\ saved' = (IF ok THEN lists' ELSE saved)
      /\ removed' = (IF ok THEN removed \cup {p} ELSE removed)
      /\ unlisted' = (IF ~ok THEN unlisted
                      ELSE IF p \in Root \ lists'.exclusions THEN unlisted \cup {p}
                      ELSE unlisted \ {p})
  BY DEF MenuRemove, Persist
<1>2. /\ IsLists(lists) /\ IsLists(saved) /\ IsShown(repos)
      /\ Stays(lists, GoneForGood) /\ Stays(saved, GoneForGood)
      /\ \A i \in DOMAIN repos : repos[i].path \notin GoneForGood
  BY DEF RemovedInv, RemovedStays, GoneForGood
<1>3. PICK ps, es : lists = [projects |-> ps, exclusions |-> es] /\ ps \subseteq Paths
  BY <1>2 DEF IsLists
<1> DEFINE es2 == IF reachable /\ p \in Root THEN es \cup {p} ELSE es
<1>4. lists' = [projects |-> ps \ {p}, exclusions |-> es2]
  BY <1>1, <1>3
<1> DEFINE left == {i \in DOMAIN repos : repos[i].path # p}
<1>5. PICK q : q = p
  OBVIOUS
<1>6. left = {i \in DOMAIN repos : repos[i].path # q}
  BY <1>5
<1>7. IsLists(lists')
  BY <1>3, <1>4 DEF IsLists
<1>8. lists'.projects = ps \ {p} /\ lists'.exclusions = es2
  BY <1>4
<1>9. GoneForGood' \subseteq GoneForGood \cup more
  <2> HIDE DEF p
  <2> QED
    BY <1>1 DEF GoneForGood
<1>10. Stays(lists', GoneForGood')
  <2>1. GoneForGood \cap (ps \ {p}) = {} /\ GoneForGood \cap Root \subseteq es2
    BY <1>2, <1>3 DEF Stays
  <2>2. more \cap (ps \ {p}) = {} /\ more \cap Root \subseteq es2
    BY <1>8
  <2>3. PICK away : away = GoneForGood'
    OBVIOUS
  <2> HIDE DEF more, es2, p, GoneForGood
  <2> QED
    BY <1>8, <1>9, <2>1, <2>2, <2>3 DEF Stays
<1>11. IsLists(saved') /\ Stays(saved', GoneForGood')
  <2>1. CASE ok
    BY <1>1, <1>7, <1>10, <2>1
  <2>2. CASE ~ok
    <3>1. more = {} /\ GoneForGood' = GoneForGood
      BY <1>1, <2>2 DEF GoneForGood
    <3> QED
      BY <1>1, <1>2, <2>2, <3>1
  <2> QED
    BY <2>1, <2>2
<1>12. IsShown(repos') /\ \A k \in DOMAIN repos' : repos'[k].path \notin GoneForGood'
  <2>1. PICK rs : rs = repos'
    OBVIOUS
  <2>2. rs = Kept(repos, left) /\ left \in SUBSET DOMAIN repos
    BY <1>1, <2>1
  <2> HIDE DEF left
  <2>3. IsShown(rs) /\ \A k \in DOMAIN rs : \E i \in left : rs[k] = repos[i]
    BY <1>2, <2>2, KeptIsOld
  <2>4. \A i \in left : i \in DOMAIN repos /\ repos[i].path # q
    BY <1>6
  <2>5. \A r \in more : r = q
    BY <1>5
  <2> HIDE DEF more
  <2> QED
    BY <1>2, <1>9, <2>1, <2>3, <2>4, <2>5
<1> QED
  BY <1>7, <1>10, <1>11, <1>12 DEF RemovedInv, RemovedStays, GoneForGood

\* A list that is shown anew after the lists and what was removed have changed.
LEMMA RescanKeeps ==
  ASSUME IsLists(lists'), IsLists(saved'), Stays(lists', GoneForGood'),
         Stays(saved', GoneForGood'), repos' = Rescanned(lists')
  PROVE  RemovedInv'
<1>1. PICK l, taken, rs : l = lists' /\ taken = GoneForGood' /\ rs = repos'
  OBVIOUS
<1>2. IsShown(rs) /\ \A i \in DOMAIN rs : rs[i].path \notin taken
  BY <1>1, RescanLeavesOut
<1> QED
  BY <1>1, <1>2 DEF RemovedInv, RemovedStays, GoneForGood

\* The list is changed in place: its projects stay those they were.
LEMMA SameProjectsKeeps ==
  ASSUME RemovedInv, UNCHANGED listVars, DOMAIN repos' = DOMAIN repos,
         \A i \in DOMAIN repos : IsRepo(repos'[i]) /\ repos'[i].path = repos[i].path
  PROVE  RemovedInv'
BY DEF RemovedInv, RemovedStays, listVars, IsShown, GoneForGood

\* One project of the list is changed.
LEMMA OneProjectKeeps ==
  ASSUME RemovedInv, UNCHANGED listVars, NEW i, NEW x,
         i \in DOMAIN repos => IsRepo(x) /\ x.path = repos[i].path,
         repos' = [repos EXCEPT ![i] = x]
  PROVE  RemovedInv'
<1>1. DOMAIN repos' = DOMAIN repos
  OBVIOUS
<1>2. \A j \in DOMAIN repos : IsRepo(repos[j])
  BY DEF RemovedInv, IsShown
<1>3. ASSUME NEW j \in DOMAIN repos
      PROVE  IsRepo(repos'[j]) /\ repos'[j].path = repos[j].path
  BY <1>2
<1> QED
  BY <1>1, <1>3, SameProjectsKeeps

\* The start rescans the empty lists.
LEMMA RemovedInit == WorkspaceInit => RemovedInv
<1> SUFFICES ASSUME WorkspaceInit PROVE RemovedInv
  OBVIOUS
<1>1. /\ lists = [projects |-> {}, exclusions |-> {}] /\ saved = lists
      /\ repos = Rescanned(lists) /\ GoneForGood = {}
  BY DEF WorkspaceInit, GoneForGood
<1>2. IsLists(lists) /\ Stays(lists, GoneForGood)
  BY <1>1 DEF IsLists, Stays
<1>3. IsShown(repos) /\ \A i \in DOMAIN repos : repos[i].path \notin GoneForGood
  BY <1>1, <1>2, RescanLeavesOut
<1> QED
  BY <1>1, <1>2, <1>3 DEF RemovedInv, RemovedStays, GoneForGood

\* Every step keeps what was removed out of the lists.
LEMMA RemovedNext ==
  RemovedInv /\ [WorkspaceNext]_workspaceVars => RemovedInv'
<1> SUFFICES ASSUME RemovedInv, [WorkspaceNext]_workspaceVars PROVE RemovedInv'
  OBVIOUS
<1> USE DEF RemovedInv
<1>1. \A i \in DOMAIN repos : IsRepo(repos[i])
  BY DEF IsShown
<1>2. ASSUME UNCHANGED <<listVars, repos>> PROVE RemovedInv'
  BY <1>2, <1>1, SameProjectsKeeps
<1>3. CASE RestartWorkspace
  <2>1. /\ lists' = saved /\ saved' = saved /\ repos' = Rescanned(lists')
        /\ GoneForGood' = GoneForGood \ saved.projects
    BY <1>3 DEF RestartWorkspace, TakenBack, GoneForGood
  <2>2. Stays(saved, GoneForGood')
    BY <2>1 DEF Stays
  <2> QED
    BY <2>1, <2>2, RescanKeeps
<1>4. CASE Rescan
  BY <1>4, RescanKeeps DEF Rescan, listVars, GoneForGood
<1>5. ASSUME NEW due \in BOOLEAN, NEW more \in NewRows, DrawFrame(due, more)
      PROVE RemovedInv'
  <2>1. repos' = repos \/ repos' = Applied(repos, work.results)
    BY <1>5 DEF DrawFrame
  <2>2. CASE repos' = Applied(repos, work.results)
    <3>1. DOMAIN repos' = DOMAIN repos
      BY <2>2 DEF Applied
    <3>2. ASSUME NEW i \in DOMAIN repos
          PROVE IsRepo(repos'[i]) /\ repos'[i].path = repos[i].path
      <4> DEFINE ts == [w \in DOMAIN repos[i].trees |->
                LET t == <<repos[i].path, repos[i].trees[w].tree>>
                IN IF t \in DOMAIN work.results
                   THEN [repos[i].trees[w] EXCEPT !.status = work.results[t]]
                   ELSE repos[i].trees[w]]
      <4>1. repos'[i] = [repos[i] EXCEPT !.trees = ts]
        BY <2>2 DEF Applied
      <4> HIDE DEF ts
      <4>2. PICK p, g, d, m, u : repos[i] = [path |-> p, git |-> g, expanded |-> d,
                                             loaded |-> m, trees |-> u]
        BY <1>1 DEF IsRepo
      <4>3. repos'[i] = [path |-> p, git |-> g, expanded |-> d, loaded |-> m, trees |-> ts]
        BY <4>1, <4>2
      <4> QED
        BY <4>2, <4>3, SameRepo
    <3> QED
      BY <1>5, <3>1, <3>2, SameProjectsKeeps DEF DrawFrame
  <2> QED
    BY <1>2, <1>5, <2>1, <2>2 DEF DrawFrame
<1>6. ASSUME NEW ok \in BOOLEAN, MenuPin(ok) PROVE RemovedInv'
  <2>1. /\ lists' = lists /\ saved' \in {lists, saved} /\ GoneForGood' = GoneForGood
        /\ repos' = Rescanned(lists')
    BY <1>6 DEF MenuPin, Persist, GoneForGood
  <2> QED
    BY <2>1, RescanKeeps
<1>7. ASSUME NEW ok \in BOOLEAN, RestoreProjects(Paths, ok) PROVE RemovedInv'
  <2>1. /\ lists' = [lists EXCEPT !.projects = Paths] /\ saved' \in {lists', saved}
        /\ GoneForGood' = GoneForGood \ Paths /\ repos' = Rescanned(lists')
    BY <1>7 DEF RestoreProjects, Persist, TakenBack, GoneForGood
  <2>2. PICK ps, es : lists = [projects |-> ps, exclusions |-> es]
    BY DEF IsLists
  <2>3. lists' = [projects |-> Paths, exclusions |-> es]
    BY <2>1, <2>2
  <2>4. IsLists(lists')
    BY <2>3 DEF IsLists
  <2>5. Stays(lists', GoneForGood')
    BY <2>1, <2>2, <2>3 DEF Stays
  <2>6. Stays(saved, GoneForGood')
    BY <2>1 DEF Stays
  <2> QED
    BY <2>1, <2>4, <2>5, <2>6, RescanKeeps
<1>8. ASSUME NEW ok \in BOOLEAN, NEW p \in Paths, AddFolder(p, ok) PROVE RemovedInv'
  <2>1. /\ lists' = [lists EXCEPT !.projects = @ \cup {p}, !.exclusions = @ \ {p}]
        /\ saved' \in {lists', saved}
        /\ GoneForGood' = GoneForGood \ {p} /\ repos' = Rescanned(lists')
    BY <1>8 DEF AddFolder, Persist, TakenBack, GoneForGood
  <2>2. PICK ps, es : lists = [projects |-> ps, exclusions |-> es] /\ ps \subseteq Paths
    BY DEF IsLists
  <2>3. lists' = [projects |-> ps \cup {p}, exclusions |-> es \ {p}]
    BY <2>1, <2>2
  <2>4. IsLists(lists')
    BY <2>2, <2>3 DEF IsLists
  <2>5. GoneForGood \cap ps = {} /\ GoneForGood \cap Root \subseteq es
    BY <2>2 DEF Stays
  <2>6. lists'.projects = ps \cup {p} /\ lists'.exclusions = es \ {p}
    BY <2>3
  <2>7. Stays(lists', GoneForGood')
    BY <2>1, <2>5, <2>6 DEF Stays
  <2>8. Stays(saved, GoneForGood')
    BY <2>1 DEF Stays
  <2> QED
    BY <2>1, <2>4, <2>7, <2>8, RescanKeeps
<1>9. ASSUME NEW ok \in BOOLEAN, NEW k \in DOMAIN rowsDrawn, ClickHeader(k, ok)
      PROVE  RemovedInv'
  <2> DEFINE Y(j) == IF repos[j].expanded THEN repos[j] ELSE Load(repos[j], ok)
             X(j) == [Y(j) EXCEPT !.expanded = ~@]
  <2>1. PICK i \in DOMAIN repos : repos' = [repos EXCEPT ![i] = X(i)]
    BY <1>9 DEF ClickHeader
  <2> DEFINE y == Y(i)
             x == X(i)
  <2>2. PICK p, g, d, m, u : repos[i] = [path |-> p, git |-> g, expanded |-> d,
                                         loaded |-> m, trees |-> u]
    BY <1>1 DEF IsRepo
  <2>3. y = repos[i] \/ \E ts : y = [repos[i] EXCEPT !.loaded = TRUE, !.trees = ts]
    BY DEF Load, Loaded
  <2>4. PICK n, t : y = [path |-> p, git |-> g, expanded |-> d, loaded |-> n, trees |-> t]
    <3> HIDE DEF y, Y
    <3>1. PICK yes : yes = TRUE
      OBVIOUS
    <3>2. ASSUME NEW ts, y = [repos[i] EXCEPT !.loaded = TRUE, !.trees = ts]
          PROVE y = [path |-> p, git |-> g, expanded |-> d, loaded |-> yes, trees |-> ts]
      <4>1. PICK r, z : r = repos[i] /\ z = y
        OBVIOUS
      <4>2. z = [r EXCEPT !.loaded = yes, !.trees = ts]
        BY <3>1, <3>2, <4>1, Zenon
      <4>3. r = [path |-> p, git |-> g, expanded |-> d, loaded |-> m, trees |-> u]
        BY <2>2, <4>1
      <4>4. z = [path |-> p, git |-> g, expanded |-> d, loaded |-> yes, trees |-> ts]
        BY <4>2, <4>3
      <4> QED
        BY <4>1, <4>4
    <3> QED
      BY <2>2, <2>3, <3>2
  <2>5. x = [y EXCEPT !.expanded = ~@]
    OBVIOUS
  <2>6. PICK e : x = [path |-> p, git |-> g, expanded |-> e, loaded |-> n, trees |-> t]
    <3>1. PICK e : e = ~y.expanded
      OBVIOUS
    <3>2. x = [y EXCEPT !.expanded = e]
      BY <3>1, <2>5, Zenon
    <3> HIDE DEF y, x, X, Y
    <3> QED
      BY <2>4, <3>2
  <2>7. IsRepo(x) /\ x.path = repos[i].path
    <3> HIDE DEF x, X, Y
    <3> QED
      BY <2>2, <2>6, SameRepo
  <2>8. repos' = [repos EXCEPT ![i] = x]
    BY <2>1
  <2> HIDE DEF x, y, X, Y
  <2> QED
    BY <1>9, <2>7, <2>8, OneProjectKeeps DEF ClickHeader
<1>10. ASSUME NEW ok \in BOOLEAN, MenuReload(ok) PROVE RemovedInv'
  <2> DEFINE r == repos[MenuRepo]
             y == Loaded(r, ok)
             x == [y EXCEPT !.expanded = TRUE]
  <2>1. repos' = [repos EXCEPT ![MenuRepo] = x]
    BY <1>10 DEF MenuReload, Reload
  <2>2. PICK ts : y = [r EXCEPT !.loaded = TRUE, !.trees = ts]
    BY DEF Loaded
  <2>3. PICK yes : yes = TRUE
    OBVIOUS
  <2>4. y = [r EXCEPT !.loaded = yes, !.trees = ts] /\ x = [y EXCEPT !.expanded = yes]
    BY <2>2, <2>3, Zenon
  <2>5. ASSUME MenuRepo \in DOMAIN repos PROVE IsRepo(x) /\ x.path = repos[MenuRepo].path
    <3>1. PICK p, g, d, m, u : r = [path |-> p, git |-> g, expanded |-> d,
                                    loaded |-> m, trees |-> u]
      BY <1>1, <2>5 DEF IsRepo
    <3>2. r.path = p
      BY <3>1
    <3> HIDE DEF x, y, r
    <3>3. y = [path |-> p, git |-> g, expanded |-> d, loaded |-> yes, trees |-> ts]
      BY <2>4, <3>1
    <3>4. PICK z : z = y
      OBVIOUS
    <3>5. x = [z EXCEPT !.expanded = yes]
          /\ z = [path |-> p, git |-> g, expanded |-> d, loaded |-> yes, trees |-> ts]
      BY <2>4, <3>3, <3>4, Zenon
    <3>6. x = [path |-> p, git |-> g, expanded |-> yes, loaded |-> yes, trees |-> ts]
      BY <3>5
    <3>7. IsRepo(x) /\ x.path = p
      BY <3>6, SameRepo
    <3> QED
      BY <3>2, <3>7 DEF r
  <2> HIDE DEF x
  <2> QED
    BY <1>10, <2>1, <2>5, OneProjectKeeps DEF MenuReload
<1>11. CASE MenuRefresh
  <2>1. PICK ts : repos' = [repos EXCEPT ![MenuRepo] = [repos[MenuRepo] EXCEPT !.trees = ts]]
    BY <1>11 DEF MenuRefresh
  <2> DEFINE x == [repos[MenuRepo] EXCEPT !.trees = ts]
  <2>2. ASSUME MenuRepo \in DOMAIN repos PROVE IsRepo(x) /\ x.path = repos[MenuRepo].path
    <3>1. PICK p, g, d, m, u : repos[MenuRepo] = [path |-> p, git |-> g, expanded |-> d,
                                                  loaded |-> m, trees |-> u]
      BY <1>1, <2>2 DEF IsRepo
    <3>2. x = [path |-> p, git |-> g, expanded |-> d, loaded |-> m, trees |-> ts]
      BY <3>1
    <3> QED
      BY <3>1, <3>2, SameRepo
  <2>3. repos' = [repos EXCEPT ![MenuRepo] = x]
    BY <2>1
  <2> HIDE DEF x
  <2> QED
    BY <1>11, <2>2, <2>3, OneProjectKeeps DEF MenuRefresh
<1>12. ASSUME NEW n, NEW open, NEW ok, ChangeTrees(n, open, ok) PROVE RemovedInv'
  <2>1. PICK ts : repos' = [repos EXCEPT ![MenuRepo] =
            [repos[MenuRepo] EXCEPT !.loaded = TRUE, !.expanded = open, !.trees = ts]]
    BY <1>12 DEF ChangeTrees
  <2>2. PICK yes : yes = TRUE
    OBVIOUS
  <2> DEFINE x == [repos[MenuRepo] EXCEPT !.loaded = yes, !.expanded = open, !.trees = ts]
  <2>3. ASSUME MenuRepo \in DOMAIN repos PROVE IsRepo(x) /\ x.path = repos[MenuRepo].path
    <3>1. PICK p, g, d, m, u : repos[MenuRepo] = [path |-> p, git |-> g, expanded |-> d,
                                                  loaded |-> m, trees |-> u]
      BY <1>1, <2>3 DEF IsRepo
    <3>2. PICK r, z : r = repos[MenuRepo] /\ z = x
      OBVIOUS
    <3>3. r = [path |-> p, git |-> g, expanded |-> d, loaded |-> m, trees |-> u]
      BY <3>1, <3>2
    <3>4. z = [r EXCEPT !.loaded = yes, !.expanded = open, !.trees = ts]
      BY <3>2
    <3>5. z = [path |-> p, git |-> g, expanded |-> open, loaded |-> yes, trees |-> ts]
      BY <3>3, <3>4
    <3>6. repos[MenuRepo].path = p
      BY <3>1
    <3> HIDE DEF x
    <3> QED
      BY <3>5, <3>2, <3>6, SameRepo
  <2>4. repos' = [repos EXCEPT ![MenuRepo] = x]
    BY <2>1, <2>2, Zenon
  <2> HIDE DEF x
  <2> QED
    BY <1>12, <2>3, <2>4, OneProjectKeeps DEF ChangeTrees
<1>13. ASSUME NEW ok \in BOOLEAN, MenuNewWorktree(ok) \/ MenuRemoveWorktree(ok)
       PROVE  RemovedInv'
  BY <1>12, <1>13 DEF MenuNewWorktree, MenuRemoveWorktree
<1>14. ASSUME NEW ok \in BOOLEAN, MenuRemove(ok) PROVE RemovedInv'
  BY <1>14, MenuRemoveKeeps
<1>15. ASSUME \/ ReachRoot \/ WorkerEnds \/ MenuCancel
              \/ \E t \in DOMAIN disk : Edit(t)
              \/ \E k \in DOMAIN rowsDrawn : OpenMenu(k)
              \/ \E ok \in BOOLEAN : WorkerReads(ok)
              \/ UNCHANGED workspaceVars
       PROVE  RemovedInv'
  BY <1>2, <1>15 DEF ReachRoot, WorkerEnds, MenuCancel, Edit, OpenMenu, WorkerReads,
                     workspaceVars
<1> QED
  BY <1>3, <1>4, <1>5, <1>6, <1>7, <1>8, <1>9, <1>10, <1>11, <1>13, <1>14, <1>15
     DEF WorkspaceNext

\* A project removed from the workspace stays away, whatever is rescanned, saved or
\* not saved and started again (WindowSession.cpp:714-729), for any projects; but
\* one removed while the root could not be listed does not.
THEOREM RemovedStayAway == WorkspaceSpec => []RemovedStays
<1>1. RemovedInv => RemovedStays
  BY DEF RemovedInv
<1> QED
  BY <1>1, RemovedInit, RemovedNext, PTL DEF WorkspaceSpec

-----------------------------------------------------------------------------
(* The open menu.                                                          *)

\* What the handler's references lead to.
Refers ==
  /\ Held /\ HeldRow = menu.row
  /\ menu.room = DOMAIN rowsDrawn /\ (menu.freed => menu.grown)
  /\ MenuRepo \in DOMAIN repos
  /\ menu.row[2] \in {0} \cup DOMAIN repos[MenuRepo].trees

\* What the handler keeps of an open menu.
HasFields ==
  menu # NoMenu =>
    menu = [at |-> menu.at, row |-> menu.row, room |-> menu.room,
            grown |-> menu.grown, freed |-> menu.freed, told |-> menu.told,
            late |-> menu.late]

\* While the menu is open the rows are those of the projects shown, unless they
\* were already behind when it was opened: so a frame draws the same rows again,
\* with the results applied or without.
MenuInv == ~Free /\ ~menu.told /\ ~menu.late => Refers /\ rowsDrawn = RowsOf(repos)

\* A frame applies results to what is there: no row and no worktree comes or goes.
LEMMA AppliedSameRows ==
  ASSUME NEW rs, \A i \in DOMAIN rs : IsRepo(rs[i]), NEW results,
         NEW ts, ts = Applied(rs, results)
  PROVE  /\ RowsOf(ts) = RowsOf(rs) /\ DOMAIN ts = DOMAIN rs
         /\ \A i \in DOMAIN rs : DOMAIN ts[i].trees = DOMAIN rs[i].trees
<1>1. DOMAIN ts = DOMAIN rs
  BY DEF Applied
<1>2. ASSUME NEW i \in DOMAIN rs
      PROVE  ts[i].expanded = rs[i].expanded /\ DOMAIN ts[i].trees = DOMAIN rs[i].trees
  <2> DEFINE us == [w \in DOMAIN rs[i].trees |->
                LET t == <<rs[i].path, rs[i].trees[w].tree>>
                IN IF t \in DOMAIN results
                   THEN [rs[i].trees[w] EXCEPT !.status = results[t]]
                   ELSE rs[i].trees[w]]
  <2>1. ts[i] = [rs[i] EXCEPT !.trees = us]
    BY DEF Applied
  <2>2. DOMAIN us = DOMAIN rs[i].trees
    OBVIOUS
  <2> HIDE DEF us
  <2>3. PICK p, g, d, m, u : rs[i] = [path |-> p, git |-> g, expanded |-> d,
                                      loaded |-> m, trees |-> u]
    BY DEF IsRepo
  <2>4. ts[i] = [path |-> p, git |-> g, expanded |-> d, loaded |-> m, trees |-> us]
    BY <2>1, <2>3
  <2> QED
    BY <2>2, <2>3, <2>4
<1> DEFINE Rows(s, i) == <<<<i, 0>>>> \o (IF s[i].expanded
                            THEN [w \in DOMAIN s[i].trees |-> <<i, w>>] ELSE <<>>)
<1>3. \A i \in DOMAIN rs : Rows(ts, i) = Rows(rs, i)
  BY <1>2
<1>4. [i \in DOMAIN ts |-> Rows(ts, i)] = [i \in DOMAIN rs |-> Rows(rs, i)]
  <2> HIDE DEF Rows
  <2> QED
    BY <1>1, <1>3
<1>5. RowsOf(ts) = FlattenSeq([i \in DOMAIN ts |-> Rows(ts, i)])
      /\ RowsOf(rs) = FlattenSeq([i \in DOMAIN rs |-> Rows(rs, i)])
  BY Zenon DEF RowsOf
<1>6. RowsOf(ts) = RowsOf(rs)
  <2> HIDE DEF Rows
  <2> QED
    BY <1>4, <1>5, Zenon
<1> QED
  BY <1>1, <1>2, <1>6

\* What a frame changes of the open menu.
LEMMA RedrawnMenu ==
  ASSUME HasFields, menu # NoMenu, NEW more, RowsRedrawn(more)
  PROVE  /\ menu'.at = menu.at /\ menu'.row = menu.row /\ menu'.room = menu.room
         /\ menu'.told = menu.told /\ menu'.late = menu.late
         /\ menu'.freed => \/ menu.freed \/ more > 0
                           \/ ~(DOMAIN rowsDrawn' \subseteq menu.room)
         /\ menu.grown \/ more > 0 => menu'.grown
         /\ HasFields'
<1>1. PICK g, f : /\ g = (menu.grown \/ more > 0)
                  /\ f = (menu.freed \/ more > 0 \/ ~(DOMAIN rowsDrawn' \subseteq menu.room))
  OBVIOUS
<1>2. menu' = [menu EXCEPT !.grown = g, !.freed = f]
  BY <1>1, Zenon DEF RowsRedrawn
<1>3. PICK a, w, m, x, y, u, l :
        menu = [at |-> a, row |-> w, room |-> m, grown |-> x, freed |-> y,
                told |-> u, late |-> l]
  BY DEF HasFields
<1>4. menu' = [at |-> a, row |-> w, room |-> m, grown |-> g, freed |-> f,
               told |-> u, late |-> l]
  BY <1>2, <1>3
<1>5. menu'.grown = g /\ menu'.freed = f /\ HasFields'
  BY <1>4 DEF HasFields
<1>6. /\ menu'.at = menu.at /\ menu'.row = menu.row /\ menu'.room = menu.room
      /\ menu'.told = menu.told /\ menu'.late = menu.late
  BY <1>3, <1>4
<1> QED
  BY <1>1, <1>5, <1>6, Zenon

\* An open menu has its fields from its opening to its end.
LEMMA FieldsNext == HasFields /\ [WorkspaceNext]_workspaceVars => HasFields'
<1> SUFFICES ASSUME HasFields, [WorkspaceNext]_workspaceVars PROVE HasFields'
  OBVIOUS
<1>1. ASSUME menu' = menu \/ menu' = NoMenu PROVE HasFields'
  BY <1>1 DEF HasFields
<1>2. ASSUME NEW due \in BOOLEAN, NEW more \in NewRows, DrawFrame(due, more)
      PROVE  HasFields'
  <2>1. RowsRedrawn(more)
    BY <1>2 DEF DrawFrame
  <2> QED
    BY <1>1, <2>1, RedrawnMenu DEF RowsRedrawn
<1>3. ASSUME NEW k \in DOMAIN rowsDrawn, OpenMenu(k) PROVE HasFields'
  <2>1. PICK late : late = (rowsDrawn # RowsOf(repos))
    OBVIOUS
  <2>2. menu' = [at |-> k, row |-> rowsDrawn[k], room |-> DOMAIN rowsDrawn,
                 grown |-> FALSE, freed |-> FALSE, told |-> FALSE, late |-> late]
    BY <1>3, <2>1, Zenon DEF OpenMenu
  <2> QED
    BY <2>2 DEF HasFields
<1>4. CASE Rescan
  <2>1. CASE menu # NoMenu
    <3>1. PICK a, w, m, x, y, u, l :
            menu = [at |-> a, row |-> w, room |-> m, grown |-> x, freed |-> y,
                    told |-> u, late |-> l]
      BY <2>1 DEF HasFields
    <3>2. PICK yes : yes = TRUE
      OBVIOUS
    <3>3. menu' = [menu EXCEPT !.told = yes]
      BY <1>4, <2>1, <3>2, Zenon DEF Rescan, Free
    <3>4. menu' = [at |-> a, row |-> w, room |-> m, grown |-> x, freed |-> y,
                   told |-> yes, late |-> l]
      BY <3>1, <3>3
    <3> QED
      BY <3>4 DEF HasFields
  <2> QED
    BY <1>1, <1>4, <2>1 DEF Rescan, Free
<1> QED
  BY <1>1, <1>2, <1>3, <1>4
     DEF WorkspaceNext, ReachRoot, WorkerEnds, MenuCancel, MenuRefresh,
         RestartWorkspace, Edit, MenuReload, MenuNewWorktree, MenuRemoveWorktree,
         ChangeTrees, MenuRemove, MenuPin, ClickHeader, WorkerReads, RestoreProjects,
         AddFolder, workspaceVars

\* Every step closes the menu or leaves what it refers to.
LEMMA MenuNext ==
  RemovedInv /\ HasFields /\ MenuInv /\ [WorkspaceNext]_workspaceVars => MenuInv'
<1> SUFFICES ASSUME RemovedInv, HasFields, MenuInv, [WorkspaceNext]_workspaceVars,
                    ~Free', ~menu'.told, ~menu'.late
             PROVE  (Refers /\ rowsDrawn = RowsOf(repos))'
  BY DEF MenuInv
<1>1. ASSUME UNCHANGED <<menu, rowsDrawn, repos>>
      PROVE  (Refers /\ rowsDrawn = RowsOf(repos))'
  BY <1>1 DEF MenuInv, Refers, Held, HeldRow, MenuRepo, Free, RowsOf
<1>2. ASSUME NEW due \in BOOLEAN, NEW more \in NewRows, DrawFrame(due, more)
      PROVE  (Refers /\ rowsDrawn = RowsOf(repos))'
  <2>1. /\ repos' = repos \/ repos' = Applied(repos, work.results)
        /\ RowsRedrawn(more)
    BY <1>2 DEF DrawFrame
  <2>2. rowsDrawn' = RowsOf(repos') /\ menu # NoMenu
    BY <2>1 DEF RowsRedrawn, Free
  <2>3. \A i \in DOMAIN repos : IsRepo(repos[i])
    BY DEF RemovedInv, IsShown
  <2>4. PICK ts : ts = repos'
    OBVIOUS
  <2>5. /\ RowsOf(ts) = RowsOf(repos) /\ DOMAIN ts = DOMAIN repos
        /\ \A i \in DOMAIN repos : DOMAIN ts[i].trees = DOMAIN repos[i].trees
    BY <2>1, <2>3, <2>4, AppliedSameRows
  <2>6. /\ menu'.at = menu.at /\ menu'.row = menu.row /\ menu'.room = menu.room
        /\ menu'.told = menu.told /\ menu'.late = menu.late
        /\ menu'.freed => \/ menu.freed \/ more > 0
                          \/ ~(DOMAIN rowsDrawn' \subseteq menu.room)
        /\ menu.grown \/ more > 0 => menu'.grown
    BY <2>1, <2>2, RedrawnMenu
  <2>7. Refers /\ rowsDrawn = RowsOf(repos)
    BY <2>2, <2>6 DEF MenuInv, Free
  <2>8. rowsDrawn' = rowsDrawn /\ rowsDrawn' = RowsOf(repos')
    BY <2>2, <2>4, <2>5, <2>7
  <2>9. menu'.freed => menu'.grown
    BY <2>6, <2>7, <2>8 DEF Refers
  <2>10. Refers'
    BY <2>4, <2>5, <2>6, <2>7, <2>8, <2>9 DEF Refers, Held, HeldRow, MenuRepo
  <2> QED
    BY <2>8, <2>10
<1>3. ASSUME NEW k \in DOMAIN rowsDrawn, OpenMenu(k)
      PROVE  (Refers /\ rowsDrawn = RowsOf(repos))'
  <2>1. /\ menu' = [at |-> k, row |-> rowsDrawn[k], room |-> DOMAIN rowsDrawn,
                    grown |-> FALSE, freed |-> FALSE, told |-> FALSE,
                    late |-> rowsDrawn # RowsOf(repos)]
        /\ repos' = repos /\ rowsDrawn' = rowsDrawn
        /\ RowRepo(k) \in DOMAIN repos
        /\ rowsDrawn[k][2] \in {0} \cup DOMAIN repos[RowRepo(k)].trees
    BY <1>3 DEF OpenMenu
  <2>2. menu'.at = k /\ menu'.row = rowsDrawn[k] /\ menu'.room = DOMAIN rowsDrawn
    BY <2>1
  <2>3. ~menu'.freed /\ ~menu'.told /\ rowsDrawn = RowsOf(repos)
    BY <2>1, Zenon
  <2>4. Refers'
    BY <2>1, <2>2, <2>3 DEF Refers, Held, HeldRow, MenuRepo, RowRepo
  <2> QED
    BY <2>1, <2>3, <2>4
<1>4. ASSUME menu' = NoMenu PROVE FALSE
  BY <1>4 DEF Free
<1>5. ASSUME Free, UNCHANGED menu PROVE FALSE
  BY <1>5 DEF Free
<1>6. CASE Rescan
  <2>1. menu' = menu \/ menu' = [menu EXCEPT !.told = TRUE]
    BY <1>6 DEF Rescan
  <2> QED
    BY <1>5, <1>6 DEF Rescan
<1>7. ASSUME \/ ReachRoot \/ WorkerEnds \/ \E t \in DOMAIN disk : Edit(t)
             \/ \E ok \in BOOLEAN : WorkerReads(ok)
             \/ UNCHANGED workspaceVars
      PROVE  UNCHANGED <<menu, rowsDrawn, repos>>
  BY <1>7 DEF ReachRoot, WorkerEnds, Edit, WorkerReads, workspaceVars
<1>8. ASSUME \/ MenuCancel \/ MenuRefresh \/ RestartWorkspace
             \/ \E ok \in BOOLEAN :
                  \/ MenuReload(ok) \/ MenuNewWorktree(ok) \/ MenuRemoveWorktree(ok)
                  \/ MenuRemove(ok) \/ MenuPin(ok)
      PROVE  menu' = NoMenu
  BY <1>8 DEF MenuCancel, MenuRefresh, RestartWorkspace, MenuReload, MenuNewWorktree,
              MenuRemoveWorktree, MenuRemove, MenuPin, ChangeTrees
<1>9. ASSUME \E ok \in BOOLEAN :
                \/ \E k \in DOMAIN rowsDrawn : ClickHeader(k, ok)
                \/ RestoreProjects(Paths, ok)
                \/ \E p \in Paths : AddFolder(p, ok)
       PROVE  Free /\ UNCHANGED menu
  BY <1>9 DEF ClickHeader, RestoreProjects, AddFolder
<1> QED
  BY <1>1, <1>2, <1>3, <1>4, <1>5, <1>6, <1>7, <1>8, <1>9 DEF WorkspaceNext

\* Frames drawn while a menu is open leave alone what its handler refers to
\* (WindowMouse.cpp:307, 328-334, 515), for any projects and worktrees; only other
\* rows that come meanwhile may free the row.
THEOREM MenuKeepsItsRow == WorkspaceSpec => []MenuRefersToShown
<1>1. WorkspaceInit => HasFields /\ MenuInv
  BY DEF WorkspaceInit, HasFields, MenuInv, Free
<1>2. MenuInv => MenuRefersToShown
  BY DEF MenuInv, MenuRefersToShown, Refers
<1> QED
  BY <1>1, <1>2, RemovedInit, RemovedNext, FieldsNext, MenuNext, PTL DEF WorkspaceSpec

-----------------------------------------------------------------------------
(* The renderer.                                                           *)

-----------------------------------------------------------------------------
(* The device and what is bound to it.  The kinds of resources are made     *)
(* anew from one device, or left at none: SameDevice is inductive as soon as *)
(* made has its type.                                                        *)

DevicesOk ==
  /\ gen \in Nat /\ made \in [Bound -> Nat]
  /\ SameDevice

\* One map of resources, all bound to its own device.
OneDevice(m) == m \in [Bound -> Nat] /\ \A r \in Bound : m[r] \in {0, m["device"]}

\* What each rebuilding step makes of such a map.
LEMMA StepsKeepDevice ==
  ASSUME NEW m, OneDevice(m)
  PROVE  /\ OneDevice(SwapChainOf(m))
         /\ OneDevice(BindTarget(m))
         /\ OneDevice(BindTarget(SwapChainOf(m)))
         /\ OneDevice(BindNoBrush(SwapChainOf(m)))
         /\ OneDevice(EnsureGlyphShader(m))
         /\ OneDevice(EnsureAtlas(m))
         /\ OneDevice([m EXCEPT !["target"] = 0])
         /\ OneDevice([m EXCEPT !["atlas"] = 0])
         /\ OneDevice([m EXCEPT !["image"] = m["device"]])
<1>1. ASSUME NEW k, OneDevice(k) PROVE OneDevice(SwapChainOf(k))
  BY <1>1 DEF OneDevice, SwapChainOf, Bound
<1>2. ASSUME NEW k, OneDevice(k)
      PROVE  OneDevice(BindTarget(k)) /\ OneDevice(BindNoBrush(k))
  BY <1>2 DEF OneDevice, BindTarget, BindNoBrush, Bound
<1>3. ASSUME NEW k, OneDevice(k) PROVE OneDevice(EnsureGlyphShader(k))
  BY <1>3 DEF OneDevice, EnsureGlyphShader, Bound
<1>4. OneDevice([m EXCEPT !["atlas"] = m["device"]])
  BY DEF OneDevice, Bound
<1>5. OneDevice(EnsureAtlas(m))
  BY <1>3, <1>4 DEF EnsureAtlas
<1>6. /\ OneDevice([m EXCEPT !["target"] = 0])
      /\ OneDevice([m EXCEPT !["atlas"] = 0])
      /\ OneDevice([m EXCEPT !["image"] = m["device"]])
  BY DEF OneDevice, Bound
<1> QED BY <1>1, <1>2, <1>3, <1>5, <1>6

\* A device that is new, alone and with a swap chain.
LEMMA NewDevice ==
  ASSUME NEW n \in Nat
  PROVE  OneDevice(Nothing) /\ OneDevice([Nothing EXCEPT !["device"] = n])
BY DEF OneDevice, Nothing, Bound

\* The invariant, said of the map.
LEMMA DevicesAre == DevicesOk <=> gen \in Nat /\ OneDevice(made)
BY DEF DevicesOk, SameDevice, OneDevice

\* At the start there is one device, and everything is bound to it or to none.
LEMMA DevicesInit == RendererInit => DevicesOk
BY DEF RendererInit, DevicesOk, SameDevice, Nothing, Bound

\* Every step, a reset or a failure of the device included, keeps to one device.
LEMMA DevicesStep == DevicesOk /\ [RendererNext]_rendererVars => DevicesOk'
<1> SUFFICES ASSUME DevicesOk, [RendererNext]_rendererVars
             PROVE  gen' \in Nat /\ OneDevice(made')
  BY DEF DevicesOk, SameDevice, OneDevice
<1>0. gen \in Nat /\ OneDevice(made)
  BY DevicesAre
<1>1. CASE RemoveDevice
  BY <1>0, <1>1 DEF RemoveDevice
<1>2. CASE BuildTextFormats
  BY <1>0, <1>2, StepsKeepDevice DEF BuildTextFormats
<1>3. ASSUME NEW positive \in BOOLEAN, Resize(positive)
      PROVE  gen' \in Nat /\ OneDevice(made')
  <2> DEFINE chain == SwapChainOf(made)
  <2>1. \/ made' = made
        \/ made' = BindTarget(chain)
        \/ made' = BindNoBrush(chain)
        \/ made' = chain
        \/ made' = [made EXCEPT !["target"] = 0]
    BY <1>3 DEF Resize
  <2> QED BY <1>0, <1>3, <2>1, StepsKeepDevice DEF Resize
<1>4. CASE BeginFrame
  <2>1. CASE lost
    <3> DEFINE fresher == [Nothing EXCEPT !["device"] = gen + 1]
    <3>1. /\ gen' \in {gen, gen + 1}
          /\ \/ made' = Nothing
             \/ made' = fresher
             \/ made' = SwapChainOf(fresher)
             \/ made' = BindTarget(SwapChainOf(fresher))
             \/ made' = BindNoBrush(SwapChainOf(fresher))
      BY <1>4, <2>1 DEF BeginFrame, Recreate
    <3>2. OneDevice(Nothing) /\ OneDevice(fresher)
      BY <1>0, NewDevice
    <3>3. /\ OneDevice(SwapChainOf(fresher))
          /\ OneDevice(BindTarget(SwapChainOf(fresher)))
          /\ OneDevice(BindNoBrush(SwapChainOf(fresher)))
      <4> HIDE DEF fresher
      <4> QED BY <3>2, StepsKeepDevice
    <3> QED BY <1>0, <3>1, <3>2, <3>3
  <2>2. CASE ~lost
    BY <1>0, <1>4, <2>2 DEF BeginFrame
  <2> QED BY <2>1, <2>2
<1>5. ASSUME NEW g \in Glyphs, DrawGlyph(g)
      PROVE  gen' \in Nat /\ OneDevice(made')
  <2>1. made' = made \/ made' = EnsureAtlas(made)
    BY <1>5 DEF DrawGlyph, AtlasSlot
  <2> QED BY <1>0, <1>5, <2>1, StepsKeepDevice DEF DrawGlyph
<1>6. CASE DrawImage
  BY <1>0, <1>6, StepsKeepDevice DEF DrawImage
<1>7. CASE EndFrame
  <2>1. made' = made \/ made' = EnsureGlyphShader(made)
    BY <1>7 DEF EndFrame, DrawBatch
  <2> QED BY <1>0, <1>7, <2>1, StepsKeepDevice DEF EndFrame
<1>8. CASE UNCHANGED rendererVars
  BY <1>0, <1>8 DEF rendererVars, deviceVars
<1> QED
  BY <1>1, <1>2, <1>3, <1>4, <1>5, <1>6, <1>7, <1>8 DEF RendererNext

\* Nothing made on a device outlives it (recreateDevice(), resize(),
\* ensureAtlas(), ensureGlyphShader(), drawImage()), however many devices are lost
\* and whichever of the calls fail.
THEOREM BoundToOneDevice == RendererSpec => []SameDevice
<1>1. DevicesOk => SameDevice
  BY DEF DevicesOk
<1> QED BY DevicesInit, DevicesStep, <1>1, PTL DEF RendererSpec

-----------------------------------------------------------------------------
(* The atlas and the batch.  Slots are filled in order and a filled slot is  *)
(* not filled again before the next reset, and resets come between frames;   *)
(* so a quad of the open frame lies below fill, and finds its glyph.         *)

AtlasOk ==
  /\ frame \in {"idle", "open", "skipped"}
  /\ cache \in [Glyphs -> 0..AtlasSlots]
  /\ held \in [1..AtlasSlots -> Glyphs \cup {NoGlyph}]
  /\ fill \in 0..AtlasSlots
  /\ batch \in SUBSET (Glyphs \X (1..AtlasSlots))

\* What the cache says is in the texture.
CacheTrue == \A g \in Glyphs : cache[g] # 0 => cache[g] <= fill /\ held[cache[g]] = g

BatchTrue ==
  frame = "open" => \A q \in batch : q[2] <= fill /\ held[q[2]] = q[1]

AtlasInv == AtlasOk /\ CacheTrue /\ BatchTrue

\* An atlas that has just been reset, whatever the batch, has nothing to lie about.
LEMMA AfterReset ==
  ASSUME AtlasOk, cache' = NoSlots, held' = Blank, fill' = 0
  PROVE  /\ cache' \in [Glyphs -> 0..AtlasSlots]
         /\ held' \in [1..AtlasSlots -> Glyphs \cup {NoGlyph}]
         /\ fill' \in 0..AtlasSlots
         /\ CacheTrue'
BY AtlasAssumption DEF AtlasOk, CacheTrue, NoSlots, Blank

\* A step that leaves the atlas alone, and opens or adds to no frame.
LEMMA AtlasUntouched ==
  ASSUME AtlasInv, UNCHANGED <<cache, held, fill, batch>>,
         frame' = frame \/ frame' = "idle"
  PROVE  AtlasInv'
BY DEF AtlasInv, AtlasOk, CacheTrue, BatchTrue

\* The atlas is empty at the start.
LEMMA AtlasInit == RendererInit => AtlasInv
BY AtlasAssumption
   DEF RendererInit, AtlasInv, AtlasOk, CacheTrue, BatchTrue, NoSlots, Blank

\* beginFrame(): the batch is emptied by a frame that opens; one that does not
\* draws to no target.
LEMMA BeginFrameKeepsAtlas == ASSUME AtlasInv, BeginFrame PROVE AtlasInv'
<1>1. /\ \/ cache' = NoSlots /\ held' = Blank /\ fill' = 0
         \/ UNCHANGED <<cache, held, fill>>
      /\ \/ frame' = "open" /\ batch' = {}
         \/ frame' = "skipped" /\ UNCHANGED batch
  BY DEF BeginFrame, Recreate, ResetAtlas, Opened, Skipped, atlasVars
<1>2. /\ cache' \in [Glyphs -> 0..AtlasSlots]
      /\ held' \in [1..AtlasSlots -> Glyphs \cup {NoGlyph}]
      /\ fill' \in 0..AtlasSlots
      /\ CacheTrue'
  BY <1>1, AfterReset DEF AtlasInv, AtlasOk, CacheTrue
<1> QED BY <1>1, <1>2 DEF AtlasInv, AtlasOk, BatchTrue

\* atlasSlot(): a glyph is put into the first free slot, which no quad uses.
LEMMA DrawGlyphKeepsAtlas ==
  ASSUME AtlasInv, NEW g \in Glyphs, DrawGlyph(g) PROVE AtlasInv'
<1>1. frame' = frame
  BY DEF DrawGlyph
<1>2. CASE UNCHANGED <<cache, held, fill, batch>>
  BY <1>1, <1>2, AtlasUntouched
<1>3. CASE /\ cache[g] # 0 /\ UNCHANGED <<cache, held, fill>>
           /\ batch' = batch \cup {<<g, cache[g]>>}
  BY <1>1, <1>3 DEF AtlasInv, AtlasOk, CacheTrue, BatchTrue
<1>4. CASE /\ fill < AtlasSlots /\ fill' = fill + 1
           /\ cache' = [cache EXCEPT ![g] = fill + 1]
           /\ held' = [held EXCEPT ![fill + 1] = g]
           /\ batch' = batch \cup {<<g, fill + 1>>}
  <2>1. fill + 1 \in 1..AtlasSlots
    BY <1>4, AtlasAssumption DEF AtlasInv, AtlasOk
  <2>2. AtlasOk'
    BY <1>1, <1>4, <2>1 DEF AtlasInv, AtlasOk
  <2>3. \A s \in 1..AtlasSlots : s <= fill => held'[s] = held[s]
    BY <1>4, <2>1 DEF AtlasInv, AtlasOk
  <2>4. held'[fill + 1] = g
    BY <1>4, <2>1 DEF AtlasInv, AtlasOk
  <2>5. CacheTrue'
    <3> SUFFICES ASSUME NEW h \in Glyphs, cache'[h] # 0
                 PROVE  cache'[h] <= fill' /\ held'[cache'[h]] = h
      BY DEF CacheTrue
    <3>1. CASE h = g
      BY <1>4, <2>1, <2>4, <3>1 DEF AtlasInv, AtlasOk
    <3>2. CASE h # g
      <4>1. cache'[h] = cache[h] /\ cache[h] \in 1..AtlasSlots
        BY <1>4, <3>2 DEF AtlasInv, AtlasOk
      <4>2. cache[h] <= fill /\ held[cache[h]] = h
        BY <4>1 DEF AtlasInv, CacheTrue
      <4> QED BY <1>4, <2>3, <4>1, <4>2 DEF AtlasInv, AtlasOk
    <3> QED BY <3>1, <3>2
  <2>6. BatchTrue'
    <3> SUFFICES ASSUME frame' = "open", NEW q \in batch'
                 PROVE  q[2] <= fill' /\ held'[q[2]] = q[1]
      BY DEF BatchTrue
    <3>1. CASE q = <<g, fill + 1>>
      BY <1>4, <2>1, <2>4, <3>1
    <3>2. CASE q \in batch
      <4>1. q[2] \in 1..AtlasSlots /\ q[2] <= fill /\ held[q[2]] = q[1]
        BY <1>1, <3>2 DEF AtlasInv, AtlasOk, BatchTrue
      <4> QED BY <1>4, <2>3, <4>1 DEF AtlasInv, AtlasOk
    <3> QED BY <1>4, <3>1, <3>2
  <2> QED BY <2>2, <2>5, <2>6 DEF AtlasInv
<1> QED
  BY <1>2, <1>3, <1>4 DEF DrawGlyph, AtlasSlot, atlasVars

\* Every step keeps the cache, the slots and the batch in agreement.
LEMMA AtlasStep == AtlasInv /\ [RendererNext]_rendererVars => AtlasInv'
<1> SUFFICES ASSUME AtlasInv, [RendererNext]_rendererVars PROVE AtlasInv'
  OBVIOUS
<1>1. CASE BuildTextFormats
  BY <1>1, AfterReset
     DEF BuildTextFormats, frameVars, AtlasInv, AtlasOk, BatchTrue
<1>2. CASE RemoveDevice \/ DrawImage
  BY <1>2, AtlasUntouched DEF RemoveDevice, DrawImage, atlasVars, frameVars
<1>3. ASSUME NEW positive \in BOOLEAN, Resize(positive) PROVE AtlasInv'
  BY <1>3, AtlasUntouched DEF Resize, atlasVars, frameVars
<1>4. CASE BeginFrame
  BY <1>4, BeginFrameKeepsAtlas
<1>5. ASSUME NEW g \in Glyphs, DrawGlyph(g) PROVE AtlasInv'
  BY <1>5, DrawGlyphKeepsAtlas
<1>6. CASE EndFrame
  BY <1>6, AtlasUntouched DEF EndFrame
<1>7. CASE UNCHANGED rendererVars
  BY <1>7, AtlasUntouched DEF rendererVars, atlasVars, frameVars
<1> QED BY <1>1, <1>2, <1>3, <1>4, <1>5, <1>6, <1>7 DEF RendererNext

\* The quads that drawGlyphBatch() draws at the end of a frame still find their
\* glyphs in the atlas, for any glyphs and atlas, any fonts and any faults.
THEOREM BatchStaysTrue == RendererSpec => []BatchSamplesItsGlyphs
<1>1. AtlasInv => BatchSamplesItsGlyphs
  BY DEF AtlasInv, BatchTrue, BatchSamplesItsGlyphs
<1> QED BY AtlasInit, AtlasStep, <1>1, PTL DEF RendererSpec

-----------------------------------------------------------------------------
\* What is left of the type invariant: the flags, and the count of faults.
Flags ==
  /\ context \in BOOLEAN /\ gone \in BOOLEAN /\ lost \in BOOLEAN
  /\ sized \in BOOLEAN /\ fresh \in BOOLEAN /\ crashed \in BOOLEAN
  /\ broken \in BOOLEAN /\ needsReset \in BOOLEAN

\* The flags are Booleans after every step.
LEMMA FlagsStep == Flags /\ [RendererNext]_rendererVars => Flags'
<1> SUFFICES ASSUME Flags, [RendererNext]_rendererVars PROVE Flags'
  OBVIOUS
<1> USE DEF Flags, deviceVars, atlasVars, frameVars
<1>1. CASE RemoveDevice
  BY <1>1 DEF RemoveDevice
<1>2. CASE BuildTextFormats \/ DrawImage
  BY <1>2 DEF BuildTextFormats, DrawImage
<1>3. ASSUME NEW positive \in BOOLEAN, Resize(positive) PROVE Flags'
  BY <1>3 DEF Resize
<1>4. CASE BeginFrame
  <2>1. CASE lost
    BY <1>4, <2>1, Zenon DEF BeginFrame, Recreate
  <2>2. CASE ~lost
    BY <1>4, <2>2, Zenon DEF BeginFrame, ResetAtlas
  <2> QED BY <2>1, <2>2
<1>5. ASSUME NEW g \in Glyphs, DrawGlyph(g) PROVE Flags'
  <2>1. /\ UNCHANGED <<context, gone, lost, sized, fresh, crashed>>
        /\ broken' \in {broken, TRUE} /\ needsReset' \in {needsReset, TRUE}
    BY <1>5, Zenon DEF DrawGlyph, AtlasSlot
  <2> QED BY <2>1, Zenon
<1>6. CASE EndFrame
  BY <1>6, Zenon DEF EndFrame
<1>7. CASE UNCHANGED rendererVars
  BY <1>7 DEF rendererVars
<1> QED BY <1>1, <1>2, <1>3, <1>4, <1>5, <1>6, <1>7 DEF RendererNext

FaultsCounted == faults \in Nat

\* Every step counts the faults.
LEMMA FaultsStep == FaultsCounted /\ [RendererNext]_rendererVars => FaultsCounted'
<1> SUFFICES ASSUME FaultsCounted, [RendererNext]_rendererVars PROVE FaultsCounted'
  OBVIOUS
<1>1. faults' = faults \/ faults' = faults + 1
  BY Zenon
     DEF RendererNext, RemoveDevice, BuildTextFormats, DrawImage, Resize, BeginFrame,
         Recreate, ResetAtlas, DrawGlyph, AtlasSlot, EndFrame, Succeeds, Fails,
         atlasVars, rendererVars
<1> QED BY <1>1 DEF FaultsCounted

\* Every variable of the renderer keeps its type: in particular a slot given to a
\* glyph lies inside the atlas.
THEOREM RendererTypes == RendererSpec => []RendererTypeOK
<1>1. RendererInit => Flags
  BY Zenon DEF RendererInit, Flags
<1>2. RendererInit => FaultsCounted
  BY DEF RendererInit, FaultsCounted
<1>3. DevicesOk /\ AtlasInv /\ Flags /\ FaultsCounted => RendererTypeOK
  BY DEF DevicesOk, AtlasInv, AtlasOk, Flags, FaultsCounted, RendererTypeOK
<1> QED
  BY DevicesInit, DevicesStep, AtlasInit, AtlasStep, <1>1, FlagsStep, <1>2,
     FaultsStep, <1>3, PTL
     DEF RendererSpec

=============================================================================
