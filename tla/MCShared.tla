------------------------------ MODULE MCShared -----------------------------
(* What several processes share: the files of Recovery, with three process  *)
(* ids and three starts, the file of ConfigStore, with two windows, and the *)
(* objects of Accessibility.  `part` says which one a behaviour is of; the  *)
(* others stay as they were at the start, so the states to check add up and *)
(* do not multiply.                                                         *)
EXTENDS Recovery, ConfigStore, Accessibility

CONSTANTS p1, p2, p3
ThreePids == {p1, p2, p3}
Symmetry == Permutations(ThreePids)

VARIABLE part

mcVars == <<part, vars, configVars, accVars>>

MCScreens == {<<" ", "\n">>, <<"a">>}
MCNeedles == {<<"\n">>}
MCChromes == {[tabs |-> 1, split |-> TRUE, toast |-> FALSE],
              [tabs |-> 2, split |-> FALSE, toast |-> TRUE]}

MCInit ==
  /\ part \in {"recovery", "config", "uia"} /\ Init /\ ConfigInit /\ AccInit
  /\ part # "config" => file = Bad("none")

InRecovery == part = "recovery" /\ UNCHANGED <<part, configVars, accVars>>
InConfig   == part = "config" /\ UNCHANGED <<part, vars, accVars>>
InUia      == part = "uia" /\ UNCHANGED <<part, vars, configVars>>

MCNext ==
  \/ \E p \in Pids : \/ InRecovery /\ Start(p)
                     \/ InRecovery /\ ScanMarker(p)
                     \/ InRecovery /\ MarkRun(p)
                     \/ InRecovery /\ Create(p)
                     \/ InRecovery /\ CreateFails(p)
                     \/ InRecovery /\ AnswerYes(p)
                     \/ InRecovery /\ AnswerNo(p)
                     \/ InRecovery /\ OpenTabs(p)
                     \/ InRecovery /\ RecoveryTimer(p)
                     \/ InRecovery /\ Close(p)
                     \/ InRecovery /\ Exit(p)
                     \/ InRecovery /\ Crash(p)
  \/ InRecovery /\ Damage

  \/ InConfig /\ HandEdit
  \/ \E w \in Window : \/ InConfig /\ LoadRead(w)
                       \/ InConfig /\ SetAside(w)
                       \/ InConfig /\ UpdateRead(w)
                       \/ InConfig /\ Backup(w)
                       \/ InConfig /\ OpenTmp(w)
                       \/ InConfig /\ WriteTmp(w)
                       \/ InConfig /\ Rename(w)
                       \/ InConfig /\ EndProcess(w)

  \/ InUia /\ Publish
  \/ InUia /\ TakeInvoke
  \/ InUia /\ GetRoot
  \/ InUia /\ WindowGone
  \/ InUia /\ ReleaseRoot
  \/ \E s \in Slot : \/ InUia /\ AddRef(s)
                     \/ InUia /\ Release(s)
                     \/ InUia /\ ToRoot(s)
                     \/ InUia /\ FirstOrLast(s)
                     \/ InUia /\ Invoke(s)
                     \/ InUia /\ DocumentRange(s)
                     \/ InUia /\ ExpandToEnclosingUnit(s)
                     \/ InUia /\ MoveByUnit(s)
                     \/ InUia /\ MoveEndpointByUnit(s)
  \/ \E s, t \in Slot : \/ InUia /\ Neighbour(s, t)
                        \/ InUia /\ Clone(s, t)
                        \/ InUia /\ FindText(s, t)
                        \/ InUia /\ MoveEndpointByRange(s, t)

MCSpec == MCInit /\ [][MCNext]_mcVars
=============================================================================
