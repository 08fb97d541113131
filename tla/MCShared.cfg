CONSTANTS
  p1 = p1
  p2 = p2
  p3 = p3
  Pids <- ThreePids
  NoPid = NoPid
  MaxStarts = 3
  MaxBad = 2
  Window = {w1, w2}
  Key = {"fontSize", "projects"}
  MaxChanges = 2
  MaxTrouble = 1
  Slot = {o1, o2}
  Screens <- MCScreens
  Needles <- MCNeedles
  Chromes <- MCChromes
  MaxRefs = 1
SYMMETRY Symmetry
SPECIFICATION MCSpec
INVARIANTS
  LiveNotOffered
  NeverTorn
  ClientsServed
PROPERTIES
  ForgottenOnlyBy
  DeletedOnlyResolved
  GoodLayoutSurvives
  BrokenKept
  KeysKept
CHECK_DEADLOCK FALSE
