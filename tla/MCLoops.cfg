CONSTANTS
  Pane = {p1, p2}
  MaxWrites = 2
  MaxInputs = 1
  Session = {s1, s2}
  Dir = {d1, d2}
  MaxBoxes = 2
  MaxRequests = 2
  MaxTold = 1
SPECIFICATION MCSpec
INVARIANTS
  StaleIsCovered
  WakesSound
  
PROPERTIES
  OutputShown
  QuitIsHeard
CHECK_DEADLOCK FALSE
