CONSTANTS
  p1 = p1
  p2 = p2
  p3 = p3
  Pids <- ThreePids
  NoPid = NoPid
  MaxStarts = 3
  MaxBad = 1
SYMMETRY Symmetry
SPECIFICATION Spec
PROPERTIES
  KeptIsFound
CHECK_DEADLOCK FALSE
