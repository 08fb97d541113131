CONSTANTS
  MaxOut = 2
  MaxIn = 3
  PipeRoom = 1
SPECIFICATION Spec
PROPERTY StopEnds
CHECK_DEADLOCK FALSE
