CONSTANTS
  Keys <- Editing
  Earlier = 1
  QueueCap = 3
  BlockCap = 2
  InputCap = 2
  MaxPrompts = 3
  MaxKeys = 3
SPECIFICATION MCSpec
INVARIANTS
  OnlyLastRuns
  BlocksAgree
  LineFollowed
PROPERTIES
  StatusSettles
CHECK_DEADLOCK FALSE
