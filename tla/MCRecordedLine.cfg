CONSTANTS
  Keys <- LettersOnly
  Earlier = 0
  QueueCap = 8
  BlockCap = 2
  InputCap = 2
  MaxPrompts = 2
  MaxKeys = 3
SPECIFICATION Spec
INVARIANTS
  RecordedIsAccepted
CHECK_DEADLOCK FALSE
