CONSTANTS
  Node = {n1, n2, n3, n4, n5, n6, n7, n8}
  Session = {s1, s2, s3, s4}
  Null = Null
  MaxRows = 4
  Height = 2
  PerRow = 1
  Writes <- MCWrites
  MaxStream = 8
  MaxPayload = 2
  MaxImage = 3
  MaxQueued = 1
  Shell = {a, b, c}
  File = {layout}
  MaxTabs = 3
  MaxChanges = 5
SPECIFICATION MCSpec
INVARIANTS
  PanesSound
  KeysActOnce
  EventsWherePrinted
PROPERTIES
  KillsOnlyItsTarget
  ImplementsRing
  StepsToNextRow
  LayoutReturns
  OnlyDragUngroups
VIEW View
CHECK_DEADLOCK FALSE
