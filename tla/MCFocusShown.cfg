CONSTANTS
  Node = {n1, n2, n3, n4}
  Session = {s1, s2, s3}
  Null = Null
  MaxTabs = 3
SPECIFICATION Spec
PROPERTY FocusShown
VIEW View
CHECK_DEADLOCK FALSE
