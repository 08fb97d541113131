CONSTANTS
  MaxOut = 2
  MaxIn = 3
  PipeRoom = 1
  Root = {1}
  Folder = {}
  MaxTrees = 2
  MaxEdits = 1
  MaxTrouble = 1
  MaxMore = 1
  Glyphs = {a, b}
  AtlasSlots = 1
  MaxFaults = 3
  NoGlyph = NoGlyph
SPECIFICATION MCSpec
INVARIANTS
  BytesIntact
  ThreadsBeforeHandles
  RemovedStays
  MenuRefersToShown
  SameDevice
  BatchSamplesItsGlyphs
PROPERTIES
  BytesMove
  StopEndsUnlessMissed
  StatusCatchesUp
  FramesReachScreen
CHECK_DEADLOCK FALSE
