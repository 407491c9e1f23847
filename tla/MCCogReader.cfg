CONSTANTS
  Openers = {fetch, scout}
  Reader = fetch
  HeaderRange = 16
  Align = 4
  Block = 16
  MergeGap = 3
  MaxGroupBytes = 30
  Lanes = 2
  Strides <- MCStrides
  Files <- MCFiles
  Grids <- MCGrids
  Faulty <- MCFaulty
  Racing <- MCRacing
  Permits = 2
  MaxAttempts = 5
  BaseDelay = 200
  Reads = 2
  MaxGroups = 4
SPECIFICATION Spec
INVARIANTS
  CoverableIsRead
  ReadIsImage
  RetriesBounded
PROPERTY ReadEnds
CHECK_DEADLOCK FALSE
