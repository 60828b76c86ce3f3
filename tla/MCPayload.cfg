SPECIFICATION PayloadSpec
CONSTANTS
  NumBlocks = 3
  BLOCK_SIZE = 2
  PieceLength = 6
  MaxStarts = 2
  Index <- MCIndex
  Layouts <- MCLayouts
  BadBlocks <- MCBadBlocks
INVARIANTS
  CursorPassesNothingFree
  DoneIsOnDisk
PROPERTIES
  ImplementsTracker
  KeepsBytes
  AdoptsTheIntact
  OnlyWrongBlocksFail
CHECK_DEADLOCK FALSE
