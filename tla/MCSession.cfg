SPECIFICATION Spec
CONSTANTS
  Peer = {p1, p2}
  Piece = {1, 2}
  PieceBlocks = 2
  NumBlocks <- MCNumBlocks
  Depth = 2
  Announced <- MCAnnounced
  Corrupt = {p1, p2}
  Congested = {}
  Responsive = {}
  MaxSurprises = 1
SYMMETRY Symmetry
CHECK_DEADLOCK FALSE
INVARIANTS
  PickerAgrees
  AssignedIsAwaited
  AwaitedOnce
  EndgameWhenHandedOut
  NoIdlePeer
