SPECIFICATION FairSpec
CONSTANTS
  Peer = {p1, p2}
  Piece = {1}
  PieceBlocks = 2
  NumBlocks <- MCNumBlocks
  Depth = 1
  Announced <- MCAnnounced
  Corrupt = {p1}
  Congested = {}
  Responsive = {p1, p2}
  MaxSurprises = 1
CHECK_DEADLOCK FALSE
PROPERTIES
  Completes
