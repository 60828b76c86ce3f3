SPECIFICATION FairSpec
CONSTANTS
  Peer = {p1, p2}
  Piece = {1, 2}
  PieceBlocks = 2
  NumBlocks <- MCNumBlocks
  Depth = 2
  Announced <- MCAnnounced
  Corrupt = {}
  Congested = {p1}
  Responsive = {p2}
  MaxSurprises = 1
CHECK_DEADLOCK FALSE
PROPERTIES
  Completes
