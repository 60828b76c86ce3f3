SPECIFICATION FairSpec
CONSTANTS
  Peer = {p1, p2}
  TrueSize = 2
  MaxSize = 3
  Liar = {p2}
  Congested = {p1}
CHECK_DEADLOCK FALSE
INVARIANTS
  AssignedIsAwaited
  NoPieceIsOverlooked
  ResolvingIsAlive
  RemovedStaysRemoved
PROPERTIES
  EndsUnlessHindered
