SPECIFICATION MCSpec
CONSTANTS
  Piece = {1, 2}
  QueueCap = 1
  Lightspeed = TRUE
  Faults = {"write error", "power loss", "shutdown", "removal"}
  MaxStarts = 2
CHECK_DEADLOCK FALSE
INVARIANTS
  TypeOK
  VerifiedIsAccountedFor
  OnlyOutsideStopDrops
  CompletionSticks
  RowIsTrue
PROPERTIES
  OnlyForwarderResurrects
  CancelledSessionEnds
