SPECIFICATION Spec
CONSTANTS
  Piece = {1, 2}
  QueueCap = 1
  Lightspeed = FALSE
  Faults = {"shutdown"}
  MaxStarts = 2
CHECK_DEADLOCK FALSE
INVARIANTS
  InterruptedIsResumed
