SPECIFICATION Spec
CONSTANTS
  Media = {m1}
  Title <- MCSameTitle
  Concurrency = 1
  MaxJobs = 1
  MaxRequests = 3
  MaxCrashes = 0
CHECK_DEADLOCK FALSE
PROPERTIES
  CleanupNeedsAVersion
