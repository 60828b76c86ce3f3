SPECIFICATION FairSpec
CONSTANTS
  Media = {m1}
  Title <- MCSameTitle
  Concurrency = 2
  MaxJobs = 2
  MaxRequests = 2
  MaxCrashes = 1
CHECK_DEADLOCK FALSE
INVARIANTS
  TypeOK
  TranscodingHasAJob
  TokensAreLive
  OnlyExposedLoseTheirFile
PROPERTIES
  EveryJobEnds
