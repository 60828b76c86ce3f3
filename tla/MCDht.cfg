SPECIFICATION FairSpec
CONSTANTS
  Bits = 3
  Id <- MCId
  Nobody = Nobody
  Own <- MCOwn
  Me = "me"
  Host <- MCHost
  Names <- MCNames
  Knows <- MCKnows
  Boot = {"c"}
  Gets = {"get"}
  Finds = {"boot", "refresh"}
  Starter = "boot"
  InfoHash <- MCInfoHash
  K = 1
  ALPHA = 2
  Rounds <- MCRounds
  BadAfter = 2
  Failures = 256
  Txns = 2
  Enough = 2
  MaxStarts = 3
INVARIANTS TypeOK BucketsWellFormed QueryIsHeard
PROPERTIES OnlyBadGiveWay NeverAskedAgain EveryLookupEnds
CHECK_DEADLOCK FALSE
