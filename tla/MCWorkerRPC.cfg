SPECIFICATION FairSpec
CONSTANTS
  NumWorkers = 2
  MaxChunks = 1
  Kinds <- MCKinds
  All = All
  MaxCalls = 3
  MaxFutures = 2
  MaxFailures = 1
  MaxDeaths = 1
INVARIANTS RepliesKeepPace
 
CHECK_DEADLOCK FALSE
