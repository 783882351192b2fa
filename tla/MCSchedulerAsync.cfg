SPECIFICATION Spec
CONSTANTS
  r1 = r1
  r2 = r2
  r3 = r3
  SharedBlocks = 1
  Prompt1 = 3
  Prompt2 = 3
  Prompt3 = 2
  Output1 = 2
  Output2 = 3
  Output3 = 2
  Requests = {r1, r2}
  Blocks = {b1, b2, b3}
  Keys <- MCKeys
  NullBlock = NullBlock
  NoHash = NoHash
  BlockSize = 2
  MaxTokens = 6
  EnableCaching = TRUE
  BlockHashes <- MCBlockHashes
  HashTokens <- MCHashTokens
  PromptLen <- MCPromptLen
  MaxOutput <- MCMaxOutput
  Async = TRUE
  LongPrefillThreshold = 0
  Policy = "fcfs"
  Priority <- MCPriority
  MaxScheduledTokens = 3
  MaxRunning = 2
  ReserveFullISL = TRUE
  Watermark = 0
  Configurations <- AsyncConfigurations
INVARIANTS QueuesMatchStatus InFlightCounters TokensInOrder CachedIsComputed BlocksFollowStatus LoadsAreExclusive 
PROPERTIES  TablesSpec NoTokenFromFailedLoads
