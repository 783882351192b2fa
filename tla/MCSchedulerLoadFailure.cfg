SPECIFICATION Spec
CONSTANTS
  r1 = r1
  r2 = r2
  r3 = r3
  SharedBlocks = 1
  Prompt1 = 5
  Prompt2 = 5
  Prompt3 = 2
  Output1 = 1
  Output2 = 1
  Output3 = 2
  Requests = {r1, r2}
  Blocks = {b1, b2, b3, b4, b5, b6}
  Keys <- MCKeys
  NullBlock = NullBlock
  NoHash = NoHash
  BlockSize = 2
  MaxTokens = 6
  EnableCaching = TRUE
  BlockHashes <- MCBlockHashes
  HashTokens <- MCHashTokens
  PromptLen <- MCPromptLen
  MaxOutput <- MCMaxOutput
  Async = FALSE
  LongPrefillThreshold = 0
  Policy = "fcfs"
  Priority <- MCPriority
  MaxScheduledTokens = 6
  MaxRunning = 2
  ReserveFullISL = TRUE
  Watermark = 0
  Configurations <- SharedFailure
INVARIANTS CachedIsComputed
