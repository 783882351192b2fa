SPECIFICATION Spec
CONSTANTS
  r1 = r1
  r2 = r2
  r3 = r3
  SharedBlocks = 0
  Prompt1 = 1
  Prompt2 = 4
  Prompt3 = 1
  Output1 = 3
  Output2 = 1
  Output3 = 4
  Requests = {r1, r2, r3}
  Blocks = {b1, b2, b3, b4, b5, b6}
  Keys <- MCKeys
  NullBlock = NullBlock
  NoHash = NoHash
  BlockSize = 1
  MaxTokens = 6
  EnableCaching = TRUE
  BlockHashes <- MCBlockHashes
  HashTokens <- MCHashTokens
  PromptLen <- MCPromptLen
  MaxOutput <- MCMaxOutput
  Async = FALSE
  LongPrefillThreshold = 0
  Policy = "priority"
  Priority <- MCPriority
  MaxScheduledTokens = 3
  MaxRunning = 3
  ReserveFullISL = FALSE
  Watermark = 1
  Configurations <- PlainConfigurations
INVARIANTS QueuesMatchStatus WithinLimits
