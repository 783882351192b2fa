SPECIFICATION Spec
CONSTANTS
  r1 = r1
  r2 = r2
  r3 = r3
  SharedBlocks = 1
  Prompt1 = 1
  Prompt2 = 6
  Prompt3 = 2
  Output1 = 2
  Output2 = 3
  Output3 = 2
  Requests = {r1, r2}
  Blocks = {b1, b2, b3, b4, b5, b6, b7}
  Keys <- MCKeys
  NullBlock = NullBlock
  NoHash = NoHash
  BlockSize = 1
  MaxTokens = 8
  EnableCaching = TRUE
  BlockHashes <- MCBlockHashes
  HashTokens <- MCHashTokens
  PromptLen <- MCPromptLen
  MaxOutput <- MCMaxOutput
  Async = FALSE
  LongPrefillThreshold = 2
  Policy = "priority"
  Priority <- MCPriority
  MaxScheduledTokens = 3
  MaxRunning = 2
  ReserveFullISL = TRUE
  Watermark = 0
  Configurations <- PlainConfigurations
INVARIANTS CachedIsComputed
