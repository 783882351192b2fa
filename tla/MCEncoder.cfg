SPECIFICATION FairManagers
CONSTANTS
  r1 = r1
  r2 = r2
  r3 = r3
  hA = hA
  hB = hB
  hC = hC
  Requests = {r1, r2, r3}
  mm_features <- MCFeatures
  cache_size = 2
  num_prompt_tokens <- MCPrompt
  max_tokens <- MCMaxTokens
  max_num_scheduled_tokens = 4
  long_prefill_token_threshold = 3
  max_num_encoder_input_tokens = 2
  AsyncScheduling = TRUE
  PriorityPolicy = FALSE
  priority <- MCPriority
  RemoteItems = {hC}
  HitLengths = {0, 1, 4}
  batch_queue_size = 2
  ed_Requests = {r1, r2}
  ed_num_embeds <- MCEmbeds
  MaxSteps = 3
  MaxFreeSlots = 7
  Configurations <- MCConfigurations
INVARIANTS SlotsMatchEntries NoEncoderCacheMiss WorkersHoldTheEntries OutputsLiveOneStep
PROPERTIES EveryRequestFinishes
CHECK_DEADLOCK FALSE
