SPECIFICATION FairSpec
CONSTANTS
  c1 = c1
  r1 = r1
  r2 = r2
  DPSize = 2
  Clients = {c1}
  Controller = c1
  Requests = {r1, r2}
  Steps <- MCSteps
  SyncInterval = 2
  PauseModes = {"abort", "wait", "keep"}
  MaxCalls = 1
  ResumeRaces = FALSE
  AbortsQueued = FALSE
  LateFirstReq = FALSE
CHECK_DEADLOCK FALSE
INVARIANTS CollectivesMatch WavesAgree PauseHolds
 
