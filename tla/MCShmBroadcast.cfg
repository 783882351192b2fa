SPECIFICATION FairSpec
CONSTANTS
  NumLocal = 2
  Remote = {far}
  MaxChunks = 2
  MaxMessages = 3
  Torn = Torn
  Timed = {2}
  RecvTimeouts = FALSE
INVARIANTS ReadersUndisturbed
PROPERTIES ImplementsLog EveryMessageRead ShutdownEnds
CHECK_DEADLOCK FALSE
