SPECIFICATION Spec
CONSTANTS
  r1 = r1
  r2 = r2
  b1 = b1
  b2 = b2
  b3 = b3
  b4 = b4
  kA = kA
  kB = kB
  kC = kC
  kD = kD
  kE = kE
  Requests = {r1, r2}
  Blocks = {b1, b2, b3, b4}
  Keys = {kA, kB, kC, kD, kE}
  NullBlock = NullBlock
  NoHash = NoHash
  BlockSize = 2
  MaxTokens = 6
  EnableCaching = TRUE
  BlockHashes <- MCBlockHashes
  HashTokens <- MCHashTokens
CONSTRAINT PoppedBound
SYMMETRY BlockSymmetry
INVARIANTS RefCntIsHolders PoolConsistent TableMatchesHashes PrefixClosed UncachedFirst
 
