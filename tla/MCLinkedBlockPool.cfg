SPECIFICATION Spec
CONSTANTS
  b1 = b1
  b2 = b2
  b3 = b3
  kA = kA
  kB = kB
  kC = kC
  Blocks = {b1, b2, b3}
  Keys = {kA, kB, kC}
  NullBlock = NullBlock
  NoHash = NoHash
  EnableCaching = TRUE
  HashTokens <- MCHashTokens
  Head_ = Head_
  Tail_ = Tail_
  Nil = Nil
  MaxRef = 2
  MaxList = 2
SYMMETRY BlockSymmetry
INVARIANTS LinksAgree CallsAgree PrimaryCoversMost
PROPERTIES LookupIsStable 
