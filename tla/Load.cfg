SPECIFICATION FairSpec
CONSTANTS
  Programs <- LoadPrograms
  Lengths = {2, 4, 7, 12}
  dataByte = 4
  lgMaxDataLen = 6
  spadAddrNum = 2
  reqQueDepth = 2
  nBanks = 6
  sizeBank = 20
  TLBMayMiss = TRUE
INVARIANT AnswersInOrder
INVARIANT LoadedWhenAnswered
INVARIANT OnlyLoads
PROPERTY Progress
