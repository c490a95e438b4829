SPECIFICATION FairSpec
CONSTANTS
  Requests <- Stores
  Offsets = {0, 1, 2, 3}
  Lengths = {2, 4, 6, 12, 16, 20, 27, 36}
  dataByte = 4
  maxLgSizeTL = 4
  lgMaxDataLen = 6
  nReqInflight = 2
  TLBMayMiss = TRUE
  MaxUnacked = 1
INVARIANT PacketIsLeast
INVARIANT WordsInStep
PROPERTY ImplementsStoreService
PROPERTY EveryStoreAnswered
