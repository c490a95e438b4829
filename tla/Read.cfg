SPECIFICATION BothSpec
CONSTANTS
  Requests <- CutReads
  dataByte = 2
  maxLgSizeTL = 3
  nReqInflight = 2
  MaxMisses = 1
  Stalls = {"bus", "consumer"}
  BitsHeld = TRUE
INVARIANT InOrder
INVARIANT BothPacketHasRoom
INVARIANT IdIsFree
PROPERTY KeepsServing
