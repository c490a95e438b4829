SPECIFICATION FairSpec
CONSTANTS
  WordBits = 8
  AddrBits = 4
  cfgBlkOffset = 2
  addrWidth = 5
  lgMaxStride = 4
  lgMaxCycles = 2
  lgMaxII = 1
  lgMaxLat = 2
  agNestLevels = 3
  cfgRegNum = 4
  Blocks = {0, 1, 2}
  IOBs = {0, 2}
  rowOf <- Row4
  sumCfgWidth <- CfgBits
  SramWidths = {8, 12, 16}
  ReadLatencies = {1, 2, 3}
  Programs <- AllPrograms
INVARIANT RegisterInStep
INVARIANT Configured
INVARIANT AccessesFollowLoops
PROPERTY EveryCommandAnswered
