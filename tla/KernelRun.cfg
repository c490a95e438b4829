SPECIFICATION Spec
CONSTANTS
  NumBanks = 3
  sizeofBank = 8
  spadDataByte = 2
  cfgSpadSize = 8
  iobToSpadBanks <- AllToAll
  Kernels <- ThreeBankKernels
  MaxTasks = 4
  FirstTask = 0
INVARIANT ReadsOwnData
INVARIANT PortsAlone
