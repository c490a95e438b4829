SPECIFICATION Spec
CONSTANTS
  NumBanks = 2
  sizeofBank = 8
  spadDataByte = 2
  cfgSpadSize = 8
  iobToSpadBanks <- AllToAll
  Kernels <- LateKernels
  MaxTasks = 3
  FirstTask = 64
INVARIANT PortsAlone
