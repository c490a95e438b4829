SPECIFICATION ArraySpec
CONSTANTS
  Nodes = {"a", "b", "c", "d", "e", "f", "g", "i", "l", "s"}
  Edges = {1, 2, 3, 4, 5, 6, 7, 8, 9, 10, 11, 12, 13}
  MaxRoute = 2
  MaxDelay = 3
  Iterations = 4
  LOAD = {"l"}
  AddRegSram = 2
  edge <- DFGEdges
  topoNodes <- Order
  opLatency <- OpLatency
  numOperands <- NumOperands
  RouteLats <- Routes
  Delays <- RDUs
  AccParams <- Accumulators
INVARIANT DelaysFit
INVARIANT StoresTheLoops
INVARIANT Synchronised
PROPERTY Terminates
CHECK_DEADLOCK FALSE
