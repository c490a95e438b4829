SPECIFICATION Spec
CONSTANTS
  numKernels = 2
  OpCounts = {2, 5}
  numGpeNodes = 4
  MaxVio = 3
  Objs = {0, 1, 2}
  maxIters = 4
  pnrMaxIters = 7
  pnrRestartIters = 1
  noImprvIters = 0
  optNoImprvIters = 2
  optRestartIters = 0
INVARIANT ResultValid
INVARIANT NoDangling
INVARIANT PlacesItsNodes
INVARIANT BestIsBest
INVARIANT FitsGpes
CHECK_DEADLOCK FALSE
