SPECIFICATION Spec
CONSTANTS
  FUs = {"A", "B", "P", "Q", "S", "T"}
  GIBs = {"L", "M", "R"}
  Nodes = {"a", "b", "c", "d", "e"}
  Edges = {1, 2, 3, 4, 5}
  commutative = {"d"}
  input <- Input
  out2ins <- Out2ins
  operandInputs <- OperandInputs
  edge <- DFGEdge
  Capable <- Can
INVARIANT RoutedIffPlaced
INVARIANT RoutesConnect
INVARIANT OneSignalPerPort
INVARIANT FlagsTellUse
