SPECIFICATION Spec
CONSTANTS
  Callers = {g1, g2}
  Maps <- MCMaps
  Types <- MCTypes
  Data <- MCData
  Refused = {9}
  Nil = Nil
SYMMETRY Symmetry
INVARIANTS
  TypeOK
  BuiltDataHashes
  HashIsStable
  HashSeparatesData
CHECK_DEADLOCK FALSE
