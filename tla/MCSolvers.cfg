SPECIFICATION BothSpec
CONSTANTS
  Elem <- MCElem
  Handle <- MCHandle
  NWorkers = 1
  P = 7
  neq = 3
  klds <- MCkld
  vkgd <- MCvkgd
  vkgs <- MCvkgs
  vkgi <- MCvkgi
  RhsValue = {1, 4}
  Storages = {"SKYLINE", "SKYLINE_SPU"}
INVARIANTS
  SolvesItsSystem
  StaysInItsArrays
PROPERTIES
  ImplementsLinearSystem
