SPECIFICATION BothSpec
CONSTANTS
  Elem <- MCElem
  Handle <- MCHandle
  NWorkers = 2
  P = 7
  neq = 3
  klds <- MCkld
  vkgd <- MCvkgd
  vkgs <- MCvkgs
  vkgi <- MCvkgi
  RhsValue = {1, 4}
  Storages = {"SKYLINE"}
INVARIANTS
  SolvesItsSystem
CHECK_DEADLOCK FALSE
