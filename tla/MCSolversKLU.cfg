SPECIFICATION BothSpec
CONSTANTS
  Elem <- MCElem
  Handle <- MCHandle
  NWorkers = 1
  P = 7
  neq = 3
  klds <- MCkld
  vkgd <- MCvkgd
  vkgs <- MCvkgs
  vkgi <- MCvkgi
  RhsValue = {1, 4}
  Storages = {"KLU_CSR"}
INVARIANTS
  StartsEmpty
CHECK_DEADLOCK FALSE
