SPECIFICATION FairSpec
CONSTANTS
  nbelems = 2
  nbfaces = 2
  fL <- MCfL
  fR <- MCfR
  Refined = {}
  HasSource = TRUE
  HasSolver = TRUE
  Handle <- MCHandle
  NWorkers = 2
  tmax = 5
  MaxPending = 8
INVARIANTS
  SolveSeesItsStep
  NeighboursAtTheOldStep
PROPERTIES
  ElementsFollowTheClock
  Terminates
