SPECIFICATION FairSpec
CONSTANTS
  nbelems = 3
  nbfaces = 6
  fL <- MCfL
  fR <- MCfR
  flow <- MCflow
  Refined = {}
  HasSource = TRUE
  HasSolver = TRUE
  Handle <- MCHandle
  NWorkers = 2
  tmax = 7
  MaxPending = 8
INVARIANTS
  SolveSeesItsStep
  UpwindAtTheNewStep
  GhostsAtTheEnds
  ReturnsAtTmax
PROPERTIES
  SweepFollowsTheClock
  Terminates
