SPECIFICATION FairSpec
CONSTANTS
  nbelems = 2
  nbfaces = 3
  fL <- MCfL
  fR <- MCfR
  Refined = {1}
  HasSource = TRUE
  HasSolver = FALSE
  Handle <- MCHandle
  NWorkers = 2
  P = 97
  w0 <- MCw0
  tmax = 3
  MaxPending = 8
INVARIANTS
  TypeOK
  NoDataRace
  SequentialView
  UpdatesKeepTheirPlace
  FieldsOnSchedule
  ReturnsAtTmax
PROPERTIES
  ElementsFollowTheClock
  Terminates
