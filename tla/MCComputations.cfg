SPECIFICATION AllSpec
CONSTANTS
  P = 6007
  Problems <- MCProblems
  Launches <- MCTasks
  Closures <- MCClosures
INVARIANTS
  NothingStray
  UniformStaysUniform
  Conserves
  GaussLaw
  CodeletsAgree
  FacesBalance
  BoundariesBalance
PROPERTIES
  ThetaEquation
  LocalEquation
  DerivativeIsResidual
  CollisionsConserve
