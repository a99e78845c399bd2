SPECIFICATION PICSpec
CONSTANTS
  P = 24001
  MeshFiles <- MCMeshFiles
  Plasmas <- MCPlasmas
INVARIANTS
  EachFaceOnce
  NoAbort
  InterfacePointsCoincide
PROPERTIES
  ChargeOfTheParticles
  PushFollowsTheField
