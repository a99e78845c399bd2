SPECIFICATION PICSpec
CONSTANTS
  P = 24001
  MeshFiles <- MCBoxFiles
  Plasmas <- NoPlasmas
INVARIANTS
  BoundingBox
