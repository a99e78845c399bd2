SPECIFICATION DeviceSpec
CONSTANTS
  P = 6007
  Launches <- MCSubcellSource
INVARIANTS
  CodeletsAgree
