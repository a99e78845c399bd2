SPECIFICATION DeviceSpec
CONSTANTS
  P = 6007
  Launches <- MCDefaultVolume
INVARIANTS
  CodeletsAgree
