SPECIFICATION Spec
CONSTANTS
  P = 97
  Confs <- MCConfs
  tmax = 3
INVARIANTS
  DeviceOnSchedule
  RK4IsClassical
PROPERTIES
  Terminates
