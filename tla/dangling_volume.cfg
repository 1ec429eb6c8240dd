SPECIFICATION Spec
CONSTANTS
  NPorts = 2
  Trunk = FALSE
  RootVolume = TRUE
  NExtra = 1
  FaultKinds = {"error"}
  MaxFaults = 1
INVARIANTS
  NoDanglingVolumes
CHECK_DEADLOCK FALSE
