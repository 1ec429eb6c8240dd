SPECIFICATION FairSpec
CONSTANTS
  NPorts = 3
  Trunk = TRUE
  RootVolume = TRUE
  NExtra = 1
  FaultKinds = {"error", "lost", "crash"}
  MaxFaults = 2
INVARIANTS
  TypeOK RootInv RootVolumeGone TrunksHaveParents ErrorPortsCollected
  ServerHasPorts CleanWithoutFaults
PROPERTIES ImplementsInstance VolumesGoWithServer
CHECK_DEADLOCK FALSE
