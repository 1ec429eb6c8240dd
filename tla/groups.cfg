SPECIFICATION FairSpec
CONSTANTS
  g1 = g1  g2 = g2  g3 = g3
  Machines = {m1, m2}
  Groups = {g1, g2, g3}
  Names = {"workers", "masters"}
  None = None
  Specs <- SomeSpecs
  Secrets <- SomeSecrets
  InitialNames <- SomeNames
  MaxFaults = 1
  MaxOutside = 1
INVARIANTS TypeOK SameGroup OwnGroupsUnique GroupAsSpecified ProvisionedHasFloatingIP
PROPERTIES NothingForBadSpecs EventuallyDecided
CHECK_DEADLOCK FALSE
