SPECIFICATION Spec
CONSTANTS
  TagCounts = {0, 1, 2, 3}
  Names = {"a", "b"}
  MaxTags = 1
  MaxSubnets = 2
  MaxNetworks = 2
  MaxPorts = 1
INVARIANTS
  SubnetsAsSpecified
  TagsUnlessShared
CHECK_DEADLOCK FALSE
