SPECIFICATION Spec
CONSTANTS
  TagCounts = {3}
  Names = {"a", "b"}
  MaxTags = 1
  MaxSubnets = 2
  MaxNetworks = 1
  MaxPorts = 0
INVARIANTS
  TagsAsSpecified
CHECK_DEADLOCK FALSE
