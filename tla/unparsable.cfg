SPECIFICATION FairSpec
CONSTANTS
  Servers = {s1}
  None = None
  Hooks = {}
  SpecParsable = FALSE
  SpecValid = FALSE
  MaxEdits = 0
  LateEdits = FALSE
  MaxFaults = 0
  Tampering = FALSE
  CacheLag = FALSE
PROPERTY DeletionCompletes
