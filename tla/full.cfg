SPECIFICATION Spec
CONSTANTS
  Servers = {s1, s2, s3}
  None = None
  Hooks = {}
  SpecParsable = TRUE
  SpecValid = TRUE
  MaxEdits = 1
  LateEdits = FALSE
  MaxFaults = 2
  Tampering = TRUE
  CacheLag = TRUE
SYMMETRY ServerSymmetry
INVARIANTS TypeOK IndInv ProviderServerGone OneServer NoLeakedServer MissingMeansGone
PROPERTIES ProviderIDFixed LostIsFinal DrainedFirst NodeDeletedFirst
