SPECIFICATION Spec
CONSTANTS
  Servers = {s1, s2}
  None = None
  Hooks = {}
  SpecParsable = TRUE
  SpecValid = TRUE
  MaxEdits = 0
  LateEdits = FALSE
  MaxFaults = 1
  Tampering = FALSE
  CacheLag = FALSE
INVARIANT InvalidMeansInvalid
