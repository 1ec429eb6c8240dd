SPECIFICATION FairSpec
CONSTANTS
  Servers = {s1, s2}
  None = None
  Hooks = {"preTerminate"}
  SpecParsable = TRUE
  SpecValid = TRUE
  MaxEdits = 0
  LateEdits = FALSE
  MaxFaults = 1
  Tampering = TRUE
  CacheLag = TRUE
PROPERTIES HooksRespected ImplementsInstance EventuallyProvisioned
