SPECIFICATION FairSpec
CONSTANTS
  ms1 = ms1  ms2 = ms2  c1 = c1  c2 = c2
  MachineSets = {ms1}
  Clouds = {c1}
  CloudOf <- OneCloud
  Flavors = {f, g}
  Infos = {a, b}
  Missing = Missing
  NoFlavor = NoFlavor
  StaledTime = 1
  RefreshFailureTime = 0
  MaxChanges = 1
  MaxConcurrentReconciles = 1
  MaxFaults = 1
  MaxEdits = 2
INVARIANT TypeOK
PROPERTIES FreshFlavor LookupsSpaced AnnotationsConverge
