SPECIFICATION Spec
CONSTANTS
  ms1 = ms1  ms2 = ms2  c1 = c1  c2 = c2
  MachineSets = {ms1, ms2}
  Clouds = {c1, c2}
  CloudOf <- TwoClouds
  Flavors = {f}
  Infos = {a, b}
  Missing = Missing
  NoFlavor = NoFlavor
  StaledTime = 2
  RefreshFailureTime = 1
  MaxChanges = 0
  MaxConcurrentReconciles = 2
  MaxFaults = 0
  MaxEdits = 0
PROPERTY FreshFlavor
