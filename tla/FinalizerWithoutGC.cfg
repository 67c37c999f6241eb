\* --marker-gc=false: nothing refreshes the remembered role for a CR that is deleted.
CONSTANTS
  NoObject = NoObject
  NoCR = NoCR
  Objects = {a1}
  Bindings = {}
  CRs = {c1}
  Adopting = {c1}
  Deleting = {}
  Lagging = {c1}
  MarkerGC = FALSE
  MaxRoles = 2
  MaxFails = 0
SPECIFICATION FairSpec
PROPERTY FinalizerRemoved
CHECK_DEADLOCK FALSE
