\* One CR with deletionPolicy Delete and a lagging informer, the role deleted once, one failure.
CONSTANTS
  NoObject = NoObject
  NoCR = NoCR
  Objects = {b1}
  Bindings = {b1}
  CRs = {c1}
  Adopting = {c1}
  Deleting = {c1}
  Lagging = {c1}
  MarkerGC = TRUE
  MaxRoles = 2
  MaxFails = 1
SPECIFICATION FairSpec
PROPERTIES MarkersRestored FinalizerRemoved OrphansCollected
