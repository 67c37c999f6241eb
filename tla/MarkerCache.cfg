\* An Application; c1 deletes what it made, c2 adopts and retains; both can take it over.
CONSTANTS
  NoObject = NoObject
  NoCR = NoCR
  Objects = {a1}
  Bindings = {}
  CRs = {c1, c2}
  Adopting = {c2}
  Deleting = {c1}
  Lagging = {c1, c2}
  MarkerGC = TRUE
  MaxRoles = 2
  MaxFails = 2
SPECIFICATION Spec
INVARIANTS TypeOK ManualStaysUnmarked GoneLeavesNoMarker CacheTrusted
PROPERTIES CollectorSparesLiveObjects ImplementsOwnership
