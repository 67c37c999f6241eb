\* One Binding adopted by a CR that is deleted after a failure.
CONSTANTS
  NoObject = NoObject
  NoCR = NoCR
  Objects = {b1}
  Bindings = {b1}
  CRs = {c1}
  Adopting = {c1}
  Deleting = {}
  Lagging = {c1}
  MarkerGC = TRUE
  MaxRoles = 1
  MaxFails = 1
SPECIFICATION Spec
INVARIANT RetainReturnsToManual
