\* One CR whose outpost is edited while its first reconcile runs; nothing fails.
CONSTANTS
  CRs = {c1}
  Hand = {}
  Outposts = {a, b}
  Embedded = a
  None = None
  Deleting = {c1}
  MaxEdits = 1
  MaxFails = 0
SPECIFICATION Spec
PROPERTIES NeverForgotten
CHECK_DEADLOCK FALSE
