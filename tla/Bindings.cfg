CONSTANTS
  g = g
  p = p
  Groups = {g}
  Policies = {p}
  Specs <- FiveSpecs
  UIOrders = {0, 10}
  MaxBindings = 8
  MaxEdits = 2
  MaxFails = 1
SPECIFICATION FairSpec
INVARIANTS TypeOK OrderIsFree NoDuplicateRight
PROPERTIES DriftRepaired DeletesOnlyWhenCovered ManualBindingsKept
