\* CR 2 takes over while CR 1, with deletionPolicy Delete, is being deleted.
CONSTANTS
  CRs = {1, 2}
  Adopting = {}
  Deleting = {1}
  Lagging = {}
  MaxPks = 2
  MaxFails = 0
SPECIFICATION Spec
PROPERTY NeverFight
CHECK_DEADLOCK FALSE
