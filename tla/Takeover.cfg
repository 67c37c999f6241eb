\* Two CRs with one slug, of which the younger may adopt; one CR with an informer that lags.
CONSTANTS
  CRs = {1, 2}
  Adopting = {2}
  Deleting = {1}
  Lagging = {1}
  MaxPks = 2
  MaxFails = 1
SPECIFICATION FairSpec
INVARIANTS TypeOK OneManager ReleasedAll
PROPERTY Converges
CHECK_DEADLOCK FALSE
