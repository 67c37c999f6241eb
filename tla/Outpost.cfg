\* Two CRs that share two Outposts with a Provider made by hand.
CONSTANTS
  CRs = {c1, c2}
  Hand = {h}
  Outposts = {a, b}
  Embedded = a
  None = None
  Deleting = {c1}
  MaxEdits = 2
  MaxFails = 1
SPECIFICATION FairSpec
INVARIANT TypeOK
PROPERTIES OthersKept NeverDetached LeftBeforeForgotten EventuallyServed EventuallyReleased
CHECK_DEADLOCK FALSE
