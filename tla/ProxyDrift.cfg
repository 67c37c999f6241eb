SPECIFICATION FairSpec
CONSTANTS
  Specs <- ReverseProxy
  HandMade = {}
  MaxEdits = 1
  MaxFails = 0
PROPERTIES
  DriftRepaired
