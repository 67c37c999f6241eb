SPECIFICATION FairSpec
CONSTANTS
  Specs <- ForwardAndOAuth2
  HandMade <- OneOfEach
  MaxEdits = 2
  MaxFails = 1
INVARIANTS
  TypeOK
  UnmanagedFieldsKept
PROPERTIES
  AdoptedUnchanged
  SecretKept
  DriftRepaired
