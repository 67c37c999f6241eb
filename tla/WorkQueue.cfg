SPECIFICATION FairSpec
CONSTANTS
  CRs = {1, 2}
  None = None
  Resync = 2
  MaxDebt = 3
  MaxEdits = 1
  MaxFails = 2
INVARIANTS TypeOK Attended LoserIsWoken RoleEventsReach
PROPERTIES DelayKept StopEnds Released
CHECK_DEADLOCK FALSE
