\* Dead members with one living user or none
CONSTANTS
  Users = {u1, u2}
  MaxActive = 1
  EnterCalls = {e1}
  LeaveCalls = {}
  Sweeper = Sweeper
  Nobody = Nobody
  MaxQueue = 1
  MaxExtra = 0
  MaxFailures = 1
SPECIFICATION FairSpec
PROPERTIES
  DeadSlotsAreReclaimed
