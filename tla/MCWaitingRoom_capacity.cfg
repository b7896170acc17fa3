\* A newcomer and a promoted user take the same slot
CONSTANTS
  Users = {u1, u2, u3}
  MaxActive = 1
  EnterCalls = {e1}
  LeaveCalls = {l1}
  Sweeper = Sweeper
  Nobody = Nobody
  MaxQueue = 1
  MaxExtra = 0
  MaxFailures = 0
SPECIFICATION Spec
SYMMETRY Symmetry
INVARIANTS
  AtMostMaxActive
