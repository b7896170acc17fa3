\* Newcomers, a leaver and the sweeper fight for one slot
CONSTANTS
  Users = {u1, u2}
  MaxActive = 1
  EnterCalls = {e1}
  LeaveCalls = {l1}
  Sweeper = Sweeper
  Nobody = Nobody
  MaxQueue = 1
  MaxExtra = 2
  MaxFailures = 1
SPECIFICATION Spec
SYMMETRY Symmetry
INVARIANTS
  OvershootIsBounded
  SetExpiresUnlessFailed
PROPERTIES
  OnlyFailedPromotionsUnarm
  TurnstileSpec
