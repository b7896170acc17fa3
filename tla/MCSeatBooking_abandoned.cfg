\* A lock expires between two cleanup passes
CONSTANTS
  Users = {u1}
  Seats = {s1}
  SessionSeats = {s1}
  Orders = {o1}
  MarkTasks = {m1}
  CancelCalls = {}
  BlockCalls = {}
  Cleanup = Cleanup
  None = None
SPECIFICATION FairSpec
PROPERTIES
  AbandonedSeatsReturn
