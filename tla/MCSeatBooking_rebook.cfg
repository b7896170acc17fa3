\* A cancelled seat is back on sale
CONSTANTS
  Users = {u1, u2}
  Seats = {s1}
  SessionSeats = {s1}
  Orders = {o1}
  MarkTasks = {m1}
  CancelCalls = {k1}
  BlockCalls = {}
  Cleanup = Cleanup
  None = None
SPECIFICATION Spec
SYMMETRY Symmetry
INVARIANTS
  AvailableSeatsAreBookable
