\* The admin blocks a seat while it is being booked
CONSTANTS
  Users = {u1}
  Seats = {s1}
  SessionSeats = {s1}
  Orders = {o1}
  MarkTasks = {m1}
  CancelCalls = {}
  BlockCalls = {b1}
  Cleanup = Cleanup
  None = None
SPECIFICATION Spec
SYMMETRY Symmetry
PROPERTIES
  BookedSeatsAreNotBlocked
