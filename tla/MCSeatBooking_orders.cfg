\* Orders of several seats against their cancellation and the cleanup pass
CONSTANTS
  Users = {u1, u2}
  Seats = {s1, s2}
  SessionSeats = {s1, s2}
  Orders = {o1}
  MarkTasks = {m1}
  CancelCalls = {k1}
  BlockCalls = {}
  Cleanup = Cleanup
  None = None
SPECIFICATION Spec
SYMMETRY Symmetry
INVARIANTS
  BookingInv
  SeatsBelongToConfirmedOrders
PROPERTIES
  CleanupKeepsBooked
