\* Two customers and two calls of POST /orders fight for one seat; late background tasks
CONSTANTS
  Users = {u1, u2}
  Seats = {s1}
  SessionSeats = {s1}
  Orders = {o1, o2}
  MarkTasks = {m1, m2}
  CancelCalls = {k1}
  BlockCalls = {}
  Cleanup = Cleanup
  None = None
SPECIFICATION HistorySpec
SYMMETRY Symmetry
INVARIANTS
  TypeOK
  NoOversell
  HistoryInv
PROPERTIES
  ConfirmsOwnReservation
  SaleSpec
  OrdersLeaveRowsTwoWays
  ViewsAreHonest
