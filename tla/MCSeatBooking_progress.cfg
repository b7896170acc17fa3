\* Fairness; a seat id without a row; the admin's block endpoint
CONSTANTS
  Users = {u1}
  Seats = {s1, x1}
  SessionSeats = {s1}
  Orders = {o1}
  MarkTasks = {m1}
  CancelCalls = {}
  BlockCalls = {b1}
  Cleanup = Cleanup
  None = None
SPECIFICATION FairSpec
PROPERTIES
  RowLocksAreReleased
  MarkTasksEnd
