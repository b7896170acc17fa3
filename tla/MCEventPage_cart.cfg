CONSTANTS
  Sessions = {s1, s2}
  First = s1
  Elsewhere = Elsewhere
  None = None
  Seats = {x1}
  MaxAnswers = 2
  MaxLocks = 2
  MaxLoads = 2
  MaxPayments = 1
SPECIFICATION Spec
INVARIANTS
  PageInv
  CartHoldsOnlyWonSeats
PROPERTIES
  ReservedSeatsComeBack
  LostSeatsGoAway
