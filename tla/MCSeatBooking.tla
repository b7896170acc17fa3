--------------------------- MODULE MCSeatBooking ---------------------------
(***************************************************************************)
(* Instances of SeatBooking for TLC, and the statements of the             *)
(* repository's docs that the code does not keep.                          *)
(***************************************************************************)
EXTENDS SeatBooking, TLC

\* Users, orders and call slots are interchangeable, and so are the seats with a row.
Symmetry == Permutations(Users) \cup Permutations(Orders) \cup Permutations(SessionSeats)
            \cup Permutations(MarkTasks) \cup Permutations(CancelCalls)
            \cup Permutations(BlockCalls)

\* The lock endpoint answers "Seat is already locked or sold" (event.py:485): the seats
\* of a CONFIRMED order stay BOOKED.
SoldSeatsStayBooked ==
    \A o \in Orders : orders[o] = "CONFIRMED" => \A s \in items[o] : row[s].status = "BOOKED"

\* "If the Redis lock expires before the DB write, the seat reverts to AVAILABLE"
\* (enums.py:53): a seat that is RESERVED without a lock, and with no task left that
\* would write it, does not stay so until somebody locks it anew.
AbandonedSeatsReturn ==
    \A s \in SessionSeats :
        /\ row[s].status = "RESERVED" /\ lock[s].owner = None
        /\ \A m \in MarkTasks : mark[m].pc = "idle"
        ~> row[s].status # "RESERVED" \/ lock[s].owner # None

\* "AVAILABLE : Can be booked" (enums.py:44): an AVAILABLE seat has no order_item, which
\* would make the next booking fail at the unique constraint.
AvailableSeatsAreBookable ==
    \A s \in SessionSeats : row[s].status = "AVAILABLE" => \A o \in Orders : s \notin items[o]

\* "Cannot block a BOOKED seat" (README.md:375).
BookedSeatsAreNotBlocked ==
    [][\A s \in SessionSeats : row[s].status = "BOOKED" => row'[s].status # "BLOCKED"]_vars
=============================================================================
