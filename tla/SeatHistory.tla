---------------------------- MODULE SeatHistory ----------------------------
(***************************************************************************)
(* SeatBooking with a memory of who ever locked which seat, and what it    *)
(* shows of that to each customer.  The memory is a history variable: each *)
(* step is a step of SeatBooking, and every step of SeatBooking has one    *)
(* here.                                                                   *)
(***************************************************************************)
EXTENDS SeatBooking

VARIABLE lockedBy  \* the seats each customer ever held the Redis key of

historyVars == <<vars, lockedBy>>

HistoryInit == Init /\ lockedBy = [u \in Users |-> {}]

\* Whoever owns a key is remembered.
Remember == lockedBy' = [u \in Users |-> lockedBy[u] \cup {s \in Seats : lock'[s].owner = u}]

HistoryNext == Next /\ Remember

HistorySpec == HistoryInit /\ [][HistoryNext]_historyVars

-----------------------------------------------------------------------------
(* Correctness *)

HistoryTypeOK == lockedBy \in [Users -> SUBSET Seats]

\* reconcile: RESERVED with booked_by of the customer.
Shown(r, u) == IF r.status = "AVAILABLE" THEN "available"
               ELSE IF r.status = "RESERVED" /\ r.bookedBy = u THEN "mine"
               ELSE "taken"

\* What get_seat_map shows customer u.
ViewOf(u) == [s \in SessionSeats |-> Shown(row[s], u)]

\* Customer u sees a SeatView: no seat becomes u's own but by u's own lock, whoever else's
\* stale task, cancellation or block writes the row, and however the locks come and go.
View(u) == INSTANCE SeatView WITH Seats <- SessionSeats,
                                  status <- ViewOf(u),
                                  locked <- lockedBy[u] \cap SessionSeats

ViewsAreHonest ==
    /\ \A u \in Users : View(u)!Init
    /\ [][\A u \in Users : [View(u)!Next]_(View(u)!vars)]_historyVars

\* An order sells only seats whose keys its buyer has held, each at some time.
SoldSeatsWereLocked ==
    [][\A o \in Orders : orders[o] = "none" /\ orders'[o] = "CONFIRMED" =>
          items'[o] \subseteq lockedBy[call[o].user]]_historyVars

-----------------------------------------------------------------------------
(* Why it holds: the inductive invariant *)

\* The owner of a key, the user of a background task and the user a row names have locked
\* the seat.
NamesAreLockers ==
    \A u \in Users :
        /\ \A s \in Seats : lock[s].owner = u => s \in lockedBy[u]
        /\ \A m \in MarkTasks : mark[m].pc # "idle" /\ mark[m].user = u => mark[m].seat \in lockedBy[u]
        /\ \A s \in SessionSeats : row[s].bookedBy = u => s \in lockedBy[u]

HistoryInv == BookingInv /\ HistoryTypeOK /\ NamesAreLockers
=============================================================================
