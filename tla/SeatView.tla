------------------------------ MODULE SeatView ------------------------------
(***************************************************************************)
(* What the seat map of one session promises one customer, and all that    *)
(* the booking page relies on: rows change in whatever way and as many at  *)
(* a time as they like, but a seat is shown as reserved for the customer   *)
(* only if the customer has locked it at some time.  SeatBooking, with the *)
(* history of SeatHistory, implements this specification for every         *)
(* customer; EventPage takes every step of it for a step of its back end.  *)
(***************************************************************************)

CONSTANT Seats     \* the seats of the session

VARIABLES status,  \* each seat as the customer sees it
          locked   \* history: the seats the customer ever locked

vars == <<status, locked>>

\* "mine" is RESERVED by this customer; "taken" is everything else that is not AVAILABLE,
\* the customer's BOOKED seats among it.
SeatStatus == {"available", "mine", "taken"}

\* The seat maps that may be shown to who has locked the seats L.
Honest(L) == {m \in [Seats -> SeatStatus] : \A x \in Seats : m[x] = "mine" => x \in L}

Init == locked \in SUBSET Seats /\ status \in Honest(locked)

\* Background tasks, orders, cancellations, blocks and the cleanup, late or not.
Change == status' \in Honest(locked) /\ UNCHANGED locked

\* POST /events/seats/{seat_id}/lock is granted.
Lock(x) == locked' = locked \cup {x} /\ UNCHANGED status

Next == Change \/ \E x \in Seats : Lock(x)

Spec == Init /\ [][Next]_vars
=============================================================================
