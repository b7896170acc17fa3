------------------------------ MODULE SeatSale ------------------------------
(***************************************************************************)
(* What the booking back end promises of one event session, with nothing   *)
(* of how it is done: a ledger of which order a seat was sold to and the   *)
(* state of each order.  An order sells all of its seats in one step, a    *)
(* seat enters the ledger at most once, and a sold order can only be       *)
(* cancelled.  SeatBooking implements this specification.                  *)
(***************************************************************************)

CONSTANTS Seats,    \* seats on sale in the session
          Orders    \* identities of orders

VARIABLES tickets,  \* the ledger: the seats sold to each order
          state     \* the state of each order

vars == <<tickets, state>>

Init == /\ tickets = [o \in Orders |-> {}]
        /\ state = [o \in Orders |-> "none"]

\* All the seats of an order are sold together, each for the first time.
Sell(o, S) == /\ state[o] = "none"
              /\ S # {}
              /\ \A p \in Orders : tickets[p] \cap S = {}
              /\ tickets' = [tickets EXCEPT ![o] = S]
              /\ state' = [state EXCEPT ![o] = "CONFIRMED"]

\* A cancelled order stays in the ledger with its seats.
Cancel(o) == /\ state[o] = "CONFIRMED"
             /\ state' = [state EXCEPT ![o] = "CANCELLED"]
             /\ UNCHANGED tickets

Next == \E o \in Orders : Cancel(o) \/ \E S \in SUBSET Seats : Sell(o, S)

Spec == Init /\ [][Next]_vars
=============================================================================
