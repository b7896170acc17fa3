------------------------------ MODULE SeatPlan ------------------------------
(***************************************************************************)
(* What the catalogue promises whoever sells from it, with nothing of how  *)
(* it is done: each session belongs to one event and offers a set of       *)
(* seats.  An event comes into being whole, grows in all of its sessions   *)
(* in one step and by seats that are new to each of them, and goes whole,  *)
(* as long as nothing of it was sold.  Catalog implements this             *)
(* specification.                                                          *)
(***************************************************************************)

CONSTANTS Events,     \* identities of events
          Sessions,   \* identities of sessions
          Positions,  \* row and number of a seat
          None        \* no event

VARIABLES home,       \* the event of each session
          offers,     \* the seats each session offers
          sold        \* the sessions of which anything was ever sold

vars == <<home, offers, sold>>

SessionsOf(e) == {s \in Sessions : home[s] = e}
Offered(e) == UNION {offers[s] : s \in SessionsOf(e)}

Init == /\ home = [s \in Sessions |-> None]
        /\ offers = [s \in Sessions |-> {}]
        /\ sold = {}

\* A new event, with the same seats in all of its sessions.
Create(e, P, S) ==
    /\ \A s \in S : home[s] = None
    /\ home' = [s \in Sessions |-> IF s \in S THEN e ELSE home[s]]
    /\ offers' = [s \in Sessions |-> IF s \in S THEN P ELSE offers[s]]
    /\ UNCHANGED sold

\* The seats P, new to all of its sessions, are added to every session of the event.
Extend(e, P) ==
    /\ offers' = [s \in Sessions |-> IF s \in SessionsOf(e) THEN offers[s] \cup P ELSE offers[s]]
    /\ UNCHANGED <<home, sold>>

\* The event goes with its sessions, none of which was sold.
Delete(e) ==
    /\ SessionsOf(e) # {} /\ SessionsOf(e) \cap sold = {}
    /\ home' = [s \in Sessions |-> IF s \in SessionsOf(e) THEN None ELSE home[s]]
    /\ offers' = [s \in Sessions |-> IF s \in SessionsOf(e) THEN {} ELSE offers[s]]
    /\ UNCHANGED sold

\* Something of a session that is on offer is sold for the first time.
Sell(s) ==
    /\ home[s] # None /\ s \notin sold
    /\ sold' = sold \cup {s}
    /\ UNCHANGED <<home, offers>>

Next == \/ \E e \in Events :
              \/ /\ SessionsOf(e) = {}
                 /\ \E P \in (SUBSET Positions) \ {{}}, S \in (SUBSET Sessions) \ {{}} : Create(e, P, S)
              \/ \E P \in (SUBSET (Positions \ Offered(e))) \ {{}} : Extend(e, P)
              \/ Delete(e)
        \/ \E s \in Sessions : Sell(s)

Spec == Init /\ [][Next]_vars
=============================================================================
