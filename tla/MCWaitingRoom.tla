--------------------------- MODULE MCWaitingRoom ---------------------------
(***************************************************************************)
(* Instances of WaitingRoom for TLC, and a statement of the documentation  *)
(* that the code does not keep.                                            *)
(***************************************************************************)
EXTENDS WaitingRoom, TLC

\* Users and calls are interchangeable.
Symmetry == Permutations(Users) \cup Permutations(EnterCalls) \cup Permutations(LeaveCalls)

\* "A queue/waiting room limits how many users can actively load the booking UI for an
\* event" (README.md:215): at most MAX_ACTIVE_USERS.
AtMostMaxActive == Cardinality(active) <= MaxActive
=============================================================================
