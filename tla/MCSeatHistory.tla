--------------------------- MODULE MCSeatHistory ---------------------------
(***************************************************************************)
(* An instance of SeatHistory for TLC.                                     *)
(***************************************************************************)
EXTENDS SeatHistory, TLC

\* Users, orders and call slots are interchangeable.
Symmetry == Permutations(Users) \cup Permutations(Orders)
            \cup Permutations(MarkTasks) \cup Permutations(CancelCalls)
=============================================================================
