------------------------------ MODULE MCCatalog ------------------------------
(***************************************************************************)
(* An instance of Catalog for TLC.                                         *)
(***************************************************************************)
EXTENDS Catalog, TLC

\* Sessions, seats and calls are interchangeable.
Symmetry == Permutations(Sessions) \cup Permutations(Positions) \cup Permutations(GenCalls)
            \cup Permutations(Registrations)

\* A registration that is under way is answered before the first event is created.  The
\* order makes no difference: with an admin there is an account for the address, the
\* INSERT fails, and that changes and reads nothing the catalogue has.
RegistrationsFirst ==
    \/ \A e \in Events : event[e].state = "none"
    \/ \A r \in Registrations : registering[r].pc # "insert"
=============================================================================
