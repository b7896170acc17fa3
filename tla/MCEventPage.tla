----------------------------- MODULE MCEventPage -----------------------------
(***************************************************************************)
(* An instance of EventPage for TLC.                                       *)
(***************************************************************************)
EXTENDS EventPage
=============================================================================
