---------------------------- MODULE MCCrewPayout ----------------------------
(* CrewPayout on a small instance, with the split of DEFAULT_CREW_CONFIG. *)
EXTENDS CrewPayout
=============================================================================
