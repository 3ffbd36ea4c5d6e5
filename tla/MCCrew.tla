------------------------------- MODULE MCCrew -------------------------------
(* Crew on a small instance: cleaners and requests are interchangeable. *)
EXTENDS Crew, TLC

CallSymmetry == Permutations(Cleaners) \union Permutations(Requests)
=============================================================================
