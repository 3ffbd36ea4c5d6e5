---------------------------- MODULE MCAssignment ----------------------------
(* Assignment on a small instance: cleaners are interchangeable, and so are the
   staffing runs. *)
EXTENDS Assignment, TLC

CallSymmetry == Permutations(Cleaners) \union Permutations(Staffers)

\* With one staffing run, it may as well be the same cleaner that ranks first.
BestFirst == LET best == CHOOSE c \in Cleaners : TRUE
             IN  {o \in Orders : o[1] = best}
=============================================================================
