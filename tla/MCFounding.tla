----------------------------- MODULE MCFounding -----------------------------
(* Founding on a small instance: people are interchangeable, and so are requests. *)
EXTENDS Founding, TLC

CallSymmetry == Permutations(People) \union Permutations(Requests)
=============================================================================
