------------------------------- MODULE MCTips -------------------------------
(* Tips on a small instance: submits, the intents named after them included, are
   interchangeable, and so are releases. *)
EXTENDS Tips, TLC

CallSymmetry == Permutations(Submits) \union Permutations(Releases)
=============================================================================
