----------------------------- MODULE MCPayouts -----------------------------
(* Payouts on a small instance: requests are interchangeable. *)
EXTENDS Payouts, TLC

RequestSymmetry == Permutations(Requests)
=============================================================================
