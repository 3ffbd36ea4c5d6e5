--------------------------- MODULE MCFeeApproval ----------------------------
(* FeeApproval on a small instance: the proposer and one other admin. *)
EXTENDS FeeApproval
=============================================================================
