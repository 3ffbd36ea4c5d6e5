--------------------------- MODULE PayoutPromise ---------------------------
(***************************************************************************)
(* What the payout endpoints promise together, without rows, claims or     *)
(* requests: money leaves for the cleaner of a booking only after the      *)
(* customer was charged, and at most once unless an operator or a lost     *)
(* answer of Stripe interferes.                                            *)
(***************************************************************************)
CONSTANT Transfers  \* the transfers that could be made for the booking

VARIABLES
    charged,  \* the customer's charge settled at some time
    moved,    \* the transfers made
    strayed   \* somebody interfered

vars == <<charged, moved, strayed>>

Init == charged = FALSE /\ moved = {} /\ strayed = FALSE

Charge == charged' = TRUE /\ UNCHANGED <<moved, strayed>>

Stray == strayed' = TRUE /\ UNCHANGED <<charged, moved>>

Pay ==
    /\ charged
    /\ moved = {} \/ strayed
    /\ \E t \in Transfers : moved' = moved \union {t}
    /\ strayed' \in {strayed, TRUE}
    /\ UNCHANGED charged

Next == Charge \/ Stray \/ Pay

Spec == Init /\ [][Next]_vars
=============================================================================
