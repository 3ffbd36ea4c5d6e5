----------------------------- MODULE MCCheckout -----------------------------
EXTENDS Checkout, TLC
Symmetry == Permutations(Calls) \union Permutations(Intents)
Amounts == [coupon |-> -1, member |-> -1, smart |-> 1, addon |-> 1, aaf |-> 1]
=============================================================================
