------------------------- MODULE AssignmentPromise -------------------------
(* What staffing promises the cleaners: the job goes to one of them, nobody but
   the operator takes it away again, and only those who have won it are told
   so. *)

CONSTANTS Cleaners, Nobody

VARIABLES
    cleaner,  \* who has the job, or Nobody
    won,      \* who has won it since the operator last placed it
    lost,     \* who had won it when the operator placed it
    told      \* who was told that they have it

Init ==
    /\ cleaner = Nobody
    /\ won = {}
    /\ lost = {}
    /\ told = {}

Assign ==
    /\ cleaner = Nobody
    /\ cleaner' \in Cleaners
    /\ won' = {cleaner'}
    /\ UNCHANGED <<lost, told>>

Tell ==
    /\ \E c \in won \union lost : told' = told \union {c}
    /\ UNCHANGED <<cleaner, won, lost>>

\* The operator gives the job to a cleaner, or to nobody, by hand.
Place ==
    /\ cleaner' \in Cleaners \union {Nobody}
    /\ won' = {}
    /\ lost' = lost \union won
    /\ UNCHANGED told

Next == Assign \/ Tell \/ Place

Spec == Init /\ [][Next]_<<cleaner, won, lost, told>>
=============================================================================
