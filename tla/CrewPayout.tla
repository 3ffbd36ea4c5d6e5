----------------------------- MODULE CrewPayout -----------------------------
(***************************************************************************)
(* Paying the crew of one booking: a call of release-payout divides the    *)
(* cleaner pool among the seats that are present, writes each seat's       *)
(* earnings, makes one Stripe transfer per seat, and then one per tip.     *)
(* Nothing claims the booking as a whole, as the payouts row does for a    *)
(* solo booking: several calls run over the same seats, each seat and each *)
(* tip is claimed by itself before Stripe is called, and the crew may      *)
(* change between any two statements.                                      *)
(*                                                                         *)
(* A payee is a seat or a tip.  A call keeps what it read in variables of  *)
(* its own, and a Worker that dies is a call that takes no further step.   *)
(***************************************************************************)
EXTENDS Integers, FiniteSets, Functions

CONSTANTS
    Last,       \* the highest seat_index; seat 0 is the lead's
    Tips,       \* the succeeded booking_tips rows of the booking
    Releases,   \* calls of release-payout
    Pool,       \* the cleaner payout of the whole booking, in cents
    Percent,    \* Percent[n]: the configured split of a crew of n, lead first
    Faults,     \* what may go wrong at Stripe, a subset of AllFaults
    MaxChanges  \* how often the crew changes once calls are under way

Positions == 0 .. Last
Payees    == Positions \union Tips

\* "lost": Stripe makes a transfer and the call fails all the same, by a timeout
\* or because the row cannot be written.
\* "expire": Stripe forgets an idempotency key.
AllFaults == {"lost", "expire"}

ASSUME CrewPayoutAssumption ==
    /\ Last \in Nat
    /\ Tips \intersect Positions = {}
    /\ Pool \in Nat
    /\ \A n \in 1 .. Last + 1 : Percent[n] \in [1 .. n -> Nat]
    /\ Faults \subseteq AllFaults /\ Faults # {}
    /\ MaxChanges \in Nat

VARIABLES
    present,   \* the seats that are ACCEPTED or COMPLETED
    earnings,  \* earnings_cents of each seat
    slot,      \* stripe_transfer_id of a seat, paid_out_at of a tip
    made,      \* how many transfers Stripe has made to each payee
    sent,      \* the amount of the first of them, of each seat
    keys,      \* the payees whose idempotency key Stripe remembers
    fault,     \* the kind of fault of this behaviour
    changes,   \* how often the crew has changed
    stage,     \* where each call is
    todo,      \* the payees it has still to look at
    due,       \* the amounts it has computed or read
    payee      \* the payee it is paying

payVars == <<present, earnings, slot, made, sent, keys, fault, changes,
             stage, todo, due, payee>>

records == <<earnings, slot>>
stripe  == <<made, sent, keys>>
crew    == <<present, fault, changes>>

-----------------------------------------------------------------------------
(* The split of the pool.                                                  *)

\* The splits of DEFAULT_CREW_CONFIG.
DefaultSplit == <<<<100>>, <<54, 46>>, <<36, 32, 32>>>>

\* Math.round(Pool * fraction) of the i-th seat of a crew of n.
Rounded(n, i) == (2 * Pool * Percent[n][i] + 100) \div 200

\* Faulty variant: the lead's share is rounded like the others.
CentsAllRounded(P, s) ==
    Rounded(Cardinality(P), Cardinality({t \in P : t <= s}))

\* The first seat present (the lead, if there) gets what the others leave.
Cents(P, s) ==
    LET n == Cardinality(P)
        i == Cardinality({t \in P : t <= s})
        others == [j \in 2 .. n |-> Rounded(n, j)]
    IN  IF i = 1 THEN Pool - SumFunction(others) ELSE Rounded(n, i)

Amounts == {0} \union UNION {{Cents(P, s) : s \in P} : P \in SUBSET Positions}

Nothing == [s \in Positions |-> 0]

-----------------------------------------------------------------------------

PayTypeOK ==
    /\ present \subseteq Positions
    /\ earnings \in [Positions -> Amounts]
    /\ slot \in [Payees -> {"null", "pending", "paid"}]
    /\ \A t \in Tips : slot[t] # "pending"
    /\ made \in [Payees -> Nat]
    /\ sent \in [Positions -> Amounts]
    /\ keys \subseteq Payees
    /\ fault \in Faults
    /\ changes \in 0 .. MaxChanges
    /\ stage \in [Releases -> {"idle", "earn", "seats", "transfer", "record",
                               "unclaim", "tips", "done"}]
    /\ todo \in [Releases -> SUBSET Payees]
    /\ due \in [Releases -> [Positions -> Amounts]]
    /\ payee \in [Releases -> Payees]

PayInit ==
    /\ present \in SUBSET Positions
    /\ earnings = Nothing
    /\ slot = [p \in Payees |-> "null"]
    /\ made = [p \in Payees |-> 0]
    /\ sent = Nothing
    /\ keys = {}
    /\ fault \in Faults
    /\ changes = 0
    /\ stage = [c \in Releases |-> "idle"]
    /\ todo = [c \in Releases |-> {}]
    /\ due = [c \in Releases |-> Nothing]
    /\ payee = [c \in Releases |-> 0]

-----------------------------------------------------------------------------
(* The earnings, and the seats to pay.                                     *)

Move(c, label) == stage' = [stage EXCEPT ![c] = label]

\* The seats are taken in order, the lead first.
IsNext(c, s) == s \in todo[c] /\ \A t \in todo[c] : s <= t

Drop(c, p) == todo' = [todo EXCEPT ![c] = @ \ {p}]

\* The call ends; what it keeps for itself is gone.
EndCall(c) ==
    /\ Move(c, "done")
    /\ todo' = [todo EXCEPT ![c] = {}]
    /\ due' = [due EXCEPT ![c] = Nothing]

\* computeCrewEarnings reads the seats that are present and divides the pool.
Begin(c) ==
    /\ stage[c] = "idle"
    /\ Move(c, "earn")
    /\ todo' = [todo EXCEPT ![c] = present]
    /\ due' = [due EXCEPT ![c] =
                 [s \in Positions |-> IF s \in present THEN Cents(present, s) ELSE 0]]
    /\ UNCHANGED <<records, stripe, crew, payee>>

\* It then writes the earnings, seat by seat.
EarnWrite(c, s) ==
    /\ stage[c] = "earn"
    /\ IsNext(c, s)
    /\ earnings' = [earnings EXCEPT ![s] = due[c][s]]
    /\ Drop(c, s)
    /\ UNCHANGED <<slot, stripe, crew, stage, due, payee>>

\* releaseCrewPayouts reads the seats again.  A seat with a transfer id has
\* been paid.
ReadUnpaid(c) ==
    /\ stage[c] = "earn"
    /\ todo[c] = {}
    /\ Move(c, "seats")
    /\ todo' = [todo EXCEPT ![c] = {s \in present : slot[s] # "paid"}]
    /\ due' = [due EXCEPT ![c] = earnings]
    /\ UNCHANGED <<records, stripe, crew, payee>>

-----------------------------------------------------------------------------
(* One transfer per seat, then one per tip.                                *)

\* A seat or a tip whose cleaner has no payout account is left out.
Skip(c, p) ==
    /\ \/ stage[c] = "seats" /\ IsNext(c, p)
       \/ stage[c] = "tips" /\ p \in todo[c]
    /\ Drop(c, p)
    /\ UNCHANGED <<records, stripe, crew, stage, due, payee>>

\* Faulty variant: the update does not ask for a NULL transfer id.
ClaimSeatAnyway(c, s) ==
    /\ stage[c] = "seats"
    /\ IsNext(c, s)
    /\ slot' = [slot EXCEPT ![s] = "pending"]
    /\ payee' = [payee EXCEPT ![c] = s]
    /\ Move(c, "transfer")
    /\ Drop(c, s)
    /\ UNCHANGED <<earnings, stripe, crew, due>>

\* A seat is claimed by a sentinel where the transfer id is still NULL; if it
\* is not, another call pays the seat, and this one goes on.
ClaimSeat(c, s) ==
    /\ stage[c] = "seats"
    /\ IsNext(c, s)
    /\ Drop(c, s)
    /\ \/ /\ slot[s] = "null"
          /\ slot' = [slot EXCEPT ![s] = "pending"]
          /\ payee' = [payee EXCEPT ![c] = s]
          /\ Move(c, "transfer")
       \/ /\ slot[s] # "null"
          /\ UNCHANGED <<slot, payee, stage>>
    /\ UNCHANGED <<earnings, stripe, crew, due>>

TipSelect(c) ==
    /\ stage[c] = "seats"
    /\ todo[c] = {}
    /\ Move(c, "tips")
    /\ todo' = [todo EXCEPT ![c] = {t \in Tips : slot[t] = "null"}]
    /\ UNCHANGED <<records, stripe, crew, due, payee>>

\* A tip is claimed by the very stamp that says it was paid out.
ClaimTip(c, t) ==
    /\ stage[c] = "tips"
    /\ t \in todo[c]
    /\ Drop(c, t)
    /\ \/ /\ slot[t] = "null"
          /\ slot' = [slot EXCEPT ![t] = "paid"]
          /\ payee' = [payee EXCEPT ![c] = t]
          /\ Move(c, "transfer")
       \/ /\ slot[t] # "null"
          /\ UNCHANGED <<slot, payee, stage>>
    /\ UNCHANGED <<earnings, stripe, crew, due>>

\* A tip that was transferred needs no record.
AfterTransfer(p) == IF p \in Tips THEN "tips" ELSE "record"

Transfer(c) ==
    LET p == payee[c]
    IN  /\ p \notin keys
        /\ made' = [made EXCEPT ![p] = @ + 1]
        /\ keys' = keys \union {p}
        /\ sent' = [s \in Positions |->
                      IF s = p /\ made[p] = 0 THEN due[c][s] ELSE sent[s]]

StripePays(c) ==
    /\ stage[c] = "transfer"
    /\ Transfer(c)
    /\ Move(c, AfterTransfer(payee[c]))
    /\ UNCHANGED <<records, crew, todo, due, payee>>

\* A call under a key that Stripe remembers returns the first transfer, if it
\* asks for the same amount.
StripeRepeats(c) ==
    /\ stage[c] = "transfer"
    /\ payee[c] \in keys
    /\ payee[c] \in Positions => due[c][payee[c]] = sent[payee[c]]
    /\ Move(c, AfterTransfer(payee[c]))
    /\ UNCHANGED <<records, stripe, crew, todo, due, payee>>

\* Stripe refuses: no balance, or a remembered key with another amount.
StripeRefuses(c) ==
    /\ stage[c] = "transfer"
    /\ Move(c, "unclaim")
    /\ UNCHANGED <<records, stripe, crew, todo, due, payee>>

AnswerLost(c) ==
    /\ fault = "lost"
    /\ stage[c] = "transfer"
    /\ Transfer(c)
    /\ Move(c, "unclaim")
    /\ UNCHANGED <<records, crew, todo, due, payee>>

RecordSeat(c) ==
    /\ stage[c] = "record"
    /\ slot' = [slot EXCEPT ![payee[c]] = "paid"]
    /\ Move(c, "seats")
    /\ UNCHANGED <<earnings, stripe, crew, todo, due, payee>>

\* Faulty variant: the claim stays although nothing was paid.
UnclaimNothing(c) ==
    /\ stage[c] = "unclaim"
    /\ IF payee[c] \in Tips THEN Move(c, "tips") /\ UNCHANGED <<todo, due>>
                         ELSE EndCall(c)
    /\ UNCHANGED <<records, stripe, crew, payee>>

\* A failed transfer gives its claim up.  A seat's failure ends the call, with
\* the other seats and the tips unpaid; a tip's does not.
Unclaim(c) ==
    /\ stage[c] = "unclaim"
    /\ \/ /\ payee[c] \in Tips
          /\ slot' = [slot EXCEPT ![payee[c]] = "null"]
          /\ Move(c, "tips")
          /\ UNCHANGED <<todo, due>>
       \/ /\ payee[c] \in Positions
          /\ slot' = [slot EXCEPT ![payee[c]] = IF @ = "pending" THEN "null" ELSE @]
          /\ EndCall(c)
    /\ UNCHANGED <<earnings, stripe, crew, payee>>

End(c) ==
    /\ stage[c] = "tips"
    /\ todo[c] = {}
    /\ EndCall(c)
    /\ UNCHANGED <<records, stripe, crew, payee>>

-----------------------------------------------------------------------------
(* What goes on around the calls.                                          *)

\* A seat is accepted, or its cleaner is reported absent or replaced: nothing
\* asks whether the booking is being paid out.
CrewChanges(s) ==
    /\ changes < MaxChanges
    /\ changes' = changes + 1
    /\ present' = (present \union {s}) \ (present \intersect {s})
    /\ UNCHANGED <<records, stripe, fault, stage, todo, due, payee>>

KeyExpires(p) ==
    /\ fault = "expire"
    /\ p \in keys
    /\ keys' = keys \ {p}
    /\ UNCHANGED <<records, made, sent, crew, stage, todo, due, payee>>

-----------------------------------------------------------------------------

Step(c) ==
    \/ Begin(c) \/ ReadUnpaid(c) \/ TipSelect(c) \/ End(c)
    \/ \E s \in Positions : EarnWrite(c, s) \/ ClaimSeat(c, s)
    \/ \E t \in Tips : ClaimTip(c, t)
    \/ \E p \in Payees : Skip(c, p)
    \/ StripePays(c) \/ StripeRepeats(c) \/ StripeRefuses(c) \/ AnswerLost(c)
    \/ RecordSeat(c) \/ Unclaim(c)

Around ==
    \/ \E s \in Positions : CrewChanges(s)
    \/ \E p \in Payees : KeyExpires(p)

PayNext == (\E c \in Releases : Step(c)) \/ Around

PaySpec == PayInit /\ [][PayNext]_payVars

\* A Worker runs its handler to the end.
FairPaySpec == PaySpec /\ \A c \in Releases : WF_payVars(Step(c))

-----------------------------------------------------------------------------
(* Properties.                                                             *)

\* The calls that have claimed p and not yet settled the claim.
Paying(p) == {c \in Releases : payee[c] = p /\ stage[c] \in {"transfer", "record", "unclaim"}}

\* Stripe makes at most one transfer to a seat and for a tip, whatever calls
\* race and are repeated: where a lost answer gives the claim up the key holds,
\* and where the key is forgotten the claim does (crewPayout.ts:28-31).
PaidOnce == \A p \in Payees : made[p] <= 1

\* A seat with a transfer id, and a tip with a paid-out stamp that nobody is
\* paying at the moment, has been transferred.
RecordedIsMade ==
    \A p \in Payees : slot[p] = "paid" /\ Paying(p) = {} => made[p] > 0

\* While the crew stays as it is, the transfers never exceed the pool, and
\* come to all of it once every seat is paid (crewPayout.ts:27-28).
PoolIsConserved ==
    /\ changes = 0 => SumFunction(sent) <= Pool
    /\ changes = 0 /\ present # {} /\ (\A s \in present : slot[s] = "paid")
        => SumFunction(sent) = Pool

\* A seat is not left claimed: it is paid, or free for the next call.
ClaimSettles ==
    \A s \in Positions : slot[s] = "pending" ~> slot[s] # "pending"

=============================================================================
