--------------------------------- MODULE Tips ---------------------------------
(***************************************************************************)
(* The customer's tip for one completed booking (routes/tips.ts): a        *)
(* PaymentIntent of its own and one booking_tips row per member who is     *)
(* tipped - the cleaner of a solo booking, or everyone in its crew -, the  *)
(* customer's card, Stripe's events about it (routes/stripe-webhook.ts)    *)
(* and the part of release-payout that passes the tip on.                  *)
(*                                                                         *)
(*   submit:   idle -> claim* -> create -> store -> done                   *)
(*                               create -> fail -> done                    *)
(*   release:  idle -> pay* -> done                                        *)
(*                                                                         *)
(* A submit creates one intent at most, which bears its name here.  The    *)
(* booking and its crew do not change; an amount stands for its shares.    *)
(***************************************************************************)
EXTENDS Naturals, FiniteSets

CONSTANTS
    Lead,       \* the cleaner of a solo booking, the lead of a crew
    Crew,       \* the members of the crew, the lead among them
    Kinds,      \* the kinds of booking in an instance
    Submits,    \* calls of POST /tips
    NoIntent,   \* stripe_payment_intent_id IS NULL
    Releases,   \* calls of release-payout
    Amounts,    \* the amounts a customer may tip
    Faults,     \* what may fail, a subset of AllFaults
    MaxFaults   \* bound on the kinds of failure in one behaviour

\* create: Stripe refuses the intent; lost: it makes the intent, or a transfer,
\* and the call throws all the same; transfer: it refuses a transfer; expire: it
\* forgets an idempotency key, after a day; crash: the Worker of a submit or an
\* event stops.
AllFaults == {"create", "lost", "transfer", "expire", "crash"}

ASSUME TipsAssumption ==
    /\ Lead \in Crew
    /\ NoIntent \notin Submits
    /\ Kinds \subseteq {"solo", "crew"}
    /\ Amounts \subseteq Nat \ {0}
    /\ Faults \subseteq AllFaults
    /\ MaxFaults \in Nat

Intents == Submits

VARIABLES
    kind,      \* the kind of the booking
    row,       \* member -> status, amount, intent and paid_out_at of the tip
    intent,    \* intent -> what Stripe knows of it
    key,       \* the intent that the idempotency key stands for
    event,     \* Stripe's events about each intent, and what became of them
    submit,    \* submit -> where it is, its amount, the rows it has claimed
    release,   \* release -> where it is, what it read, the member it pays
    released,  \* the payouts row of a solo booking was claimed and paid
    moved,     \* member -> the amounts transferred
    failed     \* the kinds of failure so far

vars == <<kind, row, intent, key, event, submit, release, released, moved, failed>>

stripe == <<intent, key, event>>
payout == <<release, released, moved>>

Members == IF kind = "solo" THEN {Lead} ELSE Crew

May(fault) == fault \in Faults /\ Cardinality(failed \union {fault}) <= MaxFaults
Fail(fault) == May(fault) /\ failed' = failed \union {fault}

Init ==
    /\ kind \in Kinds
    /\ row = [m \in Crew |-> [status |-> "none", amount |-> 0, intent |-> NoIntent, paid |-> FALSE]]
    /\ intent = [i \in Intents |-> [status |-> "none", amount |-> 0, rows |-> {}, declined |-> FALSE]]
    /\ key = NoIntent
    /\ event = [i \in Intents |-> "none"]
    /\ submit = [s \in Submits |->
                   [pc |-> "idle", amount |-> 0, todo |-> {}, got |-> {}, intent |-> NoIntent]]
    /\ release = [r \in Releases |-> [pc |-> "idle", todo |-> {}, at |-> Lead, amount |-> 0]]
    /\ released = FALSE
    /\ moved = [m \in Crew |-> {}]
    /\ failed = {}

-----------------------------------------------------------------------------
(* POST /tips.                                                             *)

At(s, label) == submit[s].pc = label
Turn(s, state) == submit' = [submit EXCEPT ![s] = state]

\* Nothing a request knew is of use after its end, but the intent it answered with.
Over(s, i) == Turn(s, [submit[s] EXCEPT !.pc = "done", !.todo = {}, !.got = {}, !.intent = i])

\* Faulty variant: a new attempt takes over a pending row as well.
FreeUnlessPaid(m) == row[m].status # "succeeded"

\* A row that a new attempt may take.
Free(m) == row[m].status \in {"none", "failed"}

\* The members of a crew are read, and whether one of them has a live tip; the
\* cleaner of a solo booking has a single row, which is claimed unread.
Begin(s) ==
    /\ At(s, "idle")
    /\ IF kind = "crew" /\ \E m \in Members : ~Free(m)
         THEN Over(s, NoIntent)
         ELSE \E a \in Amounts :
                 Turn(s, [submit[s] EXCEPT !.pc = "claim", !.amount = a, !.todo = Members])
    /\ UNCHANGED <<kind, row, stripe, payout, failed>>

\* What a submit goes on with after it looked at the row of m.
Looked(s, m, got) ==
    IF submit[s].todo # {m}
    THEN Turn(s, [submit[s] EXCEPT !.todo = @ \ {m}, !.got = got])
    ELSE IF got = {} THEN Over(s, NoIntent)
         ELSE Turn(s, [submit[s] EXCEPT !.pc = "create", !.todo = {}, !.got = got])

\* INSERT ... ON CONFLICT DO UPDATE ... WHERE status IN ('failed', 'refunded'): the
\* row keeps the intent of the attempt before.
ClaimRow(s, m) ==
    /\ At(s, "claim")
    /\ m \in submit[s].todo
    /\ IF Free(m)
         THEN /\ row' = [row EXCEPT ![m].status = "pending", ![m].amount = submit[s].amount]
              /\ Looked(s, m, submit[s].got \union {m})
         ELSE /\ Looked(s, m, submit[s].got)
              /\ UNCHANGED row
    /\ UNCHANGED <<kind, stripe, payout, failed>>

MakesIntent(s) ==
    /\ key = NoIntent
    /\ key' = s
    /\ intent' = [intent EXCEPT ![s] = [status |-> "open", amount |-> submit[s].amount,
                                       rows |-> submit[s].got, declined |-> FALSE]]
    /\ UNCHANGED event

Goto(s, label) == Turn(s, [submit[s] EXCEPT !.pc = label])
Stores(s, i)   == Turn(s, [submit[s] EXCEPT !.pc = "store", !.intent = i])

\* Faulty variant: the call bears no idempotency key.
CreateUnkeyed(s) ==
    /\ At(s, "create")
    /\ intent' = [intent EXCEPT ![s] = [status |-> "open", amount |-> submit[s].amount,
                                        rows |-> submit[s].got, declined |-> FALSE]]
    /\ Stores(s, s)
    /\ UNCHANGED <<kind, row, key, event, payout, failed>>

\* Stripe makes an intent ...
Create(s) ==
    /\ At(s, "create")
    /\ MakesIntent(s)
    /\ Stores(s, s)
    /\ UNCHANGED <<kind, row, payout, failed>>

\* The call asks for what the remembered one asked for.
SameCall(s) ==
    /\ intent[key].amount = submit[s].amount
    /\ intent[key].rows = submit[s].got

\* ... or returns the one it made under the key before, and refuses another call
\* under that key.
Replay(s) ==
    /\ At(s, "create")
    /\ key # NoIntent
    /\ IF SameCall(s) THEN Stores(s, key) ELSE Goto(s, "fail")
    /\ UNCHANGED <<kind, row, stripe, payout, failed>>

CreateFails(s) ==
    /\ At(s, "create")
    /\ \/ Fail("create") /\ UNCHANGED stripe
       \/ Fail("lost") /\ MakesIntent(s)
    /\ Goto(s, "fail")
    /\ UNCHANGED <<kind, row, payout>>

\* Faulty variant: the call answers, and leaves its rows pending.
MarkNothing(s) ==
    /\ At(s, "fail")
    /\ Over(s, NoIntent)
    /\ UNCHANGED <<kind, row, stripe, payout, failed>>

\* The rows are marked failed by id, whatever they say by now.
MarkFailed(s) ==
    /\ At(s, "fail")
    /\ row' = [m \in Crew |->
                 IF m \in submit[s].got THEN [row[m] EXCEPT !.status = "failed"] ELSE row[m]]
    /\ Over(s, NoIntent)
    /\ UNCHANGED <<kind, stripe, payout, failed>>

\* The rows get the intent, and the customer its client secret.
Store(s) ==
    /\ At(s, "store")
    /\ row' = [m \in Crew |->
                 IF m \in submit[s].got THEN [row[m] EXCEPT !.intent = submit[s].intent] ELSE row[m]]
    /\ Over(s, submit[s].intent)
    /\ UNCHANGED <<kind, stripe, payout, failed>>

\* A submit whose Worker stops leaves its rows as they are.
Crash(s) ==
    /\ ~At(s, "idle") /\ ~At(s, "done")
    /\ Fail("crash")
    /\ Over(s, NoIntent)
    /\ UNCHANGED <<kind, row, stripe, payout>>

-----------------------------------------------------------------------------
(* The customer's card, and Stripe's events.                               *)

\* The customer has an intent's client secret once a submit has answered with it,
\* and keeps it: an open page takes another card after a decline.
Known(i) == \E s \in Submits : At(s, "done") /\ submit[s].intent = i

\* The row of m waits for intent i; a submit is at work on it.
Awaits(m, i) == row[m].intent = i /\ row[m].status = "pending"
Owned(m) == \E s \in Submits : m \in submit[s].got

Pay(i) ==
    /\ intent[i].status = "open"
    /\ Known(i)
    /\ intent' = [intent EXCEPT ![i].status = "charged"]
    /\ event' = [event EXCEPT ![i] = "sent"]
    /\ UNCHANGED <<kind, row, key, submit, payout, failed>>

Decline(i) ==
    /\ intent[i].status = "open"
    /\ Known(i)
    /\ intent' = [intent EXCEPT ![i].declined = TRUE]
    /\ UNCHANGED <<kind, row, key, event, submit, payout, failed>>

KeyExpires ==
    /\ key # NoIntent
    /\ Fail("expire")
    /\ key' = NoIntent
    /\ UNCHANGED <<kind, row, intent, event, submit, payout>>

\* UPDATE booking_tips ... WHERE stripe_payment_intent_id = i AND status = 'pending'.
Mark(i, status) ==
    row' = [m \in Crew |->
              IF Awaits(m, i) THEN [row[m] EXCEPT !.status = status] ELSE row[m]]

\* payment_intent.payment_failed: one for each card that was declined, and nobody
\* knows how many of them are still on their way.
HandleFailed(i) ==
    /\ intent[i].declined
    /\ Mark(i, "failed")
    /\ UNCHANGED <<kind, stripe, submit, payout, failed>>

\* payment_intent.succeeded: delivered at least once, at any later time, the insert
\* into stripe_events makes it count once ...
Receive(i) ==
    /\ event[i] = "sent"
    /\ event' = [event EXCEPT ![i] = "received"]
    /\ UNCHANGED <<kind, row, intent, key, submit, payout, failed>>

HandleSucceeded(i) ==
    /\ event[i] = "received"
    /\ event' = [event EXCEPT ![i] = "handled"]
    /\ Mark(i, "succeeded")
    /\ UNCHANGED <<kind, intent, key, submit, payout, failed>>

\* ... and an event whose handling fails is not handled again.
EventLost(i) ==
    /\ event[i] = "received"
    /\ Fail("crash")
    /\ event' = [event EXCEPT ![i] = "lost"]
    /\ UNCHANGED <<kind, row, intent, key, submit, payout>>

-----------------------------------------------------------------------------
(* release-payout, after it has paid the cleaner or the crew.              *)

\* Faulty variant: status = 'succeeded' dropped.
UnpaidWhatever(m) == row[m].status # "none" /\ ~row[m].paid

Unpaid(m) == row[m].status = "succeeded" /\ ~row[m].paid

To(r, state) == release' = [release EXCEPT ![r] = state]

\* Only the release that claims the payouts row of a solo booking gets here, and
\* any release of a crew.  The rows are read, with their amounts.
Select(r) ==
    /\ release[r].pc = "idle"
    /\ kind = "solo" => ~released
    /\ released' = (kind = "solo")
    /\ To(r, [release[r] EXCEPT !.pc = "pay", !.todo = {<<m, row[m].amount>> : m \in {n \in Members : Unpaid(n)}}])
    /\ UNCHANGED <<kind, row, stripe, submit, moved, failed>>

\* A hold or a resolved dispute lets a solo booking be released again.
Reopen ==
    /\ released
    /\ released' = FALSE
    /\ UNCHANGED <<kind, row, stripe, submit, release, moved, failed>>

\* paid_out_at is set where it is NULL, and the transfer called for.
ClaimTip(r, tip) ==
    /\ release[r].pc = "pay"
    /\ tip \in release[r].todo
    /\ LET m == tip[1]
       IN  IF row[m].paid
           THEN /\ To(r, [release[r] EXCEPT !.todo = @ \ {tip}])
                /\ UNCHANGED row
           ELSE /\ row' = [row EXCEPT ![m].paid = TRUE]
                /\ To(r, [release[r] EXCEPT !.pc = "transfer", !.todo = @ \ {tip},
                                            !.at = m, !.amount = tip[2]])
    /\ UNCHANGED <<kind, stripe, submit, released, moved, failed>>

Transfer(r) == moved' = [moved EXCEPT ![release[r].at] = @ \union {release[r].amount}]

\* The key of a tip's transfer is the row's id: a transfer made before is returned,
\* if it was of the same amount.
TipPaid(r) ==
    /\ release[r].pc = "transfer"
    /\ moved[release[r].at] \subseteq {release[r].amount}
    /\ Transfer(r)
    /\ To(r, [release[r] EXCEPT !.pc = "pay"])
    /\ UNCHANGED <<kind, row, stripe, submit, released, failed>>

\* The claim is given up when the call throws.
TipFails(r) ==
    /\ release[r].pc = "transfer"
    /\ \/ Fail("transfer") /\ UNCHANGED moved
       \/ moved[release[r].at] \subseteq {release[r].amount} /\ Fail("lost") /\ Transfer(r)
       \/ ~(moved[release[r].at] \subseteq {release[r].amount}) /\ UNCHANGED <<moved, failed>>
    /\ To(r, [release[r] EXCEPT !.pc = "unclaim"])
    /\ UNCHANGED <<kind, row, stripe, submit, released>>

Unclaim(r) ==
    /\ release[r].pc = "unclaim"
    /\ row' = [row EXCEPT ![release[r].at].paid = FALSE]
    /\ To(r, [release[r] EXCEPT !.pc = "pay"])
    /\ UNCHANGED <<kind, stripe, submit, released, moved, failed>>

-----------------------------------------------------------------------------
SubmitStep(s) ==
    \/ Begin(s) \/ Create(s) \/ Replay(s) \/ CreateFails(s)
    \/ MarkFailed(s) \/ Store(s) \/ Crash(s)
    \/ \E m \in Crew : ClaimRow(s, m)

CardStep(i) ==
    \/ Pay(i) \/ Decline(i)
    \/ HandleFailed(i) \/ Receive(i) \/ HandleSucceeded(i) \/ EventLost(i)

ReleaseStep(r) ==
    \/ Select(r) \/ TipPaid(r) \/ TipFails(r) \/ Unclaim(r)
    \/ \E tip \in release[r].todo : ClaimTip(r, tip)

Next ==
    \/ \E s \in Submits : SubmitStep(s)
    \/ \E i \in Intents : CardStep(i)
    \/ \E r \in Releases : ReleaseStep(r)
    \/ KeyExpires \/ Reopen

Spec == Init /\ [][Next]_vars

-----------------------------------------------------------------------------
(* Properties.                                                             *)

Amount == Amounts \union {0}
Named  == Intents \union {NoIntent}

RowStates     == [status : {"none", "pending", "succeeded", "failed"}, amount : Amount,
                  intent : Named, paid : BOOLEAN]
IntentStates  == [status : {"none", "open", "charged"}, amount : Amount,
                  rows : SUBSET Crew, declined : BOOLEAN]
SubmitStates  == [pc : {"idle", "claim", "create", "store", "fail", "done"}, amount : Amount,
                  todo : SUBSET Crew, got : SUBSET Crew, intent : Named]
ReleaseStates == [pc : {"idle", "pay", "transfer", "unclaim"},
                  todo : SUBSET (Crew \X Amount), at : Crew, amount : Amount]

\* Every variable stays in its type; the status of a tip is one that the column's
\* check allows (none stands for the missing row).
TypeOK ==
    /\ kind \in Kinds
    /\ row \in [Crew -> RowStates]
    /\ intent \in [Intents -> IntentStates]
    /\ key \in Named
    /\ event \in [Intents -> {"none", "sent", "received", "handled", "lost"}]
    /\ submit \in [Submits -> SubmitStates]
    /\ release \in [Releases -> ReleaseStates]
    /\ released \in BOOLEAN
    /\ moved \in [Crew -> SUBSET Amount]
    /\ failed \subseteq AllFaults

Charged == {i \in Intents : intent[i].status = "charged"}
AtFirstTry == \A i \in Intents : ~intent[i].declined

\* Two submits of a tip, one after the other or at once, with a failed or lost
\* call between them, never take the tip from the card twice, as long as Stripe
\* remembers the idempotency key: a retry gets the intent that exists (tips.ts).
OneCharge == "expire" \notin failed => \A i, j \in Charged : i = j

\* When no card was declined, an intent that was charged and whose event was
\* handled has settled every row it was made for: no other submit took one of them
\* over and no failed attempt marked one (routes/tips.ts, stripe-webhook.ts).
ChargeIsSettled ==
    AtFirstTry =>
        \A i \in Charged : event[i] = "handled" =>
            \A m \in intent[i].rows : row[m].status = "succeeded"

\* A member is sent a tip only from a charge that was made for that member's row,
\* whatever was declined, retried, lost or late (routes/payments.ts).
TipIsBacked == \A m \in Crew : moved[m] # {} => \E i \in Charged : m \in intent[i].rows

\* A pending row blocks every other tip of the booking.  If no Worker stopped and no
\* card was declined, then a submit is still at work on it, or the customer can
\* still pay its intent, or the event that settles it is on its way.
PendingCanSettle ==
    AtFirstTry /\ "crash" \notin failed =>
        \A m \in Crew : row[m].status = "pending" /\ ~Owned(m) =>
            \E i \in Intents : /\ row[m].intent = i
                               /\ \/ intent[i].status = "open"
                                  \/ event[i] \in {"sent", "received"}

=============================================================================
