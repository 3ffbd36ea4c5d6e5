----------------------------- MODULE PriceLedger -----------------------------
(***************************************************************************)
(* The price of one booking before its service: bookings.total_price, the  *)
(* append-only booking_price_ledger that is to explain it, and the amount  *)
(* of its PaymentIntent at Stripe (lib/bookingLedger.ts), with the         *)
(* requests that change the price:                                         *)
(*                                                                         *)
(*   coupon, then member   the discounts of POST /bookings, once a booking *)
(*   smart                 the Smart Entry fee                             *)
(*   addon                 the customer buys an add-on                     *)
(*   aaf                   an admin approves a cleaner's request for a fee *)
(*   delay                 an admin charges the access-delay fee           *)
(*   refresh               a second submit reprices the draft              *)
(*                                                                         *)
(* Most claim something first, then adjust the total, and give the claim   *)
(* back when the adjustment throws:                                        *)
(*                                                                         *)
(*   idle -> read <-> write -> sync -> record (-> note) -> done            *)
(*              any of these -> undo -> done                               *)
(*   idle -> overwrite -> record -> done                        (refresh)  *)
(*                                                                         *)
(* What an event stands for is left out: which coupons are chosen and      *)
(* stacked, who may buy which add-on until when, the decision of a scope   *)
(* review.  One claim of each kind stands for the one that is raced for.   *)
(***************************************************************************)
EXTENDS Integers, FiniteSets

CONSTANTS
    Calls,       \* requests that change the price, each made once
    Intents,     \* the PaymentIntents that may come to exist
    NoIntent,    \* stripe_payment_intent_id IS NULL
    Creating,    \* CLAIM_SENTINEL
    Ops,         \* the kinds of request in an instance
    Quote,       \* the total of the first quote
    NewQuote,    \* the total that a second submit computes
    Amount,      \* claim -> what it adds to the total
    Brackets,    \* ACCESS_DELAY_FEE_SCHEDULE
    Faults,      \* what may fail, a subset of AllFaults
    MaxFaults    \* bound on the kinds of failure in one behaviour

Undoable == {"coupon", "member", "smart"}
Claims   == Undoable \union {"addon", "aaf"}
Events   == Claims \union {"delay", "refresh"}

\* sync: Stripe refuses to update or increment; insert: a ledger row is not
\* written; note: the redemption, or the use of the monthly cap, is not; sum: the
\* SUM of the delay fee's rows is not read; create: Stripe refuses an intent;
\* crash: the Worker that creates one stops.
AllFaults == {"sync", "insert", "note", "sum", "create", "crash"}

ASSUME PriceAssumption ==
    /\ IsFiniteSet(Calls)
    /\ NoIntent \notin Intents
    /\ Creating \notin Intents \union {NoIntent}
    /\ Ops \subseteq Events
    /\ Quote \in Nat /\ NewQuote \in Nat
    /\ Amount \in [Claims -> Int]
    /\ \A o \in Claims : Amount[o] # 0
    /\ Brackets \subseteq Nat
    /\ Faults \subseteq AllFaults
    /\ MaxFaults \in Nat

VARIABLES
    total,       \* bookings.total_price
    ledger,      \* event type -> the SUM of its rows' adjustment_cents
    held,        \* the claims that stand: the coupon's use, the fee and discount
                 \* columns, the add-on's row, the approval
    onBooking,   \* bookings.stripe_payment_intent_id
    intent,      \* intent -> its status and amount at Stripe
    call,        \* request -> where it is and what it has read
    failed,      \* the kinds of failure so far
    unrecorded,  \* history: by what the total changed without a ledger row
    delayFee,    \* history: what the delay requests have added to the total
    raced        \* history: the races so far, a subset of Races

account   == <<unrecorded, delayFee>>
priceVars == <<total, ledger, held, call, account>>

Labels == {"idle", "read", "write", "sync", "record", "note", "undo",
           "overwrite", "done"}

IntentStatuses == {"none", "editable", "authorized", "canceled"}

\* amount: a step after which the intent may ask for another amount than the
\* total; fee: two delay requests at a time, or a row of theirs is lost; claim: an
\* intent replaced for its age, or a claim taken over from a request that goes on.
Races == {"amount", "fee", "claim"}

\* A request for event o that has yet to read the booking, or no longer needs to
\* know what it read.
Stage(o, label, adj) == [op |-> o, pc |-> label, prev |-> 0, adj |-> adj, pid |-> NoIntent]
NoCall == Stage("none", "idle", 0)

PriceInit ==
    /\ total = Quote
    /\ ledger = [e \in Events |-> 0]
    /\ held = {}
    /\ onBooking = NoIntent
    /\ intent = [i \in Intents |-> [status |-> "none", amount |-> 0]]
    /\ call = [c \in Calls |-> NoCall]
    /\ failed = {}
    /\ unrecorded = 0
    /\ delayFee = 0
    /\ raced = {}

May(fault) == fault \in Faults /\ Cardinality(failed \union {fault}) <= MaxFaults
Fail(fault) == May(fault) /\ failed' = failed \union {fault}

Note(race, happened) == raced' = IF happened THEN raced \union {race} ELSE raced

At(c, label) == call[c].pc = label
Goto(c, label) == call' = [call EXCEPT ![c].pc = label]

Enter(c, s) == call' = [call EXCEPT ![c] = s]
Throw(c)  == Enter(c, Stage(call[c].op, "undo", 0))
Over(o)   == Stage(o, "done", 0)
Finish(c) == Enter(c, Over(call[c].op))

-----------------------------------------------------------------------------
(* The claims.                                                             *)

Begun(o) == \E c \in Calls : call[c].op = o
Busy(o)  == \E c \in Calls : call[c].op = o /\ ~At(c, "done")

\* A booking is created once: POST /bookings tries the coupon, then the discount.
Takes(c, o) ==
    /\ At(c, "idle")
    /\ o = "coupon" => ~Begun("coupon") /\ ~Begun("member")
    /\ o = "member" => ~Busy("coupon") /\ ~Begun("member")

\* Faulty variant: the slot is looked at, but not claimed by the same statement.
ClaimAnyway(c, o) ==
    /\ Takes(c, o)
    /\ held' = held \union {o}
    /\ Enter(c, Stage(o, "read", Amount[o]))
    /\ UNCHANGED <<total, ledger, onBooking, intent, failed, account, raced>>

\* One conditional UPDATE or INSERT claims; whoever does not claim is done.
Claim(c, o) ==
    /\ Takes(c, o)
    /\ o \notin held
    /\ held' = held \union {o}
    /\ Enter(c, Stage(o, "read", Amount[o]))
    /\ UNCHANGED <<total, ledger, onBooking, intent, failed, account, raced>>

\* Nothing to claim: it was claimed before, or the customer has no use of a
\* coupon left, or no membership.
NoClaim(c, o) ==
    /\ Takes(c, o)
    /\ o \in held \union {"coupon", "member"}
    /\ Enter(c, Over(o))
    /\ UNCHANGED <<total, ledger, held, onBooking, intent, failed, account, raced>>

\* A request approved without a valid fee stays approved, and free.
ApproveInvalid(c) ==
    /\ Takes(c, "aaf")
    /\ "aaf" \notin held
    /\ held' = held \union {"aaf"}
    /\ Enter(c, Over("aaf"))
    /\ UNCHANGED <<total, ledger, onBooking, intent, failed, account, raced>>

\* sumAccessDelayFeeCents.
DelayCharged == IF ledger["delay"] < 0 THEN 0 ELSE ledger["delay"]

\* Faulty variant: the whole fee of the new bracket on top of the old one.
DelayInFull(c) ==
    /\ At(c, "idle")
    /\ \E fee \in Brackets \ {0} :
          Enter(c, Stage("delay", "read", fee))
    /\ UNCHANGED <<total, ledger, held, onBooking, intent, failed, account, raced>>

\* Only the difference to what the ledger has is charged, or given back; a sum
\* that cannot be read counts as nothing charged so far, which is a failure unless
\* nothing was.
Delay(c) ==
    /\ At(c, "idle")
    /\ \E fee \in Brackets, charged \in {DelayCharged, 0} :
          /\ \/ charged = DelayCharged /\ UNCHANGED failed
             \/ charged = 0 /\ DelayCharged # 0 /\ Fail("sum")
          /\ Enter(c, IF fee = charged THEN Over("delay")
                                       ELSE Stage("delay", "read", fee - charged))
    /\ Note("fee", Busy("delay"))
    /\ UNCHANGED <<total, ledger, held, onBooking, intent, account>>

-----------------------------------------------------------------------------
(* applyBookingPriceAdjustment.                                            *)

NewTotal(c) == call[c].prev + call[c].adj

\* Faulty variant: any total is accepted.
ReadAnyway(c) ==
    /\ At(c, "read")
    /\ Enter(c, [call[c] EXCEPT !.prev = total, !.pid = onBooking, !.pc = "write"])
    /\ UNCHANGED <<total, ledger, held, onBooking, intent, failed, account, raced>>

\* The total and the intent are read; a total below zero is refused.
Read(c) ==
    /\ At(c, "read")
    /\ IF total + call[c].adj < 0
         THEN Throw(c)
         ELSE Enter(c, [call[c] EXCEPT !.prev = total, !.pid = onBooking, !.pc = "write"])
    /\ UNCHANGED <<total, ledger, held, onBooking, intent, failed, account, raced>>

\* Another intent is on the booking by now, or another request has changed the
\* total and not yet told Stripe.
OutOfStep(c) ==
    \/ onBooking \in Intents /\ call[c].pid # onBooking
    \/ \E d \in Calls \ {c} : At(d, "sync")

\* Faulty variant: AND total_price = previousTotal dropped.
WriteAnyway(c) ==
    /\ At(c, "write")
    /\ total' = NewTotal(c)
    /\ delayFee' = IF call[c].op = "delay" THEN delayFee + call[c].adj ELSE delayFee
    /\ Goto(c, "sync")
    /\ Note("amount", OutOfStep(c))
    /\ UNCHANGED <<ledger, held, onBooking, intent, failed, unrecorded>>

\* The total is written if it is still the one read ...
Write(c) ==
    /\ At(c, "write")
    /\ total = call[c].prev
    /\ total' = NewTotal(c)
    /\ delayFee' = IF call[c].op = "delay" THEN delayFee + call[c].adj ELSE delayFee
    /\ Goto(c, "sync")
    /\ Note("amount", OutOfStep(c))
    /\ UNCHANGED <<ledger, held, onBooking, intent, failed, unrecorded>>

\* ... and read again otherwise.  The code gives up after its fifth loss; how
\* many it has had is not counted here, so it may give up after any.
WriteLost(c) ==
    /\ At(c, "write")
    /\ total # call[c].prev
    /\ \/ Enter(c, Stage(call[c].op, "read", call[c].adj))
       \/ Throw(c)
    /\ UNCHANGED <<total, ledger, held, onBooking, intent, failed, account, raced>>

\* What Stripe lets the request change: an amount not yet authorized, or an
\* authorization that is too low.
Changes(c) ==
    /\ call[c].pid \in Intents
    /\ \/ intent[call[c].pid].status = "editable"
       \/ /\ intent[call[c].pid].status = "authorized"
          /\ call[c].adj > 0
          /\ NewTotal(c) > intent[call[c].pid].amount

\* Faulty variant: only an increase is passed on to Stripe.
SyncIncrease(c) ==
    /\ At(c, "sync")
    /\ \/ /\ Changes(c) /\ call[c].adj > 0
          /\ intent' = [intent EXCEPT ![call[c].pid].amount = NewTotal(c)]
       \/ ~(Changes(c) /\ call[c].adj > 0) /\ UNCHANGED intent
    /\ Enter(c, Stage(call[c].op, "record", call[c].adj))
    /\ UNCHANGED <<total, ledger, held, onBooking, failed, account, raced>>

\* The intent is told, if there is one; what Stripe answers changes nothing.
Sync(c) ==
    /\ At(c, "sync")
    /\ \/ /\ Changes(c)
          /\ intent' = [intent EXCEPT ![call[c].pid].amount = NewTotal(c)]
          /\ UNCHANGED failed
       \/ ~Changes(c) /\ UNCHANGED <<intent, failed>>
       \/ Changes(c) /\ Fail("sync") /\ UNCHANGED intent
    /\ Enter(c, Stage(call[c].op, "record", call[c].adj))
    /\ UNCHANGED <<total, ledger, held, onBooking, account, raced>>

\* recordLedgerEntry.
Record(c) ==
    /\ At(c, "record")
    /\ ledger' = [ledger EXCEPT ![call[c].op] = @ + call[c].adj]
    /\ IF call[c].op \in {"coupon", "member"}
         THEN Enter(c, Stage(call[c].op, "note", 0))
         ELSE Finish(c)
    /\ UNCHANGED <<total, held, onBooking, intent, failed, account, raced>>

\* A row that cannot be written stops an adjustment, but not a refresh.
RecordFails(c) ==
    /\ At(c, "record")
    /\ Fail("insert")
    /\ unrecorded' = unrecorded + call[c].adj
    /\ IF call[c].op = "refresh" THEN Finish(c) ELSE Throw(c)
    /\ Note("fee", call[c].op = "delay")
    /\ UNCHANGED <<total, ledger, held, onBooking, intent, delayFee>>

\* coupon_redemptions, and recordMembershipDiscount.
NoteUse(c) ==
    /\ At(c, "note")
    /\ \/ Finish(c) /\ UNCHANGED failed
       \/ Fail("note") /\ Throw(c)
    /\ UNCHANGED <<total, ledger, held, onBooking, intent, account, raced>>

\* Faulty variant: a claim that is kept when the adjustment throws.
UndoNothing(c) ==
    /\ At(c, "undo")
    /\ Finish(c)
    /\ UNCHANGED <<total, ledger, held, onBooking, intent, failed, account, raced>>

\* The catch blocks: a use, a fee or a discount is given back; an add-on, an
\* approval and the delay fee have none.
Undo(c) ==
    /\ At(c, "undo")
    /\ held' = held \ ({call[c].op} \intersect Undoable)
    /\ Finish(c)
    /\ UNCHANGED <<total, ledger, onBooking, intent, failed, account, raced>>

-----------------------------------------------------------------------------
(* The second submit of a draft.                                           *)

RefreshRead(c) ==
    /\ At(c, "idle")
    /\ Enter(c, [op |-> "refresh", pc |-> "overwrite", prev |-> total, adj |-> 0,
                 pid |-> NoIntent])
    /\ UNCHANGED <<total, ledger, held, onBooking, intent, failed, account, raced>>

\* The new quote is written whatever the total is by now, and no intent is told.
Overwrite(c) ==
    /\ At(c, "overwrite")
    /\ total' = NewQuote
    /\ unrecorded' = unrecorded + call[c].prev - total
    /\ Enter(c, IF NewQuote = call[c].prev
                  THEN Over("refresh")
                  ELSE Stage("refresh", "record", NewQuote - call[c].prev))
    /\ Note("amount", onBooking \in Intents)
    /\ UNCHANGED <<ledger, held, onBooking, intent, failed, delayFee>>

-----------------------------------------------------------------------------
Adjust(c) ==
    \/ Read(c) \/ Write(c) \/ WriteLost(c) \/ Sync(c)
    \/ Record(c) \/ RecordFails(c) \/ NoteUse(c) \/ Undo(c)

CallNext(c) ==
    \/ \E o \in Claims : o \in Ops /\ (Claim(c, o) \/ NoClaim(c, o))
    \/ "aaf" \in Ops /\ ApproveInvalid(c)
    \/ "delay" \in Ops /\ Delay(c)
    \/ "refresh" \in Ops /\ (RefreshRead(c) \/ Overwrite(c))
    \/ Adjust(c)
=============================================================================
