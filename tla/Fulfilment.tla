----------------------------- MODULE Fulfilment -----------------------------
(***************************************************************************)
(* One solo booking from acceptance to its money: the cleaner's day of     *)
(* service (routes/dayOfService.ts), the capture of the authorized charge  *)
(* (the cron of index.ts and routes/adminAutomation.ts), the refund        *)
(* endpoint of routes/payments.ts and the Stripe events of                 *)
(* routes/stripe-webhook.ts.  Others write the same row and charge the     *)
(* same card: an approved refusal (lib/scopeReviewEngine.ts), the          *)
(* customer's cancellation (routes/bookings.ts), the deletion of the       *)
(* account (routes/auth.ts), the operator's job editor (routes/admin.ts)   *)
(* and every staffing call (lib/assignment.ts).                            *)
(*                                                                         *)
(* All of them read and write bookings.status, each SQL statement and each *)
(* Stripe call on its own, so a request is a process:                      *)
(*                                                                         *)
(*   a tap of the cleaner   idle -> route | clean | finish -> idle         *)
(*                          idle -> complete -> pack -> idle               *)
(*   a capture              idle -> retrieve -> claim -> capture           *)
(*                               -> record | release -> idle               *)
(*   a refund               idle -> inspect -> void -> cancel (-> revert)  *)
(*                               -> idle                                   *)
(*                               inspect -> claimrefund -> refund -> idle  *)
(*   a refusal              idle -> asked -> look (-> take | excess)       *)
(*                               -> close -> idle                          *)
(*   a cancellation         idle -> walk -> idle                           *)
(***************************************************************************)
EXTENDS Naturals, FiniteSets

CONSTANTS
    Taps,       \* requests of the booking's cleaner
    Capturers,  \* the capture cron and the admin's capture routes
    Refunders,  \* requests to POST /payments/refund, for the whole amount
    Refusals,   \* the cleaner's requests to refuse the job
    Cancellers, \* the customer's requests to cancel
    Writers,    \* who else writes bookings.status, a subset of AllWriters
    Faults,     \* the Stripe calls that may fail, a subset of AllFaults
    MaxFaults,  \* bound on the kinds of failure in one behaviour
    MaxCalls    \* bound on the calls of Refusals, Cancellers and Writers

AllWriters == {"deletion", "operator", "staffing"}

\* capture, void, refund: the call is refused; answer: a capture takes place
\* and its answer is lost.
AllFaults == {"capture", "answer", "void", "refund"}

Processes ==
    Taps \union Capturers \union Refunders \union Refusals \union Cancellers

ASSUME FulfilmentAssumption ==
    /\ Taps \intersect Capturers = {}
    /\ (Taps \union Capturers) \intersect (Refunders \union Refusals \union Cancellers) = {}
    /\ Refunders \intersect (Refusals \union Cancellers) = {}
    /\ Refusals \intersect Cancellers = {}
    /\ Writers \subseteq AllWriters
    /\ Faults \subseteq AllFaults
    /\ MaxFaults \in Nat
    /\ MaxCalls \in Nat

Statuses ==
    {"cleaner_accepted", "in_progress", "completed", "disputed", "refunded",
     "cancelled_by_customer", "cancelled_by_cleaner", "matching",
     "offered_to_cleaner"}

\* The statuses that say something about the money.
Closing == {"completed", "refunded", "cancelled_by_customer"}

DayStatuses ==
    {"none", "en_route", "arrived", "in_progress", "awaiting_checkout",
     "completed"}

\* isValidTransition, for the three targets these handlers ask about.
CompletableFrom == {"in_progress", "disputed"}
RefundableFrom ==
    {"cleaner_accepted", "completed", "cancelled_by_customer",
     "cancelled_by_cleaner", "disputed"}
CancellableFrom == {"matching", "offered_to_cleaner"}

\* The statuses in which start-clean leaves the booking alone.
ClosedToStart == {"completed", "cancelled_by_customer", "refunded", "disputed"}

VARIABLES
    status,    \* bookings.status
    day,       \* bookings.day_status
    arrived,   \* bookings.arrival_verified_at IS NOT NULL
    finished,  \* bookings.completed_at IS NOT NULL
    package,   \* there is a job_completion_packages row
    payment,   \* payments.status, or "absent"
    intent,    \* the status of the PaymentIntent at Stripe
    charge,    \* which idempotency key Stripe has captured it under: a
               \* "service" capture's, a "refusal" request's, or "none"
    refunded,  \* Stripe has refunded the whole charge
    event,     \* how far Stripe's events on this charge have come
    unfounded, \* (history) closing statuses that a step has written which
               \* did not do what they stand for
    pc,        \* where each process is
    saw,       \* the bookings.status it has read and still goes by, or "none"
    failed,    \* the Stripe calls that have failed, each at most once
    calls      \* how many calls have come from the others

vars == <<status, day, arrived, finished, package, payment, intent, charge,
          refunded, event, unfounded, pc, saw, failed, calls>>

service == <<day, arrived, finished, package>>
stripe  == <<intent, charge, refunded>>
money   == <<payment, intent, charge, refunded>>
bounds  == <<failed, calls>>

TapLabels     == {"idle", "route", "clean", "finish", "complete", "pack"}
CaptureLabels == {"idle", "retrieve", "claim", "capture", "record", "release"}
RefundLabels  == {"idle", "inspect", "void", "cancel", "revert",
                  "claimrefund", "refund"}
RefusalLabels == {"idle", "asked", "look", "take", "excess", "close"}
CancelLabels  == {"idle", "walk"}

Labels == TapLabels \union CaptureLabels \union RefundLabels
          \union RefusalLabels \union CancelLabels

TypeOK ==
    /\ status \in Statuses
    /\ day \in DayStatuses
    /\ arrived \in BOOLEAN /\ finished \in BOOLEAN /\ package \in BOOLEAN
    /\ payment \in {"absent", "capturing", "captured", "refunded"}
    /\ intent \in {"requires_capture", "succeeded", "canceled"}
    /\ charge \in {"none", "service", "refusal"}
    /\ (intent = "succeeded") <=> (charge # "none")
    /\ refunded \in BOOLEAN
    /\ unfounded \subseteq Closing
    /\ event \in [{"succeeded", "disputed", "refunded"} ->
                    {"unsent", "sent", "staffing", "handled"}]
    /\ pc \in [Processes -> Labels]
    /\ saw \in [Processes -> Statuses \union {"none"}]
    /\ \A r \in Refunders : pc[r] # "idle" => saw[r] # "none"
    /\ failed \subseteq Faults
    /\ calls \in 0..MaxCalls

\* A cleaner has accepted, and the customer's card is authorized; the customer
\* may have asked to cancel just before.
Init ==
    /\ status = "cleaner_accepted"
    /\ day = "none"
    /\ arrived = FALSE /\ finished = FALSE /\ package = FALSE
    /\ payment = "absent"
    /\ intent = "requires_capture"
    /\ charge = "none"
    /\ refunded = FALSE
    /\ unfounded = {}
    /\ event = [e \in {"succeeded", "disputed", "refunded"} |-> "unsent"]
    /\ pc \in {f \in [Processes -> {"idle", "walk"}] :
                  \A p \in Processes \ Cancellers : f[p] = "idle"}
    /\ saw = [p \in Processes |-> "none"]
    /\ failed = {}
    /\ calls = 0

Step(p, from, to) == pc[p] = from /\ pc' = [pc EXCEPT ![p] = to]

Read(p) == saw' = [saw EXCEPT ![p] = status]

Forget(p) == saw' = [saw EXCEPT ![p] = "none"]

Fail(fault) ==
    /\ fault \in Faults \ failed
    /\ Cardinality(failed) < MaxFaults
    /\ failed' = failed \union {fault}

Called == calls < MaxCalls /\ calls' = calls + 1

-----------------------------------------------------------------------------
(* The cleaner's day: every handler reads the booking, checks it and then  *)
(* writes; only start-clean and complete look again when they write.       *)

StartRoute(t) ==
    /\ status = "cleaner_accepted"
    /\ day \in {"none", "en_route"}
    /\ Step(t, "idle", "route")
    /\ UNCHANGED <<status, service, money, event, unfounded, saw, bounds>>

RouteWrite(t) ==
    /\ Step(t, "route", "idle")
    /\ day' = "en_route"
    /\ UNCHANGED <<status, arrived, finished, package, money, event, unfounded, saw, bounds>>

\* A location ping near the address.
Arrive(t) ==
    /\ pc[t] = "idle"
    /\ ~arrived
    /\ arrived' = TRUE
    /\ day' = "arrived"
    /\ UNCHANGED <<status, finished, package, money, event, unfounded, pc, saw, bounds>>

StartClean(t) ==
    /\ arrived
    /\ day = "arrived"
    /\ Step(t, "idle", "clean")
    /\ UNCHANGED <<status, service, money, event, unfounded, saw, bounds>>

CleanWrite(t) ==
    /\ Step(t, "clean", "idle")
    /\ \/ /\ status \notin ClosedToStart
          /\ status' = "in_progress"
          /\ day' = "in_progress"
       \/ /\ status \in ClosedToStart
          /\ UNCHANGED <<status, day>>
    /\ UNCHANGED <<arrived, finished, package, money, event, unfounded, saw, bounds>>

FinishClean(t) ==
    /\ day = "in_progress"
    /\ Step(t, "idle", "finish")
    /\ UNCHANGED <<status, service, money, event, unfounded, saw, bounds>>

FinishWrite(t) ==
    /\ Step(t, "finish", "idle")
    /\ day' = "awaiting_checkout"
    /\ UNCHANGED <<status, arrived, finished, package, money, event, unfounded, saw, bounds>>

Complete(t) ==
    /\ day = "awaiting_checkout"
    /\ status \in CompletableFrom
    /\ Step(t, "idle", "complete")
    /\ Read(t)
    /\ UNCHANGED <<status, service, money, event, unfounded, bounds>>

CompleteWrite(t) ==
    /\ Step(t, "complete", "pack")
    /\ \/ /\ status = saw[t]
          /\ status' = "completed"
          /\ day' = "completed"
          /\ finished' = TRUE
       \/ /\ status # saw[t]
          /\ UNCHANGED <<status, day, finished>>
    /\ Forget(t)
    /\ UNCHANGED <<arrived, package, money, event, unfounded, bounds>>

\* The package is inserted whether or not the booking was completed.
CompletePack(t) ==
    /\ Step(t, "pack", "idle")
    /\ package' = TRUE
    /\ UNCHANGED <<status, day, arrived, finished, money, event, unfounded, saw, bounds>>

-----------------------------------------------------------------------------
(* Capturing the charge of a completed booking.                            *)

\* Faulty variant: the selection takes a service that is still going on.
CaptureSelectEarly(k) ==
    /\ status \in {"in_progress", "completed"}
    /\ payment # "captured"
    /\ Step(k, "idle", "retrieve")
    /\ UNCHANGED <<status, service, money, event, unfounded, saw, bounds>>

CaptureSelect(k) ==
    /\ status = "completed"
    /\ payment # "captured"
    /\ Step(k, "idle", "retrieve")
    /\ UNCHANGED <<status, service, money, event, unfounded, saw, bounds>>

CaptureRetrieve(k) ==
    /\ \/ intent = "requires_capture" /\ Step(k, "retrieve", "claim")
       \/ intent # "requires_capture" /\ Step(k, "retrieve", "idle")
    /\ UNCHANGED <<status, service, money, event, unfounded, saw, bounds>>

\* payments.booking_id is unique: only one INSERT returns a row.
CaptureClaim(k) ==
    /\ \/ /\ payment = "absent"
          /\ payment' = "capturing"
          /\ Step(k, "claim", "capture")
       \/ /\ payment # "absent"
          /\ UNCHANGED payment
          /\ Step(k, "claim", "idle")
    /\ UNCHANGED <<status, service, stripe, event, unfounded, saw, bounds>>

\* Stripe answers a repeated idempotency key as it answered the first; the cron
\* and the admin's routes share theirs, a refusal has its own.
CaptureSucceeds(k) ==
    /\ intent = "requires_capture" \/ charge = "service"
    /\ intent' = "succeeded"
    /\ charge' = "service"
    /\ event' = [event EXCEPT !["succeeded"] = IF @ = "unsent" THEN "sent" ELSE @]
    /\ \/ Step(k, "capture", "record") /\ UNCHANGED failed
       \/ Step(k, "capture", "release") /\ Fail("answer")
    /\ UNCHANGED <<status, service, payment, refunded, unfounded, saw, calls>>

CaptureFails(k) ==
    /\ Step(k, "capture", "release")
    /\ \/ intent = "canceled" /\ UNCHANGED failed
       \/ charge = "refusal" /\ UNCHANGED failed
       \/ Fail("capture")
    /\ UNCHANGED <<status, service, money, event, unfounded, saw, calls>>

\* Faulty variant: the row takes Stripe's word for the charge.
CaptureRecordIntent(k) ==
    /\ Step(k, "record", "idle")
    /\ payment' = IF payment = "capturing" THEN intent ELSE payment
    /\ UNCHANGED <<status, service, stripe, event, unfounded, saw, bounds>>

\* Faulty variant: the UPDATE looks for a row in another status, and finds none.
CaptureRecordMissed(k) ==
    /\ Step(k, "record", "idle")
    /\ UNCHANGED <<status, service, money, event, unfounded, saw, bounds>>

CaptureRecord(k) ==
    /\ Step(k, "record", "idle")
    /\ payment' = IF payment = "capturing" THEN "captured" ELSE payment
    /\ UNCHANGED <<status, service, stripe, event, unfounded, saw, bounds>>

\* Faulty variant: the claim of a failed capture is kept.
CaptureReleaseKept(k) ==
    /\ Step(k, "release", "idle")
    /\ UNCHANGED <<status, service, money, event, unfounded, saw, bounds>>

CaptureRelease(k) ==
    /\ Step(k, "release", "idle")
    /\ payment' = IF payment = "capturing" THEN "absent" ELSE payment
    /\ UNCHANGED <<status, service, stripe, event, unfounded, saw, bounds>>

Capture(k) ==
    \/ CaptureSelect(k) \/ CaptureRetrieve(k) \/ CaptureClaim(k)
    \/ CaptureSucceeds(k) \/ CaptureFails(k)
    \/ CaptureRecord(k) \/ CaptureRelease(k)

-----------------------------------------------------------------------------
(* Refunding: an authorization is voided, a captured charge is refunded.   *)

VoidTarget(s) ==
    IF s \in CancellableFrom THEN "cancelled_by_customer" ELSE "refunded"

RefundRead(r) ==
    /\ Step(r, "idle", "inspect")
    /\ Read(r)
    /\ UNCHANGED <<status, service, money, event, unfounded, bounds>>

RefundInspect(r) ==
    /\ \/ intent = "requires_capture" /\ Step(r, "inspect", "void") /\ UNCHANGED saw
       \/ /\ intent # "requires_capture"
          /\ saw[r] \in RefundableFrom
          /\ Step(r, "inspect", "claimrefund")
          /\ UNCHANGED saw
       \/ /\ intent # "requires_capture"
          /\ saw[r] \notin RefundableFrom
          /\ Step(r, "inspect", "idle")
          /\ Forget(r)
    /\ UNCHANGED <<status, service, money, event, unfounded, bounds>>

VoidClaim(r) ==
    /\ \/ /\ status = saw[r]
          /\ status' = VoidTarget(saw[r])
          /\ Step(r, "void", "cancel")
          /\ UNCHANGED saw
       \/ /\ status # saw[r]
          /\ UNCHANGED status
          /\ Step(r, "void", "idle")
          /\ Forget(r)
    /\ UNCHANGED <<service, money, event, unfounded, bounds>>

VoidSucceeds(r) ==
    /\ intent = "requires_capture"
    /\ intent' = "canceled"
    /\ Step(r, "cancel", "idle")
    /\ Forget(r)
    /\ UNCHANGED <<status, service, payment, charge, refunded, event, unfounded, bounds>>

VoidFails(r) ==
    /\ Step(r, "cancel", "revert")
    /\ \/ intent # "requires_capture" /\ UNCHANGED failed
       \/ Fail("void")
    /\ UNCHANGED <<status, service, money, event, unfounded, saw, calls>>

\* Faulty variant: the booking keeps the status of the void that failed.
VoidRevertKept(r) ==
    /\ Step(r, "revert", "idle")
    /\ Forget(r)
    /\ UNCHANGED <<status, service, money, event, unfounded, bounds>>

\* The status that the request has read is put back, which may be one that
\* another request has claimed and by now failed to honour.
VoidRevert(r) ==
    /\ Step(r, "revert", "idle")
    /\ Forget(r)
    /\ \/ /\ status = VoidTarget(saw[r])
          /\ status' = saw[r]
          /\ unfounded' = unfounded
                \union ({saw[r]} \intersect {"cancelled_by_customer"})
       \/ /\ status # VoidTarget(saw[r])
          /\ UNCHANGED <<status, unfounded>>
    /\ UNCHANGED <<service, money, event, bounds>>

RefundClaim(r) ==
    /\ \/ /\ status = saw[r]
          /\ status' = "refunded"
          /\ Step(r, "claimrefund", "refund")
          /\ UNCHANGED saw
       \/ /\ status # saw[r]
          /\ UNCHANGED status
          /\ Step(r, "claimrefund", "idle")
          /\ Forget(r)
    /\ UNCHANGED <<service, money, event, unfounded, bounds>>

\* When the call fails the claim on the booking stays.
RefundCall(r) ==
    /\ Step(r, "refund", "idle")
    /\ Forget(r)
    /\ \/ /\ intent = "succeeded"
          /\ refunded' = TRUE
          /\ event' = [event EXCEPT !["refunded"] = "sent"]
          /\ UNCHANGED failed
       \/ /\ intent = "canceled"
          /\ UNCHANGED <<refunded, event, failed>>
       \/ /\ Fail("refund")
          /\ UNCHANGED <<refunded, event>>
    /\ UNCHANGED <<status, service, payment, intent, charge, unfounded, calls>>

-----------------------------------------------------------------------------
(* An approved refusal takes its fee from the same authorization, or       *)
(* refunds what a capture took beyond it, and claims no payments row.      *)

RefusalAsk(f) ==
    /\ arrived
    /\ ~finished
    /\ status # "completed"
    /\ day # "completed"
    /\ Step(f, "idle", "asked")
    /\ Called
    /\ UNCHANGED <<status, service, money, event, unfounded, saw, failed>>

\* One UPDATE claims the request; it may have been denied before.
RefusalApprove(f) ==
    /\ Step(f, "asked", "look")
    /\ UNCHANGED <<status, service, money, event, unfounded, saw, bounds>>

RefusalRetrieve(f) ==
    /\ \/ intent = "requires_capture" /\ Step(f, "look", "take")
       \/ intent = "succeeded" /\ Step(f, "look", "excess")
       \/ intent = "canceled" /\ Step(f, "look", "close")
    /\ UNCHANGED <<status, service, money, event, unfounded, saw, bounds>>

\* Whatever Stripe answers, an error included, the request goes on.
RefusalTake(f) ==
    /\ Step(f, "take", "close")
    /\ \/ /\ intent = "requires_capture"
          /\ intent' = "succeeded"
          /\ charge' = "refusal"
          /\ event' = [event EXCEPT !["succeeded"] = "sent"]
          /\ UNCHANGED failed \/ Fail("answer")
       \/ /\ \/ intent # "requires_capture" /\ UNCHANGED failed
             \/ Fail("capture")
          /\ UNCHANGED <<intent, charge, event>>
    /\ UNCHANGED <<status, service, payment, refunded, unfounded, saw, calls>>

\* The charge beyond the fee is refunded, unless a refund has taken all of it.
RefusalExcess(f) ==
    /\ Step(f, "excess", "close")
    /\ \/ /\ event' = [event EXCEPT !["refunded"] = IF refunded THEN @ ELSE "sent"]
          /\ UNCHANGED failed
       \/ /\ Fail("refund")
          /\ UNCHANGED event
    /\ UNCHANGED <<status, service, money, unfounded, saw, calls>>

\* The booking is closed whatever its status is by now.
RefusalClose(f) ==
    /\ Step(f, "close", "idle")
    /\ status' = "cancelled_by_cleaner"
    /\ UNCHANGED <<service, money, event, unfounded, saw, bounds>>

-----------------------------------------------------------------------------
(* The other writers of bookings.status.                                   *)

\* A closing status written by somebody who leaves the money as it is.
Declare(s) ==
    /\ status' = s
    /\ unfounded' = unfounded \union ({s} \intersect Closing)

CancelCheck(c) ==
    /\ status \in CancellableFrom
    /\ Step(c, "idle", "walk")
    /\ Called
    /\ UNCHANGED <<status, service, money, event, unfounded, saw, failed>>

\* The status is written without looking at it again, and nothing is voided.
CancelWrite(c) ==
    /\ Step(c, "walk", "idle")
    /\ Declare("cancelled_by_customer")
    /\ UNCHANGED <<service, money, event, saw, bounds>>

DeleteAccount ==
    /\ "deletion" \in Writers
    /\ status = "matching"
    /\ Declare("cancelled_by_customer")
    /\ Called
    /\ UNCHANGED <<service, money, event, pc, saw, failed>>

\* The operator's job editor takes any status.
PatchJob ==
    /\ "operator" \in Writers
    /\ \E s \in Statuses : Declare(s)
    /\ Called
    /\ UNCHANGED <<service, money, event, pc, saw, failed>>

\* A re-assign, a late sweep or a late decline offers the booking around.
Restaff ==
    /\ "staffing" \in Writers
    /\ status' \in CancellableFrom
    /\ Called
    /\ UNCHANGED <<service, money, event, unfounded, pc, saw, failed>>

-----------------------------------------------------------------------------
(* Stripe's events, delivered at any time after they are sent; a repeated  *)
(* delivery is dropped by the claim on stripe_events.                      *)

\* Capturing sends payment_intent.succeeded: the booking is not 'booked' any
\* more, and is staffed all the same.
HookSucceeded ==
    /\ event["succeeded"] = "sent"
    /\ event' = [event EXCEPT !["succeeded"] = "staffing"]
    /\ status' = "matching"
    /\ UNCHANGED <<service, money, unfounded, pc, saw, bounds>>

\* initiateAssignment offers the booking when anybody is eligible.
HookOffer ==
    /\ event["succeeded"] = "staffing"
    /\ event' = [event EXCEPT !["succeeded"] = "handled"]
    /\ status' \in {status, "offered_to_cleaner"}
    /\ UNCHANGED <<service, money, unfounded, pc, saw, bounds>>

\* The customer's bank disputes the charge.
HookDisputed ==
    /\ intent = "succeeded"
    /\ event["disputed"] = "unsent"
    /\ event' = [event EXCEPT !["disputed"] = "handled"]
    /\ status' = "disputed"
    /\ UNCHANGED <<service, money, unfounded, pc, saw, bounds>>

HookRefunded ==
    /\ event["refunded"] = "sent"
    /\ event' = [event EXCEPT !["refunded"] = "handled"]
    /\ payment' = IF payment = "absent" THEN "absent" ELSE "refunded"
    /\ UNCHANGED <<status, service, stripe, unfounded, pc, saw, bounds>>

-----------------------------------------------------------------------------
TapNext(t) ==
    \/ StartRoute(t) \/ RouteWrite(t) \/ Arrive(t)
    \/ StartClean(t) \/ CleanWrite(t)
    \/ FinishClean(t) \/ FinishWrite(t)
    \/ Complete(t) \/ CompleteWrite(t) \/ CompletePack(t)

RefundNext(r) ==
    \/ RefundRead(r) \/ RefundInspect(r)
    \/ VoidClaim(r) \/ VoidSucceeds(r) \/ VoidFails(r) \/ VoidRevert(r)
    \/ RefundClaim(r) \/ RefundCall(r)

RefusalNext(f) ==
    \/ RefusalAsk(f) \/ RefusalApprove(f) \/ RefusalRetrieve(f)
    \/ RefusalTake(f) \/ RefusalExcess(f) \/ RefusalClose(f)

OtherNext ==
    \/ \E c \in Cancellers : CancelCheck(c) \/ CancelWrite(c)
    \/ DeleteAccount
    \/ PatchJob
    \/ Restaff

HookNext == HookSucceeded \/ HookOffer \/ HookDisputed \/ HookRefunded

Next ==
    \/ \E t \in Taps : TapNext(t)
    \/ \E k \in Capturers : Capture(k)
    \/ \E r \in Refunders : RefundNext(r)
    \/ \E f \in Refusals : RefusalNext(f)
    \/ HookNext
    \/ OtherNext

Spec == Init /\ [][Next]_vars

\* The cron runs every 15 minutes, and a capture that has begun goes on.
FairSpec == Spec /\ \A k \in Capturers : WF_vars(Capture(k))

-----------------------------------------------------------------------------
(* Properties.                                                             *)

\* The customer's card is charged only after the cleaner's verified arrival, and
\* then for a service that was completed at some time before, whatever became of
\* bookings.status since, or for an approved refusal; unless the operator has
\* written 'completed' by hand (the cron of index.ts selects on the status, which
\* all the other handlers change meanwhile).
ChargedAfterService ==
    intent = "succeeded" =>
        \/ arrived /\ (finished \/ charge = "refusal")
        \/ "completed" \in unfounded

Capturing == {k \in Capturers : pc[k] \in {"capture", "record", "release"}}

\* Of the captures that claim the payments row, the cron's and the admin's, only
\* one is under way, and the 'capturing' row is its claim: nobody else's retry
\* can delete it (index.ts:759-763).  A refusal captures without the claim; what
\* it cannot do is charge a second time, or run under a claim that then counts
\* its charge: see RowIsBacked.
OneCapture ==
    /\ \A k, l \in Capturing : k = l
    /\ payment = "capturing" => Capturing # {}
    /\ payment = "absent" => Capturing = {}

\* A payments row says 'captured' only of a charge that the cron or the admin's
\* routes have made, also when a refusal charged the card under their claim, and
\* 'refunded' only of some charge that was made.
RowIsBacked ==
    /\ payment = "captured" => charge = "service"
    /\ payment = "refunded" => intent = "succeeded"

\* When no refund request holds a claim on it, a booking that says 'refunded' or
\* 'cancelled_by_customer' holds none of the customer's money: the authorization
\* was voided or the whole charge refunded, also when a capture, a refusal and
\* further refunds ran at the same time.  The exceptions are what the code does:
\* a refund call that fails leaves its claim (payments.ts:726), and the customer's
\* cancellation (bookings.ts:1237), the deletion of the account (auth.ts:112), the
\* operator (admin.ts:485) and the roll-back of a failed void to a
\* 'cancelled_by_customer' it had read write the status and void nothing.
RefundedIsRefunded ==
    status \in {"refunded", "cancelled_by_customer"} \ unfounded
        /\ (\A r \in Refunders : pc[r] \notin {"cancel", "revert", "refund"})
        => intent = "canceled" \/ refunded \/ "refund" \in failed

\* A booking that stays completed is charged, or its authorization was voided:
\* a capture that failed is tried again.
CompletedIsCharged ==
    status = "completed" ~> intent # "requires_capture" \/ status # "completed"

\* Every charge that a capture of a completed service has made is in the payments
\* table, which payouts go by, or that capture is about to write it there.  (A
\* capture whose answer is lost releases its claim, and every later one finds the
\* charge made and skips the booking, index.ts:749 and :778; the charge of a
\* refusal is never written there, scopeReviewEngine.ts:376-383.)
ChargeIsRecorded ==
    charge = "service" =>
        \/ payment \in {"captured", "refunded"}
        \/ \E k \in Capturers : pc[k] = "record"
        \/ "answer" \in failed

\* An event that comes late does not take a completed or disputed booking
\* back to be staffed (stripe-webhook.ts:110-112).
DoneIsNotRestaffed ==
    [][~(/\ status \in {"completed", "disputed"}
         /\ status' \in {"matching", "offered_to_cleaner"})]_vars

=============================================================================
