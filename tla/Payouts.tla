------------------------------ MODULE Payouts ------------------------------
(***************************************************************************)
(* The cleaner payout of one solo booking: the row of the payouts table,   *)
(* the four endpoints that turn it into a Stripe transfer, the operator    *)
(* overrides and the Stripe webhook that write the same row.               *)
(*                                                                         *)
(* Every SQL statement of the API is a transaction of its own and every    *)
(* Stripe call is awaited, so a request is a sequence of atomic steps that *)
(* interleaves with the others at each await:                              *)
(*                                                                         *)
(*   idle -> checked -> read -> claimed -> sent -> done                    *)
(*                                                                         *)
(* payouts.booking_id is UNIQUE, so bookings do not share rows, and one    *)
(* booking stands for all of them.                                         *)
(***************************************************************************)
EXTENDS Naturals

CONSTANTS
    Requests,     \* HTTP requests that reach one of the release endpoints
    Routes,       \* the endpoints in use, a subset of AllRoutes
    StatusCheck,  \* the statuses the CHECK constraint of payouts.status admits
    Overrides,    \* operator overrides in use, a subset of AllOverrides
    Faults        \* failures that may happen, a subset of AllFaults

\* POST /payments/release-payout, /admin/automation/release-payout,
\* /admin/automation/batch-payouts and /admin/payouts/release/:id.
AllRoutes == {"release", "single", "batch", "override"}

AllOverrides == {"hold", "resolve"}

\* "crash": the Worker dies between two statements.
\* "lost_answer": Stripe makes the transfer but the call throws (a timeout).
AllFaults == {"crash", "lost_answer"}

\* payouts_status_check as the migrations leave it.
SchemaStatuses == {"pending", "scheduled", "transferred", "paid", "failed",
                   "canceled", "held", "disputed", "refunded"}

Absent == "absent"  \* the booking has no payouts row

Statuses == SchemaStatuses \union {"processing"}

ASSUME PayoutsAssumption ==
    /\ Routes \subseteq AllRoutes
    /\ SchemaStatuses \subseteq StatusCheck
    /\ StatusCheck \subseteq Statuses
    /\ Overrides \subseteq AllOverrides
    /\ Faults \subseteq AllFaults

VARIABLES
    payout,     \* payouts.status of the booking, or Absent
    payment,    \* the booking's payments row: has the customer's charge settled
    disputed,   \* an open disputes row, booking status 'disputed'
    transfers,  \* idempotency keys under which Stripe has made a transfer
    notified,   \* keys whose transfer.created event was processed
    strayed,    \* history: an override was used, or an answer of Stripe was lost
    route,      \* the endpoint each request calls
    pc,         \* where each request is
    seen,       \* the payouts.status each request has read
    answer,     \* what the transfer call returned to each request
    reply       \* what each request answered its caller

vars == <<payout, payment, disputed, transfers, notified, strayed,
          route, pc, seen, answer, reply>>

db     == <<payout, payment, disputed>>
stripe == <<transfers, notified>>

\* The endpoints on the booking's key share one Stripe idempotency key; the
\* admin override derives its key from the payouts row instead.
Key(rt) == IF rt = "override" THEN "payout_row" ELSE "payout_booking"

Keys == {Key(rt) : rt \in AllRoutes}

\* The statuses that say a transfer is under way or made.
Blocked == {"paid", "processing", "transferred"}

TypeOK ==
    /\ payout \in StatusCheck \union {Absent}
    /\ payment \in {"uncaptured", "captured", "refunded"}
    /\ disputed \in BOOLEAN
    /\ transfers \subseteq Keys
    /\ notified \subseteq transfers
    /\ strayed \in BOOLEAN
    /\ route \in [Requests -> Routes]
    /\ pc \in [Requests -> {"idle", "checked", "read", "claimed", "sent",
                            "done", "crashed"}]
    /\ seen \in [Requests -> StatusCheck \union {Absent}]
    /\ answer \in [Requests -> {"none", "made", "error"}]
    /\ reply \in [Requests -> {"none", "not_found", "not_captured",
                               "already_released", "error", "failed", "released"}]

Init ==
    /\ payout = Absent
    /\ payment = "uncaptured"
    /\ disputed = FALSE
    /\ transfers = {}
    /\ notified = {}
    /\ strayed = FALSE
    /\ route \in [Requests -> Routes]
    /\ pc = [r \in Requests |-> "idle"]
    /\ seen = [r \in Requests |-> Absent]
    /\ answer = [r \in Requests |-> "none"]
    /\ reply = [r \in Requests |-> "none"]

-----------------------------------------------------------------------------
(* Reading, before the claim.                                              *)

Goto(r, label) == pc' = [pc EXCEPT ![r] = label]

\* The request ends with an answer and leaves the database alone.
Answer(r, what) ==
    /\ Goto(r, "done")
    /\ reply' = [reply EXCEPT ![r] = what]
    /\ UNCHANGED <<db, stripe, strayed, route, seen, answer>>

\* Faulty variant: the payments row is not looked at.
ReleaseCheckUncaptured(r) ==
    /\ route[r] = "release"
    /\ pc[r] = "idle"
    /\ Goto(r, "checked")
    /\ UNCHANGED <<db, stripe, strayed, route, seen, answer, reply>>

\* release-payout reads the booking and refuses unless the payments row says
\* the charge was captured.
ReleaseCheck(r) ==
    /\ route[r] = "release"
    /\ pc[r] = "idle"
    /\ \/ /\ payment = "captured"
          /\ Goto(r, "checked")
          /\ UNCHANGED <<db, stripe, strayed, route, seen, answer, reply>>
       \/ /\ payment # "captured"
          /\ Answer(r, "not_captured")

\* It then looks the payouts row up to choose between UPDATE and INSERT.
ReleaseLookup(r) ==
    /\ route[r] = "release"
    /\ pc[r] = "checked"
    /\ Goto(r, "read")
    /\ seen' = [seen EXCEPT ![r] = payout]
    /\ UNCHANGED <<db, stripe, strayed, route, answer, reply>>

\* batch-payouts selects the pending rows of bookings without an open dispute.
BatchSelect(r) ==
    /\ route[r] = "batch"
    /\ pc[r] = "idle"
    /\ \/ /\ payout = "pending"
          /\ ~disputed
          /\ Goto(r, "read")
          /\ seen' = [seen EXCEPT ![r] = payout]
          /\ UNCHANGED <<db, stripe, strayed, route, answer, reply>>
       \/ /\ payout # "pending" \/ disputed
          /\ Answer(r, "not_found")

\* The admin override reads the whole row; its status is kept for a revert.
OverrideRead(r) ==
    /\ route[r] = "override"
    /\ pc[r] = "idle"
    /\ \/ /\ payout # Absent
          /\ Goto(r, "read")
          /\ seen' = [seen EXCEPT ![r] = payout]
          /\ UNCHANGED <<db, stripe, strayed, route, answer, reply>>
       \/ /\ payout = Absent
          /\ Answer(r, "not_found")

-----------------------------------------------------------------------------
(* The claim: one conditional statement that must win before Stripe is     *)
(* called. A new status the CHECK constraint rejects makes it throw.       *)

Claim(r, status) ==
    /\ status \in StatusCheck
    /\ payout' = status
    /\ Goto(r, "claimed")
    /\ UNCHANGED <<payment, disputed, stripe, strayed, route, seen, answer, reply>>

\* INSERT ... 'processing': the UNIQUE key and the CHECK constraint both throw
\* into the same catch, which answers that the payout was released.
InsertClaim(r) ==
    /\ route[r] = "release"
    /\ pc[r] = "read"
    /\ seen[r] = Absent
    /\ \/ payout = Absent /\ Claim(r, "processing")
       \/ /\ payout # Absent \/ "processing" \notin StatusCheck
          /\ Answer(r, "already_released")

\* UPDATE ... 'processing' WHERE status NOT IN Blocked, by release-payout when
\* it found a row and by the automation endpoint at once.
UpdateClaim(r) ==
    /\ \/ route[r] = "release" /\ pc[r] = "read" /\ seen[r] # Absent
       \/ route[r] = "single" /\ pc[r] = "idle"
    /\ LET matched == payout \notin Blocked \union {Absent}
       IN  \/ matched /\ Claim(r, "processing")
           \/ ~matched /\ Answer(r, "already_released")
           \/ /\ matched /\ "processing" \notin StatusCheck
              /\ Answer(r, "error")

\* UPDATE ... 'processing' WHERE status = 'pending'.
BatchClaim(r) ==
    /\ route[r] = "batch"
    /\ pc[r] = "read"
    /\ \/ payout = "pending" /\ Claim(r, "processing")
       \/ payout # "pending" /\ Answer(r, "already_released")
       \/ /\ payout = "pending" /\ "processing" \notin StatusCheck
          /\ Answer(r, "error")

\* Faulty variant: the override does not ask what the row says.
OverrideClaimAlways(r) ==
    /\ route[r] = "override"
    /\ pc[r] = "read"
    /\ Claim(r, "transferred")

\* UPDATE ... 'transferred' WHERE status NOT IN Blocked.
OverrideClaim(r) ==
    /\ route[r] = "override"
    /\ pc[r] = "read"
    /\ \/ payout \notin Blocked /\ Claim(r, "transferred")
       \/ payout \in Blocked /\ Answer(r, "already_released")

-----------------------------------------------------------------------------
(* The transfer. Stripe keeps one result per idempotency key, so a second  *)
(* call on a key that was used makes no second transfer.                   *)

StripeReturns(r, made, result) ==
    /\ pc[r] = "claimed"
    /\ transfers' = IF made THEN transfers \union {Key(route[r])} ELSE transfers
    /\ strayed' = (strayed \/ (made /\ result = "error"))
    /\ answer' = [answer EXCEPT ![r] = result]
    /\ Goto(r, "sent")
    /\ UNCHANGED <<db, notified, route, seen, reply>>

StripeTransfers(r) == StripeReturns(r, TRUE, "made")
StripeRefuses(r)   == StripeReturns(r, FALSE, "error")
LoseAnswer(r)      == "lost_answer" \in Faults /\ StripeReturns(r, TRUE, "error")

-----------------------------------------------------------------------------
(* Recording the outcome.                                                  *)

\* Faulty variants: a failed call keeps its claim, or counts as paid.
SettleKeepsClaim(r) ==
    /\ route[r] # "override"
    /\ pc[r] = "sent"
    /\ Goto(r, "done")
    /\ payout' = IF answer[r] = "made" THEN "paid" ELSE payout
    /\ reply' = [reply EXCEPT ![r] = "released"]
    /\ UNCHANGED <<payment, disputed, stripe, strayed, route, seen, answer>>

SettleAlwaysPaid(r) ==
    /\ route[r] # "override"
    /\ pc[r] = "sent"
    /\ Goto(r, "done")
    /\ payout' = "paid"
    /\ reply' = [reply EXCEPT ![r] = "released"]
    /\ UNCHANGED <<payment, disputed, stripe, strayed, route, seen, answer>>

\* The three 'processing' endpoints write 'paid' whatever the row says now, or
\* give the claim up if the row still carries it.
Settle(r) ==
    /\ route[r] # "override"
    /\ pc[r] = "sent"
    /\ Goto(r, "done")
    /\ \/ /\ answer[r] = "made"
          /\ payout' = "paid"
          /\ reply' = [reply EXCEPT ![r] = "released"]
       \/ /\ answer[r] = "error"
          /\ payout' = IF payout = "processing" THEN "failed" ELSE payout
          /\ reply' = [reply EXCEPT ![r] = "failed"]
    /\ UNCHANGED <<payment, disputed, stripe, strayed, route, seen, answer>>

\* The override only records the transfer's id, or writes back the status it
\* had read before the claim.
OverrideSettle(r) ==
    /\ route[r] = "override"
    /\ pc[r] = "sent"
    /\ Goto(r, "done")
    /\ \/ /\ answer[r] = "made"
          /\ reply' = [reply EXCEPT ![r] = "released"]
          /\ UNCHANGED payout
       \/ /\ answer[r] = "error"
          /\ payout' = seen[r]
          /\ reply' = [reply EXCEPT ![r] = "failed"]
    /\ UNCHANGED <<payment, disputed, stripe, strayed, route, seen, answer>>

Crash(r) ==
    /\ "crash" \in Faults
    /\ pc[r] \in {"checked", "read", "claimed", "sent"}
    /\ Goto(r, "crashed")
    /\ UNCHANGED <<db, stripe, strayed, route, seen, answer, reply>>

-----------------------------------------------------------------------------
(* The other writers of the row, and what the endpoints read besides it.   *)

\* POST /admin/payouts/hold/:id, unconditional.
Hold ==
    /\ "hold" \in Overrides
    /\ payout # Absent
    /\ payout' = "held"
    /\ strayed' = TRUE
    /\ UNCHANGED <<payment, disputed, stripe, route, pc, seen, answer, reply>>

\* POST /admin/payouts/disputes/:id/resolve, unconditional.
Resolve ==
    /\ "resolve" \in Overrides
    /\ payout # Absent
    /\ payout' \in {"pending", "failed"}
    /\ strayed' = TRUE
    /\ UNCHANGED <<payment, disputed, stripe, route, pc, seen, answer, reply>>

\* Faulty variant: a tip's transfer.created, which shares the booking's
\* transfer_group, is taken for the payout's.
TransferCreatedAnyType(k) ==
    /\ payout # Absent
    /\ k \notin notified
    /\ notified' = notified \union {k}
    /\ payout' = "paid"
    /\ UNCHANGED <<payment, disputed, transfers, strayed, route, pc, seen, answer, reply>>

\* Webhook transfer.created, at most once per transfer, at any later time.
TransferCreated(k) ==
    /\ k \in transfers \ notified
    /\ notified' = notified \union {k}
    /\ payout' = IF payout = Absent THEN Absent ELSE "paid"
    /\ UNCHANGED <<payment, disputed, transfers, strayed, route, pc, seen, answer, reply>>

\* The capture of the customer's charge, and webhook charge.refunded.
Capture ==
    /\ payment = "uncaptured"
    /\ payment' = "captured"
    /\ UNCHANGED <<payout, disputed, stripe, strayed, route, pc, seen, answer, reply>>

ChargeRefunded ==
    /\ payment = "captured"
    /\ payment' = "refunded"
    /\ UNCHANGED <<payout, disputed, stripe, strayed, route, pc, seen, answer, reply>>

\* Webhook charge.dispute.created, and an admin closing the dispute.
DisputeCreated ==
    /\ payment # "uncaptured"
    /\ disputed' = TRUE
    /\ UNCHANGED <<payout, payment, stripe, strayed, route, pc, seen, answer, reply>>

DisputeClosed ==
    /\ disputed
    /\ disputed' = FALSE
    /\ UNCHANGED <<payout, payment, stripe, strayed, route, pc, seen, answer, reply>>

-----------------------------------------------------------------------------
Read(r)   == ReleaseCheck(r) \/ ReleaseLookup(r) \/ BatchSelect(r) \/ OverrideRead(r)
TryClaim(r) == InsertClaim(r) \/ UpdateClaim(r) \/ BatchClaim(r) \/ OverrideClaim(r)
Transfer(r) == StripeTransfers(r) \/ StripeRefuses(r) \/ LoseAnswer(r)
Record(r) == Settle(r) \/ OverrideSettle(r)

\* What the Worker does for a request it has accepted.
Serve(r) == Read(r) \/ TryClaim(r) \/ Transfer(r) \/ Record(r)

Environment ==
    \/ Hold \/ Resolve
    \/ \E k \in Keys : TransferCreated(k)
    \/ Capture \/ ChargeRefunded
    \/ DisputeCreated \/ DisputeClosed

Next ==
    \/ \E r \in Requests : Serve(r) \/ Crash(r)
    \/ Environment

Spec == Init /\ [][Next]_vars

\* The runtime carries an accepted request to its end.
FairSpec == Spec /\ \A r \in Requests : WF_vars(Serve(r))

-----------------------------------------------------------------------------
(* What makes the properties below inductive.                              *)

\* Whoever got past its first read did so after the capture: release-payout
\* looked, and the others found a row that only release-payout inserts.
CaptureInv ==
    /\ payout # Absent => payment # "uncaptured"
    /\ transfers # {} => payment # "uncaptured"
    /\ \A r \in Requests :
           pc[r] \in {"checked", "read", "claimed", "sent"} => payment # "uncaptured"

BackedInv ==
    /\ payout = "paid" => transfers # {}
    /\ \A r \in Requests : seen[r] = "paid" \/ answer[r] = "made" => transfers # {}

Holds(r) == pc[r] \in {"claimed", "sent"}

\* One request at a time holds the claim, the row says so while it does, and
\* once money moved the row stays blocked.
ClaimInv ==
    /\ \A r \in Requests : Holds(r) => payout \in Blocked
    /\ \A r, s \in Requests : Holds(r) /\ Holds(s) => r = s
    /\ transfers # {} =>
           /\ payout \in Blocked
           /\ \A r \in Requests : Holds(r) => pc[r] = "sent" /\ answer[r] = "made"
    /\ \A k, l \in transfers : k = l

-----------------------------------------------------------------------------
(* Properties.                                                             *)

\* A cleaner is never sent money for a booking whose charge was never captured,
\* although only one of the four endpoints looks at the payments row.
PaidOnlyAfterCapture == transfers # {} => payment # "uncaptured"

\* A row that says 'paid' has a transfer behind it.
PaidIsBacked == payout = "paid" => transfers # {}

\* One booking is paid out by at most one Stripe transfer, whichever endpoints
\* race for it: what the migration and the override's comment say of the claim.
AtMostOneTransfer == \A k, l \in transfers : k = l

\* As long as nobody overrode the row and no answer of Stripe was lost, the claim
\* keeps that promise for any endpoints that race, fail and crash (payments.ts,
\* adminPayouts.ts, adminAutomation.ts).
ClaimPaysOnce == ~strayed => AtMostOneTransfer

\* Once a row says 'paid', no step takes that back, as long as nobody strays.
PaidIsFinal == [][payout = "paid" /\ ~strayed' => payout' = "paid"]_vars

\* The endpoints together keep the promise of PayoutPromise: the claim makes one
\* payment out of any number of requests, until an override or a lost answer, and
\* none before the charge even then.
Promise == INSTANCE PayoutPromise WITH
    Transfers <- Keys, charged <- payment # "uncaptured", moved <- transfers

KeepsPromise == Promise!Spec

OverrideFailed == \E r \in Requests : route[r] = "override" /\ answer[r] = "error"
Crashed == \E r \in Requests : pc[r] = "crashed"

\* A row that says 'processing' is eventually settled one way or the other, unless
\* a failed override wrote a status it had read before, or a Worker died.
ClaimSettles == payout = "processing" ~> (payout # "processing" \/ OverrideFailed \/ Crashed)
=============================================================================
