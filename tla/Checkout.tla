------------------------------- MODULE Checkout -------------------------------
(***************************************************************************)
(* Checkout of one booking: POST /payments/create-intent, with which the   *)
(* customer's app obtains the PaymentIntent to pay, the customer who pays  *)
(* it, and the requests of PriceLedger that change the price meanwhile.    *)
(*                                                                         *)
(*   idle -> reuse -> done | error | claim                                 *)
(*   idle -> claim -> create -> land -> done                               *)
(*                    create -> release -> error                           *)
(*           claim -> recheck -> done | busy                               *)
(*                                                                         *)
(* A request creates one intent at most, which bears the request's name    *)
(* here.  Left out are intents of the former automatic capture, and the    *)
(* end of the booking, after which no intent is asked for.                 *)
(***************************************************************************)
EXTENDS PriceLedger, Functions

CONSTANT MinCharge   \* below it a total is no valid price

ASSUME CheckoutAssumption == MinCharge \in Nat

Requests == Intents

VARIABLES
    age,   \* how old stripe_payment_intent_created_at is
    req    \* request -> where it is, the total it read, the intent it answers with

requestVars == <<age, req>>
vars == <<total, ledger, held, onBooking, intent, call, failed, account, raced, age, req>>

\* Under 30 seconds, over 30 seconds, over 24 hours.
Ages == 0..2
Late == 1
Old  == 2

ReqLabels == {"idle", "reuse", "claim", "recheck", "create", "land", "release",
              "done", "busy", "error", "dead"}

Request(label, seen, got) == [pc |-> label, seen |-> seen, got |-> got]

Init ==
    /\ PriceInit
    /\ age = 0
    /\ req = [r \in Requests |-> Request("idle", 0, NoIntent)]

Is(r, label) == req[r].pc = label
Turn(r, s) == req' = [req EXCEPT ![r] = s]

\* The request ends with the client secret of intent i, or knows of none.
Answer(r, i)  == Turn(r, Request("done", 0, i))
End(r, label) == Turn(r, Request(label, 0, NoIntent))

\* An intent is needed for the price t, if it is one.
Need(r, t) == IF t < MinCharge THEN End(r, "error") ELSE Turn(r, Request("claim", t, NoIntent))

\* The booking is read; an intent less than a day old is looked up.
ReadBooking(r) ==
    /\ Is(r, "idle")
    /\ IF onBooking # NoIntent /\ age < Old
         THEN Turn(r, Request("reuse", total, onBooking))
         ELSE Need(r, total)
    /\ UNCHANGED <<age, onBooking, intent, failed, raced>>

\* The intent that was read is handed out again unless it was canceled; the
\* sentinel is looked up as well, and Stripe knows no such intent.
Reuse(r) ==
    /\ Is(r, "reuse")
    /\ \/ req[r].got = Creating /\ End(r, "error")
       \/ /\ req[r].got \in Intents
          /\ intent[req[r].got].status # "canceled"
          /\ Answer(r, req[r].got)
       \/ /\ req[r].got \in Intents
          /\ intent[req[r].got].status = "canceled"
          /\ Need(r, req[r].seen)
    /\ UNCHANGED <<age, onBooking, intent, failed, raced>>

Claimable ==
    \/ onBooking = NoIntent
    \/ onBooking = Creating /\ age >= Late
    \/ onBooking # NoIntent /\ age >= Old

\* The requests that have claimed the booking and are not done.
Creators == {r \in Requests : req[r].pc \in {"create", "land", "release"}}

\* Faulty variant: the claim does not look at the intent of the booking.
ClaimBookingAnyway(r) ==
    /\ Is(r, "claim")
    /\ onBooking' = Creating
    /\ age' = 0
    /\ Turn(r, Request("create", req[r].seen, NoIntent))
    /\ UNCHANGED <<intent, failed, raced>>

\* The row is claimed with the sentinel ...
ClaimBooking(r) ==
    /\ Is(r, "claim")
    /\ Claimable
    /\ onBooking' = Creating
    /\ age' = 0
    /\ Turn(r, Request("create", req[r].seen, NoIntent))
    /\ Note("claim", onBooking \in Intents \/ Creators # {})
    /\ UNCHANGED <<intent, failed>>

\* ... or somebody else's intent is looked for.
ClaimLost(r) ==
    /\ Is(r, "claim")
    /\ ~Claimable
    /\ End(r, "recheck")
    /\ UNCHANGED <<age, onBooking, intent, failed, raced>>

Recheck(r) ==
    /\ Is(r, "recheck")
    /\ \/ /\ onBooking \in Intents
          /\ intent[onBooking].status # "canceled"
          /\ Answer(r, onBooking)
       \/ /\ onBooking \in Intents => intent[onBooking].status = "canceled"
          /\ End(r, "busy")
    /\ UNCHANGED <<age, onBooking, intent, failed, raced>>

\* Stripe creates an intent for the total that was read before the claim ...
Create(r) ==
    /\ Is(r, "create")
    /\ intent' = [intent EXCEPT ![r] = [status |-> "editable", amount |-> req[r].seen]]
    /\ End(r, "land")
    /\ UNCHANGED <<age, onBooking, failed, raced>>

\* Faulty variant: the claim is not released.
CreateFailsForGood(r) ==
    /\ Is(r, "create")
    /\ Fail("create")
    /\ End(r, "error")
    /\ UNCHANGED <<age, onBooking, intent, raced>>

\* ... or refuses, and the sentinel goes, whoever has put it there.
CreateFails(r) ==
    /\ Is(r, "create")
    /\ Fail("create")
    /\ End(r, "release")
    /\ UNCHANGED <<age, onBooking, intent, raced>>

Release(r) ==
    /\ Is(r, "release")
    /\ onBooking' = IF onBooking = Creating THEN NoIntent ELSE onBooking
    /\ End(r, "error")
    /\ UNCHANGED <<age, intent, failed, raced>>

\* The intent is put on the booking, over whatever is there.
Land(r) ==
    /\ Is(r, "land")
    /\ onBooking' = r
    /\ age' = 0
    /\ Answer(r, r)
    /\ Note("amount", intent[r].amount # total)
    /\ UNCHANGED <<intent, failed>>

\* The Worker stops: what it has claimed stays claimed.
Crash(r) ==
    /\ r \in Creators
    /\ Fail("crash")
    /\ End(r, "dead")
    /\ UNCHANGED <<age, onBooking, intent, raced>>

RequestStep(r) ==
    \/ Reuse(r) \/ ClaimBooking(r) \/ ClaimLost(r) \/ Recheck(r)
    \/ Create(r) \/ CreateFails(r) \/ Release(r) \/ Land(r)

-----------------------------------------------------------------------------
(* The customer, Stripe, and time.                                         *)

\* The customer authorizes an intent that the app was given.
Authorize(i) ==
    /\ intent[i].status = "editable"
    /\ \E r \in Requests : Is(r, "done") /\ req[r].got = i
    /\ intent' = [intent EXCEPT ![i].status = "authorized"]
    /\ UNCHANGED <<age, req, onBooking, failed, raced>>

\* An authorization that is not captured in time is canceled by Stripe.
StripeCancels(i) ==
    /\ intent[i].status = "authorized"
    /\ onBooking = i => age = Old
    /\ intent' = [intent EXCEPT ![i].status = "canceled"]
    /\ UNCHANGED <<age, req, onBooking, failed, raced>>

\* A request may go on for more than 30 seconds, but not for a day.
Tick ==
    /\ onBooking # NoIntent
    /\ age < Old
    /\ age = Late => \A r \in Requests :
                        req[r].pc \in {"idle", "done", "busy", "error", "dead"}
    /\ age' = age + 1
    /\ UNCHANGED <<req, onBooking, intent, failed, raced>>

-----------------------------------------------------------------------------
PayNext ==
    \/ \E r \in Requests : ReadBooking(r) \/ RequestStep(r) \/ Crash(r)
    \/ \E i \in Intents : Authorize(i) \/ StripeCancels(i)
    \/ Tick

Next ==
    \/ \E c \in Calls : CallNext(c) /\ UNCHANGED requestVars
    \/ PayNext /\ UNCHANGED priceVars

Spec == Init /\ [][Next]_vars

-----------------------------------------------------------------------------
(* Properties.                                                             *)

\* The state is well typed; the total is never negative.
TypeOK ==
    /\ total \in Nat
    /\ ledger \in [Events -> Int]
    /\ held \subseteq Claims
    /\ onBooking \in Intents \union {NoIntent, Creating}
    /\ intent \in [Intents -> [status : IntentStatuses, amount : Nat]]
    /\ call \in [Calls -> [op : Events \union {"none"}, pc : Labels, prev : Nat, adj : Int,
                           pid : Intents \union {NoIntent, Creating}]]
    /\ failed \subseteq AllFaults
    /\ unrecorded \in Int /\ delayFee \in Int
    /\ raced \subseteq Races
    /\ age \in Ages
    /\ req \in [Requests -> [pc : ReqLabels, seen : Nat,
                             got : Intents \union {NoIntent, Creating}]]

\* What was written to the total and is about to be written to the ledger.
Owed(c)    == IF call[c].pc \in {"sync", "record"} THEN call[c].adj ELSE 0
Unfinished == SumFunction([c \in Calls |-> Owed(c)])

\* The ledger explains the total, to the cent and at every moment: no two
\* adjustments lose one another's change.  What it does not explain is what a
\* row that could not be written, or a refresh over a total read earlier, left out.
LedgerExplainsTotal ==
    total = Quote + SumFunction(ledger) + Unfinished + unrecorded

\* A coupon's use, a fee or a discount is charged to the booking once, and only
\* while the claim on it stands; and a claim that can be given back stands only
\* for what was charged.
ClaimedIsCharged ==
    \A o \in Claims :
        /\ ledger[o] # 0 /\ "note" \notin failed => ledger[o] = Amount[o] /\ o \in held
        /\ o \in held \intersect Undoable /\ ~Busy(o) => ledger[o] = Amount[o]

\* What the delay requests have added to the total is the fee of a single bracket,
\* however often it is set (admin.ts:500-502), and the ledger, whose sum the payouts
\* go by, says the same as soon as a request is done.  Excepted is what the code
\* does: two requests that overlap, a row of theirs that was not written, and a
\* sum that could not be read and counts as 0 (accessDelayFee.ts:98-100).
SingleBracketFee ==
    "fee" \notin raced /\ "sum" \notin failed =>
        /\ delayFee \in Brackets \union {0}
        /\ (\A c \in Calls : call[c].op = "delay" => ~At(c, "sync") /\ ~At(c, "record"))
              => ledger["delay"] = delayFee

\* The intent of the booking asks for the booking's total, and an authorization
\* covers it, unless an adjustment was not synced or overlapped another one, a
\* refresh, or the creation of the intent.
IntentAsksForTotal ==
    /\ onBooking \in Intents
    /\ "amount" \notin raced
    /\ "sync" \notin failed
    /\ \A c \in Calls : ~At(c, "sync")
    => \/ intent[onBooking].status = "editable" /\ intent[onBooking].amount = total
       \/ intent[onBooking].status = "authorized" /\ intent[onBooking].amount >= total
       \/ intent[onBooking].status = "canceled"

\* The customer's money is held once: two requests, a request that fails or one
\* whose Worker stops give nobody a second intent to authorize, unless a claim was
\* taken over from a slow request or an intent is a day old.
OneAuthorization ==
    "claim" \notin raced =>
        \A i, j \in Intents :
            intent[i].status = "authorized" /\ intent[j].status = "authorized" => i = j

\* What the customer has authorized stays on the booking, where the capture finds
\* it, with the same exception.
AuthorizationIsKept ==
    [][~(/\ onBooking \in Intents
         /\ intent[onBooking].status = "authorized"
         /\ onBooking' # onBooking
         /\ "claim" \notin raced')]_vars

\* The sentinel has an owner who is about to take it off, unless a Worker stopped:
\* nothing else would take it off for a day.
SentinelIsOwned == onBooking = Creating => Creators # {} \/ "crash" \in failed
=============================================================================
