# Sweepr in TLA+

Sweepr is a marketplace for residential cleaning: customers book a clean, the
platform staffs it with one cleaner or a crew, authorizes the customer's card,
captures the charge after the clean and pays the cleaners by Stripe transfer.
This directory holds TLA+ models of the parts of it whose correctness depends on
how handlers, cron ticks, webhooks and Stripe calls interleave, the TLC runs that
check them, and TLAPS proofs of what matters most.

Paths below are relative to `src/`; `api/` stands for `src/apps/api/src/`.

1. [The system](#1-the-system)
2. [Modules](#2-modules)
3. [Runs](#3-runs)
4. [Fairness](#4-fairness)
5. [Proofs](#5-proofs)
6. [Where the code and its comments disagree](#6-where-the-code-and-its-comments-disagree)
7. [What is not modelled, and the plan](#7-what-is-not-modelled-and-the-plan)

## 1. The system

The protocol state lives in one Neon Postgres database. It is written by the API worker
(`api/`): Hono handlers on Cloudflare Workers, a cron that fires every 15 minutes
(`api/index.ts`, `runScheduled`), and webhook handlers. A second program, `apps/mcp`,
writes promotions and courses from an operator's assistant
(`apps/mcp/src/mcp/promotionTools.ts:544`, `:567`, `:631`). **Every `sql`
statement goes over HTTP and is a transaction of its own**; no handler holds a
lock across two statements. What keeps concurrent requests apart is therefore
always one of

- a conditional `UPDATE ... WHERE <old state> RETURNING id` (a claim),
- a unique constraint (`payouts`, `payments` and `payout_ledger` on `booking_id`,
  `stripe_events` on the event id, `booking_tips` on booking and cleaner,
  `promotion_claims` on the address and on the user, crew seats on
  `(booking_id, cleaner_id)` and on the one LEAD of a booking),
- a Stripe idempotency key,

and what goes wrong is what happens between a read and the write that relies on
it. That is why every handler is modelled as a process with one step per
statement or awaited call, and why the modules below are about tables, not screens.

| Component | State | Operations | Hard part | Module |
|---|---|---|---|---|
| Solo payout (`routes/payments.ts`, `adminPayouts.ts`, `adminAutomation.ts`, `stripe-webhook.ts`) | `payouts` row, Stripe transfers | four release endpoints, hold, resolve, `transfer.created`, capture, refund, dispute events | a claim shared by four endpoints, overrides that ignore it, timeouts after the money moved | `Payouts` |
| Solo assignment (`lib/assignment.ts`) | `assignment_queue` rows, `bookings.status`, `cleaner_id` | rank and insert, offer, accept, decline, cascade, expire, re-assign, cancel, account deletion, the operator's job editor | many queues on one booking, reads that are stale by the time of the write | `Assignment` |
| Day of service, capture, refund (`routes/dayOfService.ts`, `index.ts`, `payments.ts`, `lib/scopeReviewEngine.ts`) | `bookings.status`, `day_status`, `payments` row, PaymentIntent | start-route, arrive, start, finish, complete; capture; void and refund; approved refusal; cancellation, account deletion, job editor; Stripe events | nine writers of one status column and three of one authorization | `Fulfilment` |
| Fee change approval (`lib/approvalEngine.ts`) | proposal, approvals, collaborators, fee schedule | approve, revoke, modify, join, ignore, decline, cancel; expiry, notice, activation | guards that are read once and updates that are by id only | `FeeApproval` |
| Crew seats (`lib/crew/*`, `routes/crew.ts`) | seat rows with a version and an invitation pool, `bookings.cleaner_id` | invite waves, accept, decline, expire, cascade, replace, remove, check-in, vouch, no-show, complete | rows rewritten from what was read several awaits ago | `Crew` |
| Crew payout (`lib/crew/crewPayout.ts`) | earnings and transfer id per seat, tips | divide the pool, pay seat by seat, pay tips | no claim on the booking; partial failures; a crew that changes | `CrewPayout` |
| Payment authorization (`payments.ts:130-260`) | `stripe_payment_intent_id` (an intent or a sentinel) and its age, the intents at Stripe | create-intent; the customer authorizes; Stripe cancels | a claim that is taken over after 30 s, an intent that is replaced after a day, refusals and crashes behind the sentinel | `Checkout` |
| Booking price ledger (`lib/bookingLedger.ts` and its callers) | `total_price`, `booking_price_ledger` rows, claims of coupons, fees and add-ons, the intent's amount | coupon, member discount, Smart Entry fee, add-on, additional-attention fee, access-delay fee, refresh of a draft | compare-and-set, then an unordered call to Stripe; roll-back of claims | `PriceLedger` |
| Tips (`routes/tips.ts`, `stripe-webhook.ts`, `payments.ts:520-595`) | `booking_tips` rows, the tip's intents and their key at Stripe, transfers | submit, decline, pay; succeeded and failed events; the release that passes them on | retries after lost answers, events that arrive late on revived rows | `Tips` |
| Founding members, promotion claims (`lib/foundingMember.ts`, `lib/promotions.ts`) | `founding_member` flags and numbers of two accounts per person, `promotion_claims`, `claim_count` | claim, redeem, auto-enroll on approval, grant, revoke, restore | a cap and another account that are read some awaits before the write | `Founding` |
| Claim-before-run jobs (`lib/scheduledActions.ts`, `lib/transitions.ts`) | action and token rows | claim, run, mark | a crash after the claim loses the job | planned (for `stripe_events`: in `Tips`) |
| Crew status (`lib/crew/crewStaffing.ts`) | `bookings.crew_status` | recompute, fail, sweep | a derived value, recomputed by everybody, written without a guard | planned |
| Scope review, coupons, Smart Entry | their own tables | | only what they charge to a booking | `PriceLedger`, partly |

Who calls whom: booking creation prices the booking (`PriceLedger`), which the
customer authorizes (`Checkout`), and staffs it (`Assignment` or `Crew`); the
accepted cleaner works it (`Fulfilment`); completion lets the cron capture it;
the `payments` row the capture writes is what `release-payout` asks for before it
inserts the `payouts` row (`Payouts`) or pays the crew (`CrewPayout`); Stripe's
events come back asynchronously and write the same rows. A completed booking may be
tipped (`Tips`), and its release pays the tip on. `FeeApproval` and `Founding` are
independent of bookings. The remaining components (user interfaces, authentication,
trust checks, calendar, mail, Slack) are listed in `PROJECT.json` with the reason
each is left out: they either keep no protocol state or do not touch the state
modelled here.

**What makes each component correct**

- Payouts: a booking is paid out once, only after its charge was captured, and a
  `paid` row stays true.
- Assignment: one winner unless the operator places the job by hand, answers that
  stay, no closed booking offered again, no offer left open for ever.
- Fulfilment: a card is charged only for a clean that took place or a refusal that was
  approved, one claimed capture at a time, completed bookings are charged and the charge
  recorded, and a booking that a refund has ended holds none of the customer's money.
- Fee approval: no fee takes effect on one person's word or before its time, and
  no proposal hangs.
- Crew seats: nobody seated twice, a seat is filled exactly when its status says
  so, nobody loses a seat except to an operator, members after a lead.
- Price and authorization: the ledger explains the total, what is claimed is charged
  once, the customer authorizes the booking's total, once, and the authorization stays
  where the capture finds it.
- Tips: a card is charged for a tip once, a charge settles its rows, and nothing is
  passed on that was not charged.
- Founding members: the cap holds but for operators, overlaps and settings that cannot
  be read, a person is a founder once, claims are counted.
- Crew payout: nobody paid twice, records backed by transfers, the pool divided to
  the cent, no seat left claimed.

## 2. Modules

Each component has a module with its state and one action per statement; an `MC`
module with the constants TLC needs; and a `Proofs` module, which two components may
share (`CrewProofs` is about `Crew` and `CrewPayout`, `AdminProofs` about `FeeApproval`
and `Founding`). `FiniteSums` has what the proofs need of sums. Two abstract
specifications say in a dozen lines what a component promises. In every module, a
process is a request, a cron tick or a webhook delivery; `pc` says which statement
comes next, and what a request has read lives in variables of its own. Definitions
that sit just above the one they vary, and that no action uses, are faulty variants
of it: each breaks one property, which shows that the property depends on the code.

**`Payouts`** (abstract: `PayoutPromise`). `payout` is the row's status or
`Absent`; `transfers` the idempotency keys under which Stripe made a transfer. A
request goes `idle -> checked -> read -> claimed -> sent -> done`: look at the
payment (only `release-payout` does), read the row, claim it by INSERT or by UPDATE
unless it is blocked, call Stripe, write the outcome. The override derives another
key from the row, so Stripe does not protect against the pair override/other. Hold,
Resolve, the webhook, capture, refund and disputes are the environment. One booking
stands for all, since `payouts.booking_id` is unique. The history variable `strayed`
says that an override was used or an answer of Stripe was lost. `PayoutPromise`: money
only after the charge, and at most one transfer until somebody strays.

**`Assignment`** (abstract: `AssignmentPromise`). A row of the queue is a run and a
position; a run inserts its ranking row by row and offers the first. `offer`,
`touch` and `announce` are the three statements of `offerPosition`; accept is the
claim on `bookings.cleaner_id` and then the mark on the row. The sweep expires a row
and cascades from what it reads. The ranking is any order of distinct cleaners. The
operator's job editor (`admin.ts:475`) is one statement that writes `status` and
`cleaner_id`, each or both, whatever they are (`PatchJob`); it tells nobody and leaves
the queue alone. `won` and `lost` are history: who has won the job since the operator
last wrote `cleaner_id`, and who had won it before. `AssignmentPromise`: the job goes to
a cleaner only while nobody has it, nobody but the operator takes it from them, and only
who has won it, now or before the operator gave it away, is told so. A cleaner who was
told may therefore lose the job to an edit; the code does not tell them.

**`Fulfilment`**. Both status axes, the intent and the payments row of one solo
booking. Taps of the cleaner read and then write; a capture selects, retrieves,
claims by inserting `capturing`, captures, and records or releases; a refund voids
the authorization (claiming the status first and reverting it when the void fails)
or refunds the charge. An approved refusal (`Refusal...`) captures its fee from the same
authorization, or refunds the excess of a capture that came first, with a key of its own
and without the claim on `payments`, and then writes `cancelled_by_cleaner`; `charge`
says whose key Stripe has captured under. The customer's cancellation, the deletion of
the account and the operator's job editor write a status and leave the money alone
(`Declare`), and a re-assign, a late sweep or a late decline may offer the booking around
(`Restaff`). `unfounded` is history: the closing statuses that were written by a step
which does not do what they stand for. Stripe's events arrive late, once each, in any
order.

**`FeeApproval`**. One proposal in one scope, its approvals, collaborators and the
three timers, which are `running` or `over`. Every call reads and checks once,
and then runs its statements one by one, as the code does. The history variables
`agreed`, `rested`, `noticed` record at the promotion, the end of the cooldown and
the end of the notice period that they happened, since the proposal may be
rewritten afterwards.

**`Crew`**. The seat rows of one booking. An invitation reads a seat and writes
version, pool and status from that reading; an accept reads, checks membership of
the pool and claims by version; decline, expiry, replacement and no-show are
written as in the code, mostly by id. `crew_status`, sizes and the ranking are not
part of it: the wave is any batch of cleaners the exclusions of the code admit.

**`CrewPayout`**. A call reads who is present, computes each share, writes
earnings, then claims, pays and records one seat after the other, and then the
tips. `keys` is what Stripe remembers: a retry under a remembered key answers with
the first transfer. The split is computed as in the code (`Math.round` of each
member's share, the lead takes the rest).

**`PriceLedger`**. `total`, the amount each kind of event has in the ledger, the claims
that are held, and the intents with their amounts. A call claims (`Begin...`), reads
the total and the intent, writes by compare-and-set or reads again, syncs the intent,
records the ledger row and, for discounts, the redemption; what throws is rolled back
(`Undo`). `raced` and `failed` record which overlaps and failures have happened, since
several properties hold but for one of them, `unrecorded` what a lost ledger row or
a refresh has left out, and `delayFee` how much access-delay fee the total carries,
whatever the ledger says. A request for that fee charges the difference to the sum of its
rows, which is 0 when the read fails (the fault `sum`, `accessDelayFee.ts:98-100`).

**`Checkout`** extends `PriceLedger` with the requests of `create-intent`, which read
the booking, reuse or replace its intent, claim it with the sentinel `Creating`, create
and land, and with the customer and Stripe. The claim's age has three values: under 30
seconds, under a day, older. A request that dies (`Crash`) leaves the sentinel.

**`Tips`**. One row per member who is tipped. A submit claims the free rows, asks Stripe
for an intent under a key made of booking and amount, and stores it; a transfer has a
key made of the tip's id (`payments.ts:371`, `:576`). The customer
authorizes or is declined, any number of times; an event is received once (the insert
into `stripe_events`) and then handled or, when the Worker dies, lost. A release reads
the settled rows, claims them by their stamp one by one, and transfers.

**`Founding`**. The cleaner and customer account of each person and one promotion. Four
kinds of request enroll somebody: a promotion claim, the redemption of one made signed
out, the approval of a cleaner, an operator's grant. Each reads the account, the
person's other account, the window with the number of members, and then writes. A
settings read that fails is caught and answered with defaults that have no cap and no
cutoff, so that nobody is counted (`OpenByDefault`). Revoke, restore, sign-up, settings
and the promotion's status are single statements. `crossed` and `excess` are history:
who was enrolled twice at once (or restored beside the other account), and who came in
without a count, or past one that was stale.

Abstractions common to all: ids, names, texts and notifications are left out, and
amounts are small numbers in `PriceLedger`, `Tips` and `CrewPayout` and absent elsewhere.
Where the worker may die is either an action (`Crash` in `Payouts`, `Checkout`, `Tips`,
`Founding`) or, without fairness, a process that takes no further step.

## 3. Runs

Each run is a `.cfg` with the same name. Bounds are CONSTANTS of the modules; every
one of them is listed here.

| Run | Instance | What it shows |
|---|---|---|
| `payouts` | 2 requests, each to any of the 4 endpoints, hold, resolve, crashes, lost answers; fair | until somebody strays the claim lets one transfer out (`ClaimPaysOnce`) and the endpoints implement `PayoutPromise`; never any money before the capture (`PaidOnlyAfterCapture`), never a `paid` row without a transfer (`PaidIsBacked`); a claim is settled unless an override failed or a Worker died (`ClaimSettles`) |
| `payouts_hold` | 3 requests and holds | **violation** of `AtMostOneTransfer`, see section 6 |
| `assignment_claim` | 2 cleaners, 1 staffing run with a backup, a sweep, all 7 kinds of call, 1 edit by the operator; fair cron | the queue implements `AssignmentPromise` (one winner between two edits, told alone), `AnswerIsFinal`, and every pending row is resolved (`OffersResolve`) |
| `assignment_reopen` | the same without declines, re-assignment and edits | **violation** of `ClosedIsNotReopened` |
| `fulfil_money` | 1 tap, 1 fair capture, 1 refund, 1 refusal, 1 cancellation (which may have begun before the acceptance), one call of any of the other writers, any one kind of Stripe failure | charged only after the service or an approved refusal (`ChargedAfterService`), every charge of a completed service recorded (`ChargeIsRecorded`), refunded bookings refunded unless a writer that leaves the money alone said so (`RefundedIsRefunded`), a completed booking charged in the end (`CompletedIsCharged`) |
| `fulfil_restaff` | 1 capture, 1 refund, no failures | **violation** of `DoneIsNotRestaffed` |
| `approvals_notice` | 2 Super Admins with 2 calls each, the cron, the clocks | `NewFeeIsAgreed` and, under fairness, `NoticeIsServed` |
| `crew_seats` | 2 requests of any kind, 2 cleaners, a lead and a member seat | `OneSeatEach`, `MembersFollowLead`, `SeatIsKept` |
| `crew_payout` | 2 releases, 2 seats, 1 tip, a pool of 5225 cents at 54/46, lost answers or forgotten keys, 1 change of the crew | `PaidOnce`, `PoolIsConserved`, and, under fairness, `ClaimSettles` |
| `checkout` | 2 create-intent requests, 2 price changes of any of 6 kinds, any one kind of failure | the ledger explains the total (`LedgerExplainsTotal`), what is claimed is charged once (`ClaimedIsCharged`), one delay fee on the total, the one of the ledger (`SingleBracketFee`), the intent asks for the total (`IntentAsksForTotal`), one authorization that stays (`OneAuthorization`, `AuthorizationIsKept`), no sentinel without an owner (`SentinelIsOwned`) |
| `tips` | 2 submits, 2 releases, a cleaner or a crew of 2, 2 amounts, up to 3 kinds of failure | `OneCharge`, `ChargeIsSettled`, `TipIsBacked`, `PendingCanSettle` |
| `founding` | 2 people, 3 requests of any kind, a cap of 1 member and 1 claim, revoke, restore, crashes, settings that cannot be read | who can be a founder twice (`OneStatusPerPerson`), who can exceed the cap (`CapHolds`), claims stamped for founders only (`GrantedIsFounder`) and counted once (`CountIsExact`) |

The `violation` runs are kept because the repository itself states the property they
refute. All runs have `CHECK_DEADLOCK FALSE`: a booking that was paid, cancelled or
decided is an end, and bounded calls run out.

**Why the bounds are enough to be of use.** The hazards here are races of a read
with one other write, or of two claims; each needs two processes, and three where a
third reopens what the first has claimed. The cases that matter do happen within the
bounds: for every property of a passing run, `PROJECT.json` names a fault in the
code (a dropped guard, a missing release) that breaks it *in the same run*.

- `payouts`: a booking has one row, so one booking suffices. The claim must tell two
  requests apart; with overrides and faults, three exceed five minutes, and the proofs
  cover any number.
- `assignment_*`: one staffing run; several queues on one booking are in the proofs.
  `MaxCandidates = 2` is the least with a backup; `MaxCandidates`, `Cleaners`,
  `Staffers` and `Sweepers` are arbitrary in the proofs. `MaxEdits = 1` bounds the
  operator's edits, and `Edits` the statuses they write: `matching`, or the status is
  left; `cleaner_id` becomes anybody or nobody. With one staffing run, which of two
  interchangeable cleaners ranks first makes no difference, so the run takes one order
  (`BestFirst`); a ranking may still have one or two cleaners. The proofs have any
  number of edits, any status and any ranking.
- `fulfil_*`: a tap is any sequence of the cleaner's requests, one at a time. A second
  tap, capture, refund or refusal is too large for TLC beside the other writers; the
  proofs cover any number of each. `MaxCalls = 1` bounds the calls of refusals,
  cancellations and other writers together; a cancellation that read its status before
  the acceptance comes on top. `MaxFaults = 1` bounds the *kinds* of failure in one
  behaviour, not how often that kind strikes. The operator writes the statuses of the
  module only. `fulfil_restaff` has none of the other writers.
- `approvals_notice`: `MaxCalls = 2` bounds each admin's calls; two admins are the
  least that can approve a change.
- `crew_seats`: `MaxVersion = 3` means that a seat that was released after a wave is not
  invited to again; the proofs cover any version. `Batch = 2` lets a wave be a race of
  both cleaners.
- `crew_payout`: a pool of 5225 is odd under 54/46, so rounding is at stake;
  `MaxChanges = 1` admits a change of the crew between any two statements. `Faults`
  are exclusive in one behaviour: with a lost answer *and* a forgotten key a second
  transfer is unavoidable at the Stripe interface as the code uses it.

- `checkout`: amounts move the total up or down by one (`Quote = 1`, `NewQuote = 2`,
  discounts -1, fees 1, `Brackets = {0, 1}`, `MinCharge = 1`), so that a total can reach
  zero. The code gives up after 5 failed attempts to write; here a call may give up
  after any (`WriteLost`). `MaxFaults = 1` bounds the kinds of failure. An add-on takes
  the same steps as the additional-attention fee (its claim is never given back), and is
  left to the proofs. The first quote's ledger row is taken to be written (`bookings.ts:867`).
- `tips`: an amount stands for the shares it is divided into; a member without a
  Connect account is one who is skipped; `MaxFaults = 3` bounds the kinds of failure. A
  transfer's own key is taken never to expire. Three submits with one release and one
  kind of failure were explored as well (21 million states).
- `founding`: caps of 1 are reached by the first member and claim. `Early` gives
  everybody a cleaner account at the start; customer accounts come later. Promotions
  for `all`, where a signed-in claim enrolls nobody, were explored apart. A person has
  one address; the caps themselves are not changed by the operators. A settings read
  may fail for any request.

`TypeOK` is checked where its theorem adds something a run should show; elsewhere it is
proved only. Symmetry is used for requests and cleaners in safety runs only, never where a
liveness property is checked.

## 4. Fairness

- `Payouts`, `CrewPayout`: weak fairness of each request's own steps. A worker that
  accepted a request runs its handler to the end, or crashes (an action of `Payouts`,
  which `ClaimSettles` excepts). The safety properties do not use fairness: there, a
  request may stop anywhere.
- `Assignment`, `Fulfilment`, `FeeApproval`: weak fairness of the cron
  (`apps/api/wrangler.toml:153` fires it every 15 minutes) and of the steps of calls that
  have begun. Nothing is assumed of people: no cleaner must answer, no admin must
  approve. `FeeApproval` also assumes that time passes (`Tick`).
- `OffersResolve` needs no call of `cancel` or `assign` to be fair, only that one
  that began goes on. `CompletedIsCharged` holds since a capture that fails releases its
  claim and a later tick tries again; it accepts that the booking leaves `completed`.
- `Crew`, `Checkout`, `Tips` and `Founding` have no liveness run: whether a seat is
  filled, an intent paid or a claim redeemed depends on people, and no cron helps.
  `SentinelIsOwned` and `PendingCanSettle` are their safety halves: what waits has
  somebody who can end the wait.

## 5. Proofs

`*Proofs.tla` and `FiniteSums` are checked by TLAPS to the last leaf, without further
assumptions than the named `ASSUME`s on the constants (disjoint sets of processes, finite
sets where something is counted or summed, natural bounds) and one hypothesis, of
`PoolIsPaidOut`, below. Each is an invariance proof: the strengthened invariant holds
initially, one step of the proof per action keeps it, PTL does the rest; an action
property or a refinement uses the same invariant.

| Module | Theorems | The invariant, and why it is needed |
|---|---|---|
| `PayoutsProofs` | `NoPayoutBeforeCapture`, `PaidRowsAreBacked`, `PaidOutOnce`, `PaidStaysPaid`, `ProcessingHasAHolder`, `ImplementsPromise` (for every choice of endpoints, overrides and faults) | `CaptureInv`: three endpoints never look at the payment, but they find a row only if `release-payout`, which does, inserted it. `ClaimInv`, as long as nobody strays: one request holds the claim, and after a transfer the row never leaves the blocked statuses |
| `AssignmentProofs` | `QueueIsWellFormed`, `ExactlyOneWinner`, `AnswersAreFinal`, `ImplementsPromise` | a process about to mark a row is of a cleaner who has won the job, and who has won it since the last edit is the booking's cleaner; a run that has not begun has no rows, so its insert never overwrites an answer |
| `FulfilmentProofs` | `ServiceBeforeCharge`, `ClaimsAreExclusive`, `RowsAreBacked`, `ChargesAreRecorded`, `RefundsReachStripe` | `ServiceInv` speaks of who has *read* `completed`, because the column itself may have moved on, and of refusals, which begin only after an arrival; `RowInv` of whose claim a `capturing` row is; `RefundInv` of which status each refund took, since several may be reverting |
| `AdminProofs` | of `FeeApproval`: `FeesAreAgreed`, `WaitsAreTimed`; of `Founding`: `FounderOnce`, `CapIsKept`, `StampedAreFounders`, `ClaimsAreCounted` | `OrderInv`: what has come about before each place of each call, whichever other calls overlap. For `Founding`: `OnceInv`, `CapInv`, `NumberInv`, `RowInv`, see below |
| `CrewProofs` | of `Crew`: `SeatsAreKept`, `FilledSeatsHaveHolders`, `NobodyLosesASeat`, `LeadComesFirst`, `SeatsTurnOneByOne`; of `CrewPayout`: `EachIsPaidOnce`, `RecordsAreBacked`, `ClaimsHaveOneOwner`, `SharesComeToPool`, `PoolIsPaidOut`, `DefaultLeadHasAShare` | `RequestInv`: what a request holds when it writes; `LeadInv`: the lead's version, once above 1, never goes back to it, though late writes can lower it. `ClaimInv`, `OwnedInv`: a claim has an owner, and one; `OnceInv`: if answers may be lost, the key is remembered, and if keys may be forgotten, a paid payee is never free again; `ShareInv`: what is earned, due and sent, see below |
| `CheckoutProofs` | `TotalIsExplained`, `ClaimsAreCharged`, `DelayIsOneBracket`, `IntentIsInStep`, `AuthorizedOnce`, `AuthorizationStays`, `SentinelHasOwner` | `OneClaimInv`: one request stands behind the sentinel, unless a claim was taken over; `StagesInv`, `HoldsInv`, `ChargedInv`: what each stage of a call has claimed, written and recorded; `BracketInv`: the sum a delay fee was computed from, and what the total has of the fee while its row is outstanding; `HeardInv`, `AmountInv`: what Stripe has been told of the total |
| `TipsProofs` | `ChargedOnce`, `TipsAreBacked`, `ChargesAreSettled`, `PendingRowsCanSettle` | `OneIntentInv`: while the key is remembered, every submit gets the same intent; `StagesInv`, `BackedInv`: what a release read was charged; `SettleInv`: a row that an open intent was made for is still handed to it |

Each module also has `TypeCorrect` (`PayTypeCorrect` and `FoundingTypeCorrect` where two
components share a module); in `Checkout` it says that the total never gets
negative. The theorems hold for any number of requests,
cleaners, seats, admins and calls, and for every combination of faults the module's
assumption admits, which is more than the runs can show.

**Sums.** `LedgerExplainsTotal` and `PoolIsConserved` add up a function over a set, with
the fold of the community modules. The library's induction theorems take an operator,
which the provers cannot instantiate; `FiniteSums` inducts over the *set* of the numbers
for which a statement holds instead, on `WFMin`, which takes none. From that it follows
that the fold has a value, that any element may be taken out of a sum first, what
changing one value does to it, that it is monotone, ignores zeros, and is kept when the
elements are renamed one to one, such as by their rank.

- *The ledger.* A call between its write of the total and its row owes the ledger the
  change (`Owed`). The sum of the ledger, what is owed, and `unrecorded`, is the total
  less the first quote: each statement moves an amount from one of them to another, or adds
  it to the total and to one of them. That is `LedgerExplainsTotal` itself, with
  `StagesInv` for the change a recording call has in hand.
- *The pool.* `SharesComeToPool`: the first seat takes what the others' rounded shares
  leave, and numbering the seats present by rank makes both the same sum. `ShareInv`
  says, while the crew has not changed, that what is earned, due or sent for a seat is its
  share, or nothing yet. What is sent is then a part of the pool, provided no share is
  negative: the hypothesis `LeadHasAShare`, that the others' rounded shares do not
  exceed the pool. The configuration would admit a split that breaks it (0, 50 and 50
  percent of one cent round to 0 and twice 1); `DefaultLeadHasAShare` shows that the
  default splits never do, whatever the pool.

**`Founding`.** Four kinds of request and two of an operator's calls write the same
flags. Every step is of one of five kinds: a request walks on (`Walks`) or makes its
account a member (`Enters`), an operator revokes a status or restores one
(`RevokeStatus`, `Restored`), or nobody's status or request is touched (`Elsewhere`). Each
invariant is then proved for the kinds, not for every action. `OnceInv`: past the look at
the other account, that account is no member, or the person has `crossed`. `CapInv`: a
request about to enter whose count is not stale has room below the cap. `NumberInv`:
members, those who were, and those about to be stamped have their number.
`RowInv`: no two rows of a person share an index, so an insert adds a row and attaching a
user keeps their number.

**The crew between the two modules.** `CrewPayout` assumes of the crew that seats join or
leave one at a time (`CrewChanges`). `SeatsTurnOneByOne` proves that of `Crew`, for the
seats whose status counts as present, in every interleaving: a wave, an expiry and the
completion of the clean change nobody's presence.

**Safety halves.** `ProcessingHasAHolder`, `ClaimsHaveOneOwner` and `WaitsAreTimed` are
what safety can say of the liveness properties `ClaimSettles` (of both payout modules)
and `NoticeIsServed`: nothing waits without the request, or the date, that ends the
wait. That it ends is for TLC.

Proved and no longer checked by a run of its own are `OneWinner` (implied by the
refinement), `QueueInv`, `OneCapture`, `RowIsBacked`, `SeatsAreFilled`, `RecordedIsMade`
and `PaidIsFinal`.

Only model-checked: the liveness properties `ClaimSettles`, `OffersResolve`,
`CompletedIsCharged` and `NoticeIsServed`, which are outside TLAPS's reach, as is ENABLED.
Every invariant and every action property of a passing run is stated by a theorem.

## 6. Where the code and its comments disagree

Shown by a `violation` run:

1. **A hold reopens a payout in flight** (`payouts_hold`). `hold/:id` writes `held`
   whatever the row says (`adminPayouts.ts:236`); `release/:id` then passes its lock
   and transfers under `payout_${payoutId}` while the first transfer went out under
   `payout_${bookingId}`. Migration 052 and the comment at `adminPayouts.ts:177-179`
   say the lock prevents exactly this.
2. **A closed booking is offered around again** (`assignment_reopen`). The sweep
   checks "only cascade if the booking is still awaiting a cleaner"
   (`assignment.ts:321`), but on a status it has read; `offerPosition` writes without
   a condition (`:88`), over an acceptance or a cancellation.
3. **The capture's own event restaffs a completed booking** (`fulfil_restaff`).
   `payment_intent.succeeded` arrives at the capture, since intents are captured
   manually; the handler guards its own update and then staffs the booking whatever
   the status (`stripe-webhook.ts:152`; comment at `:110-112`).

Seen while modelling, in the modules as the code has it, without a run of their own:

- *Payouts.* As the migrations leave it, `payouts_status_check`
  (`020_stripe_marketplace.sql:91-94`) has no `processing`: the claiming INSERT
  fails, is answered as "already released" (`payments.ts:474-479`), and no release
  succeeds. The runs let `StatusCheck` admit it, as a deployed database must. A
  failed override writes back a status that may no longer be true
  (`adminPayouts.ts:200`).
- *Assignment.* Backups expire with the first offer (`assignment.ts:148`, `:311`).
  A row that was never offered, or that was skipped, can be accepted (`:200`). A row
  answered between its selection and its offer leaves the booking
  `offered_to_cleaner` with nothing to answer (`:84`). A decline that resolves no row
  cascades from position 0 and may move an accepted booking (`:262`). A cancelled
  booking can be offered again.
- *Fulfilment.* An approved refusal captures without the claim on `payments` and without a
  row (`scopeReviewEngine.ts:376-383`), so release-payout, which asks for a `captured` or
  `succeeded` row (`payments.ts:296`), never pays the cleaner for it, although
  `scopeReviewEngine.ts:447-451` keeps the payout ledger in step for that flow; its errors
  are swallowed, and the booking is closed all the same. A cancellation by the customer
  (`bookings.ts:1237`), a deleted account (`auth.ts:112`) and the operator
  (`admin.ts:485`) end a booking and leave its authorization standing. The roll-back of a
  failed void may restore a `cancelled_by_customer` that another request had only
  claimed. The event of a partial refund marks the whole payments row `refunded`, a
  `capturing` one included. A second refund request passes the claim of the first
  (`payments.ts:653-654`), so the first reverts a true status. A capture whose answer
  is lost is never recorded (`index.ts:778`). A failed `refunds.create` leaves
  `refunded` claimed (`payments.ts:726`). A late start-route overwrites an arrival
  (`dayOfService.ts:204`). A completion that matches no row still stores its package
  (`:564`). A worker that dies leaves `capturing` for good (`index.ts:764`).
- *FeeApproval.* Updates are by id only, so a call that read an open proposal
  overwrites a decision made meanwhile (`approvalEngine.ts:179`, `:257`, `:301`,
  `:338`, `:358`; the error text at `:194` says it cannot). A collaborator who joins
  in the cooldown must approve, but is not waited for (`:276`, header `:21`). A notice
  may go out after a modification has reset the cooldown. Between superseding and
  activating there is no fee (`:386`).
- *Crew.* A replaced seat keeps `check_in_at` and `stripe_transfer_id`
  (`crewAssignment.ts:481`), and a check-in writes by seat id
  (`crewDayOfService.ts:224`). Two invitations from one reading give the same
  version with different pools (`:36-37`). A decline may write an old pool over a new
  wave (`:439`). A replaced lead's late claim leaves `bookings.cleaner_id` at somebody
  who does not lead (`101_team_cleans.sql:80`). A cascade may invite a cleaner who is
  in another seat's wave.
- *CrewPayout.* A crash leaves `pending:transfer` for good (`crewPayout.ts:306`).
  A seat claimed by another, failing call counts as skipped and the booking as
  settled (`:311`). If the crew changes between two releases, the transfers may
  exceed the pool or fall short of it, against the header (`:20-28`); a second release
  rewrites the earnings of seats already paid (`:211`). Switching the team flag off in
  between sends the booking down the solo path, under another key.
- *Checkout and price.* Two overlapping requests for the access-delay fee both charge it
  (`admin.ts:537`, against the comment at `:500-502`); so does a later one when the sum of
  the rows cannot be read, and counts as nothing (`accessDelayFee.ts:98-100`), or when the
  row of the first one was lost. The comment at `bookingLedger.ts:108-113` says that a
  capturable intent is left alone on an increase; the code increments its authorization.
  An intent in `requires_action` is not synced, and nothing says so
  (`bookingLedger.ts:162-165`); a roll-back whose own statement fails is swallowed
  (`coupons.ts:309-313`). A refresh leaves an intent that
  exists at the old amount (`bookings.ts:808-811`, `:835-837`), and so may two
  adjustments that reach Stripe in the other order (`bookingLedger.ts:102`). A refresh, or
  the refusal of a fee, writes a total that the ledger does not explain
  (`bookings.ts:822`, `scopeReviewEngine.ts:412`, against `bookingLedger.ts:14`). A
  create-intent that finds the sentinel looks it up at Stripe and answers 500
  (`payments.ts:155`), where the comment at `:178-182` promises reuse or a 409; the
  takeover after 30 seconds is therefore reached only by a request that had read the
  booking before. An adjustment whose ledger row is lost undoes its claim, but the total
  keeps the change.
- *Tips.* The event settles `pending` rows only, so a tip whose first card was declined
  and whose second one succeeds on the same intent, on an open page, is charged and
  never recorded nor paid out (`stripe-webhook.ts:181`); if the row was revived meanwhile,
  it waits for an intent that is charged already, and blocks other tips. A late failed
  event marks a revived row failed. A crash between claim and store leaves `pending` for
  good. A retry with another amount within a day is refused by Stripe for its key. Two
  overlapping submits for a crew may each take some of the rows; the one intent then
  has the full amount and backs only some shares. A solo tip that succeeds after the
  release, or whose transfer failed, is never paid: no later release passes the claim
  (`payments.ts:589` says otherwise). Replaying a failed webhook resets its
  `processed_at` only (`adminObservability.ts:328-346`), and nothing handles it again.
- *Founding members.* One person becomes a founder twice when two enrollments overlap or
  an account is restored beside the other (`foundingMember.ts:182`, `:258`; the comment at
  `:170-172` says never). Overlapping enrollments exceed the cap (`:112`), and so does one
  that cannot read the settings: it goes by defaults without a cap or a cutoff
  (`:91-93`). A revoked
  member is enrolled again by any promotion claim or second approval (`:190`), with a new
  number and date, though migration 085 says of the date "never changes once set" and
  `:257` that a member comes back under the old number. A founding claim made
  signed in without an account on the promotion's side is never redeemed, since only
  claims without a user are (`promotions.ts:607`); and a user who claimed both signed in
  and signed out makes every redemption throw at the unique index (`:634`), on every
  load, before it reaches their other claims.
- *Pricing approval* (not modelled). A proposal for an existing rule takes the rule out
  of force at once (`lib/pricingApproval.ts:63`), and nothing puts it back when the
  proposal is declined, cancelled or expires.

## 7. What is not modelled, and the plan

Not modelled inside the modelled components: the arithmetic of quotes and payouts,
partial refunds of the refund endpoint, what an approved refusal writes to the total and
to the payout ledger, statuses outside the modules that the operator may write, changes
of a promotion's audience after claims were made (`adminPromotions.ts:342`), a Worker
that dies or a roll-back that fails between a discount's claim and its adjustment,
photos, checklists and no-show reports of the solo day of service, `crew_status`, the
rankings, PINs, two overlapping crons of `FeeApproval`, changes of the pool's inputs
between two crew releases; in `Checkout`, bookings that were captured or ended and
intents of the former automatic capture; in `Founding`, the badge, the welcome flag and
the coupons a promotion mints. Left out altogether are the components marked
`not_modelled` in `PROJECT.json`, each with its reason. Most of the repository is user
interface (five web applications and a mobile one) and pure arithmetic without protocol
state, so the models cover a small share of its lines and most of its concurrent state
changes. Task allocation (`lib/crew`) has no caller in the API that would store what it
computes.

Next, in this order:

1. `PricingApproval` (`lib/pricingApproval.ts`), which is `FeeApproval` line for line but
   for the creation, by instantiating what they share.
2. `ClaimBeforeRun`: scheduled actions and transitions as one pattern with a crash
   between claim and run; at most once holds, at least once does not.
3. `CrewStatus`: a derived value against its sources.
4. A composition of `Crew` and `CrewPayout` through `present`, in which `CrewChanges` is
   what the seats do; the abstract specification is the conserved pool.
5. `Checkout` in front of `Fulfilment`, which starts from an authorized booking: the
   captured amount never exceeds what was authorized.

Theorems to add: the refinement of 4, for which `SeatsTurnOneByOne` is the step of the
crew, and the theorems of each new module.
