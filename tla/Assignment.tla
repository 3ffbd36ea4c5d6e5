----------------------------- MODULE Assignment -----------------------------
(***************************************************************************)
(* Staffing one solo booking: the offer queue of lib/assignment.ts, the    *)
(* cleaners who answer it, the cron that expires it, the operator who      *)
(* restarts it or edits the job by hand, and the customer who cancels.     *)
(*                                                                         *)
(* Each SQL statement commits on its own, so a call is a process whose     *)
(* steps interleave with every other call on the same booking.             *)
(*                                                                         *)
(*   a staffing run   idle (-> reset) -> insert -> offer -> ... -> done    *)
(*   a cleaner        idle -> accept -> mark -> idle                       *)
(*                    idle -> cascade -> ... -> idle                       *)
(*   a sweep          idle -> next (-> cascade -> ... -> next) -> idle     *)
(*   and, within them, cascade -> (offer -> touch -> announce | exhausted) *)
(*                                                                         *)
(* A queue row is known by the run that inserted it and its position.      *)
(***************************************************************************)
EXTENDS Naturals, FiniteSets

CONSTANTS
    Cleaners,       \* the cleaners the ranking may return
    Nobody,         \* bookings.cleaner_id IS NULL
    Staffers,       \* the calls of initiateAssignment
    Sweepers,       \* the calls of processExpiredOffers, one after the other
    Customer,       \* the customer of the booking
    MaxCandidates,  \* matching_config.maxCandidates
    Rankings,       \* what the ranking may return, a subset of Orders
    Edits,          \* the statuses the operator may write by hand
    MaxEdits,       \* bound on the operator's edits of the job
    Calls           \* the calls in use besides staffing, a subset of AllCalls

AllCalls == {"assign", "accept", "decline", "expire", "cancel", "delete", "patch"}

Processes == Staffers \union Cleaners \union Sweepers \union {Customer}

Positions == 1..MaxCandidates

ASSUME AssignmentAssumption ==
    /\ MaxCandidates \in Nat \ {0}
    /\ MaxEdits \in Nat
    /\ Nobody \notin Cleaners
    /\ Calls \subseteq AllCalls
    /\ Staffers \intersect Cleaners = {}
    /\ Staffers \intersect Sweepers = {}
    /\ Cleaners \intersect Sweepers = {}
    /\ Customer \notin Staffers \union Cleaners \union Sweepers

\* Distinct cleaners, the best one first.
Orders ==
    {o \in UNION {[1..n -> Cleaners] : n \in Positions} :
        \A i, j \in DOMAIN o : o[i] = o[j] => i = j}

Rows == Staffers \X Positions

NoRow == << >>

BookingStatuses ==
    {"booked", "matching", "offered_to_cleaner", "cleaner_accepted",
     "in_progress", "completed", "cancelled_by_customer", "disputed", "refunded"}

\* The statuses from which the status machine lets a customer cancel.
Cancellable == {"booked", "matching", "offered_to_cleaner"}

\* The statuses in which the accepting UPDATE leaves the booking alone.
ClosedToAccept ==
    {"cleaner_accepted", "in_progress", "completed", "cancelled_by_customer"}

ASSUME ChoicesAssumption ==
    /\ Rankings \subseteq Orders
    /\ Edits \subseteq BookingStatuses

VARIABLES
    status,   \* bookings.status
    cleaner,  \* bookings.cleaner_id, or Nobody
    plan,     \* the ranking each staffing run works from
    row,      \* assignment_queue.status of each row, or "absent"
    offered,  \* the rows that offerPosition has offered
    pc,       \* where each process is
    at,       \* the queue position it is working on
    pick,     \* the row it is about to offer
    swept,    \* rows a sweep has expired and not looked at yet
    edits,    \* the operator's edits so far
    told,     \* cleaners whose accept was answered with success
    won,      \* (history) who has won the job since the operator last wrote
              \* cleaner_id
    lost      \* (history) who had won it when the operator wrote cleaner_id

vars == <<status, cleaner, plan, row, offered, pc, at, pick, swept, edits,
          told, won, lost>>

winners == <<told, won, lost>>
booking == <<status, cleaner, winners>>
queue   == <<plan, row, offered>>
locals  == <<at, pick, swept, edits>>

Labels == {"idle", "reset", "insert", "offer", "touch", "announce", "cascade",
           "exhausted", "accept", "mark", "cancel", "next", "done"}

TypeOK ==
    /\ status \in BookingStatuses
    /\ cleaner \in Cleaners \union {Nobody}
    /\ plan \in [Staffers -> Orders \union {<< >>}]
    /\ row \in [Rows -> {"absent", "pending", "accepted", "declined",
                         "expired", "skipped"}]
    /\ offered \subseteq Rows
    /\ pc \in [Processes -> Labels]
    /\ at \in [Processes -> 0..MaxCandidates]
    /\ pick \in [Processes -> Rows \union {NoRow}]
    /\ \A p \in Processes : pc[p] = "touch" => pick[p] \in Rows
    /\ swept \in [Sweepers -> SUBSET Rows]
    /\ edits \in 0..MaxEdits
    /\ told \subseteq Cleaners /\ won \subseteq Cleaners /\ lost \subseteq Cleaners

Init ==
    /\ status = "booked"
    /\ cleaner = Nobody
    /\ plan = [p \in Staffers |-> << >>]
    /\ row = [r \in Rows |-> "absent"]
    /\ offered = {}
    /\ pc = [p \in Processes |-> "idle"]
    /\ at = [p \in Processes |-> 0]
    /\ pick = [p \in Processes |-> NoRow]
    /\ swept = [s \in Sweepers |-> {}]
    /\ edits = 0
    /\ told = {} /\ won = {} /\ lost = {}

Owner(r) == plan[r[1]][r[2]]

Pending == {r \in Rows : row[r] = "pending"}

RowsOf(c) == {r \in Rows : row[r] # "absent" /\ Owner(r) = c}

\* The rows of a cleaner that are not accepted, declined or expired.
OpenRowsOf(c) == {r \in RowsOf(c) : row[r] \in {"pending", "skipped"}}

Mark(S, s) == row' = [r \in Rows |-> IF r \in S THEN s ELSE row[r]]

Goto(p, label) == pc' = [pc EXCEPT ![p] = label]

\* Where a process continues when offerPosition or cascadeFrom returns.
Back(p) ==
    IF p \in Staffers THEN "done" ELSE IF p \in Sweepers THEN "next" ELSE "idle"

-----------------------------------------------------------------------------
(* offerPosition and cascadeFrom, called by all of the others.             *)

\* The pending row at the position, of any run; none means nothing to offer.
OfferPick(p) ==
    /\ pc[p] = "offer"
    /\ \/ \E r \in Pending :
            /\ r[2] = at[p]
            /\ pick' = [pick EXCEPT ![p] = r]
            /\ Goto(p, "touch")
       \/ /\ \A r \in Pending : r[2] # at[p]
          /\ Goto(p, Back(p))
          /\ UNCHANGED pick
    /\ at' = [at EXCEPT ![p] = 0]
    /\ UNCHANGED <<booking, queue, swept, edits>>

\* The row gets an offer time and a new expiry, whatever its status is by now.
OfferTouch(p) ==
    /\ pc[p] = "touch"
    /\ offered' = offered \union {pick[p]}
    /\ pick' = [pick EXCEPT ![p] = NoRow]
    /\ Goto(p, "announce")
    /\ UNCHANGED <<booking, plan, row, at, swept, edits>>

\* The booking is set to offered, whatever its status is by now.
OfferAnnounce(p) ==
    /\ pc[p] = "announce"
    /\ status' = "offered_to_cleaner"
    /\ Goto(p, Back(p))
    /\ UNCHANGED <<cleaner, winners, queue, locals>>

Cascade(p) ==
    /\ pc[p] = "cascade"
    /\ \/ \E r \in Pending :
            /\ r[2] > at[p]
            /\ \A q \in Pending : q[2] > at[p] => q[2] >= r[2]
            /\ at' = [at EXCEPT ![p] = r[2]]
            /\ Goto(p, "offer")
       \/ /\ \A r \in Pending : r[2] <= at[p]
          /\ at' = [at EXCEPT ![p] = 0]
          /\ Goto(p, "exhausted")
    /\ UNCHANGED <<booking, queue, pick, swept, edits>>

\* No candidate is left: the booking waits for manual matching.
Escalate(p) ==
    /\ pc[p] = "exhausted"
    /\ status' = "matching"
    /\ Goto(p, Back(p))
    /\ UNCHANGED <<cleaner, winners, queue, locals>>

-----------------------------------------------------------------------------
(* initiateAssignment.                                                     *)

\* The operator's re-assign skips what is pending before it staffs again.
AssignReset(p) ==
    /\ "assign" \in Calls
    /\ pc[p] = "idle"
    /\ Mark(Pending, "skipped")
    /\ Goto(p, "reset")
    /\ UNCHANGED <<booking, plan, offered, locals>>

StaffNobody(p) ==
    /\ pc[p] \in {"idle", "reset"}
    /\ status' = "matching"
    /\ Goto(p, "done")
    /\ UNCHANGED <<cleaner, winners, queue, locals>>

StaffBegin(p) ==
    /\ pc[p] \in {"idle", "reset"}
    /\ \E o \in Rankings : plan' = [plan EXCEPT ![p] = o]
    /\ status' = "matching"
    /\ at' = [at EXCEPT ![p] = 1]
    /\ Goto(p, "insert")
    /\ UNCHANGED <<cleaner, winners, row, offered, pick, swept, edits>>

\* One INSERT per candidate; after the last one, position 1 is offered.
StaffInsert(p) ==
    /\ pc[p] = "insert"
    /\ Mark({<<p, at[p]>>}, "pending")
    /\ IF at[p] + 1 \in DOMAIN plan[p]
       THEN /\ at' = [at EXCEPT ![p] = @ + 1]
            /\ UNCHANGED pc
       ELSE /\ at' = [at EXCEPT ![p] = 1]
            /\ Goto(p, "offer")
    /\ UNCHANGED <<booking, plan, offered, pick, swept, edits>>

-----------------------------------------------------------------------------
(* handleOfferResponse.                                                    *)

AcceptCheck(c) ==
    /\ "accept" \in Calls
    /\ pc[c] = "idle"
    /\ OpenRowsOf(c) # {}
    /\ Goto(c, "accept")
    /\ UNCHANGED <<booking, queue, locals>>

\* Faulty variant: the claim forgets cleaner_id IS NULL.
AcceptClaimOver(c) ==
    /\ pc[c] = "accept"
    /\ IF status \notin ClosedToAccept
       THEN /\ cleaner' = c
            /\ won' = {c}
            /\ status' = "cleaner_accepted"
            /\ Goto(c, "mark")
       ELSE /\ Goto(c, "idle")
            /\ UNCHANGED <<cleaner, won, status>>
    /\ UNCHANGED <<told, lost, queue, locals>>

\* One UPDATE claims the booking; the loser is answered with a 409.
AcceptClaim(c) ==
    /\ pc[c] = "accept"
    /\ IF cleaner = Nobody /\ status \notin ClosedToAccept
       THEN /\ cleaner' = c
            /\ won' = {c}
            /\ status' = "cleaner_accepted"
            /\ Goto(c, "mark")
       ELSE /\ Goto(c, "idle")
            /\ UNCHANGED <<cleaner, won, status>>
    /\ UNCHANGED <<told, lost, queue, locals>>

\* Faulty variant: every row of the cleaner becomes accepted.
AcceptMarkAll(c) ==
    /\ pc[c] = "mark"
    /\ Mark(RowsOf(c), "accepted")
    /\ told' = told \union {c}
    /\ Goto(c, "idle")
    /\ UNCHANGED <<status, cleaner, won, lost, plan, offered, locals>>

AcceptMark(c) ==
    /\ pc[c] = "mark"
    /\ Mark(OpenRowsOf(c), "accepted")
    /\ told' = told \union {c}
    /\ Goto(c, "idle")
    /\ UNCHANGED <<status, cleaner, won, lost, plan, offered, locals>>

\* A decline cascades from the position of one of the rows it closed, and from
\* 0 when it closed none: a row that was resolved before can be declined again.
Decline(c) ==
    /\ "decline" \in Calls
    /\ pc[c] = "idle"
    /\ RowsOf(c) # {}
    /\ LET mine == RowsOf(c) \intersect Pending
       IN  /\ Mark(mine, "declined")
           /\ \E k \in {r[2] : r \in mine} \union (IF mine = {} THEN {0} ELSE {}) :
                 at' = [at EXCEPT ![c] = k]
    /\ Goto(c, "cascade")
    /\ UNCHANGED <<booking, plan, offered, pick, swept, edits>>

-----------------------------------------------------------------------------
(* processExpiredOffers.                                                   *)

\* All the rows of a run are inserted with one expiry, and only an offer moves
\* it, later: when one row is due, so is every row of its run not offered yet.
Due(S) ==
    /\ S # {}
    /\ \A r \in S, q \in Pending \ offered : r[1] = q[1] => q \in S

\* Faulty variant: only rows that were offered are looked for.
SweepOffered(s) ==
    /\ "expire" \in Calls
    /\ pc[s] = "idle"
    /\ \E S \in SUBSET (Pending \intersect offered) :
          /\ S # {}
          /\ Mark(S, "expired")
          /\ swept' = [swept EXCEPT ![s] = S]
    /\ Goto(s, "next")
    /\ UNCHANGED <<booking, plan, offered, at, pick, edits>>

Sweep(s) ==
    /\ "expire" \in Calls
    /\ pc[s] = "idle"
    /\ \E S \in SUBSET Pending :
          /\ Due(S)
          /\ Mark(S, "expired")
          /\ swept' = [swept EXCEPT ![s] = S]
    /\ Goto(s, "next")
    /\ UNCHANGED <<booking, plan, offered, at, pick, edits>>

\* For each expired row the booking is read again before the cascade.
SweepRow(s) ==
    /\ pc[s] = "next"
    /\ \E r \in swept[s] :
          /\ swept' = [swept EXCEPT ![s] = @ \ {r}]
          /\ IF status \in {"offered_to_cleaner", "matching"}
             THEN /\ at' = [at EXCEPT ![s] = r[2]]
                  /\ Goto(s, "cascade")
             ELSE UNCHANGED <<at, pc>>
    /\ UNCHANGED <<booking, queue, pick, edits>>

SweepEnd(s) ==
    /\ pc[s] = "next"
    /\ swept[s] = {}
    /\ Goto(s, "idle")
    /\ UNCHANGED <<booking, queue, locals>>

-----------------------------------------------------------------------------
(* The customer.                                                           *)

CancelCheck ==
    /\ "cancel" \in Calls
    /\ pc[Customer] = "idle"
    /\ status \in Cancellable
    /\ Goto(Customer, "cancel")
    /\ UNCHANGED <<booking, queue, locals>>

\* The status is written without looking at it again.
CancelWrite ==
    /\ pc[Customer] = "cancel"
    /\ status' = "cancelled_by_customer"
    /\ Goto(Customer, "idle")
    /\ UNCHANGED <<cleaner, winners, queue, locals>>

DeleteAccount ==
    /\ "delete" \in Calls
    /\ status \in {"booked", "matching"}
    /\ status' = "cancelled_by_customer"
    /\ UNCHANGED <<cleaner, winners, queue, pc, locals>>

-----------------------------------------------------------------------------
(* The operator's job editor: one UPDATE by id, which looks at nothing.    *)

PatchJob ==
    /\ "patch" \in Calls
    /\ edits < MaxEdits
    /\ edits' = edits + 1
    /\ status' \in Edits \union {status}
    /\ \/ UNCHANGED <<cleaner, won, lost>>
       \/ /\ cleaner' \in Cleaners \union {Nobody}
          /\ won' = {}
          /\ lost' = lost \union won
    /\ UNCHANGED <<told, queue, pc, at, pick, swept>>

-----------------------------------------------------------------------------
Offering(p) ==
    \/ OfferPick(p)
    \/ OfferTouch(p)
    \/ OfferAnnounce(p)
    \/ Cascade(p)
    \/ Escalate(p)

Staff(p) ==
    \/ AssignReset(p)
    \/ StaffNobody(p)
    \/ StaffBegin(p)
    \/ StaffInsert(p)

Respond(c) ==
    \/ AcceptCheck(c)
    \/ AcceptClaim(c)
    \/ AcceptMark(c)
    \/ Decline(c)

Expire(s) ==
    \/ Sweep(s)
    \/ SweepRow(s)
    \/ SweepEnd(s)

Next ==
    \/ \E p \in Processes : Offering(p)
    \/ \E p \in Staffers : Staff(p)
    \/ \E c \in Cleaners : Respond(c)
    \/ \E s \in Sweepers : Expire(s)
    \/ CancelCheck
    \/ CancelWrite
    \/ DeleteAccount
    \/ PatchJob

Spec == Init /\ [][Next]_vars

\* The cron fires every few minutes and its Worker finishes; so does a call that
\* has begun. No cleaner, operator or customer ever has to call.
FairSpec ==
    /\ Spec
    /\ \A p \in Processes : WF_vars(Offering(p))
    /\ \A p \in Staffers : WF_vars(StaffInsert(p))
    /\ \A c \in Cleaners : WF_vars(AcceptClaim(c) \/ AcceptMark(c))
    /\ \A s \in Sweepers : WF_vars(Expire(s))
    /\ WF_vars(CancelWrite)

-----------------------------------------------------------------------------
(* Properties.                                                             *)

(* The claim on bookings.cleaner_id admits one winner until the operator writes
   cleaner_id by hand: whoever has won since then is the booking's cleaner, and
   whoever was told the job is theirs, is about to be told, or has an accepted
   queue row has won it, now or before the operator gave it away. *)
OneWinner ==
    /\ won \subseteq {cleaner}
    /\ told \subseteq won \union lost
    /\ \A c \in Cleaners : pc[c] = "mark" => c \in won \union lost
    /\ \A r \in Rows : row[r] = "accepted" => Owner(r) \in won \union lost

(* What the runs write and when: a run that has not begun has no rows, and a row
   belongs to a position its run has ranked. *)
QueueInv ==
    /\ \A p \in Staffers : pc[p] \in {"idle", "reset"}
          => \A k \in Positions : row[<<p, k>>] = "absent"
    /\ \A p \in Staffers : pc[p] = "insert"
          => /\ at[p] \in DOMAIN plan[p]
             /\ \A k \in Positions : k >= at[p] => row[<<p, k>>] = "absent"
    /\ \A r \in Rows : row[r] # "absent" => r[2] \in DOMAIN plan[r[1]]

(* An answer on a queue row is final: what was accepted, declined or expired is
   never rewritten by a sweep, a re-assign or a second answer that raced it. *)
AnswerIsFinal ==
    [][\A r \in Rows : row[r] \in {"accepted", "declined", "expired"}
          => row'[r] = row[r]]_row

(* The queue implements the promise made to the cleaners: one of them gets the
   job, nobody but the operator takes it from them, and only who has won it hears
   that they have it. *)
Promise == INSTANCE AssignmentPromise
KeepsPromise == Promise!Spec

(* Every offer is resolved in the end, also the backups that were never offered:
   the sweep reaches each pending row. *)
OffersResolve ==
    \A r \in Rows : (row[r] = "pending") ~> (row[r] # "pending")

(* "Only cascade if the booking is still awaiting a cleaner" (assignment.ts,
   processExpiredOffers): a booking that somebody accepted or that the customer
   cancelled is not offered around again. *)
ClosedIsNotReopened ==
    [][~(/\ status \in {"cleaner_accepted", "cancelled_by_customer"}
         /\ status' \in {"offered_to_cleaner", "matching"})]_status
=============================================================================
