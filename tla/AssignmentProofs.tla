-------------------------- MODULE AssignmentProofs --------------------------
(***************************************************************************)
(* Theorems about Assignment, for every set of cleaners, staffing runs and *)
(* sweeps, every queue length and every choice of calls.                   *)
(***************************************************************************)
EXTENDS Assignment, TLAPS

USE DEF booking, queue, locals, winners

RowStatuses == {"absent", "pending", "accepted", "declined", "expired", "skipped"}

\* A row is its run and its position.
LEMMA RowParts ==
    \A r \in Rows : r = <<r[1], r[2]>> /\ r[1] \in Staffers /\ r[2] \in Positions
BY DEF Rows

\* A ranking has a first candidate, its positions are queue positions and its
\* entries cleaners.
LEMMA OrderDomain ==
    ASSUME NEW o \in Orders
    PROVE  /\ DOMAIN o \subseteq Positions
           /\ 1 \in DOMAIN o
           /\ \A i \in DOMAIN o : o[i] \in Cleaners
<1>1. PICK n \in Positions : o \in [1..n -> Cleaners]
    BY DEF Orders
<1>2. n \in Nat /\ n >= 1 /\ n <= MaxCandidates
    BY AssignmentAssumption DEF Positions
<1>3. DOMAIN o = 1..n
    BY <1>1
<1> QED
    BY <1>1, <1>2, <1>3, AssignmentAssumption DEF Positions

\* Mark writes one status to a set of rows and leaves the others.
LEMMA MarkRows ==
    ASSUME row \in [Rows -> RowStatuses], NEW S, NEW s \in RowStatuses, Mark(S, s)
    PROVE  /\ row' \in [Rows -> RowStatuses]
           /\ \A r \in Rows : row'[r] = IF r \in S THEN s ELSE row[r]
BY DEF Mark, RowStatuses

\* Goto moves one process.
LEMMA GotoMoves ==
    ASSUME pc \in [Processes -> Labels], NEW p \in Processes, NEW label \in Labels,
           Goto(p, label)
    PROVE  /\ pc' \in [Processes -> Labels]
           /\ pc'[p] = label
           /\ \A q \in Processes \ {p} : pc'[q] = pc[q]
BY DEF Goto

\* A call returns to a place of its own kind of process.
LEMMA BackLabel == \A p \in Processes : Back(p) \in Labels /\ Back(p) \in {"done", "next", "idle"}
BY DEF Back, Labels

-----------------------------------------------------------------------------
(* Type correctness.                                                       *)

\* The initial states are well typed.
LEMMA InitTypeOK == Init => TypeOK
BY AssignmentAssumption, ChoicesAssumption DEF Init, TypeOK, BookingStatuses, Labels

\* A step of the offering routines keeps the state well typed.
LEMMA OfferingTypeOK ==
    ASSUME TypeOK, NEW p \in Processes, Offering(p)
    PROVE  TypeOK'
<1> USE AssignmentAssumption, ChoicesAssumption DEF TypeOK
<1>0. Back(p) \in Labels /\ Back(p) # "touch"
    BY BackLabel
<1>1. CASE OfferPick(p)
  <2>1. CASE \E r \in Pending : pick' = [pick EXCEPT ![p] = r] /\ Goto(p, "touch")
    <3> PICK r \in Rows : pick' = [pick EXCEPT ![p] = r] /\ Goto(p, "touch")
        BY <2>1 DEF Pending
    <3> QED
        BY <1>1 DEF OfferPick, Goto, Labels
  <2>2. CASE Goto(p, Back(p)) /\ UNCHANGED pick
      BY <1>0, <1>1, <2>2 DEF OfferPick, Goto
  <2> QED
      BY <1>1, <2>1, <2>2 DEF OfferPick
<1>2. CASE OfferTouch(p)
    BY <1>2 DEF OfferTouch, Goto, Labels
<1>3. CASE OfferAnnounce(p)
    BY <1>0, <1>3 DEF OfferAnnounce, Goto, BookingStatuses
<1>4. CASE Cascade(p)
  <2>1. \A r \in Pending : r[2] \in 0..MaxCandidates
      BY RowParts DEF Pending, Positions
  <2>2. CASE \E k \in 0..MaxCandidates : at' = [at EXCEPT ![p] = k] /\ Goto(p, "offer")
      BY <1>4, <2>2 DEF Cascade, Goto, Labels
  <2>3. CASE at' = [at EXCEPT ![p] = 0] /\ Goto(p, "exhausted")
      BY <1>4, <2>3 DEF Cascade, Goto, Labels
  <2> QED
      BY <1>4, <2>1, <2>2, <2>3 DEF Cascade
<1>5. CASE Escalate(p)
    BY <1>0, <1>5 DEF Escalate, Goto, BookingStatuses
<1> QED
    BY <1>1, <1>2, <1>3, <1>4, <1>5 DEF Offering

\* A step of a staffing run keeps the state well typed.
LEMMA StaffTypeOK ==
    ASSUME TypeOK, NEW p \in Staffers, Staff(p)
    PROVE  TypeOK'
<1> USE AssignmentAssumption, ChoicesAssumption DEF TypeOK
<1>0. p \in Processes
    BY DEF Processes
<1>1. CASE AssignReset(p)
    BY <1>0, <1>1, MarkRows DEF AssignReset, Goto, Labels, RowStatuses
<1>2. CASE StaffNobody(p)
    BY <1>0, <1>2 DEF StaffNobody, Goto, Labels, BookingStatuses
<1>3. CASE StaffBegin(p)
    BY <1>0, <1>3 DEF StaffBegin, Goto, Labels, BookingStatuses
<1>4. CASE StaffInsert(p)
  <2>1. row' \in [Rows -> RowStatuses]
      BY <1>4, MarkRows DEF StaffInsert, RowStatuses
  <2>2. CASE at[p] + 1 \in DOMAIN plan[p]
    <3>1. at[p] + 1 \in 0..MaxCandidates
        BY <2>2, OrderDomain DEF Positions
    <3>2. at' = [at EXCEPT ![p] = at[p] + 1] /\ UNCHANGED pc
        BY <1>4, <2>2 DEF StaffInsert
    <3>3. at' \in [Processes -> 0..MaxCandidates]
        BY <3>1, <3>2
    <3> QED
        BY <1>4, <2>1, <3>2, <3>3 DEF StaffInsert, RowStatuses
  <2>3. CASE at[p] + 1 \notin DOMAIN plan[p]
    <3>1. at' = [at EXCEPT ![p] = 1] /\ pc' = [pc EXCEPT ![p] = "offer"]
        BY <1>4, <2>3 DEF StaffInsert, Goto
    <3>2. 1 \in 0..MaxCandidates
        OBVIOUS
    <3> QED
        BY <1>4, <2>1, <3>1, <3>2 DEF StaffInsert, RowStatuses, Labels
  <2> QED
      BY <2>2, <2>3
<1> QED
    BY <1>1, <1>2, <1>3, <1>4 DEF Staff

\* A step of a cleaner's answer keeps the state well typed.
LEMMA RespondTypeOK ==
    ASSUME TypeOK, NEW c \in Cleaners, Respond(c)
    PROVE  TypeOK'
<1> USE AssignmentAssumption, ChoicesAssumption DEF TypeOK
<1>0. c \in Processes
    BY DEF Processes
<1>1. CASE AcceptCheck(c)
    BY <1>0, <1>1 DEF AcceptCheck, Goto, Labels
<1>2. CASE AcceptClaim(c)
  <2>1. /\ pc' \in [Processes -> Labels]
        /\ \A p \in Processes : pc'[p] = "touch" => pc[p] = "touch"
      BY <1>0, <1>2 DEF AcceptClaim, Goto, Labels
  <2>2. status' \in BookingStatuses /\ cleaner' \in Cleaners \union {Nobody}
      BY <1>2 DEF AcceptClaim, BookingStatuses
  <2>3. won' \subseteq Cleaners
      BY <1>2 DEF AcceptClaim
  <2>4. UNCHANGED <<told, lost, queue, locals>>
      BY <1>2 DEF AcceptClaim
  <2> QED
      BY <2>1, <2>2, <2>3, <2>4
<1>3. CASE AcceptMark(c)
    BY <1>0, <1>3, MarkRows DEF AcceptMark, Goto, Labels, RowStatuses
<1>4. CASE Decline(c)
  <2> DEFINE mine == RowsOf(c) \intersect Pending
  <2>1. \A r \in mine : r[2] \in 0..MaxCandidates
      BY RowParts DEF Pending, Positions
  <2>1a. {r[2] : r \in mine} \union (IF mine = {} THEN {0} ELSE {}) \subseteq 0..MaxCandidates
      BY <2>1
  <2>2. at' \in [Processes -> 0..MaxCandidates]
    <3> HIDE DEF mine
    <3>1. \E k \in {r[2] : r \in mine} \union (IF mine = {} THEN {0} ELSE {}) :
             at' = [at EXCEPT ![c] = k]
        BY <1>4 DEF Decline, mine
    <3>2. PICK k \in 0..MaxCandidates : at' = [at EXCEPT ![c] = k]
        BY <2>1a, <3>1
    <3> QED
        BY <3>2
  <2>3. row' \in [Rows -> RowStatuses]
      BY <1>4, MarkRows DEF Decline, RowStatuses
  <2>4. pc' = [pc EXCEPT ![c] = "cascade"] /\ UNCHANGED <<booking, plan, offered, pick, swept, edits>>
      BY <1>4 DEF Decline, Goto
  <2> QED
      BY <1>0, <2>2, <2>3, <2>4 DEF Labels, RowStatuses
<1> QED
    BY <1>1, <1>2, <1>3, <1>4 DEF Respond

\* A step of a sweep keeps the state well typed.
LEMMA ExpireTypeOK ==
    ASSUME TypeOK, NEW s \in Sweepers, Expire(s)
    PROVE  TypeOK'
<1> USE AssignmentAssumption, ChoicesAssumption DEF TypeOK
<1>0. s \in Processes
    BY DEF Processes
<1>1. CASE Sweep(s)
  <2>1. PICK S \in SUBSET Pending :
            Mark(S, "expired") /\ swept' = [swept EXCEPT ![s] = S]
      BY <1>1 DEF Sweep
  <2>2. row' \in [Rows -> RowStatuses]
      BY <2>1, MarkRows DEF RowStatuses
  <2>3. swept' \in [Sweepers -> SUBSET Rows]
      BY <2>1 DEF Pending
  <2> QED
      BY <1>0, <1>1, <2>2, <2>3 DEF Sweep, Goto, Labels, RowStatuses
<1>2. CASE SweepRow(s)
  <2>1. PICK r \in Rows : /\ swept' = [swept EXCEPT ![s] = @ \ {r}]
                          /\ \/ at' = [at EXCEPT ![s] = r[2]] /\ Goto(s, "cascade")
                             \/ UNCHANGED <<at, pc>>
      BY <1>2 DEF SweepRow
  <2>2. r[2] \in 0..MaxCandidates
      BY RowParts DEF Positions
  <2> QED
      BY <1>0, <1>2, <2>1, <2>2 DEF SweepRow, Goto, Labels
<1>3. CASE SweepEnd(s)
    BY <1>0, <1>3 DEF SweepEnd, Goto, Labels
<1> QED
    BY <1>1, <1>2, <1>3 DEF Expire

\* So does a step of the customer.
LEMMA CustomerTypeOK ==
    ASSUME TypeOK, CancelCheck \/ CancelWrite \/ DeleteAccount
    PROVE  TypeOK'
BY DEF TypeOK, CancelCheck, CancelWrite, DeleteAccount, Goto, Labels, Processes,
       BookingStatuses

\* So does an edit of the operator.
LEMMA PatchTypeOK ==
    ASSUME TypeOK, PatchJob
    PROVE  TypeOK'
<1> USE AssignmentAssumption, ChoicesAssumption DEF TypeOK
<1>1. /\ status' \in BookingStatuses
      /\ cleaner' \in Cleaners \union {Nobody}
      /\ won' \subseteq Cleaners
      /\ lost' \subseteq Cleaners
      /\ edits' \in 0..MaxEdits
      /\ UNCHANGED <<told, queue, pc, at, pick, swept>>
    BY DEF PatchJob
<1> QED
    BY <1>1

\* Every step keeps the state well typed.
LEMMA NextTypeOK == TypeOK /\ [Next]_vars => TypeOK'
<1> SUFFICES ASSUME TypeOK, [Next]_vars PROVE TypeOK'
    OBVIOUS
<1>1. CASE UNCHANGED vars
    BY <1>1 DEF vars, TypeOK
<1> QED
    BY <1>1, OfferingTypeOK, StaffTypeOK, RespondTypeOK, ExpireTypeOK,
       CustomerTypeOK, PatchTypeOK DEF Next

\* Every reachable state is well typed.
THEOREM TypeCorrect == Spec => []TypeOK
BY InitTypeOK, NextTypeOK, PTL DEF Spec

-----------------------------------------------------------------------------
(* The queue.                                                              *)

\* Every step keeps QueueInv: a run inserts its own rows, in order, and nobody
\* else creates one.
LEMMA NextQueueInv == TypeOK /\ QueueInv /\ [Next]_vars => QueueInv'
<1> SUFFICES ASSUME TypeOK, QueueInv, [Next]_vars PROVE QueueInv'
    OBVIOUS
<1> USE AssignmentAssumption, ChoicesAssumption DEF TypeOK, QueueInv
<1>0. Staffers \subseteq Processes /\ Cleaners \subseteq Processes /\ Sweepers \subseteq Processes
    BY DEF Processes
\* A step that adds no row, begins no run and moves no run's insertion.
<1>1. ASSUME \A r \in Rows : row[r] = "absent" <=> row'[r] = "absent",
             UNCHANGED plan,
             \A p \in Staffers : /\ pc'[p] \in {"idle", "reset"} => pc[p] \in {"idle", "reset"}
                                 /\ pc'[p] = "insert" => pc[p] = "insert" /\ at'[p] = at[p]
      PROVE  QueueInv'
  <2>1. \A p \in Staffers, k \in Positions : <<p, k>> \in Rows
      BY DEF Rows
  <2> QED
      BY <1>1, <2>1
<1>2. ASSUME NEW p \in Processes, Offering(p) PROVE QueueInv'
  <2>1. /\ UNCHANGED <<plan, row>>
        /\ \A q \in Processes \ {p} : pc'[q] = pc[q] /\ at'[q] = at[q]
        /\ pc[p] \notin {"idle", "reset", "insert"}
        /\ pc'[p] \in {"touch", "announce", "offer", "exhausted", Back(p)}
      BY <1>2 DEF Offering, OfferPick, OfferTouch, OfferAnnounce, Cascade, Escalate, Goto
  <2>2. p \in Staffers => Back(p) = "done"
      BY DEF Back
  <2> QED
      BY <1>0, <1>1, <2>1, <2>2
<1>3. ASSUME NEW p \in Staffers, AssignReset(p) PROVE QueueInv'
  <2>1. \A r \in Rows : row'[r] = IF r \in Pending THEN "skipped" ELSE row[r]
      BY <1>3, MarkRows DEF AssignReset, RowStatuses
  <2> QED
      BY <1>0, <1>1, <1>3, <2>1 DEF AssignReset, Goto, Pending
<1>4. ASSUME NEW p \in Staffers, StaffNobody(p) PROVE QueueInv'
    BY <1>0, <1>1, <1>4 DEF StaffNobody, Goto
<1>5. ASSUME NEW p \in Staffers, StaffBegin(p) PROVE QueueInv'
  <2>1. PICK o \in Orders : plan' = [plan EXCEPT ![p] = o]
      BY <1>5 DEF StaffBegin
  <2>2. /\ pc' = [pc EXCEPT ![p] = "insert"]
        /\ at' = [at EXCEPT ![p] = 1]
        /\ UNCHANGED row
        /\ pc[p] \in {"idle", "reset"}
      BY <1>5 DEF StaffBegin, Goto
  <2>3. \A k \in Positions : row[<<p, k>>] = "absent"
      BY <2>2
  <2>4. \A r \in Rows : r[1] = p => row[r] = "absent"
      BY <2>3, RowParts
  <2>5. 1 \in DOMAIN o
      BY OrderDomain
  <2>6. \A r \in Rows : row'[r] # "absent" => r[2] \in DOMAIN plan'[r[1]]
      BY <2>1, <2>2, <2>4, RowParts
  <2>7. \A q \in Staffers : pc'[q] \in {"idle", "reset"}
           => \A k \in Positions : row'[<<q, k>>] = "absent"
      BY <1>0, <2>2
  <2>8. \A q \in Staffers : pc'[q] = "insert"
           => /\ at'[q] \in DOMAIN plan'[q]
              /\ \A k \in Positions : k >= at'[q] => row'[<<q, k>>] = "absent"
      BY <1>0, <2>1, <2>2, <2>3, <2>5
  <2> QED
      BY <2>6, <2>7, <2>8
<1>6. ASSUME NEW p \in Staffers, StaffInsert(p) PROVE QueueInv'
  <2>1. \A r \in Rows : row'[r] = IF r = <<p, at[p]>> THEN "pending" ELSE row[r]
      BY <1>6, MarkRows DEF StaffInsert, RowStatuses
  <2>2. /\ UNCHANGED plan
        /\ pc[p] = "insert"
        /\ \/ at[p] + 1 \in DOMAIN plan[p] /\ at' = [at EXCEPT ![p] = at[p] + 1] /\ pc' = pc
           \/ at' = [at EXCEPT ![p] = 1] /\ pc' = [pc EXCEPT ![p] = "offer"]
      BY <1>6 DEF StaffInsert, Goto
  <2>3. \A r \in Rows : row'[r] # "absent" => r[2] \in DOMAIN plan'[r[1]]
      BY <2>1, <2>2
  <2>4. ASSUME NEW q \in Staffers, NEW k \in Positions PROVE
           row'[<<q, k>>] = IF q = p /\ k = at[p] THEN "pending" ELSE row[<<q, k>>]
      BY <2>1 DEF Rows
  <2>5. \A q \in Staffers : q # p => pc'[q] = pc[q] /\ at'[q] = at[q]
      BY <1>0, <2>2
  <2>6. pc'[p] \notin {"idle", "reset"}
      BY <1>0, <2>2
  <2>7. ASSUME NEW q \in Staffers, pc'[q] \in {"idle", "reset"}, NEW k \in Positions
        PROVE  row'[<<q, k>>] = "absent"
    <3>1. q # p /\ pc[q] \in {"idle", "reset"}
        BY <2>5, <2>6, <2>7
    <3>2. row[<<q, k>>] = "absent"
        BY <3>1
    <3> QED
        BY <2>4, <3>1, <3>2
  <2>8. ASSUME NEW q \in Staffers, pc'[q] = "insert"
        PROVE  /\ at'[q] \in DOMAIN plan'[q]
               /\ \A k \in Positions : k >= at'[q] => row'[<<q, k>>] = "absent"
    <3>1. CASE q = p
      <4>1. at'[p] = at[p] + 1 /\ at[p] + 1 \in DOMAIN plan[p]
          BY <1>0, <2>2, <2>8, <3>1
      <4>2. ASSUME NEW k \in Positions, k >= at[p] + 1 PROVE row'[<<p, k>>] = "absent"
        <5>1. at[p] \in Nat /\ k \in Nat
            BY <1>0 DEF Positions
        <5>2. k # at[p] /\ k >= at[p]
            BY <4>2, <5>1
        <5>3. row[<<p, k>>] = "absent"
            BY <2>2, <5>2
        <5> QED
            BY <2>4, <5>2, <5>3
      <4> QED
          BY <2>2, <3>1, <4>1, <4>2
    <3>2. CASE q # p
      <4>1. pc[q] = "insert" /\ at'[q] = at[q]
          BY <2>5, <2>8, <3>2
      <4>2. \A k \in Positions : row'[<<q, k>>] = row[<<q, k>>]
          BY <2>4, <3>2
      <4> QED
          BY <2>2, <4>1, <4>2
    <3> QED
        BY <3>1, <3>2
  <2> QED
      BY <2>3, <2>7, <2>8
<1>7. ASSUME NEW c \in Cleaners, Respond(c) PROVE QueueInv'
  <2>1. /\ UNCHANGED plan
        /\ \A q \in Processes \ {c} : pc'[q] = pc[q] /\ at'[q] = at[q]
      BY <1>7 DEF Respond, AcceptCheck, AcceptClaim, AcceptMark, Decline, Goto
  <2>2. \A r \in Rows : row[r] = "absent" <=> row'[r] = "absent"
    <3>1. CASE AcceptMark(c)
      <4>1. \A r \in Rows : row'[r] = IF r \in OpenRowsOf(c) THEN "accepted" ELSE row[r]
          BY <3>1, MarkRows DEF AcceptMark, RowStatuses
      <4>2. \A r \in OpenRowsOf(c) : row[r] # "absent"
          BY DEF OpenRowsOf, RowsOf
      <4> QED
          BY <4>1, <4>2
    <3>2. CASE Decline(c)
        BY <3>2, MarkRows DEF Decline, Pending, RowStatuses
    <3> QED
        BY <1>7, <3>1, <3>2 DEF Respond, AcceptCheck, AcceptClaim
  <2> QED
      BY <1>0, <1>1, <2>1, <2>2
<1>8. ASSUME NEW s \in Sweepers, Expire(s) PROVE QueueInv'
  <2>1. /\ UNCHANGED plan
        /\ \A q \in Processes \ {s} : pc'[q] = pc[q] /\ at'[q] = at[q]
      BY <1>8 DEF Expire, Sweep, SweepRow, SweepEnd, Goto
  <2>2. \A r \in Rows : row[r] = "absent" <=> row'[r] = "absent"
    <3>1. CASE Sweep(s)
      <4>1. PICK S \in SUBSET Pending : Mark(S, "expired")
          BY <3>1 DEF Sweep
      <4> QED
          BY <4>1, MarkRows DEF Pending, RowStatuses
    <3> QED
        BY <1>8, <3>1 DEF Expire, SweepRow, SweepEnd
  <2> QED
      BY <1>0, <1>1, <2>1, <2>2
<1>9. CASE CancelCheck \/ CancelWrite \/ DeleteAccount
    BY <1>1, <1>9 DEF CancelCheck, CancelWrite, DeleteAccount, Goto, Processes
<1>10. CASE PatchJob
    BY <1>1, <1>10 DEF PatchJob
<1>11. CASE UNCHANGED vars
    BY <1>11 DEF vars
<1> QED
    BY <1>2, <1>3, <1>4, <1>5, <1>6, <1>7, <1>8, <1>9, <1>10, <1>11 DEF Next, Staff

\* Every reachable queue has its rows where its runs put them.
THEOREM QueueIsWellFormed == Spec => []QueueInv
<1>1. Init => QueueInv
    BY DEF Init, QueueInv, Rows, Processes
<1> QED
    BY <1>1, InitTypeOK, NextTypeOK, NextQueueInv, PTL DEF Spec

-----------------------------------------------------------------------------
(* One winner.                                                             *)

\* Every step keeps OneWinner: between two writes of the operator the claim
\* writes bookings.cleaner_id once, and only the claimant marks rows and is told.
LEMMA NextOneWinner == TypeOK /\ QueueInv /\ OneWinner /\ [Next]_vars => OneWinner'
<1> SUFFICES ASSUME TypeOK, QueueInv, OneWinner, [Next]_vars PROVE OneWinner'
    OBVIOUS
<1> USE AssignmentAssumption, ChoicesAssumption DEF TypeOK, OneWinner
<1>0. Staffers \subseteq Processes /\ Cleaners \subseteq Processes /\ Sweepers \subseteq Processes
    BY DEF Processes
\* A step that accepts no row and leaves the booking's cleaner alone.
<1>1. ASSUME UNCHANGED <<cleaner, winners, plan>>,
             \A r \in Rows : row'[r] = "accepted" => row[r] = "accepted",
             \A c \in Cleaners : pc'[c] = "mark" => pc[c] = "mark"
      PROVE  OneWinner'
    BY <1>1 DEF Owner
<1>2. ASSUME NEW p \in Processes, Offering(p) PROVE OneWinner'
  <2>1. /\ UNCHANGED <<cleaner, winners, plan, row>>
        /\ \A q \in Processes \ {p} : pc'[q] = pc[q]
        /\ pc'[p] \in {"touch", "announce", "offer", "exhausted", Back(p)}
      BY <1>2 DEF Offering, OfferPick, OfferTouch, OfferAnnounce, Cascade, Escalate, Goto
  <2> QED
      BY <1>0, <1>1, <2>1, BackLabel
<1>3. ASSUME NEW p \in Staffers, AssignReset(p) PROVE OneWinner'
  <2>1. \A r \in Rows : row'[r] = IF r \in Pending THEN "skipped" ELSE row[r]
      BY <1>3, MarkRows DEF AssignReset, RowStatuses
  <2> QED
      BY <1>0, <1>1, <1>3, <2>1 DEF AssignReset, Goto
<1>4. ASSUME NEW p \in Staffers, StaffNobody(p) PROVE OneWinner'
    BY <1>0, <1>1, <1>4 DEF StaffNobody, Goto
<1>5. ASSUME NEW p \in Staffers, StaffBegin(p) PROVE OneWinner'
  <2>1. \A r \in Rows : r[1] = p => row[r] = "absent"
      BY <1>5, RowParts DEF StaffBegin, QueueInv
  <2>2. \A r \in Rows : r[1] # p => Owner(r)' = Owner(r)
      BY <1>5, RowParts DEF StaffBegin, Owner
  <2> QED
      BY <1>0, <1>5, <2>1, <2>2 DEF StaffBegin, Goto
<1>6. ASSUME NEW p \in Staffers, StaffInsert(p) PROVE OneWinner'
  <2>1. \A r \in Rows : row'[r] = "accepted" => row[r] = "accepted"
      BY <1>6, MarkRows DEF StaffInsert, RowStatuses
  <2> QED
      BY <1>0, <1>1, <1>6, <2>1 DEF StaffInsert, Goto
<1>7. ASSUME NEW c \in Cleaners, AcceptCheck(c) PROVE OneWinner'
    BY <1>0, <1>1, <1>7 DEF AcceptCheck, Goto
<1>8. ASSUME NEW c \in Cleaners, AcceptClaim(c) PROVE OneWinner'
  <2>1. CASE cleaner = Nobody /\ status \notin ClosedToAccept
    <3>1. won = {}
        BY <2>1
    <3>2. won' = {c} /\ cleaner' = c /\ UNCHANGED <<told, lost, queue>>
        BY <1>8, <2>1 DEF AcceptClaim
    <3>3. pc' = [pc EXCEPT ![c] = "mark"]
        BY <1>8, <2>1 DEF AcceptClaim, Goto
    <3>4. \A r \in Rows : Owner(r)' = Owner(r)
        BY <3>2 DEF Owner
    <3>5. told' \subseteq won' \union lost'
        BY <3>1, <3>2
    <3>6. \A b \in Cleaners : pc'[b] = "mark" => b \in won' \union lost'
        BY <1>0, <3>1, <3>2, <3>3
    <3>7. \A r \in Rows : row'[r] = "accepted" => Owner(r)' \in won' \union lost'
        BY <3>1, <3>2, <3>4
    <3> QED
        BY <3>2, <3>5, <3>6, <3>7
  <2>2. CASE ~(cleaner = Nobody /\ status \notin ClosedToAccept)
      BY <1>0, <1>1, <1>8, <2>2 DEF AcceptClaim, Goto
  <2> QED
      BY <2>1, <2>2
<1>9. ASSUME NEW c \in Cleaners, AcceptMark(c) PROVE OneWinner'
  <2>1. \A r \in Rows : row'[r] = IF r \in OpenRowsOf(c) THEN "accepted" ELSE row[r]
      BY <1>9, MarkRows DEF AcceptMark, RowStatuses
  <2>2. \A r \in OpenRowsOf(c) : Owner(r) = c
      BY DEF OpenRowsOf, RowsOf
  <2>3. c \in won \union lost /\ told' = told \union {c}
      BY <1>9 DEF AcceptMark
  <2>4. \A r \in Rows : Owner(r)' = Owner(r)
      BY <1>9 DEF AcceptMark, Owner
  <2>5. UNCHANGED <<cleaner, won, lost>>
      BY <1>9 DEF AcceptMark
  <2>6. \A b \in Cleaners : pc'[b] = "mark" => pc[b] = "mark"
      BY <1>0, <1>9 DEF AcceptMark, Goto
  <2> QED
      BY <2>1, <2>2, <2>3, <2>4, <2>5, <2>6
<1>10. ASSUME NEW c \in Cleaners, Decline(c) PROVE OneWinner'
  <2>1. \A r \in Rows : row'[r] = "accepted" => row[r] = "accepted"
      BY <1>10, MarkRows DEF Decline, RowStatuses
  <2> QED
      BY <1>0, <1>1, <1>10, <2>1 DEF Decline, Goto
<1>11. ASSUME NEW s \in Sweepers, Expire(s) PROVE OneWinner'
  <2>1. /\ UNCHANGED <<cleaner, winners, plan>>
        /\ \A q \in Processes \ {s} : pc'[q] = pc[q]
      BY <1>11 DEF Expire, Sweep, SweepRow, SweepEnd, Goto
  <2>2. \A r \in Rows : row'[r] = "accepted" => row[r] = "accepted"
    <3>1. CASE Sweep(s)
      <4>1. PICK S \in SUBSET Pending : Mark(S, "expired")
          BY <3>1 DEF Sweep
      <4> QED
          BY <4>1, MarkRows DEF RowStatuses
    <3> QED
        BY <1>11, <3>1 DEF Expire, SweepRow, SweepEnd
  <2> QED
      BY <1>0, <1>1, <2>1, <2>2
<1>12. CASE CancelCheck \/ CancelWrite \/ DeleteAccount
    BY <1>1, <1>12 DEF CancelCheck, CancelWrite, DeleteAccount, Goto, Processes
<1>13. CASE PatchJob
  <2>1. UNCHANGED <<told, plan, row, pc>>
      BY <1>13 DEF PatchJob
  <2>2. \A r \in Rows : Owner(r)' = Owner(r)
      BY <2>1 DEF Owner
  <2>3. \/ UNCHANGED <<cleaner, won, lost>>
        \/ won' = {} /\ lost' = lost \union won
      BY <1>13 DEF PatchJob
  <2>4. won' \union lost' = won \union lost /\ won' \subseteq {cleaner'}
      BY <2>3
  <2> QED
      BY <2>1, <2>2, <2>4
<1>14. CASE UNCHANGED vars
    BY <1>1, <1>14 DEF vars
<1> QED
    BY <1>2, <1>3, <1>4, <1>5, <1>6, <1>7, <1>8, <1>9, <1>10, <1>11, <1>12, <1>13, <1>14
    DEF Next, Staff, Respond

\* At most one cleaner wins the booking between two writes of the operator,
\* however many accept, and nobody else is told that the job is theirs.
THEOREM ExactlyOneWinner == Spec => []OneWinner
<1>1. Init => QueueInv /\ OneWinner
    BY DEF Init, QueueInv, OneWinner, Rows, Processes
<1> QED
    BY <1>1, InitTypeOK, NextTypeOK, NextQueueInv, NextOneWinner, PTL DEF Spec

-----------------------------------------------------------------------------
(* Answers are final, and the promise to the cleaners is kept.             *)

\* No step rewrites an accepted, declined or expired row.
LEMMA NextAnswerIsFinal ==
    ASSUME TypeOK, QueueInv, [Next]_vars
    PROVE  \A r \in Rows : row[r] \in {"accepted", "declined", "expired"}
               => row'[r] = row[r]
<1> USE DEF TypeOK
<1>1. ASSUME NEW p \in Staffers, AssignReset(p)
      PROVE  \A r \in Rows : row'[r] = IF r \in Pending THEN "skipped" ELSE row[r]
    BY <1>1, MarkRows DEF AssignReset, RowStatuses
<1>2. ASSUME NEW p \in Staffers, StaffInsert(p)
      PROVE  \A r \in Rows : row[r] # "absent" => row'[r] = row[r]
  <2>1. \A r \in Rows : row'[r] = IF r = <<p, at[p]>> THEN "pending" ELSE row[r]
      BY <1>2, MarkRows DEF StaffInsert, RowStatuses
  <2>2. at[p] \in Positions
    <3>1. at[p] \in DOMAIN plan[p]
        BY <1>2 DEF StaffInsert, QueueInv
    <3>2. plan[p] \in Orders
        BY <3>1
    <3> QED
        BY <3>1, <3>2, OrderDomain
  <2>3. row[<<p, at[p]>>] = "absent"
    <3>1. at[p] >= at[p]
        BY <2>2, AssignmentAssumption DEF Positions
    <3> QED
        BY <1>2, <2>2, <3>1 DEF StaffInsert, QueueInv
  <2> QED
      BY <2>1, <2>3
<1>3. ASSUME NEW c \in Cleaners, AcceptMark(c)
      PROVE  \A r \in Rows : row'[r] = IF r \in OpenRowsOf(c) THEN "accepted" ELSE row[r]
    BY <1>3, MarkRows DEF AcceptMark, RowStatuses
<1>4. ASSUME NEW c \in Cleaners, Decline(c)
      PROVE  \A r \in Rows : row[r] # "pending" => row'[r] = row[r]
    BY <1>4, MarkRows DEF Decline, RowStatuses, Pending
<1>5. ASSUME NEW s \in Sweepers, Sweep(s)
      PROVE  \A r \in Rows : row[r] # "pending" => row'[r] = row[r]
  <2>1. PICK S \in SUBSET Pending : Mark(S, "expired")
      BY <1>5 DEF Sweep
  <2> QED
      BY <2>1, MarkRows DEF Pending, RowStatuses
<1>6. \/ \E p \in Staffers : AssignReset(p)
      \/ \E p \in Staffers : StaffInsert(p)
      \/ \E c \in Cleaners : AcceptMark(c)
      \/ \E c \in Cleaners : Decline(c)
      \/ \E s \in Sweepers : Sweep(s)
      \/ UNCHANGED row
    BY DEF Next, vars, Offering, OfferPick, OfferTouch, OfferAnnounce, Cascade, Escalate,
           Staff, StaffNobody, StaffBegin, Respond, AcceptCheck, AcceptClaim,
           Expire, SweepRow, SweepEnd, CancelCheck, CancelWrite, DeleteAccount,
           PatchJob
<1>7. /\ \A r \in Pending : row[r] = "pending"
      /\ \A c \in Cleaners : \A r \in OpenRowsOf(c) : row[r] \in {"pending", "skipped"}
    BY DEF Pending, OpenRowsOf
<1> QED
    BY <1>1, <1>2, <1>3, <1>4, <1>5, <1>6, <1>7

\* Every answer on a queue row is final.
THEOREM AnswersAreFinal == Spec => AnswerIsFinal
<1>1. Init => QueueInv
    BY DEF Init, QueueInv, Rows, Processes
<1>2. TypeOK /\ QueueInv /\ [Next]_vars
        => [\A r \in Rows : row[r] \in {"accepted", "declined", "expired"}
               => row'[r] = row[r]]_row
    BY NextAnswerIsFinal
<1> QED
    BY <1>1, <1>2, InitTypeOK, NextTypeOK, NextQueueInv, PTL DEF Spec, AnswerIsFinal

\* A step of the queue is a step of the promise, or changes nothing of it.
LEMMA NextKeepsPromise ==
    ASSUME TypeOK, OneWinner, [Next]_vars
    PROVE  [Promise!Next]_<<cleaner, won, lost, told>>
<1> USE AssignmentAssumption
    DEF TypeOK, OneWinner, Promise!Next, Promise!Assign, Promise!Tell, Promise!Place
<1>1. ASSUME NEW c \in Cleaners, AcceptClaim(c)
      PROVE  [Promise!Next]_<<cleaner, won, lost, told>>
    BY <1>1 DEF AcceptClaim
<1>2. ASSUME NEW c \in Cleaners, AcceptMark(c)
      PROVE  [Promise!Next]_<<cleaner, won, lost, told>>
  <2>1. c \in won \union lost /\ told' = told \union {c}
      BY <1>2 DEF AcceptMark
  <2>2. UNCHANGED <<cleaner, won, lost>>
      BY <1>2 DEF AcceptMark
  <2> QED
      BY <2>1, <2>2
<1>3. CASE PatchJob
    BY <1>3 DEF PatchJob
<1>4. \/ \E c \in Cleaners : AcceptClaim(c)
      \/ \E c \in Cleaners : AcceptMark(c)
      \/ PatchJob
      \/ UNCHANGED <<cleaner, won, lost, told>>
    BY DEF Next, vars, Offering, OfferPick, OfferTouch, OfferAnnounce, Cascade, Escalate,
           Staff, AssignReset, StaffNobody, StaffBegin, StaffInsert, Respond, AcceptCheck,
           Decline, Expire, Sweep, SweepRow, SweepEnd, CancelCheck, CancelWrite, DeleteAccount
<1> QED
    BY <1>1, <1>2, <1>3, <1>4

\* The offer queue, with the operator's edits, implements AssignmentPromise.
THEOREM ImplementsPromise == Spec => KeepsPromise
<1>1. Init => Promise!Init /\ QueueInv /\ OneWinner
    BY DEF Init, Promise!Init, QueueInv, OneWinner, Rows, Processes
<1>2. TypeOK /\ OneWinner /\ [Next]_vars => [Promise!Next]_<<cleaner, won, lost, told>>
    BY NextKeepsPromise
<1> QED
    BY <1>1, <1>2, InitTypeOK, NextTypeOK, NextQueueInv, NextOneWinner, PTL
    DEF Spec, KeepsPromise, Promise!Spec
=============================================================================
