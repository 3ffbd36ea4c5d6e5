------------------------------ MODULE AdminProofs ------------------------------
(***************************************************************************)
(* Proofs about the two programmes the operators run: FeeApproval, for any *)
(* set of admins and any bound on their calls, and Founding, for any       *)
(* people, requests, caps and audiences.                                   *)
(***************************************************************************)
EXTENDS FeeApproval, Founding, FiniteSetTheorems, TLAPS

-----------------------------------------------------------------------------
(* FeeApproval.                                                            *)

\* What has come about before each place is reached, by whichever of the
\* overlapping calls: the agreement before the promotion and its cooldown, the
\* end of a cooldown before the notice, the end of a notice before the fee.
OrderInv ==
    /\ \A a \in Admins : pc[a] \in {"collaborators", "promote"} => agreed
    /\ Agree(latest) => agreed
    /\ status \in {"cooldown", "notice_sent", "effective"} => agreed
    /\ cooldown # "none" => agreed
    /\ cooldown = "over" => rested
    /\ cron = "notice" \/ notice # "none" \/ status \in {"notice_sent", "effective"}
          => agreed /\ rested
    /\ notice = "over" => noticed
    /\ cron \in {"supersede", "activate", "effect"} => agreed /\ rested /\ noticed
    /\ fee # "old" => agreed /\ rested /\ noticed

-----------------------------------------------------------------------------
(* Type correctness.                                                       *)

\* The initial states are well typed.
LEMMA InitTypeOK == Init => TypeOK
<1> SUFFICES ASSUME Init PROVE TypeOK
    OBVIOUS
<1>1. 0 \in 0..MaxCalls
    BY ApprovalAssumption
<1>2. calls \in [Admins -> 0..MaxCalls]
    BY <1>1 DEF Init
<1>3. latest \in [Admins -> {"none", "approved", "revoked", "declined"}]
    BY DEF Init
<1>4. pc \in [Admins -> Labels] /\ saw \in [Admins -> Statuses]
    BY DEF Init, Labels, Statuses
<1> QED
    BY <1>2, <1>3, <1>4 DEF Init, TypeOK, Statuses, CronLabels

\* Every step keeps the state well typed.
LEMMA NextTypeOK == TypeOK /\ [Next]_vars => TypeOK'
<1> SUFFICES ASSUME TypeOK, [Next]_vars PROVE TypeOK'
    OBVIOUS
<1> USE ApprovalAssumption DEF TypeOK, Statuses, Labels, CronLabels, proposal, votes,
        crew, past, Step, CronStep, Agree
<1>1. ASSUME NEW a \in Admins, Begin(a) PROVE TypeOK'
    BY <1>1 DEF Begin, Call
<1>2. ASSUME NEW a \in Admins, Continue(a) PROVE TypeOK'
  <2>1. CASE Approve(a)
      BY <2>1 DEF Approve, Vote
  <2>2. CASE ApproveFinal(a)
      BY <2>2 DEF ApproveFinal
  <2>3. CASE Reread(a)
      BY <2>3 DEF Reread
  <2>4. CASE CountApprovers(a)
      BY <2>4 DEF CountApprovers, Move
  <2>5. CASE CountCollaborators(a)
      BY <2>5 DEF CountCollaborators, Move
  <2>6. CASE PromoteToCooldown(a)
      BY <2>6 DEF PromoteToCooldown
  <2>7. CASE Record(a)
      BY <2>7 DEF Record
  <2>8. CASE Join(a)
      BY <2>8 DEF Join, Enlist
  <2>9. CASE ClearFinal(a)
      BY <2>9 DEF ClearFinal
  <2>10. CASE Collaborate(a)
      BY <2>10 DEF Collaborate
  <2>11. CASE Open(a)
      BY <2>11 DEF Open
  <2>12. CASE Revoke(a)
      BY <2>12 DEF Revoke, Vote
  <2>13. CASE Decide(a)
      BY <2>13 DEF Decide
  <2>14. CASE RecordDecline(a)
      BY <2>14 DEF RecordDecline, Vote
  <2> QED
      BY <1>2, <2>1, <2>2, <2>3, <2>4, <2>5, <2>6, <2>7, <2>8, <2>9, <2>10, <2>11, <2>12, <2>13, <2>14 DEF Continue
<1>3. CASE Cron
  <2>1. CASE CronSelect
      BY <2>1 DEF CronSelect
  <2>2. CASE CronExpire
      BY <2>2 DEF CronExpire
  <2>3. CASE CronNotice
      BY <2>3 DEF CronNotice
  <2>4. CASE CronSupersede
      BY <2>4 DEF CronSupersede
  <2>5. CASE CronActivate
      BY <2>5 DEF CronActivate
  <2>6. CASE CronEffect
      BY <2>6 DEF CronEffect
  <2> QED
      BY <1>3, <2>1, <2>2, <2>3, <2>4, <2>5, <2>6 DEF Cron
<1>4. CASE Tick
  <2>1. CASE WindowCloses
    <3>1. window' \in BOOLEAN
        BY <2>1 DEF WindowCloses
    <3> QED
        BY <2>1, <3>1 DEF WindowCloses
  <2>2. CASE CooldownEnds
      BY <2>2 DEF CooldownEnds
  <2>3. CASE NoticeEnds
      BY <2>3 DEF NoticeEnds
  <2> QED
      BY <1>4, <2>1, <2>2, <2>3 DEF Tick
<1>5. CASE UNCHANGED vars
    BY <1>5 DEF vars
<1> QED
    BY <1>1, <1>2, <1>3, <1>4, <1>5 DEF Next

\* Every reachable state is well typed.
THEOREM TypeCorrect == Spec => []TypeOK
BY InitTypeOK, NextTypeOK, PTL DEF Spec

-----------------------------------------------------------------------------
(* Two people, a cooldown and a notice before every new fee.               *)

\* Every step keeps OrderInv.
LEMMA NextOrderInv == TypeOK /\ OrderInv /\ [Next]_vars => OrderInv'
<1> SUFFICES ASSUME TypeOK, OrderInv, [Next]_vars PROVE OrderInv'
    OBVIOUS
<1> USE ApprovalAssumption DEF TypeOK, OrderInv, proposal, votes, crew, past, Step,
                               CronStep
<1>1. ASSUME NEW a \in Admins, Begin(a) PROVE OrderInv'
    BY <1>1 DEF Begin, Call
<1>2. ASSUME NEW a \in Admins, Continue(a) PROVE OrderInv'
  <2>1. CASE Approve(a)
      BY <2>1 DEF Approve, Vote
  <2>2. CASE ApproveFinal(a)
      BY <2>2 DEF ApproveFinal
  <2>3. CASE Reread(a)
      BY <2>3 DEF Reread
  <2>4. CASE CountApprovers(a)
      BY <2>4 DEF CountApprovers, Move
  <2>5. CASE CountCollaborators(a)
      BY <2>5 DEF CountCollaborators, Move
  <2>6. CASE PromoteToCooldown(a)
      BY <2>6 DEF PromoteToCooldown
  <2>7. CASE Record(a)
      BY <2>7 DEF Record
  <2>8. CASE Join(a)
      BY <2>8 DEF Join, Enlist
  <2>9. CASE ClearFinal(a)
      BY <2>9 DEF ClearFinal
  <2>10. CASE Collaborate(a)
      BY <2>10 DEF Collaborate
  <2>11. CASE Open(a)
      BY <2>11 DEF Open
  <2>12. CASE Revoke(a)
      BY <2>12 DEF Revoke, Vote
  <2>13. CASE Decide(a)
      BY <2>13 DEF Decide
  <2>14. CASE RecordDecline(a)
      BY <2>14 DEF RecordDecline, Vote
  <2> QED
      BY <1>2, <2>1, <2>2, <2>3, <2>4, <2>5, <2>6, <2>7, <2>8, <2>9, <2>10, <2>11, <2>12, <2>13, <2>14 DEF Continue
<1>3. CASE Cron
  <2>1. CASE CronSelect
      BY <2>1 DEF CronSelect
  <2>2. CASE CronExpire
      BY <2>2 DEF CronExpire
  <2>3. CASE CronNotice
      BY <2>3 DEF CronNotice
  <2>4. CASE CronSupersede
      BY <2>4 DEF CronSupersede
  <2>5. CASE CronActivate
      BY <2>5 DEF CronActivate
  <2>6. CASE CronEffect
      BY <2>6 DEF CronEffect
  <2> QED
      BY <1>3, <2>1, <2>2, <2>3, <2>4, <2>5, <2>6 DEF Cron
<1>4. CASE Tick
  <2>1. CASE WindowCloses
      BY <2>1 DEF WindowCloses
  <2>2. CASE CooldownEnds
      BY <2>2 DEF CooldownEnds
  <2>3. CASE NoticeEnds
      BY <2>3 DEF NoticeEnds
  <2> QED
      BY <1>4, <2>1, <2>2, <2>3 DEF Tick
<1>5. CASE UNCHANGED vars
    BY <1>5 DEF vars
<1> QED
    BY <1>1, <1>2, <1>3, <1>4, <1>5 DEF Next

\* No fee comes into force unagreed or before its time.
THEOREM FeesAreAgreed == Spec => []NewFeeIsAgreed
<1>1. Init => OrderInv
    BY ApprovalAssumption DEF Init, OrderInv, Agree
<1>2. OrderInv => NewFeeIsAgreed
    BY DEF OrderInv, NewFeeIsAgreed
<1> QED
    BY <1>1, <1>2, TypeCorrect, NextOrderInv, PTL DEF Spec

-----------------------------------------------------------------------------
(* A wait has a clock.                                                     *)

\* WaitIsTimed: a proposal that waits has the timer that ends the wait, and the
\* scope is without a fee only while the cron is about to put the new one in.
WaitIsTimed ==
    /\ status = "cooldown" => cooldown # "none"
    /\ status = "notice_sent" => notice # "none"
    /\ fee = "none" => cron = "activate"

\* The safety half of NoticeIsServed: whichever calls overlap, no status that only
\* the cron can leave is written without the date the cron selects by.
THEOREM WaitsAreTimed == Spec => []WaitIsTimed
<1>1. Init => WaitIsTimed
    BY DEF Init, WaitIsTimed
<1>2. TypeOK /\ WaitIsTimed /\ [Next]_vars => WaitIsTimed'
  <2> SUFFICES ASSUME TypeOK, WaitIsTimed, [Next]_vars PROVE WaitIsTimed'
      OBVIOUS
  <2> USE DEF WaitIsTimed, proposal, votes, crew, past
  <2>1. ASSUME NEW a \in Admins, Begin(a) PROVE WaitIsTimed'
      BY <2>1 DEF Begin, Call
  <2>2. ASSUME NEW a \in Admins, Continue(a) PROVE WaitIsTimed'
    <3>1. CASE PromoteToCooldown(a) \/ Collaborate(a) \/ Open(a) \/ Decide(a)
        BY <3>1 DEF PromoteToCooldown, Collaborate, Open, Decide
    <3>2. CASE ~(PromoteToCooldown(a) \/ Collaborate(a) \/ Open(a) \/ Decide(a))
      <4>1. UNCHANGED <<proposal, fee, cron>>
          BY <2>2, <3>2 DEF Continue, Approve, ApproveFinal, Reread, CountApprovers,
             CountCollaborators, Move, Record, Join, ClearFinal, Revoke, RecordDecline
      <4> QED
          BY <4>1
    <3> QED
        BY <3>1, <3>2
  <2>3. CASE Cron
      BY <2>3 DEF Cron, CronSelect, CronExpire, CronNotice, CronSupersede, CronActivate,
                  CronEffect, CronStep
  <2>4. CASE Tick
      BY <2>4 DEF Tick, WindowCloses, CooldownEnds, NoticeEnds
  <2>5. CASE UNCHANGED vars
      BY <2>5 DEF vars
  <2> QED
      BY <2>1, <2>2, <2>3, <2>4, <2>5 DEF Next
<1> QED
    BY <1>1, <1>2, TypeCorrect, PTL DEF Spec

-----------------------------------------------------------------------------
(* Founding.                                                               *)

(***************************************************************************)
(* Every step is one of five kinds: a request walks on and changes no      *)
(* account's status; a request makes its account a member; an operator     *)
(* revokes a status, or restores one; nobody's request or status changes.  *)
(***************************************************************************)

\* Calls stay calls, and accounts are never deleted.
Typed ==
    /\ req' \in [Requests -> Calls]
    /\ accounts \subseteq accounts' /\ accounts' \subseteq Accounts

\* Request r goes on to label for the same operation and account.
Goes(r, label) ==
    /\ req'[r].pc = label /\ req'[r].op = req[r].op /\ req'[r].side = req[r].side
    /\ req'[r].stale = req[r].stale

\* What a walking request does: it begins, ends or gets to its account, ...
Arrives(r) ==
    /\ req'[r].pc \notin {"conflict", "window", "flip", "stamp"}
    /\ req'[r].pc = "look" => <<req'[r].side, who[r]>> \in accounts'
    /\ req'[r].op \in {"claim", "redeem"}
          => \/ req'[r].pc \in {"insert", "bump", "target"}
             \/ req'[r].side = RedeemSide
             \/ /\ req[r].pc \notin {"insert", "bump", "target"}
                /\ req'[r].op = req[r].op /\ req'[r].side = req[r].side

\* ... or it takes one of the steps of enroll() that write nothing.
Asks(r) ==
    \/ At(r, "look") /\ Goes(r, "conflict")
    \/ /\ At(r, "look") \/ At(r, "flip")
       /\ Me(r) \in member /\ req[r].op \in {"claim", "redeem"}
       /\ Goes(r, "stamp")
    \/ /\ At(r, "conflict") /\ <<Other(req[r].side), who[r]>> \notin member
       /\ Goes(r, "window") \/ (Goes(r, "flip") /\ req[r].op = "grant")
    \/ /\ At(r, "window") /\ Cardinality(Members(req[r].side)) < MaxMembers
       /\ Goes(r, "flip")
    \/ /\ At(r, "window") /\ req'[r].pc = "flip" /\ req'[r].stale
       /\ req'[r].op = req[r].op /\ req'[r].side = req[r].side

Walks(r) ==
    /\ Typed
    /\ \A q \in Requests : q # r => req'[q] = req[q]
    /\ Arrives(r) \/ Asks(r)
    /\ UNCHANGED founder

\* Somebody became a member of a side: who has counted there goes by a stale count.
Overtaken(q, side) ==
    /\ req'[q].pc = req[q].pc /\ req'[q].op = req[q].op /\ req'[q].side = req[q].side
    /\ req[q].side = side /\ At(q, "flip") => req'[q].stale

\* The flag of r's account is flipped.
Enters(r) ==
    /\ Typed
    /\ At(r, "flip") /\ Me(r) \notin member
    /\ member' = member \union {Me(r)}
    /\ revoked' = revoked \ {Me(r)}
    /\ number' = [number EXCEPT ![Me(r)] = last[req[r].side] + 1]
    /\ last' = [last EXCEPT ![req[r].side] = @ + 1]
    /\ crossed' = IF Crosses(req[r].side, who[r]) THEN crossed \union {who[r]} ELSE crossed
    /\ excess' = IF req[r].stale \/ req[r].op = "grant"
                 THEN excess \union {Me(r)} ELSE excess \ {Me(r)}
    /\ \/ req'[r].pc = "done" /\ req'[r].op = "none"
       \/ /\ req'[r].pc = "stamp" /\ req'[r].op \in {"claim", "redeem"}
          /\ req'[r].op = req[r].op /\ req'[r].side = req[r].side
    /\ \A q \in Requests : q # r => Overtaken(q, req[r].side)
    /\ \A q \in Requests : q # r /\ req[q].side # req[r].side => req'[q] = req[q]

Restored(a) ==
    /\ Typed
    /\ a \in revoked
    /\ member' = member \union {a}
    /\ revoked' = revoked \ {a}
    /\ excess' = excess \union {a}
    /\ crossed' = IF <<Other(a[1]), a[2]>> \in member \/ Crosses(a[1], a[2])
                  THEN crossed \union {a[2]} ELSE crossed
    /\ \A q \in Requests : Overtaken(q, a[1])
    /\ \A q \in Requests : req[q].side # a[1] => req'[q] = req[q]
    /\ UNCHANGED <<number, last>>

Elsewhere == Typed /\ UNCHANGED <<founder, req>>

\* A request that moves keeps the rest of its state, and the others keep theirs.
LEMMA GotoMoves ==
    ASSUME req \in [Requests -> Calls], NEW r \in Requests, NEW label \in Places,
           Goto(r, label)
    PROVE  /\ req' \in [Requests -> Calls]
           /\ req'[r].pc = label /\ req'[r].op = req[r].op /\ req'[r].side = req[r].side
           /\ req'[r].user = req[r].user /\ req'[r].stale = req[r].stale
           /\ \A q \in Requests : q # r => req'[q] = req[q]
<1>1. req[r] \in Calls
    OBVIOUS
<1>2. [req[r] EXCEPT !.pc = label] \in Calls
    BY <1>1 DEF Calls
<1> QED
    BY <1>1, <1>2 DEF Goto, Turn, Calls

\* A request that is over is in no enrollment.
LEMMA OverMoves ==
    ASSUME req \in [Requests -> Calls], NEW r \in Requests, Over(r)
    PROVE  /\ req' \in [Requests -> Calls]
           /\ req'[r] = Done /\ req'[r].pc = "done" /\ req'[r].op = "none"
           /\ \A q \in Requests : q # r => req'[q] = req[q]
<1>1. Done \in Calls /\ Done.pc = "done" /\ Done.op = "none"
    BY DEF Done, Idle, Calls, Places, Sides
<1> QED
    BY <1>1 DEF Over, Turn

\* A request that begins, or whose account is found, is for one operation and side.
LEMMA TurnMoves ==
    ASSUME req \in [Requests -> Calls], NEW r \in Requests, NEW state \in Calls,
           Turn(r, state)
    PROVE  /\ req' \in [Requests -> Calls]
           /\ req'[r] = state
           /\ \A q \in Requests : q # r => req'[q] = req[q]
BY DEF Turn

\* The steps of a request are walks, but for the one that makes a member.
LEMMA RequestsWalk ==
    ASSUME FoundingTypeOK, NEW r \in Requests
    PROVE  /\ \A signedIn \in BOOLEAN : BeginClaim(r, signedIn) => Walks(r)
           /\ InsertClaim(r) \/ BumpCount(r) \/ FindTarget(r) => Walks(r)
           /\ BeginRedeem(r) \/ FindAccount(r) \/ ApproveCleaner(r) \/ Grant(r) => Walks(r)
           /\ Look(r) \/ Conflict(r) \/ Window(r) => Walks(r)
           /\ Settle(r) \/ Crash(r) => Walks(r)
<1> USE DEF FoundingTypeOK, promo, founder, At, Typed
<1>0. /\ req \in [Requests -> Calls] /\ req[r] \in Calls /\ accounts \subseteq Accounts
      /\ RedeemSide \in Sides /\ Me(r) \in Accounts /\ \A label : At(r, label) <=> req[r].pc = label
    BY DEF RedeemSide, Sides, Accounts, Me, Calls
\* A request that is over, and one that goes on to a place before or after enroll().
<1>1. ASSUME Over(r), accounts' = accounts, UNCHANGED founder PROVE Walks(r)
    BY <1>0, <1>1, OverMoves DEF Walks, Arrives
<1>2. ASSUME NEW label \in {"bump", "target", "close"}, Goto(r, label), accounts' = accounts,
             UNCHANGED founder, label = "close" => At(r, "conflict")
      PROVE  Walks(r)
  <2>1. label \in Places
      BY DEF Places
  <2> QED
      BY <1>0, <1>2, <2>1, GotoMoves DEF Walks, Arrives
\* A step of enroll().
<1>3. ASSUME NEW label \in Places, Goto(r, label), accounts' = accounts, UNCHANGED founder,
             Goes(r, label) => Asks(r)
      PROVE  Walks(r)
    BY <1>0, <1>3, GotoMoves DEF Walks, Goes
<1>4. ASSUME NEW signedIn \in BOOLEAN, BeginClaim(r, signedIn) PROVE Walks(r)
  <2> DEFINE call == [Idle EXCEPT !.op = "claim", !.pc = "insert", !.user = signedIn]
  <2>1. call \in Calls /\ call.pc = "insert"
      BY DEF Idle, Calls, Places, Sides
  <2>2. CASE Turn(r, call)
    <3> HIDE DEF call
    <3> QED
        BY <1>0, <1>4, <2>1, <2>2, TurnMoves DEF BeginClaim, Walks, Arrives
  <2> QED
      BY <1>1, <1>4, <2>2 DEF BeginClaim
<1>5. ASSUME InsertClaim(r) PROVE Walks(r)
    BY <1>1, <1>2, <1>5 DEF InsertClaim
<1>6. ASSUME BumpCount(r) PROVE Walks(r)
    BY <1>1, <1>2, <1>6 DEF BumpCount
<1>7. ASSUME FindTarget(r) PROVE Walks(r)
  <2>1. ASSUME NEW s \in ClaimSides, <<s, who[r]>> \in accounts,
               Turn(r, [Idle EXCEPT !.op = "claim", !.pc = "look", !.side = s])
        PROVE  Walks(r)
    <3> DEFINE call == [Idle EXCEPT !.op = "claim", !.pc = "look", !.side = s]
    <3>1. s = RedeemSide
        BY DEF ClaimSides, RedeemSide
    <3>2. call \in Calls /\ call.pc = "look" /\ call.side = s
        BY <1>0, <3>1 DEF Idle, Calls, Places
    <3>3. Turn(r, call)
        BY <2>1
    <3>4. accounts' = accounts /\ UNCHANGED founder
        BY <1>7, Zenon DEF FindTarget
    <3>5. <<call.side, who[r]>> \in accounts'
        BY <2>1, <3>2, <3>4
    <3> HIDE DEF call
    <3>6. Typed /\ req'[r] = call /\ \A q \in Requests : q # r => req'[q] = req[q]
        BY <1>0, <3>2, <3>3, <3>4, TurnMoves
    <3>7. Arrives(r)
        BY <3>1, <3>2, <3>5, <3>6 DEF Arrives
    <3> QED
        BY <3>4, <3>6, <3>7 DEF Walks
  <2>2. CASE \E s \in ClaimSides :
                /\ <<s, who[r]>> \in accounts
                /\ Turn(r, [Idle EXCEPT !.op = "claim", !.pc = "look", !.side = s])
      BY <2>1, <2>2, Zenon
  <2>3. CASE Over(r)
    <3>1. accounts' = accounts /\ UNCHANGED founder
        BY <1>7, Zenon DEF FindTarget
    <3> QED
        BY <1>1, <2>3, <3>1
  <2> QED
      BY <1>7, <2>2, <2>3, Zenon DEF FindTarget
<1>8. ASSUME BeginRedeem(r) PROVE Walks(r)
  <2> DEFINE call == [Idle EXCEPT !.op = "redeem", !.pc = "account", !.side = RedeemSide]
  <2>1. call \in Calls /\ call.pc = "account" /\ call.side = RedeemSide
      BY <1>0 DEF Idle, Calls, Places
  <2>2. CASE Turn(r, call)
    <3> HIDE DEF call
    <3> QED
        BY <1>0, <1>8, <2>1, <2>2, TurnMoves DEF BeginRedeem, Walks, Arrives
  <2> QED
      BY <1>1, <1>8, <2>2 DEF BeginRedeem
<1>9. ASSUME FindAccount(r) PROVE Walks(r)
  <2>1. CASE Goto(r, "look") /\ accounts' = accounts \union {Me(r)}
    <3>1. "look" \in Places
        BY DEF Places
    <3> QED
        BY <1>0, <1>9, <2>1, <3>1, GotoMoves DEF FindAccount, Walks, Arrives, Me
  <2> QED
      BY <1>1, <1>9, <2>1 DEF FindAccount
<1>10. ASSUME NEW op \in {"approve", "grant"}, NEW s \in Sides, <<s, who[r]>> \in accounts,
              Turn(r, [Idle EXCEPT !.op = op, !.pc = "look", !.side = s]),
              accounts' = accounts, UNCHANGED founder
       PROVE  Walks(r)
  <2> DEFINE call == [Idle EXCEPT !.op = op, !.pc = "look", !.side = s]
  <2>1. call \in Calls /\ call.op = op /\ call.pc = "look" /\ call.side = s
      BY DEF Idle, Calls, Places
  <2>2. Turn(r, call)
      BY <1>10
  <2> HIDE DEF call
  <2> QED
      BY <1>0, <1>10, <2>1, <2>2, TurnMoves DEF Walks, Arrives
<1>11. ASSUME ApproveCleaner(r) PROVE Walks(r)
    BY <1>10, <1>11 DEF ApproveCleaner, Sides
<1>12. ASSUME Grant(r) PROVE Walks(r)
  <2>1. PICK s \in Sides :
            /\ <<s, who[r]>> \in accounts
            /\ Turn(r, [Idle EXCEPT !.op = "grant", !.pc = "look", !.side = s])
      BY <1>12, Zenon DEF Grant
  <2>2. accounts' = accounts /\ UNCHANGED founder
      BY <1>12 DEF Grant
  <2> QED
      BY <1>10, <2>1, <2>2, Zenon
<1>13. ASSUME Look(r) PROVE Walks(r)
  <2>1. Goto(r, "conflict") => Walks(r)
      BY <1>0, <1>3, <1>13 DEF Look, Asks, Places
  <2>2. Me(r) \in member /\ req[r].op \in {"claim", "redeem"} /\ Goto(r, "stamp") => Walks(r)
      BY <1>0, <1>3, <1>13 DEF Look, Asks, Places
  <2> QED
      BY <1>1, <1>13, <2>1, <2>2 DEF Look, Enrolled
<1>14. ASSUME Conflict(r) PROVE Walks(r)
  <2>1. <<Other(req[r].side), who[r]>> \notin member /\ Goto(r, "window") => Walks(r)
      BY <1>0, <1>3, <1>14 DEF Conflict, Asks, Places
  <2>2. (/\ <<Other(req[r].side), who[r]>> \notin member /\ req[r].op = "grant"
         /\ Goto(r, "flip")) => Walks(r)
      BY <1>0, <1>3, <1>14 DEF Conflict, Asks, Places
  <2>3. Goto(r, "close") => Walks(r)
      BY <1>2, <1>14 DEF Conflict
  <2>4. Over(r) => Walks(r)
      BY <1>1, <1>14 DEF Conflict
  <2>5. CASE <<Other(req[r].side), who[r]>> \in member
      BY <1>14, <2>3, <2>4, <2>5 DEF Conflict
  <2>6. CASE <<Other(req[r].side), who[r]>> \notin member
      BY <1>14, <2>1, <2>2, <2>6 DEF Conflict
  <2> QED
      BY <2>5, <2>6
<1>15. ASSUME Window(r) PROVE Walks(r)
  <2>1. At(r, "window") /\ accounts' = accounts /\ UNCHANGED founder
      BY <1>15, Zenon DEF Window
  <2>2. CASE Cardinality(Members(req[r].side)) < MaxMembers /\ Goto(r, "flip")
      BY <1>0, <1>3, <2>1, <2>2 DEF Asks, Places
  <2>3. CASE OpenByDefault(r)
    <3> DEFINE call == [req[r] EXCEPT !.pc = "flip", !.stale = TRUE]
    <3>1. /\ call \in Calls /\ call.pc = "flip" /\ call.stale
          /\ call.op = req[r].op /\ call.side = req[r].side
        BY <1>0 DEF Calls, Places
    <3>2. Turn(r, call)
        BY <2>3 DEF OpenByDefault
    <3> HIDE DEF call
    <3>3. Typed /\ req'[r] = call /\ \A q \in Requests : q # r => req'[q] = req[q]
        BY <1>0, <2>1, <3>1, <3>2, TurnMoves
    <3> QED
        BY <1>0, <2>1, <3>1, <3>3 DEF Walks, Asks
  <2> QED
      BY <1>1, <1>15, <2>1, <2>2, <2>3 DEF Window, Fits
<1>16. ASSUME Settle(r) PROVE Walks(r)
    BY <1>1, <1>16 DEF Settle, StampClaim, StampPending, ClosePending
<1>17. ASSUME Crash(r) PROVE Walks(r)
  <2> DEFINE call == [Done EXCEPT !.pc = "lost"]
  <2>1. call \in Calls /\ call.pc = "lost" /\ call.op = "none"
      BY DEF Done, Idle, Calls, Places, Sides
  <2>2. CASE Turn(r, call)
    <3> HIDE DEF call
    <3> QED
        BY <1>0, <1>17, <2>1, <2>2, TurnMoves DEF Crash, Walks, Arrives
  <2> QED
      BY <1>1, <1>17, <2>2 DEF Crash
<1> QED
    BY <1>4, <1>5, <1>6, <1>7, <1>8, <1>9, <1>11, <1>12, <1>13, <1>14, <1>15, <1>16, <1>17

\* The conditional UPDATE makes a member, or finds the flag flipped and walks on.
LEMMA FlipEnters ==
    ASSUME FoundingTypeOK, NEW r \in Requests, Flip(r)
    PROVE  IF Me(r) \in member THEN Walks(r) ELSE Enters(r)
<1> USE DEF FoundingTypeOK, promo, founder, At, Typed
<1>0. /\ req \in [Requests -> Calls] /\ req[r] \in Calls /\ accounts \subseteq Accounts
      /\ At(r, "flip") /\ accounts' = accounts /\ "stamp" \in Places
    BY DEF Flip, Places
<1>1. ASSUME Me(r) \in member PROVE Walks(r)
  <2>1. Enrolled(r) /\ UNCHANGED founder
      BY <1>1 DEF Flip
  <2>2. CASE Goto(r, "stamp") /\ req[r].op \in {"claim", "redeem"}
      BY <1>0, <1>1, <2>1, <2>2, GotoMoves DEF Walks, Asks, Goes
  <2>3. CASE Over(r)
      BY <1>0, <2>1, <2>3, OverMoves DEF Walks, Arrives
  <2> QED
      BY <2>1, <2>2, <2>3 DEF Enrolled
<1>2. ASSUME Me(r) \notin member PROVE Enters(r)
  <2> DEFINE side == req[r].side
             stay == [q \in Requests |->
                          IF q # r /\ req[q].side = side /\ req[q].pc = "flip"
                          THEN [req[q] EXCEPT !.stale = TRUE] ELSE req[q]]
             mine == IF req[r].op \in {"claim", "redeem"}
                     THEN [req[r] EXCEPT !.pc = "stamp", !.stale = FALSE] ELSE Done
  <2>1. stay \in [Requests -> Calls] /\ stay[r] = req[r]
    <3>1. \A q \in Requests : [req[q] EXCEPT !.stale = TRUE] \in Calls
        BY <1>0 DEF Calls
    <3> QED
        BY <1>0, <3>1
  <2>2. req' = [stay EXCEPT ![r] = mine]
      BY <1>2, <2>1 DEF Flip, Joins, Me
  <2>3. /\ mine \in Calls
        /\ \/ mine.pc = "done" /\ mine.op = "none"
           \/ /\ mine.pc = "stamp" /\ mine.op \in {"claim", "redeem"}
              /\ mine.op = req[r].op /\ mine.side = req[r].side
      BY <1>0 DEF Calls, Done, Idle, Places, Sides
  <2>4. \A q \in Requests : q # r =>
            /\ stay[q].pc = req[q].pc /\ stay[q].op = req[q].op /\ stay[q].side = req[q].side
            /\ req[q].side = side /\ req[q].pc = "flip" => stay[q].stale
            /\ req[q].side # side => stay[q] = req[q]
    <3>1. \A q \in Requests : req[q] \in Calls
        BY <1>0
    <3> QED
        BY <3>1 DEF Calls
  <2>5. /\ req' \in [Requests -> Calls] /\ req'[r] = mine
        /\ \A q \in Requests : q # r => req'[q] = stay[q]
    <3> HIDE DEF stay, mine
    <3> QED
        BY <2>1, <2>2, <2>3
  <2>6. /\ member' = member \union {Me(r)}
        /\ revoked' = revoked \ {Me(r)}
        /\ number' = [number EXCEPT ![Me(r)] = last[side] + 1]
        /\ last' = [last EXCEPT ![side] = @ + 1]
        /\ crossed' = IF Crosses(side, who[r]) THEN crossed \union {who[r]} ELSE crossed
        /\ excess' = IF req[r].stale \/ req[r].op = "grant"
                     THEN excess \union {Me(r)} ELSE excess \ {Me(r)}
      BY <1>2 DEF Flip, Me
  <2>7. \A q \in Requests : q # r => Overtaken(q, side)
    <3> HIDE DEF stay
    <3> QED
        BY <2>4, <2>5 DEF Overtaken
  <2>8. \A q \in Requests : q # r /\ req[q].side # side => req'[q] = req[q]
    <3> HIDE DEF stay
    <3> QED
        BY <2>4, <2>5
  <2>9. \/ req'[r].pc = "done" /\ req'[r].op = "none"
        \/ /\ req'[r].pc = "stamp" /\ req'[r].op \in {"claim", "redeem"}
           /\ req'[r].op = req[r].op /\ req'[r].side = req[r].side
    <3> HIDE DEF mine
    <3> QED
        BY <2>3, <2>5
  <2> QED
      BY <1>0, <1>2, <2>5, <2>6, <2>7, <2>8, <2>9 DEF Enters
<1> QED
    BY <1>1, <1>2

\* A status that is restored makes the counts of its side stale as well.
LEMMA RestoreRestores ==
    ASSUME FoundingTypeOK, NEW a \in Accounts, RestoreStatus(a)
    PROVE  Restored(a)
<1>0. /\ req \in [Requests -> Calls] /\ accounts \subseteq Accounts
      /\ accounts' = accounts
    BY DEF FoundingTypeOK, RestoreStatus
<1>1. \A q \in Requests : req[q] \in Calls /\ [req[q] EXCEPT !.stale = TRUE] \in Calls
    BY <1>0 DEF Calls
<1> DEFINE stay == [q \in Requests |-> IF req[q].side = a[1] /\ req[q].pc = "flip"
                                       THEN [req[q] EXCEPT !.stale = TRUE] ELSE req[q]]
<1>2. req' = stay
    BY DEF RestoreStatus
<1>3. stay \in [Requests -> Calls]
    BY <1>1
<1>4. \A q \in Requests :
          /\ stay[q].pc = req[q].pc /\ stay[q].op = req[q].op /\ stay[q].side = req[q].side
          /\ req[q].side = a[1] /\ req[q].pc = "flip" => stay[q].stale
          /\ req[q].side # a[1] => stay[q] = req[q]
    BY <1>1 DEF Calls
<1>5. \A q \in Requests : Overtaken(q, a[1])
  <2> HIDE DEF stay
  <2> QED
      BY <1>2, <1>4 DEF Overtaken, At
<1>6. \A q \in Requests : req[q].side # a[1] => req'[q] = req[q]
  <2> HIDE DEF stay
  <2> QED
      BY <1>2, <1>4
<1>7. Typed
    BY <1>0, <1>2, <1>3 DEF Typed
<1> QED
    BY <1>5, <1>6, <1>7 DEF Restored, RestoreStatus

\* So every step is of one of the five kinds.
LEMMA FoundingStep ==
    ASSUME FoundingTypeOK, [FoundingNext]_foundingVars
    PROVE  \/ \E r \in Requests : Walks(r) \/ Enters(r)
           \/ \E a \in Accounts : RevokeStatus(a) \/ Restored(a)
           \/ Elsewhere
<1>1. ASSUME NEW r \in Requests,
             Claim(r) \/ BeginRedeem(r) \/ FindAccount(r) \/ ApproveCleaner(r) \/ Grant(r)
                \/ Enroll(r) \/ Settle(r) \/ Crash(r)
      PROVE  Walks(r) \/ Enters(r)
    BY <1>1, RequestsWalk, FlipEnters DEF Claim, Enroll
<1>2. ASSUME NEW a \in Accounts, SignUp(a) PROVE Elsewhere
    BY <1>2 DEF SignUp, Elsewhere, Typed, FoundingTypeOK
<1>3. ASSUME NEW side \in Sides, Configure(side) PROVE Elsewhere
    BY <1>3 DEF Configure, Elsewhere, Typed, FoundingTypeOK
<1>4. ASSUME SetStatus PROVE Elsewhere
    BY <1>4 DEF SetStatus, Elsewhere, Typed, FoundingTypeOK
<1>5. ASSUME UNCHANGED foundingVars PROVE Elsewhere
    BY <1>5 DEF foundingVars, founder, Elsewhere, Typed, FoundingTypeOK
<1> QED
    BY <1>1, <1>2, <1>3, <1>4, <1>5, RestoreRestores DEF FoundingNext, Environment

\* The requests whose claim is not counted: not yet, or never.
Waiting == {r \in Requests : req[r].pc \in {"bump", "lost"}}

\* The steps that leave the rows, their count and the uncounted requests alone.
Counted == UNCHANGED <<claims, count>> /\ Waiting' = Waiting /\ active' \in BOOLEAN

\* Three handlers write claims or count them.  Nothing changes the people of the
\* requests or the promotion's audience.
LEMMA PromoStep ==
    ASSUME FoundingTypeOK, [FoundingNext]_foundingVars
    PROVE  /\ \/ \E r \in Requests : InsertClaim(r) \/ BumpCount(r) \/ Settle(r)
              \/ Counted
           /\ who' = who /\ audience' = audience /\ open' \subseteq Sides
<1> USE DEF FoundingTypeOK, promo, At
<1> DEFINE Same == who' = who /\ audience' = audience /\ open' \subseteq Sides
           Live == UNCHANGED <<claims, count, active>>
           Quiet(r) == req[r].pc \in {"bump", "lost"} <=> req'[r].pc \in {"bump", "lost"}
<1>1. ASSUME NEW r \in Requests, Walks(r) \/ Enters(r), Live, Quiet(r) PROVE Counted
    BY <1>1 DEF Walks, Enters, Overtaken, Counted, Waiting
<1>2. ASSUME NEW r \in Requests, Over(r), req[r].pc \notin {"bump", "lost"} PROVE Quiet(r)
    BY <1>2, OverMoves
<1>3. ASSUME NEW r \in Requests, NEW label \in Places \ {"bump", "lost"}, Goto(r, label),
             req[r].pc \notin {"bump", "lost"}
      PROVE  Quiet(r)
    BY <1>3, GotoMoves
<1>4. ASSUME NEW r \in Requests, NEW call, Turn(r, call), call.pc \notin {"bump", "lost"},
             req[r].pc \notin {"bump", "lost"}
      PROVE  Quiet(r)
    BY <1>4 DEF Turn
<1>5. ASSUME NEW r \in Requests, NEW signedIn \in BOOLEAN, BeginClaim(r, signedIn)
      PROVE  Counted /\ Same
  <2>1. Live /\ Same /\ req[r].pc = "idle"
      BY <1>5 DEF BeginClaim
  <2>2. [Idle EXCEPT !.op = "claim", !.pc = "insert", !.user = signedIn].pc = "insert"
      BY DEF Idle
  <2>3. Quiet(r)
      BY <1>2, <1>4, <1>5, <2>1, <2>2 DEF BeginClaim
  <2>4. Walks(r)
      BY <1>5, RequestsWalk
  <2> QED
      BY <1>1, <2>1, <2>3, <2>4
<1>6. ASSUME NEW r \in Requests, FindTarget(r) PROVE Counted /\ Same
  <2>1. Live /\ Same /\ req[r].pc = "target"
      BY <1>6, Zenon DEF FindTarget
  <2>2. \A s : [Idle EXCEPT !.op = "claim", !.pc = "look", !.side = s].pc = "look"
      BY DEF Idle
  <2>3. Over(r) \/ \E s : Turn(r, [Idle EXCEPT !.op = "claim", !.pc = "look", !.side = s])
      BY <1>6, Zenon DEF FindTarget
  <2>4. ASSUME NEW s, Turn(r, [Idle EXCEPT !.op = "claim", !.pc = "look", !.side = s])
        PROVE  Quiet(r)
      BY <1>4, <2>1, <2>2, <2>4
  <2>5. Quiet(r)
      BY <1>2, <2>1, <2>3, <2>4, Zenon
  <2>6. Walks(r)
      BY <1>6, RequestsWalk
  <2> QED
      BY <1>1, <2>1, <2>5, <2>6
<1>7. ASSUME NEW r \in Requests, BeginRedeem(r) PROVE Counted /\ Same
  <2>1. Live /\ Same /\ req[r].pc = "idle"
      BY <1>7 DEF BeginRedeem
  <2>2. [Idle EXCEPT !.op = "redeem", !.pc = "account", !.side = RedeemSide].pc = "account"
      BY DEF Idle
  <2>3. Quiet(r)
      BY <1>2, <1>4, <1>7, <2>1, <2>2 DEF BeginRedeem
  <2>4. Walks(r)
      BY <1>7, RequestsWalk
  <2> QED
      BY <1>1, <2>1, <2>3, <2>4
<1>8. ASSUME NEW r \in Requests, FindAccount(r) PROVE Counted /\ Same
  <2>1. Live /\ Same /\ req[r].pc = "account"
      BY <1>8 DEF FindAccount
  <2>2. Quiet(r)
      BY <1>2, <1>3, <1>8, <2>1 DEF FindAccount, Places
  <2>3. Walks(r)
      BY <1>8, RequestsWalk
  <2> QED
      BY <1>1, <2>1, <2>2, <2>3
<1>9. ASSUME NEW r \in Requests, ApproveCleaner(r) \/ Grant(r) PROVE Counted /\ Same
  <2>1. Live /\ Same /\ req[r].pc = "idle"
      BY <1>9, Zenon DEF ApproveCleaner, Grant
  <2>2. \A op, s : [Idle EXCEPT !.op = op, !.pc = "look", !.side = s].pc = "look"
      BY DEF Idle
  <2>3. \E op, s : Turn(r, [Idle EXCEPT !.op = op, !.pc = "look", !.side = s])
      BY <1>9, Zenon DEF ApproveCleaner, Grant
  <2>4. Quiet(r)
      BY <1>4, <2>1, <2>2, <2>3
  <2>5. Walks(r)
      BY <1>9, RequestsWalk
  <2> QED
      BY <1>1, <2>1, <2>4, <2>5
<1>10. ASSUME NEW r \in Requests, Look(r) \/ Conflict(r) \/ Window(r) \/ Flip(r)
       PROVE  Counted /\ Same
  <2>1. Live /\ Same /\ req[r].pc \in {"look", "conflict", "window", "flip"}
      BY <1>10 DEF Look, Conflict, Window, Flip
  <2>2. Walks(r) \/ Enters(r)
      BY <1>10, RequestsWalk, FlipEnters
  <2>3. CASE Enters(r)
      BY <1>1, <2>1, <2>3 DEF Enters
  <2>4. CASE Over(r)
      BY <1>1, <1>2, <2>1, <2>2, <2>4
  <2>5. CASE \E label \in Places \ {"bump", "lost"} : Goto(r, label)
      BY <1>1, <1>3, <2>1, <2>2, <2>5
  <2>6. CASE Look(r)
      BY <2>4, <2>5, <2>6 DEF Look, Enrolled, Places
  <2>7. CASE Conflict(r)
      BY <2>4, <2>5, <2>7 DEF Conflict, Places
  <2>8. CASE Window(r)
    <3>1. CASE OpenByDefault(r)
      <4>1. req[r] \in Calls
          BY DEF FoundingTypeOK
      <4>2. [req[r] EXCEPT !.pc = "flip", !.stale = TRUE].pc = "flip"
          BY <4>1 DEF Calls
      <4>3. Quiet(r)
          BY <1>4, <2>1, <3>1, <4>2 DEF OpenByDefault
      <4>4. Walks(r)
          BY <2>8, RequestsWalk
      <4> QED
          BY <1>1, <2>1, <4>3, <4>4
    <3> QED
        BY <2>4, <2>5, <2>8, <3>1 DEF Window, Places
  <2>9. CASE Flip(r) /\ Me(r) \in member
      BY <2>4, <2>5, <2>9 DEF Flip, Enrolled, Places
  <2>10. CASE Flip(r) /\ Me(r) \notin member
      BY <2>3, <2>10, FlipEnters
  <2> QED
      BY <1>10, <2>6, <2>7, <2>8, <2>9, <2>10
<1>11. ASSUME NEW r \in Requests, InsertClaim(r) \/ BumpCount(r) \/ Settle(r) PROVE Same
    BY <1>11 DEF InsertClaim, BumpCount, Settle, StampClaim, StampPending, ClosePending
<1>12. ASSUME NEW r \in Requests, Crash(r) PROVE Counted /\ Same
  <2>1. Live /\ Same /\ req[r].pc \notin {"idle", "done", "lost"}
      BY <1>12 DEF Crash
  <2>2. [Done EXCEPT !.pc = "lost"].pc = "lost"
      BY DEF Done, Idle
  <2>3. Quiet(r)
    <3>1. CASE req[r].pc = "bump"
      <4>1. Turn(r, [Done EXCEPT !.pc = "lost"])
          BY <1>12, <3>1 DEF Crash
      <4>2. req'[r] = [Done EXCEPT !.pc = "lost"]
          BY <4>1 DEF Turn
      <4> QED
          BY <2>2, <3>1, <4>2
    <3>2. CASE req[r].pc # "bump"
        BY <1>2, <1>12, <2>1, <3>2 DEF Crash
    <3> QED
        BY <3>1, <3>2
  <2>4. Walks(r)
      BY <1>12, RequestsWalk
  <2> QED
      BY <1>1, <2>1, <2>3, <2>4
<1>13. ASSUME NEW a \in Accounts, RevokeStatus(a) \/ SignUp(a) PROVE Counted /\ Same
    BY <1>13 DEF RevokeStatus, SignUp, Counted, Waiting
<1>14. ASSUME NEW a \in Accounts, RestoreStatus(a) PROVE Counted /\ Same
  <2>1. Live /\ Same
      BY <1>14 DEF RestoreStatus
  <2>2. Restored(a)
      BY <1>14, RestoreRestores
  <2> QED
      BY <2>1, <2>2 DEF Restored, Overtaken, Counted, Waiting
<1>15. ASSUME NEW side \in Sides, Configure(side) PROVE Counted /\ Same
    BY <1>15 DEF Configure, Counted, Waiting
<1>16. CASE SetStatus \/ UNCHANGED foundingVars
    BY <1>16 DEF SetStatus, foundingVars, Counted, Waiting
<1>17. CASE \E r \in Requests :
            \/ Claim(r) \/ BeginRedeem(r) \/ FindAccount(r) \/ ApproveCleaner(r) \/ Grant(r)
            \/ Enroll(r) \/ Settle(r) \/ Crash(r)
    BY <1>5, <1>6, <1>7, <1>8, <1>9, <1>10, <1>11, <1>12, <1>17 DEF Claim, Enroll
<1> QED
    BY <1>13, <1>14, <1>15, <1>16, <1>17 DEF FoundingNext, Environment

-----------------------------------------------------------------------------
(* Type correctness of Founding.                                           *)

\* Whoever is enrolled has an account: it is found, or made, before enroll(), and
\* accounts are never deleted.
AccountInv ==
    \A r \in Requests :
        req[r].pc \in {"look", "conflict", "window", "flip"} => Me(r) \in accounts

\* The initial states are well typed.
LEMMA FoundingInitType == FoundingInit => FoundingTypeOK /\ AccountInv
<1> SUFFICES ASSUME FoundingInit PROVE FoundingTypeOK /\ AccountInv
    OBVIOUS
<1>1. Idle \in Calls /\ Idle.pc = "idle"
    BY DEF Idle, Calls, Places, Sides
<1>2. req \in [Requests -> Calls] /\ \A r \in Requests : req[r].pc = "idle"
    BY <1>1 DEF FoundingInit
<1>3. AccountInv
    BY <1>2 DEF AccountInv
<1>4. accounts \subseteq Accounts
    BY FoundingAssumption DEF FoundingInit, Accounts, Sides
<1>5. number \in [Accounts -> Nat] /\ last \in [Sides -> Nat]
    BY DEF FoundingInit
<1> QED
    BY <1>2, <1>3, <1>4, <1>5 DEF FoundingInit, FoundingTypeOK

\* Every step keeps the promotion's rows well typed.
LEMMA PromoTyped ==
    ASSUME FoundingTypeOK, [FoundingNext]_foundingVars
    PROVE  active' \in BOOLEAN /\ count' \in Nat /\ claims' \subseteq Rows
<1> USE DEF FoundingTypeOK
<1>1. CASE Counted
    BY <1>1 DEF Counted
<1>2. ASSUME NEW r \in Requests, InsertClaim(r)
      PROVE  active' \in BOOLEAN /\ count' \in Nat /\ claims' \subseteq Rows
  <2>1. req[r].user \in BOOLEAN /\ who[r] \in People
      BY DEF Calls
  <2>2. \A mail \in {TRUE, ~req[r].user} : Row(who[r], mail, req[r].user) \in Rows
      BY <2>1 DEF Row, Rows
  <2>3. claims' \subseteq Rows
      BY <1>2, <2>2, Zenon DEF InsertClaim
  <2> QED
      BY <1>2, <2>3 DEF InsertClaim
<1>3. ASSUME NEW r \in Requests, BumpCount(r)
      PROVE  active' \in BOOLEAN /\ count' \in Nat /\ claims' \subseteq Rows
    BY <1>3, FoundingAssumption DEF BumpCount
<1>4. ASSUME NEW r \in Requests, Settle(r)
      PROVE  active' \in BOOLEAN /\ count' \in Nat /\ claims' \subseteq Rows
  <2>1. ASSUME NEW row \in claims
        PROVE  /\ row \in Rows
               /\ [row EXCEPT !.granted = TRUE] \in Rows
               /\ \A granted \in BOOLEAN :
                      [row EXCEPT !.user = TRUE, !.granted = @ \/ granted] \in Rows
    <3>1. row \in Rows
        OBVIOUS
    <3>2. [row EXCEPT !.granted = TRUE] \in Rows
        BY <3>1 DEF Rows
    <3>3. ASSUME NEW granted \in BOOLEAN
          PROVE  [row EXCEPT !.user = TRUE, !.granted = @ \/ granted] \in Rows
      <4>1. (row.granted \/ granted) \in BOOLEAN
          OBVIOUS
      <4> QED
          BY <3>1, <4>1 DEF Rows
    <3> QED
        BY <3>1, <3>2, <3>3, Zenon
  <2>2. Stamped(who[r]) \subseteq Rows
    <3>1. \A row \in claims : (IF row.who = who[r] /\ row.user
                               THEN [row EXCEPT !.granted = TRUE] ELSE row) \in Rows
        BY <2>1, Zenon
    <3> QED
        BY <3>1, Zenon DEF Stamped
  <2>3. \A granted \in BOOLEAN : Attached(who[r], granted) \subseteq Rows
    <3>1. \A granted \in BOOLEAN : \A row \in claims :
              (IF row.who = who[r]
               THEN [row EXCEPT !.user = TRUE, !.granted = @ \/ granted] ELSE row) \in Rows
        BY <2>1, Zenon
    <3>2. claims \subseteq Rows
        OBVIOUS
    <3> QED
        BY <3>1, <3>2, Zenon DEF Attached
  <2> QED
      BY <1>4, <2>2, <2>3 DEF Settle, StampClaim, StampPending, ClosePending
<1> QED
    BY <1>1, <1>2, <1>3, <1>4, PromoStep

\* Every step keeps the state well typed.
LEMMA FoundingNextType ==
    FoundingTypeOK /\ AccountInv /\ [FoundingNext]_foundingVars
        => FoundingTypeOK' /\ AccountInv'
<1> SUFFICES ASSUME FoundingTypeOK, AccountInv, [FoundingNext]_foundingVars
             PROVE  FoundingTypeOK' /\ AccountInv'
    OBVIOUS
<1>1. /\ who' = who /\ audience' = audience /\ open' \subseteq Sides
      /\ active' \in BOOLEAN /\ count' \in Nat /\ claims' \subseteq Rows
    BY PromoStep, PromoTyped
<1>2. ASSUME NEW r \in Requests, Walks(r) PROVE FoundingTypeOK' /\ AccountInv'
  <2>1. FoundingTypeOK'
      BY <1>1, <1>2 DEF FoundingTypeOK, Walks, Typed, founder
  <2>2. Me(r)' \in accounts' \/ req'[r].pc \notin {"look", "conflict", "window", "flip"}
      BY <1>1, <1>2 DEF AccountInv, Walks, Typed, Arrives, Asks, Goes, At, Me
  <2> QED
      BY <1>1, <1>2, <2>1, <2>2 DEF AccountInv, Walks, Typed, Me
<1>3. ASSUME NEW r \in Requests, Enters(r) PROVE FoundingTypeOK' /\ AccountInv'
  <2>1. Me(r) \in accounts /\ Me(r) \in Accounts /\ last[req[r].side] + 1 \in Nat
    <3>1. Me(r) \in accounts
        BY <1>3 DEF AccountInv, Enters, At
    <3>2. req[r].side \in Sides
        BY DEF FoundingTypeOK, Calls
    <3> QED
        BY <3>1, <3>2 DEF FoundingTypeOK
  <2>2. number' \in [Accounts -> Nat] /\ last' \in [Sides -> Nat]
      BY <1>3, <2>1 DEF FoundingTypeOK, Enters
  <2>3. crossed' \subseteq People
      BY <1>3 DEF FoundingTypeOK, Enters
  <2>4. member' \union revoked' \subseteq accounts' /\ excess' \subseteq member'
      BY <1>3, <2>1 DEF FoundingTypeOK, Enters, Typed
  <2>5. FoundingTypeOK'
      BY <1>1, <1>3, <2>2, <2>3, <2>4 DEF FoundingTypeOK, Enters, Typed
  <2>6. AccountInv'
      BY <1>1, <1>3 DEF AccountInv, Enters, Typed, Overtaken, Me
  <2> QED
      BY <2>5, <2>6
<1>4. ASSUME NEW a \in Accounts, RevokeStatus(a) PROVE FoundingTypeOK' /\ AccountInv'
    BY <1>1, <1>4 DEF RevokeStatus, promo, FoundingTypeOK, AccountInv, Me
<1>5. ASSUME NEW a \in Accounts, Restored(a) PROVE FoundingTypeOK' /\ AccountInv'
  <2>1. crossed' \subseteq People
      BY <1>5 DEF FoundingTypeOK, Restored, Accounts
  <2>2. FoundingTypeOK'
      BY <1>1, <1>5, <2>1 DEF FoundingTypeOK, Restored, Typed
  <2>3. AccountInv'
      BY <1>1, <1>5 DEF AccountInv, Restored, Typed, Overtaken, Me
  <2> QED
      BY <2>2, <2>3
<1>6. CASE Elsewhere
    BY <1>1, <1>6 DEF Elsewhere, Typed, founder, FoundingTypeOK, AccountInv, Me
<1> QED
    BY <1>2, <1>3, <1>4, <1>5, <1>6, FoundingStep

\* Every reachable state of the programme is well typed.
THEOREM FoundingTypeCorrect == FoundingSpec => []FoundingTypeOK
BY FoundingInitType, FoundingNextType, PTL DEF FoundingSpec

-----------------------------------------------------------------------------
(* One status per person.                                                  *)

\* Who is past the question about the other account, and has not crossed with
\* anybody, would still get the same answer.
OnceInv ==
    \A r \in Requests :
        req[r].pc \in {"window", "flip"} /\ who[r] \notin crossed
            => <<Other(req[r].side), who[r]>> \notin member

\* A step that makes a member crosses with everybody who would become one for the
\* same person's other account.
LEMMA NextOnce ==
    FoundingTypeOK /\ OnceInv /\ OneStatusPerPerson /\ [FoundingNext]_foundingVars
        => OnceInv' /\ OneStatusPerPerson'
<1> SUFFICES ASSUME FoundingTypeOK, OnceInv, OneStatusPerPerson,
                    [FoundingNext]_foundingVars
             PROVE  OnceInv' /\ OneStatusPerPerson'
    OBVIOUS
<1>1. who' = who
    BY PromoStep
<1>2. \A r \in Requests : req[r].side \in Sides /\ who[r] \in People
    BY DEF FoundingTypeOK, Calls
<1>3. ASSUME NEW r \in Requests, Walks(r) PROVE OnceInv' /\ OneStatusPerPerson'
  <2>1. member' = member /\ crossed' = crossed
      BY <1>3 DEF Walks, founder
  <2>2. req'[r].pc \in {"window", "flip"} /\ who[r] \notin crossed
            => <<Other(req'[r].side), who[r]>> \notin member
      BY <1>3 DEF OnceInv, Walks, Arrives, Asks, Goes, At
  <2> QED
      BY <1>1, <1>3, <2>1, <2>2 DEF OnceInv, OneStatusPerPerson, Walks
<1>4. ASSUME NEW r \in Requests, Enters(r) PROVE OnceInv' /\ OneStatusPerPerson'
  <2>1. who[r] \notin crossed' => <<Other(req[r].side), who[r]>> \notin member
      BY <1>4 DEF OnceInv, Enters, At
  <2>2. ASSUME NEW p \in People \ crossed'
        PROVE  ~(<<"cleaner", p>> \in member' /\ <<"customer", p>> \in member')
    <3>1. p \notin crossed
        BY <1>4, <2>2 DEF Enters
    <3>2. CASE p = who[r]
        BY <1>2, <1>4, <2>1, <2>2, <3>2 DEF Enters, Me, Other, Sides
    <3>3. CASE p # who[r]
        BY <1>4, <3>1, <3>3 DEF OneStatusPerPerson, Enters, Me
    <3> QED
        BY <3>2, <3>3
  <2>3. ASSUME NEW q \in Requests, req'[q].pc \in {"window", "flip"}, who[q] \notin crossed'
        PROVE  <<Other(req'[q].side), who[q]>> \notin member'
    <3>1. q # r
        BY <1>4, <2>3 DEF Enters
    <3>2. req[q].pc = req'[q].pc /\ req[q].side = req'[q].side
        BY <1>4, <3>1 DEF Enters, Overtaken
    <3>3. <<Other(req[q].side), who[q]>> \notin member
        BY <1>4, <2>3, <3>2 DEF OnceInv, Enters
    <3>4. <<Other(req[q].side), who[q]>> # Me(r)
        BY <1>2, <1>4, <2>3, <3>2 DEF Enters, Crosses, Me, Other, Sides
    <3> QED
        BY <1>4, <3>2, <3>3, <3>4 DEF Enters
  <2> QED
      BY <1>1, <2>2, <2>3 DEF OnceInv, OneStatusPerPerson
<1>5. ASSUME NEW a \in Accounts, RevokeStatus(a) PROVE OnceInv' /\ OneStatusPerPerson'
    BY <1>1, <1>5 DEF RevokeStatus, OnceInv, OneStatusPerPerson
<1>6. ASSUME NEW a \in Accounts, Restored(a) PROVE OnceInv' /\ OneStatusPerPerson'
  <2>1. a[1] \in Sides /\ a[2] \in People /\ a = <<a[1], a[2]>>
      BY DEF Accounts
  <2>2. ASSUME NEW p \in People \ crossed'
        PROVE  ~(<<"cleaner", p>> \in member' /\ <<"customer", p>> \in member')
    <3>1. p \notin crossed
        BY <1>6, <2>2 DEF Restored
    <3>2. CASE p = a[2]
        BY <1>6, <2>1, <2>2, <3>2 DEF Restored, Other, Sides
    <3>3. CASE p # a[2]
        BY <1>6, <2>1, <3>1, <3>3 DEF OneStatusPerPerson, Restored
    <3> QED
        BY <3>2, <3>3
  <2>3. ASSUME NEW q \in Requests, req'[q].pc \in {"window", "flip"}, who[q] \notin crossed'
        PROVE  <<Other(req'[q].side), who[q]>> \notin member'
    <3>1. req[q].pc = req'[q].pc /\ req[q].side = req'[q].side
        BY <1>6 DEF Restored, Overtaken
    <3>2. <<Other(req[q].side), who[q]>> \notin member
        BY <1>6, <2>3, <3>1 DEF OnceInv, Restored
    <3>3. <<Other(req[q].side), who[q]>> # a
        BY <1>2, <1>6, <2>1, <2>3, <3>1 DEF Restored, Crosses, Other, Sides
    <3> QED
        BY <1>6, <3>1, <3>2, <3>3 DEF Restored
  <2> QED
      BY <1>1, <2>2, <2>3 DEF OnceInv, OneStatusPerPerson
<1>7. CASE Elsewhere
    BY <1>1, <1>7 DEF Elsewhere, founder, OnceInv, OneStatusPerPerson
<1> QED
    BY <1>3, <1>4, <1>5, <1>6, <1>7, FoundingStep

\* A person is a founder once, but for those whose enrollments overlapped or whom
\* an operator restored beside the other account.
THEOREM FounderOnce == FoundingSpec => []OneStatusPerPerson
<1>1. FoundingInit => OnceInv /\ OneStatusPerPerson
    BY DEF FoundingInit, OnceInv, OneStatusPerPerson
<1> QED
    BY <1>1, NextOnce, FoundingTypeCorrect, PTL DEF FoundingSpec

-----------------------------------------------------------------------------
(* The cap.                                                                *)

\* The members of a side who are held to its cap.
Capped(side) == Members(side) \ excess

\* Who has a fresh count, and is not let past it by an operator, finds room.
CapInv ==
    \A r \in Requests :
        At(r, "flip") /\ ~req[r].stale /\ req[r].op # "grant"
            => Cardinality(Capped(req[r].side)) < MaxMembers

\* Sets of accounts are finite.
LEMMA CappedFinite ==
    ASSUME FoundingTypeOK, NEW side
    PROVE  /\ IsFiniteSet(Members(side)) /\ Cardinality(Members(side)) \in Nat
           /\ IsFiniteSet(Capped(side)) /\ Cardinality(Capped(side)) \in Nat
           /\ Cardinality(Capped(side)) <= Cardinality(Members(side))
<1>1. IsFiniteSet(Accounts)
  <2>1. IsFiniteSet({"cleaner"} \union {"customer"})
      BY FS_Singleton, FS_AddElement
  <2>2. IsFiniteSet(Sides)
      BY <2>1 DEF Sides
  <2> QED
      BY <2>2, FoundingAssumption, FS_Product DEF Accounts
<1>2. Members(side) \subseteq Accounts
    BY DEF FoundingTypeOK, Members
<1>3. IsFiniteSet(Members(side))
    BY <1>1, <1>2, FS_Subset
<1>4. Capped(side) \subseteq Members(side)
    BY DEF Capped
<1> QED
    BY <1>3, <1>4, FS_Subset, FS_CardinalityType

\* A fresh count admits one more; whoever else was past the count goes by a stale
\* one from then on.
LEMMA NextCap ==
    FoundingTypeOK /\ CapInv /\ CapHolds /\ [FoundingNext]_foundingVars
        => CapInv' /\ CapHolds'
<1> SUFFICES ASSUME FoundingTypeOK, CapInv, CapHolds, [FoundingNext]_foundingVars
             PROVE  CapInv' /\ CapHolds'
    OBVIOUS
<1>1. MaxMembers \in Nat /\ \A r \in Requests : req[r].side \in Sides
    BY FoundingAssumption DEF FoundingTypeOK, Calls
<1>2. \A side \in Sides : Cardinality(Capped(side)) <= MaxMembers
    BY DEF CapHolds, Capped
<1>3. ASSUME NEW r \in Requests, Walks(r) PROVE CapInv' /\ CapHolds'
  <2>1. member' = member /\ excess' = excess
      BY <1>3 DEF Walks, founder
  <2>2. \A side : Capped(side)' = Capped(side)
      BY <2>1 DEF Capped, Members
  <2>3. ASSUME req'[r].pc = "flip", ~req'[r].stale, req'[r].op # "grant"
        PROVE  Cardinality(Capped(req'[r].side)) < MaxMembers
    <3>1. req'[r].side = req[r].side /\ Cardinality(Members(req[r].side)) < MaxMembers
        BY <1>3, <2>3 DEF Walks, Arrives, Asks, Goes
    <3> QED
        BY <1>1, <3>1, CappedFinite
  <2>4. CapInv'
      BY <1>3, <2>2, <2>3 DEF CapInv, Walks, At
  <2>5. CapHolds'
      BY <1>2, <2>2 DEF CapHolds, Capped
  <2> QED
      BY <2>4, <2>5
<1>4. ASSUME NEW r \in Requests, Enters(r) PROVE CapInv' /\ CapHolds'
  <2>0. PICK side \in Sides : side = req[r].side
      BY <1>1
  <2>1. \A other \in Sides : other # side => Capped(other)' = Capped(other)
      BY <1>4, <2>0 DEF Capped, Members, Enters, Me
  <2>3. Cardinality(Capped(side)') <= MaxMembers
    <3>1. CASE req[r].stale \/ req[r].op = "grant"
      <4>1. Capped(side)' = Capped(side)
          BY <1>4, <2>0, <3>1 DEF Capped, Members, Enters, Me
      <4> QED
          BY <1>1, <1>2, <4>1
    <3>2. CASE ~(req[r].stale \/ req[r].op = "grant")
      <4>1. Capped(side)' = Capped(side) \union {Me(r)} /\ Me(r) \notin Capped(side)
          BY <1>4, <2>0, <3>2 DEF Capped, Members, Enters, Me
      <4>2. Cardinality(Capped(side)') = Cardinality(Capped(side)) + 1
          BY <4>1, CappedFinite, FS_AddElement
      <4>3. Cardinality(Capped(side)) < MaxMembers
          BY <1>4, <2>0, <3>2 DEF CapInv, Enters
      <4> QED
          BY <1>1, <4>2, <4>3, CappedFinite
    <3> QED
        BY <3>1, <3>2
  <2>4. CapHolds'
    <3>1. \A other \in Sides : Cardinality(Capped(other)') <= MaxMembers
        BY <1>2, <2>1, <2>3
    <3> QED
        BY <3>1 DEF CapHolds, Capped
  <2>5. ASSUME NEW q \in Requests, req'[q].pc = "flip", ~req'[q].stale, req'[q].op # "grant",
               NEW fresh \in Sides, fresh = req'[q].side
        PROVE  Cardinality(Capped(fresh)') < MaxMembers
    <3>1. q # r
        BY <1>4, <2>5 DEF Enters
    <3>2. req[q].side # side
        BY <1>4, <2>0, <2>5, <3>1 DEF Enters, Overtaken, At
    <3>3. req'[q] = req[q]
        BY <1>4, <2>0, <3>1, <3>2 DEF Enters
    <3>4. Cardinality(Capped(fresh)) < MaxMembers
        BY <2>5, <3>3 DEF CapInv, At
    <3>5. Capped(fresh)' = Capped(fresh)
        BY <2>0, <2>1, <2>5, <3>2, <3>3
    <3> QED
        BY <3>4, <3>5
  <2>6. \A q \in Requests : req'[q].side \in Sides
      BY <1>4 DEF Enters, Typed, Calls
  <2> QED
      BY <2>4, <2>5, <2>6 DEF CapInv, At
<1>5. ASSUME NEW a \in Accounts, RevokeStatus(a) PROVE CapInv' /\ CapHolds'
  <2>1. \A side : Capped(side)' \subseteq Capped(side)
      BY <1>5 DEF RevokeStatus, Capped, Members
  <2>2. \A side : /\ Cardinality(Capped(side)') \in Nat
                  /\ Cardinality(Capped(side)') <= Cardinality(Capped(side))
      BY <2>1, CappedFinite, FS_Subset, FS_CardinalityType
  <2>3. \A side : Cardinality(Capped(side)) \in Nat
      BY CappedFinite
  <2>4. CapHolds'
    <3>1. \A side \in Sides : Cardinality(Capped(side)') <= MaxMembers
        BY <1>1, <1>2, <2>2, <2>3
    <3> QED
        BY <3>1 DEF CapHolds, Capped
  <2>5. CapInv'
    <3>1. req' = req
        BY <1>5 DEF RevokeStatus
    <3> QED
        BY <1>1, <2>2, <2>3, <3>1 DEF CapInv, At
  <2> QED
      BY <2>4, <2>5
<1>6. ASSUME NEW a \in Accounts, Restored(a) PROVE CapInv' /\ CapHolds'
  <2>1. \A side : Capped(side)' \subseteq Capped(side)
      BY <1>6 DEF Restored, Capped, Members
  <2>2. \A side : /\ Cardinality(Capped(side)') \in Nat
                  /\ Cardinality(Capped(side)') <= Cardinality(Capped(side))
      BY <2>1, CappedFinite, FS_Subset, FS_CardinalityType
  <2>3. \A side : Cardinality(Capped(side)) \in Nat
      BY CappedFinite
  <2>4. CapHolds'
    <3>1. \A side \in Sides : Cardinality(Capped(side)') <= MaxMembers
        BY <1>1, <1>2, <2>2, <2>3
    <3> QED
        BY <3>1 DEF CapHolds, Capped
  <2>5. ASSUME NEW q \in Requests, req'[q].pc = "flip", ~req'[q].stale, req'[q].op # "grant",
               NEW fresh \in Sides, fresh = req'[q].side
        PROVE  Cardinality(Capped(fresh)') < MaxMembers
    <3>1. req[q].side # a[1]
        BY <1>6, <2>5 DEF Restored, Overtaken, At
    <3>2. req'[q] = req[q]
        BY <1>6, <3>1 DEF Restored
    <3>3. Cardinality(Capped(fresh)) < MaxMembers
        BY <2>5, <3>2 DEF CapInv, At
    <3> QED
        BY <1>1, <2>2, <2>3, <3>3
  <2>6. \A q \in Requests : req'[q].side \in Sides
      BY <1>6 DEF Restored, Typed, Calls
  <2> QED
      BY <2>4, <2>5, <2>6 DEF CapInv, At
<1>7. CASE Elsewhere
    BY <1>7 DEF Elsewhere, founder, CapInv, CapHolds, Capped, Members, At
<1> QED
    BY <1>3, <1>4, <1>5, <1>6, <1>7, FoundingStep

\* Nobody but operators, overlapping enrollments and those that could not read the
\* settings exceeds the cap of a side.
THEOREM CapIsKept == FoundingSpec => []CapHolds
<1>1. FoundingInit => CapInv /\ CapHolds
  <2>1. ASSUME FoundingInit, NEW side PROVE Cardinality(Members(side) \ excess) = 0
    <3>1. Members(side) \ excess = {}
        BY <2>1 DEF FoundingInit, Members
    <3> QED
        BY <3>1, FS_EmptySet
  <2>2. ASSUME FoundingInit PROVE CapInv
      BY <2>2 DEF FoundingInit, CapInv, At, Idle
  <2> QED
      BY <2>1, <2>2, FoundingAssumption DEF CapHolds
<1> QED
    BY <1>1, NextCap, FoundingTypeCorrect, PTL DEF FoundingSpec

-----------------------------------------------------------------------------
(* The stamps.                                                             *)

\* A claim or redemption is for the promotion's side once it has an account, a
\* status that is or was held has its number, and so has who gets a stamp.
NumberInv ==
    /\ \A a \in member \union revoked : number[a] # 0
    /\ \A r \in Requests :
          /\ req[r].op \in {"claim", "redeem"} /\ req[r].pc \notin {"insert", "bump", "target"}
                => req[r].side = RedeemSide
          /\ At(r, "stamp") => number[Me(r)] # 0 /\ req[r].op \in {"claim", "redeem"}

\* Every step keeps NumberInv: numbers are handed out from 1 and never taken back.
LEMMA NextNumber ==
    FoundingTypeOK /\ NumberInv /\ [FoundingNext]_foundingVars => NumberInv'
<1> SUFFICES ASSUME FoundingTypeOK, NumberInv, [FoundingNext]_foundingVars
             PROVE  NumberInv'
    OBVIOUS
<1>1. who' = who /\ RedeemSide' = RedeemSide
    BY PromoStep DEF RedeemSide
<1>2. /\ \A r \in Requests : req[r].side \in Sides /\ Me(r) \in Accounts
      /\ number \in [Accounts -> Nat] /\ last \in [Sides -> Nat]
      /\ member \subseteq Accounts /\ revoked \subseteq Accounts
    BY DEF FoundingTypeOK, Calls, Accounts, Me
<1>3. ASSUME NEW r \in Requests, Walks(r) PROVE NumberInv'
  <2>1. member' = member /\ revoked' = revoked /\ number' = number
      BY <1>3 DEF Walks, founder
  <2>2. req'[r].op \in {"claim", "redeem"} /\ req'[r].pc \notin {"insert", "bump", "target"}
            => req'[r].side = RedeemSide
      BY <1>3 DEF NumberInv, Walks, Arrives, Asks, Goes, At
  <2>3. req'[r].pc = "stamp"
            => number[<<req'[r].side, who[r]>>] # 0 /\ req'[r].op \in {"claim", "redeem"}
      BY <1>3 DEF NumberInv, Walks, Arrives, Asks, Goes, At, Me
  <2> QED
      BY <1>1, <1>3, <2>1, <2>2, <2>3 DEF NumberInv, Walks, At, Me
<1>4. ASSUME NEW r \in Requests, Enters(r) PROVE NumberInv'
  <2>1. number' = [number EXCEPT ![Me(r)] = last[req[r].side] + 1]
      BY <1>4 DEF Enters
  <2>2. last[req[r].side] + 1 # 0
      BY <1>2
  <2>3. number'[Me(r)] # 0 /\ \A a \in Accounts : number[a] # 0 => number'[a] # 0
      BY <1>2, <2>1, <2>2
  <2>4. \A a \in member' \union revoked' : number'[a] # 0
      BY <1>2, <1>4, <2>3 DEF NumberInv, Enters
  <2>5. ASSUME NEW q \in Requests
        PROVE  /\ req'[q].op \in {"claim", "redeem"}
                     /\ req'[q].pc \notin {"insert", "bump", "target"}
                  => req'[q].side = RedeemSide
               /\ req'[q].pc = "stamp"
                  => /\ number'[<<req'[q].side, who[q]>>] # 0
                     /\ req'[q].op \in {"claim", "redeem"}
    <3>1. CASE q = r
        BY <1>4, <2>3, <3>1 DEF NumberInv, Enters, At, Me
    <3>2. CASE q # r
      <4>1. /\ req'[q].pc = req[q].pc /\ req'[q].op = req[q].op
            /\ req'[q].side = req[q].side
          BY <1>4, <3>2 DEF Enters, Overtaken
      <4> QED
          BY <1>2, <2>3, <4>1 DEF NumberInv, At, Me
    <3> QED
        BY <3>1, <3>2
  <2> QED
      BY <1>1, <2>4, <2>5 DEF NumberInv, At, Me
<1>5. ASSUME NEW a \in Accounts, RevokeStatus(a) PROVE NumberInv'
    BY <1>1, <1>5 DEF RevokeStatus, NumberInv, At, Me
<1>6. ASSUME NEW a \in Accounts, Restored(a) PROVE NumberInv'
  <2>1. /\ number' = number
        /\ \A q \in Requests : /\ req'[q].pc = req[q].pc /\ req'[q].op = req[q].op
                               /\ req'[q].side = req[q].side
      BY <1>6 DEF Restored, Overtaken
  <2>2. \A b \in member' \union revoked' : number'[b] # 0
      BY <1>6, <2>1 DEF NumberInv, Restored
  <2> QED
      BY <1>1, <2>1, <2>2 DEF NumberInv, At, Me
<1>7. CASE Elsewhere
    BY <1>1, <1>7 DEF Elsewhere, founder, NumberInv, At, Me
<1> QED
    BY <1>3, <1>4, <1>5, <1>6, <1>7, FoundingStep

\* No step takes a number back.
LEMMA NumbersStay ==
    ASSUME FoundingTypeOK, [FoundingNext]_foundingVars, NEW a \in Accounts, number[a] # 0
    PROVE  number'[a] # 0
<1>1. ASSUME NEW r \in Requests, Enters(r) PROVE number'[a] # 0
  <2>1. number' = [number EXCEPT ![Me(r)] = last[req[r].side] + 1]
      BY <1>1 DEF Enters
  <2>2. last[req[r].side] \in Nat
      BY DEF FoundingTypeOK, Calls
  <2> QED
      BY <2>1, <2>2 DEF FoundingTypeOK
<1>2. ASSUME NEW r \in Requests, Walks(r) PROVE number'[a] # 0
    BY <1>2 DEF Walks, founder
<1>3. ASSUME NEW b \in Accounts, RevokeStatus(b) \/ Restored(b) PROVE number'[a] # 0
    BY <1>3 DEF RevokeStatus, Restored
<1>4. CASE Elsewhere
    BY <1>4 DEF Elsewhere, founder
<1> QED
    BY <1>1, <1>2, <1>3, <1>4, FoundingStep

\* A row gets its stamp when the request that puts it on has made, or found, a
\* member with a number.
LEMMA NextGranted ==
    FoundingTypeOK /\ NumberInv /\ GrantedIsFounder /\ [FoundingNext]_foundingVars
        => GrantedIsFounder'
<1> SUFFICES ASSUME FoundingTypeOK, NumberInv, GrantedIsFounder,
                    [FoundingNext]_foundingVars,
                    NEW row \in claims', row.granted
             PROVE  number'[<<RedeemSide, row.who>>] # 0
    BY PromoStep DEF GrantedIsFounder, RedeemSide
<1>1. claims \subseteq Rows /\ who \in [Requests -> People] /\ RedeemSide \in Sides
    BY DEF FoundingTypeOK, RedeemSide, Sides
<1>2. ASSUME NEW p \in People, number[<<RedeemSide, p>>] # 0, p = row.who
      PROVE  number'[<<RedeemSide, row.who>>] # 0
    BY <1>1, <1>2, NumbersStay DEF Accounts
<1>3. ASSUME row \in claims PROVE number'[<<RedeemSide, row.who>>] # 0
    BY <1>1, <1>2, <1>3 DEF GrantedIsFounder, Rows
<1>4. ASSUME NEW r \in Requests, InsertClaim(r)
      PROVE  number'[<<RedeemSide, row.who>>] # 0
  <2>1. \A mail, user : ~Row(who[r], mail, user).granted
      BY DEF Row
  <2>2. row \in claims
      BY <1>4, <2>1, Zenon DEF InsertClaim
  <2> QED
      BY <1>3, <2>2
<1>5. ASSUME NEW r \in Requests, At(r, "stamp")
      PROVE  number[<<RedeemSide, who[r]>>] # 0
    BY <1>5 DEF NumberInv, At, Me
<1>6. ASSUME NEW r \in Requests, StampClaim(r)
      PROVE  number'[<<RedeemSide, row.who>>] # 0
  <2>1. PICK old \in claims :
            row = IF old.who = who[r] /\ old.user THEN [old EXCEPT !.granted = TRUE] ELSE old
      BY <1>6, Zenon DEF StampClaim, Stamped
  <2>2. CASE row = old
      BY <1>3, <2>2
  <2>3. CASE row.who = who[r]
      BY <1>1, <1>2, <1>5, <1>6, <2>3 DEF StampClaim
  <2> QED
      BY <1>1, <2>1, <2>2, <2>3 DEF Rows
<1>7. ASSUME NEW r \in Requests, NEW granted \in BOOLEAN, claims' = Attached(who[r], granted),
             granted => At(r, "stamp")
      PROVE  number'[<<RedeemSide, row.who>>] # 0
  <2>1. CASE row \in claims
      BY <1>3, <2>1
  <2>2. CASE row \notin claims
    <3>1. PICK old \in claims :
              row = IF old.who = who[r]
                    THEN [old EXCEPT !.user = TRUE, !.granted = @ \/ granted] ELSE old
        BY <1>7, <2>2, Zenon DEF Attached
    <3>2. old \in Rows /\ old.who = who[r]
        BY <1>1, <2>2, <3>1
    <3>3. row.who = who[r] /\ (row.granted <=> (old.granted \/ granted))
        BY <3>1, <3>2 DEF Rows
    <3>4. CASE old.granted
      <4>1. number[<<RedeemSide, old.who>>] # 0
          BY <3>4 DEF GrantedIsFounder
      <4> QED
          BY <1>1, <1>2, <3>2, <3>3, <4>1
    <3>5. CASE granted
        BY <1>1, <1>2, <1>5, <1>7, <3>3, <3>5
    <3> QED
        BY <3>3, <3>4, <3>5
  <2> QED
      BY <2>1, <2>2
<1>8. ASSUME NEW r \in Requests, StampPending(r)
      PROVE  number'[<<RedeemSide, row.who>>] # 0
    BY <1>7, <1>8 DEF StampPending
<1>9. ASSUME NEW r \in Requests, ClosePending(r)
      PROVE  number'[<<RedeemSide, row.who>>] # 0
    BY <1>7, <1>9 DEF ClosePending
<1>10. CASE Counted
    BY <1>3, <1>10 DEF Counted
<1>11. ASSUME NEW r \in Requests, BumpCount(r)
       PROVE  number'[<<RedeemSide, row.who>>] # 0
    BY <1>3, <1>11 DEF BumpCount
<1> QED
    BY <1>4, <1>6, <1>8, <1>9, <1>10, <1>11, PromoStep DEF Settle

\* A stamped claim is that of somebody with a founder number on the promotion's side.
THEOREM StampedAreFounders == FoundingSpec => []GrantedIsFounder
<1>1. FoundingInit => NumberInv /\ GrantedIsFounder
    BY DEF FoundingInit, NumberInv, GrantedIsFounder, At, Idle
<1> QED
    BY <1>1, NextNumber, NextGranted, FoundingTypeCorrect, PTL DEF FoundingSpec

-----------------------------------------------------------------------------
(* The count.                                                              *)

\* The unique indexes: no person has two rows with an address, nor two with a user,
\* and no row has neither.
RowInv ==
    /\ IsFiniteSet(claims)
    /\ \A row \in claims : row.mail \/ row.user
    /\ \A row, other \in claims :
          row.who = other.who /\ ((row.mail /\ other.mail) \/ (row.user /\ other.user))
              => row = other

\* As many rows before as after, when each becomes one and no two the same.
LEMMA SameNumberOfRows ==
    ASSUME NEW S, IsFiniteSet(S), NEW T, NEW f \in [S -> T],
           \A y \in T : \E x \in S : f[x] = y,
           \A x, y \in S : f[x] = f[y] => x = y
    PROVE  IsFiniteSet(T) /\ Cardinality(T) = Cardinality(S)
<1>1. f \in Bijection(S, T)
    BY DEF Bijection, Injection, Surjection, IsInjective
<1>2. ExistsBijection(S, T)
    BY <1>1 DEF ExistsBijection
<1> QED
    BY <1>2, FS_Bijection

\* A row that was let in is a new one, and breaks neither index.
LEMMA InsertKeepsRows ==
    ASSUME FoundingTypeOK, RowInv, NEW r \in Requests, InsertClaim(r)
    PROVE  /\ RowInv'
           /\ \/ claims' = claims /\ Over(r)
              \/ Cardinality(claims') = Cardinality(claims) + 1 /\ Goto(r, "bump")
<1>1. PICK mail \in {TRUE, ~req[r].user} :
          IF Taken(who[r], mail, req[r].user)
          THEN Over(r) /\ UNCHANGED claims
          ELSE /\ claims' = claims \union {Row(who[r], mail, req[r].user)}
               /\ Goto(r, "bump")
    BY Zenon DEF InsertClaim
<1>2. CASE Taken(who[r], mail, req[r].user)
    BY <1>1, <1>2 DEF RowInv
<1>3. CASE ~Taken(who[r], mail, req[r].user)
  <2> DEFINE row == Row(who[r], mail, req[r].user)
  <2>1. claims' = claims \union {row} /\ Goto(r, "bump")
      BY <1>1, <1>3
  <2>2. req[r].user \in BOOLEAN /\ mail \in BOOLEAN
      BY DEF FoundingTypeOK, Calls
  <2>3. row.who = who[r] /\ row.mail = mail /\ row.user = req[r].user
      BY DEF Row
  <2>4. row.mail \/ row.user
      BY <1>1, <2>2, <2>3
  <2>5. \A other \in claims :
            ~(other.who = row.who /\ ((row.mail /\ other.mail) \/ (row.user /\ other.user)))
      BY <1>3, <2>3 DEF Taken
  <2> HIDE DEF row
  <2>6. row \notin claims
      BY <2>4, <2>5
  <2>7. IsFiniteSet(claims') /\ Cardinality(claims') = Cardinality(claims) + 1
      BY <2>1, <2>6, FS_AddElement DEF RowInv
  <2>8. RowInv'
      BY <2>1, <2>4, <2>5, <2>7 DEF RowInv
  <2> QED
      BY <2>1, <2>7, <2>8
<1> QED
    BY <1>2, <1>3

\* A stamp makes no two rows one: the rows of a person that it finds differ in what
\* it leaves alone.
LEMMA StampKeepsRows ==
    ASSUME FoundingTypeOK, RowInv, NEW r \in Requests, Settle(r)
    PROVE  RowInv' /\ Cardinality(claims') = Cardinality(claims)
<1> DEFINE p == who[r]
           Same == RowInv' /\ Cardinality(claims') = Cardinality(claims)
<1>1. claims \subseteq Rows
    BY DEF FoundingTypeOK
<1>2. ASSUME claims' = Stamped(p) PROVE Same
  <2> DEFINE f == [row \in claims |-> IF row.who = p /\ row.user
                                      THEN [row EXCEPT !.granted = TRUE] ELSE row]
  <2>1. f \in [claims -> claims'] /\ \A y \in claims' : \E x \in claims : f[x] = y
      BY <1>2, Zenon DEF Stamped
  <2>2. \A row \in claims :
            f[row].who = row.who /\ f[row].mail = row.mail /\ f[row].user = row.user
      BY <1>1 DEF Rows
  <2> HIDE DEF f
  <2>3. \A x, y \in claims : f[x] = f[y] => x = y
      BY <2>2 DEF RowInv
  <2>4. IsFiniteSet(claims') /\ Cardinality(claims') = Cardinality(claims)
      BY <2>1, <2>3, SameNumberOfRows DEF RowInv
  <2>5. RowInv'
      BY <2>1, <2>2, <2>4 DEF RowInv
  <2> QED
      BY <2>4, <2>5
<1>3. ASSUME NEW granted \in BOOLEAN, claims' = Attached(p, granted) PROVE Same
  <2>1. CASE \E row \in claims : row.who = p /\ row.user /\ ~row.mail
    <3>1. claims' = claims
        BY <1>3, <2>1, Zenon DEF Attached
    <3> QED
        BY <3>1 DEF RowInv
  <2>2. CASE \A row \in claims : row.who = p => row.mail
    <3> DEFINE f == [row \in claims |->
                        IF row.who = p
                        THEN [row EXCEPT !.user = TRUE, !.granted = @ \/ granted] ELSE row]
    <3>1. ~\E row \in claims : row.who = p /\ row.user /\ ~row.mail
        BY <2>2
    <3>2. f \in [claims -> claims'] /\ \A y \in claims' : \E x \in claims : f[x] = y
        BY <1>3, <3>1, Zenon DEF Attached
    <3>3. \A row \in claims : /\ f[row].who = row.who /\ f[row].mail = row.mail
                              /\ row.user => f[row].user
                              /\ row.who # p => f[row] = row
        BY <1>1 DEF Rows
    <3> HIDE DEF f
    <3>4. \A x, y \in claims :
              f[x].who = f[y].who
                  /\ ((f[x].mail /\ f[y].mail) \/ (f[x].user /\ f[y].user)) => x = y
        BY <2>2, <3>3 DEF RowInv
    <3>5. \A x \in claims : f[x].mail \/ f[x].user
        BY <3>3 DEF RowInv
    <3>6. IsFiniteSet(claims') /\ Cardinality(claims') = Cardinality(claims)
        BY <3>2, <3>4, <3>5, SameNumberOfRows DEF RowInv
    <3>7. RowInv'
        BY <3>2, <3>4, <3>5, <3>6 DEF RowInv
    <3> QED
        BY <3>6, <3>7
  <2> QED
      BY <2>1, <2>2 DEF RowInv
<1> QED
    BY <1>2, <1>3 DEF Settle, StampClaim, StampPending, ClosePending

\* Every step keeps the indexes and the count.
LEMMA NextCount ==
    FoundingTypeOK /\ RowInv /\ CountIsExact /\ [FoundingNext]_foundingVars
        => RowInv' /\ CountIsExact'
<1> SUFFICES ASSUME FoundingTypeOK, RowInv, CountIsExact, [FoundingNext]_foundingVars
             PROVE  RowInv' /\ CountIsExact'
    OBVIOUS
<1>1. /\ Cardinality(claims) = count + Cardinality(Waiting)
      /\ count \in Nat /\ req \in [Requests -> Calls]
    BY DEF CountIsExact, Waiting, FoundingTypeOK
<1>2. Cardinality(claims') = count' + Cardinality(Waiting') => CountIsExact'
    BY DEF CountIsExact, Waiting
<1>3. IsFiniteSet(Waiting) /\ Cardinality(Waiting) \in Nat
    BY FoundingAssumption, FS_Subset, FS_CardinalityType DEF Waiting
<1>4. CASE Counted
    BY <1>1, <1>2, <1>4 DEF Counted, RowInv
<1>5. ASSUME NEW r \in Requests, InsertClaim(r) PROVE RowInv' /\ CountIsExact'
  <2>1. RowInv' /\ count' = count /\ r \notin Waiting
      BY <1>5, InsertKeepsRows DEF InsertClaim, At, Waiting
  <2>2. CASE claims' = claims /\ Over(r)
    <3>1. Waiting' = Waiting
        BY <1>1, <2>1, <2>2, OverMoves DEF Waiting
    <3> QED
        BY <1>1, <1>2, <2>1, <2>2, <3>1
  <2>3. CASE Cardinality(claims') = Cardinality(claims) + 1 /\ Goto(r, "bump")
    <3>1. "bump" \in Places
        BY DEF Places
    <3>2. Waiting' = Waiting \union {r}
        BY <1>1, <2>1, <2>3, <3>1, GotoMoves DEF Waiting
    <3>3. Cardinality(Waiting') = Cardinality(Waiting) + 1
        BY <1>3, <2>1, <3>2, FS_AddElement
    <3> QED
        BY <1>1, <1>2, <1>3, <2>1, <2>3, <3>3
  <2> QED
      BY <1>5, <2>2, <2>3, InsertKeepsRows
<1>6. ASSUME NEW r \in Requests, BumpCount(r) PROVE RowInv' /\ CountIsExact'
  <2>1. claims' = claims /\ count' = count + 1 /\ r \in Waiting
      BY <1>6 DEF BumpCount, At, Waiting
  <2>2. Waiting' = Waiting \ {r}
    <3>1. "target" \in Places
        BY DEF Places
    <3>2. CASE Goto(r, "target")
        BY <1>1, <3>1, <3>2, GotoMoves DEF Waiting
    <3>3. CASE Over(r)
        BY <1>1, <3>3, OverMoves DEF Waiting
    <3> QED
        BY <1>6, <3>2, <3>3 DEF BumpCount
  <2>3. Cardinality(Waiting') = Cardinality(Waiting) - 1
      BY <1>3, <2>1, <2>2, FS_RemoveElement
  <2>4. Cardinality(claims') = count' + Cardinality(Waiting')
      BY <1>1, <1>3, <2>1, <2>3
  <2> QED
      BY <1>2, <2>1, <2>4 DEF RowInv
<1>7. ASSUME NEW r \in Requests, Settle(r) PROVE RowInv' /\ CountIsExact'
  <2>1. RowInv' /\ Cardinality(claims') = Cardinality(claims)
      BY <1>7, StampKeepsRows
  <2>2. count' = count /\ Over(r) /\ r \notin Waiting
      BY <1>7 DEF Settle, StampClaim, StampPending, ClosePending, At, Waiting
  <2>3. Waiting' = Waiting
      BY <1>1, <2>2, OverMoves DEF Waiting
  <2> QED
      BY <1>1, <1>2, <2>1, <2>2, <2>3
<1> QED
    BY <1>4, <1>5, <1>6, <1>7, PromoStep

\* claim_count misses no claim and counts none twice, but for those that are about to
\* be counted or whose request died before.
THEOREM ClaimsAreCounted == FoundingSpec => []CountIsExact
<1>1. ASSUME FoundingInit PROVE RowInv /\ CountIsExact
  <2>1. claims = {} /\ count = 0
      BY <1>1 DEF FoundingInit
  <2>2. Waiting = {}
      BY <1>1 DEF FoundingInit, Idle, Waiting
  <2>3. /\ IsFiniteSet(claims) /\ Cardinality(claims) = 0
        /\ Cardinality(Waiting) = 0
      BY <2>1, <2>2, FS_EmptySet
  <2>4. RowInv
      BY <2>1, <2>3 DEF RowInv
  <2>5. CountIsExact
      BY <2>1, <2>3 DEF CountIsExact, Waiting
  <2> QED
      BY <2>4, <2>5
<1> QED
    BY <1>1, NextCount, FoundingTypeCorrect, PTL DEF FoundingSpec

=============================================================================
