--------------------------- MODULE PayoutsProofs ---------------------------
(***************************************************************************)
(* Theorems about Payouts, for every set of requests, endpoints, overrides *)
(* and faults. Each invariant is proved by one case per action of Next.    *)
(***************************************************************************)
EXTENDS Payouts, TLAPS

USE DEF db, stripe

-----------------------------------------------------------------------------
(* Type correctness.                                                       *)

\* The initial states are well typed.
LEMMA InitTypeOK == Init => TypeOK
BY PayoutsAssumption DEF Init, TypeOK

\* Every step keeps the state well typed.
LEMMA NextTypeOK == TypeOK /\ [Next]_vars => TypeOK'
<1> SUFFICES ASSUME TypeOK, [Next]_vars PROVE TypeOK'
    OBVIOUS
<1> USE PayoutsAssumption DEF TypeOK
<1>1. ASSUME NEW r \in Requests, Read(r) PROVE TypeOK'
    BY <1>1 DEF Read, ReleaseCheck, ReleaseLookup, BatchSelect, OverrideRead,
                Goto, Answer, SchemaStatuses, Absent
<1>2. ASSUME NEW r \in Requests, TryClaim(r) PROVE TypeOK'
    BY <1>2 DEF TryClaim, InsertClaim, UpdateClaim, BatchClaim, OverrideClaim,
                Claim, Goto, Answer
<1>3. ASSUME NEW r \in Requests, Transfer(r) PROVE TypeOK'
  <2> PICK made \in BOOLEAN, result \in {"made", "error"} : StripeReturns(r, made, result)
      BY <1>3 DEF Transfer, StripeTransfers, StripeRefuses, LoseAnswer
  <2>1. Key(route[r]) \in Keys
      BY DEF Keys
  <2> QED
      BY <2>1 DEF StripeReturns, Goto
<1>4. ASSUME NEW r \in Requests, Record(r) PROVE TypeOK'
    BY <1>4 DEF Record, Settle, OverrideSettle, Goto, SchemaStatuses
<1>5. ASSUME NEW r \in Requests, Crash(r) PROVE TypeOK'
    BY <1>5 DEF Crash, Goto
<1>6. CASE Environment
    BY <1>6 DEF Environment, Hold, Resolve, TransferCreated, Capture, ChargeRefunded,
                DisputeCreated, DisputeClosed, SchemaStatuses
<1>7. CASE UNCHANGED vars
    BY <1>7 DEF vars
<1> QED
    BY <1>1, <1>2, <1>3, <1>4, <1>5, <1>6, <1>7 DEF Next, Serve

\* Every reachable state is well typed.
THEOREM TypeCorrect == Spec => []TypeOK
BY InitTypeOK, NextTypeOK, PTL DEF Spec

-----------------------------------------------------------------------------
(* No money before the capture.                                            *)

\* Every step keeps CaptureInv: the payment never becomes uncaptured again, and
\* a row or a transfer appears only in the hands of a request past its read.
LEMMA NextCaptureInv == TypeOK /\ CaptureInv /\ [Next]_vars => CaptureInv'
<1> SUFFICES ASSUME TypeOK, CaptureInv, [Next]_vars PROVE CaptureInv'
    OBVIOUS
<1> USE DEF TypeOK, CaptureInv
<1>1. ASSUME NEW r \in Requests, Read(r) PROVE CaptureInv'
    BY <1>1 DEF Read, ReleaseCheck, ReleaseLookup, BatchSelect, OverrideRead,
                Goto, Answer, Absent
<1>2. ASSUME NEW r \in Requests, TryClaim(r) PROVE CaptureInv'
    BY <1>2 DEF TryClaim, InsertClaim, UpdateClaim, BatchClaim, OverrideClaim,
                Claim, Goto, Answer, Absent
<1>3. ASSUME NEW r \in Requests, Transfer(r) PROVE CaptureInv'
    BY <1>3 DEF Transfer, StripeTransfers, StripeRefuses, LoseAnswer, StripeReturns, Goto
<1>4. ASSUME NEW r \in Requests, Record(r) PROVE CaptureInv'
    BY <1>4 DEF Record, Settle, OverrideSettle, Goto
<1>5. ASSUME NEW r \in Requests, Crash(r) PROVE CaptureInv'
    BY <1>5 DEF Crash, Goto
<1>6. CASE Environment
    BY <1>6 DEF Environment, Hold, Resolve, TransferCreated, Capture, ChargeRefunded,
                DisputeCreated, DisputeClosed
<1>7. CASE UNCHANGED vars
    BY <1>7 DEF vars
<1> QED
    BY <1>1, <1>2, <1>3, <1>4, <1>5, <1>6, <1>7 DEF Next, Serve

\* No transfer is made for a booking whose charge was never captured, whatever
\* the endpoints, overrides, crashes and lost answers.
THEOREM NoPayoutBeforeCapture == Spec => []PaidOnlyAfterCapture
<1>1. Init => CaptureInv
    BY DEF Init, CaptureInv
<1>2. CaptureInv => PaidOnlyAfterCapture
    BY DEF CaptureInv, PaidOnlyAfterCapture
<1> QED
    BY <1>1, <1>2, TypeCorrect, NextCaptureInv, PTL DEF Spec

-----------------------------------------------------------------------------
(* A paid row has a transfer behind it.                                    *)

\* Every step keeps BackedInv, the revert to a status read earlier included.
LEMMA NextBackedInv == TypeOK /\ BackedInv /\ [Next]_vars => BackedInv'
<1> SUFFICES ASSUME TypeOK, BackedInv, [Next]_vars PROVE BackedInv'
    OBVIOUS
<1> USE DEF TypeOK, BackedInv
<1>1. ASSUME NEW r \in Requests, Read(r) PROVE BackedInv'
    BY <1>1 DEF Read, ReleaseCheck, ReleaseLookup, BatchSelect, OverrideRead,
                Goto, Answer
<1>2. ASSUME NEW r \in Requests, TryClaim(r) PROVE BackedInv'
    BY <1>2 DEF TryClaim, InsertClaim, UpdateClaim, BatchClaim, OverrideClaim,
                Claim, Goto, Answer
<1>3. ASSUME NEW r \in Requests, Transfer(r) PROVE BackedInv'
    BY <1>3 DEF Transfer, StripeTransfers, StripeRefuses, LoseAnswer, StripeReturns, Goto
<1>4. ASSUME NEW r \in Requests, Record(r) PROVE BackedInv'
    BY <1>4 DEF Record, Settle, OverrideSettle, Goto
<1>5. ASSUME NEW r \in Requests, Crash(r) PROVE BackedInv'
    BY <1>5 DEF Crash, Goto
<1>6. CASE Environment
    BY <1>6 DEF Environment, Hold, Resolve, TransferCreated, Capture, ChargeRefunded,
                DisputeCreated, DisputeClosed, Absent
<1>7. CASE UNCHANGED vars
    BY <1>7 DEF vars
<1> QED
    BY <1>1, <1>2, <1>3, <1>4, <1>5, <1>6, <1>7 DEF Next, Serve

\* A payouts row never reads 'paid' unless Stripe made a transfer for it.
THEOREM PaidRowsAreBacked == Spec => []PaidIsBacked
<1>1. Init => BackedInv
    BY DEF Init, BackedInv, Absent
<1>2. BackedInv => PaidIsBacked
    BY DEF BackedInv, PaidIsBacked
<1> QED
    BY <1>1, <1>2, TypeCorrect, NextBackedInv, PTL DEF Spec

-----------------------------------------------------------------------------
(* The claim protocol.                                                     *)

\* What somebody once interfered with stays so.
LEMMA StrayedStays == TypeOK /\ [Next]_vars /\ ~strayed' => ~strayed
<1> SUFFICES ASSUME TypeOK, [Next]_vars, strayed PROVE strayed'
    BY DEF TypeOK
<1>1. ASSUME NEW r \in Requests, Serve(r) \/ Crash(r) PROVE strayed'
    BY <1>1 DEF Serve, Read, ReleaseCheck, ReleaseLookup, BatchSelect, OverrideRead, Answer,
                TryClaim, InsertClaim, UpdateClaim, BatchClaim, OverrideClaim, Claim,
                Transfer, StripeTransfers, StripeRefuses, LoseAnswer, StripeReturns,
                Record, Settle, OverrideSettle, Crash
<1>2. CASE Environment
    BY <1>2 DEF Environment, Hold, Resolve, TransferCreated, Capture, ChargeRefunded,
                DisputeCreated, DisputeClosed
<1> QED
    BY <1>1, <1>2 DEF Next, vars

\* While nobody has interfered, every step keeps ClaimInv.
LEMMA NextClaimInv ==
    TypeOK /\ BackedInv /\ (~strayed => ClaimInv) /\ [Next]_vars => (~strayed' => ClaimInv')
<1> SUFFICES ASSUME TypeOK, BackedInv, ~strayed => ClaimInv, [Next]_vars, ~strayed'
             PROVE  ClaimInv'
    OBVIOUS
<1>0. ClaimInv
    BY StrayedStays
<1> USE <1>0 DEF TypeOK, ClaimInv, Holds, Blocked
<1>1. ASSUME NEW r \in Requests, Read(r) PROVE ClaimInv'
    BY <1>1 DEF Read, ReleaseCheck, ReleaseLookup, BatchSelect, OverrideRead,
                Goto, Answer
<1>2. ASSUME NEW r \in Requests, TryClaim(r) PROVE ClaimInv'
  <2>1. CASE pc'[r] = "done"
      BY <1>2, <2>1 DEF TryClaim, InsertClaim, UpdateClaim, BatchClaim, OverrideClaim,
                        Claim, Goto, Answer
  <2>2. CASE pc'[r] # "done"
    <3>1. payout \notin Blocked /\ payout' \in Blocked /\ pc' = [pc EXCEPT ![r] = "claimed"]
        BY <1>2, <2>2 DEF TryClaim, InsertClaim, UpdateClaim, BatchClaim, OverrideClaim,
                          Claim, Goto, Answer, Absent
    <3>2. transfers' = transfers
        BY <1>2, <2>2 DEF TryClaim, InsertClaim, UpdateClaim, BatchClaim, OverrideClaim,
                          Claim, Answer
    <3> QED
        BY <3>1, <3>2
  <2> QED
      BY <2>1, <2>2
<1>3. ASSUME NEW r \in Requests, Transfer(r) PROVE ClaimInv'
  <2>1. pc[r] = "claimed" /\ transfers = {}
      BY <1>3 DEF Transfer, StripeTransfers, StripeRefuses, LoseAnswer, StripeReturns
  <2>2. \A s \in Requests : Holds(s) => s = r
      BY <2>1
  <2>3. payout' = payout /\ pc' = [pc EXCEPT ![r] = "sent"]
      BY <1>3 DEF Transfer, StripeTransfers, StripeRefuses, LoseAnswer, StripeReturns, Goto
  <2>4. \/ transfers' = {}
        \/ transfers' = {Key(route[r])} /\ answer' = [answer EXCEPT ![r] = "made"]
      BY <1>3, <2>1 DEF Transfer, StripeTransfers, StripeRefuses, LoseAnswer, StripeReturns
  <2> QED
      BY <2>1, <2>2, <2>3, <2>4
<1>4. ASSUME NEW r \in Requests, Record(r) PROVE ClaimInv'
  <2>1. Holds(r) /\ pc' = [pc EXCEPT ![r] = "done"] /\ UNCHANGED <<transfers, answer>>
      BY <1>4 DEF Record, Settle, OverrideSettle, Goto
  <2>2. \A s \in Requests : ~Holds(s)'
      BY <2>1
  <2>3. transfers # {} => payout' \in Blocked
      BY <1>4, <2>1 DEF Record, Settle, OverrideSettle, Goto
  <2> QED
      BY <2>1, <2>2, <2>3
<1>5. ASSUME NEW r \in Requests, Crash(r) PROVE ClaimInv'
    BY <1>5 DEF Crash, Goto
<1>6. CASE Environment
    BY <1>6 DEF Environment, Hold, Resolve, TransferCreated, Capture, ChargeRefunded,
                DisputeCreated, DisputeClosed, Absent
<1>7. CASE UNCHANGED vars
    BY <1>7 DEF vars
<1> QED
    BY <1>1, <1>2, <1>3, <1>4, <1>5, <1>6, <1>7 DEF Next, Serve

\* The invariant the results below share.
LEMMA ClaimInvariance == Spec => [](TypeOK /\ CaptureInv /\ BackedInv /\ (~strayed => ClaimInv))
<1>1. Init => CaptureInv /\ BackedInv /\ (~strayed => ClaimInv)
    BY DEF Init, CaptureInv, BackedInv, ClaimInv, Holds, Absent
<1> QED
    BY <1>1, TypeCorrect, NextCaptureInv, NextBackedInv, NextClaimInv, PTL DEF Spec

\* Until an operator overrides the row or an answer of Stripe is lost, a booking is
\* paid out by at most one transfer, however many requests of the four endpoints
\* race, fail and crash.
THEOREM PaidOutOnce == Spec => []ClaimPaysOnce
<1>1. (~strayed => ClaimInv) => ClaimPaysOnce
    BY DEF ClaimInv, ClaimPaysOnce, AtMostOneTransfer
<1> QED
    BY <1>1, ClaimInvariance, PTL

\* Until then a row that says 'paid' says so forever: the revert of a failed
\* override never erases it.
THEOREM PaidStaysPaid == Spec => PaidIsFinal
<1>1. TypeOK /\ BackedInv /\ (~strayed => ClaimInv) /\ [Next]_vars =>
          [payout = "paid" /\ ~strayed' => payout' = "paid"]_vars
  <2> SUFFICES ASSUME TypeOK, BackedInv, ~strayed => ClaimInv, Next, payout = "paid", ~strayed'
               PROVE  payout' = "paid"
      BY DEF vars
  <2>0. ClaimInv
      BY StrayedStays
  <2> USE <2>0 DEF TypeOK, BackedInv, ClaimInv, Blocked, Holds
  <2>1. ASSUME NEW r \in Requests, Read(r) PROVE payout' = "paid"
      BY <2>1 DEF Read, ReleaseCheck, ReleaseLookup, BatchSelect, OverrideRead, Answer
  <2>2. ASSUME NEW r \in Requests, TryClaim(r) PROVE payout' = "paid"
      BY <2>2 DEF TryClaim, InsertClaim, UpdateClaim, BatchClaim, OverrideClaim,
                  Claim, Answer, Absent
  <2>3. ASSUME NEW r \in Requests, Transfer(r) PROVE payout' = "paid"
      BY <2>3 DEF Transfer, StripeTransfers, StripeRefuses, LoseAnswer, StripeReturns
  <2>4. ASSUME NEW r \in Requests, Record(r) PROVE payout' = "paid"
    <3>1. answer[r] = "made"
        BY <2>4 DEF Record, Settle, OverrideSettle
    <3> QED
        BY <2>4, <3>1 DEF Record, Settle, OverrideSettle
  <2>5. ASSUME NEW r \in Requests, Crash(r) PROVE payout' = "paid"
      BY <2>5 DEF Crash
  <2>6. CASE Environment
      BY <2>6 DEF Environment, Hold, Resolve, TransferCreated, Capture, ChargeRefunded,
                  DisputeCreated, DisputeClosed, Absent
  <2> QED
      BY <2>1, <2>2, <2>3, <2>4, <2>5, <2>6 DEF Next, Serve
<1> QED
    BY <1>1, ClaimInvariance, PTL DEF Spec, PaidIsFinal

-----------------------------------------------------------------------------
(* Refinement.                                                             *)

\* The endpoints implement PayoutPromise: each step is a charge, a payment that
\* may be made, an interference, or invisible.
THEOREM ImplementsPromise == Spec => KeepsPromise
<1>1. Init => Promise!Init
    BY DEF Init, Promise!Init
<1>2. TypeOK /\ CaptureInv /\ (~strayed => ClaimInv) /\ [Next]_vars
          => [Promise!Next]_(Promise!vars)
  <2> SUFFICES ASSUME TypeOK, CaptureInv, ~strayed => ClaimInv, [Next]_vars
               PROVE  [Promise!Next]_(Promise!vars)
      OBVIOUS
  <2> USE DEF TypeOK, Promise!vars
  <2>1. ASSUME NEW r \in Requests, Transfer(r) PROVE [Promise!Next]_(Promise!vars)
    <3>1. /\ payment' = payment /\ payment # "uncaptured"
          /\ transfers = {} \/ strayed
          /\ strayed' \in {strayed, TRUE}
        BY <2>1 DEF Transfer, StripeTransfers, StripeRefuses, LoseAnswer, StripeReturns,
                    CaptureInv, ClaimInv, Holds
    <3>2. \/ transfers' = transfers /\ strayed' = strayed
          \/ transfers' = transfers \union {Key(route[r])}
        BY <2>1 DEF Transfer, StripeTransfers, StripeRefuses, LoseAnswer, StripeReturns
    <3>3. Key(route[r]) \in Keys
        BY PayoutsAssumption DEF Keys
    <3> QED
        BY <3>1, <3>2, <3>3 DEF Promise!Next, Promise!Pay
  <2>2. ASSUME NEW r \in Requests, Read(r) \/ TryClaim(r) \/ Record(r) \/ Crash(r)
        PROVE  [Promise!Next]_(Promise!vars)
      BY <2>2 DEF Read, ReleaseCheck, ReleaseLookup, BatchSelect, OverrideRead, Answer,
                  TryClaim, InsertClaim, UpdateClaim, BatchClaim, OverrideClaim, Claim,
                  Record, Settle, OverrideSettle, Crash
  <2>3. CASE Environment
      BY <2>3 DEF Environment, Hold, Resolve, TransferCreated, Capture, ChargeRefunded,
                  DisputeCreated, DisputeClosed, Promise!Next, Promise!Charge, Promise!Stray
  <2>4. CASE UNCHANGED vars
      BY <2>4 DEF vars
  <2> QED
      BY <2>1, <2>2, <2>3, <2>4 DEF Next, Serve
<1> QED
    BY <1>1, <1>2, ClaimInvariance, PTL DEF Spec, KeepsPromise, Promise!Spec

-----------------------------------------------------------------------------
(* A claim that is being processed has somebody to settle it.              *)

\* ProcessingIsOwned: a row says 'processing' only while a request that claimed
\* it is at Stripe or about to write the outcome, unless an override has failed
\* and written back what it had read, or a Worker died.
ProcessingIsOwned ==
    payout = "processing" =>
        \/ \E r \in Requests : route[r] # "override" /\ Holds(r)
        \/ OverrideFailed
        \/ Crashed

\* Nobody has an answer before asking Stripe, so an answer is never replaced.
AnswerInv ==
    \A r \in Requests : pc[r] \in {"idle", "checked", "read", "claimed"} => answer[r] = "none"

\* The safety half of ClaimSettles, for every set of requests, endpoints,
\* overrides and faults: no step loses a claim without its holder.
THEOREM ProcessingHasAHolder == Spec => []ProcessingIsOwned
<1> DEFINE Inv == AnswerInv /\ ProcessingIsOwned
<1>1. Init => Inv
    BY DEF Init, AnswerInv, ProcessingIsOwned, Absent
<1>2. TypeOK /\ Inv /\ [Next]_vars => Inv'
  <2> SUFFICES ASSUME TypeOK, Inv, [Next]_vars PROVE Inv'
      OBVIOUS
  <2> USE DEF TypeOK, AnswerInv, ProcessingIsOwned, Holds, OverrideFailed, Crashed
  <2>1. ASSUME NEW r \in Requests, Read(r) PROVE Inv'
      BY <2>1 DEF Read, ReleaseCheck, ReleaseLookup, BatchSelect, OverrideRead, Goto, Answer
  <2>2. ASSUME NEW r \in Requests, TryClaim(r) PROVE Inv'
      BY <2>2 DEF TryClaim, InsertClaim, UpdateClaim, BatchClaim, OverrideClaim, Claim,
                  Goto, Answer
  <2>3. ASSUME NEW r \in Requests, Transfer(r) PROVE Inv'
    <3>1. PICK made \in BOOLEAN, result \in {"made", "error"} : StripeReturns(r, made, result)
        BY <2>3 DEF Transfer, StripeTransfers, StripeRefuses, LoseAnswer
    <3> QED
        BY <3>1 DEF StripeReturns, Goto
  <2>4. ASSUME NEW r \in Requests, Record(r) PROVE Inv'
      BY <2>4 DEF Record, Settle, OverrideSettle, Goto
  <2>5. ASSUME NEW r \in Requests, Crash(r) PROVE Inv'
      BY <2>5 DEF Crash, Goto
  <2>6. CASE Environment
      BY <2>6 DEF Environment, Hold, Resolve, TransferCreated, Capture, ChargeRefunded,
                  DisputeCreated, DisputeClosed, Absent
  <2>7. CASE UNCHANGED vars
      BY <2>7 DEF vars
  <2> QED
      BY <2>1, <2>2, <2>3, <2>4, <2>5, <2>6, <2>7 DEF Next, Serve
<1> QED
    BY <1>1, <1>2, TypeCorrect, PTL DEF Spec
=============================================================================
