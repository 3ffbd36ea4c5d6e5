-------------------------- MODULE FulfilmentProofs --------------------------
(***************************************************************************)
(* Proofs about Fulfilment, for any number of taps, captures and refunds   *)
(* and for every choice of faults.                                         *)
(***************************************************************************)
EXTENDS Fulfilment, TLAPS

\* The service took place before the charge.  The status that is written last
\* says little; what counts is who has read 'completed' and still acts on it.
ServiceInv ==
    /\ finished => arrived
    /\ day \in {"arrived", "in_progress", "awaiting_checkout", "completed"}
           => arrived
    /\ \A t \in Taps : pc[t] \in {"clean", "finish", "complete"} => arrived
    /\ \A f \in Refusals : pc[f] # "idle" => arrived
    /\ charge = "refusal" => arrived
    /\ "completed" \notin unfounded =>
          /\ status = "completed" => finished
          /\ \A p \in Processes : saw[p] = "completed" => finished
          /\ \A k \in Capturers : pc[k] # "idle" => finished
          /\ charge = "service" => finished

\* The payments row and the captures that work on it.
RowInv ==
    /\ OneCapture
    /\ RowIsBacked
    /\ \A k \in Capturers : pc[k] = "record" => charge = "service"
    /\ \A f \in Refusals : pc[f] = "excess" => intent = "succeeded"
    /\ event["refunded"] = "sent" => intent = "succeeded"

\* The money is not with the customer only because of one of these.
Settled == intent = "canceled" \/ refunded \/ "refund" \in failed

\* Who may have made the booking 'refunded' or cancelled it, and holds the claim
\* on it still: a request that read another status, and puts that one back if
\* its void fails.
RefundInv ==
    /\ \A r \in Refunders :
          pc[r] \in {"claimrefund", "refund"} => saw[r] # "refunded"
    /\ status = "refunded" /\ "refunded" \notin unfounded
          => \/ Settled
             \/ \E r \in Refunders :
                   \/ pc[r] = "refund"
                   \/ /\ pc[r] \in {"cancel", "revert"}
                      /\ saw[r] \notin CancellableFrom \union {"refunded"}
    /\ status = "cancelled_by_customer" /\ "cancelled_by_customer" \notin unfounded
          => \/ Settled
             \/ \E r \in Refunders :
                   pc[r] \in {"cancel", "revert"} /\ saw[r] \in CancellableFrom

-----------------------------------------------------------------------------
(* Type correctness.                                                       *)

\* The initial states are well typed.
LEMMA InitTypeOK == Init => TypeOK
<1> SUFFICES ASSUME Init PROVE TypeOK
    OBVIOUS
<1>1. pc \in [Processes -> {"idle", "walk"}]
    BY DEF Init
<1>2. pc \in [Processes -> Labels]
    BY <1>1 DEF Labels, TapLabels, CancelLabels
<1>3. \A r \in Refunders : pc[r] = "idle"
    BY FulfilmentAssumption DEF Init, Processes
<1>4. saw \in [Processes -> Statuses \union {"none"}]
    BY DEF Init
<1>5. /\ status \in Statuses /\ day \in DayStatuses
      /\ calls \in 0..MaxCalls
      /\ event \in [{"succeeded", "disputed", "refunded"} ->
                      {"unsent", "sent", "staffing", "handled"}]
    BY FulfilmentAssumption DEF Init, Statuses, DayStatuses
<1>6. /\ payment = "absent" /\ intent = "requires_capture" /\ charge = "none"
      /\ arrived = FALSE /\ finished = FALSE /\ package = FALSE /\ refunded = FALSE
      /\ unfounded = {} /\ failed = {}
    BY DEF Init
<1> QED
    BY <1>2, <1>3, <1>4, <1>5, <1>6 DEF TypeOK

\* Every step keeps the state well typed.
LEMMA NextTypeOK == TypeOK /\ [Next]_vars => TypeOK'
<1> SUFFICES ASSUME TypeOK, [Next]_vars PROVE TypeOK'
    OBVIOUS
<1> USE FulfilmentAssumption DEF TypeOK, service, stripe, money, bounds, Step, Read,
                                 Forget, Fail, Called, Processes, Labels
<1>1. ASSUME NEW t \in Taps, TapNext(t) PROVE TypeOK'
  <2> USE DEF Statuses, DayStatuses, TapLabels
  <2>1. CASE StartRoute(t)
      BY <2>1 DEF StartRoute
  <2>2. CASE RouteWrite(t)
      BY <2>2 DEF RouteWrite
  <2>3. CASE Arrive(t)
      BY <2>3 DEF Arrive
  <2>4. CASE StartClean(t)
      BY <2>4 DEF StartClean
  <2>5. CASE CleanWrite(t)
      BY <2>5 DEF CleanWrite
  <2>6. CASE FinishClean(t)
      BY <2>6 DEF FinishClean
  <2>7. CASE FinishWrite(t)
      BY <2>7 DEF FinishWrite
  <2>8. CASE Complete(t)
      BY <2>8 DEF Complete
  <2>9. CASE CompleteWrite(t)
    <3>1. pc' \in [Processes -> Labels]
        BY <2>9 DEF CompleteWrite
    <3>2. status' \in Statuses /\ day' \in DayStatuses /\ finished' \in BOOLEAN
        BY <2>9 DEF CompleteWrite
    <3> QED
        BY <2>9, <3>1, <3>2 DEF CompleteWrite
  <2>10. CASE CompletePack(t)
      BY <2>10 DEF CompletePack
  <2> QED
      BY <1>1, <2>1, <2>2, <2>3, <2>4, <2>5, <2>6, <2>7, <2>8, <2>9, <2>10 DEF TapNext
<1>2. ASSUME NEW k \in Capturers, Capture(k) PROVE TypeOK'
    BY <1>2 DEF Capture, CaptureSelect, CaptureRetrieve, CaptureClaim,
                CaptureSucceeds, CaptureFails, CaptureRecord, CaptureRelease,
                CaptureLabels
<1>3. ASSUME NEW r \in Refunders, RefundNext(r) PROVE TypeOK'
  <2> USE DEF Statuses, RefundLabels
  <2>1. CASE RefundRead(r)
      BY <2>1 DEF RefundRead
  <2>2. CASE RefundInspect(r)
      BY <2>2 DEF RefundInspect
  <2>3. CASE VoidClaim(r)
      BY <2>3 DEF VoidClaim, VoidTarget
  <2>4. CASE VoidSucceeds(r)
      BY <2>4 DEF VoidSucceeds
  <2>5. CASE VoidFails(r)
      BY <2>5 DEF VoidFails
  <2>6. CASE VoidRevert(r)
      BY <2>6 DEF VoidRevert, VoidTarget
  <2>7. CASE RefundClaim(r)
      BY <2>7 DEF RefundClaim
  <2>8. CASE RefundCall(r)
    <3>1. pc' \in [Processes -> Labels]
        BY <2>8 DEF RefundCall
    <3>2. refunded' \in BOOLEAN /\ failed' \subseteq Faults
        BY <2>8 DEF RefundCall
    <3>3. event' \in [{"succeeded", "disputed", "refunded"} ->
                        {"unsent", "sent", "staffing", "handled"}]
        BY <2>8 DEF RefundCall
    <3> QED
        BY <2>8, <3>1, <3>2, <3>3 DEF RefundCall
  <2> QED
      BY <1>3, <2>1, <2>2, <2>3, <2>4, <2>5, <2>6, <2>7, <2>8 DEF RefundNext
<1>4. CASE HookNext
    BY <1>4 DEF HookNext, HookSucceeded, HookOffer, HookDisputed, HookRefunded,
                Statuses
<1>5. ASSUME NEW f \in Refusals, RefusalNext(f) PROVE TypeOK'
  <2> USE DEF Statuses, Closing, RefusalLabels, CancelLabels
  <2>1. CASE RefusalAsk(f)
      BY <2>1 DEF RefusalAsk
  <2>2. CASE RefusalApprove(f)
      BY <2>2 DEF RefusalApprove
  <2>3. CASE RefusalRetrieve(f)
      BY <2>3 DEF RefusalRetrieve
  <2>4. CASE RefusalTake(f)
      BY <2>4 DEF RefusalTake
  <2>5. CASE RefusalExcess(f)
      BY <2>5 DEF RefusalExcess
  <2>6. CASE RefusalClose(f)
      BY <2>6 DEF RefusalClose
  <2> QED
      BY <1>5, <2>1, <2>2, <2>3, <2>4, <2>5, <2>6 DEF RefusalNext
<1>6. CASE OtherNext
  <2> USE DEF Statuses, Closing, RefusalLabels, CancelLabels
  <2>1. ASSUME NEW c \in Cancellers, CancelCheck(c) \/ CancelWrite(c) PROVE TypeOK'
    <3>1. CASE CancelCheck(c)
        BY <3>1 DEF CancelCheck
    <3>2. CASE CancelWrite(c)
        BY <3>2 DEF CancelWrite, Declare
    <3> QED
        BY <2>1, <3>1, <3>2
  <2>2. CASE DeleteAccount
      BY <2>2 DEF DeleteAccount, Declare
  <2>3. CASE PatchJob
    <3>1. PICK s \in Statuses : Declare(s)
        BY <2>3 DEF PatchJob
    <3> QED
        BY <2>3, <3>1 DEF PatchJob, Declare
  <2>4. CASE Restaff
      BY <2>4 DEF Restaff, CancellableFrom
  <2> QED
      BY <1>6, <2>1, <2>2, <2>3, <2>4 DEF OtherNext
<1>7. CASE UNCHANGED vars
    BY <1>7 DEF vars
<1> QED
    BY <1>1, <1>2, <1>3, <1>4, <1>5, <1>6, <1>7 DEF Next

\* Every reachable state is well typed.
THEOREM TypeCorrect == Spec => []TypeOK
BY InitTypeOK, NextTypeOK, PTL DEF Spec

-----------------------------------------------------------------------------
(* No charge without a service.                                            *)

\* Every step keeps ServiceInv.
LEMMA NextServiceInv == TypeOK /\ ServiceInv /\ [Next]_vars => ServiceInv'
<1> SUFFICES ASSUME TypeOK, ServiceInv, [Next]_vars PROVE ServiceInv'
    OBVIOUS
<1> USE FulfilmentAssumption DEF TypeOK, ServiceInv, service, stripe, money, bounds,
                                 Step, Read, Forget, Called, Processes
<1>1. ASSUME NEW t \in Taps, TapNext(t) PROVE ServiceInv'
  <2>1. CASE StartRoute(t)
      BY <2>1 DEF StartRoute
  <2>2. CASE RouteWrite(t)
      BY <2>2 DEF RouteWrite
  <2>3. CASE Arrive(t)
      BY <2>3 DEF Arrive
  <2>4. CASE StartClean(t)
      BY <2>4 DEF StartClean
  <2>5. CASE CleanWrite(t)
      BY <2>5 DEF CleanWrite
  <2>6. CASE FinishClean(t)
      BY <2>6 DEF FinishClean
  <2>7. CASE FinishWrite(t)
      BY <2>7 DEF FinishWrite
  <2>8. CASE Complete(t)
      BY <2>8 DEF Complete, CompletableFrom
  <2>9. CASE CompleteWrite(t)
      BY <2>9 DEF CompleteWrite
  <2>10. CASE CompletePack(t)
      BY <2>10 DEF CompletePack
  <2> QED
      BY <1>1, <2>1, <2>2, <2>3, <2>4, <2>5, <2>6, <2>7, <2>8, <2>9, <2>10 DEF TapNext
<1>2. ASSUME NEW k \in Capturers, Capture(k) PROVE ServiceInv'
  <2>1. CASE CaptureSelect(k)
      BY <2>1 DEF CaptureSelect
  <2>2. CASE CaptureRetrieve(k)
      BY <2>2 DEF CaptureRetrieve
  <2>3. CASE CaptureClaim(k)
      BY <2>3 DEF CaptureClaim
  <2>4. CASE CaptureSucceeds(k)
      BY <2>4 DEF CaptureSucceeds
  <2>5. CASE CaptureFails(k)
      BY <2>5 DEF CaptureFails
  <2>6. CASE CaptureRecord(k)
      BY <2>6 DEF CaptureRecord
  <2>7. CASE CaptureRelease(k)
      BY <2>7 DEF CaptureRelease
  <2> QED
      BY <1>2, <2>1, <2>2, <2>3, <2>4, <2>5, <2>6, <2>7 DEF Capture
<1>3. ASSUME NEW r \in Refunders, RefundNext(r) PROVE ServiceInv'
  <2>1. CASE RefundRead(r)
      BY <2>1 DEF RefundRead
  <2>2. CASE RefundInspect(r)
      BY <2>2 DEF RefundInspect
  <2>3. CASE VoidClaim(r)
      BY <2>3 DEF VoidClaim, VoidTarget
  <2>4. CASE VoidSucceeds(r)
      BY <2>4 DEF VoidSucceeds
  <2>5. CASE VoidFails(r)
      BY <2>5 DEF VoidFails
  <2>6. CASE VoidRevert(r)
      BY <2>6 DEF VoidRevert
  <2>7. CASE RefundClaim(r)
      BY <2>7 DEF RefundClaim
  <2>8. CASE RefundCall(r)
      BY <2>8 DEF RefundCall
  <2> QED
      BY <1>3, <2>1, <2>2, <2>3, <2>4, <2>5, <2>6, <2>7, <2>8 DEF RefundNext
<1>4. CASE HookNext
  <2>1. CASE HookSucceeded
      BY <2>1 DEF HookSucceeded
  <2>2. CASE HookOffer
      BY <2>2 DEF HookOffer
  <2>3. CASE HookDisputed
      BY <2>3 DEF HookDisputed
  <2>4. CASE HookRefunded
      BY <2>4 DEF HookRefunded
  <2> QED
      BY <1>4, <2>1, <2>2, <2>3, <2>4 DEF HookNext
<1>5. ASSUME NEW f \in Refusals, RefusalNext(f) PROVE ServiceInv'
  <2> USE DEF Closing
  <2>1. CASE RefusalAsk(f)
      BY <2>1 DEF RefusalAsk
  <2>2. CASE RefusalApprove(f)
      BY <2>2 DEF RefusalApprove
  <2>3. CASE RefusalRetrieve(f)
      BY <2>3 DEF RefusalRetrieve
  <2>4. CASE RefusalTake(f)
      BY <2>4 DEF RefusalTake
  <2>5. CASE RefusalExcess(f)
      BY <2>5 DEF RefusalExcess
  <2>6. CASE RefusalClose(f)
      BY <2>6 DEF RefusalClose
  <2> QED
      BY <1>5, <2>1, <2>2, <2>3, <2>4, <2>5, <2>6 DEF RefusalNext
<1>6. CASE OtherNext
  <2> USE DEF Closing
  <2>1. ASSUME NEW c \in Cancellers, CancelCheck(c) \/ CancelWrite(c) PROVE ServiceInv'
      BY <2>1 DEF CancelCheck, CancelWrite, Declare
  <2>2. CASE DeleteAccount
      BY <2>2 DEF DeleteAccount, Declare
  <2>3. CASE PatchJob
    <3>1. PICK s \in Statuses : Declare(s)
        BY <2>3 DEF PatchJob
    <3> QED
        BY <2>3, <3>1 DEF PatchJob, Declare
  <2>4. CASE Restaff
      BY <2>4 DEF Restaff, CancellableFrom
  <2> QED
      BY <1>6, <2>1, <2>2, <2>3, <2>4 DEF OtherNext
<1>7. CASE UNCHANGED vars
    BY <1>7 DEF vars
<1> QED
    BY <1>1, <1>2, <1>3, <1>4, <1>5, <1>6, <1>7 DEF Next

\* The card is charged only for a service that took place or for an approved
\* refusal, unless the operator called the booking completed.
THEOREM ServiceBeforeCharge == Spec => []ChargedAfterService
<1>1. Init => ServiceInv
    BY FulfilmentAssumption DEF Init, ServiceInv, Processes
<1>2. TypeOK /\ ServiceInv => ChargedAfterService
    BY DEF TypeOK, ServiceInv, ChargedAfterService
<1> QED
    BY <1>1, <1>2, TypeCorrect, NextServiceInv, PTL DEF Spec

-----------------------------------------------------------------------------
(* The payments row.                                                       *)

\* Every step keeps RowInv.
LEMMA NextRowInv == TypeOK /\ RowInv /\ [Next]_vars => RowInv'
<1> SUFFICES ASSUME TypeOK, RowInv, [Next]_vars PROVE RowInv'
    OBVIOUS
<1> USE FulfilmentAssumption DEF TypeOK, RowInv, OneCapture, Capturing, RowIsBacked,
                                 service, stripe, money, bounds, Step, Read,
                                 Forget, Called, Processes
<1>1. ASSUME NEW t \in Taps, TapNext(t) PROVE RowInv'
  <2>1. CASE StartRoute(t)
      BY <2>1 DEF StartRoute
  <2>2. CASE RouteWrite(t)
      BY <2>2 DEF RouteWrite
  <2>3. CASE Arrive(t)
      BY <2>3 DEF Arrive
  <2>4. CASE StartClean(t)
      BY <2>4 DEF StartClean
  <2>5. CASE CleanWrite(t)
      BY <2>5 DEF CleanWrite
  <2>6. CASE FinishClean(t)
      BY <2>6 DEF FinishClean
  <2>7. CASE FinishWrite(t)
      BY <2>7 DEF FinishWrite
  <2>8. CASE Complete(t)
      BY <2>8 DEF Complete
  <2>9. CASE CompleteWrite(t)
      BY <2>9 DEF CompleteWrite
  <2>10. CASE CompletePack(t)
      BY <2>10 DEF CompletePack
  <2> QED
      BY <1>1, <2>1, <2>2, <2>3, <2>4, <2>5, <2>6, <2>7, <2>8, <2>9, <2>10 DEF TapNext
<1>2. ASSUME NEW k \in Capturers, Capture(k) PROVE RowInv'
  <2>1. CASE CaptureSelect(k)
      BY <2>1 DEF CaptureSelect
  <2>2. CASE CaptureRetrieve(k)
      BY <2>2 DEF CaptureRetrieve
  <2>3. CASE CaptureClaim(k)
      BY <2>3 DEF CaptureClaim
  <2>4. CASE CaptureSucceeds(k)
      BY <2>4 DEF CaptureSucceeds
  <2>5. CASE CaptureFails(k)
      BY <2>5 DEF CaptureFails
  <2>6. CASE CaptureRecord(k)
      BY <2>6 DEF CaptureRecord
  <2>7. CASE CaptureRelease(k)
      BY <2>7 DEF CaptureRelease
  <2> QED
      BY <1>2, <2>1, <2>2, <2>3, <2>4, <2>5, <2>6, <2>7 DEF Capture
<1>3. ASSUME NEW r \in Refunders, RefundNext(r) PROVE RowInv'
  <2>1. CASE RefundRead(r)
      BY <2>1 DEF RefundRead
  <2>2. CASE RefundInspect(r)
      BY <2>2 DEF RefundInspect
  <2>3. CASE VoidClaim(r)
      BY <2>3 DEF VoidClaim
  <2>4. CASE VoidSucceeds(r)
      BY <2>4 DEF VoidSucceeds
  <2>5. CASE VoidFails(r)
      BY <2>5 DEF VoidFails
  <2>6. CASE VoidRevert(r)
      BY <2>6 DEF VoidRevert
  <2>7. CASE RefundClaim(r)
      BY <2>7 DEF RefundClaim
  <2>8. CASE RefundCall(r)
      BY <2>8 DEF RefundCall
  <2> QED
      BY <1>3, <2>1, <2>2, <2>3, <2>4, <2>5, <2>6, <2>7, <2>8 DEF RefundNext
<1>4. CASE HookNext
  <2>1. CASE HookSucceeded
      BY <2>1 DEF HookSucceeded
  <2>2. CASE HookOffer
      BY <2>2 DEF HookOffer
  <2>3. CASE HookDisputed
      BY <2>3 DEF HookDisputed
  <2>4. CASE HookRefunded
      BY <2>4 DEF HookRefunded
  <2> QED
      BY <1>4, <2>1, <2>2, <2>3, <2>4 DEF HookNext
<1>5. ASSUME NEW f \in Refusals, RefusalNext(f) PROVE RowInv'
  <2>1. CASE RefusalAsk(f)
      BY <2>1 DEF RefusalAsk
  <2>2. CASE RefusalApprove(f)
      BY <2>2 DEF RefusalApprove
  <2>3. CASE RefusalRetrieve(f)
      BY <2>3 DEF RefusalRetrieve
  <2>4. CASE RefusalTake(f)
      BY <2>4 DEF RefusalTake
  <2>5. CASE RefusalExcess(f)
      BY <2>5 DEF RefusalExcess
  <2>6. CASE RefusalClose(f)
      BY <2>6 DEF RefusalClose
  <2> QED
      BY <1>5, <2>1, <2>2, <2>3, <2>4, <2>5, <2>6 DEF RefusalNext
<1>6. CASE OtherNext
  <2>1. ASSUME NEW c \in Cancellers, CancelCheck(c) \/ CancelWrite(c) PROVE RowInv'
      BY <2>1 DEF CancelCheck, CancelWrite, Declare
  <2>2. CASE DeleteAccount
      BY <2>2 DEF DeleteAccount, Declare
  <2>3. CASE PatchJob
    <3>1. PICK s \in Statuses : Declare(s)
        BY <2>3 DEF PatchJob
    <3> QED
        BY <2>3, <3>1 DEF PatchJob, Declare
  <2>4. CASE Restaff
      BY <2>4 DEF Restaff, CancellableFrom
  <2> QED
      BY <1>6, <2>1, <2>2, <2>3, <2>4 DEF OtherNext
<1>7. CASE UNCHANGED vars
    BY <1>7 DEF vars
<1> QED
    BY <1>1, <1>2, <1>3, <1>4, <1>5, <1>6, <1>7 DEF Next

\* Of the captures that claim the payments row only one is under way, and the row
\* is its claim; a refusal captures without it.
THEOREM ClaimsAreExclusive == Spec => []OneCapture
<1>1. Init => RowInv
    BY DEF Init, RowInv, OneCapture, Capturing, RowIsBacked, Processes
<1>2. RowInv => OneCapture
    BY DEF RowInv
<1> QED
    BY <1>1, <1>2, TypeCorrect, NextRowInv, PTL DEF Spec

\* A captured row stands for the charge of a completed service, never for a
\* refusal's fee, and a refunded row for some charge that was made.
THEOREM RowsAreBacked == Spec => []RowIsBacked
<1>1. Init => RowInv
    BY DEF Init, RowInv, OneCapture, Capturing, RowIsBacked, Processes
<1>2. RowInv => RowIsBacked
    BY DEF RowInv
<1> QED
    BY <1>1, <1>2, TypeCorrect, NextRowInv, PTL DEF Spec

-----------------------------------------------------------------------------
(* The charge.                                                             *)

\* Who puts a row under a charge may also take it away again: a capture that
\* fails holds the only claim, so nobody else is about to record.
LEMMA NextChargeIsRecorded ==
    TypeOK /\ RowInv /\ ChargeIsRecorded /\ [Next]_vars => ChargeIsRecorded'
<1> SUFFICES ASSUME TypeOK, RowInv, ChargeIsRecorded, [Next]_vars
             PROVE  ChargeIsRecorded'
    OBVIOUS
<1> USE FulfilmentAssumption DEF TypeOK, ChargeIsRecorded, service, stripe, money,
                                 bounds, Step, Read, Forget, Fail, Called, Processes
<1>1. ASSUME NEW t \in Taps, TapNext(t) PROVE ChargeIsRecorded'
  <2>1. UNCHANGED <<money, failed>>
      BY <1>1 DEF TapNext, StartRoute, RouteWrite, Arrive, StartClean, CleanWrite,
                  FinishClean, FinishWrite, Complete, CompleteWrite, CompletePack
  <2>2. \A k \in Capturers : pc'[k] = pc[k]
      BY <1>1 DEF TapNext, StartRoute, RouteWrite, Arrive, StartClean, CleanWrite,
                  FinishClean, FinishWrite, Complete, CompleteWrite, CompletePack
  <2> QED
      BY <2>1, <2>2
<1>2. ASSUME NEW k \in Capturers, Capture(k) PROVE ChargeIsRecorded'
  <2> USE DEF RowInv, OneCapture, Capturing
  <2>1. CASE CaptureSelect(k) \/ CaptureRetrieve(k)
      BY <2>1 DEF CaptureSelect, CaptureRetrieve
  <2>2. CASE CaptureClaim(k)
      BY <2>2 DEF CaptureClaim
  <2>3. CASE CaptureSucceeds(k)
      BY <2>3 DEF CaptureSucceeds
  <2>4. CASE CaptureFails(k)
      BY <2>4 DEF CaptureFails
  <2>5. CASE CaptureRecord(k)
      BY <2>5 DEF CaptureRecord
  <2>6. CASE CaptureRelease(k)
      BY <2>6 DEF CaptureRelease
  <2> QED
      BY <1>2, <2>1, <2>2, <2>3, <2>4, <2>5, <2>6 DEF Capture
<1>3. ASSUME NEW r \in Refunders, RefundNext(r) PROVE ChargeIsRecorded'
  <2>1. payment' = payment /\ failed \subseteq failed'
      BY <1>3 DEF RefundNext, RefundRead, RefundInspect, VoidClaim, VoidSucceeds,
                  VoidFails, VoidRevert, RefundClaim, RefundCall
  <2>2. charge' = charge
      BY <1>3 DEF RefundNext, RefundRead, RefundInspect, VoidClaim, VoidSucceeds,
                  VoidFails, VoidRevert, RefundClaim, RefundCall
  <2>3. \A k \in Capturers : pc'[k] = pc[k]
      BY <1>3 DEF RefundNext, RefundRead, RefundInspect, VoidClaim, VoidSucceeds,
                  VoidFails, VoidRevert, RefundClaim, RefundCall
  <2> QED
      BY <2>1, <2>2, <2>3
<1>4. CASE HookNext
    BY <1>4 DEF HookNext, HookSucceeded, HookOffer, HookDisputed, HookRefunded,
                RowInv, OneCapture, Capturing
<1>5. ASSUME NEW f \in Refusals, RefusalNext(f) PROVE ChargeIsRecorded'
  <2>1. CASE RefusalAsk(f)
      BY <2>1 DEF RefusalAsk
  <2>2. CASE RefusalApprove(f)
      BY <2>2 DEF RefusalApprove
  <2>3. CASE RefusalRetrieve(f)
      BY <2>3 DEF RefusalRetrieve
  <2>4. CASE RefusalTake(f)
      BY <2>4 DEF RefusalTake
  <2>5. CASE RefusalExcess(f)
      BY <2>5 DEF RefusalExcess
  <2>6. CASE RefusalClose(f)
      BY <2>6 DEF RefusalClose
  <2> QED
      BY <1>5, <2>1, <2>2, <2>3, <2>4, <2>5, <2>6 DEF RefusalNext
<1>6. CASE OtherNext
  <2>1. ASSUME NEW c \in Cancellers, CancelCheck(c) \/ CancelWrite(c) PROVE ChargeIsRecorded'
      BY <2>1 DEF CancelCheck, CancelWrite, Declare
  <2>2. CASE DeleteAccount
      BY <2>2 DEF DeleteAccount, Declare
  <2>3. CASE PatchJob
    <3>1. PICK s \in Statuses : Declare(s)
        BY <2>3 DEF PatchJob
    <3> QED
        BY <2>3, <3>1 DEF PatchJob, Declare
  <2>4. CASE Restaff
      BY <2>4 DEF Restaff, CancellableFrom
  <2> QED
      BY <1>6, <2>1, <2>2, <2>3, <2>4 DEF OtherNext
<1>7. CASE UNCHANGED vars
    BY <1>7 DEF vars
<1> QED
    BY <1>1, <1>2, <1>3, <1>4, <1>5, <1>6, <1>7 DEF Next

\* No charge of a completed service is lost to the payments table, unless Stripe's
\* answer was.
THEOREM ChargesAreRecorded == Spec => []ChargeIsRecorded
<1>1. Init => RowInv /\ ChargeIsRecorded
    BY DEF Init, RowInv, OneCapture, Capturing, RowIsBacked, Processes, ChargeIsRecorded
<1> QED
    BY <1>1, TypeCorrect, NextRowInv, NextChargeIsRecorded, PTL DEF Spec

-----------------------------------------------------------------------------
(* Refunds.                                                                *)

\* Every step keeps RefundInv.
LEMMA NextRefundInv == TypeOK /\ RefundInv /\ [Next]_vars => RefundInv'
<1> SUFFICES ASSUME TypeOK, RefundInv, [Next]_vars PROVE RefundInv'
    OBVIOUS
<1> USE FulfilmentAssumption DEF TypeOK, RefundInv, Settled, service, stripe, money,
                                 bounds, Step, Read, Forget, Called, CancellableFrom,
                                 Processes
<1>1. ASSUME NEW t \in Taps, TapNext(t) PROVE RefundInv'
  <2>1. CASE StartRoute(t)
      BY <2>1 DEF StartRoute
  <2>2. CASE RouteWrite(t)
      BY <2>2 DEF RouteWrite
  <2>3. CASE Arrive(t)
      BY <2>3 DEF Arrive
  <2>4. CASE StartClean(t)
      BY <2>4 DEF StartClean
  <2>5. CASE CleanWrite(t)
      BY <2>5 DEF CleanWrite
  <2>6. CASE FinishClean(t)
      BY <2>6 DEF FinishClean
  <2>7. CASE FinishWrite(t)
      BY <2>7 DEF FinishWrite
  <2>8. CASE Complete(t)
      BY <2>8 DEF Complete
  <2>9. CASE CompleteWrite(t)
      BY <2>9 DEF CompleteWrite
  <2>10. CASE CompletePack(t)
      BY <2>10 DEF CompletePack
  <2> QED
      BY <1>1, <2>1, <2>2, <2>3, <2>4, <2>5, <2>6, <2>7, <2>8, <2>9, <2>10 DEF TapNext
<1>2. ASSUME NEW k \in Capturers, Capture(k) PROVE RefundInv'
  <2>1. CASE CaptureSelect(k)
      BY <2>1 DEF CaptureSelect
  <2>2. CASE CaptureRetrieve(k)
      BY <2>2 DEF CaptureRetrieve
  <2>3. CASE CaptureClaim(k)
      BY <2>3 DEF CaptureClaim
  <2>4. CASE CaptureSucceeds(k)
      BY <2>4 DEF CaptureSucceeds, Fail
  <2>5. CASE CaptureFails(k)
      BY <2>5 DEF CaptureFails, Fail
  <2>6. CASE CaptureRecord(k)
      BY <2>6 DEF CaptureRecord
  <2>7. CASE CaptureRelease(k)
      BY <2>7 DEF CaptureRelease
  <2> QED
      BY <1>2, <2>1, <2>2, <2>3, <2>4, <2>5, <2>6, <2>7 DEF Capture
<1>3. ASSUME NEW r \in Refunders, RefundNext(r) PROVE RefundInv'
  <2>1. CASE RefundRead(r)
      BY <2>1 DEF RefundRead
  <2>2. CASE RefundInspect(r)
      BY <2>2 DEF RefundInspect, RefundableFrom
  <2>3. CASE VoidClaim(r)
      BY <2>3 DEF VoidClaim, VoidTarget
  <2>4. CASE VoidSucceeds(r)
      BY <2>4 DEF VoidSucceeds
  <2>5. CASE VoidFails(r)
      BY <2>5 DEF VoidFails, Fail
  <2>6. CASE VoidRevert(r)
      BY <2>6 DEF VoidRevert, VoidTarget
  <2>7. CASE RefundClaim(r)
      BY <2>7 DEF RefundClaim
  <2>8. CASE RefundCall(r)
      BY <2>8 DEF RefundCall, Fail
  <2> QED
      BY <1>3, <2>1, <2>2, <2>3, <2>4, <2>5, <2>6, <2>7, <2>8 DEF RefundNext
<1>4. CASE HookNext
  <2>1. CASE HookSucceeded
      BY <2>1 DEF HookSucceeded
  <2>2. CASE HookOffer
      BY <2>2 DEF HookOffer
  <2>3. CASE HookDisputed
      BY <2>3 DEF HookDisputed
  <2>4. CASE HookRefunded
      BY <2>4 DEF HookRefunded
  <2> QED
      BY <1>4, <2>1, <2>2, <2>3, <2>4 DEF HookNext
<1>5. ASSUME NEW f \in Refusals, RefusalNext(f) PROVE RefundInv'
  <2> USE DEF Closing
  <2>1. CASE RefusalAsk(f)
      BY <2>1 DEF RefusalAsk
  <2>2. CASE RefusalApprove(f)
      BY <2>2 DEF RefusalApprove
  <2>3. CASE RefusalRetrieve(f)
      BY <2>3 DEF RefusalRetrieve
  <2>4. CASE RefusalTake(f)
      BY <2>4 DEF RefusalTake, Fail
  <2>5. CASE RefusalExcess(f)
      BY <2>5 DEF RefusalExcess, Fail
  <2>6. CASE RefusalClose(f)
      BY <2>6 DEF RefusalClose
  <2> QED
      BY <1>5, <2>1, <2>2, <2>3, <2>4, <2>5, <2>6 DEF RefusalNext
<1>6. CASE OtherNext
  <2> USE DEF Closing
  <2>1. ASSUME NEW c \in Cancellers, CancelCheck(c) \/ CancelWrite(c) PROVE RefundInv'
      BY <2>1 DEF CancelCheck, CancelWrite, Declare
  <2>2. CASE DeleteAccount
      BY <2>2 DEF DeleteAccount, Declare
  <2>3. CASE PatchJob
    <3>1. PICK s \in Statuses : Declare(s)
        BY <2>3 DEF PatchJob
    <3> QED
        BY <2>3, <3>1 DEF PatchJob, Declare
  <2>4. CASE Restaff
      BY <2>4 DEF Restaff, CancellableFrom
  <2> QED
      BY <1>6, <2>1, <2>2, <2>3, <2>4 DEF OtherNext
<1>7. CASE UNCHANGED vars
    BY <1>7 DEF vars
<1> QED
    BY <1>1, <1>2, <1>3, <1>4, <1>5, <1>6, <1>7 DEF Next

\* A booking without a claim that says 'refunded' or 'cancelled_by_customer' has
\* given the money back, unless the refund call failed or somebody wrote the
\* status who voids nothing.
THEOREM RefundsReachStripe == Spec => []RefundedIsRefunded
<1>1. Init => RefundInv
    BY DEF Init, RefundInv, CancellableFrom, Processes
<1>2. RefundInv => RefundedIsRefunded
    BY DEF RefundInv, Settled, RefundedIsRefunded
<1> QED
    BY <1>1, <1>2, TypeCorrect, NextRefundInv, PTL DEF Spec

=============================================================================
