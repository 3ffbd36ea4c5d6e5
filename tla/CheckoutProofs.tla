--------------------------- MODULE CheckoutProofs ---------------------------
(***************************************************************************)
(* Proofs about Checkout, for any number of requests, claims and prices,   *)
(* and any combination of failures.                                        *)
(***************************************************************************)
EXTENDS Checkout, FiniteSums, TLAPS

USE DEF account

CallStates == [op : Events \union {"none"}, pc : Labels, prev : Nat, adj : Int,
               pid : Intents \union {NoIntent, Creating}]
ReqStates  == [pc : ReqLabels, seen : Nat, got : Intents \union {NoIntent, Creating}]

\* A total that is about to be written, or was, is one.
TypeInv ==
    /\ TypeOK
    /\ \A c \in Calls : call[c].pc \in {"write", "sync"} => call[c].prev + call[c].adj \in Nat

\* Unless a claim was taken over or an intent replaced, there is one creator at a
\* time, and every intent that was handed out or authorized is the booking's.
OneClaimInv ==
    "claim" \notin raced =>
        /\ \A r \in Creators : onBooking = Creating
        /\ \A r, s \in Creators : r = s
        /\ \A r \in Requests : req[r].got \in Intents => onBooking = req[r].got
        /\ \A i \in Intents : intent[i].status = "authorized" => onBooking = i

\* Which stages a request goes through.
StagesInv ==
    \A c \in Calls :
        /\ call[c].op = "none" <=> call[c].pc = "idle"
        /\ call[c].op \in Claims => call[c].pc # "overwrite"
        /\ call[c].pc = "note" => call[c].op \in {"coupon", "member"}
        /\ call[c].pc = "overwrite" => call[c].op = "refresh"

Claiming(c) == call[c].op \in Claims /\ call[c].pc # "done"

\* A request that holds a claim holds it alone, and knows whether the ledger has
\* been written to.
HoldsInv ==
    /\ \A c, d \in Calls : Claiming(c) /\ Claiming(d) /\ call[c].op = call[d].op => c = d
    /\ \A c \in Calls : Claiming(c) =>
          /\ call[c].op \in held
          /\ call[c].pc \in {"read", "write", "sync", "record"} =>
                call[c].adj = Amount[call[c].op] /\ ledger[call[c].op] = 0
          /\ call[c].pc = "note" => ledger[call[c].op] = Amount[call[c].op]
          /\ call[c].pc = "undo" =>
                \/ ledger[call[c].op] = 0
                \/ call[c].op \in {"coupon", "member"} /\ "note" \in failed

\* A claim given up after its row was written is one of those whose use could not
\* be noted, and they are made only once.
ChargedInv ==
    \A o \in Claims :
        /\ ledger[o] \in {0, Amount[o]}
        /\ ledger[o] # 0 /\ o \notin held =>
              o \in {"coupon", "member"} /\ "note" \in failed /\ Begun(o)
        /\ o \in held \intersect Undoable /\ ~Busy(o) => ledger[o] = Amount[o]

ClaimedInv == StagesInv /\ HoldsInv /\ ChargedInv

Delaying(c) == call[c].op = "delay" /\ call[c].pc # "done"

Unrecorded(c) == call[c].op = "delay" /\ call[c].pc \in {"sync", "record"}

\* Unless two requests to set it overlap, a row of theirs is lost or the sum is not
\* read, the ledger has the fee of a bracket, the request to set it makes it so
\* again, and the total carries what the ledger has or is about to have.
BracketInv ==
    "fee" \notin raced /\ "sum" \notin failed =>
        /\ ledger["delay"] \in Brackets \union {0}
        /\ \A c, d \in Calls : Delaying(c) /\ Delaying(d) => c = d
        /\ \A c \in Calls : Delaying(c) /\ call[c].pc \in {"read", "write", "sync", "record"} =>
              ledger["delay"] + call[c].adj \in Brackets
        /\ \A c \in Calls : Unrecorded(c) => delayFee = ledger["delay"] + call[c].adj
        /\ (\A c \in Calls : ~Unrecorded(c)) => delayFee = ledger["delay"]

Asks(i, t) ==
    \/ intent[i].status = "editable" /\ intent[i].amount = t
    \/ intent[i].status = "authorized" /\ intent[i].amount >= t
    \/ intent[i].status = "canceled"

\* An intent that anybody has heard of is one whose request is over; until then
\* nobody touches it.
HeardInv ==
    /\ onBooking \in Intents => req[onBooking].pc = "done"
    /\ \A r \in Requests : req[r].got \in Intents => req[req[r].got].pc = "done"
    /\ \A c \in Calls : call[c].pid \in Intents => req[call[c].pid].pc = "done"
    /\ \A r \in Requests : req[r].pc = "land" => intent[r].status = "editable"

\* One request at a time is between its write and its sync; the intent of the booking
\* asks for the total before that write if it is the intent to be told, and for the
\* total otherwise.
AmountInv ==
    "amount" \notin raced =>
        /\ \A c, d \in Calls : At(c, "sync") /\ At(d, "sync") => c = d
        /\ "sync" \notin failed /\ onBooking \in Intents =>
              /\ (\A c \in Calls : At(c, "sync") => call[c].pid # onBooking)
                   => Asks(onBooking, total)
              /\ \A c \in Calls : At(c, "sync") /\ call[c].pid = onBooking =>
                   total = NewTotal(c) /\ Asks(onBooking, call[c].prev)

-----------------------------------------------------------------------------
(* Type correctness.                                                       *)

\* A call that enters a stage.
LEMMA StageType ==
    ASSUME NEW o \in Events \union {"none"}, NEW label \in Labels, NEW adj \in Int
    PROVE  Stage(o, label, adj) \in CallStates
BY DEF Stage, CallStates

\* What is left of a request.
LEMMA RequestType ==
    ASSUME NEW label \in ReqLabels, NEW seen \in Nat,
           NEW got \in Intents \union {NoIntent, Creating}
    PROVE  Request(label, seen, got) \in ReqStates
BY DEF Request, ReqStates

\* One call enters a stage in which no total is about to be written.
LEMMA EnterType ==
    ASSUME TypeInv, NEW c \in Calls, NEW o \in Events \union {"none"},
           NEW label \in Labels, NEW adj \in Int,
           label \notin {"write", "sync"},
           Enter(c, Stage(o, label, adj))
    PROVE  /\ call' \in [Calls -> CallStates]
           /\ \A d \in Calls : call'[d].pc \in {"write", "sync"}
                                  => call'[d].prev + call'[d].adj \in Nat
<1>1. call \in [Calls -> CallStates]
    BY DEF TypeInv, TypeOK, CallStates
<1>2. Stage(o, label, adj) \in CallStates /\ Stage(o, label, adj).pc = label
    BY StageType DEF Stage
<1> QED
    BY <1>1, <1>2 DEF TypeInv, Enter

\* The initial states are well typed.
LEMMA InitType == Init => TypeInv
<1> SUFFICES ASSUME Init PROVE TypeInv
    OBVIOUS
<1>1. NoCall \in CallStates /\ NoCall.pc = "idle"
    BY StageType DEF NoCall, Stage, Labels
<1>2. call \in [Calls -> CallStates] /\ \A c \in Calls : call[c].pc = "idle"
    BY <1>1 DEF Init, PriceInit
<1>3. req \in [Requests -> ReqStates]
    BY RequestType DEF Init, ReqLabels
<1> QED
    BY <1>2, <1>3, PriceAssumption
       DEF Init, PriceInit, TypeInv, TypeOK, CallStates, ReqStates, IntentStatuses, Ages
\* What a step may leave behind of what the requests that change the price share.
SharedType ==
    /\ total \in Nat
    /\ ledger \in [Events -> Int]
    /\ held \subseteq Claims
    /\ onBooking \in Intents \union {NoIntent, Creating}
    /\ intent \in [Intents -> [status : IntentStatuses, amount : Nat]]
    /\ failed \subseteq AllFaults
    /\ unrecorded \in Int
    /\ delayFee \in Int
    /\ raced \subseteq Races

CallsType ==
    /\ call \in [Calls -> CallStates]
    /\ \A d \in Calls : call[d].pc \in {"write", "sync"} => call[d].prev + call[d].adj \in Nat

\* A failure and a race are among those that are known.
LEMMA HistoryType ==
    ASSUME TypeOK
    PROVE  /\ \A f : Fail(f) => failed' \subseteq AllFaults
           /\ \A race \in Races : \A b : Note(race, b) => raced' \subseteq Races
BY PriceAssumption DEF TypeOK, Fail, May, Note

\* A request to set the delay fee charges the difference to a sum that it has read,
\* or to 0.
LEMMA DelayFacts ==
    ASSUME TypeInv, NEW c \in Calls, Delay(c)
    PROVE  /\ failed \subseteq failed' /\ failed' \subseteq AllFaults
           /\ \E fee \in Brackets, charged \in Nat :
                 /\ Enter(c, Stage("delay", IF fee = charged THEN "done" ELSE "read",
                                   fee - charged))
                 /\ charged = DelayCharged \/ "sum" \in failed'
<1>1. ledger["delay"] \in Int
    BY DEF TypeInv, TypeOK, Events
<1>2. DelayCharged \in Nat
    BY <1>1 DEF DelayCharged
<1>3. PICK fee \in Brackets, charged \in {DelayCharged, 0} :
         /\ \/ charged = DelayCharged /\ UNCHANGED failed
            \/ charged = 0 /\ Fail("sum")
         /\ Enter(c, IF fee = charged THEN Over("delay")
                                      ELSE Stage("delay", "read", fee - charged))
    BY DEF Delay
<1>4. charged \in Nat /\ fee \in Nat
    BY <1>2, <1>3, PriceAssumption
<1>5. fee = charged => fee - charged = 0
    BY <1>4
<1>6. Enter(c, Stage("delay", IF fee = charged THEN "done" ELSE "read", fee - charged))
    BY <1>3, <1>5 DEF Over
<1>7. charged = DelayCharged \/ "sum" \in failed'
    BY <1>3 DEF Fail
<1>8. failed \subseteq failed' /\ failed' \subseteq AllFaults
    BY <1>3, HistoryType DEF Fail, TypeInv, TypeOK
<1> QED
    BY <1>4, <1>6, <1>7, <1>8

\* A request that claims, or has nothing to claim.
LEMMA ClaimsType ==
    ASSUME TypeInv, NEW c \in Calls, UNCHANGED requestVars,
           \/ \E o \in Claims : Claim(c, o) \/ NoClaim(c, o)
           \/ ApproveInvalid(c)
           \/ Delay(c)
    PROVE  SharedType' /\ CallsType'
<1>1. /\ SharedType /\ Claims \subseteq Events /\ "delay" \in Events /\ "aaf" \in Claims
      /\ "read" \in Labels /\ "done" \in Labels /\ "fee" \in Races
    BY DEF TypeInv, TypeOK, SharedType, Events, Claims, Labels, Races
<1>2. \A o \in Claims : Amount[o] \in Int
    BY PriceAssumption
<1>3. ASSUME NEW o \in Claims, Claim(c, o) PROVE SharedType' /\ CallsType'
  <2>1. CallsType'
      BY <1>1, <1>2, <1>3, EnterType DEF Claim, CallsType
  <2> QED
      BY <1>1, <1>3, <2>1 DEF Claim, SharedType
<1>4. ASSUME NEW o \in Claims, NoClaim(c, o) PROVE SharedType' /\ CallsType'
  <2>1. CallsType'
      BY <1>1, <1>4, EnterType DEF NoClaim, CallsType, Over
  <2> QED
      BY <1>1, <1>4, <2>1 DEF NoClaim, SharedType
<1>5. CASE ApproveInvalid(c)
  <2>1. CallsType'
      BY <1>1, <1>5, EnterType DEF ApproveInvalid, CallsType, Over
  <2> QED
      BY <1>1, <1>5, <2>1 DEF ApproveInvalid, SharedType
<1>6. CASE Delay(c)
  <2>1. PICK fee \in Brackets, charged \in Nat :
           Enter(c, Stage("delay", IF fee = charged THEN "done" ELSE "read", fee - charged))
      BY <1>6, DelayFacts
  <2>2. fee - charged \in Int
      BY PriceAssumption
  <2>3. CallsType'
      BY <1>1, <2>1, <2>2, EnterType DEF CallsType
  <2>4. raced' \subseteq Races
      BY <1>1, <1>6, HistoryType DEF Delay, TypeInv
  <2>5. failed' \subseteq AllFaults
      BY <1>6, DelayFacts
  <2> QED
      BY <1>1, <1>6, <2>3, <2>4, <2>5 DEF Delay, SharedType
<1> QED
    BY <1>3, <1>4, <1>5, <1>6

\* The stages of a request after its claim.
LEMMA OwnStagesType ==
    ASSUME TypeInv, NEW c \in Calls
    PROVE  /\ Enter(c, Stage(call[c].op, "read", call[c].adj)) => CallsType'
           /\ Enter(c, Stage(call[c].op, "record", call[c].adj)) => CallsType'
           /\ Enter(c, Stage(call[c].op, "note", 0)) => CallsType'
           /\ Throw(c) => CallsType'
           /\ Finish(c) => CallsType'
<1>1. call[c].op \in Events \union {"none"} /\ call[c].adj \in Int
    BY DEF TypeInv, TypeOK
<1>2. ASSUME NEW label \in Labels, label \notin {"write", "sync"}, NEW adj \in Int,
             Enter(c, Stage(call[c].op, label, adj))
      PROVE  CallsType'
    BY <1>1, <1>2, EnterType DEF CallsType
<1> QED
    BY <1>1, <1>2 DEF Throw, Finish, Over, Labels

\* A request that adjusts the total.
LEMMA AdjustType ==
    ASSUME TypeInv, NEW c \in Calls, Adjust(c)
    PROVE  SharedType' /\ CallsType'
<1>0. SharedType
    BY DEF TypeInv, TypeOK, SharedType
<1>1. CallsType
    BY DEF TypeInv, TypeOK, CallsType, CallStates
<1>2. call[c] \in CallStates /\ call[c].adj \in Int
    BY <1>1 DEF CallsType, CallStates
<1>3. CASE Read(c)
  <2>1. CASE total + call[c].adj < 0
      BY <1>0, <1>3, <2>1, OwnStagesType DEF Read, SharedType
  <2>2. CASE ~(total + call[c].adj < 0)
    <3>1. total + call[c].adj \in Nat /\ total \in Nat
        BY <1>0, <1>2, <2>2 DEF SharedType
    <3>2. Enter(c, [call[c] EXCEPT !.prev = total, !.pid = onBooking, !.pc = "write"])
        BY <1>3, <2>2 DEF Read
    <3>3. DEFINE s == [call[c] EXCEPT !.prev = total, !.pid = onBooking, !.pc = "write"]
    <3>4. s \in CallStates /\ s.prev + s.adj \in Nat
        BY <1>0, <1>2, <3>1 DEF CallStates, SharedType, Labels
    <3> HIDE DEF s
    <3>5. CallsType'
        BY <1>1, <3>2, <3>4 DEF Enter, CallsType, s
    <3> QED
        BY <1>0, <1>3, <3>5 DEF Read, SharedType
  <2> QED
      BY <2>1, <2>2
<1>4. CASE Write(c)
  <2>1. total' \in Nat
      BY <1>1, <1>4 DEF Write, NewTotal, At, CallsType
  <2>2. CallsType'
    <3>1. [call[c] EXCEPT !.pc = "sync"] \in CallStates
        BY <1>2 DEF CallStates, Labels
    <3> QED
        BY <1>1, <1>4, <3>1 DEF Write, Goto, At, CallsType, CallStates
  <2>3. raced' \subseteq Races
      BY <1>4, HistoryType DEF Write, TypeInv, Races
  <2> QED
      BY <1>0, <1>4, <2>1, <2>2, <2>3 DEF Write, SharedType
<1>5. CASE WriteLost(c)
  <2>1. CallsType'
      BY <1>5, OwnStagesType DEF WriteLost
  <2> QED
      BY <1>0, <1>5, <2>1 DEF WriteLost, SharedType
<1>6. CASE Sync(c)
  <2>1. CallsType'
      BY <1>6, OwnStagesType DEF Sync
  <2>2. NewTotal(c) \in Nat
      BY <1>1, <1>6 DEF Sync, NewTotal, At, CallsType
  <2>3. intent' \in [Intents -> [status : IntentStatuses, amount : Nat]]
    <3>1. CASE intent' = [intent EXCEPT ![call[c].pid].amount = NewTotal(c)]
        BY <1>0, <2>2, <3>1 DEF SharedType
    <3>2. CASE UNCHANGED intent
        BY <1>0, <3>2 DEF SharedType
    <3> QED
        BY <1>6, <3>1, <3>2 DEF Sync
  <2>4. failed' \subseteq AllFaults
      BY <1>0, <1>6, HistoryType DEF Sync, TypeInv, SharedType
  <2> QED
      BY <1>0, <1>6, <2>1, <2>3, <2>4 DEF Sync, SharedType
<1>7. CASE Record(c)
  <2>1. CallsType'
      BY <1>7, OwnStagesType DEF Record
  <2>2. ledger' \in [Events -> Int]
    <3>1. ledger' = [ledger EXCEPT ![call[c].op] = ledger[call[c].op] + call[c].adj]
        BY <1>7 DEF Record
    <3>2. \A e \in Events : ledger[e] + call[c].adj \in Int
        BY <1>0, <1>2 DEF SharedType
    <3> QED
        BY <1>0, <3>1, <3>2 DEF SharedType
  <2> QED
      BY <1>0, <1>7, <2>1, <2>2 DEF Record, SharedType
<1>8. CASE RecordFails(c)
  <2>1. CallsType'
      BY <1>8, OwnStagesType DEF RecordFails
  <2>2. failed' \subseteq AllFaults
      BY <1>8, HistoryType DEF RecordFails, TypeInv
  <2>3. unrecorded' \in Int
      BY <1>0, <1>2, <1>8 DEF RecordFails, SharedType
  <2>4. raced' \subseteq Races
      BY <1>8, HistoryType DEF RecordFails, TypeInv, Races
  <2> QED
      BY <1>0, <1>8, <2>1, <2>2, <2>3, <2>4 DEF RecordFails, SharedType
<1>9. CASE NoteUse(c)
  <2>1. CallsType'
      BY <1>9, OwnStagesType DEF NoteUse
  <2>2. failed' \subseteq AllFaults
      BY <1>0, <1>9, HistoryType DEF NoteUse, TypeInv, SharedType
  <2> QED
      BY <1>0, <1>9, <2>1, <2>2 DEF NoteUse, SharedType
<1>10. CASE Undo(c)
  <2>1. CallsType'
      BY <1>10, OwnStagesType DEF Undo
  <2> QED
      BY <1>0, <1>10, <2>1 DEF Undo, SharedType
<1> QED
    BY <1>3, <1>4, <1>5, <1>6, <1>7, <1>8, <1>9, <1>10 DEF Adjust

\* A second submit.
LEMMA RefreshType ==
    ASSUME TypeInv, NEW c \in Calls, RefreshRead(c) \/ Overwrite(c)
    PROVE  SharedType' /\ CallsType'
<1>1. /\ SharedType /\ CallsType
      /\ call[c].prev \in Nat /\ NewQuote \in Nat /\ "refresh" \in Events
      /\ "read" \in Labels /\ "write" \in Labels /\ "sync" \in Labels /\ "record" \in Labels
      /\ "note" \in Labels /\ "undo" \in Labels /\ "overwrite" \in Labels /\ "done" \in Labels
      /\ "amount" \in Races
    BY PriceAssumption DEF TypeInv, TypeOK, SharedType, CallsType, CallStates, Labels, Races, Events
<1>2. CASE RefreshRead(c)
  <2>1. CallsType'
      BY <1>1, <1>2 DEF RefreshRead, Enter, CallsType, CallStates, SharedType
  <2> QED
      BY <1>1, <1>2, <2>1 DEF RefreshRead, SharedType
<1>3. CASE Overwrite(c)
  <2>1. NewQuote - call[c].prev \in Int
      BY <1>1
  <2>2. CallsType'
    <3>1. CASE NewQuote = call[c].prev
        BY <1>1, <1>3, <3>1, EnterType DEF Overwrite, Over, CallsType
    <3>2. CASE NewQuote # call[c].prev
        BY <1>1, <1>3, <2>1, <3>2, EnterType DEF Overwrite, CallsType
    <3> QED
        BY <3>1, <3>2
  <2>3. raced' \subseteq Races
      BY <1>1, <1>3, HistoryType DEF Overwrite, TypeInv
  <2>4. unrecorded' \in Int
      BY <1>1, <1>3 DEF Overwrite, SharedType
  <2> QED
      BY <1>1, <1>3, <2>2, <2>3, <2>4 DEF Overwrite, SharedType
<1> QED
    BY <1>2, <1>3

\* A request for an intent.
LEMMA RequestStepType ==
    ASSUME TypeInv, NEW r \in Requests, ReadBooking(r) \/ RequestStep(r) \/ Crash(r)
    PROVE  /\ age' \in Ages
           /\ req' \in [Requests -> ReqStates]
           /\ onBooking' \in Intents \union {NoIntent, Creating}
           /\ intent' \in [Intents -> [status : IntentStatuses, amount : Nat]]
           /\ failed' \subseteq AllFaults
           /\ raced' \subseteq Races
<1>0. /\ age \in Ages /\ 0 \in Ages
      /\ req \in [Requests -> ReqStates]
      /\ onBooking \in Intents \union {NoIntent, Creating}
      /\ intent \in [Intents -> [status : IntentStatuses, amount : Nat]]
      /\ failed \subseteq AllFaults
      /\ raced \subseteq Races
    BY DEF TypeInv, TypeOK, ReqStates, Ages
<1>1. total \in Nat /\ req[r].seen \in Nat /\ req[r].got \in Intents \union {NoIntent, Creating}
    BY DEF TypeInv, TypeOK
<1>2. ASSUME NEW label \in ReqLabels, NEW seen \in Nat,
             NEW got \in Intents \union {NoIntent, Creating},
             Turn(r, Request(label, seen, got))
      PROVE  req' \in [Requests -> ReqStates]
    BY <1>0, <1>2, RequestType DEF Turn
<1>3. ASSUME NEW label \in ReqLabels, End(r, label) PROVE req' \in [Requests -> ReqStates]
    BY <1>2, <1>3 DEF End
<1>4. ASSUME NEW i \in Intents, Answer(r, i) PROVE req' \in [Requests -> ReqStates]
    BY <1>2, <1>4 DEF Answer, ReqLabels
<1>5. ASSUME NEW t \in Nat, Need(r, t) PROVE req' \in [Requests -> ReqStates]
    BY <1>2, <1>3, <1>5 DEF Need, ReqLabels
<1>6. CASE ReadBooking(r)
  <2>1. req' \in [Requests -> ReqStates]
      BY <1>0, <1>1, <1>2, <1>5, <1>6 DEF ReadBooking, ReqLabels
  <2> QED
      BY <1>0, <1>6, <2>1 DEF ReadBooking
<1>7. CASE Reuse(r)
  <2>1. req' \in [Requests -> ReqStates]
      BY <1>1, <1>3, <1>4, <1>5, <1>7 DEF Reuse, ReqLabels
  <2> QED
      BY <1>0, <1>7, <2>1 DEF Reuse
<1>8. CASE ClaimBooking(r)
  <2>1. req' \in [Requests -> ReqStates]
      BY <1>1, <1>2, <1>8 DEF ClaimBooking, ReqLabels
  <2>2. raced' \subseteq Races
      BY <1>8, HistoryType DEF ClaimBooking, TypeInv, Races
  <2> QED
      BY <1>0, <1>8, <2>1, <2>2 DEF ClaimBooking
<1>9. CASE ClaimLost(r)
  <2>1. req' \in [Requests -> ReqStates]
      BY <1>3, <1>9 DEF ClaimLost, ReqLabels
  <2> QED
      BY <1>0, <1>9, <2>1 DEF ClaimLost
<1>10. CASE Recheck(r)
  <2>1. req' \in [Requests -> ReqStates]
      BY <1>3, <1>4, <1>10 DEF Recheck, ReqLabels
  <2> QED
      BY <1>0, <1>10, <2>1 DEF Recheck
<1>11. CASE Create(r)
  <2>1. req' \in [Requests -> ReqStates]
      BY <1>3, <1>11 DEF Create, ReqLabels
  <2>2. intent' \in [Intents -> [status : IntentStatuses, amount : Nat]]
      BY <1>0, <1>1, <1>11 DEF Create, IntentStatuses
  <2> QED
      BY <1>0, <1>11, <2>1, <2>2 DEF Create
<1>12. CASE CreateFails(r)
  <2>1. req' \in [Requests -> ReqStates]
      BY <1>3, <1>12 DEF CreateFails, ReqLabels
  <2>2. failed' \subseteq AllFaults
      BY <1>12, HistoryType DEF CreateFails, TypeInv
  <2> QED
      BY <1>0, <1>12, <2>1, <2>2 DEF CreateFails
<1>13. CASE Release(r)
  <2>1. req' \in [Requests -> ReqStates]
      BY <1>3, <1>13 DEF Release, ReqLabels
  <2> QED
      BY <1>0, <1>13, <2>1 DEF Release
<1>14. CASE Land(r)
  <2>1. req' \in [Requests -> ReqStates]
      BY <1>4, <1>14 DEF Land, Requests
  <2>2. raced' \subseteq Races
      BY <1>14, HistoryType DEF Land, TypeInv, Races
  <2> QED
      BY <1>0, <1>14, <2>1, <2>2 DEF Land, Requests
<1>15. CASE Crash(r)
  <2>1. req' \in [Requests -> ReqStates]
      BY <1>3, <1>15 DEF Crash, ReqLabels
  <2>2. failed' \subseteq AllFaults
      BY <1>15, HistoryType DEF Crash, TypeInv
  <2> QED
      BY <1>0, <1>15, <2>1, <2>2 DEF Crash
<1> QED
    BY <1>6, <1>7, <1>8, <1>9, <1>10, <1>11, <1>12, <1>13, <1>14, <1>15 DEF RequestStep

\* Every step keeps the state well typed.
LEMMA NextType == TypeInv /\ [Next]_vars => TypeInv'
<1> SUFFICES ASSUME TypeInv, [Next]_vars PROVE TypeInv'
    OBVIOUS
<1>1. SharedType /\ CallsType /\ age \in Ages /\ req \in [Requests -> ReqStates]
    BY DEF TypeInv, TypeOK, SharedType, CallsType, CallStates, ReqStates
<1>2. SUFFICES SharedType' /\ CallsType' /\ age' \in Ages /\ req' \in [Requests -> ReqStates]
    BY DEF TypeInv, TypeOK, SharedType, CallsType, CallStates, ReqStates
<1>3. ASSUME NEW c \in Calls, CallNext(c), UNCHANGED requestVars
      PROVE  SharedType' /\ CallsType'
    BY <1>3, ClaimsType, AdjustType, RefreshType DEF CallNext
<1>4. ASSUME NEW r \in Requests, ReadBooking(r) \/ RequestStep(r) \/ Crash(r), UNCHANGED priceVars
      PROVE  <1>2!1
    BY <1>1, <1>4, RequestStepType DEF priceVars, SharedType, CallsType
<1>5. ASSUME NEW i \in Intents, Authorize(i) \/ StripeCancels(i), UNCHANGED priceVars
      PROVE  <1>2!1
  <2>1. intent' \in [Intents -> [status : IntentStatuses, amount : Nat]]
      BY <1>1, <1>5 DEF Authorize, StripeCancels, IntentStatuses, SharedType
  <2> QED
      BY <1>1, <1>5, <2>1 DEF Authorize, StripeCancels, priceVars, SharedType, CallsType
<1>6. CASE Tick /\ UNCHANGED priceVars
  <2>1. age' \in Ages
      BY <1>1, <1>6 DEF Tick, Ages, Old
  <2> QED
      BY <1>1, <1>6, <2>1 DEF Tick, priceVars, SharedType, CallsType
<1>7. CASE UNCHANGED vars
    BY <1>1, <1>7 DEF vars, SharedType, CallsType
<1> QED
    BY <1>1, <1>3, <1>4, <1>5, <1>6, <1>7 DEF Next, PayNext, requestVars

\* The state of the price and of the intents stays well typed (bookingLedger.ts,
\* create-intent); above all no adjustment takes the total below zero.
THEOREM TypeCorrect == Spec => []TypeOK
<1>1. Spec => []TypeInv
    BY InitType, NextType, PTL DEF Spec
<1>2. TypeInv => TypeOK
    BY DEF TypeInv
<1> QED
    BY <1>1, <1>2, PTL

-----------------------------------------------------------------------------
(* One intent.                                                             *)

\* What a request for an intent has become.
LEMMA TurnFacts ==
    ASSUME TypeInv, NEW r \in Requests, NEW label, NEW seen, NEW got,
           Turn(r, Request(label, seen, got))
    PROVE  /\ req'[r].pc = label /\ req'[r].seen = seen /\ req'[r].got = got
           /\ \A q \in Requests \ {r} : req'[q] = req[q]
BY DEF TypeInv, TypeOK, Turn, Request

\* The requests that change the price leave the intents and their statuses alone,
\* and what has happened stays in the histories.
LEMMA CallKeeps ==
    ASSUME TypeInv, NEW c \in Calls, CallNext(c)
    PROVE  /\ onBooking' = onBooking
           /\ \A i \in Intents : intent'[i].status = intent[i].status
           /\ raced \subseteq raced' /\ failed \subseteq failed'
<1>1. intent \in [Intents -> [status : IntentStatuses, amount : Nat]]
    BY DEF TypeInv, TypeOK
<1>2. ASSUME NEW o \in Claims, Claim(c, o) \/ NoClaim(c, o)
      PROVE  UNCHANGED <<onBooking, intent, raced, failed>>
    BY <1>2 DEF Claim, NoClaim
<1>3. CASE ApproveInvalid(c) \/ RefreshRead(c)
    BY <1>3 DEF ApproveInvalid, RefreshRead
<1>4. CASE Delay(c) \/ Overwrite(c)
    BY <1>4, DelayFacts DEF Delay, Overwrite, Note
<1>5. CASE Read(c) \/ WriteLost(c) \/ Record(c) \/ Undo(c)
    BY <1>5 DEF Read, WriteLost, Record, Undo
<1>6. CASE Write(c)
    BY <1>6 DEF Write, Note
<1>7. CASE RecordFails(c) \/ NoteUse(c)
    BY <1>7 DEF RecordFails, NoteUse, Fail, Note
<1>8. CASE Sync(c)
  <2>1. CASE intent' = [intent EXCEPT ![call[c].pid].amount = NewTotal(c)]
      BY <1>1, <1>8, <2>1 DEF Sync, Fail
  <2>2. CASE UNCHANGED intent
      BY <1>8, <2>2 DEF Sync, Fail
  <2> QED
      BY <1>8, <2>1, <2>2 DEF Sync
<1> QED
    BY <1>2, <1>3, <1>4, <1>5, <1>6, <1>7, <1>8 DEF CallNext, Adjust

\* The sentinel stays owned.
LEMMA SentinelStep ==
    TypeInv /\ SentinelIsOwned /\ [Next]_vars => SentinelIsOwned'
<1> SUFFICES ASSUME TypeInv, SentinelIsOwned, [Next]_vars, onBooking' = Creating,
                    "crash" \notin failed'
             PROVE  \E r \in Requests : req'[r].pc \in {"create", "land", "release"}
    BY DEF SentinelIsOwned, Creators
<1>1. "crash" \notin failed /\ onBooking = Creating =>
         \E r \in Requests : req[r].pc \in {"create", "land", "release"}
    BY DEF SentinelIsOwned, Creators
<1>2. ASSUME NEW c \in Calls, CallNext(c), UNCHANGED requestVars
      PROVE  \E r \in Requests : req'[r].pc \in {"create", "land", "release"}
    BY <1>1, <1>2, CallKeeps DEF requestVars
<1>3. ASSUME NEW r \in Requests, ReadBooking(r) \/ RequestStep(r) \/ Crash(r)
      PROVE  \E q \in Requests : req'[q].pc \in {"create", "land", "release"}
  <2>1. CASE ClaimBooking(r)
      BY <2>1, TurnFacts DEF ClaimBooking
  <2>2. CASE Create(r)
      BY <2>2, TurnFacts DEF Create, End
  <2>3. CASE CreateFails(r)
      BY <2>3, TurnFacts DEF CreateFails, End
  <2>4. CASE Release(r)
      BY <2>4, PriceAssumption DEF Release
  <2>5. CASE Land(r)
      BY <2>5, PriceAssumption DEF Land, Requests
  <2>6. CASE Crash(r)
      BY <2>6 DEF Crash, Fail
  <2>7. CASE ReadBooking(r) \/ Reuse(r) \/ ClaimLost(r) \/ Recheck(r)
    <3>1. /\ UNCHANGED <<onBooking, failed>>
          /\ req[r].pc \notin {"create", "land", "release"}
        BY <2>7 DEF ReadBooking, Reuse, ClaimLost, Recheck, Is
    <3>2. \A q \in Requests \ {r} : req'[q] = req[q]
        BY <2>7, TurnFacts DEF ReadBooking, Reuse, ClaimLost, Recheck, Answer, End, Need
    <3> QED
        BY <1>1, <3>1, <3>2
  <2> QED
      BY <1>3, <2>1, <2>2, <2>3, <2>4, <2>5, <2>6, <2>7 DEF RequestStep
<1>4. CASE \/ \E i \in Intents : Authorize(i) \/ StripeCancels(i)
           \/ Tick
           \/ UNCHANGED vars
    BY <1>1, <1>4 DEF Authorize, StripeCancels, Tick, vars
<1> QED
    BY <1>2, <1>3, <1>4 DEF Next, PayNext

\* There stays one claim.
LEMMA OneClaimStep ==
    TypeInv /\ OneClaimInv /\ [Next]_vars => OneClaimInv'
<1> SUFFICES ASSUME TypeInv, OneClaimInv, [Next]_vars, "claim" \notin raced'
             PROVE  /\ \A r \in Creators' : onBooking' = Creating
                    /\ \A r, s \in Creators' : r = s
                    /\ \A r \in Requests : req'[r].got \in Intents => onBooking' = req'[r].got
                    /\ \A i \in Intents : intent'[i].status = "authorized" => onBooking' = i
    BY DEF OneClaimInv, Requests
<1> DEFINE Goal == /\ \A r \in Creators' : onBooking' = Creating
                   /\ \A r, s \in Creators' : r = s
                   /\ \A r \in Requests : req'[r].got \in Intents => onBooking' = req'[r].got
                   /\ \A i \in Intents : intent'[i].status = "authorized" => onBooking' = i
<1>1. "claim" \notin raced =>
        /\ \A r \in Creators : onBooking = Creating
        /\ \A r, s \in Creators : r = s
        /\ \A r \in Requests : req[r].got \in Intents => onBooking = req[r].got
        /\ \A i \in Intents : intent[i].status = "authorized" => onBooking = i
    BY DEF OneClaimInv
<1>2. /\ \A r : r \in Creators <=> r \in Requests /\ req[r].pc \in {"create", "land", "release"}
      /\ \A r : r \in Creators' <=> r \in Requests /\ req'[r].pc \in {"create", "land", "release"}
    BY DEF Creators, Requests
<1>3. /\ intent \in [Intents -> [status : IntentStatuses, amount : Nat]]
      /\ Requests = Intents
      /\ Creating \notin Intents /\ NoIntent \notin Intents
    BY PriceAssumption DEF TypeInv, TypeOK, Requests
<1>4. ASSUME NEW c \in Calls, CallNext(c), UNCHANGED requestVars PROVE Goal
    BY <1>1, <1>2, <1>4, CallKeeps DEF requestVars
<1>5. ASSUME NEW r \in Requests, ReadBooking(r) \/ RequestStep(r) \/ Crash(r) PROVE Goal
  <2>1. CASE ReadBooking(r)
    <3>1. /\ \A q \in Requests \ {r} : req'[q] = req[q]
          /\ req[r].pc = "idle" /\ req'[r].pc \in {"reuse", "claim", "error"}
          /\ req'[r].got \in {onBooking, NoIntent}
        BY <2>1, TurnFacts DEF ReadBooking, Is, Need, End
    <3> QED
        BY <1>1, <1>2, <1>3, <2>1, <3>1 DEF ReadBooking
  <2>2. CASE Reuse(r)
    <3>1. /\ \A q \in Requests \ {r} : req'[q] = req[q]
          /\ req[r].pc = "reuse" /\ req'[r].pc \in {"done", "claim", "error"}
          /\ req'[r].got \in {req[r].got, NoIntent}
        BY <2>2, TurnFacts DEF Reuse, Is, Need, End, Answer
    <3> QED
        BY <1>1, <1>2, <1>3, <2>2, <3>1 DEF Reuse
  <2>3. CASE ClaimBooking(r)
    <3>1. /\ \A q \in Requests \ {r} : req'[q] = req[q]
          /\ req'[r].pc = "create" /\ req'[r].got = NoIntent
        BY <2>3, TurnFacts DEF ClaimBooking
    <3>2. Creators = {} /\ onBooking \notin Intents /\ "claim" \notin raced
        BY <2>3 DEF ClaimBooking, Note
    <3> QED
        BY <1>1, <1>2, <1>3, <2>3, <3>1, <3>2 DEF ClaimBooking
  <2>4. CASE ClaimLost(r)
    <3>1. /\ \A q \in Requests \ {r} : req'[q] = req[q]
          /\ req'[r].pc = "recheck" /\ req'[r].got = NoIntent
        BY <2>4, TurnFacts DEF ClaimLost, End
    <3> QED
        BY <1>1, <1>2, <1>3, <2>4, <3>1 DEF ClaimLost
  <2>5. CASE Recheck(r)
    <3>1. /\ \A q \in Requests \ {r} : req'[q] = req[q]
          /\ req'[r].pc \in {"done", "busy"}
          /\ req'[r].got \in {onBooking, NoIntent}
        BY <2>5, TurnFacts DEF Recheck, End, Answer
    <3> QED
        BY <1>1, <1>2, <1>3, <2>5, <3>1 DEF Recheck
  <2>6. CASE Create(r)
    <3>1. /\ \A q \in Requests \ {r} : req'[q] = req[q]
          /\ req[r].pc = "create" /\ req'[r].pc = "land" /\ req'[r].got = NoIntent
        BY <2>6, TurnFacts DEF Create, End, Is
    <3>2. \A i \in Intents : intent'[i].status = "authorized" => intent[i].status = "authorized"
        BY <1>3, <2>6 DEF Create
    <3> QED
        BY <1>1, <1>2, <1>3, <2>6, <3>1, <3>2 DEF Create
  <2>7. CASE CreateFails(r)
    <3>1. /\ \A q \in Requests \ {r} : req'[q] = req[q]
          /\ req[r].pc = "create" /\ req'[r].pc = "release" /\ req'[r].got = NoIntent
        BY <2>7, TurnFacts DEF CreateFails, End, Is
    <3> QED
        BY <1>1, <1>2, <1>3, <2>7, <3>1 DEF CreateFails
  <2>8. CASE Release(r)
    <3>1. /\ \A q \in Requests \ {r} : req'[q] = req[q]
          /\ req[r].pc = "release" /\ req'[r].pc = "error" /\ req'[r].got = NoIntent
        BY <2>8, TurnFacts DEF Release, End, Is
    <3>2. "claim" \notin raced /\ onBooking = Creating /\ onBooking' = NoIntent
          /\ UNCHANGED intent
        BY <1>1, <1>2, <2>8, <3>1 DEF Release
    <3> QED
        BY <1>1, <1>2, <1>3, <3>1, <3>2
  <2>9. CASE Land(r)
    <3>1. /\ \A q \in Requests \ {r} : req'[q] = req[q]
          /\ req[r].pc = "land" /\ req'[r].pc = "done" /\ req'[r].got = r
        BY <2>9, TurnFacts DEF Land, Answer, Is
    <3>2. "claim" \notin raced /\ onBooking = Creating /\ onBooking' = r /\ UNCHANGED intent
        BY <1>1, <1>2, <2>9, <3>1 DEF Land, Note
    <3> QED
        BY <1>1, <1>2, <1>3, <3>1, <3>2
  <2>10. CASE Crash(r)
    <3>1. /\ \A q \in Requests \ {r} : req'[q] = req[q]
          /\ req'[r].pc = "dead" /\ req'[r].got = NoIntent
        BY <2>10, TurnFacts DEF Crash, End
    <3> QED
        BY <1>1, <1>2, <1>3, <2>10, <3>1 DEF Crash
  <2> QED
      BY <1>5, <2>1, <2>2, <2>3, <2>4, <2>5, <2>6, <2>7, <2>8, <2>9, <2>10 DEF RequestStep
<1>6. ASSUME NEW i \in Intents, Authorize(i) PROVE Goal
  <2>1. onBooking = i /\ "claim" \notin raced
      BY <1>1, <1>6 DEF Authorize
  <2>2. \A j \in Intents \ {i} : intent'[j] = intent[j]
      BY <1>3, <1>6 DEF Authorize
  <2> QED
      BY <1>1, <1>2, <1>6, <2>1, <2>2 DEF Authorize
<1>7. ASSUME NEW i \in Intents, StripeCancels(i) PROVE Goal
  <2>1. \A j \in Intents : intent'[j].status = "authorized" => intent[j].status = "authorized"
      BY <1>3, <1>7 DEF StripeCancels
  <2> QED
      BY <1>1, <1>2, <1>7, <2>1 DEF StripeCancels
<1>8. CASE Tick \/ UNCHANGED vars
    BY <1>1, <1>2, <1>8 DEF Tick, vars
<1> QED
    BY <1>4, <1>5, <1>6, <1>7, <1>8 DEF Next, PayNext

\* The sentinel that a create-intent request puts on the booking is always somebody's
\* to take off, unless a Worker stopped.
THEOREM SentinelHasOwner == Spec => []SentinelIsOwned
<1>1. Init => SentinelIsOwned
    BY PriceAssumption DEF Init, PriceInit, SentinelIsOwned
<1> QED
    BY <1>1, InitType, NextType, SentinelStep, PTL DEF Spec

\* The claim with the sentinel is alone.
LEMMA OneClaim == Spec => [](TypeInv /\ OneClaimInv)
<1>1. Init => OneClaimInv
    BY PriceAssumption
       DEF Init, PriceInit, OneClaimInv, Creators, Request, Requests
<1> QED
    BY <1>1, InitType, NextType, OneClaimStep, PTL DEF Spec

\* Overlapping and failing create-intent requests hold the customer's money once.
THEOREM AuthorizedOnce == Spec => []OneAuthorization
<1>1. OneClaimInv => OneAuthorization
    BY DEF OneClaimInv, OneAuthorization
<1> QED
    BY <1>1, OneClaim, PTL

\* No create-intent request takes an authorized intent off the booking.
THEOREM AuthorizationStays == Spec => AuthorizationIsKept
<1> DEFINE Kept == ~(/\ onBooking \in Intents
                     /\ intent[onBooking].status = "authorized"
                     /\ onBooking' # onBooking
                     /\ "claim" \notin raced')
<1>1. TypeInv /\ OneClaimInv /\ [Next]_vars => [Kept]_vars
  <2> SUFFICES ASSUME TypeInv, OneClaimInv, Next, ~Kept PROVE FALSE
      BY DEF vars
  <2>1. ASSUME NEW c \in Calls, CallNext(c) PROVE FALSE
      BY <2>1, CallKeeps
  <2>2. ASSUME NEW r \in Requests, ReadBooking(r) \/ RequestStep(r) \/ Crash(r) PROVE FALSE
    <3>1. CASE ClaimBooking(r)
        BY <3>1 DEF ClaimBooking, Note
    <3>2. CASE Release(r)
        BY <3>2, PriceAssumption DEF Release
    <3>3. CASE Land(r)
      <4>1. r \in Creators /\ "claim" \notin raced
          BY <3>3 DEF Land, Is, Creators, Note
      <4> QED
          BY <4>1, PriceAssumption DEF OneClaimInv
    <3> QED
        BY <2>2, <3>1, <3>2, <3>3
           DEF RequestStep, ReadBooking, Reuse, ClaimLost, Recheck, Create, CreateFails, Crash
  <2>3. ASSUME NEW i \in Intents, Authorize(i) \/ StripeCancels(i) \/ Tick PROVE FALSE
      BY <2>3 DEF Authorize, StripeCancels, Tick
  <2>4. CASE Tick
      BY <2>4 DEF Tick
  <2> QED
      BY <2>1, <2>2, <2>3, <2>4 DEF Next, PayNext
<1> QED
    BY <1>1, OneClaim, PTL DEF Spec, AuthorizationIsKept

-----------------------------------------------------------------------------
(* Claims.                                                                 *)

\* What a request that changes the price has become.
LEMMA EnterFacts ==
    ASSUME TypeInv, NEW c \in Calls, NEW o, NEW label, NEW adj, Enter(c, Stage(o, label, adj))
    PROVE  /\ call'[c].op = o /\ call'[c].pc = label /\ call'[c].adj = adj
           /\ \A d \in Calls \ {c} : call'[d] = call[d]
BY DEF TypeInv, TypeOK, Enter, Stage

\* Requests about something else than claims leave the claims alone.
LEMMA Aside ==
    ASSUME ClaimedInv, NEW c \in Calls,
           \A d \in Calls \ {c} : call'[d] = call[d],
           call[c].op \notin Claims \/ call[c].pc = "done",
           call'[c].op \notin Claims \/ call'[c].pc = "done",
           call'[c].op = "none" <=> call'[c].pc = "idle",
           call'[c].pc # "note",
           call'[c].pc = "overwrite" => call'[c].op = "refresh",
           call[c].op \in Claims => call'[c].op = call[c].op,
           held' = held,
           \A o \in Claims : ledger'[o] = ledger[o],
           failed \subseteq failed'
    PROVE  ClaimedInv'
<1>1. \A d \in Calls : (Claiming(d))' => d # c /\ Claiming(d)
    BY DEF Claiming
<1>2. \A o \in Claims : Busy(o)' <=> Busy(o)
    BY DEF Busy, At
<1>3. \A o \in Claims : Begun(o) => Begun(o)'
    BY DEF Begun
<1>4. StagesInv'
    BY DEF ClaimedInv, StagesInv, Claims
<1>5. HoldsInv'
    BY <1>1 DEF ClaimedInv, HoldsInv, Claiming
<1>6. ChargedInv'
    BY <1>2, <1>3 DEF ClaimedInv, ChargedInv
<1> QED
    BY <1>4, <1>5, <1>6 DEF ClaimedInv

\* A request goes on about its claim.
LEMMA GoesOn ==
    ASSUME ClaimedInv, NEW c \in Calls, Claiming(c),
           \A d \in Calls \ {c} : call'[d] = call[d],
           call'[c].op = call[c].op,
           call'[c].pc \notin {"idle", "overwrite", "done"},
           call'[c].pc = "note" => call[c].op \in {"coupon", "member"},
           call'[c].pc \in {"read", "write", "sync", "record"} =>
              call'[c].adj = Amount[call[c].op] /\ ledger'[call[c].op] = 0,
           call'[c].pc = "note" => ledger'[call[c].op] = Amount[call[c].op],
           call'[c].pc = "undo" =>
              \/ ledger'[call[c].op] = 0
              \/ call[c].op \in {"coupon", "member"} /\ "note" \in failed',
           held' = held,
           \A o \in Claims : o # call[c].op => ledger'[o] = ledger[o],
           ledger'[call[c].op] \in {0, Amount[call[c].op]},
           failed \subseteq failed'
    PROVE  ClaimedInv'
<1>1. \A d \in Calls : (Claiming(d))' <=> Claiming(d)
    BY DEF Claiming
<1>2. \A o \in Claims : Busy(o)' <=> Busy(o)
    BY DEF Busy, At, Claiming
<1>3. \A o \in Claims : Begun(o) => Begun(o)'
    BY DEF Begun
<1>4. StagesInv'
    BY DEF ClaimedInv, StagesInv, Claims, Undoable, Claiming
<1>5. HoldsInv'
  <2>1. \A d \in Calls \ {c} : Claiming(d) => call[d].op # call[c].op
      BY DEF ClaimedInv, HoldsInv
  <2>2. ASSUME NEW d \in Calls \ {c}, Claiming(d)
        PROVE  call'[d] = call[d] /\ call[d].op \in Claims
               /\ ledger'[call[d].op] = ledger[call[d].op]
      BY <2>1, <2>2 DEF Claiming
  <2>3. \A d, e \in Calls : Claiming(d)' /\ Claiming(e)' /\ call'[d].op = call'[e].op => d = e
      BY <1>1, <2>1 DEF ClaimedInv, HoldsInv
  <2>4. ASSUME NEW d \in Calls \ {c}, Claiming(d)
        PROVE  /\ call'[d].op \in held'
               /\ call'[d].pc \in {"read", "write", "sync", "record"} =>
                     call'[d].adj = Amount[call'[d].op] /\ ledger'[call'[d].op] = 0
               /\ call'[d].pc = "note" => ledger'[call'[d].op] = Amount[call'[d].op]
               /\ call'[d].pc = "undo" =>
                     \/ ledger'[call'[d].op] = 0
                     \/ call'[d].op \in {"coupon", "member"} /\ "note" \in failed'
      BY <2>2, <2>4 DEF ClaimedInv, HoldsInv
  <2>5. call'[c].op \in held'
      BY DEF ClaimedInv, HoldsInv
  <2> QED
      BY <1>1, <2>3, <2>4, <2>5 DEF HoldsInv
<1>6. ChargedInv'
  <2>1. call[c].op \in held /\ Busy(call[c].op)
      BY DEF ClaimedInv, HoldsInv, Busy, At, Claiming
  <2> QED
      BY <1>2, <1>3, <2>1 DEF ClaimedInv, ChargedInv
<1> QED
    BY <1>4, <1>5, <1>6 DEF ClaimedInv

\* A request is done with its claim.
LEMMA IsDone ==
    ASSUME ClaimedInv, NEW c \in Calls, Claiming(c),
           \A d \in Calls \ {c} : call'[d] = call[d],
           call'[c].op = call[c].op,
           call'[c].pc = "done",
           held' = held \/ held' = held \ {call[c].op},
           held' = held /\ call[c].op \in Undoable => ledger'[call[c].op] = Amount[call[c].op],
           call[c].op \notin held' /\ ledger'[call[c].op] # 0 =>
              call[c].op \in {"coupon", "member"} /\ "note" \in failed',
           \A o \in Claims : o # call[c].op => ledger'[o] = ledger[o],
           ledger'[call[c].op] \in {0, Amount[call[c].op]},
           failed \subseteq failed'
    PROVE  ClaimedInv'
<1>1. \A d \in Calls : (Claiming(d))' => d # c /\ Claiming(d)
    BY DEF Claiming
<1>2. \A o \in Claims : o # call[c].op => (Busy(o)' <=> Busy(o))
    BY DEF Busy, At, Claiming
<1>3. \A o \in Claims : Begun(o) => Begun(o)'
    BY DEF Begun
<1>4. StagesInv'
    BY DEF ClaimedInv, StagesInv, Claims, Undoable, Claiming
<1>5. HoldsInv'
  <2>1. ASSUME NEW d \in Calls, Claiming(d), d # c PROVE call[d].op # call[c].op
      BY <2>1 DEF ClaimedInv, HoldsInv
  <2> QED
      BY <1>1, <2>1 DEF ClaimedInv, HoldsInv, Claiming
<1>6. ChargedInv'
  <2>1. call[c].op \in Claims /\ call[c].op \in held /\ Begun(call[c].op)'
      BY DEF ClaimedInv, HoldsInv, Begun, Claiming
  <2>2. ASSUME NEW o \in Claims, o # call[c].op
        PROVE  /\ ledger'[o] \in {0, Amount[o]}
               /\ ledger'[o] # 0 /\ o \notin held' =>
                     o \in {"coupon", "member"} /\ "note" \in failed' /\ Begun(o)'
               /\ o \in held' \intersect Undoable /\ ~Busy(o)' => ledger'[o] = Amount[o]
      BY <1>2, <1>3, <2>2 DEF ClaimedInv, ChargedInv
  <2> QED
      BY <2>1, <2>2 DEF ChargedInv
<1> QED
    BY <1>4, <1>5, <1>6 DEF ClaimedInv

\* A new claim.
LEMMA NewClaim ==
    ASSUME TypeInv, ClaimedInv, NEW c \in Calls, NEW o \in Claims, Claim(c, o)
    PROVE  ClaimedInv'
<1>1. /\ call[c].pc = "idle" /\ call[c].op = "none" /\ o \notin held
      /\ call'[c].op = o /\ call'[c].pc = "read" /\ call'[c].adj = Amount[o]
      /\ \A d \in Calls \ {c} : call'[d] = call[d]
      /\ held' = held \union {o}
      /\ UNCHANGED <<ledger, failed>>
    BY EnterFacts DEF Claim, Takes, At, ClaimedInv, StagesInv
<1>2. \A d \in Calls : Claiming(d) => call[d].op # o
    BY <1>1 DEF ClaimedInv, HoldsInv
<1>3. ~Claiming(c) /\ Claiming(c)' /\ \A d \in Calls \ {c} : Claiming(d)' <=> Claiming(d)
    BY <1>1 DEF Claiming, Claims, Undoable
<1>4. ledger[o] = 0
  <2>1. o \in {"coupon", "member"} => ~Begun(o)
      BY DEF Claim, Takes
  <2> QED
      BY <1>1, <2>1 DEF ClaimedInv, ChargedInv
<1>5. StagesInv'
    BY <1>1 DEF ClaimedInv, StagesInv, Claims, Undoable
<1>6. HoldsInv'
    BY <1>1, <1>2, <1>3, <1>4 DEF ClaimedInv, HoldsInv
<1>7. ChargedInv'
  <2>1. Busy(o)'
      BY <1>1 DEF Busy, At
  <2>2. \A p \in Claims : p # o => (Busy(p)' <=> Busy(p))
      BY <1>1 DEF Busy, At, Claims, Undoable
  <2>3. \A p \in Claims : Begun(p) => Begun(p)'
      BY <1>1 DEF Begun, Claims, Undoable
  <2> QED
      BY <1>1, <1>4, <2>1, <2>2, <2>3 DEF ClaimedInv, ChargedInv
<1> QED
    BY <1>5, <1>6, <1>7 DEF ClaimedInv

\* An approval without a fee: it stands, and nothing is charged for it.
LEMMA FreeApproval ==
    ASSUME TypeInv, ClaimedInv, NEW c \in Calls, ApproveInvalid(c)
    PROVE  ClaimedInv'
<1>1. /\ call[c].pc = "idle" /\ call[c].op = "none" /\ "aaf" \notin held
      /\ call'[c].op = "aaf" /\ call'[c].pc = "done"
      /\ \A d \in Calls \ {c} : call'[d] = call[d]
      /\ held' = held \union {"aaf"}
      /\ UNCHANGED <<ledger, failed>>
    BY EnterFacts DEF ApproveInvalid, Takes, At, ClaimedInv, StagesInv, Over
<1>2. \A d \in Calls : Claiming(d)' => d # c /\ Claiming(d)
    BY <1>1 DEF Claiming
<1>3. StagesInv'
    BY <1>1 DEF ClaimedInv, StagesInv
<1>4. HoldsInv'
    BY <1>1, <1>2 DEF ClaimedInv, HoldsInv
<1>5. ChargedInv'
  <2>1. \A p \in Claims : Busy(p)' <=> Busy(p)
      BY <1>1 DEF Busy, At, Claims, Undoable
  <2>2. \A p \in Claims : Begun(p) => Begun(p)'
      BY <1>1 DEF Begun, Claims, Undoable
  <2> QED
      BY <1>1, <2>1, <2>2 DEF ClaimedInv, ChargedInv, Undoable
<1> QED
    BY <1>3, <1>4, <1>5 DEF ClaimedInv

\* What a step of an adjustment makes of the request, of the claims and of the ledger.
LEMMA AdjustFacts ==
    ASSUME TypeInv, NEW c \in Calls, Adjust(c)
    PROVE  /\ \A d \in Calls \ {c} : call'[d] = call[d]
           /\ call'[c].op = call[c].op
           /\ \A e \in Events : e # call[c].op => ledger'[e] = ledger[e]
           /\ failed \subseteq failed'
           /\ \/ /\ call[c].pc = "read" /\ call'[c].pc \in {"undo", "write"}
                 /\ call'[c].pc = "write" => call'[c].adj = call[c].adj
                 /\ UNCHANGED <<ledger, held>>
              \/ /\ call[c].pc = "write" /\ call'[c].pc \in {"undo", "read", "sync"}
                 /\ call'[c].pc # "undo" => call'[c].adj = call[c].adj
                 /\ UNCHANGED <<ledger, held>>
              \/ /\ call[c].pc = "sync" /\ call'[c].pc = "record" /\ call'[c].adj = call[c].adj
                 /\ UNCHANGED <<ledger, held>>
              \/ /\ call[c].pc = "record"
                 /\ call'[c].pc = IF call[c].op \in {"coupon", "member"} THEN "note" ELSE "done"
                 /\ call[c].op \in Events =>
                       ledger'[call[c].op] = ledger[call[c].op] + call[c].adj
                 /\ UNCHANGED held
              \/ /\ call[c].pc = "record"
                 /\ call'[c].pc = IF call[c].op = "refresh" THEN "done" ELSE "undo"
                 /\ UNCHANGED <<ledger, held>>
              \/ /\ call[c].pc = "note"
                 /\ \/ call'[c].pc = "done"
                    \/ call'[c].pc = "undo" /\ "note" \in failed'
                 /\ UNCHANGED <<ledger, held>>
              \/ /\ call[c].pc = "undo" /\ call'[c].pc = "done"
                 /\ held' = held \ ({call[c].op} \intersect Undoable)
                 /\ UNCHANGED ledger
<1>1. CASE Read(c)
  <2>1. CASE total + call[c].adj < 0
      BY <1>1, <2>1, EnterFacts DEF Read, Throw, At
  <2>2. CASE ~(total + call[c].adj < 0)
    <3>1. call' = [call EXCEPT ![c] = [call[c] EXCEPT !.prev = total, !.pid = onBooking,
                                                      !.pc = "write"]]
        BY <1>1, <2>2 DEF Read, Enter
    <3>2. call'[c] = [call[c] EXCEPT !.prev = total, !.pid = onBooking, !.pc = "write"]
          /\ \A d \in Calls \ {c} : call'[d] = call[d]
        BY <3>1 DEF TypeInv, TypeOK
    <3>3. call'[c].op = call[c].op /\ call'[c].pc = "write" /\ call'[c].adj = call[c].adj
        BY <3>2 DEF TypeInv, TypeOK
    <3> QED
        BY <1>1, <3>2, <3>3 DEF Read, At
  <2> QED
      BY <2>1, <2>2
<1>2. CASE Write(c)
    BY <1>2 DEF Write, Goto, At, TypeInv, TypeOK
<1>3. CASE WriteLost(c)
    BY <1>3, EnterFacts DEF WriteLost, Throw, At
<1>4. CASE Sync(c)
  <2>1. /\ call'[c].op = call[c].op /\ call'[c].pc = "record" /\ call'[c].adj = call[c].adj
        /\ \A d \in Calls \ {c} : call'[d] = call[d]
      BY <1>4, EnterFacts DEF Sync
  <2>2. failed \subseteq failed'
      BY <1>4 DEF Sync, Fail
  <2> QED
      BY <1>4, <2>1, <2>2 DEF Sync, At
<1>5. CASE Record(c)
  <2>1. /\ call'[c].op = call[c].op
        /\ call'[c].pc = IF call[c].op \in {"coupon", "member"} THEN "note" ELSE "done"
        /\ \A d \in Calls \ {c} : call'[d] = call[d]
      BY <1>5, EnterFacts DEF Record, Finish, Over
  <2>2. /\ \A e \in Events : e # call[c].op => ledger'[e] = ledger[e]
        /\ call[c].op \in Events => ledger'[call[c].op] = ledger[call[c].op] + call[c].adj
      BY <1>5 DEF Record, TypeInv, TypeOK
  <2> QED
      BY <1>5, <2>1, <2>2 DEF Record, At
<1>6. CASE RecordFails(c)
  <2>1. /\ call'[c].op = call[c].op
        /\ call'[c].pc = IF call[c].op = "refresh" THEN "done" ELSE "undo"
        /\ \A d \in Calls \ {c} : call'[d] = call[d]
      BY <1>6, EnterFacts DEF RecordFails, Finish, Over, Throw
  <2> QED
      BY <1>6, <2>1 DEF RecordFails, At, Fail
<1>7. CASE NoteUse(c)
  <2>1. CASE Finish(c) /\ UNCHANGED failed
      BY <1>7, <2>1, EnterFacts DEF NoteUse, Finish, Over, At
  <2>2. CASE Fail("note") /\ Throw(c)
      BY <1>7, <2>2, EnterFacts DEF NoteUse, Throw, At, Fail
  <2> QED
      BY <1>7, <2>1, <2>2 DEF NoteUse
<1>8. CASE Undo(c)
    BY <1>8, EnterFacts DEF Undo, Finish, Over, At
<1> QED
    BY <1>1, <1>2, <1>3, <1>4, <1>5, <1>6, <1>7, <1>8 DEF Adjust

\* An adjustment keeps the claims and the ledger in step.
LEMMA AdjustKeepsClaims ==
    ASSUME TypeInv, ClaimedInv, NEW c \in Calls, Adjust(c)
    PROVE  ClaimedInv'
<1> DEFINE o == call[c].op
<1>1. /\ call[c].pc \in {"read", "write", "sync", "record", "note", "undo"}
      /\ o # "none"
    BY AdjustFacts DEF ClaimedInv, StagesInv
<1>2. Claims \subseteq Events /\ "refresh" \notin Claims /\ "none" \notin Claims
      /\ \A p \in Claims : Amount[p] \in Int
    BY PriceAssumption DEF Events, Claims, Undoable
<1>3. CASE o \notin Claims
  <2>1. \A p \in Claims : ledger'[p] = ledger[p]
      BY <1>2, <1>3, AdjustFacts
  <2>2. held' = held
      BY <1>3, AdjustFacts DEF Claims
  <2>3. /\ call'[c].op = o /\ call'[c].pc \notin {"idle", "overwrite"}
        /\ \A d \in Calls \ {c} : call'[d] = call[d]
        /\ failed \subseteq failed'
      BY AdjustFacts
  <2>4. call'[c].pc # "note"
      BY <1>3, AdjustFacts DEF Claims, Undoable
  <2> QED
      BY <1>1, <1>3, <2>1, <2>2, <2>3, <2>4, Aside
<1>4. CASE o \in Claims
  <2>1. Claiming(c)
      BY <1>1, <1>4 DEF Claiming
  <2>2. /\ call'[c].op = o /\ call'[c].pc \notin {"idle", "overwrite"}
        /\ \A d \in Calls \ {c} : call'[d] = call[d]
        /\ \A p \in Claims : p # o => ledger'[p] = ledger[p]
        /\ failed \subseteq failed'
      BY <1>2, AdjustFacts
  <2>3. /\ o \in held
        /\ call[c].pc \in {"read", "write", "sync", "record"} =>
              call[c].adj = Amount[o] /\ ledger[o] = 0
        /\ call[c].pc = "note" => ledger[o] = Amount[o] /\ o \in {"coupon", "member"}
        /\ call[c].pc = "undo" =>
              ledger[o] = 0 \/ (o \in {"coupon", "member"} /\ "note" \in failed)
        /\ ledger[o] \in {0, Amount[o]}
      BY <1>4, <2>1 DEF ClaimedInv, StagesInv, HoldsInv, ChargedInv
  <2>4. ledger'[o] \in {0, Amount[o]}
      BY <1>2, <1>4, <2>3, AdjustFacts
  <2>5. CASE call[c].pc \in {"read", "write", "sync"}
    <3>1. /\ call'[c].pc \in {"read", "write", "sync", "record", "undo"}
          /\ call'[c].pc # "undo" => call'[c].adj = Amount[o]
          /\ UNCHANGED <<ledger, held>>
        BY <2>3, <2>5, AdjustFacts
    <3> QED
        BY <2>1, <2>2, <2>3, <2>4, <2>5, <3>1, GoesOn
  <2>6. CASE call[c].pc = "record"
    <3>1. held' = held
        BY <2>6, AdjustFacts
    <3>2. CASE call'[c].pc = "done"
      <4>1. ledger'[o] = Amount[o]
          BY <1>2, <1>4, <2>3, <2>6, <3>2, AdjustFacts
      <4> QED
          BY <2>1, <2>2, <2>3, <2>4, <3>1, <3>2, <4>1, IsDone
    <3>3. CASE call'[c].pc = "note"
      <4>1. ledger'[o] = Amount[o] /\ o \in {"coupon", "member"}
          BY <1>2, <1>4, <2>3, <2>6, <3>3, AdjustFacts
      <4> QED
          BY <2>1, <2>2, <2>3, <2>4, <3>1, <3>3, <4>1, GoesOn
    <3>4. CASE call'[c].pc = "undo"
      <4>1. ledger'[o] = 0
          BY <1>2, <1>4, <2>3, <2>6, <3>4, AdjustFacts
      <4> QED
          BY <2>1, <2>2, <2>3, <2>4, <3>1, <3>4, <4>1, GoesOn
    <3> QED
        BY <2>6, <3>2, <3>3, <3>4, AdjustFacts
  <2>7. CASE call[c].pc = "note"
    <3>1. /\ UNCHANGED <<ledger, held>>
          /\ call'[c].pc \in {"done", "undo"}
          /\ call'[c].pc = "undo" => "note" \in failed'
        BY <2>7, AdjustFacts
    <3>2. CASE call'[c].pc = "done"
        BY <2>1, <2>2, <2>3, <2>4, <2>7, <3>1, <3>2, IsDone
    <3>3. CASE call'[c].pc = "undo"
        BY <2>1, <2>2, <2>3, <2>4, <2>7, <3>1, <3>3, GoesOn
    <3> QED
        BY <3>1, <3>2, <3>3
  <2>8. CASE call[c].pc = "undo"
    <3>1. /\ call'[c].pc = "done" /\ UNCHANGED ledger
          /\ held' = held \ ({o} \intersect Undoable)
        BY <2>8, AdjustFacts
    <3>2. CASE o \in Undoable
      <4>1. held' = held \ {o} /\ o \notin held'
          BY <3>1, <3>2
      <4> QED
          BY <2>1, <2>2, <2>3, <2>4, <2>8, <3>1, <4>1, IsDone
    <3>3. CASE o \notin Undoable
      <4>1. held' = held
          BY <3>1, <3>3
      <4> QED
          BY <2>1, <2>2, <2>3, <2>4, <3>1, <3>3, <4>1, IsDone
    <3> QED
        BY <3>2, <3>3
  <2> QED
      BY <1>1, <2>5, <2>6, <2>7, <2>8
<1> QED
    BY <1>3, <1>4

\* Every step keeps the claims and the ledger in step.
LEMMA ClaimedStep == TypeInv /\ ClaimedInv /\ [Next]_vars => ClaimedInv'
<1> SUFFICES ASSUME TypeInv, ClaimedInv, [Next]_vars PROVE ClaimedInv'
    OBVIOUS
<1>0. "delay" \notin Claims /\ "refresh" \notin Claims /\ "none" \notin Claims
      /\ "aaf" \in Claims
    BY DEF Claims, Undoable
<1>1. ASSUME NEW c \in Calls, CallNext(c) PROVE ClaimedInv'
  <2>1. ASSUME NEW o \in Claims, Claim(c, o) PROVE ClaimedInv'
      BY <2>1, NewClaim
  <2>2. CASE ApproveInvalid(c)
      BY <2>2, FreeApproval
  <2>3. ASSUME NEW o \in Claims, NoClaim(c, o) PROVE ClaimedInv'
    <3>1. /\ call[c].pc = "idle" /\ call'[c].op = o /\ call'[c].pc = "done"
          /\ \A d \in Calls \ {c} : call'[d] = call[d]
          /\ UNCHANGED <<held, ledger, failed>>
        BY <2>3, EnterFacts DEF NoClaim, Takes, At, Over
    <3>2. call[c].op = "none" /\ o # "none"
        BY <1>0, <3>1 DEF ClaimedInv, StagesInv
    <3> QED
        BY <1>0, <3>1, <3>2, Aside
  <2>4. CASE Delay(c)
    <3>1. PICK fee \in Brackets, charged \in Nat :
             Enter(c, Stage("delay", IF fee = charged THEN "done" ELSE "read", fee - charged))
        BY <2>4, DelayFacts
    <3>2. /\ call[c].pc = "idle" /\ call'[c].op = "delay" /\ call'[c].pc \in {"done", "read"}
          /\ \A d \in Calls \ {c} : call'[d] = call[d]
        BY <2>4, <3>1, EnterFacts DEF Delay, At
    <3>3. call[c].op = "none"
        BY <3>2 DEF ClaimedInv, StagesInv
    <3> QED
        BY <1>0, <2>4, <3>2, <3>3, Aside, DelayFacts DEF Delay
  <2>5. CASE RefreshRead(c)
    <3>1. /\ call[c].pc = "idle" /\ call'[c].op = "refresh" /\ call'[c].pc = "overwrite"
          /\ \A d \in Calls \ {c} : call'[d] = call[d]
        BY <2>5 DEF RefreshRead, Enter, At, TypeInv, TypeOK
    <3>2. call[c].op = "none"
        BY <3>1 DEF ClaimedInv, StagesInv
    <3> QED
        BY <1>0, <2>5, <3>1, <3>2, Aside DEF RefreshRead
  <2>6. CASE Overwrite(c)
    <3>1. /\ call[c].pc = "overwrite" /\ call'[c].op = "refresh"
          /\ call'[c].pc \in {"done", "record"}
          /\ \A d \in Calls \ {c} : call'[d] = call[d]
        BY <2>6, EnterFacts DEF Overwrite, Over, At
    <3>2. call[c].op = "refresh"
        BY <3>1 DEF ClaimedInv, StagesInv
    <3> QED
        BY <1>0, <2>6, <3>1, <3>2, Aside DEF Overwrite
  <2>7. CASE Adjust(c)
      BY <2>7, AdjustKeepsClaims
  <2> QED
      BY <1>1, <2>1, <2>2, <2>3, <2>4, <2>5, <2>6, <2>7 DEF CallNext
<1>2. ASSUME PayNext \/ UNCHANGED vars, UNCHANGED priceVars \/ UNCHANGED vars PROVE ClaimedInv'
  <2>1. UNCHANGED <<ledger, held, call>> /\ failed \subseteq failed'
    <3>1. failed \subseteq failed'
        BY <1>2 DEF PayNext, RequestStep, ReadBooking, Reuse, ClaimBooking, ClaimLost, Recheck,
                    Create, CreateFails, Release, Land, Crash, Authorize, StripeCancels, Tick,
                    Fail, vars
    <3> QED
        BY <1>2, <3>1 DEF priceVars, vars
  <2> QED
      BY <2>1 DEF ClaimedInv, StagesInv, HoldsInv, ChargedInv, Claiming, Busy, Begun, At
<1> QED
    BY <1>1, <1>2 DEF Next

\* The claims and the ledger stay in step.
LEMMA Claimed == Spec => [](TypeInv /\ ClaimedInv)
<1>1. Init => ClaimedInv
    BY DEF Init, PriceInit, NoCall, Stage, ClaimedInv, StagesInv, HoldsInv, ChargedInv,
           Claiming, Claims, Undoable, Events
<1> QED
    BY <1>1, InitType, NextType, ClaimedStep, PTL DEF Spec

\* A use of a coupon, a fee or a discount is charged once, and stands for what was
\* charged: whatever overlaps and whatever fails, but the note of its use.
THEOREM ClaimsAreCharged == Spec => []ClaimedIsCharged
<1>1. ClaimedInv => ClaimedIsCharged
    BY DEF ClaimedInv, ChargedInv, ClaimedIsCharged
<1> QED
    BY <1>1, Claimed, PTL

-----------------------------------------------------------------------------
(* The access-delay fee.                                                   *)

\* What a step of an adjustment makes of the delay fee on the total.
LEMMA AdjustFee ==
    ASSUME TypeInv, NEW c \in Calls, Adjust(c)
    PROVE  /\ call[c].pc = "write" /\ call'[c].pc = "sync" /\ call[c].op = "delay"
                => delayFee' = delayFee + call[c].adj
           /\ ~(call[c].pc = "write" /\ call'[c].pc = "sync" /\ call[c].op = "delay")
                => delayFee' = delayFee
           /\ call[c].pc = "record" /\ call'[c].pc = "undo" /\ call[c].op = "delay"
                => "fee" \in raced'
<1>1. CASE Write(c)
    BY <1>1 DEF Write, Goto, At, TypeInv, TypeOK
<1>2. CASE Read(c) \/ WriteLost(c) \/ Sync(c) \/ NoteUse(c) \/ Undo(c)
  <2>1. delayFee' = delayFee /\ call[c].pc # "record"
      BY <1>2 DEF Read, WriteLost, Sync, NoteUse, Undo, At
  <2>2. call[c].pc = "write" => call'[c].pc # "sync"
      BY <1>2, EnterFacts DEF Read, WriteLost, Sync, NoteUse, Undo, Throw, At
  <2> QED
      BY <2>1, <2>2
<1>3. CASE Record(c)
  <2>1. delayFee' = delayFee /\ call[c].pc = "record"
      BY <1>3 DEF Record, At
  <2>2. call'[c].pc # "undo"
      BY <1>3, EnterFacts DEF Record, Finish, Over
  <2> QED
      BY <2>1, <2>2
<1>4. CASE RecordFails(c)
    BY <1>4 DEF RecordFails, At, Note
<1> QED
    BY <1>1, <1>2, <1>3, <1>4 DEF Adjust

\* Every step keeps the fee the one of a bracket.
LEMMA BracketStep ==
    TypeInv /\ StagesInv /\ BracketInv /\ [Next]_vars => BracketInv'
<1> DEFINE Goal == /\ ledger'["delay"] \in Brackets \union {0}
                   /\ \A c, d \in Calls : Delaying(c)' /\ Delaying(d)' => c = d
                   /\ \A c \in Calls :
                         Delaying(c)' /\ call'[c].pc \in {"read", "write", "sync", "record"} =>
                            ledger'["delay"] + call'[c].adj \in Brackets
                   /\ \A c \in Calls :
                         Unrecorded(c)' => delayFee' = ledger'["delay"] + call'[c].adj
                   /\ (\A c \in Calls : ~Unrecorded(c)') => delayFee' = ledger'["delay"]
<1> SUFFICES ASSUME TypeInv, StagesInv, BracketInv, [Next]_vars, "fee" \notin raced',
                    "sum" \notin failed'
             PROVE  Goal
    BY DEF BracketInv
<1>0. "delay" \in Events /\ "delay" \notin Claims /\ Brackets \subseteq Nat
    BY PriceAssumption DEF Events, Claims, Undoable
<1>1. "fee" \notin raced /\ "sum" \notin failed =>
        /\ ledger["delay"] \in Brackets \union {0}
        /\ \A c, d \in Calls : Delaying(c) /\ Delaying(d) => c = d
        /\ \A c \in Calls : Delaying(c) /\ call[c].pc \in {"read", "write", "sync", "record"} =>
              ledger["delay"] + call[c].adj \in Brackets
        /\ \A c \in Calls : Unrecorded(c) => delayFee = ledger["delay"] + call[c].adj
        /\ (\A c \in Calls : ~Unrecorded(c)) => delayFee = ledger["delay"]
    BY DEF BracketInv
\* A step of a request that sets no delay fee, or is done with it.
<1>2. ASSUME NEW c \in Calls, \A d \in Calls \ {c} : call'[d] = call[d],
             ~Delaying(c)', ~Unrecorded(c), ledger'["delay"] = ledger["delay"],
             delayFee' = delayFee, "fee" \notin raced, "sum" \notin failed
      PROVE  Goal
  <2>1. \A d \in Calls : Delaying(d)' => d # c /\ Delaying(d)
      BY <1>2 DEF Delaying
  <2>2. \A d \in Calls : Unrecorded(d)' <=> Unrecorded(d)
      BY <1>2 DEF Unrecorded, Delaying
  <2>3. \A d \in Calls : Unrecorded(d)' => call'[d] = call[d]
      BY <1>2 DEF Unrecorded, Delaying
  <2> QED
      BY <1>1, <1>2, <2>1, <2>2, <2>3
<1>3. ASSUME NEW c \in Calls, CallNext(c) PROVE Goal
  <2>0. "fee" \notin raced /\ "sum" \notin failed
      BY <1>3, CallKeeps
  <2>1. ASSUME NEW o \in Claims, Claim(c, o) \/ NoClaim(c, o) PROVE Goal
    <3>1. /\ call[c].pc = "idle" /\ call'[c].op = o /\ o # "delay"
          /\ \A d \in Calls \ {c} : call'[d] = call[d]
          /\ UNCHANGED <<ledger, delayFee>>
        BY <1>0, <2>1, EnterFacts DEF Claim, NoClaim, Over, Takes, At
    <3> QED
        BY <1>2, <2>0, <3>1 DEF Delaying, Unrecorded
  <2>2. CASE ApproveInvalid(c)
    <3>1. /\ call[c].pc = "idle" /\ call'[c].op = "aaf"
          /\ \A d \in Calls \ {c} : call'[d] = call[d]
          /\ UNCHANGED <<ledger, delayFee>>
        BY <2>2, EnterFacts DEF ApproveInvalid, Over, Takes, At
    <3> QED
        BY <1>2, <2>0, <3>1 DEF Delaying, Unrecorded
  <2>3. CASE Delay(c)
    <3>1. PICK fee \in Brackets, charged \in Nat :
             /\ Enter(c, Stage("delay", IF fee = charged THEN "done" ELSE "read",
                               fee - charged))
             /\ charged = DelayCharged
        BY <2>3, DelayFacts
    <3>2. /\ call'[c].op = "delay" /\ call[c].pc = "idle"
          /\ \/ call'[c].pc = "done"
             \/ call'[c].pc = "read" /\ call'[c].adj = fee - charged
          /\ \A d \in Calls \ {c} : call'[d] = call[d]
          /\ UNCHANGED <<ledger, delayFee>>
        BY <2>3, <3>1, EnterFacts DEF Delay, At
    <3>3. \A d \in Calls : ~Delaying(d)
        BY <2>3 DEF Delay, Note, Busy, Delaying, At
    <3>4. ledger["delay"] \in Nat /\ DelayCharged = ledger["delay"]
      <4>1. ledger["delay"] \in Brackets \union {0}
          BY <1>1, <2>0
      <4>2. ledger["delay"] \in Nat
        <5>1. \A b \in Brackets \union {0} : b \in Nat
            BY <1>0
        <5> QED
            BY <4>1, <5>1
      <4> QED
          BY <4>2 DEF DelayCharged
    <3>5. ledger'["delay"] + (fee - charged) = fee
        BY <1>0, <3>1, <3>2, <3>4
    <3>6. \A d \in Calls : Delaying(d)' => d = c
        BY <3>2, <3>3 DEF Delaying
    <3>7. \A d \in Calls : ~Unrecorded(d) /\ ~Unrecorded(d)'
        BY <3>2, <3>3, <3>6 DEF Delaying, Unrecorded
    <3> QED
        BY <1>1, <2>0, <3>2, <3>5, <3>6, <3>7 DEF Delaying
  <2>4. CASE RefreshRead(c)
    <3>1. /\ call[c].pc = "idle" /\ call'[c].op = "refresh"
          /\ \A d \in Calls \ {c} : call'[d] = call[d]
          /\ UNCHANGED <<ledger, delayFee>>
        BY <2>4 DEF RefreshRead, Enter, At, TypeInv, TypeOK
    <3> QED
        BY <1>2, <2>0, <3>1 DEF Delaying, Unrecorded
  <2>5. CASE Overwrite(c)
    <3>1. /\ call[c].pc = "overwrite" /\ call'[c].op = "refresh"
          /\ \A d \in Calls \ {c} : call'[d] = call[d]
          /\ UNCHANGED <<ledger, delayFee>>
        BY <2>5, EnterFacts DEF Overwrite, Over, At
    <3> QED
        BY <1>2, <2>0, <3>1 DEF Delaying, Unrecorded
  <2>6. CASE Adjust(c)
    <3>1. /\ \A d \in Calls \ {c} : call'[d] = call[d]
          /\ call'[c].op = call[c].op
        BY <2>6, AdjustFacts
    <3>2. CASE call[c].op # "delay"
      <4>1. ledger'["delay"] = ledger["delay"] /\ delayFee' = delayFee
          BY <1>0, <2>6, <3>2, AdjustFacts, AdjustFee
      <4> QED
          BY <1>2, <2>0, <3>1, <3>2, <4>1 DEF Delaying, Unrecorded
    <3>3. CASE call[c].op = "delay"
      <4>1. call[c].pc \notin {"idle", "overwrite", "done", "note"}
          BY <2>6, <3>3, AdjustFacts DEF StagesInv
      <4>2. Delaying(c) /\ \A d \in Calls : Delaying(d)' => d = c
          BY <1>1, <2>0, <3>1, <3>3, <4>1 DEF Delaying
      <4>3. \A d \in Calls : Unrecorded(d) \/ Unrecorded(d)' => d = c
          BY <1>1, <2>0, <4>2 DEF Unrecorded, Delaying
      <4>4. /\ delayFee \in Int /\ ledger["delay"] \in Int /\ call[c].adj \in Int
            /\ Unrecorded(c) => delayFee = ledger["delay"] + call[c].adj
            /\ ~Unrecorded(c) => delayFee = ledger["delay"]
          BY <1>0, <1>1, <2>0, <4>3 DEF TypeInv, TypeOK
      <4>5. /\ Unrecorded(c) <=> call[c].pc \in {"sync", "record"}
            /\ Unrecorded(c)' <=> call'[c].pc \in {"sync", "record"}
          BY <3>1, <3>3 DEF Unrecorded
      <4>6. SUFFICES /\ ledger'["delay"] \in Brackets \union {0}
                     /\ call'[c].pc \in {"read", "write", "sync", "record"} =>
                           ledger'["delay"] + call'[c].adj \in Brackets
                     /\ Unrecorded(c)' => delayFee' = ledger'["delay"] + call'[c].adj
                     /\ ~Unrecorded(c)' => delayFee' = ledger'["delay"]
          BY <4>2, <4>3
      <4>7. CASE ledger' = ledger
        <5>1. call'[c].pc \in {"read", "write", "sync", "record"} =>
                 /\ call[c].pc \in {"read", "write", "sync", "record"}
                 /\ call'[c].adj = call[c].adj
            BY <2>6, <3>3, <4>1, AdjustFacts
        <5>2. /\ ledger'["delay"] \in Brackets \union {0}
              /\ call'[c].pc \in {"read", "write", "sync", "record"} =>
                    ledger'["delay"] + call'[c].adj \in Brackets
            BY <1>1, <2>0, <4>2, <4>7, <5>1
        <5>3. CASE call[c].pc = "write" /\ call'[c].pc = "sync"
            BY <2>6, <3>3, <4>4, <4>5, <4>7, <5>1, <5>2, <5>3, AdjustFee
        <5>4. CASE call[c].pc = "record"
          <6>1. call'[c].pc = "done" \/ call'[c].pc = "undo"
              BY <2>6, <3>3, <5>4, AdjustFacts
          <6>2. call'[c].pc # "undo"
              BY <2>6, <3>3, <5>4, AdjustFee
          <6>3. ledger'["delay"] = ledger["delay"] + call[c].adj
              BY <1>0, <2>6, <3>3, <5>4, <6>1, <6>2, AdjustFacts
          <6>4. delayFee' = delayFee
              BY <2>6, <5>4, AdjustFee
          <6> QED
              BY <4>4, <4>5, <5>2, <5>4, <6>1, <6>2, <6>3, <6>4
        <5>5. CASE call[c].pc \in {"read", "write", "sync", "undo"}
                     /\ ~(call[c].pc = "write" /\ call'[c].pc = "sync")
          <6>1. delayFee' = delayFee
              BY <2>6, <5>5, AdjustFee
          <6>2. Unrecorded(c)' <=> Unrecorded(c)
              BY <2>6, <3>3, <4>5, <5>5, AdjustFacts
          <6>3. Unrecorded(c)' => call'[c].adj = call[c].adj
              BY <4>5, <5>1
          <6> QED
              BY <4>4, <4>7, <5>2, <6>1, <6>2, <6>3
        <5>6. call[c].pc \in {"read", "write", "sync", "record", "undo"}
            BY <2>6, <4>1 DEF Adjust, Read, Write, WriteLost, Sync, Record, RecordFails,
                              NoteUse, Undo, At
        <5> QED
            BY <5>3, <5>4, <5>5, <5>6
      <4>8. CASE /\ call[c].pc = "record" /\ call'[c].pc = "done"
                 /\ ledger'["delay"] = ledger["delay"] + call[c].adj
        <5>1. delayFee' = delayFee
            BY <2>6, <4>8, AdjustFee
        <5>2. ledger'["delay"] \in Brackets
            BY <1>1, <2>0, <4>2, <4>8
        <5> QED
            BY <4>4, <4>5, <4>8, <5>1, <5>2
      <4> QED
          BY <1>0, <2>6, <3>3, <4>1, <4>7, <4>8, AdjustFacts
    <3> QED
        BY <3>2, <3>3
  <2> QED
      BY <1>3, <2>1, <2>2, <2>3, <2>4, <2>5, <2>6 DEF CallNext
<1>4. ASSUME (PayNext /\ UNCHANGED priceVars) \/ UNCHANGED vars PROVE Goal
  <2>1. UNCHANGED <<ledger, call, delayFee>> /\ "fee" \notin raced /\ "sum" \notin failed
    <3>1. raced \subseteq raced' /\ failed \subseteq failed'
        BY <1>4 DEF PayNext, RequestStep, ReadBooking, Reuse, ClaimBooking, ClaimLost, Recheck,
                    Create, CreateFails, Release, Land, Crash, Authorize, StripeCancels, Tick,
                    Note, Fail, vars
    <3> QED
        BY <1>4, <3>1 DEF priceVars, vars
  <2> QED
      BY <1>1, <2>1 DEF Delaying, Unrecorded
<1> QED
    BY <1>3, <1>4 DEF Next

\* However often the access-delay fee is set, the total carries a single bracket's,
\* and the ledger the same, unless requests to set it overlap, a row of theirs is
\* lost or the sum is not read.
THEOREM DelayIsOneBracket == Spec => []SingleBracketFee
<1>1. Init => BracketInv
    BY DEF Init, PriceInit, NoCall, Stage, BracketInv, Delaying, Unrecorded, Events
<1>2. TypeInv /\ BracketInv => SingleBracketFee
  <2> SUFFICES ASSUME TypeInv, BracketInv, "fee" \notin raced, "sum" \notin failed
               PROVE  /\ delayFee \in Brackets \union {0}
                      /\ (\A c \in Calls : ~Unrecorded(c)) => ledger["delay"] = delayFee
      BY DEF SingleBracketFee, Unrecorded, At
  <2>1. CASE \A c \in Calls : ~Unrecorded(c)
      BY <2>1 DEF BracketInv
  <2>2. ASSUME NEW c \in Calls, Unrecorded(c) PROVE delayFee \in Brackets
      BY <2>2 DEF BracketInv, Unrecorded, Delaying
  <2> QED
      BY <2>1, <2>2
<1>3. TypeInv /\ ClaimedInv => TypeInv /\ StagesInv
    BY DEF ClaimedInv
<1> QED
    BY <1>1, <1>2, <1>3, Claimed, BracketStep, PTL DEF Spec

-----------------------------------------------------------------------------
(* The amount of the intent.                                               *)

\* What a request that changes the price knows of an intent it knew, or reads.
LEMMA CallPid ==
    ASSUME TypeInv, NEW c \in Calls, CallNext(c)
    PROVE  /\ \A d \in Calls \ {c} : call'[d] = call[d]
           /\ call'[c].pid \in {NoIntent, onBooking, call[c].pid}
           /\ call'[c].pid = onBooking \/ call'[c].pid = NoIntent \/ Write(c)
<1>1. ASSUME NEW o, NEW label, NEW adj, Enter(c, Stage(o, label, adj))
      PROVE  call'[c].pid = NoIntent /\ \A d \in Calls \ {c} : call'[d] = call[d]
    BY <1>1 DEF Enter, Stage, TypeInv, TypeOK
<1>2. ASSUME NEW o \in Claims, Claim(c, o) \/ NoClaim(c, o)
      PROVE  call'[c].pid = NoIntent /\ \A d \in Calls \ {c} : call'[d] = call[d]
    BY <1>1, <1>2 DEF Claim, NoClaim, Over
<1>3. CASE ApproveInvalid(c) \/ Delay(c) \/ Overwrite(c) \/ WriteLost(c) \/ Sync(c)
           \/ Record(c) \/ RecordFails(c) \/ NoteUse(c) \/ Undo(c)
    BY <1>1, <1>3 DEF ApproveInvalid, Delay, Overwrite, WriteLost, Sync, Record, RecordFails,
                      NoteUse, Undo, Throw, Finish, Over
<1>4. CASE RefreshRead(c)
    BY <1>4 DEF RefreshRead, Enter, TypeInv, TypeOK
<1>5. CASE Read(c)
  <2>1. CASE total + call[c].adj < 0
      BY <1>1, <1>5, <2>1 DEF Read, Throw
  <2>2. CASE ~(total + call[c].adj < 0)
    <3>1. call' = [call EXCEPT ![c] = [call[c] EXCEPT !.prev = total, !.pid = onBooking,
                                                      !.pc = "write"]]
        BY <1>5, <2>2 DEF Read, Enter
    <3>2. call'[c] = [call[c] EXCEPT !.prev = total, !.pid = onBooking, !.pc = "write"]
          /\ \A d \in Calls \ {c} : call'[d] = call[d]
        BY <3>1 DEF TypeInv, TypeOK
    <3> QED
        BY <3>2 DEF TypeInv, TypeOK
  <2> QED
      BY <2>1, <2>2
<1>6. CASE Write(c)
    BY <1>6 DEF Write, Goto, TypeInv, TypeOK
<1> QED
    BY <1>2, <1>3, <1>4, <1>5, <1>6 DEF CallNext, Adjust

\* Every step keeps intents to themselves until they have landed.
LEMMA HeardStep == TypeInv /\ HeardInv /\ [Next]_vars => HeardInv'
<1> SUFFICES ASSUME TypeInv, HeardInv, [Next]_vars PROVE HeardInv'
    OBVIOUS
<1>0. /\ NoIntent \notin Intents /\ Creating \notin Intents /\ Requests = Intents
      /\ intent \in [Intents -> [status : IntentStatuses, amount : Nat]]
    BY PriceAssumption DEF Requests, TypeInv, TypeOK
<1>1. ASSUME NEW c \in Calls, CallNext(c), UNCHANGED requestVars PROVE HeardInv'
    BY <1>0, <1>1, CallKeeps, CallPid DEF HeardInv, requestVars
<1>2. ASSUME NEW r \in Requests, UNCHANGED call,
             ReadBooking(r) \/ RequestStep(r) \/ Crash(r)
      PROVE  HeardInv'
  <2>1. CASE ReadBooking(r)
    <3>1. /\ \A q \in Requests \ {r} : req'[q] = req[q]
          /\ req[r].pc = "idle" /\ req'[r].pc \in {"reuse", "claim", "error"}
          /\ req'[r].got \in {onBooking, NoIntent}
          /\ UNCHANGED <<onBooking, intent>>
        BY <2>1, TurnFacts DEF ReadBooking, Is, Need, End
    <3> QED
        BY <1>0, <1>2, <3>1 DEF HeardInv
  <2>2. CASE Reuse(r)
    <3>1. /\ \A q \in Requests \ {r} : req'[q] = req[q]
          /\ req[r].pc = "reuse" /\ req'[r].pc \in {"done", "claim", "error"}
          /\ req'[r].got \in {req[r].got, NoIntent}
          /\ UNCHANGED <<onBooking, intent>>
        BY <2>2, TurnFacts DEF Reuse, Is, Need, End, Answer
    <3> QED
        BY <1>0, <1>2, <3>1 DEF HeardInv
  <2>3. CASE ClaimBooking(r) \/ ClaimLost(r) \/ CreateFails(r) \/ Release(r) \/ Crash(r)
    <3>1. /\ \A q \in Requests \ {r} : req'[q] = req[q]
          /\ req[r].pc # "done"
          /\ req'[r].pc \notin {"done", "land"} /\ req'[r].got = NoIntent
          /\ onBooking' \in {onBooking, Creating, NoIntent}
          /\ UNCHANGED intent
        BY <2>3, TurnFacts DEF ClaimBooking, ClaimLost, CreateFails, Release, Crash, Creators,
                               Is, End
    <3> QED
        BY <1>0, <1>2, <3>1 DEF HeardInv
  <2>4. CASE Recheck(r)
    <3>1. /\ \A q \in Requests \ {r} : req'[q] = req[q]
          /\ req[r].pc = "recheck" /\ req'[r].pc \in {"done", "busy"}
          /\ req'[r].got \in {onBooking, NoIntent}
          /\ UNCHANGED <<onBooking, intent>>
        BY <2>4, TurnFacts DEF Recheck, Is, End, Answer
    <3> QED
        BY <1>0, <1>2, <3>1 DEF HeardInv
  <2>5. CASE Create(r)
    <3>1. /\ \A q \in Requests \ {r} : req'[q] = req[q]
          /\ req[r].pc = "create" /\ req'[r].pc = "land" /\ req'[r].got = NoIntent
          /\ intent'[r].status = "editable"
          /\ \A i \in Intents \ {r} : intent'[i] = intent[i]
          /\ UNCHANGED onBooking
        BY <1>0, <2>5, TurnFacts DEF Create, Is, End
    <3> QED
        BY <1>0, <1>2, <3>1 DEF HeardInv
  <2>6. CASE Land(r)
    <3>1. /\ \A q \in Requests \ {r} : req'[q] = req[q]
          /\ req'[r].pc = "done" /\ req'[r].got = r
          /\ onBooking' = r /\ UNCHANGED intent
        BY <2>6, TurnFacts DEF Land, Answer
    <3> QED
        BY <1>0, <1>2, <3>1 DEF HeardInv
  <2> QED
      BY <1>2, <2>1, <2>2, <2>3, <2>4, <2>5, <2>6 DEF RequestStep
<1>3. ASSUME NEW i \in Intents, UNCHANGED call, Authorize(i) \/ StripeCancels(i)
      PROVE  HeardInv'
  <2>1. req[i].pc # "land"
      BY <1>0, <1>3 DEF Authorize, StripeCancels, HeardInv, Is
  <2>2. UNCHANGED <<req, onBooking>> /\ \A j \in Intents \ {i} : intent'[j] = intent[j]
      BY <1>0, <1>3 DEF Authorize, StripeCancels
  <2> QED
      BY <1>0, <1>3, <2>1, <2>2 DEF HeardInv
<1>4. CASE (Tick /\ UNCHANGED call) \/ UNCHANGED vars
    BY <1>4 DEF Tick, vars, HeardInv
<1> QED
    BY <1>1, <1>2, <1>3, <1>4 DEF Next, PayNext, priceVars

\* Neither the total nor the intent of the booking nor who is about to tell it changes.
LEMMA NothingToTell ==
    ASSUME AmountInv,
           UNCHANGED <<total, onBooking>>,
           onBooking \in Intents => intent'[onBooking] = intent[onBooking],
           \A c \in Calls : At(c, "sync")' <=> At(c, "sync"),
           \A c \in Calls : At(c, "sync") => call'[c] = call[c],
           raced \subseteq raced', failed \subseteq failed'
    PROVE  AmountInv'
<1> SUFFICES ASSUME "amount" \notin raced' PROVE AmountInv'
    BY DEF AmountInv
<1>1. \A c, d \in Calls : At(c, "sync")' /\ At(d, "sync")' => c = d
    BY DEF AmountInv
<1>2. ASSUME "sync" \notin failed', onBooking' \in Intents,
             \A c \in Calls : At(c, "sync")' => call'[c].pid # onBooking'
      PROVE  Asks(onBooking, total)'
  <2>1. Asks(onBooking, total)
      BY <1>2 DEF AmountInv
  <2> QED
      BY <1>2, <2>1 DEF Asks
<1>3. ASSUME "sync" \notin failed', onBooking' \in Intents, NEW c \in Calls, At(c, "sync")',
             call'[c].pid = onBooking'
      PROVE  (total = NewTotal(c) /\ Asks(onBooking, call[c].prev))'
  <2>1. total = NewTotal(c) /\ Asks(onBooking, call[c].prev) /\ call'[c] = call[c]
      BY <1>3 DEF AmountInv
  <2> QED
      BY <1>3, <2>1 DEF Asks, NewTotal
<1> QED
    BY <1>1, <1>2, <1>3 DEF AmountInv

\* The total is written: the one request to tell the intent of the booking.
LEMMA WriteStep ==
    ASSUME TypeInv, AmountInv, NEW c \in Calls, Write(c)
    PROVE  AmountInv'
<1> SUFFICES ASSUME "amount" \notin raced' PROVE AmountInv'
    BY DEF AmountInv
<1>1. /\ "amount" \notin raced
      /\ \A d \in Calls \ {c} : ~At(d, "sync")
      /\ onBooking \in Intents => call[c].pid = onBooking
    BY DEF Write, Note, OutOfStep
<1>2. /\ call[c].pc = "write" /\ call'[c].pc = "sync" /\ call'[c].pid = call[c].pid
      /\ call'[c].prev = call[c].prev /\ call'[c].adj = call[c].adj
      /\ \A d \in Calls \ {c} : call'[d] = call[d]
      /\ total' = NewTotal(c) /\ total = call[c].prev
      /\ UNCHANGED <<onBooking, intent, failed>>
    BY DEF Write, Goto, At, TypeInv, TypeOK
<1>3. \A d \in Calls : At(d, "sync")' => d = c
    BY <1>1, <1>2 DEF At
<1>4. ASSUME "sync" \notin failed', onBooking' \in Intents
      PROVE  /\ At(c, "sync")' /\ call'[c].pid = onBooking'
             /\ (total = NewTotal(c) /\ Asks(onBooking, call[c].prev))'
  <2>1. \A d \in Calls : ~At(d, "sync")
      BY <1>1, <1>2 DEF At
  <2>2. Asks(onBooking, total)
      BY <1>1, <1>2, <1>4, <2>1 DEF AmountInv
  <2> QED
      BY <1>1, <1>2, <1>4, <2>2 DEF At, NewTotal, Asks
<1> QED
    BY <1>3, <1>4 DEF AmountInv

\* The intent is told, or there is nothing to tell it.
LEMMA SyncStep ==
    ASSUME TypeInv, AmountInv, NEW c \in Calls, Sync(c)
    PROVE  AmountInv'
<1> SUFFICES ASSUME "amount" \notin raced' PROVE AmountInv'
    BY DEF AmountInv
<1>1. /\ call[c].pc = "sync" /\ call'[c].pc = "record"
      /\ \A d \in Calls \ {c} : call'[d] = call[d]
      /\ UNCHANGED <<total, onBooking, raced>>
    BY EnterFacts DEF Sync, At
<1>2. "amount" \notin raced /\ \A d \in Calls : ~At(d, "sync")'
    BY <1>1 DEF AmountInv, At
<1>3. ASSUME "sync" \notin failed', onBooking' \in Intents PROVE Asks(onBooking, total)'
  <2>1. "sync" \notin failed /\ onBooking \in Intents /\ onBooking' = onBooking /\ total' = total
      BY <1>1, <1>3 DEF Sync, Fail
  <2>2. \/ Changes(c) /\ intent' = [intent EXCEPT ![call[c].pid].amount = NewTotal(c)]
        \/ ~Changes(c) /\ UNCHANGED intent
      BY <1>3 DEF Sync, Fail
  <2>3. /\ intent \in [Intents -> [status : IntentStatuses, amount : Nat]]
        /\ total \in Nat /\ call[c].prev \in Nat /\ call[c].adj \in Int
      BY DEF TypeInv, TypeOK
  <2>4. CASE call[c].pid = onBooking
    <3>1. total = NewTotal(c) /\ Asks(onBooking, call[c].prev)
        BY <1>1, <1>2, <2>1, <2>4 DEF AmountInv, At
    <3>2. CASE Changes(c)
      <4>1. /\ intent'[onBooking].status = intent[onBooking].status
            /\ intent'[onBooking].amount = total
          BY <2>1, <2>2, <2>3, <2>4, <3>1, <3>2
      <4>2. intent[onBooking].status \in {"editable", "authorized"}
          BY <2>4, <3>2 DEF Changes
      <4> QED
          BY <2>1, <2>3, <4>1, <4>2 DEF Asks
    <3>3. CASE ~Changes(c)
      <4>1. /\ intent' = intent
            /\ intent[onBooking].status # "editable"
            /\ intent[onBooking].status = "authorized" =>
                 ~(call[c].adj > 0) \/ ~(NewTotal(c) > intent[onBooking].amount)
          BY <2>1, <2>2, <2>4, <3>3 DEF Changes
      <4>2. CASE intent[onBooking].status = "canceled"
          BY <2>1, <4>1, <4>2 DEF Asks
      <4>3. CASE intent[onBooking].status = "authorized"
        <5>1. intent[onBooking].amount \in Nat /\ intent[onBooking].amount >= call[c].prev
            BY <2>1, <2>3, <3>1, <4>3 DEF Asks
        <5>2. intent[onBooking].amount >= total
            BY <2>3, <3>1, <4>1, <4>3, <5>1 DEF NewTotal
        <5> QED
            BY <2>1, <4>1, <4>3, <5>2 DEF Asks
      <4> QED
          BY <3>1, <4>1, <4>2, <4>3 DEF Asks
    <3> QED
        BY <3>2, <3>3
  <2>5. CASE call[c].pid # onBooking
    <3>1. \A d \in Calls : At(d, "sync") => d = c
        BY <1>1, <1>2 DEF AmountInv, At
    <3>2. Asks(onBooking, total)
        BY <1>2, <2>1, <2>5, <3>1 DEF AmountInv
    <3>3. intent'[onBooking] = intent[onBooking]
        BY <2>1, <2>2, <2>3, <2>5
    <3> QED
        BY <2>1, <3>2, <3>3 DEF Asks
  <2> QED
      BY <2>4, <2>5
<1> QED
    BY <1>2, <1>3 DEF AmountInv

\* Every step of a request that changes the price.
LEMMA CallAmountStep ==
    ASSUME TypeInv, AmountInv, NEW c \in Calls, CallNext(c)
    PROVE  AmountInv'
<1>1. CASE Write(c)
    BY <1>1, WriteStep
<1>2. CASE Sync(c)
    BY <1>2, SyncStep
<1>3. CASE Overwrite(c)
  <2> SUFFICES ASSUME "amount" \notin raced' PROVE AmountInv'
      BY DEF AmountInv
  <2>1. onBooking' \notin Intents /\ "amount" \notin raced
      BY <1>3 DEF Overwrite, Note
  <2>2. call'[c].pc # "sync" /\ \A d \in Calls \ {c} : call'[d] = call[d]
      BY <1>3, EnterFacts DEF Overwrite, Over
  <2> QED
      BY <2>1, <2>2 DEF AmountInv, At
<1>4. ASSUME UNCHANGED <<total, onBooking, intent>>, call[c].pc # "sync", call'[c].pc # "sync",
             \A d \in Calls \ {c} : call'[d] = call[d]
      PROVE  AmountInv'
    BY <1>4, CallKeeps, NothingToTell DEF At
<1>5. ASSUME NEW o \in Claims, Claim(c, o) \/ NoClaim(c, o) PROVE AmountInv'
    BY <1>4, <1>5, EnterFacts DEF Claim, NoClaim, Takes, At, Over
<1>6. CASE ApproveInvalid(c)
    BY <1>4, <1>6, EnterFacts DEF ApproveInvalid, Takes, At, Over
<1>7. CASE Delay(c)
  <2>1. /\ call[c].pc = "idle" /\ call'[c].pc \in {"done", "read"}
        /\ \A d \in Calls \ {c} : call'[d] = call[d]
        /\ UNCHANGED <<total, onBooking, intent>>
      BY <1>7, EnterFacts DEF Delay, At, Over
  <2> QED
      BY <1>4, <2>1
<1>8. CASE RefreshRead(c)
  <2>1. call[c].pc = "idle" /\ call'[c].pc = "overwrite"
      BY <1>8 DEF RefreshRead, Enter, At, TypeInv, TypeOK
  <2> QED
      BY <1>4, <1>8, <2>1, CallPid DEF RefreshRead
<1>9. CASE Read(c) \/ WriteLost(c) \/ Record(c) \/ RecordFails(c) \/ NoteUse(c) \/ Undo(c)
  <2>1. UNCHANGED <<total, onBooking, intent>>
      BY <1>9 DEF Read, WriteLost, Record, RecordFails, NoteUse, Undo
  <2>2. call[c].pc \in {"read", "write", "record", "note", "undo"}
      BY <1>9 DEF Read, WriteLost, Record, RecordFails, NoteUse, Undo, At
  <2>3. call'[c].pc # "sync"
    <3>1. CASE WriteLost(c)
        BY <3>1, EnterFacts DEF WriteLost, Throw
    <3>2. CASE call[c].pc # "write"
        BY <1>9, <2>2, <3>2, AdjustFacts DEF Adjust
    <3>3. WriteLost(c) \/ call[c].pc # "write"
        BY <1>9 DEF Read, Record, RecordFails, NoteUse, Undo, At
    <3> QED
        BY <3>1, <3>2, <3>3
  <2> QED
      BY <1>4, <2>1, <2>2, <2>3, CallPid
<1> QED
    BY <1>1, <1>2, <1>3, <1>5, <1>6, <1>7, <1>8, <1>9 DEF CallNext, Adjust

\* Every step keeps the amount of the booking's intent in step with the total.
LEMMA AmountStep == TypeInv /\ HeardInv /\ AmountInv /\ [Next]_vars => AmountInv'
<1> SUFFICES ASSUME TypeInv, HeardInv, AmountInv, [Next]_vars PROVE AmountInv'
    OBVIOUS
<1>0. /\ NoIntent \notin Intents /\ Creating \notin Intents /\ Requests = Intents
      /\ intent \in [Intents -> [status : IntentStatuses, amount : Nat]]
      /\ total \in Nat
    BY PriceAssumption DEF Requests, TypeInv, TypeOK
<1>1. ASSUME NEW c \in Calls, CallNext(c) PROVE AmountInv'
    BY <1>1, CallAmountStep
<1>2. ASSUME UNCHANGED <<total, call, onBooking>>, raced \subseteq raced', failed \subseteq failed',
             onBooking \in Intents => intent'[onBooking] = intent[onBooking]
      PROVE  AmountInv'
    BY <1>2, NothingToTell DEF At
<1>3. ASSUME UNCHANGED <<total, call>>, raced \subseteq raced', failed \subseteq failed',
             onBooking' \notin Intents
      PROVE  AmountInv'
    BY <1>3 DEF AmountInv, At
<1>4. ASSUME NEW r \in Requests, UNCHANGED <<total, call>>,
             ReadBooking(r) \/ RequestStep(r) \/ Crash(r)
      PROVE  AmountInv'
  <2>1. CASE ReadBooking(r) \/ Reuse(r) \/ ClaimLost(r) \/ Recheck(r) \/ CreateFails(r) \/ Crash(r)
    <3>1. UNCHANGED <<onBooking, intent, raced>> /\ failed \subseteq failed'
        BY <2>1 DEF ReadBooking, Reuse, ClaimLost, Recheck, CreateFails, Crash, Fail
    <3> QED
        BY <1>2, <1>4, <3>1
  <2>2. CASE ClaimBooking(r)
      BY <1>0, <1>3, <1>4, <2>2 DEF ClaimBooking, Note
  <2>3. CASE Create(r)
    <3>1. onBooking # r
        BY <2>3 DEF Create, Is, HeardInv, Requests
    <3> QED
        BY <1>0, <1>2, <1>4, <2>3, <3>1 DEF Create
  <2>4. CASE Release(r)
      BY <1>0, <1>2, <1>3, <1>4, <2>4 DEF Release
  <2>5. CASE Land(r)
    <3> SUFFICES ASSUME "amount" \notin raced' PROVE AmountInv'
        BY DEF AmountInv
    <3>1. /\ req[r].pc = "land" /\ onBooking' = r /\ intent' = intent
          /\ intent[r].amount = total /\ "amount" \notin raced
        BY <2>5 DEF Land, Is, Note
    <3>2. intent[r].status = "editable"
        BY <3>1 DEF HeardInv
    <3>3. \A c \in Calls : call[c].pid # r
        BY <1>0, <3>1 DEF HeardInv
    <3>4. Asks(onBooking, total)'
        BY <1>4, <3>1, <3>2 DEF Asks
    <3> QED
        BY <1>4, <3>1, <3>3, <3>4 DEF AmountInv, At
  <2> QED
      BY <1>4, <2>1, <2>2, <2>3, <2>4, <2>5 DEF RequestStep
<1>5. ASSUME NEW i \in Intents, UNCHANGED <<total, call>>, Authorize(i) \/ StripeCancels(i)
      PROVE  AmountInv'
  <2>1. UNCHANGED <<onBooking, raced, failed>> /\ \A j \in Intents \ {i} : intent'[j] = intent[j]
      BY <1>0, <1>5 DEF Authorize, StripeCancels
  <2>2. CASE onBooking # i
      BY <1>2, <1>5, <2>1, <2>2
  <2>3. CASE onBooking = i
    <3>1. /\ intent'[i].amount = intent[i].amount
          /\ \/ intent[i].status = "editable" /\ intent'[i].status = "authorized"
             \/ intent'[i].status = "canceled"
        BY <1>0, <1>5 DEF Authorize, StripeCancels
    <3>2. ASSUME NEW t, Asks(i, t), t \in Nat PROVE Asks(onBooking, t)'
      <4>1. intent[i].amount \in Nat
          BY <1>0
      <4> QED
          BY <2>1, <2>3, <3>1, <3>2, <4>1 DEF Asks
    <3>3. \A c \in Calls : call[c].prev \in Nat
        BY DEF TypeInv, TypeOK
    <3>4. ASSUME NEW c \in Calls, Asks(i, call[c].prev) PROVE Asks(onBooking, call[c].prev)'
        BY <1>5, <3>2, <3>3, <3>4 DEF Asks
    <3>5. Asks(i, total) => Asks(onBooking, total)'
        BY <1>0, <1>5, <3>2 DEF Asks
    <3> QED
        BY <1>5, <2>1, <2>3, <3>4, <3>5 DEF AmountInv, At, NewTotal
  <2> QED
      BY <2>2, <2>3
<1>6. CASE (Tick /\ UNCHANGED <<total, call>>) \/ UNCHANGED vars
    BY <1>2, <1>6 DEF Tick, vars
<1> QED
    BY <1>1, <1>4, <1>5, <1>6 DEF Next, PayNext, priceVars

\* The customer is asked for the booking's total, and an authorization covers it:
\* whatever is adjusted, as long as adjustments do not overlap and are synced.
THEOREM IntentIsInStep == Spec => []IntentAsksForTotal
<1>1. Init => HeardInv /\ AmountInv
    BY PriceAssumption
       DEF Init, PriceInit, NoCall, Stage, Request, Requests, HeardInv, AmountInv, At
<1>2. AmountInv => IntentAsksForTotal
    BY DEF AmountInv, IntentAsksForTotal, Asks
<1> QED
    BY <1>1, <1>2, InitType, NextType, HeardStep, AmountStep, PTL DEF Spec

-----------------------------------------------------------------------------
(* The ledger.                                                             *)

\* The two sums of the invariant are finite ones.
LEMMA SumTypes ==
    ASSUME TypeInv
    PROVE  /\ IsFiniteSet(Events) /\ IsFiniteSet(Calls)
           /\ ledger \in [Events -> Int] /\ SumFunction(ledger) \in Int
           /\ [c \in Calls |-> Owed(c)] \in [Calls -> Int] /\ Unfinished \in Int
           /\ \A c \in Calls : Owed(c) \in Int
<1>1. IsFiniteSet(Events)
  <2>1. IsFiniteSet({"coupon"}) /\ IsFiniteSet({"addon"}) /\ IsFiniteSet({"delay"})
      BY FS_Singleton
  <2>2. IsFiniteSet({"coupon", "member"})
    <3>1. IsFiniteSet({"coupon"} \union {"member"})
        BY <2>1, FS_AddElement
    <3> QED
        BY <3>1
  <2>3. IsFiniteSet(Undoable)
    <3>1. IsFiniteSet({"coupon", "member"} \union {"smart"})
        BY <2>2, FS_AddElement
    <3> QED
        BY <3>1 DEF Undoable
  <2>4. IsFiniteSet({"addon", "aaf"})
    <3>1. IsFiniteSet({"addon"} \union {"aaf"})
        BY <2>1, FS_AddElement
    <3> QED
        BY <3>1
  <2>5. IsFiniteSet({"delay", "refresh"})
    <3>1. IsFiniteSet({"delay"} \union {"refresh"})
        BY <2>1, FS_AddElement
    <3> QED
        BY <3>1
  <2>6. IsFiniteSet(Claims)
      BY <2>3, <2>4, FS_Union DEF Claims
  <2> QED
      BY <2>5, <2>6, FS_Union DEF Events
<1>2. IsFiniteSet(Calls)
    BY PriceAssumption
<1>3. ledger \in [Events -> Int]
    BY DEF TypeInv, TypeOK
<1>4. SumFunction(ledger) \in Int
    BY <1>1, <1>3, SumType
<1>5. \A c \in Calls : Owed(c) \in Int
    BY DEF TypeInv, TypeOK, Owed
<1> DEFINE owed == [c \in Calls |-> Owed(c)]
<1>6. owed \in [Calls -> Int]
    BY <1>5
<1>7. SumFunction(owed) \in Int
  <2> HIDE DEF owed
  <2> QED
      BY <1>2, <1>6, SumType
<1> QED
    BY <1>1, <1>2, <1>3, <1>4, <1>5, <1>6, <1>7 DEF Unfinished

\* A step of one request changes what is unfinished by what that request owes.
LEMMA UnfinishedChanges ==
    ASSUME TypeInv, TypeInv', NEW c \in Calls, \A d \in Calls \ {c} : call'[d] = call[d]
    PROVE  Unfinished' = Unfinished - Owed(c) + Owed(c)'
<1> DEFINE f == [d \in Calls |-> Owed(d)]
           g == [d \in Calls |-> Owed(d)']
<1>1. f \in [Calls -> Int] /\ IsFiniteSet(Calls)
    BY SumTypes
<1>2. g \in [Calls -> Int]
    BY DEF TypeInv, TypeOK, Owed
<1>3. \A d \in Calls \ {c} : g[d] = f[d]
    BY DEF Owed
<1>4. f[c] = Owed(c) /\ g[c] = Owed(c)'
    OBVIOUS
<1>5. Unfinished = SumFunction(f) /\ Unfinished' = SumFunction(g)
    BY DEF Unfinished
<1> HIDE DEF f, g
<1>6. SumFunction(g) = SumFunction(f) - f[c] + g[c]
    BY <1>1, <1>2, <1>3, SumChanges
<1> QED
    BY <1>4, <1>5, <1>6

\* A row changes the ledger's sum by its amount.
LEMMA LedgerChanges ==
    ASSUME TypeInv, NEW e \in Events, NEW a \in Int,
           ledger' = [ledger EXCEPT ![e] = @ + a]
    PROVE  SumFunction(ledger') = SumFunction(ledger) + a
<1>1. ledger \in [Events -> Int] /\ IsFiniteSet(Events) /\ SumFunction(ledger) \in Int
    BY SumTypes
<1>2. ledger[e] \in Int
    BY <1>1
<1> DEFINE f == ledger
           g == ledger'
<1>3. g \in [Events -> Int] /\ g[e] = f[e] + a /\ \A y \in Events \ {e} : g[y] = f[y]
    BY <1>1
<1> HIDE DEF g
<1>4. SumFunction(g) = SumFunction(f) - f[e] + g[e]
    BY <1>1, <1>3, SumChanges
<1> QED
    BY <1>1, <1>2, <1>3, <1>4 DEF g

\* A request that has not written the total, or has nothing left to record, owes
\* the ledger nothing; one that has, its adjustment.
LEMMA OwedThen ==
    ASSUME NEW c \in Calls
    PROVE  /\ call[c].pc \notin {"sync", "record"} => Owed(c) = 0
           /\ call[c].pc \in {"sync", "record"} => Owed(c) = call[c].adj
           /\ call'[c].pc \notin {"sync", "record"} => Owed(c)' = 0
           /\ call'[c].pc \in {"sync", "record"} => Owed(c)' = call'[c].adj
BY DEF Owed

\* Every step of a request keeps the ledger, the total and what is between them
\* in balance.
LEMMA LedgerCallStep ==
    ASSUME TypeInv, TypeInv', StagesInv, LedgerExplainsTotal, NEW c \in Calls, CallNext(c)
    PROVE  LedgerExplainsTotal'
<1>0. /\ total \in Int /\ unrecorded \in Int /\ SumFunction(ledger) \in Int /\ Unfinished \in Int
      /\ Quote \in Int /\ NewQuote \in Int
      /\ call[c].adj \in Int /\ call[c].prev \in Int
      /\ total = Quote + SumFunction(ledger) + Unfinished + unrecorded
    BY SumTypes, PriceAssumption DEF TypeInv, TypeOK, LedgerExplainsTotal
<1> DEFINE sum == SumFunction(ledger)
           new == SumFunction(ledger')
<1>1. ASSUME \A d \in Calls \ {c} : call'[d] = call[d],
             NEW before \in Int, Owed(c) = before, NEW after \in Int, Owed(c)' = after,
             total' = Quote + new + (Unfinished - before + after) + unrecorded'
      PROVE  LedgerExplainsTotal'
  <2>1. Unfinished' = Unfinished - before + after
      BY <1>1, UnfinishedChanges
  <2> QED
      BY <1>1, <2>1 DEF LedgerExplainsTotal
<1>2. ASSUME \A d \in Calls \ {c} : call'[d] = call[d],
             Owed(c) = 0, Owed(c)' = 0, UNCHANGED <<total, ledger, unrecorded>>
      PROVE  LedgerExplainsTotal'
  <2>1. total' = Quote + new + (Unfinished - 0 + 0) + unrecorded'
      BY <1>0, <1>2
  <2> QED
      BY <1>1, <1>2, <2>1
<1>3. ASSUME NEW o \in Claims, Claim(c, o) \/ NoClaim(c, o) PROVE LedgerExplainsTotal'
    BY <1>2, <1>3, EnterFacts, OwedThen DEF Claim, NoClaim, Takes, At, Over
<1>4. CASE ApproveInvalid(c)
    BY <1>2, <1>4, EnterFacts, OwedThen DEF ApproveInvalid, Takes, At, Over
<1>5. CASE Delay(c)
  <2>1. PICK fee \in Brackets, charged \in Nat :
           Enter(c, Stage("delay", IF fee = charged THEN "done" ELSE "read", fee - charged))
      BY <1>5, DelayFacts
  <2>2. call'[c].pc \in {"done", "read"} /\ \A d \in Calls \ {c} : call'[d] = call[d]
      BY <2>1, EnterFacts
  <2> QED
      BY <1>2, <1>5, <2>2, OwedThen DEF Delay, At
<1>6. CASE RefreshRead(c)
  <2>1. call'[c].pc = "overwrite" /\ \A d \in Calls \ {c} : call'[d] = call[d]
      BY <1>6 DEF RefreshRead, Enter, TypeInv, TypeOK
  <2> QED
      BY <1>2, <1>6, <2>1, OwedThen DEF RefreshRead, At
<1>7. CASE Overwrite(c)
  <2> DEFINE change == NewQuote - call[c].prev
  <2>1. /\ Owed(c) = 0
        /\ \A d \in Calls \ {c} : call'[d] = call[d]
        /\ change = 0 => Owed(c)' = 0
        /\ change # 0 => Owed(c)' = change
    <3>1. call[c].pc = "overwrite"
        BY <1>7 DEF Overwrite, At
    <3>2. CASE NewQuote = call[c].prev
        BY <1>0, <1>7, <3>1, <3>2, EnterFacts, OwedThen DEF Overwrite, Over
    <3>3. CASE NewQuote # call[c].prev
        BY <1>0, <1>7, <3>1, <3>3, EnterFacts, OwedThen DEF Overwrite
    <3> QED
        BY <3>2, <3>3
  <2>2. Owed(c)' = change /\ change \in Int
      BY <1>0, <2>1
  <2>3. total' = NewQuote /\ unrecorded' = unrecorded + call[c].prev - total /\ ledger' = ledger
      BY <1>7 DEF Overwrite
  <2>4. total' = Quote + new + (Unfinished - 0 + change) + unrecorded'
      BY <1>0, <2>3
  <2> HIDE DEF change
  <2> QED
      BY <1>1, <2>1, <2>2, <2>4
<1>8. CASE Read(c) \/ WriteLost(c) \/ NoteUse(c) \/ Undo(c)
  <2>1. /\ \A d \in Calls \ {c} : call'[d] = call[d]
        /\ call[c].pc \notin {"sync", "record"} /\ call'[c].pc \notin {"sync", "record"}
    <3>1. Adjust(c)
        BY <1>8 DEF Adjust
    <3>2. call[c].pc \in {"read", "write", "note", "undo"}
        BY <1>8 DEF Read, WriteLost, NoteUse, Undo, At
    <3>3. WriteLost(c) => call'[c].pc \in {"read", "undo"}
        BY EnterFacts DEF WriteLost, Throw
    <3> QED
        BY <1>8, <3>1, <3>2, <3>3, AdjustFacts DEF Read, NoteUse, Undo, At
  <2>2. UNCHANGED <<total, ledger, unrecorded>>
      BY <1>8 DEF Read, WriteLost, NoteUse, Undo
  <2> QED
      BY <1>2, <2>1, <2>2, OwedThen
<1>9. CASE Write(c)
  <2>1. /\ call'[c].pc = "sync" /\ call'[c].adj = call[c].adj
        /\ \A d \in Calls \ {c} : call'[d] = call[d]
      BY <1>9 DEF Write, Goto, TypeInv, TypeOK
  <2>2. Owed(c) = 0 /\ Owed(c)' = call[c].adj
      BY <1>9, <2>1, OwedThen DEF Write, At
  <2>3. total' = total + call[c].adj /\ UNCHANGED <<ledger, unrecorded>>
      BY <1>9 DEF Write, NewTotal
  <2>4. total' = Quote + new + (Unfinished - 0 + call[c].adj) + unrecorded'
      BY <1>0, <2>3
  <2> QED
      BY <1>0, <1>1, <2>1, <2>2, <2>4
<1>10. CASE Sync(c)
  <2>1. /\ call'[c].pc = "record" /\ call'[c].adj = call[c].adj
        /\ \A d \in Calls \ {c} : call'[d] = call[d]
      BY <1>10, EnterFacts DEF Sync
  <2>2. Owed(c) = call[c].adj /\ Owed(c)' = call[c].adj
      BY <1>10, <2>1, OwedThen DEF Sync, At
  <2>3. UNCHANGED <<total, ledger, unrecorded>>
      BY <1>10 DEF Sync
  <2>4. total' = Quote + new + (Unfinished - call[c].adj + call[c].adj) + unrecorded'
      BY <1>0, <2>3
  <2> QED
      BY <1>0, <1>1, <2>1, <2>2, <2>4
<1>11. CASE Record(c)
  <2>1. /\ call'[c].pc \in {"note", "done"}
        /\ \A d \in Calls \ {c} : call'[d] = call[d]
      BY <1>11, EnterFacts DEF Record, Finish, Over
  <2>2. Owed(c) = call[c].adj /\ Owed(c)' = 0
      BY <1>11, <2>1, OwedThen DEF Record, At
  <2>3. call[c].op \in Events
      BY <1>11 DEF Record, At, StagesInv, TypeInv, TypeOK
  <2>4. new = sum + call[c].adj
      BY <1>0, <1>11, <2>3, LedgerChanges DEF Record
  <2>5. UNCHANGED <<total, unrecorded>>
      BY <1>11 DEF Record
  <2> HIDE DEF new
  <2>6. total' = Quote + new + (Unfinished - call[c].adj + 0) + unrecorded'
      BY <1>0, <2>4, <2>5
  <2> QED
      BY <1>0, <1>1, <2>1, <2>2, <2>6
<1>12. CASE RecordFails(c)
  <2>1. /\ call'[c].pc \in {"undo", "done"}
        /\ \A d \in Calls \ {c} : call'[d] = call[d]
      BY <1>12, EnterFacts DEF RecordFails, Finish, Over, Throw
  <2>2. Owed(c) = call[c].adj /\ Owed(c)' = 0
      BY <1>12, <2>1, OwedThen DEF RecordFails, At
  <2>3. unrecorded' = unrecorded + call[c].adj /\ UNCHANGED <<total, ledger>>
      BY <1>12 DEF RecordFails
  <2>4. total' = Quote + new + (Unfinished - call[c].adj + 0) + unrecorded'
      BY <1>0, <2>3
  <2> QED
      BY <1>0, <1>1, <2>1, <2>2, <2>4
<1> QED
    BY <1>3, <1>4, <1>5, <1>6, <1>7, <1>8, <1>9, <1>10, <1>11, <1>12 DEF CallNext, Adjust

\* At the start there is nothing to explain.
LEMMA LedgerInit == Init => LedgerExplainsTotal
<1> SUFFICES ASSUME Init PROVE LedgerExplainsTotal
    OBVIOUS
<1>1. TypeInv
    BY InitType
<1>2. /\ IsFiniteSet(Events) /\ IsFiniteSet(Calls)
      /\ ledger \in [Events -> Int]
      /\ [c \in Calls |-> Owed(c)] \in [Calls -> Int]
    BY <1>1, SumTypes
<1>3. \A e \in Events : ledger[e] = 0
    BY DEF Init, PriceInit
<1>4. \A c \in Calls : Owed(c) = 0
    BY DEF Init, PriceInit, Owed, NoCall, Stage
<1>5. SumFunction(ledger) = 0
  <2>1. SumFunction(ledger) = SumFunctionOnSet(ledger, {})
      BY <1>2, <1>3, SumIgnoresZeros
  <2> QED
      BY <1>2, <2>1, SumTakesOut
<1>6. Unfinished = 0
  <2> DEFINE owed == [c \in Calls |-> Owed(c)]
  <2>1. \A c \in Calls : owed[c] = 0
      BY <1>4
  <2> HIDE DEF owed
  <2>2. SumFunction(owed) = SumFunctionOnSet(owed, {})
      BY <1>2, <2>1, SumIgnoresZeros DEF owed
  <2>3. SumFunctionOnSet(owed, {}) = 0
      BY <1>2, SumTakesOut DEF owed
  <2> QED
      BY <2>2, <2>3 DEF Unfinished, owed
<1>7. total = Quote /\ unrecorded = 0 /\ Quote \in Nat
    BY PriceAssumption DEF Init, PriceInit
<1> QED
    BY <1>5, <1>6, <1>7 DEF LedgerExplainsTotal

\* LedgerExplainsTotal: the ledger, what is about to be written to it, and what
\* failures and refreshes left out of it add up to the total at every moment.
THEOREM TotalIsExplained == Spec => []LedgerExplainsTotal
<1>1. TypeInv /\ TypeInv' /\ ClaimedInv /\ LedgerExplainsTotal /\ [Next]_vars => LedgerExplainsTotal'
  <2> SUFFICES ASSUME TypeInv, TypeInv', ClaimedInv, LedgerExplainsTotal, [Next]_vars
               PROVE  LedgerExplainsTotal'
      OBVIOUS
  <2>1. ASSUME NEW c \in Calls, CallNext(c) PROVE LedgerExplainsTotal'
      BY <2>1, LedgerCallStep DEF ClaimedInv
  <2>2. CASE UNCHANGED priceVars
    <3>1. UNCHANGED <<total, ledger, unrecorded, call>>
        BY <2>2 DEF priceVars
    <3>2. Unfinished' = Unfinished
        BY <3>1 DEF Unfinished, Owed
    <3> QED
        BY <3>1, <3>2 DEF LedgerExplainsTotal
  <2> QED
      BY <2>1, <2>2 DEF Next, vars, priceVars
<1> QED
    BY <1>1, LedgerInit, Claimed, PTL DEF Spec

=============================================================================
