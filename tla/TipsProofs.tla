------------------------------ MODULE TipsProofs ------------------------------
(***************************************************************************)
(* Proofs about Tips, for any number of submits, releases and members, and *)
(* any combination of failures.                                            *)
(***************************************************************************)
EXTENDS Tips, TLAPS

Made(i) == intent[i].status # "none"

\* While Stripe remembers the key, it stands for the one intent there is.
OneIntentInv == "expire" \notin failed => \A i \in Intents : Made(i) => i = key

\* Whose rows a submit at work holds, and which intent a row and an event are of.
SubmitInv(s) ==
    /\ submit[s].pc \in {"idle", "claim", "create"} => ~Made(s)
    /\ submit[s].pc \in {"idle", "done"} => submit[s].got = {}
    /\ submit[s].pc \in {"create", "store"} => submit[s].got # {}
    /\ submit[s].intent # NoIntent => Made(submit[s].intent)
    /\ submit[s].pc = "store" =>
          /\ submit[s].intent # NoIntent
          /\ submit[s].got = intent[submit[s].intent].rows

IntentInv(i) ==
    /\ event[i] = "none" <=> intent[i].status # "charged"
    /\ intent[i].declined => Made(i)

RowInv(m) == row[m].intent # NoIntent =>
                Made(row[m].intent) /\ m \in intent[row[m].intent].rows

StagesInv ==
    /\ \A s \in Submits : SubmitInv(s)
    /\ key # NoIntent => Made(key)
    /\ \A i \in Intents : IntentInv(i)
    /\ \A m \in Crew : RowInv(m)

Backed(m) == \E i \in Charged : m \in intent[i].rows

\* A row that says succeeded, and all that a release does with it, is backed by a
\* charge.
BackedInv ==
    /\ \A m \in Crew : row[m].status = "succeeded" \/ moved[m] # {} => Backed(m)
    /\ \A r \in Releases :
          /\ \A tip \in release[r].todo : Backed(tip[1])
          /\ release[r].pc = "transfer" => Backed(release[r].at)

\* The rows of an intent that was handed out.
Given(i) == \A m \in intent[i].rows :
               /\ row[m].intent = i
               /\ ~Owned(m)
               /\ row[m].status = (IF event[i] = "handled" THEN "succeeded" ELSE "pending")

\* As long as no card was declined, a row belongs to one submit, and then to the
\* intent that this submit has handed out.
HandedOver ==
    /\ \A s, t \in Submits : submit[s].got \intersect submit[t].got # {} => s = t
    /\ \A s \in Submits : \A m \in submit[s].got : row[m].status = "pending"
    /\ \A i \in Charged : Known(i)
    /\ \A i \in Intents : Known(i) => Given(i)

\* Without a crash, nothing is left behind.
NoneLeft ==
    /\ \A m \in Crew : row[m].status = "pending" /\ ~Owned(m) =>
          row[m].intent # NoIntent /\ Known(row[m].intent)
    /\ \A i \in Intents : event[i] # "lost"

SettleInv ==
    /\ AtFirstTry => HandedOver
    /\ AtFirstTry /\ "crash" \notin failed => NoneLeft

-----------------------------------------------------------------------------
(* Type correctness.                                                       *)

\* What a submit may turn into.
LEMMA SubmitStateType ==
    ASSUME NEW x \in SubmitStates
    PROVE  /\ \A i \in Named :
                 [x EXCEPT !.pc = "done", !.todo = {}, !.got = {}, !.intent = i] \in SubmitStates
           /\ \A a \in Amount, todo \in SUBSET Crew :
                 [x EXCEPT !.pc = "claim", !.amount = a, !.todo = todo] \in SubmitStates
           /\ \A m \in Crew, got \in SUBSET Crew :
                 /\ [x EXCEPT !.todo = @ \ {m}, !.got = got] \in SubmitStates
                 /\ [x EXCEPT !.pc = "create", !.todo = {}, !.got = got] \in SubmitStates
           /\ [x EXCEPT !.pc = "fail"] \in SubmitStates
           /\ \A i \in Named : [x EXCEPT !.pc = "store", !.intent = i] \in SubmitStates
BY DEF SubmitStates

\* What a row may turn into.
LEMMA RowStateType ==
    ASSUME NEW x \in RowStates
    PROVE  /\ \A v \in {"pending", "succeeded", "failed"} : [x EXCEPT !.status = v] \in RowStates
           /\ \A a \in Amount : [x EXCEPT !.status = "pending", !.amount = a] \in RowStates
           /\ \A i \in Named : [x EXCEPT !.intent = i] \in RowStates
           /\ \A b \in BOOLEAN : [x EXCEPT !.paid = b] \in RowStates
BY DEF RowStates

\* What an intent may turn into.
LEMMA IntentStateType ==
    ASSUME NEW x \in IntentStates
    PROVE  /\ [x EXCEPT !.status = "charged"] \in IntentStates
           /\ [x EXCEPT !.declined = TRUE] \in IntentStates
BY DEF IntentStates

\* What a release may turn into.
LEMMA ReleaseStateType ==
    ASSUME NEW x \in ReleaseStates
    PROVE  /\ \A todo \in SUBSET (Crew \X Amount) :
                 [x EXCEPT !.pc = "pay", !.todo = todo] \in ReleaseStates
           /\ \A tip \in Crew \X Amount :
                 /\ [x EXCEPT !.todo = @ \ {tip}] \in ReleaseStates
                 /\ [x EXCEPT !.pc = "transfer", !.todo = @ \ {tip},
                              !.at = tip[1], !.amount = tip[2]] \in ReleaseStates
           /\ [x EXCEPT !.pc = "pay"] \in ReleaseStates
           /\ [x EXCEPT !.pc = "unclaim"] \in ReleaseStates
BY DEF ReleaseStates

\* The fields that the steps use.
LEMMA FieldType ==
    ASSUME TypeOK
    PROVE  /\ \A s \in Submits : /\ submit[s] \in SubmitStates
                                 /\ submit[s].amount \in Amount
                                 /\ submit[s].got \in SUBSET Crew
                                 /\ submit[s].intent \in Named
           /\ \A m \in Crew : row[m] \in RowStates /\ row[m].amount \in Amount
           /\ \A i \in Intents : intent[i] \in IntentStates
           /\ \A r \in Releases : /\ release[r] \in ReleaseStates
                                  /\ release[r].todo \in SUBSET (Crew \X Amount)
                                  /\ release[r].at \in Crew
                                  /\ release[r].amount \in Amount
BY DEF TypeOK, SubmitStates, RowStates, IntentStates, ReleaseStates

LEMMA InitType == Init => TypeOK
<1> SUFFICES ASSUME Init  PROVE TypeOK
  OBVIOUS
<1>1. row \in [Crew -> RowStates]
  BY DEF Init, RowStates, Amount, Named
<1>2. intent \in [Intents -> IntentStates]
  BY DEF Init, IntentStates, Amount
<1>3. submit \in [Submits -> SubmitStates]
  BY DEF Init, SubmitStates, Amount, Named
<1>4. release \in [Releases -> ReleaseStates]
  BY TipsAssumption DEF Init, ReleaseStates, Amount
<1>. QED
  BY <1>1, <1>2, <1>3, <1>4 DEF Init, TypeOK, Named, AllFaults

\* A submit that goes on.
LEMMA TurnType ==
    ASSUME TypeOK, NEW s \in Submits, NEW x \in SubmitStates, Turn(s, x)
    PROVE  submit' \in [Submits -> SubmitStates]
BY DEF TypeOK, Turn

\* A submit that ends.
LEMMA OverType ==
    ASSUME TypeOK, NEW s \in Submits, NEW i \in Named, Over(s, i)
    PROVE  submit' \in [Submits -> SubmitStates]
BY FieldType, SubmitStateType DEF TypeOK, Over, Turn

\* The intent that a submit makes, if it makes one.
LEMMA MadeType ==
    ASSUME TypeOK, NEW s \in Submits, MakesIntent(s)
    PROVE  /\ intent' \in [Intents -> IntentStates]
           /\ key' \in Named
           /\ event' = event
<1>1. [status |-> "open", amount |-> submit[s].amount, rows |-> submit[s].got,
       declined |-> FALSE] \in IntentStates
  BY FieldType DEF IntentStates
<1>. QED  BY <1>1 DEF TypeOK, MakesIntent, Named, Intents

\* The steps of a submit.
LEMMA SubmitType ==
    ASSUME TypeOK, NEW s \in Submits, SubmitStep(s)
    PROVE  TypeOK'
<1>0. /\ NoIntent \in Named
      /\ s \in Named
      /\ key \in Named
      /\ Amounts \subseteq Amount
  BY DEF TypeOK, Named, Intents, Amount
<1>1. CASE Begin(s)
  <2>1. Members \in SUBSET Crew
    BY TipsAssumption DEF Members
  <2>2. CASE Over(s, NoIntent)
    BY <1>0, <1>1, <2>2, OverType DEF Begin, TypeOK, stripe, payout
  <2>3. CASE \E a \in Amounts :
               Turn(s, [submit[s] EXCEPT !.pc = "claim", !.amount = a, !.todo = Members])
    <3>0. PICK a \in Amounts :
              Turn(s, [submit[s] EXCEPT !.pc = "claim", !.amount = a, !.todo = Members])
      BY <2>3
    <3>. DEFINE x == [submit[s] EXCEPT !.pc = "claim", !.amount = a, !.todo = Members]
    <3>2. x \in SubmitStates
      BY <1>0, <2>1, FieldType, SubmitStateType
    <3>1. submit' \in [Submits -> SubmitStates]
      BY <3>0, <3>2, TurnType
    <3>. QED  BY <1>1, <3>1 DEF Begin, TypeOK, stripe, payout
  <2>. QED  BY <1>1, <2>2, <2>3 DEF Begin
<1>2. CASE \E m \in Crew : ClaimRow(s, m)
  <2>1. PICK m \in Crew : ClaimRow(s, m)
    BY <1>2
  <2>2. row' \in [Crew -> RowStates]
    <3>1. [row[m] EXCEPT !.status = "pending", !.amount = submit[s].amount] \in RowStates
      BY FieldType, RowStateType
    <3>2. row' = row \/ row' = [row EXCEPT ![m] = [row[m] EXCEPT !.status = "pending",
                                                    !.amount = submit[s].amount]]
      BY <2>1 DEF ClaimRow, TypeOK
    <3>. QED  BY <3>1, <3>2 DEF TypeOK
  <2>3. ASSUME NEW got \in SUBSET Crew, Looked(s, m, got)
        PROVE  submit' \in [Submits -> SubmitStates]
    <3>1. /\ [submit[s] EXCEPT !.todo = @ \ {m}, !.got = got] \in SubmitStates
          /\ [submit[s] EXCEPT !.pc = "create", !.todo = {}, !.got = got] \in SubmitStates
      BY FieldType, SubmitStateType
    <3>. QED  BY <1>0, <2>3, <3>1, OverType, TurnType DEF Looked
  <2>4. submit' \in [Submits -> SubmitStates]
    BY <2>1, <2>3, FieldType DEF ClaimRow
  <2>. QED  BY <2>1, <2>2, <2>4 DEF ClaimRow, TypeOK, stripe, payout
<1>3. CASE Create(s)
  <2>1. submit' \in [Submits -> SubmitStates]
    BY <1>0, <1>3, FieldType, SubmitStateType DEF Create, Stores, TypeOK, Turn
  <2>. QED  BY <1>3, <2>1, MadeType DEF Create, TypeOK, payout
<1>4. CASE Replay(s)
  <2>1. submit' \in [Submits -> SubmitStates]
    <3>1. /\ [submit[s] EXCEPT !.pc = "store", !.intent = key] \in SubmitStates
          /\ [submit[s] EXCEPT !.pc = "fail"] \in SubmitStates
      BY <1>0, FieldType, SubmitStateType
    <3>. QED  BY <1>4, <3>1, TurnType DEF Replay, Stores, Goto
  <2>. QED  BY <1>4, <2>1 DEF Replay, TypeOK, stripe, payout
<1>5. CASE CreateFails(s)
  <2>1. submit' \in [Submits -> SubmitStates]
    BY <1>5, FieldType, SubmitStateType DEF CreateFails, Goto, TypeOK, Turn
  <2>2. failed' \subseteq AllFaults
    BY <1>5, TipsAssumption DEF CreateFails, Fail, May, TypeOK
  <2>3. /\ intent' \in [Intents -> IntentStates]
        /\ key' \in Named
        /\ event' = event
    BY <1>5, MadeType DEF CreateFails, TypeOK, stripe
  <2>. QED  BY <1>5, <2>1, <2>2, <2>3 DEF CreateFails, TypeOK, payout
<1>6. CASE MarkFailed(s)
  <2>1. row' \in [Crew -> RowStates]
    BY <1>6, FieldType, RowStateType DEF MarkFailed
  <2>. QED  BY <1>0, <1>6, <2>1, OverType DEF MarkFailed, TypeOK, stripe, payout
<1>7. CASE Store(s)
  <2>1. row' \in [Crew -> RowStates]
    BY <1>7, FieldType, RowStateType DEF Store
  <2>. QED  BY <1>7, <2>1, FieldType, OverType DEF Store, TypeOK, stripe, payout
<1>8. CASE Crash(s)
  BY <1>0, <1>8, OverType, TipsAssumption DEF Crash, TypeOK, stripe, payout, Fail, May
<1>. QED
  BY <1>1, <1>2, <1>3, <1>4, <1>5, <1>6, <1>7, <1>8 DEF SubmitStep

\* An event that marks the rows of its intent.
LEMMA MarkType ==
    ASSUME TypeOK, NEW i, NEW v \in {"succeeded", "failed"}, Mark(i, v)
    PROVE  row' \in [Crew -> RowStates]
BY FieldType, RowStateType DEF Mark

\* The steps of the customer and of Stripe.
LEMMA CardType ==
    ASSUME TypeOK, NEW i \in Intents, CardStep(i)
    PROVE  TypeOK'
<1>1. CASE Pay(i)
  BY <1>1, FieldType, IntentStateType DEF TypeOK, Pay, payout
<1>2. CASE Decline(i)
  BY <1>2, FieldType, IntentStateType DEF TypeOK, Decline, payout
<1>3. CASE HandleFailed(i)
  BY <1>3, MarkType DEF TypeOK, HandleFailed, stripe, payout
<1>4. CASE Receive(i)
  BY <1>4 DEF TypeOK, Receive, payout
<1>5. CASE HandleSucceeded(i)
  BY <1>5, MarkType DEF TypeOK, HandleSucceeded, payout
<1>6. CASE EventLost(i)
  BY <1>6, TipsAssumption DEF TypeOK, EventLost, Fail, May, payout
<1>. QED
  BY <1>1, <1>2, <1>3, <1>4, <1>5, <1>6 DEF CardStep

\* The steps of a release.
LEMMA ReleaseType ==
    ASSUME TypeOK, NEW r \in Releases, ReleaseStep(r)
    PROVE  TypeOK'
<1>1. CASE Select(r)
  <2>1. Members \subseteq Crew
    BY TipsAssumption DEF Members
  <2>2. {<<m, row[m].amount>> : m \in {n \in Members : Unpaid(n)}} \in SUBSET (Crew \X Amount)
    BY <2>1, FieldType
  <2>3. release' \in [Releases -> ReleaseStates]
    BY <1>1, <2>2, FieldType, ReleaseStateType DEF TypeOK, Select, To
  <2>4. released' \in BOOLEAN
    BY <1>1 DEF Select
  <2>. QED  BY <1>1, <2>3, <2>4 DEF TypeOK, Select, stripe
<1>2. CASE \E tip \in release[r].todo : ClaimTip(r, tip)
  <2>1. PICK tip \in release[r].todo : ClaimTip(r, tip)
    BY <1>2
  <2>2. tip \in Crew \X Amount
    BY <2>1, FieldType
  <2>3. release' \in [Releases -> ReleaseStates]
    <3>. DEFINE x == [release[r] EXCEPT !.todo = @ \ {tip}]
                y == [release[r] EXCEPT !.pc = "transfer", !.todo = @ \ {tip},
                                        !.at = tip[1], !.amount = tip[2]]
    <3>1. x \in ReleaseStates /\ y \in ReleaseStates
      BY <2>2, FieldType, ReleaseStateType
    <3>2. To(r, x) \/ To(r, y)
      BY <2>1 DEF ClaimTip
    <3>. QED  BY <3>1, <3>2 DEF TypeOK, To
  <2>4. row' \in [Crew -> RowStates]
    <3>1. tip[1] \in Crew /\ [row[tip[1]] EXCEPT !.paid = TRUE] \in RowStates
      BY <2>2, FieldType, RowStateType
    <3>2. row' = row \/ row' = [row EXCEPT ![tip[1]] = [row[tip[1]] EXCEPT !.paid = TRUE]]
      BY <2>1 DEF ClaimTip, TypeOK
    <3>. QED  BY <3>1, <3>2 DEF TypeOK
  <2>. QED  BY <2>1, <2>3, <2>4 DEF TypeOK, ClaimTip, stripe
<1>3. CASE TipPaid(r)
  <2>1. release' \in [Releases -> ReleaseStates]
    BY <1>3, FieldType, ReleaseStateType DEF TypeOK, TipPaid, To
  <2>. QED  BY <1>3, <2>1, FieldType DEF TypeOK, TipPaid, Transfer, stripe
<1>4. CASE TipFails(r)
  <2>1. release' \in [Releases -> ReleaseStates]
    BY <1>4, FieldType, ReleaseStateType DEF TypeOK, TipFails, To
  <2>2. moved' \in [Crew -> SUBSET Amount]
    BY <1>4, FieldType DEF TypeOK, TipFails, Transfer
  <2>3. failed' \subseteq AllFaults
    BY <1>4, TipsAssumption DEF TypeOK, TipFails, Fail, May
  <2>. QED  BY <1>4, <2>1, <2>2, <2>3 DEF TypeOK, TipFails, stripe
<1>5. CASE Unclaim(r)
  <2>1. release' \in [Releases -> ReleaseStates]
    BY <1>5, FieldType, ReleaseStateType DEF TypeOK, Unclaim, To
  <2>2. row' \in [Crew -> RowStates]
    BY <1>5, FieldType, RowStateType DEF TypeOK, Unclaim
  <2>. QED  BY <1>5, <2>1, <2>2 DEF TypeOK, Unclaim, stripe
<1>. QED
  BY <1>1, <1>2, <1>3, <1>4, <1>5 DEF ReleaseStep

LEMMA TypeStep == TypeOK /\ [Next]_vars => TypeOK'
<1> SUFFICES ASSUME TypeOK, [Next]_vars  PROVE TypeOK'
  OBVIOUS
<1>1. CASE KeyExpires
  BY <1>1, TipsAssumption DEF KeyExpires, TypeOK, Named, Fail, May, payout
<1>2. CASE Reopen
  BY <1>2 DEF Reopen, TypeOK, stripe
<1>3. CASE UNCHANGED vars
  BY <1>3 DEF TypeOK, vars
<1>. QED
  BY <1>1, <1>2, <1>3, SubmitType, CardType, ReleaseType DEF Next

\* Every reachable state is well typed.
THEOREM TypeCorrect == Spec => []TypeOK
<1>1. TypeOK /\ [Next]_vars => TypeOK'
  BY TypeStep
<1>. QED  BY <1>1, InitType, PTL DEF Spec

-----------------------------------------------------------------------------
(* What a step does to submits, rows and intents.                          *)

\* A submit that ends holds nothing any more.
LEMMA OverFacts ==
    ASSUME TypeOK, NEW s \in Submits, NEW i \in Named, Over(s, i)
    PROVE  /\ \A t \in Submits : t # s => submit'[t] = submit[t]
           /\ submit'[s].pc = "done"
           /\ submit'[s].got = {}
           /\ submit'[s].intent = i
BY DEF TypeOK, SubmitStates, Over, Turn

\* A submit that has looked at a row.
LEMMA LookedFacts ==
    ASSUME TypeOK, NEW s \in Submits, NEW m, NEW got \in SUBSET Crew, Looked(s, m, got)
    PROVE  /\ \A t \in Submits : t # s => submit'[t] = submit[t]
           /\ \/ /\ submit'[s].pc = submit[s].pc
                 /\ submit'[s].intent = submit[s].intent
                 /\ submit'[s].got = got
              \/ /\ submit'[s].pc = "create"
                 /\ submit'[s].intent = submit[s].intent
                 /\ submit'[s].got = got
                 /\ got # {}
              \/ /\ submit'[s].pc = "done"
                 /\ submit'[s].intent = NoIntent
                 /\ submit'[s].got = got
                 /\ got = {}
<1>1. CASE submit[s].todo # {m}
  <2>. DEFINE x == [submit[s] EXCEPT !.todo = @ \ {m}, !.got = got]
  <2>1. Turn(s, x)
    BY <1>1 DEF Looked
  <2>2. x.pc = submit[s].pc /\ x.intent = submit[s].intent /\ x.got = got
    BY FieldType, SMTT(30) DEF SubmitStates
  <2>3. submit'[s] = x /\ \A t \in Submits : t # s => submit'[t] = submit[t]
    BY <2>1 DEF TypeOK, Turn
  <2>. QED  BY <2>2, <2>3
<1>2. CASE submit[s].todo = {m} /\ got = {}
  BY <1>2, OverFacts DEF Looked, Named
<1>3. CASE submit[s].todo = {m} /\ got # {}
  <2>. DEFINE x == [submit[s] EXCEPT !.pc = "create", !.todo = {}, !.got = got]
  <2>1. Turn(s, x)
    BY <1>3 DEF Looked
  <2>2. x.pc = "create" /\ x.intent = submit[s].intent /\ x.got = got
    BY FieldType, SMTT(30) DEF SubmitStates
  <2>3. submit'[s] = x /\ \A t \in Submits : t # s => submit'[t] = submit[t]
    BY <2>1 DEF TypeOK, Turn
  <2>. QED  BY <1>3, <2>2, <2>3
<1>. QED  BY <1>1, <1>2, <1>3

\* A submit that has got an intent.
LEMMA StoresFacts ==
    ASSUME TypeOK, NEW s \in Submits, NEW i, Stores(s, i)
    PROVE  /\ \A t \in Submits : t # s => submit'[t] = submit[t]
           /\ submit'[s].pc = "store"
           /\ submit'[s].got = submit[s].got
           /\ submit'[s].intent = i
BY DEF TypeOK, SubmitStates, Stores, Turn

\* A submit that moves on.
LEMMA GotoFacts ==
    ASSUME TypeOK, NEW s \in Submits, NEW label, Goto(s, label)
    PROVE  /\ \A t \in Submits : t # s => submit'[t] = submit[t]
           /\ submit'[s].pc = label
           /\ submit'[s].got = submit[s].got
           /\ submit'[s].intent = submit[s].intent
BY DEF TypeOK, SubmitStates, Goto, Turn

\* A submit that begins.
LEMMA BeginFacts ==
    ASSUME TypeOK, NEW s \in Submits, Begin(s)
    PROVE  /\ \A t \in Submits : t # s => submit'[t] = submit[t]
           /\ \/ /\ submit'[s].pc = "claim"
                 /\ submit'[s].got = submit[s].got
                 /\ submit'[s].intent = submit[s].intent
              \/ /\ submit'[s].pc = "done"
                 /\ submit'[s].got = {}
                 /\ submit'[s].intent = NoIntent
<1>1. CASE Over(s, NoIntent)
  BY <1>1, OverFacts DEF Named
<1>2. CASE ~Over(s, NoIntent)
  <2>1. PICK a \in Amounts :
            Turn(s, [submit[s] EXCEPT !.pc = "claim", !.amount = a, !.todo = Members])
    BY <1>2 DEF Begin
  <2>. QED  BY <2>1 DEF TypeOK, SubmitStates, Turn
<1>. QED  BY <1>1, <1>2

\* The intent that a submit makes is a new one.
LEMMA MakesFacts ==
    ASSUME TypeOK, NEW s \in Submits, MakesIntent(s)
    PROVE  /\ \A i \in Intents : i # s => intent'[i] = intent[i]
           /\ intent'[s].status = "open"
           /\ intent'[s].rows = submit[s].got
           /\ intent'[s].declined = FALSE
           /\ key' = s
           /\ event' = event
BY DEF TypeOK, MakesIntent, Intents

\* What a step does to the intents: nothing, or one is made, charged or declined; and
\* it forgets the key when the key expires.
LEMMA IntentSteps ==
    ASSUME TypeOK, [Next]_vars
    PROVE  /\ failed \subseteq failed'
           /\ \/ UNCHANGED <<intent, key>>
              \/ \E s \in Submits : At(s, "create") /\ MakesIntent(s)
              \/ /\ "expire" \in failed'
                 /\ key' = NoIntent
                 /\ UNCHANGED intent
              \/ \E i \in Intents :
                    /\ intent[i].status = "open"
                    /\ \/ intent' = [intent EXCEPT ![i].status = "charged"]
                       \/ intent' = [intent EXCEPT ![i].declined = TRUE]
                    /\ UNCHANGED key
<1>1. CASE \E s \in Submits : SubmitStep(s)
  BY <1>1 DEF SubmitStep, Begin, ClaimRow, Create, Replay, CreateFails, MarkFailed, Store,
              Crash, Fail, stripe
<1>2. CASE \E i \in Intents : CardStep(i)
  BY <1>2 DEF CardStep, Pay, Decline, HandleFailed, Receive, HandleSucceeded, EventLost,
              Fail, stripe
<1>3. CASE \E r \in Releases : ReleaseStep(r)
  BY <1>3 DEF ReleaseStep, Select, ClaimTip, TipPaid, TipFails, Unclaim, Fail, stripe
<1>4. CASE KeyExpires \/ Reopen
  BY <1>4 DEF KeyExpires, Reopen, Fail, stripe
<1>5. CASE UNCHANGED vars
  BY <1>5 DEF vars
<1>. QED
  BY <1>1, <1>2, <1>3, <1>4, <1>5 DEF Next

\* An intent stays made, for its rows, charged and declined.
LEMMA IntentsStay ==
    ASSUME TypeOK, StagesInv, [Next]_vars, NEW i \in Intents, Made(i)
    PROVE  /\ intent'[i].status # "none"
           /\ intent'[i].rows = intent[i].rows
           /\ intent[i].status = "charged" => intent'[i].status = "charged"
           /\ intent[i].declined => intent'[i].declined
<1>1. CASE UNCHANGED intent
  BY <1>1 DEF Made
<1>2. CASE \E s \in Submits : At(s, "create") /\ MakesIntent(s)
  BY <1>2, MakesFacts DEF StagesInv, SubmitInv, At, Made
<1>3. CASE \E j \in Intents :
              /\ intent[j].status = "open"
              /\ \/ intent' = [intent EXCEPT ![j].status = "charged"]
                 \/ intent' = [intent EXCEPT ![j].declined = TRUE]
  BY <1>3 DEF TypeOK, IntentStates, Made
<1>. QED
  BY <1>1, <1>2, <1>3, IntentSteps

-----------------------------------------------------------------------------
(* One charge.                                                             *)

LEMMA OneIntentStep ==
    ASSUME TypeOK, OneIntentInv, [Next]_vars
    PROVE  OneIntentInv'
<1>1. failed \subseteq failed'
  BY IntentSteps
<1>2. CASE UNCHANGED <<intent, key>>
  BY <1>1, <1>2 DEF OneIntentInv, Made
<1>3. CASE \E s \in Submits : At(s, "create") /\ MakesIntent(s)
  <2>1. PICK s \in Submits : MakesIntent(s)
    BY <1>3
  <2>2. "expire" \notin failed => \A i \in Intents : ~Made(i)
    BY <2>1, TipsAssumption DEF MakesIntent, OneIntentInv, Intents
  <2>. QED  BY <1>1, <2>1, <2>2, MakesFacts DEF OneIntentInv, Made
<1>4. CASE "expire" \in failed'
  BY <1>4 DEF OneIntentInv
<1>5. CASE \E i \in Intents :
              /\ intent[i].status = "open"
              /\ \/ intent' = [intent EXCEPT ![i].status = "charged"]
                 \/ intent' = [intent EXCEPT ![i].declined = TRUE]
              /\ UNCHANGED key
  <2>1. \A i \in Intents : intent'[i].status # "none" => Made(i)
    BY <1>5 DEF TypeOK, IntentStates, Made
  <2>. QED  BY <1>1, <1>5, <2>1 DEF OneIntentInv, Made
<1>. QED
  BY <1>2, <1>3, <1>4, <1>5, IntentSteps

\* However often a tip is submitted, retried or lost, the card is charged once.
THEOREM ChargedOnce == Spec => []OneCharge
<1>1. Init => OneIntentInv
  BY DEF Init, OneIntentInv, Made
<1>2. TypeOK /\ OneIntentInv /\ [Next]_vars => OneIntentInv'
  BY OneIntentStep
<1>3. OneIntentInv => OneCharge
  BY DEF OneIntentInv, OneCharge, Charged, Made
<1>. QED  BY <1>1, <1>2, <1>3, TypeCorrect, PTL DEF Spec

-----------------------------------------------------------------------------
(* Stages.                                                                 *)

\* The same, of an intent that somebody knows.
LEMMA NamedStay ==
    ASSUME TypeOK, StagesInv, [Next]_vars, NEW i \in Named, i # NoIntent => Made(i)
    PROVE  i # NoIntent => intent'[i].status # "none" /\ intent'[i].rows = intent[i].rows
BY IntentsStay DEF Named, Made

\* The submits that a step leaves alone.
LEMMA OtherSubmits ==
    ASSUME TypeOK, StagesInv, [Next]_vars, NEW t \in Submits,
           submit'[t] = submit[t], Made(t)' => Made(t)
    PROVE  SubmitInv(t)'
<1>1. submit[t].intent \in Named /\ SubmitInv(t)
  BY FieldType DEF StagesInv
<1>2. submit[t].intent # NoIntent =>
         /\ intent'[submit[t].intent].status # "none"
         /\ intent'[submit[t].intent].rows = intent[submit[t].intent].rows
  BY <1>1, NamedStay DEF SubmitInv
<1>. QED  BY <1>1, <1>2 DEF SubmitInv, Made

\* The rows whose intent a step leaves alone.
LEMMA OtherRows ==
    ASSUME TypeOK, StagesInv, [Next]_vars, NEW m \in Crew, row'[m].intent = row[m].intent
    PROVE  RowInv(m)'
<1>1. row[m].intent \in Named /\ RowInv(m)
  BY DEF TypeOK, RowStates, StagesInv
<1>2. row[m].intent # NoIntent =>
         /\ intent'[row[m].intent].status # "none"
         /\ intent'[row[m].intent].rows = intent[row[m].intent].rows
  BY <1>1, NamedStay DEF RowInv
<1>. QED  BY <1>1, <1>2 DEF RowInv, Made

\* What a step of a submit does to submits, intents, events and the rows' intents.
LEMMA SubmitFacts ==
    ASSUME TypeOK, NEW s \in Submits, SubmitStep(s)
    PROVE  /\ \A t \in Submits : t # s => submit'[t] = submit[t]
           /\ \A i \in Intents : i # s => intent'[i] = intent[i]
           /\ UNCHANGED <<event, payout, kind>>
           /\ failed \subseteq failed'
           /\ \/ UNCHANGED <<intent, key>>
              \/ At(s, "create") /\ MakesIntent(s)
           /\ \A m \in Crew :
                 \/ row'[m].intent = row[m].intent
                 \/ At(s, "store") /\ m \in submit[s].got /\ row'[m].intent = submit[s].intent
<1>0. NoIntent \in Named /\ \A t \in Submits : submit[t].intent \in Named
  BY FieldType DEF Named
<1>1. CASE Begin(s)
  BY <1>1, BeginFacts DEF Begin, stripe, payout
<1>2. CASE \E m \in Crew : ClaimRow(s, m)
  <2>1. PICK m \in Crew : ClaimRow(s, m)
    BY <1>2
  <2>2. \E got \in SUBSET Crew : Looked(s, m, got)
    BY <2>1, FieldType DEF ClaimRow
  <2>3. \A n \in Crew : row'[n].intent = row[n].intent
    BY <2>1 DEF ClaimRow, TypeOK, RowStates
  <2>. QED  BY <2>1, <2>2, <2>3, LookedFacts DEF ClaimRow, stripe, payout
<1>3. CASE Create(s)
  BY <1>3, MakesFacts, StoresFacts DEF Create, payout
<1>4. CASE Replay(s)
  BY <1>4, GotoFacts, StoresFacts DEF Replay, stripe, payout
<1>5. CASE CreateFails(s)
  BY <1>5, MakesFacts, GotoFacts DEF CreateFails, stripe, payout, Fail
<1>6. CASE MarkFailed(s)
  <2>1. \A n \in Crew : row'[n].intent = row[n].intent
    BY <1>6 DEF MarkFailed, TypeOK, RowStates
  <2>. QED  BY <1>0, <1>6, <2>1, OverFacts DEF MarkFailed, stripe, payout
<1>7. CASE Store(s)
  <2>1. \A n \in Crew : row'[n].intent =
            IF n \in submit[s].got THEN submit[s].intent ELSE row[n].intent
    BY <1>7 DEF Store, TypeOK, RowStates
  <2>. QED  BY <1>0, <1>7, <2>1, OverFacts DEF Store, stripe, payout
<1>8. CASE Crash(s)
  BY <1>0, <1>8, OverFacts DEF Crash, stripe, payout, Fail
<1>. QED
  BY <1>1, <1>2, <1>3, <1>4, <1>5, <1>6, <1>7, <1>8 DEF SubmitStep

\* The submit that takes a step.
LEMMA ThisSubmit ==
    ASSUME TypeOK, StagesInv, [Next]_vars, NEW s \in Submits, SubmitStep(s)
    PROVE  SubmitInv(s)'
<1>0. /\ NoIntent \in Named
      /\ submit[s].intent \in Named
      /\ SubmitInv(s)
      /\ submit[s].intent # NoIntent =>
            /\ intent'[submit[s].intent].status # "none"
            /\ intent'[submit[s].intent].rows = intent[submit[s].intent].rows
  BY FieldType, NamedStay DEF Named, StagesInv, SubmitInv
<1>1. CASE Begin(s)
  BY <1>0, <1>1, BeginFacts DEF Begin, SubmitInv, At, Made, stripe
<1>2. CASE \E m \in Crew : ClaimRow(s, m)
  <2>1. PICK m \in Crew : ClaimRow(s, m)
    BY <1>2
  <2>2. PICK got \in SUBSET Crew : Looked(s, m, got)
    BY <2>1, FieldType DEF ClaimRow
  <2>. QED  BY <1>0, <2>1, <2>2, LookedFacts DEF ClaimRow, SubmitInv, At, Made, stripe
<1>3. CASE Create(s)
  <2>1. At(s, "create") /\ MakesIntent(s) /\ Stores(s, s)
    BY <1>3 DEF Create
  <2>2. /\ submit'[s].pc = "store"
        /\ submit'[s].got = submit[s].got
        /\ submit'[s].intent = s
    BY <2>1, StoresFacts
  <2>3. intent'[s].status = "open" /\ intent'[s].rows = submit[s].got
    BY <2>1, MakesFacts
  <2>4. s # NoIntent
    BY TipsAssumption
  <2>. QED  BY <1>0, <2>1, <2>2, <2>3, <2>4 DEF SubmitInv, At, Made
<1>4. CASE Replay(s)
  <2>1. /\ key \in Named
        /\ key # NoIntent => Made(key)
    BY DEF TypeOK, StagesInv
  <2>2. /\ key # NoIntent
        /\ intent'[key].status # "none"
        /\ intent'[key].rows = intent[key].rows
    BY <1>4, <2>1, NamedStay DEF Replay
  <2>3. CASE SameCall(s)
    BY <1>0, <1>4, <2>2, <2>3, StoresFacts DEF Replay, SameCall, SubmitInv, At, Made
  <2>4. CASE ~SameCall(s)
    BY <1>0, <1>4, <2>4, GotoFacts DEF Replay, SubmitInv, At, Made
  <2>. QED  BY <2>3, <2>4
<1>5. CASE CreateFails(s)
  BY <1>0, <1>5, GotoFacts DEF CreateFails, SubmitInv, At, Made
<1>6. CASE MarkFailed(s)
  BY <1>0, <1>6, OverFacts DEF MarkFailed, SubmitInv, At, Made
<1>7. CASE Store(s)
  BY <1>0, <1>7, OverFacts DEF Store, SubmitInv, At, Made
<1>8. CASE Crash(s)
  BY <1>0, <1>8, OverFacts DEF Crash, SubmitInv, At, Made
<1>. QED
  BY <1>1, <1>2, <1>3, <1>4, <1>5, <1>6, <1>7, <1>8 DEF SubmitStep

LEMMA StagesOfSubmit ==
    ASSUME TypeOK, StagesInv, [Next]_vars, NEW s \in Submits, SubmitStep(s)
    PROVE  StagesInv'
<1>1. ASSUME NEW t \in Submits  PROVE SubmitInv(t)'
  <2>1. CASE t = s
    BY <2>1, ThisSubmit
  <2>2. CASE t # s
    BY <2>2, SubmitFacts, OtherSubmits DEF Made, Intents
  <2>. QED  BY <2>1, <2>2
<1>2. (key # NoIntent => Made(key))'
  BY SubmitFacts, MakesFacts DEF StagesInv, Made
<1>3. ASSUME NEW i \in Intents  PROVE IntentInv(i)'
  <2>1. IntentInv(i) /\ event'[i] = event[i]
    BY SubmitFacts DEF StagesInv
  <2>2. CASE intent'[i] = intent[i]
    BY <2>1, <2>2 DEF IntentInv, Made
  <2>3. CASE intent'[i] # intent[i]
    <3>1. i = s /\ At(s, "create") /\ MakesIntent(s)
      BY <2>3, SubmitFacts
    <3>2. ~Made(s)
      BY <3>1 DEF StagesInv, SubmitInv, At
    <3>. QED  BY <2>1, <3>1, <3>2, MakesFacts DEF IntentInv, Made
  <2>. QED  BY <2>2, <2>3
<1>4. ASSUME NEW m \in Crew  PROVE RowInv(m)'
  <2>1. CASE row'[m].intent = row[m].intent
    BY <2>1, OtherRows
  <2>2. CASE row'[m].intent # row[m].intent
    <3>1. /\ At(s, "store")
          /\ m \in submit[s].got
          /\ row'[m].intent = submit[s].intent
      BY <2>2, SubmitFacts
    <3>2. submit[s].intent \in Named /\ SubmitInv(s)
      BY FieldType DEF StagesInv
    <3>3. /\ m \in intent[submit[s].intent].rows
          /\ submit[s].intent # NoIntent
          /\ Made(submit[s].intent)
      BY <3>1, <3>2 DEF SubmitInv, At
    <3>. QED  BY <3>1, <3>2, <3>3, NamedStay DEF RowInv, Made
  <2>. QED  BY <2>1, <2>2
<1>. QED  BY <1>1, <1>2, <1>3, <1>4 DEF StagesInv

\* The rows that an event marks keep their intent.
LEMMA MarkFacts ==
    ASSUME TypeOK, NEW i, NEW v, Mark(i, v)
    PROVE  \A m \in Crew : /\ row'[m].intent = row[m].intent
                           /\ row'[m].status = IF Awaits(m, i) THEN v ELSE row[m].status
BY DEF Mark, TypeOK, RowStates

\* What the customer and Stripe do to one intent, its event and the rows.
LEMMA CardFacts ==
    ASSUME TypeOK, NEW i \in Intents, CardStep(i)
    PROVE  /\ UNCHANGED <<kind, key, submit, payout>>
           /\ failed \subseteq failed'
           /\ \A j \in Intents : j # i => intent'[j] = intent[j] /\ event'[j] = event[j]
           /\ intent'[i].rows = intent[i].rows
           /\ \A m \in Crew : row'[m].intent = row[m].intent
           /\ \/ /\ intent[i].status = "open"
                 /\ Known(i)
                 /\ intent'[i].status = "charged"
                 /\ intent'[i].declined = intent[i].declined
                 /\ event'[i] = "sent"
                 /\ UNCHANGED row
              \/ /\ intent[i].status = "open"
                 /\ intent'[i].status = "open"
                 /\ intent'[i].declined
                 /\ event'[i] = event[i]
                 /\ UNCHANGED row
              \/ /\ intent[i].declined
                 /\ Mark(i, "failed")
                 /\ UNCHANGED <<intent, event>>
              \/ /\ UNCHANGED intent
                 /\ \/ event[i] = "sent" /\ event'[i] = "received" /\ UNCHANGED row
                    \/ event[i] = "received" /\ event'[i] = "handled" /\ Mark(i, "succeeded")
                    \/ /\ event[i] = "received"
                       /\ event'[i] = "lost"
                       /\ "crash" \in failed'
                       /\ UNCHANGED row
<1>1. CASE Pay(i)
  BY <1>1 DEF Pay, TypeOK, IntentStates, payout
<1>2. CASE Decline(i)
  BY <1>2 DEF Decline, TypeOK, IntentStates, payout
<1>3. CASE HandleFailed(i)
  BY <1>3, MarkFacts DEF HandleFailed, stripe, payout
<1>4. CASE Receive(i)
  BY <1>4 DEF Receive, TypeOK, payout
<1>5. CASE HandleSucceeded(i)
  BY <1>5, MarkFacts DEF HandleSucceeded, TypeOK, payout
<1>6. CASE EventLost(i)
  BY <1>6 DEF EventLost, Fail, TypeOK, payout
<1>. QED
  BY <1>1, <1>2, <1>3, <1>4, <1>5, <1>6 DEF CardStep

LEMMA StagesOfCard ==
    ASSUME TypeOK, StagesInv, [Next]_vars, NEW i \in Intents, CardStep(i)
    PROVE  StagesInv'
<1>1. ASSUME NEW j \in Intents  PROVE IntentInv(j)' /\ (Made(j)' => Made(j))
  <2>1. IntentInv(j)
    BY DEF StagesInv
  <2>2. CASE j # i
    BY <2>1, <2>2, CardFacts DEF IntentInv, Made
  <2>3. CASE j = i
    BY <2>1, <2>3, CardFacts DEF IntentInv, Made
  <2>. QED  BY <2>2, <2>3
<1>2. \A t \in Submits : SubmitInv(t)'
  BY <1>1, CardFacts, OtherSubmits DEF Intents
<1>3. (key # NoIntent => Made(key))'
  BY CardFacts, IntentsStay DEF StagesInv, TypeOK, Named, Made
<1>4. \A m \in Crew : RowInv(m)'
  BY CardFacts, OtherRows
<1>. QED  BY <1>1, <1>2, <1>3, <1>4 DEF StagesInv

\* A release leaves submits and Stripe's intents alone, and of a row whether it awaits
\* a charge or has had it.
LEMMA ReleaseFacts ==
    ASSUME TypeOK, NEW r \in Releases, ReleaseStep(r)
    PROVE  /\ UNCHANGED <<intent, key, event, submit>>
           /\ failed \subseteq failed'
           /\ \A m \in Crew : /\ row'[m].intent = row[m].intent
                              /\ row'[m].status = row[m].status
<1>1. CASE \E tip \in release[r].todo : ClaimTip(r, tip)
  BY <1>1 DEF ClaimTip, TypeOK, RowStates, stripe
<1>2. CASE Unclaim(r)
  BY <1>2 DEF Unclaim, TypeOK, RowStates, stripe
<1>3. CASE Select(r) \/ TipPaid(r) \/ TipFails(r)
  BY <1>3 DEF Select, TipPaid, TipFails, Fail, stripe
<1>. QED
  BY <1>1, <1>2, <1>3 DEF ReleaseStep

LEMMA StagesStep == TypeOK /\ StagesInv /\ [Next]_vars => StagesInv'
<1> SUFFICES ASSUME TypeOK, StagesInv, [Next]_vars  PROVE StagesInv'
  OBVIOUS
<1>1. CASE \E r \in Releases : ReleaseStep(r)
  BY <1>1, ReleaseFacts DEF StagesInv, SubmitInv, IntentInv, RowInv, Made
<1>2. CASE KeyExpires
  BY <1>2 DEF KeyExpires, StagesInv, SubmitInv, IntentInv, RowInv, Made
<1>3. CASE Reopen
  BY <1>3 DEF Reopen, StagesInv, SubmitInv, IntentInv, RowInv, Made, stripe
<1>4. CASE UNCHANGED vars
  BY <1>4 DEF StagesInv, SubmitInv, IntentInv, RowInv, Made, vars
<1>. QED
  BY <1>1, <1>2, <1>3, <1>4, StagesOfSubmit, StagesOfCard DEF Next

LEMMA InitStages == Init => StagesInv
<1> SUFFICES ASSUME Init  PROVE StagesInv
  OBVIOUS
<1>1. \A s \in Submits : SubmitInv(s)
  BY DEF Init, SubmitInv, Made, Intents
<1>2. key = NoIntent
  BY DEF Init
<1>3. \A i \in Intents : IntentInv(i)
  BY DEF Init, IntentInv, Made
<1>4. \A m \in Crew : RowInv(m)
  BY DEF Init, RowInv
<1>. QED  BY <1>1, <1>2, <1>3, <1>4 DEF StagesInv

LEMMA StagesAreKept == Spec => [](TypeOK /\ StagesInv)
<1>1. TypeOK /\ StagesInv /\ [Next]_vars => StagesInv'
  BY StagesStep
<1>. QED  BY <1>1, InitStages, TypeCorrect, PTL DEF Spec

-----------------------------------------------------------------------------
(* Backing.                                                                *)

LEMMA BackedStays ==
    ASSUME TypeOK, StagesInv, [Next]_vars, NEW m, Backed(m)
    PROVE  Backed(m)'
<1>1. PICK i \in Charged : m \in intent[i].rows
  BY DEF Backed
<1>2. i \in Intents /\ Made(i)
  BY <1>1 DEF Charged, Made
<1>3. intent'[i].status = "charged" /\ m \in intent'[i].rows
  BY <1>1, <1>2, IntentsStay DEF Charged
<1>. QED  BY <1>2, <1>3 DEF Backed, Charged

\* The status of a row after a step of a submit.
LEMMA SubmitRows ==
    ASSUME TypeOK, NEW s \in Submits, SubmitStep(s), NEW m \in Crew
    PROVE  \/ row'[m].status = row[m].status
           \/ /\ At(s, "claim")
              /\ row[m].status \notin {"pending", "succeeded"}
              /\ row'[m].status = "pending"
           \/ /\ At(s, "fail")
              /\ m \in submit[s].got
              /\ row'[m].status = "failed"
<1>1. CASE \E n \in Crew : ClaimRow(s, n)
  BY <1>1 DEF ClaimRow, Free, TypeOK, RowStates
<1>2. CASE MarkFailed(s)
  BY <1>2 DEF MarkFailed, TypeOK, RowStates
<1>3. CASE Store(s)
  BY <1>3 DEF Store, TypeOK, RowStates
<1>4. CASE Begin(s) \/ Create(s) \/ Replay(s) \/ CreateFails(s) \/ Crash(s)
  BY <1>4 DEF Begin, Create, Replay, CreateFails, Crash
<1>. QED
  BY <1>1, <1>2, <1>3, <1>4 DEF SubmitStep

\* A row that succeeds awaited an intent that had been charged.
LEMMA BackedRows ==
    ASSUME TypeOK, StagesInv, BackedInv, [Next]_vars, NEW m \in Crew,
           row'[m].status = "succeeded"
    PROVE  Backed(m)'
<1>1. SUFFICES Backed(m)
  BY BackedStays
<1>2. SUFFICES ASSUME row[m].status # "succeeded"  PROVE Backed(m)
  BY DEF BackedInv
<1>3. CASE \E i \in Intents : CardStep(i)
  <2>1. PICK i \in Intents : CardStep(i)
    BY <1>3
  <2>2. event[i] = "received" /\ Mark(i, "succeeded")
    BY <1>2, <2>1, CardFacts, MarkFacts
  <2>3. row[m].intent = i
    BY <1>2, <2>2, MarkFacts DEF Awaits
  <2>4. intent[i].status = "charged"
    BY <2>2 DEF StagesInv, IntentInv
  <2>5. i # NoIntent
    BY TipsAssumption DEF Intents
  <2>6. m \in intent[i].rows
    BY <2>3, <2>5 DEF StagesInv, RowInv
  <2>. QED  BY <2>4, <2>6 DEF Backed, Charged
<1>4. CASE \E s \in Submits : SubmitStep(s)
  BY <1>2, <1>4, SubmitRows
<1>5. CASE \E r \in Releases : ReleaseStep(r)
  BY <1>2, <1>5, ReleaseFacts
<1>6. CASE KeyExpires \/ Reopen \/ UNCHANGED vars
  BY <1>2, <1>6 DEF KeyExpires, Reopen, vars
<1>. QED
  BY <1>3, <1>4, <1>5, <1>6 DEF Next

\* What a release selects, claims and transfers is backed.
LEMMA BackedRelease ==
    ASSUME TypeOK, BackedInv, NEW r \in Releases, ReleaseStep(r)
    PROVE  /\ \A q \in Releases : q # r => release'[q] = release[q]
           /\ \A tip \in release'[r].todo : Backed(tip[1])
           /\ release'[r].pc = "transfer" => Backed(release'[r].at)
           /\ \A m \in Crew : moved'[m] # {} => Backed(m)
<1>1. CASE Select(r)
  <2>1. Members \subseteq Crew
    BY TipsAssumption DEF Members
  <2>. DEFINE T == {<<m, row[m].amount>> : m \in {n \in Members : Unpaid(n)}}
  <2>2. \A tip \in T : Backed(tip[1])
    BY <2>1 DEF Unpaid, BackedInv
  <2>3. release' = [release EXCEPT ![r] = [release[r] EXCEPT !.pc = "pay", !.todo = T]]
    BY <1>1 DEF Select, To
  <2>4. release'[r].todo = T /\ release'[r].pc = "pay"
    BY <2>3 DEF TypeOK, ReleaseStates
  <2>. QED  BY <1>1, <2>2, <2>3, <2>4 DEF Select, TypeOK, BackedInv
<1>2. CASE \E tip \in release[r].todo : ClaimTip(r, tip)
  <2>1. PICK tip \in release[r].todo : ClaimTip(r, tip)
    BY <1>2
  <2>. DEFINE x == [release[r] EXCEPT !.todo = @ \ {tip}]
              y == [release[r] EXCEPT !.pc = "transfer", !.todo = @ \ {tip},
                                      !.at = tip[1], !.amount = tip[2]]
  <2>2. To(r, x) \/ To(r, y)
    BY <2>1 DEF ClaimTip
  <2>3. /\ x.todo \subseteq release[r].todo
        /\ x.pc = release[r].pc
        /\ y.todo \subseteq release[r].todo
        /\ y.pc = "transfer"
        /\ y.at = tip[1]
    BY FieldType, SMTT(30) DEF ReleaseStates
  <2>4. /\ release'[r] = x \/ release'[r] = y
        /\ \A q \in Releases : q # r => release'[q] = release[q]
    BY <2>2 DEF To, TypeOK
  <2>5. release[r].pc = "pay" /\ moved' = moved
    BY <2>1 DEF ClaimTip
  <2>. QED  BY <2>1, <2>3, <2>4, <2>5 DEF BackedInv
<1>3. CASE TipPaid(r) \/ TipFails(r) \/ Unclaim(r)
  <2>1. PICK label \in {"pay", "unclaim"} : To(r, [release[r] EXCEPT !.pc = label])
    BY <1>3 DEF TipPaid, TipFails, Unclaim
  <2>2. /\ \A q \in Releases : q # r => release'[q] = release[q]
        /\ release'[r].pc = label
        /\ release'[r].todo = release[r].todo
    BY <2>1 DEF To, TypeOK, ReleaseStates
  <2>3. CASE moved' = moved
    BY <2>2, <2>3 DEF BackedInv
  <2>4. CASE release[r].pc = "transfer" /\ Transfer(r)
    <3>1. \A m \in Crew : moved'[m] # {} => moved[m] # {} \/ m = release[r].at
      BY <2>4, FieldType DEF Transfer, TypeOK
    <3>. QED  BY <2>2, <2>4, <3>1 DEF BackedInv
  <2>. QED  BY <1>3, <2>3, <2>4 DEF TipPaid, TipFails, Unclaim
<1>. QED
  BY <1>1, <1>2, <1>3 DEF ReleaseStep

LEMMA BackedStep == TypeOK /\ StagesInv /\ BackedInv /\ [Next]_vars => BackedInv'
<1> SUFFICES ASSUME TypeOK, StagesInv, BackedInv, [Next]_vars  PROVE BackedInv'
  OBVIOUS
<1>1. CASE \E r \in Releases : ReleaseStep(r)
  <2>1. PICK r \in Releases : ReleaseStep(r)
    BY <1>1
  <2>2. \A m \in Crew : moved'[m] # {} => Backed(m)'
    BY <2>1, BackedRelease, BackedStays
  <2>3. ASSUME NEW q \in Releases
        PROVE  /\ \A tip \in release'[q].todo : Backed(tip[1])
               /\ release'[q].pc = "transfer" => Backed(release'[q].at)
    BY <2>1, BackedRelease DEF BackedInv
  <2>4. ASSUME NEW q \in Releases
        PROVE  /\ (\A tip \in release[q].todo : Backed(tip[1]))'
               /\ (release[q].pc = "transfer" => Backed(release[q].at))'
    BY <2>3, BackedStays DEF Backed, Charged
  <2>. QED  BY <2>2, <2>4, BackedRows DEF BackedInv
<1>2. CASE UNCHANGED payout
  <2>1. \A m \in Crew : moved'[m] # {} => Backed(m)'
    BY <1>2, BackedStays DEF BackedInv, payout
  <2>2. ASSUME NEW q \in Releases
        PROVE  /\ (\A tip \in release[q].todo : Backed(tip[1]))'
               /\ (release[q].pc = "transfer" => Backed(release[q].at))'
    BY <1>2, BackedStays DEF BackedInv, Backed, Charged, payout
  <2>. QED  BY <2>1, <2>2, BackedRows DEF BackedInv
<1>3. CASE Reopen
  <2>1. \A m \in Crew : moved'[m] # {} => Backed(m)'
    BY <1>3, BackedStays DEF BackedInv, Reopen
  <2>2. ASSUME NEW q \in Releases
        PROVE  /\ (\A tip \in release[q].todo : Backed(tip[1]))'
               /\ (release[q].pc = "transfer" => Backed(release[q].at))'
    BY <1>3, BackedStays DEF BackedInv, Backed, Charged, Reopen
  <2>. QED  BY <2>1, <2>2, BackedRows DEF BackedInv
<1>4. CASE KeyExpires \/ UNCHANGED vars
  BY <1>2, <1>4 DEF KeyExpires, vars, payout
<1>. QED
  BY <1>1, <1>2, <1>3, <1>4, SubmitFacts, CardFacts DEF Next

\* Whatever was declined, retried, lost or late: a tip is passed on only from a charge
\* that was made for it.
THEOREM TipsAreBacked == Spec => []TipIsBacked
<1>1. Init => BackedInv
  BY DEF Init, BackedInv
<1>2. TypeOK /\ StagesInv /\ BackedInv /\ [Next]_vars => BackedInv'
  BY BackedStep
<1>3. BackedInv => TipIsBacked
  BY DEF BackedInv, Backed, TipIsBacked
<1>. QED  BY <1>1, <1>2, <1>3, StagesAreKept, PTL DEF Spec

-----------------------------------------------------------------------------
(* Settlement.                                                             *)

\* When no card was declined after a step, none was before it.
LEMMA AtFirstTryBefore ==
    ASSUME TypeOK, StagesInv, [Next]_vars, AtFirstTry'
    PROVE  AtFirstTry
<1>. SUFFICES ASSUME NEW i \in Intents, intent[i].declined  PROVE FALSE
  BY DEF AtFirstTry, TypeOK, IntentStates
<1>1. Made(i)
  BY DEF StagesInv, IntentInv
<1>. QED  BY <1>1, IntentsStay DEF AtFirstTry

\* What a submit does to the rows it holds: it goes on, ends without them, takes one
\* more, marks them, or hands them over.
SameRow(n) == row'[n].status = row[n].status /\ row'[n].intent = row[n].intent

GoesOn(s) ==
    /\ submit'[s].got = submit[s].got
    /\ submit'[s].pc # "done"
    /\ \A n \in Crew : SameRow(n)

Ends(s, i) ==
    /\ submit'[s].pc = "done"
    /\ submit'[s].got = {}
    /\ submit'[s].intent = i

Drops(s) ==
    /\ Ends(s, NoIntent)
    /\ submit[s].got = {} \/ "crash" \in failed'
    /\ \A n \in Crew : SameRow(n)

TakesRow(s, m) ==
    /\ row[m].status \notin {"pending", "succeeded"}
    /\ row'[m].status = "pending"
    /\ row'[m].intent = row[m].intent
    /\ \A n \in Crew : n # m => SameRow(n)
    /\ submit'[s].got = submit[s].got \union {m}
    /\ submit'[s].pc # "done"

Marks(s) ==
    /\ Ends(s, NoIntent)
    /\ \A n \in Crew : IF n \in submit[s].got THEN row'[n].status = "failed" ELSE SameRow(n)

HandsOver(s) ==
    /\ At(s, "store")
    /\ Ends(s, submit[s].intent)
    /\ \A n \in Crew : /\ row'[n].status = row[n].status
                       /\ row'[n].intent = IF n \in submit[s].got THEN submit[s].intent
                                                                 ELSE row[n].intent

LEMMA SubmitCases ==
    ASSUME TypeOK, StagesInv, NEW s \in Submits, SubmitStep(s)
    PROVE  /\ submit[s].pc # "done"
           /\ \/ GoesOn(s)
              \/ Drops(s)
              \/ \E m \in Crew : TakesRow(s, m)
              \/ Marks(s)
              \/ HandsOver(s)
<1>0. /\ NoIntent \in Named
      /\ submit[s].intent \in Named
      /\ submit[s].got \in SUBSET Crew
      /\ submit[s].pc = "idle" => submit[s].got = {}
  BY FieldType DEF Named, StagesInv, SubmitInv
<1>1. CASE Begin(s)
  BY <1>0, <1>1, BeginFacts DEF Begin, At, GoesOn, Drops, Ends, SameRow
<1>2. CASE \E m \in Crew : ClaimRow(s, m)
  <2>1. PICK m \in Crew : ClaimRow(s, m)
    BY <1>2
  <2>2. At(s, "claim")
    BY <2>1 DEF ClaimRow
  <2>3. CASE Free(m)
    <3>1. /\ row[m].status \notin {"pending", "succeeded"}
          /\ row'[m].status = "pending"
          /\ row'[m].intent = row[m].intent
          /\ \A n \in Crew : n # m => SameRow(n)
      BY <2>1, <2>3 DEF ClaimRow, Free, TypeOK, RowStates, SameRow
    <3>2. /\ submit'[s].got = submit[s].got \union {m}
          /\ submit'[s].pc # "done"
      BY <1>0, <2>1, <2>2, <2>3, LookedFacts DEF ClaimRow, At
    <3>. QED  BY <2>2, <3>1, <3>2 DEF TakesRow, At
  <2>4. CASE ~Free(m)
    BY <1>0, <2>1, <2>2, <2>4, LookedFacts DEF ClaimRow, At, GoesOn, Drops, Ends, SameRow
  <2>. QED  BY <2>3, <2>4
<1>3. CASE Create(s)
  BY <1>3, StoresFacts DEF Create, At, GoesOn, SameRow
<1>4. CASE Replay(s)
  BY <1>4, StoresFacts, GotoFacts DEF Replay, At, GoesOn, SameRow
<1>5. CASE CreateFails(s)
  BY <1>5, GotoFacts DEF CreateFails, At, GoesOn, SameRow
<1>6. CASE MarkFailed(s)
  <2>1. \A n \in Crew : IF n \in submit[s].got THEN row'[n].status = "failed" ELSE SameRow(n)
    BY <1>6 DEF MarkFailed, TypeOK, RowStates, SameRow
  <2>. QED  BY <1>0, <1>6, <2>1, OverFacts DEF MarkFailed, At, Marks, Ends
<1>7. CASE Store(s)
  <2>1. \A n \in Crew : /\ row'[n].status = row[n].status
                        /\ row'[n].intent = IF n \in submit[s].got THEN submit[s].intent
                                                                  ELSE row[n].intent
    BY <1>7 DEF Store, TypeOK, RowStates
  <2>. QED  BY <1>0, <1>7, <2>1, OverFacts DEF Store, At, HandsOver, Ends
<1>8. CASE Crash(s)
  BY <1>0, <1>8, OverFacts DEF Crash, At, Drops, Ends, SameRow, Fail
<1>. QED
  BY <1>1, <1>2, <1>3, <1>4, <1>5, <1>6, <1>7, <1>8 DEF SubmitStep

\* A submit that ends without an intent, or goes on, hands none out.
LEMMA KnownStays ==
    ASSUME TypeOK, NEW s \in Submits, submit[s].pc # "done",
           \A t \in Submits : t # s => submit'[t] = submit[t],
           submit'[s].pc # "done" \/ submit'[s].intent = NoIntent,
           NEW i \in Intents
    PROVE  Known(i)' <=> Known(i)
BY TipsAssumption DEF Known, At, Intents

\* An intent that is known exists, and nobody makes it again.
LEMMA KnownMade ==
    ASSUME StagesInv, NEW i \in Intents, Known(i)
    PROVE  Made(i)
BY TipsAssumption DEF Known, At, Intents, StagesInv, SubmitInv

\* A submit leaves the rows alone that were handed out.
LEMMA GivenStays ==
    ASSUME TypeOK, StagesInv, HandedOver, NEW s \in Submits, SubmitStep(s),
           NEW i \in Intents, Known(i)
    PROVE  Given(i)'
<1>1. Given(i) /\ Made(i)
  BY KnownMade DEF HandedOver
<1>2. event' = event /\ intent'[i].rows = intent[i].rows
  BY <1>1, SubmitFacts DEF StagesInv, SubmitInv, At
<1>3. ASSUME NEW m \in intent[i].rows
      PROVE  /\ SameRow(m)
             /\ \A t \in Submits : m \notin submit'[t].got
  <2>1. /\ m \in Crew
        /\ row[m].status \in {"pending", "succeeded"}
        /\ \A t \in Submits : m \notin submit[t].got
    BY <1>1 DEF TypeOK, IntentStates, Given, Owned
  <2>2. m \notin submit'[s].got
    BY <2>1, SubmitCases DEF GoesOn, Drops, TakesRow, Marks, HandsOver, Ends
  <2>3. SameRow(m)
    BY <2>1, SubmitCases DEF GoesOn, Drops, TakesRow, Marks, HandsOver, SameRow
  <2>. QED  BY <2>1, <2>2, <2>3, SubmitFacts
<1>. QED  BY <1>1, <1>2, <1>3 DEF Given, Owned, SameRow

\* What a submit knows when it hands its rows over.
LEMMA HandsOverFacts ==
    ASSUME TypeOK, StagesInv, NEW s \in Submits, SubmitStep(s), HandsOver(s)
    PROVE  /\ submit[s].intent \in Intents
           /\ submit[s].intent # NoIntent
           /\ submit[s].got # {}
           /\ submit[s].got = intent[submit[s].intent].rows
           /\ intent' = intent
           /\ \A i \in Intents :
                 Known(i)' <=> Known(i) \/ i = submit[s].intent
<1>1. /\ submit[s].intent \in Named
      /\ SubmitInv(s)
      /\ submit[s].pc = "store"
  BY FieldType DEF StagesInv, HandsOver, At
<1>2. intent' = intent
  BY <1>1, SubmitFacts DEF At
<1>3. submit[s].intent \in Intents
  BY <1>1 DEF SubmitInv, Named
<1>4. /\ submit'[s].pc = "done"
      /\ submit'[s].intent = submit[s].intent
      /\ \A t \in Submits : t # s => submit'[t] = submit[t]
  BY SubmitFacts DEF HandsOver, Ends
<1>5. \A i \in Intents : Known(i)' <=> Known(i) \/ i = submit[s].intent
  BY <1>1, <1>4 DEF Known, At
<1>. QED  BY <1>1, <1>2, <1>3, <1>5 DEF SubmitInv

\* An intent that was handed out stays so.
LEMMA KnownForGood ==
    ASSUME TypeOK, StagesInv, NEW s \in Submits, SubmitStep(s), NEW i \in Intents, Known(i)
    PROVE  Known(i)'
<1>1. CASE HandsOver(s)
  BY <1>1, HandsOverFacts
<1>2. CASE ~HandsOver(s)
  BY <1>2, SubmitCases, SubmitFacts, KnownStays DEF GoesOn, Drops, TakesRow, Marks, Ends
<1>. QED  BY <1>1, <1>2

\* The intent that a submit hands out.
LEMMA GivenByHandOver ==
    ASSUME TypeOK, StagesInv, HandedOver, NEW s \in Submits, SubmitStep(s), HandsOver(s),
           NEW i \in Intents, i = submit[s].intent
    PROVE  Given(i)'
<1>1. CASE Known(i)
  BY <1>1, GivenStays
<1>2. CASE ~Known(i)
  <2>1. event[i] # "handled" /\ event' = event
    BY <1>2, SubmitFacts DEF HandedOver, Charged, StagesInv, IntentInv
  <2>2. submit[s].got = intent'[i].rows /\ submit[s].got \subseteq Crew
    BY HandsOverFacts, FieldType
  <2>3. ASSUME NEW m \in submit[s].got
        PROVE  /\ row'[m].intent = i
               /\ row'[m].status = "pending"
               /\ \A t \in Submits : m \notin submit'[t].got
    <3>1. row[m].status = "pending" /\ \A t \in Submits : t # s => m \notin submit[t].got
      BY DEF HandedOver
    <3>. QED  BY <2>2, <3>1, SubmitFacts DEF HandsOver, Ends
  <2>. QED  BY <2>1, <2>2, <2>3 DEF Given, Owned
<1>. QED  BY <1>1, <1>2

LEMMA HandedOverBySubmit ==
    ASSUME TypeOK, StagesInv, HandedOver, NEW s \in Submits, SubmitStep(s)
    PROVE  HandedOver'
<1>0. /\ \A t \in Submits : submit[t].got \subseteq Crew
      /\ \A t \in Submits : t # s => submit'[t] = submit[t]
      /\ \A t \in Submits : \A m \in submit[t].got : row[m].status = "pending"
  BY FieldType, SubmitFacts DEF HandedOver
<1>1. ASSUME NEW t \in Submits, NEW u \in Submits, NEW m,
             m \in submit'[t].got, m \in submit'[u].got
      PROVE  t = u
  <2>1. CASE \E n \in Crew : TakesRow(s, n)
    BY <1>0, <1>1, <2>1 DEF TakesRow, HandedOver
  <2>2. CASE submit'[s].got \subseteq submit[s].got
    BY <1>0, <1>1, <2>2 DEF HandedOver
  <2>. QED  BY <2>1, <2>2, SubmitCases DEF GoesOn, Drops, Marks, HandsOver, Ends
<1>2. ASSUME NEW t \in Submits, NEW m \in submit'[t].got
      PROVE  row'[m].status = "pending"
  <2>1. CASE t = s
    BY <1>0, <2>1, SubmitCases DEF GoesOn, Drops, TakesRow, Marks, HandsOver, Ends, SameRow
  <2>2. CASE t # s
    <3>1. m \in submit[t].got /\ m \notin submit[s].got /\ m \in Crew
      BY <1>0, <2>2 DEF HandedOver
    <3>. QED
      BY <1>0, <3>1, SubmitCases DEF GoesOn, Drops, TakesRow, Marks, HandsOver, SameRow
  <2>. QED  BY <2>1, <2>2
<1>3. ASSUME NEW i \in Intents, intent'[i].status = "charged"
      PROVE  Known(i)'
  <2>1. i \in Charged
    BY <1>3, SubmitFacts, MakesFacts DEF Charged
  <2>. QED  BY <2>1, KnownForGood DEF HandedOver
<1>4. ASSUME NEW i \in Intents, Known(i)'
      PROVE  Given(i)'
  <2>1. CASE HandsOver(s)
    BY <1>4, <2>1, HandsOverFacts, GivenByHandOver, GivenStays
  <2>2. CASE ~HandsOver(s)
    <3>1. Known(i)
      BY <1>0, <1>4, <2>2, SubmitCases, KnownStays DEF GoesOn, Drops, TakesRow, Marks, Ends
    <3>. QED  BY <3>1, GivenStays
  <2>. QED  BY <2>1, <2>2
<1>. QED  BY <1>1, <1>2, <1>3, <1>4 DEF HandedOver, Charged

LEMMA NoneLeftBySubmit ==
    ASSUME TypeOK, StagesInv, HandedOver, NoneLeft, NEW s \in Submits, SubmitStep(s),
           "crash" \notin failed'
    PROVE  NoneLeft'
<1>1. event' = event /\ \A t \in Submits : t # s => submit'[t] = submit[t]
  BY SubmitFacts
<1>2. ASSUME NEW m \in Crew, row'[m].status = "pending",
             \A t \in Submits : m \notin submit'[t].got
      PROVE  /\ row'[m].intent # NoIntent
             /\ \E t \in Submits : submit'[t].pc = "done" /\ submit'[t].intent = row'[m].intent
  <2>1. CASE HandsOver(s) /\ m \in submit[s].got
    BY <2>1, HandsOverFacts DEF HandsOver, Ends
  <2>2. CASE ~(HandsOver(s) /\ m \in submit[s].got)
    <3>1. SameRow(m) /\ m \notin submit[s].got
      BY <1>2, <2>2, SubmitCases DEF GoesOn, Drops, TakesRow, Marks, HandsOver, SameRow
    <3>2. \A t \in Submits : m \notin submit[t].got
      BY <1>1, <1>2, <3>1
    <3>3. row[m].intent # NoIntent /\ Known(row[m].intent)
      BY <1>2, <3>1, <3>2 DEF NoneLeft, SameRow, Owned
    <3>4. PICK t \in Submits : submit[t].pc = "done" /\ submit[t].intent = row[m].intent
      BY <3>3 DEF Known, At
    <3>5. t # s
      BY <3>4, SubmitCases
    <3>. QED  BY <1>1, <3>1, <3>3, <3>4, <3>5 DEF SameRow
  <2>. QED  BY <2>1, <2>2
<1>. QED  BY <1>1, <1>2 DEF NoneLeft, Owned, Known, At

\* A step that leaves submits, intents and what Stripe has been told alone, and the rows
\* but for their payment.
LEMMA SettleStays ==
    ASSUME SettleInv, UNCHANGED <<intent, event, submit>>, failed \subseteq failed',
           \A m \in Crew : SameRow(m), TypeOK
    PROVE  SettleInv'
<1>1. \A i \in Intents : Given(i) => Given(i)'
  BY DEF Given, Owned, SameRow, TypeOK, IntentStates
<1>2. HandedOver => HandedOver'
  BY <1>1, FieldType DEF HandedOver, Charged, Known, At, SameRow
<1>3. NoneLeft => NoneLeft'
  BY DEF NoneLeft, Owned, Known, At, SameRow
<1>4. AtFirstTry' => AtFirstTry
  BY DEF AtFirstTry
<1>. QED  BY <1>2, <1>3, <1>4 DEF SettleInv

\* The card is charged, and Stripe says so.
LEMMA HandedOverByCard ==
    ASSUME TypeOK, StagesInv, HandedOver, AtFirstTry, AtFirstTry',
           NEW i \in Intents, CardStep(i)
    PROVE  HandedOver' /\ (NoneLeft /\ "crash" \notin failed' => NoneLeft')
<1>0. /\ submit' = submit
      /\ \A j \in Intents : j # i => intent'[j] = intent[j] /\ event'[j] = event[j]
      /\ intent'[i].rows = intent[i].rows
      /\ \A m \in Crew : row'[m].intent = row[m].intent
      /\ i # NoIntent
      /\ \A s \in Submits : submit[s].got \subseteq Crew
      /\ \A j \in Intents : intent[j].rows \subseteq Crew
  BY CardFacts, FieldType, TipsAssumption DEF Intents, TypeOK, IntentStates
<1>1. \A j \in Intents : Known(j)' <=> Known(j)
  BY <1>0 DEF Known, At
<1>2. CASE /\ Known(i)
           /\ intent[i].status = "open"
           /\ event'[i] = "sent"
           /\ row' = row
  <2>1. event[i] = "none"
    BY <1>2 DEF StagesInv, IntentInv
  <2>2. \A j \in Intents : Given(j) => Given(j)'
    BY <1>0, <1>2, <2>1 DEF Given, Owned
  <2>3. \A j \in Intents : j \in Charged' => j \in Charged \/ j = i
    BY <1>0 DEF Charged
  <2>4. HandedOver'
    BY <1>0, <1>1, <1>2, <2>2, <2>3 DEF HandedOver, Charged
  <2>5. NoneLeft => NoneLeft'
    BY <1>0, <1>2 DEF NoneLeft, Owned, Known, At
  <2>. QED  BY <2>4, <2>5
<1>3. CASE /\ intent' = intent
           /\ row' = row
           /\ event[i] \in {"sent", "received"}
           /\ \/ event'[i] = "received"
              \/ event'[i] = "lost" /\ "crash" \in failed'
  <2>1. \A j \in Intents : Given(j) => Given(j)'
    BY <1>0, <1>3 DEF Given, Owned
  <2>2. HandedOver'
    BY <1>0, <1>1, <1>3, <2>1 DEF HandedOver, Charged
  <2>3. NoneLeft /\ "crash" \notin failed' => NoneLeft'
    BY <1>0, <1>3 DEF NoneLeft, Owned, Known, At
  <2>. QED  BY <2>2, <2>3
<1>4. CASE /\ intent' = intent
           /\ event[i] = "received"
           /\ event'[i] = "handled"
           /\ Mark(i, "succeeded")
  <2>1. Known(i) /\ Given(i)
    BY <1>4 DEF StagesInv, IntentInv, HandedOver, Charged
  <2>2. \A m \in Crew : row'[m].status = IF Awaits(m, i) THEN "succeeded" ELSE row[m].status
    BY <1>4, MarkFacts
  <2>3. \A m \in intent[i].rows : row'[m].status = "succeeded"
    BY <1>0, <1>4, <2>1, <2>2 DEF Given, Awaits
  <2>4. ASSUME NEW j \in Intents, Given(j)
        PROVE  Given(j)'
    <3>1. CASE j = i
      BY <1>0, <1>4, <2>3, <2>4, <3>1 DEF Given, Owned
    <3>2. CASE j # i
      <4>1. \A m \in intent[j].rows : ~Awaits(m, i)
        BY <2>4, <3>2 DEF Given, Awaits
      <4>. QED  BY <1>0, <1>4, <2>2, <2>4, <3>2, <4>1 DEF Given, Owned
    <3>. QED  BY <3>1, <3>2
  <2>5. ASSUME NEW s \in Submits, NEW m \in submit[s].got
        PROVE  row'[m].status = "pending"
    <3>1. m \in Crew /\ row[m].status = "pending"
      BY <1>0 DEF HandedOver
    <3>2. ~Awaits(m, i)
      BY <1>0, <2>1, <3>1 DEF Awaits, StagesInv, RowInv, Given, Owned
    <3>. QED  BY <2>2, <3>1, <3>2
  <2>6. HandedOver'
    BY <1>0, <1>1, <1>4, <2>4, <2>5 DEF HandedOver, Charged
  <2>7. NoneLeft => NoneLeft'
    BY <1>0, <1>4, <2>2 DEF NoneLeft, Owned, Known, At
  <2>. QED  BY <2>6, <2>7
<1>5. ~intent[i].declined /\ ~intent'[i].declined
  BY DEF AtFirstTry
<1>. QED
  BY <1>2, <1>3, <1>4, <1>5, CardFacts

LEMMA SettleStep == TypeOK /\ StagesInv /\ SettleInv /\ [Next]_vars => SettleInv'
<1> SUFFICES ASSUME TypeOK, StagesInv, SettleInv, [Next]_vars  PROVE SettleInv'
  OBVIOUS
<1>0. /\ AtFirstTry' => AtFirstTry
      /\ failed \subseteq failed'
  BY AtFirstTryBefore, IntentSteps
<1>1. CASE \E s \in Submits : SubmitStep(s)
  BY <1>0, <1>1, HandedOverBySubmit, NoneLeftBySubmit DEF SettleInv
<1>2. CASE \E i \in Intents : CardStep(i)
  BY <1>0, <1>2, HandedOverByCard DEF SettleInv
<1>3. CASE \E r \in Releases : ReleaseStep(r)
  BY <1>3, ReleaseFacts, SettleStays DEF SameRow
<1>4. CASE KeyExpires \/ Reopen \/ UNCHANGED vars
  BY <1>0, <1>4, SettleStays DEF KeyExpires, Reopen, vars, SameRow, stripe
<1>. QED
  BY <1>1, <1>2, <1>3, <1>4 DEF Next

LEMMA InitSettle == Init => SettleInv
BY TipsAssumption DEF Init, SettleInv, HandedOver, NoneLeft, Given, Charged, Known, At, Owned,
                      Intents

LEMMA SettleIsKept == Spec => [](StagesInv /\ SettleInv)
<1>1. TypeOK /\ StagesInv /\ SettleInv /\ [Next]_vars => SettleInv'
  BY SettleStep
<1>. QED  BY <1>1, InitSettle, StagesAreKept, PTL DEF Spec

\* Unless a card was declined, a tip that was charged and whose event was handled has
\* settled all its rows.
THEOREM ChargesAreSettled == Spec => []ChargeIsSettled
<1>1. SettleInv => ChargeIsSettled
  BY DEF SettleInv, HandedOver, Given, ChargeIsSettled, Charged
<1>. QED  BY <1>1, SettleIsKept, PTL

\* Unless a card was declined or a Worker stopped, a pending row blocks the booking's
\* tips only while somebody can still settle it.
THEOREM PendingRowsCanSettle == Spec => []PendingCanSettle
<1>1. TypeOK /\ StagesInv /\ SettleInv => PendingCanSettle
  <2>. SUFFICES ASSUME TypeOK, StagesInv, SettleInv,
                       AtFirstTry, "crash" \notin failed, NEW m \in Crew,
                       row[m].status = "pending", ~Owned(m)
                PROVE  \E i \in Intents : /\ row[m].intent = i
                                          /\ \/ intent[i].status = "open"
                                             \/ event[i] \in {"sent", "received"}
    BY DEF PendingCanSettle
  <2>1. HandedOver /\ NoneLeft
    BY DEF SettleInv
  <2>2. PICK i \in Intents : i = row[m].intent /\ Known(i)
    BY <2>1 DEF NoneLeft, TypeOK, RowStates, Named
  <2>3. Given(i) /\ Made(i) /\ m \in intent[i].rows
    BY <2>1, <2>2, KnownMade, TipsAssumption DEF HandedOver, StagesInv, RowInv, Intents
  <2>4. event[i] # "handled" /\ event[i] # "lost"
    BY <2>1, <2>3 DEF Given, NoneLeft
  <2>5. event[i] = "none" => intent[i].status = "open"
    BY <2>3 DEF StagesInv, IntentInv, Made, TypeOK, IntentStates
  <2>. QED  BY <2>2, <2>4, <2>5 DEF TypeOK
<1>. QED  BY <1>1, SettleIsKept, TypeCorrect, PTL

=============================================================================
