----------------------------- MODULE CrewProofs -----------------------------
(***************************************************************************)
(* Proofs about Crew, for any number of cleaners, seats and requests, and  *)
(* about CrewPayout, for any crew, tips and number of calls, any split,    *)
(* and any number of changes of the crew.                                  *)
(***************************************************************************)
EXTENDS Crew, CrewPayout, FiniteSums, TLAPS

\* What a request that is about to write must have in its hands.
RequestInv ==
    /\ \A s \in Seats : version[s] >= 1
    /\ \A p \in Requests :
       /\ pc[p] \in {"claim", "pointer", "decline"} => caller[p] # Nobody
       /\ pc[p] \in {"write", "clear"} => read[p].version >= 1
       /\ pc[p] = "write" => wave[p][at[p]] # {}

\* Whatever follows from a lead having been invited at least once.  A version may
\* go down, when the write of an old read comes late, but never below 2 again.
Led == version[Lead] > 1
LeadInv ==
    /\ status[Lead] \in {"INVITED"} \union Seated => Led
    /\ holder[Lead] # Nobody => Led
    /\ \A p \in Requests : pc[p] = "members" => Led
    /\ \A p \in Requests, s \in Members : wave[p][s] # {} => Led
    /\ MembersFollowLead

-----------------------------------------------------------------------------
(* Type correctness.                                                       *)

\* What a request notes of a seat.
LEMMA NoteType ==
    ASSUME TypeOK, NEW s \in Seats
    PROVE  /\ NoRead \in Reads
           /\ [NoRead EXCEPT !.version = version[s]] \in Reads
           /\ [NoRead EXCEPT !.holder = holder[s]] \in Reads
           /\ [NoRead EXCEPT !.pool = pool[s]] \in Reads
           /\ [NoRead EXCEPT !.version = version[s],
                             !.pool = [pool[s] EXCEPT !.invited = {}]] \in Reads
<1>1. NoPool \in Pools
    BY DEF NoPool, Pools
<1>2. /\ version[s] \in Nat
      /\ holder[s] \in Cleaners \union {Nobody}
      /\ pool[s] \in Pools
    BY DEF TypeOK
<1>3. [pool[s] EXCEPT !.invited = {}] \in Pools
    BY <1>2 DEF Pools
<1> QED
    BY <1>1, <1>2, <1>3 DEF NoRead, Reads

\* A pool that is written to a seat.
LEMMA PoolType ==
    ASSUME TypeOK, NEW s, NEW what \in Pools
    PROVE  [pool EXCEPT ![s] = what] \in [Seats -> Pools]
BY DEF TypeOK

\* The initial states are well typed.
LEMMA InitTypeOK == Init => TypeOK
<1>1. NoPool \in Pools /\ NoRead \in Reads /\ NoWave \in [Seats -> SUBSET Cleaners]
    BY DEF NoPool, Pools, NoRead, Reads, NoWave
<1>2. Lead \in Seats /\ "idle" \in Labels /\ "CANDIDATE" \in SeatStatuses
    BY DEF Seats, Labels, SeatStatuses
<1>3. ASSUME Init
      PROVE  /\ status \in [Seats -> SeatStatuses]
             /\ holder \in [Seats -> Cleaners \union {Nobody}]
             /\ version \in [Seats -> Nat]
             /\ pool \in [Seats -> Pools]
             /\ arrived \in [Seats -> BOOLEAN]
    BY <1>1, <1>2, <1>3 DEF Init
<1>4. ASSUME Init
      PROVE  /\ pc \in [Requests -> Labels]
             /\ caller \in [Requests -> Cleaners \union {Nobody}]
             /\ at \in [Requests -> Seats]
    BY <1>2, <1>4 DEF Init
<1>5. ASSUME Init
      PROVE  /\ read \in [Requests -> Reads]
             /\ wave \in [Requests -> [Seats -> SUBSET Cleaners]]
  <2>1. DEFINE W == [Seats -> SUBSET Cleaners]
  <2>2. NoWave \in W /\ NoRead \in Reads
      BY <1>1
  <2> HIDE DEF W
  <2>3. [p \in Requests |-> NoRead] \in [Requests -> Reads]
      BY <2>2
  <2>4. [p \in Requests |-> NoWave] \in [Requests -> W]
      BY <2>2
  <2> QED
      BY <1>5, <2>3, <2>4 DEF Init, W
<1>6. ASSUME Init PROVE pointer \in Cleaners \union {Nobody} /\ completed \in BOOLEAN
    BY <1>6 DEF Init
<1> QED
    BY <1>3, <1>4, <1>5, <1>6 DEF TypeOK

\* A request that goes on.
LEMMA GotoType ==
    ASSUME TypeOK, NEW p \in Requests, NEW label \in Labels, Goto(p, label)
    PROVE  pc' \in [Requests -> Labels]
BY DEF Goto, TypeOK

\* A request that forgets what it was about.
LEMMA ForgetType ==
    ASSUME TypeOK, NEW p \in Requests, Forget(p)
    PROVE  /\ caller' \in [Requests -> Cleaners \union {Nobody}]
           /\ at' \in [Requests -> Seats]
           /\ read' \in [Requests -> Reads]
<1>1. Lead \in Seats /\ NoRead \in Reads
    BY DEF Seats, NoRead, Reads, NoPool, Pools
<1> QED
    BY <1>1 DEF Forget, Note, TypeOK

\* A request that is over.
LEMMA FinishType ==
    ASSUME TypeOK, NEW p \in Requests, Finish(p)
    PROVE  /\ pc' \in [Requests -> Labels]
           /\ caller' \in [Requests -> Cleaners \union {Nobody}]
           /\ at' \in [Requests -> Seats]
           /\ read' \in [Requests -> Reads]
           /\ wave' \in [Requests -> [Seats -> SUBSET Cleaners]]
<1>1. pc' \in [Requests -> Labels]
    BY GotoType DEF Finish, Labels
<1>2. NoWave \in [Seats -> SUBSET Cleaners]
    BY DEF NoWave
<1>3. wave' \in [Requests -> [Seats -> SUBSET Cleaners]]
    BY <1>2 DEF Finish, TypeOK
<1> QED
    BY <1>1, <1>3, ForgetType DEF Finish

\* A request that sends waves.
LEMMA SendType ==
    ASSUME TypeOK, NEW p \in Requests, NEW waves \in [Seats -> SUBSET Cleaners],
           Send(p, waves)
    PROVE  /\ pc' \in [Requests -> Labels]
           /\ caller' \in [Requests -> Cleaners \union {Nobody}]
           /\ at' \in [Requests -> Seats]
           /\ read' \in [Requests -> Reads]
           /\ wave' \in [Requests -> [Seats -> SUBSET Cleaners]]
<1>1. CASE Finish(p)
    BY <1>1, FinishType
<1>2. CASE /\ wave' = [wave EXCEPT ![p] = waves]
           /\ Goto(p, "invite")
           /\ Forget(p)
  <2>1. pc' \in [Requests -> Labels]
      BY <1>2, GotoType DEF Labels
  <2>2. wave' \in [Requests -> [Seats -> SUBSET Cleaners]]
      BY <1>2 DEF TypeOK
  <2> QED
      BY <1>2, <2>1, <2>2, ForgetType
<1> QED
    BY <1>1, <1>2 DEF Send

\* A request that begins.
LEMMA TakeType ==
    ASSUME TypeOK, NEW p \in Requests, NEW c \in Cleaners \union {Nobody},
           NEW s \in Seats, NEW label \in Labels, Take(p, c, s, label),
           read' \in [Requests -> Reads]
    PROVE  TypeOK'
<1>1. pc' \in [Requests -> Labels]
    BY GotoType DEF Take
<1>2. /\ caller' \in [Requests -> Cleaners \union {Nobody}]
      /\ at' \in [Requests -> Seats]
    BY DEF Take, TypeOK
<1> QED
    BY <1>1, <1>2 DEF Take, TypeOK, rows

\* A request in its own memory: the rest of the state stays as it was.
LEMMA RequestStepType ==
    ASSUME TypeOK,
           UNCHANGED <<rows, completed>>,
           pointer' \in Cleaners \union {Nobody},
           pc' \in [Requests -> Labels],
           caller' \in [Requests -> Cleaners \union {Nobody}],
           at' \in [Requests -> Seats],
           read' \in [Requests -> Reads],
           wave' \in [Requests -> [Seats -> SUBSET Cleaners]]
    PROVE  TypeOK'
BY DEF TypeOK, rows

\* Inviting keeps the state well typed.
LEMMA InviteType ==
    ASSUME TypeOK, NEW p \in Requests, Invite(p) PROVE TypeOK'
<1>0. Lead \in Seats /\ at[p] \in Seats /\ read[p] \in Reads
      /\ wave[p] \in [Seats -> SUBSET Cleaners] /\ NoWave \in [Seats -> SUBSET Cleaners]
    BY DEF Seats, TypeOK, NoWave
<1>1. CASE LeadWave(p)
  <2>1. CASE Finish(p)
      BY <1>1, <2>1, FinishType, RequestStepType DEF LeadWave, TypeOK
  <2>2. CASE \E set \in SUBSET Cleaners : Send(p, [NoWave EXCEPT ![Lead] = set])
    <3>1. PICK set \in SUBSET Cleaners : Send(p, [NoWave EXCEPT ![Lead] = set])
        BY <2>2
    <3>2. [NoWave EXCEPT ![Lead] = set] \in [Seats -> SUBSET Cleaners]
        BY <1>0
    <3> QED
        BY <1>1, <3>1, <3>2, SendType, RequestStepType DEF LeadWave, TypeOK
  <2> QED
      BY <1>1, <2>1, <2>2 DEF LeadWave
<1>2. CASE RankMembers(p)
  <2>1. PICK deal \in [Seats -> SUBSET Cleaners] : Send(p, deal)
      BY <1>2 DEF RankMembers
  <2> QED
      BY <1>2, <2>1, SendType, RequestStepType DEF RankMembers, TypeOK
<1>3. CASE Cascade(p)
  <2>1. CASE Finish(p)
      BY <1>3, <2>1, FinishType, RequestStepType DEF Cascade, TypeOK
  <2>2. CASE \E set \in SUBSET Cleaners : Send(p, [NoWave EXCEPT ![at[p]] = set])
    <3>1. PICK set \in SUBSET Cleaners : Send(p, [NoWave EXCEPT ![at[p]] = set])
        BY <2>2
    <3>2. [NoWave EXCEPT ![at[p]] = set] \in [Seats -> SUBSET Cleaners]
        BY <1>0
    <3> QED
        BY <1>3, <3>1, <3>2, SendType, RequestStepType DEF Cascade, TypeOK
  <2> QED
      BY <1>3, <2>1, <2>2 DEF Cascade
<1>4. CASE InviteRead(p)
  <2>1. PICK s \in Seats :
           /\ at' = [at EXCEPT ![p] = s]
           /\ Note(p, [NoRead EXCEPT !.version = version[s],
                                     !.pool = [pool[s] EXCEPT !.invited = {}]])
      BY <1>4 DEF InviteRead
  <2>2. at' \in [Requests -> Seats] /\ read' \in [Requests -> Reads]
      BY <2>1, NoteType DEF Note, TypeOK
  <2>3. pc' \in [Requests -> Labels]
      BY <1>4, GotoType DEF InviteRead, Labels
  <2> QED
      BY <1>4, <2>2, <2>3, RequestStepType DEF InviteRead, TypeOK
<1>5. CASE InviteWrite(p)
  <2>1. [wave[p] EXCEPT ![at[p]] = {}] \in [Seats -> SUBSET Cleaners]
      BY <1>0
  <2>2. Send(p, [wave[p] EXCEPT ![at[p]] = {}])
      BY <1>5 DEF InviteWrite
  <2>3. /\ status' \in [Seats -> SeatStatuses]
        /\ holder' \in [Seats -> Cleaners \union {Nobody}]
      BY <1>0, <1>5 DEF InviteWrite, TypeOK, SeatStatuses
  <2>4. version' \in [Seats -> Nat]
      BY <1>0, <1>5 DEF InviteWrite, TypeOK, Reads
  <2>5. [invited   |-> wave[p][at[p]],
         declined  |-> read[p].pool.declined,
         contacted |-> read[p].pool.contacted \union wave[p][at[p]]] \in Pools
    <3>1. read[p].pool \in Pools
        BY <1>0 DEF Reads
    <3>2. wave[p][at[p]] \in SUBSET Cleaners
        BY <1>0
    <3> QED
        BY <3>1, <3>2 DEF Pools
  <2>6. pool' \in [Seats -> Pools]
    <3>1. CASE UNCHANGED pool
        BY <3>1 DEF TypeOK
    <3>2. CASE status[at[p]] \in Open
      <4>1. pool' = [pool EXCEPT ![at[p]] =
                       [invited   |-> wave[p][at[p]],
                        declined  |-> read[p].pool.declined,
                        contacted |-> read[p].pool.contacted \union wave[p][at[p]]]]
          BY <1>5, <3>2 DEF InviteWrite
      <4> QED
          BY <2>5, <4>1, PoolType
    <3> QED
        BY <1>5, <3>1, <3>2 DEF InviteWrite
  <2> QED
      BY <1>5, <2>1, <2>2, <2>3, <2>4, <2>6, SendType DEF InviteWrite, TypeOK
<1> QED
    BY <1>1, <1>2, <1>3, <1>4, <1>5 DEF Invite

\* Answering keeps the state well typed.
LEMMA AnswerType ==
    ASSUME TypeOK, RequestInv, NEW p \in Requests, Answer(p) PROVE TypeOK'
<1>0. at[p] \in Seats /\ caller[p] \in Cleaners \union {Nobody} /\ read[p] \in Reads
    BY DEF TypeOK
<1>1. ASSUME NEW c \in Cleaners, NEW s \in Seats, AcceptRead(p, c, s) PROVE TypeOK'
  <2>1. read' \in [Requests -> Reads]
      BY <1>1, NoteType DEF AcceptRead, Note, TypeOK
  <2> QED
      BY <1>1, <2>1, TakeType DEF AcceptRead, Labels
<1>2. ASSUME NEW c \in Cleaners, NEW s \in Seats, DeclineRead(p, c, s) PROVE TypeOK'
  <2>1. read' \in [Requests -> Reads]
      BY <1>2, NoteType DEF DeclineRead, Note, TypeOK
  <2> QED
      BY <1>2, <2>1, TakeType DEF DeclineRead, Labels
<1>3. CASE AcceptClaim(p)
  <2>1. /\ status' \in [Seats -> SeatStatuses]
        /\ holder' \in [Seats -> Cleaners \union {Nobody}]
      BY <1>0, <1>3 DEF AcceptClaim, TypeOK, SeatStatuses
  <2>2. pool' \in [Seats -> Pools]
    <3>1. NoPool \in Pools
        BY DEF NoPool, Pools
    <3>2. pool' = pool \/ pool' = [pool EXCEPT ![at[p]] = NoPool]
        BY <1>3 DEF AcceptClaim
    <3> QED
        BY <3>1, <3>2, PoolType DEF TypeOK
  <2>3. CASE Finish(p)
      BY <1>3, <2>1, <2>2, <2>3, FinishType DEF AcceptClaim, TypeOK
  <2>4. CASE Goto(p, "pointer") /\ Note(p, NoRead) /\ UNCHANGED <<caller, at, wave>>
    <3>1. pc' \in [Requests -> Labels]
        BY <2>4, GotoType DEF Labels
    <3>2. read' \in [Requests -> Reads]
        BY <1>0, <2>4, NoteType DEF Note, TypeOK
    <3> QED
        BY <1>3, <2>1, <2>2, <2>4, <3>1, <3>2 DEF AcceptClaim, TypeOK
  <2> QED
      BY <1>3, <2>3, <2>4 DEF AcceptClaim
<1>4. CASE ClaimPointer(p)
  <2>1. pointer' \in Cleaners \union {Nobody} /\ wave' \in [Requests -> [Seats -> SUBSET Cleaners]]
      BY <1>0, <1>4 DEF ClaimPointer, TypeOK
  <2>2. pc' \in [Requests -> Labels]
      BY <1>4, GotoType DEF ClaimPointer, Labels
  <2> QED
      BY <1>4, <2>1, <2>2, ForgetType, RequestStepType DEF ClaimPointer
<1>5. CASE Reread(p)
  <2>1. CASE Finish(p)
      BY <1>5, <2>1, FinishType, RequestStepType DEF Reread, TypeOK
  <2>2. CASE /\ Note(p, [NoRead EXCEPT !.holder = holder[Lead]])
             /\ Goto(p, "members")
             /\ UNCHANGED <<caller, at, wave>>
    <3>1. pc' \in [Requests -> Labels]
        BY <2>2, GotoType DEF Labels
    <3>2. read' \in [Requests -> Reads]
        BY <2>2, NoteType DEF Note, TypeOK, Seats
    <3> QED
        BY <1>5, <2>2, <3>1, <3>2, RequestStepType DEF Reread, TypeOK
  <2> QED
      BY <1>5, <2>1, <2>2 DEF Reread
<1>6. CASE DeclineWrite(p)
  <2>1. [read[p].pool EXCEPT !.declined = read[p].pool.declined \union {caller[p]}] \in Pools
    <3>1. caller[p] \in Cleaners
        BY <1>0, <1>6 DEF RequestInv, DeclineWrite
    <3> QED
        BY <1>0, <3>1 DEF Reads, Pools
  <2>2. pool' \in [Seats -> Pools]
    <3>1. \/ pool' = pool
          \/ pool' = [pool EXCEPT ![at[p]] =
                        [read[p].pool EXCEPT !.declined =
                           read[p].pool.declined \union {caller[p]}]]
        BY <1>6 DEF DeclineWrite
    <3> QED
        BY <2>1, <3>1, PoolType DEF TypeOK
  <2>3. CASE Finish(p)
      BY <1>6, <2>2, <2>3, FinishType DEF DeclineWrite, TypeOK
  <2>4. CASE Goto(p, "lapse") /\ Note(p, NoRead) /\ UNCHANGED <<caller, at, wave>>
    <3>1. pc' \in [Requests -> Labels]
        BY <2>4, GotoType DEF Labels
    <3>2. read' \in [Requests -> Reads]
        BY <1>0, <2>4, NoteType DEF Note, TypeOK
    <3> QED
        BY <1>6, <2>2, <2>4, <3>1, <3>2 DEF DeclineWrite, TypeOK
  <2> QED
      BY <1>6, <2>3, <2>4 DEF DeclineWrite
<1>7. CASE Lapse(p)
  <2>1. /\ status' \in [Seats -> SeatStatuses]
        /\ holder' \in [Seats -> Cleaners \union {Nobody}]
      BY <1>0, <1>7 DEF Lapse, ExpireSeat, TypeOK, SeatStatuses
  <2>2. pc' \in [Requests -> Labels]
      BY <1>7, GotoType DEF Lapse, Labels
  <2> QED
      BY <1>7, <2>1, <2>2 DEF Lapse, TypeOK, jobs
<1> QED
    BY <1>1, <1>2, <1>3, <1>4, <1>5, <1>6, <1>7 DEF Answer

\* Operators and the cron keep the state well typed.
LEMMA OperateType ==
    ASSUME TypeOK, NEW p \in Requests, Operate(p) PROVE TypeOK'
<1>0. at[p] \in Seats /\ read[p] \in Reads /\ Lead \in Seats
    BY DEF TypeOK, Seats
<1>1. ASSUME NEW s \in Seats, CronSelect(p, s) PROVE TypeOK'
    BY <1>1, TakeType DEF CronSelect, Labels, TypeOK
<1>2. ASSUME NEW s \in Seats, DropRead(p, s) PROVE TypeOK'
  <2>1. read' \in [Requests -> Reads]
      BY <1>2, NoteType DEF DropRead, Note, TypeOK
  <2>2. CASE Take(p, Nobody, s, "unpoint")
      BY <2>1, <2>2, TakeType DEF Labels
  <2>3. CASE Take(p, Nobody, s, "release")
      BY <2>1, <2>3, TakeType DEF Labels
  <2> QED
      BY <1>2, <2>2, <2>3 DEF DropRead
<1>3. CASE CronExpire(p)
  <2>1. /\ status' \in [Seats -> SeatStatuses]
        /\ holder' \in [Seats -> Cleaners \union {Nobody}]
      BY <1>0, <1>3 DEF CronExpire, ExpireSeat, TypeOK, SeatStatuses
  <2>2. CASE Finish(p)
      BY <1>3, <2>1, <2>2, FinishType DEF CronExpire, TypeOK
  <2>3. CASE Goto(p, "cascade") /\ UNCHANGED jobs
    <3>1. pc' \in [Requests -> Labels]
        BY <2>3, GotoType DEF Labels
    <3> QED
        BY <1>3, <2>1, <2>3, <3>1 DEF CronExpire, TypeOK, jobs
  <2> QED
      BY <1>3, <2>2, <2>3 DEF CronExpire
<1>4. CASE Dispatch(p)
  <2>1. CASE Take(p, Nobody, Lead, "leadwave") /\ UNCHANGED read
      BY <1>0, <2>1, TakeType DEF Labels, TypeOK
  <2>2. CASE /\ Take(p, Nobody, Lead, "members")
             /\ Note(p, [NoRead EXCEPT !.holder = holder[Lead]])
    <3>1. read' \in [Requests -> Reads]
        BY <1>0, <2>2, NoteType DEF Note, TypeOK
    <3> QED
        BY <1>0, <2>2, <3>1, TakeType DEF Labels
  <2> QED
      BY <1>4, <2>1, <2>2 DEF Dispatch
<1>5. CASE Unpoint(p)
  <2>1. pc' \in [Requests -> Labels]
      BY <1>5, GotoType DEF Unpoint, Labels
  <2> QED
      BY <1>5, <2>1 DEF Unpoint, TypeOK, rows, jobs
<1>6. CASE ReleaseRead(p)
  <2>1. pc' \in [Requests -> Labels]
      BY <1>6, GotoType DEF ReleaseRead, Labels
  <2>2. read' \in [Requests -> Reads]
      BY <1>0, <1>6, NoteType DEF ReleaseRead, Note, TypeOK
  <2> QED
      BY <1>6, <2>1, <2>2, RequestStepType DEF ReleaseRead, TypeOK
<1>7. CASE ReleaseWrite(p)
  <2>1. pc' \in [Requests -> Labels]
    <3>1. "leadwave" \in Labels /\ "cascade" \in Labels
        BY DEF Labels
    <3> QED
        BY <1>7, <3>1 DEF ReleaseWrite, Goto, TypeOK
  <2>2. read' \in [Requests -> Reads]
      BY <1>0, <1>7, NoteType DEF ReleaseWrite, Note, TypeOK
  <2>3. /\ status' \in [Seats -> SeatStatuses]
        /\ holder' \in [Seats -> Cleaners \union {Nobody}]
      BY <1>0, <1>7 DEF ReleaseWrite, TypeOK, SeatStatuses
  <2>4. version' \in [Seats -> Nat]
      BY <1>0, <1>7 DEF ReleaseWrite, TypeOK, Reads
  <2>5. pool' \in [Seats -> Pools]
    <3>1. NoPool \in Pools
        BY DEF NoPool, Pools
    <3> QED
        BY <1>7, <3>1, PoolType DEF ReleaseWrite
  <2> QED
      BY <1>7, <2>1, <2>2, <2>3, <2>4, <2>5 DEF ReleaseWrite, TypeOK
<1> QED
    BY <1>1, <1>2, <1>3, <1>4, <1>5, <1>6, <1>7 DEF Operate

\* The day of service keeps the state well typed.
LEMMA WorkType ==
    ASSUME TypeOK, NEW p \in Requests, Work(p) PROVE TypeOK'
<1>0. at[p] \in Seats /\ Lead \in Seats
    BY DEF TypeOK, Seats
<1>1. ASSUME NEW c \in Cleaners, NEW s \in Seats, CheckInRead(p, c, s) PROVE TypeOK'
    BY <1>1, TakeType DEF CheckInRead, Labels, TypeOK
<1>2. ASSUME NEW c \in Cleaners, CompleteRead(p, c) PROVE TypeOK'
    BY <1>0, <1>2, TakeType DEF CompleteRead, Labels, TypeOK
<1>3. CASE CheckInWrite(p)
  <2>1. arrived' \in [Seats -> BOOLEAN]
      BY <1>0, <1>3 DEF CheckInWrite, TypeOK
  <2> QED
      BY <1>3, <2>1, FinishType DEF CheckInWrite, TypeOK
<1>4. CASE CompleteWrite(p)
  <2>1. status' \in [Seats -> SeatStatuses]
      BY <1>4 DEF CompleteWrite, TypeOK, SeatStatuses
  <2> QED
      BY <1>4, <2>1, FinishType DEF CompleteWrite, TypeOK
<1> QED
    BY <1>1, <1>2, <1>3, <1>4 DEF Work

\* Every step keeps the state well typed.
LEMMA NextTypeOK == TypeOK /\ RequestInv /\ [Next]_vars => TypeOK'
<1> SUFFICES ASSUME TypeOK, RequestInv, [Next]_vars PROVE TypeOK'
    OBVIOUS
<1>1. ASSUME NEW s \in Seats, Remove(s) \/ NoShow(s) PROVE TypeOK'
    BY <1>1 DEF Remove, NoShow, TypeOK, SeatStatuses, jobs
<1>2. CASE UNCHANGED vars
    BY <1>2 DEF vars, rows, jobs, TypeOK
<1> QED
    BY <1>1, <1>2, InviteType, AnswerType, OperateType, WorkType DEF Next

-----------------------------------------------------------------------------
(* What a request has in its hands.                                        *)

\* Versions stay positive when one of them is set to the successor of a number.
LEMMA RaisedVersion ==
    ASSUME NEW f \in [Seats -> Nat], \A s \in Seats : f[s] >= 1, NEW t, NEW n \in Nat
    PROVE  \A s \in Seats : [f EXCEPT ![t] = n + 1][s] >= 1
OBVIOUS

\* A step of one request leaves the others alone.
LEMMA OthersKept ==
    ASSUME TypeOK, NEW p \in Requests,
           Invite(p) \/ Answer(p) \/ Operate(p) \/ Work(p)
    PROVE  \A q \in Requests \ {p} :
              /\ pc'[q] = pc[q] /\ caller'[q] = caller[q] /\ at'[q] = at[q]
              /\ read'[q] = read[q] /\ wave'[q] = wave[q]
<1> USE DEF TypeOK, Goto, Note, Forget, Finish, Send, Take, jobs
<1>1. CASE Invite(p)
  <2>1. CASE LeadWave(p)
      BY <2>1 DEF LeadWave
  <2>2. CASE RankMembers(p)
      BY <2>2 DEF RankMembers
  <2>3. CASE Cascade(p)
      BY <2>3 DEF Cascade
  <2>4. CASE InviteRead(p)
      BY <2>4 DEF InviteRead
  <2>5. CASE InviteWrite(p)
      BY <2>5 DEF InviteWrite
  <2> QED
      BY <1>1, <2>1, <2>2, <2>3, <2>4, <2>5 DEF Invite
<1>2. CASE Answer(p)
  <2>1. CASE \E c \in Cleaners, s \in Seats : AcceptRead(p, c, s) \/ DeclineRead(p, c, s)
      BY <2>1 DEF AcceptRead, DeclineRead
  <2>2. CASE AcceptClaim(p)
      BY <2>2 DEF AcceptClaim
  <2>3. CASE ClaimPointer(p) \/ Reread(p)
      BY <2>3 DEF ClaimPointer, Reread
  <2>4. CASE DeclineWrite(p) \/ Lapse(p)
      BY <2>4 DEF DeclineWrite, Lapse
  <2> QED
      BY <1>2, <2>1, <2>2, <2>3, <2>4 DEF Answer
<1>3. CASE Operate(p)
    BY <1>3 DEF Operate, CronSelect, CronExpire, Dispatch, DropRead, Unpoint,
                ReleaseRead, ReleaseWrite
<1>4. CASE Work(p)
    BY <1>4 DEF Work, CheckInRead, CheckInWrite, CompleteRead, CompleteWrite
<1> QED
    BY <1>1, <1>2, <1>3, <1>4

\* Every step keeps RequestInv.
LEMMA NextRequestInv == TypeOK /\ RequestInv /\ [Next]_vars => RequestInv'
<1> SUFFICES ASSUME TypeOK, RequestInv, [Next]_vars PROVE RequestInv'
    OBVIOUS
<1> DEFINE Ready(p) == /\ pc[p] \in {"claim", "pointer", "decline"} => caller[p] # Nobody
                       /\ pc[p] \in {"write", "clear"} => read[p].version >= 1
                       /\ pc[p] = "write" => wave[p][at[p]] # {}
<1>1. ASSUME NEW p \in Requests, Invite(p) \/ Answer(p) \/ Operate(p) \/ Work(p),
             Ready(p)', \A s \in Seats : version'[s] >= 1
      PROVE  RequestInv'
    BY <1>1, OthersKept DEF RequestInv
<1>2. ASSUME NEW p \in Requests, Invite(p) PROVE RequestInv'
  <2> USE CrewAssumption DEF TypeOK, Reads, Goto, Note, Forget, Finish, Send
  <2>1. CASE LeadWave(p)
    <3>1. Ready(p)' /\ UNCHANGED version
        BY <2>1 DEF LeadWave, rows
    <3> QED
        BY <1>1, <1>2, <3>1 DEF RequestInv
  <2>2. CASE RankMembers(p)
    <3>1. Ready(p)' /\ UNCHANGED version
        BY <2>2 DEF RankMembers, rows
    <3> QED
        BY <1>1, <1>2, <3>1 DEF RequestInv
  <2>3. CASE Cascade(p)
    <3>1. Ready(p)' /\ UNCHANGED version
        BY <2>3 DEF Cascade, rows
    <3> QED
        BY <1>1, <1>2, <3>1 DEF RequestInv
  <2>4. CASE InviteRead(p)
    <3>1. UNCHANGED version /\ pc'[p] = "write" /\ wave'[p][at'[p]] # {}
        BY <2>4 DEF InviteRead, rows
    <3>2. read'[p].version >= 1
        BY <2>4 DEF InviteRead, RequestInv, NoRead
    <3> QED
        BY <1>1, <1>2, <3>1, <3>2 DEF RequestInv
  <2>5. CASE InviteWrite(p)
    <3>1. Ready(p)'
        BY <2>5 DEF InviteWrite
    <3>2. \A s \in Seats : version'[s] >= 1
      <4>1. read[p].version \in Nat
          OBVIOUS
      <4>2. \/ version' = [version EXCEPT ![at[p]] = read[p].version + 1]
            \/ version' = version
          BY <2>5 DEF InviteWrite
      <4> QED
          BY <4>1, <4>2, RaisedVersion DEF RequestInv
    <3> QED
        BY <1>1, <1>2, <3>1, <3>2
  <2> QED
      BY <1>2, <2>1, <2>2, <2>3, <2>4, <2>5 DEF Invite
<1>3. ASSUME NEW p \in Requests, Answer(p) PROVE RequestInv'
  <2> USE CrewAssumption DEF TypeOK, Reads, Goto, Note, Forget, Finish, Take, jobs
  <2>1. UNCHANGED version
      BY <1>3 DEF Answer, AcceptRead, DeclineRead, AcceptClaim, ClaimPointer, Reread,
                  DeclineWrite, Lapse, rows
  <2>2. Ready(p)'
    <3>1. CASE \E c \in Cleaners, s \in Seats : AcceptRead(p, c, s) \/ DeclineRead(p, c, s)
        BY <3>1 DEF AcceptRead, DeclineRead
    <3>2. CASE AcceptClaim(p)
        BY <3>2 DEF AcceptClaim, RequestInv
    <3>3. CASE ClaimPointer(p) \/ Reread(p)
        BY <3>3 DEF ClaimPointer, Reread
    <3>4. CASE DeclineWrite(p) \/ Lapse(p)
        BY <3>4 DEF DeclineWrite, Lapse
    <3> QED
        BY <1>3, <3>1, <3>2, <3>3, <3>4 DEF Answer
  <2> QED
      BY <1>1, <1>3, <2>1, <2>2 DEF RequestInv
<1>4. ASSUME NEW p \in Requests, Operate(p) PROVE RequestInv'
  <2> USE DEF TypeOK, Reads, Goto, Note, Forget, Finish, Take, jobs
  <2>1. CASE ReleaseWrite(p)
    <3>1. Ready(p)'
        BY <2>1 DEF ReleaseWrite
    <3>2. \A s \in Seats : version'[s] >= 1
      <4>1. read[p].version \in Nat
          OBVIOUS
      <4>2. version' = [version EXCEPT ![at[p]] = read[p].version + 1]
          BY <2>1 DEF ReleaseWrite
      <4> QED
          BY <4>1, <4>2, RaisedVersion DEF RequestInv
    <3> QED
        BY <1>1, <1>4, <3>1, <3>2
  <2>2. CASE ReleaseRead(p)
    <3>1. UNCHANGED version /\ pc'[p] = "clear" /\ read'[p].version >= 1
        BY <2>2 DEF ReleaseRead, RequestInv, NoRead, rows
    <3> QED
        BY <1>1, <1>4, <3>1 DEF RequestInv
  <2>3. CASE /\ ~ReleaseWrite(p) /\ ~ReleaseRead(p)
    <3>1. UNCHANGED version /\ Ready(p)'
        BY <1>4, <2>3 DEF Operate, CronSelect, CronExpire, Dispatch, DropRead, Unpoint, rows
    <3> QED
        BY <1>1, <1>4, <3>1 DEF RequestInv
  <2> QED
      BY <2>1, <2>2, <2>3
<1>5. ASSUME NEW p \in Requests, Work(p) PROVE RequestInv'
  <2>1. UNCHANGED version /\ Ready(p)'
      BY <1>5 DEF Work, CheckInRead, CheckInWrite, CompleteRead, CompleteWrite, rows,
                  TypeOK, Goto, Note, Forget, Finish, Take
  <2> QED
      BY <1>1, <1>5, <2>1 DEF RequestInv
<1>6. ASSUME NEW s \in Seats, Remove(s) \/ NoShow(s) PROVE RequestInv'
    BY <1>6 DEF Remove, NoShow, RequestInv, jobs
<1>7. CASE UNCHANGED vars
    BY <1>7 DEF vars, rows, jobs, RequestInv
<1> QED
    BY <1>2, <1>3, <1>4, <1>5, <1>6, <1>7 DEF Next

\* Initially nobody has anything in their hands.
LEMMA InitRequestInv == Init => RequestInv
BY DEF Init, RequestInv

\* Every reachable state is well typed, and no request writes what it has not read.
LEMMA Requested == Spec => [](TypeOK /\ RequestInv)
BY InitTypeOK, NextTypeOK, InitRequestInv, NextRequestInv, PTL DEF Spec

\* Every reachable state is well typed.
THEOREM TypeCorrect == Spec => []TypeOK
BY Requested, PTL

-----------------------------------------------------------------------------
(* The seats.                                                              *)

\* Every step keeps one seat to a person at most, and seats filled as their status
\* says: the seat's row changes under the guard of the same statement, and the
\* unique index covers the rest.
LEMMA NextSeats ==
    TypeOK /\ RequestInv /\ OneSeatEach /\ SeatsAreFilled /\ [Next]_vars
        => OneSeatEach' /\ SeatsAreFilled'
<1> SUFFICES ASSUME TypeOK, RequestInv, OneSeatEach, SeatsAreFilled, [Next]_vars
             PROVE  OneSeatEach' /\ SeatsAreFilled'
    OBVIOUS
<1> USE DEF TypeOK, OneSeatEach, SeatsAreFilled, Open, Seated
<1>1. ASSUME UNCHANGED rows PROVE OneSeatEach' /\ SeatsAreFilled'
    BY <1>1 DEF rows
<1>2. ASSUME NEW p \in Requests, Invite(p) PROVE OneSeatEach' /\ SeatsAreFilled'
  <2>1. CASE InviteWrite(p)
      BY <2>1 DEF InviteWrite
  <2>2. CASE ~InviteWrite(p)
      BY <1>1, <1>2, <2>2 DEF Invite, LeadWave, RankMembers, Cascade, InviteRead
  <2> QED
      BY <2>1, <2>2
<1>3. ASSUME NEW p \in Requests, Answer(p) PROVE OneSeatEach' /\ SeatsAreFilled'
  <2>1. CASE AcceptClaim(p)
      BY <2>1 DEF AcceptClaim, RequestInv
  <2>2. CASE DeclineWrite(p)
      BY <2>2 DEF DeclineWrite
  <2>3. CASE Lapse(p)
      BY <2>3 DEF Lapse, ExpireSeat
  <2>4. CASE ~AcceptClaim(p) /\ ~DeclineWrite(p) /\ ~Lapse(p)
      BY <1>1, <1>3, <2>4 DEF Answer, AcceptRead, DeclineRead, Take, ClaimPointer, Reread
  <2> QED
      BY <2>1, <2>2, <2>3, <2>4
<1>4. ASSUME NEW p \in Requests, Operate(p) PROVE OneSeatEach' /\ SeatsAreFilled'
  <2>1. CASE CronExpire(p)
      BY <2>1 DEF CronExpire, ExpireSeat
  <2>2. CASE ReleaseWrite(p)
      BY <2>2 DEF ReleaseWrite
  <2>3. CASE ~CronExpire(p) /\ ~ReleaseWrite(p)
      BY <1>1, <1>4, <2>3 DEF Operate, CronSelect, DropRead, Dispatch, Take, Unpoint, ReleaseRead
  <2> QED
      BY <2>1, <2>2, <2>3
<1>5. ASSUME NEW p \in Requests, Work(p) PROVE OneSeatEach' /\ SeatsAreFilled'
  <2>1. CASE CheckInWrite(p)
      BY <2>1 DEF CheckInWrite
  <2>2. CASE CompleteWrite(p)
      BY <2>2 DEF CompleteWrite
  <2>3. CASE ~CheckInWrite(p) /\ ~CompleteWrite(p)
      BY <1>1, <1>5, <2>3 DEF Work, CheckInRead, CompleteRead, Take
  <2> QED
      BY <2>1, <2>2, <2>3
<1>6. ASSUME NEW s \in Seats, Remove(s) \/ NoShow(s) PROVE OneSeatEach' /\ SeatsAreFilled'
    BY <1>6 DEF Remove, NoShow
<1>7. CASE UNCHANGED vars
    BY <1>1, <1>7 DEF vars
<1> QED
    BY <1>2, <1>3, <1>4, <1>5, <1>6, <1>7 DEF Next

\* A person has one seat at most, and a seat somebody when its status says so.
THEOREM SeatsAreKept == Spec => [](OneSeatEach /\ SeatsAreFilled)
<1>1. Init => OneSeatEach /\ SeatsAreFilled
    BY DEF Init, OneSeatEach, SeatsAreFilled, Open, Seated
<1> QED
    BY <1>1, Requested, NextSeats, PTL DEF Spec

\* An open seat has nobody on it, and a filled one has somebody.
THEOREM FilledSeatsHaveHolders == Spec => []SeatsAreFilled
BY SeatsAreKept, PTL

\* A cleaner with a seat keeps it in every step but an operator's release.
THEOREM NobodyLosesASeat == Spec => SeatIsKept
<1> DEFINE Keep(s) == holder[s] # Nobody /\ ~Releasing(s) => holder'[s] = holder[s]
<1>1. ASSUME TypeOK, SeatsAreFilled, [Next]_vars PROVE \A s \in Seats : Keep(s)
  <2> USE <1>1 DEF TypeOK, SeatsAreFilled, Open
  <2>1. ASSUME NEW p \in Requests, Invite(p) PROVE \A s \in Seats : Keep(s)
    <3>1. CASE InviteWrite(p)
        BY <3>1 DEF InviteWrite
    <3>2. CASE ~InviteWrite(p)
      <4>1. UNCHANGED holder
          BY <2>1, <3>2 DEF Invite, LeadWave, RankMembers, Cascade, InviteRead, rows
      <4> QED
          BY <4>1
    <3> QED
        BY <3>1, <3>2
  <2>2. ASSUME NEW p \in Requests, Answer(p) PROVE \A s \in Seats : Keep(s)
    <3>1. CASE AcceptClaim(p)
        BY <3>1 DEF AcceptClaim
    <3>2. CASE Lapse(p)
        BY <3>2 DEF Lapse, ExpireSeat
    <3>3. CASE ~AcceptClaim(p) /\ ~Lapse(p)
      <4>1. UNCHANGED holder
          BY <2>2, <3>3 DEF Answer, AcceptRead, DeclineRead, Take, ClaimPointer,
                            Reread, DeclineWrite, rows
      <4> QED
          BY <4>1
    <3> QED
        BY <3>1, <3>2, <3>3
  <2>3. ASSUME NEW p \in Requests, Operate(p) PROVE \A s \in Seats : Keep(s)
    <3>1. CASE ReleaseWrite(p)
        BY <3>1 DEF ReleaseWrite, Releasing
    <3>2. CASE CronExpire(p)
        BY <3>2 DEF CronExpire, ExpireSeat
    <3>3. CASE ~ReleaseWrite(p) /\ ~CronExpire(p)
      <4>1. UNCHANGED holder
          BY <2>3, <3>3 DEF Operate, CronSelect, DropRead, Dispatch, Take, Unpoint,
                            ReleaseRead, rows
      <4> QED
          BY <4>1
    <3> QED
        BY <3>1, <3>2, <3>3
  <2>4. ASSUME NEW p \in Requests, Work(p) PROVE \A s \in Seats : Keep(s)
      BY <2>4 DEF Work, CheckInRead, CompleteRead, Take, CheckInWrite, CompleteWrite, rows
  <2>5. ASSUME NEW t \in Seats, Remove(t) \/ NoShow(t) PROVE \A s \in Seats : Keep(s)
      BY <2>5 DEF Remove, NoShow
  <2>6. CASE UNCHANGED vars
      BY <2>6 DEF vars, rows
  <2> QED
      BY <1>1, <2>1, <2>2, <2>3, <2>4, <2>5, <2>6 DEF Next
<1>2. TypeOK /\ SeatsAreFilled /\ [Next]_vars => [\A s \in Seats : Keep(s)]_vars
    BY <1>1
<1> QED
    BY <1>2, TypeCorrect, SeatsAreKept, PTL DEF Spec, SeatIsKept

-----------------------------------------------------------------------------
(* The lead first.                                                         *)

\* Nothing undoes that a lead was looked for: a write of an old read makes the
\* version smaller at worst, and a read saw at least 1.
LEMMA LedStays == TypeOK /\ RequestInv /\ Led /\ [Next]_vars => Led'
<1> SUFFICES ASSUME TypeOK, RequestInv, Led, [Next]_vars PROVE Led'
    OBVIOUS
<1>1. ASSUME NEW p \in Requests, InviteWrite(p) \/ ReleaseWrite(p) PROVE Led'
  <2>1. read[p].version \in Nat /\ read[p].version >= 1 /\ version[Lead] \in Nat
      BY <1>1 DEF InviteWrite, ReleaseWrite, RequestInv, TypeOK, Reads, Seats
  <2>2. \/ version' = [version EXCEPT ![at[p]] = read[p].version + 1]
        \/ version' = version
      BY <1>1 DEF InviteWrite, ReleaseWrite
  <2>3. version'[Lead] \in {version[Lead], read[p].version + 1}
      BY <2>2 DEF TypeOK, Seats
  <2> QED
      BY <2>1, <2>3 DEF Led
<1>2. CASE UNCHANGED version
    BY <1>2 DEF Led
<1>3. ASSUME NEW p \in Requests, Invite(p), ~InviteWrite(p) PROVE UNCHANGED version
    BY <1>3 DEF Invite, LeadWave, RankMembers, Cascade, InviteRead, rows
<1>4. ASSUME NEW p \in Requests, Answer(p) PROVE UNCHANGED version
    BY <1>4 DEF Answer, AcceptRead, DeclineRead, Take, AcceptClaim, ClaimPointer,
                Reread, DeclineWrite, Lapse, rows
<1>5. ASSUME NEW p \in Requests, Operate(p), ~ReleaseWrite(p) PROVE UNCHANGED version
    BY <1>5 DEF Operate, CronSelect, CronExpire, DropRead, Dispatch, Take, Unpoint,
                ReleaseRead, rows
<1>6. ASSUME NEW p \in Requests, Work(p) PROVE UNCHANGED version
    BY <1>6 DEF Work, CheckInRead, CompleteRead, Take, CheckInWrite, CompleteWrite, rows
<1>7. ASSUME NEW s \in Seats, Remove(s) \/ NoShow(s) PROVE UNCHANGED version
    BY <1>7 DEF Remove, NoShow
<1>8. CASE UNCHANGED vars
    BY <1>8, <1>2 DEF vars, rows
<1> QED
    BY <1>1, <1>2, <1>3, <1>4, <1>5, <1>6, <1>7, <1>8 DEF Next

\* A request that is over, or sends a wave to the lead seat, has none for a member.
LEMMA WaveForLead ==
    ASSUME TypeOK, NEW p \in Requests,
           Finish(p) \/ \E set \in SUBSET Cleaners : Send(p, [NoWave EXCEPT ![Lead] = set])
    PROVE  pc'[p] # "members" /\ \A s \in Members : wave'[p][s] = {}
<1>1. pc'[p] \in {"idle", "invite"}
    BY DEF Finish, Send, Goto, TypeOK
<1>2. CASE Finish(p)
  <2>1. wave'[p] = NoWave
      BY <1>2 DEF Finish, TypeOK
  <2> QED
      BY <1>1, <2>1 DEF NoWave, Seats
<1>3. ASSUME NEW set \in SUBSET Cleaners, wave' = [wave EXCEPT ![p] = [NoWave EXCEPT ![Lead] = set]]
      PROVE  \A s \in Members : wave'[p][s] = {}
  <2>1. wave'[p] = [NoWave EXCEPT ![Lead] = set]
      BY <1>3 DEF TypeOK
  <2> QED
      BY <2>1, CrewAssumption DEF NoWave, Seats
<1> QED
    BY <1>1, <1>2, <1>3 DEF Send

\* As long as no lead was invited, no step invites anybody else.
LEMMA UnledStep ==
    ASSUME TypeOK, RequestInv, SeatsAreFilled, LeadInv, ~Led, [Next]_vars
    PROVE  Led' \/ LeadInv'
<1> DEFINE Idle == /\ status[Lead] \notin {"INVITED"} \union Seated
                   /\ holder[Lead] = Nobody
                   /\ \A s \in Members : status[s] \notin {"INVITED"} \union Seated
           Empty(p) == pc[p] # "members" /\ \A s \in Members : wave[p][s] = {}
<1>1. Idle /\ \A p \in Requests : Empty(p)
    BY DEF LeadInv, MembersFollowLead, Led
<1>2. Idle' /\ (\A p \in Requests : Empty(p)') => LeadInv'
    BY DEF LeadInv, MembersFollowLead
<1>3. ASSUME NEW p \in Requests, Invite(p) \/ Answer(p) \/ Operate(p) \/ Work(p),
             Idle', Empty(p)'
      PROVE  LeadInv'
    BY <1>1, <1>2, <1>3, OthersKept
<1>4. Lead \in Seats /\ Members \subseteq Seats /\ Lead \notin Members /\ ~HasLead
    BY <1>1, CrewAssumption DEF Seats, HasLead
<1> USE <1>1, <1>4 DEF TypeOK, Seated, Goto, Note, Forget, Finish, Send, Take, NoWave
<1>5. ASSUME NEW p \in Requests, Invite(p) PROVE Led' \/ LeadInv'
  <2>1. CASE LeadWave(p)
    <3>1. Finish(p) \/ \E set \in SUBSET Cleaners : Send(p, [NoWave EXCEPT ![Lead] = set])
        BY <2>1 DEF LeadWave
    <3>2. Empty(p)'
        BY <3>1, WaveForLead
    <3>3. Idle'
        BY <2>1 DEF LeadWave, rows
    <3> QED
        BY <1>3, <1>5, <3>2, <3>3
  <2>2. CASE RankMembers(p)
      BY <2>2 DEF RankMembers
  <2>3. CASE Cascade(p)
    <3>1. Finish(p) \/ \E set \in SUBSET Cleaners : Send(p, [NoWave EXCEPT ![Lead] = set])
        BY <2>3 DEF Cascade
    <3>2. Empty(p)'
        BY <3>1, WaveForLead
    <3>3. Idle'
        BY <2>3 DEF Cascade, rows
    <3> QED
        BY <1>3, <1>5, <3>2, <3>3
  <2>4. CASE InviteRead(p)
    <3>1. Idle' /\ Empty(p)'
        BY <2>4 DEF InviteRead, rows
    <3> QED
        BY <1>3, <1>5, <3>1
  <2>5. CASE InviteWrite(p)
    <3>1. at[p] = Lead
        BY <2>5 DEF InviteWrite, RequestInv, Seats
    <3>2. CASE status[Lead] \in Open
      <4>1. version'[Lead] = read[p].version + 1 /\ read[p].version \in Nat
          BY <2>5, <3>1, <3>2 DEF InviteWrite, Reads
      <4>2. read[p].version >= 1
          BY <2>5 DEF InviteWrite, RequestInv
      <4> QED
          BY <4>1, <4>2 DEF Led
    <3>3. CASE status[Lead] \notin Open
      <4>1. UNCHANGED <<status, holder>>
          BY <2>5, <3>1, <3>3 DEF InviteWrite
      <4>2. pc'[p] # "members"
          BY <2>5 DEF InviteWrite
      <4>3. \A s \in Members : wave'[p][s] = {}
          BY <2>5, <3>1 DEF InviteWrite
      <4> QED
          BY <1>3, <1>5, <4>1, <4>2, <4>3
    <3> QED
        BY <3>2, <3>3
  <2> QED
      BY <1>5, <2>1, <2>2, <2>3, <2>4, <2>5 DEF Invite
<1>6. ASSUME NEW p \in Requests, Answer(p) PROVE LeadInv'
  <2>1. CASE \E c \in Cleaners, s \in Seats : AcceptRead(p, c, s) \/ DeclineRead(p, c, s)
    <3>1. Idle' /\ Empty(p)'
        BY <2>1 DEF AcceptRead, DeclineRead, rows
    <3> QED
        BY <1>3, <1>6, <3>1
  <2>2. CASE AcceptClaim(p)
    <3>1. status[at[p]] # "INVITED"
        BY DEF Seats
    <3>2. Idle' /\ Empty(p)'
        BY <2>2, <3>1 DEF AcceptClaim
    <3> QED
        BY <1>3, <1>6, <3>2
  <2>3. CASE ClaimPointer(p) \/ Reread(p)
    <3>1. Idle' /\ Empty(p)'
        BY <2>3 DEF ClaimPointer, Reread, rows
    <3> QED
        BY <1>3, <1>6, <3>1
  <2>4. CASE DeclineWrite(p) \/ Lapse(p)
    <3>1. Idle' /\ Empty(p)'
        BY <2>4 DEF DeclineWrite, Lapse, ExpireSeat, jobs
    <3> QED
        BY <1>3, <1>6, <3>1
  <2> QED
      BY <1>6, <2>1, <2>2, <2>3, <2>4 DEF Answer
<1>7. ASSUME NEW p \in Requests, Operate(p) PROVE LeadInv'
  <2>1. CASE CronExpire(p)
    <3>1. Idle' /\ Empty(p)'
        BY <2>1 DEF CronExpire, ExpireSeat, jobs
    <3> QED
        BY <1>3, <1>7, <3>1
  <2>2. CASE ReleaseWrite(p)
    <3>1. Idle' /\ Empty(p)'
        BY <2>2 DEF ReleaseWrite
    <3> QED
        BY <1>3, <1>7, <3>1
  <2>3. CASE ~CronExpire(p) /\ ~ReleaseWrite(p)
    <3>1. Idle' /\ Empty(p)'
        BY <1>7, <2>3 DEF Operate, CronSelect, Dispatch, DropRead, Unpoint, ReleaseRead,
                          rows, jobs
    <3> QED
        BY <1>3, <1>7, <3>1
  <2> QED
      BY <2>1, <2>2, <2>3
<1>8. ASSUME NEW p \in Requests, Work(p) PROVE LeadInv'
  <2>1. Idle'
      BY <1>8 DEF Work, CheckInRead, CompleteRead, CheckInWrite, CompleteWrite, rows
  <2>2. Empty(p)'
      BY <1>8 DEF Work, CheckInRead, CompleteRead, CheckInWrite, CompleteWrite
  <2> QED
      BY <1>3, <1>8, <2>1, <2>2
<1>9. ASSUME NEW s \in Seats, Remove(s) \/ NoShow(s) PROVE LeadInv'
  <2>1. Idle' /\ \A p \in Requests : Empty(p)'
      BY <1>9 DEF Remove, NoShow, jobs
  <2> QED
      BY <1>2, <2>1
<1>10. CASE UNCHANGED vars
  <2>1. Idle' /\ \A p \in Requests : Empty(p)'
      BY <1>10 DEF vars, rows, jobs
  <2> QED
      BY <1>2, <2>1
<1> QED
    BY <1>5, <1>6, <1>7, <1>8, <1>9, <1>10 DEF Next

\* A member seat is offered or taken only once a lead was invited.
THEOREM LeadComesFirst == Spec => []MembersFollowLead
<1>1. Init => LeadInv
    BY CrewAssumption DEF Init, LeadInv, MembersFollowLead, Led, Seats, Seated, NoWave
<1>2. TypeOK /\ RequestInv /\ SeatsAreFilled /\ LeadInv /\ [Next]_vars => LeadInv'
  <2>1. Led' => LeadInv'
      BY DEF LeadInv, MembersFollowLead, Led
  <2> QED
      BY <2>1, LedStays, UnledStep
<1>3. LeadInv => MembersFollowLead
    BY DEF LeadInv
<1> QED
    BY <1>1, <1>2, <1>3, Requested, SeatsAreKept, PTL DEF Spec

-----------------------------------------------------------------------------
(* Who is present.                                                         *)

\* The seats that are filled, which is what CrewPayout knows of the crew.
PresentSeats == {s \in Seats : status[s] \in Seated}

\* CrewPayout's CrewChanges, on these seats: one seat joins or leaves.
OneSeatTurns ==
    \E s \in Seats :
        PresentSeats' = (PresentSeats \union {s}) \ (PresentSeats \intersect {s})

\* A step that rewrites the status of one seat turns that seat at most.
LEMMA RewrittenSeat ==
    ASSUME status \in [Seats -> SeatStatuses], NEW s \in Seats, NEW new,
           status' = [status EXCEPT ![s] = new]
    PROVE  UNCHANGED PresentSeats \/ OneSeatTurns
<1>1. \A t \in Seats \ {s} : status'[t] = status[t]
    OBVIOUS
<1>2. CASE (status'[s] \in Seated) = (status[s] \in Seated)
    BY <1>1, <1>2 DEF PresentSeats
<1>3. CASE (status'[s] \in Seated) # (status[s] \in Seated)
    BY <1>1, <1>3 DEF PresentSeats, OneSeatTurns
<1> QED
    BY <1>2, <1>3

\* The crew that is paid changes by one seat at a time, joining or leaving, in
\* whatever order accepts, waves, expiries, replacements, removals and no-shows
\* come, and finishing the clean changes nobody's presence: the crew of
\* CrewPayout changes as this module's does.
THEOREM SeatsTurnOneByOne == Spec => [][OneSeatTurns]_PresentSeats
<1> DEFINE Goal == UNCHANGED PresentSeats \/ OneSeatTurns
<1>1. ASSUME TypeOK, [Next]_vars PROVE Goal
  <2> HIDE DEF Goal
  <2>1. status \in [Seats -> SeatStatuses] /\ at \in [Requests -> Seats]
      BY <1>1 DEF TypeOK
  <2>2. ASSUME UNCHANGED status PROVE Goal
      BY <2>2 DEF Goal, PresentSeats
  <2>3. ASSUME NEW s \in Seats, NEW new, status' = [status EXCEPT ![s] = new] PROVE Goal
      BY <2>1, <2>3, RewrittenSeat DEF Goal
  <2>4. ASSUME NEW s \in Seats, ExpireSeat(s) PROVE Goal
      BY <2>3, <2>4 DEF ExpireSeat
  <2>5. ASSUME NEW p \in Requests, Invite(p) PROVE Goal
    <3>1. CASE InviteWrite(p)
        BY <2>1, <2>2, <2>3, <3>1 DEF InviteWrite
    <3>2. CASE ~InviteWrite(p)
      <4>1. UNCHANGED rows
          BY <2>5, <3>2 DEF Invite, LeadWave, RankMembers, Cascade, InviteRead
      <4> QED
          BY <2>2, <4>1 DEF rows
    <3> QED
        BY <3>1, <3>2
  <2>6. ASSUME NEW p \in Requests, Answer(p) PROVE Goal
    <3>1. CASE AcceptClaim(p)
        BY <2>1, <2>2, <2>3, <3>1 DEF AcceptClaim
    <3>2. CASE Lapse(p)
        BY <2>1, <2>4, <3>2 DEF Lapse
    <3>3. CASE ~AcceptClaim(p) /\ ~Lapse(p)
        BY <2>2, <2>6, <3>3 DEF Answer, AcceptRead, DeclineRead, Take, ClaimPointer,
                                Reread, DeclineWrite, rows
    <3> QED
        BY <3>1, <3>2, <3>3
  <2>7. ASSUME NEW p \in Requests, Operate(p) PROVE Goal
    <3>1. CASE CronExpire(p)
        BY <2>1, <2>4, <3>1 DEF CronExpire
    <3>2. CASE ReleaseWrite(p)
        BY <2>1, <2>3, <3>2 DEF ReleaseWrite
    <3>3. CASE ~CronExpire(p) /\ ~ReleaseWrite(p)
        BY <2>2, <2>7, <3>3 DEF Operate, CronSelect, DropRead, Dispatch, Take, Unpoint,
                                ReleaseRead, rows
    <3> QED
        BY <3>1, <3>2, <3>3
  <2>8. ASSUME NEW p \in Requests, Work(p) PROVE Goal
    <3>1. CASE CompleteWrite(p)
      <4>1. \A s \in Seats : status'[s] \in Seated <=> status[s] \in Seated
          BY <2>1, <3>1 DEF CompleteWrite, Seated
      <4> QED
          BY <4>1 DEF Goal, PresentSeats
    <3>2. CASE ~CompleteWrite(p)
        BY <2>2, <2>8, <3>2 DEF Work, CheckInRead, CompleteRead, CheckInWrite, Take, rows
    <3> QED
        BY <3>1, <3>2
  <2>9. ASSUME NEW s \in Seats, Remove(s) \/ NoShow(s) PROVE Goal
      BY <2>3, <2>9 DEF Remove, NoShow
  <2>10. CASE UNCHANGED vars
      BY <2>2, <2>10 DEF vars, rows
  <2> QED
      BY <1>1, <2>5, <2>6, <2>7, <2>8, <2>9, <2>10 DEF Next
<1>2. TypeOK /\ [Next]_vars => [OneSeatTurns]_PresentSeats
    BY <1>1
<1> QED
    BY <1>2, TypeCorrect, PTL DEF Spec

-----------------------------------------------------------------------------
(* Paying the crew.                                                        *)

Claimed == {"transfer", "record", "unclaim"}

\* What a call that holds a claim knows of the row, and that it is alone.
ClaimInv ==
    /\ \A c \in Releases : stage[c] \in Claimed =>
          slot[payee[c]] = IF payee[c] \in Tips THEN "paid" ELSE "pending"
    /\ \A c, d \in Releases :
          stage[c] \in Claimed /\ stage[d] \in Claimed /\ payee[c] = payee[d] => c = d
    /\ \A c \in Releases : stage[c] = "record" => payee[c] \in Positions

\* What Stripe has done for the payees and the calls that say it did.
BackedInv ==
    /\ \A p \in keys : made[p] > 0
    /\ \A c \in Releases : stage[c] = "record" => made[payee[c]] > 0
    /\ \A p \in Payees : slot[p] = "paid" =>
          \/ made[p] > 0
          \/ \E c \in Releases : payee[c] = p /\ stage[c] \in {"transfer", "unclaim"}

\* Nothing is transferred twice: if keys are forgotten, because a payee that
\* was paid is never free and never up for a transfer; if they are not,
\* because every payee that was paid has its key.
OnceInv ==
    /\ \A p \in Payees : made[p] \in {0, 1}
    /\ fault = "lost" => \A p \in Payees : made[p] > 0 => p \in keys
    /\ fault # "lost" => \A p \in Payees : made[p] > 0 =>
          /\ slot[p] # "null"
          /\ \A c \in Releases : payee[c] = p => stage[c] \notin {"transfer", "unclaim"}

-----------------------------------------------------------------------------
(* Type correctness.                                                       *)

\* What a call computes for the seats that are present is an amount.
LEMMA ShareIsAmount ==
    ASSUME NEW P \in SUBSET Positions
    PROVE  [s \in Positions |-> IF s \in P THEN Cents(P, s) ELSE 0] \in [Positions -> Amounts]
BY DEF Amounts

\* Nothing to pay is an amount, too.
LEMMA NothingIsAmount == Nothing \in [Positions -> Amounts]
BY DEF Nothing, Amounts

\* The initial states are well typed.
LEMMA PayInitTypeOK == PayInit => PayTypeOK
<1> SUFFICES ASSUME PayInit PROVE PayTypeOK
    OBVIOUS
<1>1. 0 \in Payees
    BY CrewPayoutAssumption DEF Payees, Positions
<1>2. due \in [Releases -> [Positions -> Amounts]]
    BY NothingIsAmount DEF PayInit
<1>3. earnings \in [Positions -> Amounts] /\ sent \in [Positions -> Amounts]
    BY NothingIsAmount DEF PayInit
<1>4. \A t \in Tips : slot[t] # "pending"
    BY DEF PayInit, Payees
<1> QED
    BY <1>1, <1>2, <1>3, <1>4, CrewPayoutAssumption DEF PayInit, PayTypeOK

\* The payees are the seats and the tips, and no tip is a seat.
LEMMA PayeeKinds ==
    /\ Positions \subseteq Payees /\ Tips \subseteq Payees
    /\ \A p \in Payees : p \in Tips <=> p \notin Positions
BY CrewPayoutAssumption DEF Payees

\* Every step keeps the state well typed.
LEMMA PayNextTypeOK == PayTypeOK /\ [PayNext]_payVars => PayTypeOK'
<1> SUFFICES ASSUME PayTypeOK, [PayNext]_payVars PROVE PayTypeOK'
    OBVIOUS
<1> USE DEF PayTypeOK, records, stripe, crew, Move, Drop, IsNext, EndCall
<1>1. ASSUME NEW c \in Releases, Step(c) PROVE PayTypeOK'
  <2>1. CASE Begin(c)
    <3>1. due' \in [Releases -> [Positions -> Amounts]]
        BY <2>1, ShareIsAmount DEF Begin
    <3>2. todo' \in [Releases -> SUBSET Payees]
        BY <2>1, PayeeKinds DEF Begin
    <3> QED
        BY <2>1, <3>1, <3>2 DEF Begin
  <2>2. CASE ReadUnpaid(c)
    <3>1. todo' \in [Releases -> SUBSET Payees]
        BY <2>2, PayeeKinds DEF ReadUnpaid
    <3> QED
        BY <2>2, <3>1 DEF ReadUnpaid
  <2>3. CASE TipSelect(c)
    <3>1. todo' \in [Releases -> SUBSET Payees]
        BY <2>3, PayeeKinds DEF TipSelect
    <3> QED
        BY <2>3, <3>1 DEF TipSelect
  <2>4. CASE End(c)
      BY <2>4, NothingIsAmount DEF End
  <2>5. ASSUME NEW s \in Positions, EarnWrite(c, s) PROVE PayTypeOK'
      BY <2>5 DEF EarnWrite
  <2>6. ASSUME NEW s \in Positions, ClaimSeat(c, s) PROVE PayTypeOK'
    <3>1. slot' \in [Payees -> {"null", "pending", "paid"}]
        BY <2>6 DEF ClaimSeat
    <3>2. \A t \in Tips : slot'[t] # "pending"
        BY <2>6, PayeeKinds DEF ClaimSeat
    <3>3. payee' \in [Releases -> Payees] /\ todo' \in [Releases -> SUBSET Payees]
        BY <2>6, PayeeKinds DEF ClaimSeat
    <3> QED
        BY <2>6, <3>1, <3>2, <3>3 DEF ClaimSeat
  <2>7. ASSUME NEW t \in Tips, ClaimTip(c, t) PROVE PayTypeOK'
    <3>1. slot' \in [Payees -> {"null", "pending", "paid"}]
        BY <2>7 DEF ClaimTip
    <3>2. \A u \in Tips : slot'[u] # "pending"
        BY <2>7, PayeeKinds DEF ClaimTip
    <3>3. payee' \in [Releases -> Payees] /\ todo' \in [Releases -> SUBSET Payees]
        BY <2>7, PayeeKinds DEF ClaimTip
    <3> QED
        BY <2>7, <3>1, <3>2, <3>3 DEF ClaimTip
  <2>8. ASSUME NEW p \in Payees, Skip(c, p) PROVE PayTypeOK'
      BY <2>8 DEF Skip
  <2>9. ASSUME Transfer(c)
        PROVE  /\ made' \in [Payees -> Nat]
               /\ sent' \in [Positions -> Amounts]
               /\ keys' \subseteq Payees
      BY <2>9 DEF Transfer
  <2>10. CASE StripePays(c)
      BY <2>9, <2>10 DEF StripePays, AfterTransfer
  <2>11. CASE StripeRepeats(c)
      BY <2>11 DEF StripeRepeats, AfterTransfer
  <2>12. CASE StripeRefuses(c)
      BY <2>12 DEF StripeRefuses
  <2>13. CASE AnswerLost(c)
      BY <2>9, <2>13 DEF AnswerLost
  <2>14. CASE RecordSeat(c)
    <3>1. slot' \in [Payees -> {"null", "pending", "paid"}]
        BY <2>14 DEF RecordSeat
    <3>2. \A t \in Tips : slot'[t] # "pending"
        BY <2>14, PayeeKinds DEF RecordSeat
    <3> QED
        BY <2>14, <3>1, <3>2 DEF RecordSeat
  <2>15. CASE Unclaim(c)
    <3>1. slot' \in [Payees -> {"null", "pending", "paid"}]
        BY <2>15 DEF Unclaim
    <3>2. \A t \in Tips : slot'[t] # "pending"
        BY <2>15, PayeeKinds DEF Unclaim
    <3>3. due' \in [Releases -> [Positions -> Amounts]]
        BY <2>15, NothingIsAmount DEF Unclaim
    <3> QED
        BY <2>15, <3>1, <3>2, <3>3 DEF Unclaim
  <2> QED
      BY <1>1, <2>1, <2>2, <2>3, <2>4, <2>5, <2>6, <2>7, <2>8, <2>10, <2>11,
         <2>12, <2>13, <2>14, <2>15 DEF Step
<1>2. CASE Around
  <2>1. ASSUME NEW s \in Positions, CrewChanges(s) PROVE PayTypeOK'
      BY <2>1, CrewPayoutAssumption DEF CrewChanges
  <2>2. ASSUME NEW p \in Payees, KeyExpires(p) PROVE PayTypeOK'
      BY <2>2 DEF KeyExpires
  <2> QED
      BY <1>2, <2>1, <2>2 DEF Around
<1>3. CASE UNCHANGED payVars
    BY <1>3 DEF payVars
<1> QED
    BY <1>1, <1>2, <1>3 DEF PayNext

\* PayTypeOK: every reachable state of the model is well typed.
THEOREM PayTypeCorrect == PaySpec => []PayTypeOK
BY PayInitTypeOK, PayNextTypeOK, PTL DEF PaySpec

-----------------------------------------------------------------------------
(* Claims.                                                                 *)

\* Every step keeps the claims apart.
LEMMA NextClaimInv == PayTypeOK /\ ClaimInv /\ [PayNext]_payVars => ClaimInv'
<1> SUFFICES ASSUME PayTypeOK, ClaimInv, [PayNext]_payVars PROVE ClaimInv'
    OBVIOUS
<1> USE PayeeKinds
    DEF PayTypeOK, ClaimInv, Claimed, records, stripe, crew, Move, Drop, EndCall
<1>1. ASSUME NEW c \in Releases, Step(c) PROVE ClaimInv'
  <2>1. CASE Begin(c)
      BY <2>1 DEF Begin
  <2>2. CASE ReadUnpaid(c)
      BY <2>2 DEF ReadUnpaid
  <2>3. CASE TipSelect(c)
      BY <2>3 DEF TipSelect
  <2>4. CASE End(c)
      BY <2>4 DEF End
  <2>5. ASSUME NEW s \in Positions, EarnWrite(c, s) PROVE ClaimInv'
      BY <2>5 DEF EarnWrite
  <2>6. ASSUME NEW s \in Positions, ClaimSeat(c, s) PROVE ClaimInv'
    <3>1. CASE slot[s] = "null"
      <4>1. /\ slot' = [slot EXCEPT ![s] = "pending"]
            /\ payee' = [payee EXCEPT ![c] = s]
            /\ stage' = [stage EXCEPT ![c] = "transfer"]
          BY <2>6, <3>1 DEF ClaimSeat
      <4>2. \A d \in Releases : stage[d] \in Claimed => payee[d] # s
          BY <3>1
      <4>3. \A d \in Releases \ {c} : stage'[d] = stage[d] /\ payee'[d] = payee[d]
          BY <4>1
      <4>4. stage'[c] = "transfer" /\ payee'[c] = s
          BY <4>1
      <4>5. \A p \in Payees \ {s} : slot'[p] = slot[p]
          BY <4>1
      <4>6. slot'[s] = "pending" /\ s \notin Tips
          BY <4>1
      <4>7. \A d \in Releases : stage'[d] \in Claimed =>
              slot'[payee'[d]] = IF payee'[d] \in Tips THEN "paid" ELSE "pending"
          BY <4>2, <4>3, <4>4, <4>5, <4>6
      <4>8. \A d, e \in Releases :
              stage'[d] \in Claimed /\ stage'[e] \in Claimed /\ payee'[d] = payee'[e] => d = e
          BY <4>2, <4>3, <4>4
      <4> QED
          BY <4>3, <4>4, <4>7, <4>8
    <3>2. CASE slot[s] # "null"
        BY <2>6, <3>2 DEF ClaimSeat
    <3> QED
        BY <3>1, <3>2
  <2>7. ASSUME NEW t \in Tips, ClaimTip(c, t) PROVE ClaimInv'
    <3>1. CASE slot[t] = "null"
      <4>1. /\ slot' = [slot EXCEPT ![t] = "paid"]
            /\ payee' = [payee EXCEPT ![c] = t]
            /\ stage' = [stage EXCEPT ![c] = "transfer"]
          BY <2>7, <3>1 DEF ClaimTip
      <4>2. \A d \in Releases : stage[d] \in Claimed => payee[d] # t
          BY <3>1
      <4>3. \A d \in Releases \ {c} : stage'[d] = stage[d] /\ payee'[d] = payee[d]
          BY <4>1
      <4>4. stage'[c] = "transfer" /\ payee'[c] = t
          BY <4>1
      <4>5. \A p \in Payees \ {t} : slot'[p] = slot[p]
          BY <4>1
      <4>6. slot'[t] = "paid"
          BY <4>1
      <4>7. \A d \in Releases : stage'[d] \in Claimed =>
              slot'[payee'[d]] = IF payee'[d] \in Tips THEN "paid" ELSE "pending"
          BY <4>2, <4>3, <4>4, <4>5, <4>6
      <4>8. \A d, e \in Releases :
              stage'[d] \in Claimed /\ stage'[e] \in Claimed /\ payee'[d] = payee'[e] => d = e
          BY <4>2, <4>3, <4>4
      <4> QED
          BY <4>3, <4>4, <4>7, <4>8
    <3>2. CASE slot[t] # "null"
        BY <2>7, <3>2 DEF ClaimTip
    <3> QED
        BY <3>1, <3>2
  <2>8. ASSUME NEW p \in Payees, Skip(c, p) PROVE ClaimInv'
      BY <2>8 DEF Skip
  <2>9. CASE StripePays(c)
      BY <2>9 DEF StripePays, AfterTransfer
  <2>10. CASE StripeRepeats(c)
      BY <2>10 DEF StripeRepeats, AfterTransfer
  <2>11. CASE StripeRefuses(c)
      BY <2>11 DEF StripeRefuses
  <2>12. CASE AnswerLost(c)
      BY <2>12 DEF AnswerLost
  <2>13. CASE RecordSeat(c)
    <3>1. \A d \in Releases \ {c} : stage[d] \in Claimed => payee[d] # payee[c]
        BY <2>13 DEF RecordSeat
    <3> QED
        BY <2>13, <3>1 DEF RecordSeat
  <2>14. CASE Unclaim(c)
    <3>1. \A d \in Releases \ {c} : stage[d] \in Claimed => payee[d] # payee[c]
        BY <2>14 DEF Unclaim
    <3>2. payee' = payee /\ \A d \in Releases \ {c} : stage'[d] = stage[d]
        BY <2>14 DEF Unclaim
    <3>3. stage'[c] \notin Claimed
        BY <2>14 DEF Unclaim
    <3>4. \A p \in Payees \ {payee[c]} : slot'[p] = slot[p]
        BY <2>14 DEF Unclaim
    <3>5. \A d \in Releases : stage'[d] \in Claimed =>
            d # c /\ stage[d] \in Claimed /\ slot'[payee[d]] = slot[payee[d]]
        BY <3>1, <3>2, <3>3, <3>4
    <3> QED
        BY <3>2, <3>3, <3>5
  <2> QED
      BY <1>1, <2>1, <2>2, <2>3, <2>4, <2>5, <2>6, <2>7, <2>8, <2>9, <2>10,
         <2>11, <2>12, <2>13, <2>14 DEF Step
<1>2. CASE Around
  <2>1. slot' = slot /\ stage' = stage
      BY <1>2 DEF Around, CrewChanges, KeyExpires
  <2>2. payee' = payee
      BY <1>2 DEF Around, CrewChanges, KeyExpires
  <2> QED
      BY <2>1, <2>2
<1>3. CASE UNCHANGED payVars
    BY <1>3 DEF payVars
<1> QED
    BY <1>1, <1>2, <1>3 DEF PayNext

-----------------------------------------------------------------------------
(* Records.                                                                *)

\* Every step keeps what is recorded backed by a transfer.
LEMMA NextBackedInv ==
    PayTypeOK /\ ClaimInv /\ BackedInv /\ [PayNext]_payVars => BackedInv'
<1> SUFFICES ASSUME PayTypeOK, ClaimInv, BackedInv, [PayNext]_payVars PROVE BackedInv'
    OBVIOUS
<1> USE PayeeKinds
    DEF PayTypeOK, ClaimInv, BackedInv, Claimed, records, stripe, crew, Move, Drop, EndCall
<1>1. ASSUME NEW c \in Releases, Step(c) PROVE BackedInv'
  <2>1. CASE Begin(c)
      BY <2>1 DEF Begin
  <2>2. CASE ReadUnpaid(c)
      BY <2>2 DEF ReadUnpaid
  <2>3. CASE TipSelect(c)
      BY <2>3 DEF TipSelect
  <2>4. CASE End(c)
      BY <2>4 DEF End
  <2>5. ASSUME NEW s \in Positions, EarnWrite(c, s) PROVE BackedInv'
      BY <2>5 DEF EarnWrite
  <2>6. ASSUME NEW s \in Positions, ClaimSeat(c, s) PROVE BackedInv'
    <3>1. /\ made' = made /\ keys' = keys
          /\ stage'[c] \in {"seats", "transfer"}
        BY <2>6 DEF ClaimSeat
    <3>2. stage[c] = "seats" /\ \A d \in Releases \ {c} : stage'[d] = stage[d] /\ payee'[d] = payee[d]
        BY <2>6 DEF ClaimSeat
    <3>3. \A p \in Payees : slot'[p] = "paid" => slot[p] = "paid"
        BY <2>6 DEF ClaimSeat
    <3>4. \A p \in Payees, d \in Releases :
            payee[d] = p /\ stage[d] \in {"transfer", "unclaim"}
              => payee'[d] = p /\ stage'[d] \in {"transfer", "unclaim"}
        BY <3>2
    <3>5. \A p \in Payees : slot'[p] = "paid" =>
            \/ made'[p] > 0
            \/ \E d \in Releases : payee'[d] = p /\ stage'[d] \in {"transfer", "unclaim"}
        BY <3>1, <3>3, <3>4
    <3>6. \A d \in Releases : stage'[d] = "record" => made'[payee'[d]] > 0
        BY <3>1, <3>2
    <3> QED
        BY <3>1, <3>5, <3>6
  <2>7. ASSUME NEW t \in Tips, ClaimTip(c, t) PROVE BackedInv'
    <3>1. /\ made' = made /\ keys' = keys
          /\ stage'[c] \in {"tips", "transfer"}
        BY <2>7 DEF ClaimTip
    <3>2. stage[c] = "tips" /\ \A d \in Releases \ {c} : stage'[d] = stage[d] /\ payee'[d] = payee[d]
        BY <2>7 DEF ClaimTip
    <3>3. \A p \in Payees : slot'[p] = "paid" =>
            slot[p] = "paid" \/ (payee'[c] = p /\ stage'[c] = "transfer")
        BY <2>7 DEF ClaimTip
    <3>4. \A p \in Payees, d \in Releases :
            payee[d] = p /\ stage[d] \in {"transfer", "unclaim"}
              => payee'[d] = p /\ stage'[d] \in {"transfer", "unclaim"}
        BY <3>2
    <3>5. \A p \in Payees : slot'[p] = "paid" =>
            \/ made'[p] > 0
            \/ \E d \in Releases : payee'[d] = p /\ stage'[d] \in {"transfer", "unclaim"}
        BY <3>1, <3>3, <3>4
    <3>6. \A d \in Releases : stage'[d] = "record" => made'[payee'[d]] > 0
        BY <3>1, <3>2
    <3> QED
        BY <3>1, <3>5, <3>6
  <2>8. ASSUME NEW p \in Payees, Skip(c, p) PROVE BackedInv'
      BY <2>8 DEF Skip
  <2>9. ASSUME Transfer(c)
        PROVE  /\ \A p \in keys' : made'[p] > 0
               /\ \A p \in Payees : made[p] > 0 => made'[p] > 0
               /\ made'[payee[c]] > 0
      BY <2>9 DEF Transfer
  <2>10. CASE StripePays(c)
      BY <2>9, <2>10 DEF StripePays, AfterTransfer
  <2>11. CASE StripeRepeats(c)
      BY <2>11 DEF StripeRepeats, AfterTransfer
  <2>12. CASE StripeRefuses(c)
      BY <2>12 DEF StripeRefuses
  <2>13. CASE AnswerLost(c)
      BY <2>9, <2>13 DEF AnswerLost
  <2>14. CASE RecordSeat(c)
      BY <2>14 DEF RecordSeat
  <2>15. CASE Unclaim(c)
      BY <2>15 DEF Unclaim
  <2> QED
      BY <1>1, <2>1, <2>2, <2>3, <2>4, <2>5, <2>6, <2>7, <2>8, <2>10, <2>11,
         <2>12, <2>13, <2>14, <2>15 DEF Step
<1>2. CASE Around
    BY <1>2 DEF Around, CrewChanges, KeyExpires
<1>3. CASE UNCHANGED payVars
    BY <1>3 DEF payVars
<1> QED
    BY <1>1, <1>2, <1>3 DEF PayNext

\* RecordedIsMade: a seat with a transfer id, and a tip with a paid-out stamp
\* that nobody is paying, has been transferred.
THEOREM RecordsAreBacked == PaySpec => []RecordedIsMade
<1>1. PayInit => ClaimInv /\ BackedInv
    BY DEF PayInit, ClaimInv, BackedInv, Claimed
<1>2. PayTypeOK /\ BackedInv => RecordedIsMade
    BY DEF PayTypeOK, BackedInv, RecordedIsMade, Paying
<1> QED
    BY <1>1, <1>2, PayTypeCorrect, NextClaimInv, NextBackedInv, PTL DEF PaySpec

-----------------------------------------------------------------------------
(* A claim has an owner.                                                   *)

\* ClaimedIsPaying: a seat that is claimed is being paid by exactly one call,
\* which will record the transfer or give the claim up.
ClaimedIsPaying ==
    \A s \in Positions : slot[s] = "pending" => \E c \in Releases : Paying(s) = {c}

\* A claimed seat has a call that pays it.
OwnedInv ==
    \A s \in Positions : slot[s] = "pending" =>
        \E c \in Releases : payee[c] = s /\ stage[c] \in Claimed

\* Every step keeps claimed seats owned: a claim's owner leaves the seat only
\* together with the claim.
LEMMA NextOwnedInv == PayTypeOK /\ ClaimInv /\ OwnedInv /\ [PayNext]_payVars => OwnedInv'
<1> SUFFICES ASSUME PayTypeOK, ClaimInv, OwnedInv, [PayNext]_payVars,
                    NEW s \in Positions, slot'[s] = "pending"
             PROVE  \E c \in Releases : payee'[c] = s /\ stage'[c] \in Claimed
    BY DEF OwnedInv
<1> DEFINE Goal == \E c \in Releases : payee'[c] = s /\ stage'[c] \in Claimed
<1>1. s \in Payees /\ s \notin Tips
    BY PayeeKinds
<1>2. ASSUME UNCHANGED <<slot, payee>>,
             \A c \in Releases : stage[c] \in Claimed => stage'[c] \in Claimed
      PROVE  Goal
    BY <1>2 DEF OwnedInv
<1>3. ASSUME NEW c \in Releases, Step(c) PROVE Goal
  <2> USE DEF PayTypeOK, Claimed, records, stripe, crew, Move, Drop, EndCall
  <2>1. CASE Begin(c) \/ ReadUnpaid(c) \/ TipSelect(c) \/ End(c)
      BY <1>2, <2>1 DEF Begin, ReadUnpaid, TipSelect, End
  <2>2. ASSUME NEW t \in Positions, EarnWrite(c, t) PROVE Goal
      BY <1>2, <2>2 DEF EarnWrite
  <2>3. ASSUME NEW p \in Payees, Skip(c, p) PROVE Goal
      BY <1>2, <2>3 DEF Skip
  <2>4. ASSUME NEW t \in Positions, ClaimSeat(c, t) PROVE Goal
    <3>1. CASE slot[t] # "null"
        BY <1>2, <2>4, <3>1 DEF ClaimSeat
    <3>2. CASE slot[t] = "null"
      <4>1. /\ stage[c] = "seats"
            /\ slot' = [slot EXCEPT ![t] = "pending"]
            /\ payee' = [payee EXCEPT ![c] = t]
            /\ stage' = [stage EXCEPT ![c] = "transfer"]
          BY <2>4, <3>2 DEF ClaimSeat
      <4>2. CASE s = t
          BY <4>1, <4>2
      <4>3. CASE s # t
        <5>1. PICK d \in Releases : payee[d] = s /\ stage[d] \in Claimed
            BY <1>1, <4>1, <4>3 DEF OwnedInv
        <5>2. d # c
            BY <4>1, <5>1
        <5> QED
            BY <4>1, <5>1, <5>2
      <4> QED
          BY <4>2, <4>3
    <3> QED
        BY <3>1, <3>2
  <2>5. ASSUME NEW t \in Tips, ClaimTip(c, t) PROVE Goal
    <3>1. slot[s] = "pending" /\ stage[c] = "tips"
        BY <1>1, <2>5 DEF ClaimTip
    <3>2. PICK d \in Releases : payee[d] = s /\ stage[d] \in Claimed
        BY <3>1 DEF OwnedInv
    <3>3. payee'[d] = payee[d] /\ stage'[d] = stage[d]
        BY <2>5, <3>1, <3>2 DEF ClaimTip
    <3> QED
        BY <3>2, <3>3
  <2>6. CASE StripePays(c) \/ StripeRepeats(c)
      BY <1>2, <2>6 DEF StripePays, StripeRepeats, AfterTransfer, OwnedInv
  <2>7. CASE StripeRefuses(c) \/ AnswerLost(c)
      BY <1>2, <2>7 DEF StripeRefuses, AnswerLost
  <2>8. CASE RecordSeat(c) \/ Unclaim(c)
    <3>1. slot[s] = "pending" /\ s # payee[c]
        BY <1>1, <2>8 DEF RecordSeat, Unclaim
    <3>2. PICK d \in Releases : payee[d] = s /\ stage[d] \in Claimed
        BY <3>1 DEF OwnedInv
    <3>3. payee'[d] = payee[d] /\ stage'[d] = stage[d]
        BY <2>8, <3>1, <3>2 DEF RecordSeat, Unclaim
    <3> QED
        BY <3>2, <3>3
  <2> QED
      BY <1>3, <2>1, <2>2, <2>3, <2>4, <2>5, <2>6, <2>7, <2>8 DEF Step
<1>4. CASE Around
    BY <1>2, <1>4 DEF Around, CrewChanges, KeyExpires, records, stripe, crew
<1>5. CASE UNCHANGED payVars
    BY <1>2, <1>5 DEF payVars
<1> QED
    BY <1>3, <1>4, <1>5 DEF PayNext

\* The safety half of ClaimSettles: no step leaves a seat claimed without the
\* one call that can settle it, however calls race, fail and repeat.
THEOREM ClaimsHaveOneOwner == PaySpec => []ClaimedIsPaying
<1>1. PayInit => ClaimInv /\ OwnedInv
    BY PayeeKinds DEF PayInit, ClaimInv, OwnedInv, Claimed
<1>2. ClaimInv /\ OwnedInv => ClaimedIsPaying
  <2> SUFFICES ASSUME ClaimInv, OwnedInv, NEW s \in Positions, slot[s] = "pending"
               PROVE  \E c \in Releases : Paying(s) = {c}
      BY DEF ClaimedIsPaying
  <2>1. PICK c \in Releases : payee[c] = s /\ stage[c] \in Claimed
      BY DEF OwnedInv
  <2>2. \A d \in Releases : payee[d] = s /\ stage[d] \in Claimed => d = c
      BY <2>1 DEF ClaimInv
  <2>3. Paying(s) = {c}
      BY <2>1, <2>2 DEF Paying, Claimed
  <2> QED
      BY <2>3
<1> QED
    BY <1>1, <1>2, PayTypeCorrect, NextClaimInv, NextOwnedInv, PTL DEF PaySpec

-----------------------------------------------------------------------------
(* Once.                                                                   *)

\* Every step keeps the transfers single.
LEMMA NextOnceInv ==
    PayTypeOK /\ ClaimInv /\ BackedInv /\ OnceInv /\ [PayNext]_payVars => OnceInv'
<1> SUFFICES ASSUME PayTypeOK, ClaimInv, BackedInv, OnceInv, [PayNext]_payVars PROVE OnceInv'
    OBVIOUS
<1> USE PayeeKinds
    DEF PayTypeOK, OnceInv, records, stripe, crew, Move, Drop, EndCall
<1>1. ASSUME NEW c \in Releases, Step(c) PROVE OnceInv'
  <2>1. CASE Begin(c)
      BY <2>1 DEF Begin
  <2>2. CASE ReadUnpaid(c)
      BY <2>2 DEF ReadUnpaid
  <2>3. CASE TipSelect(c)
      BY <2>3 DEF TipSelect
  <2>4. CASE End(c)
      BY <2>4 DEF End
  <2>5. ASSUME NEW s \in Positions, EarnWrite(c, s) PROVE OnceInv'
      BY <2>5 DEF EarnWrite
  <2>6. ASSUME NEW s \in Positions, ClaimSeat(c, s) PROVE OnceInv'
      BY <2>6 DEF ClaimSeat
  <2>7. ASSUME NEW t \in Tips, ClaimTip(c, t) PROVE OnceInv'
      BY <2>7 DEF ClaimTip
  <2>8. ASSUME NEW p \in Payees, Skip(c, p) PROVE OnceInv'
      BY <2>8 DEF Skip
  <2>9. ASSUME Transfer(c), stage[c] = "transfer"
        PROVE  /\ made[payee[c]] = 0
               /\ made' = [made EXCEPT ![payee[c]] = 1]
               /\ keys' = keys \union {payee[c]}
    <3>1. made[payee[c]] = 0
        BY <2>9 DEF Transfer
    <3>2. made' = [made EXCEPT ![payee[c]] = @ + 1] /\ keys' = keys \union {payee[c]}
        BY <2>9 DEF Transfer
    <3> QED
        BY <3>1, <3>2
  <2>10. CASE StripePays(c)
    <3>1. /\ slot[payee[c]] # "null"
          /\ \A d \in Releases \ {c} : payee[d] = payee[c] => stage[d] \notin Claimed
        BY <2>10 DEF StripePays, ClaimInv, Claimed
    <3>2. stage' = [stage EXCEPT ![c] = AfterTransfer(payee[c])] /\ payee' = payee /\ slot' = slot
        BY <2>10 DEF StripePays
    <3> QED
        BY <2>9, <2>10, <3>1, <3>2 DEF StripePays, AfterTransfer, Claimed
  <2>11. CASE StripeRepeats(c)
      BY <2>11 DEF StripeRepeats, AfterTransfer
  <2>12. CASE StripeRefuses(c)
      BY <2>12 DEF StripeRefuses
  <2>13. CASE AnswerLost(c)
      BY <2>9, <2>13 DEF AnswerLost
  <2>14. CASE RecordSeat(c)
      BY <2>14 DEF RecordSeat
  <2>15. CASE Unclaim(c)
      BY <2>15 DEF Unclaim
  <2> QED
      BY <1>1, <2>1, <2>2, <2>3, <2>4, <2>5, <2>6, <2>7, <2>8, <2>10, <2>11,
         <2>12, <2>13, <2>14, <2>15 DEF Step
<1>2. CASE Around
    BY <1>2 DEF Around, CrewChanges, KeyExpires
<1>3. CASE UNCHANGED payVars
    BY <1>3 DEF payVars
<1> QED
    BY <1>1, <1>2, <1>3 DEF PayNext

\* PaidOnce: Stripe makes at most one transfer to a seat and for a tip.
THEOREM EachIsPaidOnce == PaySpec => []PaidOnce
<1>1. PayInit => ClaimInv /\ BackedInv /\ OnceInv
    BY DEF PayInit, ClaimInv, BackedInv, OnceInv, Claimed
<1>2. OnceInv => PaidOnce
    BY DEF OnceInv, PaidOnce
<1> QED
    BY <1>1, <1>2, PayTypeCorrect, NextClaimInv, NextBackedInv, NextOnceInv, PTL DEF PaySpec

-----------------------------------------------------------------------------
(* The pool.                                                               *)

\* What each seat gets of the pool when those of P are present.
Shares(P) == [s \in Positions |-> IF s \in P THEN Cents(P, s) ELSE 0]

\* As long as the crew does not change, every amount that is written, read or
\* transferred is the share of its seat.
ShareInv ==
    changes = 0 =>
    /\ \A s \in Positions : earnings[s] \in {0, Shares(present)[s]}
    /\ \A c \in Releases : stage[c] \notin {"idle", "done"} => due[c] = Shares(present)
    /\ \A c \in Releases : stage[c] = "earn" =>
          \A s \in present \ todo[c] : earnings[s] = Shares(present)[s]
    /\ \A s \in Positions :
          /\ sent[s] \in {0, Shares(present)[s]}
          /\ made[s] > 0 => sent[s] = Shares(present)[s]

\* Every step keeps the amounts the shares.
LEMMA NextShareInv == PayTypeOK /\ ShareInv /\ [PayNext]_payVars => ShareInv'
<1> SUFFICES ASSUME PayTypeOK, ShareInv, [PayNext]_payVars, changes' = 0 PROVE ShareInv'
    BY DEF ShareInv
<1>0. changes = 0 /\ present' = present /\ ~ \E s \in Positions : CrewChanges(s)
  <2>1. \A s \in Positions : ~ CrewChanges(s)
      BY DEF CrewChanges, PayTypeOK
  <2>2. ASSUME NEW c \in Releases, Step(c) PROVE changes' = changes /\ present' = present
      BY <2>2 DEF Step, Begin, ReadUnpaid, TipSelect, End, EarnWrite, ClaimSeat, ClaimTip, Skip,
         StripePays, StripeRepeats, StripeRefuses, AnswerLost, RecordSeat, Unclaim, crew
  <2>3. ASSUME NEW p \in Payees, KeyExpires(p) PROVE changes' = changes /\ present' = present
      BY <2>3 DEF KeyExpires, crew
  <2> QED
      BY <2>1, <2>2, <2>3 DEF PayNext, Around, payVars
<1> DEFINE S == Shares(present)
<1>1. /\ S = [s \in Positions |-> IF s \in present THEN Cents(present, s) ELSE 0]
      /\ S = Shares(present) /\ S = Shares(present')
    BY <1>0 DEF Shares
<1>2. DOMAIN S = Positions /\ \A s \in Positions : s \notin present => S[s] = 0
    BY DEF Shares
<1>3. /\ \A s \in Positions : earnings[s] \in {0, S[s]}
      /\ \A c \in Releases : stage[c] \notin {"idle", "done"} => due[c] = S
      /\ \A c \in Releases : stage[c] = "earn" => \A s \in present \ todo[c] : earnings[s] = S[s]
      /\ \A s \in Positions : sent[s] \in {0, S[s]} /\ (made[s] > 0 => sent[s] = S[s])
    BY <1>0, <1>1 DEF ShareInv
<1> HIDE DEF S
<1> SUFFICES
      /\ \A s \in Positions : earnings'[s] \in {0, S[s]}
      /\ \A c \in Releases : stage'[c] \notin {"idle", "done"} => due'[c] = S
      /\ \A c \in Releases : stage'[c] = "earn" => \A s \in present \ todo'[c] : earnings'[s] = S[s]
      /\ \A s \in Positions : sent'[s] \in {0, S[s]} /\ (made'[s] > 0 => sent'[s] = S[s])
    BY <1>0, <1>1 DEF ShareInv
<1> USE <1>3 DEF PayTypeOK, records, stripe, crew, Move, Drop, EndCall
<1>4. ASSUME NEW c \in Releases, Step(c)
      PROVE  /\ \A s \in Positions : earnings'[s] \in {0, S[s]}
             /\ \A d \in Releases : stage'[d] \notin {"idle", "done"} => due'[d] = S
             /\ \A d \in Releases : stage'[d] = "earn" =>
                   \A s \in present \ todo'[d] : earnings'[s] = S[s]
             /\ \A s \in Positions : sent'[s] \in {0, S[s]} /\ (made'[s] > 0 => sent'[s] = S[s])
  <2> DEFINE Kept ==
             /\ \A s \in Positions : earnings'[s] \in {0, S[s]}
             /\ \A d \in Releases : stage'[d] \notin {"idle", "done"} => due'[d] = S
             /\ \A d \in Releases : stage'[d] = "earn" =>
                   \A s \in present \ todo'[d] : earnings'[s] = S[s]
             /\ \A s \in Positions : sent'[s] \in {0, S[s]} /\ (made'[s] > 0 => sent'[s] = S[s])
  <2> SUFFICES Kept
      OBVIOUS
  <2>1. CASE Begin(c)
    <3>1. due' = [due EXCEPT ![c] = S] /\ todo' = [todo EXCEPT ![c] = present]
        BY <2>1, <1>1 DEF Begin
    <3> QED
        BY <2>1, <3>1 DEF Begin
  <2>2. CASE ReadUnpaid(c)
    <3>1. \A s \in Positions : earnings[s] = S[s]
        BY <2>2, <1>2 DEF ReadUnpaid
    <3>2. earnings = S
        BY <3>1, <1>1
    <3> QED
        BY <2>2, <3>2 DEF ReadUnpaid
  <2>3. CASE TipSelect(c)
      BY <2>3 DEF TipSelect
  <2>4. CASE End(c)
      BY <2>4 DEF End
  <2>5. ASSUME NEW s \in Positions, EarnWrite(c, s) PROVE Kept
    <3>1. earnings' = [earnings EXCEPT ![s] = S[s]]
        BY <2>5 DEF EarnWrite
    <3>2. todo' = [todo EXCEPT ![c] = @ \ {s}] /\ stage' = stage /\ due' = due /\ sent' = sent /\ made' = made
        BY <2>5 DEF EarnWrite
    <3> QED
        BY <3>1, <3>2
  <2>6. ASSUME NEW s \in Positions, ClaimSeat(c, s) PROVE Kept
    <3>1. /\ earnings' = earnings /\ due' = due /\ sent' = sent /\ made' = made
          /\ stage[c] = "seats" /\ stage'[c] \in {"seats", "transfer"}
        BY <2>6 DEF ClaimSeat
    <3>2. \A d \in Releases \ {c} : stage'[d] = stage[d] /\ todo'[d] = todo[d]
        BY <2>6 DEF ClaimSeat
    <3> QED
        BY <3>1, <3>2
  <2>7. ASSUME NEW t \in Tips, ClaimTip(c, t) PROVE Kept
      BY <2>7 DEF ClaimTip
  <2>8. ASSUME NEW p \in Payees, Skip(c, p) PROVE Kept
      BY <2>8 DEF Skip
  <2>9. ASSUME Transfer(c), stage[c] = "transfer"
        PROVE  \A s \in Positions : sent'[s] \in {0, S[s]} /\ (made'[s] > 0 => sent'[s] = S[s])
    <3>1. due[c] = S
        BY <2>9
    <3>2. \A s \in Positions \ {payee[c]} : made'[s] = made[s] /\ sent'[s] = sent[s]
        BY <2>9, PayeeKinds DEF Transfer
    <3>3. payee[c] \in Positions =>
            sent'[payee[c]] = IF made[payee[c]] = 0 THEN S[payee[c]] ELSE sent[payee[c]]
        BY <2>9, <3>1 DEF Transfer
    <3>4. made[payee[c]] \in Nat
        OBVIOUS
    <3>5. payee[c] \in Positions => sent'[payee[c]] = S[payee[c]]
        BY <3>3, <3>4
    <3> QED
        BY <3>2, <3>5
  <2>10. CASE StripePays(c)
      BY <2>9, <2>10 DEF StripePays, AfterTransfer
  <2>11. CASE StripeRepeats(c)
      BY <2>11 DEF StripeRepeats, AfterTransfer
  <2>12. CASE StripeRefuses(c)
      BY <2>12 DEF StripeRefuses
  <2>13. CASE AnswerLost(c)
      BY <2>9, <2>13 DEF AnswerLost
  <2>14. CASE RecordSeat(c)
      BY <2>14 DEF RecordSeat
  <2>15. CASE Unclaim(c)
    <3>1. /\ earnings' = earnings /\ sent' = sent /\ made' = made
          /\ stage'[c] \in {"tips", "done"} /\ stage[c] = "unclaim"
          /\ stage'[c] = "tips" => due'[c] = due[c]
        BY <2>15 DEF Unclaim
    <3>2. \A d \in Releases \ {c} : stage'[d] = stage[d] /\ todo'[d] = todo[d] /\ due'[d] = due[d]
        BY <2>15 DEF Unclaim
    <3> QED
        BY <3>1, <3>2
  <2> QED
      BY <1>4, <2>1, <2>2, <2>3, <2>4, <2>5, <2>6, <2>7, <2>8, <2>10, <2>11,
         <2>12, <2>13, <2>14, <2>15 DEF Step
<1>5. CASE \E p \in Payees : KeyExpires(p)
    BY <1>5 DEF KeyExpires
<1>6. CASE UNCHANGED payVars
    BY <1>6 DEF payVars
<1> QED
    BY <1>0, <1>4, <1>5, <1>6 DEF PayNext, Around

\* No crew has more members than seats, and no split is of a negative part.
LEMMA SplitTypes ==
    ASSUME NEW P \in SUBSET Positions
    PROVE  /\ IsFiniteSet(P) /\ Cardinality(P) \in Nat
           /\ P # {} => Cardinality(P) \in 1 .. Last + 1
           /\ \A n \in 1 .. Last + 1 : \A i \in 1 .. n : Rounded(n, i) \in Nat
           /\ P \in SUBSET Nat
           /\ IsFiniteSet(Positions)
<1>0. Last \in Nat
    BY CrewPayoutAssumption
<1>1. IsFiniteSet(Positions) /\ Cardinality(Positions) = Last + 1
    BY <1>0, FS_Interval DEF Positions
<1>2. IsFiniteSet(P) /\ Cardinality(P) \in Nat /\ Cardinality(P) <= Last + 1
    BY <1>1, FS_Subset, FS_CardinalityType
<1>3. P # {} => Cardinality(P) # 0
    BY <1>2, FS_EmptySet
<1>4. ASSUME NEW n \in 1 .. Last + 1, NEW i \in 1 .. n PROVE Rounded(n, i) \in Nat
  <2>1. Percent[n][i] \in Nat /\ Pool \in Nat
      BY CrewPayoutAssumption
  <2>2. \A p, q \in Nat : 2 * p * q + 100 \in Nat
      OBVIOUS
  <2>3. \A m \in Nat : m \div 200 \in Nat
      OBVIOUS
  <2> QED
      BY <2>1, <2>2, <2>3 DEF Rounded
<1>5. P \in SUBSET Nat
    BY <1>0 DEF Positions
<1> QED
    BY <1>0, <1>1, <1>2, <1>3, <1>4, <1>5

\* What the members of a crew of n get besides the lead.
LEMMA OthersType ==
    ASSUME NEW n \in 1 .. Last + 1
    PROVE  LET others == [j \in 2 .. n |-> Rounded(n, j)]
           IN  /\ others \in [2 .. n -> Int]
               /\ IsFiniteSet(2 .. n)
               /\ SumFunction(others) = SumFunctionOnSet(others, 2 .. n)
               /\ SumFunction(others) \in Int
<1> DEFINE others == [j \in 2 .. n |-> Rounded(n, j)]
<1>0. n \in Int
    BY CrewPayoutAssumption
<1>1. IsFiniteSet(2 .. n)
    BY <1>0, FS_Interval
<1>2. \A j \in 2 .. n : Rounded(n, j) \in Int
  <2> SUFFICES ASSUME NEW j \in 2 .. n PROVE Rounded(n, j) \in Int
      OBVIOUS
  <2>1. j \in 1 .. n
      BY <1>0
  <2>2. Rounded(n, j) \in Nat
      BY <2>1, SplitTypes, {} \in SUBSET Positions
  <2> QED
      BY <2>2
<1>3. others \in [2 .. n -> Int] /\ DOMAIN others = 2 .. n
    BY <1>2
<1> HIDE DEF others
<1>4. SumFunction(others) \in Int
    BY <1>1, <1>3, SumType
<1>5. SumFunction(others) = SumFunctionOnSet(others, 2 .. n)
    BY <1>3 DEF SumFunction
<1> QED
    BY <1>1, <1>3, <1>4, <1>5 DEF others

\* The lead's share is what the others leave, and the others' is rounded.
LEMMA SharesByRank ==
    ASSUME NEW P \in SUBSET Positions, NEW s \in P
    PROVE  LET n == Cardinality(P)
           IN  Cents(P, s) = IF Rank(P, s) = 1
                             THEN Pool - SumFunction([j \in 2 .. n |-> Rounded(n, j)])
                             ELSE Rounded(n, Rank(P, s))
BY DEF Cents, Rank

\* The shares of the seats that are present are integers and come to the pool.
LEMMA SharesComeToPool ==
    ASSUME NEW P \in SUBSET Positions
    PROVE  /\ Shares(P) \in [Positions -> Int]
           /\ P # {} => SumFunction(Shares(P)) = Pool
           /\ P = {} => SumFunction(Shares(P)) = 0
<1> DEFINE n == Cardinality(P)
           others == [j \in 2 .. n |-> Rounded(n, j)]
           rest == SumFunction(others)
<1>1. /\ IsFiniteSet(P) /\ n \in Nat /\ P \in SUBSET Nat /\ IsFiniteSet(Positions)
      /\ P # {} => n \in 1 .. Last + 1
    BY SplitTypes
<1>2. P # {} => \A j \in 1 .. n : Rounded(n, j) \in Int
  <2> SUFFICES ASSUME P # {}, NEW j \in 1 .. n PROVE Rounded(n, j) \in Int
      OBVIOUS
  <2>1. Rounded(n, j) \in Nat
      BY <1>1, SplitTypes
  <2> QED
      BY <2>1
<1>3. P # {} => /\ others \in [2 .. n -> Int]
                /\ rest = SumFunctionOnSet(others, 2 .. n)
                /\ rest \in Int
    BY <1>1, OthersType
<1>7. /\ \A s \in P : Rank(P, s) \in 1 .. n
      /\ \A s, t \in P : Rank(P, s) = Rank(P, t) => s = t
      /\ \A i \in 1 .. n : \E s \in P : Rank(P, s) = i
    BY <1>1, RanksAreOneToOne
<1>8. /\ \A s \in P : Shares(P)[s] = IF Rank(P, s) = 1 THEN Pool - rest ELSE Rounded(n, Rank(P, s))
      /\ \A s \in Positions \ P : Shares(P)[s] = 0
  <2>1. \A s \in P : Shares(P)[s] = Cents(P, s)
      BY DEF Shares
  <2> QED
      BY <2>1, SharesByRank DEF Shares
<1>9. Shares(P) \in [Positions -> Int]
  <2>1. Pool \in Int
      BY CrewPayoutAssumption
  <2> HIDE DEF rest, n
  <2>2. \A s \in Positions : Shares(P)[s] \in Int
      BY <1>2, <1>3, <1>7, <1>8, <2>1
  <2>3. Shares(P) = [s \in Positions |-> Shares(P)[s]]
      BY DEF Shares
  <2> QED
      BY <2>2, <2>3
<1>10. SumFunction(Shares(P)) = SumFunctionOnSet(Shares(P), P)
    BY <1>1, <1>8, <1>9, SumIgnoresZeros
<1>11. ASSUME P = {} PROVE SumFunction(Shares(P)) = 0
    BY <1>1, <1>9, <1>10, <1>11, SumTakesOut
<1>12. ASSUME P # {} PROVE SumFunction(Shares(P)) = Pool
  <2>1. PICK first \in P : Rank(P, first) = 1
    <3>1. 1 \in 1 .. n
        BY <1>1, <1>12
    <3> QED
        BY <1>7, <3>1
  <2> DEFINE Q == P \ {first}
             rank == [s \in Q |-> Rank(P, s)]
  <2>2. SumFunctionOnSet(Shares(P), P) = Shares(P)[first] + SumFunctionOnSet(Shares(P), Q)
    <3> DEFINE all == Shares(P)
    <3>1. IsFiniteSet(Positions) /\ all \in [Positions -> Int]
        BY <1>1, <1>9
    <3> HIDE DEF all
    <3>2. SumFunctionOnSet(all, P) = all[first] + SumFunctionOnSet(all, P \ {first})
        BY <3>1, SumTakesOut
    <3> QED
        BY <3>2 DEF all
  <2>3. \A s \in Q : rank[s] \in 2 .. n
    <3> SUFFICES ASSUME NEW s \in Q PROVE Rank(P, s) \in 2 .. n
        OBVIOUS
    <3>1. Rank(P, s) \in 1 .. n /\ Rank(P, s) # 1
        BY <1>7, <2>1
    <3> HIDE DEF n
    <3> QED
        BY <1>1, <3>1
  <2>4. \A s, t \in Q : rank[s] = rank[t] => s = t
      BY <1>7
  <2>5. \A i \in 2 .. n : \E s \in Q : rank[s] = i
    <3> SUFFICES ASSUME NEW i \in 2 .. n PROVE \E s \in Q : Rank(P, s) = i
        OBVIOUS
    <3>1. i \in 1 .. n /\ i # 1
        BY <1>1
    <3>2. PICK s \in P : Rank(P, s) = i
        BY <1>7, <3>1
    <3> QED
        BY <2>1, <3>1, <3>2
  <2>6. \A s \in Q : Shares(P)[s] = others[rank[s]]
    <3> SUFFICES ASSUME NEW s \in Q PROVE Shares(P)[s] = Rounded(n, Rank(P, s)) /\ rank[s] = Rank(P, s)
        BY <2>3
    <3>1. Rank(P, s) # 1
        BY <1>7, <2>1
    <3> QED
        BY <1>8, <3>1
  <2>7. SumFunctionOnSet(Shares(P), Q) = SumFunctionOnSet(others, 2 .. n)
    <3>1. IsFiniteSet(Q)
        BY <1>1, FS_RemoveElement
    <3>2. rank \in [Q -> 2 .. n]
        BY <2>3
    <3> DEFINE V == 2 .. n
    <3>3. others \in [V -> Int] /\ IsFiniteSet(V) /\ rank \in [Q -> V]
        BY <1>1, <1>12, <3>2, OthersType
    <3>4. \A i \in V : \E s \in Q : rank[s] = i
        BY <2>5
    <3> HIDE DEF rank, Q, others, V
    <3>5. SumFunctionOnSet(Shares(P), Q) = SumFunctionOnSet(others, V)
        BY <2>4, <2>6, <3>1, <3>3, <3>4, SumIsReindexed
    <3> QED
        BY <3>5 DEF V
  <2>8. Shares(P)[first] = Pool - rest
      BY <1>8, <2>1
  <2>9. rest \in Int /\ Pool \in Int
      BY <1>3, <1>12, CrewPayoutAssumption
  <2> HIDE DEF rest, Q
  <2>10. SumFunctionOnSet(Shares(P), P) = (Pool - rest) + rest
      BY <1>3, <1>12, <2>2, <2>7, <2>8
  <2> QED
      BY <1>10, <2>9, <2>10
<1> QED
    BY <1>9, <1>11, <1>12

\* The others' rounded parts do not take more than the pool: each is rounded up
\* by half a cent at most, and the lead's part makes up for it.  The
\* configuration allows splits that do not: 0, 50, 50 of a pool of 1 cent.
LeadHasAShare ==
    \A n \in 1 .. Last + 1 : SumFunction([j \in 2 .. n |-> Rounded(n, j)]) <= Pool

\* If the lead has a share, no share is negative.
LEMMA NoShareIsNegative ==
    ASSUME LeadHasAShare, NEW P \in SUBSET Positions
    PROVE  \A s \in Positions : Shares(P)[s] >= 0
<1> SUFFICES ASSUME NEW s \in P PROVE Cents(P, s) >= 0
    BY DEF Shares
<1> DEFINE n == Cardinality(P)
           rest == SumFunction([j \in 2 .. n |-> Rounded(n, j)])
<1>1. n \in 1 .. Last + 1
    BY SplitTypes
<1>2. Rank(P, s) \in 1 .. n
    BY SplitTypes, RanksAreOneToOne
<1>3. Rounded(n, Rank(P, s)) \in Nat
    BY <1>1, <1>2, SplitTypes
<1>4. rest <= Pool
    BY <1>1 DEF LeadHasAShare
<1>5. Pool - rest >= 0
  <2>1. Shares(P) \in [Positions -> Int] /\ Pool \in Int
      BY SharesComeToPool, CrewPayoutAssumption
  <2>2. rest \in Int
      BY <1>1, OthersType
  <2> HIDE DEF rest
  <2> QED
      BY <1>4, <2>1, <2>2
<1> QED
    BY <1>3, <1>5, SharesByRank

\* The splits of DEFAULT_CREW_CONFIG leave the lead a share of every pool.
THEOREM DefaultLeadHasAShare ==
    Last <= 2 /\ (\A n \in 1 .. Last + 1 : Percent[n] = DefaultSplit[n]) => LeadHasAShare
<1> SUFFICES ASSUME Last <= 2, \A n \in 1 .. Last + 1 : Percent[n] = DefaultSplit[n],
                    NEW n \in 1 .. Last + 1
             PROVE  SumFunction([j \in 2 .. n |-> Rounded(n, j)]) <= Pool
    BY DEF LeadHasAShare
<1> DEFINE others == [j \in 2 .. n |-> Rounded(n, j)]
<1>1. /\ others \in [2 .. n -> Int] /\ IsFiniteSet(2 .. n)
      /\ SumFunction(others) = SumFunctionOnSet(others, 2 .. n)
    BY OthersType
<1>2. n \in {1, 2, 3} /\ Pool \in Nat
    BY CrewPayoutAssumption
<1>3. \A j \in 2 .. n : others[j] = (2 * Pool * DefaultSplit[n][j] + 100) \div 200
    BY DEF Rounded
<1>4. ASSUME NEW D, 2 .. n = D, NEW x \in D
      PROVE  /\ SumFunctionOnSet(others, D) = others[x] + SumFunctionOnSet(others, D \ {x})
             /\ SumFunctionOnSet(others, {}) = 0
             /\ \A y \in D : D \ {x} = {y} =>
                   SumFunctionOnSet(others, {y}) = others[y] + SumFunctionOnSet(others, {y} \ {y})
  <2> HIDE DEF others
  <2>1. others \in [D -> Int] /\ IsFiniteSet(D) /\ D \in SUBSET D
      BY <1>1, <1>4
  <2>2. ASSUME NEW y \in D
        PROVE  SumFunctionOnSet(others, {y}) = others[y] + SumFunctionOnSet(others, {y} \ {y})
    <3>1. {y} \in SUBSET D /\ y \in {y}
        OBVIOUS
    <3> QED
        BY <2>1, <3>1, SumTakesOut
  <2>3. SumFunctionOnSet(others, D) = others[x] + SumFunctionOnSet(others, D \ {x})
      BY <2>1, SumTakesOut
  <2>4. SumFunctionOnSet(others, {}) = 0
      BY <2>1, SumTakesOut
  <2> QED
      BY <2>2, <2>3, <2>4
<1>5. CASE n = 1
  <2>1. 2 .. n = {}
      BY <1>5
  <2>2. SumFunctionOnSet(others, {}) = 0
    <3> HIDE DEF others
    <3> QED
        BY <1>1, <2>1, SumTakesOut
  <2> QED
      BY <1>1, <1>2, <2>1, <2>2
<1>6. CASE n = 2
  <2>1. 2 .. n = {2} /\ {2} \ {2} = {}
      BY <1>6
  <2>2. others[2] = (2 * Pool * 46 + 100) \div 200
      BY <1>3, <1>6 DEF DefaultSplit
  <2>3. others[2] <= Pool /\ others[2] \in Int
    <3> HIDE DEF others
    <3> QED
        BY <1>2, <2>2
  <2> HIDE DEF others
  <2>4. SumFunctionOnSet(others, {2}) = others[2] + 0
      BY <1>4, <2>1
  <2>5. SumFunction(others) = others[2] + 0
      BY <1>1, <2>1, <2>4
  <2> QED
      BY <1>2, <2>3, <2>5 DEF others
<1>7. CASE n = 3
  <2>1. 2 .. n = {2, 3} /\ {2, 3} \ {3} = {2} /\ {2} \ {2} = {} /\ 2 \in {2, 3} /\ 3 \in {2, 3}
      BY <1>7
  <2>2. /\ others[2] = (2 * Pool * 32 + 100) \div 200
        /\ others[3] = (2 * Pool * 32 + 100) \div 200
      BY <1>3, <1>7 DEF DefaultSplit
  <2>3. others[3] + (others[2] + 0) <= Pool /\ others[2] \in Int /\ others[3] \in Int
    <3> HIDE DEF others
    <3> QED
        BY <1>2, <2>2
  <2> HIDE DEF others
  <2>4. /\ SumFunctionOnSet(others, {2, 3}) = others[3] + SumFunctionOnSet(others, {2})
        /\ SumFunctionOnSet(others, {2}) = others[2] + 0
    <3>1. /\ SumFunctionOnSet(others, {2, 3}) = others[3] + SumFunctionOnSet(others, {2, 3} \ {3})
          /\ SumFunctionOnSet(others, {}) = 0
          /\ \A y \in {2, 3} : {2, 3} \ {3} = {y} =>
                SumFunctionOnSet(others, {y}) = others[y] + SumFunctionOnSet(others, {y} \ {y})
        BY <1>4, <2>1
    <3> QED
        BY <2>1, <3>1
  <2>5. SumFunction(others) = others[3] + (others[2] + 0)
      BY <1>1, <2>1, <2>4
  <2> QED
      BY <1>2, <2>3, <2>5 DEF others
<1> QED
    BY <1>2, <1>5, <1>6, <1>7

\* PoolIsConserved: while the crew stays as it is, the transfers never exceed
\* the pool, and come to all of it once every seat is paid.  A transfer made to
\* the others before a lead whose share is negative would exceed it.
THEOREM PoolIsPaidOut == LeadHasAShare => (PaySpec => []PoolIsConserved)
<1> SUFFICES ASSUME LeadHasAShare PROVE PaySpec => []PoolIsConserved
    OBVIOUS
<1>1. PayInit => ClaimInv /\ BackedInv
    BY DEF PayInit, ClaimInv, BackedInv, Claimed
<1>2. PayInit => ShareInv
  <2> SUFFICES ASSUME PayInit PROVE ShareInv
      OBVIOUS
  <2>1. \A s \in Positions : earnings[s] = 0 /\ sent[s] = 0 /\ made[s] = 0
      BY PayeeKinds DEF PayInit, Nothing
  <2> QED
      BY <2>1 DEF PayInit, ShareInv
<1>3. PayTypeOK /\ ClaimInv /\ BackedInv /\ ShareInv => PoolIsConserved
  <2> SUFFICES ASSUME PayTypeOK, ClaimInv, BackedInv, ShareInv, changes = 0
               PROVE  /\ SumFunction(sent) <= Pool
                      /\ present # {} /\ (\A s \in present : slot[s] = "paid")
                          => SumFunction(sent) = Pool
      BY DEF PoolIsConserved
  <2> DEFINE S == Shares(present)
  <2>0. present \in SUBSET Positions /\ IsFiniteSet(Positions) /\ Pool \in Nat
      BY SplitTypes, CrewPayoutAssumption DEF PayTypeOK
  <2>1. /\ S \in [Positions -> Int]
        /\ \A s \in Positions : S[s] >= 0
        /\ present # {} => SumFunction(S) = Pool
        /\ present = {} => SumFunction(S) = 0
      BY <2>0, SharesComeToPool, NoShareIsNegative
  <2>2. DOMAIN sent = Positions /\ sent = [s \in Positions |-> sent[s]]
      BY DEF PayTypeOK
  <2>3. \A s \in Positions : sent[s] \in {0, S[s]} /\ (made[s] > 0 => sent[s] = S[s])
      BY DEF ShareInv
  <2>4. \A s \in Positions \ present : S[s] = 0
      BY DEF Shares
  <2> HIDE DEF S
  <2>5. \A s \in Positions : sent[s] \in Int /\ sent[s] <= S[s]
      BY <2>1, <2>3
  <2>6. sent \in [Positions -> Int]
      BY <2>2, <2>5
  <2>7. SumFunction(sent) <= SumFunction(S)
      BY <2>0, <2>1, <2>5, <2>6, SumIsMonotone
  <2>8. SumFunction(sent) <= Pool
    <3>1. SumFunction(sent) \in Int /\ SumFunction(S) \in {0, Pool}
        BY <2>0, <2>1, <2>6, SumType
    <3> QED
        BY <2>0, <2>7, <3>1
  <2>9. ASSUME \A s \in present : slot[s] = "paid" PROVE sent = S
    <3>1. \A s \in present : made[s] > 0
        BY <2>0, <2>9, PayeeKinds DEF BackedInv, ClaimInv, Claimed
    <3>2. \A s \in Positions : sent[s] = S[s]
        BY <2>3, <2>4, <3>1
    <3>3. S = [s \in Positions |-> S[s]]
        BY <2>1
    <3> QED
        BY <2>2, <3>2, <3>3
  <2> QED
      BY <2>1, <2>8, <2>9
<1> QED
    BY <1>1, <1>2, <1>3, PayTypeCorrect, NextClaimInv, NextBackedInv, NextShareInv, PTL
       DEF PaySpec

=============================================================================
