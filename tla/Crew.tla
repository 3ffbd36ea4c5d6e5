-------------------------------- MODULE Crew --------------------------------
(***************************************************************************)
(* The seats of one team clean (booking_crew_assignments): inviting waves  *)
(* of cleaners to a seat, accepting and declining, expiry, replacement,    *)
(* check-in, no-shows and completion.                                      *)
(*                                                                         *)
(* A seat row is rewritten from what a request has read earlier, often     *)
(* with nothing but its id in the WHERE clause, so each handler is a       *)
(* sequence of reads and writes that interleaves with all the others:      *)
(*                                                                         *)
(*   accept     idle -> claim -> pointer -> reread -> members -> invite .. *)
(*   decline    idle -> decline -> lapse -> cascade -> invite ...          *)
(*   cron       idle -> expire -> cascade -> invite ...                    *)
(*   replace    idle -> unpoint -> release -> clear -> leadwave or cascade *)
(*   check-in   idle -> checkin;  complete  idle -> complete               *)
(*                                                                         *)
(* inviting one seat is  invite -> write, for each seat of the batch.      *)
(* bookings.crew_status steers none of this and is left out.               *)
(***************************************************************************)
EXTENDS Naturals, FiniteSets

CONSTANTS
    Cleaners,    \* the cleaners the ranking finds eligible
    Requests,    \* calls in progress: of cleaners, of operators, of the cron
    Lead,        \* the LEAD seat
    Members,     \* the MEMBER seats
    Nobody,      \* cleaner_id IS NULL
    Batch,       \* cfg.parallelInvitationCount
    MaxVersion   \* bound: from this version on a seat is not invited to or released

Seats == {Lead} \union Members

ASSUME CrewAssumption ==
    /\ Lead \notin Members
    /\ Nobody \notin Cleaners
    /\ IsFiniteSet(Cleaners)
    /\ Batch \in Nat \ {0}
    /\ MaxVersion \in Nat

VARIABLES
    status,     \* seat -> status of its row
    holder,     \* seat -> cleaner_id
    version,    \* seat -> crew_assignment_version
    pool,       \* seat -> the invitation pool in score_breakdown
    arrived,    \* seat -> check_in_at IS NOT NULL
    pointer,    \* bookings.cleaner_id, the compatibility pointer to the lead
    completed,  \* bookings.status = 'completed'
    pc,         \* where each request is
    caller,     \* the cleaner who answers, while that matters
    at,         \* the seat it works on
    read,       \* what it has read of a seat: version, holder and pool
    wave        \* the cleaners it is about to invite, per seat

rows == <<status, holder, version, pool, arrived>>
jobs == <<caller, at, read, wave>>
vars == <<rows, pointer, completed, pc, jobs>>

SeatStatuses == {"CANDIDATE", "INVITED", "ACCEPTED", "NO_SHOW", "REMOVED",
                 "COMPLETED"}

Open   == {"CANDIDATE", "INVITED"}     \* seats that may be invited to
Seated == {"ACCEPTED", "COMPLETED"}

\* A seat without a pool, before the first wave, after an accept and after a
\* release, reads as one with nobody in it.
Pools  == [invited: SUBSET Cleaners, declined: SUBSET Cleaners,
           contacted: SUBSET Cleaners]
NoPool == [invited |-> {}, declined |-> {}, contacted |-> {}]

Labels == {"idle", "claim", "pointer", "reread", "members", "decline",
           "lapse", "expire", "cascade", "leadwave", "invite", "write",
           "unpoint", "release", "clear", "checkin", "complete"}

NoWave == [s \in Seats |-> {}]
Reads  == [version: Nat, holder: Cleaners \union {Nobody}, pool: Pools]
NoRead == [version |-> 0, holder |-> Nobody, pool |-> NoPool]

\* createCrewSeats: one open row per position.
Init ==
    /\ status = [s \in Seats |-> "CANDIDATE"]
    /\ holder = [s \in Seats |-> Nobody]
    /\ version = [s \in Seats |-> 1]
    /\ pool = [s \in Seats |-> NoPool]
    /\ arrived = [s \in Seats |-> FALSE]
    /\ pointer = Nobody
    /\ completed = FALSE
    /\ pc = [p \in Requests |-> "idle"]
    /\ caller = [p \in Requests |-> Nobody]
    /\ at = [p \in Requests |-> Lead]
    /\ read = [p \in Requests |-> NoRead]
    /\ wave = [p \in Requests |-> NoWave]

\* A request goes on, noting what it uses later of a seat it has read, or is over.
Goto(p, label) == pc' = [pc EXCEPT ![p] = label]
Note(p, what) == read' = [read EXCEPT ![p] = what]
Forget(p) ==
    /\ caller' = [caller EXCEPT ![p] = Nobody]
    /\ at' = [at EXCEPT ![p] = Lead]
    /\ Note(p, NoRead)
Finish(p) ==
    /\ Goto(p, "idle")
    /\ Forget(p)
    /\ wave' = [wave EXCEPT ![p] = NoWave]

\* A new request, of cleaner c or of nobody, is about seat s.
Take(p, c, s, label) ==
    /\ pc[p] = "idle"
    /\ Goto(p, label)
    /\ caller' = [caller EXCEPT ![p] = c]
    /\ at' = [at EXCEPT ![p] = s]
    /\ UNCHANGED <<rows, pointer, completed, wave>>

\* seatedCleanerIds and currentLeadCleanerId.
SeatedCleaners == {holder[s] : s \in {t \in Seats : status[t] \in Seated}}
HasLead == status[Lead] \in Seated

-----------------------------------------------------------------------------
(* Inviting.                                                               *)

\* The top of a ranking: everybody, or a full batch.
IsBatch(set, candidates) ==
    /\ set \subseteq candidates
    /\ \/ Cardinality(set) = Batch
       \/ set = candidates /\ Cardinality(set) < Batch

\* The waves a ranking has chosen are sent next; without any, staffing failed.
Send(p, waves) ==
    \/ /\ waves # NoWave
       /\ wave' = [wave EXCEPT ![p] = waves]
       /\ Goto(p, "invite")
       /\ Forget(p)
    \/ waves = NoWave /\ Finish(p)

\* inviteLeadWave: rank for the lead seat, unless it is filled.
LeadWave(p) ==
    /\ pc[p] = "leadwave"
    /\ \/ /\ status[Lead] \in Open
          /\ \E set \in SUBSET Cleaners :
                /\ IsBatch(set, Cleaners \ (SeatedCleaners \union pool[Lead].contacted))
                /\ Send(p, [NoWave EXCEPT ![Lead] = set])
       \/ status[Lead] \notin Open /\ Finish(p)
    /\ UNCHANGED <<rows, pointer, completed>>

OpenMembers == {s \in Members : status[s] = "CANDIDATE"}

\* staffMemberSeats: rank once for the lead that was read, and deal disjoint
\* waves to the open seats.  Whoever was contacted before is ranked again.
RankMembers(p) ==
    /\ pc[p] = "members"
    /\ LET candidates == Cleaners \ (SeatedCleaners \union {read[p].holder})
       IN  \E deal \in [Seats -> SUBSET candidates] :
              /\ \A s \in Seats \ OpenMembers : deal[s] = {}
              /\ \A s \in OpenMembers :
                    LET others == UNION {deal[t] : t \in OpenMembers \ {s}}
                    IN  deal[s] \intersect others = {} /\ IsBatch(deal[s], candidates \ others)
              /\ Send(p, deal)
    /\ UNCHANGED <<rows, pointer, completed>>

\* Faulty variant: no check for a lead.
CascadeLeadless(p) ==
    /\ pc[p] = "cascade"
    /\ status[at[p]] \in Open
    /\ \E set \in SUBSET Cleaners :
          /\ IsBatch(set, Cleaners \ (SeatedCleaners \union pool[at[p]].contacted))
          /\ Send(p, [NoWave EXCEPT ![at[p]] = set])
    /\ UNCHANGED <<rows, pointer, completed>>

\* cascadeSeat: rank for one freed seat, without anybody it has contacted; a
\* member seat waits for a lead.
Cascade(p) ==
    LET s == at[p]
        candidates == Cleaners \ (SeatedCleaners \union pool[s].contacted
                                                 \union pool[s].declined)
    IN  /\ pc[p] = "cascade"
        /\ \/ /\ status[s] \in Open
              /\ s = Lead \/ HasLead
              /\ \E set \in SUBSET Cleaners :
                    IsBatch(set, candidates) /\ Send(p, [NoWave EXCEPT ![s] = set])
           \/ (status[s] \notin Open \/ (s # Lead /\ ~HasLead)) /\ Finish(p)
        /\ UNCHANGED <<rows, pointer, completed>>

\* inviteCandidatesToSeat reads the seat's version and pool ...
InviteRead(p) ==
    /\ pc[p] = "invite"
    /\ \E s \in Seats :
          /\ wave[p][s] # {}
          /\ version[s] < MaxVersion
          /\ at' = [at EXCEPT ![p] = s]
          /\ Note(p, [NoRead EXCEPT !.version = version[s],
                                    !.pool = [pool[s] EXCEPT !.invited = {}]])
    /\ Goto(p, "write")
    /\ UNCHANGED <<rows, pointer, completed, caller, wave>>

\* Faulty variant: a wave written without AND status IN ('CANDIDATE', 'INVITED').
InviteAnyway(p) ==
    /\ pc[p] = "write"
    /\ status' = [status EXCEPT ![at[p]] = "INVITED"]
    /\ holder' = [holder EXCEPT ![at[p]] = Nobody]
    /\ version' = [version EXCEPT ![at[p]] = read[p].version + 1]
    /\ pool' = [pool EXCEPT ![at[p]].invited = wave[p][at[p]]]
    /\ Send(p, [wave[p] EXCEPT ![at[p]] = {}])
    /\ UNCHANGED <<arrived, pointer, completed>>

\* ... and writes the next version and the new pool if the seat is still open.
InviteWrite(p) ==
    LET s == at[p]
        left == [wave[p] EXCEPT ![s] = {}]
    IN  /\ pc[p] = "write"
        /\ \/ /\ status[s] \in Open
              /\ status' = [status EXCEPT ![s] = "INVITED"]
              /\ holder' = [holder EXCEPT ![s] = Nobody]
              /\ version' = [version EXCEPT ![s] = read[p].version + 1]
              /\ pool' = [pool EXCEPT ![s] =
                            [invited   |-> wave[p][s],
                             declined  |-> read[p].pool.declined,
                             contacted |-> read[p].pool.contacted \union wave[p][s]]]
           \/ status[s] \notin Open /\ UNCHANGED <<status, holder, version, pool>>
        /\ Send(p, left)
        /\ UNCHANGED <<arrived, pointer, completed>>

-----------------------------------------------------------------------------
(* Answering an invitation.                                                *)

\* acceptSeat: the seat is open, the cleaner is in its wave and on no other seat.
AcceptRead(p, c, s) ==
    /\ status[s] = "INVITED"
    /\ holder[s] = Nobody
    /\ c \in pool[s].invited \ pool[s].declined
    /\ c \notin SeatedCleaners
    /\ Take(p, c, s, "claim")
    /\ Note(p, [NoRead EXCEPT !.version = version[s]])

\* Faulty variant: a claim that relies on the reads before it to keep a cleaner on one seat.
ClaimWithoutIndex(p) ==
    /\ pc[p] = "claim"
    /\ LET s == at[p]
           claimed == status[s] = "INVITED" /\ version[s] = read[p].version
       IN  /\ status' = [status EXCEPT ![s] = IF claimed THEN "ACCEPTED" ELSE @]
           /\ holder' = [holder EXCEPT ![s] = IF claimed THEN caller[p] ELSE @]
    /\ Finish(p)
    /\ UNCHANGED <<version, pool, arrived, pointer, completed>>

\* The claim: one conditional UPDATE on the version that was read; a second seat
\* on the booking is refused by idx_bca_booking_cleaner_unique.
AcceptClaim(p) ==
    LET s == at[p]
        c == caller[p]
        claimed == /\ status[s] = "INVITED"
                   /\ holder[s] = Nobody
                   /\ version[s] = read[p].version
                   /\ \A t \in Seats : holder[t] # c
    IN  /\ pc[p] = "claim"
        /\ \/ /\ claimed
              /\ status' = [status EXCEPT ![s] = "ACCEPTED"]
              /\ holder' = [holder EXCEPT ![s] = c]
              /\ pool' = [pool EXCEPT ![s] = NoPool]
              /\ \/ s = Lead /\ Goto(p, "pointer") /\ Note(p, NoRead) /\ UNCHANGED <<caller, at, wave>>
                 \/ s # Lead /\ Finish(p)
           \/ ~claimed /\ Finish(p) /\ UNCHANGED <<status, holder, pool>>
        /\ UNCHANGED <<version, arrived, pointer, completed>>

\* A lead's accept claims bookings.cleaner_id as well, unless somebody else has
\* it; nor does it in a booking that is in progress or cancelled, of which the
\* model knows nothing ...
ClaimPointer(p) ==
    /\ pc[p] = "pointer"
    /\ \/ pointer \in {Nobody, caller[p]} /\ ~completed /\ pointer' = caller[p]
       \/ UNCHANGED pointer
    /\ Goto(p, "reread")
    /\ Forget(p)
    /\ UNCHANGED <<rows, completed, wave>>

\* ... reads the seat again, and staffs the member seats for whoever leads now.
Reread(p) ==
    /\ pc[p] = "reread"
    /\ \/ /\ holder[Lead] # Nobody
          /\ Note(p, [NoRead EXCEPT !.holder = holder[Lead]])
          /\ Goto(p, "members")
          /\ UNCHANGED <<caller, at, wave>>
       \/ holder[Lead] = Nobody /\ Finish(p)
    /\ UNCHANGED <<rows, pointer, completed>>

\* declineSeat reads the pool ...
DeclineRead(p, c, s) ==
    /\ status[s] = "INVITED"
    /\ c \in pool[s].invited
    /\ Take(p, c, s, "decline")
    /\ Note(p, [NoRead EXCEPT !.pool = pool[s]])

\* ... and writes it back with the decline, whatever wave is out by now.  When
\* all of the wave it has read declined, the seat goes to the next candidates.
DeclineWrite(p) ==
    LET s == at[p]
        declined == read[p].pool.declined \union {caller[p]}
    IN  /\ pc[p] = "decline"
        /\ pool' = IF status[s] = "INVITED"
                     THEN [pool EXCEPT ![s] = [read[p].pool EXCEPT !.declined = declined]]
                     ELSE pool
        /\ \/ /\ read[p].pool.invited \subseteq declined
              /\ Goto(p, "lapse")
              /\ Note(p, NoRead)
              /\ UNCHANGED <<caller, at, wave>>
           \/ ~(read[p].pool.invited \subseteq declined) /\ Finish(p)
        /\ UNCHANGED <<status, holder, version, arrived, pointer, completed>>

\* expireSeatInvitation.
ExpireSeat(s) ==
    /\ status' = [status EXCEPT ![s] = IF @ = "INVITED" THEN "CANDIDATE" ELSE @]
    /\ holder' = [holder EXCEPT ![s] = IF status[s] = "INVITED" THEN Nobody ELSE @]

\* The last decline frees the seat and cascades in any case ...
Lapse(p) ==
    /\ pc[p] = "lapse"
    /\ ExpireSeat(at[p])
    /\ Goto(p, "cascade")
    /\ UNCHANGED <<version, pool, arrived, pointer, completed, jobs>>

\* ... the cron, for a seat it found expired, only if there was something to free.
CronSelect(p, s) ==
    /\ status[s] = "INVITED"
    /\ Take(p, Nobody, s, "expire")
    /\ UNCHANGED read

CronExpire(p) ==
    /\ pc[p] = "expire"
    /\ ExpireSeat(at[p])
    /\ \/ status[at[p]] = "INVITED" /\ Goto(p, "cascade") /\ UNCHANGED jobs
       \/ status[at[p]] # "INVITED" /\ Finish(p)
    /\ UNCHANGED <<version, pool, arrived, pointer, completed>>

-----------------------------------------------------------------------------
(* Operators.                                                              *)

\* planAndStartStaffing on new seats, and POST /crew/invite: the lead seat
\* first, the member seats once somebody leads.
Dispatch(p) ==
    \/ ~HasLead /\ Take(p, Nobody, Lead, "leadwave") /\ UNCHANGED read
    \/ HasLead /\ Take(p, Nobody, Lead, "members")
                 /\ Note(p, [NoRead EXCEPT !.holder = holder[Lead]])

\* handleMemberDrop, from POST /crew/:assignment/replace and /crew/change-lead:
\* whatever the seat's status is, its holder is taken off ...
DropRead(p, s) ==
    /\ version[s] < MaxVersion
    /\ Take(p, Nobody, s, IF s = Lead /\ holder[s] # Nobody THEN "unpoint" ELSE "release")
    /\ Note(p, [NoRead EXCEPT !.holder = holder[s]])

Unpoint(p) ==
    /\ pc[p] = "unpoint"
    /\ pointer' = IF pointer = read[p].holder THEN Nobody ELSE pointer
    /\ Goto(p, "release")
    /\ UNCHANGED <<rows, completed, jobs>>

ReleaseRead(p) ==
    /\ pc[p] = "release"
    /\ Note(p, [NoRead EXCEPT !.version = version[at[p]]])
    /\ Goto(p, "clear")
    /\ UNCHANGED <<rows, pointer, completed, caller, at, wave>>

\* ... the seat is opened again under a new version, its check-in left as it is,
\* and a replacement is looked for.
ReleaseWrite(p) ==
    LET s == at[p] IN
    /\ pc[p] = "clear"
    /\ status' = [status EXCEPT ![s] = "CANDIDATE"]
    /\ holder' = [holder EXCEPT ![s] = Nobody]
    /\ version' = [version EXCEPT ![s] = read[p].version + 1]
    /\ pool' = [pool EXCEPT ![s] = NoPool]
    /\ Goto(p, IF s = Lead THEN "leadwave" ELSE "cascade")
    /\ Note(p, NoRead)
    /\ UNCHANGED <<arrived, pointer, completed, caller, at, wave>>

\* DELETE /crew/:assignment.
Remove(s) ==
    /\ status' = [status EXCEPT ![s] = "REMOVED"]
    /\ UNCHANGED <<holder, version, pool, arrived, pointer, completed, pc, jobs>>

-----------------------------------------------------------------------------
(* The day of service.                                                     *)

\* A crew member on site, or vouched for by PIN, finds their seat ...
CheckInRead(p, c, s) ==
    /\ holder[s] = c
    /\ status[s] \in Seated
    /\ Take(p, Nobody, s, "checkin")
    /\ UNCHANGED read

\* ... and recordCrewCheckIn marks it by its id.
CheckInWrite(p) ==
    LET s == at[p] IN
    /\ pc[p] = "checkin"
    /\ arrived' = [arrived EXCEPT ![s] = @ \/ status[s] = "ACCEPTED"]
    /\ Finish(p)
    /\ UNCHANGED <<status, holder, version, pool, pointer, completed>>

\* handleNoShow, on the word of the lead.
NoShow(s) ==
    /\ pointer # Nobody
    /\ s \in Members
    /\ status[s] = "ACCEPTED"
    /\ ~arrived[s]
    /\ status' = [status EXCEPT ![s] = "NO_SHOW"]
    /\ UNCHANGED <<holder, version, pool, arrived, pointer, completed, pc, jobs>>

\* completeCrewBooking: the lead, once everybody's attendance is resolved ...
CompleteRead(p, c) ==
    /\ pointer = c
    /\ holder[Lead] = c
    /\ ~completed
    /\ \A s \in Seats : status[s] = "ACCEPTED" => arrived[s]
    /\ Take(p, Nobody, Lead, "complete")
    /\ UNCHANGED read

\* ... closes the seats that are checked in, and with them the booking.
CompleteWrite(p) ==
    /\ pc[p] = "complete"
    /\ status' = [s \in Seats |-> IF status[s] = "ACCEPTED" /\ arrived[s]
                                    THEN "COMPLETED" ELSE status[s]]
    /\ completed' = TRUE
    /\ Finish(p)
    /\ UNCHANGED <<holder, version, pool, arrived, pointer>>

-----------------------------------------------------------------------------
Invite(p) ==
    \/ LeadWave(p) \/ RankMembers(p) \/ Cascade(p)
    \/ InviteRead(p) \/ InviteWrite(p)

Answer(p) ==
    \/ \E c \in Cleaners, s \in Seats : AcceptRead(p, c, s) \/ DeclineRead(p, c, s)
    \/ AcceptClaim(p) \/ ClaimPointer(p) \/ Reread(p)
    \/ DeclineWrite(p) \/ Lapse(p)

Operate(p) ==
    \/ \E s \in Seats : CronSelect(p, s) \/ DropRead(p, s)
    \/ CronExpire(p) \/ Dispatch(p)
    \/ Unpoint(p) \/ ReleaseRead(p) \/ ReleaseWrite(p)

Work(p) ==
    \/ \E c \in Cleaners, s \in Seats : CheckInRead(p, c, s)
    \/ \E c \in Cleaners : CompleteRead(p, c)
    \/ CheckInWrite(p) \/ CompleteWrite(p)

Next ==
    \/ \E p \in Requests : Invite(p) \/ Answer(p) \/ Operate(p) \/ Work(p)
    \/ \E s \in Seats : Remove(s) \/ NoShow(s)

Spec == Init /\ [][Next]_vars

-----------------------------------------------------------------------------
(* Properties.                                                             *)

\* The state is well typed.
TypeOK ==
    /\ status \in [Seats -> SeatStatuses]
    /\ holder \in [Seats -> Cleaners \union {Nobody}]
    /\ version \in [Seats -> Nat]
    /\ pool \in [Seats -> Pools]
    /\ arrived \in [Seats -> BOOLEAN]
    /\ pointer \in Cleaners \union {Nobody}
    /\ completed \in BOOLEAN
    /\ pc \in [Requests -> Labels]
    /\ caller \in [Requests -> Cleaners \union {Nobody}]
    /\ at \in [Requests -> Seats]
    /\ read \in [Requests -> Reads]
    /\ wave \in [Requests -> [Seats -> SUBSET Cleaners]]

\* A person has one seat on a booking at most, in whatever status: no interleaving
\* of accepts, replacements and waves seats somebody twice.
OneSeatEach ==
    \A s, t \in Seats : holder[s] = holder[t] /\ holder[s] # Nobody => s = t

\* A seat that is offered around has nobody on it, and one that was accepted,
\* worked or missed has somebody.
SeatsAreFilled ==
    \A s \in Seats : /\ status[s] \in Open => holder[s] = Nobody
                     /\ status[s] \in Seated \union {"NO_SHOW"} => holder[s] # Nobody

\* A member seat is only offered once a lead was looked for and found.
MembersFollowLead ==
    \A s \in Members : status[s] \in {"INVITED"} \union Seated => version[Lead] > 1

\* Releasing(s): an operator's replacement is about to open seat s.
Releasing(s) == \E p \in Requests : pc[p] = "clear" /\ at[p] = s

\* A cleaner who has a seat keeps it: no expiry, cascade, new wave or late accept
\* takes it away, only an operator who replaces them.
SeatIsKept ==
    [][\A s \in Seats : holder[s] # Nobody /\ ~Releasing(s) => holder'[s] = holder[s]]_vars
=============================================================================
