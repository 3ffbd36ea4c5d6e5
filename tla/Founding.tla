------------------------------- MODULE Founding -------------------------------
(***************************************************************************)
(* The founding member programme (lib/foundingMember.ts) and the promotion *)
(* that leads people to it (lib/promotions.ts): the cleaner and customer   *)
(* accounts of some people, the claims on one promotion that grants the    *)
(* status, and the operators' grant, revoke and restore.                   *)
(*                                                                         *)
(* Four kinds of request enroll somebody; each SQL statement of one is a   *)
(* step of its own:                                                        *)
(*                                                                         *)
(*   claim:    insert -> bump -> target -> ENROLL -> stamp                 *)
(*   redeem:   account -> ENROLL -> stamp or close                         *)
(*   approve, grant:                 ENROLL                                *)
(*   ENROLL:   look -> conflict -> window -> flip                 *)
(*                                                                         *)
(* Promotions share no rows, so one stands for all.  A person has one      *)
(* address, which a claim made while signed out leaves behind.             *)
(***************************************************************************)
EXTENDS Naturals, FiniteSets

CONSTANTS
    People,      \* users, signed up or not
    Requests,    \* calls of the endpoints that enroll somebody
    MaxMembers,  \* founding.cleaner_max_members and customer_max_members
    MaxClaims,   \* promotions.max_claims
    Audiences,   \* promotions.audience in an instance
    Early        \* sides on which everybody has an account from the start

ASSUME FoundingAssumption ==
    /\ IsFiniteSet(People)
    /\ IsFiniteSet(Requests)
    /\ MaxMembers \in Nat \ {0}
    /\ MaxClaims \in Nat \ {0}
    /\ Audiences \subseteq {"cleaners", "customers", "all"}
    /\ Early \subseteq {"cleaner", "customer"}

Sides == {"cleaner", "customer"}
Other(side) == IF side = "cleaner" THEN "customer" ELSE "cleaner"
Accounts == Sides \X People

VARIABLES
    audience,  \* whom the promotion is for
    active,    \* promotions.status = 'active', and it has started
    count,     \* promotions.claim_count
    claims,    \* the rows of promotion_claims
    accounts,  \* the rows of cleaners and customers
    member,    \* accounts with founding_member = TRUE
    revoked,   \* accounts with founding_member_revoked = TRUE
    number,    \* account -> founding_member_id, 0 for NULL
    last,      \* side -> the last number its sequence gave out
    open,      \* sides whose enrollment is switched on and not past its cutoff
    who,       \* request -> the person it is for
    req,       \* request -> what it does and where it is
    crossed,   \* history: people with two enrollments at once, or a restore across
    excess     \* history: members who came in without a count, or past a stale one

foundingVars == <<audience, active, count, claims, accounts, member, revoked, number, last,
          open, who, req, crossed, excess>>

promo   == <<audience, active, count, claims>>
founder == <<member, revoked, number, last, crossed, excess>>

\* mail: it has the address of the person; user: it has their user_id.
Rows == [who : People, mail : BOOLEAN, user : BOOLEAN, granted : BOOLEAN]

\* What a signed-in claim enrolls for: none for 'all'.  A claim that is redeemed
\* later is for the customer side then.
ClaimSides == CASE audience = "cleaners"  -> {"cleaner"}
                [] audience = "customers" -> {"customer"}
                [] OTHER -> {}
RedeemSide == IF audience = "cleaners" THEN "cleaner" ELSE "customer"

Members(side) == {a \in member : a[1] = side}

\* Where a request is.
Places == {"idle", "insert", "bump", "target", "account", "look", "conflict", "window",
           "flip", "stamp", "close", "done", "lost"}

\* user: signed in; stale: it has counted no members, or they are no longer all.
Calls == [op : {"none", "claim", "redeem", "approve", "grant"}, pc : Places,
          side : Sides, user : BOOLEAN, stale : BOOLEAN]
Idle == [op |-> "none", pc |-> "idle", side |-> "customer", user |-> FALSE, stale |-> FALSE]
Done == [Idle EXCEPT !.pc = "done"]

FoundingInit ==
    /\ audience \in Audiences
    /\ active = TRUE
    /\ count = 0
    /\ claims = {}
    /\ accounts = Early \X People
    /\ member = {}
    /\ revoked = {}
    /\ number = [a \in Accounts |-> 0]
    /\ last = [s \in Sides |-> 0]
    /\ open = Sides
    /\ who \in [Requests -> People]
    /\ req = [r \in Requests |-> Idle]
    /\ crossed = {}
    /\ excess = {}

-----------------------------------------------------------------------------
(* POST /promotions/:slug/claim.                                           *)

At(r, label) == req[r].pc = label
Turn(r, state) == req' = [req EXCEPT ![r] = state]
Goto(r, label) == Turn(r, [req[r] EXCEPT !.pc = label])
Over(r) == Turn(r, Done)

Me(r) == <<req[r].side, who[r]>>

\* The promotion is read, and must be live.
BeginClaim(r, signedIn) ==
    /\ At(r, "idle")
    /\ IF active /\ count < MaxClaims
         THEN Turn(r, [Idle EXCEPT !.op = "claim", !.pc = "insert", !.user = signedIn])
         ELSE Over(r)
    /\ UNCHANGED <<promo, accounts, founder, open, who>>

\* The unique indexes on (promotion, email) and (promotion, user).
Taken(p, mail, user) ==
    \E row \in claims : row.who = p /\ ((mail /\ row.mail) \/ (user /\ row.user))

Row(p, mail, user) == [who |-> p, mail |-> mail, user |-> user, granted |-> FALSE]

\* Faulty variant: a claim that was refused is counted as well.
InsertClaimUnchecked(r) ==
    /\ At(r, "insert")
    /\ \E mail \in {TRUE, ~req[r].user} :
           claims' = IF Taken(who[r], mail, req[r].user) THEN claims
                     ELSE claims \union {Row(who[r], mail, req[r].user)}
    /\ Goto(r, "bump")
    /\ UNCHANGED <<audience, active, count, accounts, founder, open, who>>

\* Who is not signed in leaves an address; who is may.
InsertClaim(r) ==
    /\ At(r, "insert")
    /\ \E mail \in {TRUE, ~req[r].user} :
           IF Taken(who[r], mail, req[r].user)
             THEN Over(r) /\ UNCHANGED claims
             ELSE /\ claims' = claims \union {Row(who[r], mail, req[r].user)}
                  /\ Goto(r, "bump")
    /\ UNCHANGED <<audience, active, count, accounts, founder, open, who>>

\* One statement counts the claim and closes the promotion at its cap.
BumpCount(r) ==
    /\ At(r, "bump")
    /\ count' = count + 1
    /\ active' = (active /\ count' < MaxClaims)
    /\ IF req[r].user /\ ClaimSides # {} THEN Goto(r, "target") ELSE Over(r)
    /\ UNCHANGED <<audience, claims, accounts, founder, open, who>>

\* The caller's account on the promotion's side, if there is one.
FindTarget(r) ==
    /\ At(r, "target")
    /\ LET mine == {s \in ClaimSides : <<s, who[r]>> \in accounts}
       IN  \/ mine = {} /\ Over(r)
           \/ \E s \in mine : Turn(r, [Idle EXCEPT !.op = "claim", !.pc = "look", !.side = s])
    /\ UNCHANGED <<promo, accounts, founder, open, who>>

-----------------------------------------------------------------------------
(* GET /founding/me redeems the claim that was made while signed out; the  *)
(* approval of a cleaner and POST /admin/founding/grant enroll at once.    *)

Pending(p) == {row \in claims : row.who = p /\ row.mail /\ ~row.user /\ ~row.granted}

BeginRedeem(r) ==
    /\ At(r, "idle")
    /\ IF Pending(who[r]) = {}
         THEN Over(r)
         ELSE Turn(r, [Idle EXCEPT !.op = "redeem", !.pc = "account", !.side = RedeemSide])
    /\ UNCHANGED <<promo, accounts, founder, open, who>>

\* Faulty variant: nobody asks whether the account exists.
FindAccountUnasked(r) ==
    /\ At(r, "account")
    /\ Goto(r, "look")
    /\ UNCHANGED <<promo, accounts, founder, open, who>>

\* A cleaner account must exist, a customer account is made.
FindAccount(r) ==
    /\ At(r, "account")
    /\ IF Me(r) \in accounts \/ req[r].side = "customer"
         THEN accounts' = accounts \union {Me(r)} /\ Goto(r, "look")
         ELSE Over(r) /\ UNCHANGED accounts
    /\ UNCHANGED <<promo, founder, open, who>>

ApproveCleaner(r) ==
    /\ At(r, "idle")
    /\ <<"cleaner", who[r]>> \in accounts
    /\ Turn(r, [Idle EXCEPT !.op = "approve", !.pc = "look", !.side = "cleaner"])
    /\ UNCHANGED <<promo, accounts, founder, open, who>>

Grant(r) ==
    /\ At(r, "idle")
    /\ \E s \in Sides :
           /\ <<s, who[r]>> \in accounts
           /\ Turn(r, [Idle EXCEPT !.op = "grant", !.pc = "look", !.side = s])
    /\ UNCHANGED <<promo, accounts, founder, open, who>>

-----------------------------------------------------------------------------
(* enroll().                                                               *)

\* What follows once the account is a member: a claim or a redemption is stamped.
Enrolled(r) == IF req[r].op \in {"claim", "redeem"} THEN Goto(r, "stamp") ELSE Over(r)

Look(r) ==
    /\ At(r, "look")
    /\ IF Me(r) \in member THEN Enrolled(r) ELSE Goto(r, "conflict")
    /\ UNCHANGED <<promo, accounts, founder, open, who>>

\* Faulty variant: the other account of the person is not asked about.
ConflictUnasked(r) ==
    /\ At(r, "conflict")
    /\ IF req[r].op = "grant" THEN Goto(r, "flip") ELSE Goto(r, "window")
    /\ UNCHANGED <<promo, accounts, founder, open, who>>

\* One status per person: the other account must not be a member.  A grant by an
\* operator passes the window by.
Conflict(r) ==
    /\ At(r, "conflict")
    /\ IF <<Other(req[r].side), who[r]>> \in member
         THEN IF req[r].op = "redeem" THEN Goto(r, "close") ELSE Over(r)
         ELSE Goto(r, IF req[r].op = "grant" THEN "flip" ELSE "window")
    /\ UNCHANGED <<promo, accounts, founder, open, who>>

Fits(side) == side \in open /\ Cardinality(Members(side)) < MaxMembers

\* A settings read that fails is caught, and the DEFAULTS have neither a cutoff nor
\* a cap: the request goes on and has not counted anybody.  Where the side fits one
\* more, it goes on anyway.
OpenByDefault(r) == Turn(r, [req[r] EXCEPT !.pc = "flip", !.stale = TRUE])

\* Faulty variant: one too many gets in.
WindowOffByOne(r) ==
    /\ At(r, "window")
    /\ IF req[r].side \in open /\ Cardinality(Members(req[r].side)) <= MaxMembers
         THEN Goto(r, "flip") ELSE Over(r) \/ OpenByDefault(r)
    /\ UNCHANGED <<promo, accounts, founder, open, who>>

\* Faulty variant: a claim is stamped though the window was closed.
WindowStamps(r) ==
    /\ At(r, "window")
    /\ IF Fits(req[r].side)
         THEN Goto(r, "flip") ELSE Enrolled(r) \/ OpenByDefault(r)
    /\ UNCHANGED <<promo, accounts, founder, open, who>>

\* isEnrollmentOpen(): the settings, and then how many members there are.  Nothing
\* but this step reads the settings, so it takes both reads at once.
Window(r) ==
    /\ At(r, "window")
    /\ IF Fits(req[r].side)
         THEN Goto(r, "flip") ELSE Over(r) \/ OpenByDefault(r)
    /\ UNCHANGED <<promo, accounts, founder, open, who>>

\* History: is somebody about to enroll the person's other account?
Crosses(side, p) ==
    \E q \in Requests : /\ who[q] = p
                         /\ req[q].side = Other(side)
                         /\ req[q].pc \in {"window", "flip"}

\* A new member: whoever else is past the count of this side goes by a stale one.
Joins(r, side) ==
    [q \in Requests |->
        IF q # r /\ req[q].side = side /\ req[q].pc = "flip"
        THEN [req[q] EXCEPT !.stale = TRUE] ELSE req[q]]

\* The conditional UPDATE that flips the flag and draws a number.  Who finds it
\* flipped is told of the winner's.
Flip(r) ==
    LET a == Me(r)
        next == last[a[1]] + 1
    IN
    /\ At(r, "flip")
    /\ IF a \in member
         THEN Enrolled(r) /\ UNCHANGED founder
         ELSE /\ member' = member \union {a}
              /\ revoked' = revoked \ {a}
              /\ number' = [number EXCEPT ![a] = next]
              /\ last' = [last EXCEPT ![a[1]] = next]
              /\ crossed' = IF Crosses(a[1], a[2]) THEN crossed \union {a[2]} ELSE crossed
              /\ excess' = IF req[r].stale \/ req[r].op = "grant"
                           THEN excess \union {a} ELSE excess \ {a}
              /\ req' = [Joins(r, a[1]) EXCEPT
                           ![r] = IF req[r].op \in {"claim", "redeem"}
                                  THEN [@ EXCEPT !.pc = "stamp", !.stale = FALSE] ELSE Done]
    /\ UNCHANGED <<promo, accounts, open, who>>

-----------------------------------------------------------------------------
(* What becomes of the claim.                                              *)

Stamped(p) == {IF row.who = p /\ row.user THEN [row EXCEPT !.granted = TRUE] ELSE row : row \in claims}

StampClaim(r) ==
    /\ At(r, "stamp")
    /\ req[r].op = "claim"
    /\ claims' = Stamped(who[r])
    /\ Over(r)
    /\ UNCHANGED <<audience, active, count, accounts, founder, open, who>>

\* The pending claim gets the user.  If they have claimed signed in as well, the
\* unique index on the user throws.
Attached(p, granted) ==
    IF \E row \in claims : row.who = p /\ row.user /\ ~row.mail
    THEN claims
    ELSE {IF row.who = p
          THEN [row EXCEPT !.user = TRUE, !.granted = @ \/ granted] ELSE row : row \in claims}

StampPending(r) ==
    /\ At(r, "stamp")
    /\ req[r].op = "redeem"
    /\ claims' = Attached(who[r], TRUE)
    /\ Over(r)
    /\ UNCHANGED <<audience, active, count, accounts, founder, open, who>>

ClosePending(r) ==
    /\ At(r, "close")
    /\ claims' = Attached(who[r], FALSE)
    /\ Over(r)
    /\ UNCHANGED <<audience, active, count, accounts, founder, open, who>>

-----------------------------------------------------------------------------
(* Operators, time, sign-ups.                                              *)

\* POST /admin/founding/revoke keeps the number.
RevokeStatus(a) ==
    /\ a \in member
    /\ member' = member \ {a}
    /\ revoked' = revoked \union {a}
    /\ excess' = excess \ {a}
    /\ UNCHANGED <<promo, accounts, number, last, open, who, req, crossed>>

\* POST /admin/founding/restore asks nobody: neither the other account nor the cap.
RestoreStatus(a) ==
    /\ a \in revoked
    /\ member' = member \union {a}
    /\ revoked' = revoked \ {a}
    /\ excess' = excess \union {a}
    /\ crossed' = IF <<Other(a[1]), a[2]>> \in member \/ Crosses(a[1], a[2])
                  THEN crossed \union {a[2]} ELSE crossed
    /\ req' = [q \in Requests |-> IF req[q].side = a[1] /\ req[q].pc = "flip"
                                  THEN [req[q] EXCEPT !.stale = TRUE] ELSE req[q]]
    /\ UNCHANGED <<promo, accounts, number, last, open, who>>

\* A first booking or an application makes the account.
SignUp(a) ==
    /\ a \notin accounts
    /\ accounts' = accounts \union {a}
    /\ UNCHANGED <<promo, founder, open, who, req>>

\* PUT /admin/founding/config, or the cutoff passes.
Configure(side) ==
    /\ open' = IF side \in open THEN open \ {side} ELSE open \union {side}
    /\ UNCHANGED <<promo, accounts, founder, who, req>>

\* POST /admin/promotions/:id/status, or expireDuePromotions in the cron.  At its cap
\* a promotion is not live whatever its status (isLive), so that is left alone here.
SetStatus ==
    /\ count < MaxClaims
    /\ active' = ~active
    /\ UNCHANGED <<audience, count, claims, accounts, founder, open, who, req>>

\* The Worker of a request stops between two statements; a claim that it has not
\* counted yet is never counted.
Crash(r) ==
    /\ req[r].pc \notin {"idle", "done", "lost"}
    /\ IF At(r, "bump") THEN Turn(r, [Done EXCEPT !.pc = "lost"]) ELSE Over(r)
    /\ UNCHANGED <<promo, accounts, founder, open, who>>

-----------------------------------------------------------------------------
Claim(r)  == \/ \E signedIn \in BOOLEAN : BeginClaim(r, signedIn)
             \/ InsertClaim(r) \/ BumpCount(r) \/ FindTarget(r)
Enroll(r) == Look(r) \/ Conflict(r) \/ Window(r) \/ Flip(r)
Settle(r) == StampClaim(r) \/ StampPending(r) \/ ClosePending(r)

Environment ==
    \/ \E a \in Accounts : RevokeStatus(a) \/ RestoreStatus(a) \/ SignUp(a)
    \/ \E side \in Sides : Configure(side)
    \/ SetStatus

FoundingNext ==
    \/ \E r \in Requests :
           \/ Claim(r) \/ BeginRedeem(r) \/ FindAccount(r) \/ ApproveCleaner(r) \/ Grant(r)
           \/ Enroll(r) \/ Settle(r) \/ Crash(r)
    \/ Environment

FoundingSpec == FoundingInit /\ [][FoundingNext]_foundingVars

-----------------------------------------------------------------------------
(* Properties.                                                             *)

\* The state is well typed.
FoundingTypeOK ==
    /\ audience \in Audiences
    /\ active \in BOOLEAN
    /\ count \in Nat
    /\ claims \subseteq Rows
    /\ member \union revoked \subseteq accounts
    /\ accounts \subseteq Accounts
    /\ number \in [Accounts -> Nat]
    /\ last \in [Sides -> Nat]
    /\ open \subseteq Sides
    /\ who \in [Requests -> People]
    /\ req \in [Requests -> Calls]
    /\ crossed \subseteq People
    /\ excess \subseteq member

\* A person is a founder on one of their accounts only, whoever enrolls them and
\* however often they are revoked: "enforced even for admin force-grants"
\* (foundingMember.ts:170-172).  It is not when two enrollments of one person
\* overlap, or when an account is restored beside the other one.
OneStatusPerPerson ==
    \A p \in People \ crossed :
        ~(<<"cleaner", p>> \in member /\ <<"customer", p>> \in member)

\* The cap on a side is exceeded only by members whom an operator granted or
\* restored, by those who came in while another one did after their count, and by
\* those whose request could not read the settings (foundingMember.ts:91-93).
CapHolds == \A side \in Sides : Cardinality(Members(side) \ excess) <= MaxMembers

\* A claim that is stamped as granted is that of somebody who holds a founder
\* number on the promotion's side, also when the claim was redeemed long after, or
\* twice at once, or the promotion was closed meanwhile (promotions.ts).
GrantedIsFounder ==
    \A row \in claims : row.granted => number[<<RedeemSide, row.who>>] # 0

\* claim_count, which closes the promotion, misses no claim and counts none twice,
\* but for the requests that are about to count theirs, or died before they did.
CountIsExact ==
    Cardinality(claims) = count + Cardinality({r \in Requests : req[r].pc \in {"bump", "lost"}})
=============================================================================
