---------------------------- MODULE FeeApproval -----------------------------
(***************************************************************************)
(* The approval of one fee change (lib/approvalEngine.ts): Super Admins    *)
(* approve, revoke, modify, join, decline and cancel the proposal, and the *)
(* cron expires it, sends the notice after the cooldown and puts the new   *)
(* fee in force after the notice period.  lib/pricingApproval.ts is the    *)
(* same machine on other tables.                                           *)
(*                                                                         *)
(* Every call reads the proposal, checks that it is still actionable and   *)
(* then runs its statements one by one; none of them looks at the status   *)
(* again, except that of joinCollaboration.                                *)
(*                                                                         *)
(*   approve   idle -> approve -> final -> reread -> approvers             *)
(*                  -> collaborators -> promote -> idle                    *)
(*   modify    idle -> modify -> require -> clear -> collaborate -> idle   *)
(*   join      idle -> join -> joined -> open -> idle                      *)
(*   revoke    idle -> revoke -> unfinal -> reopen -> idle                 *)
(*   decline   idle -> decline -> declined -> idle                         *)
(*   cancel    idle -> cancel -> acted -> idle                             *)
(*   ignore    idle -> acted -> idle                                       *)
(*   the cron  idle -> expire | notice | supersede -> activate -> effect   *)
(*                  -> idle                                                *)
(***************************************************************************)
EXTENDS Naturals

CONSTANTS
    Admins,    \* the Super Admins who act on the proposal
    Proposer,  \* the one who made it
    MaxCalls   \* bound on the calls of each of them

ASSUME ApprovalAssumption ==
    /\ Proposer \in Admins
    /\ MaxCalls \in Nat

Statuses == {"pending", "collaboration", "cooldown", "notice_sent",
             "effective", "declined", "expired_declined", "cancelled"}

\* The statuses assertActionable refuses.
Terminal == {"declined", "expired_declined", "cancelled", "effective",
             "notice_sent"}

Labels ==
    {"idle", "approve", "final", "reread", "approvers", "collaborators",
     "promote", "modify", "require", "clear", "collaborate", "join", "joined",
     "open", "revoke", "unfinal", "reopen", "decline", "declined", "cancel",
     "acted"}

CronLabels == {"idle", "expire", "notice", "supersede", "activate", "effect"}

VARIABLES
    status,    \* fee_change_proposals.status
    window,    \* the response deadline has not passed
    cooldown,  \* cooldown_expires_at: none, running or over
    notice,    \* final_effective_at: none, running or over
    latest,    \* each admin's latest approval, revocation or decline
    acted,     \* an action other than 'created' is recorded
    must,      \* the collaborators with must_approve_final
    others,    \* the collaborators without it
    final,     \* the collaborators with approved_final_at
    fee,       \* the fee in force in the proposal's scope: old, none or new
    pc,        \* where each admin's call is
    saw,       \* the status it read
    calls,     \* the calls each admin has made
    cron,      \* where the cron is
    agreed,    \* history: proposer and another admin approved at the same time
    rested,    \* history: a cooldown ran to its end
    noticed    \* history: a notice period ran to its end

vars == <<status, window, cooldown, notice, latest, acted, must, others, final,
          fee, pc, saw, calls, cron, agreed, rested, noticed>>

proposal == <<status, cooldown, notice>>
votes    == <<latest, agreed>>
crew     == <<must, others, final>>
past     == <<rested, noticed>>

TypeOK ==
    /\ status \in Statuses
    /\ window \in BOOLEAN
    /\ cooldown \in {"none", "running", "over"}
    /\ notice \in {"none", "running", "over"}
    /\ latest \in [Admins -> {"none", "approved", "revoked", "declined"}]
    /\ acted \in BOOLEAN
    /\ must \subseteq Admins /\ others \subseteq Admins /\ final \subseteq Admins
    /\ fee \in {"old", "none", "new"}
    /\ pc \in [Admins -> Labels]
    /\ saw \in [Admins -> Statuses]
    /\ calls \in [Admins -> 0..MaxCalls]
    /\ cron \in CronLabels
    /\ agreed \in BOOLEAN /\ rested \in BOOLEAN /\ noticed \in BOOLEAN

Init ==
    /\ status = "pending"
    /\ window = TRUE
    /\ cooldown = "none" /\ notice = "none"
    /\ latest = [a \in Admins |-> "none"]
    /\ acted = FALSE
    /\ must = {} /\ others = {} /\ final = {}
    /\ fee = "old"
    /\ pc = [a \in Admins |-> "idle"]
    /\ saw = [a \in Admins |-> "pending"]
    /\ calls = [a \in Admins |-> 0]
    /\ cron = "idle"
    /\ agreed = FALSE /\ rested = FALSE /\ noticed = FALSE

Step(a, from, to) == pc[a] = from /\ pc' = [pc EXCEPT ![a] = to]

\* currentApprovers holds the proposer and somebody else.
Agree(v) ==
    /\ v[Proposer] = "approved"
    /\ \E a \in Admins \ {Proposer} : v[a] = "approved"

Vote(a, v) ==
    /\ latest' = [latest EXCEPT ![a] = v]
    /\ agreed' = (agreed \/ Agree(latest'))

\* INSERT ... ON CONFLICT DO NOTHING: who is in already stays as they are.
Enlist(a) ==
    LET new == {a} \ (must \union others) IN
    /\ must'   = IF window THEN must \union new ELSE must
    /\ others' = IF window THEN others ELSE others \union new

-----------------------------------------------------------------------------
(* The calls of the admins.                                                *)

\* Every call begins with getProposal and assertActionable.
Call(a, first) ==
    /\ calls[a] < MaxCalls
    /\ calls' = [calls EXCEPT ![a] = @ + 1]
    /\ status \notin Terminal
    /\ Step(a, "idle", first)
    /\ saw' = [saw EXCEPT ![a] = status]
    /\ UNCHANGED <<proposal, votes, crew, past, window, acted, fee, cron>>

Begin(a) ==
    \E first \in {"approve", "modify", "join", "revoke", "decline", "cancel",
                  "acted"} : Call(a, first)

\* A step of a call that writes nothing.
Move(a, from, to) ==
    /\ Step(a, from, to)
    /\ UNCHANGED <<proposal, votes, crew, past, window, acted, fee, saw, calls,
                   cron>>

Approve(a) ==
    /\ Step(a, "approve", IF saw[a] = "collaboration" THEN "final" ELSE "reread")
    /\ Vote(a, "approved")
    /\ acted' = TRUE
    /\ UNCHANGED <<proposal, crew, past, window, fee, saw, calls, cron>>

ApproveFinal(a) ==
    /\ Step(a, "final", "reread")
    /\ final' = final \union ({a} \intersect (must \union others))
    /\ UNCHANGED <<proposal, votes, must, others, past, window, acted, fee, saw,
                   calls, cron>>

Reread(a) ==
    /\ Step(a, "reread", "approvers")
    /\ saw' = [saw EXCEPT ![a] = status]
    /\ UNCHANGED <<proposal, votes, crew, past, window, acted, fee, calls, cron>>

\* Faulty variant: the proposer's own approval is enough.
CountApproversAlone(a) ==
    \/ /\ latest[Proposer] = "approved"
       /\ Move(a, "approvers",
               IF saw[a] = "collaboration" THEN "collaborators" ELSE "promote")
    \/ /\ latest[Proposer] # "approved"
       /\ Move(a, "approvers", "idle")

CountApprovers(a) ==
    \/ /\ Agree(latest)
       /\ Move(a, "approvers",
               IF saw[a] = "collaboration" THEN "collaborators" ELSE "promote")
    \/ /\ ~Agree(latest)
       /\ Move(a, "approvers", "idle")

CountCollaborators(a) ==
    Move(a, "collaborators", IF must \subseteq final THEN "promote" ELSE "idle")

\* approved_at and the actions recorded do not matter here.
PromoteToCooldown(a) ==
    /\ Step(a, "promote", "idle")
    /\ status' = "cooldown"
    /\ cooldown' = "running"
    /\ UNCHANGED <<notice, votes, crew, past, window, acted, fee, saw, calls,
                   cron>>

\* The actions that only the expiry looks for.
Record(a) ==
    /\ \/ Step(a, "modify", "require")
       \/ Step(a, "joined", "open")
       \/ Step(a, "acted", "idle")
    /\ acted' = TRUE
    /\ UNCHANGED <<proposal, votes, crew, past, window, fee, saw, calls, cron>>

Join(a) ==
    /\ \/ Step(a, "require", "clear")
       \/ Step(a, "join", "joined")
    /\ Enlist(a)
    /\ UNCHANGED <<proposal, votes, final, past, window, acted, fee, saw, calls,
                   cron>>

ClearFinal(a) ==
    /\ \/ Step(a, "clear", "collaborate") /\ final' = {}
       \/ /\ Step(a, "unfinal", IF saw[a] = "cooldown" THEN "reopen" ELSE "idle")
          /\ final' = final \ {a}
    /\ UNCHANGED <<proposal, votes, must, others, past, window, acted, fee, saw,
                   calls, cron>>

\* The UPDATE of proposeModification, and of revokeApproval in the cooldown.
Collaborate(a) ==
    /\ Step(a, "collaborate", "idle") \/ Step(a, "reopen", "idle")
    /\ status' = "collaboration"
    /\ cooldown' = "none"
    /\ UNCHANGED <<notice, votes, crew, past, window, acted, fee, saw, calls,
                   cron>>

\* The UPDATE of joinCollaboration: WHERE status = 'pending'.
Open(a) ==
    /\ Step(a, "open", "idle")
    /\ status' = IF status = "pending" THEN "collaboration" ELSE status
    /\ UNCHANGED <<cooldown, notice, votes, crew, past, window, acted, fee, saw,
                   calls, cron>>

Revoke(a) ==
    /\ Step(a, "revoke", "unfinal")
    /\ Vote(a, "revoked")
    /\ acted' = TRUE
    /\ UNCHANGED <<proposal, crew, past, window, fee, saw, calls, cron>>

Decide(a) ==
    /\ \/ Step(a, "decline", "declined") /\ status' = "declined"
       \/ Step(a, "cancel", "acted") /\ status' = "cancelled"
    /\ UNCHANGED <<cooldown, notice, votes, crew, past, window, acted, fee, saw,
                   calls, cron>>

RecordDecline(a) ==
    /\ Step(a, "declined", "idle")
    /\ Vote(a, "declined")
    /\ acted' = TRUE
    /\ UNCHANGED <<proposal, crew, past, window, fee, saw, calls, cron>>

Continue(a) ==
    \/ Approve(a) \/ ApproveFinal(a) \/ Reread(a)
    \/ CountApprovers(a) \/ CountCollaborators(a) \/ PromoteToCooldown(a)
    \/ Record(a) \/ Join(a) \/ ClearFinal(a) \/ Collaborate(a) \/ Open(a)
    \/ Revoke(a) \/ Decide(a) \/ RecordDecline(a)

-----------------------------------------------------------------------------
(* The cron: it selects the proposals that are due and updates them by id. *)

CronStep(from, to) == cron = from /\ cron' = to

\* The selections of expirePending, completeCooldowns and activateEffective.
CronSelect ==
    /\ \/ /\ status = "pending" /\ ~window /\ ~acted
          /\ CronStep("idle", "expire")
       \/ /\ status = "cooldown" /\ cooldown = "over"
          /\ CronStep("idle", "notice")
       \/ /\ status = "notice_sent" /\ notice = "over"
          /\ CronStep("idle", "supersede")
    /\ UNCHANGED <<proposal, votes, crew, past, window, acted, fee, pc, saw,
                   calls>>

CronExpire ==
    /\ CronStep("expire", "idle")
    /\ status' = "expired_declined"
    /\ acted' = TRUE
    /\ UNCHANGED <<cooldown, notice, votes, crew, past, window, fee, pc, saw,
                   calls>>

\* Faulty variant: the notice sets no effective date.
CronNoticeUndated ==
    /\ CronStep("notice", "idle")
    /\ status' = "notice_sent"
    /\ UNCHANGED <<cooldown, notice, votes, crew, past, window, acted, fee, pc,
                   saw, calls>>

CronNotice ==
    /\ CronStep("notice", "idle")
    /\ status' = "notice_sent"
    /\ notice' = "running"
    /\ UNCHANGED <<cooldown, votes, crew, past, window, acted, fee, pc, saw,
                   calls>>

\* The fee in force is superseded, then the proposed one becomes active.
CronSupersede ==
    /\ CronStep("supersede", "activate")
    /\ fee' = IF fee = "old" THEN "none" ELSE fee
    /\ UNCHANGED <<proposal, votes, crew, past, window, acted, pc, saw, calls>>

CronActivate ==
    /\ CronStep("activate", "effect")
    /\ fee' = "new"
    /\ UNCHANGED <<proposal, votes, crew, past, window, acted, pc, saw, calls>>

\* Faulty variant: the status takes the name of the recorded action.
CronEffectNamed ==
    /\ CronStep("effect", "idle")
    /\ status' = "became_effective"
    /\ UNCHANGED <<cooldown, notice, votes, crew, past, window, acted, fee, pc,
                   saw, calls>>

CronEffect ==
    /\ CronStep("effect", "idle")
    /\ status' = "effective"
    /\ UNCHANGED <<cooldown, notice, votes, crew, past, window, acted, fee, pc,
                   saw, calls>>

Cron == CronSelect \/ CronExpire \/ CronNotice \/ CronSupersede
            \/ CronActivate \/ CronEffect

-----------------------------------------------------------------------------
(* Time passes: 72 hours to respond, 48 hours of cooldown, 14 days of      *)
(* notice.                                                                 *)

WindowCloses ==
    /\ window
    /\ window' = FALSE
    /\ UNCHANGED <<proposal, votes, crew, past, acted, fee, pc, saw, calls, cron>>

CooldownEnds ==
    /\ cooldown = "running"
    /\ cooldown' = "over"
    /\ rested' = TRUE
    /\ UNCHANGED <<status, notice, votes, crew, noticed, window, acted, fee, pc,
                   saw, calls, cron>>

NoticeEnds ==
    /\ notice = "running"
    /\ notice' = "over"
    /\ noticed' = TRUE
    /\ UNCHANGED <<status, cooldown, votes, crew, rested, window, acted, fee, pc,
                   saw, calls, cron>>

Tick == WindowCloses \/ CooldownEnds \/ NoticeEnds

Next ==
    \/ \E a \in Admins : Begin(a) \/ Continue(a)
    \/ Cron
    \/ Tick

Spec == Init /\ [][Next]_vars

\* A call that has begun goes on, the cron runs every 15 minutes, and time passes.
FairSpec ==
    /\ Spec
    /\ \A a \in Admins : WF_vars(Continue(a))
    /\ WF_vars(Cron)
    /\ WF_vars(Tick)

-----------------------------------------------------------------------------
(* Properties.                                                             *)

\* Whatever calls overlap, no new fee comes into force (and none goes out of
\* force for it) on one person's word or before its time: the proposer and
\* another Super Admin approved at the same moment, a cooldown ran to its end
\* and so did a notice period (approvalEngine.ts:17-23).
NewFeeIsAgreed == fee # "old" => agreed /\ rested /\ noticed

\* A proposal does not hang in its cooldown or its notice period: it takes
\* effect, or somebody reopens or ends it.
NoticeIsServed ==
    status \in {"cooldown", "notice_sent"}
        ~> status \notin {"cooldown", "notice_sent"}

=============================================================================
