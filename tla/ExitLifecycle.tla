---------------------------- MODULE ExitLifecycle ----------------------------
(***************************************************************************)
(* A deployment's exit from its operator group: exit reviews (registry/    *)
(* service/exit_review.go, store/sqlite/exit_review.go), ownership         *)
(* transfers (ownership_transfer.go in both) and final exit allocations    *)
(* (exit_allocation.go in both), next to the operator network they read.   *)
(* Buyers, auditors and managers work through CLI processes on the         *)
(* database the server is writing to.                                      *)
(*                                                                         *)
(* The abstractions of OperatorNetwork hold here too.  Reviews, transfers  *)
(* and allocations are named by their position in their table, an event    *)
(* hash by the event's index.  An exact retry answers with the first event *)
(* and changes nothing.  The effective dates of exit reviews and of        *)
(* transfer decisions are only compared with each other and are left out;  *)
(* a completion takes effect on the day it is accepted.  The ledger is not *)
(* here: Settlement adds the checkpoint a freeze needs and the ledger head *)
(* a completion has to be later than.                                      *)
(***************************************************************************)
EXTENDS OperatorNetwork

CONSTANTS
    SecondsPerDay,        \* clock values of a UTC day
    Contractors,          \* beneficiaries of no-transfer allocations
    MaxExitEvents,        \* bound on exit_review_events
    MaxTransferEvents,    \* bound on ownership_transfer_events
    MaxAllocationEvents   \* bound on exit_allocation_events

ASSUME DayAssumption == SecondsPerDay \in Nat \ {0}

VARIABLES
    exitReviews,       \* table exit_reviews with its members
    exitEvents,        \* table exit_review_events, by event_index
    transfers,         \* table ownership_transfers
    transferEvents,    \* table ownership_transfer_events, by event_index
    memberships,       \* table ownership_transfer_memberships
    allocations,       \* table exit_allocations
    allocationEvents   \* table exit_allocation_events, by event_index

exitVars == <<exitReviews, exitEvents, transfers, transferEvents, memberships,
              allocations, allocationEvents>>

vars == <<operatorVars, exitVars>>

Day(t) == (t - 1) \div SecondsPerDay + 1
LastSecond(day) == day * SecondsPerDay

-----------------------------------------------------------------------------
(* leaderboardStateCTE: who belonged to which group at a boundary          *)
(* [audit, review, eligibility, transfer, date].                           *)

(* audit_index of a deployment's newest state row up to audit index i.     *)
StateIndex(d, i) ==
    LET S == {j \in 1..i : events[j].subject = d}
    IN  IF S = {} THEN 0 ELSE Newest(S)

ClaimStateAt(row, b) ==
    LET R == {k \in 1..b.review : reviews[k].claim = row.profile}
    IN  IF row.state = "pending-review" /\ R # {} THEN reviews[Newest(R)].decision
        ELSE row.state

(* transfer_memberships: the newest completion for d the boundary sees.    *)
TransfersAt(d, b) ==
    {m \in DOMAIN memberships :
        /\ memberships[m].target = d
        /\ memberships[m].event <= b.transfer
        /\ memberships[m].effective <= b.date}

(* The transfer overlay counts for the claim it was completed for, until   *)
(* the deployment's next state row.                                        *)
GroupAt(d, row, b) ==
    LET M == TransfersAt(d, b)
        m == memberships[Newest(M)]
    IN  IF M # {} /\ m.claim = row.profile /\ m.through >= StateIndex(d, b.audit)
        THEN m.to
        ELSE row.effective

(* Mutant: a suspension is not seen.                                       *)
EligibilityAtApproved(row, b) ==
    IF ClaimStateAt(row, b) # "approved" THEN "inactive" ELSE "active"

EligibilityAt(row, b) ==
    LET D == {k \in 1..b.eligibility : decisions[k].claim = row.profile}
    IN  IF ClaimStateAt(row, b) # "approved" THEN "inactive"
        ELSE IF D # {} /\ decisions[Newest(D)].decision = "suspend" THEN "suspended"
        ELSE "active"

(* The members of a group at a boundary, as exitReviewMembersAtBoundaryTx  *)
(* lists them.                                                             *)
MembersAt(group, b) ==
    LET rows == NetworkAt[b.audit]
        In(d) == rows[d].active /\ rows[d].claimed /\ GroupAt(d, rows[d], b) = group
    IN  {[deployment |-> d, claim |-> rows[d].profile, state |-> ClaimStateAt(rows[d], b),
          eligibility |-> EligibilityAt(rows[d], b)] : d \in {x \in Deployments : In(x)}}

(* Mutant: the head of a chain, whatever its time.                         *)
ThroughHead(chain, t) == Len(chain)

(* The newest row of a chain accepted by then; chains are ordered in time. *)
ThroughIndex(chain, t) == Cardinality({i \in DOMAIN chain : chain[i].at <= t})

(* exitReviewAuditBoundaryTx, exitReviewClaimReviewBoundaryTx,             *)
(* exitReviewEligibilityBoundaryTx, ownershipTransferEventHeadAt.          *)
BoundaryAt(t) ==
    [audit |-> ThroughIndex(events, t), review |-> ThroughIndex(reviews, t),
     eligibility |-> ThroughIndex(decisions, t),
     transfer |-> ThroughIndex(transferEvents, t), date |-> Day(t)]

-----------------------------------------------------------------------------
(* Exit reviews.                                                           *)

(* freezeExitReviewRecordTx for the claim generation of submission s.      *)
FrozenRecord(s, date, at) ==
    LET b == BoundaryAt(LastSecond(date))
    IN  [target |-> s.deployment, claim |-> s.claim, group |-> s.group, date |-> date,
         audit |-> b.audit, review |-> b.review, eligibility |-> b.eligibility,
         members |-> MembersAt(s.group, b), at |-> at]

(* The target itself is an eligible member.                                *)
TargetEligible(record) ==
    \E m \in record.members :
        /\ m.deployment = record.target
        /\ m.claim = record.claim
        /\ m.eligibility = "active"

FreezeExitReview(s, date, at) ==
    LET record == FrozenRecord(s, date, at)
    IN  /\ Len(exitEvents) < MaxExitEvents
        /\ date < Day(at)
        /\ HeadAt(exitEvents) <= at
        /\ \A v \in DOMAIN exitReviews :
                ~(exitReviews[v].target = s.deployment /\ exitReviews[v].claim = s.claim)
        /\ TargetEligible(record)
        /\ exitReviews' = Append(exitReviews, record)
        /\ exitEvents' = Append(exitEvents,
                [exit |-> Len(exitReviews) + 1, action |-> "freeze",
                 status |-> "review-pending", at |-> at])
        /\ UNCHANGED <<operatorVars, transfers, transferEvents, memberships, allocations,
                       allocationEvents>>

(* The newest event of exit review v: its state row.                       *)
ExitHead(v) == Newest({k \in DOMAIN exitEvents : exitEvents[k].exit = v})
ExitStatus(v) == exitEvents[ExitHead(v)].status

(* validExitReviewTransition.                                              *)
ExitResult == [verify |-> "verified-eligible", reject |-> "rejected",
               dispute |-> "disputed", withdraw |-> "withdrawn"]

ExitTransition(from, action) ==
    CASE action \in {"verify", "reject"} -> from \in {"review-pending", "disputed"}
      [] action = "dispute" -> from \in {"verified-eligible", "rejected"}
      [] action = "withdraw" -> from # "withdrawn"
      [] OTHER -> FALSE

AppendExitReviewEvent(v, action, at) ==
    /\ Len(exitEvents) < MaxExitEvents
    /\ ExitTransition(ExitStatus(v), action)
    /\ HeadAt(exitEvents) <= at
    /\ exitEvents' = Append(exitEvents,
            [exit |-> v, action |-> action, status |-> ExitResult[action], at |-> at])
    /\ UNCHANGED <<operatorVars, exitReviews, transfers, transferEvents, memberships,
                   allocations, allocationEvents>>

(* exactVerifiedExitReviewTx, exactExitAllocationReviewTx: verification    *)
(* event k is where review v still stands.                                 *)
ExactVerifiedExit(v, k) ==
    /\ ExitHead(v) = k
    /\ exitEvents[k].action = "verify"

-----------------------------------------------------------------------------
(* Ownership transfers.                                                    *)

TransferHead(x) == Newest({k \in DOMAIN transferEvents : transferEvents[k].transfer = x})
TransferStatus(x) == transferEvents[TransferHead(x)].status

(* activeOwnershipTransferForClaimTx.                                      *)
ActiveTransferForClaim(d, claim) ==
    \E x \in DOMAIN transfers :
        /\ transfers[x].target = d
        /\ transfers[x].claim = claim
        /\ TransferStatus(x) \in {"prepared", "approved"}

(* The group a deployment is in now, as currentOwnershipTransferClaimTx    *)
(* reads it: the newest transfer of this claim.                            *)
EffectiveGroup(d, claim) ==
    LET M == {m \in DOMAIN memberships : memberships[m].target = d /\ memberships[m].claim = claim}
        m == memberships[Newest(M)]
    IN  IF M # {} /\ m.through >= StateIndex(d, Len(events)) THEN m.to
        ELSE network[d].effective

(* currentOwnershipTransferClaimTx.                                        *)
CurrentTransferClaim(d, claim, source) ==
    /\ status[d].claim = claim
    /\ status[d].group = source
    /\ status[d].state = "approved"
    /\ eligibility[d].claim = claim
    /\ eligibility[d].group = source
    /\ eligibility[d].state = "active"
    /\ EffectiveGroup(d, claim) = source

(* targetGroupHasEligibleClaimTx: here the newest transfer of the          *)
(* deployment counts, if it is of the current claim.                       *)
PresentGroup(d) ==
    LET M == {m \in DOMAIN memberships : memberships[m].target = d}
        m == memberships[Newest(M)]
    IN  IF M # {} /\ m.claim = status[d].claim /\ m.through >= StateIndex(d, Len(events))
        THEN m.to
        ELSE network[d].effective

TargetGroupHasEligibleClaim(group) ==
    \E d \in Deployments :
        /\ status[d].state = "approved"
        /\ status[d].group = group
        /\ eligibility[d].claim = status[d].claim
        /\ eligibility[d].state = "active"
        /\ network[d].active
        /\ network[d].claimed
        /\ PresentGroup(d) = group

(* Mutant: a final allocation does not stand in the way.                   *)
MayPrepareAlways(v, group) ==
    /\ exitReviews[v].group # group
    /\ ~ActiveTransferForClaim(exitReviews[v].target, exitReviews[v].claim)

MayPrepare(v, group) ==
    /\ exitReviews[v].group # group
    /\ ~ActiveTransferForClaim(exitReviews[v].target, exitReviews[v].claim)
    /\ \A a \in DOMAIN allocations : allocations[a].exit # v

PrepareOwnershipTransfer(v, group, at) ==
    LET exit == exitReviews[v]
        k == ExitHead(v)
    IN  /\ Len(transferEvents) < MaxTransferEvents
        /\ HeadAt(transferEvents) <= at
        /\ MayPrepare(v, group)
        /\ CurrentTransferClaim(exit.target, exit.claim, exit.group)
        /\ ExactVerifiedExit(v, k)
        /\ TargetGroupHasEligibleClaim(group)
        /\ transfers' = Append(transfers,
                [exit |-> v, target |-> exit.target, claim |-> exit.claim,
                 source |-> exit.group, to |-> group, verification |-> k, at |-> at])
        /\ transferEvents' = Append(transferEvents,
                [transfer |-> Len(transfers) + 1, action |-> "prepare",
                 status |-> "prepared", at |-> at])
        /\ UNCHANGED <<operatorVars, exitReviews, exitEvents, memberships, allocations,
                       allocationEvents>>

(* validOwnershipTransferTransition.                                       *)
TransferResult == [approve |-> "approved", reject |-> "rejected", cancel |-> "cancelled",
                   complete |-> "completed"]

TransferTransition(from, action) ==
    CASE action \in {"approve", "reject"} -> from = "prepared"
      [] action = "cancel" -> from \in {"prepared", "approved"}
      [] action = "complete" -> from = "approved"
      [] OTHER -> FALSE

TransferEvent(x, action, at) ==
    [transfer |-> x, action |-> action, status |-> TransferResult[action], at |-> at]

(* AppendOwnershipTransferEvent for the decisions of a manager.            *)
DecideOwnershipTransfer(x, action, at) ==
    /\ action # "complete"
    /\ Len(transferEvents) < MaxTransferEvents
    /\ HeadAt(transferEvents) <= at
    /\ TransferTransition(TransferStatus(x), action)
    /\ transferEvents' = Append(transferEvents, TransferEvent(x, action, at))
    /\ UNCHANGED <<operatorVars, exitReviews, exitEvents, transfers, memberships,
                   allocations, allocationEvents>>

(* Mutant: only the transfer's own state is checked again.                 *)
StillTransferableUnchecked(x) == TRUE

(* What a preparation relied on holds again at the completion.             *)
StillTransferable(x) ==
    LET t == transfers[x]
    IN  /\ CurrentTransferClaim(t.target, t.claim, t.source)
        /\ ExactVerifiedExit(t.exit, t.verification)
        /\ TargetGroupHasEligibleClaim(t.to)

(* AppendOwnershipTransferEvent for a completion, which is later than      *)
(* every operator action.                                                  *)
CompleteOwnershipTransfer(x, at) ==
    /\ Len(transferEvents) < MaxTransferEvents
    /\ HeadAt(transferEvents) <= at
    /\ TransferTransition(TransferStatus(x), "complete")
    /\ StillTransferable(x)
    /\ HeadAt(events) < at
    /\ transferEvents' = Append(transferEvents, TransferEvent(x, "complete", at))
    /\ memberships' = Append(memberships,
            [transfer |-> x, event |-> Len(transferEvents) + 1,
             target |-> transfers[x].target, claim |-> transfers[x].claim,
             source |-> transfers[x].source, to |-> transfers[x].to,
             effective |-> Day(at), through |-> Len(events), at |-> at])
    /\ transferredAt' = at
    /\ UNCHANGED <<clock, events, nonces, network, submissions, status, eligibility,
                   reviews, decisions, exitReviews, exitEvents, transfers, allocations,
                   allocationEvents>>

-----------------------------------------------------------------------------
(* Final exit allocations.                                                 *)

AllocationHead(a) ==
    Newest({k \in DOMAIN allocationEvents : allocationEvents[k].allocation = a})

(* Mutant: only a completed transfer contradicts an allocation.            *)
ConflictingTransferCompleted(v, selected) ==
    \E x \in DOMAIN transfers \ {selected} :
        /\ transfers[x].target = exitReviews[v].target
        /\ transfers[x].claim = exitReviews[v].claim
        /\ TransferStatus(x) = "completed"

(* conflictingExitAllocationTransferTx; no transfer is transfer 0.         *)
ConflictingTransfer(v, selected) ==
    \E x \in DOMAIN transfers \ {selected} :
        /\ transfers[x].target = exitReviews[v].target
        /\ transfers[x].claim = exitReviews[v].claim
        /\ TransferStatus(x) \in {"prepared", "approved", "completed"}

(* resolveExitAllocationDecisionTx: transfer x decides the beneficiary of  *)
(* exit v, or with x = 0 the contract does.                                *)
ResolvesTo(v, x, beneficiary) ==
    /\ ~ConflictingTransfer(v, x)
    /\ IF x = 0 THEN beneficiary \in Contractors
       ELSE /\ TransferStatus(x) = "completed"
            /\ transfers[x].exit = v
            /\ beneficiary = transfers[x].to

CreateExitAllocation(v, x, beneficiary, at) ==
    LET k == ExitHead(v)
    IN  /\ Len(allocationEvents) < MaxAllocationEvents
        /\ HeadAt(allocationEvents) <= at
        /\ \A a \in DOMAIN allocations : allocations[a].exit # v
        /\ ExactVerifiedExit(v, k)
        /\ ResolvesTo(v, x, beneficiary)
        /\ exitEvents[k].at <= at
        /\ HeadAt(transferEvents) <= at
        /\ allocations' = Append(allocations,
                [exit |-> v, verification |-> k, transfer |-> x,
                 completion |-> IF x = 0 THEN 0 ELSE TransferHead(x),
                 through |-> Len(transferEvents), beneficiary |-> beneficiary, at |-> at])
        /\ allocationEvents' = Append(allocationEvents,
                [allocation |-> Len(allocations) + 1, action |-> "create", at |-> at])
        /\ UNCHANGED <<operatorVars, exitReviews, exitEvents, transfers, transferEvents,
                       memberships>>

VerifyExitAllocation(a, at) ==
    LET r == allocations[a]
    IN  /\ Len(allocationEvents) < MaxAllocationEvents
        /\ HeadAt(allocationEvents) <= at
        /\ allocationEvents[AllocationHead(a)].action = "create"
        /\ ExactVerifiedExit(r.exit, r.verification)
        /\ ResolvesTo(r.exit, r.transfer, r.beneficiary)
        /\ allocationEvents' = Append(allocationEvents,
                [allocation |-> a, action |-> "verify", at |-> at])
        /\ UNCHANGED <<operatorVars, exitReviews, exitEvents, transfers, transferEvents,
                       memberships, allocations>>

-----------------------------------------------------------------------------
ExitInit ==
    /\ exitReviews = <<>>
    /\ exitEvents = <<>>
    /\ transfers = <<>>
    /\ transferEvents = <<>>
    /\ memberships = <<>>
    /\ allocations = <<>>
    /\ allocationEvents = <<>>

Init == OperatorInit /\ ExitInit

Groups == {s.group : s \in submissions}

(* The commands of service/exit_review.go, ownership_transfer.go and       *)
(* exit_allocation.go.                                                     *)

FreezeCommand(at) ==
    \E s \in submissions, date \in 1..Day(clock) : FreezeExitReview(s, date, at)

ReviewCommand(at) ==
    \E v \in DOMAIN exitReviews, action \in DOMAIN ExitResult :
        AppendExitReviewEvent(v, action, at)

PrepareCommand(at) ==
    \E v \in DOMAIN exitReviews, group \in Groups : PrepareOwnershipTransfer(v, group, at)

TransferCommand(at) ==
    \E x \in DOMAIN transfers :
        \/ \E action \in DOMAIN TransferResult : DecideOwnershipTransfer(x, action, at)
        \/ CompleteOwnershipTransfer(x, at)

CreateAllocationCommand(at) ==
    \E v \in DOMAIN exitReviews, x \in {0} \cup DOMAIN transfers,
       beneficiary \in Groups \cup Contractors : CreateExitAllocation(v, x, beneficiary, at)

VerifyAllocationCommand(at) == \E a \in DOMAIN allocations : VerifyExitAllocation(a, at)

(* The steps that no settlement takes part in.                             *)
OwnershipStep ==
    \E at \in ClockReads : ReviewCommand(at) \/ PrepareCommand(at) \/ TransferCommand(at)

ExitStep ==
    \/ OwnershipStep
    \/ \E at \in ClockReads :
        \/ FreezeCommand(at)
        \/ CreateAllocationCommand(at)
        \/ VerifyAllocationCommand(at)

Next ==
    \/ (OperatorStep \/ Tick) /\ UNCHANGED exitVars
    \/ ExitStep

Spec == Init /\ [][Next]_vars
=============================================================================
