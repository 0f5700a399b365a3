------------------------------ MODULE ExitAudit ------------------------------
(***************************************************************************)
(* The complete audit of the exit rails, VerifyExitReviews,                *)
(* VerifyOwnershipTransfers and VerifyExitAllocations (store/sqlite/       *)
(* exit_review_verify.go, ownership_transfer_verify.go, exit_allocation_   *)
(* verify.go), as predicates on the tables, and the properties of          *)
(* ExitLifecycle.                                                          *)
(***************************************************************************)
EXTENDS ExitLifecycle, OperatorAudit

(* The rows of each table.                                                 *)

MemberRows == [deployment: Deployments, claim: DOMAIN events, state: VerificationStates,
               eligibility: EligibilityStates]

ExitReviewRows ==
    [target: Deployments, claim: DOMAIN events, group: DOMAIN events, date: 1..Day(MaxTime),
     audit: Ids, review: 0..Len(reviews), eligibility: 0..Len(decisions),
     members: SUBSET MemberRows, at: Times]

ExitEventRows ==
    [exit: DOMAIN exitReviews, action: {"freeze"} \cup DOMAIN ExitResult,
     status: {"review-pending", "verified-eligible", "rejected", "disputed", "withdrawn"},
     at: Times]

TransferRows ==
    [exit: DOMAIN exitReviews, target: Deployments, claim: DOMAIN events,
     source: DOMAIN events, to: DOMAIN events, verification: DOMAIN exitEvents, at: Times]

TransferEventRows ==
    [transfer: DOMAIN transfers, action: {"prepare"} \cup DOMAIN TransferResult,
     status: {"prepared", "approved", "rejected", "cancelled", "completed"}, at: Times]

MembershipRows ==
    [transfer: DOMAIN transfers, event: DOMAIN transferEvents, target: Deployments,
     claim: DOMAIN events, source: DOMAIN events, to: DOMAIN events,
     effective: 1..Day(MaxTime), through: Ids, at: Times]

AllocationRows ==
    [exit: DOMAIN exitReviews, verification: DOMAIN exitEvents,
     transfer: {0} \cup DOMAIN transfers, completion: 0..Len(transferEvents),
     through: 0..Len(transferEvents), beneficiary: DOMAIN events \cup Contractors, at: Times]

AllocationEventRows ==
    [allocation: DOMAIN allocations, action: {"create", "verify"}, at: Times]

(* Every variable has the type of its table, the operator network's too.   *)
TypeOK ==
    /\ OperatorTypeOK
    /\ exitReviews \in Seq(ExitReviewRows)
    /\ exitEvents \in Seq(ExitEventRows)
    /\ transfers \in Seq(TransferRows)
    /\ transferEvents \in Seq(TransferEventRows)
    /\ memberships \in Seq(MembershipRows)
    /\ allocations \in Seq(AllocationRows)
    /\ allocationEvents \in Seq(AllocationEventRows)

Ordered(chain) == \A i \in 2..Len(chain) : chain[i - 1].at <= chain[i].at

-----------------------------------------------------------------------------
(* VerifyExitReviews: the event chain.                                     *)
ExitBefore(k) == {j \in 1..(k - 1) : exitEvents[j].exit = exitEvents[k].exit}

(* validExitReviewVerifierSemantics.                                       *)
ExitEventFollows(k) ==
    LET before == ExitBefore(k)
    IN  IF exitEvents[k].action = "freeze"
        THEN before = {} /\ exitEvents[k].status = "review-pending"
        ELSE /\ before # {}
             /\ ExitTransition(exitEvents[Newest(before)].status, exitEvents[k].action)
             /\ exitEvents[k].status = ExitResult[exitEvents[k].action]

VerifyExitReviewEvents ==
    /\ Ordered(exitEvents)
    /\ \A k \in DOMAIN exitEvents : ExitEventFollows(k)

(* verifyExitReviewRecords: freezing the review again, from the database   *)
(* as it is now, gives the same record.                                    *)
Reproduces(v) ==
    \E s \in submissions :
        /\ s.deployment = exitReviews[v].target
        /\ s.claim = exitReviews[v].claim
        /\ s.group = exitReviews[v].group
        /\ exitReviews[v] = FrozenRecord(s, exitReviews[v].date, exitReviews[v].at)
        /\ TargetEligible(exitReviews[v])

-----------------------------------------------------------------------------
(* verifiedOwnershipTransferRecords: the exit a transfer is pinned to, but *)
(* for two clauses the store does not keep, PreparedAfterVerification and  *)
(* TargetsWereEligible.                                                    *)
TransferPinned(x) ==
    LET t == transfers[x]
        k == t.verification
    IN  /\ t.source # t.to
        /\ exitReviews[t.exit].target = t.target
        /\ exitReviews[t.exit].claim = t.claim
        /\ exitReviews[t.exit].group = t.source
        /\ exitEvents[k].exit = t.exit
        /\ exitEvents[k].action = "verify"

(* ownershipTransferTargetEligibleAt: what had been accepted by the second *)
(* of the preparation.                                                     *)
TargetEligibleAt(group, t) ==
    LET b == BoundaryAt(t)
    IN  \E m \in MembersAt(group, b) :
            /\ m.eligibility = "active"
            /\ \E s \in submissions : s.claim = m.claim /\ s.group = group

(* verifiedOwnershipTransferEvents.                                        *)
TransferBefore(k) == {j \in 1..(k - 1) : transferEvents[j].transfer = transferEvents[k].transfer}

TransferEventFollows(k) ==
    LET before == TransferBefore(k)
        e == transferEvents[k]
    IN  IF e.action = "prepare"
        THEN before = {} /\ e.status = "prepared" /\ e.at = transfers[e.transfer].at
        ELSE /\ before # {}
             /\ TransferTransition(transferEvents[Newest(before)].status, e.action)
             /\ e.status = TransferResult[e.action]

(* verifyOwnershipTransferMemberships: one boundary per completion, at the *)
(* operator-audit head of the time.                                        *)
VerifyTransferMemberships ==
    /\ \A m \in DOMAIN memberships :
            LET row == memberships[m]
                e == transferEvents[row.event]
            IN  /\ e.action = "complete"
                /\ e.transfer = row.transfer
                /\ TransferHead(row.transfer) = row.event
                /\ row.target = transfers[row.transfer].target
                /\ row.claim = transfers[row.transfer].claim
                /\ row.to = transfers[row.transfer].to
                /\ row.at = e.at
                /\ row.effective = Day(e.at)
                /\ row.through = Cardinality({i \in DOMAIN events : events[i].at < row.at})
    /\ \A x \in DOMAIN transfers :
            TransferStatus(x) = "completed" <=>
                Cardinality({m \in DOMAIN memberships : memberships[m].transfer = x}) = 1

(* verifyNoConflictingActiveOwnershipTransfers.                            *)
NoConflictingActiveTransfers ==
    \A x, y \in DOMAIN transfers :
        /\ TransferStatus(x) \in {"prepared", "approved"}
        /\ TransferStatus(y) \in {"prepared", "approved"}
        /\ transfers[x].target = transfers[y].target
        /\ transfers[x].claim = transfers[y].claim
        => x = y

VerifyOwnershipTransfers ==
    /\ \A x \in DOMAIN transfers : TransferPinned(x)
    /\ Ordered(transferEvents)
    /\ \A k \in DOMAIN transferEvents : TransferEventFollows(k)
    /\ VerifyTransferMemberships
    /\ NoConflictingActiveTransfers

-----------------------------------------------------------------------------
(* verifiedExitAllocationRecords: the pinned verified exit.                *)
AllocationPinned(a) ==
    LET r == allocations[a]
    IN  /\ exitEvents[r.verification].exit = r.exit
        /\ exitEvents[r.verification].action = "verify"
        /\ exitEvents[r.verification].at <= r.at

(* verifyExitAllocationDecisionBoundary: the transfers of the claim as     *)
(* they stood at the pinned ownership head, and none prepared since.       *)
DecisionBoundaryHolds(a) ==
    LET r == allocations[a]
        StatusAt(x) ==
            LET E == {k \in 1..r.through : transferEvents[k].transfer = x}
            IN  IF E = {} THEN "" ELSE transferEvents[Newest(E)].status
    IN  /\ r.through > 0 => transferEvents[r.through].at <= r.at
        /\ \A x \in DOMAIN transfers \ {r.transfer} :
                /\ transfers[x].target = exitReviews[r.exit].target
                /\ transfers[x].claim = exitReviews[r.exit].claim
                => StatusAt(x) \notin {"prepared", "approved", "completed"}
        /\ \A k \in DOMAIN transferEvents :
                /\ transferEvents[k].action = "prepare"
                /\ transfers[transferEvents[k].transfer].exit = r.exit
                => k <= r.through
        /\ r.transfer # 0 =>
                /\ transferEvents[r.completion].transfer = r.transfer
                /\ transferEvents[r.completion].action = "complete"
                /\ r.completion <= r.through
                /\ transfers[r.transfer].exit = r.exit
                /\ transfers[r.transfer].to = r.beneficiary

(* verifiedExitAllocationEvents.                                           *)
AllocationEventFollows(k) ==
    LET before == {j \in 1..(k - 1) :
                    allocationEvents[j].allocation = allocationEvents[k].allocation}
    IN  IF allocationEvents[k].action = "create" THEN before = {}
        ELSE before # {} /\ \A j \in before : allocationEvents[j].action = "create"

VerifyExitAllocations ==
    /\ \A a \in DOMAIN allocations : AllocationPinned(a) /\ DecisionBoundaryHolds(a)
    /\ Ordered(allocationEvents)
    /\ \A k \in DOMAIN allocationEvents : AllocationEventFollows(k)

-----------------------------------------------------------------------------
(* Properties.                                                             *)

(* However late commands, operator actions and decisions commit, the       *)
(* events of the exit rails follow their state machines, each transfer is  *)
(* pinned to the verification it was prepared on, each completion to the   *)
(* operator-audit head of its time, and each allocation to an ownership    *)
(* decision nothing contradicts.  The rest of the audit is not kept by the *)
(* store: see ReviewsReproduced, TargetsWereEligible and                   *)
(* PreparedAfterVerification.                                              *)
RailsAudited == VerifyExitReviewEvents /\ VerifyOwnershipTransfers /\ VerifyExitAllocations

(* No row that this step adds is accepted by second t.                     *)
NothingLate(t) ==
    /\ \A i \in DOMAIN events' \ DOMAIN events : events'[i].at > t
    /\ \A i \in DOMAIN reviews' \ DOMAIN reviews : reviews'[i].at > t
    /\ \A i \in DOMAIN decisions' \ DOMAIN decisions : decisions'[i].at > t
    /\ \A i \in DOMAIN transferEvents' \ DOMAIN transferEvents : transferEvents'[i].at > t

(* A frozen review is reproduced from the tables as they are, from its     *)
(* freeze on and whatever is claimed, reviewed, suspended, transferred or  *)
(* withdrawn later: only a row accepted by its record date and committed   *)
(* after the freeze can change what the audit rebuilds                     *)
(* (freezeExitReviewRecordTx, verifyExitReviewRecords).                    *)
ReviewsStayReproduced ==
    [][\A v \in DOMAIN exitReviews' :
        /\ v \in DOMAIN exitReviews => Reproduces(v)
        /\ NothingLate(LastSecond(exitReviews'[v].date))
        => Reproduces(v)']_vars

(* The clauses of the audit that late commits break.  A frozen review is   *)
(* always reproduced (exit-reviews-v1.md: "historically verifiable");      *)
ReviewsReproduced == \A v \in DOMAIN exitReviews : Reproduces(v)

(* the target group of a transfer was eligible by the second it was        *)
(* prepared in (ownership-transfers-v1.md: "existence at prepare");        *)
TargetsWereEligible ==
    \A x \in DOMAIN transfers : TargetEligibleAt(transfers[x].to, transfers[x].at)

(* and a transfer is not older than the verification it names.             *)
PreparedAfterVerification ==
    \A x \in DOMAIN transfers : exitEvents[transfers[x].verification].at <= transfers[x].at

(* Late commits and links leave the audit at least one of these clauses    *)
(* and of the two about eligibility decisions.  Each of the five is what   *)
(* the protocols promise, so refuting their disjunction refutes them all.  *)
SomeClauseSurvives ==
    \/ DecisionsKeptByLinks
    \/ DecisionsKeptInTime
    \/ ReviewsReproduced
    \/ TargetsWereEligible
    \/ PreparedAfterVerification

(* An exit has one outcome: a claim generation is moved by at most the     *)
(* transfer its allocation names, and where the allocation says there is   *)
(* none, none is completed or can still be (PrepareOwnershipTransfer       *)
(* against CreateExitAllocation and VerifyExitAllocation).                 *)
OneOutcome ==
    \A a \in DOMAIN allocations, x \in DOMAIN transfers :
        LET v == allocations[a].exit
        IN  /\ transfers[x].target = exitReviews[v].target
            /\ transfers[x].claim = exitReviews[v].claim
            /\ x # allocations[a].transfer
            => TransferStatus(x) \in {"rejected", "cancelled"}

(* A deployment moves from where its reviewed claim has it, and only on    *)
(* reviews that still stand: when a transfer is completed, the exit was    *)
(* verified and not disputed since, the claim is the deployment's          *)
(* approved, unsuspended one in the source group, and a deployment of the  *)
(* target group other than the one that moves vouches for it.              *)
CompletedOnCurrentGrounds ==
    [][\A m \in DOMAIN memberships' \ DOMAIN memberships :
        LET row == memberships'[m]
            exit == transfers[row.transfer].exit
        IN  /\ ExitStatus(exit) = "verified-eligible"
            /\ status[row.target].claim = row.claim
            /\ status[row.target].state = "approved"
            /\ eligibility[row.target].state = "active"
            /\ EffectiveGroup(row.target, row.claim) = row.source
            /\ \E d \in Deployments \ {row.target} :
                    status[d].group = row.to /\ eligibility[d].state = "active"]_vars
=============================================================================
