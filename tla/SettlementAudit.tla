--------------------------- MODULE SettlementAudit ---------------------------
(***************************************************************************)
(* VerifySettlements and the settlement part of VerifyExitAllocations      *)
(* (store/sqlite/settlement_verify.go, exit_allocation_verify.go) as       *)
(* predicates on the tables, and the properties of Settlement.             *)
(***************************************************************************)
EXTENDS Settlement

-----------------------------------------------------------------------------
(* The boundary verifySettlementRecordTx rebuilds: the four pinned         *)
(* indexes, and the ownership events accepted by the settlement's second.  *)
PinnedBoundary(s) ==
    [ledger |-> s.sources.through.ledger, audit |-> s.sources.through.audit,
     review |-> s.sources.through.review, eligibility |-> s.sources.through.eligibility,
     transfer |-> ThroughIndex(transferEvents, s.at), date |-> Day(s.at)]

(* verifySettlementRecordTx: the boundary is the newest source entry       *)
(* before the settlement's own, and the sources are those it selects.      *)
SourcesReproduce(s) ==
    /\ s.sources.through.ledger = SourceIndex(s.index - 1)
    /\ s.sources = Sources(s.sources.month, s.sources.currency, PinnedBoundary(s))

(* recomputeSettlementDerived: all that follows from the sources.          *)
DerivedReproduces(s) ==
    LET month == s.sources.month
        measured == Measured(month, PinnedBoundary(s))
    IN  s.derived = Derived(month, s.sources.basis, s.sources.weights, measured)

SettlementReproduces(s) == SourcesReproduce(s) /\ DerivedReproduces(s)

(* The revision chains of VerifySettlements, and one settlement for each   *)
(* settlement entry of the ledger.                                         *)
SettlementChains ==
    /\ \A s \in DOMAIN settlements :
            LET r == settlements[s]
                prior == {p \in RevisionsOf(r.sources.month, r.sources.currency) : p < s}
            IN  /\ r.revision = Cardinality(prior) + 1
                /\ r.supersedes = IF prior = {} THEN 0 ELSE Newest(prior)
                /\ ledger[r.index].type = "settlement"
                /\ ledger[r.index].value = s
                /\ ledger[r.index].at = r.at
    /\ Len(settlements) = Cardinality({i \in DOMAIN ledger : ledger[i].type = "settlement"})

-----------------------------------------------------------------------------
(* Properties.                                                             *)

(* What has been settled stays provable: whatever is corrected, suspended, *)
(* transferred or settled again afterwards, the same second included,      *)
(* VerifySettlements rebuilds every settlement from its pinned boundary.   *)
SettlementAuditPasses ==
    SettlementChains /\ \A s \in DOMAIN settlements : SettlementReproduces(settlements[s])

(* Every minor unit is given out exactly once and nobody is off by one or  *)
(* more: the allocations of the pool and of the indicative value add up,   *)
(* each is its exact share rounded up or down, the founder has a tenth at  *)
(* least, and more weight never gets less (settlementRatios,               *)
(* largestRemainder).                                                      *)
ShareOf(amounts, shares, total) ==
    /\ SumFunction(amounts) = total
    /\ \A b \in DOMAIN shares :
            LET exact == total * shares[b][1]
            IN  /\ amounts[b] * shares[b][2] < exact + shares[b][2]
                /\ amounts[b] * shares[b][2] > exact - shares[b][2]

AllocationsFair ==
    \A s \in DOMAIN settlements :
        LET d == settlements[s].derived
            w == settlements[s].sources.weights
        IN  /\ ShareOf(d.poolOf, d.shares, d.pool)
            /\ ShareOf(d.valueOf, d.shares, d.value)
            /\ d.poolOf[Founder] >= d.pool \div 10
            /\ \A g, h \in DOMAIN w : w[g] > w[h] => d.poolOf[g] >= d.poolOf[h]

(* The group of d by the current rows and the transfers of second t and    *)
(* before.                                                                 *)
GroupBy(d, t) ==
    LET M == {m \in DOMAIN memberships : memberships[m].target = d /\ memberships[m].at <= t}
        m == memberships[Newest(M)]
    IN  IF M # {} /\ m.claim = status[d].claim /\ m.through >= StateIndex(d, Len(events))
        THEN m.to
        ELSE network[d].effective

(* Only who is eligible when a settlement commits is paid, however old its *)
(* clock value: the members it reads from the histories                    *)
(* (leaderboardStateCTE) are approved and unsuspended in the current       *)
(* tables, and each is paid in the group where the transfers up to the     *)
(* settlement's own second leave it.                                       *)
PaidMembersEligible ==
    [][\A s \in DOMAIN settlements' \ DOMAIN settlements :
        \A m \in settlements'[s].sources.members :
            /\ status[m.deployment].state = "approved"
            /\ eligibility[m.deployment].state = "active"
            /\ m.group = GroupBy(m.deployment, settlements'[s].at)]_<<vars, settlementVars>>

(* A settlement calculated after a transfer pays the group the deployment  *)
(* is now in (ownership-transfers-v1.md: "later technical settlement       *)
(* calculations use the effective membership").                            *)
PaidWherePresent ==
    [][\A s \in DOMAIN settlements' \ DOMAIN settlements :
        \A m \in settlements'[s].sources.members :
            m.group = PresentGroup(m.deployment)]_<<vars, settlementVars>>

(* An exit is paid what had been settled for its group by the end of its   *)
(* record date, each month once, whatever is settled later                 *)
(* (exitReviewSettlementsAtBoundaryTx, deriveExitAllocationRowsTx).        *)
SettledByDate(v, cur) ==
    LET past == {s \in DOMAIN settlements :
                    /\ settlements[s].sources.currency = cur
                    /\ settlements[s].at <= LastSecond(exitReviews[v].date)}
        last == {s \in past : \A n \in past :
                    settlements[n].sources.month = settlements[s].sources.month => n <= s}
    IN  SumFunction([s \in last |-> GroupPool(s, exitReviews[v].group)])

ExitPaidOnce ==
    \A a \in DOMAIN payouts : \A cur \in DOMAIN payouts[a] :
        payouts[a][cur] = SettledByDate(allocations[a].exit, cur)
=============================================================================
