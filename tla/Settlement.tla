----------------------------- MODULE Settlement -----------------------------
(***************************************************************************)
(* Monthly settlements (registry/service/settlement.go, store/sqlite/      *)
(* settlement.go) on top of the exit rails: CalculateSettlement reads the  *)
(* revenue and weight rows of the ledger and the operator groups as they   *)
(* stand, appends a signed revision to the ledger and allocates the pool;  *)
(* an exit review freezes the revisions its checkpoint covers, and a final *)
(* exit allocation sums what they gave the exiting group.                  *)
(*                                                                         *)
(* The ledger's own rules are those of module Ledger.  Here it is the      *)
(* order of its entries: rows with their deployment, month and value, a    *)
(* correction being a later row of the same deployment and month, and      *)
(* settlement entries.  A revenue batch has one row, in one currency, and  *)
(* the days of a month are one.  Hashes of chain heads are their indexes.  *)
(***************************************************************************)
EXTENDS ExitLifecycle, SettlementMath

CONSTANTS
    FounderScaled,        \* FounderContributionUnits * settlementWeightMonths
    BaseMultiplier,       \* valuation multiplier of the configuration
    MaximumSafeMinor,     \* SettlementMaximumSafeMinor
    FirstMonth,           \* month of the first day
    DaysPerMonth,
    Currencies,
    Amounts,              \* commission bases of revenue rows
    Weights,              \* weight numerators
    MaxRows,              \* bound on the revenue and weight rows
    MaxSettlements        \* bound on settlements

ASSUME SettlementAssumption ==
    /\ FounderScaled \in Nat \ {0}
    /\ BaseMultiplier \in Nat /\ 1000 <= BaseMultiplier /\ BaseMultiplier <= 100000
    /\ DaysPerMonth \in Nat \ {0}
    /\ Amounts \subseteq Nat
    /\ Weights \subseteq Nat
    /\ FirstMonth \in Int
    /\ MaxEvents \in Nat
    /\ IsFiniteSet(Deployments)

VARIABLES
    ledger,        \* table ledger_entries with revenue_query_rows and weight rows
    seals,         \* table checkpoints: through_ledger_index, by date
    settlements,   \* table settlements with its source and allocation tables
    frozen,        \* table exit_review_settlement_boundaries, per exit review
    payouts        \* table exit_allocation_currencies, per exit allocation

settlementVars == <<ledger, seals, settlements, frozen, payouts>>

(* The first day may be any day of its month.                              *)
MonthOf(t) == FirstMonth + Day(t) \div DaysPerMonth

Founder == 0
Reserve == MaxEvents + 1

-----------------------------------------------------------------------------
(* The sources of a settlement.                                            *)

(* settlementRevenueSourcesTx, weight_revisions: the newest row of each    *)
(* deployment for a month, up to a ledger index.                           *)
LatestRows(type, cur, month, through) ==
    {i \in 1..through :
        /\ ledger[i].type = type
        /\ ledger[i].month = month
        /\ ledger[i].currency = cur
        /\ ~\E j \in (i + 1)..through :
                /\ ledger[j].type = type
                /\ ledger[j].month = month
                /\ ledger[j].deployment = ledger[i].deployment}

Values(S) == SumFunction([i \in S |-> ledger[i].value])

(* settlementBoundaryTx: the newest entry that is not a settlement, the    *)
(* heads of the operator chains, and the ownership events accepted by then.*)
SourceIndex(before) ==
    LET S == {i \in 1..before : ledger[i].type # "settlement"}
    IN  IF S = {} THEN 0 ELSE Newest(S)

SettlementBoundary(at) ==
    [ledger |-> SourceIndex(Len(ledger)), audit |-> Len(events), review |-> Len(reviews),
     eligibility |-> Len(decisions), transfer |-> ThroughIndex(transferEvents, at),
     date |-> Day(at)]

(* deployment_weights: six months up to the settled one.                   *)
MeasuredWeight(d, month, b) ==
    Values({i \in UNION {LatestRows("weight", "", m, b.ledger) : m \in (month - 5)..month} :
                ledger[i].deployment = d})

(* group_profiles: the newest claim of the group, if a claimed deployment  *)
(* has one.                                                                *)
GroupProfileApproved(group, b) ==
    LET rows == NetworkAt[b.audit]
        Q == {d \in Deployments : /\ rows[d].active
                                  /\ rows[d].claimed
                                  /\ rows[d].group = group
                                  /\ rows[d].state = "pending-review"}
        newest == CHOOSE d \in Q : \A e \in Q : rows[e].profile <= rows[d].profile
    IN  Q = {} \/ ClaimStateAt(rows[newest], b) = "approved"

(* settlementWeightSourcesTx.                                              *)
BeneficiaryMembers(b) ==
    LET rows == NetworkAt[b.audit]
        Group(d) == GroupAt(d, rows[d], b)
        Paid(d) == /\ rows[d].active
                   /\ rows[d].claimed
                   /\ EligibilityAt(rows[d], b) = "active"
                   /\ Group(d) # 0
                   /\ GroupProfileApproved(Group(d), b)
    IN  {[group |-> Group(d), deployment |-> d] : d \in {x \in Deployments : Paid(x)}}

GroupWeight(group, members, month, b) ==
    LET D == {d \in Deployments : [group |-> group, deployment |-> d] \in members}
    IN  SumFunction([d \in D |-> MeasuredWeight(d, month, b)])

GroupWeights(members, month, b) ==
    LET G == {g \in {m.group : m \in members} : GroupWeight(g, members, month, b) > 0}
    IN  [g \in G |-> GroupWeight(g, members, month, b)]

(* The twelve months up to the settled one.                                *)
TrailingMonths(month) == (month - 11)..month

(* settlementSourcesTx without its sources: all that is derived from the   *)
(* commission bases, the group weights and the measured weight.            *)
Derived(month, basis, weights, measured) ==
    LET trailing == SumFunction(basis)
        pool == Commission(basis[month])
        value == Scaled(trailing, Multiplier(basis, month, BaseMultiplier))
        shares == Shares(Founder, Reserve, FounderScaled, weights, measured)
    IN  [pool |-> pool, trailing |-> trailing, trailingPool |-> Commission(trailing),
         value |-> value, shares |-> shares,
         poolOf |-> LargestRemainder(shares, pool),
         valueOf |-> LargestRemainder(shares, value)]

(* settlementSourcesTx at a boundary.                                      *)
Sources(month, cur, b) ==
    LET members == BeneficiaryMembers(b)
    IN  [month |-> month, currency |-> cur,
         through |-> [ledger |-> b.ledger, audit |-> b.audit, review |-> b.review,
                      eligibility |-> b.eligibility],
         revenue |-> UNION {LatestRows("revenue", cur, m, b.ledger) :
                                m \in TrailingMonths(month)},
         basis |-> [m \in TrailingMonths(month) |->
                        Values(LatestRows("revenue", cur, m, b.ledger))],
         weights |-> GroupWeights(members, month, b), members |-> members]

Measured(month, b) == SumFunction([d \in Deployments |-> MeasuredWeight(d, month, b)])

(* settlementRecordHasSafeMinorAmounts; no other amount exceeds these two. *)
SafeMinorAmounts(derived) ==
    derived.trailing <= MaximumSafeMinor /\ derived.value <= MaximumSafeMinor

-----------------------------------------------------------------------------
(* CalculateSettlement.                                                    *)

RevisionsOf(month, cur) ==
    {s \in DOMAIN settlements :
        settlements[s].sources.month = month /\ settlements[s].sources.currency = cur}

(* A ledger append is later than the head and than every sealed day        *)
(* (ensureAcceptedAtNotBeforeHead, ensureAcceptedAtAfterCheckpoint).       *)
LedgerOpen(at) ==
    /\ HeadAt(ledger) <= at
    /\ Len(seals) < Day(at)

(* The latest revision has another source fingerprint.                     *)
Unsettled(sources, prior) ==
    prior # {} => settlements[Newest(prior)].sources # sources

CalculateSettlement(month, cur, at) ==
    LET b == SettlementBoundary(at)
        sources == Sources(month, cur, b)
        derived == Derived(month, sources.basis, sources.weights, Measured(month, b))
        prior == RevisionsOf(month, cur)
    IN  /\ Len(settlements) < MaxSettlements
        /\ month < MonthOf(at)
        /\ LedgerOpen(at)
        /\ SafeMinorAmounts(derived)
        /\ Unsettled(sources, prior)
        /\ settlements' = Append(settlements,
                [sources |-> sources, derived |-> derived,
                 revision |-> Cardinality(prior) + 1,
                 supersedes |-> IF prior = {} THEN 0 ELSE Newest(prior),
                 index |-> Len(ledger) + 1, at |-> at])
        /\ ledger' = Append(ledger,
                [type |-> "settlement", deployment |-> NoDeployment, month |-> month,
                 currency |-> cur, value |-> Len(settlements) + 1, at |-> at])
        /\ UNCHANGED <<vars, seals, frozen, payouts>>

-----------------------------------------------------------------------------
(* The ledger: AppendBatch for revenue and monthly counts, and the daily   *)
(* checkpoints.                                                            *)

AppendRow(row) ==
    /\ Len(ledger) - Len(settlements) < MaxRows
    /\ LedgerOpen(row.at)
    /\ row.month < MonthOf(row.at)
    /\ ledger' = Append(ledger, row)
    /\ UNCHANGED <<vars, seals, settlements, frozen, payouts>>

AppendRevenue(d, month, cur, amount, at) ==
    AppendRow([type |-> "revenue", deployment |-> d, month |-> month, currency |-> cur,
               value |-> amount, at |-> at])

AppendWeight(d, month, weight, at) ==
    AppendRow([type |-> "weight", deployment |-> d, month |-> month, currency |-> "",
               value |-> weight, at |-> at])

CreateCheckpoint ==
    LET date == Len(seals) + 1
    IN  /\ date < Day(clock)
        /\ seals' = Append(seals, ThroughIndex(ledger, LastSecond(date)))
        /\ UNCHANGED <<vars, ledger, settlements, frozen, payouts>>

-----------------------------------------------------------------------------
(* The exit rails with the settlements they freeze.                        *)

(* Mutant: the newest revisions of all, the checkpoint's index forgotten.  *)
SettlementsAtHead(through) ==
    {s \in DOMAIN settlements : ~\E n \in DOMAIN settlements :
            /\ settlements[n].sources.month = settlements[s].sources.month
            /\ settlements[n].sources.currency = settlements[s].sources.currency
            /\ settlements[n].revision > settlements[s].revision}

(* exitReviewSettlementsAtBoundaryTx: the newest revision of each month    *)
(* and currency up to the checkpoint's ledger index.                       *)
SettlementsAtBoundary(through) ==
    LET S == {s \in DOMAIN settlements : settlements[s].index <= through}
    IN  {s \in S : ~\E n \in S :
            /\ settlements[n].sources.month = settlements[s].sources.month
            /\ settlements[n].sources.currency = settlements[s].sources.currency
            /\ settlements[n].revision > settlements[s].revision}

FreezeWithSettlements(s, date, at) ==
    /\ date \in DOMAIN seals
    /\ FreezeExitReview(s, date, at)
    /\ frozen' = Append(frozen, SettlementsAtBoundary(seals[date]))
    /\ UNCHANGED <<ledger, seals, settlements, payouts>>

(* What a settlement gave a group; a missing row is zero.                  *)
GroupPool(s, group) ==
    IF group \in DOMAIN settlements[s].derived.poolOf
    THEN settlements[s].derived.poolOf[group] ELSE 0

(* deriveExitAllocationRowsTx: one amount per currency of the frozen       *)
(* settlements.                                                            *)
ExitCurrencies(v) ==
    LET In(cur) == {s \in frozen[v] : settlements[s].sources.currency = cur}
    IN  [cur \in {settlements[s].sources.currency : s \in frozen[v]} |->
            SumFunction([s \in In(cur) |-> GroupPool(s, exitReviews[v].group)])]

CreateAllocationWithPayouts(v, x, beneficiary, at) ==
    /\ CreateExitAllocation(v, x, beneficiary, at)
    /\ \A cur \in DOMAIN ExitCurrencies(v) : ExitCurrencies(v)[cur] <= MaximumSafeMinor
    /\ payouts' = Append(payouts, ExitCurrencies(v))
    /\ UNCHANGED <<ledger, seals, settlements, frozen>>

(* The allocation is verified on rows that are derived again.              *)
VerifyAllocationWithPayouts(a, at) ==
    /\ VerifyExitAllocation(a, at)
    /\ payouts[a] = ExitCurrencies(allocations[a].exit)
    /\ UNCHANGED settlementVars

-----------------------------------------------------------------------------
SettlementInit ==
    /\ ledger = <<>>
    /\ seals = <<>>
    /\ settlements = <<>>
    /\ frozen = <<>>
    /\ payouts = <<>>

(* CalculateSettlement of the service, for a month that has ended.         *)
SettleCommand(month, at) == \E cur \in Currencies : CalculateSettlement(month, cur, at)

ReportMonth(month, at) ==
    \E d \in Deployments :
        \/ \E cur \in Currencies, amount \in Amounts :
                AppendRevenue(d, month, cur, amount, at)
        \/ \E weight \in Weights : AppendWeight(d, month, weight, at)

ExitCommand(at) ==
    \/ \E s \in submissions, date \in DOMAIN seals : FreezeWithSettlements(s, date, at)
    \/ \E v \in DOMAIN exitReviews, x \in {0} \cup DOMAIN transfers,
          beneficiary \in Groups \cup Contractors :
            CreateAllocationWithPayouts(v, x, beneficiary, at)
    \/ \E a \in DOMAIN allocations : VerifyAllocationWithPayouts(a, at)

SettlementStep ==
    \/ CreateCheckpoint
    \/ \E at \in ClockReads :
        \/ \E month \in FirstMonth..(MonthOf(clock) - 1) :
                SettleCommand(month, at) \/ ReportMonth(month, at)
        \/ ExitCommand(at)

(* Mutant: a completion looks at the operator chain alone.                 *)
CompletionAfterLedgerUnchecked == TRUE

(* ensureTransferCompletionAfterLedgerHead: a transfer completes strictly  *)
(* later than the newest ledger entry.                                     *)
CompletionAfterLedger == memberships' # memberships => HeadAt(ledger) < transferredAt'

SettlementNext ==
    \/ SettlementStep
    \/ OwnershipStep /\ CompletionAfterLedger /\ UNCHANGED settlementVars
    \/ (OperatorStep \/ Tick) /\ UNCHANGED <<exitVars, settlementVars>>

SettlementSpec == Init /\ SettlementInit /\ [][SettlementNext]_<<vars, settlementVars>>
=============================================================================
