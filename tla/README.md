# Verification of the MyScoutee registry

The registry is an append-only accountability service. Deployments register a
signing key, report monthly active users and daily revenue in signed batches,
and receive receipts. A hash-chained ledger records every accepted batch, a
checkpoint seals each UTC day, a Merkle tree proves inclusion and consistency,
and administrators run claims, cases, settlements and exits on top of it. One
server process serves HTTP; local CLI processes write to the same SQLite file.

This directory holds TLA+ modules that model the registry from its source, TLC
configurations that check them on small instances, and TLAPS proofs of the main
results for every instance. `PROJECT.json` maps each definition to the lines it
models.

## Inventory

| Component | State | Operations | What makes it correct |
|---|---|---|---|
| Registration, batches, corrections (`service/service.go`, `service/revenue.go`, `store/sqlite/registrations.go`, `batches.go`, `revenue.go`) | tables deployments, used_nonces, idempotency_records, ledger_entries with their batch rows | register, submit MAU, submit revenue | a key is spent once; corrections form one line; aggregates fit 64 bits; what is written passes the audit |
| Daily checkpoints (`checkpoints.go`) | table checkpoints | finalize on a timer and on demand | no gap, no change to a sealed day, every day sealed in the end |
| Integrity gate (`service.go`, `operational_boundary.go`) | integrityMutex, integrityFailure, trusted revision | verifyOperationalState, VerifyState | trust only what was verified; fail closed; recover |
| Merkle index (`merkle.go`, `protocol/merkle.go`) | table ledger_merkle_nodes | append, backfill, audit, two proofs, two verifications | every proof verifies, no other history does |
| Operator network (`operator*.go`) | operator_audit_events, action nonces, network state rows, claim submissions, claim status, eligibility, reviews, decisions | claim, withdraw, issue, revoke and redeem tokens, revoke links, deactivate, reactivate; approve, reject, suspend, reinstate | rows are the events replayed; an approval stays with its claim generation; tokens are spent once; a member of a group was let in |
| Registry cases (`registry_case*.go`) | case events, query rows | flag, clear, list | cleared once; listings skip nothing |
| Settlements (`settlement*.go`) | settlements with sources and allocations, ledger entries | calculate and recalculate | what is settled can be rebuilt; exact sums; only eligible members |
| Exit reviews, ownership transfers, final allocations (`exit_review*.go`, `ownership_transfer*.go`, `exit_allocation*.go`) | three event chains, transfer memberships, allocation sums | freeze, verify, reject, dispute, withdraw; prepare, approve, reject, cancel, complete; create, verify | each stage rests on the exact current event of the one before; one outcome per exit; each month paid once |
| Global identity (`global_identity*.go`, `globalidentity/keyring.go`) | identity events, links, aliases, presence submissions, chunks and batches, snapshots, key ring | evaluate, link, correct, unlink, report presence, rotate | corrections join identities, nothing else does; a person counts once; uploads can finish |
| Announcements (`announcement*.go`) | publication chain, signed feed cursors | publish, read | a reader gets a snapshot exactly once, restores included |
| Leaderboard | projection of the ledger | rank | agrees with the ledger |
| Bootstrap and keys | identity row, key files | first start, migrate | one identity, the key that signed it |
| HTTP, CLI, demo seed | none of their own | decode, route, generate | - |

How they interact. Every HTTP request is a goroutine: it validates, passes the
integrity gate, reads the clock, and then opens one SQLite transaction. The
server has one connection (`SetMaxOpenConns(1)`), so its transactions are
serial; the CLI has its own, and SQLite serializes the two. `PRAGMA
data_version` tells the server that another connection committed. The
checkpoint worker and `GET /healthz` run the complete audit.

What is hard. A request's clock value is older than its commit; clients retry
with new nonces; two corrections compete; the clock steps; the process crashes
between commit and answer; the audit reads many tables without a transaction
while requests commit; administrators decide on what they read earlier; four
chains (ledger, operator actions, reviews, transfers) are tied together only by
times of one second; uploads arrive in pieces across key rotations; cursors
outlive the database they were made from. `PROJECT.json` lists these hazards by line.

## Modules

| Module | Models |
|---|---|
| `Ledger` | registration, batches, corrections, checkpoints; clock, crash and abandoned requests as environment |
| `LedgerAudit` | the complete audit as predicates on the tables, and the properties of the ledger |
| `DailyJournal` | abstract specification: a journal that only grows, sealed day by day |
| `MCLedger` | instances for TLC |
| `Ledger_proofs` | theorems about the ledger |
| `IntegrityGate`, `MCIntegrityGate`, `IntegrityGate_proofs` | the gate, its properties, its instance, its theorems |
| `MerkleTree` | the Merkle index, both proofs, both verifiers |
| `OperatorNetwork`, `OperatorAudit`, `MCOperatorNetwork` | signed operator actions, claim reviews, eligibility; their audit and properties; the instance |
| `OperatorNetwork_proofs` | theorems about the operator network |
| `ExitLifecycle`, `ExitAudit`, `MCExitLifecycle`, `ExitLifecycle_proofs` | exit reviews, transfers, allocations, composed with `OperatorNetwork`; their audit and properties; the instance; their theorems |
| `SettlementMath` | the arithmetic of a settlement: commission, valuation, shares, largest remainder |
| `Settlement`, `SettlementAudit`, `MCSettlement`, `Settlement_proofs` | settlements and payouts, composed with `ExitLifecycle`; their audit and properties; the instance; their theorems |
| `GlobalIdentity`, `GlobalIdentityAudit`, `MCGlobalIdentity`, `GlobalIdentity_proofs` | links, presence, snapshots, rotation; their audit and properties; the instance; their theorems |
| `Sums_proofs` | lemmas on sums over finite sets, for the ledger, the settlements and the snapshots |
| `Notices`, `MCNotices`, `Notices_proofs` | announcements and registry cases with their readers, backup and restore; their theorems |

Composition: `Settlement` extends `ExitLifecycle`, which extends
`OperatorNetwork`, and each adds its actions and strengthens those it touches.
`OperatorNetwork` by itself reads one thing of its users, the time of the newest
completed transfer; `TransferCompletes` stands for them there, and
`ExitLifecycle` replaces it by the real completion.

### Ledger

A request is two steps. `RegisterDeployment` or `SubmitBatch` validates and
reads the clock; the request then sits in `pending` with its `at`. One of
`Refuse`, `AnswerDuplicate`, `AnswerRegistered`, `AcceptDeployment`,
`AcceptBatch` is its store transaction, chosen by `Outcome`, which follows the
early returns of the three store functions in their order. `SubmitBatch` stands
for `SubmitBatch` and `SubmitRevenueBatch`; the payload's kind tells them apart
where the transactions differ. Finalization has the same two steps
(`StartFinalize`, `FinalizeCompletedCheckpoints`). `Abandon` is a request
context that ends before the commit, `Crash` loses all goroutines, and `Tick`
sets the clock to any value.

Abstractions. A digest is the value it is taken of, so equal request hashes are
equal requests, and a checkpoint's head hash is the ledger prefix it commits
to. Random identifiers are positions. The rows one transaction writes for one
batch are one record. Each revenue row has one amount, which stands for its six
checked fields. `RevenueCapacity` looks at all currencies for an inconsistency
before it looks for an overflow, the code at one currency after the other; both
refuse. The timestamp is validated at the clock value that is later recorded;
the code reads the clock twice, which only widens the set of accepted
timestamps. Requests that fail validation change nothing and are not followed.

### Integrity gate

`before`, `latch`, `trusted`, `trustedRevision` and `mutex` are the fields and
locals of `service.Service`. The boundary verification is `GateVerifies`,
`VerifyHeads`, `VerifyChains`, `Recheck`, with `GateFails` and `VerifyFails` as
its error returns; the complete audit is `StartAudit`,
`AuditSources`, `AuditReferences`, `AuditRecheck`, with `AuditFails` and
`AuditCancelled` as its error returns. `Commit` is the transaction of a request
that passed, and takes no mutex. The database is reduced to `foreign`
(data_version), `corrupt` (some row is really inconsistent) and `dirty` (a
commit added rows that refer to rows a running audit has already passed).
`reads`, `checked` and `found` are history. `Damage` and `Restore` are the
environment.

### Merkle tree

Rows of `ledger_merkle_nodes` are records; digests are terms, so only equal
preimages have equal digests. `Failed` is an error return and passes through
every hash. The store's path builders and the client's verifiers are separate
recursive operators, translated from their own files, and both are compared
with `TreeHash`, the definition of RFC 9162. `Damage` loses, changes or adds
rows while the registry is stopped.

### Operator network

One action per signed operator action (`Claim`, `WithdrawClaim`,
`IssueClientToken`, `RevokeClientToken`, `RedeemLink`, `RedeemClaim`,
`RevokeGroupLink`, `DeactivateDeployment`, `ReactivateDeployment`), one for a
retry under a new nonce (`RecordDuplicate`), and one per administrator's command
(`DecideOperatorClaim`, `DecideOperatorClaimEligibility`). A request holds
nothing but its input and its clock value when its transaction opens, so a step
takes a clock value that may be `MaxLag` old; an administrator's input names the
submission that was read, which may be an old one. `ApplyEvent` is the code's
projection of an event on a deployment's row, and `ReplayEvent` of
`OperatorAudit` the audit's own, translated from its own file.

### Exit life cycle and settlements

`FreezeExitReview` pins the indexes of the operator chains at the end of a
record date; `MembersAt` is the state query of the leaderboard that it, the
audit and the settlements all use. `PrepareOwnershipTransfer`,
`DecideOwnershipTransfer`, `CompleteOwnershipTransfer`, `CreateExitAllocation`
and `VerifyExitAllocation` carry every condition of their store functions on
the other tables. `Settlement` adds the ledger: rows, corrections, checkpoints
and settlement entries, the checkpoint a freeze needs and the ledger head a
completion has to be later than (`CompletionAfterLedger`). `CalculateSettlement`
selects its sources, derives pool, valuation and shares with `SettlementMath`,
and appends a revision unless the sources are those of the last one. Amounts are
in one currency and rows of one day stand for those of a month.

### Global identity

`Link`, `Unlink` and `Correct` are one transaction each with their alias merge
and the snapshot they append. A presence submission is `StageChunk` for all
chunks but the last and `CompletePresence` for the last, in the code's order of
checks; the first chunk pins the key version. Each takes a clock value that may be
`MaxLag` old and compares it with the newest event's alone (`NotBeforeHead`);
`times` and `chunkTimes` are the accepted_at columns. `RotateKey` is the CLI's rotation
followed by the server's restart. `Person` defines who is one person without the
alias table, from the corrections alone, and snapshots are compared with it.

### Notices

A reader follows the feed's cursor page by page and an administrator reads a case
before clearing it; both hold what they read across steps. `Backup` and
`Restore` copy the database and bring the copy back between any two steps.

## Runs

| Run | Bounds | Shows |
|---|---|---|
| `ledger` | retries: 1 key to register, 2 nonces, 2 idempotency keys, 2 versions, 2 handlers, 2 entries; corrections: 2 registered deployments, 3 nonces and 3 idempotency keys that users and revenue share, amount 2 of a maximum of 3, 3 entries, revisions up to 2 | retries, replays and concurrent registrations, and competing corrections of both kinds at the 64-bit limit: `ExactlyOnce`, `NeverInconsistent`, `CorrectionsOrdered`, `AggregateFits`, `AuditPasses` |
| `ledger_calendar` | 1 handler, 1 finalizer, days of 2 seconds, clock 0..4 created at 1, 2 entries | commits around midnight under any clock step: `ReceiptsCovered`, `AuditPasses`, `ImplementsJournal`, `CompletedDaysSealed` |
| `gate` | 2 handlers, worker and probe, 2 foreign commits | `MutexHeld`, `TrustedWasChecked`, `FailClosed`, `LatchClears`, `RequestsAnswered` |
| `merkle` | 11 leaves, 3 damaged rows | `ServedIndexSound`, `BackfillSuffices`, `ProofsVerify`, `ForksRefused` |
| `operator_claims` | 2 deployments, 1 company, tokens of 1 second, clock to 2, a clock value up to 1 old, 5 events, 2 nonces each, 2 reviews, 1 decision, one claim approved at the start | `AuditBesidesSuperseded`, `DecidedOnLiveClaims`, `ApprovalIsCurrent`, `TokensSpentOnce`, `MembershipTraceable` |
| `exits_settlements` | 2 operators with approved claims, 3 days of 1 second, a clock value up to 1 old; the exits alone: 1 contractor, 3 operator, 3 exit, 4 transfer and 2 allocation events, `MaxTurns`; or with the ledger: weights 1 and 3, one month's revenue, 2 settlements, 4 rows, 2 exit events, 1 decision or 3 transfer events | `RailsAudited`, `ReviewsStayReproduced`, `OneOutcome`, `CompletedOnCurrentGrounds`, `SettlementAuditPasses`, `AllocationsFair`, `ExitPaidOnce`, `PaidMembersEligible` |
| `identity` | 2 deployments, 2 months, 2 commitments, 2 key versions, 5 events, 2 submissions of up to 2 people, clock to 2, a clock value up to 1 old, two people linked and one reported at the start | `IdentityTablesAudited`, `OneIdentityPerPerson`, `SnapshotsAccurate`, `StagedSubmissionsFinish` |
| `notices` | 3 publications of 2 kinds, one that expires, 1 reader, pages of 1 and 2; 1 subject, 4 case events, 2 administrators, 1 lister; a clock value up to 1 old | `NoticesAuditPass`, `FeedExactlyOnce`, `CaseListsComplete` |
| `gate_alarm` | 1 handler, worker, no foreign commit | violated: see Findings |
| `late_commits` | as the exits of `exits_settlements`, with 5 operator events, clock to 2 | violated: see Findings |
| `late_settlement` | as the settlements of `exits_settlements`, with 1 settlement and no correction | violated: see Findings |
| `identity_uploads` | as `identity` | violated: see Findings |

Why the bounds suffice. A conflict needs two requests that share a nonce or a
key and differ elsewhere, so two of each. An off-by-one at midnight needs a
second before, at and after it. A fork of a correction chain needs three
entries, an overflow two deployments. A stale approval needs a claim, its
withdrawal and a new claim; a token used twice an issue and two redemptions by
different deployments. Two transfers compete over one claim, one of them
cancelled or rejected first. A settlement is revised once, before or
after an exit froze the first revision. A wrong merge needs two links and a
correction of one to the commitment of the other; a wrong count two deployments
that report one person. A cursor is stale after one page, one restore and one
other publication. A torn trust needs commits before,
between and after the queries. Up to 11 leaves, a split is 1, 2, 4 or 8 with
complete and incomplete right sides. A transaction
is late when its clock value is one step older than its commit and another
transaction with the newer value came between; a lag of one step gives that.
`ledger_calendar` and the corrections of `ledger` start from deployments that
have registered (`InitRegistered`), a state that registrations reach; the
operator, exit, settlement and identity runs start a few legal steps into a
history for the same reason (`InitApproved`, `InitTwoOperators`, `InitReported`,
`InitLinked`). Where one run has two scenarios, its first state decides which:
`ledger` is either about retries, with two handlers at once, or about
corrections, with one request at a time (`RetryScenario`,
`CorrectionScenario`; the handlers share nothing but the clock before their
transactions, and it stands still there); `exits_settlements` either has an
empty ledger, and exits, claims and decisions take `MaxTurns` steps together
(`NextFewTurns`), or a reported month, and nobody claims any more
(`NextReported`). In `identity` the clock goes on at the start or not at all
(`NextTimed`): every later request may then carry either second, and keys are
rotated and users counted in the behaviours where it does not. `notices` lets a behaviour exercise the feed or the cases, not
both, because the two share the clock and the backup alone (`OneOfTwo`).
Symmetry is used over interchangeable names (handlers, keys, nonces,
deployments, companies, publications, administrators) in the runs of invariants
and action properties only. The deadlock check is off where the system may
stop: in `merkle` a registry whose index fails its audit stays down, and in the
runs of `OperatorNetwork` and the modules after it the clock reaches its bound
and nobody has to act.

Fairness. `FinalizerFairness`: the checkpoint worker runs at start and on every
tick, and is not killed by a crash every single time. `Fairness` of the gate:
goroutines that can run do run, and `sync.Mutex` starves nobody, hence strong
fairness where it is acquired; the worker audits on every tick and only
shutdown cancels it. Nothing is assumed of probes, clients, the CLI or damage.

## Findings

`gate_alarm` refutes `AlarmsAreReal`. A request passes the gate; the audit reads
deployments and batches; the request commits; the audit reads the idempotency
and nonce rows, meets one whose source it has not seen, and latches
`ErrInconsistentState` ("registry database contains inconsistent state") over a
sound database. All requests are refused until the next complete audit, which
`LatchClears` shows to come and to succeed, because the latch itself keeps the
writers out. A disconnecting `/healthz` client latches the gate too
(`AuditCancelled`).

The other three runs refute what the protocols promise of transactions that
commit late or in an order the audit did not expect. Two of them check a
disjunction of clauses: a state that refutes it refutes every clause of it, and
each is reported by itself in `PROJECT.json`. What holds of the same checks
however late a transaction is, the passing runs check: `AuditBesidesSuperseded`
and `DecidedOnLiveClaims`, `RailsAudited` and `ReviewsStayReproduced`,
`PaidMembersEligible`, `IdentityTablesAudited`.

`late_commits` refutes all five clauses of `SomeClauseSurvives`:

- `DecisionsKeptByLinks` and `DecisionsKeptInTime`, two cases of one check,
  `operatorClaimWasSupersededBefore`. After a suspension of a deployment that has
  joined another group by a link, the link's event, whose claim state is
  pending-review, is taken for a new claim that ended the suspended one. And a
  withdrawal, deactivation or new claim that read the clock before a decision
  and commits after it looks as if it had come before. The decision itself was
  right in both cases: `DecidedOnLiveClaims`.
- `ReviewsReproduced`: an action accepted on the record date that commits after
  the freeze changes what the audit rebuilds. `ReviewsStayReproduced` says that
  nothing else does.
- `TargetsWereEligible`: the target group of a transfer was eligible when the
  transfer was prepared, but not by the end of that second, or not before a
  late withdrawal.
- `PreparedAfterVerification`: `PrepareOwnershipTransfer` compares its clock value
  with the head of the transfer events, not with the verification it names,
  and the audit refuses a transfer that is older than its verification.

`late_settlement` refutes `PaidWherePresent`: a settlement reads the clock, a
transfer completes a second later, the settlement commits, and pays the group
the deployment has left. It pays by the transfers of its own second, which is
what `PaidMembersEligible` states and the audit rebuilds.

`identity_uploads` refutes all three clauses of `SomeUploadCheckHolds`:

- `StagedCommitmentsAudited`: a deployment completes a presence submission for a
  month and then corrects or ends one of its links from that month on. The
  submission's batch is checked against the link history up to its own event,
  and passes; the stored chunks are checked against the history as it is now
  (`global_identity_presence_chunk_verify.go:346`, with `throughEventIndex` 0),
  although corrections are the protocol's "explicit key-rotation path".
- `FirstRevisionsAudited`: the audit wants revision 1 of a first submission; the
  store lets it carry the revision of a corrected user count.
- `ChunkTimesOrdered`: the audit wants the chunks of a submission in the order of
  their times; the store compares a chunk's time with the newest event's, and a
  staged chunk appends none.

A failed audit latches the gate, and since none of these rows can change, every
later audit fails the same way.

Behaviour the models reproduce and a reader might not expect: any operator action
of a deployment, a token issue included, ends the overlay of a completed
transfer, because the overlay counts only up to the next state row
(`leaderboard.go:135`); a presence submission that can no longer finish blocks
its revision, since nothing drops it; two members of one group that exit each
get the group's whole frozen pool.

## Proofs

Every theorem holds for every value of the constants under the named
assumptions: `DayAssumption`, `ClockAssumption`, `BoundAssumption`,
`AmountAssumption` and `KindAssumption` for the ledger, `GateAssumption` for the
gate, `TimeAssumption` and `NoneAssumption` for the operator network, those and
`DayAssumption` for exits, those and `SettlementAssumption` for settlements,
`IdentityAssumption`, `NoticesAssumption` and `DraftsAssumption`. They only say
which constants are numbers and that a placeholder is not one of the names it
stands in for; how many deployments, people, tokens, events or clients there are
is left open. `SettlementAssumption` also has the founder's contribution
positive, the multiplier in the range the configuration accepts (1000 to 100000
basis points), and finitely many deployments. Most of the properties are not
inductive by themselves; the bullets name what they are strengthened with and
why.

Ledger (`Ledger_proofs`):

- `TypeCorrect`: the type invariant is inductive by itself.
- `ExactlyOnceHolds`: by `RecordsInv`, which ties the four tables together:
  each record's nonce, key, payload and result agree, results point at existing
  rows, and every answer is a row of idempotency_records. `ExactlyOnce` alone
  is not inductive, because nothing in it says that an accepted batch left the
  row that stops the next one.
- `CorrectionsOrderedHolds`: by `LedgerInv`, where accepted_at never decreases
  and each chain's revisions are consecutive.
- `AuditPassesHolds`, `ReceiptsCoveredHolds`: by `SealInv` besides those two:
  checkpoint dates are consecutive from the creation day, and each checkpoint is
  what `CheckpointFor` gives today. An append keeps it because of the cutoff
  after the newest checkpoint.
- `AggregateFitsHolds`: by `RevenueInv`. The capacity check of a revenue batch
  adds its amounts to the active revenue of the other deployments; that this
  bounds the sum after the append needs that a deployment has one active revenue
  entry per period, the head of its correction chain (`CorrectionsOrdered`).
- `NeverInconsistentHolds`: by `RecordsInv` and `RevenueInv`. A nonce that is used
  has a readable record with an existing row, and the others' revenue, a part of
  a sum that fits, fits.
- `Refinement`: the initial state maps to the empty journal; an accepted batch
  is `Write`, a finalization `Seal` or a stutter, all else a stutter.

Integrity gate (`IntegrityGate_proofs`):

- `MutexHolds`, `TrustedWasCheckedHolds`, `FailClosedHolds`: by `GateInv`. While
  the mutex is held, every query's revision lies between the first one and the
  current one (`ReadsBracketed`), so equal ends mean equal reads; a found
  inconsistency is latched while the server is up, and no verification that
  could pass is under way (`FoundIsLatched`).

Operator network (`OperatorNetwork_proofs`). The nine
operator actions come down to one form, `EventFor` (a typed event, its nonce and
its effect on the rows), and the later proofs argue about that form:

- `OperatorTypesHold`: with `ClaimRowsOK`, that the three rows of a claimed
  deployment are about one claim generation; without it the type of what an
  approval writes cannot be kept.
- `TokensSpentOnceHolds`: with `TokensIssued`, that a redeemed or revoked token
  was issued by an earlier event.
- `MembershipTraceableHolds`, from the types; `ApprovalIsCurrentHolds` with
  `ApprovedOnReview`, that the review behind an approval names the status row's
  claim.
- `OperatorTablesAudited`: by `AuditInv`. The audit replays the events with its
  own code, so the invariant holds both histories, the store's
  (`NetworkHistory`) and the audit's (`ReplayHistory`), and says that they agree
  at every event; it holds for every `MaxLag`.
- `DecidedOnLiveClaimsHolds`: an action property, from the types and `AuditInv`: an
  approved claim's rows would not say so if a later event had ended it, whatever
  its time.

Exits (`ExitLifecycle_proofs`):

- `ExitsImplementOperators`: `Spec => OperatorSpec`, so everything proved of the
  operator network holds here without another proof. It rests on
  `TransferClock`: `transferredAt` is never later than the head of the transfer
  events, so that a completion moves it forward as `TransferCompletes` does.
- `ExitTypesHold`, `ExitRailsAudited`, `OneOutcomeHolds`: by `RailsInv`, one
  part for each event chain (`ExitRail`, `TransferRail`, `MembershipRail`,
  `AllocationRail`). An allocation's ground is that its claim's other transfers
  are closed, which only the transfer chain's own order keeps so.
- `CompletedOnCurrentGroundsHolds`: an action property, from `RailsInv`.
- `ReviewsStayReproducedHolds`: an action property, for every `MaxLag`, from
  `RailsInv`. A boundary selects the same rows in a longer chain when the new
  rows are later than its date, and a freeze writes what the audit reads.

Settlements (`Settlement_proofs`), for `SettlementSpec`, which starts from empty
tables; the run starts from a state it reaches:

- `SettlementsImplementExits`: `SettlementSpec => Spec` of `ExitLifecycle`, so all
  that is proved of exits and of the operator network holds here. A settlement,
  a report and a checkpoint are stutters; the other steps are steps of the exit
  rails with a stronger guard.
- `AllocationsAreFair`: by `FairInv`, which adds the types of the tables and
  `EventsBounded`, that no group is numbered like the founder or the reserve. The
  bounds on growth and adjustment make pool and value natural
  (`MultiplierNatural`), and the shares are exactly the whole, with and without
  eligible groups (`SharesWhole`). Over a common denominator the units left over
  are the sum of the remainders, so there are no more of them than shares that
  were rounded down (`LeftBounded`) and each such share gets at most one; more
  weight comes first among equal quotients (`LargerShareGiven`).
- `SettlementAuditHolds`: by `SettlementInv`, for every `MaxLag`. Each settlement
  is `Pinned` (its boundary lies within the tables, its second is that of its
  ledger entry), `Rebuilt` (the boundary gives its sources and all that is
  derived from them) and `Chained` (revision, predecessor and entry). Appends to ledger and chains
  keep what lies within a boundary; the one selection by time, the ownership
  events, stays because of `CompletionAfterLedger`.
- `ExitPaidOnceHolds`: by `PaidInv`, for every `MaxLag`: a checkpoint covers the
  entries up to the end of its day (`SealsCover`), the frozen revisions are the
  last by then of each month and currency, and a later settlement is later than
  every sealed day.
- `PaidMembersAreEligible`: an action property, for every `MaxLag`, from the rails
  and `LedgerTables`. Claims, reviews and decisions are selected by index, so a
  settlement sees them as they are at its commit, however old its second is; the
  transfers alone are selected by time, and `GroupBy` reads the current rows with
  the same selection.

Global identity (`GlobalIdentity_proofs`):

- `IdentityTypesHold`: with `SetsFit` (every event has its snapshot, and no batch
  or manifest lists more people than it reports, so that a snapshot's numbers are
  natural) and `LinksNamed` (every link's commitment has an identity).
- `OneIdentityHolds`: by `LinkInv`. Its `History` is the sequence of alias
  maps, one for each event, each `Sound`: equal identities are exactly the
  classes of the corrections so far. A merge keeps it because it moves the whole
  class; that needs every alias that was ever linked to have an identity, and
  every identity a founding event (`Founded`).
- `IdentityTablesAreAudited`, `StagedSubmissionsFinishHolds`: by `AuditInv`, which adds
  `PresenceInv`: a batch rests on links in force at its own event, and the chunks
  of an open submission begin the set it committed to; and by `TimesInv`, that
  every event and chunk has a time and those of the events never decrease.
- `SnapshotsAccurateHolds`: by `AuditInv` and `Accurate`. At its event a snapshot
  counts identities, which `PeopleCounted` puts in bijection with the classes
  of people; later events change neither the batches up to that event nor the
  corrections up to it.

Notices (`Notices_proofs`):

- `NoticesAuditHolds`: by `NoticesInv`, which says of the backup what it says of
  the database, since a restore brings it back.
- `FeedExactlyOnceHolds`: by `ReadersInv`: what a client has received is the
  descending prefix, above its cursor, of what its signed chain shows.
- `CaseListsCompleteHolds`: by `ListingsInv`: every case of the requested status
  above the cursor that was there at the start is in the pages so far.

Sums and joins (`Sums_proofs`). `SumFunction` and the joined chunks are defined
by a fold, that is by CHOOSE of a recursive function. `SumsUnfold` and `JoinedBy`
recover the recursion from the definition (a function on all smaller subsets
exists, level by level of the cardinality), and `SumNatural`, `SumDifference` and
the other facts about sums are proved with a smallest counterexample
(`SmallestSubset`) instead of an induction rule.

Only model-checked:

- `CompletedDaysSealed`, `LatchClears`, `RequestsAnswered`: liveness.
- `ServedIndexSound`, `BackfillSuffices`, `ProofsVerify`, `ForksRefused`: the path
  builders and verifiers of `MerkleTree` are RECURSIVE operators, and its
  positions are powers of two, of which the provers know no law
  (`2^(k + 1) = 2 * 2^k` included).

## Plan

All of the plan is done: ledger, checkpoints, audit, integrity gate, Merkle tree;
operator network; exit life cycle; settlements; global identity; announcements
and cases; and a proof of every safety property but those of the Merkle tree.
What would come next, in this order: the VOPRF evaluation log and the public
ranking as components of their own; the Merkle index over a power function of
the project's own, in a form without RECURSIVE operators.

## Not modelled

Signatures, digests and encodings are abstracted to the values they bind.
HTTP decoding, configuration, packaging and the demo seed have no state of
their own. First start, key files and migrations run before any request and are
file and schema operations. The VOPRF evaluation is cryptography; its log is
read by its own audit only. The public ranking of the leaderboard and the list
and history queries of settlements, claims and exits are read-only and ordered
by their primary keys.
