------------------------------- MODULE Ledger -------------------------------
(***************************************************************************)
(* The registry's accountability ledger: deployment registration, signed   *)
(* MAU and revenue batches, their corrections, and the daily checkpoints   *)
(* that seal the ledger (registry/service/service.go, service/revenue.go,  *)
(* store/sqlite/registrations.go, batches.go, revenue.go, checkpoints.go). *)
(*                                                                         *)
(* Every HTTP request runs in its own goroutine.  The service layer        *)
(* validates it and reads the clock ("canonicalNow") BEFORE the store      *)
(* opens its transaction, so a request in flight carries an accepted_at    *)
(* that may be stale when it commits.  A store transaction is one atomic   *)
(* step: SQLite commits all of its rows or none.                           *)
(*                                                                         *)
(* Abstractions.  A digest is the value it is taken of, so the request     *)
(* hash is the request itself and the hash of ledger entry n stands for    *)
(* the entries 1..n it chains.  Batch and deployment identifiers are       *)
(* random and never collide: they are named by the position of their row.  *)
(* The rows one transaction writes for one batch (ledger_entries,          *)
(* mau_batches or revenue_batches, ledger_weight_rows, revenue_query_rows) *)
(* are one record of "ledger".  The accepted_at copies in used_nonces and  *)
(* idempotency_records are never read back and are left out.               *)
(***************************************************************************)
EXTENDS Integers, Sequences, FiniteSets, FiniteSetsExt

CONSTANTS
    Keys,             \* deployment signing keys
    Nonces,           \* request nonces
    IdempotencyKeys,  \* client-chosen idempotency keys
    Versions,         \* software_version values of a registration
    Periods,          \* reporting periods of a batch
    Kinds,            \* the batch kinds clients send
    Counts,           \* qualified_mau_count values
    Currencies,       \* currency codes of revenue batches
    Amounts,          \* minor-unit amounts of revenue batches
    MaximumMinor,     \* the largest signed 64-bit aggregate
    Handlers,         \* concurrent request goroutines
    Finalizers,       \* the checkpoint worker and GET /checkpoints requests
    DayLength,        \* seconds in a UTC day
    CreatedAt,        \* created_at of the registry identity row
    TimestampSkew,    \* accepted distance of a request's timestamp
    MaxTime,          \* bound on the clock
    MaxLedger,        \* bound on the number of ledger entries
    MaxRevision       \* bound on the revision a client asks for

ASSUME DayAssumption == DayLength \in Nat \ {0}
ASSUME ClockAssumption ==
    MaxTime \in Nat /\ CreatedAt \in 0..MaxTime /\ TimestampSkew \in Nat
ASSUME BoundAssumption == MaxLedger \in Nat /\ MaxRevision \in Nat
ASSUME AmountAssumption == MaximumMinor \in Nat /\ Amounts \subseteq 0..MaximumMinor
ASSUME KindAssumption ==
    Kinds \subseteq {"installation-test", "monthly-qmau", "daily-revenue"}

VARIABLES
    clock,        \* the host's clock
    deployments,  \* table deployments, in insertion order
    nonces,       \* table used_nonces
    idempotency,  \* table idempotency_records
    ledger,       \* table ledger_entries with its batch rows, by ledger_index
    checkpoints,  \* table checkpoints, by checkpoint_date
    pending,      \* requests between the clock read and their transaction
    finalizing,   \* finalizations between the clock read and their transaction
    answers       \* every successful answer computed so far (history)

vars == <<clock, deployments, nonces, idempotency, ledger, checkpoints,
          pending, finalizing, answers>>

database == <<deployments, nonces, idempotency, ledger, checkpoints>>

-----------------------------------------------------------------------------
(* Values.                                                                 *)

Times == 0..MaxTime
Day(t) == t \div DayLength

(* The two name spaces of used_nonces.signer: the fingerprint of a key for *)
(* a registration, the deployment identifier for a batch.                  *)
Fingerprint(k) == <<"fingerprint", k>>
DeploymentID(i) == <<"dep", i>>

Signers == ({"fingerprint"} \X Keys) \cup ({"dep"} \X Nat)

RegistrationPayloads == [kind: {"registration"}, software: Versions]

(* supersedes is 0 for the empty supersedes_batch_id.                      *)
InstallationPayloads ==
    [kind: {"installation-test"}, period: Periods, revision: {0}, supersedes: {0}]

RevisionPairs ==
    {x \in (1..MaxRevision) \X (0..MaxLedger) : (x[1] = 1) <=> (x[2] = 0)}

QualifiedMAUPayloads ==
    {[kind |-> "monthly-qmau", period |-> p, count |-> c,
      revision |-> x[1], supersedes |-> x[2]] :
        p \in Periods, c \in Counts, x \in RevisionPairs}

(* An empty set of currency rows reports an explicit zero-revenue day.     *)
CurrencyRows == UNION {[S -> Amounts] : S \in SUBSET Currencies}

RevenuePayloads ==
    {[kind |-> "daily-revenue", period |-> p, amounts |-> a,
      revision |-> x[1], supersedes |-> x[2]] :
        p \in Periods, a \in CurrencyRows, x \in RevisionPairs}

BatchPayloads ==
    {p \in InstallationPayloads \cup QualifiedMAUPayloads \cup RevenuePayloads :
        p.kind \in Kinds}

RegistrationRequests ==
    [signer: {"fingerprint"} \X Keys, stamp: Int, nonce: Nonces,
     key: IdempotencyKeys, payload: RegistrationPayloads]

BatchRequests ==
    [signer: {"dep"} \X Nat, stamp: Int, nonce: Nonces,
     key: IdempotencyKeys, payload: BatchPayloads]

Requests == RegistrationRequests \cup BatchRequests

(* result_type of a row that a request of this payload kind produces.      *)
ResultType(r) == IF r.payload.kind = "registration" THEN "deployment" ELSE "batch"

Results == [type: {"deployment", "batch"}, id: Nat]

(* A row of idempotency_records, and what the client is told.              *)
Answers == [signer: Signers, key: IdempotencyKeys,
            payload: RegistrationPayloads \cup BatchPayloads, result: Results]

Entries == [request: BatchRequests, at: Times]

Checkpoints == [date: Nat, through: Nat, count: Nat, head: Seq(Entries)]

-----------------------------------------------------------------------------
(* What a transaction reads.                                               *)

NonceRows(r) ==
    {n \in nonces : n.request.signer = r.signer /\ n.request.nonce = r.nonce}

(* Mutant: the key is looked up together with the payload.                 *)
IdempotencyRowsByPayload(r) ==
    {i \in idempotency : i.signer = r.signer /\ i.key = r.key /\ i.payload = r.payload}

IdempotencyRows(r) ==
    {i \in idempotency : i.signer = r.signer /\ i.key = r.key}

DeploymentsOf(signer) ==
    {i \in DOMAIN deployments : deployments[i].request.signer = signer}

(* batchRecordByIDTx and revenueBatchRecordByIDTx each look in their own   *)
(* batch table, deploymentByIDTx in deployments.                           *)
RecordExists(res, r) ==
    IF res.type = "deployment"
    THEN res.id \in DOMAIN deployments
    ELSE /\ res.id \in DOMAIN ledger
         /\ (ledger[res.id].request.payload.kind = "daily-revenue")
                <=> (r.payload.kind = "daily-revenue")

(* The prefix common to the three store transactions: nonceState,          *)
(* readIdempotency and the early returns that follow them.                 *)
ReplayState(r) ==
    LET used == NonceRows(r)
        rows == IdempotencyRows(r)
    IN  IF \E n \in used : n.request # r THEN "replay_conflict"
        ELSE IF \E i \in rows : i.payload # r.payload THEN "idempotency_conflict"
        ELSE IF \E i \in rows : i.result.type # ResultType(r) THEN "inconsistent"
        ELSE IF \E i \in rows : ~RecordExists(i.result, r) THEN "inconsistent"
        ELSE IF rows # {} THEN "duplicate"
        ELSE IF used # {} THEN "inconsistent"
        ELSE "fresh"

EnsureAcceptedAtAfterRegistryCreation(t) == t >= CreatedAt

LatestCheckpoint == checkpoints[Len(checkpoints)]

(* Mutant: the cutoff is the start of the newest sealed day, not its end.  *)
AfterCheckpointOffByOne(t) ==
    checkpoints # <<>> => t >= LatestCheckpoint.date * DayLength

EnsureAcceptedAtAfterCheckpoint(t) ==
    checkpoints # <<>> => t >= (LatestCheckpoint.date + 1) * DayLength

(* Mutant: the order of accepted_at is not checked.                        *)
NotBeforeHeadUnchecked(t) == TRUE

EnsureAcceptedAtNotBeforeHead(t) ==
    ledger # <<>> => t >= ledger[Len(ledger)].at

(* The rows of one correction chain: mau_batches of kind monthly-qmau, or  *)
(* revenue_batches, of one deployment and one period.                      *)
Chain(signer, kind, period) ==
    {i \in DOMAIN ledger : /\ ledger[i].request.signer = signer
                           /\ ledger[i].request.payload.kind = kind
                           /\ ledger[i].request.payload.period = period}

Revision(i) == ledger[i].request.payload.revision
Supersedes(i) == ledger[i].request.payload.supersedes

(* Mutant: any row of the chain may be superseded.                         *)
IsLatestAny(i, chain) == i \in chain

IsLatest(i, chain) == i \in chain /\ \A j \in chain : Revision(j) <= Revision(i)

(* ensureQualifiedMAURevision and ensureRevenueRevision.                   *)
EnsureLinearRevision(r) ==
    LET chain == Chain(r.signer, r.payload.kind, r.payload.period)
    IN  \/ r.payload.kind = "installation-test"
        \/ chain = {} /\ r.payload.revision = 1 /\ r.payload.supersedes = 0
        \/ \E i \in chain : /\ IsLatest(i, chain)
                            /\ r.payload.revision = Revision(i) + 1
                            /\ r.payload.supersedes = i

(* The active revenue rows of one period and currency: the rows of a batch *)
(* that no newer revision of its deployment and period supersedes.         *)
ActiveRevenue(period, currency) ==
    {i \in DOMAIN ledger :
        LET p == ledger[i].request.payload
        IN  /\ p.kind = "daily-revenue"
            /\ p.period = period
            /\ currency \in DOMAIN p.amounts
            /\ IsLatest(i, Chain(ledger[i].request.signer, "daily-revenue", period))}

RevenueTotal(rows, currency) ==
    SumFunction([i \in rows |-> ledger[i].request.payload.amounts[currency]])

OthersRevenue(r, currency) ==
    RevenueTotal({i \in ActiveRevenue(r.payload.period, currency) :
                     ledger[i].request.signer # r.signer}, currency)

(* Mutant: the sum may exceed the maximum by one.                          *)
RevenueCapacityOffByOne(r) ==
    IF /\ r.payload.kind = "daily-revenue"
       /\ \E c \in DOMAIN r.payload.amounts :
            r.payload.amounts[c] > MaximumMinor + 1 - OthersRevenue(r, c)
    THEN "revenue_aggregate_overflow" ELSE "ok"

(* ensureRevenueAggregateCapacity: the other deployments' active rows must *)
(* already fit, and the incoming amount must fit on top of them.           *)
RevenueCapacity(r) ==
    IF r.payload.kind # "daily-revenue" THEN "ok"
    ELSE IF \E c \in DOMAIN r.payload.amounts : OthersRevenue(r, c) > MaximumMinor
         THEN "inconsistent"
    ELSE IF \E c \in DOMAIN r.payload.amounts :
                r.payload.amounts[c] > MaximumMinor - OthersRevenue(r, c)
         THEN "revenue_aggregate_overflow"
    ELSE "ok"

(* The result of the store transaction of a pending request: the checks of *)
(* RegisterDeployment, AcceptInstallationBatch and AcceptRevenueBatch in   *)
(* the order of their early returns.                                       *)
RegistrationOutcome(p) ==
    IF ReplayState(p.request) # "fresh" THEN ReplayState(p.request)
    ELSE IF DeploymentsOf(p.request.signer) # {} THEN "registered"
    ELSE "accepted"

BatchOutcome(p) ==
    IF ReplayState(p.request) # "fresh" THEN ReplayState(p.request)
    ELSE IF ~EnsureAcceptedAtAfterRegistryCreation(p.at) THEN "before_identity"
    ELSE IF ~EnsureAcceptedAtAfterCheckpoint(p.at) THEN "finalized"
    ELSE IF ~EnsureLinearRevision(p.request) THEN "revision_conflict"
    ELSE IF RevenueCapacity(p.request) # "ok" THEN RevenueCapacity(p.request)
    ELSE IF ~EnsureAcceptedAtNotBeforeHead(p.at) THEN "before_head"
    ELSE "accepted"

Outcome(p) ==
    IF ResultType(p.request) = "deployment" THEN RegistrationOutcome(p)
    ELSE BatchOutcome(p)

Refusals ==
    {"replay_conflict", "idempotency_conflict", "inconsistent", "before_identity",
     "finalized", "revision_conflict", "revenue_aggregate_overflow", "before_head"}

-----------------------------------------------------------------------------
(* What a transaction writes.                                              *)

InsertNonce(r, res) == nonces' = nonces \cup {[request |-> r, result |-> res]}

(* A row of idempotency_records for a request and its result, which is     *)
(* also what its client is told.                                           *)
Record(r, res) ==
    [signer |-> r.signer, key |-> r.key, payload |-> r.payload, result |-> res]

InsertIdempotency(r, res) == idempotency' = idempotency \cup {Record(r, res)}

Answer(r, res) == answers' = answers \cup {Record(r, res)}

Deployment(i) == [type |-> "deployment", id |-> i]
Batch(i) == [type |-> "batch", id |-> i]

-----------------------------------------------------------------------------
(* The service layer: validation, the integrity gate (module               *)
(* IntegrityGate; a refusal there changes nothing here) and the clock      *)
(* read.  Only requests that pass validation are followed further.         *)

Idle(h) == \A p \in pending : p.handler # h

(* Mutant: the clock is rounded up instead of truncated.                   *)
PrepareRoundedUp(h, r) ==
    /\ Idle(h)
    /\ pending' = pending \cup {[handler |-> h, request |-> r, at |-> clock + 1]}
    /\ UNCHANGED <<clock, database, finalizing, answers>>

Prepare(h, r) ==
    /\ Idle(h)
    /\ pending' = pending \cup {[handler |-> h, request |-> r, at |-> clock]}
    /\ UNCHANGED <<clock, database, finalizing, answers>>

ValidStamps == (clock - TimestampSkew) .. (clock + TimestampSkew)

RegisterDeployment(h) ==
    \E k \in Keys, s \in ValidStamps, n \in Nonces, i \in IdempotencyKeys,
       p \in RegistrationPayloads :
        Prepare(h, [signer |-> Fingerprint(k), stamp |-> s, nonce |-> n,
                    key |-> i, payload |-> p])

(* SubmitBatch and SubmitRevenueBatch.  The deployment must be registered, *)
(* and a client can only name a superseded batch it has been given.        *)
SubmitBatch(h) ==
    \E d \in DOMAIN deployments, s \in ValidStamps, n \in Nonces,
       i \in IdempotencyKeys, p \in BatchPayloads :
        /\ p.supersedes \in 0..Len(ledger)
        /\ Prepare(h, [signer |-> DeploymentID(d), stamp |-> s, nonce |-> n,
                       key |-> i, payload |-> p])

-----------------------------------------------------------------------------
(* The store transactions.                                                 *)

Refuse(p) ==
    /\ Outcome(p) \in Refusals
    /\ pending' = pending \ {p}
    /\ UNCHANGED <<clock, database, finalizing, answers>>

AnswerDuplicate(p) ==
    /\ Outcome(p) = "duplicate"
    /\ \E i \in IdempotencyRows(p.request) :
        /\ IF NonceRows(p.request) = {} THEN InsertNonce(p.request, i.result)
                                        ELSE UNCHANGED nonces
        /\ Answer(p.request, i.result)
    /\ pending' = pending \ {p}
    /\ UNCHANGED <<clock, deployments, idempotency, ledger, checkpoints, finalizing>>

(* Mutants: one of the two rows is forgotten.                              *)
AnswerRegisteredNoNonce(p) ==
    /\ Outcome(p) = "registered"
    /\ \E d \in DeploymentsOf(p.request.signer) :
        /\ InsertIdempotency(p.request, Deployment(d))
        /\ Answer(p.request, Deployment(d))
    /\ pending' = pending \ {p}
    /\ UNCHANGED <<clock, deployments, nonces, ledger, checkpoints, finalizing>>

AnswerRegisteredNoKey(p) ==
    /\ Outcome(p) = "registered"
    /\ \E d \in DeploymentsOf(p.request.signer) :
        /\ InsertNonce(p.request, Deployment(d))
        /\ Answer(p.request, Deployment(d))
    /\ pending' = pending \ {p}
    /\ UNCHANGED <<clock, deployments, idempotency, ledger, checkpoints, finalizing>>

AnswerRegistered(p) ==
    /\ Outcome(p) = "registered"
    /\ \E d \in DeploymentsOf(p.request.signer) :
        /\ InsertNonce(p.request, Deployment(d))
        /\ InsertIdempotency(p.request, Deployment(d))
        /\ Answer(p.request, Deployment(d))
    /\ pending' = pending \ {p}
    /\ UNCHANGED <<clock, deployments, ledger, checkpoints, finalizing>>

AcceptDeployment(p) ==
    /\ ResultType(p.request) = "deployment"
    /\ Outcome(p) = "accepted"
    /\ deployments' = Append(deployments, [request |-> p.request, at |-> p.at])
    /\ InsertNonce(p.request, Deployment(Len(deployments) + 1))
    /\ InsertIdempotency(p.request, Deployment(Len(deployments) + 1))
    /\ Answer(p.request, Deployment(Len(deployments) + 1))
    /\ pending' = pending \ {p}
    /\ UNCHANGED <<clock, ledger, checkpoints, finalizing>>

AcceptBatch(p) ==
    /\ ResultType(p.request) = "batch"
    /\ Outcome(p) = "accepted"
    /\ Len(ledger) < MaxLedger
    /\ ledger' = Append(ledger, [request |-> p.request, at |-> p.at])
    /\ InsertNonce(p.request, Batch(Len(ledger) + 1))
    /\ InsertIdempotency(p.request, Batch(Len(ledger) + 1))
    /\ Answer(p.request, Batch(Len(ledger) + 1))
    /\ pending' = pending \ {p}
    /\ UNCHANGED <<clock, deployments, checkpoints, finalizing>>

-----------------------------------------------------------------------------
(* Checkpoints.                                                            *)

(* ledgerHeadBeforeTx: COUNT, MAX(ledger_index) and the head hash of the   *)
(* entries accepted before the end of a day.                               *)
EntriesBefore(t) == {i \in DOMAIN ledger : ledger[i].at < t}

ThroughIndex(S) == IF S = {} THEN 0 ELSE Max(S)

HashThrough(n) == [i \in 1..n |-> ledger[i]]

CheckpointFor(day) ==
    LET S == EntriesBefore((day + 1) * DayLength)
    IN  [date |-> day, through |-> ThroughIndex(S), count |-> Cardinality(S),
         head |-> HashThrough(ThroughIndex(S))]

NextCheckpointDate ==
    IF checkpoints = <<>> THEN Day(CreatedAt) ELSE LatestCheckpoint.date + 1

(* The service verifies the state, then reads the clock.                   *)
StartFinalize(f) ==
    /\ \A x \in finalizing : x.worker # f
    /\ finalizing' = finalizing \cup {[worker |-> f, now |-> clock]}
    /\ UNCHANGED <<clock, database, pending, answers>>

(* Mutants: only yesterday is sealed, or yesterday is left out.            *)
FinalizeOnlyYesterday(x) ==
    /\ checkpoints' = IF Day(x.now) <= NextCheckpointDate THEN checkpoints
                      ELSE Append(checkpoints, CheckpointFor(Day(x.now) - 1))
    /\ finalizing' = finalizing \ {x}
    /\ UNCHANGED <<clock, deployments, nonces, idempotency, ledger, pending, answers>>

FinalizeDayLate(x) ==
    LET missing == Day(x.now) - NextCheckpointDate - 1
    IN  /\ checkpoints' =
             IF missing <= 0 THEN checkpoints
             ELSE [i \in 1..(Len(checkpoints) + missing) |->
                      IF i <= Len(checkpoints) THEN checkpoints[i]
                      ELSE CheckpointFor(NextCheckpointDate + i - Len(checkpoints) - 1)]
        /\ finalizing' = finalizing \ {x}
        /\ UNCHANGED <<clock, deployments, nonces, idempotency, ledger, pending, answers>>

(* One transaction appends a checkpoint for every completed day that has   *)
(* none; it is a no-op when the newest one is already there.               *)
FinalizeCompletedCheckpoints(x) ==
    LET missing == Day(x.now) - NextCheckpointDate
    IN  /\ checkpoints' =
             IF missing <= 0 THEN checkpoints
             ELSE [i \in 1..(Len(checkpoints) + missing) |->
                      IF i <= Len(checkpoints) THEN checkpoints[i]
                      ELSE CheckpointFor(NextCheckpointDate + i - Len(checkpoints) - 1)]
        /\ finalizing' = finalizing \ {x}
        /\ UNCHANGED <<clock, deployments, nonces, idempotency, ledger, pending,
                       answers>>

-----------------------------------------------------------------------------
(* The environment.  The host clock advances, and may be stepped in either *)
(* direction; the store's guards exist because of that.                    *)
Tick(t) ==
    /\ t # clock
    /\ clock' = t
    /\ UNCHANGED <<database, pending, finalizing, answers>>

(* The client disconnects: its request context ends, and the transaction   *)
(* that was about to commit rolls back.                                    *)
Abandon(p) ==
    /\ pending' = pending \ {p}
    /\ UNCHANGED <<clock, database, finalizing, answers>>

(* A crash loses the goroutines; what was committed stays.  The clients    *)
(* never see the answers that were in flight, and retry.                   *)
Crash ==
    /\ pending # {} \/ finalizing # {}
    /\ pending' = {}
    /\ finalizing' = {}
    /\ UNCHANGED <<clock, database, answers>>

Init ==
    /\ clock = CreatedAt
    /\ deployments = <<>>
    /\ nonces = {}
    /\ idempotency = {}
    /\ ledger = <<>>
    /\ checkpoints = <<>>
    /\ pending = {}
    /\ finalizing = {}
    /\ answers = {}

(* The steps of a registry whose deployments register no more.             *)
BatchStep ==
    \/ \E h \in Handlers : SubmitBatch(h)
    \/ \E p \in pending : Refuse(p)
    \/ \E p \in pending : AnswerDuplicate(p)
    \/ \E p \in pending : AcceptBatch(p)
    \/ \E p \in pending : Abandon(p)
    \/ \E f \in Finalizers : StartFinalize(f)
    \/ \E x \in finalizing : FinalizeCompletedCheckpoints(x)
    \/ \E t \in Times : Tick(t)
    \/ Crash

Next ==
    \/ \E h \in Handlers : RegisterDeployment(h)
    \/ \E p \in pending : AnswerRegistered(p)
    \/ \E p \in pending : AcceptDeployment(p)
    \/ BatchStep

Spec == Init /\ [][Next]_vars
=============================================================================
