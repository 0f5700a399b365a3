--------------------------- MODULE Ledger_proofs ---------------------------
(***************************************************************************)
(* Proofs about the ledger, for every number of keys, nonces, handlers,    *)
(* periods, ledger entries and days.                                       *)
(***************************************************************************)
EXTENDS LedgerAudit, Sums_proofs, SequenceTheorems

(* A day number is a natural number.                                       *)
LEMMA DayType == \A t \in Nat : Day(t) \in Nat
BY DayAssumption DEF Day

(* A non-empty set of ledger indices has a largest element, and Max finds  *)
(* it: MAX(ledger_index) of the checkpoint queries is well defined.        *)
LEMMA MaxIndex ==
    ASSUME NEW n \in Nat, NEW S \in SUBSET (1..n), S # {}
    PROVE  Max(S) \in S /\ \A i \in S : i <= Max(S)
<1>1. \A i \in S : n - i \in Nat /\ i \in Int
  OBVIOUS
<1>2. {n - i : i \in S} \in SUBSET Nat
  BY <1>1
<1>3. {n - i : i \in S} # {}
  OBVIOUS
<1>4. PICK m \in {n - i : i \in S} : \A y \in {n - i : i \in S} : m <= y
  BY <1>2, <1>3, SmallestElement
<1>5. PICK k \in S : m = n - k
  BY <1>4
<1>6. \A i \in S : n - k <= n - i
  BY <1>4, <1>5
<1>7. \A i \in S : i <= k
  BY <1>1, <1>5, <1>6
<1>8. QED
  BY <1>5, <1>7 DEF Max

-----------------------------------------------------------------------------
(* Type correctness.                                                       *)

(* ledgerHeadBeforeTx returns a head within the ledger.                    *)
LEMMA CheckpointForFacts ==
    ASSUME TypeOK, NEW d \in Nat
    PROVE  /\ EntriesBefore((d + 1) * DayLength) \in SUBSET (1..Len(ledger))
           /\ ThroughIndex(EntriesBefore((d + 1) * DayLength)) \in 0..Len(ledger)
           /\ CheckpointFor(d) \in Checkpoints
           /\ CheckpointFor(d).date = d
<1> DEFINE S == EntriesBefore((d + 1) * DayLength)
<1>1. ledger \in Seq(Entries) /\ Len(ledger) \in Nat /\ DOMAIN ledger = 1..Len(ledger)
  BY LenProperties DEF TypeOK
<1>2. S \in SUBSET (1..Len(ledger))
  BY <1>1 DEF EntriesBefore
<1>3. ThroughIndex(S) \in 0..Len(ledger)
  <2> HIDE DEF S
  <2>1. CASE S = {}
    BY <1>1, <2>1 DEF ThroughIndex
  <2>2. CASE S # {}
    <3>1. Max(S) \in S
      BY <1>1, <1>2, <2>2, MaxIndex
    <3>2. ThroughIndex(S) = Max(S)
      BY <2>2, Zenon DEF ThroughIndex
    <3>3. ThroughIndex(S) \in 1..Len(ledger)
      BY <1>2, <3>1, <3>2, Zenon
    <3>4. QED
      BY <1>1, <3>3
  <2>3. QED
    BY <2>1, <2>2
<1>4. Cardinality(S) \in Nat
  <2> HIDE DEF S
  <2>1. IsFiniteSet(1..Len(ledger))
    BY <1>1, FS_Interval
  <2>2. IsFiniteSet(S)
    BY <1>2, <2>1, FS_Subset
  <2>3. QED
    BY <2>2, FS_CardinalityType
<1>5. HashThrough(ThroughIndex(S)) \in Seq(Entries)
  <2> HIDE DEF S
  <2>1. \A i \in 1..ThroughIndex(S) : ledger[i] \in Entries
    BY <1>1, <1>3, ElementOfSeq
  <2>2. QED
    BY <1>1, <1>3, <2>1 DEF HashThrough
<1>6. QED
  BY <1>2, <1>3, <1>4, <1>5 DEF CheckpointFor, Checkpoints

(* The rows a transaction writes are rows of their tables.                 *)
LEMMA WrittenRows ==
    ASSUME NEW r \in Requests, NEW n \in Nat
    PROVE  /\ Deployment(n) \in Results
           /\ Batch(n) \in Results
           /\ \A res \in Results :
                /\ [request |-> r, result |-> res] \in [request: Requests, result: Results]
                /\ Record(r, res) \in Answers
<1>1. Deployment(n) \in Results /\ Batch(n) \in Results
  BY DEF Deployment, Batch, Results
<1>2. /\ r.signer \in Signers
      /\ r.key \in IdempotencyKeys
      /\ r.payload \in RegistrationPayloads \cup BatchPayloads
  <2>1. CASE r \in RegistrationRequests
    BY <2>1 DEF RegistrationRequests, Signers
  <2>2. CASE r \in BatchRequests
    BY <2>2 DEF BatchRequests, Signers
  <2>3. QED
    BY <2>1, <2>2 DEF Requests
<1>3. QED
  BY <1>1, <1>2 DEF Answers, Record

(* The result type of a request tells which of the two kinds it is.        *)
LEMMA RequestKinds ==
    ASSUME NEW r \in Requests
    PROVE  /\ ResultType(r) = "deployment" <=> r \in RegistrationRequests
           /\ ResultType(r) = "batch" <=> r \in BatchRequests
           /\ ResultType(r) \in {"deployment", "batch"}
<1>1. ASSUME r \in RegistrationRequests PROVE r.payload.kind = "registration"
  BY <1>1 DEF RegistrationRequests, RegistrationPayloads
<1>2. ASSUME r \in BatchRequests PROVE r.payload.kind # "registration"
  <2>1. r.payload \in BatchPayloads
    BY <1>2 DEF BatchRequests
  <2>2. r.payload.kind \in Kinds
    BY <2>1 DEF BatchPayloads
  <2>3. QED
    BY <2>2, KindAssumption
<1>3. QED
  BY <1>1, <1>2 DEF Requests, ResultType

(* The next date to seal is a day number, and LatestCheckpoint exists when *)
(* it is read.                                                             *)
LEMMA NextDateType ==
    ASSUME TypeOK
    PROVE  /\ NextCheckpointDate \in Nat
           /\ Len(checkpoints) \in Nat
           /\ DOMAIN checkpoints = 1..Len(checkpoints)
           /\ \A i \in 1..Len(checkpoints) : checkpoints[i] \in Checkpoints
           /\ checkpoints # <<>> => /\ Len(checkpoints) \in 1..Len(checkpoints)
                                   /\ LatestCheckpoint \in Checkpoints
<1>1. checkpoints \in Seq(Checkpoints)
  BY DEF TypeOK
<1>2. /\ Len(checkpoints) \in Nat
      /\ DOMAIN checkpoints = 1..Len(checkpoints)
      /\ \A i \in 1..Len(checkpoints) : checkpoints[i] \in Checkpoints
  BY <1>1, LenProperties, ElementOfSeq
<1>3. checkpoints # <<>> => /\ Len(checkpoints) \in 1..Len(checkpoints)
                            /\ LatestCheckpoint \in Checkpoints
  BY <1>1, <1>2, EmptySeq DEF LatestCheckpoint
<1>4. Day(CreatedAt) \in Nat
  BY DayType, ClockAssumption
<1>5. NextCheckpointDate \in Nat
  BY <1>3, <1>4 DEF NextCheckpointDate, Checkpoints
<1>6. QED
  BY <1>2, <1>3, <1>5

(* What a finalization writes, row by row: the old rows, then one row for  *)
(* each of the next dates.                                                 *)
LEMMA FinalizedRows ==
    ASSUME TypeOK, NEW x \in finalizing, FinalizeCompletedCheckpoints(x)
    PROVE  \/ checkpoints' = checkpoints
           \/ \E missing \in Nat \ {0} :
                /\ missing = Day(x.now) - NextCheckpointDate
                /\ Len(checkpoints') = Len(checkpoints) + missing
                /\ DOMAIN checkpoints' = 1..(Len(checkpoints) + missing)
                /\ checkpoints' \in Seq(Checkpoints)
                /\ \A i \in 1..Len(checkpoints) : checkpoints'[i] = checkpoints[i]
                /\ \A i \in (Len(checkpoints) + 1)..(Len(checkpoints) + missing) :
                     /\ NextCheckpointDate + i - Len(checkpoints) - 1 \in Nat
                     /\ checkpoints'[i] =
                          CheckpointFor(NextCheckpointDate + i - Len(checkpoints) - 1)
<1> DEFINE missing == Day(x.now) - NextCheckpointDate
           L == Len(checkpoints)
           Row(i) == IF i <= L THEN checkpoints[i]
                     ELSE CheckpointFor(NextCheckpointDate + i - L - 1)
<1>1. NextCheckpointDate \in Nat /\ L \in Nat
  BY NextDateType
<1>2. Day(x.now) \in Nat
  <2>1. x.now \in Nat
    BY ClockAssumption DEF TypeOK, Times
  <2>2. QED
    BY <2>1, DayType
<1>3. CASE missing <= 0
  BY <1>3 DEF FinalizeCompletedCheckpoints
<1>4. CASE ~(missing <= 0)
  <2>1. missing \in Nat \ {0}
    BY <1>1, <1>2, <1>4
  <2>2. checkpoints' = [i \in 1..(L + missing) |-> Row(i)]
    BY <1>4 DEF FinalizeCompletedCheckpoints
  <2> HIDE DEF missing
  <2>3. \A i \in 1..L : Row(i) = checkpoints[i] /\ Row(i) \in Checkpoints
    BY <1>1, NextDateType
  <2>4. ASSUME NEW i \in (L + 1)..(L + missing)
        PROVE  /\ NextCheckpointDate + i - L - 1 \in Nat
               /\ Row(i) = CheckpointFor(NextCheckpointDate + i - L - 1)
               /\ Row(i) \in Checkpoints
    <3>1. NextCheckpointDate + i - L - 1 \in Nat /\ ~(i <= L)
      BY <1>1, <2>1
    <3>2. Row(i) = CheckpointFor(NextCheckpointDate + i - L - 1)
      BY <3>1
    <3>3. QED
      BY <3>1, <3>2, CheckpointForFacts
  <2> HIDE DEF L, Row
  <2>5. \A i \in 1..(L + missing) : i \in 1..L \/ i \in (L + 1)..(L + missing)
    BY <1>1, <2>1
  <2>6. \A i \in 1..(L + missing) : Row(i) \in Checkpoints
    BY <2>3, <2>4, <2>5
  <2>7. L + missing \in Nat
    BY <1>1, <2>1
  <2>8. checkpoints' \in Seq(Checkpoints) /\ Len(checkpoints') = L + missing
    BY <2>2, <2>6, <2>7
  <2>9. \A i \in 1..L : i \in 1..(L + missing) /\ checkpoints'[i] = checkpoints[i]
    BY <1>1, <2>1, <2>2, <2>3
  <2>10. \A i \in (L + 1)..(L + missing) :
            checkpoints'[i] = CheckpointFor(NextCheckpointDate + i - L - 1)
    BY <1>1, <2>1, <2>2, <2>4
  <2>11. missing = Day(x.now) - NextCheckpointDate /\ L = Len(checkpoints)
    BY DEF missing, L
  <2>12. DOMAIN checkpoints' = 1..(L + missing)
    BY <2>2
  <2>13. QED
    BY <2>1, <2>4, <2>8, <2>9, <2>10, <2>11, <2>12
<1>5. QED
  BY <1>3, <1>4

(* A pending request and the rows a transaction reads have their types.    *)
LEMMA PendingTypes ==
    ASSUME TypeOK, NEW p \in pending
    PROVE  /\ p.request \in Requests /\ p.at \in Times
           /\ \A i \in IdempotencyRows(p.request) : i \in idempotency /\ i.result \in Results
           /\ \A d \in DeploymentsOf(p.request.signer) :
                d \in DOMAIN deployments /\ d \in Nat
           /\ Len(deployments) + 1 \in Nat
           /\ Len(ledger) + 1 \in Nat
<1>1. p.request \in Requests /\ p.at \in Times
  BY DEF TypeOK
<1>2. \A i \in IdempotencyRows(p.request) : i \in idempotency /\ i.result \in Results
  BY DEF TypeOK, IdempotencyRows, Answers
<1>3. Len(deployments) \in Nat /\ DOMAIN deployments = 1..Len(deployments)
  BY LenProperties DEF TypeOK
<1>4. Len(ledger) \in Nat
  BY LenProperties DEF TypeOK
<1>5. QED
  BY <1>1, <1>2, <1>3, <1>4 DEF DeploymentsOf

(* A prepared request is well typed.                                       *)
LEMMA PrepareType ==
    ASSUME TypeOK, NEW h \in Handlers, NEW r \in Requests, Prepare(h, r)
    PROVE  TypeOK'
BY DEF TypeOK, Prepare, database

(* Every step keeps the types.                                             *)
LEMMA TypeStep == TypeOK /\ [Next]_vars => TypeOK'
<1> SUFFICES ASSUME TypeOK, [Next]_vars PROVE TypeOK'
  OBVIOUS
<1>1. ASSUME NEW h \in Handlers, RegisterDeployment(h) PROVE TypeOK'
  <2>1. PICK k \in Keys, s \in ValidStamps, n \in Nonces, i \in IdempotencyKeys,
             p \in RegistrationPayloads :
          Prepare(h, [signer |-> Fingerprint(k), stamp |-> s, nonce |-> n,
                      key |-> i, payload |-> p])
    BY <1>1 DEF RegisterDeployment
  <2>2. s \in Int
    BY ClockAssumption DEF ValidStamps, TypeOK, Times
  <2>3. [signer |-> Fingerprint(k), stamp |-> s, nonce |-> n,
         key |-> i, payload |-> p] \in Requests
    BY <2>2 DEF Requests, RegistrationRequests, Fingerprint
  <2>4. QED
    BY <2>1, <2>3, PrepareType
<1>2. ASSUME NEW h \in Handlers, SubmitBatch(h) PROVE TypeOK'
  <2>1. PICK d \in DOMAIN deployments, s \in ValidStamps, n \in Nonces,
             i \in IdempotencyKeys, p \in BatchPayloads :
          Prepare(h, [signer |-> DeploymentID(d), stamp |-> s, nonce |-> n,
                      key |-> i, payload |-> p])
    BY <1>2 DEF SubmitBatch
  <2>2. s \in Int
    BY ClockAssumption DEF ValidStamps, TypeOK, Times
  <2>3. d \in Nat
    BY LenProperties DEF TypeOK
  <2>4. [signer |-> DeploymentID(d), stamp |-> s, nonce |-> n,
         key |-> i, payload |-> p] \in Requests
    BY <2>2, <2>3 DEF Requests, BatchRequests, DeploymentID
  <2>5. QED
    BY <2>1, <2>4, PrepareType
<1>3. ASSUME NEW p \in pending, Refuse(p) \/ Abandon(p) PROVE TypeOK'
  BY <1>3 DEF TypeOK, Refuse, Abandon, database
<1>4. ASSUME NEW p \in pending, AnswerDuplicate(p) PROVE TypeOK'
  <2>1. PICK i \in IdempotencyRows(p.request) :
          /\ \/ InsertNonce(p.request, i.result)
             \/ UNCHANGED nonces
          /\ Answer(p.request, i.result)
    BY <1>4 DEF AnswerDuplicate
  <2>2. p.request \in Requests /\ i.result \in Results
    BY PendingTypes
  <2>3. /\ nonces' \subseteq [request: Requests, result: Results]
        /\ answers' \subseteq Answers
    BY <2>1, <2>2, WrittenRows DEF TypeOK, InsertNonce, Answer
  <2>4. QED
    BY <1>4, <2>3 DEF TypeOK, AnswerDuplicate
<1>5. ASSUME NEW p \in pending, AnswerRegistered(p) PROVE TypeOK'
  <2>1. PICK d \in DeploymentsOf(p.request.signer) :
          /\ InsertNonce(p.request, Deployment(d))
          /\ InsertIdempotency(p.request, Deployment(d))
          /\ Answer(p.request, Deployment(d))
    BY <1>5 DEF AnswerRegistered
  <2>2. p.request \in Requests /\ d \in Nat
    BY PendingTypes
  <2>3. /\ nonces' \subseteq [request: Requests, result: Results]
        /\ idempotency' \subseteq Answers
        /\ answers' \subseteq Answers
    BY <2>1, <2>2, WrittenRows DEF TypeOK, InsertNonce, InsertIdempotency, Answer
  <2>4. QED
    BY <1>5, <2>3 DEF TypeOK, AnswerRegistered
<1>6. ASSUME NEW p \in pending, AcceptDeployment(p) PROVE TypeOK'
  <2>1. p.request \in Requests /\ p.at \in Times /\ Len(deployments) + 1 \in Nat
    BY PendingTypes
  <2>2. p.request \in RegistrationRequests
    BY <1>6, <2>1, RequestKinds DEF AcceptDeployment
  <2>3. /\ nonces' \subseteq [request: Requests, result: Results]
        /\ idempotency' \subseteq Answers
        /\ answers' \subseteq Answers
    BY <1>6, <2>1, WrittenRows
    DEF TypeOK, AcceptDeployment, InsertNonce, InsertIdempotency, Answer
  <2>4. deployments' \in Seq([request: RegistrationRequests, at: Times])
    BY <1>6, <2>1, <2>2, AppendProperties DEF TypeOK, AcceptDeployment
  <2>5. QED
    BY <1>6, <2>3, <2>4 DEF TypeOK, AcceptDeployment
<1>7. ASSUME NEW p \in pending, AcceptBatch(p) PROVE TypeOK'
  <2>1. p.request \in Requests /\ p.at \in Times /\ Len(ledger) + 1 \in Nat
    BY PendingTypes
  <2>2. p.request \in BatchRequests
    BY <1>7, <2>1, RequestKinds DEF AcceptBatch
  <2>3. /\ nonces' \subseteq [request: Requests, result: Results]
        /\ idempotency' \subseteq Answers
        /\ answers' \subseteq Answers
    BY <1>7, <2>1, WrittenRows
    DEF TypeOK, AcceptBatch, InsertNonce, InsertIdempotency, Answer
  <2>4. ledger' \in Seq(Entries)
    BY <1>7, <2>1, <2>2, AppendProperties DEF TypeOK, AcceptBatch, Entries
  <2>5. QED
    BY <1>7, <2>3, <2>4 DEF TypeOK, AcceptBatch
<1>8. ASSUME NEW f \in Finalizers, StartFinalize(f) PROVE TypeOK'
  BY <1>8 DEF TypeOK, StartFinalize, database
<1>9. ASSUME NEW x \in finalizing, FinalizeCompletedCheckpoints(x) PROVE TypeOK'
  <2>1. checkpoints' \in Seq(Checkpoints)
    BY <1>9, FinalizedRows DEF TypeOK
  <2>2. QED
    BY <1>9, <2>1 DEF TypeOK, FinalizeCompletedCheckpoints
<1>10. ASSUME NEW t \in Times, Tick(t) PROVE TypeOK'
  BY <1>10 DEF TypeOK, Tick, database
<1>11. CASE Crash
  BY <1>11 DEF TypeOK, Crash, database
<1>12. CASE UNCHANGED vars
  BY <1>12 DEF TypeOK, vars
<1>13. QED
  BY <1>1, <1>2, <1>3, <1>4, <1>5, <1>6, <1>7, <1>8, <1>9, <1>10, <1>11, <1>12 DEF Next, BatchStep

(* Type correctness: whatever the handlers, the finalizers, the clock and  *)
(* crashes do, the tables and the requests in flight keep their shape.     *)
THEOREM TypeCorrect == Spec => []TypeOK
<1>1. Init => TypeOK
  BY ClockAssumption DEF Init, TypeOK, Times
<1>2. QED
  BY <1>1, TypeStep, PTL DEF Spec

-----------------------------------------------------------------------------
(* The early returns of the store transactions.                            *)

(* A key that was not seen before has neither a nonce nor an idempotency   *)
(* row; a duplicate has a row of the same payload.                         *)
LEMMA ReplayFacts ==
    ASSUME NEW r
    PROVE  /\ ReplayState(r) = "fresh" => IdempotencyRows(r) = {} /\ NonceRows(r) = {}
           /\ ReplayState(r) = "duplicate" =>
                \A i \in IdempotencyRows(r) : i.payload = r.payload
           /\ ReplayState(r) # "accepted"
           /\ ReplayState(r) # "registered"
<1> DEFINE A == \E n \in NonceRows(r) : n.request # r
           B == \E i \in IdempotencyRows(r) : i.payload # r.payload
           C == \E i \in IdempotencyRows(r) : i.result.type # ResultType(r)
           D == \E i \in IdempotencyRows(r) : ~RecordExists(i.result, r)
           E == IdempotencyRows(r) # {}
           F == NonceRows(r) # {}
<1>1. ReplayState(r) = IF A THEN "replay_conflict"
                       ELSE IF B THEN "idempotency_conflict"
                       ELSE IF C THEN "inconsistent"
                       ELSE IF D THEN "inconsistent"
                       ELSE IF E THEN "duplicate"
                       ELSE IF F THEN "inconsistent"
                       ELSE "fresh"
  BY Zenon DEF ReplayState
<1>2. ~B => \A i \in IdempotencyRows(r) : i.payload = r.payload
  OBVIOUS
<1>3. ~E => IdempotencyRows(r) = {}
  OBVIOUS
<1>4. ~F => NonceRows(r) = {}
  OBVIOUS
<1> HIDE DEF A, B, C, D, E, F
<1>5. QED
  BY <1>1, <1>2, <1>3, <1>4

(* What each committing outcome has established about the database.        *)
LEMMA OutcomeFacts ==
    ASSUME NEW p
    PROVE  /\ Outcome(p) = "duplicate" =>
                \A i \in IdempotencyRows(p.request) : i.payload = p.request.payload
           /\ Outcome(p) = "registered" =>
                /\ ResultType(p.request) = "deployment"
                /\ IdempotencyRows(p.request) = {}
                /\ NonceRows(p.request) = {}
           /\ Outcome(p) = "accepted" =>
                /\ IdempotencyRows(p.request) = {}
                /\ NonceRows(p.request) = {}
                /\ ResultType(p.request) = "deployment" =>
                        DeploymentsOf(p.request.signer) = {}
                /\ ResultType(p.request) # "deployment" =>
                        /\ EnsureAcceptedAtAfterRegistryCreation(p.at)
                        /\ EnsureAcceptedAtAfterCheckpoint(p.at)
                        /\ EnsureLinearRevision(p.request)
                        /\ RevenueCapacity(p.request) = "ok"
                        /\ EnsureAcceptedAtNotBeforeHead(p.at)
<1> DEFINE r == p.request
<1>1. /\ ReplayState(r) = "fresh" => IdempotencyRows(r) = {} /\ NonceRows(r) = {}
      /\ ReplayState(r) = "duplicate" =>
            \A i \in IdempotencyRows(r) : i.payload = r.payload
      /\ ReplayState(r) # "accepted"
      /\ ReplayState(r) # "registered"
  BY ReplayFacts
<1>2. RevenueCapacity(r) \in {"ok", "inconsistent", "revenue_aggregate_overflow"}
  BY Zenon DEF RevenueCapacity
<1>3. CASE ResultType(r) = "deployment"
  <2>1. Outcome(p) = RegistrationOutcome(p)
    BY <1>3 DEF Outcome
  <2>2. QED
    BY <1>1, <1>3, <2>1 DEF RegistrationOutcome
<1>4. CASE ResultType(r) # "deployment"
  <2>1. Outcome(p) = BatchOutcome(p)
    BY <1>4 DEF Outcome
  <2>2. QED
    BY <1>1, <1>2, <1>4, <2>1 DEF BatchOutcome
<1>5. QED
  BY <1>3, <1>4

(* A row appended to a table leaves the other rows where they are.         *)
LEMMA Appended ==
    ASSUME NEW S, NEW s \in Seq(S), NEW e \in S, NEW t, t = Append(s, e)
    PROVE  /\ Len(s) \in Nat /\ Len(t) = Len(s) + 1
           /\ DOMAIN s = 1..Len(s) /\ DOMAIN t = 1..(Len(s) + 1)
           /\ \A i \in DOMAIN s : i \in DOMAIN t /\ t[i] = s[i] /\ i < Len(s) + 1
           /\ \A i \in DOMAIN t : i \in DOMAIN s \/ i = Len(s) + 1
           /\ Len(s) + 1 \in DOMAIN t /\ t[Len(s) + 1] = e
           /\ Len(s) + 1 \notin DOMAIN s
<1>1. Len(s) \in Nat /\ DOMAIN s = 1..Len(s)
  BY LenProperties
<1>2. /\ Len(t) = Len(s) + 1
      /\ \A i \in 1..Len(s) : t[i] = s[i]
      /\ t[Len(s) + 1] = e
      /\ t \in Seq(S)
  BY AppendProperties
<1>3. DOMAIN t = 1..(Len(s) + 1)
  BY <1>2, LenProperties
<1>4. QED
  BY <1>1, <1>2, <1>3

-----------------------------------------------------------------------------
(* Idempotency and replay.                                                 *)

(* One idempotency record per signer and key: the primary key of           *)
(* idempotency_records, kept by the readIdempotency check of each handler. *)
KeyOnce ==
    \A i, j \in idempotency : i.signer = j.signer /\ i.key = j.key => i = j

OneDeploymentPerKey ==
    \A i, j \in DOMAIN deployments :
        deployments[i].request.signer = deployments[j].request.signer => i = j

(* The inductive invariant of the records: every answer that was given is  *)
(* an idempotency record, records are unique per key, and records, nonces  *)
(* and the rows they point to match.                                       *)
RecordsInv ==
    /\ TypeOK
    /\ KeyOnce
    /\ answers \subseteq idempotency
    /\ OneDeploymentPerKey
    /\ VerifyIdempotencyRecords
    /\ VerifyNonceRecords

(* A row is still valid after rows were appended to the other tables.      *)
LEMMA ResultStaysValid ==
    ASSUME NEW i,
           IdempotencyResultValid(i),
           \A d \in DOMAIN deployments :
                d \in DOMAIN deployments' /\ deployments'[d] = deployments[d],
           \A b \in DOMAIN ledger : b \in DOMAIN ledger' /\ ledger'[b] = ledger[b]
    PROVE  IdempotencyResultValid(i)'
BY DEF IdempotencyResultValid

(* What the two tables keep, and which row a transaction may add.          *)
RowsWritten(r, res) ==
    /\ \A d \in DOMAIN deployments :
         d \in DOMAIN deployments' /\ deployments'[d] = deployments[d]
    /\ \A b \in DOMAIN ledger : b \in DOMAIN ledger' /\ ledger'[b] = ledger[b]
    /\ \A d \in DOMAIN deployments' :
         \/ d \in DOMAIN deployments
         \/ res = Deployment(d) /\ deployments'[d].request = r
    /\ \A b \in DOMAIN ledger' :
         \/ b \in DOMAIN ledger
         \/ res = Batch(b) /\ ledger'[b].request = r

(* A transaction that adds one record with its nonce and its answer, and   *)
(* at most one row to deployments or to the ledger, keeps the records      *)
(* consistent when the key is new and the record is valid.                 *)
LEMMA RecordAdded ==
    ASSUME RecordsInv, TypeOK', NEW r \in Requests, NEW res \in Results,
           IdempotencyRows(r) = {},
           InsertNonce(r, res), InsertIdempotency(r, res), Answer(r, res),
           RowsWritten(r, res),
           OneDeploymentPerKey',
           IdempotencyResultValid(Record(r, res))'
    PROVE  RecordsInv'
<1> DEFINE row == Record(r, res)
<1> USE DEF RowsWritten
<1>1. idempotency' = idempotency \cup {row} /\ answers' = answers \cup {row}
  BY DEF InsertIdempotency, Answer, row
<1>2. nonces' = nonces \cup {[request |-> r, result |-> res]}
  BY DEF InsertNonce
<1>3. row.signer = r.signer /\ row.key = r.key /\ row.payload = r.payload /\ row.result = res
  BY DEF Record
<1> HIDE DEF row
<1>4. \A i \in idempotency : ~(i.signer = r.signer /\ i.key = r.key)
  BY DEF IdempotencyRows
<1>5. KeyOnce'
  BY <1>1, <1>3, <1>4 DEF KeyOnce, RecordsInv
<1>6. answers' \subseteq idempotency'
  BY <1>1 DEF RecordsInv
<1>7. VerifyIdempotencyRecords'
  <2>1. \A i \in idempotency' : IdempotencyResultValid(i)'
    <3>1. ASSUME NEW i \in idempotency PROVE IdempotencyResultValid(i)'
      <4>1. IdempotencyResultValid(i)
        BY DEF RecordsInv, VerifyIdempotencyRecords
      <4>2. QED
        BY <4>1, ResultStaysValid
    <3>2. QED
      BY <1>1, <3>1 DEF row
  <2>2. ASSUME NEW d \in DOMAIN deployments'
        PROVE  \E i \in idempotency' :
                  i.result = Deployment(d) /\ i.key = deployments'[d].request.key
    <3>1. CASE d \in DOMAIN deployments
      BY <1>1, <3>1 DEF RecordsInv, VerifyIdempotencyRecords
    <3>2. CASE res = Deployment(d) /\ deployments'[d].request = r
      BY <1>1, <1>3, <3>2
    <3>3. QED
      BY <3>1, <3>2
  <2>3. ASSUME NEW b \in DOMAIN ledger' PROVE \E i \in idempotency' : i.result = Batch(b)
    <3>1. CASE b \in DOMAIN ledger
      BY <1>1, <3>1 DEF RecordsInv, VerifyIdempotencyRecords
    <3>2. CASE res = Batch(b)
      BY <1>1, <1>3, <3>2
    <3>3. QED
      BY <3>1, <3>2
  <2>4. QED
    BY <2>1, <2>2, <2>3 DEF VerifyIdempotencyRecords, Deployment, Batch
<1>8. VerifyNonceRecords'
  <2> DEFINE new == [request |-> r, result |-> res]
  <2>1. \A n \in nonces' : NonceLinked(n)'
    <3>1. \A n \in nonces : NonceLinked(n)'
      BY <1>1 DEF RecordsInv, VerifyNonceRecords, NonceLinked
    <3>2. NonceLinked(new)'
      BY <1>1, <1>3 DEF NonceLinked
    <3>3. QED
      BY <1>2, <3>1, <3>2
  <2>2. new \in nonces' /\ new.request = r /\ \A n \in nonces : n \in nonces'
    BY <1>2
  <2> HIDE DEF new
  <2>3. ASSUME NEW i \in idempotency'
        PROVE  \E n \in nonces' : n.request.signer = i.signer /\ n.request.key = i.key
    <3>1. CASE i = row
      BY <1>3, <2>2, <3>1
    <3>2. CASE i \in idempotency
      BY <2>2, <3>2, Zenon DEF RecordsInv, VerifyNonceRecords
    <3>3. QED
      BY <1>1, <3>1, <3>2
  <2>4. ASSUME NEW d \in DOMAIN deployments'
        PROVE  \E n \in nonces' : n.request = deployments'[d].request
    <3>1. CASE d \in DOMAIN deployments
      <4>1. PICK n \in nonces : n.request = deployments[d].request
        BY <3>1, Zenon DEF RecordsInv, VerifyNonceRecords
      <4>2. QED
        BY <2>2, <3>1, <4>1
    <3>2. CASE deployments'[d].request = r
      BY <2>2, <3>2, Zenon
    <3>3. QED
      BY <3>1, <3>2
  <2>5. ASSUME NEW b \in DOMAIN ledger'
        PROVE  \E n \in nonces' : n.request = ledger'[b].request
    <3>1. CASE b \in DOMAIN ledger
      <4>1. PICK n \in nonces : n.request = ledger[b].request
        BY <3>1, Zenon DEF RecordsInv, VerifyNonceRecords
      <4>2. QED
        BY <2>2, <3>1, <4>1
    <3>2. CASE ledger'[b].request = r
      BY <2>2, <3>2, Zenon
    <3>3. QED
      BY <3>1, <3>2
  <2>6. QED
    BY <2>1, <2>3, <2>4, <2>5 DEF VerifyNonceRecords
<1>9. QED
  BY <1>5, <1>6, <1>7, <1>8 DEF RecordsInv

(* Every step keeps the records consistent.                                *)
LEMMA RecordsStep == RecordsInv /\ [Next]_vars => RecordsInv'
<1> SUFFICES ASSUME RecordsInv, [Next]_vars PROVE RecordsInv'
  OBVIOUS
<1>1. TypeOK /\ TypeOK'
  BY TypeStep DEF RecordsInv
<1>2. ASSUME UNCHANGED <<deployments, nonces, idempotency, ledger, answers>>
      PROVE  RecordsInv'
  BY <1>1, <1>2
  DEF RecordsInv, KeyOnce, OneDeploymentPerKey, VerifyIdempotencyRecords,
      IdempotencyResultValid, VerifyNonceRecords, NonceLinked
<1>3. ASSUME NEW p \in pending, AnswerDuplicate(p) PROVE RecordsInv'
  <2>1. PICK i \in IdempotencyRows(p.request) :
          /\ \/ InsertNonce(p.request, i.result)
             \/ UNCHANGED nonces
          /\ Answer(p.request, i.result)
    BY <1>3 DEF AnswerDuplicate
  <2>2. /\ i \in idempotency
        /\ i.signer = p.request.signer /\ i.key = p.request.key
        /\ i.payload = p.request.payload
    BY <1>3, <2>1, OutcomeFacts DEF IdempotencyRows, AnswerDuplicate
  <2>3. i = Record(p.request, i.result)
    BY <1>1, <2>2 DEF TypeOK, Answers, Record
  <2>4. answers' \subseteq idempotency'
    BY <1>3, <2>1, <2>2, <2>3 DEF RecordsInv, Answer, AnswerDuplicate
  <2>5. UNCHANGED <<deployments, idempotency, ledger>>
    BY <1>3 DEF AnswerDuplicate
  <2>6. (KeyOnce /\ OneDeploymentPerKey /\ VerifyIdempotencyRecords)'
    BY <2>5 DEF RecordsInv, KeyOnce, OneDeploymentPerKey, VerifyIdempotencyRecords,
                IdempotencyResultValid
  <2>7. \A n \in nonces : n \in nonces'
    BY <2>1 DEF InsertNonce
  <2>8. \A n \in nonces' : n \in nonces \/ n = [request |-> p.request, result |-> i.result]
    BY <2>1 DEF InsertNonce
  <2>9. \A n \in nonces' : NonceLinked(n)'
    <3>1. \A n \in nonces : NonceLinked(n)'
      BY <2>5 DEF RecordsInv, VerifyNonceRecords, NonceLinked
    <3>2. NonceLinked([request |-> p.request, result |-> i.result])'
      BY <2>2, <2>5 DEF NonceLinked
    <3>3. QED
      BY <2>8, <3>1, <3>2
  <2>10. VerifyNonceRecords'
    BY <2>5, <2>7, <2>9, Zenon DEF RecordsInv, VerifyNonceRecords
  <2>11. QED
    BY <1>1, <2>4, <2>6, <2>10 DEF RecordsInv
<1>4. ASSUME NEW p \in pending, AnswerRegistered(p) PROVE RecordsInv'
  <2>1. PICK d \in DeploymentsOf(p.request.signer) :
          /\ InsertNonce(p.request, Deployment(d))
          /\ InsertIdempotency(p.request, Deployment(d))
          /\ Answer(p.request, Deployment(d))
    BY <1>4 DEF AnswerRegistered
  <2>2. IdempotencyRows(p.request) = {}
    BY <1>4, OutcomeFacts DEF AnswerRegistered
  <2>3. /\ p.request \in Requests /\ d \in Nat /\ d \in DOMAIN deployments
        /\ deployments[d].request.signer = p.request.signer
    BY <1>1, PendingTypes DEF DeploymentsOf
  <2>4. Deployment(d) \in Results
    BY <2>3, WrittenRows
  <2>5. UNCHANGED <<deployments, ledger>>
    BY <1>4 DEF AnswerRegistered
  <2>6. deployments[d].request.key # p.request.key
    <3>1. PICK i \in idempotency :
            i.result = Deployment(d) /\ i.key = deployments[d].request.key
      BY <2>3 DEF RecordsInv, VerifyIdempotencyRecords
    <3>2. i.signer = p.request.signer
      BY <2>3, <3>1 DEF RecordsInv, VerifyIdempotencyRecords, IdempotencyResultValid, Deployment
    <3>3. QED
      BY <2>2, <3>1, <3>2 DEF IdempotencyRows
  <2>7. IdempotencyResultValid(Record(p.request, Deployment(d)))'
    BY <2>3, <2>5, <2>6 DEF IdempotencyResultValid, Record, Deployment
  <2>8. OneDeploymentPerKey'
    BY <2>5 DEF RecordsInv, OneDeploymentPerKey
  <2>9. /\ \A e \in DOMAIN deployments :
              e \in DOMAIN deployments' /\ deployments'[e] = deployments[e]
        /\ \A b \in DOMAIN ledger : b \in DOMAIN ledger' /\ ledger'[b] = ledger[b]
        /\ \A e \in DOMAIN deployments' : e \in DOMAIN deployments
        /\ \A b \in DOMAIN ledger' : b \in DOMAIN ledger
    BY <2>5
  <2>10. RowsWritten(p.request, Deployment(d))
    BY <2>9 DEF RowsWritten
  <2>11. QED
    BY <1>1, <2>1, <2>2, <2>3, <2>4, <2>7, <2>8, <2>10, RecordAdded
<1>5. ASSUME NEW p \in pending, AcceptDeployment(p) PROVE RecordsInv'
  <2>0. PICK n : n = Len(deployments) + 1
    OBVIOUS
  <2> DEFINE new == [request |-> p.request, at |-> p.at]
  <2>1. /\ p.request \in Requests /\ p.at \in Times /\ n \in Nat
    BY <1>1, <2>0, PendingTypes
  <2>2. IdempotencyRows(p.request) = {} /\ DeploymentsOf(p.request.signer) = {}
    BY <1>5, OutcomeFacts DEF AcceptDeployment
  <2>3. Deployment(n) \in Results
    BY <2>1, WrittenRows
  <2>4. new \in [request: RegistrationRequests, at: Times]
    BY <1>5, <2>1, RequestKinds DEF AcceptDeployment
  <2>5. deployments' = Append(deployments, new) /\ UNCHANGED ledger
    BY <1>5 DEF AcceptDeployment
  <2>6. /\ \A e \in DOMAIN deployments :
              e \in DOMAIN deployments' /\ deployments'[e] = deployments[e]
        /\ \A e \in DOMAIN deployments' : e \in DOMAIN deployments \/ e = n
        /\ n \in DOMAIN deployments' /\ deployments'[n] = new
    BY <1>1, <2>4, <2>5, <2>0, Appended DEF TypeOK
  <2>7. /\ \A b \in DOMAIN ledger : b \in DOMAIN ledger' /\ ledger'[b] = ledger[b]
        /\ \A b \in DOMAIN ledger' : b \in DOMAIN ledger
    BY <2>5
  <2>8. InsertNonce(p.request, Deployment(n)) /\ InsertIdempotency(p.request, Deployment(n))
            /\ Answer(p.request, Deployment(n))
    BY <1>5, <2>0 DEF AcceptDeployment
  <2>9. new.request = p.request
    OBVIOUS
  <2> HIDE DEF new
  <2>10. IdempotencyResultValid(Record(p.request, Deployment(n)))'
    BY <2>6, <2>9 DEF IdempotencyResultValid, Deployment, Record
  <2>11. OneDeploymentPerKey'
    <3>1. \A e \in DOMAIN deployments : deployments[e].request.signer # p.request.signer
      BY <2>2 DEF DeploymentsOf
    <3>2. QED
      BY <2>6, <2>9, <3>1 DEF RecordsInv, OneDeploymentPerKey
  <2>12. RowsWritten(p.request, Deployment(n))
    BY <2>6, <2>7, <2>9 DEF RowsWritten
  <2>13. QED
    BY <1>1, <2>1, <2>2, <2>3, <2>8, <2>10, <2>11, <2>12, RecordAdded
<1>6. ASSUME NEW p \in pending, AcceptBatch(p) PROVE RecordsInv'
  <2>0. PICK n : n = Len(ledger) + 1
    OBVIOUS
  <2> DEFINE new == [request |-> p.request, at |-> p.at]
  <2>1. /\ p.request \in Requests /\ p.at \in Times /\ n \in Nat
    BY <1>1, <2>0, PendingTypes
  <2>2. IdempotencyRows(p.request) = {}
    BY <1>6, OutcomeFacts DEF AcceptBatch
  <2>3. Batch(n) \in Results
    BY <2>1, WrittenRows
  <2>4. new \in Entries
    BY <1>6, <2>1, RequestKinds DEF AcceptBatch, Entries
  <2>5. ledger' = Append(ledger, new) /\ UNCHANGED deployments
    BY <1>6 DEF AcceptBatch
  <2>6. /\ \A b \in DOMAIN ledger : b \in DOMAIN ledger' /\ ledger'[b] = ledger[b]
        /\ \A b \in DOMAIN ledger' : b \in DOMAIN ledger \/ b = n
        /\ n \in DOMAIN ledger' /\ ledger'[n] = new
    BY <1>1, <2>4, <2>5, <2>0, Appended DEF TypeOK
  <2>7. /\ \A e \in DOMAIN deployments :
              e \in DOMAIN deployments' /\ deployments'[e] = deployments[e]
        /\ \A e \in DOMAIN deployments' : e \in DOMAIN deployments
    BY <2>5
  <2>8. InsertNonce(p.request, Batch(n)) /\ InsertIdempotency(p.request, Batch(n))
            /\ Answer(p.request, Batch(n))
    BY <1>6, <2>0 DEF AcceptBatch
  <2>9. new.request = p.request
    OBVIOUS
  <2> HIDE DEF new
  <2>10. IdempotencyResultValid(Record(p.request, Batch(n)))'
    BY <2>6, <2>9 DEF IdempotencyResultValid, Batch, Record
  <2>11. OneDeploymentPerKey'
    BY <2>5 DEF RecordsInv, OneDeploymentPerKey
  <2>12. RowsWritten(p.request, Batch(n))
    BY <2>6, <2>7, <2>9 DEF RowsWritten
  <2>13. QED
    BY <1>1, <2>1, <2>2, <2>3, <2>8, <2>10, <2>11, <2>12, RecordAdded
<1>7. QED
  <2>1. CASE UNCHANGED vars
    BY <1>2, <2>1 DEF vars
  <2>2. CASE Next
    BY <1>2, <1>3, <1>4, <1>5, <1>6, <2>2
    DEF Next, BatchStep, RegisterDeployment, SubmitBatch, Prepare, Refuse, Abandon, StartFinalize,
        FinalizeCompletedCheckpoints, Tick, Crash, database
  <2>3. QED
    BY <2>1, <2>2

(* The records invariant holds of the empty ledger.                        *)
LEMMA RecordsInit == Init => RecordsInv
<1> SUFFICES ASSUME Init PROVE RecordsInv
  OBVIOUS
<1>1. TypeOK
  BY ClockAssumption DEF Init, TypeOK, Times
<1>2. DOMAIN deployments = {} /\ DOMAIN ledger = {}
  BY DEF Init
<1>3. QED
  BY <1>1, <1>2 DEF Init, RecordsInv, KeyOnce, OneDeploymentPerKey,
                    VerifyIdempotencyRecords, VerifyNonceRecords

(* Exactly once: no interleaving of handlers, retries with fresh or reused *)
(* nonces, aborted transactions and crashes makes one idempotency key own  *)
(* two records, or registers one signing key twice.                        *)
THEOREM ExactlyOnceHolds == Spec => []ExactlyOnce
<1>1. RecordsInv => ExactlyOnce
  <2> SUFFICES ASSUME RecordsInv PROVE ExactlyOnce
    OBVIOUS
  <2>1. \A a, b \in answers : a.signer = b.signer /\ a.key = b.key => a = b
    BY DEF RecordsInv, KeyOnce
  <2>2. ASSUME NEW i \in DOMAIN ledger, NEW j \in DOMAIN ledger,
               ledger[i].request.signer = ledger[j].request.signer,
               ledger[i].request.key = ledger[j].request.key
        PROVE  i = j
    <3>1. PICK a \in idempotency : a.result = Batch(i)
      BY DEF RecordsInv, VerifyIdempotencyRecords
    <3>2. PICK b \in idempotency : b.result = Batch(j)
      BY DEF RecordsInv, VerifyIdempotencyRecords
    <3>3. a.signer = ledger[i].request.signer /\ a.key = ledger[i].request.key
      BY <3>1 DEF RecordsInv, VerifyIdempotencyRecords, IdempotencyResultValid, Batch
    <3>4. b.signer = ledger[j].request.signer /\ b.key = ledger[j].request.key
      BY <3>2 DEF RecordsInv, VerifyIdempotencyRecords, IdempotencyResultValid, Batch
    <3>5. a = b
      BY <2>2, <3>3, <3>4 DEF RecordsInv, KeyOnce
    <3>6. QED
      BY <3>1, <3>2, <3>5 DEF Batch
  <2>3. OneDeploymentPerKey
    BY DEF RecordsInv
  <2>4. QED
    BY <2>1, <2>2, <2>3 DEF ExactlyOnce, OneDeploymentPerKey
<1>2. QED
  BY <1>1, RecordsInit, RecordsStep, PTL DEF Spec

-----------------------------------------------------------------------------
(* The ledger: order, owners and corrections.                              *)

(* A batch in flight is signed by a registered deployment.                 *)
PendingOwners ==
    \A p \in pending : p.request \in BatchRequests =>
        \E d \in DOMAIN deployments : p.request.signer = DeploymentID(d)

(* The inductive invariant of the ledger entries.                          *)
LedgerInv ==
    /\ TypeOK
    /\ PendingOwners
    /\ VerifyBatchOwners
    /\ VerifyLedger
    /\ VerifyRevisions
    /\ CorrectionsOrdered

(* The payloads of batches carry integer revisions.                        *)
LEMMA RevisionType ==
    ASSUME NEW q \in BatchPayloads
    PROVE  q.revision \in Int /\ q.supersedes \in Int
<1>1. CASE q \in InstallationPayloads
  BY <1>1 DEF InstallationPayloads
<1>2. \A x \in RevisionPairs : x[1] \in Int /\ x[2] \in Int
  BY BoundAssumption DEF RevisionPairs
<1>3. CASE q \in QualifiedMAUPayloads
  BY <1>2, <1>3 DEF QualifiedMAUPayloads
<1>4. CASE q \in RevenuePayloads
  BY <1>2, <1>4 DEF RevenuePayloads
<1>5. QED
  BY <1>1, <1>3, <1>4 DEF BatchPayloads

(* The revision and the superseded index of every entry are integers.      *)
LEMMA EntryTypes ==
    ASSUME TypeOK
    PROVE  /\ Len(ledger) \in Nat /\ DOMAIN ledger = 1..Len(ledger)
           /\ \A i \in DOMAIN ledger :
                /\ ledger[i] \in Entries /\ i \in Nat
                /\ ledger[i].at \in Times
                /\ ledger[i].request \in BatchRequests
                /\ Revision(i) \in Int /\ Supersedes(i) \in Int
<1>1. Len(ledger) \in Nat /\ DOMAIN ledger = 1..Len(ledger)
  BY LenProperties DEF TypeOK
<1>2. \A i \in DOMAIN ledger : ledger[i] \in Entries /\ i \in Nat
  BY <1>1, ElementOfSeq DEF TypeOK
<1>3. \A i \in DOMAIN ledger : ledger[i].request.payload \in BatchPayloads
  BY <1>2 DEF Entries, BatchRequests
<1>4. QED
  BY <1>1, <1>2, <1>3, RevisionType DEF Entries, Revision, Supersedes

(* The chain of an accepted batch after the append: the rows it had, and   *)
(* the new row if it is of this chain.                                     *)
LEMMA ChainAfterAppend ==
    ASSUME TypeOK, NEW e \in Entries, ledger' = Append(ledger, e),
           NEW s, NEW k, NEW d
    PROVE  \A i : i \in Chain(s, k, d)' <=>
                \/ i \in Chain(s, k, d)
                \/ /\ i = Len(ledger) + 1
                   /\ e.request.signer = s
                   /\ e.request.payload.kind = k
                   /\ e.request.payload.period = d
<1>1. /\ \A i \in DOMAIN ledger : i \in DOMAIN ledger' /\ ledger'[i] = ledger[i]
      /\ \A i \in DOMAIN ledger' : i \in DOMAIN ledger \/ i = Len(ledger) + 1
      /\ Len(ledger) + 1 \in DOMAIN ledger' /\ ledger'[Len(ledger) + 1] = e
      /\ Len(ledger) + 1 \notin DOMAIN ledger
  BY Appended DEF TypeOK
<1>2. QED
  BY <1>1 DEF Chain

(* EnsureLinearRevision puts the new row at the end of its chain.          *)
LEMMA LinearRevisionFacts ==
    ASSUME LedgerInv, NEW r \in BatchRequests, EnsureLinearRevision(r),
           r.payload.kind # "installation-test",
           NEW C, C = Chain(r.signer, r.payload.kind, r.payload.period)
    PROVE  /\ \A j \in C : Revision(j) < r.payload.revision /\ r.payload.supersedes >= j
           /\ \/ r.payload.revision = 1 /\ r.payload.supersedes = 0
              \/ /\ r.payload.supersedes \in C
                 /\ Revision(r.payload.supersedes) = r.payload.revision - 1
<1>1. \A j \in C : j \in DOMAIN ledger /\ Corrects(j) /\ ChainOf(j) = C
  BY DEF Chain, ChainOf, Corrects
<1>2. \A j \in C : j \in Nat /\ Revision(j) \in Int
  BY <1>1, EntryTypes DEF LedgerInv
<1>3. CASE C = {} /\ r.payload.revision = 1 /\ r.payload.supersedes = 0
  BY <1>3
<1>4. CASE \E i \in C : /\ IsLatest(i, C)
                         /\ r.payload.revision = Revision(i) + 1
                         /\ r.payload.supersedes = i
  <2>1. PICK i \in C : /\ \A j \in C : Revision(j) <= Revision(i)
                       /\ r.payload.revision = Revision(i) + 1
                       /\ r.payload.supersedes = i
    BY <1>4 DEF IsLatest
  <2>2. ASSUME NEW j \in C PROVE i >= j
    <3>1. i < j => Revision(i) < Revision(j)
      BY <1>1 DEF LedgerInv, CorrectionsOrdered
    <3>2. QED
      BY <1>2, <2>1, <3>1
  <2>3. QED
    BY <1>2, <2>1, <2>2
<1>5. QED
  BY <1>3, <1>4 DEF EnsureLinearRevision

(* Appending an accepted batch keeps the ledger in order, its owners       *)
(* registered and its chains linear.                                       *)
LEMMA BatchAppended ==
    ASSUME LedgerInv, NEW r \in BatchRequests, NEW at \in Times, NEW e,
           e = [request |-> r, at |-> at],
           ledger' = Append(ledger, e), UNCHANGED deployments,
           EnsureAcceptedAtNotBeforeHead(at), EnsureLinearRevision(r),
           \E d \in DOMAIN deployments : r.signer = DeploymentID(d)
    PROVE  (VerifyBatchOwners /\ VerifyLedger /\ VerifyRevisions /\ CorrectionsOrdered)'
<1>1. TypeOK
  BY DEF LedgerInv
<1>2. e \in Entries /\ e.request = r /\ e.at = at
  BY DEF Entries
<1>3. PICK n : n = Len(ledger) + 1
  OBVIOUS
<1>4. /\ \A i \in DOMAIN ledger : i \in DOMAIN ledger' /\ ledger'[i] = ledger[i] /\ i < n
      /\ \A i \in DOMAIN ledger' : i \in DOMAIN ledger \/ i = n
      /\ n \in DOMAIN ledger' /\ ledger'[n] = e
      /\ n \notin DOMAIN ledger
      /\ n \in Nat
  BY <1>1, <1>2, <1>3, Appended DEF TypeOK
<1>5. VerifyBatchOwners'
  BY <1>2, <1>4 DEF LedgerInv, VerifyBatchOwners
<1>6. VerifyLedger'
  <2>1. \A i \in DOMAIN ledger : ledger[i].at <= at
    <3>1. ASSUME NEW i \in DOMAIN ledger PROVE ledger[i].at <= at
      <4>1. ledger # <<>> /\ Len(ledger) \in DOMAIN ledger /\ i <= Len(ledger)
        BY <1>1, EntryTypes
      <4>2. at >= ledger[Len(ledger)].at
        BY <4>1 DEF EnsureAcceptedAtNotBeforeHead
      <4>3. ledger[i].at <= ledger[Len(ledger)].at
        <5>1. CASE i = Len(ledger)
          BY <1>1, <4>1, <5>1, EntryTypes, ClockAssumption DEF Times
        <5>2. CASE i # Len(ledger)
          <6>1. i < Len(ledger)
            BY <1>1, <4>1, <5>2, EntryTypes
          <6>2. QED
            BY <4>1, <6>1 DEF LedgerInv, VerifyLedger
        <5>3. QED
          BY <5>1, <5>2
      <4>4. ledger[i].at \in Int /\ ledger[Len(ledger)].at \in Int /\ at \in Int
        BY <1>1, <4>1, EntryTypes, ClockAssumption DEF Times
      <4>5. QED
        BY <4>2, <4>3, <4>4
    <3>2. QED
      BY <3>1
  <2>2. QED
    BY <1>1, <1>2, <1>4, <2>1, EntryTypes DEF LedgerInv, VerifyLedger
<1>7. ASSUME NEW i \in DOMAIN ledger
      PROVE  /\ Revision(i)' = Revision(i) /\ Supersedes(i)' = Supersedes(i)
             /\ Corrects(i)' <=> Corrects(i)
             /\ i \in ChainOf(i)
             /\ \A j : j \in ChainOf(i)' <=>
                    \/ j \in ChainOf(i)
                    \/ j = n /\ i \in Chain(r.signer, r.payload.kind, r.payload.period)
  <2>1. Revision(i)' = Revision(i) /\ Supersedes(i)' = Supersedes(i)
          /\ (Corrects(i)' <=> Corrects(i))
    BY <1>4 DEF Revision, Supersedes, Corrects
  <2>2. i \in ChainOf(i)
    BY DEF ChainOf, Chain
  <2>3. QED
    BY <1>2, <1>4, <2>1, <2>2 DEF ChainOf, Chain
<1>8. /\ Revision(n)' = r.payload.revision /\ Supersedes(n)' = r.payload.supersedes
      /\ Corrects(n)' <=> r.payload.kind # "installation-test"
      /\ \A j : j \in ChainOf(n)' <=>
            j = n \/ j \in Chain(r.signer, r.payload.kind, r.payload.period)
  BY <1>2, <1>4 DEF Revision, Supersedes, Corrects, ChainOf, Chain
<1>9. PICK C : C = Chain(r.signer, r.payload.kind, r.payload.period)
  OBVIOUS
<1>10. C \subseteq DOMAIN ledger /\ \A i \in C : Corrects(i) <=> r.payload.kind # "installation-test"
  BY <1>9 DEF Chain, Corrects
<1>11. ASSUME r.payload.kind # "installation-test"
       PROVE  /\ \A j \in C : Revision(j) < r.payload.revision /\ r.payload.supersedes >= j
              /\ \/ r.payload.revision = 1 /\ r.payload.supersedes = 0
                 \/ /\ r.payload.supersedes \in C
                    /\ Revision(r.payload.supersedes) = r.payload.revision - 1
  BY <1>9, <1>11, LinearRevisionFacts
<1>12. r.payload.revision \in Int /\ \A i \in DOMAIN ledger : Revision(i) \in Int /\ i \in Nat
  BY <1>1, RevisionType, EntryTypes DEF BatchRequests
<1>13. \A i \in DOMAIN ledger : ChainOf(i) \subseteq DOMAIN ledger
  BY DEF ChainOf, Chain
<1>14. VerifyRevisions'
  <2>1. ASSUME NEW i \in DOMAIN ledger, Corrects(i)
        PROVE  /\ \A j \in ChainOf(i)' : Revision(j)' = Revision(i)' => j = i
               /\ \/ Revision(i)' = 1 /\ Supersedes(i)' = 0
                  \/ /\ Supersedes(i)' \in ChainOf(i)'
                     /\ (Revision(Supersedes(i)) = Revision(i) - 1)'
    <3>1. /\ \A j \in ChainOf(i) : Revision(j) = Revision(i) => j = i
          /\ \/ Revision(i) = 1 /\ Supersedes(i) = 0
             \/ Supersedes(i) \in ChainOf(i) /\ Revision(Supersedes(i)) = Revision(i) - 1
      BY <2>1 DEF LedgerInv, VerifyRevisions
    <3>2. ASSUME NEW j \in ChainOf(i)', Revision(j)' = Revision(i)' PROVE j = i
      <4>1. CASE j \in ChainOf(i)
        BY <1>7, <1>13, <3>1, <3>2, <4>1
      <4>2. CASE j = n /\ i \in C
        <5>1. Revision(i) < r.payload.revision
          BY <1>10, <1>11, <2>1, <4>2
        <5>2. Revision(i) = r.payload.revision
          BY <1>7, <1>8, <3>2, <4>2
        <5>3. QED
          BY <1>12, <5>1, <5>2
      <4>3. QED
        BY <1>7, <1>9, <4>1, <4>2
    <3>3. CASE Revision(i) = 1 /\ Supersedes(i) = 0
      BY <1>7, <3>2, <3>3
    <3>4. CASE Supersedes(i) \in ChainOf(i) /\ Revision(Supersedes(i)) = Revision(i) - 1
      <4>1. PICK k : k = Supersedes(i)
        OBVIOUS
      <4>2. k \in ChainOf(i)' /\ Revision(k)' = Revision(i)' - 1 /\ Supersedes(i)' = k
        BY <1>7, <1>13, <3>4, <4>1
      <4>3. (Revision(Supersedes(i)) = Revision(i) - 1)'
        BY <4>2 DEF Revision, Supersedes
      <4>4. QED
        BY <3>2, <4>2, <4>3
    <3>5. QED
      BY <3>1, <3>3, <3>4
  <2>2. ASSUME r.payload.kind # "installation-test"
        PROVE  /\ \A j \in ChainOf(n)' : Revision(j)' = Revision(n)' => j = n
               /\ \/ Revision(n)' = 1 /\ Supersedes(n)' = 0
                  \/ /\ Supersedes(n)' \in ChainOf(n)'
                     /\ (Revision(Supersedes(n)) = Revision(n) - 1)'
    <3>1. ASSUME NEW j \in ChainOf(n)', Revision(j)' = Revision(n)' PROVE j = n
      <4>1. CASE j \in C
        <5>1. j \in DOMAIN ledger /\ Revision(j) < r.payload.revision
          BY <1>10, <1>11, <2>2, <4>1
        <5>2. Revision(j) = r.payload.revision
          BY <1>7, <1>8, <3>1, <5>1
        <5>3. QED
          BY <1>12, <5>1, <5>2
      <4>2. QED
        BY <1>8, <1>9, <4>1
    <3>2. CASE r.payload.revision = 1 /\ r.payload.supersedes = 0
      BY <1>8, <3>1, <3>2
    <3>3. CASE r.payload.supersedes \in C
                /\ Revision(r.payload.supersedes) = r.payload.revision - 1
      <4>1. PICK k : k = r.payload.supersedes
        OBVIOUS
      <4>2. k \in ChainOf(n)' /\ Revision(k)' = Revision(n)' - 1 /\ Supersedes(n)' = k
        BY <1>7, <1>8, <1>9, <1>10, <3>3, <4>1
      <4>3. (Revision(Supersedes(n)) = Revision(n) - 1)'
        BY <4>2 DEF Revision, Supersedes
      <4>4. QED
        BY <3>1, <4>2, <4>3
    <3>4. QED
      BY <1>11, <2>2, <3>2, <3>3
  <2>3. QED
    BY <1>4, <1>7, <1>8, <2>1, <2>2 DEF VerifyRevisions
<1>15. CorrectionsOrdered'
  <2>1. ASSUME NEW i \in DOMAIN ledger', NEW j \in DOMAIN ledger',
               Corrects(i)', j \in ChainOf(i)', i < j
        PROVE  Revision(i)' < Revision(j)' /\ Supersedes(j)' >= i
    <3>1. i \in DOMAIN ledger
      <4>1. CASE i = n
        BY <1>4, <1>12, <2>1, <4>1
      <4>2. QED
        BY <1>4, <4>1
    <3>2. CASE j \in ChainOf(i)
      BY <1>7, <1>13, <2>1, <3>1, <3>2 DEF LedgerInv, CorrectionsOrdered
    <3>3. CASE j = n /\ i \in C
      BY <1>7, <1>8, <1>10, <1>11, <2>1, <3>1, <3>3
    <3>4. QED
      BY <1>7, <1>9, <2>1, <3>1, <3>2, <3>3
  <2>2. QED
    BY <2>1 DEF CorrectionsOrdered
<1>16. QED
  BY <1>5, <1>6, <1>14, <1>15

(* Every step keeps the ledger in order.                                   *)
LEMMA LedgerStep == LedgerInv /\ [Next]_vars => LedgerInv'
<1> SUFFICES ASSUME LedgerInv, [Next]_vars PROVE LedgerInv'
  OBVIOUS
<1>1. TypeOK /\ TypeOK'
  BY TypeStep DEF LedgerInv
<1>2. ASSUME UNCHANGED <<deployments, ledger>>
      PROVE  (VerifyBatchOwners /\ VerifyLedger /\ VerifyRevisions /\ CorrectionsOrdered)'
  BY <1>2
  DEF LedgerInv, VerifyBatchOwners, VerifyLedger, VerifyRevisions, CorrectionsOrdered,
      Corrects, ChainOf, Chain, Revision, Supersedes
<1>3. ASSUME UNCHANGED deployments, pending' \subseteq pending PROVE PendingOwners'
  BY <1>3 DEF LedgerInv, PendingOwners
<1>4. ASSUME NEW h \in Handlers, RegisterDeployment(h) PROVE LedgerInv'
  <2>1. PICK r \in RegistrationRequests : Prepare(h, r)
    <3>1. PICK k \in Keys, s \in ValidStamps, n \in Nonces, i \in IdempotencyKeys,
               p \in RegistrationPayloads :
            Prepare(h, [signer |-> Fingerprint(k), stamp |-> s, nonce |-> n,
                        key |-> i, payload |-> p])
      BY <1>4 DEF RegisterDeployment
    <3>2. s \in Int
      BY <1>1, ClockAssumption DEF ValidStamps, TypeOK, Times
    <3>3. QED
      BY <3>1, <3>2 DEF RegistrationRequests, Fingerprint
  <2>2. r \notin BatchRequests
    BY RequestKinds DEF Requests
  <2>3. PendingOwners'
    BY <2>1, <2>2 DEF LedgerInv, PendingOwners, Prepare, database
  <2>4. UNCHANGED <<deployments, ledger>>
    BY <2>1 DEF Prepare, database
  <2>5. QED
    BY <1>1, <1>2, <2>3, <2>4 DEF LedgerInv
<1>5. ASSUME NEW h \in Handlers, SubmitBatch(h) PROVE LedgerInv'
  <2>1. PICK d \in DOMAIN deployments : \E r : r.signer = DeploymentID(d) /\ Prepare(h, r)
    <3>1. PICK d \in DOMAIN deployments, s \in ValidStamps, n \in Nonces,
               i \in IdempotencyKeys, p \in BatchPayloads :
            Prepare(h, [signer |-> DeploymentID(d), stamp |-> s, nonce |-> n,
                        key |-> i, payload |-> p])
      BY <1>5 DEF SubmitBatch
    <3>2. [signer |-> DeploymentID(d), stamp |-> s, nonce |-> n,
           key |-> i, payload |-> p].signer = DeploymentID(d)
      OBVIOUS
    <3>3. QED
      BY <3>1, <3>2
  <2>2. PendingOwners'
    BY <2>1 DEF LedgerInv, PendingOwners, Prepare, database
  <2>3. UNCHANGED <<deployments, ledger>>
    BY <2>1 DEF Prepare, database
  <2>4. QED
    BY <1>1, <1>2, <2>2, <2>3 DEF LedgerInv
<1>6. ASSUME NEW p \in pending, AcceptDeployment(p) PROVE LedgerInv'
  <2>1. p.request \in Requests /\ p.at \in Times
    BY <1>1, PendingTypes
  <2>2. p.request \in RegistrationRequests
    BY <1>6, <2>1, RequestKinds DEF AcceptDeployment
  <2>3. \A d \in DOMAIN deployments : d \in DOMAIN deployments'
    BY <1>1, <1>6, <2>1, <2>2, Appended DEF AcceptDeployment, TypeOK
  <2>4. PendingOwners' /\ VerifyBatchOwners'
    BY <1>6, <2>3, SMTT(30) DEF LedgerInv, PendingOwners, VerifyBatchOwners, AcceptDeployment
  <2>5. (VerifyLedger /\ VerifyRevisions /\ CorrectionsOrdered)'
    <3>1. UNCHANGED ledger
      BY <1>6 DEF AcceptDeployment
    <3>2. VerifyLedger'
      BY <3>1 DEF LedgerInv, VerifyLedger
    <3>3. VerifyRevisions'
      BY <3>1 DEF LedgerInv, VerifyRevisions, Corrects, ChainOf, Chain, Revision, Supersedes
    <3>4. CorrectionsOrdered'
      BY <3>1 DEF LedgerInv, CorrectionsOrdered, Corrects, ChainOf, Chain, Revision, Supersedes
    <3>5. QED
      BY <3>2, <3>3, <3>4
  <2>6. QED
    BY <1>1, <2>4, <2>5 DEF LedgerInv
<1>7. ASSUME NEW p \in pending, AcceptBatch(p) PROVE LedgerInv'
  <2>1. p.request \in Requests /\ p.at \in Times
    BY <1>1, PendingTypes
  <2>2. p.request \in BatchRequests /\ ResultType(p.request) # "deployment"
    BY <1>7, <2>1, RequestKinds DEF AcceptBatch
  <2>3. /\ EnsureLinearRevision(p.request)
        /\ EnsureAcceptedAtNotBeforeHead(p.at)
    BY <1>7, <2>2, OutcomeFacts DEF AcceptBatch
  <2>4. \E d \in DOMAIN deployments : p.request.signer = DeploymentID(d)
    BY <2>2 DEF LedgerInv, PendingOwners
  <2>5. /\ ledger' = Append(ledger, [request |-> p.request, at |-> p.at])
        /\ UNCHANGED deployments
        /\ pending' \subseteq pending
    BY <1>7 DEF AcceptBatch
  <2>6. (VerifyBatchOwners /\ VerifyLedger /\ VerifyRevisions /\ CorrectionsOrdered)'
    BY <2>1, <2>2, <2>3, <2>4, <2>5, BatchAppended
  <2>7. QED
    BY <1>1, <1>3, <2>5, <2>6 DEF LedgerInv
<1>8. ASSUME UNCHANGED <<deployments, ledger>>, pending' \subseteq pending PROVE LedgerInv'
  BY <1>1, <1>2, <1>3, <1>8 DEF LedgerInv
<1>9. QED
  <2>1. CASE UNCHANGED vars
    BY <1>8, <2>1 DEF vars
  <2>2. CASE Next
    BY <1>4, <1>5, <1>6, <1>7, <1>8, <2>2
    DEF Next, BatchStep, Refuse, Abandon, AnswerDuplicate, AnswerRegistered, StartFinalize,
        FinalizeCompletedCheckpoints, Tick, Crash, database
  <2>3. QED
    BY <2>1, <2>2

(* The ledger invariant holds of the empty ledger.                         *)
LEMMA LedgerInit == Init => LedgerInv
<1> SUFFICES ASSUME Init PROVE LedgerInv
  OBVIOUS
<1>1. TypeOK
  BY ClockAssumption DEF Init, TypeOK, Times
<1>2. DOMAIN ledger = {}
  BY DEF Init
<1>3. QED
  BY <1>1, <1>2 DEF Init, LedgerInv, PendingOwners, VerifyBatchOwners, VerifyLedger,
                    VerifyRevisions, CorrectionsOrdered

(* Concurrent corrections never fork or reorder a chain: whichever of two  *)
(* racing corrections commits second is refused, for MAU and revenue.      *)
THEOREM CorrectionsOrderedHolds == Spec => []CorrectionsOrdered
<1>1. LedgerInv => CorrectionsOrdered
  BY DEF LedgerInv
<1>2. QED
  BY <1>1, LedgerInit, LedgerStep, PTL DEF Spec

-----------------------------------------------------------------------------
(* The daily checkpoints: they stay valid whatever is accepted later, they *)
(* cover exactly the receipts of their days, and the ledger with its       *)
(* checkpoints implements the sealed journal.                              *)

(* The date of checkpoint n: one per day, from the day the registry was    *)
(* created, without a gap.                                                 *)
CheckpointDates ==
    \A n \in DOMAIN checkpoints : checkpoints[n].date = Day(CreatedAt) + n - 1

(* Every checkpoint is still what it would be if it were computed now.     *)
SealsExact ==
    \A n \in DOMAIN checkpoints : \A d \in Nat :
        d = checkpoints[n].date => checkpoints[n] = CheckpointFor(d)

(* The inductive invariant of the checkpoints.                             *)
SealInv == TypeOK /\ CheckpointDates /\ SealsExact

(* The types of the rows and dates the checkpoint queries read.            *)
LEMMA SealTypes ==
    ASSUME TypeOK
    PROVE  /\ Len(checkpoints) \in Nat
           /\ DOMAIN checkpoints = 1..Len(checkpoints)
           /\ Day(CreatedAt) \in Nat
           /\ \A n \in DOMAIN checkpoints :
                checkpoints # <<>> /\ checkpoints[n].date \in Nat
           /\ checkpoints # <<>> => LatestCheckpoint.date \in Nat
<1>1. /\ Len(checkpoints) \in Nat
      /\ DOMAIN checkpoints = 1..Len(checkpoints)
      /\ \A i \in 1..Len(checkpoints) : checkpoints[i] \in Checkpoints
      /\ checkpoints # <<>> => LatestCheckpoint \in Checkpoints
  BY NextDateType
<1>2. Day(CreatedAt) \in Nat
  BY DayType, ClockAssumption
<1>3. \A c \in Checkpoints : c.date \in Nat
  BY DEF Checkpoints
<1>4. \A n \in DOMAIN checkpoints : checkpoints # <<>>
  OBVIOUS
<1>5. QED
  BY <1>1, <1>2, <1>3, <1>4

(* The seal invariant is what the checkpoint audit asks for.               *)
LEMMA SealInvAudited == SealInv => VerifyCheckpoints
<1> SUFFICES ASSUME SealInv, NEW n \in DOMAIN checkpoints
             PROVE  /\ n > 1 => checkpoints[n].date = checkpoints[n - 1].date + 1
                    /\ checkpoints[n] = CheckpointFor(checkpoints[n].date)
  BY DEF VerifyCheckpoints
<1>1. /\ Len(checkpoints) \in Nat
      /\ DOMAIN checkpoints = 1..Len(checkpoints)
      /\ checkpoints[n].date \in Nat
      /\ Day(CreatedAt) \in Nat
  BY SealTypes DEF SealInv
<1>2. ASSUME n > 1 PROVE checkpoints[n].date = checkpoints[n - 1].date + 1
  <2>1. n - 1 \in DOMAIN checkpoints /\ n \in Int
    BY <1>1, <1>2
  <2>2. checkpoints[n - 1].date = Day(CreatedAt) + (n - 1) - 1
    BY <2>1 DEF SealInv, CheckpointDates
  <2>3. checkpoints[n].date = Day(CreatedAt) + n - 1
    BY DEF SealInv, CheckpointDates
  <2>4. QED
    BY <1>1, <2>1, <2>2, <2>3
<1>3. QED
  BY <1>1, <1>2 DEF SealInv, SealsExact

(* A checkpoint depends on the ledger alone.                               *)
LEMMA SameLedger ==
    ASSUME UNCHANGED ledger, NEW d
    PROVE  CheckpointFor(d)' = CheckpointFor(d)
BY DEF CheckpointFor, EntriesBefore, ThroughIndex, HashThrough

(* An instant lies in a day or before it when it comes before the day's    *)
(* end: validateTimestamp's day and the exclusive SQL bound agree.         *)
LEMMA DayBound ==
    \A t, d \in Nat : Day(t) <= d <=> t < (d + 1) * DayLength
<1> SUFFICES ASSUME NEW t \in Nat, NEW d \in Nat
             PROVE  Day(t) <= d <=> t < (d + 1) * DayLength
  OBVIOUS
<1>1. PICK q \in Nat, r \in 0..(DayLength - 1) : t = q * DayLength + r /\ Day(t) = q
  <2>1. /\ t \div DayLength \in Nat
        /\ t % DayLength \in 0..(DayLength - 1)
        /\ t = (t \div DayLength) * DayLength + (t % DayLength)
    BY DayAssumption
  <2>2. QED
    BY <2>1 DEF Day
<1>2. DayLength \in Nat /\ DayLength > 0
  BY DayAssumption
<1>3. CASE q <= d
  <2>1. q * DayLength <= d * DayLength
    BY <1>2, <1>3
  <2>2. (d + 1) * DayLength = d * DayLength + DayLength
    BY <1>2
  <2>3. QED
    BY <1>1, <1>2, <1>3, <2>1, <2>2
<1>4. CASE ~(q <= d)
  <2>1. (d + 1) * DayLength <= q * DayLength
    BY <1>2, <1>4
  <2>2. QED
    BY <1>1, <1>2, <1>4, <2>1
<1>5. QED
  BY <1>3, <1>4

(* Later days end later.                                                   *)
LEMMA DayEndOrder ==
    ASSUME NEW c \in Nat, NEW d \in Nat, c <= d
    PROVE  (c + 1) * DayLength <= (d + 1) * DayLength
BY DayAssumption

(* The date that is sealed next follows from the number of checkpoints.    *)
LEMMA NextDate ==
    ASSUME SealInv
    PROVE  /\ NextCheckpointDate = Day(CreatedAt) + Len(checkpoints)
           /\ checkpoints # <<>> =>
                LatestCheckpoint.date = Day(CreatedAt) + Len(checkpoints) - 1
<1>1. /\ Day(CreatedAt) \in Nat
      /\ Len(checkpoints) \in Nat
      /\ DOMAIN checkpoints = 1..Len(checkpoints)
      /\ checkpoints # <<>> => Len(checkpoints) \in 1..Len(checkpoints)
      /\ checkpoints = <<>> => Len(checkpoints) = 0
  BY NextDateType, DayType, ClockAssumption, SMTT(30) DEF SealInv
<1>2. checkpoints # <<>> => LatestCheckpoint.date = Day(CreatedAt) + Len(checkpoints) - 1
  BY <1>1 DEF SealInv, CheckpointDates, LatestCheckpoint
<1>3. QED
  BY <1>1, <1>2 DEF NextCheckpointDate

(* A checkpoint recomputed after the ledger grew beyond its day is the     *)
(* same checkpoint.                                                        *)
LEMMA CheckpointStable ==
    ASSUME TypeOK, NEW d \in Nat, NEW e \in Entries, ledger' = Append(ledger, e),
           e.at >= (d + 1) * DayLength
    PROVE  CheckpointFor(d)' = CheckpointFor(d)
<1>1. /\ \A i \in DOMAIN ledger : i \in DOMAIN ledger' /\ ledger'[i] = ledger[i]
      /\ \A i \in DOMAIN ledger' : i \in DOMAIN ledger \/ i = Len(ledger) + 1
      /\ ledger'[Len(ledger) + 1] = e
      /\ Len(ledger) \in Nat /\ DOMAIN ledger = 1..Len(ledger)
  BY Appended DEF TypeOK
<1>2. PICK t : t = (d + 1) * DayLength
  OBVIOUS
<1>3. t \in Int /\ e.at \in Int /\ e.at >= t
  BY <1>2, DayAssumption, ClockAssumption DEF Entries, Times
<1>4. EntriesBefore(t)' = EntriesBefore(t)
  BY <1>1, <1>3 DEF EntriesBefore
<1>5. PICK S : S = EntriesBefore(t)
  OBVIOUS
<1>6. PICK k : k = ThroughIndex(S)
  OBVIOUS
<1>7. k \in 0..Len(ledger)
  BY <1>2, <1>5, <1>6, CheckpointForFacts
<1>8. HashThrough(k)' = HashThrough(k)
  BY <1>1, <1>7 DEF HashThrough
<1>9. CheckpointFor(d) = [date |-> d, through |-> k, count |-> Cardinality(S),
                          head |-> HashThrough(k)]
  BY <1>2, <1>5, <1>6 DEF CheckpointFor
<1>10. CheckpointFor(d)' = [date |-> d, through |-> k, count |-> Cardinality(S),
                            head |-> HashThrough(k)']
  BY <1>2, <1>4, <1>5, <1>6 DEF CheckpointFor, ThroughIndex, HashThrough
<1>11. QED
  BY <1>8, <1>9, <1>10

(* Every step keeps the checkpoints valid.                                 *)
LEMMA SealStep == SealInv /\ [Next]_vars => SealInv'
<1> SUFFICES ASSUME SealInv, [Next]_vars PROVE SealInv'
  OBVIOUS
<1>1. TypeOK /\ TypeOK'
  BY TypeStep DEF SealInv
<1>2. ASSUME UNCHANGED <<ledger, checkpoints>> PROVE SealInv'
  <2>1. CheckpointDates'
    BY <1>2 DEF SealInv, CheckpointDates, Day
  <2>2. SealsExact'
    BY <1>2, SameLedger DEF SealInv, SealsExact
  <2>3. QED
    BY <1>1, <2>1, <2>2 DEF SealInv
<1>3. ASSUME NEW p \in pending, AcceptBatch(p) PROVE SealInv'
  <2>1. p.request \in Requests /\ p.at \in Times
    BY <1>1, PendingTypes
  <2>2. p.request \in BatchRequests /\ ResultType(p.request) # "deployment"
    BY <1>3, <2>1, RequestKinds DEF AcceptBatch
  <2>3. EnsureAcceptedAtAfterCheckpoint(p.at)
    BY <1>3, <2>2, OutcomeFacts DEF AcceptBatch
  <2>4. PICK e : e = [request |-> p.request, at |-> p.at]
    OBVIOUS
  <2>5. e \in Entries /\ ledger' = Append(ledger, e) /\ UNCHANGED checkpoints
    BY <1>3, <2>1, <2>2, <2>4 DEF AcceptBatch, Entries
  <2>6. ASSUME NEW n \in DOMAIN checkpoints, NEW d \in Nat, d = checkpoints[n].date
        PROVE  CheckpointFor(d)' = CheckpointFor(d)
    <3>1. /\ checkpoints # <<>>
          /\ n \in 1..Len(checkpoints)
          /\ Len(checkpoints) \in Nat
          /\ LatestCheckpoint.date \in Nat
          /\ Day(CreatedAt) \in Nat
      BY <1>1, SealTypes
    <3>2. d = Day(CreatedAt) + n - 1
      BY <2>6 DEF SealInv, CheckpointDates
    <3>3. d <= LatestCheckpoint.date
      BY <3>1, <3>2, NextDate
    <3>4. (d + 1) * DayLength <= (LatestCheckpoint.date + 1) * DayLength
      BY <3>1, <3>3, DayEndOrder
    <3>5. p.at >= (LatestCheckpoint.date + 1) * DayLength
      BY <2>3, <3>1 DEF EnsureAcceptedAtAfterCheckpoint
    <3>6. e.at >= (d + 1) * DayLength
      BY <2>1, <2>4, <3>1, <3>4, <3>5, DayAssumption, ClockAssumption DEF Times
    <3>7. QED
      BY <1>1, <2>5, <3>6, CheckpointStable
  <2>7. SealsExact'
    BY <2>5, <2>6 DEF SealInv, SealsExact
  <2>8. CheckpointDates'
    BY <2>5 DEF SealInv, CheckpointDates, Day
  <2>9. QED
    BY <1>1, <2>7, <2>8 DEF SealInv
<1>4. ASSUME NEW x \in finalizing, FinalizeCompletedCheckpoints(x) PROVE SealInv'
  <2>1. UNCHANGED ledger
    BY <1>4 DEF FinalizeCompletedCheckpoints
  <2>2. CASE checkpoints' = checkpoints
    BY <1>2, <2>1, <2>2
  <2>3. ASSUME NEW missing \in Nat \ {0},
               DOMAIN checkpoints' = 1..(Len(checkpoints) + missing),
               \A i \in 1..Len(checkpoints) : checkpoints'[i] = checkpoints[i],
               \A i \in (Len(checkpoints) + 1)..(Len(checkpoints) + missing) :
                  /\ NextCheckpointDate + i - Len(checkpoints) - 1 \in Nat
                  /\ checkpoints'[i] =
                        CheckpointFor(NextCheckpointDate + i - Len(checkpoints) - 1)
        PROVE  SealInv'
    <3>1. Len(checkpoints) \in Nat /\ DOMAIN checkpoints = 1..Len(checkpoints)
            /\ Day(CreatedAt) \in Nat
      BY <1>1, NextDateType, DayType, ClockAssumption, SMTT(30)
    <3>2. \A i \in DOMAIN checkpoints' :
            i \in 1..Len(checkpoints)
                \/ i \in (Len(checkpoints) + 1)..(Len(checkpoints) + missing)
      BY <2>3, <3>1
    <3>3. \A d : CheckpointFor(d).date = d
      BY DEF CheckpointFor
    <3>4. ASSUME NEW n \in DOMAIN checkpoints'
          PROVE  /\ checkpoints'[n].date = Day(CreatedAt) + n - 1
                 /\ checkpoints'[n] = CheckpointFor(checkpoints'[n].date)
      <4>1. CASE n \in 1..Len(checkpoints)
        <5>1. checkpoints[n].date \in Nat
          BY <1>1, <4>1, NextDateType DEF Checkpoints
        <5>2. QED
          BY <2>3, <3>1, <4>1, <5>1 DEF SealInv, CheckpointDates, SealsExact
      <4>2. CASE n \in (Len(checkpoints) + 1)..(Len(checkpoints) + missing)
        BY <2>3, <3>1, <3>3, <4>2, NextDate
      <4>3. QED
        BY <3>2, <4>1, <4>2
    <3>5. CheckpointDates'
      BY <3>4 DEF CheckpointDates, Day
    <3>6. SealsExact'
      BY <2>1, <3>4, SameLedger DEF SealsExact
    <3>7. QED
      BY <1>1, <3>5, <3>6 DEF SealInv
  <2>4. QED
    BY <1>1, <1>4, <2>2, <2>3, FinalizedRows
<1>5. QED
  <2>1. CASE UNCHANGED vars
    BY <1>2, <2>1 DEF vars
  <2>2. CASE Next
    BY <1>2, <1>3, <1>4, <2>2
    DEF Next, BatchStep, RegisterDeployment, SubmitBatch, Prepare, Refuse, Abandon, AnswerDuplicate,
        AnswerRegistered, AcceptDeployment, StartFinalize, Tick, Crash, database
  <2>3. QED
    BY <2>1, <2>2

(* The seal invariant holds of the empty ledger.                           *)
LEMMA SealInit == Init => SealInv
<1> SUFFICES ASSUME Init PROVE SealInv
  OBVIOUS
<1>1. TypeOK
  BY ClockAssumption DEF Init, TypeOK, Times
<1>2. DOMAIN checkpoints = {}
  BY DEF Init
<1>3. QED
  BY <1>1, <1>2 DEF SealInv, CheckpointDates, SealsExact

(* The audit accepts every database the handlers can produce: whatever was *)
(* raced, retried, refused, corrected, sealed or cut short by a crash, the *)
(* registry never reports its own writes as corruption.                    *)
THEOREM AuditPassesHolds == Spec => []AuditPasses
<1>1. RecordsInv /\ LedgerInv /\ SealInv => AuditPasses
  BY SealInvAudited DEF RecordsInv, LedgerInv, AuditPasses
<1>2. QED
  BY <1>1, RecordsInit, RecordsStep, LedgerInit, LedgerStep, SealInit, SealStep, PTL
  DEF Spec

-----------------------------------------------------------------------------
(* What a checkpoint covers.                                               *)

(* In an ordered ledger the entries before an instant are a prefix, so the *)
(* MAX and the COUNT of ledgerHeadBeforeTx describe the same set.          *)
LEMMA EntriesBeforePrefix ==
    ASSUME TypeOK, VerifyLedger, NEW d \in Nat, NEW S, NEW k,
           S = EntriesBefore((d + 1) * DayLength), k = ThroughIndex(S)
    PROVE  /\ k \in 0..Len(ledger)
           /\ S = 1..k
           /\ \A i \in DOMAIN ledger : i <= k <=> ledger[i].at < (d + 1) * DayLength
           /\ Cardinality(S) = k
<1>1. Len(ledger) \in Nat /\ DOMAIN ledger = 1..Len(ledger)
        /\ \A i \in DOMAIN ledger : ledger[i].at \in Int
  BY EntryTypes, ClockAssumption DEF Times
<1>2. PICK t : t = (d + 1) * DayLength
  OBVIOUS
<1>3. t \in Int
  BY <1>2, DayAssumption
<1>4. S \in SUBSET (1..Len(ledger)) /\ k \in 0..Len(ledger)
  BY CheckpointForFacts
<1>5. \A i \in DOMAIN ledger : i \in S <=> ledger[i].at < t
  BY <1>2 DEF EntriesBefore
<1>6. \A i \in DOMAIN ledger : i \in S <=> i <= k
  <2>1. CASE S = {}
    <3>1. k = 0
      BY <2>1 DEF ThroughIndex
    <3>2. QED
      BY <1>1, <2>1, <3>1
  <2>2. CASE S # {}
    <3>1. Max(S) \in S /\ \A i \in S : i <= Max(S)
      BY <1>1, <1>4, <2>2, MaxIndex
    <3>2. k = Max(S)
      BY <2>2, Zenon DEF ThroughIndex
    <3>3. k \in S /\ k \in DOMAIN ledger /\ \A i \in S : i <= k
      BY <1>1, <1>4, <3>1, <3>2
    <3>4. ASSUME NEW i \in DOMAIN ledger, i <= k PROVE i \in S
      <4>1. CASE i = k
        BY <3>3, <4>1
      <4>2. CASE i < k
        <5>1. ledger[i].at <= ledger[k].at
          BY <3>3, <4>2 DEF VerifyLedger
        <5>2. ledger[k].at < t
          BY <1>5, <3>3
        <5>3. QED
          BY <1>1, <1>3, <1>5, <3>3, <5>1, <5>2
      <4>3. QED
        BY <1>1, <1>4, <3>4, <4>1, <4>2
    <3>5. QED
      BY <3>3, <3>4
  <2>3. QED
    BY <2>1, <2>2
<1>7. S = 1..k
  <2>1. \A i : i \in S => i \in 1..k
    BY <1>1, <1>4, <1>6
  <2>2. \A i : i \in 1..k => i \in DOMAIN ledger /\ i <= k
    BY <1>1, <1>4
  <2>3. \A i : i \in S <=> i \in 1..k
    BY <1>6, <2>1, <2>2
  <2>4. QED
    BY <2>3
<1>8. Cardinality(S) = k
  <2>1. k \in Nat
    BY <1>1, <1>4
  <2>2. Cardinality(1..k) = k
    <3>1. 1 \in Int /\ k \in Int
      BY <2>1
    <3>2. Cardinality(1..k) = IF 1 > k THEN 0 ELSE k - 1 + 1
      BY <3>1, FS_Interval, Zenon
    <3>3. QED
      BY <2>1, <3>2
  <2>3. QED
    BY <1>7, <2>2
<1>9. QED
  BY <1>2, <1>4, <1>5, <1>6, <1>7, <1>8

(* The day a receipt promises is kept: a published checkpoint covers every *)
(* entry accepted up to its day and no later one, whatever is accepted     *)
(* afterwards and however the clock is stepped.                            *)
THEOREM ReceiptsCoveredHolds == Spec => []ReceiptsCovered
<1>1. LedgerInv /\ SealInv => ReceiptsCovered
  <2> SUFFICES ASSUME LedgerInv, SealInv,
                      NEW n \in DOMAIN checkpoints, NEW i \in DOMAIN ledger
               PROVE  /\ i <= checkpoints[n].through <=> Day(ledger[i].at) <= checkpoints[n].date
                      /\ i <= checkpoints[n].through => checkpoints[n].head[i] = ledger[i]
                      /\ checkpoints[n].count = checkpoints[n].through
    BY DEF ReceiptsCovered
  <2>1. TypeOK /\ VerifyLedger
    BY DEF LedgerInv
  <2>2. PICK d \in Nat : d = checkpoints[n].date
    BY <2>1, SealTypes
  <2>3. checkpoints[n] = CheckpointFor(d)
    BY <2>2 DEF SealInv, SealsExact
  <2>4. PICK S : S = EntriesBefore((d + 1) * DayLength)
    OBVIOUS
  <2>5. PICK k : k = ThroughIndex(S)
    OBVIOUS
  <2>6. /\ k \in 0..Len(ledger)
        /\ i <= k <=> ledger[i].at < (d + 1) * DayLength
        /\ Cardinality(S) = k
    BY <2>1, <2>4, <2>5, EntriesBeforePrefix
  <2>7. /\ checkpoints[n].through = k
        /\ checkpoints[n].count = Cardinality(S)
        /\ checkpoints[n].head = HashThrough(k)
    BY <2>3, <2>4, <2>5 DEF CheckpointFor
  <2>8. ledger[i].at \in Nat /\ i \in Nat \ {0} /\ Len(ledger) \in Nat
    BY <2>1, EntryTypes, ClockAssumption DEF Times
  <2>9. Day(ledger[i].at) <= d <=> ledger[i].at < (d + 1) * DayLength
    BY <2>8, DayBound
  <2>10. i <= k => HashThrough(k)[i] = ledger[i]
    BY <2>6, <2>8 DEF HashThrough
  <2>11. QED
    BY <2>2, <2>6, <2>7, <2>9, <2>10
<1>2. QED
  BY <1>1, LedgerInit, LedgerStep, SealInit, SealStep, PTL DEF Spec

-----------------------------------------------------------------------------
(* The ledger and its checkpoints implement the sealed journal.            *)

(* The seals of the refinement mapping are a sequence as long as the       *)
(* checkpoints.                                                            *)
Seals == [n \in DOMAIN checkpoints |-> checkpoints[n].head]

(* A seal for every checkpoint, and its head.                              *)
LEMMA SealsLength ==
    ASSUME TypeOK
    PROVE  /\ Len(Seals) = Len(checkpoints)
           /\ DOMAIN Seals = 1..Len(checkpoints)
           /\ \A n \in 1..Len(checkpoints) : Seals[n] = checkpoints[n].head
<1>1. Len(checkpoints) \in Nat /\ DOMAIN checkpoints = 1..Len(checkpoints)
  BY SealTypes
<1>2. QED
  BY <1>1 DEF Seals

(* An accepted batch is a Write of the journal.                            *)
LEMMA WriteStep ==
    ASSUME SealInv, LedgerInv, TypeOK', NEW p \in pending, AcceptBatch(p)
    PROVE  Journal!Write
<1>1. TypeOK
  BY DEF SealInv
<1>2. p.request \in Requests /\ p.at \in Times
  BY <1>1, PendingTypes
<1>3. p.request \in BatchRequests /\ ResultType(p.request) # "deployment"
  BY <1>2, RequestKinds DEF AcceptBatch
<1>4. /\ EnsureAcceptedAtAfterRegistryCreation(p.at)
      /\ EnsureAcceptedAtAfterCheckpoint(p.at)
      /\ EnsureAcceptedAtNotBeforeHead(p.at)
      /\ EnsureLinearRevision(p.request)
  BY <1>3, OutcomeFacts DEF AcceptBatch
<1>5. PICK e : e = [request |-> p.request, at |-> p.at]
  OBVIOUS
<1>6. /\ e \in Entries /\ e.at = p.at /\ e.request = p.request
      /\ ledger' = Append(ledger, e)
      /\ UNCHANGED <<checkpoints, deployments>>
  BY <1>2, <1>3, <1>5 DEF AcceptBatch, Entries
<1>7. /\ Len(ledger') = Len(ledger) + 1
      /\ Len(ledger) \in Nat /\ DOMAIN ledger = 1..Len(ledger)
      /\ \A i \in DOMAIN ledger : i \in DOMAIN ledger' /\ ledger'[i] = ledger[i]
                                  /\ i < Len(ledger) + 1
      /\ Len(ledger) + 1 \in DOMAIN ledger' /\ ledger'[Len(ledger) + 1] = e
  BY <1>1, <1>6, Appended DEF TypeOK
<1>8. SubSeq(ledger', 1, Len(ledger)) = ledger
  <2>1. \A i \in 1..Len(ledger) : ledger'[i] = ledger[i] /\ ledger[i] \in Entries
    BY <1>1, <1>7, EntryTypes
  <2>2. /\ SubSeq(ledger', 1, Len(ledger)) \in Seq(Entries)
        /\ Len(SubSeq(ledger', 1, Len(ledger))) = Len(ledger)
        /\ \A i \in 1..Len(ledger) : SubSeq(ledger', 1, Len(ledger))[i] = ledger'[i]
    BY <1>1, <1>6, <1>7, <2>1 DEF TypeOK
  <2>3. QED
    BY <1>1, <2>1, <2>2, SeqEqual DEF TypeOK
<1>9. p.at >= (Day(CreatedAt) + Len(checkpoints)) * DayLength
  <2>1. Day(CreatedAt) \in Nat /\ Len(checkpoints) \in Nat
    BY <1>1, SealTypes
  <2>2. CASE checkpoints = <<>>
    <3>1. Len(checkpoints) = 0
      BY <2>2
    <3>2. CreatedAt >= Day(CreatedAt) * DayLength
      BY DayAssumption, ClockAssumption DEF Day
    <3>3. p.at >= CreatedAt
      BY <1>4 DEF EnsureAcceptedAtAfterRegistryCreation
    <3>4. p.at \in Int /\ CreatedAt \in Int /\ Day(CreatedAt) * DayLength \in Int
      BY <1>2, <2>1, ClockAssumption, DayAssumption DEF Times
    <3>5. Day(CreatedAt) + Len(checkpoints) = Day(CreatedAt)
      BY <2>1, <3>1
    <3>6. QED
      BY <3>2, <3>3, <3>4, <3>5
  <2>3. CASE checkpoints # <<>>
    <3>1. LatestCheckpoint.date + 1 = Day(CreatedAt) + Len(checkpoints)
      BY <2>1, <2>3, NextDate
    <3>2. p.at >= (LatestCheckpoint.date + 1) * DayLength
      BY <1>4, <2>3 DEF EnsureAcceptedAtAfterCheckpoint
    <3>3. QED
      BY <3>1, <3>2
  <2>4. QED
    BY <2>2, <2>3
<1>10. \A i \in DOMAIN ledger : ledger[i].at <= p.at
  <2>1. VerifyLedger'
    BY <1>3, <1>2, <1>4, <1>5, <1>6, BatchAppended DEF LedgerInv, PendingOwners
  <2>2. QED
    BY <1>6, <1>7, <2>1 DEF VerifyLedger
<1>11. Len(Seals) = Len(checkpoints) /\ Seals' = Seals
  BY <1>1, <1>6, SealsLength DEF Seals
<1>12. QED
  BY <1>6, <1>7, <1>8, <1>9, <1>10, <1>11
  DEF Journal!Write, Journal!SealedUntil, Seals

(* The head a checkpoint commits to is the journal through its day.        *)
LEMMA HeadIsJournal ==
    ASSUME TypeOK, VerifyLedger, NEW d \in Nat
    PROVE  CheckpointFor(d).head = Journal!JournalThrough(d)
<1>1. PICK S : S = EntriesBefore((d + 1) * DayLength)
  OBVIOUS
<1>2. PICK k : k = ThroughIndex(S)
  OBVIOUS
<1>3. S = 1..k
  BY <1>1, <1>2, EntriesBeforePrefix
<1>4. CheckpointFor(d).head = [i \in 1..k |-> ledger[i]]
  BY <1>1, <1>2 DEF CheckpointFor, HashThrough
<1>5. Journal!JournalThrough(d) = [i \in S |-> ledger[i]]
  BY <1>1 DEF Journal!JournalThrough, EntriesBefore
<1>6. QED
  BY <1>3, <1>4, <1>5

(* A finalization is a Seal of the journal, or changes nothing.            *)
LEMMA SealsStep ==
    ASSUME SealInv, LedgerInv, TypeOK', NEW x \in finalizing, FinalizeCompletedCheckpoints(x)
    PROVE  Journal!Seal \/ UNCHANGED <<ledger, Seals>>
<1>1. TypeOK /\ VerifyLedger /\ UNCHANGED ledger
  BY DEF SealInv, LedgerInv, FinalizeCompletedCheckpoints
<1>2. CASE checkpoints' = checkpoints
  BY <1>1, <1>2 DEF Seals
<1>3. ASSUME NEW missing \in Nat \ {0},
             Len(checkpoints') = Len(checkpoints) + missing,
             DOMAIN checkpoints' = 1..(Len(checkpoints) + missing),
             \A i \in 1..Len(checkpoints) : checkpoints'[i] = checkpoints[i],
             \A i \in (Len(checkpoints) + 1)..(Len(checkpoints) + missing) :
                /\ NextCheckpointDate + i - Len(checkpoints) - 1 \in Nat
                /\ checkpoints'[i] =
                      CheckpointFor(NextCheckpointDate + i - Len(checkpoints) - 1)
      PROVE  Journal!Seal
  <2>1. Len(checkpoints) \in Nat /\ DOMAIN checkpoints = 1..Len(checkpoints)
          /\ Day(CreatedAt) \in Nat
    BY <1>1, SealTypes
  <2>2. Len(Seals) = Len(checkpoints) /\ DOMAIN Seals = 1..Len(checkpoints)
          /\ \A n \in 1..Len(checkpoints) : Seals[n] = checkpoints[n].head
    BY <1>1, SealsLength
  <2>3. Len(Seals') = Len(checkpoints') /\ DOMAIN Seals' = 1..Len(checkpoints')
          /\ \A n \in 1..Len(checkpoints') : Seals'[n] = checkpoints'[n].head
    <3>1. Len(checkpoints') \in Nat
      BY <1>3, <2>1
    <3>2. Seals' = [n \in 1..Len(checkpoints') |-> checkpoints'[n].head]
      BY <1>3 DEF Seals
    <3>3. QED
      BY <3>1, <3>2
  <2>4. ASSUME NEW n \in DOMAIN Seals'
        PROVE  Seals'[n] = IF n \in DOMAIN Seals THEN Seals[n]
                           ELSE Journal!JournalThrough(Day(CreatedAt) + n - 1)
    <3>1. CASE n \in 1..Len(checkpoints)
      BY <1>3, <2>1, <2>2, <2>3, <3>1
    <3>2. CASE n \in (Len(checkpoints) + 1)..(Len(checkpoints) + missing)
      <4>1. PICK d \in Nat : d = NextCheckpointDate + n - Len(checkpoints) - 1
        BY <1>3, <3>2
      <4>2. d = Day(CreatedAt) + n - 1
        BY <2>1, <3>2, <4>1, NextDate
      <4>3. checkpoints'[n] = CheckpointFor(d)
        BY <1>3, <3>2, <4>1
      <4>4. Seals'[n] = Journal!JournalThrough(d)
        BY <1>1, <2>3, <4>3, HeadIsJournal
      <4>5. n \notin DOMAIN Seals
        BY <2>1, <2>2, <3>2
      <4>6. QED
        BY <4>2, <4>4, <4>5
    <3>3. QED
      BY <1>3, <2>1, <2>3, <3>1, <3>2
  <2>5. Len(Seals') > Len(Seals)
    BY <1>3, <2>1, <2>2, <2>3
  <2>6. QED
    BY <1>1, <2>4, <2>5 DEF Journal!Seal, Seals
<1>4. QED
  BY <1>1, <1>2, <1>3, FinalizedRows

(* Refinement: seen from outside, the ledger and its checkpoints are a     *)
(* journal that only grows, whose days are sealed one after the other and  *)
(* never written to again.  Requests, retries, stale clock reads, clock    *)
(* steps and crashes add nothing to that.                                  *)
THEOREM Refinement == Spec => ImplementsJournal
<1>1. Init => Journal!JournalInit
  BY DEF Init, Journal!JournalInit
<1>2. ASSUME LedgerInv, SealInv, [Next]_vars
      PROVE  [Journal!JournalNext]_<<ledger, Seals>>
  <2>1. TypeOK'
    BY <1>2, TypeStep DEF SealInv
  <2>2. ASSUME NEW p \in pending, AcceptBatch(p) PROVE Journal!JournalNext
    BY <1>2, <2>1, <2>2, WriteStep DEF Journal!JournalNext
  <2>3. ASSUME NEW x \in finalizing, FinalizeCompletedCheckpoints(x)
        PROVE  [Journal!JournalNext]_<<ledger, Seals>>
    BY <1>2, <2>1, <2>3, SealsStep DEF Journal!JournalNext
  <2>4. ASSUME UNCHANGED <<ledger, checkpoints>>
        PROVE  [Journal!JournalNext]_<<ledger, Seals>>
    BY <2>4 DEF Seals
  <2>5. CASE UNCHANGED vars
    BY <2>4, <2>5 DEF vars
  <2>6. CASE Next
    BY <2>2, <2>3, <2>4, <2>6
    DEF Next, BatchStep, RegisterDeployment, SubmitBatch, Prepare, Refuse, Abandon, AnswerDuplicate,
        AnswerRegistered, AcceptDeployment, StartFinalize, Tick, Crash, database
  <2>7. QED
    BY <1>2, <2>5, <2>6
<1>3. QED
  BY <1>1, <1>2, LedgerInit, LedgerStep, SealInit, SealStep, PTL
  DEF Spec, ImplementsJournal, Journal!JournalSpec, Seals

-----------------------------------------------------------------------------
(* The revenue aggregates.                                                 *)

(* A revenue batch has natural amounts in known currencies.                *)
LEMMA RevenueAmounts ==
    ASSUME NEW q \in BatchPayloads, q.kind = "daily-revenue"
    PROVE  /\ q.period \in Periods
           /\ DOMAIN q.amounts \subseteq Currencies
           /\ \A c \in DOMAIN q.amounts : q.amounts[c] \in Nat
<1>1. q \notin InstallationPayloads
  BY DEF InstallationPayloads
<1>2. q \notin QualifiedMAUPayloads
  BY DEF QualifiedMAUPayloads
<1>3. q \in RevenuePayloads
  BY <1>1, <1>2 DEF BatchPayloads
<1>4. q.period \in Periods /\ q.amounts \in CurrencyRows
  BY <1>3 DEF RevenuePayloads
<1>5. PICK S \in SUBSET Currencies : q.amounts \in [S -> Amounts]
  BY <1>4 DEF CurrencyRows
<1>6. \A x \in Amounts : x \in Nat
  BY AmountAssumption
<1>7. DOMAIN q.amounts = S /\ \A c \in S : q.amounts[c] \in Amounts
  BY <1>5
<1>8. QED
  BY <1>4, <1>6, <1>7

Amount(i, c) == ledger[i].request.payload.amounts[c]

AmountsOf(rows, c) == [i \in rows |-> Amount(i, c)]

(* The active rows are finitely many, with natural amounts.                *)
LEMMA ActiveAmounts ==
    ASSUME TypeOK, NEW period, NEW c, NEW rows \in SUBSET ActiveRevenue(period, c)
    PROVE  /\ IsFiniteSet(rows) /\ rows \subseteq DOMAIN ledger
           /\ AmountsOf(rows, c) \in [rows -> Nat]
           /\ RevenueTotal(rows, c) = SumFunction(AmountsOf(rows, c))
           /\ RevenueTotal(rows, c) \in Nat
<1>1. Len(ledger) \in Nat /\ DOMAIN ledger = 1..Len(ledger)
  BY EntryTypes
<1>2. rows \subseteq DOMAIN ledger
  BY DEF ActiveRevenue
<1>3. IsFiniteSet(rows)
  <2>1. IsFiniteSet(1..Len(ledger))
    BY <1>1, FS_Interval
  <2>2. QED
    BY <1>1, <1>2, <2>1, FS_Subset
<1>4. ASSUME NEW i \in rows PROVE Amount(i, c) \in Nat
  <2>1. i \in DOMAIN ledger /\ ledger[i].request.payload.kind = "daily-revenue"
            /\ c \in DOMAIN ledger[i].request.payload.amounts
    BY DEF ActiveRevenue
  <2>2. ledger[i].request.payload \in BatchPayloads
    BY <2>1, EntryTypes DEF BatchRequests
  <2>3. QED
    BY <2>1, <2>2, RevenueAmounts DEF Amount
<1>5. AmountsOf(rows, c) \in [rows -> Nat]
  BY <1>4 DEF AmountsOf
<1>6. RevenueTotal(rows, c) = SumFunction(AmountsOf(rows, c))
  BY Zenon DEF RevenueTotal, AmountsOf, Amount
<1>7. QED
  BY <1>2, <1>3, <1>5, <1>6, SumNatural

(* The active rows of the other deployments.                               *)
OthersRows(signer, period, c) ==
    {i \in ActiveRevenue(period, c) : ledger[i].request.signer # signer}

(* They sum to no more than all active rows.                               *)
LEMMA OthersBelow ==
    ASSUME TypeOK, NEW signer, NEW period, NEW c
    PROVE  /\ RevenueTotal(OthersRows(signer, period, c), c) \in Nat
           /\ RevenueTotal(ActiveRevenue(period, c), c) \in Nat
           /\ RevenueTotal(OthersRows(signer, period, c), c)
                <= RevenueTotal(ActiveRevenue(period, c), c)
<1>1. PICK A, O : A = ActiveRevenue(period, c) /\ O = OthersRows(signer, period, c)
  OBVIOUS
<1>2. O \in SUBSET A /\ A \in SUBSET A
  BY <1>1 DEF OthersRows
<1>3. /\ IsFiniteSet(A) /\ AmountsOf(A, c) \in [A -> Nat]
      /\ RevenueTotal(A, c) = SumFunction(AmountsOf(A, c)) /\ RevenueTotal(A, c) \in Nat
  BY <1>1, <1>2, ActiveAmounts
<1>4. /\ AmountsOf(O, c) \in [O -> Nat]
      /\ RevenueTotal(O, c) = SumFunction(AmountsOf(O, c)) /\ RevenueTotal(O, c) \in Nat
  BY <1>1, <1>2, ActiveAmounts
<1>5. \A i \in O : AmountsOf(O, c)[i] <= AmountsOf(A, c)[i]
  <2>1. \A i \in O : AmountsOf(O, c)[i] = AmountsOf(A, c)[i] /\ AmountsOf(O, c)[i] \in Nat
    BY <1>2, <1>4 DEF AmountsOf
  <2>2. QED
    BY <2>1
<1>6. SumFunction(AmountsOf(O, c)) <= SumFunction(AmountsOf(A, c))
  BY <1>2, <1>3, <1>4, <1>5, SumMonotone
<1>7. QED
  BY <1>1, <1>3, <1>4, <1>6

(* The transaction sums the active rows of the other deployments.          *)
LEMMA OthersRevenueIs ==
    ASSUME NEW r, NEW c
    PROVE  OthersRevenue(r, c) = RevenueTotal(OthersRows(r.signer, r.payload.period, c), c)
BY Zenon DEF OthersRevenue, OthersRows

(* The check of the transaction: the amounts fit on top of the others'.    *)
LEMMA CapacityFacts ==
    ASSUME NEW r, r.payload.kind = "daily-revenue"
    PROVE  /\ RevenueCapacity(r) = "ok" =>
                \A c \in DOMAIN r.payload.amounts :
                    ~(r.payload.amounts[c] > MaximumMinor - OthersRevenue(r, c))
           /\ RevenueCapacity(r) = "inconsistent" =>
                \E c \in DOMAIN r.payload.amounts : OthersRevenue(r, c) > MaximumMinor
<1> DEFINE A == \E c \in DOMAIN r.payload.amounts : OthersRevenue(r, c) > MaximumMinor
           B == \E c \in DOMAIN r.payload.amounts :
                    r.payload.amounts[c] > MaximumMinor - OthersRevenue(r, c)
<1>1. RevenueCapacity(r) = IF A THEN "inconsistent"
                           ELSE IF B THEN "revenue_aggregate_overflow" ELSE "ok"
  BY Zenon DEF RevenueCapacity
<1>2. ~B => \A c \in DOMAIN r.payload.amounts :
                ~(r.payload.amounts[c] > MaximumMinor - OthersRevenue(r, c))
  BY Zenon
<1>3. QED
  <2> HIDE DEF A, B
  <2>1. RevenueCapacity(r) = "ok" => ~B
    BY <1>1
  <2>2. RevenueCapacity(r) = "inconsistent" => A
    BY <1>1
  <2>3. QED
    BY <1>2, <2>1, <2>2, Zenon DEF A

(* The newest row of a deployment's revenue chain of a period.             *)
LatestRevenue(i, s, period) ==
    LET C == Chain(s, "daily-revenue", period)
    IN  i \in C /\ \A j \in C : Revision(j) <= Revision(i)

ActiveRow(i, s, period, c) ==
    /\ c \in DOMAIN ledger[i].request.payload.amounts
    /\ LatestRevenue(i, s, period)

(* An active row is one of the newest rows.                                *)
LEMMA ActiveIsLatest ==
    \A period, c, i :
        i \in ActiveRevenue(period, c) <=>
            i \in DOMAIN ledger /\ ActiveRow(i, ledger[i].request.signer, period, c)
BY DEF ActiveRevenue, ActiveRow, LatestRevenue, IsLatest, Chain

IsMember == \A period, c, i :
        i \in ActiveRevenue(period, c) <=>
            i \in DOMAIN ledger /\ ActiveRow(i, ledger[i].request.signer, period, c)

(* The same after a step.                                                  *)
LEMMA ActiveIsLatestNext == IsMember'
<1>1. IsMember
  BY ActiveIsLatest DEF IsMember
<1>2. QED
  BY <1>1, PTL

(* After an accepted batch the active rows of a period are those of the    *)
(* other deployments and its own, when it reports revenue of that period,  *)
(* and the same as before otherwise.                                       *)
LEMMA ActiveAfterAppend ==
    ASSUME LedgerInv, NEW r \in BatchRequests, NEW e \in Entries, e.request = r,
           EnsureLinearRevision(r), ledger' = Append(ledger, e),
           NEW n, n = Len(ledger) + 1, NEW period, NEW c, NEW i
    PROVE  i \in ActiveRevenue(period, c)' <=>
                IF r.payload.kind = "daily-revenue" /\ r.payload.period = period
                THEN \/ i \in OthersRows(r.signer, period, c)
                     \/ i = n /\ c \in DOMAIN r.payload.amounts
                ELSE i \in ActiveRevenue(period, c)
<1>1. TypeOK
  BY DEF LedgerInv
<1>2. /\ \A j \in DOMAIN ledger : j \in DOMAIN ledger' /\ ledger'[j] = ledger[j]
      /\ \A j \in DOMAIN ledger' : j \in DOMAIN ledger \/ j = n
      /\ n \in DOMAIN ledger' /\ ledger'[n] = e /\ n \notin DOMAIN ledger
  BY <1>1, Appended DEF TypeOK
<1>3. \A j \in DOMAIN ledger : Revision(j)' = Revision(j) /\ Revision(j) \in Int
  BY <1>1, <1>2, EntryTypes DEF Revision
<1>4. Revision(n)' = r.payload.revision /\ r.payload.revision \in Int
  BY <1>2, RevisionType DEF Revision, BatchRequests
<1>5. PICK mine : mine = (r.payload.kind = "daily-revenue" /\ r.payload.period = period)
  OBVIOUS
<1>6. ASSUME NEW s
      PROVE  \A j : j \in Chain(s, "daily-revenue", period)' <=>
                \/ j \in Chain(s, "daily-revenue", period)
                \/ j = n /\ mine /\ r.signer = s
  BY <1>1, <1>5, ChainAfterAppend
<1>7. \A s : Chain(s, "daily-revenue", period) \subseteq DOMAIN ledger
  BY DEF Chain
<1>8. mine => \A j \in Chain(r.signer, "daily-revenue", period) :
                Revision(j) < r.payload.revision
  BY <1>5, LinearRevisionFacts
<1>9. ASSUME NEW s, ~mine \/ r.signer # s, i \in DOMAIN ledger
      PROVE  LatestRevenue(i, s, period)' <=> LatestRevenue(i, s, period)
  <2>1. PICK C, D : C = Chain(s, "daily-revenue", period)
                    /\ D = Chain(s, "daily-revenue", period)'
    OBVIOUS
  <2>2. C = D /\ C \subseteq DOMAIN ledger
    <3>1. \A j : j \in D <=> j \in C \/ (j = n /\ mine /\ r.signer = s)
      BY <1>6, <2>1
    <3>2. C = D
      BY <1>9, <3>1
    <3>3. QED
      BY <1>7, <2>1, <3>2
  <2>3. LatestRevenue(i, s, period)' <=> i \in D /\ \A j \in D : Revision(j)' <= Revision(i)'
    BY <2>1 DEF LatestRevenue
  <2>4. LatestRevenue(i, s, period) <=> i \in C /\ \A j \in C : Revision(j) <= Revision(i)
    BY <2>1 DEF LatestRevenue
  <2>5. QED
    BY <1>3, <1>9, <2>2, <2>3, <2>4
<1>10. ASSUME mine, i \in DOMAIN ledger PROVE ~LatestRevenue(i, r.signer, period)'
  <2>1. PICK C, D : C = Chain(r.signer, "daily-revenue", period)
                    /\ D = Chain(r.signer, "daily-revenue", period)'
    OBVIOUS
  <2>2. n \in D /\ (i \in D => i \in C)
    <3>1. \A j : j \in D <=> j \in C \/ j = n
      BY <1>6, <1>10, <2>1
    <3>2. QED
      BY <1>2, <1>10, <3>1
  <2>3. i \in C => Revision(i) < r.payload.revision
    BY <1>8, <1>10, <2>1
  <2>4. i \in D => ~(Revision(n)' <= Revision(i)')
    BY <1>3, <1>4, <1>10, <2>2, <2>3
  <2>5. LatestRevenue(i, r.signer, period)' =>
            i \in D /\ \A j \in D : Revision(j)' <= Revision(i)'
    BY <2>1 DEF LatestRevenue
  <2>6. QED
    BY <2>2, <2>4, <2>5
<1>11. ASSUME mine PROVE LatestRevenue(n, r.signer, period)'
  <2>1. PICK C, D : C = Chain(r.signer, "daily-revenue", period)
                    /\ D = Chain(r.signer, "daily-revenue", period)'
    OBVIOUS
  <2>2. \A j : j \in D <=> j \in C \/ j = n
    BY <1>6, <1>11, <2>1
  <2>3. \A j \in D : Revision(j)' <= Revision(n)'
    BY <1>3, <1>4, <1>7, <1>8, <1>11, <2>1, <2>2
  <2>4. QED
    BY <2>1, <2>2, <2>3 DEF LatestRevenue
<1>12. ~mine => ~LatestRevenue(n, r.signer, period)'
  BY <1>2, <1>6, <1>7 DEF LatestRevenue
<1>13. i \in ActiveRevenue(period, c)' <=>
            i \in DOMAIN ledger' /\ ActiveRow(i, ledger[i].request.signer, period, c)'
  BY ActiveIsLatestNext DEF IsMember
<1>14. i \in ActiveRevenue(period, c) <=>
            i \in DOMAIN ledger /\ ActiveRow(i, ledger[i].request.signer, period, c)
  BY ActiveIsLatest
<1>15. CASE i \in DOMAIN ledger
  <2>1. PICK s : s = ledger[i].request.signer
    OBVIOUS
  <2>2. ActiveRow(i, ledger[i].request.signer, period, c)' <=>
            c \in DOMAIN ledger[i].request.payload.amounts /\ LatestRevenue(i, s, period)'
    BY <1>2, <1>15, <2>1 DEF ActiveRow, LatestRevenue, Chain
  <2>3. ActiveRow(i, ledger[i].request.signer, period, c) <=>
            c \in DOMAIN ledger[i].request.payload.amounts /\ LatestRevenue(i, s, period)
    BY <2>1 DEF ActiveRow
  <2>4. i # n
    BY <1>2, <1>15
  <2>5. i \in OthersRows(r.signer, period, c) <=>
            i \in ActiveRevenue(period, c) /\ s # r.signer
    BY <2>1 DEF OthersRows
  <2>6. CASE mine /\ s = r.signer
    BY <1>5, <1>10, <1>13, <1>15, <2>2, <2>4, <2>5, <2>6
  <2>7. CASE ~(mine /\ s = r.signer)
    BY <1>2, <1>5, <1>9, <1>13, <1>14, <1>15, <2>2, <2>3, <2>4, <2>5, <2>7
  <2>8. QED
    BY <2>6, <2>7
<1>16. CASE i = n
  <2>1. ActiveRow(i, ledger[i].request.signer, period, c)' <=>
            c \in DOMAIN r.payload.amounts /\ LatestRevenue(n, r.signer, period)'
    BY <1>2, <1>16 DEF ActiveRow, LatestRevenue, Chain
  <2>2. i \notin ActiveRevenue(period, c) /\ i \notin OthersRows(r.signer, period, c)
    BY <1>2, <1>14, <1>16 DEF OthersRows
  <2>3. QED
    BY <1>2, <1>5, <1>11, <1>12, <1>13, <1>16, <2>1, <2>2
<1>17. CASE i \notin DOMAIN ledger /\ i # n
  BY <1>2, <1>13, <1>14, <1>17 DEF OthersRows
<1>18. QED
  BY <1>15, <1>16, <1>17

FitsFor(period, c) == RevenueTotal(ActiveRevenue(period, c), c) <= MaximumMinor

(* A total is a sum of amounts, after a step too.                          *)
TotalIs == \A rows, c : RevenueTotal(rows, c) = SumFunction(AmountsOf(rows, c))

(* By definition.                                                          *)
LEMMA TotalIsSum == TotalIs
BY Zenon DEF TotalIs, RevenueTotal, AmountsOf, Amount

(* After a step too.                                                       *)
LEMMA TotalIsSumNext == TotalIs'
BY TotalIsSum, PTL

(* An accepted batch leaves every aggregate within range: it replaces the  *)
(* deployment's own rows, and was checked on top of the others'.           *)
LEMMA FitsAfterAppend ==
    ASSUME LedgerInv, AggregateFits, NEW r \in BatchRequests, NEW e \in Entries,
           e.request = r, EnsureLinearRevision(r), RevenueCapacity(r) = "ok",
           ledger' = Append(ledger, e), NEW period \in Periods, NEW c \in Currencies
    PROVE  FitsFor(period, c)'
<1>1. TypeOK
  BY DEF LedgerInv
<1>2. PICK n : n = Len(ledger) + 1
  OBVIOUS
<1>3. /\ \A j \in DOMAIN ledger : j \in DOMAIN ledger' /\ ledger'[j] = ledger[j]
      /\ ledger'[n] = e /\ n \notin DOMAIN ledger
  BY <1>1, <1>2, Appended DEF TypeOK
<1>4. PICK A, O, N : /\ A = ActiveRevenue(period, c) /\ O = OthersRows(r.signer, period, c)
                     /\ N = ActiveRevenue(period, c)'
  OBVIOUS
<1>5. \A i : i \in N <=>
                IF r.payload.kind = "daily-revenue" /\ r.payload.period = period
                THEN i \in O \/ (i = n /\ c \in DOMAIN r.payload.amounts)
                ELSE i \in A
  BY <1>2, <1>4, ActiveAfterAppend
<1>6. O \in SUBSET A /\ A \in SUBSET A
  BY <1>4 DEF OthersRows
<1>7. /\ IsFiniteSet(A) /\ A \subseteq DOMAIN ledger /\ AmountsOf(A, c) \in [A -> Nat]
      /\ RevenueTotal(A, c) = SumFunction(AmountsOf(A, c)) /\ RevenueTotal(A, c) \in Nat
  BY <1>1, <1>4, <1>6, ActiveAmounts
<1>8. /\ IsFiniteSet(O) /\ O \subseteq DOMAIN ledger /\ AmountsOf(O, c) \in [O -> Nat]
      /\ RevenueTotal(O, c) = SumFunction(AmountsOf(O, c)) /\ RevenueTotal(O, c) \in Nat
  BY <1>1, <1>4, <1>6, ActiveAmounts
<1>9. RevenueTotal(A, c) <= MaximumMinor /\ RevenueTotal(O, c) <= RevenueTotal(A, c)
  BY <1>1, <1>4, OthersBelow DEF AggregateFits
<1>10. RevenueTotal(O, c) <= MaximumMinor
  BY <1>7, <1>8, <1>9, AmountAssumption
<1>11. PICK f : f = [i \in N |-> Amount(i, c)']
  OBVIOUS
<1>12. RevenueTotal(ActiveRevenue(period, c), c)' = SumFunction(f)
  <2>1. RevenueTotal(ActiveRevenue(period, c), c)' = SumFunction(AmountsOf(N, c)')
    BY <1>4, TotalIsSumNext DEF TotalIs
  <2>2. AmountsOf(N, c)' = f
    BY <1>11 DEF AmountsOf
  <2>3. QED
    BY <2>1, <2>2
<1>13. \A i \in DOMAIN ledger : Amount(i, c)' = Amount(i, c)
  BY <1>3 DEF Amount
<1>14. ASSUME N \in {A, O} PROVE FitsFor(period, c)'
  <2>1. f = AmountsOf(N, c)
    BY <1>7, <1>8, <1>11, <1>13, <1>14 DEF AmountsOf
  <2>2. SumFunction(f) <= MaximumMinor
    BY <1>7, <1>8, <1>9, <1>10, <1>14, <2>1
  <2>3. QED
    BY <1>12, <2>2 DEF FitsFor
<1>15. CASE ~(r.payload.kind = "daily-revenue" /\ r.payload.period = period)
  <2>1. N = A
    BY <1>5, <1>15
  <2>2. QED
    BY <1>14, <2>1
<1>16. CASE /\ r.payload.kind = "daily-revenue" /\ r.payload.period = period
            /\ c \notin DOMAIN r.payload.amounts
  <2>1. N = O
    BY <1>5, <1>16
  <2>2. QED
    BY <1>14, <2>1
<1>17. CASE /\ r.payload.kind = "daily-revenue" /\ r.payload.period = period
            /\ c \in DOMAIN r.payload.amounts
  <2>1. PICK m : m = r.payload.amounts[c]
    OBVIOUS
  <2>2. m \in Nat
    BY <1>17, <2>1, RevenueAmounts DEF BatchRequests
  <2>3. N = O \cup {n} /\ n \notin O
    BY <1>3, <1>5, <1>8, <1>17
  <2>4. n \in N /\ N \ {n} = O /\ IsFiniteSet(N)
    BY <1>8, <2>3, FS_AddElement
  <2>5. f[n] = m
    BY <1>3, <1>11, <2>1, <2>4 DEF Amount
  <2>6. \A i \in O : f[i] = AmountsOf(O, c)[i] /\ f[i] \in Nat
    BY <1>8, <1>11, <1>13, <2>3 DEF AmountsOf
  <2>7. f \in [N -> Nat]
    BY <1>11, <2>2, <2>3, <2>5, <2>6
  <2>8. [i \in N \ {n} |-> f[i]] = AmountsOf(O, c)
    <3>1. AmountsOf(O, c) = [i \in O |-> AmountsOf(O, c)[i]]
      BY DEF AmountsOf
    <3>2. QED
      BY <2>4, <2>6, <3>1
  <2>9. SumFunction(f) = m + SumFunction(AmountsOf(O, c))
    <3>1. SumFunction(f) = f[n] + SumFunction([i \in N \ {n} |-> f[i]])
      BY <2>4, <2>7, SumRemove, ZenonT(30)
    <3>2. QED
      BY <2>5, <2>8, <3>1
  <2>10. ~(m > MaximumMinor - RevenueTotal(O, c))
    BY <1>4, <1>17, <2>1, CapacityFacts, OthersRevenueIs
  <2>11. SumFunction(f) <= MaximumMinor
    BY <1>8, <2>2, <2>9, <2>10, AmountAssumption
  <2>12. QED
    BY <1>12, <2>11 DEF FitsFor
<1>18. QED
  BY <1>15, <1>16, <1>17

(* The inductive invariant of the aggregates.                              *)
RevenueInv == LedgerInv /\ AggregateFits

(* Every step keeps the aggregates within range.                           *)
LEMMA RevenueStep == RevenueInv /\ [Next]_vars => RevenueInv'
<1> SUFFICES ASSUME RevenueInv, [Next]_vars PROVE RevenueInv'
  OBVIOUS
<1>1. LedgerInv /\ LedgerInv' /\ TypeOK
  BY LedgerStep DEF RevenueInv, LedgerInv
<1>2. ASSUME UNCHANGED ledger PROVE AggregateFits'
  BY <1>2 DEF RevenueInv, AggregateFits, RevenueTotal, ActiveRevenue, IsLatest, Chain, Revision
<1>3. ASSUME NEW p \in pending, AcceptBatch(p) PROVE AggregateFits'
  <2>1. p.request \in Requests /\ p.at \in Times
    BY <1>1, PendingTypes
  <2>2. p.request \in BatchRequests /\ ResultType(p.request) # "deployment"
    BY <1>3, <2>1, RequestKinds DEF AcceptBatch
  <2>3. EnsureLinearRevision(p.request) /\ RevenueCapacity(p.request) = "ok"
    BY <1>3, <2>2, OutcomeFacts DEF AcceptBatch
  <2>4. PICK r, e : r = p.request /\ e = [request |-> r, at |-> p.at]
    OBVIOUS
  <2>5. e \in Entries /\ e.request = r /\ ledger' = Append(ledger, e)
    BY <1>3, <2>1, <2>2, <2>4 DEF AcceptBatch, Entries
  <2>6. \A period \in Periods, c \in Currencies : FitsFor(period, c)'
    BY <1>1, <2>2, <2>3, <2>4, <2>5, FitsAfterAppend DEF RevenueInv
  <2>7. QED
    BY <2>6 DEF AggregateFits, FitsFor
<1>4. AggregateFits'
  <2>1. CASE UNCHANGED vars
    BY <1>2, <2>1 DEF vars
  <2>2. CASE Next
    BY <1>2, <1>3, <2>2
    DEF Next, BatchStep, RegisterDeployment, SubmitBatch, Prepare, Refuse, Abandon,
        AnswerDuplicate, AnswerRegistered, AcceptDeployment, StartFinalize,
        FinalizeCompletedCheckpoints, Tick, Crash, database
  <2>3. QED
    BY <2>1, <2>2
<1>5. QED
  BY <1>1, <1>4 DEF RevenueInv

(* No aggregate is out of range on an empty ledger.                        *)
LEMMA RevenueInit == Init => RevenueInv
<1> SUFFICES ASSUME Init PROVE AggregateFits
  BY LedgerInit DEF RevenueInv
<1>1. DOMAIN ledger = {}
  BY DEF Init
<1>2. ASSUME NEW period \in Periods, NEW c \in Currencies
      PROVE  RevenueTotal(ActiveRevenue(period, c), c) <= MaximumMinor
  <2>1. DOMAIN AmountsOf(ActiveRevenue(period, c), c) = {}
    BY <1>1 DEF AmountsOf, ActiveRevenue
  <2>2. RevenueTotal(ActiveRevenue(period, c), c) = 0
    BY <2>1, SumEmpty, TotalIsSum DEF TotalIs
  <2>3. QED
    BY <2>2, AmountAssumption
<1>3. QED
  BY <1>2 DEF AggregateFits

(* ensureRevenueAggregateCapacity suffices: whatever is reported, replaced *)
(* and corrected by however many deployments, the active revenue of every  *)
(* period and currency fits its signed 64-bit sum.                         *)
THEOREM AggregateFitsHolds == Spec => []AggregateFits
<1>1. RevenueInv => AggregateFits
  BY DEF RevenueInv
<1>2. QED
  BY <1>1, RevenueInit, RevenueStep, PTL DEF Spec

-----------------------------------------------------------------------------
(* No handler meets a database it calls inconsistent.                      *)

(* A request and the record of its key have the same kind of signer, so    *)
(* the record is of the request's type and can be read.                    *)
LEMMA RecordReadable ==
    ASSUME RecordsInv, NEW r \in Requests, NEW i \in IdempotencyRows(r),
           i.payload = r.payload
    PROVE  i.result.type = ResultType(r) /\ RecordExists(i.result, r)
<1>1. TypeOK /\ i \in idempotency /\ i.signer = r.signer /\ IdempotencyResultValid(i)
  BY DEF RecordsInv, VerifyIdempotencyRecords, IdempotencyRows
<1>2. CASE i.result.type = "deployment"
  <2>1. PICK d : d = i.result.id
    OBVIOUS
  <2>2. d \in DOMAIN deployments /\ deployments[d].request.signer = r.signer
    BY <1>1, <1>2, <2>1 DEF IdempotencyResultValid
  <2>3. deployments[d].request \in RegistrationRequests
    <3>1. deployments \in Seq([request: RegistrationRequests, at: Times])
      BY <1>1 DEF TypeOK
    <3>2. DOMAIN deployments = 1..Len(deployments)
      BY <3>1
    <3>3. deployments[d] \in [request: RegistrationRequests, at: Times]
      BY <2>2, <3>1, <3>2, ElementOfSeq
    <3>4. QED
      BY <3>3
  <2>4. r.signer[1] = "fingerprint"
    BY <2>2, <2>3 DEF RegistrationRequests
  <2>5. r \notin BatchRequests
    BY <2>4 DEF BatchRequests
  <2>6. ResultType(r) = "deployment"
    BY <2>5, RequestKinds
  <2>7. QED
    BY <1>2, <2>1, <2>2, <2>6 DEF RecordExists
<1>3. CASE i.result.type = "batch"
  <2>1. PICK b : b = i.result.id
    OBVIOUS
  <2>2. /\ b \in DOMAIN ledger /\ ledger[b].request.signer = r.signer
        /\ ledger[b].request.payload = r.payload
    BY <1>1, <1>3, <2>1 DEF IdempotencyResultValid
  <2>3. ledger[b].request \in BatchRequests
    BY <1>1, <2>2, EntryTypes
  <2>4. r.signer[1] = "dep"
    BY <2>2, <2>3 DEF BatchRequests
  <2>5. r \notin RegistrationRequests
    BY <2>4 DEF RegistrationRequests
  <2>6. ResultType(r) = "batch"
    BY <2>5, RequestKinds
  <2>7. QED
    BY <1>3, <2>1, <2>2, <2>6 DEF RecordExists
<1>4. QED
  BY <1>1, <1>2, <1>3 DEF IdempotencyResultValid

(* The replay checks never find a nonce or a record without the other.     *)
LEMMA ReplayConsistent ==
    ASSUME RecordsInv, NEW r \in Requests
    PROVE  ReplayState(r) # "inconsistent"
<1> DEFINE A == \E n \in NonceRows(r) : n.request # r
           B == \E i \in IdempotencyRows(r) : i.payload # r.payload
           C == \E i \in IdempotencyRows(r) : i.result.type # ResultType(r)
           D == \E i \in IdempotencyRows(r) : ~RecordExists(i.result, r)
           E == IdempotencyRows(r) # {}
           F == NonceRows(r) # {}
<1>1. ReplayState(r) = IF A THEN "replay_conflict"
                       ELSE IF B THEN "idempotency_conflict"
                       ELSE IF C THEN "inconsistent"
                       ELSE IF D THEN "inconsistent"
                       ELSE IF E THEN "duplicate"
                       ELSE IF F THEN "inconsistent"
                       ELSE "fresh"
  BY Zenon DEF ReplayState
<1>2. ~B => ~C /\ ~D
  BY RecordReadable
<1>3. ~A /\ F => E
  <2>1. SUFFICES ASSUME ~A, F PROVE E
    OBVIOUS
  <2>2. PICK n \in NonceRows(r) : n.request = r
    BY <2>1
  <2>3. PICK i \in idempotency : i.signer = r.signer /\ i.key = r.key
    BY <2>2 DEF RecordsInv, VerifyNonceRecords, NonceLinked, NonceRows
  <2>4. QED
    BY <2>3 DEF IdempotencyRows
<1> HIDE DEF A, B, C, D, E, F
<1>4. QED
  BY <1>1, <1>2, <1>3

(* The revenue of the other deployments fits by itself.                    *)
LEMMA CapacityConsistent ==
    ASSUME RevenueInv, NEW r \in BatchRequests
    PROVE  RevenueCapacity(r) # "inconsistent"
<1>1. TypeOK
  BY DEF RevenueInv, LedgerInv
<1>2. CASE r.payload.kind # "daily-revenue"
  BY <1>2, Zenon DEF RevenueCapacity
<1>3. CASE r.payload.kind = "daily-revenue"
  <2>1. SUFFICES ASSUME NEW c \in DOMAIN r.payload.amounts PROVE ~(OthersRevenue(r, c) > MaximumMinor)
    BY <1>3, CapacityFacts
  <2>2. r.payload.period \in Periods /\ c \in Currencies
    BY <1>3, RevenueAmounts DEF BatchRequests
  <2>3. PICK o, a : /\ o = OthersRevenue(r, c)
                    /\ a = RevenueTotal(ActiveRevenue(r.payload.period, c), c)
    OBVIOUS
  <2>4. o \in Nat /\ a \in Nat /\ o <= a
    BY <1>1, <2>3, OthersBelow, OthersRevenueIs
  <2>5. a <= MaximumMinor
    BY <2>2, <2>3 DEF RevenueInv, AggregateFits
  <2>6. QED
    BY <2>3, <2>4, <2>5, AmountAssumption
<1>4. QED
  BY <1>2, <1>3

(* No request is refused with ErrInconsistentState: whatever was retried,  *)
(* raced, abandoned or lost in a crash, a used nonce has its record, a     *)
(* record its row, and the others' revenue fits.                           *)
THEOREM NeverInconsistentHolds == Spec => []NeverInconsistent
<1>1. RecordsInv /\ RevenueInv => NeverInconsistent
  <2> SUFFICES ASSUME RecordsInv, RevenueInv, NEW p \in pending
               PROVE  Outcome(p) # "inconsistent"
    BY DEF NeverInconsistent
  <2>1. TypeOK
    BY DEF RecordsInv
  <2>2. PICK r : r = p.request
    OBVIOUS
  <2>3. r \in Requests
    BY <2>1, <2>2, PendingTypes
  <2>4. ReplayState(r) # "inconsistent"
    BY <2>3, ReplayConsistent
  <2>5. CASE ResultType(r) = "deployment"
    BY <2>2, <2>4, <2>5 DEF Outcome, RegistrationOutcome
  <2>6. CASE ResultType(r) # "deployment"
    <3>1. r \in BatchRequests
      BY <2>3, <2>6, RequestKinds
    <3>2. RevenueCapacity(r) # "inconsistent"
      BY <3>1, CapacityConsistent
    <3>3. Outcome(p) = BatchOutcome(p)
      BY <2>2, <2>6, Zenon DEF Outcome
    <3>4. QED
      BY <2>2, <2>4, <3>2, <3>3 DEF BatchOutcome
  <2>7. QED
    BY <2>5, <2>6
<1>2. QED
  BY <1>1, RecordsInit, RecordsStep, RevenueInit, RevenueStep, PTL DEF Spec
=============================================================================
