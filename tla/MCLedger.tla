------------------------------ MODULE MCLedger ------------------------------
(* Instances of the ledger for TLC.                                        *)
EXTENDS LedgerAudit, TLC, SequencesExt

(* Every key has registered once, with software v, and registers no more.  *)
InitRegistered(v) ==
    LET keys == SetToSeq(Keys)
        Request(i) == [signer |-> Fingerprint(keys[i]), stamp |-> CreatedAt,
                       nonce |-> "spare", key |-> "spare",
                       payload |-> [kind |-> "registration", software |-> v]]
        Rows == {Record(Request(i), Deployment(i)) : i \in DOMAIN keys}
    IN  /\ clock = CreatedAt
        /\ deployments = [i \in DOMAIN keys |-> [request |-> Request(i), at |-> CreatedAt]]
        /\ nonces = {[request |-> Request(i), result |-> Deployment(i)] : i \in DOMAIN keys}
        /\ idempotency = Rows
        /\ answers = Rows
        /\ ledger = <<>>
        /\ checkpoints = <<>>
        /\ pending = {}
        /\ finalizing = {}

SpecBatches == (\E v \in Versions : InitRegistered(v)) /\ [][BatchStep]_vars

FairSpecBatches == SpecBatches /\ FinalizerFairness

-----------------------------------------------------------------------------
(* Two scenarios in one run, told apart by the deployments registered.     *)

Registered == Len(deployments) = Cardinality(Keys)

NewRequests == {p.request : p \in pending' \ pending}
BatchesSent ==
    {r \in {p.request : p \in pending} \cup {n.request : n \in nonces} :
        r.payload.kind # "registration"}

(* Retries: one unregistered key, two nonces, two idempotency keys and two *)
(* handlers, one kind of batches.                                          *)
RetryScenario ==
    /\ Len(ledger') <= 2
    /\ \A r \in NewRequests :
        /\ r.payload.kind # "daily-revenue"
        /\ "spare" \notin {r.nonce, r.key}
        /\ r.payload.kind = "registration" => r.signer = Fingerprint(SetToSeq(Keys)[1])

(* Competing corrections: two registered deployments with revenue near the *)
(* limit, and one handler at a time; a request is a retry or has a nonce   *)
(* of its own, and the two kinds of batches share the idempotency keys.    *)
CorrectionScenario ==
    /\ clock' = clock
    /\ Cardinality(pending') <= 1
    /\ \A r \in NewRequests :
        r \in BatchesSent \/ \A b \in BatchesSent : b.nonce # r.nonce

NextEither == IF Registered THEN BatchStep /\ CorrectionScenario ELSE Next /\ RetryScenario

SpecEither == (Init \/ \E v \in Versions : InitRegistered(v)) /\ [][NextEither]_vars

(* Nothing orders handlers, nonces, idempotency keys or versions.          *)
EitherSymmetry ==
    Permutations(Nonces \ {"spare"}) \cup Permutations(IdempotencyKeys \ {"spare"})
        \cup Permutations(Handlers) \cup Permutations(Versions)
=============================================================================
