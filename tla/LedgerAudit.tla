---------------------------- MODULE LedgerAudit ----------------------------
(***************************************************************************)
(* The complete audit the registry runs at start-up, on health probes and  *)
(* before every checkpoint (store/sqlite/verify.go, integrity.go,          *)
(* revenue_verify.go, checkpoints.go), and the correctness properties of   *)
(* the ledger.  The audit reads the whole database and knows nothing of    *)
(* how it came about; a registry whose own audit fails refuses to start    *)
(* and refuses every write, so it must accept whatever the handlers can    *)
(* produce.                                                                *)
(***************************************************************************)
EXTENDS Ledger

VerifyLedger ==
    \A i, j \in DOMAIN ledger : i < j => ledger[i].at <= ledger[j].at

VerifyBatchOwners ==
    \A i \in DOMAIN ledger :
        \E d \in DOMAIN deployments : ledger[i].request.signer = DeploymentID(d)

IdempotencyResultValid(i) ==
    \/ /\ i.result.type = "deployment"
       /\ i.result.id \in DOMAIN deployments
       /\ LET first == deployments[i.result.id].request
          IN  /\ first.signer = i.signer
              /\ first.key = i.key => first.payload = i.payload
    \/ /\ i.result.type = "batch"
       /\ i.result.id \in DOMAIN ledger
       /\ LET first == ledger[i.result.id].request
          IN  first.signer = i.signer /\ first.key = i.key /\ first.payload = i.payload

VerifyIdempotencyRecords ==
    /\ \A i \in idempotency : IdempotencyResultValid(i)
    /\ \A d \in DOMAIN deployments :
        \E i \in idempotency : i.result = Deployment(d) /\ i.key = deployments[d].request.key
    /\ \A b \in DOMAIN ledger : \E i \in idempotency : i.result = Batch(b)

(* The idempotency record a used nonce belongs to.                         *)
NonceLinked(n) ==
    \E i \in idempotency : /\ i.signer = n.request.signer
                           /\ i.key = n.request.key
                           /\ i.payload = n.request.payload
                           /\ i.result = n.result

VerifyNonceRecords ==
    /\ \A n \in nonces : NonceLinked(n)
    /\ \A i \in idempotency :
        \E n \in nonces : n.request.signer = i.signer /\ n.request.key = i.key
    /\ \A d \in DOMAIN deployments : \E n \in nonces : n.request = deployments[d].request
    /\ \A b \in DOMAIN ledger : \E n \in nonces : n.request = ledger[b].request

(* The correction chain of an entry.                                       *)
ChainOf(i) ==
    Chain(ledger[i].request.signer, ledger[i].request.payload.kind,
          ledger[i].request.payload.period)

Corrects(i) == ledger[i].request.payload.kind # "installation-test"

(* verifyQualifiedMAURevisions and its revenue counterpart: ordered by     *)
(* revision, a chain starts at 1 and each row supersedes the one before.   *)
VerifyRevisions ==
    \A i \in DOMAIN ledger : Corrects(i) =>
        /\ \A j \in ChainOf(i) : Revision(j) = Revision(i) => j = i
        /\ \/ Revision(i) = 1 /\ Supersedes(i) = 0
           \/ Supersedes(i) \in ChainOf(i) /\ Revision(Supersedes(i)) = Revision(i) - 1

VerifyCheckpoints ==
    \A n \in DOMAIN checkpoints :
        /\ n > 1 => checkpoints[n].date = checkpoints[n - 1].date + 1
        /\ checkpoints[n] = CheckpointFor(checkpoints[n].date)

-----------------------------------------------------------------------------
(* Properties.                                                             *)

(* The variables have the shape of the tables and of the handlers' locals  *)
(* (store.RegistrationInput, store.BatchInput, store.RevenueBatchInput).   *)
TypeOK ==
    /\ clock \in Times
    /\ deployments \in Seq([request: RegistrationRequests, at: Times])
    /\ nonces \subseteq [request: Requests, result: Results]
    /\ idempotency \subseteq Answers
    /\ ledger \in Seq(Entries)
    /\ checkpoints \in Seq(Checkpoints)
    /\ pending \subseteq [handler: Handlers, request: Requests, at: Times]
    /\ finalizing \subseteq [worker: Finalizers, now: Times]
    /\ answers \subseteq Answers

(* Every database the handlers can produce, by any interleaving, clock     *)
(* step or crash, passes the complete audit: verifyCompleteOperationalState *)
(* never reports a registry whose rows all came from its own transactions. *)
AuditPasses ==
    /\ VerifyLedger
    /\ VerifyBatchOwners
    /\ VerifyIdempotencyRecords
    /\ VerifyNonceRecords
    /\ VerifyRevisions
    /\ VerifyCheckpoints

(* An idempotency key is spent once: whatever was retried, with whichever  *)
(* nonce, before or after a crash, all answers to one (signer, key) are    *)
(* the same record, and one key never owns two ledger entries or two       *)
(* deployments (readIdempotency and the fingerprint lookup).               *)
ExactlyOnce ==
    /\ \A a, b \in answers : a.signer = b.signer /\ a.key = b.key => a = b
    /\ \A i, j \in DOMAIN ledger :
        /\ ledger[i].request.signer = ledger[j].request.signer
        /\ ledger[i].request.key = ledger[j].request.key
        => i = j
    /\ \A i, j \in DOMAIN deployments :
        deployments[i].request.signer = deployments[j].request.signer => i = j

(* No request that passes validation is ever answered with                 *)
(* ErrInconsistentState or a missing record: a used nonce always has its   *)
(* idempotency record and a record its result, and the other deployments'  *)
(* active revenue never exceeds a 64-bit aggregate by itself.              *)
NeverInconsistent == \A p \in pending : Outcome(p) # "inconsistent"

(* The day a receipt promises (checkpoint_date) is kept: once the          *)
(* checkpoint of a day exists it covers exactly the entries accepted up to *)
(* that day, each of them and no later one, so a receipt can be checked    *)
(* against the published checkpoint and its inclusion proof.               *)
ReceiptsCovered ==
    \A n \in DOMAIN checkpoints, i \in DOMAIN ledger :
        /\ i <= checkpoints[n].through <=> Day(ledger[i].at) <= checkpoints[n].date
        /\ i <= checkpoints[n].through => checkpoints[n].head[i] = ledger[i]
        /\ checkpoints[n].count = checkpoints[n].through

(* Corrections of one deployment and period form one line in ledger order: *)
(* of two accepted corrections the later entry has the larger revision,    *)
(* and the newest entry is the active one the summaries read               *)
(* (ensureQualifiedMAURevision, ensureRevenueRevision).                    *)
CorrectionsOrdered ==
    \A i, j \in DOMAIN ledger :
        Corrects(i) /\ j \in ChainOf(i) /\ i < j
            => Revision(i) < Revision(j) /\ Supersedes(j) >= i

(* The active revenue of every period and currency fits a signed 64-bit    *)
(* aggregate, whatever was corrected in whichever order, so the public     *)
(* summary can always be computed (ensureRevenueAggregateCapacity).        *)
AggregateFits ==
    \A period \in Periods, c \in Currencies :
        RevenueTotal(ActiveRevenue(period, c), c) <= MaximumMinor

(* Requests, retries, clock steps and crashes add nothing to what the      *)
(* ledger promises: it implements the journal whose days are sealed one by *)
(* one and never reopened.                                                 *)
Journal == INSTANCE DailyJournal
    WITH FirstDay <- Day(CreatedAt),
         journal <- ledger,
         seals <- [n \in DOMAIN checkpoints |-> checkpoints[n].head]

ImplementsJournal == Journal!JournalSpec

(* Checkpoints must eventually appear: when the clock stays past a day,    *)
(* that day is sealed, although finalizers work from a clock they read     *)
(* earlier and although any of them may crash before its commit            *)
(* (RunCheckpointWorker).                                                  *)
CompletedDaysSealed ==
    \A d \in Day(CreatedAt)..Day(MaxTime) :
        (<>[](Day(clock) > d)) => <>(NextCheckpointDate > d)

(* The worker finalizes once at start and then on every tick of its timer, *)
(* and a finalization is not interrupted by a crash every single time.     *)
FinalizerFairness ==
    /\ \A f \in Finalizers : WF_vars(StartFinalize(f))
    /\ SF_vars(\E x \in finalizing : FinalizeCompletedCheckpoints(x))
=============================================================================
