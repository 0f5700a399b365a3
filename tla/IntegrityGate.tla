--------------------------- MODULE IntegrityGate ---------------------------
(***************************************************************************)
(* The integrity gate of the service (registry/service/service.go):        *)
(* VerifyState, the complete audit behind start-up, GET /healthz and the   *)
(* checkpoint worker, and verifyOperationalState, the bounded check in     *)
(* front of every request.  Both run under integrityMutex.  The            *)
(* transaction a request commits afterwards does not.                      *)
(*                                                                         *)
(* The database is abstracted to what the gate can see of it: how many     *)
(* commits other connections made (PRAGMA data_version counts only those), *)
(* whether some row is really inconsistent, and whether a transaction of   *)
(* this process committed between two of the audit's queries.  The audit   *)
(* is many queries and no transaction: verifyDeployments and verifyBatches *)
(* read the sources, verifyIdempotencyRecords and verifyNonceRecords, then *)
(* VerifyMerkleTree, read rows that refer to them.                         *)
(***************************************************************************)
EXTENDS Naturals, FiniteSets

CONSTANTS
    Handlers,    \* concurrent request goroutines
    Auditors,    \* goroutines that run the complete audit
    Probes,      \* the auditors with a request context, which may be cancelled
    MaxForeign   \* bound on the commits of other connections

ASSUME GateAssumption ==
    /\ Probes \subseteq Auditors
    /\ Handlers \cap Auditors = {}
    /\ "nobody" \notin Handlers \cup Auditors
    /\ MaxForeign \in Nat

VARIABLES
    up,               \* the server process runs
    corrupt,          \* the database really contains an inconsistent row
    foreign,          \* commits by other connections: data_version
    mutex,            \* holder of integrityMutex
    latch,            \* integrityFailure, by its cause; "none" is nil
    trusted,          \* operationalRevisionTrusted
    trustedRevision,  \* trustedOperationalRevision
    request,          \* progress of each request
    audit,            \* progress of each complete audit
    before,           \* the holder's first data_version
    dirty,            \* a commit added rows the holder's first queries missed
    reads,            \* values of foreign at the holder's queries (history)
    checked,          \* revisions some verification saw in full (history)
    found             \* an audit met a really inconsistent row (history)

process == <<mutex, latch, trusted, trustedRevision, request, audit, before>>
history == <<reads, checked, found>>
vars == <<up, corrupt, foreign, process, dirty, history>>

Release == mutex' = "nobody"

Acquire(x) == mutex = "nobody" /\ mutex' = x /\ before' = foreign /\ reads' = {}

Request(h, s) == request' = [request EXCEPT ![h] = s]
Audit(a, s) == audit' = [audit EXCEPT ![a] = s]

(* The current revision becomes the trusted one.                           *)
Trust ==
    /\ trustedRevision' = foreign
    /\ trusted' = TRUE
    /\ checked' = IF reads = {foreign} THEN checked \cup {foreign} ELSE checked

-----------------------------------------------------------------------------
(* verifyOperationalState, then the handler's transaction.                 *)

Arrive(h) ==
    /\ up /\ request[h] = "idle"
    /\ Request(h, "waiting")
    /\ UNCHANGED <<up, corrupt, foreign, mutex, latch, trusted, trustedRevision, audit,
                   before, dirty, history>>

(* The three ways through the locked prologue: fail closed, the trusted    *)
(* fast path, or the boundary verification.                                *)
GateRefuses(h) ==
    /\ request[h] = "waiting" /\ mutex = "nobody"
    /\ latch # "none"
    /\ Request(h, "idle")
    /\ UNCHANGED <<up, corrupt, foreign, mutex, latch, trusted, trustedRevision, audit,
                   before, dirty, history>>

(* Mutant: the fast path is taken before the latch is looked at.           *)
GateTrustsFirst(h) ==
    /\ request[h] = "waiting" /\ mutex = "nobody"
    /\ trusted /\ foreign = trustedRevision
    /\ Request(h, "commit")
    /\ UNCHANGED <<up, corrupt, foreign, mutex, latch, trusted, trustedRevision, audit,
                   before, dirty, history>>

GateTrusts(h) ==
    /\ request[h] = "waiting" /\ mutex = "nobody"
    /\ latch = "none"
    /\ trusted /\ foreign = trustedRevision
    /\ Request(h, "commit")
    /\ UNCHANGED <<up, corrupt, foreign, mutex, latch, trusted, trustedRevision, audit,
                   before, dirty, history>>

GateVerifies(h) ==
    /\ request[h] = "waiting"
    /\ latch = "none"
    /\ ~(trusted /\ foreign = trustedRevision)
    /\ Acquire(h)
    /\ Request(h, "heads")
    /\ UNCHANGED <<up, corrupt, foreign, latch, trusted, trustedRevision, audit, dirty,
                   checked, found>>

(* The first read of data_version fails, for example because the request's *)
(* context has ended.                                                      *)
GateFails(h) ==
    /\ request[h] = "waiting" /\ mutex = "nobody"
    /\ latch = "none"
    /\ Request(h, "idle")
    /\ UNCHANGED <<up, corrupt, foreign, mutex, latch, trusted, trustedRevision, audit,
                   before, dirty, history>>

(* VerifyOperationalBoundary reads the chain heads; the low-volume chains  *)
(* are replayed after it.  A bounded check may miss an inconsistent row.   *)
VerifyHeads(h) ==
    /\ request[h] = "heads"
    /\ reads' = reads \cup {foreign}
    /\ Request(h, "chains")
    /\ UNCHANGED <<up, corrupt, foreign, mutex, latch, trusted, trustedRevision, audit,
                   before, dirty, checked, found>>

VerifyChains(h) ==
    /\ request[h] = "chains"
    /\ reads' = reads \cup {foreign}
    /\ Request(h, "recheck")
    /\ UNCHANGED <<up, corrupt, foreign, mutex, latch, trusted, trustedRevision, audit,
                   before, dirty, checked, found>>

(* A check or a later read fails: the request is refused and nothing is    *)
(* latched.                                                                *)
VerifyFails(h) ==
    /\ request[h] \in {"heads", "chains", "recheck"}
    /\ Release
    /\ Request(h, "idle")
    /\ UNCHANGED <<up, corrupt, foreign, latch, trusted, trustedRevision, audit, before,
                   dirty, history>>

(* Mutant: the second data_version is trusted without comparing it.        *)
RecheckUncompared(h) ==
    /\ request[h] = "recheck"
    /\ Trust
    /\ Request(h, "commit")
    /\ Release
    /\ UNCHANGED <<up, corrupt, foreign, latch, audit, before, dirty, reads, found>>

(* Mutant: the early return leaves the mutex locked.                       *)
RecheckKeepsMutex(h) ==
    /\ request[h] = "recheck"
    /\ \/ foreign = before /\ Trust /\ Request(h, "commit") /\ Release
       \/ /\ foreign # before
          /\ Request(h, "idle")
          /\ UNCHANGED <<mutex, trusted, trustedRevision, checked>>
    /\ UNCHANGED <<up, corrupt, foreign, latch, audit, before, dirty, reads, found>>

(* The second data_version: equal, and the revision is trusted; changed,   *)
(* and the request is refused.                                             *)
Recheck(h) ==
    /\ request[h] = "recheck"
    /\ \/ foreign = before /\ Trust /\ Request(h, "commit")
       \/ /\ foreign # before
          /\ Request(h, "idle")
          /\ UNCHANGED <<trusted, trustedRevision, checked>>
    /\ Release
    /\ UNCHANGED <<up, corrupt, foreign, latch, audit, before, dirty, reads, found>>

(* The store transaction, outside the mutex.  Rows it adds may refer to    *)
(* rows that a running audit did not see.  A transaction that fails or is  *)
(* abandoned adds none.                                                    *)
Commit(h) ==
    /\ request[h] = "commit"
    /\ Request(h, "idle")
    /\ dirty' \in {dirty, TRUE}
    /\ UNCHANGED <<up, corrupt, foreign, mutex, latch, trusted, trustedRevision, audit,
                   before, history>>

-----------------------------------------------------------------------------
(* VerifyState.                                                            *)

StartAudit(a) ==
    /\ up /\ audit[a] = "idle"
    /\ Acquire(a)
    /\ Audit(a, "sources")
    /\ UNCHANGED <<up, corrupt, foreign, latch, trusted, trustedRevision, request, dirty,
                   checked, found>>

AuditSources(a) ==
    /\ audit[a] = "sources"
    /\ ~corrupt
    /\ reads' = reads \cup {foreign}
    /\ dirty' = FALSE
    /\ Audit(a, "references")
    /\ UNCHANGED <<up, corrupt, foreign, mutex, latch, trusted, trustedRevision, request,
                   before, checked, found>>

AuditReferences(a) ==
    /\ audit[a] = "references"
    /\ ~corrupt /\ ~dirty
    /\ reads' = reads \cup {foreign}
    /\ Audit(a, "recheck")
    /\ UNCHANGED <<up, corrupt, foreign, mutex, latch, trusted, trustedRevision, request,
                   before, dirty, checked, found>>

(* Mutant: the failed audit is reported to its caller only.                *)
AuditFailsUnlatched(a) ==
    /\ \/ audit[a] = "sources" /\ corrupt
       \/ audit[a] = "references" /\ (corrupt \/ dirty)
    /\ Release
    /\ Audit(a, "idle")
    /\ found' = (found \/ corrupt)
    /\ UNCHANGED <<up, corrupt, foreign, latch, trusted, trustedRevision, request, before,
                   dirty, reads, checked>>

(* A query meets an inconsistent row, or a row whose source was committed  *)
(* after the sources were read.                                            *)
AuditFails(a) ==
    /\ \/ audit[a] = "sources" /\ corrupt
       \/ audit[a] = "references" /\ (corrupt \/ dirty)
    /\ latch' = "inconsistent"
    /\ Release
    /\ Audit(a, "idle")
    /\ found' = (found \/ corrupt)
    /\ UNCHANGED <<up, corrupt, foreign, trusted, trustedRevision, request, before, dirty,
                   reads, checked>>

(* The context of GET /healthz ends and the next query returns its error.  *)
AuditCancelled(a) ==
    /\ a \in Probes
    /\ audit[a] \in {"sources", "references", "recheck"}
    /\ latch' = "cancelled"
    /\ Release
    /\ Audit(a, "idle")
    /\ UNCHANGED <<up, corrupt, foreign, trusted, trustedRevision, request, before, dirty,
                   history>>

(* The second data_version ends the audit.                                 *)
AuditRecheck(a) ==
    /\ audit[a] = "recheck"
    /\ \/ foreign = before /\ latch' = "none" /\ Trust
       \/ /\ foreign # before
          /\ latch' = "changed"
          /\ UNCHANGED <<trusted, trustedRevision, checked>>
    /\ Release
    /\ Audit(a, "idle")
    /\ UNCHANGED <<up, corrupt, foreign, request, before, dirty, reads, found>>

-----------------------------------------------------------------------------
(* The environment.                                                        *)

(* A local CLI process commits through its own connection.                 *)
ForeignCommit ==
    /\ foreign < MaxForeign
    /\ foreign' = foreign + 1
    /\ dirty' \in {dirty, TRUE}
    /\ UNCHANGED <<up, corrupt, process, history>>

(* A row is damaged, by an edit through another connection or on disk.     *)
Damage ==
    /\ ~corrupt
    /\ foreign < MaxForeign
    /\ corrupt' = TRUE
    /\ foreign' \in {foreign, foreign + 1}
    /\ UNCHANGED <<up, process, dirty, history>>

Crash ==
    /\ up
    /\ up' = FALSE
    /\ mutex' = "nobody"
    /\ latch' = "none"
    /\ trusted' = FALSE
    /\ request' = [h \in Handlers |-> "idle"]
    /\ audit' = [a \in Auditors |-> "idle"]
    /\ UNCHANGED <<corrupt, foreign, trustedRevision, before, dirty, history>>

(* An administrator restores a backup of the stopped registry.             *)
Restore ==
    /\ ~up /\ corrupt
    /\ corrupt' = FALSE
    /\ found' = FALSE
    /\ UNCHANGED <<up, foreign, process, dirty, reads, checked>>

(* Bootstrap runs VerifyState before the listener opens and does not start *)
(* a registry that fails it.                                               *)
Boot ==
    /\ ~up /\ ~corrupt
    /\ up' = TRUE
    /\ trusted' = TRUE
    /\ trustedRevision' = foreign
    /\ checked' = checked \cup {foreign}
    /\ UNCHANGED <<corrupt, foreign, mutex, latch, request, audit, before, dirty, reads,
                   found>>

Init ==
    /\ up = FALSE
    /\ corrupt = FALSE
    /\ foreign = 0
    /\ mutex = "nobody"
    /\ latch = "none"
    /\ trusted = FALSE
    /\ trustedRevision = 0
    /\ request = [h \in Handlers |-> "idle"]
    /\ audit = [a \in Auditors |-> "idle"]
    /\ before = 0
    /\ dirty = FALSE
    /\ reads = {}
    /\ checked = {}
    /\ found = FALSE

HandlerStep(h) ==
    \/ GateRefuses(h) \/ GateTrusts(h) \/ GateVerifies(h) \/ GateFails(h)
    \/ VerifyHeads(h) \/ VerifyChains(h) \/ VerifyFails(h)
    \/ Recheck(h)
    \/ Commit(h)

AuditStep(a) ==
    AuditSources(a) \/ AuditReferences(a) \/ AuditFails(a) \/ AuditRecheck(a)

Next ==
    \/ \E h \in Handlers : Arrive(h) \/ HandlerStep(h)
    \/ \E a \in Auditors : StartAudit(a) \/ AuditStep(a) \/ AuditCancelled(a)
    \/ ForeignCommit \/ Damage \/ Crash \/ Restore \/ Boot

Spec == Init /\ [][Next]_vars

(* A goroutine that may run does run.  sync.Mutex hands itself to every    *)
(* waiter in the end (starvation mode), hence strong fairness where it is  *)
(* acquired.  The checkpoint worker audits on every tick of its timer, and *)
(* nothing cancels it before shutdown.                                     *)
Fairness ==
    /\ \A h \in Handlers : SF_vars(HandlerStep(h))
    /\ \A a \in Auditors : WF_vars(AuditStep(a))
    /\ \A a \in Auditors \ Probes : SF_vars(StartAudit(a))

FairSpec == Spec /\ Fairness

-----------------------------------------------------------------------------
(* Properties.                                                             *)

(* The gate's fields have their types (service.Service).                   *)
TypeOK ==
    /\ up \in BOOLEAN /\ corrupt \in BOOLEAN /\ trusted \in BOOLEAN
    /\ dirty \in BOOLEAN /\ found \in BOOLEAN
    /\ foreign \in 0..MaxForeign
    /\ trustedRevision \in 0..MaxForeign /\ before \in 0..MaxForeign
    /\ reads \subseteq 0..MaxForeign /\ checked \subseteq 0..MaxForeign
    /\ latch \in {"none", "inconsistent", "cancelled", "changed"}
    /\ mutex \in Handlers \cup Auditors \cup {"nobody"}
    /\ request \in [Handlers -> {"idle", "waiting", "heads", "chains", "recheck", "commit"}]
    /\ audit \in [Auditors -> {"idle", "sources", "references", "recheck"}]

(* integrityMutex is held by exactly the goroutine that is inside a        *)
(* verification, so two verifications never mix their reads.               *)
MutexHeld ==
    /\ \A h \in Handlers : mutex = h <=> request[h] \in {"heads", "chains", "recheck"}
    /\ \A a \in Auditors : mutex = a <=> audit[a] # "idle"

(* The revision the fast path trusts is one that a verification saw from   *)
(* its first query to its last: a commit of another connection that lands  *)
(* before, between or after the queries is never trusted unseen            *)
(* (service.go, the second OperationalRevision).                           *)
TrustedWasChecked == trusted => trustedRevision \in checked

(* Fail closed: once an audit has met an inconsistent row, no request      *)
(* passes the gate until the database is restored, whatever later boundary *)
(* checks, cancelled probes and audits do.  Requests that passed before    *)
(* may still commit.                                                       *)
FailClosed ==
    [][\A h \in Handlers :
        request[h] # "commit" /\ request'[h] = "commit" => ~found]_vars

(* The latch opens again: while the database is sound, a latched failure   *)
(* is cleared in the end.  The latch itself makes that true, because it    *)
(* keeps out the writers whose commits disturbed the audit.                *)
LatchClears == (latch # "none") ~> (latch = "none" \/ corrupt)

(* Every request is answered: nobody keeps the mutex.                      *)
RequestsAnswered == \A h \in Handlers : (request[h] # "idle") ~> (request[h] = "idle")

(* ErrInconsistentState is defined as "registry database contains          *)
(* inconsistent state": an audit that latches it has met such a state.     *)
AlarmsAreReal == latch = "inconsistent" => corrupt
=============================================================================
