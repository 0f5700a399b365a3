----------------------- MODULE IntegrityGate_proofs ------------------------
(***************************************************************************)
(* Proofs about the integrity gate, for every number of handlers and       *)
(* auditors and every number of commits by other connections.              *)
(***************************************************************************)
EXTENDS IntegrityGate, TLAPS

Verifying == {"heads", "chains", "recheck"}

(* The values of data_version at the holder's queries lie between its      *)
(* first read and now; after the queries there is at least one.            *)
ReadsBracketed ==
    mutex # "nobody" =>
        /\ before <= foreign
        /\ \A r \in reads : before <= r /\ r <= foreign
        /\ (\E h \in Handlers : request[h] = "recheck") => reads # {}
        /\ (\E a \in Auditors : audit[a] = "recheck") => reads # {}

(* An inconsistency that was found is still there, is latched while the    *)
(* server runs, and no verification is in a position to pass.              *)
FoundIsLatched ==
    /\ found => corrupt
    /\ up /\ found => latch # "none"
    /\ found => /\ \A h \in Handlers : request[h] \notin Verifying
                /\ \A a \in Auditors : audit[a] \notin {"references", "recheck"}

DownIsIdle ==
    ~up => /\ mutex = "nobody"
           /\ \A h \in Handlers : request[h] = "idle"
           /\ \A a \in Auditors : audit[a] = "idle"

(* The inductive invariant of the gate, next to the types.                 *)
GateSafe ==
    /\ MutexHeld
    /\ DownIsIdle
    /\ ReadsBracketed
    /\ FoundIsLatched
    /\ TrustedWasChecked

GateInv == TypeOK /\ GateSafe

(* They hold when the process has not started.                             *)
LEMMA GateInit == Init => GateInv
<1> SUFFICES ASSUME Init PROVE GateInv
  OBVIOUS
<1>1. TypeOK
  <2>1. up \in BOOLEAN /\ corrupt \in BOOLEAN /\ trusted \in BOOLEAN
          /\ dirty \in BOOLEAN /\ found \in BOOLEAN
    BY Zenon DEF Init
  <2>2. /\ request \in [Handlers -> {"idle", "waiting", "heads", "chains", "recheck", "commit"}]
        /\ audit \in [Auditors -> {"idle", "sources", "references", "recheck"}]
    BY DEF Init
  <2>3. QED
    BY <2>1, <2>2, GateAssumption DEF Init, TypeOK
<1>2. MutexHeld
  BY GateAssumption DEF Init, MutexHeld
<1>3. DownIsIdle /\ ReadsBracketed /\ TrustedWasChecked
  BY DEF Init, DownIsIdle, ReadsBracketed, TrustedWasChecked
<1>4. FoundIsLatched
  BY DEF Init, FoundIsLatched
<1>5. QED
  BY <1>1, <1>2, <1>3, <1>4 DEF GateInv, GateSafe

(* Every step keeps the types.                                             *)
LEMMA GateTypeStep == GateInv /\ [Next]_vars => TypeOK'
<1> SUFFICES ASSUME GateInv, [Next]_vars PROVE TypeOK'
  OBVIOUS
<1> USE GateAssumption DEF GateInv, TypeOK, process, history
<1>1. ASSUME NEW h \in Handlers, Arrive(h) \/ HandlerStep(h) PROVE TypeOK'
  <2>1. CASE Arrive(h)
    BY <2>1 DEF Arrive, Request
  <2>2. CASE GateRefuses(h)
    BY <2>2 DEF GateRefuses, Request
  <2>3. CASE GateTrusts(h)
    BY <2>3 DEF GateTrusts, Request
  <2>4. CASE GateVerifies(h)
    BY <2>4 DEF GateVerifies, Request, Acquire
  <2>5. CASE VerifyHeads(h)
    BY <2>5 DEF VerifyHeads, Request
  <2>6. CASE VerifyChains(h)
    BY <2>6 DEF VerifyChains, Request
  <2>7. CASE VerifyFails(h)
    BY <2>7 DEF VerifyFails, Request, Release
  <2>8. CASE Recheck(h)
    BY <2>8 DEF Recheck, Request, Release, Trust
  <2>9. CASE Commit(h)
    BY <2>9 DEF Commit, Request
  <2>10. CASE GateFails(h)
    BY <2>10 DEF GateFails, Request
  <2>11. QED
    BY <1>1, <2>1, <2>2, <2>3, <2>4, <2>5, <2>6, <2>7, <2>8, <2>9, <2>10 DEF HandlerStep
<1>2. ASSUME NEW a \in Auditors, StartAudit(a) \/ AuditStep(a) \/ AuditCancelled(a)
      PROVE  TypeOK'
  <2>1. CASE StartAudit(a)
    BY <2>1 DEF StartAudit, Audit, Acquire
  <2>2. CASE AuditSources(a)
    BY <2>2 DEF AuditSources, Audit
  <2>3. CASE AuditReferences(a)
    BY <2>3 DEF AuditReferences, Audit
  <2>4. CASE AuditFails(a)
    <3>1. found' \in BOOLEAN
      BY <2>4, Zenon DEF AuditFails
    <3>2. QED
      BY <2>4, <3>1 DEF AuditFails, Audit, Release
  <2>5. CASE AuditRecheck(a)
    BY <2>5 DEF AuditRecheck, Audit, Release, Trust
  <2>6. CASE AuditCancelled(a)
    BY <2>6 DEF AuditCancelled, Audit, Release
  <2>7. QED
    BY <1>2, <2>1, <2>2, <2>3, <2>4, <2>5, <2>6 DEF AuditStep
<1>3. CASE ForeignCommit
  <2>1. dirty' \in BOOLEAN
    <3>1. dirty' = dirty \/ dirty' = TRUE
      BY <1>3 DEF ForeignCommit
    <3>2. QED
      BY <3>1, Zenon
  <2>2. foreign' \in 0..MaxForeign
    BY <1>3 DEF ForeignCommit
  <2>3. QED
    BY <1>3, <2>1, <2>2 DEF ForeignCommit
<1>4. CASE Damage
  BY <1>4 DEF Damage
<1>5. CASE Crash
  <2>1. up' \in BOOLEAN /\ trusted' \in BOOLEAN
    BY <1>5, Zenon DEF Crash
  <2>2. /\ request' \in [Handlers -> {"idle", "waiting", "heads", "chains", "recheck", "commit"}]
        /\ audit' \in [Auditors -> {"idle", "sources", "references", "recheck"}]
    BY <1>5 DEF Crash
  <2>3. QED
    BY <1>5, <2>1, <2>2 DEF Crash
<1>6. CASE Restore
  BY <1>6 DEF Restore
<1>7. CASE Boot
  BY <1>7 DEF Boot
<1>8. CASE UNCHANGED vars
  BY <1>8 DEF vars
<1>9. QED
  BY <1>1, <1>2, <1>3, <1>4, <1>5, <1>6, <1>7, <1>8 DEF Next

(* A verification whose two revisions agree saw that revision in every     *)
(* query.                                                                  *)
LEMMA ReadsAgree ==
    ASSUME GateInv, foreign = before, mutex # "nobody",
           \/ \E h \in Handlers : request[h] = "recheck"
           \/ \E a \in Auditors : audit[a] = "recheck"
    PROVE  reads = {foreign}
<1>1. foreign \in Nat /\ \A r \in reads : r \in Nat
  BY GateAssumption DEF GateInv, TypeOK
<1>2. \A r \in reads : r = foreign
  BY <1>1 DEF GateInv, GateSafe, ReadsBracketed
<1>3. reads # {}
  BY DEF GateInv, GateSafe, ReadsBracketed
<1>4. QED
  BY <1>2, <1>3

(* Every step keeps the invariant.                                         *)
LEMMA SafeStep == GateInv /\ [Next]_vars => GateSafe'
<1> SUFFICES ASSUME GateInv, [Next]_vars PROVE GateSafe'
  OBVIOUS
<1> USE GateAssumption DEF GateInv, TypeOK, process, history, GateSafe,
            MutexHeld, DownIsIdle, ReadsBracketed, FoundIsLatched, TrustedWasChecked,
            Verifying
<1>1. ASSUME NEW h \in Handlers, Arrive(h) \/ HandlerStep(h) PROVE GateSafe'
  <2>1. CASE Arrive(h)
    BY <2>1 DEF Arrive, Request
  <2>2. CASE GateRefuses(h)
    BY <2>2 DEF GateRefuses, Request
  <2>3. CASE GateTrusts(h)
    BY <2>3 DEF GateTrusts, Request
  <2>4. CASE GateVerifies(h)
    BY <2>4 DEF GateVerifies, Request, Acquire
  <2>5. CASE VerifyHeads(h)
    BY <2>5 DEF VerifyHeads, Request
  <2>6. CASE VerifyChains(h)
    BY <2>6 DEF VerifyChains, Request
  <2>7. CASE VerifyFails(h)
    BY <2>7 DEF VerifyFails, Request, Release
  <2>8. CASE Recheck(h)
    <3>1. mutex = h /\ mutex # "nobody"
      BY <2>8 DEF Recheck
    <3>2. TrustedWasChecked'
      <4>1. CASE foreign = before
        <5>1. reads = {foreign}
          BY <2>8, <3>1, <4>1, ReadsAgree DEF Recheck
        <5>2. QED
          BY <2>8, <4>1, <5>1 DEF Recheck, Trust
      <4>2. CASE foreign # before
        BY <2>8, <4>2 DEF Recheck, Trust
      <4>3. QED
        BY <4>1, <4>2
    <3>3. MutexHeld'
      BY <2>8, <3>1 DEF Recheck, Request, Release
    <3>4. DownIsIdle' /\ ReadsBracketed'
      BY <2>8 DEF Recheck, Request, Release
    <3>5. FoundIsLatched'
      BY <2>8 DEF Recheck, Request
    <3>6. QED
      BY <3>2, <3>3, <3>4, <3>5
  <2>9. CASE Commit(h)
    BY <2>9 DEF Commit, Request
  <2>10. CASE GateFails(h)
    BY <2>10 DEF GateFails, Request
  <2>11. QED
    BY <1>1, <2>1, <2>2, <2>3, <2>4, <2>5, <2>6, <2>7, <2>8, <2>9, <2>10 DEF HandlerStep
<1>2. ASSUME NEW a \in Auditors, StartAudit(a) \/ AuditStep(a) \/ AuditCancelled(a)
      PROVE  GateSafe'
  <2>1. CASE StartAudit(a)
    BY <2>1 DEF StartAudit, Audit, Acquire
  <2>2. CASE AuditSources(a)
    BY <2>2 DEF AuditSources, Audit
  <2>3. CASE AuditReferences(a)
    BY <2>3 DEF AuditReferences, Audit
  <2>4. CASE AuditFails(a)
    BY <2>4 DEF AuditFails, Audit, Release
  <2>5. CASE AuditRecheck(a)
    <3>1. mutex = a /\ mutex # "nobody"
      BY <2>5 DEF AuditRecheck
    <3>2. TrustedWasChecked'
      <4>1. CASE foreign = before
        <5>1. reads = {foreign}
          BY <2>5, <3>1, <4>1, ReadsAgree DEF AuditRecheck
        <5>2. QED
          BY <2>5, <4>1, <5>1 DEF AuditRecheck, Trust
      <4>2. CASE foreign # before
        BY <2>5, <4>2 DEF AuditRecheck, Trust
      <4>3. QED
        BY <4>1, <4>2
    <3>3. MutexHeld'
      BY <2>5, <3>1 DEF AuditRecheck, Audit, Release
    <3>4. DownIsIdle' /\ ReadsBracketed'
      BY <2>5 DEF AuditRecheck, Audit, Release
    <3>5. FoundIsLatched'
      BY <2>5 DEF AuditRecheck, Audit
    <3>6. QED
      BY <3>2, <3>3, <3>4, <3>5
  <2>6. CASE AuditCancelled(a)
    BY <2>6 DEF AuditCancelled, Audit, Release
  <2>7. QED
    BY <1>2, <2>1, <2>2, <2>3, <2>4, <2>5, <2>6 DEF AuditStep
<1>3. CASE ForeignCommit
  BY <1>3 DEF ForeignCommit
<1>4. CASE Damage
  BY <1>4 DEF Damage
<1>5. CASE Crash
  BY <1>5 DEF Crash
<1>6. CASE Restore
  BY <1>6 DEF Restore
<1>7. CASE Boot
  BY <1>7 DEF Boot
<1>8. CASE UNCHANGED vars
  BY <1>8 DEF vars
<1>9. QED
  BY <1>1, <1>2, <1>3, <1>4, <1>5, <1>6, <1>7, <1>8 DEF Next

(* The types and the facts above hold in every state of the gate, through  *)
(* crashes, restarts and commits of other connections.                     *)
THEOREM GateInvariant == Spec => []GateInv
<1>1. GateInv /\ [Next]_vars => GateInv'
  BY GateTypeStep, SafeStep DEF GateInv
<1>2. QED
  BY <1>1, GateInit, PTL DEF Spec

(* integrityMutex excludes: no two verifications mix their reads, and      *)
(* every way out of one, an error or a crash included, gives it back.      *)
THEOREM MutexHolds == Spec => []MutexHeld
<1>1. GateInv => MutexHeld
  BY DEF GateInv, GateSafe
<1>2. QED
  BY <1>1, GateInvariant, PTL

(* The two reads of data_version suffice: whatever other connections       *)
(* commit, and whenever, the revision the fast path trusts was seen in     *)
(* full by one verification.                                               *)
THEOREM TrustedWasCheckedHolds == Spec => []TrustedWasChecked
<1>1. GateInv => TrustedWasChecked
  BY DEF GateInv, GateSafe
<1>2. QED
  BY <1>1, GateInvariant, PTL

(* An inconsistency that a complete audit has met keeps the gate shut for  *)
(* every request until the database is restored.                           *)
THEOREM FailClosedHolds == Spec => FailClosed
<1>1. ASSUME GateInv, [Next]_vars, NEW h \in Handlers,
             request[h] # "commit", request'[h] = "commit"
      PROVE  ~found
  <2> USE GateAssumption DEF GateInv, TypeOK, GateSafe, DownIsIdle, FoundIsLatched, Verifying
  <2>1. CASE \E x \in Handlers : Arrive(x) \/ HandlerStep(x)
    <3>1. PICK x \in Handlers : Arrive(x) \/ HandlerStep(x)
      BY <2>1
    <3>2. GateTrusts(x) \/ Recheck(x)
      BY <1>1, <3>1 DEF HandlerStep, Arrive, GateRefuses, GateVerifies, VerifyHeads,
                        VerifyChains, VerifyFails, GateFails, Commit, Request
    <3>3. up
      BY <1>1, <3>2 DEF GateTrusts, Recheck
    <3>4. CASE GateTrusts(x)
      BY <1>1, <3>3, <3>4 DEF GateTrusts
    <3>5. CASE Recheck(x)
      BY <1>1, <3>5 DEF Recheck
    <3>6. QED
      BY <1>1, <3>2, <3>4, <3>5
  <2>2. CASE \E a \in Auditors : StartAudit(a) \/ AuditStep(a) \/ AuditCancelled(a)
    BY <1>1, <2>2 DEF StartAudit, AuditStep, AuditSources, AuditReferences, AuditFails,
                      AuditRecheck, AuditCancelled
  <2>3. CASE ForeignCommit \/ Damage \/ Crash \/ Restore \/ Boot
    BY <1>1, <2>3 DEF ForeignCommit, Damage, Crash, Restore, Boot, process
  <2>4. CASE UNCHANGED vars
    BY <1>1, <2>4 DEF vars, process
  <2>5. QED
    BY <1>1, <2>1, <2>2, <2>3, <2>4 DEF Next
<1>2. GateInv /\ [Next]_vars =>
        [\A h \in Handlers : request[h] # "commit" /\ request'[h] = "commit" => ~found]_vars
  BY <1>1
<1>3. QED
  BY <1>2, GateInvariant, PTL DEF Spec, FailClosed
=============================================================================
