------------------------ MODULE GlobalIdentityAudit -------------------------
(***************************************************************************)
(* The audit of the global identity tables                                 *)
(* (store/sqlite/global_identity_verify.go and                             *)
(* global_identity_presence_chunk_verify.go) and the properties of         *)
(* GlobalIdentity.                                                         *)
(***************************************************************************)
EXTENDS GlobalIdentity, FiniteSetsExt

(* The rows of each table.                                                 *)

Ids == 0..Len(events)

EventRows ==
    [action: {"LINK", "UNLINK", "CORRECT", "PRESENCE"}, deployment: Deployments,
     period: Periods, link: Ids, gid: Ids, status: {"", "ACTIVE", "UNLINKED"},
     version: Versions, commitment: Commitments \cup {0}, from: Periods \cup {0},
     until: Periods \cup {0}]

LinkRows ==
    [deployment: Deployments, gid: DOMAIN events, status: {"ACTIVE", "UNLINKED"},
     version: Versions, commitment: Commitments, from: Periods, until: Periods \cup {0},
     latest: DOMAIN events]

BatchRows ==
    [id: DOMAIN events, deployment: Deployments, period: Periods, revision: Nat \ {0},
     supersedes: Ids, reported: Counts, version: Versions, items: Lists]

ManifestRows ==
    [deployment: Deployments, period: Periods, revision: Nat \ {0}, supersedes: Ids,
     reported: Counts, version: Versions, count: 1..MaxItems, set: Lists]

SubmissionRows == [manifest: ManifestRows, event: Ids, chunks: Seq(Lists)]

SnapshotRows ==
    [period: Periods, revision: 1..Len(events), reported: Nat, linked: Nat, unique: Nat,
     unlinked: Nat, deduplicated: Nat, covered: Nat, through: DOMAIN events]

(* The rows of the tables, with a snapshot for every event.                *)
RowsTyped ==
    /\ active \in Versions
    /\ qmau \in [Deployments -> [Periods -> Seq(Counts)]]
    /\ events \in Seq(EventRows)
    /\ DOMAIN links \subseteq DOMAIN events
    /\ \A l \in DOMAIN links : links[l] \in LinkRows
    /\ aliases \in [AliasKeys -> Ids]
    /\ identities \subseteq DOMAIN events
    /\ submissions \in Seq(SubmissionRows)
    /\ batches \subseteq BatchRows
    /\ snapshots \in Seq(SnapshotRows)
    /\ \A i \in DOMAIN events : i \in DOMAIN snapshots /\ snapshots[i].through = i

(* The clock, and an accepted_at that it has shown for every event and     *)
(* every chunk.                                                            *)
TimesTyped ==
    /\ clock \in Times
    /\ times \in [DOMAIN events -> 1..clock]
    /\ DOMAIN chunkTimes = DOMAIN submissions
    /\ \A s \in DOMAIN submissions :
        chunkTimes[s] \in [DOMAIN submissions[s].chunks -> 1..clock]

(* Every variable has the type of its table, and every event has its       *)
(* snapshot.                                                               *)
TypeOK == RowsTyped /\ TimesTyped

-----------------------------------------------------------------------------
(* verifyGlobalIdentityDirectRows: the link history, replayed.             *)

LinkActions == {"LINK", "UNLINK", "CORRECT"}
LinkEvents == {i \in DOMAIN events : events[i].action \in LinkActions}

Earlier(i) == {j \in LinkEvents : j < i /\ events[j].link = events[i].link}
Previous(i) == events[Max(Earlier(i))]
KeyOf(e) == <<e.version, e.commitment>>

(* What a correction joined: the key the link had and the one it received. *)
Correction(i) == <<KeyOf(Previous(i)), KeyOf(events[i])>>

ReplayedAliases(n) ==
    LET Replay[i \in 0..n] ==
            IF i = 0 THEN [k \in AliasKeys |-> 0]
            ELSE LET e == events[i]
                     before == Replay[i - 1]
                     key == KeyOf(e)
                 IN  CASE e.action = "LINK" /\ before[key] = 0 ->
                            [before EXCEPT ![key] = e.gid]
                       [] e.action = "CORRECT" ->
                            LET source == before[KeyOf(Previous(i))]
                                target == IF before[key] = 0 THEN source ELSE before[key]
                            IN  [k \in AliasKeys |->
                                    IF k = key \/ before[k] = source THEN target
                                    ELSE before[k]]
                       [] OTHER -> before
    IN  Replay[n]

(* The transition of the link that event i records.                        *)
TransitionValid(i) ==
    LET e == events[i]
    IN  \/ /\ e.action = "LINK"
           /\ Earlier(i) = {}
           /\ <<e.status, e.from, e.until>> = <<"ACTIVE", e.period, 0>>
           /\ e.gid = ReplayedAliases(i)[KeyOf(e)]
        \/ /\ e.action = "UNLINK"
           /\ Earlier(i) # {}
           /\ Previous(i).status = "ACTIVE"
           /\ e.status = "UNLINKED"
           /\ e.until = e.period
           /\ <<e.gid, e.from, KeyOf(e)>> =
                <<Previous(i).gid, Previous(i).from, KeyOf(Previous(i))>>
        \/ /\ e.action = "CORRECT"
           /\ Earlier(i) # {}
           /\ Previous(i).status = "ACTIVE"
           /\ <<e.status, e.from, e.until>> = <<"ACTIVE", Previous(i).from, 0>>
           /\ ReplayedAliases(i - 1)[KeyOf(Previous(i))] # 0
           /\ e.gid = ReplayedAliases(i)[KeyOf(e)]

(* The current links, aliases and identities are what the history says.    *)
DirectRowsValid ==
    /\ \A i \in LinkEvents : TransitionValid(i)
    /\ DOMAIN links = {events[i].link : i \in LinkEvents}
    /\ \A l \in DOMAIN links :
        LET e == events[links[l].latest]
        IN  /\ e.link = l
            /\ links[l] = [deployment |-> e.deployment, gid |-> e.gid, status |-> e.status,
                           version |-> e.version, commitment |-> e.commitment,
                           from |-> e.from, until |-> e.until, latest |-> links[l].latest]
    /\ aliases = ReplayedAliases(Len(events))
    /\ identities = {events[i].gid : i \in {j \in LinkEvents :
                        /\ events[j].action = "LINK"
                        /\ ReplayedAliases(j - 1)[KeyOf(events[j])] = 0}}

-----------------------------------------------------------------------------
(* globalIdentityEventSource and verifyGlobalIdentityEvents.               *)

PriorBatches(b) ==
    {n \in batches : /\ n.deployment = b.deployment
                     /\ n.period = b.period
                     /\ n.revision < b.revision}

(* The batch of a presence event: its counts, its QMAU source, its place   *)
(* in the revisions, and a link in force behind every item, as of then.    *)
BatchValid(b) ==
    LET e == events[b.id]
    IN  /\ <<e.action, e.deployment, e.period, e.version>> =
                <<"PRESENCE", b.deployment, b.period, b.version>>
        /\ Sorted(b.items)
        /\ Len(b.items) <= b.reported
        /\ b.revision \in DOMAIN qmau[b.deployment][b.period]
        /\ qmau[b.deployment][b.period][b.revision] = b.reported
        /\ IF PriorBatches(b) = {} THEN b.supersedes = 0
           ELSE \E n \in PriorBatches(b) :
                    b.revision = n.revision + 1 /\ b.supersedes = n.id
        /\ \A i \in DOMAIN b.items :
            ActiveForPeriod(b.deployment, b.version, b.items[i], b.period, b.id)

EventsValid ==
    /\ {b.id : b \in batches} = DOMAIN events \ LinkEvents
    /\ \A b \in batches : BatchValid(b)

(* The accepted_at order that verifyGlobalIdentityEvents requires of the   *)
(* chain.                                                                  *)
EventTimesOrdered == \A i \in 1..(Len(events) - 1) : times[i] <= times[i + 1]

(* verifyGlobalIdentitySnapshots.                                          *)
SnapshotsValid ==
    \A i \in DOMAIN snapshots :
        LET s == snapshots[i]
        IN  /\ s.period = events[i].period
            /\ s.revision = Cardinality({j \in 1..i : snapshots[j].period = s.period})
            /\ s.deduplicated = s.unique + s.unlinked
            /\ s.deduplicated <= s.reported

(* verifyGlobalIdentityPresenceSubmissionSource: the QMAU report and, in   *)
(* PriorRevisionValid, the batch before.                                   *)
SubmissionSourceValid(m) ==
    /\ m.revision \in DOMAIN qmau[m.deployment][m.period]
    /\ qmau[m.deployment][m.period][m.revision] = m.reported

PriorRevisionValid(m) ==
    IF PriorBatches(m) = {} THEN m.revision = 1 /\ m.supersedes = 0
    ELSE \E n \in PriorBatches(m) : m.revision = n.revision + 1 /\ m.supersedes = n.id

(* verifyGlobalIdentityPresenceSubmission: the counts, the completion and  *)
(* its batch.  Its other rules are the clauses of SomeUploadCheckHolds.    *)
SubmissionsValid ==
    \A s \in DOMAIN submissions :
        LET r == submissions[s]
            chunks == r.chunks
        IN  /\ SubmissionSourceValid(r.manifest)
            /\ Len(chunks) \in 1..r.manifest.count
            /\ (r.event # 0) = (Len(chunks) = r.manifest.count)
            /\ r.event # 0 => /\ Collected(s, <<>>) = r.manifest.set
                              /\ Batch(r.manifest, r.event) \in batches

(* The event chain, the link history, the snapshots and the counts of the  *)
(* submissions pass VerifyGlobalIdentities at every point between two      *)
(* transactions, whatever links, corrections, chunks, rotations and        *)
(* reports came in which order and however late they commit.  The three    *)
(* checks of an upload that the operations do not keep are in              *)
(* SomeUploadCheckHolds.                                                   *)
IdentityTablesAudited ==
    /\ EventsValid
    /\ EventTimesOrdered
    /\ DirectRowsValid
    /\ SnapshotsValid
    /\ SubmissionsValid

(* The audit looks up every chunk's commitments in the link history as it  *)
(* is now, and fails when one has been corrected or unlinked since.        *)
StagedCommitmentsAudited ==
    \A s \in DOMAIN submissions : \A i \in DOMAIN submissions[s].chunks :
        AllActive(submissions[s].manifest, submissions[s].chunks[i])

(* The audit wants revision 1 of a deployment's first submission for a     *)
(* month; the store accepts the revision of any QMAU report.               *)
FirstRevisionsAudited ==
    \A s \in DOMAIN submissions : PriorRevisionValid(submissions[s].manifest)

(* The audit wants the chunks of a submission in the order of their times; *)
(* the store compares a chunk's time with the newest event's alone.        *)
ChunkTimesOrdered ==
    \A s \in DOMAIN chunkTimes : \A i \in 1..(Len(chunkTimes[s]) - 1) :
        chunkTimes[s][i] <= chunkTimes[s][i + 1]

(* protocols/global-identity-v1.md: a link is corrected when a key is      *)
(* rotated and a later unlink does not invalidate a report; a submission   *)
(* matches any accepted QMAU revision; chunks are accepted in order, and   *)
(* the integrity verification reads them.  So the audit should accept      *)
(* every upload the store accepted.  One state that refutes all three of   *)
(* its upload checks refutes this disjunction.                             *)
SomeUploadCheckHolds ==
    \/ StagedCommitmentsAudited
    \/ FirstRevisionsAudited
    \/ ChunkTimesOrdered

-----------------------------------------------------------------------------
(* Who is one person, said without the alias table: the commitments that a *)
(* chain of corrections joins.                                             *)

Person(key, through) ==
    LET joined == {Correction(i) : i \in {j \in LinkEvents :
                        j <= through /\ events[j].action = "CORRECT"}}
        closed == {S \in SUBSET AliasKeys :
                    key \in S /\ \A c \in joined : (c[1] \in S) = (c[2] \in S)}
    IN  {k \in AliasKeys : \A S \in closed : k \in S}

(* Two commitments have one global identity exactly when corrections join  *)
(* them: a merge moves every alias of the identity it absorbs, whatever    *)
(* links, unlinks and rotations came between, and moves no other.          *)
OneIdentityPerPerson ==
    \A k1, k2 \in AliasKeys :
        (aliases[k1] # 0 /\ aliases[k2] # 0) =>
            ((aliases[k1] = aliases[k2]) <=> (k2 \in Person(k1, Len(events))))

(* A published snapshot counts, for its month, every person once however   *)
(* many deployments report them, and every user a deployment counts but    *)
(* does not link; of a deployment, only the newest revision by then.       *)
SnapshotsAccurate ==
    \A i \in DOMAIN snapshots :
        LET s == snapshots[i]
            newest == CurrentBatches(s.period, {b \in batches : b.id <= i})
            people == UNION {{Person(<<b.version, b.items[x]>>, i) : x \in DOMAIN b.items} :
                                b \in newest}
        IN  s.deduplicated = Cardinality(people)
                               + Total(newest, LAMBDA b : b.reported - Len(b.items))

(* An upload that has begun can be finished: while the submission's links  *)
(* hold, the chunks so far begin the set it committed to and no newer      *)
(* batch replaced the one it supersedes, the store accepts the rest of the *)
(* set at the clock's present time, even after a key rotation, a           *)
(* correction of the QMAU report or other deployments' reports.            *)
StagedSubmissionsFinish ==
    \A s \in DOMAIN submissions :
        LET m == submissions[s].manifest
            done == Collected(s, <<>>)
            rest == SubSeq(m.set, Len(done) + 1, Len(m.set))
        IN  /\ submissions[s].event = 0
            /\ done \o rest = m.set
            /\ Len(rest) >= m.count - Len(submissions[s].chunks)
            /\ AllActive(m, m.set)
            /\ CurrentBatch(m.deployment, m.period).id = m.supersedes
            => /\ NotBeforeHead(clock)
               /\ SubmissionOpen(s, m)
               /\ MayAccept(m, rest)
               /\ CompleteSet(m, Collected(s, rest))
=============================================================================
