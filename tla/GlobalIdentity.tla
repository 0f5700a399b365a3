--------------------------- MODULE GlobalIdentity ---------------------------
(***************************************************************************)
(* Global identities (registry/service/global_identity.go, store/sqlite/   *)
(* global_identity_mutation.go, global_identity_presence.go): deployments  *)
(* link people by opaque commitments, correct and end links, and report    *)
(* for a month, in signed chunks, which linked people were active, so that *)
(* the network can count a person once.                                    *)
(*                                                                         *)
(* Every operation is one store transaction of the server.  Abstractions:  *)
(* the bytewise order of commitments is that of numbers; a commitment-set  *)
(* hash is the list it commits to; links, global identities and batches    *)
(* are named by the index of the event that creates them, submissions by   *)
(* their position; 0 is the empty identifier and the empty period.  The    *)
(* service reads the clock before the transaction opens, so a step takes a *)
(* clock value that may be up to MaxLag old.  An exact retry is answered   *)
(* from the stored row, and a refused request changes nothing: neither is  *)
(* a step.  So the requests of a deployment that the operator network has  *)
(* deactivated are requests that are not made.  The QMAU counts stand for  *)
(* the mau_batches rows of the ledger.                                     *)
(***************************************************************************)
EXTENDS Integers, Sequences, FiniteSets, Functions

CONSTANTS
    Deployments,
    Periods,          \* months
    Commitments,      \* network identity commitments
    Counts,           \* qualified_mau_count values
    MaxVersion,       \* bound on the VOPRF key versions
    MaxReports,       \* bound on the QMAU batches, corrections included
    MaxItems,         \* bound on total_commitment_count
    MaxEvents,        \* bound on global_identity_events
    MaxSubmissions,   \* bound on global_identity_presence_submissions
    MaxTime,          \* bound on the clock
    MaxLag            \* how old the clock value of a transaction may be

ASSUME IdentityAssumption ==
    /\ Periods \subseteq Nat \ {0}
    /\ Commitments \subseteq Nat
    /\ Counts \subseteq Nat
    /\ MaxVersion \in Nat \ {0}
    /\ MaxItems \in Nat
    /\ MaxTime \in Nat \ {0}
    /\ MaxLag \in Nat

VARIABLES
    clock,         \* the host's clock
    active,        \* active version of the running server's keyring
    qmau,          \* monthly-qmau counts per deployment and period, by revision
    events,        \* tables global_identity_events and _link_history
    links,         \* table global_identity_links
    aliases,       \* table global_identity_aliases: 0 where there is no row
    identities,    \* table global_identities
    submissions,   \* tables global_identity_presence_submissions, _chunks and _completions
    batches,       \* table global_identity_presence_batches with its items
    snapshots,     \* table global_identity_dedup_snapshots
    times,         \* accepted_at of global_identity_events, by event
    chunkTimes     \* accepted_at of global_identity_presence_chunks, by submission

vars == <<active, qmau, events, links, aliases, identities, submissions,
          batches, snapshots, clock, times, chunkTimes>>

Versions == 1..MaxVersion
AliasKeys == Versions \X Commitments
Times == 1..MaxTime

(* The clock values a transaction that commits now may carry.              *)
ClockReads == {t \in Times : clock - MaxLag <= t /\ t <= clock}

-----------------------------------------------------------------------------
(* What a transaction reads.                                               *)

(* A later correction or end of link i that took effect by period p.       *)
Superseded(i, p, through) ==
    \E j \in (i + 1)..through :
        /\ events[j].link = events[i].link
        /\ events[j].action \in {"CORRECT", "UNLINK"}
        /\ events[j].period <= p

(* globalIdentityCommitmentActiveForPeriod.                                *)
ActiveForPeriod(d, version, c, p, through) ==
    \E i \in 1..through :
        /\ events[i].action # "PRESENCE"
        /\ events[i].deployment = d
        /\ events[i].status = "ACTIVE"
        /\ events[i].version = version
        /\ events[i].commitment = c
        /\ events[i].from <= p
        /\ events[i].period <= p
        /\ ~Superseded(i, p, through)

(* The newest revision of each deployment among the batches B of period p. *)
CurrentBatches(p, B) ==
    {b \in B : /\ b.period = p
               /\ ~\E n \in B : /\ n.deployment = b.deployment
                                /\ n.period = p
                                /\ n.revision > b.revision}

Total(B, Field(_)) == SumFunction([b \in B |-> Field(b)])

(* Mutant: every observation is a person.                                  *)
UniqueObservations(B, al) == Total(B, LAMBDA b : Len(b.items))

(* The global identities of the people in batches B, by alias map al.      *)
UniqueLinked(B, al) ==
    Cardinality(UNION {{al[<<b.version, b.items[i]>>] : i \in DOMAIN b.items} : b \in B})

(* calculateGlobalIdentitySnapshot.                                        *)
Snapshot(p, al, B) ==
    LET current == CurrentBatches(p, B)
        reported == Total(current, LAMBDA b : b.reported)
        linked == Total(current, LAMBDA b : Len(b.items))
        unique == UniqueLinked(current, al)
    IN  [period |-> p,
         revision |-> Cardinality({s \in DOMAIN snapshots : snapshots[s].period = p}) + 1,
         reported |-> reported, linked |-> linked, unique |-> unique,
         unlinked |-> reported - linked, deduplicated |-> unique + reported - linked,
         covered |-> Cardinality(current), through |-> Len(events) + 1]

(* ensureGlobalIdentityAcceptedAt: not before the newest event.            *)
NotBeforeHead(at) == events = <<>> \/ times[Len(events)] <= at

(* Mutant: a month nobody has reported gets no snapshot.                   *)
AppendEventUncovered(e, al, B, at) ==
    LET s == Snapshot(e.period, al, B)
    IN  /\ Len(events) < MaxEvents
        /\ NotBeforeHead(at)
        /\ s.deduplicated <= s.reported
        /\ events' = Append(events, e)
        /\ times' = Append(times, at)
        /\ snapshots' = IF s.covered = 0 THEN snapshots ELSE Append(snapshots, s)

(* An event and its snapshot, with the tables they are computed from.      *)
AppendEvent(e, al, B, at) ==
    LET s == Snapshot(e.period, al, B)
    IN  /\ Len(events) < MaxEvents
        /\ NotBeforeHead(at)
        /\ s.deduplicated <= s.reported
        /\ events' = Append(events, e)
        /\ times' = Append(times, at)
        /\ snapshots' = Append(snapshots, s)

-----------------------------------------------------------------------------
(* ApplyGlobalIdentityMutation.                                            *)

LinkEvent(action, d, p, link, row) ==
    [action |-> action, deployment |-> d, period |-> p, link |-> link, gid |-> row.gid,
     status |-> row.status, version |-> row.version, commitment |-> row.commitment,
     from |-> row.from, until |-> row.until]

(* The event, the link's current row and its history row.                  *)
ApplyMutation(action, d, p, link, row, al, at) ==
    /\ AppendEvent(LinkEvent(action, d, p, link, row), al, batches, at)
    /\ links' = [x \in DOMAIN links \cup {link} |-> IF x = link THEN row ELSE links[x]]
    /\ aliases' = al
    /\ UNCHANGED <<active, qmau, submissions, batches, clock, chunkTimes>>

(* prepareGlobalIdentityLink: a commitment nobody has used is a new        *)
(* identity.                                                               *)
Link(d, c, p, at) ==
    LET index == Len(events) + 1
        key == <<active, c>>
        new == aliases[key] = 0
        gid == IF new THEN index ELSE aliases[key]
        row == [deployment |-> d, gid |-> gid, status |-> "ACTIVE", version |-> active,
                commitment |-> c, from |-> p, until |-> 0, latest |-> index]
    IN  /\ ApplyMutation("LINK", d, p, index, row, [aliases EXCEPT ![key] = gid], at)
        /\ identities' = IF new THEN identities \cup {gid} ELSE identities

(* prepareGlobalIdentityUnlink.                                            *)
Unlink(d, l, p, at) ==
    /\ links[l].deployment = d
    /\ links[l].status = "ACTIVE"
    /\ links[l].from <= p
    /\ ApplyMutation("UNLINK", d, p, l,
            [links[l] EXCEPT !.status = "UNLINKED", !.until = p, !.latest = Len(events) + 1],
            aliases, at)
    /\ UNCHANGED identities

(* Mutant: only the corrected link's alias moves.                          *)
MergedOneAlias(source, target, key) == [aliases EXCEPT ![key] = target]

(* The aliases after a correction from identity source to identity target, *)
(* reached by key: a new key joins the source, and otherwise every alias   *)
(* of the source moves.                                                    *)
MergedAliases(source, target, key) ==
    [k \in AliasKeys |-> IF k = key \/ aliases[k] = source THEN target ELSE aliases[k]]

(* prepareGlobalIdentityCorrection.                                        *)
Correct(d, l, c, p, at) ==
    LET source == aliases[<<links[l].version, links[l].commitment>>]
        key == <<active, c>>
        target == IF aliases[key] = 0 THEN source ELSE aliases[key]
    IN  /\ links[l].deployment = d
        /\ links[l].status = "ACTIVE"
        /\ links[l].from <= p
        /\ ApplyMutation("CORRECT", d, p, l,
                [links[l] EXCEPT !.gid = target, !.version = active, !.commitment = c,
                                 !.latest = Len(events) + 1],
                MergedAliases(source, target, key), at)
        /\ UNCHANGED identities

-----------------------------------------------------------------------------
(* AcceptGlobalIdentityPresenceBatch.                                      *)

Sorted(list) == \A i, j \in DOMAIN list : i < j => list[i] <= list[j]

Lists == {list \in UNION {[1..n -> Commitments] : n \in 0..MaxItems} : Sorted(list)}

(* The batch a submission of (d, p) has to supersede, 0 if there is none.  *)
CurrentBatch(d, p) ==
    LET B == {b \in CurrentBatches(p, batches) : b.deployment = d}
    IN  IF B = {} THEN [id |-> 0, revision |-> 0] ELSE CHOOSE b \in B : TRUE

(* The parts of SubmitGlobalIdentityPresenceBatch's validation that bound  *)
(* a manifest.                                                             *)
Manifests(d, p, r, version) ==
    {m \in [deployment: {d}, period: {p}, revision: {r},
            supersedes: {CurrentBatch(d, p).id}, reported: {qmau[d][p][r]},
            version: {version}, count: 1..MaxItems, set: Lists] :
        /\ Len(m.set) <= m.reported
        /\ m.count <= IF m.set = <<>> THEN 1 ELSE Len(m.set)}

(* The chunks a deployment may cut from its set, the wrong ones included.  *)
Pieces(m) == {<<>>} \cup {SubSeq(m.set, i, j) : i, j \in DOMAIN m.set}

ValidChunk(m, list) ==
    /\ Len(list) <= Len(m.set)
    /\ (list = <<>>) <=> (m.set = <<>>)

(* verifyPresenceRevision: the first batch may have any revision.          *)
VerifyPresenceRevision(m) ==
    LET current == CurrentBatch(m.deployment, m.period)
    IN  IF current.id = 0 THEN m.supersedes = 0
        ELSE m.revision = current.revision + 1 /\ m.supersedes = current.id

(* verifyPresenceQMAUSource.                                               *)
VerifyQMAUSource(m) ==
    /\ m.revision <= Len(qmau[m.deployment][m.period])
    /\ qmau[m.deployment][m.period][m.revision] = m.reported

(* ensureGlobalIdentityPresenceSubmission for a new submission.            *)
NoCompetingSubmission(m) ==
    \A s \in DOMAIN submissions :
        ~(/\ submissions[s].manifest.deployment = m.deployment
          /\ submissions[s].manifest.period = m.period
          /\ submissions[s].manifest.revision = m.revision)

AllActive(m, list) ==
    \A i \in DOMAIN list :
        ActiveForPeriod(m.deployment, m.version, list[i], m.period, Len(events))

(* What every chunk needs.                                                 *)
MayAccept(m, list) ==
    /\ ValidChunk(m, list)
    /\ VerifyQMAUSource(m)
    /\ VerifyPresenceRevision(m)
    /\ AllActive(m, list)

(* Mutant: every chunk needs the active key.                               *)
SubmissionOpenToday(s, m) ==
    /\ m.version = active
    /\ s \in DOMAIN submissions => submissions[s].manifest = m
    /\ s = Len(submissions) + 1 => NoCompetingSubmission(m)

(* A stored submission goes on with the manifest it began with; a new one  *)
(* uses the active key and competes with no other.                         *)
SubmissionOpen(s, m) ==
    \/ /\ s \in DOMAIN submissions
       /\ submissions[s].manifest = m
    \/ /\ s = Len(submissions) + 1
       /\ NoCompetingSubmission(m)
       /\ m.version = active

ChunksOf(s) == IF s \in DOMAIN submissions THEN submissions[s].chunks ELSE <<>>
ChunkTimesOf(s) == IF s \in DOMAIN submissions THEN chunkTimes[s] ELSE <<>>

(* The submission with its next chunk; event 0 while it is incomplete.     *)
WithChunk(s, m, list, event, at) ==
    LET row == [manifest |-> m, event |-> event,
                chunks |-> Append(ChunksOf(s), list)]
    IN  /\ submissions' = [x \in DOMAIN submissions \cup {s} |->
                                IF x = s THEN row ELSE submissions[x]]
        /\ chunkTimes' = [x \in DOMAIN submissions \cup {s} |->
                               IF x = s THEN Append(ChunkTimesOf(s), at) ELSE chunkTimes[x]]

(* A chunk that leaves its submission incomplete is only staged: no event  *)
(* records its time, which is compared with the newest event's alone.      *)
StageChunk(s, m, list, at) ==
    /\ s <= MaxSubmissions
    /\ SubmissionOpen(s, m)
    /\ MayAccept(m, list)
    /\ NotBeforeHead(at)
    /\ Len(ChunksOf(s)) + 1 < m.count
    /\ WithChunk(s, m, list, 0, at)
    /\ UNCHANGED <<active, qmau, events, links, aliases, identities, batches,
                   snapshots, clock, times>>

(* globalIdentityCompletedCommitments with the last chunk's commitments.   *)
Collected(s, list) ==
    LET chunks == ChunksOf(s)
        All[n \in 0..Len(chunks)] == IF n = 0 THEN <<>> ELSE All[n - 1] \o chunks[n]
    IN  All[Len(chunks)] \o list

(* Mutant: the staged commitments are not checked again.                   *)
CompleteSetUnchecked(m, all) == all = m.set

(* The last chunk: the whole set is what the manifest committed to, and    *)
(* every commitment is still active.                                       *)
CompleteSet(m, all) ==
    /\ all = m.set
    /\ AllActive(m, all)

Batch(m, index) ==
    [id |-> index, deployment |-> m.deployment, period |-> m.period,
     revision |-> m.revision, supersedes |-> m.supersedes, reported |-> m.reported,
     version |-> m.version, items |-> m.set]

PresenceEvent(m, index) ==
    [action |-> "PRESENCE", deployment |-> m.deployment, period |-> m.period,
     link |-> 0, gid |-> 0, status |-> "", version |-> m.version, commitment |-> 0,
     from |-> 0, until |-> 0]

(* insertCompletedGlobalIdentityPresence: with the chunk, one event, one   *)
(* batch and one snapshot.                                                 *)
CompletePresence(s, m, list, at) ==
    LET index == Len(events) + 1
    IN  /\ s <= MaxSubmissions
        /\ SubmissionOpen(s, m)
        /\ MayAccept(m, list)
        /\ Len(ChunksOf(s)) + 1 = m.count
        /\ CompleteSet(m, Collected(s, list))
        /\ AppendEvent(PresenceEvent(m, index), aliases, batches \cup {Batch(m, index)}, at)
        /\ batches' = batches \cup {Batch(m, index)}
        /\ WithChunk(s, m, list, index, at)
        /\ UNCHANGED <<active, qmau, links, aliases, identities, clock>>

-----------------------------------------------------------------------------
(* The surroundings: the ledger's QMAU batches, the key rotation with the  *)
(* restart it asks for, the clock.                                         *)

AcceptQMAU(d, p, n) ==
    /\ SumFunction([x \in Deployments \X Periods |-> Len(qmau[x[1]][x[2]])]) < MaxReports
    /\ qmau' = [qmau EXCEPT ![d][p] = Append(@, n)]
    /\ UNCHANGED <<active, events, links, aliases, identities, submissions,
                   batches, snapshots, clock, times, chunkTimes>>

RotateKey ==
    /\ active < MaxVersion
    /\ active' = active + 1
    /\ UNCHANGED <<qmau, events, links, aliases, identities, submissions,
                   batches, snapshots, clock, times, chunkTimes>>

Tick ==
    /\ clock < MaxTime
    /\ clock' = clock + 1
    /\ UNCHANGED <<active, qmau, events, links, aliases, identities, submissions,
                   batches, snapshots, times, chunkTimes>>

Init ==
    /\ active = 1
    /\ qmau = [d \in Deployments |-> [p \in Periods |-> <<>>]]
    /\ events = <<>>
    /\ links = <<>>
    /\ aliases = [k \in AliasKeys |-> 0]
    /\ identities = {}
    /\ submissions = <<>>
    /\ batches = {}
    /\ snapshots = <<>>
    /\ clock = 1
    /\ times = <<>>
    /\ chunkTimes = <<>>

(* LinkGlobalIdentity and ApplyGlobalIdentityLinkAction of the service.    *)
LinkRequest(d, p, at) == \E c \in Commitments : Link(d, c, p, at)

LinkActionRequest(d, p, at) ==
    \E l \in DOMAIN links :
        \/ Unlink(d, l, p, at)
        \/ \E c \in Commitments : Correct(d, l, c, p, at)

(* SubmitGlobalIdentityPresenceBatch.                                      *)
ChunkRequest(s, m) ==
    \E list \in Pieces(m), at \in ClockReads :
        StageChunk(s, m, list, at) \/ CompletePresence(s, m, list, at)

LinkStep ==
    \E d \in Deployments, p \in Periods, at \in ClockReads :
        LinkRequest(d, p, at) \/ LinkActionRequest(d, p, at)

(* A chunk of a stored submission, or the first of a new one.              *)
PresenceStep ==
    \/ \E s \in DOMAIN submissions : ChunkRequest(s, submissions[s].manifest)
    \/ \E d \in Deployments, p \in Periods : \E r \in DOMAIN qmau[d][p] :
        \E m \in Manifests(d, p, r, active) : ChunkRequest(Len(submissions) + 1, m)

Next ==
    \/ LinkStep
    \/ PresenceStep
    \/ \E d \in Deployments, p \in Periods, n \in Counts : AcceptQMAU(d, p, n)
    \/ RotateKey
    \/ Tick

Spec == Init /\ [][Next]_vars
=============================================================================
