-------------------------- MODULE MCGlobalIdentity --------------------------
(* Instances of the global identity network for TLC.                       *)
EXTENDS GlobalIdentityAudit, TLC

(* Two deployments have counted n users in the first month and linked one  *)
(* person each, who may be the same; the first has reported the presence   *)
(* of its person, in one chunk.                                            *)
InitLinked ==
    \E first, second \in Deployments, c1, c2 \in Commitments, n \in Counts :
        LET p == 1
            gid2 == IF c1 = c2 THEN 1 ELSE 2
            Row(d, g, c, i) == [deployment |-> d, gid |-> g, status |-> "ACTIVE",
                                version |-> 1, commitment |-> c, from |-> p, until |-> 0,
                                latest |-> i]
            Published(i, x) ==
                [period |-> p, revision |-> i, reported |-> n * x, linked |-> x,
                 unique |-> x, unlinked |-> (n - 1) * x, deduplicated |-> n * x,
                 covered |-> x, through |-> i]
            manifest == [deployment |-> first, period |-> p, revision |-> 1,
                         supersedes |-> 0, reported |-> n, version |-> 1, count |-> 1,
                         set |-> <<c1>>]
        IN  /\ first # second
            /\ c1 <= c2
            /\ active = 1
            /\ qmau = [d \in Deployments |-> [q \in Periods |-> IF q = p THEN <<n>> ELSE <<>>]]
            /\ links = <<Row(first, 1, c1, 1), Row(second, gid2, c2, 2)>>
            /\ events = <<LinkEvent("LINK", first, p, 1, links[1]),
                          LinkEvent("LINK", second, p, 2, links[2]),
                          PresenceEvent(manifest, 3)>>
            /\ aliases = [k \in AliasKeys |-> CASE k = <<1, c1>> -> 1
                                                [] k = <<1, c2>> -> gid2
                                                [] OTHER -> 0]
            /\ identities = {1, gid2}
            /\ submissions = <<[manifest |-> manifest, event |-> 3,
                                chunks |-> <<<<c1>>>>]>>
            /\ batches = {Batch(manifest, 3)}
            /\ snapshots = <<Published(1, 0), Published(2, 0), Published(3, 1)>>
            /\ clock = 1
            /\ times = <<1, 1, 1>>
            /\ chunkTimes = <<<<1>>>>

SpecLinked == InitLinked /\ [][Next]_vars

(* The clock goes on at the start or not at all, so that what follows it   *)
(* may carry either second; then no key is rotated and no user counted.    *)
AtStart ==
    /\ Len(events) = 3
    /\ Len(submissions) = 1
    /\ active = 1
    /\ \A d \in Deployments : Len(qmau[d][1]) = 1 /\ qmau[d][2] = <<>>

NextTimed ==
    /\ Next
    /\ clock' # clock => AtStart
    /\ clock = 2 => <<active, qmau>>' = <<active, qmau>>

SpecTimed == InitLinked /\ [][NextTimed]_vars

(* Nothing orders the deployments.                                         *)
IdentitySymmetry == Permutations(Deployments)
=============================================================================
