----------------------------- MODULE MerkleTree -----------------------------
(***************************************************************************)
(* The Merkle index over the ledger: how an append extends it, how start-  *)
(* up backfills and audits it, how the store builds inclusion and          *)
(* consistency proofs from it (store/sqlite/merkle.go), and how a client   *)
(* verifies them (protocol/merkle.go).                                     *)
(*                                                                         *)
(* A digest is the term it is taken of, so two digests are equal exactly   *)
(* when what they hash is.  "Failed" is the error return: like a Go error  *)
(* it passes through every hash and equals no digest.  The signature of a  *)
(* tree head is left out; a head is the size and the root it commits to.   *)
(* The ledger's own entry_hash chain is another audit's business           *)
(* (VerifyLedger), so entries are not damaged here.                        *)
(***************************************************************************)
EXTENDS Integers, Sequences, FiniteSets, FiniteSetsExt

CONSTANTS MaxSize,   \* bound on the number of ledger entries
          MaxDamage  \* bound on the number of damaged index rows

VARIABLES size,      \* COUNT(*) of ledger_entries
          nodes,     \* table ledger_merkle_nodes
          phase,     \* of the process: closed, reconciled, serving
          damaged    \* index rows damaged so far

vars == <<size, nodes, phase, damaged>>

-----------------------------------------------------------------------------
(* Digests.  The entry_hash of an index is Entry(i); Other(i) is the       *)
(* entry_hash that another history would have there.                       *)

Failed == <<"failed">>
Forged == <<"forged">>
EmptyRoot == <<"empty">>

Entry(i) == <<"entry", i>>
Other(i) == <<"other", i>>

LeafHash(e) == <<"leaf", e>>
NodeHash(left, right) ==
    IF Failed \in {left, right} THEN Failed ELSE <<"node", left, right>>

LargestMerklePower(n) == Max({1} \cup {p \in {2^k : k \in 0..n} : p < n})

PopCount(n) == Cardinality({k \in 0..n : (n \div 2^k) % 2 = 1})

(* The reference: the Merkle tree hash of RFC 9162, section 2.1.           *)
RECURSIVE TreeHash(_)
TreeHash(s) ==
    IF s = <<>> THEN EmptyRoot
    ELSE IF Len(s) = 1 THEN LeafHash(s[1])
    ELSE LET k == CHOOSE p \in {2^x : x \in 0..Len(s)} : p < Len(s) /\ Len(s) <= 2 * p
         IN  NodeHash(TreeHash(SubSeq(s, 1, k)), TreeHash(SubSeq(s, k + 1, Len(s))))

History(n) == [i \in 1..n |-> Entry(i)]

(* The complete subtrees of a ledger of n entries.                         *)
ReferenceRows(n) ==
    {[level |-> x[1], index |-> x[2],
      hash |-> TreeHash(SubSeq(History(n), x[2] * 2^x[1] + 1, (x[2] + 1) * 2^x[1]))] :
        x \in {y \in (1..n) \X (0..n) : (y[2] + 1) * 2^y[1] <= n}}

-----------------------------------------------------------------------------
(* The index.                                                              *)

RowsAt(rows, level, index) == {x \in rows : x.level = level /\ x.index = index}

(* completeMerkleSubtreeTx: a leaf comes from the ledger, a node from the  *)
(* index.                                                                  *)
CompleteSubtree(rows, level, index) ==
    IF level = 0 THEN IF index < size THEN LeafHash(Entry(index + 1)) ELSE Failed
    ELSE IF RowsAt(rows, level, index) = {} THEN Failed
    ELSE (CHOOSE x \in RowsAt(rows, level, index) : TRUE).hash

(* appendMerkleEntryTx: an odd position completes its parent, and so on    *)
(* upwards.                                                                *)
RECURSIVE AppendRows(_, _, _, _)
AppendRows(rows, level, index, current) ==
    IF index % 2 = 0 THEN {}
    ELSE LET parent == NodeHash(CompleteSubtree(rows, level, index - 1), current)
         IN  {[level |-> level + 1, index |-> index \div 2, hash |-> parent]}
                \cup AppendRows(rows, level + 1, index \div 2, parent)

(* reconcileMerkleTree's pass over the whole ledger.  Its frontier holds   *)
(* the newest complete subtree of each level, which is the left sibling    *)
(* that the rows computed so far hold.                                     *)
RECURSIVE MigratedRows(_)
MigratedRows(n) ==
    IF n = 0 THEN {}
    ELSE LET rows == MigratedRows(n - 1)
         IN  rows \cup AppendRows(rows, 0, n - 1, LeafHash(Entry(n)))

(* Mutant: a tree of n leaves has n - 1 inner nodes.                       *)
ExpectedNodesOfFullTree(n) == IF n = 0 THEN 0 ELSE n - 1

ExpectedNodeCount(n) == n - PopCount(n)

(* reconcileMerkleTree with ensureMerkleNodeTx: the index after it, or no  *)
(* index when it refuses.                                                  *)
Reconciled(rows) ==
    IF Cardinality(rows) = ExpectedNodeCount(size) THEN {rows}
    ELSE IF Cardinality(rows) > ExpectedNodeCount(size) THEN {}
    ELSE IF \E x \in MigratedRows(size), y \in rows :
                x.level = y.level /\ x.index = y.index /\ x.hash # y.hash THEN {}
    ELSE {rows \cup MigratedRows(size)}

Levels(n) == {k \in 1..n : n \div 2^k > 0}

(* Mutant: the rows are counted and not recomputed.                        *)
VerifyMerkleCounts(rows) ==
    /\ Cardinality(rows) = ExpectedNodeCount(size)
    /\ \A k \in Levels(size) :
        LET indexes == {x.index : x \in {y \in rows : y.level = k}}
        IN  Cardinality(indexes) = size \div 2^k /\ Max(indexes) = size \div 2^k - 1

VerifyMerkleTree(rows) ==
    /\ Cardinality(rows) = ExpectedNodeCount(size)
    /\ \A k \in Levels(size) :
        LET indexes == {x.index : x \in {y \in rows : y.level = k}}
        IN  /\ Cardinality(indexes) = size \div 2^k
            /\ Max(indexes) = size \div 2^k - 1
    /\ \A x \in rows :
        x.hash = NodeHash(CompleteSubtree(rows, x.level - 1, x.index * 2),
                          CompleteSubtree(rows, x.level - 1, x.index * 2 + 1))

-----------------------------------------------------------------------------
(* The store's proofs.                                                     *)

RECURSIVE SubtreeRoot(_, _)
SubtreeRoot(start, n) ==
    IF PopCount(n) = 1 /\ start % n = 0
    THEN CompleteSubtree(nodes, CHOOSE k \in 0..n : 2^k = n, start \div n)
    ELSE LET split == LargestMerklePower(n)
         IN  NodeHash(SubtreeRoot(start, split), SubtreeRoot(start + split, n - split))

RECURSIVE InclusionPath(_, _, _)
InclusionPath(start, n, target) ==
    LET split == LargestMerklePower(n)
    IN  IF n = 1 THEN <<>>
        ELSE IF target < start + split
        THEN Append(InclusionPath(start, split, target),
                    SubtreeRoot(start + split, n - split))
        ELSE Append(InclusionPath(start + split, n - split, target),
                    SubtreeRoot(start, split))

RECURSIVE ConsistencyPath(_, _, _, _)
ConsistencyPath(old, start, new, completeOld) ==
    LET split == LargestMerklePower(new)
    IN  IF old = new
        THEN IF completeOld THEN <<>> ELSE <<SubtreeRoot(start, new)>>
        ELSE IF old <= split
        THEN Append(ConsistencyPath(old, start, split, completeOld),
                    SubtreeRoot(start + split, new - split))
        ELSE Append(ConsistencyPath(old - split, start + split, new - split, FALSE),
                    SubtreeRoot(start, split))

RootHash(n) == IF n = 0 THEN EmptyRoot ELSE SubtreeRoot(0, n)

(* MerkleInclusionProof: the audit path for entry i in the tree of size n. *)
MerkleInclusionProof(i, n) == InclusionPath(0, n, i - 1)

(* Mutant: the flag is not reset on the way down.                          *)
ConsistencyProofKeepsFlag(old, new) ==
    IF old \in {0, new} THEN <<>>
    ELSE LET split == LargestMerklePower(new)
         IN  IF old <= split THEN ConsistencyPath(old, 0, new, TRUE)
             ELSE Append(ConsistencyPath(old - split, split, new - split, TRUE),
                         SubtreeRoot(0, split))

MerkleConsistencyProof(old, new) ==
    IF old \in {0, new} THEN <<>> ELSE ConsistencyPath(old, 0, new, TRUE)

-----------------------------------------------------------------------------
(* The client's verification.  The audit path is consumed from its front:  *)
(* "rest" is what is left of it (the position of nextAuditHash).           *)

NextAuditHash(path) == IF path = <<>> THEN Failed ELSE Head(path)
AfterNext(path) == IF path = <<>> THEN <<>> ELSE Tail(path)

RECURSIVE RebuildInclusionRoot(_, _, _, _, _)
RebuildInclusionRoot(start, n, target, leaf, path) ==
    LET split == LargestMerklePower(n)
        inLeft == target < start + split
        below == IF inLeft
                 THEN RebuildInclusionRoot(start, split, target, leaf, path)
                 ELSE RebuildInclusionRoot(start + split, n - split, target, leaf, path)
        next == NextAuditHash(below.rest)
    IN  IF n = 1 THEN [root |-> leaf, rest |-> path]
        ELSE [root |-> IF inLeft THEN NodeHash(below.root, next)
                                 ELSE NodeHash(next, below.root),
              rest |-> AfterNext(below.rest)]

RECURSIVE RebuildConsistencyRoots(_, _, _, _, _)
RebuildConsistencyRoots(old, new, useKnown, known, path) ==
    LET split == LargestMerklePower(new)
        inLeft == old <= split
        below == IF inLeft
                 THEN RebuildConsistencyRoots(old, split, useKnown, known, path)
                 ELSE RebuildConsistencyRoots(old - split, new - split, FALSE, known, path)
        next == NextAuditHash(below.rest)
    IN  IF old = new
        THEN IF useKnown THEN [old |-> known, new |-> known, rest |-> path]
             ELSE [old |-> NextAuditHash(path), new |-> NextAuditHash(path),
                   rest |-> AfterNext(path)]
        ELSE IF inLeft
        THEN [old |-> below.old, new |-> NodeHash(below.new, next),
              rest |-> AfterNext(below.rest)]
        ELSE [old |-> NodeHash(next, below.old), new |-> NodeHash(next, below.new),
              rest |-> AfterNext(below.rest)]

(* head is [size, root].                                                   *)
VerifyInclusion(head, i, entry, path) ==
    /\ i \in 1..head.size
    /\ LET rebuilt == RebuildInclusionRoot(0, head.size, i - 1, LeafHash(entry), path)
       IN  rebuilt.root = head.root /\ rebuilt.rest = <<>>

(* Mutant: only the new root is compared.                                  *)
VerifyConsistencyNewOnly(old, head, path) ==
    IF old.size = 0 THEN old.root = EmptyRoot /\ path = <<>>
    ELSE IF old.size = head.size THEN old.root = head.root /\ path = <<>>
    ELSE LET rebuilt == RebuildConsistencyRoots(old.size, head.size, TRUE, old.root, path)
         IN  rebuilt.new = head.root /\ rebuilt.rest = <<>>

VerifyConsistency(old, head, path) ==
    /\ old.size <= head.size
    /\ IF old.size = 0 THEN old.root = EmptyRoot /\ path = <<>>
       ELSE IF old.size = head.size THEN old.root = head.root /\ path = <<>>
       ELSE LET rebuilt ==
                    RebuildConsistencyRoots(old.size, head.size, TRUE, old.root, path)
            IN  /\ rebuilt.old = old.root
                /\ rebuilt.new = head.root
                /\ rebuilt.rest = <<>>

-----------------------------------------------------------------------------
(* The index over the life of a database.                                  *)

(* A ledger written before the index existed has no rows.                  *)
Init ==
    /\ size \in 0..MaxSize
    /\ nodes = {}
    /\ phase = "closed"
    /\ damaged = 0

(* sqlite.Open; what it backfills is committed.                            *)
Open ==
    /\ phase = "closed"
    /\ nodes' \in Reconciled(nodes)
    /\ phase' = "reconciled"
    /\ UNCHANGED <<size, damaged>>

(* VerifyState at start-up: the listener opens only when it passes.        *)
Bootstrap ==
    /\ phase = "reconciled"
    /\ phase' = IF VerifyMerkleTree(nodes) THEN "serving" ELSE "closed"
    /\ UNCHANGED <<size, nodes, damaged>>

(* The index rows of one ledger append, in its transaction: a row that     *)
(* cannot be computed or is already there rolls everything back.           *)
AppendEntry ==
    /\ phase = "serving" /\ size < MaxSize
    /\ size' = size + 1
    /\ LET new == AppendRows(nodes, 0, size, LeafHash(Entry(size + 1)))
       IN  /\ \A x \in new : x.hash # Failed /\ RowsAt(nodes, x.level, x.index) = {}
           /\ nodes' = nodes \cup new
    /\ UNCHANGED <<phase, damaged>>

Close ==
    /\ phase = "serving"
    /\ phase' = "closed"
    /\ UNCHANGED <<size, nodes, damaged>>

(* While the registry is stopped a row is lost, changed or added.          *)
DamagedIndexes(rows) ==
    {rows \ {x} : x \in rows}
        \cup {(rows \ {x}) \cup {[x EXCEPT !.hash = Forged]} : x \in rows}
        \cup {rows \cup {x} : x \in [level: 1..4, index: 0..1, hash: {Forged}]}

OneRowPerPosition(rows) ==
    \A x, y \in rows : x.level = y.level /\ x.index = y.index => x = y

Damage ==
    /\ phase = "closed" /\ damaged < MaxDamage
    /\ nodes' \in {rows \in DamagedIndexes(nodes) : OneRowPerPosition(rows)}
    /\ damaged' = damaged + 1
    /\ UNCHANGED <<size, phase>>

Next == Open \/ Bootstrap \/ AppendEntry \/ Close \/ Damage

Spec == Init /\ [][Next]_vars

-----------------------------------------------------------------------------
(* Properties.                                                             *)

(* A serving registry holds exactly the complete subtrees of its ledger,   *)
(* whatever was lost, changed or added while it was stopped and however    *)
(* many entries were appended before and after the backfill                *)
(* (reconcileMerkleTree, VerifyMerkleTree, appendMerkleEntryTx).           *)
ServedIndexSound == phase = "serving" => nodes = ReferenceRows(size)

(* A database that only lacks rows, as one written before the index        *)
(* existed does, is backfilled and starts: it is never taken for an        *)
(* inconsistent one (the early returns of reconcileMerkleTree).            *)
BackfillSuffices ==
    phase = "closed" /\ nodes \subseteq ReferenceRows(size) =>
        \E rows \in Reconciled(nodes) : VerifyMerkleTree(rows)

(* Every proof the store builds, for every entry and every pair of sizes   *)
(* up to the current one, is accepted by the client's verifier, which      *)
(* walks the tree on its own, and the roots are those of RFC 9162: the     *)
(* service's self-check of a generated proof never fails.                  *)
ProofsVerify ==
    phase = "serving" =>
        \A n \in 0..size :
            LET head == [size |-> n, root |-> RootHash(n)]
            IN  /\ head.root = TreeHash(History(n))
                /\ \A i \in 1..n : VerifyInclusion(head, i, Entry(i), MerkleInclusionProof(i, n))
                /\ \A m \in 0..n : VerifyConsistency([size |-> m, root |-> RootHash(m)], head,
                                                     MerkleConsistencyProof(m, n))

(* The digest that another history, with Other(j) for entry j, has in the  *)
(* place of h.                                                             *)
RECURSIVE Rewritten(_, _)
Rewritten(h, j) ==
    IF h = LeafHash(Entry(j)) THEN LeafHash(Other(j))
    ELSE IF h[1] = "node" THEN NodeHash(Rewritten(h[2], j), Rewritten(h[3], j))
    ELSE h

(* The path with any of its hashes taken from the other history.           *)
Mixtures(path, j) ==
    {[k \in DOMAIN path |-> IF k \in other THEN Rewritten(path[k], j) ELSE path[k]] :
        other \in SUBSET DOMAIN path}

(* A client that pinned a head is not led to another history: with one     *)
(* earlier entry replaced, no mixture of the honest hashes with those of   *)
(* the other history connects the pinned head to the new one, and no       *)
(* honest path shows an entry at a position that is not its own            *)
(* (VerifyMerkleInclusionProof, VerifyMerkleConsistencyProof).             *)
ForksRefused ==
    phase = "serving" =>
        \A n \in 1..size : \A j \in 1..n :
            LET head == [size |-> n, root |-> RootHash(n)]
                proof == MerkleInclusionProof(j, n)
            IN  /\ \A path \in Mixtures(proof, j) : ~VerifyInclusion(head, j, Other(j), path)
                /\ \A i \in (1..n) \ {j} : ~VerifyInclusion(head, i, Entry(j), proof)
                /\ \A m \in j..n : \A path \in Mixtures(MerkleConsistencyProof(m, n), j) :
                    ~VerifyConsistency([size |-> m, root |-> Rewritten(RootHash(m), j)],
                                       head, path)
=============================================================================
