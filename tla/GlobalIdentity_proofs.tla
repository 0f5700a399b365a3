------------------------ MODULE GlobalIdentity_proofs -----------------------
(***************************************************************************)
(* Proofs about the global identities, for every number of deployments,    *)
(* months, commitments, key versions, events, reports and submissions.     *)
(***************************************************************************)
EXTENDS GlobalIdentityAudit, Sums_proofs, SequenceTheorems

-----------------------------------------------------------------------------
(* Tables that grow.                                                       *)

(* Table new is table old with row e.                                      *)
Extended(old, new, e) ==
    /\ Len(old) \in Nat /\ DOMAIN old = 1..Len(old)
    /\ Len(new) = Len(old) + 1 /\ DOMAIN new = 1..Len(new)
    /\ \A i \in 1..Len(old) : new[i] = old[i]
    /\ new[Len(old) + 1] = e

(* Append extends.                                                         *)
LEMMA AppendExtends ==
    ASSUME NEW S, NEW s \in Seq(S), NEW e
    PROVE  Extended(s, Append(s, e), e)
<1>1. Len(s) \in Nat /\ DOMAIN s = 1..Len(s) /\ s \in [1..Len(s) -> S]
  OBVIOUS
<1>2. PICK T : T = S \cup {e}
  OBVIOUS
<1>3. s \in Seq(T) /\ e \in T
  BY <1>1, <1>2
<1>4. /\ Append(s, e) \in Seq(T) /\ Len(Append(s, e)) = Len(s) + 1
      /\ \A i \in 1..Len(s) : Append(s, e)[i] = s[i]
      /\ Append(s, e)[Len(s) + 1] = e
  BY <1>3, AppendProperties
<1>5. DOMAIN Append(s, e) = 1..Len(Append(s, e))
  BY <1>4
<1>6. QED
  BY <1>1, <1>4, <1>5, Zenon DEF Extended

(* A row more, and the rows are of one set more.                           *)
LEMMA AppendTyped ==
    ASSUME NEW S, NEW s \in Seq(S), NEW e
    PROVE  Append(s, e) \in Seq(S \cup {e})
<1>1. PICK T : T = S \cup {e}
  OBVIOUS
<1>2. s \in Seq(T) /\ e \in T
  BY <1>1
<1>3. QED
  BY <1>1, <1>2

(* A sequence is of any set its elements are of.                           *)
LEMMA Retyped ==
    ASSUME NEW S, NEW T, NEW s \in Seq(S), \A i \in 1..Len(s) : s[i] \in T
    PROVE  s \in Seq(T)
OBVIOUS

-----------------------------------------------------------------------------
(* The chunks of a submission, joined.                                     *)

JoinBuilt(g, chunks, n) ==
    g = [i \in 0..n |-> IF i = 0 THEN <<>> ELSE g[i - 1] \o chunks[i]]

Joined(chunks) == (CHOOSE g : JoinBuilt(g, chunks, Len(chunks)))[Len(chunks)]

(* globalIdentityCompletedCommitments joins the stored chunks and the last.*)
LEMMA CollectedIs ==
    \A s, list : Collected(s, list) = Joined(ChunksOf(s)) \o list
BY DEF Collected, Joined, JoinBuilt

SameUpTo(c, d, n) == \A i \in 1..n : c[i] = d[i]

(* Joining equal chunks gives equal results.                               *)
LEMMA JoinBuiltOnce ==
    ASSUME NEW c, NEW d, NEW n \in Nat, NEW m \in Nat, n <= m,
           SameUpTo(c, d, n),
           NEW g, NEW h, JoinBuilt(g, c, n), JoinBuilt(h, d, m)
    PROVE  \A i \in 0..n : g[i] = h[i]
<1> DEFINE T == {i \in 0..n : g[i] # h[i]}
<1>1. SUFFICES ASSUME T # {} PROVE FALSE
  OBVIOUS
<1>2. T \in SUBSET Nat
  OBVIOUS
<1>3. PICK i \in T : \A j \in T : i <= j
  BY <1>1, <1>2, SmallestElement
<1>4. i \in 0..n /\ i \in 0..m /\ g[i] # h[i]
  BY <1>3
<1>5. g[i] = (IF i = 0 THEN <<>> ELSE g[i - 1] \o c[i])
      /\ h[i] = (IF i = 0 THEN <<>> ELSE h[i - 1] \o d[i])
  BY <1>4, Zenon DEF JoinBuilt
<1>6. CASE i = 0
  BY <1>4, <1>5, <1>6, Zenon
<1>7. CASE i # 0
  <2>1. i - 1 \in 0..n /\ i - 1 \notin T /\ i \in 1..n
    BY <1>3, <1>4, <1>7
  <2>2. g[i - 1] = h[i - 1] /\ c[i] = d[i]
    BY <2>1 DEF SameUpTo
  <2>3. QED
    BY <1>4, <1>5, <1>7, <2>2, Zenon
<1>8. QED
  BY <1>6, <1>7

(* Chunk by chunk, the join exists and is a sequence.                      *)
LEMMA JoinBuiltExists ==
    ASSUME NEW C, NEW chunks
    PROVE  \A n \in Nat : (\A i \in 1..n : chunks[i] \in Seq(C)) =>
                \E g : JoinBuilt(g, chunks, n) /\ \A i \in 0..n : g[i] \in Seq(C)
<1> DEFINE Good(n) == \E g : JoinBuilt(g, chunks, n) /\ \A i \in 0..n : g[i] \in Seq(C)
           T == {n \in Nat : (\A i \in 1..n : chunks[i] \in Seq(C)) /\ ~Good(n)}
<1>1. SUFFICES ASSUME T # {} PROVE FALSE
  OBVIOUS
<1>2. PICK n \in T : \A j \in T : n <= j
  BY <1>1, SmallestElement
<1>3. n \in Nat /\ (\A i \in 1..n : chunks[i] \in Seq(C)) /\ ~Good(n)
  BY <1>2
<1>4. CASE n = 0
  <2> DEFINE g == [i \in 0..0 |-> <<>>]
  <2>1. \A i \in 0..0 : i = 0
    OBVIOUS
  <2>2. JoinBuilt(g, chunks, 0)
    BY <2>1, Zenon DEF JoinBuilt
  <2>3. \A i \in 0..0 : g[i] \in Seq(C)
    OBVIOUS
  <2>4. QED
    BY <1>3, <1>4, <2>2, <2>3, Zenon
<1>5. CASE n # 0
  <2>1. n - 1 \in Nat /\ n - 1 \notin T /\ \A i \in 1..(n - 1) : i \in 1..n
    BY <1>2, <1>3, <1>5
  <2>2. Good(n - 1)
    BY <1>3, <2>1
  <2>3. PICK h : JoinBuilt(h, chunks, n - 1) /\ \A i \in 0..(n - 1) : h[i] \in Seq(C)
    BY <2>2
  <2> DEFINE Step(f, i) == IF i = 0 THEN <<>> ELSE f[i - 1] \o chunks[i]
             g == [i \in 0..n |-> Step(h, i)]
  <2>4. \A i \in 0..(n - 1) : h[i] = Step(h, i) /\ i \in 0..n
    <3>1. \A i \in 0..(n - 1) : i \in 0..n
      BY <1>3
    <3>2. \A i \in 0..(n - 1) : h[i] = Step(h, i)
      BY <2>3, Zenon DEF JoinBuilt
    <3>3. QED
      BY <3>1, <3>2, Zenon
  <2>5. \A i \in 0..n : i # 0 => i - 1 \in 0..(n - 1) /\ i \in 1..n
    BY <1>3
  <2>6. \A i \in 0..(n - 1) : g[i] = h[i]
    BY <2>4
  <2> HIDE DEF g
  <2>7. \A i \in 0..n : Step(g, i) = Step(h, i)
    BY <2>5, <2>6, Zenon
  <2>8. g = [i \in 0..n |-> Step(g, i)]
    BY <2>7, Zenon DEF g
  <2>9. JoinBuilt(g, chunks, n)
    BY <2>8, Zenon DEF JoinBuilt
  <2>10. ASSUME NEW i \in 0..n PROVE g[i] \in Seq(C)
    <3>1. CASE i = 0
      <4>1. g[i] = <<>>
        BY <3>1 DEF g
      <4>2. QED
        BY <4>1
    <3>2. CASE i # 0
      <4>1. h[i - 1] \in Seq(C) /\ chunks[i] \in Seq(C)
        BY <1>3, <2>3, <2>5, <3>2
      <4>2. g[i] = h[i - 1] \o chunks[i]
        BY <3>2 DEF g
      <4>3. QED
        BY <4>1, <4>2
    <3>3. QED
      BY <3>1, <3>2
  <2>11. QED
    BY <1>3, <2>9, <2>10, Zenon
<1>6. QED
  BY <1>4, <1>5

(* The chosen join.                                                        *)
LEMMA JoinedBy ==
    ASSUME NEW C, NEW chunks \in Seq(Seq(C))
    PROVE  \E g : /\ JoinBuilt(g, chunks, Len(chunks))
                  /\ Joined(chunks) = g[Len(chunks)]
                  /\ Joined(chunks) \in Seq(C)
<1>1. PICK n : n = Len(chunks)
  OBVIOUS
<1>2. n \in Nat /\ \A i \in 1..n : chunks[i] \in Seq(C)
  BY <1>1
<1>3. PICK g : JoinBuilt(g, chunks, n) /\ \A i \in 0..n : g[i] \in Seq(C)
  BY <1>2, JoinBuiltExists, Zenon
<1>4. PICK h : h = CHOOSE x : JoinBuilt(x, chunks, n)
  OBVIOUS
<1>5. JoinBuilt(h, chunks, n)
  BY <1>3, <1>4
<1>6. n \in 0..n /\ n <= n /\ SameUpTo(chunks, chunks, n)
  BY <1>2 DEF SameUpTo
<1>7. h[n] = g[n]
  BY <1>2, <1>3, <1>5, <1>6, JoinBuiltOnce
<1>8. Joined(chunks) = h[n]
  BY <1>1, <1>4, Zenon DEF Joined
<1>9. QED
  BY <1>1, <1>3, <1>5, <1>6, <1>7, <1>8

(* One more chunk is joined at the end.                                    *)
LEMMA JoinedAppend ==
    ASSUME NEW C, NEW chunks \in Seq(Seq(C)), NEW list \in Seq(C)
    PROVE  Joined(Append(chunks, list)) = Joined(chunks) \o list
<1>1. PICK n, d : n = Len(chunks) /\ d = Append(chunks, list)
  OBVIOUS
<1>2. n \in Nat /\ d \in Seq(Seq(C)) /\ Len(d) = n + 1 /\ d[n + 1] = list
      /\ \A i \in 1..n : d[i] = chunks[i]
  BY <1>1
<1>3. PICK g : JoinBuilt(g, chunks, n) /\ Joined(chunks) = g[n]
  BY <1>1, JoinedBy
<1>4. PICK h : JoinBuilt(h, d, n + 1) /\ Joined(d) = h[n + 1]
  <2>1. \E h : JoinBuilt(h, d, Len(d)) /\ Joined(d) = h[Len(d)]
    BY <1>2, JoinedBy
  <2>2. QED
    BY <1>2, <2>1
<1>5. n \in 0..n /\ n <= n + 1 /\ n + 1 \in 0..(n + 1) /\ n + 1 # 0 /\ (n + 1) - 1 = n
      /\ n + 1 \in Nat
  BY <1>2
<1>6. SameUpTo(chunks, d, n)
  BY <1>2 DEF SameUpTo
<1>7. g[n] = h[n]
  <2>1. PICK k : k = n + 1
    OBVIOUS
  <2>2. k \in Nat /\ n <= k /\ JoinBuilt(h, d, k)
    BY <1>4, <1>5, <2>1
  <2>3. \A i \in 0..n : g[i] = h[i]
    BY <1>2, <1>3, <1>6, <2>2, JoinBuiltOnce
  <2>4. QED
    BY <1>5, <2>3
<1>8. h[n + 1] = h[(n + 1) - 1] \o d[n + 1]
  <2>1. PICK k : k = n + 1
    OBVIOUS
  <2>2. k \in 0..k /\ k # 0
    BY <1>5, <2>1
  <2>3. JoinBuilt(h, d, k)
    BY <1>4, <2>1
  <2>4. h[k] = IF k = 0 THEN <<>> ELSE h[k - 1] \o d[k]
    BY <2>2, <2>3, Zenon DEF JoinBuilt
  <2>5. h[k] = h[k - 1] \o d[k]
    BY <2>2, <2>4, Zenon
  <2>6. QED
    BY <2>1, <2>5
<1>9. QED
  BY <1>1, <1>2, <1>3, <1>4, <1>5, <1>7, <1>8, Zenon

(* No chunks join to nothing.                                              *)
LEMMA JoinedEmpty ==
    Joined(<<>>) = <<>>
<1>1. PICK c : c = <<>>
  OBVIOUS
<1>2. c \in Seq(Seq({})) /\ Len(c) = 0
  BY <1>1
<1>3. PICK g : JoinBuilt(g, c, 0) /\ Joined(c) = g[0]
  <2>1. \E g : JoinBuilt(g, c, Len(c)) /\ Joined(c) = g[Len(c)]
    BY <1>2, JoinedBy
  <2>2. QED
    BY <1>2, <2>1
<1>4. 0 \in 0..0
  OBVIOUS
<1>5. g[0] = <<>>
  BY <1>3, <1>4, Zenon DEF JoinBuilt
<1>6. QED
  BY <1>1, <1>3, <1>5

-----------------------------------------------------------------------------
(* The tables.                                                             *)

(* What the rows of the tables say beyond their types: an event has one    *)
(* snapshot, a set fits the count it is a part of, and a link's commitment *)
(* has an identity.                                                        *)
SetsFit ==
    /\ Len(snapshots) = Len(events)
    /\ IsFiniteSet(batches)
    /\ \A b \in batches : Len(b.items) <= b.reported
    /\ \A s \in DOMAIN submissions :
            Len(submissions[s].manifest.set) <= submissions[s].manifest.reported

LinksNamed == \A l \in DOMAIN links : aliases[<<links[l].version, links[l].commitment>>] # 0

TablesInv == RowsTyped /\ SetsFit /\ LinksNamed

(* The tables are sequences.                                               *)
LEMMA TableTypes ==
    ASSUME RowsTyped
    PROVE  /\ Len(events) \in Nat /\ DOMAIN events = 1..Len(events)
           /\ \A i \in DOMAIN events : events[i] \in EventRows
           /\ Len(submissions) \in Nat /\ DOMAIN submissions = 1..Len(submissions)
           /\ \A s \in DOMAIN submissions : submissions[s] \in SubmissionRows
           /\ Len(snapshots) \in Nat /\ DOMAIN snapshots = 1..Len(snapshots)
           /\ \A i \in DOMAIN snapshots : snapshots[i] \in SnapshotRows
<1> HIDE DEF EventRows, SubmissionRows, SnapshotRows
<1>1. /\ events \in Seq(EventRows) /\ submissions \in Seq(SubmissionRows)
      /\ snapshots \in Seq(SnapshotRows)
  BY DEF RowsTyped
<1>2. QED
  BY <1>1

(* The identifiers in use stay in use.                                     *)
LEMMA RowsGrow ==
    ASSUME Len(events) \in Nat, Len(events') \in Nat, Len(events) <= Len(events'),
           DOMAIN events = 1..Len(events), DOMAIN events' = 1..Len(events')
    PROVE  /\ \A x \in EventRows : x \in EventRows'
           /\ \A x \in LinkRows : x \in LinkRows'
           /\ \A x \in BatchRows : x \in BatchRows'
           /\ \A x \in ManifestRows : x \in ManifestRows'
           /\ \A x \in SnapshotRows : x \in SnapshotRows'
<1>0. \A x : /\ x \in Ids => x \in Ids'
             /\ x \in DOMAIN events => x \in DOMAIN events'
             /\ x \in 1..Len(events) => x \in 1..Len(events')
  BY DEF Ids
<1>1. ASSUME NEW x \in EventRows PROVE x \in EventRows'
  BY <1>0, <1>1, Zenon DEF EventRows
<1>2. ASSUME NEW x \in LinkRows PROVE x \in LinkRows'
  BY <1>0, <1>2 DEF LinkRows
<1>3. ASSUME NEW x \in BatchRows PROVE x \in BatchRows'
  BY <1>0, <1>3 DEF BatchRows
<1>4. ASSUME NEW x \in ManifestRows PROVE x \in ManifestRows'
  BY <1>0, <1>4 DEF ManifestRows
<1>5. ASSUME NEW x \in SnapshotRows PROVE x \in SnapshotRows'
  BY <1>0, <1>5 DEF SnapshotRows
<1>6. QED
  BY <1>1, <1>2, <1>3, <1>4, <1>5

(* Lists are sequences of commitments.                                     *)
LEMMA ListsAre ==
    ASSUME NEW list \in Lists
    PROVE  /\ list \in Seq(Commitments) /\ Len(list) \in 0..MaxItems /\ Len(list) \in Nat
           /\ DOMAIN list = 1..Len(list) /\ \A i \in DOMAIN list : list[i] \in Commitments
           /\ Sorted(list)
<1>1. PICK n \in 0..MaxItems : list \in [1..n -> Commitments]
  BY DEF Lists
<1>2. n \in Nat
  BY <1>1
<1>3. list \in Seq(Commitments) /\ Len(list) = n
  BY <1>1, <1>2
<1>4. QED
  BY <1>1, <1>2, <1>3 DEF Lists

(* A list of the right length in order is one.                             *)
LEMMA ListsMade ==
    ASSUME NEW list \in Seq(Commitments), Len(list) \in 0..MaxItems, Sorted(list)
    PROVE  list \in Lists
<1>1. Len(list) \in Nat /\ list \in [1..Len(list) -> Commitments]
  OBVIOUS
<1>2. PICK n \in 0..MaxItems : n = Len(list)
  OBVIOUS
<1>3. list \in [1..n -> Commitments]
  BY <1>1, <1>2
<1>4. list \in UNION {[1..k -> Commitments] : k \in 0..MaxItems}
  BY <1>3
<1>5. QED
  BY <1>4, Zenon DEF Lists

(* What the chunks of a set are.                                           *)
LEMMA PiecesAre ==
    ASSUME NEW m, m.set \in Lists, NEW list \in Pieces(m)
    PROVE  list \in Lists
<1>1. PICK set : set = m.set
  OBVIOUS
<1>2. /\ set \in Seq(Commitments) /\ Len(set) \in Nat /\ Len(set) <= MaxItems
      /\ DOMAIN set = 1..Len(set) /\ Sorted(set)
  BY <1>1, ListsAre, IdentityAssumption
<1>3. CASE list = <<>>
  <2>1. list \in Seq(Commitments) /\ Len(list) = 0 /\ DOMAIN list = {}
    BY <1>3
  <2>2. Sorted(list)
    BY <2>1 DEF Sorted
  <2>3. Len(list) \in 0..MaxItems
    BY <2>1, IdentityAssumption
  <2>4. QED
    BY <2>1, <2>2, <2>3, ListsMade
<1>4. CASE list # <<>>
  <2>1. PICK i, j \in DOMAIN set : list = SubSeq(set, i, j)
    BY <1>1, <1>4 DEF Pieces
  <2>2. i \in 1..Len(set) /\ j \in 1..Len(set)
    BY <1>2, <2>1
  <2>3. i <= j
    BY <1>2, <1>4, <2>1, <2>2
  <2>4. /\ list \in Seq(Commitments) /\ Len(list) = j - i + 1
        /\ \A k \in 1..(j - i + 1) : list[k] = set[i + k - 1]
    BY <1>2, <2>1, <2>2, <2>3
  <2>5. DOMAIN list = 1..(j - i + 1)
    <3>1. PICK n : n = Len(list)
      OBVIOUS
    <3>2. DOMAIN list = 1..n
      BY <2>4, <3>1, LenProperties
    <3>3. QED
      BY <2>4, <3>1, <3>2
  <2>6. Sorted(list)
    <3>1. SUFFICES ASSUME NEW k \in 1..(j - i + 1), NEW l \in 1..(j - i + 1), k < l
                   PROVE  list[k] <= list[l]
      BY <2>5 DEF Sorted
    <3>2. i + k - 1 \in 1..Len(set) /\ i + l - 1 \in 1..Len(set) /\ i + k - 1 < i + l - 1
      BY <1>2, <2>2, <3>1
    <3>3. set[i + k - 1] <= set[i + l - 1]
      <4>1. PICK a, b : a = i + k - 1 /\ b = i + l - 1
        OBVIOUS
      <4>2. a \in DOMAIN set /\ b \in DOMAIN set /\ a < b
        BY <1>2, <3>2, <4>1
      <4>3. set[a] <= set[b]
        BY <1>2, <4>2, Zenon DEF Sorted
      <4>4. QED
        BY <4>1, <4>3
    <3>4. QED
      BY <2>4, <3>3
  <2>7. Len(list) \in 0..MaxItems
    BY <1>2, <2>2, <2>3, <2>4, IdentityAssumption
  <2>8. QED
    BY <2>4, <2>6, <2>7, ListsMade
<1>5. QED
  BY <1>3, <1>4

(* Batches whose items fit their counts, finitely many.                    *)
BatchFacts(B) ==
    /\ IsFiniteSet(B)
    /\ \A b \in B : /\ b.reported \in Nat /\ b.version \in Versions
                    /\ b.items \in Lists /\ Len(b.items) <= b.reported

(* What a snapshot counts.                                                 *)
Reported(B) == Total(B, LAMBDA b : b.reported)
Linked(B) == Total(B, LAMBDA b : Len(b.items))
Unlinked(B) == Total(B, LAMBDA b : b.reported - Len(b.items))

(* The three sums of a snapshot are natural numbers, and add up.           *)
LEMMA TotalsAdd ==
    ASSUME NEW B, BatchFacts(B)
    PROVE  /\ Reported(B) \in Nat /\ Linked(B) \in Nat /\ Unlinked(B) \in Nat
           /\ Reported(B) = Linked(B) + Unlinked(B)
<1> DEFINE f == [b \in B |-> b.reported]
           g == [b \in B |-> Len(b.items)]
           h == [b \in B |-> b.reported - Len(b.items)]
<1>1. IsFiniteSet(B)
  BY DEF BatchFacts
<1>2. \A b \in B : b.reported \in Nat /\ Len(b.items) \in Nat /\ Len(b.items) <= b.reported
  BY ListsAre DEF BatchFacts
<1>3. \A b \in B : b.reported - Len(b.items) \in Nat
                   /\ b.reported = Len(b.items) + (b.reported - Len(b.items))
  BY <1>2
<1>4. f \in [B -> Nat] /\ g \in [B -> Nat] /\ h \in [B -> Nat]
  BY <1>2, <1>3
<1>5. \A b \in B : f[b] = g[b] + h[b]
  BY <1>3
<1> HIDE DEF f, g, h
<1>6. SumFunction(f) \in Nat /\ SumFunction(g) \in Nat /\ SumFunction(h) \in Nat
  BY <1>1, <1>4, SumNatural
<1>7. SumFunction(f) = SumFunction(g) + SumFunction(h)
  BY <1>1, <1>4, <1>5, SumDifference
<1>8. Reported(B) = SumFunction(f) /\ Linked(B) = SumFunction(g) /\ Unlinked(B) = SumFunction(h)
  BY Zenon DEF Reported, Linked, Unlinked, Total, f, g, h
<1>9. QED
  BY <1>6, <1>7, <1>8

(* The identities of the people in B.                                      *)
Identities(B, al) ==
    UNION {{al[<<b.version, b.items[i]>>] : i \in DOMAIN b.items} : b \in B}

(* An alias map with values up to n finds finitely many identities.        *)
LEMMA IdentitiesFinite ==
    ASSUME NEW B, BatchFacts(B), NEW n \in Nat, NEW al \in [AliasKeys -> 0..n]
    PROVE  /\ Identities(B, al) \in SUBSET (0..n)
           /\ IsFiniteSet(Identities(B, al))
           /\ UniqueLinked(B, al) = Cardinality(Identities(B, al))
           /\ UniqueLinked(B, al) \in Nat
<1>1. ASSUME NEW b \in B, NEW i \in DOMAIN b.items
      PROVE  al[<<b.version, b.items[i]>>] \in 0..n
  <2>1. b.version \in Versions /\ b.items[i] \in Commitments
    BY <1>1, ListsAre DEF BatchFacts
  <2>2. <<b.version, b.items[i]>> \in AliasKeys
    BY <2>1 DEF AliasKeys
  <2>3. QED
    BY <2>2
<1>2. Identities(B, al) \in SUBSET (0..n)
  <2>1. ASSUME NEW x \in Identities(B, al) PROVE x \in 0..n
    <3>1. PICK b \in B : x \in {al[<<b.version, b.items[i]>>] : i \in DOMAIN b.items}
      BY <2>1, Zenon DEF Identities
    <3>2. PICK i \in DOMAIN b.items : x = al[<<b.version, b.items[i]>>]
      BY <3>1
    <3>3. QED
      BY <1>1, <3>2
  <2>2. QED
    BY <2>1
<1>3. IsFiniteSet(0..n)
  BY FS_Interval
<1>4. IsFiniteSet(Identities(B, al))
  BY <1>2, <1>3, FS_Subset
<1>5. UniqueLinked(B, al) = Cardinality(Identities(B, al))
  BY Zenon DEF UniqueLinked, Identities
<1>6. QED
  BY <1>2, <1>4, <1>5, FS_CardinalityType

(* The newest batches of a month are batches.                              *)
LEMMA CurrentFacts ==
    ASSUME NEW p, NEW B, BatchFacts(B)
    PROVE  BatchFacts(CurrentBatches(p, B))
<1>1. CurrentBatches(p, B) \in SUBSET B
  BY DEF CurrentBatches
<1>2. IsFiniteSet(CurrentBatches(p, B))
  BY <1>1, FS_Subset DEF BatchFacts
<1>3. QED
  BY <1>1, <1>2 DEF BatchFacts

(* What a new snapshot says.                                               *)
SnapshotSays(s, p, al, B) ==
    LET current == CurrentBatches(p, B)
    IN  /\ s.period = p
        /\ s.revision = Cardinality({i \in DOMAIN snapshots : snapshots[i].period = p}) + 1
        /\ s.reported = Reported(current) /\ s.linked = Linked(current)
        /\ s.unique = UniqueLinked(current, al)
        /\ s.unlinked = Unlinked(current)
        /\ s.deduplicated = s.unique + s.unlinked
        /\ s.unique \in Nat /\ s.unlinked \in Nat
        /\ s.through = Len(events) + 1

(* A snapshot is a row of its table, and what it says adds up.             *)
LEMMA SnapshotTyped ==
    ASSUME RowsTyped, SetsFit, NEW p \in Periods, NEW B, BatchFacts(B),
           NEW al \in [AliasKeys -> 0..(Len(events) + 1)],
           DOMAIN events' = 1..Len(events'), Len(events') = Len(events) + 1,
           NEW s, s = Snapshot(p, al, B)
    PROVE  s \in SnapshotRows' /\ SnapshotSays(s, p, al, B)
<1>1. PICK current : current = CurrentBatches(p, B)
  OBVIOUS
<1>2. PICK R, L, N, U, C :
        /\ R = Reported(current) /\ L = Linked(current) /\ N = Unlinked(current)
        /\ U = UniqueLinked(current, al) /\ C = Cardinality(current)
  OBVIOUS
<1>3. BatchFacts(current)
  BY <1>1, CurrentFacts
<1>4. R \in Nat /\ L \in Nat /\ N \in Nat /\ R = L + N
  BY <1>2, <1>3, TotalsAdd
<1>5. PICK n : n = Len(events)
  OBVIOUS
<1>6. n \in Nat /\ Len(snapshots) = n /\ DOMAIN snapshots = 1..n
  BY <1>5, TableTypes DEF SetsFit
<1>7. U \in Nat
  <2>1. n + 1 \in Nat /\ al \in [AliasKeys -> 0..(n + 1)]
    BY <1>5, <1>6
  <2>2. QED
    BY <1>2, <1>3, <2>1, IdentitiesFinite
<1>8. C \in Nat
  BY <1>2, <1>3, FS_CardinalityType DEF BatchFacts
<1>9. PICK v : v = Cardinality({i \in DOMAIN snapshots : snapshots[i].period = p})
  OBVIOUS
<1>10. v \in Nat /\ v <= n
  <2>1. PICK Q : Q = {i \in DOMAIN snapshots : snapshots[i].period = p}
    OBVIOUS
  <2>2. Q \in SUBSET (1..n)
    BY <1>6, <2>1
  <2>3. IsFiniteSet(1..n) /\ Cardinality(1..n) = n
    BY <1>6, FS_Interval
  <2>4. IsFiniteSet(Q) /\ Cardinality(Q) <= n
    <3>1. PICK I : I = 1..n
      OBVIOUS
    <3>2. Q \in SUBSET I /\ IsFiniteSet(I) /\ Cardinality(I) = n
      BY <2>2, <2>3, <3>1
    <3>3. QED
      BY <3>2, FS_Subset
  <2>5. QED
    BY <1>9, <2>1, <2>4, FS_CardinalityType
<1>11. s = [period |-> p, revision |-> v + 1, reported |-> R, linked |-> L, unique |-> U,
            unlinked |-> R - L, deduplicated |-> U + R - L, covered |-> C, through |-> n + 1]
  BY <1>1, <1>2, <1>5, <1>9, Zenon DEF Snapshot, Reported, Linked
<1>12. R - L = N /\ U + R - L = U + N /\ U + N \in Nat /\ v + 1 \in 1..(n + 1)
       /\ n + 1 \in 1..(n + 1)
  BY <1>4, <1>6, <1>7, <1>10
<1>13. s \in SnapshotRows'
  <2>1. /\ 1..Len(events') = 1..(n + 1) /\ DOMAIN events' = 1..(n + 1)
    BY <1>5
  <2>2. QED
    BY <1>4, <1>7, <1>8, <1>11, <1>12, <2>1 DEF SnapshotRows
<1>14. /\ s.period = p /\ s.revision = v + 1 /\ s.reported = R /\ s.linked = L /\ s.unique = U
       /\ s.unlinked = N /\ s.deduplicated = U + N /\ s.through = n + 1
  BY <1>11, <1>12
<1>15. SnapshotSays(s, p, al, B)
  BY <1>1, <1>2, <1>4, <1>5, <1>7, <1>9, <1>14, Zenon DEF SnapshotSays
<1>16. QED
  BY <1>13, <1>15

-----------------------------------------------------------------------------
(* What the transactions write.                                            *)

(* The rows that a transaction writes, its clock value left aside.         *)
EventWritten(e, al, B) ==
    LET s == Snapshot(e.period, al, B)
    IN  /\ s.deduplicated <= s.reported
        /\ events' = Append(events, e)
        /\ snapshots' = Append(snapshots, s)

MutationWritten(action, d, p, link, row, al) ==
    /\ EventWritten(LinkEvent(action, d, p, link, row), al, batches)
    /\ links' = [x \in DOMAIN links \cup {link} |-> IF x = link THEN row ELSE links[x]]
    /\ aliases' = al
    /\ UNCHANGED <<active, qmau, submissions, batches>>

ChunkWritten(s, m, list, event) ==
    LET row == [manifest |-> m, event |-> event,
                chunks |-> Append(ChunksOf(s), list)]
    IN  submissions' = [x \in DOMAIN submissions \cup {s} |->
                            IF x = s THEN row ELSE submissions[x]]

(* AppendEvent writes an event at a time that the newest one allows.       *)
LEMMA EventWrites ==
    ASSUME NEW e, NEW al, NEW B, NEW at, AppendEvent(e, al, B, at)
    PROVE  EventWritten(e, al, B) /\ NotBeforeHead(at) /\ times' = Append(times, at)
BY Zenon DEF AppendEvent, EventWritten

(* So does ApplyMutation, with its link.                                   *)
LEMMA MutationWrites ==
    ASSUME NEW action, NEW d, NEW p, NEW link, NEW row, NEW al, NEW at,
           ApplyMutation(action, d, p, link, row, al, at)
    PROVE  MutationWritten(action, d, p, link, row, al)
<1>1. AppendEvent(LinkEvent(action, d, p, link, row), al, batches, at)
      /\ links' = [x \in DOMAIN links \cup {link} |-> IF x = link THEN row ELSE links[x]]
      /\ aliases' = al /\ active' = active /\ qmau' = qmau /\ submissions' = submissions
      /\ batches' = batches
  BY Zenon DEF ApplyMutation
<1>2. EventWritten(LinkEvent(action, d, p, link, row), al, batches)
  BY <1>1, EventWrites
<1>3. QED
  BY <1>1, <1>2, Zenon DEF MutationWritten

(* The transaction's event, and its snapshot.                              *)
LEMMA AppendEventIs ==
    ASSUME RowsTyped, NEW e, NEW al, NEW B, EventWritten(e, al, B)
    PROVE  /\ Extended(events, events', e)
           /\ Extended(snapshots, snapshots', Snapshot(e.period, al, B))
           /\ Snapshot(e.period, al, B).deduplicated <= Snapshot(e.period, al, B).reported
<1> HIDE DEF EventRows, SnapshotRows
<1>1. events \in Seq(EventRows) /\ snapshots \in Seq(SnapshotRows)
  BY DEF RowsTyped
<1>2. PICK s : s = Snapshot(e.period, al, B)
  OBVIOUS
<1>3. events' = Append(events, e) /\ snapshots' = Append(snapshots, s)
      /\ s.deduplicated <= s.reported
  BY <1>2, Zenon DEF EventWritten
<1>4. QED
  BY <1>1, <1>2, <1>3, AppendExtends

(* The rows of events and links once there is one more event.              *)
NextIds == 0..(Len(events) + 1)

NextEventRows ==
    [action: {"LINK", "UNLINK", "CORRECT", "PRESENCE"}, deployment: Deployments,
     period: Periods, link: NextIds, gid: NextIds, status: {"", "ACTIVE", "UNLINKED"},
     version: Versions, commitment: Commitments \cup {0}, from: Periods \cup {0},
     until: Periods \cup {0}]

NextLinkRows ==
    [deployment: Deployments, gid: 1..(Len(events) + 1), status: {"ACTIVE", "UNLINKED"},
     version: Versions, commitment: Commitments, from: Periods, until: Periods \cup {0},
     latest: 1..(Len(events) + 1)]

(* A recorded event: the rest of its tables, and the snapshot.             *)
LEMMA EventTyped ==
    ASSUME RowsTyped, SetsFit, NEW e \in NextEventRows, NEW B, BatchFacts(B),
           NEW al \in [AliasKeys -> NextIds], EventWritten(e, al, B)
    PROVE  /\ Extended(events, events', e)
           /\ Len(events) \in Nat /\ Len(events') \in Nat /\ Len(events) <= Len(events')
           /\ DOMAIN events = 1..Len(events) /\ DOMAIN events' = 1..Len(events')
           /\ Ids' = NextIds
           /\ events' \in Seq(EventRows')
           /\ snapshots' \in Seq(SnapshotRows')
           /\ Len(snapshots') = Len(events')
           /\ \A i \in DOMAIN events' : i \in DOMAIN snapshots' /\ snapshots'[i].through = i
           /\ \E s : /\ Extended(snapshots, snapshots', s)
                     /\ SnapshotSays(s, e.period, al, B) /\ s.deduplicated <= s.reported
<1>1. PICK s : s = Snapshot(e.period, al, B)
  OBVIOUS
<1>2. /\ Extended(events, events', e) /\ Extended(snapshots, snapshots', s)
      /\ s.deduplicated <= s.reported
  BY <1>1, AppendEventIs
<1>3. e.period \in Periods
  BY Zenon DEF NextEventRows
<1>4. PICK n : n = Len(events)
  OBVIOUS
<1>5. /\ n \in Nat /\ DOMAIN events = 1..n /\ Len(events') = n + 1 /\ DOMAIN events' = 1..(n + 1)
      /\ Len(snapshots) = n /\ DOMAIN snapshots = 1..n
      /\ Len(snapshots') = n + 1 /\ DOMAIN snapshots' = 1..(n + 1)
  <2>1. Len(snapshots) = n
    BY <1>4 DEF SetsFit
  <2>2. QED
    BY <1>2, <1>4, <2>1 DEF Extended
<1>6. s \in SnapshotRows' /\ SnapshotSays(s, e.period, al, B)
  BY <1>1, <1>3, <1>4, <1>5, SnapshotTyped DEF NextIds
<1>7. Ids' = NextIds
  BY <1>4, <1>5 DEF Ids, NextIds
<1>8. e \in EventRows'
  <2>1. EventRows' = NextEventRows
    BY <1>7, Zenon DEF EventRows, NextEventRows
  <2>2. QED
    BY <2>1
<1>9. ASSUME NEW i \in 1..(n + 1)
      PROVE  events'[i] \in EventRows' /\ snapshots'[i] \in SnapshotRows' /\ snapshots'[i].through = i
  <2>1. CASE i = n + 1
    <3>1. events'[i] = e /\ snapshots'[i] = s
      BY <1>2, <1>4, <1>5, <2>1 DEF Extended
    <3>2. s.through = n + 1
      BY <1>4, <1>6, Zenon DEF SnapshotSays
    <3>3. QED
      BY <1>6, <1>8, <2>1, <3>1, <3>2
  <2>2. CASE i # n + 1
    <3>1. i \in 1..n
      BY <1>5, <2>2
    <3>2. events'[i] = events[i] /\ snapshots'[i] = snapshots[i]
      BY <1>2, <1>4, <1>5, <3>1 DEF Extended
    <3>3. events[i] \in EventRows /\ snapshots[i] \in SnapshotRows /\ snapshots[i].through = i
      BY <1>5, <3>1, TableTypes DEF RowsTyped
    <3>4. QED
      BY <1>4, <1>5, <3>2, <3>3, RowsGrow
  <2>3. QED
    BY <2>1, <2>2
<1>10. events' \in Seq(EventRows') /\ snapshots' \in Seq(SnapshotRows')
  <2> HIDE DEF EventRows, SnapshotRows
  <2>1. PICK E, S : E = EventRows' /\ S = SnapshotRows'
    OBVIOUS
  <2>2. events' \in Seq(EventRows \cup {e}) /\ snapshots' \in Seq(SnapshotRows \cup {s})
    <3>1. events' = Append(events, e) /\ snapshots' = Append(snapshots, s)
      BY <1>1, Zenon DEF EventWritten
    <3>2. events \in Seq(EventRows) /\ snapshots \in Seq(SnapshotRows)
      BY DEF RowsTyped
    <3>3. QED
      BY <3>1, <3>2, AppendTyped
  <2>3. \A i \in 1..(n + 1) : events'[i] \in E /\ snapshots'[i] \in S
    BY <1>9, <2>1
  <2>4. events' \in Seq(E) /\ snapshots' \in Seq(S)
    BY <1>5, <2>2, <2>3, Retyped
  <2>5. QED
    BY <2>1, <2>4
<1>11. QED
  BY <1>2, <1>4, <1>5, <1>6, <1>7, <1>9, <1>10

(* The batches of the table have the facts a snapshot needs.               *)
LEMMA TableBatches ==
    ASSUME RowsTyped, SetsFit
    PROVE  BatchFacts(batches)
<1>1. ASSUME NEW b \in batches PROVE b.reported \in Nat /\ b.version \in Versions /\ b.items \in Lists
  <2>1. b \in BatchRows
    BY <1>1 DEF RowsTyped
  <2>2. b.reported \in Counts /\ b.version \in Versions /\ b.items \in Lists
    BY <2>1 DEF BatchRows
  <2>3. QED
    BY <2>2, IdentityAssumption
<1>2. QED
  BY <1>1 DEF BatchFacts, SetsFit

(* A mutation keeps the tables in order.                                   *)
LEMMA MutationTyped ==
    ASSUME TablesInv, NEW action \in LinkActions, NEW d \in Deployments, NEW p \in Periods,
           NEW link \in 1..(Len(events) + 1), NEW row \in NextLinkRows,
           NEW al \in [AliasKeys -> NextIds], MutationWritten(action, d, p, link, row, al),
           al[<<row.version, row.commitment>>] # 0,
           \A k \in AliasKeys : aliases[k] # 0 => al[k] # 0,
           identities' \subseteq 1..(Len(events) + 1)
    PROVE  TablesInv'
<1>1. PICK e : e = LinkEvent(action, d, p, link, row)
  OBVIOUS
<1>2. RowsTyped /\ SetsFit /\ LinksNamed
  BY DEF TablesInv
<1>3. /\ EventWritten(e, al, batches) /\ aliases' = al
      /\ links' = [x \in DOMAIN links \cup {link} |-> IF x = link THEN row ELSE links[x]]
      /\ active' = active /\ qmau' = qmau /\ submissions' = submissions /\ batches' = batches
  BY <1>1, Zenon DEF MutationWritten
<1>4. Len(events) \in Nat /\ DOMAIN events = 1..Len(events)
  BY <1>2, TableTypes
<1>5. e \in NextEventRows
  <2>1. /\ row.gid \in NextIds /\ row.status \in {"", "ACTIVE", "UNLINKED"}
        /\ row.version \in Versions /\ row.commitment \in Commitments \cup {0}
        /\ row.from \in Periods \cup {0} /\ row.until \in Periods \cup {0} /\ link \in NextIds
    <3>1. \A i \in 1..(Len(events) + 1) : i \in NextIds
      BY <1>4 DEF NextIds
    <3>2. QED
      BY <3>1, Zenon DEF NextLinkRows
  <2>2. action \in {"LINK", "UNLINK", "CORRECT", "PRESENCE"}
    BY DEF LinkActions
  <2>3. QED
    BY <1>1, <2>1, <2>2, Zenon DEF LinkEvent, NextEventRows
<1>6. BatchFacts(batches)
  BY <1>2, TableBatches
<1>7. /\ Len(events') \in Nat /\ Len(events) <= Len(events') /\ DOMAIN events' = 1..Len(events')
      /\ Len(events') = Len(events) + 1
      /\ Ids' = NextIds /\ events' \in Seq(EventRows') /\ snapshots' \in Seq(SnapshotRows')
      /\ Len(snapshots') = Len(events')
      /\ \A i \in DOMAIN events' : i \in DOMAIN snapshots' /\ snapshots'[i].through = i
  BY <1>2, <1>3, <1>5, <1>6, EventTyped DEF Extended
<1>8. NextLinkRows = LinkRows'
  <2>1. DOMAIN events' = 1..(Len(events) + 1)
    BY <1>7
  <2>2. QED
    BY <2>1, Zenon DEF NextLinkRows, LinkRows
<1>9. DOMAIN links' \subseteq DOMAIN events'
  BY <1>2, <1>3, <1>4, <1>7 DEF RowsTyped
<1>10. ASSUME NEW l \in DOMAIN links' PROVE links'[l] \in LinkRows'
  <2>1. CASE l = link
    BY <1>3, <1>8, <1>10, <2>1
  <2>2. CASE l # link
    <3>1. l \in DOMAIN links /\ links'[l] = links[l]
      BY <1>3, <1>10, <2>2
    <3>2. links[l] \in LinkRows
      BY <1>2, <3>1 DEF RowsTyped
    <3>3. QED
      BY <1>4, <1>7, <3>1, <3>2, RowsGrow
  <2>3. QED
    BY <2>1, <2>2
<1>11. submissions' \in Seq(SubmissionRows') /\ batches' \subseteq BatchRows'
  <2>1. batches' \subseteq BatchRows'
    BY <1>2, <1>3, <1>4, <1>7, RowsGrow DEF RowsTyped
  <2>2. ASSUME NEW r \in SubmissionRows PROVE r \in SubmissionRows'
    <3>1. r.manifest \in ManifestRows /\ r.event \in Ids /\ r.chunks \in Seq(Lists)
          /\ r = [manifest |-> r.manifest, event |-> r.event, chunks |-> r.chunks]
      BY <2>2 DEF SubmissionRows
    <3>2. r.manifest \in ManifestRows' /\ r.event \in Ids'
      BY <1>4, <1>7, <3>1, RowsGrow DEF Ids, NextIds
    <3>3. QED
      BY <3>1, <3>2, Zenon DEF SubmissionRows
  <2>3. submissions \in Seq(SubmissionRows)
    BY <1>2, Zenon DEF RowsTyped
  <2>4. submissions \in Seq(SubmissionRows')
    <3> HIDE DEF SubmissionRows
    <3>1. PICK R, Q : R = SubmissionRows /\ Q = SubmissionRows'
      OBVIOUS
    <3>2. \A r \in R : r \in Q
      BY <2>2, <3>1
    <3>3. submissions \in Seq(R)
      BY <2>3, <3>1
    <3>4. submissions \in Seq(Q)
      BY <3>2, <3>3
    <3>5. QED
      BY <3>1, <3>4
  <2>5. QED
    BY <1>3, <2>1, <2>4
<1>12. /\ active' \in Versions
       /\ qmau' \in [Deployments -> [Periods -> Seq(Counts)]]
       /\ aliases' \in [AliasKeys -> Ids']
       /\ identities' \subseteq DOMAIN events'
  BY <1>2, <1>3, <1>7 DEF RowsTyped
<1>13. RowsTyped'
  BY <1>7, <1>9, <1>10, <1>11, <1>12, Zenon DEF RowsTyped
<1>14. SetsFit'
  BY <1>2, <1>3, <1>7 DEF SetsFit
<1>15. LinksNamed'
  <2>1. ASSUME NEW l \in DOMAIN links'
        PROVE  aliases'[<<links'[l].version, links'[l].commitment>>] # 0
    <3>1. CASE l = link
      BY <1>3, <2>1, <3>1
    <3>2. CASE l # link
      <4>1. l \in DOMAIN links /\ links'[l] = links[l]
        BY <1>3, <2>1, <3>2
      <4>2. links[l] \in LinkRows /\ aliases[<<links[l].version, links[l].commitment>>] # 0
        BY <1>2, <4>1 DEF RowsTyped, LinksNamed
      <4>3. <<links[l].version, links[l].commitment>> \in AliasKeys
        BY <4>2 DEF LinkRows, AliasKeys
      <4>4. QED
        BY <1>3, <4>1, <4>2, <4>3
    <3>3. QED
      BY <3>1, <3>2
  <2>2. QED
    BY <2>1, Zenon DEF LinksNamed
<1>16. QED
  BY <1>13, <1>14, <1>15 DEF TablesInv

(* The key of a link's row, and the identities behind it.                  *)
LEMMA LinkRowFacts ==
    ASSUME RowsTyped, LinksNamed, NEW l \in DOMAIN links
    PROVE  /\ links[l] \in LinkRows
           /\ <<links[l].version, links[l].commitment>> \in AliasKeys
           /\ aliases[<<links[l].version, links[l].commitment>>] \in 1..Len(events)
           /\ l \in 1..Len(events)
<1>1. links[l] \in LinkRows /\ l \in 1..Len(events)
  BY TableTypes DEF RowsTyped
<1>2. <<links[l].version, links[l].commitment>> \in AliasKeys
  BY <1>1 DEF LinkRows, AliasKeys
<1>3. aliases[<<links[l].version, links[l].commitment>>] \in Ids
  BY <1>2 DEF RowsTyped
<1>4. aliases[<<links[l].version, links[l].commitment>>] # 0
  BY DEF LinksNamed
<1>5. QED
  BY <1>1, <1>2, <1>3, <1>4, TableTypes DEF Ids

(* What a link request records.                                            *)
LinkRecord(d, c, p, key, gid, row) ==
    /\ key = <<active, c>> /\ key \in AliasKeys
    /\ gid = (IF aliases[key] = 0 THEN Len(events) + 1 ELSE aliases[key])
    /\ gid \in 1..(Len(events) + 1)
    /\ row = [deployment |-> d, gid |-> gid, status |-> "ACTIVE", version |-> active,
              commitment |-> c, from |-> p, until |-> 0, latest |-> Len(events) + 1]
    /\ MutationWritten("LINK", d, p, Len(events) + 1, row, [aliases EXCEPT ![key] = gid])
    /\ identities' = (IF aliases[key] = 0 THEN identities \cup {gid} ELSE identities)

(* A link request records a row for the identity of its commitment.        *)
LEMMA LinkIs ==
    ASSUME RowsTyped, NEW d \in Deployments, NEW c \in Commitments, NEW p \in Periods,
           NEW at, Link(d, c, p, at)
    PROVE  \E key, gid, row : LinkRecord(d, c, p, key, gid, row)
<1>1. PICK key : key = <<active, c>>
  OBVIOUS
<1>2. key \in AliasKeys
  BY <1>1 DEF AliasKeys, RowsTyped
<1>3. PICK gid : gid = IF aliases[key] = 0 THEN Len(events) + 1 ELSE aliases[key]
  OBVIOUS
<1>4. gid \in 1..(Len(events) + 1)
  <2>1. aliases[key] \in 0..Len(events)
    BY <1>2 DEF RowsTyped, Ids
  <2>2. Len(events) \in Nat
    BY TableTypes
  <2>3. QED
    BY <1>3, <2>1, <2>2
<1>5. PICK row : row = [deployment |-> d, gid |-> gid, status |-> "ACTIVE", version |-> active,
              commitment |-> c, from |-> p, until |-> 0, latest |-> Len(events) + 1]
  OBVIOUS
<1>6. /\ MutationWritten("LINK", d, p, Len(events) + 1, row, [aliases EXCEPT ![key] = gid])
      /\ identities' = (IF aliases[key] = 0 THEN identities \cup {gid} ELSE identities)
  <2>1. /\ ApplyMutation("LINK", d, p, Len(events) + 1, row, [aliases EXCEPT ![key] = gid], at)
        /\ identities' = (IF aliases[key] = 0 THEN identities \cup {gid} ELSE identities)
    BY <1>1, <1>3, <1>5, Zenon DEF Link
  <2>2. QED
    BY <2>1, MutationWrites
<1>7. LinkRecord(d, c, p, key, gid, row)
  BY <1>1, <1>2, <1>3, <1>4, <1>5, <1>6, Zenon DEF LinkRecord
<1>8. QED
  BY <1>7

(* A link request keeps the tables in order.                               *)
LEMMA LinkTyped ==
    ASSUME TablesInv, NEW d \in Deployments, NEW c \in Commitments, NEW p \in Periods,
           NEW at, Link(d, c, p, at)
    PROVE  TablesInv'
<1>1. RowsTyped
  BY DEF TablesInv
<1>2. PICK key, gid, row : LinkRecord(d, c, p, key, gid, row)
  BY <1>1, LinkIs
<1>3. /\ key = <<active, c>> /\ key \in AliasKeys /\ gid \in 1..(Len(events) + 1)
      /\ row = [deployment |-> d, gid |-> gid, status |-> "ACTIVE", version |-> active,
                commitment |-> c, from |-> p, until |-> 0, latest |-> Len(events) + 1]
      /\ MutationWritten("LINK", d, p, Len(events) + 1, row, [aliases EXCEPT ![key] = gid])
      /\ identities' = (IF aliases[key] = 0 THEN identities \cup {gid} ELSE identities)
  BY <1>2, Zenon DEF LinkRecord
<1>4. PICK al : al = [aliases EXCEPT ![key] = gid]
  OBVIOUS
<1>5. Len(events) \in Nat /\ aliases \in [AliasKeys -> 0..Len(events)]
      /\ identities \subseteq 1..Len(events) /\ active \in Versions
  BY <1>1, TableTypes DEF RowsTyped, Ids
<1>6. /\ al \in [AliasKeys -> NextIds] /\ al[key] = gid /\ gid # 0
      /\ \A k \in AliasKeys : aliases[k] # 0 => al[k] # 0
  BY <1>3, <1>4, <1>5 DEF NextIds
<1>7. row \in NextLinkRows
  <2>1. Len(events) + 1 \in 1..(Len(events) + 1)
    BY <1>5
  <2>2. QED
    BY <1>3, <1>5, <2>1 DEF NextLinkRows
<1>8. /\ MutationWritten("LINK", d, p, Len(events) + 1, row, al)
      /\ al[<<row.version, row.commitment>>] # 0
  BY <1>3, <1>4, <1>6
<1>9. identities' \subseteq 1..(Len(events) + 1)
  BY <1>3, <1>5
<1>10. "LINK" \in LinkActions /\ Len(events) + 1 \in 1..(Len(events) + 1)
  BY <1>5 DEF LinkActions
<1>11. QED
  BY <1>6, <1>7, <1>8, <1>9, <1>10, MutationTyped

(* What the end of a link records.                                         *)
UnlinkRecord(d, l, p, row) ==
    /\ links[l].deployment = d /\ links[l].status = "ACTIVE" /\ links[l].from <= p
    /\ row = [links[l] EXCEPT !.status = "UNLINKED", !.until = p, !.latest = Len(events) + 1]
    /\ MutationWritten("UNLINK", d, p, l, row, aliases)
    /\ identities' = identities

(* The end of a link keeps the tables in order.                            *)
LEMMA UnlinkTyped ==
    ASSUME TablesInv, NEW d \in Deployments, NEW l \in DOMAIN links, NEW p \in Periods,
           NEW row, UnlinkRecord(d, l, p, row)
    PROVE  TablesInv'
<1>1. RowsTyped /\ LinksNamed
  BY DEF TablesInv
<1>2. PICK old : old = links[l]
  OBVIOUS
<1>3. /\ row = [old EXCEPT !.status = "UNLINKED", !.until = p, !.latest = Len(events) + 1]
      /\ MutationWritten("UNLINK", d, p, l, row, aliases) /\ identities' = identities
  BY <1>2, Zenon DEF UnlinkRecord
<1>4. /\ old \in LinkRows /\ aliases[<<old.version, old.commitment>>] # 0
      /\ Len(events) \in Nat /\ l \in 1..(Len(events) + 1)
      /\ DOMAIN events = 1..Len(events)
  BY <1>1, <1>2, TableTypes, LinkRowFacts DEF LinksNamed
<1>5. \A i \in 1..Len(events) : i \in 1..(Len(events) + 1)
  BY <1>4
<1>6. row \in NextLinkRows /\ row.version = old.version /\ row.commitment = old.commitment
  <2>1. old \in NextLinkRows
    BY <1>4, <1>5 DEF NextLinkRows, LinkRows
  <2>2. Len(events) + 1 \in 1..(Len(events) + 1)
    BY <1>4
  <2>3. QED
    BY <1>3, <2>1, <2>2 DEF NextLinkRows
<1>7. aliases \in [AliasKeys -> NextIds]
  BY <1>1, <1>4 DEF RowsTyped, Ids, NextIds
<1>8. identities' \subseteq 1..(Len(events) + 1)
  BY <1>1, <1>3, <1>4 DEF RowsTyped
<1>9. "UNLINK" \in LinkActions
  BY DEF LinkActions
<1>10. aliases[<<row.version, row.commitment>>] # 0
  BY <1>4, <1>6
<1>11. QED
  BY <1>3, <1>4, <1>6, <1>7, <1>8, <1>9, <1>10, MutationTyped

(* What a correction records.                                              *)
CorrectRecord(d, l, c, p, source, target, key, al, row) ==
    /\ links[l].deployment = d /\ links[l].status = "ACTIVE" /\ links[l].from <= p
    /\ source = aliases[<<links[l].version, links[l].commitment>>]
    /\ key = <<active, c>> /\ key \in AliasKeys
    /\ target = (IF aliases[key] = 0 THEN source ELSE aliases[key])
    /\ source \in 1..Len(events) /\ target \in 1..Len(events)
    /\ al = [k \in AliasKeys |-> IF k = key \/ aliases[k] = source THEN target ELSE aliases[k]]
    /\ row = [links[l] EXCEPT !.gid = target, !.version = active, !.commitment = c,
                              !.latest = Len(events) + 1]
    /\ MutationWritten("CORRECT", d, p, l, row, al)
    /\ identities' = identities

(* A correction names its source and its target.                           *)
LEMMA CorrectIs ==
    ASSUME RowsTyped, LinksNamed, NEW d, NEW l \in DOMAIN links, NEW c \in Commitments, NEW p,
           NEW at, Correct(d, l, c, p, at)
    PROVE  \E source, target, key, al, row :
                CorrectRecord(d, l, c, p, source, target, key, al, row)
<1>1. PICK source : source = aliases[<<links[l].version, links[l].commitment>>]
  OBVIOUS
<1>2. PICK key : key = <<active, c>>
  OBVIOUS
<1>3. PICK target : target = IF aliases[key] = 0 THEN source ELSE aliases[key]
  OBVIOUS
<1>4. key \in AliasKeys
  BY <1>2 DEF AliasKeys, RowsTyped
<1>5. source \in 1..Len(events) /\ target \in 1..Len(events)
  <2>1. aliases[key] \in 0..Len(events)
    BY <1>4 DEF RowsTyped, Ids
  <2>2. QED
    BY <1>1, <1>3, <2>1, LinkRowFacts
<1>6. PICK al : al = MergedAliases(source, target, key)
  OBVIOUS
<1>7. PICK row : row = [links[l] EXCEPT !.gid = target, !.version = active, !.commitment = c,
                              !.latest = Len(events) + 1]
  OBVIOUS
<1>8. /\ links[l].deployment = d /\ links[l].status = "ACTIVE" /\ links[l].from <= p
      /\ MutationWritten("CORRECT", d, p, l, row, al) /\ identities' = identities
  <2>1. /\ links[l].deployment = d /\ links[l].status = "ACTIVE" /\ links[l].from <= p
        /\ ApplyMutation("CORRECT", d, p, l, row, al, at) /\ identities' = identities
    BY <1>1, <1>2, <1>3, <1>6, <1>7, Zenon DEF Correct
  <2>2. QED
    BY <2>1, MutationWrites
<1>9. CorrectRecord(d, l, c, p, source, target, key, al, row)
  BY <1>1, <1>2, <1>3, <1>4, <1>5, <1>6, <1>7, <1>8, Zenon DEF CorrectRecord, MergedAliases
<1>10. QED
  BY <1>9

(* A correction keeps the tables in order.                                 *)
LEMMA CorrectTyped ==
    ASSUME TablesInv, NEW d \in Deployments, NEW l \in DOMAIN links, NEW c \in Commitments,
           NEW p \in Periods, NEW source, NEW target, NEW key, NEW al, NEW row,
           CorrectRecord(d, l, c, p, source, target, key, al, row)
    PROVE  TablesInv'
<1>1. RowsTyped /\ LinksNamed
  BY DEF TablesInv
<1>2. PICK old : old = links[l]
  OBVIOUS
<1>3. /\ key = <<active, c>> /\ key \in AliasKeys
      /\ source \in 1..Len(events) /\ target \in 1..Len(events)
      /\ al = [k \in AliasKeys |-> IF k = key \/ aliases[k] = source THEN target ELSE aliases[k]]
      /\ row = [old EXCEPT !.gid = target, !.version = active, !.commitment = c,
                           !.latest = Len(events) + 1]
      /\ MutationWritten("CORRECT", d, p, l, row, al) /\ identities' = identities
  BY <1>2, Zenon DEF CorrectRecord
<1>4. /\ old \in LinkRows /\ Len(events) \in Nat /\ l \in 1..(Len(events) + 1)
      /\ DOMAIN events = 1..Len(events) /\ active \in Versions
  BY <1>1, <1>2, TableTypes, LinkRowFacts DEF RowsTyped
<1>5. \A i \in 1..Len(events) : i \in 1..(Len(events) + 1) /\ i # 0 /\ i \in NextIds
  BY <1>4 DEF NextIds
<1>6. row \in NextLinkRows /\ row.version = active /\ row.commitment = c
  <2>1. old \in NextLinkRows
    BY <1>4, <1>5 DEF NextLinkRows, LinkRows
  <2>2. Len(events) + 1 \in 1..(Len(events) + 1) /\ target \in 1..(Len(events) + 1)
    BY <1>3, <1>4
  <2>3. QED
    BY <1>3, <1>4, <2>1, <2>2 DEF NextLinkRows
<1>7. al \in [AliasKeys -> NextIds]
  <2>1. \A k \in AliasKeys : aliases[k] \in NextIds
    BY <1>1, <1>4 DEF RowsTyped, Ids, NextIds
  <2>2. QED
    BY <1>3, <1>5, <2>1
<1>8. identities' \subseteq 1..(Len(events) + 1)
  BY <1>1, <1>3, <1>4 DEF RowsTyped
<1>9. "CORRECT" \in LinkActions
  BY DEF LinkActions
<1>10. al[<<row.version, row.commitment>>] # 0
  BY <1>3, <1>5, <1>6
<1>11. \A k \in AliasKeys : aliases[k] # 0 => al[k] # 0
  BY <1>3, <1>5
<1>12. QED
  BY <1>3, <1>4, <1>6, <1>7, <1>8, <1>9, <1>10, <1>11, MutationTyped

(* A chunk of a stored submission or of the next one, cut from its set.    *)
ChunkFacts(s, m, list) ==
    /\ s \in 1..(Len(submissions) + 1)
    /\ s \in DOMAIN submissions => m = submissions[s].manifest
    /\ m \in ManifestRows /\ Len(m.set) <= m.reported
    /\ list \in Lists

(* The batch of a deployment's month that is the newest.                   *)
LEMMA CurrentBatchIs ==
    ASSUME NEW d, NEW p
    PROVE  \/ /\ CurrentBatch(d, p) = [id |-> 0, revision |-> 0]
              /\ \A b \in CurrentBatches(p, batches) : b.deployment # d
           \/ /\ CurrentBatch(d, p) \in CurrentBatches(p, batches)
              /\ CurrentBatch(d, p).deployment = d
<1>1. PICK B : B = {b \in CurrentBatches(p, batches) : b.deployment = d}
  OBVIOUS
<1>2. CurrentBatch(d, p) = IF B = {} THEN [id |-> 0, revision |-> 0] ELSE CHOOSE b \in B : TRUE
  BY <1>1 DEF CurrentBatch
<1>3. CASE B = {}
  <2>1. CurrentBatch(d, p) = [id |-> 0, revision |-> 0]
    BY <1>2, <1>3, Zenon
  <2>2. \A b \in CurrentBatches(p, batches) : b.deployment # d
    BY <1>1, <1>3
  <2>3. QED
    BY <2>1, <2>2
<1>4. CASE B # {}
  <2>1. CurrentBatch(d, p) \in B
    <3>1. CurrentBatch(d, p) = CHOOSE b \in B : TRUE
      BY <1>2, <1>4, Zenon
    <3>2. QED
      BY <1>4, <3>1
  <2>2. QED
    BY <1>1, <2>1
<1>5. QED
  BY <1>3, <1>4

(* A new manifest is one.                                                  *)
LEMMA ManifestTyped ==
    ASSUME RowsTyped, NEW d \in Deployments, NEW p \in Periods, NEW r \in DOMAIN qmau[d][p],
           NEW m \in Manifests(d, p, r, active)
    PROVE  m \in ManifestRows /\ Len(m.set) <= m.reported
<1>1. /\ m.deployment = d /\ m.period = p /\ m.revision = r
      /\ m.supersedes = CurrentBatch(d, p).id /\ m.reported = qmau[d][p][r]
      /\ m.version = active /\ m.count \in 1..MaxItems /\ m.set \in Lists
      /\ Len(m.set) <= m.reported
      /\ m = [deployment |-> m.deployment, period |-> m.period, revision |-> m.revision,
              supersedes |-> m.supersedes, reported |-> m.reported, version |-> m.version,
              count |-> m.count, set |-> m.set]
  <2>1. m \in [deployment: {d}, period: {p}, revision: {r},
            supersedes: {CurrentBatch(d, p).id}, reported: {qmau[d][p][r]},
            version: {active}, count: 1..MaxItems, set: Lists]
        /\ Len(m.set) <= m.reported
    BY Zenon DEF Manifests
  <2>2. QED
    BY <2>1
<1>2. qmau[d][p] \in Seq(Counts)
  BY DEF RowsTyped
<1>3. r \in Nat \ {0} /\ qmau[d][p][r] \in Counts
  BY <1>2
<1>4. CurrentBatch(d, p).id \in Ids
  <2>1. CASE CurrentBatch(d, p) = [id |-> 0, revision |-> 0]
    BY <2>1, TableTypes DEF Ids
  <2>2. CASE CurrentBatch(d, p) \in CurrentBatches(p, batches)
    <3>1. CurrentBatch(d, p) \in BatchRows
      BY <2>2 DEF CurrentBatches, RowsTyped
    <3>2. CurrentBatch(d, p).id \in DOMAIN events
      BY <3>1 DEF BatchRows
    <3>3. QED
      BY <3>2, TableTypes DEF Ids
  <2>3. QED
    BY <2>1, <2>2, CurrentBatchIs
<1>5. active \in Versions
  BY DEF RowsTyped
<1>6. m \in ManifestRows
  BY <1>1, <1>3, <1>4, <1>5, Zenon DEF ManifestRows
<1>7. QED
  BY <1>1, <1>6

(* A presence step is a chunk, staged or the last.                         *)
LEMMA PresenceIs ==
    ASSUME RowsTyped, SetsFit, PresenceStep
    PROVE  \E s, m, list, at :
                /\ ChunkFacts(s, m, list) /\ at \in ClockReads
                /\ StageChunk(s, m, list, at) \/ CompletePresence(s, m, list, at)
<1>1. Len(submissions) \in Nat /\ DOMAIN submissions = 1..Len(submissions)
  BY TableTypes
<1>2. CASE \E s \in DOMAIN submissions : ChunkRequest(s, submissions[s].manifest)
  <2>1. PICK s \in DOMAIN submissions : ChunkRequest(s, submissions[s].manifest)
    BY <1>2
  <2>2. PICK m : m = submissions[s].manifest
    OBVIOUS
  <2>3. PICK list \in Pieces(m), at \in ClockReads :
                StageChunk(s, m, list, at) \/ CompletePresence(s, m, list, at)
    BY <2>1, <2>2, Zenon DEF ChunkRequest
  <2>4. m \in ManifestRows
    <3>1. submissions[s] \in SubmissionRows
      BY <2>1, TableTypes
    <3>2. QED
      BY <2>2, <3>1 DEF SubmissionRows
  <2>5. m.set \in Lists
    BY <2>4 DEF ManifestRows
  <2>6. list \in Lists
    BY <2>3, <2>5, PiecesAre
  <2>7. Len(m.set) <= m.reported
    BY <2>1, <2>2 DEF SetsFit
  <2>8. s \in 1..(Len(submissions) + 1)
    BY <1>1, <2>1
  <2>9. QED
    BY <2>2, <2>3, <2>4, <2>6, <2>7, <2>8, Zenon DEF ChunkFacts
<1>3. CASE \E d \in Deployments, p \in Periods : \E r \in DOMAIN qmau[d][p] :
            \E m \in Manifests(d, p, r, active) : ChunkRequest(Len(submissions) + 1, m)
  <2>1. PICK d \in Deployments, p \in Periods : \E r \in DOMAIN qmau[d][p] :
            \E m \in Manifests(d, p, r, active) : ChunkRequest(Len(submissions) + 1, m)
    BY <1>3, Zenon
  <2>2. PICK r \in DOMAIN qmau[d][p] :
            \E m \in Manifests(d, p, r, active) : ChunkRequest(Len(submissions) + 1, m)
    BY <2>1, Zenon
  <2>3. PICK m \in Manifests(d, p, r, active) : ChunkRequest(Len(submissions) + 1, m)
    BY <2>2, Zenon
  <2>4. PICK s : s = Len(submissions) + 1
    OBVIOUS
  <2>5. PICK list \in Pieces(m), at \in ClockReads :
                StageChunk(s, m, list, at) \/ CompletePresence(s, m, list, at)
    BY <2>3, <2>4, Zenon DEF ChunkRequest
  <2>6. m \in ManifestRows /\ Len(m.set) <= m.reported
    BY <2>1, <2>2, <2>3, ManifestTyped
  <2>7. m.set \in Lists
    BY <2>6 DEF ManifestRows
  <2>8. list \in Lists
    BY <2>5, <2>7, PiecesAre
  <2>9. s \in 1..(Len(submissions) + 1) /\ s \notin DOMAIN submissions
    BY <1>1, <2>4
  <2>10. QED
    BY <2>5, <2>6, <2>8, <2>9, Zenon DEF ChunkFacts
<1>4. QED
  BY <1>2, <1>3, Zenon DEF PresenceStep

(* Row s is stored, and no other changes.                                  *)
Stored(s, row) ==
    /\ DOMAIN submissions' = DOMAIN submissions \cup {s}
    /\ submissions'[s] = row
    /\ \A x \in DOMAIN submissions : x # s => submissions'[x] = submissions[x]

(* A stored chunk is the last of its submission's row.                     *)
LEMMA ChunkTyped ==
    ASSUME RowsTyped, NEW s, NEW m, NEW list, NEW event, ChunkFacts(s, m, list),
           Len(events) <= Len(events'), Len(events') \in Nat, DOMAIN events' = 1..Len(events'),
           event \in Ids', ChunkWritten(s, m, list, event)
    PROVE  /\ submissions' \in Seq(SubmissionRows')
           /\ Stored(s, [manifest |-> m, event |-> event, chunks |-> Append(ChunksOf(s), list)])
           /\ ChunksOf(s) \in Seq(Lists)
<1>1. PICK row : row = [manifest |-> m, event |-> event, chunks |-> Append(ChunksOf(s), list)]
  OBVIOUS
<1>2. submissions' = [x \in DOMAIN submissions \cup {s} |-> IF x = s THEN row ELSE submissions[x]]
  BY <1>1, Zenon DEF ChunkWritten
<1>3. /\ Len(submissions) \in Nat /\ DOMAIN submissions = 1..Len(submissions)
      /\ Len(events) \in Nat /\ DOMAIN events = 1..Len(events)
  BY TableTypes
<1>4. /\ s \in 1..(Len(submissions) + 1) /\ m \in ManifestRows /\ list \in Lists
  BY DEF ChunkFacts
<1>5. Stored(s, row)
  BY <1>2 DEF Stored
<1>6. ChunksOf(s) \in Seq(Lists)
  <2>1. CASE s \in DOMAIN submissions
    <3>1. submissions[s] \in SubmissionRows
      BY <2>1, TableTypes
    <3>2. submissions[s].chunks \in Seq(Lists)
      BY <3>1 DEF SubmissionRows
    <3>3. QED
      BY <2>1, <3>2 DEF ChunksOf
  <2>2. CASE s \notin DOMAIN submissions
    <3>1. ChunksOf(s) = <<>>
      BY <2>2, Zenon DEF ChunksOf
    <3>2. QED
      BY <3>1
  <2>3. QED
    BY <2>1, <2>2
<1>7. row \in SubmissionRows'
  <2>1. Append(ChunksOf(s), list) \in Seq(Lists)
    <3> HIDE DEF Lists
    <3>1. QED
      BY <1>4, <1>6
  <2>2. m \in ManifestRows'
    BY <1>3, <1>4, RowsGrow
  <2>3. QED
    BY <1>1, <2>1, <2>2, Zenon DEF SubmissionRows
<1>8. ASSUME NEW x \in DOMAIN submissions PROVE submissions[x] \in SubmissionRows'
  <2>1. PICK r : r = submissions[x]
    OBVIOUS
  <2>2. r \in SubmissionRows
    BY <1>8, <2>1, TableTypes
  <2>3. r.manifest \in ManifestRows /\ r.event \in Ids /\ r.chunks \in Seq(Lists)
        /\ r = [manifest |-> r.manifest, event |-> r.event, chunks |-> r.chunks]
    BY <2>2 DEF SubmissionRows
  <2>4. r.manifest \in ManifestRows' /\ r.event \in Ids'
    BY <1>3, <2>3, RowsGrow DEF Ids
  <2>5. r \in SubmissionRows'
    BY <2>3, <2>4, Zenon DEF SubmissionRows
  <2>6. QED
    BY <2>1, <2>5
<1>9. submissions' \in Seq(SubmissionRows')
  <2> HIDE DEF SubmissionRows
  <2>1. PICK R, n : R = SubmissionRows' /\ n = Len(submissions)
    OBVIOUS
  <2>2. row \in R /\ \A x \in 1..n : submissions[x] \in R
    BY <1>3, <1>7, <1>8, <2>1
  <2>3. CASE s = n + 1
    <3>1. DOMAIN submissions \cup {s} = 1..(n + 1)
      BY <1>3, <2>1, <2>3
    <3>2. submissions' = [x \in 1..(n + 1) |-> IF x = s THEN row ELSE submissions[x]]
      BY <1>2, <3>1
    <3>3. \A x \in 1..(n + 1) : (IF x = s THEN row ELSE submissions[x]) \in R
      BY <1>3, <2>1, <2>2, <2>3
    <3>4. submissions' \in [1..(n + 1) -> R]
      BY <3>2, <3>3
    <3>5. n + 1 \in Nat
      BY <1>3, <2>1
    <3>6. QED
      BY <2>1, <3>4, <3>5
  <2>4. CASE s # n + 1
    <3>1. DOMAIN submissions \cup {s} = 1..n
      BY <1>3, <1>4, <2>1, <2>4
    <3>2. submissions' = [x \in 1..n |-> IF x = s THEN row ELSE submissions[x]]
      BY <1>2, <3>1
    <3>3. submissions' \in [1..n -> R]
      BY <2>2, <3>2
    <3>4. n \in Nat
      BY <1>3, <2>1
    <3>5. QED
      BY <2>1, <3>3, <3>4
  <2>5. QED
    BY <2>3, <2>4
<1>10. QED
  BY <1>1, <1>5, <1>6, <1>9

(* A staged chunk changes its submission only.                             *)
StageRecord(s, m, list) ==
    /\ ChunkFacts(s, m, list)
    /\ SubmissionOpen(s, m) /\ MayAccept(m, list) /\ Len(ChunksOf(s)) + 1 < m.count
    /\ ChunksOf(s) \in Seq(Lists)
    /\ Stored(s, [manifest |-> m, event |-> 0, chunks |-> Append(ChunksOf(s), list)])
    /\ active' = active /\ qmau' = qmau /\ events' = events /\ links' = links
    /\ aliases' = aliases /\ identities' = identities /\ batches' = batches
    /\ snapshots' = snapshots

(* A staged chunk keeps the tables in order.                               *)
LEMMA StageTyped ==
    ASSUME TablesInv, NEW s, NEW m, NEW list, ChunkFacts(s, m, list), NEW at,
           StageChunk(s, m, list, at)
    PROVE  TablesInv' /\ StageRecord(s, m, list)
<1>1. RowsTyped /\ SetsFit /\ LinksNamed
  BY DEF TablesInv
<1>2. /\ active' = active /\ qmau' = qmau /\ events' = events /\ links' = links
      /\ aliases' = aliases /\ identities' = identities /\ batches' = batches
      /\ snapshots' = snapshots /\ ChunkWritten(s, m, list, 0)
      /\ SubmissionOpen(s, m) /\ MayAccept(m, list) /\ Len(ChunksOf(s)) + 1 < m.count
  BY Zenon DEF StageChunk, WithChunk, ChunkWritten
<1>3. Len(events) \in Nat /\ DOMAIN events = 1..Len(events)
  BY <1>1, TableTypes
<1>4. /\ Len(events) <= Len(events') /\ Len(events') \in Nat /\ DOMAIN events' = 1..Len(events')
      /\ 0 \in Ids'
  BY <1>2, <1>3 DEF Ids
<1>5. /\ submissions' \in Seq(SubmissionRows') /\ ChunksOf(s) \in Seq(Lists)
      /\ Stored(s, [manifest |-> m, event |-> 0, chunks |-> Append(ChunksOf(s), list)])
  BY <1>1, <1>2, <1>4, ChunkTyped
<1>6. StageRecord(s, m, list)
  BY <1>2, <1>5, Zenon DEF StageRecord
<1>7. /\ Ids' = Ids /\ EventRows' = EventRows /\ LinkRows' = LinkRows
      /\ BatchRows' = BatchRows /\ SnapshotRows' = SnapshotRows
  BY <1>2, Zenon DEF Ids, EventRows, LinkRows, BatchRows, SnapshotRows
<1>8. RowsTyped'
  BY <1>1, <1>2, <1>5, <1>7, Zenon DEF RowsTyped
<1>9. SetsFit'
  <2>1. ASSUME NEW x \in DOMAIN submissions'
        PROVE  Len(submissions'[x].manifest.set) <= submissions'[x].manifest.reported
    <3>1. CASE x = s
      <4>1. submissions'[x].manifest = m
        BY <1>5, <3>1 DEF Stored
      <4>2. QED
        BY <4>1 DEF ChunkFacts
    <3>2. CASE x # s
      <4>1. x \in DOMAIN submissions /\ submissions'[x] = submissions[x]
        BY <1>5, <2>1, <3>2 DEF Stored
      <4>2. QED
        BY <1>1, <4>1 DEF SetsFit
    <3>3. QED
      BY <3>1, <3>2
  <2>2. QED
    BY <1>1, <1>2, <2>1, Zenon DEF SetsFit
<1>10. LinksNamed'
  BY <1>1, <1>2, Zenon DEF LinksNamed
<1>11. QED
  BY <1>6, <1>8, <1>9, <1>10 DEF TablesInv

(* What the last chunk records.                                            *)
CompleteRecord(s, m, list, e, b, n) ==
    /\ ChunkFacts(s, m, list)
    /\ SubmissionOpen(s, m) /\ MayAccept(m, list) /\ Len(ChunksOf(s)) + 1 = m.count
    /\ CompleteSet(m, Collected(s, list))
    /\ ChunksOf(s) \in Seq(Lists)
    /\ n = Len(events) + 1 /\ e = PresenceEvent(m, n) /\ b = Batch(m, n)
    /\ EventWritten(e, aliases, batches \cup {b})
    /\ Extended(events, events', e)
    /\ batches' = batches \cup {b}
    /\ Stored(s, [manifest |-> m, event |-> n, chunks |-> Append(ChunksOf(s), list)])
    /\ active' = active /\ qmau' = qmau /\ links' = links
    /\ aliases' = aliases /\ identities' = identities

(* The last chunk keeps the tables in order.                               *)
LEMMA CompleteTyped ==
    ASSUME TablesInv, NEW s, NEW m, NEW list, ChunkFacts(s, m, list),
           NEW at, CompletePresence(s, m, list, at)
    PROVE  TablesInv' /\ \E e, b, n : CompleteRecord(s, m, list, e, b, n)
<1>1. RowsTyped /\ SetsFit /\ LinksNamed
  BY DEF TablesInv
<1>2. PICK n, b, e : n = Len(events) + 1 /\ e = PresenceEvent(m, n) /\ b = Batch(m, n)
  OBVIOUS
<1>3. /\ active' = active /\ qmau' = qmau /\ links' = links
      /\ aliases' = aliases /\ identities' = identities /\ batches' = batches \cup {b}
      /\ EventWritten(e, aliases, batches \cup {b}) /\ ChunkWritten(s, m, list, n)
      /\ SubmissionOpen(s, m) /\ MayAccept(m, list) /\ Len(ChunksOf(s)) + 1 = m.count
      /\ CompleteSet(m, Collected(s, list))
  <2>1. /\ active' = active /\ qmau' = qmau /\ links' = links
        /\ aliases' = aliases /\ identities' = identities /\ batches' = batches \cup {b}
        /\ AppendEvent(e, aliases, batches \cup {b}, at) /\ WithChunk(s, m, list, n, at)
        /\ SubmissionOpen(s, m) /\ MayAccept(m, list) /\ Len(ChunksOf(s)) + 1 = m.count
        /\ CompleteSet(m, Collected(s, list))
    BY <1>2, Zenon DEF CompletePresence
  <2>2. ChunkWritten(s, m, list, n)
    BY <2>1, Zenon DEF WithChunk, ChunkWritten
  <2>3. EventWritten(e, aliases, batches \cup {b})
    BY <2>1, EventWrites
  <2>4. QED
    BY <2>1, <2>2, <2>3
<1>4. Len(events) \in Nat /\ DOMAIN events = 1..Len(events)
  BY <1>1, TableTypes
<1>5. /\ m \in ManifestRows /\ Len(m.set) <= m.reported
  BY DEF ChunkFacts
<1>6. /\ m.deployment \in Deployments /\ m.period \in Periods /\ m.revision \in Nat \ {0}
      /\ m.supersedes \in Ids /\ m.reported \in Counts /\ m.version \in Versions
      /\ m.set \in Lists
  BY <1>5 DEF ManifestRows
<1>7. e \in NextEventRows
  <2>1. 0 \in NextIds
    BY <1>4 DEF NextIds
  <2>2. QED
    BY <1>2, <1>6, <2>1, Zenon DEF PresenceEvent, NextEventRows
<1>8. /\ b.id = n /\ b.reported = m.reported /\ b.version = m.version /\ b.items = m.set
  BY <1>2 DEF Batch
<1>9. BatchFacts(batches \cup {b})
  <2>1. BatchFacts(batches)
    BY <1>1, TableBatches
  <2>2. IsFiniteSet(batches \cup {b})
    BY <2>1, FS_AddElement DEF BatchFacts
  <2>3. m.reported \in Nat
    BY <1>6, IdentityAssumption
  <2>4. QED
    BY <1>5, <1>6, <1>8, <2>1, <2>2, <2>3 DEF BatchFacts
<1>10. aliases \in [AliasKeys -> NextIds]
  BY <1>1, <1>4 DEF RowsTyped, Ids, NextIds
<1>11. /\ Extended(events, events', e)
       /\ Len(events') \in Nat /\ Len(events) <= Len(events') /\ DOMAIN events' = 1..Len(events')
       /\ Ids' = NextIds /\ events' \in Seq(EventRows') /\ snapshots' \in Seq(SnapshotRows')
       /\ Len(snapshots') = Len(events')
       /\ \A i \in DOMAIN events' : i \in DOMAIN snapshots' /\ snapshots'[i].through = i
  BY <1>1, <1>3, <1>7, <1>9, <1>10, EventTyped
<1>12. n \in Ids' /\ n \in DOMAIN events' /\ \A i \in Ids : i \in Ids'
  BY <1>2, <1>4, <1>11 DEF Extended, Ids
<1>13. /\ submissions' \in Seq(SubmissionRows') /\ ChunksOf(s) \in Seq(Lists)
       /\ Stored(s, [manifest |-> m, event |-> n, chunks |-> Append(ChunksOf(s), list)])
  BY <1>1, <1>3, <1>11, <1>12, ChunkTyped
<1>14. CompleteRecord(s, m, list, e, b, n)
  BY <1>2, <1>3, <1>11, <1>13, Zenon DEF CompleteRecord
<1>15. \A i \in DOMAIN events : i \in DOMAIN events'
  BY <1>4, <1>11
<1>16. RowsTyped'
  <2>1. b \in BatchRows'
    <3>1. b = [id |-> n, deployment |-> m.deployment, period |-> m.period,
               revision |-> m.revision, supersedes |-> m.supersedes, reported |-> m.reported,
               version |-> m.version, items |-> m.set]
      BY <1>2, Zenon DEF Batch
    <3>2. QED
      BY <1>6, <1>12, <3>1, Zenon DEF BatchRows
  <2>2. batches' \subseteq BatchRows'
    BY <1>1, <1>3, <1>4, <1>11, <2>1, RowsGrow DEF RowsTyped
  <2>3. \A l \in DOMAIN links' : links'[l] \in LinkRows'
    BY <1>1, <1>3, <1>4, <1>11, RowsGrow DEF RowsTyped
  <2>4. DOMAIN links' \subseteq DOMAIN events' /\ identities' \subseteq DOMAIN events'
    BY <1>1, <1>3, <1>15 DEF RowsTyped
  <2>5. active' \in Versions /\ qmau' \in [Deployments -> [Periods -> Seq(Counts)]]
        /\ aliases' \in [AliasKeys -> Ids']
    BY <1>1, <1>3, <1>10, <1>11, Zenon DEF RowsTyped
  <2>6. QED
    BY <1>11, <1>13, <2>2, <2>3, <2>4, <2>5, Zenon DEF RowsTyped
<1>17. SetsFit'
  <2>1. ASSUME NEW x \in DOMAIN submissions'
        PROVE  Len(submissions'[x].manifest.set) <= submissions'[x].manifest.reported
    <3>1. CASE x = s
      <4>1. submissions'[x].manifest = m
        BY <1>13, <3>1 DEF Stored
      <4>2. QED
        BY <4>1 DEF ChunkFacts
    <3>2. CASE x # s
      <4>1. x \in DOMAIN submissions /\ submissions'[x] = submissions[x]
        BY <1>13, <2>1, <3>2 DEF Stored
      <4>2. QED
        BY <1>1, <4>1 DEF SetsFit
    <3>3. QED
      BY <3>1, <3>2
  <2>2. IsFiniteSet(batches') /\ \A x \in batches' : Len(x.items) <= x.reported
    BY <1>3, <1>9 DEF BatchFacts
  <2>3. QED
    BY <1>11, <2>1, <2>2, Zenon DEF SetsFit
<1>18. LinksNamed'
  BY <1>1, <1>3, Zenon DEF LinksNamed
<1>19. QED
  BY <1>14, <1>16, <1>17, <1>18 DEF TablesInv

(* The surroundings keep the tables in order.                              *)
LEMMA SurroundingsTyped ==
    ASSUME TablesInv,
           \/ \E d \in Deployments, p \in Periods, n \in Counts : AcceptQMAU(d, p, n)
           \/ RotateKey
           \/ Tick
           \/ UNCHANGED vars
    PROVE  /\ TablesInv'
           /\ events' = events /\ links' = links /\ aliases' = aliases
           /\ identities' = identities /\ submissions' = submissions /\ batches' = batches
           /\ snapshots' = snapshots
           /\ qmau' = qmau \/ (\E d \in Deployments, p \in Periods, n \in Counts :
                                    qmau' = [qmau EXCEPT ![d][p] = Append(@, n)])
<1>1. RowsTyped /\ SetsFit /\ LinksNamed
  BY DEF TablesInv
<1>2. /\ events' = events /\ links' = links /\ aliases' = aliases /\ identities' = identities
      /\ submissions' = submissions /\ batches' = batches /\ snapshots' = snapshots
  BY Zenon DEF AcceptQMAU, RotateKey, Tick, vars
<1>3. qmau' = qmau \/ (\E d \in Deployments, p \in Periods, n \in Counts :
                                    qmau' = [qmau EXCEPT ![d][p] = Append(@, n)])
  BY Zenon DEF AcceptQMAU, RotateKey, Tick, vars
<1>4. active' \in Versions
  <2>1. active \in Versions
    BY <1>1 DEF RowsTyped
  <2>2. CASE RotateKey
    BY <2>1, <2>2, IdentityAssumption DEF RotateKey, Versions
  <2>3. CASE ~RotateKey
    <3>1. active' = active
      BY <2>3, Zenon DEF AcceptQMAU, Tick, vars
    <3>2. QED
      BY <2>1, <3>1
  <2>4. QED
    BY <2>2, <2>3
<1>5. qmau' \in [Deployments -> [Periods -> Seq(Counts)]]
  <2>1. qmau \in [Deployments -> [Periods -> Seq(Counts)]]
    BY <1>1, Zenon DEF RowsTyped
  <2>2. CASE qmau' = qmau
    BY <2>1, <2>2
  <2>3. ASSUME NEW d \in Deployments, NEW p \in Periods, NEW n \in Counts,
               qmau' = [qmau EXCEPT ![d][p] = Append(@, n)]
        PROVE  qmau' \in [Deployments -> [Periods -> Seq(Counts)]]
    <3>1. Append(qmau[d][p], n) \in Seq(Counts)
      BY <2>1
    <3>2. QED
      BY <2>1, <2>3, <3>1
  <2>4. QED
    BY <1>3, <2>2, <2>3
<1>6. /\ Ids' = Ids /\ EventRows' = EventRows /\ LinkRows' = LinkRows
      /\ BatchRows' = BatchRows /\ SnapshotRows' = SnapshotRows
      /\ ManifestRows' = ManifestRows
  BY <1>2, Zenon DEF Ids, EventRows, LinkRows, BatchRows, SnapshotRows, ManifestRows
<1>7. SubmissionRows' = SubmissionRows
  BY <1>6, Zenon DEF SubmissionRows
<1>8. RowsTyped'
  BY <1>1, <1>2, <1>4, <1>5, <1>6, <1>7, Zenon DEF RowsTyped
<1>9. SetsFit' /\ LinksNamed'
  BY <1>1, <1>2, Zenon DEF SetsFit, LinksNamed
<1>10. QED
  BY <1>2, <1>3, <1>8, <1>9 DEF TablesInv

(* The empty tables are in order.                                          *)
LEMMA TablesInit == Init => TablesInv
<1> SUFFICES ASSUME Init PROVE TablesInv
  OBVIOUS
<1>1. /\ active = 1 /\ qmau = [d \in Deployments |-> [p \in Periods |-> <<>>]]
      /\ events = <<>> /\ links = <<>> /\ aliases = [k \in AliasKeys |-> 0]
      /\ identities = {} /\ submissions = <<>> /\ batches = {} /\ snapshots = <<>>
  BY DEF Init
<1>2. Len(events) = 0 /\ DOMAIN events = {} /\ DOMAIN links = {} /\ DOMAIN submissions = {}
      /\ Len(snapshots) = 0
  BY <1>1
<1>3. active \in Versions /\ 0 \in Ids
  BY <1>1, <1>2, IdentityAssumption DEF Versions, Ids
<1>4. events \in Seq(EventRows) /\ submissions \in Seq(SubmissionRows)
      /\ snapshots \in Seq(SnapshotRows)
  <2> HIDE DEF EventRows, SubmissionRows, SnapshotRows
  <2>1. QED
    BY <1>1
<1>5. qmau \in [Deployments -> [Periods -> Seq(Counts)]] /\ aliases \in [AliasKeys -> Ids]
  BY <1>1, <1>3
<1>6. RowsTyped
  BY <1>1, <1>2, <1>3, <1>4, <1>5, Zenon DEF RowsTyped
<1>7. SetsFit /\ LinksNamed
  BY <1>1, <1>2, FS_EmptySet DEF SetsFit, LinksNamed
<1>8. QED
  BY <1>6, <1>7 DEF TablesInv

(* The kinds of steps.                                                     *)
LinkTaken ==
    \E d \in Deployments, c \in Commitments, p \in Periods :
        \E key, gid, row : LinkRecord(d, c, p, key, gid, row)

UnlinkTaken ==
    \E d \in Deployments, l \in DOMAIN links, p \in Periods :
        \E row : UnlinkRecord(d, l, p, row)

CorrectTaken ==
    \E d \in Deployments, l \in DOMAIN links, c \in Commitments, p \in Periods :
        \E source, target, key, al, row :
            CorrectRecord(d, l, c, p, source, target, key, al, row)

StageTaken == \E s, m, list : StageRecord(s, m, list)

CompleteTaken == \E s, m, list, e, b, n : CompleteRecord(s, m, list, e, b, n)

Quiet ==
    /\ events' = events /\ links' = links /\ aliases' = aliases
    /\ identities' = identities /\ submissions' = submissions /\ batches' = batches
    /\ snapshots' = snapshots
    /\ qmau' = qmau \/ (\E d \in Deployments, p \in Periods, n \in Counts :
                            qmau' = [qmau EXCEPT ![d][p] = Append(@, n)])

(* Every step is of one of the kinds and keeps the tables in order.        *)
LEMMA TablesStep ==
    ASSUME TablesInv, [Next]_vars
    PROVE  /\ TablesInv'
           /\ \/ LinkTaken \/ UnlinkTaken \/ CorrectTaken
              \/ StageTaken \/ CompleteTaken \/ Quiet
<1>1. RowsTyped /\ SetsFit /\ LinksNamed
  BY DEF TablesInv
<1>2. CASE LinkStep
  <2>1. PICK d \in Deployments, p \in Periods, at \in ClockReads :
                LinkRequest(d, p, at) \/ LinkActionRequest(d, p, at)
    BY <1>2 DEF LinkStep
  <2>2. ASSUME NEW c \in Commitments, Link(d, c, p, at) PROVE TablesInv' /\ LinkTaken
    <3>1. TablesInv'
      BY <2>2, LinkTyped
    <3>2. \E key, gid, row : LinkRecord(d, c, p, key, gid, row)
      BY <1>1, <2>2, LinkIs
    <3>3. QED
      BY <3>1, <3>2, Zenon DEF LinkTaken
  <2>3. ASSUME NEW l \in DOMAIN links, Unlink(d, l, p, at) PROVE TablesInv' /\ UnlinkTaken
    <3>1. PICK row : row = [links[l] EXCEPT !.status = "UNLINKED", !.until = p,
                                            !.latest = Len(events) + 1]
      OBVIOUS
    <3>2. UnlinkRecord(d, l, p, row)
      <4>1. /\ ApplyMutation("UNLINK", d, p, l, row, aliases, at)
            /\ links[l].deployment = d /\ links[l].status = "ACTIVE" /\ links[l].from <= p
            /\ identities' = identities
        BY <2>3, <3>1, Zenon DEF Unlink
      <4>2. MutationWritten("UNLINK", d, p, l, row, aliases)
        BY <4>1, MutationWrites
      <4>3. QED
        BY <3>1, <4>1, <4>2, Zenon DEF UnlinkRecord
    <3>3. TablesInv'
      BY <3>2, UnlinkTyped
    <3>4. QED
      BY <3>2, <3>3, Zenon DEF UnlinkTaken
  <2>4. ASSUME NEW l \in DOMAIN links, NEW c \in Commitments, Correct(d, l, c, p, at)
        PROVE  TablesInv' /\ CorrectTaken
    <3>1. PICK source, target, key, al, row :
                CorrectRecord(d, l, c, p, source, target, key, al, row)
      BY <1>1, <2>4, CorrectIs
    <3>2. TablesInv'
      BY <3>1, CorrectTyped
    <3>3. QED
      BY <3>1, <3>2, Zenon DEF CorrectTaken
  <2>5. QED
    BY <2>1, <2>2, <2>3, <2>4, Zenon DEF LinkRequest, LinkActionRequest
<1>3. CASE PresenceStep
  <2>1. PICK s, m, list, at :
                /\ ChunkFacts(s, m, list)
                /\ StageChunk(s, m, list, at) \/ CompletePresence(s, m, list, at)
    BY <1>1, <1>3, PresenceIs
  <2>2. CASE StageChunk(s, m, list, at)
    BY <2>1, <2>2, StageTyped, Zenon DEF StageTaken
  <2>3. CASE CompletePresence(s, m, list, at)
    BY <2>1, <2>3, CompleteTyped, Zenon DEF CompleteTaken
  <2>4. QED
    BY <2>1, <2>2, <2>3
<1>4. CASE \/ \E d \in Deployments, p \in Periods, n \in Counts : AcceptQMAU(d, p, n)
           \/ RotateKey
           \/ Tick
           \/ UNCHANGED vars
  <2>1. TablesInv' /\ Quiet
    BY <1>4, SurroundingsTyped, Zenon DEF Quiet
  <2>2. QED
    BY <2>1
<1>5. QED
  BY <1>2, <1>3, <1>4, Zenon DEF Next

-----------------------------------------------------------------------------
(* The clock values.                                                       *)

(* A column of clock values, extended by one that the clock has shown.     *)
LEMMA TimeAppended ==
    ASSUME NEW n \in Nat, NEW c \in Nat, NEW t \in [1..n -> 1..c], NEW at \in 1..c
    PROVE  /\ Append(t, at) \in [1..(n + 1) -> 1..c]
           /\ \A i \in 1..n : Append(t, at)[i] = t[i]
           /\ Append(t, at)[n + 1] = at
<1>1. t \in Seq(1..c)
  OBVIOUS
<1>2. Len(t) = n
  OBVIOUS
<1>3. Extended(t, Append(t, at), at)
  BY <1>1, AppendExtends
<1>4. Append(t, at) \in Seq(1..c)
  BY <1>1
<1>5. PICK u : u = Append(t, at)
  OBVIOUS
<1>6. Len(u) = n + 1 /\ u \in Seq(1..c)
  BY <1>2, <1>3, <1>4, <1>5 DEF Extended
<1>7. u \in [1..(n + 1) -> 1..c]
  BY <1>6
<1>8. (\A i \in 1..n : u[i] = t[i]) /\ u[n + 1] = at
  BY <1>2, <1>3, <1>5 DEF Extended
<1>9. QED
  BY <1>5, <1>7, <1>8

(* A transaction's clock value is one that the clock has shown.            *)
LEMMA ClockRead ==
    ASSUME clock \in Times, NEW at \in ClockReads
    PROVE  clock \in Nat /\ at \in 1..clock
BY IdentityAssumption DEF ClockReads, Times

TimesInv == TimesTyped /\ EventTimesOrdered

(* An event's time joins its column, after the newest.                     *)
LEMMA EventTimes ==
    ASSUME RowsTyped, TimesInv, NEW at \in ClockReads, NEW e, clock' = clock,
           NotBeforeHead(at), times' = Append(times, at), Extended(events, events', e)
    PROVE  times' \in [DOMAIN events' -> 1..clock'] /\ EventTimesOrdered'
<1>1. PICK n : n = Len(events)
  OBVIOUS
<1>2. /\ n \in Nat /\ DOMAIN events = 1..n /\ Len(events') = n + 1
      /\ DOMAIN events' = 1..(n + 1)
  BY <1>1 DEF Extended
<1>3. clock \in Nat /\ at \in 1..clock /\ times \in [1..n -> 1..clock]
  BY <1>2, ClockRead DEF TimesInv, TimesTyped
<1>4. /\ times' \in [1..(n + 1) -> 1..clock] /\ times'[n + 1] = at
      /\ \A i \in 1..n : times'[i] = times[i]
  <2>1. PICK t, c : t = times /\ c = clock
    OBVIOUS
  <2>2. n \in Nat /\ c \in Nat /\ t \in [1..n -> 1..c] /\ at \in 1..c
    BY <1>2, <1>3, <2>1
  <2>3. /\ Append(t, at) \in [1..(n + 1) -> 1..c]
        /\ \A i \in 1..n : Append(t, at)[i] = t[i]
        /\ Append(t, at)[n + 1] = at
    BY <2>2, TimeAppended
  <2>4. times' = Append(t, at)
    BY <2>1
  <2>5. QED
    BY <2>1, <2>3, <2>4, Zenon
<1>5. ASSUME NEW i \in 1..n PROVE times'[i] <= times'[i + 1]
  <2>1. CASE i = n
    <3>1. events # <<>>
      BY <1>1, <1>2, <2>1
    <3>2. times[n] <= at
      BY <1>1, <3>1 DEF NotBeforeHead
    <3>3. QED
      BY <1>2, <1>4, <2>1, <3>2
  <2>2. CASE i # n
    <3>1. i \in 1..(n - 1) /\ i + 1 \in 1..n
      BY <1>2, <2>2
    <3>2. times[i] <= times[i + 1]
      BY <1>1, <3>1 DEF TimesInv, EventTimesOrdered
    <3>3. QED
      BY <1>4, <3>1, <3>2
  <2>3. QED
    BY <2>1, <2>2
<1>6. EventTimesOrdered'
  <2>1. \A i \in 1..(Len(events') - 1) : i \in 1..n
    BY <1>2
  <2>2. QED
    BY <1>5, <2>1 DEF EventTimesOrdered
<1>7. QED
  BY <1>2, <1>4, <1>6

(* A chunk's time joins its submission's column.                           *)
LEMMA ChunkTimesGrow ==
    ASSUME RowsTyped, TimesInv, NEW s, NEW m, NEW list, NEW event, NEW at \in ClockReads,
           ChunkFacts(s, m, list), WithChunk(s, m, list, event, at), clock' = clock,
           ChunksOf(s) \in Seq(Lists)
    PROVE  /\ DOMAIN chunkTimes' = DOMAIN submissions'
           /\ \A x \in DOMAIN submissions' :
                chunkTimes'[x] \in [DOMAIN submissions'[x].chunks -> 1..clock']
<1> HIDE DEF Lists
<1>1. PICK row : row = [manifest |-> m, event |-> event, chunks |-> Append(ChunksOf(s), list)]
  OBVIOUS
<1>2. /\ submissions' = [x \in DOMAIN submissions \cup {s} |->
                            IF x = s THEN row ELSE submissions[x]]
      /\ chunkTimes' = [x \in DOMAIN submissions \cup {s} |->
                            IF x = s THEN Append(ChunkTimesOf(s), at) ELSE chunkTimes[x]]
  BY <1>1, Zenon DEF WithChunk
<1>3. clock \in Nat /\ at \in 1..clock
  BY ClockRead DEF TimesInv, TimesTyped
<1>4. PICK n : n = Len(ChunksOf(s))
  OBVIOUS
<1>5. n \in Nat /\ DOMAIN ChunksOf(s) = 1..n /\ DOMAIN row.chunks = 1..(n + 1)
  <2>1. Extended(ChunksOf(s), Append(ChunksOf(s), list), list)
    BY AppendExtends
  <2>2. row.chunks = Append(ChunksOf(s), list)
    BY <1>1
  <2>3. QED
    BY <1>4, <2>1, <2>2 DEF Extended
<1>6. ChunkTimesOf(s) \in [1..n -> 1..clock]
  <2>1. CASE s \in DOMAIN submissions
    <3>1. ChunkTimesOf(s) = chunkTimes[s] /\ ChunksOf(s) = submissions[s].chunks
      BY <2>1 DEF ChunkTimesOf, ChunksOf
    <3>2. chunkTimes[s] \in [DOMAIN submissions[s].chunks -> 1..clock]
      BY <2>1 DEF TimesInv, TimesTyped
    <3>3. QED
      BY <1>5, <3>1, <3>2
  <2>2. CASE s \notin DOMAIN submissions
    <3>1. ChunkTimesOf(s) = <<>> /\ ChunksOf(s) = <<>>
      BY <2>2 DEF ChunkTimesOf, ChunksOf
    <3>2. n = 0
      BY <1>4, <3>1
    <3>3. QED
      BY <3>1, <3>2
  <2>3. QED
    BY <2>1, <2>2
<1>7. Append(ChunkTimesOf(s), at) \in [1..(n + 1) -> 1..clock]
  BY <1>3, <1>5, <1>6, TimeAppended
<1>8. ASSUME NEW x \in DOMAIN submissions'
      PROVE  chunkTimes'[x] \in [DOMAIN submissions'[x].chunks -> 1..clock']
  <2>1. CASE x = s
    <3>1. chunkTimes'[x] = Append(ChunkTimesOf(s), at) /\ submissions'[x] = row
      BY <1>2, <2>1
    <3>2. QED
      BY <1>5, <1>7, <3>1
  <2>2. CASE x # s
    <3>1. x \in DOMAIN submissions /\ chunkTimes'[x] = chunkTimes[x]
          /\ submissions'[x] = submissions[x]
      BY <1>2, <2>2
    <3>2. chunkTimes[x] \in [DOMAIN submissions[x].chunks -> 1..clock]
      BY <3>1 DEF TimesInv, TimesTyped
    <3>3. QED
      BY <3>1, <3>2
  <2>3. QED
    BY <2>1, <2>2
<1>9. DOMAIN chunkTimes' = DOMAIN submissions'
  BY <1>2
<1>10. QED
  BY <1>8, <1>9

(* A link request's time.                                                  *)
LEMMA MutationTimes ==
    ASSUME RowsTyped, TimesInv, NEW at \in ClockReads, NEW action, NEW d, NEW p, NEW link,
           NEW row, NEW al, ApplyMutation(action, d, p, link, row, al, at)
    PROVE  TimesInv'
<1>1. PICK e : e = LinkEvent(action, d, p, link, row)
  OBVIOUS
<1>2. /\ AppendEvent(e, al, batches, at) /\ clock' = clock /\ chunkTimes' = chunkTimes
      /\ submissions' = submissions
  BY <1>1, Zenon DEF ApplyMutation
<1>3. EventWritten(e, al, batches) /\ NotBeforeHead(at) /\ times' = Append(times, at)
  BY <1>2, EventWrites
<1>4. Extended(events, events', e)
  BY <1>3, AppendEventIs
<1>5. times' \in [DOMAIN events' -> 1..clock'] /\ EventTimesOrdered'
  BY <1>2, <1>3, <1>4, EventTimes
<1>6. QED
  BY <1>2, <1>5, Zenon DEF TimesInv, TimesTyped, Times

(* The times of a chunk, and of its event when it is the last.             *)
LEMMA PresenceTimes ==
    ASSUME TablesInv, TimesInv, NEW s, NEW m, NEW list, ChunkFacts(s, m, list),
           NEW at \in ClockReads, StageChunk(s, m, list, at) \/ CompletePresence(s, m, list, at)
    PROVE  TimesInv'
<1>1. RowsTyped
  BY DEF TablesInv
<1>2. CASE StageChunk(s, m, list, at)
  <2>1. /\ WithChunk(s, m, list, 0, at) /\ clock' = clock /\ times' = times
        /\ events' = events
    BY <1>2, Zenon DEF StageChunk
  <2>2. StageRecord(s, m, list)
    BY <1>2, StageTyped
  <2>3. ChunksOf(s) \in Seq(Lists)
    BY <2>2, Zenon DEF StageRecord
  <2>4. /\ DOMAIN chunkTimes' = DOMAIN submissions'
        /\ \A x \in DOMAIN submissions' :
                chunkTimes'[x] \in [DOMAIN submissions'[x].chunks -> 1..clock']
    BY <1>1, <2>1, <2>3, ChunkTimesGrow
  <2>5. QED
    BY <2>1, <2>4, Zenon DEF TimesInv, TimesTyped, Times, EventTimesOrdered
<1>3. CASE CompletePresence(s, m, list, at)
  <2>1. PICK n, b, e : n = Len(events) + 1 /\ e = PresenceEvent(m, n) /\ b = Batch(m, n)
    OBVIOUS
  <2>2. /\ WithChunk(s, m, list, n, at) /\ clock' = clock
        /\ AppendEvent(e, aliases, batches \cup {b}, at)
    BY <1>3, <2>1, Zenon DEF CompletePresence
  <2>3. NotBeforeHead(at) /\ times' = Append(times, at) /\ EventWritten(e, aliases, batches \cup {b})
    BY <2>2, EventWrites
  <2>4. Extended(events, events', e)
    BY <1>1, <2>3, AppendEventIs
  <2>5. times' \in [DOMAIN events' -> 1..clock'] /\ EventTimesOrdered'
    BY <1>1, <2>2, <2>3, <2>4, EventTimes
  <2>6. ChunksOf(s) \in Seq(Lists)
    BY <1>3, CompleteTyped, Zenon DEF CompleteRecord
  <2>7. /\ DOMAIN chunkTimes' = DOMAIN submissions'
        /\ \A x \in DOMAIN submissions' :
                chunkTimes'[x] \in [DOMAIN submissions'[x].chunks -> 1..clock']
    BY <1>1, <2>2, <2>6, ChunkTimesGrow
  <2>8. QED
    BY <2>2, <2>5, <2>7, Zenon DEF TimesInv, TimesTyped, Times
<1>4. QED
  BY <1>2, <1>3

(* Every step keeps the clock values in order.                             *)
LEMMA TimesStep ==
    ASSUME TablesInv, TimesInv, [Next]_vars
    PROVE  TimesInv'
<1>1. RowsTyped /\ SetsFit
  BY DEF TablesInv
<1>2. CASE LinkStep
  <2>1. PICK d \in Deployments, p \in Periods, at \in ClockReads :
                LinkRequest(d, p, at) \/ LinkActionRequest(d, p, at)
    BY <1>2 DEF LinkStep
  <2>2. \E action, link, row, al : ApplyMutation(action, d, p, link, row, al, at)
    BY <2>1, Zenon DEF LinkRequest, LinkActionRequest, Link, Unlink, Correct
  <2>3. QED
    BY <1>1, <2>2, MutationTimes
<1>3. CASE PresenceStep
  <2>1. PICK s, m, list, at :
                /\ ChunkFacts(s, m, list) /\ at \in ClockReads
                /\ StageChunk(s, m, list, at) \/ CompletePresence(s, m, list, at)
    BY <1>1, <1>3, PresenceIs
  <2>2. QED
    BY <2>1, PresenceTimes
<1>4. CASE Tick
  <2>1. /\ clock' = clock + 1 /\ clock < MaxTime /\ events' = events
        /\ submissions' = submissions /\ times' = times /\ chunkTimes' = chunkTimes
    BY <1>4 DEF Tick
  <2>2. clock \in Nat /\ clock' \in Times /\ 1..clock \subseteq 1..clock'
    BY <2>1, IdentityAssumption DEF TimesInv, TimesTyped, Times
  <2>3. times \in [DOMAIN events -> 1..clock']
    BY <2>2 DEF TimesInv, TimesTyped
  <2>4. \A x \in DOMAIN submissions :
            chunkTimes[x] \in [DOMAIN submissions[x].chunks -> 1..clock']
    BY <2>2 DEF TimesInv, TimesTyped
  <2>5. QED
    BY <2>1, <2>2, <2>3, <2>4, Zenon DEF TimesInv, TimesTyped, EventTimesOrdered
<1>5. CASE \/ \E d \in Deployments, p \in Periods, n \in Counts : AcceptQMAU(d, p, n)
           \/ RotateKey
           \/ UNCHANGED vars
  <2>1. /\ clock' = clock /\ events' = events /\ submissions' = submissions
        /\ times' = times /\ chunkTimes' = chunkTimes
    BY <1>5, Zenon DEF AcceptQMAU, RotateKey, vars
  <2>2. QED
    BY <2>1, Zenon DEF TimesInv, TimesTyped, Times, EventTimesOrdered
<1>6. QED
  BY <1>2, <1>3, <1>4, <1>5, Zenon DEF Next

(* The columns are empty at first.                                         *)
LEMMA TimesInit == Init => TimesInv
<1> SUFFICES ASSUME Init PROVE TimesInv
  OBVIOUS
<1>1. clock = 1 /\ events = <<>> /\ submissions = <<>> /\ times = <<>> /\ chunkTimes = <<>>
  BY DEF Init
<1>2. QED
  BY <1>1, IdentityAssumption DEF TimesInv, TimesTyped, Times, EventTimesOrdered

(* Every variable has the type of its table whatever links, corrections,   *)
(* chunks, reports and key rotations come in which order, every event has  *)
(* its snapshot, and every event and chunk a time that the clock has shown *)
(* (ApplyGlobalIdentityMutation, AcceptGlobalIdentityPresenceBatch).       *)
THEOREM IdentityTypesHold == Spec => []TypeOK
<1>1. TablesInv /\ TimesInv /\ [Next]_vars => TablesInv' /\ TimesInv'
  BY TablesStep, TimesStep
<1>2. Spec => [](TablesInv /\ TimesInv)
  BY <1>1, TablesInit, TimesInit, PTL DEF Spec
<1>3. TablesInv /\ TimesInv => TypeOK
  BY DEF TablesInv, TimesInv, TypeOK
<1>4. QED
  BY <1>2, <1>3, PTL

-----------------------------------------------------------------------------
(* The link history.                                                       *)

(* The current row that event e, at index i, leaves of its link.           *)
RowOf(e, i) ==
    [deployment |-> e.deployment, gid |-> e.gid, status |-> e.status, version |-> e.version,
     commitment |-> e.commitment, from |-> e.from, until |-> e.until, latest |-> i]

(* The newest event of link l, whose row is current.                       *)
LinkHead(l) ==
    /\ links[l].latest \in LinkEvents
    /\ events[links[l].latest].link = l
    /\ links[l] = RowOf(events[links[l].latest], links[l].latest)
    /\ \A j \in LinkEvents : events[j].link = l => j <= links[l].latest

(* Every link event is about a stored link and a commitment, and every     *)
(* link's row is that of its newest event.                                 *)
LinkRail ==
    /\ \A i \in LinkEvents : /\ events[i].link \in DOMAIN links
                             /\ events[i].commitment \in Commitments
    /\ \A l \in DOMAIN links : LinkHead(l)

(* The largest element is the largest.                                     *)
LEMMA MaxIs ==
    ASSUME NEW S \in SUBSET Nat, NEW x \in S, \A y \in S : y <= x
    PROVE  Max(S) = x
<1>1. x \in Nat /\ \A y \in S : x >= y
  OBVIOUS
<1>2. \A z \in S : (\A y \in S : z >= y) => z = x
  BY <1>1
<1>3. QED
  BY <1>1, <1>2 DEF Max

(* The newest earlier event of the same link.                              *)
LEMMA PreviousIs ==
    ASSUME Len(events) \in Nat, DOMAIN events = 1..Len(events), NEW i, Earlier(i) # {}
    PROVE  \E j \in Earlier(i) : /\ Max(Earlier(i)) = j /\ j \in DOMAIN events
                                 /\ Previous(i) = events[j] /\ \A k \in Earlier(i) : k <= j
<1>1. Earlier(i) \in SUBSET (1..Len(events))
  BY DEF Earlier, LinkEvents
<1>2. PICK j \in Earlier(i) : \A k \in Earlier(i) : k <= j
  BY <1>1, LargestElement
<1>3. Earlier(i) \in SUBSET Nat
  BY <1>1
<1>4. Max(Earlier(i)) = j
  BY <1>2, <1>3, MaxIs
<1>5. QED
  BY <1>1, <1>2, <1>4 DEF Previous

(* What the history says of event i stays, when another one is added.      *)
EventKept(i) ==
    /\ events'[i] = events[i]
    /\ i \in LinkEvents' <=> i \in LinkEvents
    /\ Earlier(i)' = Earlier(i)
    /\ Earlier(i) # {} => Previous(i)' = Previous(i) /\ Correction(i)' = Correction(i)

(* An event keeps its history.                                             *)
LEMMA HistoryKept ==
    ASSUME NEW e, Extended(events, events', e), NEW i \in DOMAIN events
    PROVE  EventKept(i)
<1>1. PICK n : n = Len(events)
  OBVIOUS
<1>2. /\ n \in Nat /\ DOMAIN events = 1..n /\ DOMAIN events' = 1..(n + 1)
      /\ \A j \in 1..n : events'[j] = events[j]
  BY <1>1 DEF Extended
<1>3. \A j \in 1..n : j \in LinkEvents' <=> j \in LinkEvents
  BY <1>2 DEF LinkEvents
<1>4. Earlier(i)' = Earlier(i)
  <2>1. ASSUME NEW j PROVE j \in Earlier(i)' <=> j \in Earlier(i)
    <3>1. j \in LinkEvents' /\ j < i => j \in 1..n
      BY <1>2 DEF LinkEvents
    <3>2. j \in LinkEvents => j \in 1..n
      BY <1>2 DEF LinkEvents
    <3>3. QED
      BY <1>2, <1>3, <3>1, <3>2 DEF Earlier
  <2>2. QED
    BY <2>1
<1>5. ASSUME Earlier(i) # {} PROVE Previous(i)' = Previous(i)
  <2>1. PICK j \in Earlier(i) : /\ Max(Earlier(i)) = j /\ j \in DOMAIN events
                                /\ Previous(i) = events[j]
    BY <1>1, <1>2, <1>5, PreviousIs
  <2>2. Previous(i)' = events'[Max(Earlier(i)')]
    BY DEF Previous, Max
  <2>3. QED
    BY <1>2, <1>4, <2>1, <2>2
<1>6. ASSUME Earlier(i) # {} PROVE Correction(i)' = Correction(i)
  <2>1. KeyOf(Previous(i))' = KeyOf(Previous(i)) /\ KeyOf(events[i])' = KeyOf(events[i])
    BY <1>2, <1>5, <1>6 DEF KeyOf
  <2>2. QED
    BY <2>1, Zenon DEF Correction
<1>7. QED
  BY <1>2, <1>3, <1>4, <1>5, <1>6 DEF EventKept

-----------------------------------------------------------------------------
(* The alias history.                                                      *)

NoAliases == [k \in AliasKeys |-> 0]

(* The aliases after event i, from those before it.                        *)
AliasStep(i, before) ==
    LET e == events[i]
        key == KeyOf(e)
    IN  CASE e.action = "LINK" /\ before[key] = 0 -> [before EXCEPT ![key] = e.gid]
          [] e.action = "CORRECT" ->
                LET source == before[KeyOf(Previous(i))]
                    target == IF before[key] = 0 THEN source ELSE before[key]
                IN  [k \in AliasKeys |->
                        IF k = key \/ before[k] = source THEN target ELSE before[k]]
          [] OTHER -> before

AliasBuilt(g, n) ==
    g = [i \in 0..n |-> IF i = 0 THEN NoAliases ELSE AliasStep(i, g[i - 1])]

(* The audit replays the alias history.                                    *)
LEMMA ReplayedIs ==
    \A n : ReplayedAliases(n) = (CHOOSE g : AliasBuilt(g, n))[n]
BY DEF ReplayedAliases, AliasBuilt, AliasStep, NoAliases

(* There is one alias history.                                             *)
LEMMA AliasBuiltOnce ==
    ASSUME NEW n \in Nat, NEW g, NEW h, AliasBuilt(g, n), AliasBuilt(h, n)
    PROVE  \A i \in 0..n : g[i] = h[i]
<1> DEFINE T == {i \in 0..n : g[i] # h[i]}
<1>1. SUFFICES ASSUME T # {} PROVE FALSE
  OBVIOUS
<1>2. T \in SUBSET Nat
  OBVIOUS
<1>3. PICK i \in T : \A j \in T : i <= j
  BY <1>1, <1>2, SmallestElement
<1>4. i \in 0..n /\ g[i] # h[i]
  BY <1>3
<1>5. g[i] = (IF i = 0 THEN NoAliases ELSE AliasStep(i, g[i - 1]))
      /\ h[i] = (IF i = 0 THEN NoAliases ELSE AliasStep(i, h[i - 1]))
  BY <1>4, Zenon DEF AliasBuilt
<1>6. CASE i = 0
  BY <1>4, <1>5, <1>6, Zenon
<1>7. CASE i # 0
  <2>1. i - 1 \in 0..n /\ i - 1 \notin T
    BY <1>3, <1>4, <1>7
  <2>2. g[i - 1] = h[i - 1]
    BY <2>1
  <2>3. QED
    BY <1>4, <1>5, <1>7, <2>2, Zenon
<1>8. QED
  BY <1>6, <1>7

(* The replay up to any event is the history up to there.                  *)
LEMMA ReplayedFrom ==
    ASSUME NEW n \in Nat, NEW g, AliasBuilt(g, n), NEW i \in 0..n
    PROVE  ReplayedAliases(i) = g[i]
<1> DEFINE St(f, j) == IF j = 0 THEN NoAliases ELSE AliasStep(j, f[j - 1])
           h == [j \in 0..i |-> g[j]]
<1>1. \A j \in 0..i : j \in 0..n /\ (j # 0 => j - 1 \in 0..i)
  OBVIOUS
<1>2. \A j \in 0..n : g[j] = St(g, j)
  BY Zenon DEF AliasBuilt
<1>3. \A j \in 0..i : St(h, j) = St(g, j)
  <2>1. \A j \in 0..i : j # 0 => h[j - 1] = g[j - 1]
    BY <1>1
  <2> HIDE DEF h
  <2>2. QED
    BY <2>1, Zenon
<1>4. h = [j \in 0..i |-> St(h, j)]
  BY <1>1, <1>2, <1>3, Zenon
<1>5. AliasBuilt(h, i)
  BY <1>4, Zenon DEF AliasBuilt
<1>6. PICK f : f = CHOOSE x : AliasBuilt(x, i)
  OBVIOUS
<1>7. AliasBuilt(f, i)
  BY <1>5, <1>6
<1>8. i \in Nat /\ i \in 0..i
  OBVIOUS
<1>9. f[i] = h[i] /\ h[i] = g[i]
  <2>1. f[i] = h[i]
    BY <1>5, <1>7, <1>8, AliasBuiltOnce
  <2>2. QED
    BY <1>8, <2>1
<1>10. ReplayedAliases(i) = f[i]
  BY <1>6, ReplayedIs
<1>11. QED
  BY <1>9, <1>10

-----------------------------------------------------------------------------
(* Who is one person.                                                      *)

Corrections(n) == {j \in LinkEvents : j <= n /\ events[j].action = "CORRECT"}

(* No correction up to event n joins a key in S and one that is not.       *)
Closed(S, n) == \A j \in Corrections(n) : (Correction(j)[1] \in S) = (Correction(j)[2] \in S)

(* An alias map that is sound for the first n events: every commitment a   *)
(* link ever had has an identity, a correction's two keys have the same,   *)
(* and two keys have the same only if corrections join them.               *)
Sound(al, n) ==
    /\ al \in [AliasKeys -> 0..n]
    /\ \A j \in LinkEvents : j <= n =>
            KeyOf(events[j]) \in AliasKeys /\ al[KeyOf(events[j])] # 0
    /\ \A j \in Corrections(n) : /\ Earlier(j) # {}
                                 /\ Correction(j)[1] \in AliasKeys
                                 /\ Correction(j)[2] \in AliasKeys
                                 /\ al[Correction(j)[1]] = al[Correction(j)[2]]
    /\ \A S \in SUBSET AliasKeys : Closed(S, n) =>
            \A k1, k2 \in AliasKeys :
                al[k1] = al[k2] /\ al[k1] # 0 => (k1 \in S <=> k2 \in S)

(* A person is what every closed set around a key holds.                   *)
LEMMA PersonUnfolds ==
    ASSUME NEW key, NEW n, NEW k
    PROVE  k \in Person(key, n) <=>
                /\ k \in AliasKeys
                /\ \A S \in SUBSET AliasKeys : key \in S /\ Closed(S, n) => k \in S
<1> DEFINE J == {Correction(i) : i \in Corrections(n)}
           C == {S \in SUBSET AliasKeys :
                    key \in S /\ \A c \in J : (c[1] \in S) = (c[2] \in S)}
<1>1. Person(key, n) = {x \in AliasKeys : \A S \in C : x \in S}
  BY Zenon DEF Person, Corrections
<1>2. \A S : (\A c \in J : (c[1] \in S) = (c[2] \in S)) <=> Closed(S, n)
  BY Zenon DEF Closed
<1>3. \A S : S \in C <=> S \in SUBSET AliasKeys /\ key \in S /\ Closed(S, n)
  BY <1>2, Zenon
<1> HIDE DEF C
<1>4. QED
  BY <1>1, <1>3, Zenon

(* By a sound alias map, one identity is one person.                       *)
LEMMA PersonIs ==
    ASSUME NEW al, NEW n, Sound(al, n), NEW k1 \in AliasKeys, NEW k2 \in AliasKeys,
           al[k1] # 0
    PROVE  (al[k1] = al[k2]) <=> (k2 \in Person(k1, n))
<1>1. ASSUME al[k1] = al[k2] PROVE k2 \in Person(k1, n)
  <2>1. ASSUME NEW S \in SUBSET AliasKeys, k1 \in S, Closed(S, n) PROVE k2 \in S
    BY <1>1, <2>1 DEF Sound
  <2>2. QED
    BY <2>1, PersonUnfolds
<1>2. ASSUME k2 \in Person(k1, n) PROVE al[k1] = al[k2]
  <2>1. PICK S : S = {k \in AliasKeys : al[k] = al[k1]}
    OBVIOUS
  <2>2. S \in SUBSET AliasKeys /\ k1 \in S
    BY <2>1
  <2>3. Closed(S, n)
    <3>1. ASSUME NEW j \in Corrections(n)
          PROVE  Correction(j)[1] \in S <=> Correction(j)[2] \in S
      BY <2>1, <3>1 DEF Sound
    <3>2. QED
      BY <3>1 DEF Closed
  <2>4. k2 \in S
    BY <1>2, <2>2, <2>3, PersonUnfolds
  <2>5. QED
    BY <2>1, <2>4
<1>3. QED
  BY <1>1, <1>2

(* The corrections up to event n stay.                                     *)
LEMMA CorrectionsKept ==
    ASSUME NEW e, Extended(events, events', e), NEW n \in 0..Len(events)
    PROVE  /\ Corrections(n)' = Corrections(n)
           /\ \A j \in LinkEvents' : j <= n => j \in LinkEvents /\ EventKept(j)
           /\ \A j \in LinkEvents : j <= n => j \in LinkEvents' /\ EventKept(j)
           /\ \A j \in Corrections(n) : EventKept(j)
<1>1. /\ Len(events) \in Nat /\ DOMAIN events = 1..Len(events)
      /\ DOMAIN events' = 1..(Len(events) + 1)
  BY DEF Extended
<1>2. \A j \in LinkEvents' : j <= n => j \in DOMAIN events
  BY <1>1 DEF LinkEvents
<1>3. \A j \in LinkEvents : j \in DOMAIN events
  BY DEF LinkEvents
<1>4. \A j \in DOMAIN events : EventKept(j)
  BY HistoryKept
<1>5. \A j \in LinkEvents' : j <= n => j \in LinkEvents
  BY <1>2, <1>4 DEF EventKept
<1>6. \A j \in LinkEvents : j \in LinkEvents'
  BY <1>3, <1>4 DEF EventKept
<1>7. \A j : j \in Corrections(n)' <=> j \in Corrections(n)
  <2>1. ASSUME NEW j \in Corrections(n)' PROVE j \in Corrections(n)
    <3>1. j \in LinkEvents' /\ j <= n /\ events'[j].action = "CORRECT"
      BY <2>1 DEF Corrections
    <3>2. j \in LinkEvents /\ events'[j] = events[j]
      BY <1>2, <1>4, <1>5, <3>1 DEF EventKept
    <3>3. QED
      BY <3>1, <3>2 DEF Corrections
  <2>2. ASSUME NEW j \in Corrections(n) PROVE j \in Corrections(n)'
    <3>1. j \in LinkEvents /\ j <= n /\ events[j].action = "CORRECT"
      BY <2>2 DEF Corrections
    <3>2. j \in LinkEvents' /\ events'[j] = events[j]
      BY <1>3, <1>4, <1>6, <3>1 DEF EventKept
    <3>3. QED
      BY <3>1, <3>2 DEF Corrections
  <2>3. QED
    BY <2>1, <2>2
<1>8. \A j \in Corrections(n) : j \in LinkEvents
  BY DEF Corrections
<1>9. QED
  BY <1>2, <1>3, <1>4, <1>5, <1>6, <1>7, <1>8

(* A sound alias map stays sound for the events it is sound for.           *)
LEMMA SoundKept ==
    ASSUME NEW e, Extended(events, events', e), NEW n \in 0..Len(events), NEW al, Sound(al, n)
    PROVE  Sound(al, n)'
<1>1. /\ Corrections(n)' = Corrections(n)
      /\ \A j \in LinkEvents' : j <= n => j \in LinkEvents /\ EventKept(j)
      /\ \A j \in Corrections(n) : EventKept(j)
  BY CorrectionsKept
<1>2. \A j \in Corrections(n) : Earlier(j)' # {} /\ Correction(j)' = Correction(j)
  BY <1>1 DEF Sound, EventKept
<1>3. ASSUME NEW S PROVE Closed(S, n)' <=> Closed(S, n)
  BY <1>1, <1>2 DEF Closed
<1>4. \A j \in LinkEvents' : j <= n =>
            KeyOf(events'[j]) \in AliasKeys /\ al[KeyOf(events'[j])] # 0
  BY <1>1 DEF Sound, EventKept
<1>5. \A j \in Corrections(n)' : /\ Earlier(j)' # {}
                                 /\ Correction(j)'[1] \in AliasKeys
                                 /\ Correction(j)'[2] \in AliasKeys
                                 /\ al[Correction(j)'[1]] = al[Correction(j)'[2]]
  BY <1>1, <1>2 DEF Sound
<1>6. \A S \in SUBSET AliasKeys : Closed(S, n)' =>
            \A k1, k2 \in AliasKeys :
                al[k1] = al[k2] /\ al[k1] # 0 => (k1 \in S <=> k2 \in S)
  BY <1>3 DEF Sound
<1>7. al \in [AliasKeys -> 0..n]
  BY DEF Sound
<1>8. \A j : KeyOf(events[j])' = KeyOf(events'[j])
  BY DEF KeyOf
<1>9. QED
  BY <1>4, <1>5, <1>6, <1>7, <1>8, Zenon DEF Sound

(* What one more event adds to the corrections.                            *)
LEMMA OneMore ==
    ASSUME NEW e, Extended(events, events', e), NEW n, n = Len(events), NEW al, Sound(al, n)
    PROVE  /\ \A j \in Corrections(n + 1)' :
                    \/ j \in Corrections(n)
                    \/ j = n + 1 /\ e.action = "CORRECT"
           /\ \A j \in Corrections(n) : /\ j \in Corrections(n + 1)'
                                        /\ Earlier(j)' # {} /\ Correction(j)' = Correction(j)
           /\ e.action = "CORRECT" => n + 1 \in Corrections(n + 1)'
           /\ \A j \in LinkEvents' : \/ j \in LinkEvents /\ j <= n /\ events'[j] = events[j]
                                     \/ j = n + 1 /\ events'[j] = e /\ e.action \in LinkActions
           /\ \A S : Closed(S, n + 1)' => Closed(S, n)
           /\ n \in Nat
<1>1. /\ n \in Nat /\ DOMAIN events = 1..n /\ DOMAIN events' = 1..(n + 1)
      /\ events'[n + 1] = e /\ n \in 0..n
  BY DEF Extended
<1>2. /\ Corrections(n)' = Corrections(n)
      /\ \A j \in LinkEvents' : j <= n => j \in LinkEvents /\ EventKept(j)
      /\ \A j \in Corrections(n) : EventKept(j)
  BY <1>1, CorrectionsKept
<1>3. \A j \in LinkEvents' : j <= n \/ j = n + 1
  BY <1>1 DEF LinkEvents
<1>4. \A j \in Corrections(n) : Earlier(j)' # {} /\ Correction(j)' = Correction(j)
  BY <1>2 DEF Sound, EventKept
<1>5. \A j \in Corrections(n + 1)' : \/ j \in Corrections(n)
                                     \/ j = n + 1 /\ e.action = "CORRECT"
  <2>1. ASSUME NEW j \in Corrections(n + 1)', j # n + 1 PROVE j \in Corrections(n)'
    BY <1>3, <2>1 DEF Corrections
  <2>2. ASSUME n + 1 \in Corrections(n + 1)' PROVE e.action = "CORRECT"
    BY <1>1, <2>2 DEF Corrections
  <2>3. QED
    BY <1>2, <2>1, <2>2
<1>6. \A j \in Corrections(n)' : j \in Corrections(n + 1)'
  <2>1. ASSUME NEW j \in Corrections(n)' PROVE j \in Corrections(n + 1)'
    <3>1. j \in LinkEvents' /\ j <= n /\ events'[j].action = "CORRECT"
      BY <2>1 DEF Corrections
    <3>2. j <= n + 1
      BY <1>1, <3>1 DEF LinkEvents
    <3>3. QED
      BY <3>1, <3>2 DEF Corrections
  <2>2. QED
    BY <2>1
<1>7. e.action = "CORRECT" => n + 1 \in Corrections(n + 1)'
  BY <1>1 DEF Corrections, LinkEvents, LinkActions
<1>8. \A j \in LinkEvents' : \/ j \in LinkEvents /\ j <= n /\ events'[j] = events[j]
                             \/ j = n + 1 /\ events'[j] = e /\ e.action \in LinkActions
  <2>1. n + 1 \in LinkEvents' => e.action \in LinkActions
    BY <1>1 DEF LinkEvents
  <2>2. QED
    BY <1>1, <1>2, <1>3, <2>1 DEF EventKept
<1>9. ASSUME NEW S, Closed(S, n + 1)' PROVE Closed(S, n)
  <2>1. \A j \in Corrections(n + 1)' : (Correction(j)'[1] \in S) = (Correction(j)'[2] \in S)
    BY <1>9 DEF Closed
  <2>2. QED
    BY <1>2, <1>4, <1>6, <2>1 DEF Closed
<1>10. QED
  BY <1>1, <1>2, <1>4, <1>5, <1>6, <1>7, <1>8, <1>9

(* Alias map al is sound for the first n events of the next state.         *)
SoundNext(al, n) ==
    /\ al \in [AliasKeys -> 0..n]
    /\ \A j \in LinkEvents' : j <= n =>
            KeyOf(events'[j]) \in AliasKeys /\ al[KeyOf(events'[j])] # 0
    /\ \A j \in Corrections(n)' : /\ Earlier(j)' # {}
                                  /\ Correction(j)'[1] \in AliasKeys
                                  /\ Correction(j)'[2] \in AliasKeys
                                  /\ al[Correction(j)'[1]] = al[Correction(j)'[2]]
    /\ \A S \in SUBSET AliasKeys : Closed(S, n)' =>
            \A k1, k2 \in AliasKeys :
                al[k1] = al[k2] /\ al[k1] # 0 => (k1 \in S <=> k2 \in S)

(* It is what Sound says of it there.                                      *)
LEMMA SoundMade ==
    ASSUME NEW n, NEW al, SoundNext(al, n)
    PROVE  Sound(al, n)'
<1>1. \A j : KeyOf(events[j])' = KeyOf(events'[j])
  BY DEF KeyOf
<1>2. QED
  BY <1>1, Zenon DEF Sound, SoundNext

(* An event that corrects nothing leaves a sound alias map sound.          *)
LEMMA SoundSame ==
    ASSUME NEW e, Extended(events, events', e), NEW n, n = Len(events), NEW al, Sound(al, n),
           e.action # "CORRECT", e.action \in LinkActions => KeyOf(e) \in AliasKeys /\ al[KeyOf(e)] # 0
    PROVE  Sound(al, n + 1)'
<1>1. /\ \A j \in Corrections(n + 1)' : j \in Corrections(n)
      /\ \A j \in Corrections(n) : Earlier(j)' # {} /\ Correction(j)' = Correction(j)
      /\ \A j \in LinkEvents' : \/ j \in LinkEvents /\ j <= n /\ events'[j] = events[j]
                                \/ j = n + 1 /\ events'[j] = e /\ e.action \in LinkActions
      /\ \A S : Closed(S, n + 1)' => Closed(S, n)
      /\ n \in Nat
  BY OneMore
<1>2. al \in [AliasKeys -> 0..(n + 1)]
  <2>1. al \in [AliasKeys -> 0..n]
    BY DEF Sound
  <2>2. QED
    BY <1>1, <2>1
<1>3. \A j \in LinkEvents' : j <= n + 1 =>
            KeyOf(events'[j]) \in AliasKeys /\ al[KeyOf(events'[j])] # 0
  BY <1>1 DEF Sound
<1>4. \A j \in Corrections(n + 1)' : /\ Earlier(j)' # {}
                                     /\ Correction(j)'[1] \in AliasKeys
                                     /\ Correction(j)'[2] \in AliasKeys
                                     /\ al[Correction(j)'[1]] = al[Correction(j)'[2]]
  BY <1>1 DEF Sound
<1>5. \A S \in SUBSET AliasKeys : Closed(S, n + 1)' =>
            \A k1, k2 \in AliasKeys :
                al[k1] = al[k2] /\ al[k1] # 0 => (k1 \in S <=> k2 \in S)
  BY <1>1 DEF Sound
<1>6. SoundNext(al, n + 1)
  BY <1>2, <1>3, <1>4, <1>5, Zenon DEF SoundNext
<1>7. QED
  BY <1>6, SoundMade

(* A commitment nobody has used is a new person.                           *)
LEMMA SoundNew ==
    ASSUME NEW e, Extended(events, events', e), NEW n, n = Len(events), NEW al, Sound(al, n),
           e.action # "CORRECT", NEW key \in AliasKeys, key = KeyOf(e), al[key] = 0,
           NEW new, new = [al EXCEPT ![key] = n + 1]
    PROVE  Sound(new, n + 1)'
<1>1. /\ \A j \in Corrections(n + 1)' : j \in Corrections(n)
      /\ \A j \in Corrections(n) : Earlier(j)' # {} /\ Correction(j)' = Correction(j)
      /\ \A j \in LinkEvents' : \/ j \in LinkEvents /\ j <= n /\ events'[j] = events[j]
                                \/ j = n + 1 /\ events'[j] = e
      /\ \A S : Closed(S, n + 1)' => Closed(S, n)
      /\ n \in Nat
  BY OneMore
<1>2. al \in [AliasKeys -> 0..n]
  BY DEF Sound
<1>3. /\ new \in [AliasKeys -> 0..(n + 1)] /\ new[key] = n + 1
      /\ \A k \in AliasKeys : k # key => new[k] = al[k]
      /\ \A k \in AliasKeys : al[k] # n + 1
      /\ n + 1 # 0
  BY <1>1, <1>2
<1>4. \A j \in LinkEvents' : j <= n + 1 =>
            KeyOf(events'[j]) \in AliasKeys /\ new[KeyOf(events'[j])] # 0
  <2>1. ASSUME NEW j \in LinkEvents, j <= n
        PROVE  KeyOf(events[j]) \in AliasKeys /\ new[KeyOf(events[j])] # 0
    <3>1. KeyOf(events[j]) \in AliasKeys /\ al[KeyOf(events[j])] # 0
      BY <2>1 DEF Sound
    <3>2. QED
      BY <1>3, <3>1
  <2>2. QED
    BY <1>1, <1>3, <2>1
<1>5. \A j \in Corrections(n) : /\ Correction(j)[1] \in AliasKeys /\ Correction(j)[2] \in AliasKeys
                                /\ al[Correction(j)[1]] = al[Correction(j)[2]]
                                /\ al[Correction(j)[1]] # 0 /\ al[Correction(j)[2]] # 0
  <2>1. ASSUME NEW j \in Corrections(n) PROVE al[Correction(j)[2]] # 0
    <3>1. j \in LinkEvents /\ j <= n
      BY <2>1 DEF Corrections
    <3>2. Correction(j)[2] = KeyOf(events[j])
      BY DEF Correction
    <3>3. QED
      BY <3>1, <3>2 DEF Sound
  <2>2. QED
    BY <2>1 DEF Sound
<1>6. \A j \in Corrections(n + 1)' : /\ Earlier(j)' # {}
                                     /\ Correction(j)'[1] \in AliasKeys
                                     /\ Correction(j)'[2] \in AliasKeys
                                     /\ new[Correction(j)'[1]] = new[Correction(j)'[2]]
  <2>1. ASSUME NEW j \in Corrections(n) PROVE new[Correction(j)[1]] = new[Correction(j)[2]]
    BY <1>3, <1>5, <2>1
  <2>2. QED
    BY <1>1, <1>5, <2>1
<1>7. ASSUME NEW S \in SUBSET AliasKeys, Closed(S, n + 1)',
             NEW k1 \in AliasKeys, NEW k2 \in AliasKeys, new[k1] = new[k2], new[k1] # 0
      PROVE  k1 \in S <=> k2 \in S
  <2>1. CASE k1 # key /\ k2 # key
    <3>1. al[k1] = al[k2] /\ al[k1] # 0
      BY <1>3, <1>7, <2>1
    <3>2. QED
      BY <1>1, <1>7, <3>1 DEF Sound
  <2>2. CASE k1 = key \/ k2 = key
    BY <1>3, <1>7, <2>2
  <2>3. QED
    BY <2>1, <2>2
<1>8. \A S \in SUBSET AliasKeys : Closed(S, n + 1)' =>
            \A k1, k2 \in AliasKeys :
                new[k1] = new[k2] /\ new[k1] # 0 => (k1 \in S <=> k2 \in S)
  BY <1>7
<1>9. new \in [AliasKeys -> 0..(n + 1)]
  BY <1>3
<1>10. SoundNext(new, n + 1)
  BY <1>9, <1>4, <1>6, <1>8, Zenon DEF SoundNext
<1>11. QED
  BY <1>10, SoundMade

(* The two keys of a correction have identities.                           *)
LEMMA CorrectionNamed ==
    ASSUME NEW n, NEW al, Sound(al, n), NEW j \in Corrections(n)
    PROVE  /\ Correction(j)[1] \in AliasKeys /\ Correction(j)[2] \in AliasKeys
           /\ al[Correction(j)[1]] = al[Correction(j)[2]]
           /\ al[Correction(j)[1]] # 0 /\ al[Correction(j)[2]] # 0
<1>1. j \in LinkEvents /\ j <= n
  BY DEF Corrections
<1>2. Correction(j)[2] = KeyOf(events[j])
  BY DEF Correction
<1>3. QED
  BY <1>1, <1>2 DEF Sound

(* Aliases new are al with the identity of key a merged into that of key.  *)
Merged(al, key, a, source, target, new) ==
    /\ source = al[a] /\ source # 0
    /\ target = IF al[key] = 0 THEN source ELSE al[key]
    /\ new = [k \in AliasKeys |-> IF k = key \/ al[k] = source THEN target ELSE al[k]]

(* A correction makes one person of two.                                   *)
LEMMA SoundMerged ==
    ASSUME NEW e, Extended(events, events', e), NEW n, n = Len(events), NEW al, Sound(al, n),
           e.action = "CORRECT", NEW key \in AliasKeys, key = KeyOf(e),
           NEW a \in AliasKeys, Correction(n + 1)' = <<a, key>>, Earlier(n + 1)' # {},
           NEW source, NEW target, NEW new, Merged(al, key, a, source, target, new)
    PROVE  Sound(new, n + 1)'
<1>0. /\ source = al[a] /\ source # 0
      /\ target = IF al[key] = 0 THEN source ELSE al[key]
      /\ new = [k \in AliasKeys |-> IF k = key \/ al[k] = source THEN target ELSE al[k]]
  BY Zenon DEF Merged
<1>1. /\ \A j \in Corrections(n + 1)' : j \in Corrections(n) \/ j = n + 1
      /\ n + 1 \in Corrections(n + 1)'
      /\ \A j \in Corrections(n) : Earlier(j)' # {} /\ Correction(j)' = Correction(j)
      /\ \A j \in LinkEvents' : \/ j \in LinkEvents /\ j <= n /\ events'[j] = events[j]
                                \/ j = n + 1 /\ events'[j] = e
      /\ \A S : Closed(S, n + 1)' => Closed(S, n)
      /\ n \in Nat
  BY OneMore
<1>2. al \in [AliasKeys -> 0..n]
  BY DEF Sound
<1>3. target # 0 /\ target \in 0..n /\ source \in 0..n
  BY <1>0, <1>2
<1>4. /\ new \in [AliasKeys -> 0..(n + 1)]
      /\ \A k \in AliasKeys : new[k] = IF k = key \/ al[k] = source THEN target ELSE al[k]
  <2>1. \A i \in 0..n : i \in 0..(n + 1)
    BY <1>1
  <2>2. QED
    BY <1>0, <1>2, <1>3, <2>1
<1>5. \A k \in AliasKeys : al[k] # 0 => new[k] # 0
  BY <1>3, <1>4
<1>6. \A j \in LinkEvents' : j <= n + 1 =>
            KeyOf(events'[j]) \in AliasKeys /\ new[KeyOf(events'[j])] # 0
  <2>1. ASSUME NEW j \in LinkEvents, j <= n
        PROVE  KeyOf(events[j]) \in AliasKeys /\ new[KeyOf(events[j])] # 0
    <3>1. KeyOf(events[j]) \in AliasKeys /\ al[KeyOf(events[j])] # 0
      BY <2>1 DEF Sound
    <3>2. QED
      BY <1>5, <3>1
  <2>2. new[key] # 0
    BY <1>3, <1>4
  <2>3. QED
    BY <1>1, <2>1, <2>2
<1>7. \A j \in Corrections(n + 1)' : /\ Earlier(j)' # {}
                                     /\ Correction(j)'[1] \in AliasKeys
                                     /\ Correction(j)'[2] \in AliasKeys
                                     /\ new[Correction(j)'[1]] = new[Correction(j)'[2]]
  <2>1. ASSUME NEW j \in Corrections(n)
        PROVE  /\ Correction(j)[1] \in AliasKeys /\ Correction(j)[2] \in AliasKeys
               /\ new[Correction(j)[1]] = new[Correction(j)[2]]
    <3>1. PICK k1, k2 : k1 = Correction(j)[1] /\ k2 = Correction(j)[2]
      OBVIOUS
    <3>2. k1 \in AliasKeys /\ k2 \in AliasKeys /\ al[k1] = al[k2] /\ al[k1] # 0
      BY <3>1, CorrectionNamed
    <3>3. new[k1] = new[k2]
      BY <1>0, <1>4, <3>2
    <3>4. QED
      BY <3>1, <3>2, <3>3
  <2>2. new[a] = target /\ new[key] = target
    BY <1>0, <1>4
  <2>3. QED
    BY <1>1, <2>1, <2>2
<1>8. ASSUME NEW S \in SUBSET AliasKeys, Closed(S, n + 1)' PROVE
        \A k \in AliasKeys : new[k] = target => (k \in S <=> a \in S)
  <2>1. a \in S <=> key \in S
    <3>1. \A j \in Corrections(n + 1)' : (Correction(j)'[1] \in S) = (Correction(j)'[2] \in S)
      BY <1>8 DEF Closed
    <3>2. (Correction(n + 1)'[1] \in S) = (Correction(n + 1)'[2] \in S)
      BY <1>1, <3>1
    <3>3. QED
      BY <3>2
  <2>2. \A k1, k2 \in AliasKeys : al[k1] = al[k2] /\ al[k1] # 0 => (k1 \in S <=> k2 \in S)
    BY <1>1, <1>8 DEF Sound
  <2>3. ASSUME NEW k \in AliasKeys, new[k] = target PROVE k \in S <=> a \in S
    <3>1. CASE k = key
      BY <2>1, <3>1
    <3>2. CASE al[k] = source
      BY <1>0, <2>2, <3>2
    <3>3. CASE k # key /\ al[k] # source
      <4>1. al[k] = target
        BY <1>4, <2>3, <3>3
      <4>2. al[key] = target
        BY <1>0, <3>3, <4>1
      <4>3. QED
        BY <1>3, <2>1, <2>2, <4>1, <4>2
    <3>4. QED
      BY <3>1, <3>2, <3>3
  <2>4. QED
    BY <2>3
<1>9. ASSUME NEW S \in SUBSET AliasKeys, Closed(S, n + 1)',
             NEW k1 \in AliasKeys, NEW k2 \in AliasKeys, new[k1] = new[k2], new[k1] # 0
      PROVE  k1 \in S <=> k2 \in S
  <2>1. CASE new[k1] = target
    BY <1>8, <1>9, <2>1
  <2>2. CASE new[k1] # target
    <3>1. al[k1] = al[k2] /\ al[k1] # 0
      BY <1>4, <1>9, <2>2
    <3>2. QED
      BY <1>1, <1>9, <3>1 DEF Sound
  <2>3. QED
    BY <2>1, <2>2
<1>10. \A S \in SUBSET AliasKeys : Closed(S, n + 1)' =>
            \A k1, k2 \in AliasKeys :
                new[k1] = new[k2] /\ new[k1] # 0 => (k1 \in S <=> k2 \in S)
  BY <1>9
<1>11. new \in [AliasKeys -> 0..(n + 1)]
  BY <1>4
<1>12. SoundNext(new, n + 1)
  BY <1>11, <1>6, <1>7, <1>10, Zenon DEF SoundNext
<1>13. QED
  BY <1>12, SoundMade

-----------------------------------------------------------------------------
(* The replay of the history is the alias table.                           *)

(* AliasStep for event e of a link whose key was prior.                    *)
AliasStepBy(e, prior, before) ==
    LET key == KeyOf(e)
    IN  CASE e.action = "LINK" /\ before[key] = 0 -> [before EXCEPT ![key] = e.gid]
          [] e.action = "CORRECT" ->
                LET source == before[prior]
                    target == IF before[key] = 0 THEN source ELSE before[key]
                IN  [k \in AliasKeys |->
                        IF k = key \/ before[k] = source THEN target ELSE before[k]]
          [] OTHER -> before

(* AliasStep is that.                                                      *)
LEMMA AliasStepIs ==
    \A i, before : AliasStep(i, before) = AliasStepBy(events[i], KeyOf(Previous(i)), before)
BY DEF AliasStep, AliasStepBy

(* What each kind of event does to the aliases.                            *)
LEMMA AliasStepCases ==
    ASSUME NEW e, NEW prior, NEW before
    PROVE  /\ e.action = "LINK" /\ before[KeyOf(e)] = 0 =>
                AliasStepBy(e, prior, before) = [before EXCEPT ![KeyOf(e)] = e.gid]
           /\ e.action # "CORRECT" /\ ~(e.action = "LINK" /\ before[KeyOf(e)] = 0) =>
                AliasStepBy(e, prior, before) = before
           /\ e.action # "CORRECT" =>
                \A q : AliasStepBy(e, q, before) = AliasStepBy(e, prior, before)
           /\ e.action = "CORRECT" =>
                AliasStepBy(e, prior, before) =
                    LET source == before[prior]
                        target == IF before[KeyOf(e)] = 0 THEN source ELSE before[KeyOf(e)]
                    IN  [k \in AliasKeys |->
                            IF k = KeyOf(e) \/ before[k] = source THEN target ELSE before[k]]
<1>1. ASSUME e.action = "LINK", before[KeyOf(e)] = 0, NEW q
      PROVE  AliasStepBy(e, q, before) = [before EXCEPT ![KeyOf(e)] = e.gid]
  BY <1>1 DEF AliasStepBy
<1>2. ASSUME e.action # "CORRECT", ~(e.action = "LINK" /\ before[KeyOf(e)] = 0), NEW q
      PROVE  AliasStepBy(e, q, before) = before
  BY <1>2 DEF AliasStepBy
<1>3. ASSUME e.action = "CORRECT"
      PROVE  AliasStepBy(e, prior, before) =
                    LET source == before[prior]
                        target == IF before[KeyOf(e)] = 0 THEN source ELSE before[KeyOf(e)]
                    IN  [k \in AliasKeys |->
                            IF k = KeyOf(e) \/ before[k] = source THEN target ELSE before[k]]
  <2>1. ~(e.action = "LINK")
    BY <1>3
  <2>2. QED
    BY <1>3, <2>1 DEF AliasStepBy
<1>4. QED
  BY <1>1, <1>2, <1>3

(* A history of alias maps, each sound, that ends in the table.            *)
History(H) ==
    /\ AliasBuilt(H, Len(events))
    /\ H[Len(events)] = aliases
    /\ \A i \in 0..Len(events) : Sound(H[i], i)

(* The replay goes on as it did.                                           *)
ReplayKept ==
    \A i \in 0..Len(events) : ReplayedAliases(i)' = ReplayedAliases(i)

ReplayedAnywhere ==
    \A N, g, j : N \in Nat /\ AliasBuilt(g, N) /\ j \in 0..N => ReplayedAliases(j) = g[j]

(* The replay follows any history, in every state.                         *)
LEMMA ReplayedHere == ReplayedAnywhere
BY ReplayedFrom DEF ReplayedAnywhere

(* So it does in the next state.                                           *)
LEMMA ReplayedNext == ReplayedAnywhere'
BY ReplayedHere, PTL

(* An event that moves the aliases as the replay does extends the history. *)
LEMMA HistoryGrows ==
    ASSUME NEW e, Extended(events, events', e), NEW n, n = Len(events),
           NEW H, History(H), NEW old, old = aliases, NEW new, new = aliases',
           AliasStep(n + 1, old)' = new, Sound(new, n + 1)'
    PROVE  /\ \E G : History(G)'
           /\ ReplayKept
           /\ ReplayedAliases(n)' = old /\ ReplayedAliases(n) = old
           /\ ReplayedAliases(n + 1)' = new
<1>1. /\ n \in Nat /\ DOMAIN events = 1..n /\ Len(events') = n + 1
      /\ \A i \in 1..n : events'[i] = events[i]
  BY DEF Extended
<1>2. AliasBuilt(H, n) /\ H[n] = old /\ \A i \in 0..n : Sound(H[i], i)
  BY DEF History
<1>3. ASSUME NEW i \in 1..n, NEW before PROVE AliasStep(i, before)' = AliasStep(i, before)
  <2>1. EventKept(i)
    BY <1>1, <1>3, HistoryKept
  <2>2. AliasStep(i, before)' = AliasStepBy(events[i], KeyOf(Previous(i))', before)
    <3>1. AliasStep(i, before)' = AliasStepBy(events'[i], KeyOf(Previous(i))', before)
      BY DEF AliasStep, AliasStepBy, KeyOf
    <3>2. QED
      BY <1>1, <3>1
  <2>3. AliasStep(i, before) = AliasStepBy(events[i], KeyOf(Previous(i)), before)
    BY AliasStepIs
  <2>4. CASE events[i].action = "CORRECT"
    <3>1. i \in Corrections(i) /\ i \in 0..n
      BY <1>1, <2>4 DEF Corrections, LinkEvents, LinkActions
    <3>2. Earlier(i) # {}
      BY <1>2, <3>1 DEF Sound
    <3>3. KeyOf(Previous(i))' = KeyOf(Previous(i))
      BY <2>1, <3>2 DEF EventKept, KeyOf
    <3>4. QED
      BY <2>2, <2>3, <3>3
  <2>5. CASE events[i].action # "CORRECT"
    BY <2>2, <2>3, <2>5, AliasStepCases
  <2>6. QED
    BY <2>4, <2>5
<1> DEFINE G == [i \in 0..(n + 1) |-> IF i = n + 1 THEN new ELSE H[i]]
           St(f, i) == IF i = 0 THEN NoAliases ELSE AliasStep(i, f[i - 1])'
<1>4. /\ \A i \in 0..n : G[i] = H[i] /\ i \in 0..(n + 1)
      /\ G[n + 1] = new /\ n + 1 \in 0..(n + 1) /\ n + 1 # 0 /\ n \in 0..n
      /\ \A i \in 0..(n + 1) : i \in 0..n \/ i = n + 1
      /\ \A i \in 0..n : i # 0 => i - 1 \in 0..n /\ i \in 1..n
  BY <1>1
<1>5. DOMAIN G = 0..(n + 1) /\ G = [i \in 0..(n + 1) |-> G[i]]
  OBVIOUS
<1> HIDE DEF G
<1>6. \A i \in 0..n : H[i] = IF i = 0 THEN NoAliases ELSE AliasStep(i, H[i - 1])
  BY <1>2, Zenon DEF AliasBuilt
<1>7. ASSUME NEW i \in 0..(n + 1) PROVE G[i] = St(G, i)
  <2>1. CASE i = 0
    <3>1. i \in 0..n
      BY <1>1, <2>1
    <3>2. G[i] = NoAliases
      BY <1>4, <1>6, <2>1, <3>1, Zenon
    <3>3. QED
      BY <2>1, <3>2
  <2>2. CASE i \in 0..n /\ i # 0
    <3>1. PICK h : h = H[i - 1]
      OBVIOUS
    <3>2. G[i - 1] = h /\ i \in 1..n
      BY <1>4, <2>2, <3>1
    <3>3. G[i] = AliasStep(i, h)
      BY <1>4, <1>6, <2>2, <3>1, Zenon
    <3>4. AliasStep(i, h)' = AliasStep(i, h)
      BY <1>3, <3>2
    <3>5. G[i] = AliasStep(i, h)'
      BY <3>3, <3>4
    <3>6. QED
      BY <2>2, <3>2, <3>5, Zenon
  <2>3. CASE i = n + 1
    <3>1. i - 1 = n /\ i # 0
      BY <1>1, <2>3
    <3>2. G[i - 1] = old /\ G[i] = new
      BY <1>2, <1>4, <2>3, <3>1
    <3>3. QED
      BY <2>3, <3>1, <3>2, Zenon
  <2>4. QED
    BY <1>4, <2>1, <2>2, <2>3
<1>8. G = [i \in 0..(n + 1) |-> St(G, i)]
  BY <1>5, <1>7
<1>9. AliasBuilt(G, n + 1)'
  BY <1>8, Zenon DEF AliasBuilt, NoAliases
<1>10. ASSUME NEW i \in 0..(n + 1) PROVE Sound(G[i], i)'
  <2>1. CASE i \in 0..n
    <3>1. PICK h : h = H[i]
      OBVIOUS
    <3>2. Sound(h, i) /\ G[i] = h
      BY <1>2, <1>4, <2>1, <3>1
    <3>3. Sound(h, i)'
      BY <2>1, <3>2, SoundKept
    <3>4. QED
      BY <3>2, <3>3
  <2>2. CASE i = n + 1
    BY <1>4, <2>2
  <2>3. QED
    BY <1>4, <2>1, <2>2
<1>11. History(G)'
  BY <1>1, <1>4, <1>9, <1>10, Zenon DEF History
<1>12. ASSUME NEW i \in 0..(n + 1) PROVE ReplayedAliases(i)' = G[i]
  <2>1. n + 1 \in Nat
    BY <1>1
  <2>2. QED
    BY <1>9, <1>12, <2>1, ReplayedNext DEF ReplayedAnywhere
<1>13. ASSUME NEW i \in 0..n PROVE ReplayedAliases(i) = H[i]
  BY <1>1, <1>2, <1>13, ReplayedFrom
<1>14. QED
  BY <1>2, <1>4, <1>11, <1>12, <1>13 DEF ReplayKept

-----------------------------------------------------------------------------
(* The transitions of the links.                                           *)

(* TransitionValid for event e, with the link's earlier events E, the      *)
(* newest of them, and the aliases after and before e.                     *)
TransitionBy(e, E, last, after, before) ==
    \/ /\ e.action = "LINK"
       /\ E = {}
       /\ <<e.status, e.from, e.until>> = <<"ACTIVE", e.period, 0>>
       /\ e.gid = after[KeyOf(e)]
    \/ /\ e.action = "UNLINK"
       /\ E # {}
       /\ last.status = "ACTIVE"
       /\ e.status = "UNLINKED"
       /\ e.until = e.period
       /\ <<e.gid, e.from, KeyOf(e)>> = <<last.gid, last.from, KeyOf(last)>>
    \/ /\ e.action = "CORRECT"
       /\ E # {}
       /\ last.status = "ACTIVE"
       /\ <<e.status, e.from, e.until>> = <<"ACTIVE", last.from, 0>>
       /\ before[KeyOf(last)] # 0
       /\ e.gid = after[KeyOf(e)]

TransitionsAre ==
    \A i : TransitionValid(i) <=>
        TransitionBy(events[i], Earlier(i), Previous(i), ReplayedAliases(i), ReplayedAliases(i - 1))

(* TransitionValid is that.                                                *)
LEMMA TransitionsHere == TransitionsAre
BY Zenon DEF TransitionsAre, TransitionValid, TransitionBy

(* So it is in the next state.                                             *)
LEMMA TransitionsNext ==
    \A i : TransitionValid(i)' <=>
        TransitionBy(events'[i], Earlier(i)', Previous(i)', ReplayedAliases(i)',
                     ReplayedAliases(i - 1)')
<1>1. TransitionsAre'
  BY TransitionsHere, PTL
<1>2. \A i : TransitionBy(events[i], Earlier(i), Previous(i), ReplayedAliases(i),
                          ReplayedAliases(i - 1))' <=>
             TransitionBy(events'[i], Earlier(i)', Previous(i)', ReplayedAliases(i)',
                          ReplayedAliases(i - 1)')
  BY Zenon DEF TransitionBy, KeyOf
<1>3. QED
  BY <1>1, <1>2, Zenon DEF TransitionsAre

(* An event's transition stays valid.                                      *)
LEMMA TransitionKept ==
    ASSUME NEW e, Extended(events, events', e), ReplayKept, NEW i \in LinkEvents,
           TransitionValid(i)
    PROVE  TransitionValid(i)'
<1>1. Len(events) \in Nat /\ DOMAIN events = 1..Len(events) /\ i \in DOMAIN events
  BY DEF Extended, LinkEvents
<1>2. i \in 0..Len(events) /\ i - 1 \in 0..Len(events)
  BY <1>1
<1>3. ReplayedAliases(i)' = ReplayedAliases(i) /\ ReplayedAliases(i - 1)' = ReplayedAliases(i - 1)
  BY <1>2 DEF ReplayKept
<1>4. EventKept(i)
  BY <1>1, HistoryKept
<1>5. TransitionBy(events[i], Earlier(i), Previous(i), ReplayedAliases(i), ReplayedAliases(i - 1))
  BY TransitionsHere DEF TransitionsAre
<1>6. TransitionBy(events'[i], Earlier(i)', Previous(i)', ReplayedAliases(i)',
                   ReplayedAliases(i - 1)')
  <2>1. CASE Earlier(i) = {}
    <3>1. TransitionBy(events[i], Earlier(i), Previous(i)', ReplayedAliases(i),
                       ReplayedAliases(i - 1))
      BY <1>5, <2>1, Zenon DEF TransitionBy
    <3>2. QED
      BY <1>3, <1>4, <3>1 DEF EventKept
  <2>2. CASE Earlier(i) # {}
    BY <1>3, <1>4, <1>5, <2>2 DEF EventKept
  <2>3. QED
    BY <2>1, <2>2
<1>7. QED
  BY <1>6, TransitionsNext

Transitions == \A i \in LinkEvents : TransitionValid(i)

(* The events that made an identity, and their identities.                 *)
Founders ==
    {j \in LinkEvents : /\ events[j].action = "LINK"
                        /\ ReplayedAliases(j - 1)[KeyOf(events[j])] = 0}

Founded == identities = {events[i].gid : i \in Founders}

LinkInv == LinkRail /\ Transitions /\ Founded /\ \E H : History(H)

(* The events of a link that a new event of it finds.                      *)
LEMMA EarlierNow ==
    ASSUME NEW e, Extended(events, events', e), NEW n, n = Len(events)
    PROVE  Earlier(n + 1)' = {j \in LinkEvents : events[j].link = e.link}
<1>1. /\ n \in Nat /\ DOMAIN events = 1..n /\ DOMAIN events' = 1..(n + 1)
      /\ events'[n + 1] = e /\ \A j \in 1..n : events'[j] = events[j]
  BY DEF Extended
<1>2. \A j \in 1..n : (j \in LinkEvents' <=> j \in LinkEvents) /\ j < n + 1
  BY <1>1 DEF LinkEvents
<1>3. \A j \in LinkEvents' : j < n + 1 => j \in 1..n
  BY <1>1 DEF LinkEvents
<1>4. \A j \in LinkEvents : j \in 1..n
  BY <1>1 DEF LinkEvents
<1>5. Earlier(n + 1)' = {j \in LinkEvents' : j < n + 1 /\ events'[j].link = e.link}
  BY <1>1 DEF Earlier
<1>6. QED
  BY <1>1, <1>2, <1>3, <1>4, <1>5

(* What one more link event does to the rail: its row becomes current.     *)
LEMMA RailMoves ==
    ASSUME LinkRail, NEW e, Extended(events, events', e), NEW n, n = Len(events),
           e.action \in LinkActions, e.commitment \in Commitments,
           DOMAIN links' = DOMAIN links \cup {e.link},
           links'[e.link] = RowOf(e, n + 1),
           \A l \in DOMAIN links : l # e.link => links'[l] = links[l]
    PROVE  LinkRail'
<1>1. /\ n \in Nat /\ DOMAIN events = 1..n /\ DOMAIN events' = 1..(n + 1)
      /\ events'[n + 1] = e /\ \A j \in 1..n : events'[j] = events[j]
  BY DEF Extended
<1>2. \A j \in LinkEvents' : \/ j \in LinkEvents /\ events'[j] = events[j] /\ j <= n
                             \/ j = n + 1
  BY <1>1 DEF LinkEvents
<1>3. n + 1 \in LinkEvents' /\ \A j \in LinkEvents : j \in LinkEvents' /\ j \in 1..n
  BY <1>1 DEF LinkEvents
<1>4. \A j \in LinkEvents' : /\ events'[j].link \in DOMAIN links'
                             /\ events'[j].commitment \in Commitments
  BY <1>1, <1>2 DEF LinkRail
<1>5. ASSUME NEW l \in DOMAIN links' PROVE LinkHead(l)'
  <2>1. PICK row : row = links'[l]
    OBVIOUS
  <2>2. SUFFICES /\ row.latest \in LinkEvents'
                 /\ events'[row.latest].link = l
                 /\ row = RowOf(events'[row.latest], row.latest)
                 /\ \A j \in LinkEvents' : events'[j].link = l => j <= row.latest
    BY <2>1, Zenon DEF LinkHead, RowOf
  <2>3. CASE l = e.link
    <3>1. row = RowOf(e, n + 1) /\ row.latest = n + 1
      BY <2>1, <2>3 DEF RowOf
    <3>2. \A j \in LinkEvents' : j <= n + 1
      BY <1>1, <1>2, <1>3
    <3>3. events'[row.latest] = e /\ row.latest \in LinkEvents'
      BY <1>1, <1>3, <3>1
    <3>4. row = RowOf(events'[row.latest], row.latest)
      BY <3>1, <3>3
    <3>5. QED
      BY <2>3, <3>1, <3>2, <3>3, <3>4
  <2>4. CASE l # e.link
    <3>1. l \in DOMAIN links /\ links[l] = row
      BY <1>5, <2>1, <2>4
    <3>2. /\ row.latest \in LinkEvents /\ events[row.latest].link = l
          /\ row = RowOf(events[row.latest], row.latest)
          /\ \A j \in LinkEvents : events[j].link = l => j <= row.latest
      BY <3>1, Zenon DEF LinkRail, LinkHead
    <3>3. row.latest \in LinkEvents' /\ events'[row.latest] = events[row.latest]
      BY <1>1, <1>3, <3>2
    <3>4. \A j \in LinkEvents' : events'[j].link = l => j <= row.latest
      BY <1>1, <1>2, <2>4, <3>2
    <3>5. QED
      BY <3>2, <3>3, <3>4
  <2>5. QED
    BY <2>3, <2>4
<1>6. QED
  BY <1>4, <1>5, Zenon DEF LinkRail

(* What a mutation writes, the snapshot aside.                             *)
Mutated(e, n, row, al) ==
    /\ Extended(events, events', e)
    /\ DOMAIN links' = DOMAIN links \cup {e.link}
    /\ links'[e.link] = row
    /\ \A l \in DOMAIN links : l # e.link => links'[l] = links[l]
    /\ aliases' = al
    /\ n = Len(events) /\ n \in Nat

(* A mutation writes that.                                                 *)
LEMMA MutationIs ==
    ASSUME RowsTyped, NEW action, NEW d, NEW p, NEW link, NEW row, NEW al,
           MutationWritten(action, d, p, link, row, al),
           NEW e, e = LinkEvent(action, d, p, link, row), NEW n, n = Len(events)
    PROVE  Mutated(e, n, row, al)
<1>1. /\ EventWritten(e, al, batches) /\ aliases' = al
      /\ links' = [x \in DOMAIN links \cup {link} |-> IF x = link THEN row ELSE links[x]]
  BY Zenon DEF MutationWritten
<1>2. Extended(events, events', e)
  BY <1>1, AppendEventIs
<1>3. e.link = link
  BY DEF LinkEvent
<1>4. /\ DOMAIN links' = DOMAIN links \cup {link} /\ links'[link] = row
      /\ \A l \in DOMAIN links : l # link => links'[l] = links[l]
  BY <1>1
<1>5. n \in Nat
  BY TableTypes
<1>6. QED
  BY <1>1, <1>2, <1>3, <1>4, <1>5, Zenon DEF Mutated

(* A mutation whose event moves the aliases as the replay does, soundly,   *)
(* and is a valid transition keeps the link history in order.              *)
LEMMA MutationKept ==
    ASSUME LinkInv, NEW e, NEW n, NEW row, NEW al, Mutated(e, n, row, al),
           row = RowOf(e, n + 1), e.action \in LinkActions, e.commitment \in Commitments,
           AliasStepBy(e, KeyOf(Previous(n + 1))', aliases) = al, Sound(al, n + 1)',
           TransitionBy(e, Earlier(n + 1)', Previous(n + 1)', al, aliases),
           identities' = IF e.action = "LINK" /\ aliases[KeyOf(e)] = 0
                         THEN identities \cup {e.gid} ELSE identities
    PROVE  LinkInv'
<1>1. /\ Extended(events, events', e) /\ DOMAIN links' = DOMAIN links \cup {e.link}
      /\ links'[e.link] = row /\ aliases' = al /\ n = Len(events) /\ n \in Nat
      /\ \A l \in DOMAIN links : l # e.link => links'[l] = links[l]
  BY Zenon DEF Mutated
<1>2. /\ DOMAIN events = 1..n /\ DOMAIN events' = 1..(n + 1) /\ events'[n + 1] = e
      /\ \A j \in 1..n : events'[j] = events[j]
  BY <1>1 DEF Extended
<1>3. LinkRail /\ Transitions /\ Founded /\ \E H : History(H)
  BY DEF LinkInv
<1>4. LinkRail'
  BY <1>1, <1>3, RailMoves
<1>5. PICK H : History(H)
  BY <1>3
<1>6. PICK old : old = aliases
  OBVIOUS
<1>7. AliasStep(n + 1, old)' = al
  <2>1. AliasStep(n + 1, old)' = AliasStepBy(events'[n + 1], KeyOf(Previous(n + 1))', old)
    BY DEF AliasStep, AliasStepBy, KeyOf
  <2>2. QED
    BY <1>2, <1>6, <2>1
<1>8. /\ \E G : History(G)'
      /\ ReplayKept
      /\ ReplayedAliases(n)' = old /\ ReplayedAliases(n) = old
      /\ ReplayedAliases(n + 1)' = al
  BY <1>1, <1>5, <1>6, <1>7, HistoryGrows
<1>9. \A j \in LinkEvents' : \/ j \in LinkEvents /\ j \in 1..n
                             \/ j = n + 1
  BY <1>1, <1>2 DEF LinkEvents
<1>10. \A j \in LinkEvents : j \in LinkEvents' /\ j \in 1..n
  BY <1>1, <1>2 DEF LinkEvents
<1>11. n + 1 \in LinkEvents' /\ n + 1 - 1 = n /\ n + 1 \notin 1..n
  BY <1>1, <1>2 DEF LinkEvents
<1>12. Transitions'
  <2>1. ASSUME NEW j \in LinkEvents' PROVE TransitionValid(j)'
    <3>1. CASE j \in LinkEvents
      <4>1. TransitionValid(j)
        BY <1>3, <3>1 DEF Transitions
      <4>2. QED
        BY <1>1, <1>8, <3>1, <4>1, TransitionKept
    <3>2. CASE j = n + 1
      <4>1. TransitionBy(events'[j], Earlier(j)', Previous(j)', ReplayedAliases(j)',
                         ReplayedAliases(j - 1)')
        <5>1. /\ events'[j] = e /\ ReplayedAliases(j)' = al /\ ReplayedAliases(j - 1)' = aliases
              /\ Earlier(j)' = Earlier(n + 1)' /\ Previous(j)' = Previous(n + 1)'
          <6>1. j - 1 = n
            BY <1>1, <1>11, <3>2
          <6>2. ReplayedAliases(j)' = al /\ ReplayedAliases(j - 1)' = aliases
            BY <1>6, <1>8, <3>2, <6>1, Zenon
          <6>3. Earlier(j)' = Earlier(n + 1)' /\ Previous(j)' = Previous(n + 1)' /\ events'[j] = e
            BY <1>2, <3>2, Zenon
          <6>4. QED
            BY <6>2, <6>3
        <5>2. QED
          BY <5>1, Zenon
      <4>2. QED
        BY <4>1, TransitionsNext
    <3>3. QED
      BY <1>9, <2>1, <3>1, <3>2
  <2>2. QED
    BY <2>1 DEF Transitions
<1>13. \A j \in 1..n : KeyOf(events'[j]) = KeyOf(events[j]) /\ ReplayedAliases(j - 1)' = ReplayedAliases(j - 1)
  <2>1. \A j \in 1..n : j - 1 \in 0..Len(events)
    BY <1>1
  <2>2. QED
    BY <1>2, <1>8, <2>1 DEF ReplayKept
<1>13a. \A j : j \in Founders' <=> /\ j \in LinkEvents' /\ events'[j].action = "LINK"
                                  /\ ReplayedAliases(j - 1)'[KeyOf(events'[j])] = 0
  BY DEF Founders, KeyOf
<1>14. \A j \in 1..n : j \in Founders' <=> j \in Founders
  <2>2. \A j : j \in Founders <=> /\ j \in LinkEvents /\ events[j].action = "LINK"
                                  /\ ReplayedAliases(j - 1)[KeyOf(events[j])] = 0
    BY DEF Founders
  <2>3. \A j \in 1..n : j \in LinkEvents' <=> j \in LinkEvents
    BY <1>9, <1>10, <1>11
  <2>4. QED
    BY <1>2, <1>13, <1>13a, <2>2, <2>3
<1>15. n + 1 \in Founders' <=> e.action = "LINK" /\ old[KeyOf(e)] = 0
  <2>1. PICK x : x = n + 1
    OBVIOUS
  <2>2. x \in LinkEvents' /\ events'[x] = e /\ ReplayedAliases(x - 1)' = old
    <3>1. x - 1 = n /\ x \in LinkEvents' /\ events'[x] = e
      BY <1>1, <1>2, <1>11, <2>1
    <3>2. ReplayedAliases(x - 1)' = old
      BY <1>8, <3>1, Zenon
    <3>3. QED
      BY <3>1, <3>2
  <2>3. QED
    BY <1>13a, <2>1, <2>2
<1>16. \A j \in Founders' : j \in 1..n \/ j = n + 1
  BY <1>9 DEF Founders
<1>17. \A j \in Founders : j \in 1..n
  BY <1>10 DEF Founders
<1>18. Founded'
  <2>1. PICK I : I = {events'[i].gid : i \in Founders'}
    OBVIOUS
  <2>2. identities = {events[i].gid : i \in Founders}
    BY <1>3 DEF Founded
  <2>3. \A i \in Founders : i \in Founders' /\ events'[i] = events[i]
    BY <1>2, <1>14, <1>17
  <2>4. CASE e.action = "LINK" /\ old[KeyOf(e)] = 0
    <3>1. identities' = identities \cup {e.gid}
      BY <1>6, <2>4, Zenon
    <3>2. \A i \in Founders' : (i \in Founders /\ events'[i] = events[i]) \/ events'[i] = e
      BY <1>2, <1>14, <1>16
    <3>3. n + 1 \in Founders' /\ events'[n + 1] = e
      BY <1>2, <1>15, <2>4
    <3>4. I = identities'
      BY <2>1, <2>2, <2>3, <3>1, <3>2, <3>3
    <3>5. QED
      BY <2>1, <3>4 DEF Founded
  <2>5. CASE ~(e.action = "LINK" /\ old[KeyOf(e)] = 0)
    <3>1. identities' = identities
      BY <1>6, <2>5, Zenon
    <3>2. \A i \in Founders' : i \in Founders /\ events'[i] = events[i]
      BY <1>2, <1>14, <1>15, <1>16, <2>5
    <3>3. I = identities'
      BY <2>1, <2>2, <2>3, <3>1, <3>2
    <3>4. QED
      BY <2>1, <3>3 DEF Founded
  <2>6. QED
    BY <2>4, <2>5
<1>19. QED
  BY <1>4, <1>8, <1>12, <1>18, Zenon DEF LinkInv

(* The event of a stored link that its next event follows.                 *)
LEMMA PreviousNow ==
    ASSUME LinkRail, Transitions, NEW e, Extended(events, events', e), NEW n, n = Len(events),
           e.link \in DOMAIN links, NEW old, old = links[e.link]
    PROVE  \E last : /\ Earlier(n + 1)' # {} /\ Previous(n + 1)' = last
                     /\ old = RowOf(last, old.latest)
                     /\ last.status = "ACTIVE" => last.until = 0
<1>1. /\ n \in Nat /\ DOMAIN events = 1..n
      /\ \A j \in 1..n : events'[j] = events[j]
  BY DEF Extended
<1>2. PICK x : x = old.latest
  OBVIOUS
<1>3. /\ x \in LinkEvents /\ events[x].link = e.link /\ old = RowOf(events[x], x)
      /\ \A j \in LinkEvents : events[j].link = e.link => j <= x
  BY <1>2, Zenon DEF LinkRail, LinkHead
<1>4. PICK E : E = {j \in LinkEvents : events[j].link = e.link}
  OBVIOUS
<1>5. Earlier(n + 1)' = E
  BY <1>4, EarlierNow
<1>6. E \in SUBSET Nat /\ x \in E /\ \A j \in E : j <= x
  BY <1>1, <1>3, <1>4 DEF LinkEvents
<1>7. Max(E) = x
  BY <1>6, MaxIs
<1>8. Previous(n + 1)' = events'[Max(Earlier(n + 1)')]
  BY DEF Previous, Max
<1>9. x \in 1..n
  BY <1>1, <1>3 DEF LinkEvents
<1>10. Previous(n + 1)' = events[x]
  BY <1>1, <1>5, <1>7, <1>8, <1>9
<1>11. PICK last : last = events[x]
  OBVIOUS
<1>12. last.status = "ACTIVE" => last.until = 0
  <2>1. TransitionBy(last, Earlier(x), Previous(x), ReplayedAliases(x), ReplayedAliases(x - 1))
    BY <1>3, <1>11, TransitionsHere, SMTT(30) DEF TransitionsAre, Transitions
  <2>2. QED
    BY <2>1 DEF TransitionBy
<1>13. /\ Earlier(n + 1)' # {} /\ Previous(n + 1)' = last
       /\ old = RowOf(last, old.latest)
  BY <1>2, <1>3, <1>5, <1>6, <1>10, <1>11
<1>14. QED
  BY <1>12, <1>13, Zenon

(* The alias table is sound for the history.                               *)
LEMMA AliasesSound ==
    ASSUME RowsTyped, LinkInv, NEW n, n = Len(events)
    PROVE  Sound(aliases, n) /\ aliases \in [AliasKeys -> 0..n] /\ n \in Nat
<1>1. PICK H : History(H)
  BY DEF LinkInv
<1>2. n \in Nat
  BY TableTypes
<1>3. H[n] = aliases /\ Sound(H[n], n)
  BY <1>1, <1>2 DEF History
<1>4. Sound(aliases, n)
  BY <1>3
<1>5. QED
  BY <1>2, <1>4 DEF Sound

(* A link request keeps the link history in order.                         *)
LEMMA LinkKept ==
    ASSUME TablesInv, LinkInv, NEW d \in Deployments, NEW c \in Commitments, NEW p \in Periods,
           NEW key, NEW gid, NEW row, LinkRecord(d, c, p, key, gid, row)
    PROVE  LinkInv'
<1>1. RowsTyped /\ LinkRail
  BY DEF TablesInv, LinkInv
<1>2. PICK n, al, e, v : /\ n = Len(events) /\ al = [aliases EXCEPT ![key] = gid]
                         /\ e = LinkEvent("LINK", d, p, n + 1, row) /\ v = active
  OBVIOUS
<1>3. /\ key = <<v, c>> /\ key \in AliasKeys
      /\ gid = (IF aliases[key] = 0 THEN n + 1 ELSE aliases[key])
      /\ row = [deployment |-> d, gid |-> gid, status |-> "ACTIVE", version |-> v,
                commitment |-> c, from |-> p, until |-> 0, latest |-> n + 1]
      /\ MutationWritten("LINK", d, p, n + 1, row, al)
      /\ identities' = (IF aliases[key] = 0 THEN identities \cup {gid} ELSE identities)
  BY <1>2, Zenon DEF LinkRecord
<1>4. Mutated(e, n, row, al)
  BY <1>1, <1>2, <1>3, MutationIs
<1>5. Extended(events, events', e) /\ n \in Nat /\ DOMAIN events = 1..n
  BY <1>4 DEF Mutated, Extended
<1>6. e = [action |-> "LINK", deployment |-> d, period |-> p, link |-> n + 1, gid |-> gid,
           status |-> "ACTIVE", version |-> v, commitment |-> c, from |-> p, until |-> 0]
  BY <1>2, <1>3 DEF LinkEvent
<1>7. /\ e.action = "LINK" /\ e.deployment = d /\ e.period = p /\ e.link = n + 1 /\ e.gid = gid
      /\ e.status = "ACTIVE" /\ e.version = v /\ e.commitment = c /\ e.from = p /\ e.until = 0
  BY <1>6
<1>8. KeyOf(e) = key /\ row = RowOf(e, n + 1)
  BY <1>3, <1>7 DEF KeyOf, RowOf
<1>9. Sound(aliases, n) /\ aliases \in [AliasKeys -> 0..n]
  BY <1>1, <1>2, AliasesSound
<1>10. Earlier(n + 1)' = {}
  <2>1. Earlier(n + 1)' = {j \in LinkEvents : events[j].link = n + 1}
    BY <1>2, <1>5, <1>7, EarlierNow
  <2>2. ASSUME NEW j \in LinkEvents PROVE events[j].link # n + 1
    <3>1. events[j].link \in DOMAIN links /\ DOMAIN links \subseteq DOMAIN events
      BY <1>1 DEF LinkRail, RowsTyped
    <3>2. QED
      BY <1>5, <3>1
  <2>3. QED
    BY <2>1, <2>2
<1>11. al[key] = gid
  BY <1>2, <1>3, <1>9
<1>12. Sound(al, n + 1)'
  <2>1. e.action # "CORRECT"
    BY <1>7
  <2>2. CASE aliases[key] = 0
    <3>1. al = [aliases EXCEPT ![key] = n + 1]
      BY <1>2, <1>3, <2>2, Zenon
    <3>2. PICK was : was = aliases
      OBVIOUS
    <3>3. Sound(was, n) /\ was[key] = 0 /\ al = [was EXCEPT ![key] = n + 1]
      BY <1>9, <2>2, <3>1, <3>2
    <3>4. n = Len(events) /\ key \in AliasKeys /\ key = KeyOf(e)
      BY <1>2, <1>3, <1>8
    <3>5. QED
      BY <1>5, <2>1, <3>3, <3>4, SoundNew, Zenon
  <2>3. CASE aliases[key] # 0
    <3>1. al = aliases
      BY <1>2, <1>3, <1>9, <2>3
    <3>2. Sound(al, n) /\ al[key] # 0
      BY <1>9, <2>3, <3>1
    <3>3. QED
      BY <1>2, <1>3, <1>5, <1>8, <2>1, <3>2, SoundSame
  <2>4. QED
    BY <2>2, <2>3
<1>13. PICK q : q = KeyOf(Previous(n + 1))'
  OBVIOUS
<1>14. AliasStepBy(e, q, aliases) = al
  <2>1. CASE aliases[key] = 0
    <3>1. AliasStepBy(e, q, aliases) = [aliases EXCEPT ![key] = gid]
      BY <1>7, <1>8, <2>1, AliasStepCases
    <3>2. QED
      BY <1>2, <3>1
  <2>2. CASE aliases[key] # 0
    <3>1. al = aliases
      BY <1>2, <1>3, <1>9, <2>2
    <3>2. e.action # "CORRECT" /\ ~(e.action = "LINK" /\ aliases[KeyOf(e)] = 0)
      BY <1>7, <1>8, <2>2
    <3>3. AliasStepBy(e, q, aliases) = aliases
      BY <3>2, AliasStepCases
    <3>4. QED
      BY <3>1, <3>3
  <2>3. QED
    BY <2>1, <2>2
<1>15. TransitionBy(e, Earlier(n + 1)', Previous(n + 1)', al, aliases)
  <2>1. e.gid = al[KeyOf(e)] /\ <<e.status, e.from, e.until>> = <<"ACTIVE", e.period, 0>>
    BY <1>7, <1>8, <1>11
  <2>2. QED
    BY <1>7, <1>10, <2>1, Zenon DEF TransitionBy
<1>16. identities' = IF e.action = "LINK" /\ aliases[KeyOf(e)] = 0
                     THEN identities \cup {e.gid} ELSE identities
  BY <1>3, <1>7, <1>8, Zenon
<1>17. e.action \in LinkActions /\ e.commitment \in Commitments
  BY <1>7 DEF LinkActions
<1>18. QED
  BY <1>4, <1>8, <1>12, <1>13, <1>14, <1>15, <1>16, <1>17, MutationKept

(* The end of a link keeps the link history in order.                      *)
LEMMA UnlinkKept ==
    ASSUME TablesInv, LinkInv, NEW d \in Deployments, NEW l \in DOMAIN links,
           NEW p \in Periods, NEW row, UnlinkRecord(d, l, p, row)
    PROVE  LinkInv'
<1>1. RowsTyped /\ LinksNamed /\ LinkRail /\ Transitions
  BY DEF TablesInv, LinkInv
<1>2. PICK n, old, e, al : /\ n = Len(events) /\ old = links[l]
                           /\ e = LinkEvent("UNLINK", d, p, l, row) /\ al = aliases
  OBVIOUS
<1>3. /\ old.deployment = d /\ old.status = "ACTIVE"
      /\ row = [old EXCEPT !.status = "UNLINKED", !.until = p, !.latest = n + 1]
      /\ MutationWritten("UNLINK", d, p, l, row, al) /\ identities' = identities
  BY <1>2, Zenon DEF UnlinkRecord
<1>4. Mutated(e, n, row, al)
  BY <1>1, <1>2, <1>3, MutationIs
<1>5. Extended(events, events', e) /\ n \in Nat /\ DOMAIN events = 1..n
  BY <1>4 DEF Mutated, Extended
<1>6. old \in LinkRows /\ <<old.version, old.commitment>> \in AliasKeys
      /\ al[<<old.version, old.commitment>>] # 0
  BY <1>1, <1>2, LinkRowFacts DEF LinksNamed
<1>7. /\ row = [deployment |-> d, gid |-> old.gid, status |-> "UNLINKED", version |-> old.version,
                commitment |-> old.commitment, from |-> old.from, until |-> p, latest |-> n + 1]
      /\ old.commitment \in Commitments
  BY <1>3, <1>6 DEF LinkRows
<1>8. e = [action |-> "UNLINK", deployment |-> d, period |-> p, link |-> l, gid |-> old.gid,
           status |-> "UNLINKED", version |-> old.version, commitment |-> old.commitment,
           from |-> old.from, until |-> p]
  BY <1>2, <1>7 DEF LinkEvent
<1>9. /\ e.action = "UNLINK" /\ e.deployment = d /\ e.period = p /\ e.link = l
      /\ e.gid = old.gid /\ e.status = "UNLINKED" /\ e.version = old.version
      /\ e.commitment = old.commitment /\ e.from = old.from /\ e.until = p
  BY <1>8
<1>10. KeyOf(e) = <<old.version, old.commitment>> /\ row = RowOf(e, n + 1)
  BY <1>7, <1>9 DEF KeyOf, RowOf
<1>11. PICK last : /\ Earlier(n + 1)' # {} /\ Previous(n + 1)' = last
                   /\ old = RowOf(last, old.latest)
  BY <1>1, <1>2, <1>5, <1>9, PreviousNow
<1>12. /\ last.gid = old.gid /\ last.from = old.from /\ KeyOf(last) = KeyOf(e)
       /\ last.status = "ACTIVE"
  BY <1>3, <1>10, <1>11 DEF RowOf, KeyOf
<1>13. Sound(al, n)
  BY <1>1, <1>2, AliasesSound
<1>14. Sound(al, n + 1)'
  BY <1>2, <1>5, <1>6, <1>9, <1>10, <1>13, SoundSame
<1>15. PICK q : q = KeyOf(Previous(n + 1))'
  OBVIOUS
<1>16. AliasStepBy(e, q, al) = al
  <2>1. e.action # "CORRECT" /\ ~(e.action = "LINK" /\ al[KeyOf(e)] = 0)
    BY <1>9
  <2>2. QED
    BY <2>1, AliasStepCases
<1>17. TransitionBy(e, Earlier(n + 1)', Previous(n + 1)', al, al)
  <2>1. <<e.gid, e.from, KeyOf(e)>> = <<last.gid, last.from, KeyOf(last)>>
    BY <1>9, <1>12
  <2>2. QED
    BY <1>9, <1>11, <1>12, <2>1, Zenon DEF TransitionBy
<1>18. identities' = IF e.action = "LINK" /\ aliases[KeyOf(e)] = 0
                     THEN identities \cup {e.gid} ELSE identities
  <2>1. e.action # "LINK"
    BY <1>9
  <2>2. QED
    BY <1>3, <2>1, Zenon
<1>19. e.action \in LinkActions /\ e.commitment \in Commitments
  BY <1>7, <1>9 DEF LinkActions
<1>20. QED
  BY <1>2, <1>4, <1>10, <1>14, <1>15, <1>16, <1>17, <1>18, <1>19, MutationKept

(* A correction keeps the link history in order.                           *)
LEMMA CorrectKept ==
    ASSUME TablesInv, LinkInv, NEW d \in Deployments, NEW l \in DOMAIN links,
           NEW c \in Commitments, NEW p \in Periods,
           NEW source, NEW target, NEW key, NEW al, NEW row,
           CorrectRecord(d, l, c, p, source, target, key, al, row)
    PROVE  LinkInv'
<1>1. RowsTyped /\ LinksNamed /\ LinkRail /\ Transitions
  BY DEF TablesInv, LinkInv
<1>2. PICK n, old, e, was, v : /\ n = Len(events) /\ old = links[l] /\ was = aliases /\ v = active
                               /\ e = LinkEvent("CORRECT", d, p, l, row)
  OBVIOUS
<1>3. /\ old.deployment = d /\ old.status = "ACTIVE"
      /\ source = was[<<old.version, old.commitment>>] /\ key = <<v, c>> /\ key \in AliasKeys
      /\ target = (IF was[key] = 0 THEN source ELSE was[key])
      /\ source \in 1..n /\ target \in 1..n
      /\ al = [k \in AliasKeys |-> IF k = key \/ was[k] = source THEN target ELSE was[k]]
      /\ row = [old EXCEPT !.gid = target, !.version = v, !.commitment = c, !.latest = n + 1]
      /\ MutationWritten("CORRECT", d, p, l, row, al) /\ identities' = identities
  BY <1>2, Zenon DEF CorrectRecord
<1>4. Mutated(e, n, row, al)
  BY <1>1, <1>2, <1>3, MutationIs
<1>5. Extended(events, events', e) /\ n \in Nat /\ DOMAIN events = 1..n
  BY <1>4 DEF Mutated, Extended
<1>6. old \in LinkRows /\ <<old.version, old.commitment>> \in AliasKeys
  BY <1>1, <1>2, LinkRowFacts
<1>7. row = [deployment |-> d, gid |-> target, status |-> "ACTIVE", version |-> v,
             commitment |-> c, from |-> old.from, until |-> old.until, latest |-> n + 1]
  BY <1>3, <1>6 DEF LinkRows
<1>8. e = [action |-> "CORRECT", deployment |-> d, period |-> p, link |-> l, gid |-> target,
           status |-> "ACTIVE", version |-> v, commitment |-> c,
           from |-> old.from, until |-> old.until]
  BY <1>2, <1>7 DEF LinkEvent
<1>9. /\ e.action = "CORRECT" /\ e.deployment = d /\ e.period = p /\ e.link = l
      /\ e.gid = target /\ e.status = "ACTIVE" /\ e.version = v
      /\ e.commitment = c /\ e.from = old.from /\ e.until = old.until
  BY <1>8
<1>10. KeyOf(e) = key /\ row = RowOf(e, n + 1)
  BY <1>3, <1>7, <1>9 DEF KeyOf, RowOf
<1>11. PICK last : /\ Earlier(n + 1)' # {} /\ Previous(n + 1)' = last
                   /\ old = RowOf(last, old.latest)
                   /\ last.status = "ACTIVE" => last.until = 0
  BY <1>1, <1>2, <1>5, <1>9, PreviousNow
<1>12. PICK a : a = KeyOf(last)
  OBVIOUS
<1>13. /\ a = <<old.version, old.commitment>> /\ a \in AliasKeys /\ source = was[a]
       /\ last.status = "ACTIVE" /\ last.from = old.from /\ old.until = 0
  BY <1>3, <1>6, <1>11, <1>12 DEF RowOf, KeyOf
<1>14. Sound(was, n)
  BY <1>1, <1>2, AliasesSound
<1>15. events'[n + 1] = e
  BY <1>2, <1>5 DEF Extended
<1>16. KeyOf(Previous(n + 1))' = a /\ Correction(n + 1)' = <<a, key>>
  <2>1. KeyOf(Previous(n + 1))' = a
    BY <1>11, <1>12 DEF KeyOf
  <2>2. KeyOf(events[n + 1])' = key
    BY <1>10, <1>15 DEF KeyOf
  <2>3. QED
    BY <2>1, <2>2, Zenon DEF Correction
<1>17. source # 0
  BY <1>3, <1>5
<1>18. Sound(al, n + 1)'
  <2>1. /\ n = Len(events) /\ e.action = "CORRECT" /\ key \in AliasKeys /\ key = KeyOf(e)
        /\ a \in AliasKeys /\ Earlier(n + 1)' # {}
    BY <1>2, <1>3, <1>9, <1>10, <1>11, <1>13, Zenon
  <2>2. Merged(was, key, a, source, target, al)
    BY <1>3, <1>13, <1>17, Zenon DEF Merged
  <2>3. QED
    BY <1>5, <1>14, <1>16, <2>1, <2>2, SoundMerged
<1>19. AliasStepBy(e, a, was) = al
  <2>1. AliasStepBy(e, a, was) =
            LET s == was[a]
                t == IF was[KeyOf(e)] = 0 THEN s ELSE was[KeyOf(e)]
            IN  [k \in AliasKeys |-> IF k = KeyOf(e) \/ was[k] = s THEN t ELSE was[k]]
    BY <1>9, AliasStepCases
  <2>2. QED
    BY <1>3, <1>10, <1>13, <2>1
<1>20. al[key] = target
  BY <1>3
<1>21. TransitionBy(e, Earlier(n + 1)', Previous(n + 1)', al, was)
  <2>1. /\ e.gid = al[KeyOf(e)] /\ <<e.status, e.from, e.until>> = <<"ACTIVE", last.from, 0>>
        /\ was[KeyOf(last)] # 0
    BY <1>9, <1>10, <1>12, <1>13, <1>17, <1>20
  <2>2. QED
    BY <1>9, <1>11, <1>13, <2>1, Zenon DEF TransitionBy
<1>22. identities' = IF e.action = "LINK" /\ aliases[KeyOf(e)] = 0
                     THEN identities \cup {e.gid} ELSE identities
  <2>1. e.action # "LINK"
    BY <1>9
  <2>2. QED
    BY <1>3, <2>1, Zenon
<1>23. e.action \in LinkActions /\ e.commitment \in Commitments
  BY <1>9 DEF LinkActions
<1>24. QED
  BY <1>2, <1>4, <1>10, <1>16, <1>18, <1>19, <1>21, <1>22, <1>23, MutationKept

(* A report leaves the link history alone.                                 *)
LEMMA CompleteKept ==
    ASSUME TablesInv, LinkInv, NEW s, NEW m, NEW list, NEW e, NEW b, NEW x,
           CompleteRecord(s, m, list, e, b, x)
    PROVE  LinkInv'
<1>1. RowsTyped /\ LinkRail /\ Transitions /\ Founded
  BY DEF TablesInv, LinkInv
<1>2. PICK n, al : n = Len(events) /\ al = aliases
  OBVIOUS
<1>3. /\ Extended(events, events', e) /\ links' = links /\ aliases' = al
      /\ identities' = identities /\ e = PresenceEvent(m, x)
  BY <1>2, Zenon DEF CompleteRecord
<1>4. e.action = "PRESENCE" /\ e.action \notin LinkActions
  <2>1. e.action = "PRESENCE"
    BY <1>3, Zenon DEF PresenceEvent
  <2>2. QED
    BY <2>1 DEF LinkActions
<1>5. /\ n \in Nat /\ DOMAIN events = 1..n /\ DOMAIN events' = 1..(n + 1) /\ events'[n + 1] = e
      /\ \A j \in 1..n : events'[j] = events[j]
  BY <1>2, <1>3 DEF Extended
<1>6. /\ LinkEvents' = LinkEvents /\ \A j \in LinkEvents : j \in 1..n /\ events'[j] = events[j]
  <2>1. \A j : j \in LinkEvents' <=> j \in LinkEvents
    BY <1>4, <1>5 DEF LinkEvents
  <2>2. \A j \in LinkEvents : j \in 1..n /\ events'[j] = events[j]
    BY <1>5 DEF LinkEvents
  <2>3. QED
    BY <2>1, <2>2
<1>7. LinkRail'
  <2>1. ASSUME NEW l \in DOMAIN links PROVE LinkHead(l)'
    <3>1. LinkHead(l)
      BY <1>1 DEF LinkRail
    <3>2. PICK row : row = links[l]
      OBVIOUS
    <3>3. /\ row.latest \in LinkEvents /\ events[row.latest].link = l
          /\ row = RowOf(events[row.latest], row.latest)
          /\ \A j \in LinkEvents : events[j].link = l => j <= row.latest
      BY <3>1, <3>2, Zenon DEF LinkHead
    <3>4. /\ row.latest \in LinkEvents' /\ events'[row.latest] = events[row.latest]
          /\ \A j \in LinkEvents' : events'[j].link = l => j <= row.latest
      BY <1>6, <3>3
    <3>5. links'[l] = row
      BY <1>3, <3>2
    <3>6. QED
      BY <3>3, <3>4, <3>5, Zenon DEF LinkHead, RowOf
  <2>2. \A i \in LinkEvents' : /\ events'[i].link \in DOMAIN links'
                               /\ events'[i].commitment \in Commitments
    BY <1>1, <1>3, <1>6 DEF LinkRail
  <2>3. QED
    BY <1>3, <2>1, <2>2 DEF LinkRail
<1>8. Sound(al, n)
  BY <1>2, <1>1, AliasesSound
<1>9. Sound(al, n + 1)'
  BY <1>2, <1>3, <1>4, <1>8, SoundSame
<1>10. AliasStep(n + 1, al)' = al
  <2>1. PICK q : q = KeyOf(Previous(n + 1))'
    OBVIOUS
  <2>2. AliasStep(n + 1, al)' = AliasStepBy(events'[n + 1], q, al)
    BY <2>1 DEF AliasStep, AliasStepBy, KeyOf
  <2>3. e.action # "CORRECT" /\ ~(e.action = "LINK" /\ al[KeyOf(e)] = 0)
    BY <1>4
  <2>4. AliasStepBy(e, q, al) = al
    BY <2>3, AliasStepCases
  <2>5. QED
    BY <1>5, <2>2, <2>4
<1>11. PICK H : History(H)
  BY DEF LinkInv
<1>12. (\E G : History(G)') /\ ReplayKept
  BY <1>2, <1>3, <1>9, <1>10, <1>11, HistoryGrows
<1>13. Transitions'
  <2>1. ASSUME NEW j \in LinkEvents' PROVE TransitionValid(j)'
    <3>1. j \in LinkEvents /\ TransitionValid(j)
      BY <1>1, <1>6, <2>1 DEF Transitions
    <3>2. QED
      BY <1>3, <1>12, <3>1, TransitionKept
  <2>2. QED
    BY <2>1 DEF Transitions
<1>14. Founded'
  <2>1. \A j \in LinkEvents : /\ KeyOf(events'[j]) = KeyOf(events[j])
                              /\ ReplayedAliases(j - 1)' = ReplayedAliases(j - 1)
    <3>1. \A j \in LinkEvents : j - 1 \in 0..Len(events)
      BY <1>2, <1>5, <1>6
    <3>2. QED
      BY <1>6, <1>12, <3>1 DEF ReplayKept
  <2>2. \A j : j \in Founders' <=> /\ j \in LinkEvents' /\ events'[j].action = "LINK"
                                   /\ ReplayedAliases(j - 1)'[KeyOf(events'[j])] = 0
    BY DEF Founders, KeyOf
  <2>3. \A j : j \in Founders <=> /\ j \in LinkEvents /\ events[j].action = "LINK"
                                  /\ ReplayedAliases(j - 1)[KeyOf(events[j])] = 0
    BY DEF Founders
  <2>4. Founders' = Founders /\ \A j \in Founders : events'[j] = events[j]
    BY <1>6, <2>1, <2>2, <2>3
  <2>5. QED
    BY <1>1, <1>3, <2>4 DEF Founded
<1>15. QED
  BY <1>7, <1>12, <1>13, <1>14, Zenon DEF LinkInv

(* So do the steps that record no event.                                   *)
LEMMA LinkUntouched ==
    ASSUME RowsTyped, LinkInv, events' = events, links' = links, aliases' = aliases,
           identities' = identities
    PROVE  LinkInv'
<1>0. Len(events) \in Nat /\ DOMAIN events = 1..Len(events)
  BY TableTypes
<1>1. LinkEvents' = LinkEvents
  BY DEF LinkEvents
<1>2. \A i : Earlier(i)' = Earlier(i)
  BY <1>1 DEF Earlier
<1>3. \A i : Previous(i)' = Previous(i)
  BY <1>2, Zenon DEF Previous, Max
<1>4. \A i : KeyOf(Previous(i))' = KeyOf(Previous(i)) /\ KeyOf(events[i])' = KeyOf(events[i])
  BY <1>3, Zenon DEF KeyOf
<1>5. \A i : Correction(i)' = Correction(i)
  BY <1>4, Zenon DEF Correction
<1>9. \A n : Corrections(n)' = Corrections(n)
  BY <1>1, Zenon DEF Corrections
<1>10. \A S, n : Closed(S, n)' <=> Closed(S, n)
  BY <1>5, <1>9, Zenon DEF Closed
<1>11. \A g, n : Sound(g, n)' <=> Sound(g, n)
  BY <1>1, <1>2, <1>4, <1>5, <1>9, <1>10, Zenon DEF Sound
<1>12. \A g, i : AliasStep(i, g)' = AliasStep(i, g)
  BY <1>4, ZenonT(30) DEF AliasStep
<1>13. \A g, n : AliasBuilt(g, n)' <=> AliasBuilt(g, n)
  BY <1>12, Zenon DEF AliasBuilt, NoAliases
<1>14. \A H : History(H)' <=> History(H)
  BY <1>11, <1>13, Zenon DEF History
<1>15. \A l : LinkHead(l)' <=> LinkHead(l)
  BY <1>1, Zenon DEF LinkHead, RowOf
<1>16. PICK n, H : n = Len(events) /\ History(H)
  BY DEF LinkInv
<1>17. ASSUME NEW i \in 0..n PROVE ReplayedAliases(i)' = ReplayedAliases(i)
  <2>1. AliasBuilt(H, n) /\ AliasBuilt(H, n)'
    BY <1>13, <1>16 DEF History
  <2>2. ReplayedAliases(i) = H[i] /\ ReplayedAliases(i)' = H[i]
    BY <1>17, <1>0, <1>16, <2>1, ReplayedHere, ReplayedNext DEF ReplayedAnywhere
  <2>3. QED
    BY <2>2
<1>18. \A j \in LinkEvents : j \in 0..n /\ j - 1 \in 0..n
  BY <1>0, <1>16 DEF LinkEvents
<1>19. \A j \in LinkEvents : /\ ReplayedAliases(j)' = ReplayedAliases(j)
                             /\ ReplayedAliases(j - 1)' = ReplayedAliases(j - 1)
  BY <1>17, <1>18
<1>20. \A i \in LinkEvents : TransitionValid(i)' <=> TransitionValid(i)
  BY <1>2, <1>3, <1>4, <1>19, ZenonT(30) DEF TransitionValid
<1>21. Founders' = Founders
  BY <1>1, <1>4, <1>19, Zenon DEF Founders
<1>22. LinkRail' /\ Transitions' /\ Founded'
  BY <1>1, <1>15, <1>20, <1>21, Zenon DEF LinkRail, Transitions, Founded, LinkInv
<1>23. QED
  BY <1>14, <1>16, <1>22, Zenon DEF LinkInv

(* One more step, and the link history is in order.                        *)
LEMMA LinkHistoryStep ==
    ASSUME TablesInv, LinkInv, [Next]_vars
    PROVE  LinkInv'
<1>1. \/ LinkTaken \/ UnlinkTaken \/ CorrectTaken \/ CompleteTaken
      \/ StageTaken \/ Quiet
  BY TablesStep
<1>2. CASE LinkTaken
  BY <1>2, LinkKept DEF LinkTaken
<1>3. CASE UnlinkTaken
  BY <1>3, UnlinkKept DEF UnlinkTaken
<1>4. CASE CorrectTaken
  BY <1>4, CorrectKept DEF CorrectTaken
<1>5. CASE CompleteTaken
  BY <1>5, CompleteKept DEF CompleteTaken
<1>6. CASE StageTaken \/ Quiet
  <2>1. events' = events /\ links' = links /\ aliases' = aliases /\ identities' = identities
    BY <1>6, Zenon DEF StageTaken, StageRecord, Quiet
  <2>2. QED
    BY <2>1, LinkUntouched DEF TablesInv
<1>7. QED
  BY <1>1, <1>2, <1>3, <1>4, <1>5, <1>6

(* Without events, nothing is linked.                                      *)
LEMMA LinkInit == Init => LinkInv
<1> SUFFICES ASSUME Init PROVE LinkInv
  OBVIOUS
<1>1. events = <<>> /\ links = <<>> /\ aliases = NoAliases /\ identities = {}
  BY DEF Init, NoAliases
<1>2. Len(events) = 0 /\ DOMAIN events = {} /\ DOMAIN links = {} /\ LinkEvents = {}
  BY <1>1 DEF LinkEvents
<1>3. LinkRail /\ Transitions
  BY <1>2 DEF LinkRail, Transitions
<1>4. Founded
  BY <1>1, <1>2 DEF Founded, Founders
<1>5. PICK H : H = [i \in 0..0 |-> NoAliases]
  OBVIOUS
<1>6. 0..0 = {0} /\ H[0] = NoAliases
  BY <1>5
<1>7. AliasBuilt(H, 0)
  <2>1. \A i \in 0..0 : NoAliases = IF i = 0 THEN NoAliases ELSE AliasStep(i, H[i - 1])
    BY <1>6, Zenon
  <2>2. QED
    BY <1>5, <2>1, Zenon DEF AliasBuilt
<1>8. Sound(NoAliases, 0)
  <2>1. NoAliases \in [AliasKeys -> 0..0] /\ \A k \in AliasKeys : NoAliases[k] = 0
    BY DEF NoAliases
  <2>2. Corrections(0) = {}
    BY <1>2 DEF Corrections
  <2>3. QED
    BY <1>2, <2>1, <2>2 DEF Sound
<1>9. History(H)
  BY <1>1, <1>2, <1>6, <1>7, <1>8 DEF History
<1>10. QED
  BY <1>3, <1>4, <1>9 DEF LinkInv

IdentityInv == TablesInv /\ LinkInv

(* The tables and the link history stay in order.                          *)
LEMMA IdentityInvHolds == Spec => []IdentityInv
<1>1. Init => IdentityInv
  BY TablesInit, LinkInit DEF IdentityInv
<1>2. IdentityInv /\ [Next]_vars => IdentityInv'
  BY TablesStep, LinkHistoryStep DEF IdentityInv
<1>3. QED
  BY <1>1, <1>2, PTL DEF Spec

(* Two commitments have one global identity exactly when a chain of        *)
(* corrections joins them, after any interleaving of links, corrections,   *)
(* ends of links, key rotations and reports: a merge                       *)
(* (prepareGlobalIdentityCorrection) moves every alias of the identity it  *)
(* absorbs and no other.                                                   *)
THEOREM OneIdentityHolds == Spec => []OneIdentityPerPerson
<1>1. ASSUME IdentityInv PROVE OneIdentityPerPerson
  <2>1. PICK n : n = Len(events)
    OBVIOUS
  <2>2. Sound(aliases, n)
    BY <1>1, <2>1, AliasesSound DEF IdentityInv, TablesInv
  <2>3. ASSUME NEW k1 \in AliasKeys, NEW k2 \in AliasKeys, aliases[k1] # 0
        PROVE  (aliases[k1] = aliases[k2]) <=> (k2 \in Person(k1, n))
    BY <2>2, <2>3, PersonIs
  <2>4. QED
    BY <2>1, <2>3, Zenon DEF OneIdentityPerPerson
<1>2. QED
  BY <1>1, IdentityInvHolds, PTL

(* The audit's replay of the link history gives the current tables.        *)
LEMMA DirectRowsHold ==
    ASSUME RowsTyped, LinkInv
    PROVE  DirectRowsValid
<1>1. LinkRail /\ Transitions /\ Founded
  BY DEF LinkInv
<1>2. PICK n, H : n = Len(events) /\ History(H)
  BY DEF LinkInv
<1>3. aliases = ReplayedAliases(n)
  <2>1. n \in Nat /\ n \in 0..n
    BY <1>2, TableTypes
  <2>2. AliasBuilt(H, n) /\ H[n] = aliases
    BY <1>2 DEF History
  <2>3. QED
    BY <2>1, <2>2, ReplayedFrom
<1>4. DOMAIN links = {events[i].link : i \in LinkEvents}
  <2>1. \A l \in DOMAIN links : \E i \in LinkEvents : events[i].link = l
    BY <1>1 DEF LinkRail, LinkHead
  <2>2. \A i \in LinkEvents : events[i].link \in DOMAIN links
    BY <1>1 DEF LinkRail
  <2>3. QED
    BY <2>1, <2>2
<1>5. \A l \in DOMAIN links : /\ events[links[l].latest].link = l
                              /\ links[l] = RowOf(events[links[l].latest], links[l].latest)
  BY <1>1, Zenon DEF LinkRail, LinkHead
<1>6. identities = {events[i].gid : i \in Founders}
  BY <1>1 DEF Founded
<1>7. QED
  BY <1>1, <1>2, <1>3, <1>4, <1>5, <1>6, Zenon DEF DirectRowsValid, Transitions, Founders, RowOf

-----------------------------------------------------------------------------
(* The snapshots.                                                          *)

(* Every snapshot is of its event's month, the next one of that month, and *)
(* adds up: this is SnapshotsValid, with the events' indexes.              *)
SnapshotGood(i, s) ==
    /\ s.period = events[i].period
    /\ s.revision = Cardinality({j \in 1..i : snapshots[j].period = s.period})
    /\ s.deduplicated = s.unique + s.unlinked
    /\ s.deduplicated <= s.reported

(* A step that records an event publishes its snapshot.                    *)
Published(e, s) ==
    /\ Extended(events, events', e) /\ Extended(snapshots, snapshots', s)
    /\ SnapshotSays(s, e.period, aliases', batches')
    /\ s.deduplicated <= s.reported

(* The batches have the facts a snapshot needs in the next state too.      *)
LEMMA NextBatches ==
    ASSUME RowsTyped', SetsFit'
    PROVE  BatchFacts(batches')
<1>1. ASSUME NEW b \in batches' PROVE b.reported \in Nat /\ b.version \in Versions /\ b.items \in Lists
  <2>1. b \in BatchRows'
    BY <1>1 DEF RowsTyped
  <2>2. b.reported \in Counts /\ b.version \in Versions /\ b.items \in Lists
    BY <2>1 DEF BatchRows
  <2>3. QED
    BY <2>2, IdentityAssumption
<1>2. QED
  BY <1>1 DEF BatchFacts, SetsFit

(* An appended event is published.                                         *)
LEMMA AppendPublishes ==
    ASSUME TablesInv, TablesInv', NEW e, NEW al, NEW B, EventWritten(e, al, B),
           al = aliases', B = batches'
    PROVE  \E s : Published(e, s)
<1>1. RowsTyped /\ SetsFit /\ RowsTyped' /\ SetsFit'
  BY DEF TablesInv
<1>2. PICK s : s = Snapshot(e.period, al, B)
  OBVIOUS
<1>3. /\ Extended(events, events', e) /\ Extended(snapshots, snapshots', s)
      /\ s.deduplicated <= s.reported
  BY <1>1, <1>2, AppendEventIs
<1>4. PICK n : n = Len(events)
  OBVIOUS
<1>5. /\ n \in Nat /\ Len(events') = n + 1 /\ DOMAIN events' = 1..(n + 1) /\ events'[n + 1] = e
  BY <1>3, <1>4 DEF Extended
<1>6. e.period \in Periods
  <2> HIDE DEF EventRows
  <2>1. events' \in Seq(EventRows')
    BY <1>1 DEF RowsTyped
  <2>2. n + 1 \in 1..Len(events')
    BY <1>5
  <2>3. e \in EventRows'
    BY <1>5, <2>1, <2>2
  <2>4. QED
    BY <2>3, Zenon DEF EventRows
<1>7. al \in [AliasKeys -> 0..(n + 1)]
  BY <1>1, <1>5 DEF RowsTyped, Ids
<1>8. BatchFacts(B)
  BY <1>1, NextBatches
<1>9. SnapshotSays(s, e.period, al, B)
  BY <1>1, <1>2, <1>4, <1>5, <1>6, <1>7, <1>8, SnapshotTyped
<1>10. Published(e, s)
  BY <1>3, <1>9, Zenon DEF Published
<1>11. QED
  BY <1>10

(* The kinds of steps, for the presence tables: a link event, a staged     *)
(* chunk, the last chunk, or none of these tables' events.                 *)
LinkRecorded ==
    \E e, s : /\ Published(e, s) /\ e.action \in LinkActions
              /\ qmau' = qmau /\ submissions' = submissions /\ batches' = batches

ReportRecorded(s, m, list, e, b, n) ==
    CompleteRecord(s, m, list, e, b, n) /\ \E x : Published(e, x)

(* Every step is of one of the kinds.                                      *)
LEMMA PresenceKinds ==
    ASSUME TablesInv, [Next]_vars
    PROVE  \/ LinkRecorded
           \/ StageTaken
           \/ \E s, m, list, e, b, n : ReportRecorded(s, m, list, e, b, n)
           \/ Quiet
<1>1. TablesInv'
  BY TablesStep
<1>2. ASSUME NEW action \in LinkActions, NEW d, NEW p, NEW link, NEW row, NEW al,
             MutationWritten(action, d, p, link, row, al)
      PROVE  LinkRecorded
  <2>1. PICK e, B : e = LinkEvent(action, d, p, link, row) /\ B = batches
    OBVIOUS
  <2>2. /\ EventWritten(e, al, B) /\ aliases' = al
        /\ qmau' = qmau /\ submissions' = submissions /\ batches' = batches
    BY <1>2, <2>1, Zenon DEF MutationWritten
  <2>3. PICK s : Published(e, s)
    BY <1>1, <2>1, <2>2, AppendPublishes
  <2>4. e.action = action
    BY <2>1 DEF LinkEvent
  <2>5. QED
    BY <1>2, <2>2, <2>3, <2>4, Zenon DEF LinkRecorded
<1>3. "LINK" \in LinkActions /\ "UNLINK" \in LinkActions /\ "CORRECT" \in LinkActions
  BY DEF LinkActions
<1>4. CASE LinkTaken
  BY <1>2, <1>3, <1>4, ZenonT(30) DEF LinkTaken, LinkRecord
<1>5. CASE UnlinkTaken
  BY <1>2, <1>3, <1>5, Zenon DEF UnlinkTaken, UnlinkRecord
<1>6. CASE CorrectTaken
  <2>1. PICK d, l, c, p, source, target, key, al, row :
            CorrectRecord(d, l, c, p, source, target, key, al, row)
    BY <1>6, Zenon DEF CorrectTaken
  <2>2. MutationWritten("CORRECT", d, p, l, row, al)
    BY <2>1, Zenon DEF CorrectRecord
  <2>3. QED
    BY <1>2, <1>3, <2>2
<1>7. CASE CompleteTaken
  <2>1. PICK s, m, list, e, b, n : CompleteRecord(s, m, list, e, b, n)
    BY <1>7 DEF CompleteTaken
  <2>2. PICK al, B : al = aliases /\ B = batches \cup {b}
    OBVIOUS
  <2>3. EventWritten(e, al, B) /\ al = aliases' /\ B = batches'
    BY <2>1, <2>2, Zenon DEF CompleteRecord
  <2>4. \E x : Published(e, x)
    BY <1>1, <2>3, AppendPublishes
  <2>5. QED
    BY <2>1, <2>4, Zenon DEF ReportRecorded
<1>8. QED
  BY <1>4, <1>5, <1>6, <1>7, TablesStep

Snapshots == \A i \in DOMAIN snapshots : SnapshotGood(i, snapshots[i])

(* A published snapshot is good, and the others stay.                      *)
LEMMA SnapshotsGrow ==
    ASSUME TablesInv, Snapshots, NEW e, NEW s, Published(e, s)
    PROVE  Snapshots'
<1>1. RowsTyped /\ SetsFit
  BY DEF TablesInv
<1>2. PICK n : n = Len(events)
  OBVIOUS
<1>3. Extended(events, events', e) /\ Extended(snapshots, snapshots', s) /\ s.deduplicated <= s.reported
      /\ SnapshotSays(s, e.period, aliases', batches')
  BY DEF Published
<1>4. n \in Nat /\ Len(snapshots) = n /\ DOMAIN snapshots = 1..n
  BY <1>1, <1>2, TableTypes DEF SetsFit
<1>5. /\ DOMAIN events = 1..n /\ events'[n + 1] = e /\ \A i \in 1..n : events'[i] = events[i]
      /\ DOMAIN snapshots' = 1..(n + 1) /\ snapshots'[n + 1] = s
      /\ \A i \in 1..n : snapshots'[i] = snapshots[i]
  BY <1>2, <1>3, <1>4 DEF Extended
<1>6. ASSUME NEW i \in 1..n PROVE SnapshotGood(i, snapshots[i])'
  <2>1. PICK t, P : t = snapshots[i] /\ P = {j \in 1..i : snapshots[j].period = t.period}
    OBVIOUS
  <2>2. /\ t.period = events[i].period /\ t.revision = Cardinality(P)
        /\ t.deduplicated = t.unique + t.unlinked /\ t.deduplicated <= t.reported
    BY <1>4, <2>1, Zenon DEF Snapshots, SnapshotGood
  <2>3. snapshots'[i] = t /\ events'[i] = events[i]
    BY <1>5, <2>1
  <2>4. {j \in 1..i : snapshots'[j].period = t.period} = P
    <3>1. \A j \in 1..i : snapshots'[j] = snapshots[j]
      BY <1>4, <1>5
    <3>2. QED
      BY <2>1, <3>1
  <2>5. QED
    BY <2>2, <2>3, <2>4, Zenon DEF SnapshotGood
<1>7. ASSUME NEW i, i = n + 1 PROVE SnapshotGood(i, snapshots[i])'
  <2>1. PICK p, Q, P : /\ p = e.period /\ Q = {j \in DOMAIN snapshots : snapshots[j].period = p}
                       /\ P = {j \in 1..i : snapshots'[j].period = p}
    OBVIOUS
  <2>2. s.period = p /\ s.revision = Cardinality(Q) + 1 /\ s.deduplicated = s.unique + s.unlinked
    BY <1>3, <2>1, Zenon DEF SnapshotSays
  <2>3. P = Q \cup {i} /\ i \notin Q /\ Q \in SUBSET (1..n)
    BY <1>4, <1>5, <1>7, <2>1, <2>2
  <2>4. IsFiniteSet(Q)
    <3>1. PICK I : I = 1..n
      OBVIOUS
    <3>2. IsFiniteSet(I) /\ Q \in SUBSET I
      BY <1>4, <2>3, <3>1, FS_Interval
    <3>3. QED
      BY <3>2, FS_Subset
  <2>5. Cardinality(P) = Cardinality(Q) + 1
    BY <2>3, <2>4, FS_AddElement
  <2>6. snapshots'[i] = s /\ events'[i] = e
    BY <1>5, <1>7
  <2>7. /\ s.period = e.period /\ s.revision = Cardinality(P)
        /\ P = {j \in 1..i : snapshots'[j].period = s.period}
    BY <2>1, <2>2, <2>5
  <2>8. QED
    BY <1>3, <2>2, <2>6, <2>7, Zenon DEF SnapshotGood
<1>8. \A i \in DOMAIN snapshots' : i \in 1..n \/ i = n + 1
  BY <1>4, <1>5
<1>9. QED
  BY <1>6, <1>7, <1>8, Zenon DEF Snapshots

-----------------------------------------------------------------------------
(* The reports.                                                            *)

(* A batch is of an event, its revisions were reported, and every event    *)
(* that is not of a link has its batch.                                    *)
BatchRail ==
    /\ \A b1, b2 \in batches : b1.id = b2.id => b1 = b2
    /\ EventsValid

(* The batches of a deployment's month.                                    *)
BatchesOf(d, p) == {b \in batches : b.deployment = d /\ b.period = p}

(* The row behind revision r of a month's reports.                         *)
SourceOf(m) ==
    /\ m.deployment \in Deployments /\ m.period \in Periods
    /\ SubmissionSourceValid(m)

(* A report's source stays.                                                *)
LEMMA SourceKept ==
    ASSUME RowsTyped,
           qmau' = qmau \/ (\E d \in Deployments, p \in Periods, n \in Counts :
                                qmau' = [qmau EXCEPT ![d][p] = Append(@, n)]),
           NEW m, SourceOf(m)
    PROVE  SourceOf(m)'
<1>1. /\ m.deployment \in Deployments /\ m.period \in Periods
      /\ m.revision \in DOMAIN qmau[m.deployment][m.period]
      /\ qmau[m.deployment][m.period][m.revision] = m.reported
  BY DEF SourceOf, SubmissionSourceValid
<1>2. qmau \in [Deployments -> [Periods -> Seq(Counts)]]
  BY Zenon DEF RowsTyped
<1>3. CASE qmau' = qmau
  BY <1>1, <1>3 DEF SourceOf, SubmissionSourceValid
<1>4. ASSUME NEW d \in Deployments, NEW p \in Periods, NEW n \in Counts,
             qmau' = [qmau EXCEPT ![d][p] = Append(@, n)]
      PROVE  SourceOf(m)'
  <2>1. PICK q, r, D, P : /\ q = qmau[m.deployment][m.period] /\ r = m.revision
                          /\ D = m.deployment /\ P = m.period
    OBVIOUS
  <2>2. q \in Seq(Counts) /\ r \in DOMAIN q /\ q[r] = m.reported
    BY <1>1, <1>2, <2>1
  <2>3. qmau'[D][P] = IF D = d /\ P = p THEN Append(q, n) ELSE q
    BY <1>1, <1>2, <1>4, <2>1
  <2>4. r \in DOMAIN Append(q, n) /\ Append(q, n)[r] = q[r]
    BY <2>2
  <2>5. r \in DOMAIN qmau'[D][P] /\ qmau'[D][P][r] = m.reported
    BY <2>2, <2>3, <2>4
  <2>6. QED
    BY <1>1, <2>1, <2>5 DEF SourceOf, SubmissionSourceValid
<1>5. QED
  BY <1>3, <1>4

(* A commitment that was active at an event was active then, ever after.   *)
LEMMA ActiveKept ==
    ASSUME NEW N \in Nat, \A j \in 1..N : events'[j] = events[j],
           NEW d, NEW v, NEW c, NEW p, NEW t \in 0..N
    PROVE  ActiveForPeriod(d, v, c, p, t)' <=> ActiveForPeriod(d, v, c, p, t)
<1>1. \A i \in 1..t : /\ events'[i] = events[i]
                      /\ \A j \in (i + 1)..t : events'[j] = events[j]
  OBVIOUS
<1>2. \A i \in 1..t : Superseded(i, p, t)' <=> Superseded(i, p, t)
  BY <1>1, Zenon DEF Superseded
<1>3. QED
  BY <1>1, <1>2, Zenon DEF ActiveForPeriod

(* A report's own event ends no link.                                      *)
LEMMA ActiveThroughReport ==
    ASSUME NEW e, Extended(events, events', e), NEW n, n = Len(events), e.action = "PRESENCE",
           NEW d, NEW v, NEW c, NEW p, ActiveForPeriod(d, v, c, p, n)
    PROVE  ActiveForPeriod(d, v, c, p, n + 1)'
<1>1. /\ n \in Nat /\ events'[n + 1] = e /\ \A j \in 1..n : events'[j] = events[j]
  BY DEF Extended
<1>2. PICK i \in 1..n : /\ events[i].action # "PRESENCE" /\ events[i].deployment = d
                        /\ events[i].status = "ACTIVE" /\ events[i].version = v
                        /\ events[i].commitment = c /\ events[i].from <= p
                        /\ events[i].period <= p /\ ~Superseded(i, p, n)
  BY Zenon DEF ActiveForPeriod
<1>3. events'[i] = events[i] /\ i \in 1..(n + 1)
  BY <1>1
<1>4. ~Superseded(i, p, n + 1)'
  <2>1. SUFFICES ASSUME NEW j \in (i + 1)..(n + 1), events'[j].link = events'[i].link,
                        events'[j].action \in {"CORRECT", "UNLINK"}, events'[j].period <= p
                 PROVE  FALSE
    BY Zenon DEF Superseded
  <2>2. j # n + 1
    BY <1>1, <2>1
  <2>3. j \in (i + 1)..n /\ events'[j] = events[j]
    BY <1>1, <2>2
  <2>4. QED
    BY <1>2, <1>3, <2>1, <2>3 DEF Superseded
<1>5. QED
  BY <1>2, <1>3, <1>4, Zenon DEF ActiveForPeriod

(* The batch a report supersedes is the newest of its month, if any.       *)
LEMMA NewestBatch ==
    ASSUME RowsTyped, BatchRail, NEW d \in Deployments, NEW p \in Periods
    PROVE  \/ CurrentBatch(d, p).id = 0 /\ BatchesOf(d, p) = {}
           \/ /\ CurrentBatch(d, p) \in BatchesOf(d, p) /\ CurrentBatch(d, p).id # 0
              /\ \A b \in BatchesOf(d, p) : b.revision <= CurrentBatch(d, p).revision
<1>1. \A b \in batches : b.id \in 1..Len(events) /\ b.revision \in Nat
  BY TableTypes DEF RowsTyped, BatchRows
<1>2. CASE BatchesOf(d, p) = {}
  <2>1. \A b \in CurrentBatches(p, batches) : b.deployment # d
    BY <1>2 DEF BatchesOf, CurrentBatches
  <2>2. CurrentBatch(d, p) = [id |-> 0, revision |-> 0]
    BY <2>1, CurrentBatchIs
  <2>3. QED
    BY <1>2, <2>2
<1>3. CASE BatchesOf(d, p) # {}
  <2>1. PICK R, N : R = {b.revision : b \in BatchesOf(d, p)} /\ N = Len(qmau[d][p])
    OBVIOUS
  <2>2. qmau[d][p] \in Seq(Counts) /\ N \in Nat /\ DOMAIN qmau[d][p] = 1..N
    <3>1. qmau \in [Deployments -> [Periods -> Seq(Counts)]]
      BY Zenon DEF RowsTyped
    <3>2. QED
      BY <2>1, <3>1
  <2>3. ASSUME NEW b \in BatchesOf(d, p) PROVE b.revision \in 1..N
    <3>1. BatchValid(b) /\ b.deployment = d /\ b.period = p
      BY DEF BatchRail, EventsValid, BatchesOf
    <3>2. b.revision \in DOMAIN qmau[d][p]
      BY <3>1, Zenon DEF BatchValid
    <3>3. QED
      BY <2>2, <3>2
  <2>4. R \in SUBSET (1..N) /\ R # {}
    BY <1>3, <2>1, <2>3
  <2>5. PICK r \in R : \A x \in R : x <= r
    BY <2>2, <2>4, LargestElement
  <2>6. PICK b \in BatchesOf(d, p) : b.revision = r
    BY <2>1, <2>5
  <2>7. \A x \in BatchesOf(d, p) : x.revision \in Nat /\ x.revision <= b.revision
    BY <1>1, <2>1, <2>5, <2>6 DEF BatchesOf
  <2>8. b \in CurrentBatches(p, batches) /\ b.deployment = d
    BY <2>6, <2>7 DEF CurrentBatches, BatchesOf
  <2>9. PICK c : c = CurrentBatch(d, p)
    OBVIOUS
  <2>10. c \in CurrentBatches(p, batches) /\ c.deployment = d
    BY <2>8, <2>9, CurrentBatchIs
  <2>11. c \in BatchesOf(d, p) /\ c.id # 0
    BY <1>1, <2>10 DEF BatchesOf, CurrentBatches
  <2>12. ASSUME NEW x \in BatchesOf(d, p) PROVE x.revision <= c.revision
    <3>1. x \in batches /\ x.deployment = c.deployment /\ x.period = p
      BY <2>10, <2>12 DEF BatchesOf
    <3>2. ~(x.revision > c.revision)
      BY <2>10, <3>1 DEF CurrentBatches
    <3>3. x.revision \in Nat /\ c.revision \in Nat
      BY <2>7, <2>11, <2>12
    <3>4. QED
      BY <3>2, <3>3
  <2>13. QED
    BY <2>9, <2>11, <2>12
<1>4. QED
  BY <1>2, <1>3

(* A batch stays valid while the older batches of its month do not change. *)
LEMMA BatchKept ==
    ASSUME RowsTyped, NEW N \in Nat, N = Len(events), \A j \in 1..N : events'[j] = events[j],
           NEW b \in batches, BatchValid(b), PriorBatches(b)' = PriorBatches(b), SourceOf(b)'
    PROVE  BatchValid(b)'
<1>1. b.id \in 1..N
  BY TableTypes DEF RowsTyped, BatchRows
<1>2. events'[b.id] = events[b.id] /\ b.id \in 0..N
  BY <1>1
<1>3. \A i : ActiveForPeriod(b.deployment, b.version, b.items[i], b.period, b.id)' <=>
             ActiveForPeriod(b.deployment, b.version, b.items[i], b.period, b.id)
  BY <1>2, ActiveKept
<1>4. /\ b.revision \in DOMAIN qmau'[b.deployment][b.period]
      /\ qmau'[b.deployment][b.period][b.revision] = b.reported
  BY DEF SourceOf, SubmissionSourceValid
<1>5. QED
  BY <1>2, <1>3, <1>4, Zenon DEF BatchValid, Sorted

(* The source of a batch, from its validity.                               *)
LEMMA BatchSource ==
    ASSUME RowsTyped, NEW b \in batches, BatchValid(b)
    PROVE  SourceOf(b)
<1>1. b.deployment \in Deployments /\ b.period \in Periods
  BY DEF RowsTyped, BatchRows
<1>2. SubmissionSourceValid(b)
  BY Zenon DEF BatchValid, SubmissionSourceValid
<1>3. QED
  BY <1>1, <1>2 DEF SourceOf

(* Steps that record no report keep the batches valid.                     *)
LEMMA BatchesKept ==
    ASSUME RowsTyped, BatchRail, batches' = batches,
           qmau' = qmau \/ (\E d \in Deployments, p \in Periods, n \in Counts :
                                qmau' = [qmau EXCEPT ![d][p] = Append(@, n)]),
           events' = events \/ (\E e : Extended(events, events', e) /\ e.action \in LinkActions)
    PROVE  BatchRail'
<1>1. PICK N : N = Len(events)
  OBVIOUS
<1>2. N \in Nat /\ DOMAIN events = 1..N
  BY <1>1, TableTypes
<1>3. \A j \in 1..N : events'[j] = events[j]
  BY <1>1, <1>2 DEF Extended
<1>4. ASSUME NEW b \in batches PROVE BatchValid(b)'
  <2>1. BatchValid(b)
    BY DEF BatchRail, EventsValid
  <2>2. SourceOf(b)
    BY <2>1, BatchSource
  <2>3. SourceOf(b)'
    BY <2>2, SourceKept
  <2>4. PriorBatches(b)' = PriorBatches(b)
    BY Zenon DEF PriorBatches
  <2>5. QED
    BY <1>1, <1>2, <1>3, <2>1, <2>3, <2>4, BatchKept
<1>5. DOMAIN events' \ LinkEvents' = DOMAIN events \ LinkEvents
  <2>1. CASE events' = events
    BY <2>1 DEF LinkEvents
  <2>2. ASSUME NEW e, Extended(events, events', e), e.action \in LinkActions
        PROVE  DOMAIN events' \ LinkEvents' = DOMAIN events \ LinkEvents
    <3>1. DOMAIN events' = 1..(N + 1) /\ events'[N + 1] = e
      BY <1>1, <2>2 DEF Extended
    <3>2. QED
      BY <1>2, <1>3, <2>2, <3>1 DEF LinkEvents
  <2>3. QED
    BY <2>1, <2>2
<1>6. EventsValid'
  BY <1>4, <1>5, Zenon DEF EventsValid, BatchRail
<1>7. QED
  BY <1>6, Zenon DEF BatchRail

(* A report's batch is the newest of its month, and valid.                 *)
LEMMA ReportKept ==
    ASSUME TablesInv, TablesInv', BatchRail, NEW s, NEW m, NEW list, NEW e, NEW b, NEW x,
           CompleteRecord(s, m, list, e, b, x)
    PROVE  BatchRail'
<1>1. RowsTyped /\ RowsTyped' /\ SetsFit'
  BY DEF TablesInv
<1>2. PICK n : n = Len(events)
  OBVIOUS
<1>3. /\ MayAccept(m, list) /\ CompleteSet(m, Collected(s, list)) /\ x = n + 1
      /\ e = PresenceEvent(m, x) /\ b = Batch(m, x) /\ Extended(events, events', e)
      /\ batches' = batches \cup {b} /\ qmau' = qmau /\ m \in ManifestRows
  BY <1>2, Zenon DEF CompleteRecord, ChunkFacts
<1>4. /\ n \in Nat /\ DOMAIN events = 1..n /\ DOMAIN events' = 1..(n + 1) /\ events'[n + 1] = e
      /\ \A j \in 1..n : events'[j] = events[j]
  BY <1>2, <1>3 DEF Extended
<1>5. /\ b.id = n + 1 /\ b.deployment = m.deployment /\ b.period = m.period
      /\ b.revision = m.revision /\ b.supersedes = m.supersedes /\ b.reported = m.reported
      /\ b.version = m.version /\ b.items = m.set
  BY <1>3 DEF Batch
<1>6. /\ e.action = "PRESENCE" /\ e.deployment = m.deployment /\ e.period = m.period
      /\ e.version = m.version
  BY <1>3, Zenon DEF PresenceEvent
<1>7. /\ m.deployment \in Deployments /\ m.period \in Periods /\ m.revision \in Nat \ {0}
  BY <1>3 DEF ManifestRows
<1>8. \A c \in batches : c.id \in 1..n /\ c.revision \in Nat
  BY <1>1, <1>4 DEF RowsTyped, BatchRows
<1>9. PICK C, cur : C = BatchesOf(m.deployment, m.period)
                    /\ cur = CurrentBatch(m.deployment, m.period)
  OBVIOUS
<1>10. /\ cur.id = 0 => C = {} /\ m.supersedes = 0
       /\ cur.id # 0 => /\ cur \in C /\ \A c \in C : c.revision <= cur.revision
                        /\ m.revision = cur.revision + 1 /\ m.supersedes = cur.id
  <2>1. VerifyPresenceRevision(m)
    BY <1>3 DEF MayAccept
  <2>2. IF cur.id = 0 THEN m.supersedes = 0
        ELSE m.revision = cur.revision + 1 /\ m.supersedes = cur.id
    BY <1>9, <2>1, Zenon DEF VerifyPresenceRevision
  <2>3. \/ cur.id = 0 /\ C = {}
        \/ /\ cur \in C /\ cur.id # 0
           /\ \A c \in C : c.revision <= cur.revision
    BY <1>1, <1>7, <1>9, NewestBatch
  <2>4. QED
    BY <2>2, <2>3
<1>11. \A c \in C : c \in batches /\ c.deployment = m.deployment /\ c.period = m.period
                    /\ c.revision \in Nat /\ c.revision < m.revision
  <2>1. \A c \in C : c \in batches /\ c.deployment = m.deployment /\ c.period = m.period
    BY <1>9 DEF BatchesOf
  <2>2. QED
    BY <1>7, <1>8, <1>10, <2>1
<1>12. ASSUME NEW c \in batches PROVE PriorBatches(c)' = PriorBatches(c)
  <2>1. b \notin PriorBatches(c)'
    <3>1. SUFFICES ASSUME b.deployment = c.deployment, b.period = c.period, b.revision < c.revision
                   PROVE  FALSE
      BY DEF PriorBatches
    <3>2. c \in C
      BY <1>5, <1>9, <3>1 DEF BatchesOf
    <3>3. c.revision \in Nat /\ c.revision < m.revision
      BY <1>11, <3>2
    <3>4. QED
      BY <1>5, <1>7, <3>1, <3>3
  <2>2. QED
    BY <1>3, <2>1 DEF PriorBatches
<1>13. ASSUME NEW c \in batches PROVE BatchValid(c)'
  <2>1. BatchValid(c)
    BY DEF BatchRail, EventsValid
  <2>2. SourceOf(c)'
    BY <1>1, <1>3, <2>1, BatchSource, SourceKept
  <2>3. QED
    BY <1>1, <1>2, <1>4, <1>12, <2>1, <2>2, BatchKept
<1>14. PriorBatches(b)' = C
  <2>1. \A c : c \in PriorBatches(b)' <=> /\ c \in batches' /\ c.deployment = b.deployment
                                          /\ c.period = b.period /\ c.revision < b.revision
    BY DEF PriorBatches
  <2>2. ~(b.revision < b.revision)
    BY <1>5, <1>7
  <2>3. \A c : c \in PriorBatches(b)' => c \in C
    BY <1>3, <1>5, <1>9, <2>1, <2>2 DEF BatchesOf
  <2>4. \A c : c \in C => c \in PriorBatches(b)'
    BY <1>3, <1>5, <1>11, <2>1
  <2>5. QED
    BY <2>3, <2>4
<1>15. IF C = {} THEN b.supersedes = 0
       ELSE \E c \in C : b.revision = c.revision + 1 /\ b.supersedes = c.id
  BY <1>5, <1>10
<1>16. \A i \in DOMAIN b.items :
            ActiveForPeriod(b.deployment, b.version, b.items[i], b.period, n + 1)'
  <2>1. AllActive(m, m.set)
    BY <1>3, Zenon DEF CompleteSet
  <2>2. \A i \in DOMAIN m.set : ActiveForPeriod(m.deployment, m.version, m.set[i], m.period, n)
    BY <1>2, <2>1 DEF AllActive
  <2>3. \A i \in DOMAIN m.set : ActiveForPeriod(m.deployment, m.version, m.set[i], m.period, n + 1)'
    BY <1>2, <1>3, <1>6, <2>2, ActiveThroughReport
  <2>4. QED
    BY <1>5, <2>3
<1>17. b.items \in Lists /\ Len(b.items) <= b.reported
  <2>1. b \in batches'
    BY <1>3
  <2>2. QED
    BY <1>1, <2>1 DEF RowsTyped, SetsFit, BatchRows
<1>18. SubmissionSourceValid(b)'
  <2>1. /\ m.revision <= Len(qmau[m.deployment][m.period])
        /\ qmau[m.deployment][m.period][m.revision] = m.reported
    BY <1>3 DEF MayAccept, VerifyQMAUSource
  <2>2. qmau[m.deployment][m.period] \in Seq(Counts)
    <3>1. qmau \in [Deployments -> [Periods -> Seq(Counts)]]
      BY <1>1, Zenon DEF RowsTyped
    <3>2. QED
      BY <1>7, <3>1
  <2>3. m.revision \in DOMAIN qmau[m.deployment][m.period]
    BY <1>7, <2>1, <2>2
  <2>4. QED
    BY <1>3, <1>5, <2>1, <2>3 DEF SubmissionSourceValid
<1>19. BatchValid(b)'
  <2>1. /\ <<e.action, e.deployment, e.period, e.version>> =
                <<"PRESENCE", b.deployment, b.period, b.version>>
        /\ events'[b.id] = e /\ Sorted(b.items)
    BY <1>4, <1>5, <1>6, <1>17, ListsAre
  <2>2. QED
    BY <1>5, <1>14, <1>15, <1>16, <1>17, <1>18, <2>1, Zenon
    DEF BatchValid, SubmissionSourceValid, Sorted
<1>20. {c.id : c \in batches'} = DOMAIN events' \ LinkEvents'
  <2>1. {c.id : c \in batches} = DOMAIN events \ LinkEvents
    BY DEF BatchRail, EventsValid
  <2>2. \A j : j \in DOMAIN events' \ LinkEvents' <=> j \in DOMAIN events \ LinkEvents \/ j = n + 1
    <3>1. n + 1 \notin LinkEvents'
      BY <1>4, <1>6 DEF LinkEvents, LinkActions
    <3>2. QED
      BY <1>4, <3>1 DEF LinkEvents
  <2>3. QED
    BY <1>3, <1>5, <2>1, <2>2
<1>21. \A b1, b2 \in batches' : b1.id = b2.id => b1 = b2
  <2>1. n + 1 \notin 1..n
    BY <1>4
  <2>2. \A c \in batches : c.id # b.id
    BY <1>5, <1>8, <2>1
  <2>3. QED
    BY <1>3, <2>2 DEF BatchRail
<1>22. \A c \in batches' : BatchValid(c)'
  BY <1>3, <1>13, <1>19
<1>23. QED
  BY <1>20, <1>21, <1>22, Zenon DEF BatchRail, EventsValid

(* A submission and what it has stored: its source was reported, it has as *)
(* many chunks as its manifest says exactly when it has its event, the     *)
(* chunks are then the set and the batch is stored, and the batch it is to *)
(* supersede has the revision before its own.                              *)
SubmissionGood(r) ==
    /\ SourceOf(r.manifest)
    /\ Len(r.chunks) \in 1..r.manifest.count
    /\ (r.event # 0) = (Len(r.chunks) = r.manifest.count)
    /\ r.event # 0 => /\ Joined(r.chunks) = r.manifest.set
                      /\ Batch(r.manifest, r.event) \in batches
    /\ r.manifest.supersedes # 0 =>
            \E b \in batches : /\ b.id = r.manifest.supersedes
                               /\ r.manifest.revision = b.revision + 1

SubmissionRail ==
    \A s \in DOMAIN submissions : \A r : r = submissions[s] => SubmissionGood(r)

(* A submission stays good.                                                *)
LEMMA SubmissionKept ==
    ASSUME RowsTyped, NEW r, SubmissionGood(r), batches \subseteq batches',
           qmau' = qmau \/ (\E d \in Deployments, p \in Periods, n \in Counts :
                                qmau' = [qmau EXCEPT ![d][p] = Append(@, n)])
    PROVE  SubmissionGood(r)'
<1>1. SourceOf(r.manifest)'
  <2>1. PICK m : m = r.manifest
    OBVIOUS
  <2>2. SourceOf(m)
    BY <2>1 DEF SubmissionGood
  <2>3. SourceOf(m)'
    BY <2>2, SourceKept
  <2>4. QED
    BY <2>1, <2>3
<1>2. r.event # 0 => /\ Joined(r.chunks) = r.manifest.set
                     /\ Batch(r.manifest, r.event) \in batches'
  BY DEF SubmissionGood
<1>3. r.manifest.supersedes # 0 =>
            \E b \in batches' : /\ b.id = r.manifest.supersedes
                                /\ r.manifest.revision = b.revision + 1
  BY DEF SubmissionGood
<1>4. QED
  BY <1>1, <1>2, <1>3, Zenon DEF SubmissionGood, Joined, JoinBuilt, Batch

(* What a chunk's acceptance says of its manifest.                         *)
LEMMA AcceptedSource ==
    ASSUME RowsTyped, BatchRail, NEW m \in ManifestRows, NEW list, MayAccept(m, list)
    PROVE  /\ SourceOf(m)
           /\ m.supersedes # 0 => \E b \in batches : /\ b.id = m.supersedes
                                                     /\ m.revision = b.revision + 1
<1>1. m.deployment \in Deployments /\ m.period \in Periods /\ m.revision \in Nat \ {0}
  BY DEF ManifestRows
<1>2. /\ m.revision <= Len(qmau[m.deployment][m.period])
      /\ qmau[m.deployment][m.period][m.revision] = m.reported
      /\ VerifyPresenceRevision(m)
  BY DEF MayAccept, VerifyQMAUSource
<1>3. SourceOf(m)
  <2>1. qmau[m.deployment][m.period] \in Seq(Counts)
    <3>1. qmau \in [Deployments -> [Periods -> Seq(Counts)]]
      BY Zenon DEF RowsTyped
    <3>2. QED
      BY <1>1, <3>1
  <2>2. m.revision \in DOMAIN qmau[m.deployment][m.period]
    BY <1>1, <1>2, <2>1
  <2>3. QED
    BY <1>1, <1>2, <2>2 DEF SourceOf, SubmissionSourceValid
<1>4. PICK cur : cur = CurrentBatch(m.deployment, m.period)
  OBVIOUS
<1>5. IF cur.id = 0 THEN m.supersedes = 0
      ELSE m.revision = cur.revision + 1 /\ m.supersedes = cur.id
  BY <1>2, <1>4, Zenon DEF VerifyPresenceRevision
<1>6. cur.id # 0 => cur \in batches
  BY <1>1, <1>4, NewestBatch DEF BatchesOf
<1>7. QED
  BY <1>3, <1>5, <1>6

(* The stored chunks are sequences of commitments.                         *)
LEMMA ChunkLists ==
    ASSUME NEW chunks \in Seq(Lists)
    PROVE  chunks \in Seq(Seq(Commitments)) /\ Len(chunks) \in Nat
<1>1. \A i \in 1..Len(chunks) : chunks[i] \in Lists
  <2> HIDE DEF Lists
  <2>1. QED
    OBVIOUS
<1>2. \A i \in 1..Len(chunks) : chunks[i] \in Seq(Commitments)
  BY <1>1, ListsAre
<1>3. QED
  BY <1>2, Retyped, LenProperties

(* The chunks with one more.                                               *)
LEMMA OneMoreChunk ==
    ASSUME NEW s, ChunksOf(s) \in Seq(Lists), NEW list \in Lists, NEW all, all = Append(ChunksOf(s), list)
    PROVE  /\ Len(all) = Len(ChunksOf(s)) + 1 /\ Len(ChunksOf(s)) \in Nat
           /\ Joined(all) = Collected(s, list)
<1>1. PICK chunks : chunks = ChunksOf(s)
  OBVIOUS
<1>2. chunks \in Seq(Seq(Commitments)) /\ Len(chunks) \in Nat
  BY <1>1, ChunkLists
<1>3. list \in Seq(Commitments)
  BY ListsAre
<1>4. Joined(Append(chunks, list)) = Joined(chunks) \o list
  BY <1>2, <1>3, JoinedAppend
<1>5. Len(Append(chunks, list)) = Len(chunks) + 1
  BY <1>2, <1>3
<1>6. QED
  BY <1>1, <1>2, <1>4, <1>5, CollectedIs

(* A staged chunk keeps the submissions good.                              *)
LEMMA StageGood ==
    ASSUME RowsTyped, BatchRail, SubmissionRail, NEW s, NEW m, NEW list, StageRecord(s, m, list)
    PROVE  SubmissionRail'
<1>1. PICK all, r : /\ all = Append(ChunksOf(s), list)
                    /\ r = [manifest |-> m, event |-> 0, chunks |-> all]
  OBVIOUS
<1>2. /\ m \in ManifestRows /\ list \in Lists /\ MayAccept(m, list)
      /\ Len(ChunksOf(s)) + 1 < m.count /\ ChunksOf(s) \in Seq(Lists) /\ Stored(s, r)
      /\ qmau' = qmau /\ batches' = batches
  BY <1>1, Zenon DEF StageRecord, ChunkFacts
<1>3. Len(all) = Len(ChunksOf(s)) + 1 /\ Len(ChunksOf(s)) \in Nat
  BY <1>1, <1>2, OneMoreChunk
<1>4. m.count \in Nat
  BY <1>2, IdentityAssumption DEF ManifestRows
<1>5. r.manifest = m /\ r.event = 0 /\ r.chunks = all
  BY <1>1
<1>6. SubmissionGood(r)
  <2>1. SourceOf(m) /\ (m.supersedes # 0 => \E b \in batches : /\ b.id = m.supersedes
                                                               /\ m.revision = b.revision + 1)
    BY <1>2, AcceptedSource
  <2>2. Len(all) \in 1..m.count /\ Len(all) # m.count
    BY <1>2, <1>3, <1>4
  <2>3. QED
    BY <1>5, <2>1, <2>2 DEF SubmissionGood
<1>7. ASSUME NEW x \in DOMAIN submissions', NEW t, t = submissions'[x] PROVE SubmissionGood(t)'
  <2>1. SubmissionGood(t)
    BY <1>2, <1>6, <1>7 DEF Stored, SubmissionRail
  <2>2. QED
    BY <1>2, <2>1, SubmissionKept
<1>8. QED
  BY <1>7 DEF SubmissionRail

(* The last chunk keeps the submissions good.                              *)
LEMMA CompleteGood ==
    ASSUME RowsTyped, BatchRail, SubmissionRail, NEW s, NEW m, NEW list, NEW e, NEW b, NEW n,
           CompleteRecord(s, m, list, e, b, n)
    PROVE  SubmissionRail'
<1>1. PICK all, r : /\ all = Append(ChunksOf(s), list)
                    /\ r = [manifest |-> m, event |-> n, chunks |-> all]
  OBVIOUS
<1>2. /\ m \in ManifestRows /\ list \in Lists /\ MayAccept(m, list)
      /\ Len(ChunksOf(s)) + 1 = m.count /\ ChunksOf(s) \in Seq(Lists) /\ Stored(s, r)
      /\ qmau' = qmau /\ batches' = batches \cup {b} /\ b = Batch(m, n)
      /\ n = Len(events) + 1 /\ Collected(s, list) = m.set
  BY <1>1, Zenon DEF CompleteRecord, ChunkFacts, CompleteSet
<1>3. /\ Len(all) = Len(ChunksOf(s)) + 1 /\ Len(ChunksOf(s)) \in Nat
      /\ Joined(all) = m.set
  BY <1>1, <1>2, OneMoreChunk
<1>4. n # 0
  BY <1>2, TableTypes
<1>5. r.manifest = m /\ r.event = n /\ r.chunks = all
  BY <1>1
<1>6. SubmissionGood(r)'
  <2>1. SourceOf(m) /\ (m.supersedes # 0 => \E c \in batches : /\ c.id = m.supersedes
                                                               /\ m.revision = c.revision + 1)
    BY <1>2, AcceptedSource
  <2>2. SourceOf(m)'
    BY <1>2, <2>1, SourceKept
  <2>3. (m.supersedes # 0 => \E c \in batches' : /\ c.id = m.supersedes
                                                 /\ m.revision = c.revision + 1)
    BY <1>2, <2>1
  <2>4. Len(all) \in 1..m.count /\ Len(all) = m.count
    BY <1>2, <1>3
  <2>5. Batch(m, n) \in batches'
    BY <1>2
  <2>6. QED
    BY <1>3, <1>4, <1>5, <2>2, <2>3, <2>4, <2>5 DEF SubmissionGood
<1>7. ASSUME NEW x \in DOMAIN submissions', NEW t, t = submissions'[x] PROVE SubmissionGood(t)'
  <2>1. CASE x = s
    BY <1>2, <1>6, <1>7, <2>1 DEF Stored
  <2>2. CASE x # s
    <3>1. SubmissionGood(t)
      BY <1>2, <1>7, <2>2 DEF Stored, SubmissionRail
    <3>2. batches \subseteq batches'
      BY <1>2
    <3>3. QED
      BY <1>2, <3>1, <3>2, SubmissionKept
  <2>3. QED
    BY <2>1, <2>2
<1>8. QED
  BY <1>7 DEF SubmissionRail

(* Steps that store no chunk keep the submissions good.                    *)
LEMMA SubmissionsKept ==
    ASSUME RowsTyped, SubmissionRail, submissions' = submissions, batches' = batches,
           qmau' = qmau \/ (\E d \in Deployments, p \in Periods, n \in Counts :
                                qmau' = [qmau EXCEPT ![d][p] = Append(@, n)])
    PROVE  SubmissionRail'
<1>1. ASSUME NEW x \in DOMAIN submissions', NEW t, t = submissions'[x] PROVE SubmissionGood(t)'
  <2>1. SubmissionGood(t) /\ batches \subseteq batches'
    BY <1>1 DEF SubmissionRail
  <2>2. QED
    BY <2>1, SubmissionKept
<1>2. QED
  BY <1>1 DEF SubmissionRail

PresenceInv == Snapshots /\ BatchRail /\ SubmissionRail

(* The empty tables.                                                       *)
LEMMA PresenceInit == Init => PresenceInv
<1> SUFFICES ASSUME Init PROVE PresenceInv
  OBVIOUS
<1>1. events = <<>> /\ submissions = <<>> /\ batches = {} /\ snapshots = <<>>
  BY DEF Init
<1>2. DOMAIN events = {} /\ DOMAIN submissions = {} /\ DOMAIN snapshots = {} /\ LinkEvents = {}
  BY <1>1 DEF LinkEvents
<1>3. QED
  BY <1>1, <1>2 DEF PresenceInv, Snapshots, BatchRail, EventsValid, SubmissionRail

(* Every step keeps the reports in order.                                  *)
LEMMA PresenceInvStep ==
    ASSUME TablesInv, PresenceInv, [Next]_vars
    PROVE  PresenceInv'
<1>1. RowsTyped /\ Snapshots /\ BatchRail /\ SubmissionRail
  BY DEF TablesInv, PresenceInv
<1>2. TablesInv'
  BY TablesStep
<1>3. CASE LinkRecorded
  <2>1. PICK e, s : /\ Published(e, s) /\ e.action \in LinkActions
                    /\ qmau' = qmau /\ submissions' = submissions /\ batches' = batches
    BY <1>3 DEF LinkRecorded
  <2>2. Snapshots'
    BY <1>1, <2>1, SnapshotsGrow
  <2>3. Extended(events, events', e)
    BY <2>1 DEF Published
  <2>4. BatchRail'
    BY <1>1, <2>1, <2>3, BatchesKept
  <2>5. SubmissionRail'
    BY <1>1, <2>1, SubmissionsKept
  <2>6. QED
    BY <2>2, <2>4, <2>5 DEF PresenceInv
<1>4. CASE StageTaken
  <2>1. PICK s, m, list : StageRecord(s, m, list)
    BY <1>4 DEF StageTaken
  <2>2. events' = events /\ snapshots' = snapshots /\ batches' = batches /\ qmau' = qmau
    BY <2>1, Zenon DEF StageRecord
  <2>3. Snapshots'
    BY <1>1, <2>2, Zenon DEF Snapshots, SnapshotGood
  <2>4. BatchRail'
    BY <1>1, <2>2, BatchesKept
  <2>5. SubmissionRail'
    BY <1>1, <2>1, StageGood
  <2>6. QED
    BY <2>3, <2>4, <2>5 DEF PresenceInv
<1>5. ASSUME NEW s, NEW m, NEW list, NEW e, NEW b, NEW n, ReportRecorded(s, m, list, e, b, n)
      PROVE  PresenceInv'
  <2>1. CompleteRecord(s, m, list, e, b, n) /\ \E x : Published(e, x)
    BY <1>5 DEF ReportRecorded
  <2>2. Snapshots'
    BY <1>1, <2>1, SnapshotsGrow
  <2>3. BatchRail'
    BY <1>1, <1>2, <2>1, ReportKept
  <2>4. SubmissionRail'
    BY <1>1, <2>1, CompleteGood
  <2>5. QED
    BY <2>2, <2>3, <2>4 DEF PresenceInv
<1>6. CASE Quiet
  <2>1. /\ events' = events /\ snapshots' = snapshots /\ batches' = batches
        /\ submissions' = submissions
        /\ qmau' = qmau \/ (\E d \in Deployments, p \in Periods, n \in Counts :
                                qmau' = [qmau EXCEPT ![d][p] = Append(@, n)])
    BY <1>6, Zenon DEF Quiet
  <2>2. Snapshots'
    BY <1>1, <2>1, Zenon DEF Snapshots, SnapshotGood
  <2>3. BatchRail'
    BY <1>1, <2>1, BatchesKept
  <2>4. SubmissionRail'
    BY <1>1, <2>1, SubmissionsKept
  <2>5. QED
    BY <2>2, <2>3, <2>4 DEF PresenceInv
<1>7. QED
  BY <1>3, <1>4, <1>5, <1>6, PresenceKinds

AuditInv == TablesInv /\ TimesInv /\ LinkInv /\ PresenceInv

(* The tables, the link history and the reports stay in order.             *)
LEMMA AuditInvHolds == Spec => []AuditInv
<1>1. Init => AuditInv
  BY TablesInit, TimesInit, LinkInit, PresenceInit DEF AuditInv
<1>2. AuditInv /\ [Next]_vars => AuditInv'
  BY TablesStep, TimesStep, LinkHistoryStep, PresenceInvStep DEF AuditInv
<1>3. QED
  BY <1>1, <1>2, PTL DEF Spec

(* The chunks of a stored submission, and what they join to.               *)
LEMMA StoredChunks ==
    ASSUME RowsTyped, NEW s \in DOMAIN submissions, NEW r, r = submissions[s]
    PROVE  /\ r \in SubmissionRows /\ ChunksOf(s) = r.chunks /\ r.chunks \in Seq(Lists)
           /\ Joined(r.chunks) \in Seq(Commitments)
           /\ Collected(s, <<>>) = Joined(r.chunks)
           /\ \A list : Collected(s, list) = Joined(r.chunks) \o list
<1>1. r \in SubmissionRows
  BY TableTypes
<1>2. r.chunks \in Seq(Lists)
  BY <1>1 DEF SubmissionRows
<1>3. ChunksOf(s) = r.chunks
  BY DEF ChunksOf
<1>4. r.chunks \in Seq(Seq(Commitments))
  BY <1>2, ChunkLists
<1>5. Joined(r.chunks) \in Seq(Commitments)
  BY <1>4, JoinedBy
<1>6. \A list : Collected(s, list) = Joined(r.chunks) \o list
  BY <1>3, CollectedIs
<1>7. Joined(r.chunks) \o <<>> = Joined(r.chunks)
  BY <1>5, ConcatEmptySeq
<1>8. QED
  BY <1>1, <1>2, <1>3, <1>5, <1>6, <1>7

(* What VerifyGlobalIdentities reads of the event chain, the link history, *)
(* the snapshots and the counts of the submissions is in order at every    *)
(* point between two transactions, for every interleaving and however old  *)
(* a transaction's clock value is: the events are in the order of their    *)
(* times, the replay of the link history gives the current links, aliases  *)
(* and identities, every batch continues its month's revisions and has a   *)
(* link in force behind every item, and the snapshots and the submissions  *)
(* add up.                                                                 *)
THEOREM IdentityTablesAreAudited == Spec => []IdentityTablesAudited
<1>1. ASSUME AuditInv PROVE IdentityTablesAudited
  <2>1. RowsTyped /\ LinkInv /\ Snapshots /\ BatchRail /\ SubmissionRail
    BY <1>1 DEF AuditInv, TablesInv, PresenceInv
  <2>2. DirectRowsValid
    BY <2>1, DirectRowsHold
  <2>3. EventsValid
    BY <2>1 DEF BatchRail
  <2>4. SnapshotsValid
    BY <2>1, Zenon DEF Snapshots, SnapshotGood, SnapshotsValid
  <2>5. ASSUME NEW s \in DOMAIN submissions, NEW r, r = submissions[s]
        PROVE  /\ SubmissionSourceValid(r.manifest)
               /\ Len(r.chunks) \in 1..r.manifest.count
               /\ (r.event # 0) = (Len(r.chunks) = r.manifest.count)
               /\ r.event # 0 => /\ Collected(s, <<>>) = r.manifest.set
                                 /\ Batch(r.manifest, r.event) \in batches
    <3>1. SubmissionGood(r)
      BY <2>1, <2>5 DEF SubmissionRail
    <3>2. Collected(s, <<>>) = Joined(r.chunks)
      BY <2>1, <2>5, StoredChunks
    <3>3. QED
      BY <3>1, <3>2, Zenon DEF SubmissionGood, SourceOf
  <2>6. SubmissionsValid
    BY <2>5, Zenon DEF SubmissionsValid
  <2>7. EventTimesOrdered
    BY <1>1 DEF AuditInv, TimesInv
  <2>8. QED
    BY <2>2, <2>3, <2>4, <2>6, <2>7 DEF IdentityTablesAudited
<1>2. QED
  BY <1>1, AuditInvHolds, PTL

(* An upload that has begun can be finished: while the submission's links  *)
(* hold, the chunks so far begin the set it committed to and no newer      *)
(* batch replaced the one it supersedes, the store                         *)
(* (AcceptGlobalIdentityPresenceBatch) accepts the rest of the set,        *)
(* whatever rotations, corrections and other reports came between, from a  *)
(* request that reads the clock now.                                       *)
THEOREM StagedSubmissionsFinishHolds == Spec => []StagedSubmissionsFinish
<1>1. ASSUME AuditInv PROVE StagedSubmissionsFinish
  <2>1. RowsTyped /\ TimesInv /\ BatchRail /\ SubmissionRail
    BY <1>1 DEF AuditInv, TablesInv, PresenceInv
  <2>2. ASSUME NEW s \in DOMAIN submissions, NEW r, r = submissions[s], NEW m, m = r.manifest,
               NEW done, done = Collected(s, <<>>),
               NEW rest, rest = SubSeq(m.set, Len(done) + 1, Len(m.set)),
               r.event = 0, done \o rest = m.set, Len(rest) >= m.count - Len(r.chunks),
               AllActive(m, m.set), CurrentBatch(m.deployment, m.period).id = m.supersedes
        PROVE  /\ NotBeforeHead(clock)
               /\ SubmissionOpen(s, m)
               /\ MayAccept(m, rest)
               /\ CompleteSet(m, Collected(s, rest))
    <3>1. SubmissionGood(r)
      BY <2>1, <2>2 DEF SubmissionRail
    <3>2. /\ r \in SubmissionRows /\ r.chunks \in Seq(Lists) /\ done \in Seq(Commitments)
          /\ Collected(s, rest) = done \o rest
      BY <2>1, <2>2, StoredChunks, ZenonT(30)
    <3>3. m \in ManifestRows
      BY <2>2, <3>2 DEF SubmissionRows
    <3>4. /\ m.set \in Lists /\ m.count \in 1..MaxItems /\ m.deployment \in Deployments
          /\ m.period \in Periods /\ m.supersedes \in Ids
      BY <3>3 DEF ManifestRows
    <3>5. m.set \in Seq(Commitments) /\ Len(m.set) \in Nat /\ DOMAIN m.set = 1..Len(m.set)
      BY <3>4, ListsAre
    <3>6. Len(done) \in Nat /\ Len(r.chunks) \in Nat
      BY <3>2, LenProperties
    <3>7. /\ Len(r.chunks) \in 1..m.count /\ Len(r.chunks) # m.count
      BY <2>2, <3>1 DEF SubmissionGood
    <3>8. m.count - Len(r.chunks) >= 1
      BY <3>4, <3>6, <3>7
    <3>9. PICK k, z : k = Len(done) + 1 /\ z = Len(m.set)
      OBVIOUS
    <3>10. rest \in Seq(Commitments) /\ Len(rest) = (IF k <= z THEN z - k + 1 ELSE 0)
           /\ \A i \in 1..Len(rest) : rest[i] = m.set[k + i - 1]
      <4>1. PICK set : set = m.set
        OBVIOUS
      <4>2. k \in Int /\ z \in Int /\ k >= 1 /\ rest = SubSeq(set, k, z)
        BY <2>2, <3>5, <3>6, <3>9, <4>1
      <4>3. \A i \in k..z : set[i] \in Commitments
        BY <3>5, <3>9, <4>1, <4>2
      <4>4. /\ rest \in Seq(Commitments) /\ Len(rest) = (IF k <= z THEN z - k + 1 ELSE 0)
            /\ \A i \in 1..(z - k + 1) : rest[i] = set[k + i - 1]
        BY <4>2, <4>3, SubSeqProperties
      <4>5. Len(rest) \in Nat /\ \A i \in 1..Len(rest) : i \in 1..(z - k + 1)
        <5>1. PICK len : len = Len(rest)
          OBVIOUS
        <5>2. len = (IF k <= z THEN z - k + 1 ELSE 0)
          BY <4>4, <5>1
        <5>3. CASE k <= z
          BY <4>2, <5>1, <5>2, <5>3
        <5>4. CASE ~(k <= z)
          BY <4>2, <5>1, <5>2, <5>4
        <5>5. QED
          BY <5>3, <5>4
      <4>6. QED
        BY <4>1, <4>4, <4>5, Zenon
    <3>11. Len(rest) >= 1 /\ Len(rest) \in Nat
      BY <2>2, <3>8, <3>10, <3>5, <3>6, <3>9, <3>4, IdentityAssumption
    <3>12. k <= z /\ Len(rest) = z - k + 1 /\ Len(rest) <= z /\ z >= 1
      BY <3>5, <3>6, <3>9, <3>10, <3>11
    <3>13. ValidChunk(m, rest)
      <4>1. rest # <<>> /\ m.set # <<>>
        BY <3>9, <3>11, <3>12
      <4>2. QED
        BY <3>9, <3>12, <4>1 DEF ValidChunk
    <3>14. VerifyQMAUSource(m)
      <4>1. /\ m.revision \in DOMAIN qmau[m.deployment][m.period]
            /\ qmau[m.deployment][m.period][m.revision] = m.reported
        BY <2>2, <3>1 DEF SubmissionGood, SourceOf, SubmissionSourceValid
      <4>2. qmau[m.deployment][m.period] \in Seq(Counts)
        <5>1. qmau \in [Deployments -> [Periods -> Seq(Counts)]]
          BY <2>1, Zenon DEF RowsTyped
        <5>2. QED
          BY <3>4, <5>1
      <4>3. QED
        BY <4>1, <4>2 DEF VerifyQMAUSource
    <3>15. VerifyPresenceRevision(m)
      <4>1. PICK cur : cur = CurrentBatch(m.deployment, m.period)
        OBVIOUS
      <4>2. CASE cur.id = 0
        BY <2>2, <4>1, <4>2, Zenon DEF VerifyPresenceRevision
      <4>3. CASE cur.id # 0
        <5>1. cur \in batches
          BY <2>1, <3>4, <4>1, <4>3, NewestBatch DEF BatchesOf
        <5>2. PICK b \in batches : b.id = m.supersedes /\ m.revision = b.revision + 1
          BY <2>2, <3>1, <4>1, <4>3 DEF SubmissionGood
        <5>3. b = cur
          BY <2>1, <2>2, <4>1, <5>1, <5>2 DEF BatchRail
        <5>4. m.revision = cur.revision + 1 /\ m.supersedes = cur.id
          BY <5>2, <5>3
        <5>5. QED
          BY <4>1, <4>3, <5>4, Zenon DEF VerifyPresenceRevision
      <4>4. QED
        BY <4>2, <4>3
    <3>16. AllActive(m, rest)
      <4>1. ASSUME NEW i \in DOMAIN rest
            PROVE  k + i - 1 \in DOMAIN m.set /\ rest[i] = m.set[k + i - 1]
        <5>1. PICK len : len = Len(rest)
          OBVIOUS
        <5>2. len \in Nat /\ i \in 1..len
          BY <3>10, <4>1, <5>1, LenProperties
        <5>3. k \in Nat /\ k >= 1 /\ z \in Nat
          BY <3>5, <3>6, <3>9
        <5>4. len = (IF k <= z THEN z - k + 1 ELSE 0)
          BY <3>10, <5>1
        <5>5. k + i - 1 \in 1..z
          BY <5>2, <5>3, <5>4
        <5>6. rest[i] = m.set[k + i - 1]
          BY <3>10, <5>1, <5>2
        <5>7. QED
          BY <3>5, <3>9, <5>5, <5>6
      <4>2. \A j \in DOMAIN m.set :
                ActiveForPeriod(m.deployment, m.version, m.set[j], m.period, Len(events))
        BY <2>2, Zenon DEF AllActive
      <4>3. ASSUME NEW i \in DOMAIN rest
            PROVE  ActiveForPeriod(m.deployment, m.version, rest[i], m.period, Len(events))
        <5>1. PICK j : j = k + i - 1
          OBVIOUS
        <5>2. j \in DOMAIN m.set /\ rest[i] = m.set[j]
          BY <4>1, <4>3, <5>1
        <5>3. QED
          BY <4>2, <5>2
      <4>4. QED
        BY <4>3 DEF AllActive
    <3>17. SubmissionOpen(s, m)
      BY <2>2, Zenon DEF SubmissionOpen
    <3>18. MayAccept(m, rest)
      BY <3>13, <3>14, <3>15, <3>16 DEF MayAccept
    <3>19. CompleteSet(m, Collected(s, rest))
      BY <2>2, <3>2, Zenon DEF CompleteSet
    <3>20. NotBeforeHead(clock)
      <4>1. CASE events # <<>>
        <5>1. Len(events) \in DOMAIN events /\ clock \in Nat
          <6> HIDE DEF EventRows
          <6>1. events \in Seq(EventRows) /\ clock \in Times
            BY <2>1 DEF RowsTyped, TimesInv, TimesTyped
          <6>2. Len(events) \in 1..Len(events) /\ DOMAIN events = 1..Len(events)
            BY <4>1, <6>1
          <6>3. QED
            BY <6>1, <6>2, IdentityAssumption DEF Times
        <5>2. times[Len(events)] \in 1..clock
          BY <2>1, <5>1 DEF TimesInv, TimesTyped
        <5>3. QED
          BY <5>1, <5>2 DEF NotBeforeHead
      <4>2. QED
        BY <4>1 DEF NotBeforeHead
    <3>21. QED
      BY <3>17, <3>18, <3>19, <3>20
  <2>3. QED
    BY <2>2, Zenon DEF StagedSubmissionsFinish
<1>2. QED
  BY <1>1, AuditInvHolds, PTL

-----------------------------------------------------------------------------
(* A person is counted once.                                               *)

(* The people in the batches B, by the corrections up to event n.          *)
People(B, n) ==
    UNION {{Person(<<b.version, b.items[x]>>, n) : x \in DOMAIN b.items} : b \in B}

(* Everything batches B name has an identity.                              *)
Named(B, al) ==
    \A b \in B : \A x \in DOMAIN b.items :
        /\ <<b.version, b.items[x]>> \in AliasKeys
        /\ al[<<b.version, b.items[x]>>] # 0

(* By a sound alias map there are as many identities as people.            *)
LEMMA PeopleCounted ==
    ASSUME NEW n, NEW al, Sound(al, n), NEW B, Named(B, al), IsFiniteSet(Identities(B, al))
    PROVE  Cardinality(People(B, n)) = Cardinality(Identities(B, al))
<1>1. PICK I, P : I = Identities(B, al) /\ P = People(B, n)
  OBVIOUS
<1> DEFINE f == [g \in I |-> {k \in AliasKeys : al[k] = g}]
<1>2. ASSUME NEW key \in AliasKeys, al[key] # 0
      PROVE  Person(key, n) = {k \in AliasKeys : al[k] = al[key]}
  <2>1. \A k \in AliasKeys : (al[key] = al[k]) <=> (k \in Person(key, n))
    BY <1>2, PersonIs
  <2>2. \A k \in Person(key, n) : k \in AliasKeys
    BY PersonUnfolds
  <2>3. QED
    BY <2>1, <2>2
<1>3. ASSUME NEW g \in I
      PROVE  \E key \in AliasKeys : al[key] = g /\ Person(key, n) \in P /\ Person(key, n) = f[g]
  <2>1. PICK b \in B : g \in {al[<<b.version, b.items[x]>>] : x \in DOMAIN b.items}
    BY <1>1, <1>3, Zenon DEF Identities
  <2>2. PICK x \in DOMAIN b.items : g = al[<<b.version, b.items[x]>>]
    BY <2>1
  <2>3. PICK key : key = <<b.version, b.items[x]>>
    OBVIOUS
  <2>4. key \in AliasKeys /\ al[key] # 0 /\ al[key] = g
    BY <2>2, <2>3 DEF Named
  <2>5. Person(key, n) \in {Person(<<b.version, b.items[y]>>, n) : y \in DOMAIN b.items}
    BY <2>3
  <2>6. Person(key, n) \in P
    BY <1>1, <2>5, Zenon DEF People
  <2>7. Person(key, n) = f[g]
    BY <1>2, <1>3, <2>4
  <2>8. QED
    BY <2>4, <2>6, <2>7, Zenon
<1>4. ASSUME NEW p \in P PROVE \E g \in I : f[g] = p
  <2>1. PICK b \in B : p \in {Person(<<b.version, b.items[x]>>, n) : x \in DOMAIN b.items}
    BY <1>1, <1>4, Zenon DEF People
  <2>2. PICK x \in DOMAIN b.items : p = Person(<<b.version, b.items[x]>>, n)
    BY <2>1
  <2>3. PICK key : key = <<b.version, b.items[x]>>
    OBVIOUS
  <2>4. key \in AliasKeys /\ al[key] # 0
    BY <2>3 DEF Named
  <2>5. al[key] \in {al[<<b.version, b.items[y]>>] : y \in DOMAIN b.items}
    BY <2>3
  <2>6. al[key] \in I
    BY <1>1, <2>5, Zenon DEF Identities
  <2>7. f[al[key]] = p
    BY <1>2, <2>2, <2>3, <2>4, <2>6
  <2>8. QED
    BY <2>6, <2>7, Zenon
<1>5. ASSUME NEW g \in I, NEW h \in I, f[g] = f[h] PROVE g = h
  <2>1. PICK key \in AliasKeys : al[key] = g
    BY <1>3, Zenon
  <2>2. key \in f[g]
    BY <2>1
  <2>3. key \in f[h]
    BY <1>5, <2>2
  <2>4. QED
    BY <2>1, <2>3
<1>6. f \in [I -> P]
  <2>1. \A g \in I : f[g] \in P
    <3> HIDE DEF f
    <3>1. QED
      BY <1>3, Zenon
  <2>2. QED
    BY <2>1
<1>7. f \in Bijection(I, P)
  <2>1. DOMAIN f = I
    OBVIOUS
  <2> HIDE DEF f
  <2>2. f \in Injection(I, P)
    BY <1>5, <1>6, <2>1, Zenon DEF Injection, IsInjective
  <2>3. f \in Surjection(I, P)
    BY <1>4, <1>6, Zenon DEF Surjection
  <2>4. QED
    BY <2>2, <2>3 DEF Bijection
<1>8. ExistsBijection(I, P)
  BY <1>7 DEF ExistsBijection
<1>9. QED
  BY <1>1, <1>8, FS_Bijection

(* Everything the batches name has an identity.                            *)
LEMMA BatchesNamed ==
    ASSUME RowsTyped, LinkInv, BatchRail, NEW B \in SUBSET batches
    PROVE  Named(B, aliases)
<1>1. PICK n : n = Len(events)
  OBVIOUS
<1>2. Sound(aliases, n) /\ n \in Nat
  BY <1>1, AliasesSound
<1>3. ASSUME NEW b \in B, NEW x \in DOMAIN b.items
      PROVE  /\ <<b.version, b.items[x]>> \in AliasKeys
             /\ aliases[<<b.version, b.items[x]>>] # 0
  <2>1. BatchValid(b) /\ b.id \in 1..n
    <3>1. b \in batches
      OBVIOUS
    <3>2. QED
      BY <1>1, <3>1, TableTypes DEF BatchRail, EventsValid, RowsTyped, BatchRows
  <2>2. ActiveForPeriod(b.deployment, b.version, b.items[x], b.period, b.id)
    BY <1>3, <2>1, Zenon DEF BatchValid
  <2>3. PICK i \in 1..b.id : /\ events[i].action # "PRESENCE" /\ events[i].version = b.version
                             /\ events[i].commitment = b.items[x]
    BY <2>2, Zenon DEF ActiveForPeriod
  <2>4. i \in DOMAIN events /\ i <= n
    BY <1>1, <1>2, <2>1, TableTypes
  <2>5. events[i].action \in {"LINK", "UNLINK", "CORRECT", "PRESENCE"}
    <3>1. events[i] \in EventRows
      BY <2>4, TableTypes
    <3>2. QED
      BY <3>1, Zenon DEF EventRows
  <2>6. i \in LinkEvents
    BY <2>3, <2>4, <2>5 DEF LinkEvents, LinkActions
  <2>7. KeyOf(events[i]) = <<b.version, b.items[x]>>
    BY <2>3 DEF KeyOf
  <2>8. QED
    BY <1>2, <2>4, <2>6, <2>7 DEF Sound
<1>4. QED
  BY <1>3, Zenon DEF Named

(* The newest batches of a month name as many people as identities.        *)
CountedNow ==
    \A p : Cardinality(People(CurrentBatches(p, batches), Len(events)))
             = UniqueLinked(CurrentBatches(p, batches), aliases)

(* Now.                                                                    *)
LEMMA CountedHere == AuditInv => CountedNow
<1> SUFFICES ASSUME AuditInv, NEW p
             PROVE  Cardinality(People(CurrentBatches(p, batches), Len(events)))
                      = UniqueLinked(CurrentBatches(p, batches), aliases)
  BY DEF CountedNow
<1>1. RowsTyped /\ SetsFit /\ LinkInv /\ BatchRail
  BY DEF AuditInv, TablesInv, PresenceInv
<1>2. PICK n, B : n = Len(events) /\ B = CurrentBatches(p, batches)
  OBVIOUS
<1>3. Sound(aliases, n) /\ aliases \in [AliasKeys -> 0..n] /\ n \in Nat
  BY <1>1, <1>2, AliasesSound
<1>4. B \in SUBSET batches
  BY <1>2 DEF CurrentBatches
<1>5. Named(B, aliases)
  BY <1>1, <1>4, BatchesNamed
<1>6. BatchFacts(B)
  BY <1>1, <1>2, TableBatches, CurrentFacts
<1>7. IsFiniteSet(Identities(B, aliases)) /\ UniqueLinked(B, aliases) = Cardinality(Identities(B, aliases))
  BY <1>3, <1>6, IdentitiesFinite
<1>8. QED
  BY <1>2, <1>3, <1>5, <1>7, PeopleCounted

(* And in the next state.                                                  *)
LEMMA CountedNext == AuditInv' => CountedNow'
BY CountedHere, PTL

(* What a person is, in every state.                                       *)
PersonsAre ==
    \A key, n, k : k \in Person(key, n) <=>
        /\ k \in AliasKeys
        /\ \A S \in SUBSET AliasKeys : key \in S /\ Closed(S, n) => k \in S

(* Now.                                                                    *)
LEMMA PersonsHere == PersonsAre
BY PersonUnfolds DEF PersonsAre

(* And in the next state.                                                  *)
LEMMA PersonsNext == PersonsAre'
BY PersonsHere, PTL

(* Who was one person at an earlier event is so ever after.                *)
LEMMA PersonsKept ==
    ASSUME LinkInv, NEW e, Extended(events, events', e), NEW i \in 0..Len(events)
    PROVE  \A key : Person(key, i)' = Person(key, i)
<1>1. PICK al : Sound(al, i)
  BY DEF LinkInv, History
<1>2. /\ Corrections(i)' = Corrections(i)
      /\ \A j \in Corrections(i) : EventKept(j)
  BY CorrectionsKept
<1>3. \A j \in Corrections(i) : Correction(j)' = Correction(j)
  BY <1>1, <1>2 DEF Sound, EventKept
<1>4. \A S : Closed(S, i)' <=> Closed(S, i)
  BY <1>2, <1>3 DEF Closed
<1>5. \A key, k : k \in Person(key, i)' <=>
        /\ k \in AliasKeys
        /\ \A S \in SUBSET AliasKeys : key \in S /\ Closed(S, i)' => k \in S
  BY PersonsNext, Zenon DEF PersonsAre
<1>6. \A key, k : k \in Person(key, i)' <=> k \in Person(key, i)
  BY <1>4, <1>5, PersonsHere, Zenon DEF PersonsAre
<1>7. ASSUME NEW key PROVE Person(key, i)' = Person(key, i)
  <2>1. PICK new : new = Person(key, i)'
    OBVIOUS
  <2>2. PICK old : old = Person(key, i)
    OBVIOUS
  <2>3. \A k : k \in new <=> k \in old
    BY <1>6, <2>1, <2>2
  <2>4. new = old
    BY <2>3
  <2>5. QED
    BY <2>1, <2>2, <2>4
<1>8. QED
  BY <1>7

(* Who the people of batches are, in every state.                          *)
PeopleAre ==
    \A B, n, x : x \in People(B, n) <=>
        \E b \in B : \E y \in DOMAIN b.items : x = Person(<<b.version, b.items[y]>>, n)

(* Now.                                                                    *)
LEMMA PeopleHere == PeopleAre
<1> SUFFICES ASSUME NEW B, NEW n, NEW x
             PROVE  x \in People(B, n) <=>
                      \E b \in B : \E y \in DOMAIN b.items : x = Person(<<b.version, b.items[y]>>, n)
  BY DEF PeopleAre
<1>1. QED
  BY DEF People

(* And in the next state.                                                  *)
LEMMA PeopleNext == PeopleAre'
BY PeopleHere, PTL

(* Batches keep their people when persons stay who they are.               *)
LEMMA PeopleKept ==
    ASSUME NEW i, \A key : Person(key, i)' = Person(key, i), NEW B
    PROVE  People(B, i)' = People(B, i)
<1>1. PICK new : new = People(B, i)'
  OBVIOUS
<1>2. PICK old : old = People(B, i)
  OBVIOUS
<1>3. ASSUME NEW x \in new PROVE x \in old
  <2>1. x \in People(B, i)'
    BY <1>1, <1>3
  <2>2. PICK b \in B : \E y \in DOMAIN b.items : x = Person(<<b.version, b.items[y]>>, i)'
    BY <2>1, PeopleNext DEF PeopleAre
  <2>3. PICK y \in DOMAIN b.items : x = Person(<<b.version, b.items[y]>>, i)'
    BY <2>2
  <2>4. x = Person(<<b.version, b.items[y]>>, i)
    BY <2>3
  <2>5. QED
    BY <1>2, <2>4, PeopleHere DEF PeopleAre
<1>4. ASSUME NEW x \in old PROVE x \in new
  <2>1. x \in People(B, i)
    BY <1>2, <1>4
  <2>2. PICK b \in B : \E y \in DOMAIN b.items : x = Person(<<b.version, b.items[y]>>, i)
    BY <2>1, PeopleHere DEF PeopleAre
  <2>3. PICK y \in DOMAIN b.items : x = Person(<<b.version, b.items[y]>>, i)
    BY <2>2
  <2>4. x = Person(<<b.version, b.items[y]>>, i)'
    BY <2>3
  <2>5. x \in People(B, i)'
    BY <2>4, PeopleNext DEF PeopleAre
  <2>6. QED
    BY <1>1, <2>5
<1>5. \A x : x \in new <=> x \in old
  BY <1>3, <1>4
<1>6. new = old
  BY <1>5
<1>7. QED
  BY <1>1, <1>2, <1>6

(* The newest batches of month p up to event i.                            *)
NewestAt(i, p) == CurrentBatches(p, {b \in batches : b.id <= i})

(* SnapshotsAccurate for snapshot s of event i.                            *)
AccurateAt(i, s) ==
    s.deduplicated = Cardinality(People(NewestAt(i, s.period), i)) + Unlinked(NewestAt(i, s.period))

Accurate == \A i \in DOMAIN snapshots : \A s : s = snapshots[i] => AccurateAt(i, s)

(* That is the property.                                                   *)
LEMMA AccurateIs == Accurate <=> SnapshotsAccurate
<1>1. \A i, s : AccurateAt(i, s) <=>
        LET newest == CurrentBatches(s.period, {b \in batches : b.id <= i})
            people == UNION {{Person(<<b.version, b.items[x]>>, i) : x \in DOMAIN b.items} :
                                b \in newest}
        IN  s.deduplicated = Cardinality(people)
                               + Total(newest, LAMBDA b : b.reported - Len(b.items))
  BY Zenon DEF AccurateAt, People, NewestAt, Unlinked
<1>2. QED
  BY <1>1, Zenon DEF Accurate, SnapshotsAccurate

(* A count stays accurate while its batches and their people stay.         *)
LEMMA AccurateKept ==
    ASSUME NEW i, NEW t, AccurateAt(i, t), \A p : NewestAt(i, p)' = NewestAt(i, p),
           \A key : Person(key, i)' = Person(key, i)
    PROVE  AccurateAt(i, t)'
<1>1. PICK p : p = t.period
  OBVIOUS
<1>2. PICK B : B = NewestAt(i, p)
  OBVIOUS
<1>3. NewestAt(i, p)' = B
  BY <1>2
<1>4. PICK P : P = People(B, i)
  OBVIOUS
<1>5. People(B, i)' = P
  BY <1>4, PeopleKept
<1>6. t.deduplicated = Cardinality(P) + Unlinked(B)
  BY <1>1, <1>2, <1>4, Zenon DEF AccurateAt
<1>7. QED
  BY <1>1, <1>3, <1>5, <1>6, Zenon DEF AccurateAt

(* A published snapshot counts every person once, and the earlier ones     *)
(* keep counting as they did.                                              *)
LEMMA AccuracyGrows ==
    ASSUME AuditInv, AuditInv', Accurate, NEW e, NEW s, Published(e, s),
           batches \subseteq batches', \A b \in batches' : b \in batches \/ b.id = Len(events) + 1
    PROVE  Accurate'
<1>1. RowsTyped /\ SetsFit /\ LinkInv /\ RowsTyped'
  BY DEF AuditInv, TablesInv
<1>2. PICK n : n = Len(events)
  OBVIOUS
<1>3. /\ Extended(events, events', e) /\ Extended(snapshots, snapshots', s)
      /\ SnapshotSays(s, e.period, aliases', batches')
  BY DEF Published
<1>4. n \in Nat /\ Len(snapshots) = n /\ DOMAIN snapshots = 1..n
  BY <1>1, <1>2, TableTypes DEF SetsFit
<1>5. /\ DOMAIN snapshots' = 1..(n + 1) /\ snapshots'[n + 1] = s
      /\ \A i \in 1..n : snapshots'[i] = snapshots[i]
      /\ Len(events') = n + 1 /\ DOMAIN events' = 1..(n + 1)
  BY <1>2, <1>3, <1>4 DEF Extended
<1>6. ASSUME NEW i \in 1..n, NEW t, t = snapshots'[i] PROVE AccurateAt(i, t)'
  <2>1. AccurateAt(i, t)
    BY <1>4, <1>5, <1>6 DEF Accurate
  <2>2. {b \in batches' : b.id <= i} = {b \in batches : b.id <= i}
    <3>1. ~(n + 1 <= i)
      BY <1>4
    <3>2. \A b \in batches' : b.id <= i => b \in batches
      BY <1>2, <3>1
    <3>3. QED
      BY <3>2
  <2>3. \A p : NewestAt(i, p)' = NewestAt(i, p)
    BY <2>2, Zenon DEF NewestAt
  <2>4. \A key : Person(key, i)' = Person(key, i)
    <3>1. i \in 0..Len(events)
      BY <1>2, <1>4
    <3>2. QED
      BY <1>1, <1>3, <3>1, PersonsKept
  <2>5. QED
    BY <2>1, <2>3, <2>4, AccurateKept
<1>7. ASSUME NEW i, i = n + 1 PROVE AccurateAt(i, s)'
  <2>1. PICK p, B : p = e.period /\ B = CurrentBatches(p, batches')
    OBVIOUS
  <2>2. /\ s.period = p /\ s.unique = UniqueLinked(B, aliases') /\ s.unlinked = Unlinked(B)
        /\ s.deduplicated = s.unique + s.unlinked
    BY <1>3, <2>1, Zenon DEF SnapshotSays
  <2>3. {b \in batches' : b.id <= i} = batches'
    <3>1. \A b \in batches' : b.id \in 1..(n + 1)
      BY <1>1, <1>5 DEF RowsTyped, BatchRows
    <3>2. \A b \in batches' : b.id <= i
      BY <1>4, <1>7, <3>1
    <3>3. QED
      BY <3>2
  <2>4. NewestAt(i, p)' = B
    BY <2>1, <2>3, Zenon DEF NewestAt
  <2>5. Cardinality(People(B, i)') = UniqueLinked(B, aliases')
    <3>1. Cardinality(People(CurrentBatches(p, batches), Len(events))')
             = UniqueLinked(CurrentBatches(p, batches'), aliases')
      BY CountedNext DEF CountedNow, CurrentBatches, UniqueLinked
    <3>2. QED
      BY <1>5, <1>7, <2>1, <3>1 DEF People
  <2>6. QED
    BY <2>2, <2>4, <2>5, Zenon DEF AccurateAt
<1>8. \A i \in DOMAIN snapshots' : i \in 1..n \/ i = n + 1
  BY <1>4, <1>5
<1>9. ASSUME NEW i \in DOMAIN snapshots', NEW t, t = snapshots'[i] PROVE AccurateAt(i, t)'
  BY <1>5, <1>6, <1>7, <1>8, <1>9
<1>10. QED
  BY <1>9 DEF Accurate

(* Steps that record no event leave the counts as they are.                *)
LEMMA AccuracyUntouched ==
    ASSUME Accurate, events' = events, batches' = batches, snapshots' = snapshots
    PROVE  Accurate'
<1>1. LinkEvents' = LinkEvents
  BY DEF LinkEvents
<1>2. \A i : Earlier(i)' = Earlier(i)
  BY <1>1 DEF Earlier
<1>3. \A i : Previous(i)' = Previous(i)
  BY <1>2, Zenon DEF Previous, Max
<1>4. \A i : KeyOf(Previous(i))' = KeyOf(Previous(i)) /\ KeyOf(events[i])' = KeyOf(events[i])
  BY <1>3, Zenon DEF KeyOf
<1>5. \A i : Correction(i)' = Correction(i)
  BY <1>4, Zenon DEF Correction
<1>6. \A n : Corrections(n)' = Corrections(n)
  BY <1>1, Zenon DEF Corrections
<1>7. \A S, n : Closed(S, n)' <=> Closed(S, n)
  BY <1>5, <1>6, Zenon DEF Closed
<1>8. ASSUME NEW i, NEW key PROVE Person(key, i)' = Person(key, i)
  <2>1. PICK new : new = Person(key, i)'
    OBVIOUS
  <2>2. PICK old : old = Person(key, i)
    OBVIOUS
  <2>3. \A k : k \in new <=>
          /\ k \in AliasKeys
          /\ \A S \in SUBSET AliasKeys : key \in S /\ Closed(S, i)' => k \in S
    BY <2>1, PersonsNext, Zenon DEF PersonsAre
  <2>4. \A k : k \in new <=> k \in old
    BY <1>7, <2>2, <2>3, PersonsHere, Zenon DEF PersonsAre
  <2>5. new = old
    BY <2>4
  <2>6. QED
    BY <2>1, <2>2, <2>5
<1>9. \A i, p : NewestAt(i, p)' = NewestAt(i, p)
  BY Zenon DEF NewestAt
<1>10. ASSUME NEW i \in DOMAIN snapshots', NEW t, t = snapshots'[i] PROVE AccurateAt(i, t)'
  <2>1. AccurateAt(i, t)
    BY <1>10 DEF Accurate
  <2>2. QED
    BY <1>8, <1>9, <2>1, AccurateKept
<1>11. QED
  BY <1>10 DEF Accurate

(* Every step keeps the counts accurate.                                   *)
LEMMA AccuracyStep ==
    ASSUME AuditInv, AuditInv', Accurate, [Next]_vars
    PROVE  Accurate'
<1>1. TablesInv
  BY DEF AuditInv
<1>2. CASE LinkRecorded
  <2>1. PICK e, s : Published(e, s) /\ batches' = batches
    BY <1>2, Zenon DEF LinkRecorded
  <2>2. QED
    BY <2>1, AccuracyGrows
<1>3. CASE StageTaken
  <2>1. events' = events /\ batches' = batches /\ snapshots' = snapshots
    BY <1>3, Zenon DEF StageTaken, StageRecord
  <2>2. QED
    BY <2>1, AccuracyUntouched
<1>4. ASSUME NEW s, NEW m, NEW list, NEW e, NEW b, NEW n, ReportRecorded(s, m, list, e, b, n)
      PROVE  Accurate'
  <2>1. PICK x : Published(e, x)
    BY <1>4, Zenon DEF ReportRecorded
  <2>2. batches' = batches \cup {b} /\ b = Batch(m, n) /\ n = Len(events) + 1
    BY <1>4, Zenon DEF ReportRecorded, CompleteRecord
  <2>3. b.id = Len(events) + 1
    BY <2>2 DEF Batch
  <2>4. batches \subseteq batches' /\ \A c \in batches' : c \in batches \/ c.id = Len(events) + 1
    BY <2>2, <2>3
  <2>5. QED
    BY <2>1, <2>4, AccuracyGrows
<1>5. CASE Quiet
  <2>1. events' = events /\ batches' = batches /\ snapshots' = snapshots
    BY <1>5, Zenon DEF Quiet
  <2>2. QED
    BY <2>1, AccuracyUntouched
<1>6. QED
  BY <1>1, <1>2, <1>3, <1>4, <1>5, PresenceKinds

(* A month's published count of linked people counts a person once however *)
(* many deployments report them and however their identities were merged:  *)
(* as of each event it is the number of classes of commitments under the   *)
(* corrections up to it, plus the users the newest reports do not link.    *)
THEOREM SnapshotsAccurateHolds == Spec => []SnapshotsAccurate
<1>1. Init => Accurate
  <2>1. Init => snapshots = <<>>
    BY DEF Init
  <2>2. QED
    BY <2>1 DEF Accurate
<1>2. AuditInv /\ AuditInv' /\ Accurate /\ [Next]_vars => Accurate'
  BY AccuracyStep
<1>3. Accurate => SnapshotsAccurate
  BY AccurateIs
<1>4. QED
  BY <1>1, <1>2, <1>3, AuditInvHolds, PTL DEF Spec
=============================================================================
