----------------------------- MODULE Sums_proofs ----------------------------
(***************************************************************************)
(* What the proofs need of smallest and largest elements and of sums over  *)
(* finite sets.  The installed provers cannot use the library's induction  *)
(* theorems, so every induction here looks at a smallest counterexample.   *)
(***************************************************************************)
EXTENDS Integers, FiniteSets, Functions, TLAPS, FiniteSetTheorems,
        NaturalsInduction, WellFoundedInduction

-----------------------------------------------------------------------------
(* Smallest and largest elements.                                          *)

(* The order of the natural numbers as a well-founded relation.            *)
LEMMA NatOrder ==
    \E R : /\ IsWellFoundedOn(R, Nat)
           /\ \A x, y \in Nat : x < y => <<x, y>> \in R
<1>1. \A x, y \in Nat : x < y => <<x, y>> \in OpToRel(<, Nat)
  BY DEF OpToRel
<1>2. QED
  BY <1>1, NatLessThanWellFounded, Zenon

(* Every non-empty set of natural numbers has a smallest element.          *)
LEMMA SmallestElement ==
    ASSUME NEW T \in SUBSET Nat, T # {}
    PROVE  \E m \in T : \A y \in T : m <= y
<1>1. PICK R : /\ IsWellFoundedOn(R, Nat)
               /\ \A x, y \in Nat : x < y => <<x, y>> \in R
  BY NatOrder, Zenon
<1>2. T \subseteq Nat
  OBVIOUS
<1>3. PICK m \in T : \A y \in T : ~(<<y, m>> \in R)
  <2>1. IsWellFoundedOn(R, Nat)
    BY <1>1, Zenon
  <2>2. QED
    BY <2>1, <1>2, WFMin, Zenon
<1>4. m \in Nat /\ \A y \in T : y \in Nat /\ ~(y < m)
  BY <1>1, <1>2, <1>3, Zenon
<1>5. \A y \in T : m <= y
  BY <1>4
<1>6. QED
  BY <1>3, <1>5, Zenon

(* A non-empty set of table indexes has a largest element.                 *)
LEMMA LargestElement ==
    ASSUME NEW n \in Nat, NEW S \in SUBSET (1..n), S # {}
    PROVE  \E k \in S : \A i \in S : i <= k
<1>1. \A i \in S : n - i \in Nat /\ i \in Int
  OBVIOUS
<1>2. {n - i : i \in S} \in SUBSET Nat /\ {n - i : i \in S} # {}
  BY <1>1
<1>3. PICK m \in {n - i : i \in S} : \A y \in {n - i : i \in S} : m <= y
  BY <1>2, SmallestElement
<1>4. PICK k \in S : m = n - k
  BY <1>3
<1>5. \A i \in S : n - k <= n - i
  BY <1>3, <1>4
<1>6. QED
  BY <1>1, <1>4, <1>5

-----------------------------------------------------------------------------
(* Sums over finite sets.                                                  *)

(* The partial sums of f that SumFunction folds over the subsets of S.     *)
Chosen(s) == CHOOSE x \in s : TRUE

PartialSums(it, f, S) ==
    it = [s \in SUBSET S |-> IF s = {} THEN 0 ELSE f[Chosen(s)] + it[s \ {Chosen(s)}]]

(* SumFunction is the whole of them.                                       *)
LEMMA SumIs ==
    ASSUME NEW f
    PROVE  SumFunction(f) = (CHOOSE it : PartialSums(it, f, DOMAIN f))[DOMAIN f]
BY DEF SumFunction, SumFunctionOnSet, FoldFunctionOnSet, MapThenFoldSet, PartialSums, Chosen

(* The sums of the subsets with at most n elements.                        *)
Level(S, n) == {s \in SUBSET S : Cardinality(s) <= n}

SumOf(it, f, s) == IF s = {} THEN 0 ELSE f[Chosen(s)] + it[s \ {Chosen(s)}]

LevelSums(it, f, S, n) == it = [s \in Level(S, n) |-> SumOf(it, f, s)]

(* Removing its next element makes a set smaller.                          *)
LEMMA NextRemoved ==
    ASSUME NEW S, IsFiniteSet(S), NEW s \in SUBSET S, s # {}
    PROVE  /\ Chosen(s) \in s
           /\ s \ {Chosen(s)} \in SUBSET S /\ s \ {Chosen(s)} # s
           /\ IsFiniteSet(s) /\ IsFiniteSet(s \ {Chosen(s)})
           /\ Cardinality(s) \in Nat /\ Cardinality(s \ {Chosen(s)}) \in Nat
           /\ Cardinality(s \ {Chosen(s)}) = Cardinality(s) - 1
<1>1. PICK x : x = Chosen(s)
  OBVIOUS
<1>2. x \in s
  BY <1>1 DEF Chosen
<1>3. IsFiniteSet(s)
  BY FS_Subset
<1>4. IsFiniteSet(s \ {x}) /\ Cardinality(s \ {x}) = Cardinality(s) - 1
  BY <1>2, <1>3, FS_RemoveElement
<1>5. Cardinality(s) \in Nat /\ Cardinality(s \ {x}) \in Nat
  BY <1>3, <1>4, FS_CardinalityType
<1>6. QED
  BY <1>1, <1>2, <1>3, <1>4, <1>5

(* Among sets of subsets of a finite set there is one of which no smaller  *)
(* one is a member.                                                        *)
LEMMA SmallestSubset ==
    ASSUME NEW S, IsFiniteSet(S), NEW T \in SUBSET (SUBSET S), T # {}
    PROVE  \E t \in T : t # {} => t \ {Chosen(t)} \notin T
<1> DEFINE C == {Cardinality(t) : t \in T}
<1>1. \A t \in T : Cardinality(t) \in Nat
  BY FS_Subset, FS_CardinalityType
<1>2. C \in SUBSET Nat /\ C # {}
  BY <1>1
<1>3. PICK m \in C : \A y \in C : m <= y
  BY <1>2, SmallestElement
<1>4. PICK t \in T : m = Cardinality(t)
  BY <1>3
<1>5. ASSUME t # {} PROVE t \ {Chosen(t)} \notin T
  <2>1. Cardinality(t) \in Nat /\ Cardinality(t \ {Chosen(t)}) = Cardinality(t) - 1
    BY <1>5, NextRemoved
  <2>2. PICK u : u = t \ {Chosen(t)}
    OBVIOUS
  <2>3. \A v \in T : m <= Cardinality(v)
    BY <1>3
  <2>4. m \in Nat /\ Cardinality(u) = m - 1
    BY <1>4, <2>1, <2>2
  <2>5. u \notin T
    BY <2>3, <2>4
  <2>6. QED
    BY <2>2, <2>5
<1>6. QED
  BY <1>5

(* Level by level, the partial sums exist.                                 *)
LEMMA LevelSumsExist ==
    ASSUME NEW S, IsFiniteSet(S), NEW f
    PROVE  \A n \in Nat : \E it : LevelSums(it, f, S, n)
<1> DEFINE T == {n \in Nat : ~\E it : LevelSums(it, f, S, n)}
<1>1. SUFFICES ASSUME T # {} PROVE FALSE
  OBVIOUS
<1>2. PICK n \in T : \A m \in T : n <= m
  BY <1>1, SmallestElement
<1>3. n \in Nat /\ ~\E it : LevelSums(it, f, S, n)
  BY <1>2
<1>4. \A s \in SUBSET S : s # {} =>
        /\ s \ {Chosen(s)} \in SUBSET S
        /\ Cardinality(s) \in Nat /\ Cardinality(s \ {Chosen(s)}) = Cardinality(s) - 1
  BY NextRemoved
<1>5. CASE n = 0
  <2> DEFINE it == [s \in Level(S, 0) |-> 0]
  <2>1. \A s \in Level(S, 0) : s = {}
    <3>1. SUFFICES ASSUME NEW s \in Level(S, 0), s # {} PROVE FALSE
      OBVIOUS
    <3>2. IsFiniteSet(s)
      BY FS_Subset DEF Level
    <3>3. Cardinality(s) \in Nat /\ Cardinality(s) # 0
      BY <3>1, <3>2, FS_EmptySet, FS_CardinalityType
    <3>4. QED
      BY <3>3 DEF Level
  <2>2. it = [s \in Level(S, 0) |-> SumOf(it, f, s)]
    BY <2>1 DEF SumOf
  <2>3. QED
    BY <1>3, <1>5, <2>2 DEF LevelSums
<1>6. CASE n # 0
  <2>1. PICK h : LevelSums(h, f, S, n - 1)
    <3>1. n - 1 \in Nat /\ n - 1 \notin T
      BY <1>2, <1>3, <1>6
    <3>2. QED
      BY <3>1
  <2> DEFINE it == [s \in Level(S, n) |-> SumOf(h, f, s)]
  <2>2. ASSUME NEW s \in Level(S, n), s # {}
        PROVE  /\ s \ {Chosen(s)} \in Level(S, n - 1)
               /\ s \ {Chosen(s)} \in Level(S, n)
    BY <1>3, <1>4, <2>2 DEF Level
  <2>3. ASSUME NEW t \in Level(S, n - 1), t \in Level(S, n) PROVE it[t] = h[t]
    <3>1. h[t] = SumOf(h, f, t)
      BY <2>1 DEF LevelSums
    <3>2. QED
      BY <2>3, <3>1
  <2> HIDE DEF it
  <2>4. ASSUME NEW s \in Level(S, n) PROVE SumOf(it, f, s) = SumOf(h, f, s)
    <3>1. CASE s = {}
      BY <3>1 DEF SumOf
    <3>2. CASE s # {}
      <4>1. it[s \ {Chosen(s)}] = h[s \ {Chosen(s)}]
        BY <2>2, <2>3, <3>2
      <4>2. QED
        BY <3>2, <4>1, Zenon DEF SumOf
    <3>3. QED
      BY <3>1, <3>2
  <2>5. it = [s \in Level(S, n) |-> SumOf(it, f, s)]
    BY <2>4 DEF it
  <2>6. QED
    BY <1>3, <2>5 DEF LevelSums
<1>7. QED
  BY <1>5, <1>6

SumBy(it, f, S) ==
    /\ SumFunction(f) = it[S]
    /\ \A s \in SUBSET S : it[s] = SumOf(it, f, s)

(* The partial sums of a function over the subsets of its finite domain.   *)
LEMMA SumsUnfold ==
    ASSUME NEW S, IsFiniteSet(S), NEW f, DOMAIN f = S
    PROVE  \E it : SumBy(it, f, S)
<1>1. PICK n : n = Cardinality(S)
  OBVIOUS
<1>2. n \in Nat
  BY <1>1, FS_CardinalityType
<1>3. Level(S, n) = SUBSET S
  BY <1>1, FS_Subset DEF Level
<1>4. PICK h : LevelSums(h, f, S, n)
  BY <1>2, LevelSumsExist
<1>5. PartialSums(h, f, S)
  BY <1>3, <1>4 DEF LevelSums, PartialSums, SumOf
<1>6. PICK it : it = CHOOSE x : PartialSums(x, f, S)
  OBVIOUS
<1>7. PartialSums(it, f, S)
  BY <1>5, <1>6
<1>8. SumFunction(f) = it[S]
  BY <1>6, SumIs
<1>9. \A s \in SUBSET S : it[s] = SumOf(it, f, s)
  BY <1>7 DEF PartialSums, SumOf
<1>10. QED
  BY <1>8, <1>9 DEF SumBy

(* The sum of natural numbers is one.                                      *)
LEMMA SumNatural ==
    ASSUME NEW S, IsFiniteSet(S), NEW f \in [S -> Nat]
    PROVE  SumFunction(f) \in Nat
<1>1. PICK it : SumBy(it, f, S)
  BY SumsUnfold
<1> DEFINE T == {s \in SUBSET S : it[s] \notin Nat}
<1>2. SUFFICES ASSUME T # {} PROVE FALSE
  BY <1>1 DEF SumBy
<1>3. PICK s \in T : s # {} => s \ {Chosen(s)} \notin T
  BY <1>2, SmallestSubset
<1>4. s \in SUBSET S /\ it[s] = SumOf(it, f, s) /\ it[s] \notin Nat
  BY <1>1, <1>3 DEF SumBy
<1>5. s # {}
  BY <1>4 DEF SumOf
<1>6. it[s \ {Chosen(s)}] \in Nat /\ f[Chosen(s)] \in Nat
  <2>1. Chosen(s) \in s /\ s \ {Chosen(s)} \in SUBSET S
    BY <1>4, <1>5, NextRemoved
  <2>2. PICK c, r : c = Chosen(s) /\ r = s \ {c}
    OBVIOUS
  <2>3. f[c] \in Nat
    BY <1>4, <2>1, <2>2
  <2>4. it[r] \in Nat
    BY <1>3, <1>5, <2>1, <2>2
  <2>5. QED
    BY <2>2, <2>3, <2>4
<1>7. it[s] = f[Chosen(s)] + it[s \ {Chosen(s)}]
  BY <1>4, <1>5, Zenon DEF SumOf
<1>8. QED
  BY <1>4, <1>6, <1>7

(* A sum of differences is the difference of the sums.                     *)
LEMMA SumDifference ==
    ASSUME NEW S, IsFiniteSet(S), NEW f \in [S -> Nat], NEW g \in [S -> Nat],
           NEW h \in [S -> Nat], \A x \in S : f[x] = g[x] + h[x]
    PROVE  SumFunction(f) = SumFunction(g) + SumFunction(h)
<1>1. PICK it : SumBy(it, f, S)
  BY SumsUnfold
<1>2. PICK jt : SumBy(jt, g, S)
  BY SumsUnfold
<1>3. PICK kt : SumBy(kt, h, S)
  BY SumsUnfold
<1> DEFINE T == {s \in SUBSET S : ~(/\ jt[s] \in Nat /\ kt[s] \in Nat
                                    /\ it[s] = jt[s] + kt[s])}
<1>4. SUFFICES ASSUME T # {} PROVE FALSE
  BY <1>1, <1>2, <1>3 DEF SumBy
<1>5. PICK s \in T : s # {} => s \ {Chosen(s)} \notin T
  BY <1>4, SmallestSubset
<1>6. /\ s \in SUBSET S
      /\ it[s] = SumOf(it, f, s) /\ jt[s] = SumOf(jt, g, s) /\ kt[s] = SumOf(kt, h, s)
  BY <1>1, <1>2, <1>3, <1>5 DEF SumBy
<1>7. s # {}
  BY <1>5, <1>6 DEF SumOf
<1>8. PICK x, t : x = Chosen(s) /\ t = s \ {x}
  OBVIOUS
<1>9. x \in S /\ t \in SUBSET S
  BY <1>6, <1>7, <1>8, NextRemoved
<1>10. jt[t] \in Nat /\ kt[t] \in Nat /\ it[t] = jt[t] + kt[t]
  BY <1>5, <1>7, <1>8, <1>9
<1>11. it[s] = f[x] + it[t] /\ jt[s] = g[x] + jt[t] /\ kt[s] = h[x] + kt[t]
  BY <1>6, <1>7, <1>8, Zenon DEF SumOf
<1>12. f[x] = g[x] + h[x] /\ g[x] \in Nat /\ h[x] \in Nat
  BY <1>9
<1>13. jt[s] \in Nat /\ kt[s] \in Nat /\ it[s] = jt[s] + kt[s]
  BY <1>10, <1>11, <1>12
<1>14. QED
  BY <1>5, <1>13

(* The partial sums of natural numbers are natural numbers, and removing   *)
(* any element takes its value away, not only the one SumFunction takes    *)
(* first.                                                                  *)
LEMMA PartialRemove ==
    ASSUME NEW S, IsFiniteSet(S), NEW f \in [S -> Nat], NEW it, SumBy(it, f, S)
    PROVE  \A s \in SUBSET S : it[s] \in Nat /\ \A x \in s : it[s] = f[x] + it[s \ {x}]
<1> DEFINE T == {s \in SUBSET S :
                    ~(it[s] \in Nat /\ \A x \in s : it[s] = f[x] + it[s \ {x}])}
           C == {Cardinality(t) : t \in T}
<1>1. SUFFICES ASSUME T # {} PROVE FALSE
  OBVIOUS
<1>2. \A t \in SUBSET S : Cardinality(t) \in Nat /\ IsFiniteSet(t)
  BY FS_Subset, FS_CardinalityType
<1>3. C \in SUBSET Nat /\ C # {}
  BY <1>1, <1>2
<1>4. PICK m \in C : \A y \in C : m <= y
  BY <1>3, SmallestElement
<1>5. PICK s \in T : m = Cardinality(s)
  BY <1>4
<1>6. s \in SUBSET S /\ IsFiniteSet(s) /\ m \in Nat
      /\ \A t \in T : m <= Cardinality(t)
  BY <1>2, <1>4, <1>5
<1>7. \A x \in s : LET t == s \ {x} IN
        /\ t \in SUBSET S /\ it[t] \in Nat /\ \A y \in t : it[t] = f[y] + it[t \ {y}]
  <2>1. SUFFICES ASSUME NEW x \in s, NEW t, t = s \ {x} PROVE t \in SUBSET S /\ t \notin T
    OBVIOUS
  <2>2. t \in SUBSET S
    BY <1>6, <2>1
  <2>3. Cardinality(t) = m - 1
    BY <1>5, <1>6, <2>1, FS_RemoveElement
  <2>4. t \notin T
    BY <1>6, <2>3
  <2>5. QED
    BY <2>2, <2>4
<1>8. it[s] = SumOf(it, f, s)
  BY <1>6 DEF SumBy
<1>9. CASE s = {}
  BY <1>5, <1>8, <1>9 DEF SumOf
<1>10. CASE s # {}
  <2>1. PICK c : c = Chosen(s)
    OBVIOUS
  <2>2. c \in s /\ c \in S /\ f[c] \in Nat
    BY <1>6, <1>10, <2>1, NextRemoved
  <2>3. it[s] = f[c] + it[s \ {c}]
    BY <1>8, <1>10, <2>1 DEF SumOf
  <2>4. PICK t : t = s \ {c}
    OBVIOUS
  <2>5. t \in SUBSET S /\ it[t] \in Nat /\ \A y \in t : it[t] = f[y] + it[t \ {y}]
    BY <1>7, <2>2, <2>4
  <2>6. it[s] \in Nat
    BY <2>2, <2>3, <2>4, <2>5
  <2>7. ASSUME NEW x \in s, x # c PROVE it[s] = f[x] + it[s \ {x}]
    <3>1. PICK u : u = s \ {x}
      OBVIOUS
    <3>2. u \in SUBSET S /\ it[u] \in Nat /\ \A y \in u : it[u] = f[y] + it[u \ {y}]
      BY <1>7, <3>1
    <3>3. c \in u /\ x \in t /\ u \ {c} = t \ {x} /\ f[x] \in Nat
      BY <1>6, <2>2, <2>4, <2>7, <3>1
    <3>4. PICK v : v = t \ {x}
      OBVIOUS
    <3>5. it[u] = f[c] + it[v] /\ it[t] = f[x] + it[v]
      BY <2>5, <3>2, <3>3, <3>4
    <3>6. it[v] \in Nat
      <4>1. v = u \ {c}
        BY <3>3, <3>4
      <4>2. v \in SUBSET S
        BY <2>5, <3>4
      <4>3. v \notin T
        <5>1. IsFiniteSet(t) /\ Cardinality(t) = m - 1
          BY <1>5, <1>6, <2>2, <2>4, FS_RemoveElement
        <5>2. Cardinality(v) = m - 1 - 1
          BY <5>1, <3>3, <3>4, FS_RemoveElement
        <5>3. QED
          BY <1>6, <5>2
      <4>4. QED
        BY <4>2, <4>3
    <3>7. QED
      BY <2>2, <2>3, <2>4, <3>1, <3>3, <3>5, <3>6
  <2>8. \A x \in s : it[s] = f[x] + it[s \ {x}]
    BY <2>3, <2>7
  <2>9. QED
    BY <1>5, <2>6, <2>8
<1>11. QED
  BY <1>9, <1>10

(* Smaller values have a smaller partial sum.                              *)
LEMMA PartialBelow ==
    ASSUME NEW S, IsFiniteSet(S), NEW f \in [S -> Nat], NEW it, SumBy(it, f, S),
           NEW U, IsFiniteSet(U), NEW g \in [U -> Nat], NEW jt, SumBy(jt, g, U),
           S \subseteq U, \A x \in S : f[x] <= g[x]
    PROVE  \A s \in SUBSET S : it[s] <= jt[s]
<1> DEFINE T == {s \in SUBSET S : ~(it[s] <= jt[s])}
<1>1. SUFFICES ASSUME T # {} PROVE FALSE
  OBVIOUS
<1>2. PICK s \in T : s # {} => s \ {Chosen(s)} \notin T
  BY <1>1, SmallestSubset
<1>3. s \in SUBSET S /\ s \in SUBSET U
  BY <1>2
<1>4. it[s] = SumOf(it, f, s) /\ jt[s] = SumOf(jt, g, s)
  BY <1>3 DEF SumBy
<1>5. s # {}
  BY <1>2, <1>4 DEF SumOf
<1>6. PICK x, t : x = Chosen(s) /\ t = s \ {x}
  OBVIOUS
<1>7. x \in S /\ t \in SUBSET S /\ t \in SUBSET U
  BY <1>3, <1>5, <1>6, NextRemoved
<1>8. it[t] <= jt[t] /\ it[t] \in Nat /\ jt[t] \in Nat
  BY <1>2, <1>5, <1>6, <1>7, PartialRemove
<1>9. it[s] = f[x] + it[t] /\ jt[s] = g[x] + jt[t]
  BY <1>4, <1>5, <1>6, Zenon DEF SumOf
<1>10. f[x] <= g[x] /\ f[x] \in Nat /\ g[x] \in Nat
  BY <1>7
<1>11. it[s] <= jt[s]
  BY <1>8, <1>9, <1>10
<1>12. QED
  BY <1>2, <1>11

(* Fewer elements have a smaller partial sum.                              *)
LEMMA PartialSubset ==
    ASSUME NEW S, IsFiniteSet(S), NEW f \in [S -> Nat], NEW it, SumBy(it, f, S),
           NEW s \in SUBSET S
    PROVE  \A t \in SUBSET S : s \subseteq t => it[s] <= it[t]
<1> DEFINE T == {t \in SUBSET S : s \subseteq t /\ ~(it[s] <= it[t])}
           C == {Cardinality(t) : t \in T}
<1>1. SUFFICES ASSUME T # {} PROVE FALSE
  OBVIOUS
<1>2. \A t \in SUBSET S : Cardinality(t) \in Nat /\ IsFiniteSet(t) /\ it[t] \in Nat
  BY FS_Subset, FS_CardinalityType, PartialRemove
<1>3. C \in SUBSET Nat /\ C # {}
  BY <1>1, <1>2
<1>4. PICK m \in C : \A y \in C : m <= y
  BY <1>3, SmallestElement
<1>5. PICK t \in T : m = Cardinality(t)
  BY <1>4
<1>6. t \in SUBSET S /\ IsFiniteSet(t) /\ m \in Nat /\ s \subseteq t /\ ~(it[s] <= it[t])
      /\ \A u \in T : m <= Cardinality(u)
  BY <1>2, <1>4, <1>5
<1>7. it[s] \in Nat /\ it[t] \in Nat
  BY <1>2, <1>6
<1>8. PICK x \in t : x \notin s
  <2>1. s # t
    BY <1>6, <1>7
  <2>2. QED
    BY <1>6, <2>1
<1>9. PICK u : u = t \ {x}
  OBVIOUS
<1>10. Cardinality(u) = m - 1 /\ u \in SUBSET S /\ s \subseteq u
  BY <1>5, <1>6, <1>8, <1>9, FS_RemoveElement
<1>11. u \notin T
  BY <1>6, <1>10
<1>12. it[s] <= it[u] /\ it[u] \in Nat
  BY <1>2, <1>10, <1>11
<1>13. it[t] = f[x] + it[u] /\ f[x] \in Nat
  BY <1>6, <1>8, <1>9, PartialRemove
<1>14. QED
  BY <1>6, <1>7, <1>12, <1>13

(* A sum grows with its elements and with their values.                    *)
LEMMA SumMonotone ==
    ASSUME NEW U, IsFiniteSet(U), NEW S \in SUBSET U, NEW f \in [S -> Nat],
           NEW g \in [U -> Nat], \A x \in S : f[x] <= g[x]
    PROVE  SumFunction(f) <= SumFunction(g)
<1>1. IsFiniteSet(S)
  BY FS_Subset
<1>2. PICK it : SumBy(it, f, S)
  BY <1>1, SumsUnfold
<1>3. PICK jt : SumBy(jt, g, U)
  BY SumsUnfold
<1>4. it[S] <= jt[S]
  BY <1>1, <1>2, <1>3, PartialBelow
<1>5. jt[S] <= jt[U]
  BY <1>3, PartialSubset
<1>6. it[S] \in Nat /\ jt[S] \in Nat /\ jt[U] \in Nat
  BY <1>1, <1>2, <1>3, PartialRemove
<1>7. SumFunction(f) = it[S] /\ SumFunction(g) = jt[U]
  BY <1>2, <1>3 DEF SumBy
<1>8. QED
  BY <1>4, <1>5, <1>6, <1>7

(* The whole sum is its value at an element and the partial sum without.   *)
LEMMA WholeRemove ==
    ASSUME NEW S, IsFiniteSet(S), NEW f \in [S -> Nat], NEW it, SumBy(it, f, S),
           NEW x \in S
    PROVE  it[S] = f[x] + it[S \ {x}]
<1>1. \A s \in SUBSET S : it[s] \in Nat /\ \A y \in s : it[s] = f[y] + it[s \ {y}]
  BY PartialRemove
<1>2. S \in SUBSET S
  OBVIOUS
<1>3. QED
  BY <1>1, <1>2

(* Any element may be taken out of a sum first.                            *)
LEMMA SumRemove ==
    ASSUME NEW S, IsFiniteSet(S), NEW f \in [S -> Nat], NEW x \in S
    PROVE  SumFunction(f) = f[x] + SumFunction([y \in S \ {x} |-> f[y]])
<1>1. PICK U, g : U = S \ {x} /\ g = [y \in U |-> f[y]]
  OBVIOUS
<1>2. IsFiniteSet(U) /\ U \in SUBSET S /\ g \in [U -> Nat]
  BY <1>1, FS_Subset
<1>3. PICK it : SumBy(it, f, S)
  BY SumsUnfold
<1>4. PICK jt : SumBy(jt, g, U)
  BY <1>2, SumsUnfold
<1>5. jt[U] <= it[U]
  BY <1>1, <1>2, <1>3, <1>4, PartialBelow
<1>6. it[U] <= jt[U]
  <2>2. \A s \in SUBSET U : jt[s] \in Nat /\ it[s] \in Nat
    BY <1>2, <1>3, <1>4, PartialRemove
  <2> DEFINE T == {s \in SUBSET U : ~(it[s] = jt[s])}
  <2>3. SUFFICES ASSUME T # {} PROVE FALSE
    BY <1>2, <2>2
  <2>4. PICK s \in T : s # {} => s \ {Chosen(s)} \notin T
    BY <1>2, <2>3, SmallestSubset
  <2>5. s \in SUBSET S /\ s \in SUBSET U
    BY <1>2, <2>4
  <2>6. it[s] = SumOf(it, f, s) /\ jt[s] = SumOf(jt, g, s)
    BY <1>3, <1>4, <2>5 DEF SumBy
  <2>7. s # {}
    BY <2>4, <2>6 DEF SumOf
  <2>8. PICK c, t : c = Chosen(s) /\ t = s \ {c}
    OBVIOUS
  <2>9. c \in U /\ t \in SUBSET U
    BY <1>2, <2>5, <2>7, <2>8, NextRemoved
  <2>10. it[t] = jt[t] /\ f[c] = g[c]
    BY <1>1, <2>4, <2>7, <2>8, <2>9
  <2>11. it[s] = f[c] + it[t] /\ jt[s] = g[c] + jt[t]
    BY <2>6, <2>7, <2>8, Zenon DEF SumOf
  <2>12. QED
    BY <2>4, <2>10, <2>11
<1>7. it[S] = f[x] + it[U]
  BY <1>1, <1>3, WholeRemove
<1>8. it[U] \in Nat /\ jt[U] \in Nat
  BY <1>2, <1>3, <1>4, PartialRemove
<1>9. SumFunction(f) = it[S] /\ SumFunction(g) = jt[U]
  BY <1>3, <1>4 DEF SumBy
<1>10. SumFunction(f) = f[x] + SumFunction(g)
  BY <1>5, <1>6, <1>7, <1>8, <1>9
<1>11. QED
  BY <1>1, <1>10

(* Nothing sums to nothing.                                                *)
LEMMA SumEmpty ==
    ASSUME NEW f, DOMAIN f = {}
    PROVE  SumFunction(f) = 0
<1>1. IsFiniteSet({})
  BY FS_EmptySet
<1>2. PICK it : SumBy(it, f, {})
  BY <1>1, SumsUnfold
<1>3. it[{}] = SumOf(it, f, {})
  BY <1>2 DEF SumBy
<1>4. QED
  BY <1>2, <1>3 DEF SumBy, SumOf

(* Among sets of subsets there is one that is a member and none of whose   *)
(* elements can be removed.                                                *)
LEMMA SmallestByRemoval ==
    ASSUME NEW S, IsFiniteSet(S), NEW T \in SUBSET (SUBSET S), T # {}
    PROVE  \E t \in T : \A x \in t : t \ {x} \notin T
<1> DEFINE C == {Cardinality(t) : t \in T}
<1>1. \A t \in SUBSET S : Cardinality(t) \in Nat /\ IsFiniteSet(t)
  BY FS_Subset, FS_CardinalityType
<1>2. C \in SUBSET Nat /\ C # {}
  BY <1>1
<1>3. PICK m \in C : \A y \in C : m <= y
  BY <1>2, SmallestElement
<1>4. PICK t \in T : m = Cardinality(t)
  BY <1>3
<1>5. \A v \in T : m <= Cardinality(v)
  BY <1>3
<1>6. IsFiniteSet(t) /\ m \in Nat
  BY <1>1, <1>4
<1>7. ASSUME NEW x \in t PROVE t \ {x} \notin T
  <2>1. PICK u : u = t \ {x}
    OBVIOUS
  <2>2. Cardinality(u) = m - 1
    BY <1>4, <1>6, <2>1, FS_RemoveElement
  <2>3. u \notin T
    BY <1>5, <1>6, <2>2
  <2>4. QED
    BY <2>1, <2>3
<1>8. QED
  BY <1>4, <1>7

(* A sum of ones counts.                                                   *)
LEMMA SumCounts ==
    ASSUME NEW S, IsFiniteSet(S), NEW T \in SUBSET S, NEW f,
           f = [x \in S |-> IF x \in T THEN 1 ELSE 0]
    PROVE  SumFunction(f) = Cardinality(T)
<1>1. f \in [S -> Nat] /\ DOMAIN f = S
  OBVIOUS
<1>2. PICK it : SumBy(it, f, S)
  BY <1>1, SumsUnfold
<1> DEFINE X == {s \in SUBSET S : it[s] # Cardinality(s \cap T)}
<1>3. SUFFICES ASSUME X # {} PROVE FALSE
  <2>1. S \cap T = T
    OBVIOUS
  <2>2. QED
    BY <1>2, <2>1 DEF SumBy
<1>4. PICK s \in X : s # {} => s \ {Chosen(s)} \notin X
  BY <1>3, SmallestSubset
<1>5. s \in SUBSET S /\ it[s] # Cardinality(s \cap T) /\ it[s] = SumOf(it, f, s)
  BY <1>2, <1>4 DEF SumBy
<1>6. s # {}
  BY <1>5, FS_EmptySet DEF SumOf
<1>7. PICK c, t : c = Chosen(s) /\ t = s \ {c}
  OBVIOUS
<1>8. c \in s /\ c \in S /\ t \in SUBSET S
  BY <1>5, <1>6, <1>7, NextRemoved
<1>9. it[t] = Cardinality(t \cap T)
  BY <1>4, <1>6, <1>7, <1>8
<1>10. it[s] = f[c] + it[t]
  BY <1>5, <1>6, <1>7, Zenon DEF SumOf
<1>11. IsFiniteSet(s \cap T) /\ Cardinality(s \cap T) \in Nat
  <2>1. s \cap T \in SUBSET S
    BY <1>5
  <2>2. QED
    BY <2>1, FS_Subset, FS_CardinalityType
<1>12. CASE c \in T
  <2>1. t \cap T = (s \cap T) \ {c} /\ c \in s \cap T
    BY <1>7, <1>8, <1>12
  <2>2. Cardinality(t \cap T) = Cardinality(s \cap T) - 1
    <3>1. PICK u : u = s \cap T
      OBVIOUS
    <3>2. c \in u /\ IsFiniteSet(u) /\ t \cap T = u \ {c}
      BY <1>11, <2>1, <3>1
    <3>3. Cardinality(u \ {c}) = Cardinality(u) - 1
      BY <3>2, FS_RemoveElement
    <3>4. QED
      BY <3>1, <3>2, <3>3
  <2>3. f[c] = 1
    BY <1>8, <1>12
  <2>4. QED
    BY <1>5, <1>9, <1>10, <1>11, <2>2, <2>3
<1>13. CASE c \notin T
  <2>1. t \cap T = s \cap T
    BY <1>7, <1>13
  <2>2. f[c] = 0
    BY <1>8, <1>13
  <2>3. it[t] = Cardinality(s \cap T)
    BY <1>9, <2>1
  <2>4. QED
    BY <1>5, <1>10, <1>11, <2>2, <2>3
<1>14. QED
  BY <1>12, <1>13

-----------------------------------------------------------------------------
(* Ranks.                                                                  *)

(* R orders B strictly and totally.                                        *)
OrdersStrictly(R, B) ==
    /\ \A a \in B : <<a, a>> \notin R
    /\ \A a, b, c \in B : <<a, b>> \in R /\ <<b, c>> \in R => <<a, c>> \in R
    /\ \A a, b \in B : a # b => <<a, b>> \in R \/ <<b, a>> \in R

Preceding(R, S, b) == {a \in S : <<a, b>> \in R}

(* The elements that fewer than k precede.                                 *)
FirstOf(R, S, k) == {b \in S : Cardinality(Preceding(R, S, b)) < k}

(* A finite set that is not empty has a last element.                      *)
LEMMA LastElement ==
    ASSUME NEW B, IsFiniteSet(B), NEW R, OrdersStrictly(R, B), NEW S \in SUBSET B, S # {}
    PROVE  \E z \in S : \A a \in S : a # z => <<a, z>> \in R
<1> DEFINE Last(s) == \E z \in s : \A a \in s : a # z => <<a, z>> \in R
           T == {s \in SUBSET B : s # {} /\ ~Last(s)}
<1>1. SUFFICES ASSUME T # {} PROVE FALSE
  OBVIOUS
<1>2. PICK s \in T : \A x \in s : s \ {x} \notin T
  BY <1>1, SmallestByRemoval
<1>3. s \in SUBSET B /\ s # {} /\ ~Last(s)
  BY <1>2
<1>4. PICK c \in s : TRUE
  BY <1>3
<1>5. PICK t : t = s \ {c}
  OBVIOUS
<1>6. t \in SUBSET B /\ t \notin T
  BY <1>2, <1>3, <1>5
<1>7. CASE t = {}
  <2>1. \A a \in s : a # c => <<a, c>> \in R
    BY <1>5, <1>7
  <2>2. QED
    BY <1>3, <1>4, <2>1
<1>8. CASE t # {}
  <2>1. PICK z \in t : \A a \in t : a # z => <<a, z>> \in R
    BY <1>6, <1>8
  <2>2. z \in s /\ z # c /\ z \in B /\ c \in B
    BY <1>3, <1>5, <2>1
  <2>3. CASE <<c, z>> \in R
    <3>1. \A a \in s : a # z => <<a, z>> \in R
      BY <1>5, <2>1, <2>3
    <3>2. QED
      BY <1>3, <2>2, <3>1
  <2>4. CASE <<z, c>> \in R
    <3>1. ASSUME NEW a \in s, a # c PROVE <<a, c>> \in R
      <4>1. a \in t /\ a \in B
        BY <1>3, <1>5, <3>1
      <4>2. CASE a = z
        BY <2>4, <4>2
      <4>3. CASE a # z
        <5>1. <<a, z>> \in R
          BY <2>1, <4>1, <4>3
        <5>2. QED
          BY <2>2, <2>4, <4>1, <5>1 DEF OrdersStrictly
      <4>4. QED
        BY <4>2, <4>3
    <3>2. QED
      BY <1>3, <1>4, <3>1
  <2>5. QED
    BY <2>2, <2>3, <2>4 DEF OrdersStrictly
<1>9. QED
  BY <1>7, <1>8

(* In a strict order exactly k elements have fewer than k before them.     *)
LEMMA RankCounts ==
    ASSUME NEW B, IsFiniteSet(B), NEW R, OrdersStrictly(R, B), NEW k \in Nat,
           k <= Cardinality(B)
    PROVE  Cardinality(FirstOf(R, B, k)) = k
<1> DEFINE Counts(s) == Cardinality(FirstOf(R, s, k))
                            = IF k <= Cardinality(s) THEN k ELSE Cardinality(s)
           T == {s \in SUBSET B : ~Counts(s)}
<1>1. SUFFICES ASSUME T # {} PROVE FALSE
  OBVIOUS
<1>2. PICK s \in T : \A x \in s : s \ {x} \notin T
  BY <1>1, SmallestByRemoval
<1>3. s \in SUBSET B /\ ~Counts(s)
  BY <1>2
<1>4. IsFiniteSet(s) /\ Cardinality(s) \in Nat
  BY <1>3, FS_Subset, FS_CardinalityType
<1>5. s # {}
  <2>1. SUFFICES ASSUME s = {} PROVE FALSE
    OBVIOUS
  <2>2. FirstOf(R, s, k) = {} /\ Cardinality(s) = 0 /\ Cardinality({}) = 0
    BY <2>1, FS_EmptySet DEF FirstOf
  <2>3. QED
    BY <1>3, <2>2
<1>6. PICK z \in s : \A a \in s : a # z => <<a, z>> \in R
  BY <1>3, <1>5, LastElement
<1>7. PICK t : t = s \ {z}
  OBVIOUS
<1>8. t \in SUBSET B /\ Counts(t)
  BY <1>2, <1>3, <1>6, <1>7
<1>9. PICK n : n = Cardinality(t)
  OBVIOUS
<1>10. n \in Nat /\ Cardinality(s) = n + 1
  <2>1. Cardinality(t) = Cardinality(s) - 1 /\ IsFiniteSet(t)
    BY <1>4, <1>6, <1>7, FS_RemoveElement
  <2>2. Cardinality(t) \in Nat
    BY <2>1, FS_CardinalityType
  <2>3. QED
    BY <1>4, <1>9, <2>1, <2>2
<1>11. \A b \in t : Preceding(R, s, b) = Preceding(R, t, b)
  <2>1. SUFFICES ASSUME NEW b \in t PROVE <<z, b>> \notin R
    BY <1>6, <1>7 DEF Preceding
  <2>2. b \in s /\ b # z /\ <<b, z>> \in R /\ b \in B /\ z \in B
    BY <1>3, <1>6, <1>7
  <2>3. QED
    BY <2>2 DEF OrdersStrictly
<1>12. Preceding(R, s, z) = t
  <2>1. z \in B
    BY <1>3, <1>6
  <2>2. <<z, z>> \notin R
    BY <2>1 DEF OrdersStrictly
  <2>3. QED
    BY <1>6, <1>7, <2>2 DEF Preceding
<1>13. PICK F, G : F = FirstOf(R, s, k) /\ G = FirstOf(R, t, k)
  OBVIOUS
<1>14. \A b : b \in F <=> b \in G \/ (b = z /\ n < k)
  BY <1>6, <1>7, <1>9, <1>11, <1>12, <1>13 DEF FirstOf
<1>15. z \notin G /\ G \in SUBSET B
  BY <1>7, <1>8, <1>13 DEF FirstOf
<1>16. IsFiniteSet(G) /\ Cardinality(G) \in Nat
  BY <1>15, FS_Subset, FS_CardinalityType
<1>17. Cardinality(G) = IF k <= n THEN k ELSE n
  BY <1>8, <1>9, <1>13
<1>18. CASE n < k
  <2>1. F = G \cup {z}
    BY <1>14, <1>18
  <2>2. Cardinality(F) = Cardinality(G) + 1
    BY <1>15, <1>16, <2>1, FS_AddElement
  <2>3. QED
    BY <1>3, <1>10, <1>13, <1>17, <1>18, <2>2
<1>19. CASE ~(n < k)
  <2>1. F = G
    BY <1>14, <1>19
  <2>2. QED
    BY <1>3, <1>10, <1>13, <1>17, <1>19, <2>1
<1>20. QED
  BY <1>18, <1>19

(* Of two elements the earlier one has fewer before it.                    *)
LEMMA RankGrows ==
    ASSUME NEW B, IsFiniteSet(B), NEW R, OrdersStrictly(R, B), NEW a \in B, NEW b \in B,
           <<a, b>> \in R
    PROVE  /\ Cardinality(Preceding(R, B, a)) \in Nat
           /\ Cardinality(Preceding(R, B, b)) \in Nat
           /\ Cardinality(Preceding(R, B, a)) <= Cardinality(Preceding(R, B, b))
<1>1. PICK F, G : F = Preceding(R, B, a) /\ G = Preceding(R, B, b)
  OBVIOUS
<1>2. F \in SUBSET G /\ F \in SUBSET B /\ G \in SUBSET B
  BY <1>1 DEF Preceding, OrdersStrictly
<1>3. IsFiniteSet(F) /\ IsFiniteSet(G)
  BY <1>2, FS_Subset
<1>4. Cardinality(F) \in Nat /\ Cardinality(G) \in Nat /\ Cardinality(F) <= Cardinality(G)
  BY <1>2, <1>3, FS_Subset, FS_CardinalityType
<1>5. QED
  BY <1>1, <1>4

(* Products of natural numbers.                                            *)
LEMMA ProductFacts ==
    ASSUME NEW a \in Nat, NEW b \in Nat, NEW c \in Nat
    PROVE  a * b \in Nat /\ a * (b + c) = a * b + a * c /\ a * 0 = 0
OBVIOUS

(* A common factor comes out of a sum.                                     *)
LEMMA SumScaled ==
    ASSUME NEW S, IsFiniteSet(S), NEW c \in Nat, NEW f \in [S -> Nat], NEW g,
           g = [x \in S |-> c * f[x]]
    PROVE  SumFunction(g) = c * SumFunction(f)
<1>1. g \in [S -> Nat]
  BY ProductFacts
<1>2. PICK it : SumBy(it, f, S)
  BY SumsUnfold
<1>3. PICK jt : SumBy(jt, g, S)
  BY <1>1, SumsUnfold
<1> DEFINE T == {s \in SUBSET S : jt[s] # c * it[s]}
<1>4. SUFFICES ASSUME T # {} PROVE FALSE
  BY <1>2, <1>3 DEF SumBy
<1>5. PICK s \in T : s # {} => s \ {Chosen(s)} \notin T
  BY <1>4, SmallestSubset
<1>6. s \in SUBSET S /\ it[s] = SumOf(it, f, s) /\ jt[s] = SumOf(jt, g, s)
  BY <1>2, <1>3, <1>5 DEF SumBy
<1>7. s # {}
  <2>1. SUFFICES ASSUME s = {} PROVE FALSE
    OBVIOUS
  <2>2. it[s] = 0 /\ jt[s] = 0
    BY <1>6, <2>1 DEF SumOf
  <2>3. QED
    BY <1>5, <2>2
<1>8. PICK x, t : x = Chosen(s) /\ t = s \ {x}
  OBVIOUS
<1>9. x \in S /\ t \in SUBSET S
  BY <1>6, <1>7, <1>8, NextRemoved
<1>10. jt[t] = c * it[t] /\ it[t] \in Nat /\ f[x] \in Nat /\ g[x] = c * f[x]
  BY <1>2, <1>5, <1>7, <1>8, <1>9, PartialRemove
<1>11. it[s] = f[x] + it[t] /\ jt[s] = g[x] + jt[t]
  BY <1>6, <1>7, <1>8, Zenon DEF SumOf
<1>12. c * (f[x] + it[t]) = c * f[x] + c * it[t]
  BY <1>10, ProductFacts
<1>13. QED
  BY <1>5, <1>10, <1>11, <1>12
=============================================================================
