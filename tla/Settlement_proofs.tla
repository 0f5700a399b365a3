-------------------------- MODULE Settlement_proofs -------------------------
(***************************************************************************)
(* Proofs about the monthly settlements and what exits are paid from them, *)
(* for every number of deployments, rows, settlements, months, currencies, *)
(* amounts and weights.                                                    *)
(***************************************************************************)
EXTENDS SettlementAudit, ExitLifecycle_proofs

-----------------------------------------------------------------------------
(* Arithmetic.                                                             *)

(* Division with remainder.                                                *)
LEMMA DivisionFacts ==
    ASSUME NEW x \in Nat, NEW d \in Nat \ {0}
    PROVE  /\ x \div d \in Nat /\ x % d \in Nat /\ x % d < d
           /\ x = d * (x \div d) + (x % d)
OBVIOUS

(* A positive factor keeps the order.                                      *)
LEMMA FactorOrder ==
    ASSUME NEW x \in Nat, NEW y \in Nat, NEW k \in Nat \ {0}
    PROVE  /\ x * k > y * k <=> x > y
           /\ x * k = y * k <=> x = y
           /\ x * k <= y * k <=> x <= y
OBVIOUS

(* Factors may be regrouped.                                               *)
LEMMA Regroup ==
    ASSUME NEW a \in Nat, NEW b \in Nat, NEW c \in Nat, NEW d \in Nat
    PROVE  /\ a * (b * c) = (a * b) * c
           /\ (a * b) * (c * d) = (a * c) * (b * d)
           /\ (a * b + c) * d = (a * d) * b + c * d
           /\ a * b = b * a
OBVIOUS

SameOrder(r, s, p, q, j, k) ==
    /\ r * q > s * p <=> r * j > s * k
    /\ r * q = s * p <=> r * j = s * k

(* Fractions with denominators p and q compare as numerators over the      *)
(* common denominator p * j = q * k.                                       *)
LEMMA CompareFractions ==
    ASSUME NEW r \in Nat, NEW s \in Nat, NEW p \in Nat \ {0}, NEW q \in Nat \ {0},
           NEW j \in Nat \ {0}, NEW k \in Nat \ {0}, p * j = q * k
    PROVE  SameOrder(r, s, p, q, j, k)
<1>1. PICK m, x, y, u, v, D : /\ m = j * k /\ x = r * q /\ y = s * p
                              /\ u = r * j /\ v = s * k /\ D = p * j
  OBVIOUS
<1>2. m \in Nat \ {0} /\ D \in Nat \ {0}
  <2>1. \A a, b \in Nat \ {0} : a * b \in Nat \ {0}
    OBVIOUS
  <2>2. QED
    BY <1>1, <2>1
<1>3. x \in Nat /\ y \in Nat /\ u \in Nat /\ v \in Nat
  BY <1>1, ProductFacts
<1>4. x * m = u * D
  <2>1. (r * q) * (j * k) = (r * j) * (q * k)
    BY Regroup
  <2>2. QED
    BY <1>1, <2>1
<1>5. y * m = v * D
  <2>1. (s * p) * (k * j) = (s * k) * (p * j)
    BY Regroup
  <2>2. k * j = j * k
    BY Regroup
  <2>3. QED
    BY <1>1, <2>1, <2>2
<1>6. (x > y <=> x * m > y * m) /\ (x = y <=> x * m = y * m)
  BY <1>2, <1>3, FactorOrder
<1>7. (u > v <=> u * D > v * D) /\ (u = v <=> u * D = v * D)
  BY <1>2, <1>3, FactorOrder
<1>8. QED
  BY <1>1, <1>4, <1>5, <1>6, <1>7 DEF SameOrder

-----------------------------------------------------------------------------
(* largestRemainder.                                                       *)

Quotients(shares, total) ==
    [b \in DOMAIN shares |-> (total * shares[b][1]) \div shares[b][2]]

Remainders(shares, total) ==
    [b \in DOMAIN shares |-> (total * shares[b][1]) % shares[b][2]]

(* The units that rounding down leaves.                                    *)
LeftOver(shares, total) == total - SumFunction(Quotients(shares, total))

(* The order in which they are given out.                                  *)
GivenBefore(shares, total, a, b) ==
    LET x == Remainders(shares, total)[a] * shares[b][2]
        y == Remainders(shares, total)[b] * shares[a][2]
    IN  x > y \/ (x = y /\ a < b)

Pairs(B) == B \X B

ByRemainder(shares, total) ==
    {p \in Pairs(DOMAIN shares) : GivenBefore(shares, total, p[1], p[2])}

(* Shares of a whole: over the common denominator D, to which k[b] raises  *)
(* the share of b, the numerators add up to D.                             *)
Whole(shares, D, k) ==
    /\ IsFiniteSet(DOMAIN shares)
    /\ DOMAIN shares \subseteq Int
    /\ D \in Nat \ {0}
    /\ k \in [DOMAIN shares -> Nat \ {0}]
    /\ \A b \in DOMAIN shares : /\ shares[b][1] \in Nat
                                /\ shares[b][2] \in Nat \ {0}
                                /\ shares[b][2] * k[b] = D
    /\ SumFunction([b \in DOMAIN shares |-> shares[b][1] * k[b]]) = D

(* The amounts in the words used here.                                     *)
LEMMA LargestRemainderIs ==
    ASSUME NEW shares, NEW total
    PROVE  LargestRemainder(shares, total)
            = [b \in DOMAIN shares |->
                Quotients(shares, total)[b]
                    + (IF b \in FirstOf(ByRemainder(shares, total), DOMAIN shares,
                                        LeftOver(shares, total))
                       THEN 1 ELSE 0)]
<1> DEFINE q == Quotients(shares, total)
           r == Remainders(shares, total)
           Before(a, b) == GivenBefore(shares, total, a, b)
           R == ByRemainder(shares, total)
           B == DOMAIN shares
           left == LeftOver(shares, total)
<1>1. ASSUME NEW b \in B
      PROVE  {a \in B : Before(a, b)} = Preceding(R, B, b)
  <2>1. ASSUME NEW a \in B PROVE <<a, b>> \in R <=> Before(a, b)
    <3>1. <<a, b>> \in Pairs(B) /\ <<a, b>>[1] = a /\ <<a, b>>[2] = b
      BY DEF Pairs
    <3>2. QED
      <4>1. PICK p : p = <<a, b>>
        OBVIOUS
      <4>2. p \in R <=> p \in Pairs(B) /\ GivenBefore(shares, total, p[1], p[2])
        BY Zenon DEF ByRemainder
      <4>3. QED
        BY <3>1, <4>1, <4>2, Zenon
  <2>2. QED
    BY <2>1, Zenon DEF Preceding
<1>2. LargestRemainder(shares, total)
        = [b \in B |-> q[b] + (IF Cardinality({a \in B : Before(a, b)}) < left THEN 1 ELSE 0)]
  BY Zenon DEF LargestRemainder, Quotients, Remainders, LeftOver, GivenBefore
<1>3. ASSUME NEW b \in B
      PROVE  Cardinality({a \in B : Before(a, b)}) < left <=> b \in FirstOf(R, B, left)
  BY <1>1, Zenon DEF FirstOf
<1>4. QED
  BY <1>2, <1>3, Zenon

DividedInto(n, d, k, total, q, r) ==
    /\ q \in Nat /\ r \in Nat /\ r < d
    /\ total * n = d * q + r
    /\ total * (n * k) = (d * k) * q + r * k
    /\ r * k \in Nat /\ r * k < d * k
    /\ r * k = 0 <=> r = 0

(* A share is divided into its quotient and its remainder, and over the    *)
(* common denominator the remainder is smaller than it.                    *)
LEMMA ShareDivided ==
    ASSUME NEW n \in Nat, NEW d \in Nat \ {0}, NEW k \in Nat \ {0}, NEW total \in Nat,
           NEW q, q = (total * n) \div d, NEW r, r = (total * n) % d
    PROVE  DividedInto(n, d, k, total, q, r)
<1>1. PICK t : t = total * n /\ q = t \div d /\ r = t % d
  OBVIOUS
<1>2. t \in Nat
  BY <1>1, ProductFacts
<1>3. q \in Nat /\ r \in Nat /\ r < d /\ t = d * q + r
  BY <1>1, <1>2, DivisionFacts
<1>4. total * (n * k) = t * k
  BY <1>1, Regroup
<1>5. (d * q + r) * k = (d * k) * q + r * k
  BY <1>3, Regroup
<1>6. r * k \in Nat /\ r * k < d * k /\ (r * k = 0 <=> r = 0)
  <2>1. d * k > r * k <=> d > r
    BY <1>3, FactorOrder
  <2>2. r * k = 0 * k <=> r = 0
    BY <1>3, FactorOrder
  <2>3. 0 * k = 0 /\ r * k \in Nat /\ d * k \in Nat
    BY <1>3, ProductFacts
  <2>4. QED
    BY <1>3, <2>1, <2>2, <2>3
<1>7. QED
  BY <1>1, <1>3, <1>4, <1>5, <1>6 DEF DividedInto

(* The remainders over the common denominator.                             *)
CommonRemainders(shares, total, k) ==
    [b \in DOMAIN shares |-> Remainders(shares, total)[b] * k[b]]

(* What division gives each beneficiary.                                   *)
Divided(shares, total, D, k, b) ==
    /\ Quotients(shares, total)[b] \in Nat
    /\ Remainders(shares, total)[b] \in Nat
    /\ Remainders(shares, total)[b] < shares[b][2]
    /\ total * shares[b][1] = shares[b][2] * Quotients(shares, total)[b]
                                + Remainders(shares, total)[b]
    /\ total * (shares[b][1] * k[b]) = D * Quotients(shares, total)[b]
                                        + CommonRemainders(shares, total, k)[b]
    /\ CommonRemainders(shares, total, k)[b] \in Nat
    /\ CommonRemainders(shares, total, k)[b] < D
    /\ CommonRemainders(shares, total, k)[b] = 0 <=> Remainders(shares, total)[b] = 0

(* ShareDivided for every beneficiary.                                     *)
LEMMA AllDivided ==
    ASSUME NEW shares, NEW D, NEW k, Whole(shares, D, k), NEW total \in Nat,
           NEW b \in DOMAIN shares
    PROVE  Divided(shares, total, D, k, b)
<1>1. PICK n, d, j : n = shares[b][1] /\ d = shares[b][2] /\ j = k[b]
  OBVIOUS
<1>2. n \in Nat /\ d \in Nat \ {0} /\ j \in Nat \ {0} /\ d * j = D
  BY <1>1 DEF Whole
<1>3. PICK q, r : q = (total * n) \div d /\ r = (total * n) % d
  OBVIOUS
<1>4. DividedInto(n, d, j, total, q, r)
  BY <1>2, <1>3, ShareDivided
<1>5. Quotients(shares, total)[b] = q /\ Remainders(shares, total)[b] = r
  <2>1. /\ Quotients(shares, total)[b] = (total * shares[b][1]) \div shares[b][2]
        /\ Remainders(shares, total)[b] = (total * shares[b][1]) % shares[b][2]
    BY Zenon DEF Quotients, Remainders
  <2>2. QED
    BY <1>1, <1>3, <2>1, Zenon
<1>6. CommonRemainders(shares, total, k)[b] = r * j
  BY <1>1, <1>5 DEF CommonRemainders
<1>7. QED
  BY <1>1, <1>2, <1>4, <1>5, <1>6, Zenon DEF Divided, DividedInto

(* The units left over are the remainders over the common denominator.     *)
LEMMA LeftIsRemainders ==
    ASSUME NEW shares, NEW D, NEW k, Whole(shares, D, k), NEW total \in Nat
    PROVE  /\ LeftOver(shares, total) \in Int
           /\ D * LeftOver(shares, total) = SumFunction(CommonRemainders(shares, total, k))
<1>1. PICK B : B = DOMAIN shares
  OBVIOUS
<1>2. PICK N, T, Q, E, R : /\ N = [b \in B |-> shares[b][1] * k[b]]
                           /\ T = [b \in B |-> total * N[b]]
                           /\ Q = Quotients(shares, total)
                           /\ E = [b \in B |-> D * Q[b]]
                           /\ R = CommonRemainders(shares, total, k)
  OBVIOUS
<1>3. IsFiniteSet(B) /\ D \in Nat \ {0}
  BY <1>1 DEF Whole
<1>4. SumFunction(N) = D
  BY <1>1, <1>2 DEF Whole
<1>5. \A b \in B : shares[b][1] \in Nat /\ k[b] \in Nat
  BY <1>1 DEF Whole
<1>6. N \in [B -> Nat]
  BY <1>2, <1>5, ProductFacts
<1>7. \A b \in B : Divided(shares, total, D, k, b)
  BY <1>1, AllDivided
<1>8. Q \in [B -> Nat]
  <2>1. DOMAIN Q = B /\ Q = [b \in B |-> Q[b]]
    BY <1>1, <1>2 DEF Quotients
  <2>2. \A b \in B : Q[b] \in Nat
    BY <1>2, <1>7 DEF Divided
  <2>3. QED
    BY <2>1, <2>2
<1>9. R \in [B -> Nat]
  <2>1. R = [b \in B |-> R[b]]
    BY <1>1, <1>2 DEF CommonRemainders
  <2>2. \A b \in B : R[b] \in Nat
    BY <1>2, <1>7 DEF Divided
  <2>3. QED
    BY <2>1, <2>2
<1>10. E \in [B -> Nat] /\ T \in [B -> Nat]
  BY <1>2, <1>3, <1>6, <1>8, ProductFacts
<1>11. \A b \in B : T[b] = E[b] + R[b]
  <2>1. TAKE b \in B
  <2>2. total * (shares[b][1] * k[b]) = D * Q[b] + R[b]
    BY <1>2, <1>7, Zenon DEF Divided
  <2>3. T[b] = total * (shares[b][1] * k[b]) /\ E[b] = D * Q[b]
    BY <1>2
  <2>4. QED
    BY <2>2, <2>3
<1>12. SumFunction(T) = total * D
  BY <1>2, <1>3, <1>4, <1>6, SumScaled
<1>13. SumFunction(E) = D * SumFunction(Q)
  BY <1>2, <1>3, <1>8, SumScaled
<1>14. SumFunction(T) = SumFunction(E) + SumFunction(R)
  BY <1>3, <1>9, <1>10, <1>11, SumDifference
<1>15. PICK y, z : y = SumFunction(Q) /\ z = SumFunction(R)
  OBVIOUS
<1>16. y \in Nat /\ z \in Nat
  BY <1>3, <1>8, <1>9, <1>15, SumNatural
<1>17. total * D = D * y + z
  BY <1>12, <1>13, <1>14, <1>15
<1>18. LeftOver(shares, total) = total - y
  BY <1>2, <1>15 DEF LeftOver
<1>19. D * (total - y) = D * total - D * y
  BY <1>3, <1>16
<1>20. QED
  <2>1. D * total = total * D /\ D * total \in Nat /\ D * y \in Nat
    BY <1>3, <1>16, ProductFacts, Regroup
  <2>2. D * (total - y) = z
    BY <1>16, <1>17, <1>19, <2>1
  <2>3. QED
    BY <1>2, <1>15, <1>16, <1>18, <2>2

(* A multiple that is not negative, or not above another one.              *)
LEMMA FactorBounds ==
    ASSUME NEW D \in Nat \ {0}, NEW x \in Int, NEW y \in Int
    PROVE  /\ D * x >= 0 => x >= 0
           /\ D * x <= D * y => x <= y
<1>1. \A u, v \in Nat \ {0} : u * v \in Nat \ {0}
  OBVIOUS
<1>2. D * x \in Int /\ D * y \in Int
  OBVIOUS
<1>3. ASSUME NEW u \in Int, NEW v \in Int, u > v PROVE D * u > D * v
  <2>1. u - v \in Nat \ {0}
    BY <1>3
  <2>2. D * (u - v) \in Nat \ {0}
    BY <1>1, <2>1
  <2>3. D * u = D * v + D * (u - v)
    BY <1>3
  <2>4. D * u \in Int /\ D * v \in Int
    OBVIOUS
  <2>5. QED
    BY <2>2, <2>3, <2>4
<1>4. x < 0 => D * x < 0
  <2>1. D * 0 = 0
    OBVIOUS
  <2>2. 0 > x => D * 0 > D * x
    BY <1>3
  <2>3. QED
    BY <1>2, <2>1, <2>2
<1>5. x > y => D * x > D * y
  BY <1>3
<1>6. QED
  BY <1>2, <1>4, <1>5

(* The beneficiaries that rounding down takes something from.              *)
Rounded(shares, total) == {b \in DOMAIN shares : Remainders(shares, total)[b] > 0}

(* There are at least as many of them as units left over.                  *)
LEMMA LeftBounded ==
    ASSUME NEW shares, NEW D, NEW k, Whole(shares, D, k), NEW total \in Nat
    PROVE  /\ LeftOver(shares, total) \in Nat
           /\ LeftOver(shares, total) <= Cardinality(Rounded(shares, total))
           /\ IsFiniteSet(Rounded(shares, total))
           /\ Cardinality(Rounded(shares, total)) \in Nat
<1>1. PICK B, P : B = DOMAIN shares /\ P = Rounded(shares, total)
  OBVIOUS
<1> DEFINE ones == [b \in B |-> IF b \in P THEN 1 ELSE 0]
<1>2. PICK R, C, I, left : /\ R = CommonRemainders(shares, total, k)
                           /\ I = ones
                           /\ C = [b \in B |-> D * ones[b]]
                           /\ left = LeftOver(shares, total)
  OBVIOUS
<1>3. IsFiniteSet(B) /\ D \in Nat \ {0} /\ P \in SUBSET B
  BY <1>1 DEF Whole, Rounded
<1>4. IsFiniteSet(P) /\ Cardinality(P) \in Nat
  BY <1>3, FS_Subset, FS_CardinalityType
<1>5. \A b \in B : Divided(shares, total, D, k, b)
  BY <1>1, AllDivided
<1>6. R \in [B -> Nat]
  <2>1. R = [b \in B |-> R[b]]
    BY <1>1, <1>2 DEF CommonRemainders
  <2>2. \A b \in B : R[b] \in Nat
    BY <1>2, <1>5 DEF Divided
  <2>3. QED
    BY <2>1, <2>2
<1>7. I \in [B -> Nat]
  BY <1>2
<1>8. C \in [B -> Nat]
  BY <1>2, <1>3, <1>7, ProductFacts
<1>9. \A b \in B : R[b] <= C[b]
  <2>1. TAKE b \in B
  <2>2. R[b] \in Nat /\ R[b] < D /\ (R[b] = 0 <=> Remainders(shares, total)[b] = 0)
        /\ Remainders(shares, total)[b] \in Nat
    BY <1>2, <1>5, Zenon DEF Divided
  <2>3. b \in P <=> Remainders(shares, total)[b] > 0
    BY <1>1 DEF Rounded
  <2>4. CASE b \in P
    <3>1. C[b] = D
      BY <1>2, <1>3, <2>4
    <3>2. QED
      BY <1>3, <2>2, <3>1
  <2>5. CASE b \notin P
    <3>1. C[b] \in Nat /\ R[b] = 0
      BY <1>8, <2>2, <2>3, <2>5
    <3>2. QED
      BY <3>1
  <2>6. QED
    BY <2>4, <2>5
<1>10. SumFunction(R) <= SumFunction(C)
  <2>1. B \in SUBSET B
    OBVIOUS
  <2>2. QED
    BY <1>3, <1>6, <1>8, <1>9, <2>1, SumMonotone
<1>11. SumFunction(C) = D * SumFunction(I)
  BY <1>2, <1>3, <1>7, SumScaled
<1>12. SumFunction(I) = Cardinality(P)
  BY <1>2, <1>3, SumCounts
<1>13. left \in Int /\ D * left = SumFunction(R)
  BY <1>2, LeftIsRemainders
<1>14. SumFunction(R) \in Nat
  BY <1>3, <1>6, SumNatural
<1>15. left >= 0
  BY <1>3, <1>13, <1>14, FactorBounds
<1>16. left <= Cardinality(P)
  <2>1. PICK c : c = Cardinality(P)
    OBVIOUS
  <2>2. D * left <= D * c /\ c \in Int
    BY <1>4, <1>10, <1>11, <1>12, <1>13, <2>1
  <2>3. QED
    BY <1>3, <1>13, <2>1, <2>2, FactorBounds
<1>17. QED
  BY <1>1, <1>2, <1>4, <1>13, <1>15, <1>16

(* The order is that of the remainders over the common denominator.        *)
LEMMA GivenBeforeIs ==
    ASSUME NEW shares, NEW D, NEW k, Whole(shares, D, k), NEW total \in Nat,
           NEW a \in DOMAIN shares, NEW b \in DOMAIN shares,
           NEW R, R = CommonRemainders(shares, total, k)
    PROVE  /\ <<a, b>> \in ByRemainder(shares, total)
                <=> R[a] > R[b] \/ (R[a] = R[b] /\ a < b)
           /\ R[a] \in Nat /\ R[b] \in Nat
<1>1. PICK r, s, p, q : /\ r = Remainders(shares, total)[a]
                        /\ s = Remainders(shares, total)[b]
                        /\ p = shares[a][2] /\ q = shares[b][2]
  OBVIOUS
<1>2. p \in Nat \ {0} /\ q \in Nat \ {0} /\ k[a] \in Nat \ {0} /\ k[b] \in Nat \ {0}
      /\ p * k[a] = q * k[b]
  BY <1>1 DEF Whole
<1>3. Divided(shares, total, D, k, a) /\ Divided(shares, total, D, k, b)
  BY AllDivided
<1>4. r \in Nat /\ s \in Nat /\ R[a] \in Nat /\ R[b] \in Nat
  BY <1>1, <1>3 DEF Divided
<1>5. R[a] = r * k[a] /\ R[b] = s * k[b]
  BY <1>1 DEF CommonRemainders
<1>6. PICK i, j : i = k[a] /\ j = k[b]
  OBVIOUS
<1>7. SameOrder(r, s, p, q, i, j)
  <2>1. i \in Nat \ {0} /\ j \in Nat \ {0} /\ p * i = q * j
    BY <1>2, <1>6, Zenon
  <2>2. QED
    BY <1>2, <1>4, <2>1, CompareFractions
<1>8. GivenBefore(shares, total, a, b) <=> R[a] > R[b] \/ (R[a] = R[b] /\ a < b)
  BY <1>1, <1>5, <1>6, <1>7, Zenon DEF GivenBefore, SameOrder
<1>9. <<a, b>> \in ByRemainder(shares, total) <=> GivenBefore(shares, total, a, b)
  <2>1. <<a, b>> \in Pairs(DOMAIN shares) /\ <<a, b>>[1] = a /\ <<a, b>>[2] = b
    BY DEF Pairs
  <2>2. PICK z : z = <<a, b>>
    OBVIOUS
  <2>3. z \in ByRemainder(shares, total)
            <=> z \in Pairs(DOMAIN shares) /\ GivenBefore(shares, total, z[1], z[2])
    BY Zenon DEF ByRemainder
  <2>4. QED
    BY <2>1, <2>2, <2>3, Zenon
<1>10. QED
  BY <1>4, <1>8, <1>9

(* It is a strict order.                                                   *)
LEMMA RemaindersOrdered ==
    ASSUME NEW shares, NEW D, NEW k, Whole(shares, D, k), NEW total \in Nat
    PROVE  OrdersStrictly(ByRemainder(shares, total), DOMAIN shares)
<1>1. PICK R, B, O : /\ R = CommonRemainders(shares, total, k)
                     /\ B = DOMAIN shares /\ O = ByRemainder(shares, total)
  OBVIOUS
<1>2. \A a, b \in B : /\ <<a, b>> \in O <=> R[a] > R[b] \/ (R[a] = R[b] /\ a < b)
                      /\ R[a] \in Nat /\ R[b] \in Nat
  BY <1>1, GivenBeforeIs
<1>3. B \subseteq Int
  BY <1>1 DEF Whole
<1>4. \A a \in B : <<a, a>> \notin O
  BY <1>2, <1>3
<1>5. ASSUME NEW a \in B, NEW b \in B, NEW c \in B, <<a, b>> \in O, <<b, c>> \in O
      PROVE  <<a, c>> \in O
  BY <1>2, <1>3, <1>5
<1>6. ASSUME NEW a \in B, NEW b \in B, a # b PROVE <<a, b>> \in O \/ <<b, a>> \in O
  BY <1>2, <1>3, <1>6
<1>7. OrdersStrictly(O, B)
  BY <1>4, <1>5, <1>6 DEF OrdersStrictly
<1>8. QED
  BY <1>1, <1>7

(* Only those that rounding down took something from are given a unit.     *)
LEMMA GivenAreRounded ==
    ASSUME NEW shares, NEW D, NEW k, Whole(shares, D, k), NEW total \in Nat,
           NEW b \in FirstOf(ByRemainder(shares, total), DOMAIN shares,
                             LeftOver(shares, total))
    PROVE  b \in Rounded(shares, total)
<1>1. PICK R, B, O, left, P : /\ R = CommonRemainders(shares, total, k)
                              /\ B = DOMAIN shares /\ O = ByRemainder(shares, total)
                              /\ left = LeftOver(shares, total)
                              /\ P = Rounded(shares, total)
  OBVIOUS
<1>2. b \in B /\ Cardinality(Preceding(O, B, b)) < left
  BY <1>1, Zenon DEF FirstOf
<1>3. SUFFICES ASSUME b \notin P PROVE FALSE
  BY <1>1
<1>4. PICK F : F = Preceding(O, B, b)
  OBVIOUS
<1>5. P \subseteq F
  <2>1. ASSUME NEW a \in P PROVE a \in F
    <3>1. a \in B /\ Remainders(shares, total)[a] > 0
      BY <1>1, <2>1 DEF Rounded
    <3>2. Divided(shares, total, D, k, a) /\ Divided(shares, total, D, k, b)
      BY <1>1, <1>2, <3>1, AllDivided
    <3>3. R[a] \in Nat /\ R[b] \in Nat /\ Remainders(shares, total)[b] \in Nat
          /\ (R[a] = 0 <=> Remainders(shares, total)[a] = 0)
          /\ (R[b] = 0 <=> Remainders(shares, total)[b] = 0)
          /\ Remainders(shares, total)[a] \in Nat
      BY <1>1, <3>2, Zenon DEF Divided
    <3>4. ~(Remainders(shares, total)[b] > 0)
      BY <1>1, <1>2, <1>3 DEF Rounded
    <3>5. R[a] > R[b]
      BY <3>1, <3>3, <3>4
    <3>6. <<a, b>> \in O
      BY <1>1, <1>2, <3>1, <3>5, GivenBeforeIs
    <3>7. QED
      BY <1>4, <3>1, <3>6 DEF Preceding
  <2>2. QED
    BY <2>1
<1>6. IsFiniteSet(F)
  <2>1. IsFiniteSet(B) /\ F \in SUBSET B
    BY <1>1, <1>4 DEF Whole, Preceding
  <2>2. QED
    BY <2>1, FS_Subset
<1>7. Cardinality(P) <= Cardinality(F) /\ Cardinality(F) \in Nat
  BY <1>5, <1>6, FS_Subset, FS_CardinalityType
<1>8. left \in Nat /\ left <= Cardinality(P) /\ Cardinality(P) \in Nat
  BY <1>1, LeftBounded
<1>9. QED
  BY <1>2, <1>4, <1>7, <1>8

(* The amounts add up to the total, and each is its exact share rounded    *)
(* down or up.                                                             *)
LEMMA AmountsAddUp ==
    ASSUME NEW shares, NEW D, NEW k, Whole(shares, D, k), NEW total \in Nat
    PROVE  SumFunction(LargestRemainder(shares, total)) = total
<1>1. PICK B, O, left, F : /\ B = DOMAIN shares /\ O = ByRemainder(shares, total)
                           /\ left = LeftOver(shares, total)
                           /\ F = FirstOf(ByRemainder(shares, total), DOMAIN shares,
                                          LeftOver(shares, total))
  OBVIOUS
<1>2. PICK A, Q, I : /\ A = LargestRemainder(shares, total)
                     /\ Q = Quotients(shares, total)
                     /\ I = [b \in B |-> IF b \in F THEN 1 ELSE 0]
  OBVIOUS
<1>3. IsFiniteSet(B)
  BY <1>1 DEF Whole
<1>4. F \in SUBSET B
  BY <1>1, Zenon DEF FirstOf
<1>5. Q \in [B -> Nat]
  <2>1. Q = [b \in B |-> Q[b]]
    BY <1>1, <1>2 DEF Quotients
  <2>2. \A b \in B : Q[b] \in Nat
    BY <1>1, <1>2, AllDivided DEF Divided
  <2>3. QED
    BY <2>1, <2>2
<1>6. A = [b \in B |-> Q[b] + (IF b \in F THEN 1 ELSE 0)]
  BY <1>1, <1>2, LargestRemainderIs, Zenon
<1>7. I \in [B -> Nat] /\ A \in [B -> Nat] /\ \A b \in B : A[b] = Q[b] + I[b]
  BY <1>2, <1>5, <1>6
<1>8. SumFunction(A) = SumFunction(Q) + SumFunction(I)
  BY <1>3, <1>5, <1>7, SumDifference
<1>9. SumFunction(I) = Cardinality(F)
  BY <1>2, <1>3, <1>4, SumCounts
<1>10. Cardinality(F) = left
  <2>1. OrdersStrictly(O, B)
    BY <1>1, RemaindersOrdered
  <2>2. PICK P : P = Rounded(shares, total)
    OBVIOUS
  <2>3. left \in Nat /\ left <= Cardinality(P) /\ Cardinality(P) \in Nat
    BY <1>1, <2>2, LeftBounded
  <2>4. P \in SUBSET B
    BY <1>1, <2>2 DEF Rounded
  <2>5. Cardinality(P) <= Cardinality(B) /\ Cardinality(B) \in Nat
    BY <1>3, <2>4, FS_Subset, FS_CardinalityType
  <2>6. left <= Cardinality(B)
    BY <2>3, <2>5
  <2>7. Cardinality(FirstOf(O, B, left)) = left
    BY <1>3, <2>1, <2>3, <2>6, RankCounts
  <2>8. QED
    BY <1>1, <2>7
<1>11. left = total - SumFunction(Q)
  BY <1>1, <1>2 DEF LeftOver
<1>12. SumFunction(Q) \in Nat
  BY <1>3, <1>5, SumNatural
<1>13. QED
  BY <1>2, <1>8, <1>9, <1>10, <1>11, <1>12

AmountFacts(x, d, q, r, amount, given) ==
    /\ q \in Nat /\ r \in Nat /\ r < d
    /\ x = d * q + r
    /\ (given /\ amount = q + 1 /\ r > 0) \/ (~given /\ amount = q)

Given(shares, total) ==
    FirstOf(ByRemainder(shares, total), DOMAIN shares, LeftOver(shares, total))

(* One amount.                                                             *)
LEMMA AmountIs ==
    ASSUME NEW shares, NEW D, NEW k, Whole(shares, D, k), NEW total \in Nat,
           NEW b \in DOMAIN shares
    PROVE  AmountFacts(total * shares[b][1], shares[b][2], Quotients(shares, total)[b],
                       Remainders(shares, total)[b], LargestRemainder(shares, total)[b],
                       b \in Given(shares, total))
<1> DEFINE q == Quotients(shares, total)[b]
           r == Remainders(shares, total)[b]
           F == Given(shares, total)
           amount == LargestRemainder(shares, total)[b]
<1>1. /\ q \in Nat /\ r \in Nat /\ r < shares[b][2]
      /\ total * shares[b][1] = shares[b][2] * q + r
  BY AllDivided DEF Divided
<1>2. amount = q + (IF b \in F THEN 1 ELSE 0)
  BY LargestRemainderIs, Zenon DEF Given
<1>3. b \in F => r > 0
  <2>1. SUFFICES ASSUME b \in F PROVE r > 0
    OBVIOUS
  <2>2. b \in Rounded(shares, total)
    BY <2>1, GivenAreRounded DEF Given
  <2>3. QED
    BY <2>2, Zenon DEF Rounded
<1>4. (b \in F /\ amount = q + 1 /\ r > 0) \/ (b \notin F /\ amount = q)
  <2>1. CASE b \in F
    BY <1>2, <1>3, <2>1, Zenon
  <2>2. CASE b \notin F
    <3>1. amount = q + 0
      BY <1>2, <2>2, Zenon
    <3>2. QED
      BY <1>1, <2>2, <3>1
  <2>3. QED
    BY <2>1, <2>2
<1>5. QED
  BY <1>1, <1>4, Zenon DEF AmountFacts

(* An amount of whole units between the ones around an exact share.        *)
LEMMA RoundedBounds ==
    ASSUME NEW x \in Nat, NEW d \in Nat \ {0}, NEW q \in Nat, NEW r \in Nat, r < d,
           x = d * q + r, NEW amount, amount = q \/ (amount = q + 1 /\ r > 0)
    PROVE  amount * d < x + d /\ amount * d > x - d
<1>1. q * d = d * q /\ (q + 1) * d = d * q + d /\ d * q \in Nat
  OBVIOUS
<1>2. PICK y : y = d * q
  OBVIOUS
<1>3. amount * d = y \/ (amount * d = y + d /\ r > 0)
  BY <1>1, <1>2
<1>4. QED
  BY <1>1, <1>2, <1>3

(* largestRemainder gives out every unit once and rounds every share down  *)
(* or up.                                                                  *)
LEMMA LargestRemainderFair ==
    ASSUME NEW shares, NEW D, NEW k, Whole(shares, D, k), NEW total \in Nat
    PROVE  ShareOf(LargestRemainder(shares, total), shares, total)
<1>1. SumFunction(LargestRemainder(shares, total)) = total
  BY AmountsAddUp
<1>2. ASSUME NEW b \in DOMAIN shares
      PROVE  LET exact == total * shares[b][1]
                 amounts == LargestRemainder(shares, total)
             IN  /\ amounts[b] * shares[b][2] < exact + shares[b][2]
                 /\ amounts[b] * shares[b][2] > exact - shares[b][2]
  <2>1. PICK x, d, q, r, amount : /\ x = total * shares[b][1] /\ d = shares[b][2]
                                  /\ q = Quotients(shares, total)[b]
                                  /\ r = Remainders(shares, total)[b]
                                  /\ amount = LargestRemainder(shares, total)[b]
    OBVIOUS
  <2>2. shares[b][1] \in Nat /\ d \in Nat \ {0}
    BY <2>1 DEF Whole
  <2>3. x \in Nat
    BY <2>1, <2>2, ProductFacts
  <2>4. /\ q \in Nat /\ r \in Nat /\ r < d
        /\ x = d * q + r
        /\ amount = q \/ (amount = q + 1 /\ r > 0)
    BY <2>1, AmountIs, Zenon DEF AmountFacts
  <2>5. amount * d < x + d /\ amount * d > x - d
    BY <2>2, <2>3, <2>4, RoundedBounds
  <2>6. QED
    BY <2>1, <2>5, Zenon
<1>3. QED
  BY <1>1, <1>2, Zenon DEF ShareOf

(* A quotient of at least as much is at least as large.                    *)
LEMMA QuotientAtLeast ==
    ASSUME NEW x \in Nat, NEW d \in Nat \ {0}, NEW q \in Nat, NEW r \in Nat, r < d,
           x = d * q + r, NEW p \in Nat, p * d <= x
    PROVE  q >= p
<1>1. SUFFICES ASSUME q + 1 <= p PROVE FALSE
  OBVIOUS
<1>2. (q + 1) * d <= p * d
  <2>1. q + 1 \in Nat
    OBVIOUS
  <2>2. QED
    BY <1>1, <2>1, FactorOrder
<1>3. (q + 1) * d = d * q + d /\ d * q \in Nat /\ p * d \in Nat
  OBVIOUS
<1>4. PICK y, z : y = d * q /\ z = p * d
  OBVIOUS
<1>5. QED
  BY <1>2, <1>3, <1>4

(* A share of a tenth or more is given a tenth.                            *)
LEMMA TenthGiven ==
    ASSUME NEW shares, NEW D, NEW k, Whole(shares, D, k), NEW total \in Nat,
           NEW b \in DOMAIN shares, shares[b][2] <= 10 * shares[b][1]
    PROVE  LargestRemainder(shares, total)[b] >= total \div 10
<1>1. PICK n, x, d, q, r, amount : /\ n = shares[b][1] /\ x = total * shares[b][1]
                                   /\ d = shares[b][2]
                                   /\ q = Quotients(shares, total)[b]
                                   /\ r = Remainders(shares, total)[b]
                                   /\ amount = LargestRemainder(shares, total)[b]
  OBVIOUS
<1>2. n \in Nat /\ d \in Nat \ {0} /\ d <= 10 * n /\ x = total * n
  BY <1>1 DEF Whole
<1>3. x \in Nat
  BY <1>2, ProductFacts
<1>4. /\ q \in Nat /\ r \in Nat /\ r < d
      /\ x = d * q + r
      /\ amount = q \/ (amount = q + 1 /\ r > 0)
  BY <1>1, AmountIs, Zenon DEF AmountFacts
<1>5. PICK p : p = total \div 10
  OBVIOUS
<1>6. p \in Nat /\ p * 10 <= total
  BY <1>5
<1>7. p * d <= x
  <2>1. p * d <= p * (10 * n)
    <3>1. d * p <= (10 * n) * p
      <4>1. CASE p = 0
        BY <1>2, <4>1
      <4>2. CASE p # 0
        <5>1. p \in Nat \ {0} /\ 10 * n \in Nat
          BY <1>2, <1>6, <4>2
        <5>2. QED
          BY <1>2, <5>1, FactorOrder
      <4>3. QED
        BY <4>1, <4>2
    <3>2. d * p = p * d /\ (10 * n) * p = p * (10 * n)
      BY <1>2, <1>6, Regroup
    <3>3. QED
      BY <3>1, <3>2
  <2>2. (p * 10) * n <= total * n
    <3>1. CASE n = 0
      BY <1>6, <3>1
    <3>2. CASE n # 0
      <4>1. n \in Nat \ {0} /\ p * 10 \in Nat
        BY <1>2, <1>6, <3>2
      <4>2. QED
        BY <1>6, <4>1, FactorOrder
    <3>3. QED
      BY <3>1, <3>2
  <2>3. p * (10 * n) = (p * 10) * n
    BY <1>2, <1>6, Regroup
  <2>4. p * d \in Nat /\ (p * 10) * n \in Nat /\ total * n \in Nat
    <3>1. p * 10 \in Nat
      BY <1>6
    <3>2. QED
      BY <1>2, <1>6, <3>1, ProductFacts
  <2>5. QED
    BY <1>2, <2>1, <2>2, <2>3, <2>4
<1>8. q >= p
  BY <1>2, <1>3, <1>4, <1>6, <1>7, QuotientAtLeast
<1>9. amount >= p
  BY <1>4, <1>6, <1>8
<1>10. QED
  BY <1>1, <1>5, <1>9

(* Of two shares over the same denominator the larger is not given less,   *)
(* and two empty ones are given the same.                                  *)
LEMMA LargerShareGiven ==
    ASSUME NEW shares, NEW D, NEW k, Whole(shares, D, k), NEW total \in Nat,
           NEW g \in DOMAIN shares, NEW h \in DOMAIN shares, shares[g][2] = shares[h][2],
           \/ total * shares[g][1] > total * shares[h][1]
           \/ total * shares[g][1] = 0 /\ total * shares[h][1] = 0
    PROVE  LargestRemainder(shares, total)[g] >= LargestRemainder(shares, total)[h]
<1>1. PICK B, O, left, F : /\ B = DOMAIN shares /\ O = ByRemainder(shares, total)
                           /\ left = LeftOver(shares, total)
                           /\ F = Given(shares, total)
  OBVIOUS
<1>2. PICK d, x, q, r, a : /\ d = shares[g][2] /\ x = total * shares[g][1]
                           /\ q = Quotients(shares, total)[g]
                           /\ r = Remainders(shares, total)[g]
                           /\ a = LargestRemainder(shares, total)[g]
  OBVIOUS
<1>3. PICK y, p, s, c : /\ y = total * shares[h][1]
                        /\ p = Quotients(shares, total)[h]
                        /\ s = Remainders(shares, total)[h]
                        /\ c = LargestRemainder(shares, total)[h]
  OBVIOUS
<1>4. d \in Nat \ {0} /\ d = shares[h][2]
  BY <1>2 DEF Whole
<1>5. AmountFacts(x, d, q, r, a, g \in F)
  BY <1>1, <1>2, AmountIs
<1>6. AmountFacts(y, d, p, s, c, h \in F)
  BY <1>1, <1>3, <1>4, AmountIs
<1> USE DEF AmountFacts
<1>7. d * q \in Nat /\ d * p \in Nat
  BY <1>4, <1>5, <1>6, ProductFacts
<1>8. CASE x = 0 /\ y = 0
  <2>1. d * q = 0 /\ d * p = 0 /\ r = 0 /\ s = 0
    <3>1. PICK u, v : u = d * q /\ v = d * p
      OBVIOUS
    <3>2. u \in Nat /\ v \in Nat /\ u + r = 0 /\ v + s = 0 /\ r \in Nat /\ s \in Nat
      BY <1>5, <1>6, <1>7, <1>8, <3>1, Zenon
    <3>3. QED
      BY <3>1, <3>2
  <2>2. \A u, v \in Nat \ {0} : u * v \in Nat \ {0}
    OBVIOUS
  <2>3. q = 0 /\ p = 0
    BY <1>4, <1>5, <1>6, <2>1, <2>2
  <2>4. QED
    BY <1>2, <1>3, <1>5, <1>6, <2>1, <2>3
<1>9. CASE x > y
  <2>1. q >= p
    <3>1. p * d = d * p
      BY <1>4, <1>6, Regroup
    <3>2. x \in Nat /\ p * d <= x
      BY <1>4, <1>5, <1>6, <1>7, <1>9, <3>1
    <3>3. QED
      BY <1>4, <1>5, <1>6, <3>2, QuotientAtLeast
  <2>2. CASE q > p
    BY <1>2, <1>3, <1>5, <1>6, <2>2
  <2>3. CASE q = p
    <3>1. r > s
      BY <1>5, <1>6, <1>7, <1>9, <2>3
    <3>2. PICK i, R : i = k[g] /\ R = CommonRemainders(shares, total, k)
      OBVIOUS
    <3>3. i \in Nat \ {0} /\ k[h] \in Nat \ {0} /\ d * i = D /\ d * k[h] = D
      BY <1>2, <1>4, <3>2 DEF Whole
    <3>4. k[h] = i
      <4>1. PICK j : j = k[h]
        OBVIOUS
      <4>2. j \in Nat /\ i \in Nat /\ j * d = i * d
        BY <1>4, <3>3, <4>1, Regroup
      <4>3. j = i
        BY <1>4, <4>2, FactorOrder
      <4>4. QED
        BY <4>1, <4>3
    <3>5. R[g] = r * i /\ R[h] = s * i
      BY <1>2, <1>3, <3>2, <3>4 DEF CommonRemainders
    <3>6. R[g] > R[h]
      BY <1>5, <1>6, <3>1, <3>3, <3>5, FactorOrder
    <3>7. <<g, h>> \in O
      BY <1>1, <3>2, <3>6, GivenBeforeIs
    <3>8. OrdersStrictly(O, B) /\ IsFiniteSet(B)
      BY <1>1, RemaindersOrdered DEF Whole
    <3>9. PICK m, n : m = Cardinality(Preceding(O, B, g)) /\ n = Cardinality(Preceding(O, B, h))
      OBVIOUS
    <3>10. m \in Nat /\ n \in Nat /\ m <= n
      BY <1>1, <3>7, <3>8, <3>9, RankGrows
    <3>11. left \in Nat
      BY <1>1, LeftBounded
    <3>12. (g \in F <=> m < left) /\ (h \in F <=> n < left)
      BY <1>1, <3>9, Zenon DEF FirstOf, Given
    <3>13. h \in F => g \in F
      BY <3>10, <3>11, <3>12
    <3>14. QED
      BY <1>2, <1>3, <1>5, <1>6, <2>3, <3>13
  <2>4. QED
    BY <1>5, <1>6, <2>1, <2>2, <2>3
<1>10. QED
  BY <1>2, <1>3, <1>8, <1>9

-----------------------------------------------------------------------------
(* settlementRatios.                                                       *)

(* What settlementRatios divides by: eligible weights of groups that are   *)
(* neither the founder nor the reserve.                                    *)
Weighed(weights, measured) ==
    /\ IsFiniteSet(DOMAIN weights)
    /\ weights \in [DOMAIN weights -> Nat \ {0}]
    /\ DOMAIN weights \subseteq 1..MaxEvents
    /\ measured \in Nat

(* The founder's share is a tenth or more, and no more than the whole.     *)
LEMMA FounderShareIs ==
    ASSUME NEW measured \in Nat, NEW share, share = FounderShare(FounderScaled, measured)
    PROVE  /\ share[1] \in Nat /\ share[2] \in Nat \ {0}
           /\ share[1] <= share[2] /\ share[2] <= 10 * share[1]
<1>1. CASE 10 * FounderScaled < FounderScaled + measured
  <2>1. share[1] = 1 /\ share[2] = 10
    BY <1>1 DEF FounderShare
  <2>2. QED
    BY <2>1
<1>2. CASE ~(10 * FounderScaled < FounderScaled + measured)
  <2>1. share[1] = FounderScaled /\ share[2] = FounderScaled + measured
    BY <1>2 DEF FounderShare
  <2>2. QED
    BY <1>2, <2>1, SettlementAssumption
<1>3. QED
  BY <1>1, <1>2

SharesSplit(shares, share, weights) ==
    /\ Founder \in DOMAIN shares /\ Founder \notin DOMAIN weights
    /\ shares[Founder][1] = share[1] /\ shares[Founder][2] = share[2]
    /\ DOMAIN weights = {} =>
        /\ DOMAIN shares = {Founder, Reserve} /\ Founder # Reserve
        /\ shares[Reserve][1] = share[2] - share[1]
        /\ shares[Reserve][2] = share[2]
    /\ DOMAIN weights # {} =>
        /\ DOMAIN shares = {Founder} \cup DOMAIN weights
        /\ \A g \in DOMAIN weights :
                /\ shares[g][1] = (share[2] - share[1]) * weights[g]
                /\ shares[g][2] = share[2] * SumFunction(weights)

(* The share of each beneficiary.                                          *)
LEMMA SharesAre ==
    ASSUME NEW weights, NEW measured, Weighed(weights, measured),
           NEW share, share = FounderShare(FounderScaled, measured),
           NEW shares, shares = Shares(Founder, Reserve, FounderScaled, weights, measured)
    PROVE  SharesSplit(shares, share, weights)
<1>1. /\ Founder \notin DOMAIN weights /\ Reserve \notin DOMAIN weights /\ Founder # Reserve
      /\ Founder \in Int /\ Reserve \in Int
  BY SettlementAssumption DEF Weighed, Founder, Reserve
<1>2. PICK E, G, B : /\ E = SumFunction(weights) /\ G = DOMAIN weights
                     /\ B = {Founder} \cup (IF DOMAIN weights = {} THEN {Reserve}
                                            ELSE DOMAIN weights)
  OBVIOUS
<1>3. shares = [b \in B |->
                CASE b = Founder -> share
                  [] b = Reserve -> <<share[2] - share[1], share[2]>>
                  [] OTHER -> <<(share[2] - share[1]) * weights[b], share[2] * E>>]
  <2>1. shares = [b \in {Founder} \cup (IF DOMAIN weights = {} THEN {Reserve}
                                        ELSE DOMAIN weights) |->
                CASE b = Founder -> share
                  [] b = Reserve -> <<share[2] - share[1], share[2]>>
                  [] OTHER -> <<(share[2] - share[1]) * weights[b],
                                share[2] * SumFunction(weights)>>]
    BY DEF Shares
  <2>2. QED
    BY <1>2, <2>1
<1>4. DOMAIN shares = B /\ Founder \in B
  BY <1>2, <1>3
<1>5. shares[Founder] = share
  BY <1>1, <1>3, <1>4
<1>6. Reserve \in B => shares[Reserve] = <<share[2] - share[1], share[2]>>
  BY <1>1, <1>3
<1>7. ASSUME NEW g \in G, G # {}
      PROVE  shares[g] = <<(share[2] - share[1]) * weights[g], share[2] * E>>
  <2>1. g \in B /\ g # Founder /\ g # Reserve
    BY <1>1, <1>2, <1>7
  <2>2. QED
    BY <1>3, <2>1, Zenon
<1>8. CASE G = {}
  <2>1. B = {Founder, Reserve}
    BY <1>2, <1>8
  <2>2. QED
    BY <1>1, <1>2, <1>4, <1>5, <1>6, <1>8, <2>1 DEF SharesSplit
<1>9. CASE G # {}
  <2>1. B = {Founder} \cup G
    BY <1>2, <1>9
  <2>2. \A g \in G : /\ shares[g][1] = (share[2] - share[1]) * weights[g]
                     /\ shares[g][2] = share[2] * E
    BY <1>7, <1>9
  <2>3. QED
    BY <1>1, <1>2, <1>4, <1>5, <1>9, <2>1, <2>2 DEF SharesSplit
<1>10. QED
  BY <1>8, <1>9

(* Positive weights have a positive sum.                                   *)
LEMMA WeightsPositive ==
    ASSUME NEW weights, IsFiniteSet(DOMAIN weights),
           weights \in [DOMAIN weights -> Nat \ {0}], DOMAIN weights # {}
    PROVE  SumFunction(weights) \in Nat \ {0}
<1>1. PICK G : G = DOMAIN weights
  OBVIOUS
<1>2. IsFiniteSet(G) /\ weights \in [G -> Nat] /\ G # {}
  BY <1>1
<1>3. PICK g \in G : TRUE
  BY <1>2
<1>4. PICK H, rest : H = G \ {g} /\ rest = [y \in G \ {g} |-> weights[y]]
  OBVIOUS
<1>5. SumFunction(weights) = weights[g] + SumFunction(rest)
  BY <1>2, <1>4, SumRemove
<1>6. IsFiniteSet(H) /\ rest \in [H -> Nat]
  BY <1>2, <1>4, FS_Subset
<1>7. SumFunction(rest) \in Nat
  BY <1>6, SumNatural
<1>8. weights[g] \in Nat \ {0}
  BY <1>1
<1>9. QED
  BY <1>5, <1>7, <1>8

(* A sum over the founder and others.                                      *)
LEMMA SumWithFounder ==
    ASSUME NEW G, IsFiniteSet(G), Founder \notin G, NEW N \in [{Founder} \cup G -> Nat]
    PROVE  /\ IsFiniteSet({Founder} \cup G)
           /\ SumFunction(N) = N[Founder] + SumFunction([g \in G |-> N[g]])
<1>1. PICK B : B = {Founder} \cup G
  OBVIOUS
<1>2. IsFiniteSet(B)
  <2>1. B = G \cup {Founder}
    BY <1>1
  <2>2. QED
    BY <2>1, FS_AddElement
<1>3. N \in [B -> Nat] /\ Founder \in B /\ B \ {Founder} = G
  BY <1>1
<1>4. SumFunction(N) = N[Founder] + SumFunction([y \in B \ {Founder} |-> N[y]])
  BY <1>2, <1>3, SumRemove
<1>5. QED
  BY <1>1, <1>2, <1>3, <1>4

(* settlementRatios gives out exactly the whole.                           *)
LEMMA SharesWhole ==
    ASSUME NEW weights, NEW measured, Weighed(weights, measured),
           NEW shares, shares = Shares(Founder, Reserve, FounderScaled, weights, measured)
    PROVE  \E D, k : Whole(shares, D, k)
<1>1. PICK share : share = FounderShare(FounderScaled, measured)
  OBVIOUS
<1>2. measured \in Nat
  BY DEF Weighed
<1>3. PICK f, F, G, B : f = share[1] /\ F = share[2] /\ G = DOMAIN weights /\ B = DOMAIN shares
  OBVIOUS
<1>4. f \in Nat /\ F \in Nat \ {0} /\ f <= F
  BY <1>1, <1>2, <1>3, FounderShareIs
<1>5. PICK e : e = F - f
  OBVIOUS
<1>6. e \in Nat /\ f + e = F
  BY <1>4, <1>5
<1>7. Founder \in Int /\ Reserve \in Int /\ G \subseteq Int /\ IsFiniteSet(G)
  <2>1. Founder \in Int /\ Reserve \in Int
    BY SettlementAssumption DEF Founder, Reserve
  <2>2. G \subseteq 1..MaxEvents /\ IsFiniteSet(G)
    BY <1>3 DEF Weighed
  <2>3. QED
    BY <2>1, <2>2
<1>8. CASE G = {}
  <2>1. /\ B = {Founder, Reserve} /\ Founder # Reserve
        /\ shares[Founder][1] = f /\ shares[Founder][2] = F
        /\ shares[Reserve][1] = e /\ shares[Reserve][2] = F
    <3>1. SharesSplit(shares, share, weights)
      BY <1>1, SharesAre
    <3>2. QED
      BY <1>3, <1>5, <1>8, <3>1, Zenon DEF SharesSplit
  <2>2. PICK k, N, R : /\ k = [b \in B |-> 1]
                       /\ N = [b \in B |-> shares[b][1] * 1]
                       /\ R = {Reserve}
    OBVIOUS
  <2>3. k \in [B -> Nat \ {0}]
    BY <2>2
  <2>4. \A b \in B : shares[b][1] \in Nat /\ shares[b][2] = F /\ F * 1 = F
    BY <1>4, <1>6, <2>1
  <2>5. N \in [B -> Nat] /\ N[Founder] = f /\ N[Reserve] = e
    BY <1>4, <1>6, <2>1, <2>2
  <2>6. IsFiniteSet(R) /\ Founder \notin R /\ B = {Founder} \cup R
    BY <2>1, <2>2, FS_Singleton
  <2>7. IsFiniteSet(B) /\ SumFunction(N) = f + SumFunction([g \in R |-> N[g]])
    BY <2>5, <2>6, SumWithFounder
  <2>8. SumFunction([g \in R |-> N[g]]) = e
    <3>1. PICK M : M = [g \in R |-> N[g]]
      OBVIOUS
    <3>2. M \in [R -> Nat] /\ M[Reserve] = e /\ Reserve \in R
      BY <2>1, <2>2, <2>5, <3>1
    <3>3. PICK z : z = [y \in R \ {Reserve} |-> M[y]]
      OBVIOUS
    <3>4. SumFunction(M) = M[Reserve] + SumFunction(z)
      BY <2>6, <3>2, <3>3, SumRemove
    <3>5. DOMAIN z = {}
      BY <2>2, <3>3
    <3>6. SumFunction(z) = 0
      BY <3>5, SumEmpty
    <3>7. QED
      BY <1>6, <3>1, <3>2, <3>4, <3>6
  <2>9. SumFunction(N) = F
    BY <1>6, <2>7, <2>8
  <2>10. N = [b \in B |-> shares[b][1] * k[b]] /\ \A b \in B : k[b] = 1
    BY <2>2
  <2>11. B \subseteq Int
    BY <1>7, <2>1
  <2>12. Whole(shares, F, k)
    <3>1. \A b \in B : /\ shares[b][1] \in Nat /\ shares[b][2] \in Nat \ {0}
                       /\ shares[b][2] * k[b] = F
      BY <1>4, <2>4, <2>10
    <3>2. SumFunction([b \in B |-> shares[b][1] * k[b]]) = F
      BY <2>9, <2>10
    <3>3. QED
      BY <1>3, <1>4, <2>3, <2>7, <2>11, <3>1, <3>2, Zenon DEF Whole
  <2>13. QED
    BY <2>12
<1>9. CASE G # {}
  <2>1. PICK E : E = SumFunction(weights)
    OBVIOUS
  <2>2. E \in Nat \ {0}
    BY <1>3, <1>9, <2>1, WeightsPositive DEF Weighed
  <2>3. /\ B = {Founder} \cup G /\ Founder \notin G
        /\ shares[Founder][1] = f /\ shares[Founder][2] = F
        /\ \A g \in G : shares[g][1] = e * weights[g] /\ shares[g][2] = F * E
    <3>1. SharesSplit(shares, share, weights)
      BY <1>1, SharesAre
    <3>2. QED
      BY <1>3, <1>5, <1>9, <2>1, <3>1, Zenon DEF SharesSplit
  <2>4. PICK D, k, W : /\ D = F * E /\ k = [b \in B |-> IF b = Founder THEN E ELSE 1]
                       /\ W = [g \in G |-> e * weights[g]]
    OBVIOUS
  <2>5. PICK N : N = [b \in B |-> shares[b][1] * k[b]]
    OBVIOUS
  <2>6. k \in [B -> Nat \ {0}] /\ k[Founder] = E /\ \A g \in G : k[g] = 1
    BY <2>2, <2>3, <2>4
  <2>7. D \in Nat \ {0}
    <3>1. \A u, v \in Nat \ {0} : u * v \in Nat \ {0}
      OBVIOUS
    <3>2. QED
      BY <1>4, <2>2, <2>4, <3>1
  <2>8. \A g \in G : weights[g] \in Nat
    BY <1>3 DEF Weighed
  <2>9. \A g \in G : e * weights[g] \in Nat
    BY <1>6, <2>8, ProductFacts
  <2>10. \A b \in B : /\ shares[b][1] \in Nat /\ shares[b][2] \in Nat \ {0}
                      /\ shares[b][2] * k[b] = D
    <3>1. ASSUME NEW g \in G
          PROVE  shares[g][1] \in Nat /\ shares[g][2] \in Nat \ {0} /\ shares[g][2] * k[g] = D
      <4>1. shares[g][1] = e * weights[g] /\ shares[g][2] = D /\ k[g] = 1
        BY <2>3, <2>4, <2>6
      <4>2. D * 1 = D
        BY <2>7
      <4>3. QED
        BY <2>7, <2>9, <4>1, <4>2
    <3>2. shares[Founder][1] \in Nat /\ shares[Founder][2] \in Nat \ {0}
          /\ shares[Founder][2] * k[Founder] = D
      BY <1>4, <2>3, <2>4, <2>6
    <3>3. QED
      BY <2>3, <3>1, <3>2
  <2>11. N[Founder] = f * E /\ \A g \in G : N[g] = e * weights[g]
    <3>1. N[Founder] = f * E
      BY <2>3, <2>5, <2>6
    <3>2. ASSUME NEW g \in G PROVE N[g] = e * weights[g]
      <4>1. N[g] = shares[g][1] * k[g]
        BY <2>3, <2>5
      <4>2. shares[g][1] = e * weights[g] /\ k[g] = 1
        BY <2>3, <2>6
      <4>3. PICK w : w = e * weights[g]
        OBVIOUS
      <4>4. w \in Nat /\ w * 1 = w
        BY <2>9, <4>3
      <4>5. QED
        BY <4>1, <4>2, <4>3, <4>4
    <3>3. QED
      BY <3>1, <3>2
  <2>12. N \in [B -> Nat]
    <3>1. f * E \in Nat
      BY <1>4, <2>2, ProductFacts
    <3>2. \A b \in B : N[b] \in Nat
      BY <2>3, <2>9, <2>11, <3>1
    <3>3. N = [b \in B |-> N[b]]
      BY <2>5
    <3>4. QED
      BY <3>2, <3>3
  <2>13. IsFiniteSet(B) /\ SumFunction(N) = N[Founder] + SumFunction([g \in G |-> N[g]])
    BY <1>7, <2>3, <2>12, SumWithFounder
  <2>14. [g \in G |-> N[g]] = W
    BY <2>4, <2>11
  <2>15. SumFunction(W) = e * E
    <3>1. weights \in [G -> Nat]
      BY <1>3 DEF Weighed
    <3>2. W = [g \in G |-> e * weights[g]] /\ e \in Nat /\ IsFiniteSet(G)
      BY <1>6, <1>7, <2>4
    <3>3. SumFunction(W) = e * SumFunction(weights)
      BY <3>1, <3>2, SumScaled
    <3>4. QED
      BY <2>1, <3>3
  <2>16. SumFunction(N) = D
    <3>1. SumFunction(N) = f * E + e * E
      BY <2>11, <2>13, <2>14, <2>15
    <3>2. E * (f + e) = E * f + E * e
      BY <1>4, <1>6, <2>2, ProductFacts
    <3>3. E * f = f * E /\ E * e = e * E /\ E * F = F * E
      BY <1>4, <1>6, <2>2, Regroup
    <3>4. QED
      BY <1>6, <2>4, <3>1, <3>2, <3>3
  <2>17. B \subseteq Int
    BY <1>7, <2>3
  <2>18. Whole(shares, D, k)
    BY <1>3, <2>5, <2>6, <2>7, <2>10, <2>13, <2>16, <2>17, Zenon DEF Whole
  <2>19. QED
    BY <2>18
<1>10. QED
  BY <1>8, <1>9

(* What AllocationsFair says of one settlement.                            *)
Fair(d, w) ==
    /\ ShareOf(d.poolOf, d.shares, d.pool)
    /\ ShareOf(d.valueOf, d.shares, d.value)
    /\ d.poolOf[Founder] >= d.pool \div 10
    /\ \A g, h \in DOMAIN w : w[g] > w[h] => d.poolOf[g] >= d.poolOf[h]

(* More weight is not given less.                                          *)
LEMMA WeightGiven ==
    ASSUME NEW weights, NEW measured, Weighed(weights, measured),
           NEW shares, shares = Shares(Founder, Reserve, FounderScaled, weights, measured),
           NEW total \in Nat, NEW g \in DOMAIN weights, NEW h \in DOMAIN weights,
           weights[g] > weights[h]
    PROVE  LargestRemainder(shares, total)[g] >= LargestRemainder(shares, total)[h]
<1>1. PICK D, k : Whole(shares, D, k)
  BY SharesWhole
<1>2. PICK share : share = FounderShare(FounderScaled, measured)
  OBVIOUS
<1>3. SharesSplit(shares, share, weights)
  BY <1>2, SharesAre
<1>4. PICK e, u, v : e = share[2] - share[1] /\ u = weights[g] /\ v = weights[h]
  OBVIOUS
<1>5. /\ g \in DOMAIN shares /\ h \in DOMAIN shares /\ shares[g][2] = shares[h][2]
      /\ shares[g][1] = e * u /\ shares[h][1] = e * v
  BY <1>3, <1>4, Zenon DEF SharesSplit
<1>6. e \in Nat
  <2>1. measured \in Nat
    BY DEF Weighed
  <2>2. share[1] \in Nat /\ share[2] \in Nat /\ share[1] <= share[2]
    BY <1>2, <2>1, FounderShareIs
  <2>3. QED
    BY <1>4, <2>2
<1>7. u \in Nat /\ v \in Nat /\ u > v
  BY <1>4 DEF Weighed
<1>8. PICK m : m = total * e
  OBVIOUS
<1>9. m \in Nat
  BY <1>6, <1>8, ProductFacts
<1>10. total * (e * u) = u * m /\ total * (e * v) = v * m
  BY <1>6, <1>7, <1>8, <1>9, Regroup
<1>11. \/ total * shares[g][1] > total * shares[h][1]
       \/ total * shares[g][1] = 0 /\ total * shares[h][1] = 0
  <2>1. CASE m = 0
    <3>1. u * m = 0 /\ v * m = 0
      BY <1>7, <2>1
    <3>2. QED
      BY <1>5, <1>10, <3>1
  <2>2. CASE m # 0
    <3>1. u * m > v * m
      BY <1>7, <1>9, <2>2, FactorOrder
    <3>2. QED
      BY <1>5, <1>10, <3>1
  <2>3. QED
    BY <2>1, <2>2
<1>12. QED
  BY <1>1, <1>5, <1>11, LargerShareGiven

(* largestRemainder over the shares of settlementRatios.                   *)
LEMMA RatiosFair ==
    ASSUME NEW weights, NEW measured, Weighed(weights, measured),
           NEW shares, shares = Shares(Founder, Reserve, FounderScaled, weights, measured),
           NEW pool \in Nat, NEW value \in Nat, NEW d, d.shares = shares,
           d.pool = pool, d.value = value,
           d.poolOf = LargestRemainder(shares, pool),
           d.valueOf = LargestRemainder(shares, value)
    PROVE  Fair(d, weights)
<1>1. PICK D, k : Whole(shares, D, k)
  BY SharesWhole
<1>2. ShareOf(LargestRemainder(shares, pool), shares, pool)
  BY <1>1, LargestRemainderFair
<1>3. ShareOf(LargestRemainder(shares, value), shares, value)
  BY <1>1, LargestRemainderFair
<1>4. LargestRemainder(shares, pool)[Founder] >= pool \div 10
  <2>1. PICK share : share = FounderShare(FounderScaled, measured)
    OBVIOUS
  <2>2. SharesSplit(shares, share, weights)
    BY <2>1, SharesAre
  <2>3. measured \in Nat
    BY DEF Weighed
  <2>4. share[2] <= 10 * share[1]
    BY <2>1, <2>3, FounderShareIs
  <2>5. PICK b : b = Founder
    OBVIOUS
  <2>6. b \in DOMAIN shares /\ shares[b][2] <= 10 * shares[b][1]
    BY <2>2, <2>4, <2>5, Zenon DEF SharesSplit
  <2>7. LargestRemainder(shares, pool)[b] >= pool \div 10
    BY <1>1, <2>6, TenthGiven
  <2>8. QED
    BY <2>5, <2>7
<1>5. \A g, h \in DOMAIN weights :
        weights[g] > weights[h]
            => LargestRemainder(shares, pool)[g] >= LargestRemainder(shares, pool)[h]
  BY WeightGiven
<1>6. QED
  BY <1>2, <1>3, <1>4, <1>5, Zenon DEF Fair

(* Rates of natural numbers are natural numbers.                           *)
LEMMA RatesNatural ==
    ASSUME NEW x \in Nat, NEW bps \in Nat
    PROVE  Commission(x) \in Nat /\ Scaled(x, bps) \in Nat
<1>1. Commission(x) \in Nat
  <2>1. x \div 10000 \in Nat /\ x % 10000 \in Nat
    OBVIOUS
  <2>2. PICK y, z : y = x \div 10000 /\ z = (x % 10000) * 500
    OBVIOUS
  <2>3. y \in Nat /\ z \in Nat /\ z \div 10000 \in Nat
    BY <2>1, <2>2
  <2>4. QED
    BY <2>2, <2>3 DEF Commission, BasisPoints, CommissionRate
<1>2. Scaled(x, bps) \in Nat
  <2>1. PICK y : y = x * bps
    OBVIOUS
  <2>2. y \in Nat /\ y \div 10000 \in Nat
    BY <2>1, ProductFacts
  <2>3. QED
    BY <2>1, <2>2 DEF Scaled, BasisPoints
<1>3. QED
  BY <1>1, <1>2

(* Growth rates are numbers.                                               *)
LEMMA GrowthNumber ==
    ASSUME NEW previous \in Nat, NEW current \in Nat
    PROVE  Growth(previous, current) \in Int
<1>1. CASE previous = 0
  BY <1>1 DEF Growth, MaximumGrowth
<1>2. CASE previous # 0
  <2>1. PICK x, y, z : x = (current - previous) * BasisPoints /\ y = -x /\ z = Quo(x, previous)
    OBVIOUS
  <2>2. x \in Int /\ y \in Int
    BY <2>1 DEF BasisPoints
  <2>3. x \div previous \in Int /\ y \div previous \in Int
    BY <1>2, <2>2
  <2>4. z \in Int
    BY <2>1, <2>2, <2>3 DEF Quo
  <2>5. Clamp(z, MinimumGrowth, MaximumGrowth) \in Int
    BY <2>4 DEF Clamp, MinimumGrowth, MaximumGrowth
  <2>6. QED
    BY <1>2, <2>1, <2>5 DEF Growth
<1>3. QED
  BY <1>1, <1>2

(* The adjustment is a quarter either way at most.                         *)
LEMMA AdjustmentBounded ==
    ASSUME NEW prior \in Int, NEW recent \in Int
    PROVE  BasisPoints + Adjustment(prior, recent) \in Nat
<1>1. PICK x, z : /\ x = Acceleration(prior, recent)
                  /\ z = Quo(recent, AdjustmentDivisor) + Quo(x, AdjustmentDivisor)
  OBVIOUS
<1>2. x \in Int
  BY <1>1 DEF Acceleration, Clamp, MaximumAcceleration
<1>3. \A y \in Int : Quo(y, 4) \in Int
  BY DEF Quo
<1>4. z \in Int
  BY <1>1, <1>2, <1>3 DEF AdjustmentDivisor
<1>5. Adjustment(prior, recent) = Clamp(z, -2500, 2500)
  BY <1>1 DEF Adjustment, MaximumAdjustment
<1>6. PICK a : a = Adjustment(prior, recent)
  OBVIOUS
<1>7. a = -2500 \/ a = 2500 \/ (a = z /\ ~(z < -2500))
  <2>1. \A y, low, high : LET c == Clamp(y, low, high)
                          IN  c = low \/ c = high \/ (c = y /\ ~(y < low))
    BY DEF Clamp
  <2>2. QED
    BY <1>5, <1>6, <2>1
<1>8. 10000 + a \in Nat
  BY <1>4, <1>7
<1>9. QED
  BY <1>6, <1>8 DEF BasisPoints

(* The commission bases of the trailing months.                            *)
Bases(basis, month) == month \in Int /\ basis \in [TrailingMonths(month) -> Nat]

(* Three-month averages within the trailing months.                        *)
LEMMA AverageNatural ==
    ASSUME NEW month, NEW basis, Bases(basis, month), NEW m \in {month - 6, month - 3, month}
    PROVE  Average(basis, m) \in Nat
<1>1. month \in Int /\ m \in Int
  BY DEF Bases
<1>2. m - 2 \in TrailingMonths(month) /\ m - 1 \in TrailingMonths(month)
      /\ m \in TrailingMonths(month)
  BY <1>1 DEF TrailingMonths
<1>3. basis[m - 2] \in Nat /\ basis[m - 1] \in Nat /\ basis[m] \in Nat
  BY <1>2 DEF Bases
<1>4. PICK x : x = basis[m - 2] + basis[m - 1] + basis[m]
  OBVIOUS
<1>5. x \in Nat /\ x \div 3 \in Nat
  BY <1>3, <1>4
<1>6. QED
  BY <1>4, <1>5 DEF Average

(* The valuation multiplier is a natural number.                           *)
LEMMA MultiplierNatural ==
    ASSUME NEW month, NEW basis, Bases(basis, month)
    PROVE  Multiplier(basis, month, BaseMultiplier) \in Nat
<1>1. PICK a, b, c : /\ a = Average(basis, month - 6) /\ b = Average(basis, month - 3)
                     /\ c = Average(basis, month)
  OBVIOUS
<1>2. a \in Nat /\ b \in Nat /\ c \in Nat
  BY <1>1, AverageNatural
<1>3. PICK prior, recent : prior = Growth(a, b) /\ recent = Growth(b, c)
  OBVIOUS
<1>4. prior \in Int /\ recent \in Int
  BY <1>2, <1>3, GrowthNumber
<1>5. PICK bps : bps = BasisPoints + Adjustment(prior, recent)
  OBVIOUS
<1>6. bps \in Nat
  BY <1>4, <1>5, AdjustmentBounded
<1>7. BaseMultiplier \in Nat
  BY SettlementAssumption
<1>8. Scaled(BaseMultiplier, bps) \in Nat
  BY <1>6, <1>7, RatesNatural
<1>9. QED
  BY <1>1, <1>3, <1>5, <1>8, Zenon DEF Multiplier

(* What settlementSourcesTx derives from sources is fair.                  *)
LEMMA DerivedFair ==
    ASSUME NEW month, NEW basis, Bases(basis, month),
           NEW weights, NEW measured, Weighed(weights, measured)
    PROVE  Fair(Derived(month, basis, weights, measured), weights)
<1>1. month \in Int /\ month \in TrailingMonths(month)
  BY DEF Bases, TrailingMonths
<1>2. PICK T : T = TrailingMonths(month)
  OBVIOUS
<1>3. IsFiniteSet(T)
  <2>1. PICK a : a = month - 11
    OBVIOUS
  <2>2. a \in Int
    BY <1>1, <2>1
  <2>3. T = a..month
    BY <1>2, <2>1 DEF TrailingMonths
  <2>4. QED
    BY <1>1, <2>2, <2>3, FS_Interval
<1>4. basis \in [T -> Nat] /\ basis[month] \in Nat
  BY <1>1, <1>2 DEF Bases
<1>5. PICK trailing, multiplier, shares, pool, value :
        /\ trailing = SumFunction(basis)
        /\ multiplier = Multiplier(basis, month, BaseMultiplier)
        /\ shares = Shares(Founder, Reserve, FounderScaled, weights, measured)
        /\ pool = Commission(basis[month])
        /\ value = Scaled(SumFunction(basis), Multiplier(basis, month, BaseMultiplier))
  OBVIOUS
<1>6. trailing \in Nat
  BY <1>3, <1>4, <1>5, SumNatural
<1>7. multiplier \in Nat
  BY <1>5, MultiplierNatural
<1>8. pool \in Nat
  BY <1>4, <1>5, RatesNatural
<1>9. value \in Nat
  BY <1>5, <1>6, <1>7, RatesNatural
<1>10. PICK d : d = Derived(month, basis, weights, measured)
  OBVIOUS
<1>11. /\ d.shares = shares /\ d.pool = pool /\ d.value = value
       /\ d.poolOf = LargestRemainder(shares, pool)
       /\ d.valueOf = LargestRemainder(shares, value)
  BY <1>5, <1>10, Zenon DEF Derived
<1>12. Fair(d, weights)
  BY <1>5, <1>8, <1>9, <1>11, RatiosFair
<1>13. QED
  BY <1>10, <1>12

-----------------------------------------------------------------------------
(* What the steps of Settlement write.                                     *)

Table(s) == \E S : s \in Seq(S)

Appended(s, t, e) == Table(t) /\ Extended(s, t, e)

(* The tables are sequences, and the rows of the ledger carry numbers.     *)
LedgerTables ==
    /\ Table(ledger) /\ Table(settlements) /\ Table(frozen) /\ Table(payouts) /\ Table(seals)
    /\ \A i \in DOMAIN ledger : ledger[i].value \in Nat /\ ledger[i].at \in Times

SettlementRow(month, cur, at) ==
    LET b == SettlementBoundary(at)
        sources == Sources(month, cur, b)
        prior == RevisionsOf(month, cur)
    IN  [sources |-> sources,
         derived |-> Derived(month, sources.basis, sources.weights, Measured(month, b)),
         revision |-> Cardinality(prior) + 1,
         supersedes |-> IF prior = {} THEN 0 ELSE Newest(prior),
         index |-> Len(ledger) + 1, at |-> at]

SettlementEntry(month, cur, at) ==
    [type |-> "settlement", deployment |-> NoDeployment, month |-> month, currency |-> cur,
     value |-> Len(settlements) + 1, at |-> at]

Settled(month, cur, at) ==
    /\ month \in Int /\ LedgerOpen(at)
    /\ Appended(ledger, ledger', SettlementEntry(month, cur, at))
    /\ Appended(settlements, settlements', SettlementRow(month, cur, at))
    /\ UNCHANGED <<vars, seals, frozen, payouts>>

Reported(row) ==
    /\ row.type # "settlement" /\ row.value \in Nat /\ row.at \in ClockReads
    /\ LedgerOpen(row.at)
    /\ Appended(ledger, ledger', row)
    /\ UNCHANGED <<vars, seals, settlements, frozen, payouts>>

Sealed ==
    /\ Len(seals) + 1 < Day(clock)
    /\ Appended(seals, seals', ThroughIndex(ledger, LastSecond(Len(seals) + 1)))
    /\ UNCHANGED <<vars, ledger, settlements, frozen, payouts>>

FrozeSettled(s, date, at) ==
    /\ date \in DOMAIN seals
    /\ Froze(s, date, at)
    /\ Appended(frozen, frozen', SettlementsAtBoundary(seals[date]))
    /\ UNCHANGED <<ledger, seals, settlements, payouts>>

PaidOut(v, x, beneficiary, at) ==
    /\ Created(v, x, beneficiary, at)
    /\ Appended(payouts, payouts', ExitCurrencies(v))
    /\ UNCHANGED <<ledger, seals, settlements, frozen>>

(* The steps that no settlement takes part in; a completion among them is  *)
(* later than the ledger.                                                  *)
LeftLedger ==
    /\ CompletionAfterLedger
    /\ UNCHANGED <<exitReviews, allocations, settlementVars>>

SettlementCase ==
    \/ \E month \in Int, cur \in Currencies, at \in ClockReads : Settled(month, cur, at)
    \/ \E row : Reported(row)
    \/ Sealed
    \/ \E s \in submissions, date \in DOMAIN seals, at \in ClockReads :
            FrozeSettled(s, date, at)
    \/ \E v \in DOMAIN exitReviews, x \in {0} \cup DOMAIN transfers,
          beneficiary \in Groups \cup Contractors, at \in ClockReads :
            PaidOut(v, x, beneficiary, at)
    \/ LeftLedger

(* A freeze of a settlement's model is one of the exit rails' model.       *)
LEMMA FreezeIsCommand ==
    ASSUME TypeOK, LedgerTables, NEW s \in submissions, NEW date \in DOMAIN seals,
           NEW at \in ClockReads, FreezeExitReview(s, date, at)
    PROVE  FreezeCommand(at)
<1>1. clock \in Times /\ clock \in Nat /\ at \in Times /\ at \in Nat /\ at <= clock
  BY ReadsAreTimes DEF TypeOK, OperatorTypeOK, ClockReads
<1>2. Day(at) <= Day(clock) /\ Day(at) \in Nat /\ Day(clock) \in Nat
  BY <1>1, DayFacts
<1>3. date < Day(at)
  BY DEF FreezeExitReview
<1>4. date \in Nat \ {0}
  <2>1. PICK S : seals \in Seq(S)
    BY DEF LedgerTables, Table
  <2>2. DOMAIN seals = 1..Len(seals) /\ Len(seals) \in Nat
    BY <2>1
  <2>3. QED
    BY <2>2
<1>5. date \in 1..Day(clock)
  BY <1>2, <1>3, <1>4
<1>6. QED
  BY <1>5, Zenon DEF FreezeCommand

(* Every step of Settlement is a step or a stutter of the exit rails.      *)
LEMMA SettlementStepImplements ==
    ASSUME TypeOK, LedgerTables, [SettlementNext]_<<vars, settlementVars>>
    PROVE  [Next]_vars
<1>1. ASSUME NEW at \in ClockReads, ExitCommand(at) PROVE ExitStep
  <2>1. ASSUME NEW s \in submissions, NEW date \in DOMAIN seals,
               FreezeWithSettlements(s, date, at)
        PROVE  FreezeCommand(at)
    BY <2>1, FreezeIsCommand DEF FreezeWithSettlements
  <2>2. ASSUME NEW v \in DOMAIN exitReviews, NEW x \in {0} \cup DOMAIN transfers,
               NEW beneficiary \in Groups \cup Contractors,
               CreateAllocationWithPayouts(v, x, beneficiary, at)
        PROVE  CreateAllocationCommand(at)
    BY <2>2, Zenon DEF CreateAllocationWithPayouts, CreateAllocationCommand
  <2>3. ASSUME NEW a \in DOMAIN allocations, VerifyAllocationWithPayouts(a, at)
        PROVE  VerifyAllocationCommand(at)
    BY <2>3, Zenon DEF VerifyAllocationWithPayouts, VerifyAllocationCommand
  <2>4. QED
    BY <1>1, <2>1, <2>2, <2>3, Zenon DEF ExitCommand, ExitStep
<1>2. ASSUME NEW month, NEW at, SettleCommand(month, at) \/ ReportMonth(month, at)
      PROVE  UNCHANGED vars
  BY <1>2, Zenon DEF SettleCommand, ReportMonth, CalculateSettlement, AppendRevenue, AppendWeight,
     AppendRow
<1>3. CreateCheckpoint => UNCHANGED vars
  BY Zenon DEF CreateCheckpoint
<1>4. CASE SettlementStep
  BY <1>1, <1>2, <1>3, <1>4, Zenon DEF SettlementStep, Next
<1>5. CASE OwnershipStep
  BY <1>5, Zenon DEF Next, ExitStep
<1>6. CASE (OperatorStep \/ Tick) /\ UNCHANGED <<exitVars, settlementVars>>
  BY <1>6, Zenon DEF Next
<1>7. CASE UNCHANGED <<vars, settlementVars>>
  BY <1>7, Zenon
<1>8. QED
  BY <1>4, <1>5, <1>6, <1>7, Zenon DEF SettlementNext

(* A table without a known row type extended by a row.                     *)
LEMMA AppendExtendsAny ==
    ASSUME NEW s, Table(s), NEW e, NEW t, t = Append(s, e)
    PROVE  Appended(s, t, e)
<1>1. PICK S : s \in Seq(S)
  BY DEF Table
<1>2. PICK T : T = S \cup {e}
  OBVIOUS
<1>3. t \in Seq(T)
  BY <1>1, <1>2
<1>4. Extended(s, t, e)
  BY <1>1, AppendExtends
<1>5. QED
  BY <1>3, <1>4 DEF Appended, Table

(* What is reported is a number.                                           *)
LEMMA ReportedNatural == (\A n \in Amounts : n \in Nat) /\ (\A n \in Weights : n \in Nat)
<1>1. Amounts \subseteq Nat /\ Weights \subseteq Nat
  BY SettlementAssumption
<1>2. QED
  BY <1>1, Zenon

(* Every step is one of these.                                             *)
LEMMA SettlementCases ==
    ASSUME TypeOK, LedgerTables, [SettlementNext]_<<vars, settlementVars>>
    PROVE  SettlementCase
<1>1. /\ \A e : ledger' = Append(ledger, e) => Appended(ledger, ledger', e)
      /\ \A e : settlements' = Append(settlements, e) => Appended(settlements, settlements', e)
      /\ \A e : frozen' = Append(frozen, e) => Appended(frozen, frozen', e)
      /\ \A e : payouts' = Append(payouts, e) => Appended(payouts, payouts', e)
      /\ \A e : seals' = Append(seals, e) => Appended(seals, seals', e)
  BY AppendExtendsAny DEF LedgerTables
<1> HIDE DEF Extended
<1>2. [Next]_vars
  BY SettlementStepImplements
<1>3. ASSUME NEW month \in Int, NEW cur \in Currencies, NEW at \in ClockReads,
             CalculateSettlement(month, cur, at)
      PROVE  SettlementCase
  <2>1. /\ LedgerOpen(at) /\ UNCHANGED <<vars, seals, frozen, payouts>>
        /\ ledger' = Append(ledger, SettlementEntry(month, cur, at))
        /\ settlements' = Append(settlements, SettlementRow(month, cur, at))
    BY <1>3, Zenon DEF CalculateSettlement, SettlementEntry, SettlementRow
  <2>2. Settled(month, cur, at)
    BY <1>1, <2>1, Zenon DEF Settled
  <2>3. QED
    BY <2>2, Zenon DEF SettlementCase
<1>4. ASSUME NEW row, row.type # "settlement", row.value \in Nat, row.at \in ClockReads,
             AppendRow(row)
      PROVE  SettlementCase
  <2>1. Reported(row)
    BY <1>1, <1>4, Zenon DEF AppendRow, Reported
  <2>2. QED
    BY <2>1, Zenon DEF SettlementCase
<1>5. ASSUME NEW month, NEW at \in ClockReads, ReportMonth(month, at) PROVE SettlementCase
  <2>1. (\A n \in Amounts : n \in Nat) /\ (\A n \in Weights : n \in Nat)
    BY ReportedNatural
  <2>2. ASSUME NEW d, NEW cur, NEW amount \in Amounts, AppendRevenue(d, month, cur, amount, at)
        PROVE  SettlementCase
    <3>1. PICK row : row = [type |-> "revenue", deployment |-> d, month |-> month,
                            currency |-> cur, value |-> amount, at |-> at]
      BY Zenon
    <3>2. AppendRow(row)
      BY <2>2, <3>1, Zenon DEF AppendRevenue
    <3>3. row.type = "revenue" /\ row.value = amount /\ row.at = at
      BY <3>1, Zenon
    <3>4. row.type # "settlement"
      BY <3>3
    <3>5. row.value \in Nat
      BY <2>1, <3>3, Zenon
    <3>6. QED
      BY <1>4, <3>2, <3>3, <3>4, <3>5, Zenon
  <2>3. ASSUME NEW d, NEW weight \in Weights, AppendWeight(d, month, weight, at)
        PROVE  SettlementCase
    <3>1. PICK row : row = [type |-> "weight", deployment |-> d, month |-> month,
                            currency |-> "", value |-> weight, at |-> at]
      BY Zenon
    <3>2. AppendRow(row)
      BY <2>3, <3>1, Zenon DEF AppendWeight
    <3>3. row.type = "weight" /\ row.value = weight /\ row.at = at
      BY <3>1, Zenon
    <3>4. row.type # "settlement"
      BY <3>3
    <3>5. row.value \in Nat
      BY <2>1, <3>3, Zenon
    <3>6. QED
      BY <1>4, <3>2, <3>3, <3>4, <3>5, Zenon
  <2>4. QED
    BY <1>5, <2>2, <2>3, Zenon DEF ReportMonth
<1>6. CASE CreateCheckpoint
  <2>1. Sealed
    BY <1>1, <1>6, Zenon DEF CreateCheckpoint, Sealed
  <2>2. QED
    BY <2>1, Zenon DEF SettlementCase
<1>7. ASSUME NEW at \in ClockReads, ExitCommand(at) PROVE SettlementCase
  <2>1. ASSUME NEW s \in submissions, NEW date \in DOMAIN seals,
               FreezeWithSettlements(s, date, at)
        PROVE  SettlementCase
    <3>1. Froze(s, date, at)
      <4>1. FreezeExitReview(s, date, at)
        BY <2>1, Zenon DEF FreezeWithSettlements
      <4>2. /\ exitReviews \in Seq(ExitReviewRows) /\ exitEvents \in Seq(ExitEventRows)
        BY DEF TypeOK
      <4>3. /\ \A e : exitReviews' = Append(exitReviews, e) => Extended(exitReviews, exitReviews', e)
            /\ \A e : exitEvents' = Append(exitEvents, e) => Extended(exitEvents, exitEvents', e)
        <5> HIDE DEF ExitReviewRows, ExitEventRows
        <5>1. QED
          BY <4>2, AppendExtends
      <4>4. QED
        BY <4>1, <4>3, Zenon DEF Froze, FreezeExitReview, FreezeEvent
    <3>2. FrozeSettled(s, date, at)
      BY <1>1, <2>1, <3>1, Zenon DEF FreezeWithSettlements, FrozeSettled
    <3>3. QED
      BY <3>2, Zenon DEF SettlementCase
  <2>2. ASSUME NEW v \in DOMAIN exitReviews, NEW x \in {0} \cup DOMAIN transfers,
               NEW beneficiary \in Groups \cup Contractors,
               CreateAllocationWithPayouts(v, x, beneficiary, at)
        PROVE  SettlementCase
    <3>1. Created(v, x, beneficiary, at)
      <4>1. CreateExitAllocation(v, x, beneficiary, at)
        BY <2>2, Zenon DEF CreateAllocationWithPayouts
      <4>2. /\ allocations \in Seq(AllocationRows) /\ allocationEvents \in Seq(AllocationEventRows)
        BY DEF TypeOK
      <4>3. /\ \A e : allocations' = Append(allocations, e) => Extended(allocations, allocations', e)
            /\ \A e : allocationEvents' = Append(allocationEvents, e)
                        => Extended(allocationEvents, allocationEvents', e)
        <5> HIDE DEF AllocationRows, AllocationEventRows
        <5>1. QED
          BY <4>2, AppendExtends
      <4>4. QED
        BY <4>1, <4>3, Zenon DEF Created, CreateExitAllocation, Allocation, CreateEvent
    <3>2. PaidOut(v, x, beneficiary, at)
      BY <1>1, <2>2, <3>1, Zenon DEF CreateAllocationWithPayouts, PaidOut
    <3>3. QED
      BY <3>2, Zenon DEF SettlementCase
  <2>3. ASSUME NEW a \in DOMAIN allocations, VerifyAllocationWithPayouts(a, at)
        PROVE  SettlementCase
    <3>1. UNCHANGED <<exitReviews, memberships, allocations, settlementVars>>
      BY <2>3, Zenon DEF VerifyAllocationWithPayouts, VerifyExitAllocation
    <3>2. LeftLedger
      BY <3>1, Zenon DEF LeftLedger, CompletionAfterLedger
    <3>3. QED
      BY <3>2, Zenon DEF SettlementCase
  <2>4. QED
    BY <1>7, <2>1, <2>2, <2>3, Zenon DEF ExitCommand
<1>8. CASE SettlementStep
  <2>1. ASSUME NEW at \in ClockReads, NEW month \in FirstMonth..(MonthOf(clock) - 1),
               SettleCommand(month, at)
        PROVE  SettlementCase
    <3>1. month \in Int
      BY SettlementAssumption
    <3>2. QED
      BY <1>3, <2>1, <3>1, Zenon DEF SettleCommand
  <2>2. QED
    BY <1>5, <1>6, <1>7, <1>8, <2>1, Zenon DEF SettlementStep
<1>9. ASSUME OwnershipStep, CompletionAfterLedger, UNCHANGED settlementVars
      PROVE  SettlementCase
  <2>1. UNCHANGED <<exitReviews, allocations>>
    BY <1>9, Zenon DEF OwnershipStep, ReviewCommand, AppendExitReviewEvent, PrepareCommand,
       PrepareOwnershipTransfer, TransferCommand, DecideOwnershipTransfer,
       CompleteOwnershipTransfer
  <2>2. LeftLedger
    BY <1>9, <2>1, Zenon DEF LeftLedger
  <2>3. QED
    BY <2>2, Zenon DEF SettlementCase
<1>10. ASSUME UNCHANGED <<exitVars, settlementVars>> PROVE SettlementCase
  <2>1. LeftLedger
    BY <1>10, Zenon DEF LeftLedger, CompletionAfterLedger, exitVars
  <2>2. QED
    BY <2>1, Zenon DEF SettlementCase
<1>11. CASE UNCHANGED <<vars, settlementVars>>
  BY <1>10, <1>11, Zenon DEF vars
<1>12. QED
  BY <1>8, <1>9, <1>10, <1>11, Zenon DEF SettlementNext

(* A table that is extended, or left alone, has grown.                     *)
LEMMA TableGrows ==
    ASSUME NEW s, Table(s), NEW t, t = s \/ \E e : Appended(s, t, e)
    PROVE  Grown(s, t) /\ Table(t)
<1>1. CASE t = s
  <2>1. PICK S : s \in Seq(S)
    BY DEF Table
  <2>2. QED
    BY <1>1, <2>1, SameGrows DEF Table
<1>2. QED
  BY <1>1, Zenon DEF Appended, Extended

(* How the tables of a settlement grow: in the order of time, and the      *)
(* ledger after the days that are sealed.                                  *)
NewEntriesOpen ==
    \A i \in DOMAIN ledger' : i \notin DOMAIN ledger =>
        /\ ledger'[i].at \in ClockReads /\ LedgerOpen(ledger'[i].at)
        /\ ledger'[i].value \in Nat

LedgerGrowth ==
    /\ Grown(ledger, ledger') /\ Grown(settlements, settlements') /\ Grown(frozen, frozen')
    /\ Grown(payouts, payouts') /\ Grown(seals, seals')
    /\ NewEntriesOpen

(* Every step only extends these tables.                                   *)
LEMMA LedgerGrows ==
    ASSUME TypeOK, LedgerTables, [SettlementNext]_<<vars, settlementVars>>
    PROVE  LedgerGrowth /\ LedgerTables'
<1>1. SettlementCase
  BY SettlementCases
<1>2. /\ ledger' = ledger \/ \E e : Appended(ledger, ledger', e)
      /\ settlements' = settlements \/ \E e : Appended(settlements, settlements', e)
      /\ frozen' = frozen \/ \E e : Appended(frozen, frozen', e)
      /\ payouts' = payouts \/ \E e : Appended(payouts, payouts', e)
      /\ seals' = seals \/ \E e : Appended(seals, seals', e)
  BY <1>1, Zenon DEF SettlementCase, Settled, Reported, Sealed, FrozeSettled, PaidOut, LeftLedger,
     settlementVars
<1>3. /\ Grown(ledger, ledger') /\ Grown(settlements, settlements') /\ Grown(frozen, frozen')
      /\ Grown(payouts, payouts') /\ Grown(seals, seals')
      /\ Table(ledger') /\ Table(settlements') /\ Table(frozen') /\ Table(payouts')
      /\ Table(seals')
  BY <1>2, TableGrows DEF LedgerTables
<1>4. ASSUME NEW e, Appended(ledger, ledger', e), e.at \in ClockReads, LedgerOpen(e.at),
             e.value \in Nat
      PROVE  NewEntriesOpen
  <2>1. \A i \in DOMAIN ledger' : i \in DOMAIN ledger \/ i = Len(ledger')
    BY <1>4 DEF Appended, Extended
  <2>2. ledger'[Len(ledger')] = e
    BY <1>4 DEF Appended, Extended
  <2>3. QED
    BY <1>4, <2>1, <2>2, Zenon DEF NewEntriesOpen
<1>5. NewEntriesOpen
  <2>1. ASSUME NEW month, NEW cur, NEW at \in ClockReads, Settled(month, cur, at)
        PROVE  NewEntriesOpen
    <3>1. PICK e : e = SettlementEntry(month, cur, at)
      OBVIOUS
    <3>2. e.at = at /\ e.value = Len(settlements) + 1
      BY <3>1, Zenon DEF SettlementEntry
    <3>3. e.value \in Nat
      BY <1>3, <3>2 DEF Grown
    <3>4. Appended(ledger, ledger', e) /\ LedgerOpen(at)
      BY <2>1, <3>1, Zenon DEF Settled
    <3>5. QED
      BY <1>4, <3>2, <3>3, <3>4
  <2>2. QED
    <3>1. UNCHANGED ledger => NewEntriesOpen
      BY DEF NewEntriesOpen
    <3>2. ASSUME NEW row, Reported(row) PROVE NewEntriesOpen
      BY <1>4, <3>2, Zenon DEF Reported
    <3>3. QED
      BY <1>1, <2>1, <3>1, <3>2, Zenon DEF SettlementCase, Sealed, FrozeSettled, PaidOut,
         LeftLedger, settlementVars
<1>6. \A i \in DOMAIN ledger' : ledger'[i].value \in Nat /\ ledger'[i].at \in Times
  BY <1>3, <1>5, ReadsAreTimes DEF Grown, LedgerTables, NewEntriesOpen
<1>7. QED
  BY <1>3, <1>5, <1>6 DEF LedgerGrowth, LedgerTables

(* The tables next to each other.                                          *)
SettledTables == TablesInv /\ LedgerTables

(* They start empty.                                                       *)
LEMMA SettledTablesInit == Init /\ SettlementInit => SettledTables
<1> SUFFICES ASSUME Init, SettlementInit PROVE SettledTables
  OBVIOUS
<1>1. Table(<<>>)
  <2>1. <<>> \in Seq({})
    OBVIOUS
  <2>2. QED
    BY <2>1, Zenon DEF Table
<1>2. LedgerTables
  <2>1. DOMAIN ledger = {}
    BY DEF SettlementInit
  <2>2. QED
    BY <1>1, <2>1, Zenon DEF LedgerTables, SettlementInit
<1>3. QED
  BY <1>2, TablesInit DEF SettledTables

(* A step keeps them, and is one of the exit rails or none.                *)
LEMMA SettledTablesStep ==
    SettledTables /\ [SettlementNext]_<<vars, settlementVars>>
        => SettledTables' /\ [Next]_vars
<1> SUFFICES ASSUME SettledTables, [SettlementNext]_<<vars, settlementVars>>
             PROVE  SettledTables' /\ [Next]_vars
  OBVIOUS
<1>1. TypeOK /\ LedgerTables /\ TablesInv
  BY DEF SettledTables, TablesInv
<1>2. [Next]_vars /\ LedgerTables'
  BY <1>1, SettlementStepImplements, LedgerGrows
<1>3. QED
  BY <1>1, <1>2, TablesStep DEF SettledTables

(* Settlements only add to the exit rails: with the ledger, the            *)
(* checkpoints and the settlements left out, every behaviour is one of     *)
(* ExitLifecycle, so that all that is proved of the rails holds next to    *)
(* CalculateSettlement, CreateCheckpoint and the batches.                  *)
THEOREM SettlementsImplementExits == SettlementSpec => Spec
<1>1. Init /\ SettlementInit => SettledTables
  BY SettledTablesInit
<1>2. SettledTables /\ [SettlementNext]_<<vars, settlementVars>>
        => SettledTables' /\ [Next]_vars
  BY SettledTablesStep
<1>3. QED
  BY <1>1, <1>2, PTL DEF SettlementSpec, Spec

-----------------------------------------------------------------------------
(* AllocationsFair.                                                        *)

(* The audit chain keeps within its bound, so that no group has the name   *)
(* of the founder or of the reserve.                                       *)
EventsBounded == Len(events) <= MaxEvents

(* The bound is a number.                                                  *)
LEMMA EventBound == MaxEvents \in Nat
BY SettlementAssumption

(* A step of the operator network keeps the bound.                         *)
LEMMA BoundKept ==
    ASSUME OperatorInv, EventsBounded, [OperatorNext]_operatorVars
    PROVE  EventsBounded'
<1> HIDE DEF EventRows
<1>1. OperatorTypeOK /\ ClaimRowsOK /\ events \in Seq(EventRows) /\ Len(events) \in Nat
  BY DEF OperatorInv, OperatorTypeOK
<1>2. UNCHANGED events => EventsBounded'
  BY DEF EventsBounded
<1>3. ASSUME NEW d \in Deployments, NEW r \in Requests(d), NEW at \in ClockReads,
             ApplyOperatorAction(r, at)
      PROVE  EventsBounded'
  <2>1. PICK e : EventFor(r, at, e)
    BY <1>1, <1>3, ReadsAreTimes, ActionAppends
  <2>2. events' = Append(events, e)
    BY <2>1 DEF EventFor, AppendOperatorAction
  <2>3. Extended(events, events', e)
    BY <1>1, <2>2, AppendExtends
  <2>4. Len(events) < MaxEvents
    BY <1>3 DEF ApplyOperatorAction
  <2>5. QED
    BY <1>1, <2>3, <2>4, EventBound DEF Extended, EventsBounded
<1>4. ASSUME OperatorStep PROVE EventsBounded'
  <2>1. ASSUME NEW r, RecordDuplicate(r) PROVE UNCHANGED events
    BY <2>1, Zenon DEF RecordDuplicate
  <2>2. ASSUME NEW s, NEW at, ReviewClaim(s, at) \/ ReviewEligibility(s, at)
        PROVE  UNCHANGED events
    BY <2>2, Zenon DEF ReviewClaim, ReviewEligibility, DecideOperatorClaim,
       DecideOperatorClaimEligibility
  <2>3. QED
    BY <1>2, <1>3, <1>4, <2>1, <2>2, Zenon DEF OperatorStep
<1>5. QED
  BY <1>2, <1>4, Zenon DEF OperatorNext, Tick, TransferCompletes, operatorVars

(* The source boundary is an entry before the one asked about.             *)
LEMMA SourceIndexIs ==
    ASSUME NEW n \in Nat
    PROVE  SourceIndex(n) \in 0..n
<1>1. PICK S : S = {i \in 1..n : ledger[i].type # "settlement"}
  OBVIOUS
<1>2. SourceIndex(n) = IF S = {} THEN 0 ELSE Newest(S)
  BY <1>1 DEF SourceIndex
<1>3. S \in SUBSET (1..n)
  BY <1>1
<1>4. S # {} => Newest(S) \in 1..n
  BY <1>3, NewestOf
<1>5. QED
  BY <1>2, <1>4

(* The values of ledger entries add up to a number.                        *)
LEMMA ValuesNatural ==
    ASSUME LedgerTables, NEW S \in SUBSET (DOMAIN ledger)
    PROVE  Values(S) \in Nat
<1>1. PICK R : ledger \in Seq(R)
  BY DEF LedgerTables, Table
<1>2. DOMAIN ledger = 1..Len(ledger) /\ Len(ledger) \in Nat
  BY <1>1
<1>3. IsFiniteSet(1..Len(ledger))
  BY <1>2, FS_Interval
<1>4. IsFiniteSet(S)
  BY <1>2, <1>3, FS_Subset
<1>5. PICK f : f = [i \in S |-> ledger[i].value]
  BY Zenon
<1>6. f \in [S -> Nat]
  BY <1>5 DEF LedgerTables
<1>7. QED
  BY <1>4, <1>5, <1>6, SumNatural DEF Values

(* The newest rows are some of the ledger's.                               *)
LEMMA LatestAreRows ==
    ASSUME NEW type, NEW cur, NEW month, NEW through \in Nat
    PROVE  LatestRows(type, cur, month, through) \subseteq 1..through
BY DEF LatestRows

(* The weight of a deployment is a number.                                 *)
LEMMA MeasuredNatural ==
    ASSUME LedgerTables, NEW d, NEW month, NEW b, b.ledger \in 0..Len(ledger)
    PROVE  MeasuredWeight(d, month, b) \in Nat
<1>1. PICK R : ledger \in Seq(R)
  BY DEF LedgerTables, Table
<1>2. DOMAIN ledger = 1..Len(ledger) /\ Len(ledger) \in Nat
  BY <1>1
<1>3. b.ledger \in Nat /\ 1..b.ledger \subseteq DOMAIN ledger
  BY <1>2
<1>4. PICK U : U = UNION {LatestRows("weight", "", m, b.ledger) : m \in (month - 5)..month}
  BY Zenon
<1>5. U \subseteq 1..b.ledger
  <2>1. PICK n : n = b.ledger
    OBVIOUS
  <2>2. \A type, cur, m : LatestRows(type, cur, m, n) \subseteq 1..n
    BY <1>3, <2>1, LatestAreRows
  <2>3. \A m : LatestRows("weight", "", m, n) \subseteq 1..n
    BY <2>2, Zenon
  <2>4. QED
    BY <1>4, <2>1, <2>3, Zenon
<1>6. PICK S : S = {i \in U : ledger[i].deployment = d}
  OBVIOUS
<1>7. S \in SUBSET (DOMAIN ledger)
  BY <1>3, <1>5, <1>6
<1>8. MeasuredWeight(d, month, b) = Values(S)
  BY <1>4, <1>6, Zenon DEF MeasuredWeight
<1>9. QED
  BY <1>7, <1>8, ValuesNatural

(* So is the weight of a group, and the measured weight of all.            *)
LEMMA WeightsNatural ==
    ASSUME LedgerTables, NEW month, NEW b, b.ledger \in 0..Len(ledger)
    PROVE  /\ Measured(month, b) \in Nat
           /\ \A group, members : GroupWeight(group, members, month, b) \in Nat
<1>1. \A D \in SUBSET Deployments :
            SumFunction([d \in D |-> MeasuredWeight(d, month, b)]) \in Nat
  <2> SUFFICES ASSUME NEW D \in SUBSET Deployments
               PROVE  SumFunction([d \in D |-> MeasuredWeight(d, month, b)]) \in Nat
    OBVIOUS
  <2>1. IsFiniteSet(Deployments)
    BY SettlementAssumption
  <2>2. IsFiniteSet(D)
    BY <2>1, FS_Subset
  <2>3. PICK f : f = [d \in D |-> MeasuredWeight(d, month, b)]
    OBVIOUS
  <2>4. \A d : MeasuredWeight(d, month, b) \in Nat
    BY MeasuredNatural
  <2>5. f \in [D -> Nat]
    BY <2>3, <2>4
  <2>6. QED
    BY <2>2, <2>3, <2>5, SumNatural
<1>2. Measured(month, b) \in Nat
  BY <1>1, Zenon DEF Measured
<1>3. ASSUME NEW group, NEW members PROVE GroupWeight(group, members, month, b) \in Nat
  <2>1. PICK D : D = {d \in Deployments : [group |-> group, deployment |-> d] \in members}
    OBVIOUS
  <2>2. D \in SUBSET Deployments
    BY <2>1
  <2>3. GroupWeight(group, members, month, b)
            = SumFunction([d \in D |-> MeasuredWeight(d, month, b)])
    BY <2>1 DEF GroupWeight
  <2>4. QED
    BY <1>1, <2>2, <2>3, Zenon
<1>4. QED
  BY <1>2, <1>3

(* The group of a deployment at a boundary is named by a claim event.      *)
LEMMA GroupNamed ==
    ASSUME TypeOK, OperatorInv, EventsBounded, NEW b, Within(b), NEW d \in Deployments
    PROVE  GroupAt(d, NetworkAt[b.audit][d], b) \in 0..MaxEvents
<1>1. /\ Len(events) \in Nat /\ DOMAIN events = 1..Len(events) /\ Ids = 0..Len(events)
      /\ MaxEvents \in Nat /\ Len(events) <= MaxEvents
  BY EventBound, TableTypes DEF OperatorInv, Ids, EventsBounded
<1>2. PICK row : row = NetworkAt[b.audit][d]
  OBVIOUS
<1>3. row \in NetworkRows
  BY <1>2, PastRows DEF Within, PastRow
<1>4. row.effective \in 0..MaxEvents
  BY <1>1, <1>3 DEF NetworkRows
<1>5. PICK M : M = TransfersAt(d, b)
  OBVIOUS
<1>6. M # {} => memberships[Newest(M)].to \in 0..MaxEvents
  <2>1. memberships \in Seq(MembershipRows)
    BY DEF TypeOK
  <2>2. DOMAIN memberships = 1..Len(memberships) /\ Len(memberships) \in Nat
    <3> HIDE DEF MembershipRows
    <3>1. QED
      BY <2>1
  <2>3. M \in SUBSET (1..Len(memberships))
    BY <1>5, <2>2 DEF TransfersAt
  <2>4. M # {} => Newest(M) \in DOMAIN memberships
    BY <2>2, <2>3, NewestOf
  <2>5. \A m \in DOMAIN memberships : memberships[m] \in MembershipRows
    <3> HIDE DEF MembershipRows
    <3>1. QED
      BY <2>1
  <2>6. \A m \in DOMAIN memberships : memberships[m].to \in DOMAIN events
    BY <2>5 DEF MembershipRows
  <2>7. QED
    BY <1>1, <2>4, <2>6
<1>7. PICK m : m = memberships[Newest(M)]
  OBVIOUS
<1>8. GroupAt(d, row, b) = IF M # {} /\ m.claim = row.profile /\ m.through >= StateIndex(d, b.audit)
                           THEN m.to ELSE row.effective
  BY <1>5, <1>7 DEF GroupAt
<1>9. QED
  BY <1>2, <1>4, <1>6, <1>7, <1>8

(* The weights a settlement derives its shares from.                       *)
LEMMA WeightsWeighed ==
    ASSUME TypeOK, OperatorInv, LedgerTables, EventsBounded, NEW month, NEW b, Within(b),
           b.ledger \in 0..Len(ledger)
    PROVE  Weighed(GroupWeights(BeneficiaryMembers(b), month, b), Measured(month, b))
<1>1. PICK members : members = BeneficiaryMembers(b)
  OBVIOUS
<1>2. \A m \in members : m.group \in 1..MaxEvents
  <2> DEFINE rows == NetworkAt[b.audit]
             G(d) == GroupAt(d, rows[d], b)
  <2>1. \A m \in members : \E d \in Deployments : m.group = G(d) /\ G(d) # 0
    BY <1>1 DEF BeneficiaryMembers
  <2>2. \A d \in Deployments : G(d) \in 0..MaxEvents
    BY GroupNamed
  <2> HIDE DEF G
  <2>3. MaxEvents \in Nat
    BY EventBound
  <2>4. QED
    BY <2>1, <2>2, <2>3
<1> DEFINE W(g) == GroupWeight(g, members, month, b)
           G == {g \in {m.group : m \in members} : W(g) > 0}
<1>3. PICK weights : weights = [g \in G |-> W(g)]
  OBVIOUS
<1>4. weights = GroupWeights(members, month, b)
  BY <1>3, Zenon DEF GroupWeights
<1>5. \A g : W(g) \in Nat
  BY WeightsNatural
<1>6. G \subseteq 1..MaxEvents
  BY <1>2
<1>7. \A g \in G : W(g) \in Nat \ {0}
  BY <1>5
<1> HIDE DEF W, G
<1>8. DOMAIN weights = G /\ weights \in [G -> Nat \ {0}]
  BY <1>3, <1>7
<1>9. IsFiniteSet(1..MaxEvents)
  BY EventBound, FS_Interval
<1>10. IsFiniteSet(G)
  BY <1>6, <1>9, FS_Subset
<1>11. Measured(month, b) \in Nat
  BY WeightsNatural
<1>12. Weighed(weights, Measured(month, b))
  BY <1>6, <1>8, <1>10, <1>11 DEF Weighed
<1>13. QED
  BY <1>1, <1>4, <1>12

(* The commission bases of the trailing months.                            *)
BasisOf(month, cur, through) ==
    [m \in TrailingMonths(month) |-> Values(LatestRows("revenue", cur, m, through))]

(* They are numbers.                                                       *)
LEMMA BasesNatural ==
    ASSUME LedgerTables, NEW month \in Int, NEW cur, NEW b, b.ledger \in 0..Len(ledger)
    PROVE  Bases(BasisOf(month, cur, b.ledger), month)
<1>1. PICK R : ledger \in Seq(R)
  BY DEF LedgerTables, Table
<1>2. DOMAIN ledger = 1..Len(ledger) /\ Len(ledger) \in Nat
  BY <1>1
<1>3. b.ledger \in Nat /\ 1..b.ledger \subseteq DOMAIN ledger
  BY <1>2
<1>4. \A m : LatestRows("revenue", cur, m, b.ledger) \in SUBSET (DOMAIN ledger)
  BY <1>3, LatestAreRows, Zenon
<1>5. \A m : Values(LatestRows("revenue", cur, m, b.ledger)) \in Nat
  BY <1>4, ValuesNatural
<1>6. QED
  BY <1>5 DEF Bases, BasisOf

(* The boundary of a settlement is within the tables.                      *)
LEMMA SettlementWithin ==
    ASSUME TypeOK, LedgerTables, NEW at, NEW b, b = SettlementBoundary(at)
    PROVE  Within(b) /\ b.ledger \in 0..Len(ledger)
<1>1. /\ Len(events) \in Nat /\ Len(reviews) \in Nat /\ Len(decisions) \in Nat
  BY TableTypes DEF TypeOK
<1>2. ThroughIndex(transferEvents, at) \in 0..Len(transferEvents)
  <2>1. transferEvents \in Seq(TransferEventRows)
    BY DEF TypeOK
  <2>2. QED
    BY <2>1, ThroughIndexIs
<1>3. SourceIndex(Len(ledger)) \in 0..Len(ledger)
  <2>1. PICK R : ledger \in Seq(R)
    BY DEF LedgerTables, Table
  <2>2. Len(ledger) \in Nat
    BY <2>1
  <2>3. QED
    BY <2>2, SourceIndexIs
<1>4. /\ b.ledger = SourceIndex(Len(ledger)) /\ b.audit = Len(events) /\ b.review = Len(reviews)
      /\ b.eligibility = Len(decisions) /\ b.transfer = ThroughIndex(transferEvents, at)
  BY Zenon DEF SettlementBoundary
<1>5. b.audit \in 0..Len(events) /\ b.review \in 0..Len(reviews)
      /\ b.eligibility \in 0..Len(decisions)
  BY <1>1, <1>4
<1>6. QED
  BY <1>2, <1>3, <1>4, <1>5, Zenon DEF Within

(* A settlement is derived fairly.                                         *)
LEMMA SettledFairly ==
    ASSUME TypeOK, OperatorInv, LedgerTables, EventsBounded, NEW month \in Int, NEW cur, NEW at,
           NEW r, r = SettlementRow(month, cur, at)
    PROVE  Fair(r.derived, r.sources.weights)
<1>1. PICK b : b = SettlementBoundary(at)
  OBVIOUS
<1>2. Within(b) /\ b.ledger \in 0..Len(ledger)
  BY <1>1, SettlementWithin
<1>3. PICK sources : sources = Sources(month, cur, b)
  OBVIOUS
<1>4. /\ r.sources = sources
      /\ r.derived = Derived(month, sources.basis, sources.weights, Measured(month, b))
  BY <1>1, <1>3, Zenon DEF SettlementRow
<1>5. /\ sources.basis = BasisOf(month, cur, b.ledger)
      /\ sources.weights = GroupWeights(BeneficiaryMembers(b), month, b)
  BY <1>3, Zenon DEF Sources, BasisOf
<1>6. Bases(sources.basis, month)
  <2>1. Bases(BasisOf(month, cur, b.ledger), month)
    BY <1>2, BasesNatural
  <2>2. QED
    BY <1>5, <2>1, Zenon
<1>7. Weighed(sources.weights, Measured(month, b))
  BY <1>2, <1>5, WeightsWeighed
<1>8. Fair(Derived(month, sources.basis, sources.weights, Measured(month, b)), sources.weights)
  BY <1>6, <1>7, DerivedFair
<1>9. QED
  BY <1>4, <1>8

FairRow(r) == Fair(r.derived, r.sources.weights)

FairInv ==
    /\ SettledTables /\ EventsBounded
    /\ \A s \in DOMAIN settlements : FairRow(settlements[s])

(* A step that writes a settlement writes this one.                        *)
LEMMA NewSettlement ==
    ASSUME TypeOK, LedgerTables, [SettlementNext]_<<vars, settlementVars>>
    PROVE  \A s \in DOMAIN settlements' :
                \/ s \in DOMAIN settlements /\ settlements'[s] = settlements[s]
                \/ \E month \in Int, cur \in Currencies, at \in ClockReads :
                        /\ Settled(month, cur, at)
                        /\ s = Len(settlements')
                        /\ settlements'[s] = SettlementRow(month, cur, at)
<1>1. SettlementCase
  BY SettlementCases
<1>2. ASSUME NEW month \in Int, NEW cur \in Currencies, NEW at \in ClockReads,
             Settled(month, cur, at), NEW s \in DOMAIN settlements'
      PROVE  \/ s \in DOMAIN settlements /\ settlements'[s] = settlements[s]
             \/ s = Len(settlements') /\ settlements'[s] = SettlementRow(month, cur, at)
  <2>1. Extended(settlements, settlements', SettlementRow(month, cur, at))
    BY <1>2, Zenon DEF Settled, Appended
  <2>2. QED
    BY <2>1, Zenon DEF Extended, Grown
<1>3. QED
  BY <1>1, <1>2, Zenon DEF SettlementCase, Reported, Sealed, FrozeSettled, PaidOut, LeftLedger,
     settlementVars

(* A step keeps the allocations fair.                                      *)
LEMMA FairStep ==
    FairInv /\ [SettlementNext]_<<vars, settlementVars>> => FairInv'
<1> SUFFICES ASSUME FairInv, [SettlementNext]_<<vars, settlementVars>> PROVE FairInv'
  OBVIOUS
<1>1. SettledTables /\ EventsBounded /\ TypeOK /\ LedgerTables /\ OperatorInv /\ TablesInv
  BY DEF FairInv, SettledTables, TablesInv
<1>2. SettledTables' /\ [Next]_vars
  BY <1>1, SettledTablesStep
<1>3. [OperatorNext]_operatorVars
  BY <1>1, <1>2, TablesStep
<1>4. EventsBounded'
  BY <1>1, <1>3, BoundKept
<1>5. ASSUME NEW s \in DOMAIN settlements' PROVE FairRow(settlements'[s])
  <2>1. CASE s \in DOMAIN settlements /\ settlements'[s] = settlements[s]
    BY <2>1, Zenon DEF FairInv
  <2>2. ASSUME NEW month \in Int, NEW cur, NEW at, settlements'[s] = SettlementRow(month, cur, at)
        PROVE  FairRow(settlements'[s])
    <3>1. PICK r : r = SettlementRow(month, cur, at)
      OBVIOUS
    <3>2. Fair(r.derived, r.sources.weights)
      BY <1>1, <3>1, SettledFairly
    <3>3. QED
      BY <2>2, <3>1, <3>2, Zenon DEF FairRow
  <2>3. QED
    BY <1>1, <2>1, <2>2, NewSettlement
<1>6. (\A s \in DOMAIN settlements : FairRow(settlements[s]))'
  BY <1>5 DEF FairRow, Fair, ShareOf, Founder
<1>7. QED
  BY <1>2, <1>4, <1>6 DEF FairInv

(* Whatever has been settled, every minor unit of the pool and of the      *)
(* indicative value is given out exactly once, every beneficiary gets its  *)
(* exact share rounded up or down, the founder a tenth at least, and a     *)
(* group with more weight not less than one with less (settlementRatios,   *)
(* largestRemainder): for every number of groups, weight and amount.       *)
THEOREM AllocationsAreFair == SettlementSpec => []AllocationsFair
<1>1. Init /\ SettlementInit => FairInv
  <2> SUFFICES ASSUME Init, SettlementInit PROVE FairInv
    OBVIOUS
  <2>1. SettledTables
    BY SettledTablesInit
  <2>2. EventsBounded
    BY EventBound DEF EventsBounded, Init, OperatorInit
  <2>3. DOMAIN settlements = {}
    BY DEF SettlementInit
  <2>4. QED
    BY <2>1, <2>2, <2>3, Zenon DEF FairInv
<1>2. FairInv /\ [SettlementNext]_<<vars, settlementVars>> => FairInv'
  BY FairStep
<1>3. FairInv => AllocationsFair
  BY Zenon DEF FairInv, FairRow, Fair, AllocationsFair
<1>4. QED
  BY <1>1, <1>2, <1>3, PTL DEF SettlementSpec

-----------------------------------------------------------------------------
(* What a settlement was derived from does not change.                     *)

(* The newest rows up to an index stay what they were.                     *)
LEMMA LatestKept ==
    ASSUME Grown(ledger, ledger'), NEW n \in 0..Len(ledger), NEW type, NEW cur, NEW month
    PROVE  LatestRows(type, cur, month, n)' = LatestRows(type, cur, month, n)
<1>1. /\ n \in Nat /\ n <= Len(ledger) /\ Len(ledger) \in Nat /\ DOMAIN ledger = 1..Len(ledger)
      /\ \A i \in DOMAIN ledger : ledger'[i] = ledger[i]
  BY DEF Grown
<1>2. \A i \in 1..n : ledger'[i] = ledger[i]
  BY <1>1
<1>3. \A i \in 1..n : \A j \in (i + 1)..n : ledger'[j] = ledger[j]
  BY <1>1, <1>2
<1>4. PICK A : A = LatestRows(type, cur, month, n)
  OBVIOUS
<1>5. PICK B : B = LatestRows(type, cur, month, n)'
  OBVIOUS
<1>6. \A i : i \in B <=> i \in A
  BY <1>2, <1>3, <1>4, <1>5, Zenon DEF LatestRows
<1>7. A = B
  BY <1>6, Zenon
<1>8. QED
  BY <1>4, <1>5, <1>7

(* So do the sums of their values.                                         *)
LEMMA ValuesKept ==
    ASSUME Grown(ledger, ledger'), NEW S \in SUBSET (DOMAIN ledger)
    PROVE  Values(S)' = Values(S)
<1>1. \A i \in S : ledger'[i].value = ledger[i].value
  BY DEF Grown
<1>2. [i \in S |-> ledger'[i].value] = [i \in S |-> ledger[i].value]
  BY <1>1, Zenon
<1>3. QED
  BY <1>2, Zenon DEF Values

(* The boundary a settlement is pinned to, before and after a step.        *)
SameLedger(b, c) == b.ledger \in 0..Len(ledger) /\ c.ledger = b.ledger

WeightRows(month, n) == UNION {LatestRows("weight", "", m, n) : m \in (month - 5)..month}
WeightRowsOf(d, month, n) == {i \in WeightRows(month, n) : ledger[i].deployment = d}

(* They are rows of the ledger, and stay.                                  *)
LEMMA WeightRowsKept ==
    ASSUME Grown(ledger, ledger'), NEW n \in 0..Len(ledger), NEW d, NEW month
    PROVE  /\ WeightRowsOf(d, month, n) \in SUBSET (DOMAIN ledger)
           /\ WeightRowsOf(d, month, n)' = WeightRowsOf(d, month, n)
<1>1. n \in Nat /\ 1..n \subseteq DOMAIN ledger /\ \A i \in DOMAIN ledger : ledger'[i] = ledger[i]
  BY DEF Grown
<1>2. \A type, cur, m : LatestRows(type, cur, m, n) \subseteq 1..n
  BY <1>1, LatestAreRows
<1>3. \A type, cur, m : LatestRows(type, cur, m, n)' = LatestRows(type, cur, m, n)
  BY LatestKept
<1>4. PICK U : U = WeightRows(month, n)
  OBVIOUS
<1>5. PICK V : V = WeightRows(month, n)'
  OBVIOUS
<1>6. U = V
  BY <1>3, <1>4, <1>5, Zenon DEF WeightRows
<1>7. U \subseteq DOMAIN ledger
  <2>1. \A i \in U : \E m : i \in LatestRows("weight", "", m, n)
    BY <1>4, Zenon DEF WeightRows
  <2>2. \A i \in U : i \in 1..n
    BY <1>2, <2>1, Zenon
  <2>3. QED
    BY <1>1, <2>2
<1>8. \A i \in U : ledger'[i].deployment = ledger[i].deployment
  BY <1>1, <1>7
<1>9. WeightRowsOf(d, month, n) = {i \in U : ledger[i].deployment = d}
  BY <1>4, Zenon DEF WeightRowsOf
<1>10. WeightRowsOf(d, month, n)' = {i \in V : ledger'[i].deployment = d}
  BY <1>5, Zenon DEF WeightRowsOf
<1>11. {i \in V : ledger'[i].deployment = d} = {i \in U : ledger[i].deployment = d}
  BY <1>6, <1>8
<1>12. QED
  BY <1>7, <1>9, <1>10, <1>11

(* So is the weight of a deployment.                                       *)
LEMMA MeasuredWeightKept ==
    ASSUME Grown(ledger, ledger'), NEW b, NEW c, SameLedger(b, c), NEW d, NEW month
    PROVE  MeasuredWeight(d, month, c)' = MeasuredWeight(d, month, b)
<1>1. PICK n : n = b.ledger
  OBVIOUS
<1>2. n \in 0..Len(ledger) /\ c.ledger = n
  BY <1>1 DEF SameLedger
<1>3. PICK S : S = WeightRowsOf(d, month, n)
  OBVIOUS
<1>4. PICK T : T = WeightRowsOf(d, month, n)'
  OBVIOUS
<1>5. S = T /\ S \in SUBSET (DOMAIN ledger)
  BY <1>2, <1>3, <1>4, WeightRowsKept
<1>6. Values(S)' = Values(S)
  BY <1>5, ValuesKept
<1>7. MeasuredWeight(d, month, b) = Values(S)
  BY <1>1, <1>3, Zenon DEF MeasuredWeight, WeightRowsOf, WeightRows
<1>8. MeasuredWeight(d, month, c)' = Values(T)'
  BY <1>2, <1>4, Zenon DEF MeasuredWeight, WeightRowsOf, WeightRows
<1>9. QED
  BY <1>5, <1>6, <1>7, <1>8

(* So is the measured weight, and the weight of a group.                   *)
LEMMA GroupWeightKept ==
    ASSUME Grown(ledger, ledger'), NEW b, NEW c, SameLedger(b, c), NEW month
    PROVE  /\ Measured(month, c)' = Measured(month, b)
           /\ \A group, members :
                GroupWeight(group, members, month, c)' = GroupWeight(group, members, month, b)
<1>1. \A d : MeasuredWeight(d, month, c)' = MeasuredWeight(d, month, b)
  BY MeasuredWeightKept
<1>2. \A D : [d \in D |-> MeasuredWeight(d, month, c)'] = [d \in D |-> MeasuredWeight(d, month, b)]
  BY <1>1, Zenon
<1>3. Measured(month, c)' = Measured(month, b)
  <2>1. Measured(month, c)' = SumFunction([d \in Deployments |-> MeasuredWeight(d, month, c)'])
    BY Zenon DEF Measured
  <2>2. QED
    BY <1>2, <2>1, Zenon DEF Measured
<1>4. ASSUME NEW group, NEW members
      PROVE  GroupWeight(group, members, month, c)' = GroupWeight(group, members, month, b)
  <2>1. PICK D : D = {d \in Deployments : [group |-> group, deployment |-> d] \in members}
    OBVIOUS
  <2>2. GroupWeight(group, members, month, c)'
            = SumFunction([d \in D |-> MeasuredWeight(d, month, c)'])
    BY <2>1, Zenon DEF GroupWeight
  <2>3. GroupWeight(group, members, month, b)
            = SumFunction([d \in D |-> MeasuredWeight(d, month, b)])
    BY <2>1, Zenon DEF GroupWeight
  <2>4. QED
    BY <1>2, <2>2, <2>3, Zenon
<1>5. QED
  BY <1>3, <1>4

(* And so are the weights of all groups.                                   *)
LEMMA GroupWeightsKept ==
    ASSUME Grown(ledger, ledger'), NEW b, NEW c, SameLedger(b, c), NEW month, NEW members
    PROVE  GroupWeights(members, month, c)' = GroupWeights(members, month, b)
<1>1. \A g : GroupWeight(g, members, month, c)' = GroupWeight(g, members, month, b)
  BY GroupWeightKept
<1> DEFINE W(g) == GroupWeight(g, members, month, b)
           G == {g \in {m.group : m \in members} : W(g) > 0}
<1>2. GroupWeights(members, month, b) = [g \in G |-> W(g)]
  BY Zenon DEF GroupWeights
<1>3. GroupWeights(members, month, c)' =
        [g \in {g \in {m.group : m \in members} : GroupWeight(g, members, month, c)' > 0} |->
            GroupWeight(g, members, month, c)']
  BY Zenon DEF GroupWeights
<1>4. {g \in {m.group : m \in members} : GroupWeight(g, members, month, c)' > 0} = G
  BY <1>1
<1>5. QED
  BY <1>1, <1>2, <1>3, <1>4, Zenon

(* The commission bases stay.                                              *)
LEMMA BasisKept ==
    ASSUME Grown(ledger, ledger'), NEW n \in 0..Len(ledger), NEW month, NEW cur
    PROVE  BasisOf(month, cur, n)' = BasisOf(month, cur, n)
<1>1. n \in Nat /\ 1..n \subseteq DOMAIN ledger
  BY DEF Grown
<1>2. \A m : LatestRows("revenue", cur, m, n) \in SUBSET (DOMAIN ledger)
  <2>1. \A type, m : LatestRows(type, cur, m, n) \subseteq 1..n
    BY <1>1, LatestAreRows
  <2>2. QED
    BY <1>1, <2>1
<1>3. \A m : LatestRows("revenue", cur, m, n)' = LatestRows("revenue", cur, m, n)
  BY LatestKept
<1>4. ASSUME NEW m PROVE Values(LatestRows("revenue", cur, m, n))'
                            = Values(LatestRows("revenue", cur, m, n))
  <2>1. PICK S : S = LatestRows("revenue", cur, m, n)
    OBVIOUS
  <2>2. PICK T : T = LatestRows("revenue", cur, m, n)'
    OBVIOUS
  <2>3. S = T /\ S \in SUBSET (DOMAIN ledger)
    BY <1>2, <1>3, <2>1, <2>2
  <2>4. Values(S)' = Values(S)
    BY <2>3, ValuesKept
  <2>5. Values(LatestRows("revenue", cur, m, n))' = Values(T)'
    BY <2>2, Zenon DEF Values
  <2>6. QED
    BY <2>1, <2>3, <2>4, <2>5
<1>5. QED
  BY <1>4, Zenon DEF BasisOf, TrailingMonths

(* The newest profile of a group and its review stay.                      *)
ProfilesOf(rows, group) ==
    {d \in Deployments : /\ rows[d].active /\ rows[d].claimed /\ rows[d].group = group
                         /\ rows[d].state = "pending-review"}

NewestProfile(rows, group) ==
    CHOOSE d \in ProfilesOf(rows, group) :
        \A e \in ProfilesOf(rows, group) : rows[e].profile <= rows[d].profile

(* A boundary reads the rows as of its audit index.                        *)
LEMMA RowsAtBoundaryKept ==
    ASSUME OperatorGrowth, NEW b, NEW c, SameBoundary(b, c)
    PROVE  NetworkAt[c.audit]' = NetworkAt[b.audit]
<1>1. PICK i : i = b.audit
  OBVIOUS
<1>2. i \in 0..Len(events) /\ c.audit = i /\ Grown(events, events')
  BY <1>1 DEF SameBoundary, Within, OperatorGrowth
<1>3. NetworkAt[i]' = NetworkAt[i]
  BY <1>2, NetworkKept
<1>4. QED
  BY <1>1, <1>2, <1>3

(* So a group's profile stays approved or not.                             *)
LEMMA ProfileKept ==
    ASSUME OperatorGrowth, NEW b, NEW c, SameBoundary(b, c), NEW group
    PROVE  GroupProfileApproved(group, c)' <=> GroupProfileApproved(group, b)
<1>1. PICK rows : rows = NetworkAt[b.audit]
  OBVIOUS
<1>2. NetworkAt[c.audit]' = rows
  BY <1>1, RowsAtBoundaryKept
<1>3. PICK d : d = NewestProfile(rows, group)
  OBVIOUS
<1>4. GroupProfileApproved(group, b)
        <=> ProfilesOf(rows, group) = {} \/ ClaimStateAt(rows[d], b) = "approved"
  BY <1>1, <1>3, Zenon DEF GroupProfileApproved, ProfilesOf, NewestProfile
<1>5. GroupProfileApproved(group, c)'
        <=> ProfilesOf(rows, group) = {} \/ ClaimStateAt(rows[d], c)' = "approved"
  BY <1>2, <1>3, Zenon DEF GroupProfileApproved, ProfilesOf, NewestProfile
<1>6. ClaimStateAt(rows[d], c)' = ClaimStateAt(rows[d], b)
  BY ClaimStateKept
<1>7. QED
  BY <1>4, <1>5, <1>6

(* Who a settlement pays stays.                                            *)
PaidAt(rows, d, b) ==
    /\ rows[d].active /\ rows[d].claimed
    /\ EligibilityAt(rows[d], b) = "active"
    /\ GroupAt(d, rows[d], b) # 0
    /\ GroupProfileApproved(GroupAt(d, rows[d], b), b)

(* The members a boundary selects, by the rows it reads.                   *)
LEMMA BeneficiariesKept ==
    ASSUME OperatorGrowth, ExitGrowth, NEW b, NEW c, SameBoundary(b, c)
    PROVE  BeneficiaryMembers(c)' = BeneficiaryMembers(b)
<1>1. PICK rows : rows = NetworkAt[b.audit]
  OBVIOUS
<1>2. NetworkAt[c.audit]' = rows
  BY <1>1, RowsAtBoundaryKept
<1>3. \A d : /\ GroupAt(d, rows[d], c)' = GroupAt(d, rows[d], b)
             /\ EligibilityAt(rows[d], c)' = EligibilityAt(rows[d], b)
  BY ClaimStateKept, GroupKept
<1>4. \A g : GroupProfileApproved(g, c)' <=> GroupProfileApproved(g, b)
  BY ProfileKept
<1>5. ASSUME NEW d PROVE PaidAt(rows, d, c)' <=> PaidAt(rows, d, b)
  <2>1. PICK g : g = GroupAt(d, rows[d], b)
    OBVIOUS
  <2>2. GroupAt(d, rows[d], c)' = g
    BY <1>3, <2>1
  <2>3. GroupProfileApproved(GroupAt(d, rows[d], c), c)' <=> GroupProfileApproved(g, c)'
    BY <2>2, Zenon DEF GroupProfileApproved
  <2>4. QED
    BY <1>3, <1>4, <2>1, <2>2, <2>3, Zenon DEF PaidAt
<1>6. BeneficiaryMembers(b) =
        {[group |-> GroupAt(d, rows[d], b), deployment |-> d] :
            d \in {x \in Deployments : PaidAt(rows, x, b)}}
  BY <1>1, Zenon DEF BeneficiaryMembers, PaidAt
<1>7. BeneficiaryMembers(c)' =
        {[group |-> GroupAt(d, rows[d], c)', deployment |-> d] :
            d \in {x \in Deployments : PaidAt(rows, x, c)'}}
  BY <1>2 DEF BeneficiaryMembers, PaidAt
<1>8. {x \in Deployments : PaidAt(rows, x, c)'} = {x \in Deployments : PaidAt(rows, x, b)}
  BY <1>5, Zenon
<1>9. PICK P : P = {x \in Deployments : PaidAt(rows, x, b)}
  OBVIOUS
<1>10. {[group |-> GroupAt(d, rows[d], c)', deployment |-> d] : d \in P}
            = {[group |-> GroupAt(d, rows[d], b), deployment |-> d] : d \in P}
  BY <1>3
<1>11. QED
  BY <1>6, <1>7, <1>8, <1>9, <1>10, Zenon

RevenueRows(month, cur, n) ==
    UNION {LatestRows("revenue", cur, m, n) : m \in TrailingMonths(month)}

(* All the sources of a settlement stay.                                   *)
LEMMA SourcesKept ==
    ASSUME OperatorGrowth, ExitGrowth, Grown(ledger, ledger'), NEW b, NEW c, SameBoundary(b, c),
           SameLedger(b, c), NEW month, NEW cur
    PROVE  Sources(month, cur, c)' = Sources(month, cur, b)
<1>1. PICK n : n = b.ledger
  OBVIOUS
<1>2. n \in 0..Len(ledger) /\ c.ledger = n
  BY <1>1 DEF SameLedger
<1>3. c.audit = b.audit /\ c.review = b.review /\ c.eligibility = b.eligibility
  BY DEF SameBoundary
<1>4. PICK members : members = BeneficiaryMembers(b)
  OBVIOUS
<1>5. BeneficiaryMembers(c)' = members
  BY <1>4, BeneficiariesKept
<1>6. GroupWeights(members, month, c)' = GroupWeights(members, month, b)
  BY GroupWeightsKept
<1>7. BasisOf(month, cur, n)' = BasisOf(month, cur, n)
  BY <1>2, BasisKept
<1>8. RevenueRows(month, cur, n)' = RevenueRows(month, cur, n)
  <2>1. \A m : LatestRows("revenue", cur, m, n)' = LatestRows("revenue", cur, m, n)
    BY <1>2, LatestKept
  <2>2. QED
    BY <2>1, Zenon DEF RevenueRows, TrailingMonths
<1>9. Sources(month, cur, b) =
        [month |-> month, currency |-> cur,
         through |-> [ledger |-> n, audit |-> b.audit, review |-> b.review,
                      eligibility |-> b.eligibility],
         revenue |-> RevenueRows(month, cur, n), basis |-> BasisOf(month, cur, n),
         weights |-> GroupWeights(members, month, b), members |-> members]
  BY <1>1, <1>4, Zenon DEF Sources, RevenueRows, BasisOf
<1>10. Sources(month, cur, c)' =
        [month |-> month, currency |-> cur,
         through |-> [ledger |-> n, audit |-> b.audit, review |-> b.review,
                      eligibility |-> b.eligibility],
         revenue |-> RevenueRows(month, cur, n)', basis |-> BasisOf(month, cur, n)',
         weights |-> GroupWeights(members, month, c)', members |-> members]
  <2>1. GroupWeights(BeneficiaryMembers(c), month, c)' = GroupWeights(members, month, c)'
    BY <1>5, Zenon DEF GroupWeights
  <2>2. Sources(month, cur, c)' =
            [month |-> month, currency |-> cur,
             through |-> [ledger |-> c.ledger, audit |-> c.audit, review |-> c.review,
                          eligibility |-> c.eligibility],
             revenue |-> RevenueRows(month, cur, c.ledger)',
             basis |-> BasisOf(month, cur, c.ledger)',
             weights |-> GroupWeights(BeneficiaryMembers(c), month, c)',
             members |-> BeneficiaryMembers(c)']
    BY Zenon DEF Sources, RevenueRows, BasisOf
  <2>3. QED
    BY <1>2, <1>3, <1>5, <2>1, <2>2, Zenon
<1>11. QED
  BY <1>6, <1>7, <1>8, <1>9, <1>10, Zenon

(* The source boundary before an entry stays.                              *)
LEMMA SourceIndexKept ==
    ASSUME Grown(ledger, ledger'), NEW n \in 0..Len(ledger)
    PROVE  SourceIndex(n)' = SourceIndex(n)
<1>1. \A i \in 1..n : ledger'[i] = ledger[i]
  BY DEF Grown
<1>2. PICK A : A = {i \in 1..n : ledger[i].type # "settlement"}
  OBVIOUS
<1>3. {i \in 1..n : ledger'[i].type # "settlement"} = A
  BY <1>1, <1>2
<1>4. SourceIndex(n) = IF A = {} THEN 0 ELSE Newest(A)
  BY <1>2, Zenon DEF SourceIndex
<1>5. SourceIndex(n)' = IF A = {} THEN 0 ELSE Newest(A)
  <2>1. SourceIndex(n)' =
            IF {i \in 1..n : ledger'[i].type # "settlement"} = {} THEN 0
            ELSE Newest({i \in 1..n : ledger'[i].type # "settlement"})
    BY Zenon DEF SourceIndex
  <2>2. QED
    BY <1>3, <2>1, Zenon
<1>6. QED
  BY <1>4, <1>5

(* The rows of an ordered chain follow each other in time.                 *)
LEMMA OrderedRows ==
    ASSUME NEW s, Table(s), \A i \in DOMAIN s : s[i].at \in Nat, Ordered(s),
           NEW i \in DOMAIN s, NEW k \in DOMAIN s, i <= k
    PROVE  s[i].at <= s[k].at
<1>1. PICK n : n = Len(s)
  OBVIOUS
<1>2. n \in Nat /\ DOMAIN s = 1..n
  <2>1. PICK S : s \in Seq(S)
    BY DEF Table
  <2>2. QED
    BY <1>1, <2>1
<1> DEFINE T == {j \in 1..k : ~(s[j].at <= s[k].at)}
<1>3. T = {}
  <2>1. SUFFICES ASSUME T # {} PROVE FALSE
    OBVIOUS
  <2>2. T \in SUBSET (1..k) /\ k \in Nat
    BY <1>2
  <2>3. PICK m \in T : \A j \in T : j <= m
    <3> HIDE DEF T
    <3>1. QED
      BY <2>1, <2>2, LargestElement
  <2>4. m \in 1..k /\ ~(s[m].at <= s[k].at)
    BY <2>3
  <2>5. m # k
    BY <1>2, <2>4
  <2>6. m + 1 \in 2..n /\ m + 1 \in 1..k /\ ~(m + 1 <= m) /\ (m + 1) - 1 = m /\ m + 1 \in DOMAIN s
        /\ m \in DOMAIN s
    BY <1>2, <2>4, <2>5
  <2>7. s[m + 1].at <= s[k].at
    BY <2>3, <2>6
  <2>8. s[m].at <= s[m + 1].at
    BY <1>1, <2>6 DEF Ordered
  <2>9. PICK a \in Nat, b \in Nat, c \in Nat : a = s[m].at /\ b = s[m + 1].at /\ c = s[k].at
    BY <2>6
  <2>10. ~(a <= c) /\ b <= c /\ a <= b
    BY <2>4, <2>7, <2>8, <2>9
  <2>11. QED
    BY <2>10
<1>4. i \in 1..k
  BY <1>2
<1>5. QED
  BY <1>3, <1>4

(* So the rows accepted by some time are the ones up to an index.          *)
LEMMA ThroughOrdered ==
    ASSUME NEW s, Table(s), \A i \in DOMAIN s : s[i].at \in Nat, Ordered(s), NEW t \in Nat
    PROVE  /\ ThroughIndex(s, t) \in 0..Len(s)
           /\ \A k \in DOMAIN s : k <= ThroughIndex(s, t) <=> s[k].at <= t
<1>1. PICK n : n = Len(s)
  OBVIOUS
<1>2. n \in Nat /\ DOMAIN s = 1..n
  <2>1. PICK S : s \in Seq(S)
    BY DEF Table
  <2>2. QED
    BY <1>1, <2>1
<1>3. PICK I : I = {i \in DOMAIN s : s[i].at <= t}
  OBVIOUS
<1>4. ThroughIndex(s, t) = Cardinality(I) /\ I \in SUBSET (1..n)
  BY <1>2, <1>3 DEF ThroughIndex
<1>5. CASE I = {}
  <2>1. Cardinality(I) = 0
    BY <1>5, FS_EmptySet
  <2>2. \A k \in DOMAIN s : ~(s[k].at <= t)
    BY <1>3, <1>5
  <2>3. QED
    BY <1>1, <1>2, <1>4, <2>1, <2>2
<1>6. CASE I # {}
  <2>1. PICK m \in I : \A i \in I : i <= m
    BY <1>2, <1>4, <1>6, LargestElement
  <2>2. m \in DOMAIN s /\ s[m].at <= t /\ m \in Nat /\ m <= n
    BY <1>2, <1>3, <2>1
  <2>3. ASSUME NEW i \in 1..m PROVE i \in I
    <3>1. i \in DOMAIN s /\ i <= m
      BY <1>2, <2>2
    <3>2. s[i].at <= s[m].at
      BY <2>2, <3>1, OrderedRows
    <3>3. s[i].at \in Nat /\ s[m].at \in Nat
      BY <2>2, <3>1
    <3>4. QED
      BY <1>3, <2>2, <3>1, <3>2, <3>3
  <2>4. I = 1..m
    <3>1. \A i \in I : i \in 1..m
      BY <1>2, <1>4, <2>1, <2>2
    <3>2. \A i : i \in I <=> i \in 1..m
      BY <2>3, <3>1, Zenon
    <3>3. QED
      BY <3>2, Zenon
  <2>5. Cardinality(I) = m
    <3>1. Cardinality(1..m) = m
      BY <2>2, FS_Interval
    <3>2. QED
      BY <2>4, <3>1
  <2>6. \A k \in DOMAIN s : k <= m <=> s[k].at <= t
    BY <1>2, <1>3, <2>2, <2>4
  <2>7. QED
    BY <1>1, <1>4, <2>2, <2>5, <2>6
<1>7. QED
  BY <1>5, <1>6

-----------------------------------------------------------------------------
(* SettlementAuditPasses.                                                  *)

(* A new membership is that of the newest transfer event.                  *)
LEMMA NewMembershipAt ==
    ASSUME TypeOK, [Next]_vars, NEW m \in DOMAIN memberships', m \notin DOMAIN memberships
    PROVE  memberships'[m].at = transferredAt'
<1>1. ASSUME NEW x, NEW at, Completed(x, at) PROVE memberships'[m].at = transferredAt'
  <2>1. Extended(memberships, memberships', Membership(x, at)) /\ transferredAt' = at
    BY <1>1, Zenon DEF Completed
  <2>2. memberships'[m] = Membership(x, at)
    BY <2>1 DEF Extended
  <2>3. Membership(x, at).at = at
    BY DEF Membership
  <2>4. QED
    BY <2>1, <2>2, <2>3
<1>2. memberships' # memberships
  OBVIOUS
<1>3. QED
  BY <1>1, <1>2, ExitCases, Zenon
     DEF exitVars, Froze, ReviewedExit, Prepared, Decided, Created, Verified

(* The ledger is in the order of time.                                     *)
LedgerInOrder == Ordered(ledger)

(* Every entry is no later than the head.                                  *)
LEMMA EntriesPast ==
    ASSUME LedgerTables, LedgerInOrder
    PROVE  /\ \A i \in DOMAIN ledger : ledger[i].at \in Nat /\ ledger[i].at <= HeadAt(ledger)
           /\ HeadAt(ledger) \in Nat
<1>1. PICK S : ledger \in Seq(S)
  BY DEF LedgerTables, Table
<1>2. \A i \in DOMAIN ledger : ledger[i].at \in Nat
  BY ReadsAreTimes DEF LedgerTables
<1>3. \A i \in DOMAIN ledger : ledger[i].at <= HeadAt(ledger)
  BY <1>1, <1>2, HeadIsLatest DEF LedgerInOrder
<1>4. HeadAt(ledger) \in Nat
  <2>1. ledger # <<>> => Len(ledger) \in DOMAIN ledger
    BY <1>1
  <2>2. QED
    BY <1>2, <2>1 DEF HeadAt
<1>5. QED
  BY <1>2, <1>3, <1>4

(* Every step keeps the order.                                             *)
LEMMA LedgerInOrderStep ==
    ASSUME TypeOK, LedgerTables, LedgerInOrder, [SettlementNext]_<<vars, settlementVars>>
    PROVE  LedgerInOrder'
<1>1. SettlementCase
  BY SettlementCases
<1>2. ASSUME NEW e, Appended(ledger, ledger', e), LedgerOpen(e.at) PROVE LedgerInOrder'
  <2>1. PICK S : ledger \in Seq(S)
    BY DEF LedgerTables, Table
  <2>2. Extended(ledger, ledger', e) /\ HeadAt(ledger) <= e.at
    BY <1>2 DEF Appended, LedgerOpen
  <2>3. PICK t : t = ledger'
    OBVIOUS
  <2>4. Ordered(t)
    BY <2>1, <2>2, <2>3, OrderedExtends DEF LedgerInOrder
  <2>5. QED
    BY <2>3, <2>4 DEF LedgerInOrder, Ordered
<1>3. ASSUME NEW month, NEW cur, NEW at, Settled(month, cur, at) PROVE LedgerInOrder'
  <2>1. PICK e : e = SettlementEntry(month, cur, at)
    OBVIOUS
  <2>2. e.at = at
    BY <2>1, Zenon DEF SettlementEntry
  <2>3. Appended(ledger, ledger', e) /\ LedgerOpen(at)
    BY <1>3, <2>1, Zenon DEF Settled
  <2>4. QED
    BY <1>2, <2>2, <2>3
<1>4. ASSUME NEW row, Reported(row) PROVE LedgerInOrder'
  BY <1>2, <1>4, Zenon DEF Reported
<1>5. UNCHANGED ledger => LedgerInOrder'
  BY DEF LedgerInOrder, Ordered
<1>6. QED
  BY <1>1, <1>3, <1>4, <1>5, Zenon DEF SettlementCase, Sealed, FrozeSettled, PaidOut, LeftLedger,
     settlementVars

(* A step that completes a transfer leaves the ledger behind it.           *)
LEMMA CompletedLater ==
    ASSUME TypeOK, LedgerTables, [SettlementNext]_<<vars, settlementVars>>, memberships' # memberships
    PROVE  HeadAt(ledger) < transferredAt'
<1>1. ASSUME NEW s, NEW date, NEW at, FrozeSettled(s, date, at) PROVE memberships' = memberships
  BY <1>1, Zenon DEF FrozeSettled, Froze
<1>2. ASSUME NEW v, NEW x, NEW beneficiary, NEW at, PaidOut(v, x, beneficiary, at)
      PROVE  memberships' = memberships
  BY <1>2, Zenon DEF PaidOut, Created
<1>3. LeftLedger
  BY <1>1, <1>2, SettlementCases, Zenon DEF SettlementCase, Settled, Reported, Sealed, vars, exitVars
<1>4. QED
  BY <1>3 DEF LeftLedger, CompletionAfterLedger

(* The boundary a settlement is pinned to exists, and the entry it was     *)
(* appended with.                                                          *)
Pinned(r) ==
    /\ r.at \in Nat
    /\ r.index \in DOMAIN ledger
    /\ ledger[r.index].at = r.at
    /\ PinnedBoundary(r).ledger \in 0..Len(ledger)
    /\ Within(PinnedBoundary(r))

(* The completion events of memberships, before and after a step.          *)
MembershipEvents ==
    \A m \in DOMAIN memberships :
        /\ memberships[m].event \in DOMAIN transferEvents
        /\ transferEvents[memberships[m].event].at = memberships[m].at

(* The rails have them.                                                    *)
LEMMA MembershipEventsExist == RailsInv => MembershipEvents
<1> SUFFICES ASSUME RailsInv PROVE MembershipEvents
  OBVIOUS
<1>1. TypeOK /\ MembershipRail
  BY DEF RailsInv, TablesInv
<1>2. \A m \in DOMAIN memberships : memberships[m].event \in DOMAIN transferEvents
  BY <1>1, ExitTableTypes DEF MembershipRows
<1>3. \A m \in DOMAIN memberships : transferEvents[memberships[m].event].at = memberships[m].at
  BY <1>1, Zenon DEF MembershipRail, Boundary
<1>4. QED
  BY <1>2, <1>3 DEF MembershipEvents

(* What the transfer chain is for ThroughIndex.                            *)
TransferChain ==
    /\ Table(transferEvents)
    /\ \A k \in DOMAIN transferEvents : transferEvents[k].at \in Nat
    /\ Ordered(transferEvents)

(* The rails give it.                                                      *)
LEMMA TransferChainOrdered == RailsInv => TransferChain
<1> SUFFICES ASSUME RailsInv PROVE TransferChain
  OBVIOUS
<1>1. TypeOK /\ TransferRail
  BY DEF RailsInv, TablesInv
<1>2. transferEvents \in Seq(TransferEventRows)
  BY <1>1 DEF TypeOK
<1>3. Table(transferEvents)
  BY <1>2, Zenon DEF Table
<1>4. \A k \in DOMAIN transferEvents : transferEvents[k].at \in Nat
  BY <1>1, ExitTableTypes, ReadsAreTimes DEF TransferEventRows
<1>5. QED
  BY <1>1, <1>3, <1>4 DEF TransferRail, TransferChain

(* The same of the next state.                                             *)
LEMMA NextRails == RailsInv' => MembershipEvents' /\ TransferChain'
BY MembershipEventsExist, TransferChainOrdered, PTL

(* The boundary a settlement is pinned to sees the same after a step: a    *)
(* completion is later than the settlement, however late it commits.       *)
LEMMA PinnedSame ==
    ASSUME RailsInv, LedgerTables, LedgerInOrder, [SettlementNext]_<<vars, settlementVars>>,
           NEW r, Pinned(r), NEW b, b = PinnedBoundary(r), NEW c, c = PinnedBoundary(r)'
    PROVE  SameBoundary(b, c) /\ SameLedger(b, c)
<1>1. TypeOK /\ TablesInv
  BY DEF RailsInv, TablesInv
<1>2. [Next]_vars /\ RailsInv'
  BY <1>1, SettlementStepImplements, RailsStep
<1>3. ExitGrowth /\ TypeOK'
  BY <1>1, <1>2, TablesStep DEF TablesInv
<1>4. PICK t \in Nat : t = r.at
  BY DEF Pinned
<1>5. t <= HeadAt(ledger) /\ HeadAt(ledger) \in Nat
  BY <1>4, EntriesPast DEF Pinned
<1>6. /\ c.ledger = b.ledger /\ c.audit = b.audit /\ c.review = b.review
      /\ c.eligibility = b.eligibility /\ c.date = b.date
      /\ b.transfer = ThroughIndex(transferEvents, t)
      /\ c.transfer = ThroughIndex(transferEvents', t)
  BY <1>4 DEF PinnedBoundary, ThroughIndex
<1>7. \A k \in DOMAIN transferEvents : k <= b.transfer <=> transferEvents[k].at <= t
  BY <1>6, TransferChainOrdered, ThroughOrdered DEF TransferChain
<1>8. PICK chain : chain = transferEvents'
  OBVIOUS
<1>9. Table(chain) /\ (\A k \in DOMAIN chain : chain[k].at \in Nat) /\ Ordered(chain)
  BY <1>2, <1>8, NextRails DEF TransferChain, Ordered
<1>10. \A k \in DOMAIN chain : k <= c.transfer <=> chain[k].at <= t
  BY <1>6, <1>8, <1>9, ThroughOrdered
<1>11. MembershipEvents /\ MembershipEvents'
  BY <1>2, MembershipEventsExist, NextRails
<1>12. ASSUME NEW m \in DOMAIN memberships'
       PROVE  memberships'[m].event <= c.transfer
                <=> m \in DOMAIN memberships /\ memberships[m].event <= b.transfer
  <2>1. PICK k : k = memberships'[m].event
    OBVIOUS
  <2>2. k \in DOMAIN chain /\ chain[k].at = memberships'[m].at
    BY <1>8, <1>11, <2>1 DEF MembershipEvents
  <2>3. k <= c.transfer <=> memberships'[m].at <= t
    BY <1>10, <2>2
  <2>4. CASE m \in DOMAIN memberships
    <3>1. memberships'[m] = memberships[m]
      BY <1>3, <2>4 DEF ExitGrowth, Grown
    <3>2. k \in DOMAIN transferEvents /\ transferEvents[k].at = memberships[m].at
      BY <1>11, <2>1, <2>4, <3>1 DEF MembershipEvents
    <3>3. k <= b.transfer <=> memberships[m].at <= t
      BY <1>7, <3>2
    <3>4. QED
      BY <2>1, <2>3, <2>4, <3>1, <3>3
  <2>5. CASE m \notin DOMAIN memberships
    <3>1. memberships'[m].at = transferredAt'
      BY <1>1, <1>2, <2>5, NewMembershipAt
    <3>2. HeadAt(ledger) < transferredAt'
      <4>1. memberships' # memberships
        BY <2>5
      <4>2. QED
        BY <1>1, <4>1, CompletedLater
    <3>3. transferredAt' \in Nat
      BY <1>3, ReadsAreTimes DEF TypeOK, OperatorTypeOK, Stamps
    <3>4. ~(memberships'[m].at <= t)
      BY <1>5, <3>1, <3>2, <3>3
    <3>5. QED
      BY <2>1, <2>3, <2>5, <3>4
  <2>6. QED
    BY <2>4, <2>5
<1>13. Within(b) /\ b.ledger \in 0..Len(ledger)
  BY DEF Pinned
<1>14. QED
  BY <1>6, <1>12, <1>13, Zenon DEF SameBoundary, SameLedger

(* Rebuilding a settlement at boundary b gives what it says.               *)
RebuiltAt(r, b, measured) ==
    /\ r.sources = Sources(r.sources.month, r.sources.currency, b)
    /\ r.derived = Derived(r.sources.month, r.sources.basis, r.sources.weights, measured)

Rebuilt(r) ==
    /\ r.sources.through.ledger = SourceIndex(r.index - 1)
    /\ \A b, measured :
            b = PinnedBoundary(r) /\ measured = Measured(r.sources.month, b)
                => RebuiltAt(r, b, measured)

(* That is what the audit does.                                            *)
LEMMA RebuiltReproduces ==
    ASSUME NEW r, Rebuilt(r)
    PROVE  SettlementReproduces(r)
<1>1. PICK b : b = PinnedBoundary(r)
  OBVIOUS
<1>2. PICK measured : measured = Measured(r.sources.month, b)
  OBVIOUS
<1>3. RebuiltAt(r, b, measured)
  BY <1>1, <1>2, Zenon DEF Rebuilt
<1>4. QED
  BY <1>1, <1>2, <1>3, Zenon
     DEF Rebuilt, RebuiltAt, SettlementReproduces, SourcesReproduce, DerivedReproduces

(* A boundary within the tables stays within them.                         *)
LEMMA WithinKept ==
    ASSUME OperatorGrowth, ExitGrowth, NEW b, NEW c, SameBoundary(b, c),
           c.transfer \in 0..Len(transferEvents')
    PROVE  Within(c)'
<1>1. /\ Len(events) \in Nat /\ Len(events') \in Nat /\ Len(events) <= Len(events')
      /\ Len(reviews) \in Nat /\ Len(reviews') \in Nat /\ Len(reviews) <= Len(reviews')
      /\ Len(decisions) \in Nat /\ Len(decisions') \in Nat /\ Len(decisions) <= Len(decisions')
  <2>1. Grown(events, events') /\ Grown(reviews, reviews') /\ Grown(decisions, decisions')
    BY DEF OperatorGrowth
  <2>2. QED
    BY <2>1, Zenon DEF Grown
<1>2. /\ b.audit \in 0..Len(events) /\ b.review \in 0..Len(reviews)
      /\ b.eligibility \in 0..Len(decisions)
      /\ c.audit = b.audit /\ c.review = b.review /\ c.eligibility = b.eligibility
  BY DEF SameBoundary, Within
<1>3. /\ c.audit \in 0..Len(events') /\ c.review \in 0..Len(reviews')
      /\ c.eligibility \in 0..Len(decisions')
  BY <1>1, <1>2
<1>4. QED
  BY <1>3 DEF Within

(* A settlement stays what rebuilding it gives.                            *)
LEMMA RebuiltKept ==
    ASSUME RailsInv, LedgerTables, LedgerInOrder, [SettlementNext]_<<vars, settlementVars>>,
           NEW r, Pinned(r), Rebuilt(r)
    PROVE  Pinned(r)' /\ Rebuilt(r)'
<1>1. TypeOK /\ TablesInv
  BY DEF RailsInv, TablesInv
<1>2. [Next]_vars /\ LedgerGrowth
  BY <1>1, SettlementStepImplements, LedgerGrows
<1>3. OperatorGrowth /\ ExitGrowth /\ Grown(ledger, ledger') /\ TypeOK'
  BY <1>1, <1>2, TablesStep DEF LedgerGrowth, TablesInv
<1>4. PICK b : b = PinnedBoundary(r)
  OBVIOUS
<1>5. PICK c : c = PinnedBoundary(r)'
  OBVIOUS
<1>6. SameBoundary(b, c) /\ SameLedger(b, c)
  BY <1>4, <1>5, PinnedSame
<1>7. /\ r.at \in Nat /\ r.index \in DOMAIN ledger /\ ledger[r.index].at = r.at
      /\ b.ledger \in 0..Len(ledger) /\ Within(b)
  BY <1>4 DEF Pinned
<1>8. /\ Len(ledger) \in Nat /\ DOMAIN ledger = 1..Len(ledger)
      /\ Len(ledger') \in Nat /\ Len(ledger) <= Len(ledger')
      /\ r.index \in DOMAIN ledger' /\ ledger'[r.index] = ledger[r.index]
  BY <1>3, <1>7 DEF Grown
<1>9. Pinned(r)'
  <2>1. c.transfer \in 0..Len(transferEvents')
    <3>1. c.transfer = ThroughIndex(transferEvents', r.at)
      BY <1>5 DEF PinnedBoundary, ThroughIndex
    <3>2. PICK chain : chain = transferEvents'
      OBVIOUS
    <3>3. chain \in Seq(TransferEventRows')
      BY <1>3, <3>2 DEF TypeOK
    <3>4. QED
      BY <3>1, <3>2, <3>3, ThroughIndexIs
  <2>2. Within(c)'
    BY <1>3, <1>6, <2>1, WithinKept
  <2>3. c.ledger \in 0..Len(ledger')
    BY <1>6, <1>8 DEF SameLedger
  <2>4. Within(PinnedBoundary(r))'
    BY <1>5, <2>2, Zenon DEF Within
  <2>5. QED
    BY <1>5, <1>7, <1>8, <2>3, <2>4, Zenon DEF Pinned
<1>10. r.sources.through.ledger = SourceIndex(r.index - 1)'
  <2>1. PICK n : n = r.index - 1
    OBVIOUS
  <2>2. n \in 0..Len(ledger)
    BY <1>7, <1>8, <2>1
  <2>3. SourceIndex(n)' = SourceIndex(n)
    BY <1>3, <2>2, SourceIndexKept
  <2>4. QED
    BY <2>1, <2>3 DEF Rebuilt
<1>11. PICK month, cur : month = r.sources.month /\ cur = r.sources.currency
  OBVIOUS
<1>12. PICK measured : measured = Measured(month, b)
  OBVIOUS
<1>13. RebuiltAt(r, b, measured)
  BY <1>4, <1>11, <1>12, Zenon DEF Rebuilt
<1>14. Sources(month, cur, c)' = Sources(month, cur, b)
  BY <1>3, <1>6, SourcesKept
<1>15. Measured(month, c)' = measured
  BY <1>3, <1>6, <1>12, GroupWeightKept
<1>16. RebuiltAt(r, c, measured)'
  BY <1>11, <1>13, <1>14, Zenon DEF RebuiltAt
<1>17. QED
  BY <1>5, <1>9, <1>10, <1>11, <1>15, <1>16, Zenon DEF Rebuilt

(* A new settlement is what rebuilding it gives.                           *)
LEMMA SettledRebuilt ==
    ASSUME TypeOK, TablesInv, LedgerTables, NEW month \in Int, NEW cur, NEW at \in ClockReads,
           Settled(month, cur, at), [Next]_vars, NEW r, r = SettlementRow(month, cur, at)
    PROVE  Pinned(r)' /\ Rebuilt(r)'
<1>1. /\ UNCHANGED vars /\ Appended(ledger, ledger', SettlementEntry(month, cur, at))
  BY Zenon DEF Settled
<1>2. /\ UNCHANGED <<events, reviews, decisions, transferEvents, memberships>>
  BY <1>1 DEF vars, operatorVars, exitVars
<1>3. OperatorGrowth /\ ExitGrowth
  BY TablesStep
<1>4. PICK e : e = SettlementEntry(month, cur, at)
  OBVIOUS
<1>5. Extended(ledger, ledger', e) /\ Grown(ledger, ledger') /\ e.at = at
  BY <1>1, <1>4, Zenon DEF Appended, Extended, SettlementEntry
<1>6. PICK n : n = Len(ledger)
  OBVIOUS
<1>7. n \in Nat /\ n \in 0..Len(ledger) /\ Len(ledger') = n + 1 /\ n + 1 \in DOMAIN ledger'
      /\ ledger'[n + 1] = e
  BY <1>5, <1>6 DEF Extended, Grown
<1>8. PICK b : b = SettlementBoundary(at)
  OBVIOUS
<1>9. Within(b) /\ b.ledger \in 0..Len(ledger)
  BY <1>8, SettlementWithin
<1>10. /\ b.ledger = SourceIndex(n) /\ b.audit = Len(events) /\ b.review = Len(reviews)
       /\ b.eligibility = Len(decisions)
       /\ b = [ledger |-> b.ledger, audit |-> b.audit, review |-> b.review,
               eligibility |-> b.eligibility, transfer |-> ThroughIndex(transferEvents, at),
               date |-> Day(at)]
  BY <1>6, <1>8, Zenon DEF SettlementBoundary
<1>11. PICK sources : sources = Sources(month, cur, b)
  OBVIOUS
<1>12. PICK measured : measured = Measured(month, b)
  OBVIOUS
<1>13. /\ r.sources = sources /\ r.index = n + 1 /\ r.at = at
       /\ r.derived = Derived(month, sources.basis, sources.weights, measured)
  BY <1>6, <1>8, <1>11, <1>12, Zenon DEF SettlementRow
<1>14. /\ sources.month = month /\ sources.currency = cur
       /\ sources.through.ledger = b.ledger /\ sources.through.audit = b.audit
       /\ sources.through.review = b.review /\ sources.through.eligibility = b.eligibility
  BY <1>11, Zenon DEF Sources
<1>15. PinnedBoundary(r)' = b
  <2>1. ThroughIndex(transferEvents, at)' = ThroughIndex(transferEvents, at)
    BY <1>2 DEF ThroughIndex
  <2>2. PinnedBoundary(r)' =
            [ledger |-> b.ledger, audit |-> b.audit, review |-> b.review,
             eligibility |-> b.eligibility, transfer |-> ThroughIndex(transferEvents, at)',
             date |-> Day(at)]
    BY <1>13, <1>14, Zenon DEF PinnedBoundary
  <2>3. QED
    BY <1>10, <2>1, <2>2, Zenon
<1>16. SameBoundary(b, b) /\ SameLedger(b, b)
  <2>1. \A m \in DOMAIN memberships' : memberships'[m].event <= b.transfer
            <=> m \in DOMAIN memberships /\ memberships[m].event <= b.transfer
    BY <1>2, Zenon
  <2>2. QED
    BY <1>9, <2>1, Zenon DEF SameBoundary, SameLedger
<1>17. Pinned(r)'
  <2>1. at \in Nat
    BY ReadsAreTimes
  <2>2. b.ledger \in 0..Len(ledger')
    BY <1>6, <1>7, <1>9
  <2>3. Within(b)'
    BY <1>2, <1>9 DEF Within
  <2>4. Within(PinnedBoundary(r))'
    BY <1>15, <2>3, Zenon DEF Within
  <2>5. r.index \in DOMAIN ledger' /\ ledger'[r.index].at = r.at /\ r.at \in Nat
    BY <1>5, <1>7, <1>13, <2>1
  <2>6. QED
    BY <1>15, <2>2, <2>4, <2>5, Zenon DEF Pinned
<1>18. r.sources.through.ledger = SourceIndex(r.index - 1)'
  <2>1. SourceIndex(n)' = SourceIndex(n)
    BY <1>5, <1>7, SourceIndexKept
  <2>2. r.index - 1 = n
    BY <1>7, <1>13
  <2>3. SourceIndex(r.index - 1)' = SourceIndex(n)'
    BY <2>2
  <2>4. QED
    BY <1>10, <1>13, <1>14, <2>1, <2>3
<1>19. Sources(month, cur, b)' = sources
  BY <1>3, <1>5, <1>11, <1>16, SourcesKept
<1>20. Measured(month, b)' = measured
  BY <1>5, <1>12, <1>16, GroupWeightKept
<1>21. RebuiltAt(r, b, measured)'
  BY <1>13, <1>14, <1>19, Zenon DEF RebuiltAt
<1>22. QED
  BY <1>13, <1>14, <1>15, <1>17, <1>18, <1>20, <1>21, Zenon DEF Rebuilt

(* The earlier revisions of a month and currency.                          *)
PriorOf(s, month, cur) ==
    {p \in DOMAIN settlements :
        /\ p < s /\ settlements[p].sources.month = month /\ settlements[p].sources.currency = cur}

(* They stay.                                                              *)
LEMMA PriorKept ==
    ASSUME Grown(settlements, settlements'), NEW s \in Nat, s <= Len(settlements) + 1,
           NEW month, NEW cur
    PROVE  PriorOf(s, month, cur)' = PriorOf(s, month, cur)
<1>1. /\ Len(settlements) \in Nat /\ DOMAIN settlements = 1..Len(settlements)
      /\ Len(settlements') \in Nat /\ DOMAIN settlements' = 1..Len(settlements')
      /\ \A p \in DOMAIN settlements : p \in DOMAIN settlements' /\ settlements'[p] = settlements[p]
  BY Zenon DEF Grown
<1>2. \A p \in DOMAIN settlements' : p < s => p \in DOMAIN settlements
  BY <1>1
<1>3. PICK A : A = PriorOf(s, month, cur)
  OBVIOUS
<1>4. PICK B : B = PriorOf(s, month, cur)'
  OBVIOUS
<1>5. \A p : p \in A <=> p \in B
  BY <1>1, <1>2, <1>3, <1>4, Zenon DEF PriorOf
<1>6. A = B
  BY <1>5, Zenon
<1>7. QED
  BY <1>3, <1>4, <1>6

(* A revision follows the ones before it, and has its ledger entry.        *)
Revises(r, prior) ==
    /\ r.revision = Cardinality(prior) + 1
    /\ r.supersedes = IF prior = {} THEN 0 ELSE Newest(prior)

Chained(s, r) ==
    /\ \A prior : prior = PriorOf(s, r.sources.month, r.sources.currency) => Revises(r, prior)
    /\ r.index \in DOMAIN ledger
    /\ ledger[r.index].type = "settlement"
    /\ ledger[r.index].value = s
    /\ ledger[r.index].at = r.at

(* It stays one.                                                           *)
LEMMA ChainedKept ==
    ASSUME Grown(ledger, ledger'), Grown(settlements, settlements'), NEW s \in DOMAIN settlements,
           NEW r, Chained(s, r)
    PROVE  Chained(s, r)'
<1>1. s \in Nat /\ s <= Len(settlements) + 1
  BY DEF Grown
<1>2. PICK month, cur : month = r.sources.month /\ cur = r.sources.currency
  OBVIOUS
<1>3. PriorOf(s, month, cur)' = PriorOf(s, month, cur)
  BY <1>1, PriorKept
<1>4. r.index \in DOMAIN ledger' /\ ledger'[r.index] = ledger[r.index]
  BY Zenon DEF Chained, Grown
<1>5. \A prior : prior = PriorOf(s, month, cur) => Revises(r, prior)
  BY <1>2, Zenon DEF Chained
<1>6. \A prior : prior = PriorOf(s, month, cur)' => Revises(r, prior)
  BY <1>3, <1>5, Zenon
<1>7. QED
  BY <1>2, <1>4, <1>6, Zenon DEF Chained, Revises

(* A new settlement is one.                                                *)
LEMMA SettledChained ==
    ASSUME LedgerTables, NEW month, NEW cur, NEW at, Settled(month, cur, at),
           NEW r, r = SettlementRow(month, cur, at), NEW s, s = Len(settlements) + 1
    PROVE  Chained(s, r)'
<1>1. PICK e : e = SettlementEntry(month, cur, at)
  OBVIOUS
<1>2. /\ Extended(ledger, ledger', e) /\ Extended(settlements, settlements', r)
  BY <1>1, Zenon DEF Settled, Appended
<1>3. /\ Len(settlements) \in Nat /\ DOMAIN settlements = 1..Len(settlements)
      /\ Len(settlements') = s /\ s \in Nat /\ s <= Len(settlements) + 1
      /\ Grown(settlements, settlements')
  BY <1>2 DEF Extended, Grown
<1>4. PICK prior : prior = RevisionsOf(month, cur)
  OBVIOUS
<1>5. prior = PriorOf(s, month, cur)
  <2>1. \A p \in DOMAIN settlements : p < s
    BY <1>3
  <2>2. QED
    BY <1>4, <2>1 DEF RevisionsOf, PriorOf
<1>6. PriorOf(s, month, cur)' = prior
  BY <1>3, <1>5, PriorKept
<1>7. PICK sources : sources = Sources(month, cur, SettlementBoundary(at))
  OBVIOUS
<1>8. /\ r.sources = sources /\ r.revision = Cardinality(prior) + 1
      /\ r.supersedes = IF prior = {} THEN 0 ELSE Newest(prior)
      /\ r.index = Len(ledger) + 1 /\ r.at = at
  BY <1>4, <1>7, Zenon DEF SettlementRow
<1>9. sources.month = month /\ sources.currency = cur
  BY <1>7, Zenon DEF Sources
<1>10. e.type = "settlement" /\ e.value = s /\ e.at = at
  BY <1>1, Zenon DEF SettlementEntry
<1>11. r.index \in DOMAIN ledger' /\ ledger'[r.index] = e
  BY <1>2, <1>8 DEF Extended, Grown
<1>12. QED
  BY <1>6, <1>8, <1>9, <1>10, <1>11, Zenon DEF Chained, Revises

(* The settlement entries of the ledger.                                   *)
SettlementEntries == {i \in DOMAIN ledger : ledger[i].type = "settlement"}

EntriesCounted ==
    IsFiniteSet(SettlementEntries) /\ Len(settlements) = Cardinality(SettlementEntries)

(* Every step keeps their number that of the settlements.                  *)
LEMMA EntriesCountedStep ==
    ASSUME TypeOK, LedgerTables, EntriesCounted, [SettlementNext]_<<vars, settlementVars>>
    PROVE  EntriesCounted'
<1>1. SettlementCase
  BY SettlementCases
<1>2. PICK A : A = SettlementEntries
  OBVIOUS
<1>3. IsFiniteSet(A) /\ Len(settlements) = Cardinality(A)
  BY <1>2 DEF EntriesCounted
<1>4. PICK B : B = SettlementEntries'
  OBVIOUS
<1>5. ASSUME IsFiniteSet(B), Len(settlements') = Cardinality(B) PROVE EntriesCounted'
  BY <1>4, <1>5 DEF EntriesCounted
<1>6. ASSUME NEW month, NEW cur, NEW at, Settled(month, cur, at) PROVE EntriesCounted'
  <2>1. PICK e : e = SettlementEntry(month, cur, at)
    OBVIOUS
  <2>2. /\ Extended(ledger, ledger', e)
        /\ Extended(settlements, settlements', SettlementRow(month, cur, at))
    BY <1>6, <2>1, Zenon DEF Settled, Appended
  <2>3. e.type = "settlement"
    BY <2>1, Zenon DEF SettlementEntry
  <2>4. PICK n : n = Len(ledger')
    OBVIOUS
  <2>5. /\ n \in DOMAIN ledger' /\ ledger'[n] = e /\ n \notin DOMAIN ledger
        /\ \A i \in DOMAIN ledger' : i \in DOMAIN ledger \/ i = n
        /\ \A i \in DOMAIN ledger : i \in DOMAIN ledger' /\ ledger'[i] = ledger[i]
    BY <2>2, <2>4, Zenon DEF Extended, Grown
  <2>6. B = A \cup {n} /\ n \notin A
    BY <1>2, <1>4, <2>3, <2>5 DEF SettlementEntries
  <2>7. IsFiniteSet(B) /\ Cardinality(B) = Cardinality(A) + 1
    BY <1>3, <2>6, FS_AddElement
  <2>8. Len(settlements') = Len(settlements) + 1
    BY <2>2 DEF Extended
  <2>9. QED
    BY <1>3, <1>5, <2>7, <2>8
<1>7. ASSUME NEW row, Reported(row) PROVE EntriesCounted'
  <2>1. Extended(ledger, ledger', row) /\ row.type # "settlement" /\ UNCHANGED settlements
    BY <1>7, Zenon DEF Reported, Appended
  <2>2. PICK n : n = Len(ledger')
    OBVIOUS
  <2>3. /\ ledger'[n] = row /\ n \notin DOMAIN ledger
        /\ \A i \in DOMAIN ledger' : i \in DOMAIN ledger \/ i = n
        /\ \A i \in DOMAIN ledger : i \in DOMAIN ledger' /\ ledger'[i] = ledger[i]
    BY <2>1, <2>2, Zenon DEF Extended, Grown
  <2>4. B = A
    BY <1>2, <1>4, <2>1, <2>3 DEF SettlementEntries
  <2>5. QED
    BY <1>3, <1>5, <2>1, <2>4
<1>8. ASSUME UNCHANGED <<ledger, settlements>> PROVE EntriesCounted'
  <2>1. B = A
    BY <1>2, <1>4, <1>8 DEF SettlementEntries
  <2>2. QED
    BY <1>3, <1>5, <1>8, <2>1
<1>9. QED
  BY <1>1, <1>6, <1>7, <1>8, Zenon DEF SettlementCase, Sealed, FrozeSettled, PaidOut, LeftLedger,
     settlementVars

(* The ledger and its settlements next to the rails.                       *)
AuditedRow(s, r) == Pinned(r) /\ Rebuilt(r) /\ Chained(s, r)

SettlementInv ==
    /\ RailsInv /\ LedgerTables /\ LedgerInOrder /\ EntriesCounted
    /\ \A s \in DOMAIN settlements : AuditedRow(s, settlements[s])

(* It holds of the empty tables.                                           *)
LEMMA SettlementInvInit == Init /\ SettlementInit => SettlementInv
<1> SUFFICES ASSUME Init, SettlementInit PROVE SettlementInv
  OBVIOUS
<1>1. RailsInv
  BY RailsInit
<1>2. LedgerTables
  BY SettledTablesInit DEF SettledTables
<1>3. ledger = <<>> /\ settlements = <<>>
  BY DEF SettlementInit
<1>4. DOMAIN <<>> = {} /\ 2..Len(<<>>) = {} /\ Len(<<>>) = 0
  OBVIOUS
<1>5. LedgerInOrder
  BY <1>3, <1>4 DEF LedgerInOrder, Ordered
<1>6. EntriesCounted
  <2>1. SettlementEntries = {}
    BY <1>3, <1>4 DEF SettlementEntries
  <2>2. IsFiniteSet({}) /\ Cardinality({}) = 0
    BY FS_EmptySet
  <2>3. QED
    BY <1>3, <1>4, <2>1, <2>2, Zenon DEF EntriesCounted
<1>7. \A s \in DOMAIN settlements : AuditedRow(s, settlements[s])
  BY <1>3, <1>4
<1>8. QED
  BY <1>1, <1>2, <1>5, <1>6, <1>7 DEF SettlementInv

(* And every step keeps it.                                                *)
LEMMA SettlementInvStep ==
    SettlementInv /\ [SettlementNext]_<<vars, settlementVars>> => SettlementInv'
<1> SUFFICES ASSUME SettlementInv, [SettlementNext]_<<vars, settlementVars>>
             PROVE  SettlementInv'
  OBVIOUS
<1>1. /\ RailsInv /\ LedgerTables /\ LedgerInOrder /\ EntriesCounted /\ TypeOK /\ TablesInv
      /\ \A s \in DOMAIN settlements : AuditedRow(s, settlements[s])
  BY DEF SettlementInv, RailsInv, TablesInv
<1>2. [Next]_vars /\ LedgerTables' /\ LedgerGrowth
  BY <1>1, SettlementStepImplements, LedgerGrows
<1>3. RailsInv'
  BY <1>1, <1>2, RailsStep
<1>4. LedgerInOrder' /\ EntriesCounted'
  BY <1>1, LedgerInOrderStep, EntriesCountedStep
<1>5. Grown(ledger, ledger') /\ Grown(settlements, settlements')
  BY <1>2 DEF LedgerGrowth
<1>6. ASSUME NEW s \in DOMAIN settlements' PROVE AuditedRow(s, settlements[s])'
  <2>1. PICK r : r = settlements'[s]
    OBVIOUS
  <2>2. AuditedRow(s, r)'
    <3>1. CASE s \in DOMAIN settlements /\ settlements'[s] = settlements[s]
      <4>1. Pinned(r) /\ Rebuilt(r) /\ Chained(s, r)
        BY <1>1, <2>1, <3>1, Zenon DEF AuditedRow
      <4>2. Pinned(r)' /\ Rebuilt(r)'
        BY <1>1, <4>1, RebuiltKept
      <4>3. Chained(s, r)'
        BY <1>5, <3>1, <4>1, ChainedKept
      <4>4. QED
        BY <4>2, <4>3, Zenon DEF AuditedRow
    <3>2. ASSUME NEW month \in Int, NEW cur \in Currencies, NEW at \in ClockReads,
                 Settled(month, cur, at), s = Len(settlements'), r = SettlementRow(month, cur, at)
          PROVE  AuditedRow(s, r)'
      <4>1. Pinned(r)' /\ Rebuilt(r)'
        BY <1>1, <1>2, <3>2, SettledRebuilt
      <4>2. s = Len(settlements) + 1
        BY <3>2 DEF Settled, Appended, Extended
      <4>3. Chained(s, r)'
        BY <1>1, <3>2, <4>2, SettledChained
      <4>4. QED
        BY <4>1, <4>3, Zenon DEF AuditedRow
    <3>3. QED
      BY <1>1, <2>1, <3>1, <3>2, NewSettlement, Zenon
  <2>3. QED
    BY <2>1, <2>2, Zenon DEF AuditedRow, Pinned, Rebuilt, Chained
<1>7. (\A s \in DOMAIN settlements : AuditedRow(s, settlements[s]))'
  BY <1>6, Zenon
<1>8. QED
  BY <1>2, <1>3, <1>4, <1>7, Zenon DEF SettlementInv

(* The invariant is what the audit of settlements asks.                    *)
LEMMA SettlementInvAudited == SettlementInv => SettlementAuditPasses
<1> SUFFICES ASSUME SettlementInv PROVE SettlementAuditPasses
  OBVIOUS
<1>1. \A s \in DOMAIN settlements : SettlementReproduces(settlements[s])
  BY RebuiltReproduces DEF SettlementInv, AuditedRow
<1>2. ASSUME NEW s \in DOMAIN settlements, NEW r, r = settlements[s], NEW prior,
             prior = {p \in RevisionsOf(r.sources.month, r.sources.currency) : p < s}
      PROVE  /\ r.revision = Cardinality(prior) + 1
             /\ r.supersedes = IF prior = {} THEN 0 ELSE Newest(prior)
             /\ ledger[r.index].type = "settlement"
             /\ ledger[r.index].value = s
             /\ ledger[r.index].at = r.at
  <2>1. Chained(s, r)
    BY <1>2, Zenon DEF SettlementInv, AuditedRow
  <2>2. prior = PriorOf(s, r.sources.month, r.sources.currency)
    BY <1>2 DEF RevisionsOf, PriorOf
  <2>3. Revises(r, prior)
    BY <2>1, <2>2, Zenon DEF Chained
  <2>4. QED
    BY <2>1, <2>3, Zenon DEF Chained, Revises
<1>3. Len(settlements) = Cardinality({i \in DOMAIN ledger : ledger[i].type = "settlement"})
  BY Zenon DEF SettlementInv, EntriesCounted, SettlementEntries
<1>4. SettlementChains
  BY <1>2, <1>3, Zenon DEF SettlementChains
<1>5. QED
  BY <1>1, <1>4 DEF SettlementAuditPasses

(* Whatever is corrected, suspended, transferred or settled again after a  *)
(* settlement, in the same second too and however late an action commits   *)
(* (any MaxLag), VerifySettlements rebuilds it from the boundary it is     *)
(* pinned to: no completion of a transfer can slip under the second of a   *)
(* settlement, since it is later than the ledger's head.                   *)
THEOREM SettlementAuditHolds == SettlementSpec => []SettlementAuditPasses
<1>1. Init /\ SettlementInit => SettlementInv
  BY SettlementInvInit
<1>2. SettlementInv /\ [SettlementNext]_<<vars, settlementVars>> => SettlementInv'
  BY SettlementInvStep
<1>3. SettlementInv => SettlementAuditPasses
  BY SettlementInvAudited
<1>4. QED
  BY <1>1, <1>2, <1>3, PTL DEF SettlementSpec

-----------------------------------------------------------------------------
(* ExitPaidOnce.                                                           *)

(* A checkpoint covers the entries of the ledger up to the end of its day. *)
SealsCover ==
    \A day \in DOMAIN seals :
        /\ seals[day] \in 0..Len(ledger)
        /\ \A i \in DOMAIN ledger : i <= seals[day] <=> ledger[i].at <= LastSecond(day)

(* An entry that may be appended is later than every sealed day.           *)
LEMMA OpenAfterSeals ==
    ASSUME LedgerTables, NEW at \in ClockReads, LedgerOpen(at), NEW day \in DOMAIN seals
    PROVE  ~(at <= LastSecond(day))
<1>1. PICK S : seals \in Seq(S)
  BY DEF LedgerTables, Table
<1>2. day \in Nat /\ day <= Len(seals) /\ Len(seals) \in Nat
  BY <1>1
<1>3. at \in Times /\ at \in Nat
  BY ReadsAreTimes
<1>4. Day(at) \in Nat /\ Len(seals) < Day(at)
  BY <1>3, DayFacts DEF LedgerOpen
<1>5. day < Day(at)
  BY <1>2, <1>4
<1>6. LastSecond(day) < at /\ LastSecond(day) \in Nat
  BY <1>2, <1>3, <1>5, DayFacts
<1>7. QED
  BY <1>3, <1>6

(* Every step keeps what the checkpoints cover.                            *)
LEMMA SealsCoverStep ==
    ASSUME TypeOK, LedgerTables, LedgerInOrder, SealsCover,
           [SettlementNext]_<<vars, settlementVars>>
    PROVE  SealsCover'
<1>1. SettlementCase /\ LedgerGrowth
  BY SettlementCases, LedgerGrows
<1>2. /\ Grown(ledger, ledger') /\ Grown(seals, seals') /\ NewEntriesOpen
  BY <1>1 DEF LedgerGrowth
<1>3. /\ Len(ledger) \in Nat /\ DOMAIN ledger = 1..Len(ledger) /\ Len(ledger') \in Nat
      /\ DOMAIN ledger' = 1..Len(ledger') /\ Len(ledger) <= Len(ledger')
      /\ \A i \in DOMAIN ledger : i \in DOMAIN ledger' /\ ledger'[i] = ledger[i]
  BY <1>2, Zenon DEF Grown
<1>4. ASSUME NEW day \in DOMAIN seals
      PROVE  /\ seals'[day] \in 0..Len(ledger')
             /\ \A i \in DOMAIN ledger' : i <= seals'[day] <=> ledger'[i].at <= LastSecond(day)
  <2>1. seals'[day] = seals[day]
    BY <1>2 DEF Grown
  <2>2. PICK n : n = seals[day]
    OBVIOUS
  <2>3. n \in 0..Len(ledger) /\ \A i \in DOMAIN ledger : i <= n <=> ledger[i].at <= LastSecond(day)
    BY <2>2 DEF SealsCover
  <2>4. ASSUME NEW i \in DOMAIN ledger' PROVE i <= n <=> ledger'[i].at <= LastSecond(day)
    <3>1. CASE i \in DOMAIN ledger
      BY <1>3, <2>3, <3>1
    <3>2. CASE i \notin DOMAIN ledger
      <4>1. PICK at : at = ledger'[i].at
        OBVIOUS
      <4>2. at \in ClockReads /\ LedgerOpen(at)
        BY <1>2, <2>4, <3>2, <4>1, Zenon DEF NewEntriesOpen
      <4>3. ~(at <= LastSecond(day))
        BY <4>2, OpenAfterSeals
      <4>4. ~(i <= n)
        BY <1>3, <2>3, <2>4, <3>2
      <4>5. QED
        BY <4>1, <4>3, <4>4
    <3>3. QED
      BY <3>1, <3>2
  <2>5. n \in 0..Len(ledger')
    BY <1>3, <2>3
  <2>6. QED
    BY <2>1, <2>2, <2>4, <2>5
<1>5. ASSUME NEW day \in DOMAIN seals', day \notin DOMAIN seals
      PROVE  /\ seals'[day] \in 0..Len(ledger')
             /\ \A i \in DOMAIN ledger' : i <= seals'[day] <=> ledger'[i].at <= LastSecond(day)
  <2>1. Sealed
    BY <1>1, <1>5, Zenon DEF SettlementCase, Settled, Reported, FrozeSettled, PaidOut, LeftLedger,
       settlementVars
  <2>2. UNCHANGED ledger
    BY <2>1, Zenon DEF Sealed
  <2>3. PICK e : e = ThroughIndex(ledger, LastSecond(Len(seals) + 1))
    OBVIOUS
  <2>4. Extended(seals, seals', e)
    BY <2>1, <2>3, Zenon DEF Sealed, Appended
  <2>5. day = Len(seals) + 1 /\ seals'[day] = e /\ day \in Nat
    BY <1>5, <2>4 DEF Extended, Grown
  <2>6. PICK t \in Nat : t = LastSecond(day)
    BY <2>5, DayFacts
  <2>7. e = ThroughIndex(ledger, t)
    BY <2>3, <2>5, <2>6
  <2>8. Table(ledger) /\ Ordered(ledger) /\ \A i \in DOMAIN ledger : ledger[i].at \in Nat
    BY EntriesPast DEF LedgerTables, LedgerInOrder
  <2>9. /\ e \in 0..Len(ledger)
        /\ \A i \in DOMAIN ledger : i <= e <=> ledger[i].at <= t
    BY <2>7, <2>8, ThroughOrdered
  <2>10. QED
    BY <2>2, <2>5, <2>6, <2>9
<1>6. QED
  BY <1>4, <1>5 DEF SealsCover, LastSecond

(* A revision with a greater number is a later one.                        *)
LEMMA RevisionOrder ==
    ASSUME SettlementInv, NEW s \in DOMAIN settlements, NEW n \in DOMAIN settlements,
           settlements[n].sources.month = settlements[s].sources.month,
           settlements[n].sources.currency = settlements[s].sources.currency
    PROVE  settlements[n].revision > settlements[s].revision <=> n > s
<1>1. PICK month, cur : month = settlements[s].sources.month /\ cur = settlements[s].sources.currency
  OBVIOUS
<1>2. Len(settlements) \in Nat /\ DOMAIN settlements = 1..Len(settlements)
  <2>1. PICK S : settlements \in Seq(S)
    BY DEF SettlementInv, LedgerTables, Table
  <2>2. QED
    BY <2>1
<1>3. IsFiniteSet(DOMAIN settlements)
  BY <1>2, FS_Interval
<1>4. ASSUME NEW p \in DOMAIN settlements, settlements[p].sources.month = month,
             settlements[p].sources.currency = cur
      PROVE  settlements[p].revision = Cardinality(PriorOf(p, month, cur)) + 1
  BY <1>4, Zenon DEF SettlementInv, AuditedRow, Chained, Revises
<1>5. ASSUME NEW p \in DOMAIN settlements, NEW q \in DOMAIN settlements, p <= q
      PROVE  /\ Cardinality(PriorOf(p, month, cur)) \in Nat
             /\ Cardinality(PriorOf(q, month, cur)) \in Nat
             /\ Cardinality(PriorOf(p, month, cur)) <= Cardinality(PriorOf(q, month, cur))
             /\ p \in PriorOf(q, month, cur) =>
                    Cardinality(PriorOf(p, month, cur)) # Cardinality(PriorOf(q, month, cur))
  <2>1. PICK P : P = PriorOf(p, month, cur)
    OBVIOUS
  <2>2. PICK Q : Q = PriorOf(q, month, cur)
    OBVIOUS
  <2>3. Q \in SUBSET (DOMAIN settlements) /\ P \in SUBSET Q /\ p \notin P
    BY <1>2, <1>5, <2>1, <2>2 DEF PriorOf
  <2>4. IsFiniteSet(Q)
    BY <1>3, <2>3, FS_Subset
  <2>5. /\ IsFiniteSet(P) /\ Cardinality(P) <= Cardinality(Q)
        /\ Cardinality(Q) = Cardinality(P) => Q = P
    BY <2>3, <2>4, FS_Subset
  <2>6. Cardinality(P) \in Nat /\ Cardinality(Q) \in Nat
    BY <2>4, <2>5, FS_CardinalityType
  <2>7. QED
    BY <2>1, <2>2, <2>3, <2>5, <2>6
<1>6. ASSUME NEW p \in DOMAIN settlements, NEW q \in DOMAIN settlements, p < q,
             settlements[p].sources.month = month, settlements[p].sources.currency = cur
      PROVE  p \in PriorOf(q, month, cur)
  BY <1>6 DEF PriorOf
<1>7. PICK a, b : a = Cardinality(PriorOf(s, month, cur)) /\ b = Cardinality(PriorOf(n, month, cur))
  OBVIOUS
<1>8. settlements[s].revision = a + 1 /\ settlements[n].revision = b + 1
  BY <1>1, <1>4, <1>7
<1>9. CASE n > s
  <2>1. s <= n /\ s < n
    BY <1>2, <1>9
  <2>2. a \in Nat /\ b \in Nat /\ a <= b /\ a # b
    BY <1>1, <1>5, <1>6, <1>7, <2>1
  <2>3. QED
    BY <1>8, <1>9, <2>2
<1>10. CASE n <= s
  <2>1. a \in Nat /\ b \in Nat /\ b <= a
    BY <1>5, <1>7, <1>10
  <2>2. ~(n > s)
    BY <1>2, <1>10
  <2>3. QED
    BY <1>8, <2>1, <2>2
<1>11. QED
  BY <1>2, <1>9, <1>10

(* The settlements by the end of a day, the last of each month and         *)
(* currency, and what they gave a group.                                   *)
By(s, date) == settlements[s].at <= LastSecond(date)
SameMonth(n, s) == settlements[n].sources.month = settlements[s].sources.month
SameCurrency(n, s) == settlements[n].sources.currency = settlements[s].sources.currency

LastByDate(date) ==
    {s \in DOMAIN settlements :
        /\ By(s, date)
        /\ \A n \in DOMAIN settlements :
                By(n, date) /\ SameMonth(n, s) /\ SameCurrency(n, s) => n <= s}

LastIn(date, cur) == {s \in LastByDate(date) : settlements[s].sources.currency = cur}

Owed(date, group, cur) == SumFunction([s \in LastIn(date, cur) |-> GroupPool(s, group)])

(* That is what an exit is to be paid.                                     *)
LEMMA OwedIs ==
    ASSUME NEW v, NEW cur
    PROVE  SettledByDate(v, cur) = Owed(exitReviews[v].date, exitReviews[v].group, cur)
<1>1. PICK date, group : date = exitReviews[v].date /\ group = exitReviews[v].group
  OBVIOUS
<1>2. PICK past : past = {s \in DOMAIN settlements :
                            /\ settlements[s].sources.currency = cur
                            /\ settlements[s].at <= LastSecond(date)}
  OBVIOUS
<1>3. PICK last : last = {s \in past : \A n \in past :
                    settlements[n].sources.month = settlements[s].sources.month => n <= s}
  OBVIOUS
<1>4. SettledByDate(v, cur) = SumFunction([s \in last |-> GroupPool(s, group)])
  BY <1>1, <1>2, <1>3, Zenon DEF SettledByDate
<1>5. \A s : s \in last <=> s \in LastIn(date, cur)
  BY <1>2, <1>3 DEF LastIn, LastByDate, By, SameMonth, SameCurrency
<1>6. last = LastIn(date, cur)
  BY <1>5, Zenon
<1>7. QED
  BY <1>1, <1>4, <1>6, Zenon DEF Owed

(* What a checkpoint freezes.                                              *)
LEMMA FrozenAre ==
    ASSUME SettlementInv, SealsCover, NEW date \in DOMAIN seals
    PROVE  SettlementsAtBoundary(seals[date]) = LastByDate(date)
<1>1. PICK through : through = seals[date]
  OBVIOUS
<1>2. ASSUME NEW s \in DOMAIN settlements
      PROVE  settlements[s].index <= through <=> By(s, date)
  <2>1. settlements[s].index \in DOMAIN ledger /\ ledger[settlements[s].index].at = settlements[s].at
    BY Zenon DEF SettlementInv, AuditedRow, Pinned
  <2>2. \A i \in DOMAIN ledger : i <= through <=> ledger[i].at <= LastSecond(date)
    BY <1>1, Zenon DEF SealsCover
  <2>3. QED
    BY <2>1, <2>2, Zenon DEF By
<1>3. PICK A : A = SettlementsAtBoundary(through)
  OBVIOUS
<1>4. \A s : s \in A <=>
        /\ s \in DOMAIN settlements /\ settlements[s].index <= through
        /\ ~\E n \in DOMAIN settlements :
                /\ settlements[n].index <= through /\ SameMonth(n, s) /\ SameCurrency(n, s)
                /\ settlements[n].revision > settlements[s].revision
  BY <1>3, Zenon DEF SettlementsAtBoundary, SameMonth, SameCurrency
<1>5. \A s, n \in DOMAIN settlements : SameMonth(n, s) /\ SameCurrency(n, s) =>
            (settlements[n].revision > settlements[s].revision <=> ~(n <= s))
  <2> SUFFICES ASSUME NEW s \in DOMAIN settlements, NEW n \in DOMAIN settlements,
                      SameMonth(n, s), SameCurrency(n, s)
               PROVE  settlements[n].revision > settlements[s].revision <=> ~(n <= s)
    OBVIOUS
  <2>1. settlements[n].revision > settlements[s].revision <=> n > s
    BY RevisionOrder DEF SameMonth, SameCurrency
  <2>2. PICK S : settlements \in Seq(S)
    BY DEF SettlementInv, LedgerTables, Table
  <2>3. n \in Nat /\ s \in Nat
    BY <2>2
  <2>4. QED
    BY <2>1, <2>3
<1>6. \A s : s \in A <=> s \in LastByDate(date)
  BY <1>2, <1>4, <1>5, Zenon DEF LastByDate
<1>7. A = LastByDate(date)
  BY <1>6, Zenon
<1>8. QED
  BY <1>1, <1>3, <1>7

(* A new settlement is later than every sealed day.                        *)
LEMMA NewSettlementLate ==
    ASSUME TypeOK, LedgerTables, [SettlementNext]_<<vars, settlementVars>>,
           NEW s \in DOMAIN settlements', s \notin DOMAIN settlements, NEW date \in DOMAIN seals
    PROVE  ~(settlements'[s].at <= LastSecond(date))
<1>1. PICK month \in Int, cur \in Currencies, at \in ClockReads :
            Settled(month, cur, at) /\ settlements'[s] = SettlementRow(month, cur, at)
  BY NewSettlement, Zenon
<1>2. SettlementRow(month, cur, at).at = at
  BY Zenon DEF SettlementRow
<1>3. LedgerOpen(at)
  BY <1>1, Zenon DEF Settled
<1>4. ~(at <= LastSecond(date))
  BY <1>3, OpenAfterSeals
<1>5. QED
  BY <1>1, <1>2, <1>4

(* So what is owed for a sealed day stays.                                 *)
LEMMA OwedKept ==
    ASSUME TypeOK, LedgerTables, [SettlementNext]_<<vars, settlementVars>>,
           NEW date \in DOMAIN seals
    PROVE  /\ LastByDate(date)' = LastByDate(date)
           /\ \A group, cur : Owed(date, group, cur)' = Owed(date, group, cur)
<1>1. Grown(settlements, settlements')
  BY LedgerGrows DEF LedgerGrowth
<1>2. /\ \A s \in DOMAIN settlements :
            s \in DOMAIN settlements' /\ settlements'[s] = settlements[s]
  BY <1>1, Zenon DEF Grown
<1>3. \A s \in DOMAIN settlements' : s \notin DOMAIN settlements =>
            ~(settlements'[s].at <= LastSecond(date))
  BY NewSettlementLate
<1>4. PICK A : A = LastByDate(date)
  OBVIOUS
<1>5. PICK B : B = LastByDate(date)'
  OBVIOUS
<1>6. \A s : s \in A <=>
        /\ s \in DOMAIN settlements /\ settlements[s].at <= LastSecond(date)
        /\ \A n \in DOMAIN settlements :
                /\ settlements[n].at <= LastSecond(date)
                /\ settlements[n].sources.month = settlements[s].sources.month
                /\ settlements[n].sources.currency = settlements[s].sources.currency
                => n <= s
  BY <1>4, Zenon DEF LastByDate, By, SameMonth, SameCurrency
<1>7. \A s : s \in B <=>
        /\ s \in DOMAIN settlements' /\ settlements'[s].at <= LastSecond(date)
        /\ \A n \in DOMAIN settlements' :
                /\ settlements'[n].at <= LastSecond(date)
                /\ settlements'[n].sources.month = settlements'[s].sources.month
                /\ settlements'[n].sources.currency = settlements'[s].sources.currency
                => n <= s
  BY <1>5 DEF LastByDate, By, SameMonth, SameCurrency, LastSecond
<1>8. \A s : s \in A <=> s \in B
  BY <1>2, <1>3, <1>6, <1>7, Zenon
<1>9. A = B
  BY <1>8, Zenon
<1>10. A \subseteq DOMAIN settlements
  BY <1>6, Zenon
<1>11. ASSUME NEW group, NEW cur PROVE Owed(date, group, cur)' = Owed(date, group, cur)
  <2>1. PICK L : L = LastIn(date, cur)
    OBVIOUS
  <2>2. PICK M : M = LastIn(date, cur)'
    OBVIOUS
  <2>3. L = {s \in A : settlements[s].sources.currency = cur}
    BY <1>4, <2>1, Zenon DEF LastIn
  <2>4. M = {s \in B : settlements'[s].sources.currency = cur}
    BY <1>5, <2>2, Zenon DEF LastIn
  <2>5. L = M /\ L \subseteq DOMAIN settlements
    <3>1. \A s : s \in L <=> s \in M
      BY <1>2, <1>9, <1>10, <2>3, <2>4, Zenon
    <3>2. QED
      BY <1>10, <2>3, <3>1, Zenon
  <2>6. \A s \in L : GroupPool(s, group)' = GroupPool(s, group)
    BY <1>2, <2>5, Zenon DEF GroupPool
  <2>7. Owed(date, group, cur) = SumFunction([s \in L |-> GroupPool(s, group)])
    BY <2>1, Zenon DEF Owed
  <2>8. Owed(date, group, cur)' = SumFunction([s \in M |-> GroupPool(s, group)'])
    BY <2>2, Zenon DEF Owed
  <2>9. [s \in M |-> GroupPool(s, group)'] = [s \in L |-> GroupPool(s, group)]
    BY <2>5, <2>6
  <2>10. QED
    BY <2>7, <2>8, <2>9
<1>12. QED
  BY <1>4, <1>5, <1>9, <1>11

(* A frozen exit review, and an allocation for it.                         *)
FrozenFor(v, r) == r.date \in DOMAIN seals /\ frozen[v] = LastByDate(r.date)

PaidFor(a, r) ==
    /\ r.date \in DOMAIN seals
    /\ \A cur \in DOMAIN payouts[a] : payouts[a][cur] = Owed(r.date, r.group, cur)

PaidInv ==
    /\ SettlementInv /\ SealsCover
    /\ Len(frozen) = Len(exitReviews) /\ Len(payouts) = Len(allocations)
    /\ \A v \in DOMAIN exitReviews : FrozenFor(v, exitReviews[v])
    /\ \A a \in DOMAIN allocations :
            \E v \in DOMAIN exitReviews :
                allocations[a].exit = v /\ PaidFor(a, exitReviews[v])

(* Tables of which rows of the same number belong together.                *)
LEMMA TogetherKept ==
    ASSUME NEW s, NEW t, NEW p, NEW q, Grown(s, t), Grown(p, q), Len(s) = Len(p)
    PROVE  /\ DOMAIN s = DOMAIN p
           /\ \A i \in DOMAIN s : t[i] = s[i] /\ q[i] = p[i]
  BY DEF Grown

(* A frozen exit review and what was paid for one stay.                    *)
LEMMA FrozenKept ==
    ASSUME TypeOK, LedgerTables, [SettlementNext]_<<vars, settlementVars>>,
           NEW v, NEW r, FrozenFor(v, r), frozen'[v] = frozen[v]
    PROVE  FrozenFor(v, r)'
<1>1. PICK date : date = r.date
  OBVIOUS
<1>2. date \in DOMAIN seals /\ frozen[v] = LastByDate(date)
  BY <1>1 DEF FrozenFor
<1>3. date \in DOMAIN seals'
  BY <1>2, LedgerGrows DEF LedgerGrowth, Grown
<1>4. LastByDate(date)' = LastByDate(date)
  BY <1>2, OwedKept
<1>5. r.date \in DOMAIN seals' /\ frozen'[v] = LastByDate(date)'
  BY <1>1, <1>2, <1>3, <1>4
<1>6. QED
  BY <1>1, <1>5, Zenon DEF FrozenFor, LastByDate, By, SameMonth, SameCurrency

(* The amounts too.                                                        *)
LEMMA PaidKept ==
    ASSUME TypeOK, LedgerTables, [SettlementNext]_<<vars, settlementVars>>,
           NEW a, NEW r, PaidFor(a, r), payouts'[a] = payouts[a]
    PROVE  PaidFor(a, r)'
<1>1. PICK date, group : date = r.date /\ group = r.group
  OBVIOUS
<1>2. /\ date \in DOMAIN seals
      /\ \A cur \in DOMAIN payouts[a] : payouts[a][cur] = Owed(date, group, cur)
  BY <1>1, Zenon DEF PaidFor
<1>3. date \in DOMAIN seals'
  BY <1>2, LedgerGrows DEF LedgerGrowth, Grown
<1>4. \A cur : Owed(date, group, cur)' = Owed(date, group, cur)
  BY <1>2, OwedKept
<1>5. \A cur \in DOMAIN payouts'[a] : payouts'[a][cur] = Owed(date, group, cur)'
  BY <1>2, <1>4
<1>6. \A cur : Owed(date, group, cur)' = Owed(r.date, r.group, cur)'
  BY <1>1
<1>7. \A cur \in DOMAIN payouts'[a] : payouts'[a][cur] = Owed(r.date, r.group, cur)'
  BY <1>5, <1>6, Zenon
<1>8. QED
  BY <1>1, <1>3, <1>7, Zenon DEF PaidFor

(* What an allocation pays is what is owed.                                *)
LEMMA CurrenciesOwed ==
    ASSUME NEW v, NEW r, r = exitReviews[v], FrozenFor(v, r), NEW cur \in DOMAIN ExitCurrencies(v)
    PROVE  ExitCurrencies(v)[cur] = Owed(r.date, r.group, cur)
<1>1. PICK date, group : date = r.date /\ group = exitReviews[v].group /\ group = r.group
  OBVIOUS
<1>2. frozen[v] = LastByDate(date)
  BY <1>1 DEF FrozenFor
<1>3. PICK L : L = LastIn(date, cur)
  OBVIOUS
<1>4. L = {s \in frozen[v] : settlements[s].sources.currency = cur}
  BY <1>2, <1>3, Zenon DEF LastIn
<1>5. ExitCurrencies(v)[cur] = SumFunction([s \in L |-> GroupPool(s, group)])
  BY <1>1, <1>4 DEF ExitCurrencies
<1>6. Owed(date, group, cur) = SumFunction([s \in L |-> GroupPool(s, group)])
  BY <1>3, Zenon DEF Owed
<1>7. QED
  BY <1>1, <1>5, <1>6

(* It holds of the empty tables.                                           *)
LEMMA PaidInvInit == Init /\ SettlementInit => PaidInv
<1> SUFFICES ASSUME Init, SettlementInit PROVE PaidInv
  OBVIOUS
<1>1. SettlementInv
  BY SettlementInvInit
<1>2. seals = <<>> /\ frozen = <<>> /\ payouts = <<>>
  BY DEF SettlementInit
<1>3. exitReviews = <<>> /\ allocations = <<>>
  BY DEF Init, ExitInit
<1>4. DOMAIN <<>> = {}
  OBVIOUS
<1>5. SealsCover
  BY <1>2, <1>4 DEF SealsCover
<1>6. QED
  BY <1>1, <1>2, <1>3, <1>4, <1>5 DEF PaidInv

(* The tables of exits and allocations in a step.                          *)
ExitTables ==
    /\ Grown(exitReviews, exitReviews') /\ Grown(allocations, allocations')
    /\ Grown(frozen, frozen') /\ Grown(payouts, payouts')

(* They only grow.                                                         *)
LEMMA ExitTablesGrow ==
    ASSUME TypeOK, LedgerTables, [SettlementNext]_<<vars, settlementVars>>
    PROVE  ExitTables
<1>1. SettlementCase /\ LedgerGrowth
  BY SettlementCases, LedgerGrows
<1>2. exitReviews \in Seq(ExitReviewRows) /\ allocations \in Seq(AllocationRows)
  BY DEF TypeOK
<1> HIDE DEF ExitReviewRows, AllocationRows
<1>3. Table(exitReviews) /\ Table(allocations)
  BY <1>2, Zenon DEF Table
<1>4. Grown(exitReviews, exitReviews) /\ Grown(allocations, allocations)
  BY <1>2, SameGrows
<1>5. /\ exitReviews' = exitReviews \/ \E e : Extended(exitReviews, exitReviews', e)
      /\ allocations' = allocations \/ \E e : Extended(allocations, allocations', e)
  BY <1>1, Zenon DEF SettlementCase, Settled, Reported, Sealed, FrozeSettled, PaidOut, LeftLedger,
     Froze, Created, vars, exitVars
<1>6. Grown(exitReviews, exitReviews') /\ Grown(allocations, allocations')
  BY <1>4, <1>5, Zenon DEF Extended
<1>7. QED
  BY <1>1, <1>6 DEF ExitTables, LedgerGrowth

(* And every step keeps it.                                                *)
LEMMA PaidInvStep ==
    PaidInv /\ [SettlementNext]_<<vars, settlementVars>> => PaidInv'
<1> SUFFICES ASSUME PaidInv, [SettlementNext]_<<vars, settlementVars>>
             PROVE  PaidInv'
  OBVIOUS
<1>1. /\ SettlementInv /\ SealsCover /\ LedgerTables /\ LedgerInOrder /\ TypeOK
      /\ Len(frozen) = Len(exitReviews) /\ Len(payouts) = Len(allocations)
      /\ \A v \in DOMAIN exitReviews : FrozenFor(v, exitReviews[v])
      /\ \A a \in DOMAIN allocations :
            \E v \in DOMAIN exitReviews :
                allocations[a].exit = v /\ PaidFor(a, exitReviews[v])
  BY DEF PaidInv, SettlementInv, RailsInv, TablesInv
<1>2. SettlementInv' /\ SealsCover'
  BY <1>1, SettlementInvStep, SealsCoverStep
<1>3. SettlementCase
  BY <1>1, SettlementCases
<1>4. /\ Grown(exitReviews, exitReviews') /\ Grown(allocations, allocations')
      /\ Grown(frozen, frozen') /\ Grown(payouts, payouts')
  BY <1>1, ExitTablesGrow DEF ExitTables
<1>5. ASSUME NEW v \in DOMAIN exitReviews, NEW r, r = exitReviews[v] PROVE FrozenFor(v, r)'
  <2>1. FrozenFor(v, r)
    BY <1>1, <1>5
  <2>2. frozen'[v] = frozen[v]
    BY <1>1, <1>4, <1>5, TogetherKept
  <2>3. QED
    BY <1>1, <2>1, <2>2, FrozenKept
<1>6. ASSUME NEW a \in DOMAIN allocations, NEW v, allocations[a].exit = v, NEW r,
             r = exitReviews[v]
      PROVE  v \in DOMAIN exitReviews /\ PaidFor(a, r)'
  <2>1. v \in DOMAIN exitReviews /\ PaidFor(a, r)
    BY <1>1, <1>6
  <2>2. payouts'[a] = payouts[a]
    BY <1>1, <1>4, <1>6, TogetherKept
  <2>3. QED
    BY <1>1, <2>1, <2>2, PaidKept
<1>7. /\ \A v \in DOMAIN exitReviews : v \in DOMAIN exitReviews' /\ exitReviews'[v] = exitReviews[v]
      /\ \A a \in DOMAIN allocations : a \in DOMAIN allocations' /\ allocations'[a] = allocations[a]
  BY <1>4, Zenon DEF Grown
<1>8. /\ Len(frozen') = Len(exitReviews')
      /\ \A v \in DOMAIN exitReviews' : \A r : r = exitReviews'[v] => FrozenFor(v, r)'
  <2>1. CASE UNCHANGED <<exitReviews, frozen>>
    BY <1>1, <1>5, <2>1
  <2>2. ASSUME NEW s \in submissions, NEW date \in DOMAIN seals, NEW at \in ClockReads,
               FrozeSettled(s, date, at)
        PROVE  /\ Len(frozen') = Len(exitReviews')
               /\ \A v \in DOMAIN exitReviews' : \A r : r = exitReviews'[v] => FrozenFor(v, r)'
    <3>1. PICK e : e = FrozenRecord(s, date, at)
      OBVIOUS
    <3>2. e.date = date
      BY <3>1, Zenon DEF FrozenRecord
    <3>3. /\ Extended(exitReviews, exitReviews', e)
          /\ Extended(frozen, frozen', LastByDate(date))
          /\ UNCHANGED <<seals, settlements>>
      BY <1>1, <2>2, <3>1, FrozenAre DEF FrozeSettled, Froze, Appended
    <3>4. PICK n : n = Len(exitReviews')
      OBVIOUS
    <3>5. /\ Len(exitReviews') = Len(exitReviews) + 1 /\ exitReviews'[n] = e
          /\ \A v \in DOMAIN exitReviews' : v \in DOMAIN exitReviews \/ v = n
      BY <3>3, <3>4, Zenon DEF Extended
    <3>6. Len(frozen') = Len(frozen) + 1 /\ frozen'[Len(frozen')] = LastByDate(date)
      BY <3>3, Zenon DEF Extended
    <3>7. Len(frozen') = Len(exitReviews') /\ frozen'[n] = LastByDate(date)
      BY <1>1, <3>4, <3>5, <3>6
    <3>8. LastByDate(date)' = LastByDate(date)
      BY <1>1, OwedKept
    <3>9. FrozenFor(n, e)'
      <4>1. LastByDate(e.date)' = LastByDate(date)'
        BY <3>2
      <4>2. date \in DOMAIN seals'
        BY <3>3
      <4>3. QED
        BY <3>2, <3>7, <3>8, <4>1, <4>2, Zenon DEF FrozenFor
    <3>10. QED
      BY <1>5, <1>7, <3>5, <3>7, <3>9
  <2>3. QED
    BY <1>3, <2>1, <2>2, Zenon DEF SettlementCase, Settled, Reported, Sealed, PaidOut, LeftLedger,
       Created, vars, exitVars, settlementVars
<1>9. /\ Len(payouts') = Len(allocations')
      /\ \A a \in DOMAIN allocations' : \E v \in DOMAIN exitReviews' :
            allocations'[a].exit = v /\ \A r : r = exitReviews'[v] => PaidFor(a, r)'
  <2>1. ASSUME NEW a \in DOMAIN allocations
        PROVE  \E v \in DOMAIN exitReviews' :
                 allocations'[a].exit = v /\ \A r : r = exitReviews'[v] => PaidFor(a, r)'
    BY <1>6, <1>7
  <2>2. CASE UNCHANGED <<allocations, payouts>>
    BY <1>1, <2>1, <2>2
  <2>3. ASSUME NEW w \in DOMAIN exitReviews, NEW x, NEW beneficiary, NEW at \in ClockReads,
               PaidOut(w, x, beneficiary, at)
        PROVE  /\ Len(payouts') = Len(allocations')
               /\ \A a \in DOMAIN allocations' : \E v \in DOMAIN exitReviews' :
                    allocations'[a].exit = v /\ \A r : r = exitReviews'[v] => PaidFor(a, r)'
    <3>1. PICK e : e = Allocation(w, x, beneficiary, at)
      OBVIOUS
    <3>2. e.exit = w
      BY <3>1, Zenon DEF Allocation
    <3>3. PICK p : p = ExitCurrencies(w)
      OBVIOUS
    <3>4. Extended(allocations, allocations', e) /\ Extended(payouts, payouts', p)
      BY <2>3, <3>1, <3>3, Zenon DEF PaidOut, Created, Appended
    <3>5. PICK n : n = Len(allocations')
      OBVIOUS
    <3>6. /\ Len(allocations') = Len(allocations) + 1 /\ allocations'[n] = e
          /\ \A a \in DOMAIN allocations' : a \in DOMAIN allocations \/ a = n
      BY <3>4, <3>5, Zenon DEF Extended
    <3>7. Len(payouts') = Len(payouts) + 1 /\ payouts'[Len(payouts')] = p
      BY <3>4, Zenon DEF Extended
    <3>8. Len(payouts') = Len(allocations') /\ payouts'[n] = p
      BY <1>1, <3>5, <3>6, <3>7
    <3>9. PICK r : r = exitReviews[w]
      OBVIOUS
    <3>10. PICK date, group : date = r.date /\ group = r.group
      OBVIOUS
    <3>11. FrozenFor(w, r)
      BY <1>1, <3>9
    <3>12. \A cur \in DOMAIN p : p[cur] = Owed(r.date, r.group, cur)
      BY <3>3, <3>9, <3>11, CurrenciesOwed
    <3>13. date \in DOMAIN seals
      BY <3>10, <3>11 DEF FrozenFor
    <3>14. date \in DOMAIN seals' /\ \A cur : Owed(date, group, cur)' = Owed(date, group, cur)
      <4>1. UNCHANGED seals
        BY <2>3, Zenon DEF PaidOut
      <4>2. QED
        BY <1>1, <3>13, <4>1, OwedKept
    <3>15. \A cur : Owed(date, group, cur)' = Owed(r.date, r.group, cur)'
      BY <3>10
    <3>16. \A cur \in DOMAIN p : p[cur] = Owed(r.date, r.group, cur)'
      BY <3>10, <3>12, <3>14, <3>15
    <3>17. PaidFor(n, r)'
      BY <3>8, <3>10, <3>14, <3>16, Zenon DEF PaidFor
    <3>18. w \in DOMAIN exitReviews' /\ exitReviews'[w] = r
      BY <1>7, <3>9
    <3>19. QED
      BY <2>1, <3>2, <3>6, <3>8, <3>17, <3>18
  <2>4. QED
    BY <1>3, <2>2, <2>3, Zenon DEF SettlementCase, Settled, Reported, Sealed, FrozeSettled,
       LeftLedger, Froze, vars, exitVars, settlementVars
<1>10. (\A v \in DOMAIN exitReviews : FrozenFor(v, exitReviews[v]))'
  BY <1>8, Zenon DEF FrozenFor, LastByDate, By, SameMonth, SameCurrency
<1>11. (\A a \in DOMAIN allocations :
            \E v \in DOMAIN exitReviews :
                allocations[a].exit = v /\ PaidFor(a, exitReviews[v]))'
  BY <1>9, Zenon
<1>12. QED
  BY <1>2, <1>8, <1>9, <1>10, <1>11, Zenon DEF PaidInv

(* Whatever is settled after the end of its record date, and however late  *)
(* an action commits (any MaxLag), an exit is paid what was settled for    *)
(* its group by then, the last revision of each month and no other.        *)
THEOREM ExitPaidOnceHolds == SettlementSpec => []ExitPaidOnce
<1>1. Init /\ SettlementInit => PaidInv
  BY PaidInvInit
<1>2. PaidInv /\ [SettlementNext]_<<vars, settlementVars>> => PaidInv'
  BY PaidInvStep
<1>3. PaidInv => ExitPaidOnce
  <2> SUFFICES ASSUME PaidInv, NEW a \in DOMAIN payouts, NEW cur \in DOMAIN payouts[a]
               PROVE  payouts[a][cur] = SettledByDate(allocations[a].exit, cur)
    BY DEF ExitPaidOnce
  <2>1. DOMAIN payouts = DOMAIN allocations
    <3>1. PICK S : payouts \in Seq(S)
      BY DEF PaidInv, SettlementInv, LedgerTables, Table
    <3>2. allocations \in Seq(AllocationRows)
      BY DEF PaidInv, SettlementInv, RailsInv, TablesInv, TypeOK
    <3> HIDE DEF AllocationRows
    <3>3. Len(payouts) = Len(allocations)
      BY DEF PaidInv
    <3>4. QED
      BY <3>1, <3>2, <3>3
  <2>2. PICK v \in DOMAIN exitReviews : allocations[a].exit = v /\ PaidFor(a, exitReviews[v])
    BY <2>1, Zenon DEF PaidInv
  <2>3. payouts[a][cur] = Owed(exitReviews[v].date, exitReviews[v].group, cur)
    BY <2>2, Zenon DEF PaidFor
  <2>4. QED
    BY <2>2, <2>3, OwedIs
<1>4. QED
  BY <1>1, <1>2, <1>3, PTL DEF SettlementSpec

-----------------------------------------------------------------------------
(* PaidMembersEligible.                                                    *)

(* The claim a deployment has an effective row for is its status row's,    *)
(* and an eligible member in the histories is one in the current tables.   *)
LEMMA PaidNow ==
    ASSUME TablesInv, NEW b, b.review = Len(reviews), b.eligibility = Len(decisions),
           NEW d \in Deployments, network[d].claimed, EligibilityAt(network[d], b) = "active"
    PROVE  /\ status[d].state = "approved" /\ eligibility[d].state = "active"
           /\ network[d].profile = status[d].claim
<1>1. TypeOK /\ OperatorTypeOK /\ ClaimRowsOK /\ StatusAudited
  BY DEF TablesInv, OperatorInv, AuditInv
<1>2. PICK row : row = network[d]
  OBVIOUS
<1>3. /\ row.profile = status[d].claim /\ row.state = "pending-review"
      /\ status[d].state \in {"pending-review", "approved", "rejected"}
  BY <1>1, <1>2 DEF ClaimRowsOK
<1>4. /\ OnlyReview(status[d]) /\ StateFollows(d, status[d])
      /\ NewestDecision(status[d], eligibility[d])
      /\ EligibilityFollows(status[d], eligibility[d])
  BY <1>1, <1>3 DEF StatusAudited, GenerationAudited
<1>5. /\ Len(reviews) \in Nat /\ DOMAIN reviews = 1..Len(reviews)
      /\ Len(decisions) \in Nat /\ DOMAIN decisions = 1..Len(decisions)
  BY <1>1, TableTypes
<1>6. ClaimStateAt(row, b) = "approved"
  BY <1>2, Zenon DEF EligibilityAt
<1>7. status[d].state = "approved"
  <2>1. PICK R : R = {j \in 1..b.review : reviews[j].claim = row.profile}
    OBVIOUS
  <2>2. R # {} /\ reviews[Newest(R)].decision = "approved"
    BY <1>3, <1>6, <2>1 DEF ClaimStateAt
  <2>3. PICK k : k = status[d].review
    OBVIOUS
  <2>4. k # 0
    BY <1>3, <1>4, <1>5, <2>1, <2>2, <2>3 DEF OnlyReview
  <2>5. /\ k \in DOMAIN reviews /\ reviews[k].claim = status[d].claim
        /\ \A j \in DOMAIN reviews : reviews[j].claim = status[d].claim => j = k
    BY <1>4, <2>3, <2>4 DEF OnlyReview
  <2>6. R = {k}
    BY <1>3, <1>5, <2>1, <2>5
  <2>7. Newest(R) = k
    <3>1. R \in SUBSET Int /\ k \in R /\ \A j \in R : j <= k
      BY <1>5, <2>5, <2>6
    <3>2. QED
      BY <3>1, NewestIs
  <2>8. QED
    BY <1>3, <1>4, <2>2, <2>3, <2>4, <2>7 DEF StateFollows
<1>8. ~(eligibility[d].decision # 0 /\ decisions[eligibility[d].decision].decision = "suspend")
  <2>1. PICK k : k = eligibility[d].decision
    OBVIOUS
  <2>2. PICK D : D = {j \in 1..b.eligibility : decisions[j].claim = row.profile}
    OBVIOUS
  <2>3. ~(D # {} /\ decisions[Newest(D)].decision = "suspend")
    BY <1>2, <1>6, <2>2 DEF EligibilityAt
  <2>4. ASSUME k # 0 PROVE decisions[k].decision # "suspend"
    <3>1. /\ k \in DOMAIN decisions /\ decisions[k].claim = status[d].claim
          /\ \A j \in DOMAIN decisions : decisions[j].claim = status[d].claim => j <= k
      BY <1>4, <2>1, <2>4 DEF NewestDecision
    <3>2. D \in SUBSET Int /\ k \in D /\ \A j \in D : j <= k
      BY <1>3, <1>5, <2>2, <3>1
    <3>3. Newest(D) = k
      BY <3>2, NewestIs
    <3>4. QED
      BY <2>3, <3>2, <3>3
  <2>5. QED
    BY <2>1, <2>4
<1>9. eligibility[d].state = "active"
  BY <1>4, <1>7, <1>8 DEF EligibilityFollows
<1>10. QED
  BY <1>2, <1>3, <1>7, <1>9

(* The completions a settlement's boundary sees are those of its second    *)
(* and before.                                                             *)
LEMMA TransfersBy ==
    ASSUME RailsInv, NEW at \in Times, NEW b, b = SettlementBoundary(at), NEW d
    PROVE  TransfersAt(d, b) =
                {m \in DOMAIN memberships : memberships[m].target = d /\ memberships[m].at <= at}
<1>1. TypeOK /\ MembershipRail /\ TransferChain /\ at \in Nat
  BY TransferChainOrdered, ReadsAreTimes DEF RailsInv, TablesInv
<1>2. b.transfer = ThroughIndex(transferEvents, at) /\ b.date = Day(at)
  BY Zenon DEF SettlementBoundary
<1>3. \A k \in DOMAIN transferEvents :
        k <= ThroughIndex(transferEvents, at) <=> transferEvents[k].at <= at
  BY <1>1, ThroughOrdered DEF TransferChain
<1>4. ASSUME NEW m \in DOMAIN memberships
      PROVE  /\ memberships[m].event <= b.transfer /\ memberships[m].effective <= b.date
             <=> memberships[m].at <= at
  <2>1. PICK row : row = memberships[m]
    OBVIOUS
  <2>2. row \in MembershipRows /\ Boundary(m)
    BY <1>1, <1>4, <2>1, ExitTableTypes DEF MembershipRail
  <2>3. row.event \in DOMAIN transferEvents /\ row.at \in Times
    BY <2>2 DEF MembershipRows
  <2>4. row.at = transferEvents[row.event].at /\ row.effective = Day(row.at)
    BY <2>1, <2>2 DEF Boundary
  <2>5. row.at <= at => Day(row.at) <= Day(at)
    BY <2>3, DayFacts
  <2>6. row.event <= b.transfer <=> row.at <= at
    BY <1>2, <1>3, <2>3, <2>4
  <2>7. QED
    BY <1>2, <2>1, <2>4, <2>5, <2>6
<1>5. QED
  BY <1>4 DEF TransfersAt

(* The group a deployment is in at such a boundary.                        *)
LEMMA GroupThen ==
    ASSUME RailsInv, NEW at \in Times, NEW b, b = SettlementBoundary(at),
           NEW d \in Deployments, network[d].profile = status[d].claim
    PROVE  GroupAt(d, network[d], b) = GroupBy(d, at)
<1>1. PICK M : M = TransfersAt(d, b)
  OBVIOUS
<1>2. M = {m \in DOMAIN memberships : memberships[m].target = d /\ memberships[m].at <= at}
  BY <1>1, TransfersBy
<1>3. b.audit = Len(events)
  BY Zenon DEF SettlementBoundary
<1>4. GroupAt(d, network[d], b) =
            IF /\ M # {} /\ memberships[Newest(M)].claim = network[d].profile
               /\ memberships[Newest(M)].through >= StateIndex(d, b.audit)
            THEN memberships[Newest(M)].to ELSE network[d].effective
  BY <1>1 DEF GroupAt
<1>5. GroupBy(d, at) =
            IF /\ M # {} /\ memberships[Newest(M)].claim = status[d].claim
               /\ memberships[Newest(M)].through >= StateIndex(d, Len(events))
            THEN memberships[Newest(M)].to ELSE network[d].effective
  BY <1>2 DEF GroupBy
<1>6. QED
  BY <1>3, <1>4, <1>5

(* A member a settlement pays.                                             *)
LEMMA MemberPaid ==
    ASSUME RailsInv, NEW at \in Times, NEW b, b = SettlementBoundary(at),
           NEW m \in BeneficiaryMembers(b)
    PROVE  /\ status[m.deployment].state = "approved"
           /\ eligibility[m.deployment].state = "active"
           /\ m.group = GroupBy(m.deployment, at)
<1>1. TablesInv /\ TypeOK /\ EventsAudited /\ (\E f : NetworkHistory(f))
  BY DEF RailsInv, TablesInv, OperatorInv, AuditInv
<1>2. b.audit = Len(events) /\ b.review = Len(reviews) /\ b.eligibility = Len(decisions)
  BY Zenon DEF SettlementBoundary
<1>3. NetworkAt[b.audit] = network
  BY <1>1, <1>2, TableTypes, HistoryAudited DEF VerifyOperatorNetworkStateRows
<1>4. PICK d \in Deployments :
        /\ network[d].claimed /\ EligibilityAt(network[d], b) = "active"
        /\ m = [group |-> GroupAt(d, network[d], b), deployment |-> d]
  BY <1>3, Zenon DEF BeneficiaryMembers
<1>5. m.deployment = d /\ m.group = GroupAt(d, network[d], b)
  BY <1>4
<1>6. /\ status[d].state = "approved" /\ eligibility[d].state = "active"
      /\ network[d].profile = status[d].claim
  BY <1>1, <1>2, <1>4, PaidNow
<1>7. GroupAt(d, network[d], b) = GroupBy(d, at)
  BY <1>6, GroupThen
<1>8. QED
  BY <1>5, <1>6, <1>7

(* The rails and the ledger's tables.                                      *)
PaidRails == RailsInv /\ LedgerTables

PaidStep ==
    \A s \in DOMAIN settlements' \ DOMAIN settlements :
        \A m \in settlements'[s].sources.members :
            /\ status[m.deployment].state = "approved"
            /\ eligibility[m.deployment].state = "active"
            /\ m.group = GroupBy(m.deployment, settlements'[s].at)

(* Whoever a settlement pays is approved and not suspended when it         *)
(* commits, and is paid in the group that the transfers of its second and  *)
(* before give, however late it commits (any MaxLag): the operator chains  *)
(* are read up to their heads, and only ownership transfers by their       *)
(* second.                                                                 *)
THEOREM PaidMembersAreEligible == SettlementSpec => PaidMembersEligible
<1>1. Init /\ SettlementInit => PaidRails
  BY RailsInit, SettledTablesInit DEF SettledTables, PaidRails
<1>2. PaidRails /\ [SettlementNext]_<<vars, settlementVars>> => PaidRails'
  <2> SUFFICES ASSUME PaidRails, [SettlementNext]_<<vars, settlementVars>> PROVE PaidRails'
    OBVIOUS
  <2>1. RailsInv /\ LedgerTables /\ TypeOK
    BY DEF PaidRails, RailsInv, TablesInv
  <2>2. [Next]_vars /\ LedgerTables'
    BY <2>1, SettlementStepImplements, LedgerGrows
  <2>3. RailsInv'
    BY <2>1, <2>2, RailsStep
  <2>4. QED
    BY <2>2, <2>3 DEF PaidRails
<1>3. PaidRails /\ [SettlementNext]_<<vars, settlementVars>> => PaidStep
  <2> SUFFICES ASSUME PaidRails, [SettlementNext]_<<vars, settlementVars>>,
                      NEW s \in DOMAIN settlements' \ DOMAIN settlements,
                      NEW m \in settlements'[s].sources.members
               PROVE  /\ status[m.deployment].state = "approved"
                      /\ eligibility[m.deployment].state = "active"
                      /\ m.group = GroupBy(m.deployment, settlements'[s].at)
    BY Zenon DEF PaidStep
  <2>1. RailsInv /\ LedgerTables /\ TypeOK
    BY DEF PaidRails, RailsInv, TablesInv
  <2>2. PICK month \in Int, cur \in Currencies, at \in ClockReads :
            settlements'[s] = SettlementRow(month, cur, at)
    BY <2>1, NewSettlement, Zenon
  <2>3. at \in Times
    BY DEF ClockReads
  <2>4. PICK b : b = SettlementBoundary(at)
    OBVIOUS
  <2>5. /\ SettlementRow(month, cur, at).sources.members = BeneficiaryMembers(b)
        /\ SettlementRow(month, cur, at).at = at
    BY <2>4, Zenon DEF SettlementRow, Sources
  <2>6. m \in BeneficiaryMembers(b) /\ settlements'[s].at = at
    BY <2>2, <2>5
  <2>7. QED
    BY <2>1, <2>3, <2>4, <2>6, MemberPaid
<1>4. QED
  BY <1>1, <1>2, <1>3, PTL DEF SettlementSpec, PaidMembersEligible, PaidStep
=============================================================================
