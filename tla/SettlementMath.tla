--------------------------- MODULE SettlementMath ---------------------------
(***************************************************************************)
(* The arithmetic of a settlement (registry/store/sqlite/settlement.go,    *)
(* registry/protocol/revenue.go): the commission pool, the valuation from  *)
(* three-month averages, exact shares, and the rounding of shares to minor *)
(* units by largest remainder.                                             *)
(*                                                                         *)
(* Shares are exact rationals, here pairs <<numerator, denominator>> that  *)
(* are not reduced: neither a quotient nor the order of remainders depends *)
(* on that.  Amounts are unbounded: the code computes with big integers    *)
(* and checked additions and refuses what exceeds the safe range.          *)
(***************************************************************************)
EXTENDS Integers, FiniteSets, Functions

BasisPoints == 10000
CommissionRate == 500
MinimumGrowth == -10000
MaximumGrowth == 20000
MaximumAcceleration == 10000
AdjustmentDivisor == 4
MaximumAdjustment == 2500

(* Go's integer division by a positive number, which rounds towards zero.  *)
Quo(a, b) == IF a >= 0 THEN a \div b ELSE -((-a) \div b)

Clamp(x, low, high) == IF x < low THEN low ELSE IF x > high THEN high ELSE x

(* RevenueCommissionMinor: no product exceeds the rate times the basis.    *)
Commission(basis) ==
    (basis \div BasisPoints) * CommissionRate
        + ((basis % BasisPoints) * CommissionRate) \div BasisPoints

(* multiplyBasisPoints.                                                    *)
Scaled(x, bps) == (x * bps) \div BasisPoints

(* settlementGrowthBasisPoints.                                            *)
Growth(previous, current) ==
    IF previous = 0
    THEN IF current = 0 THEN 0 ELSE MaximumGrowth
    ELSE Clamp(Quo((current - previous) * BasisPoints, previous),
               MinimumGrowth, MaximumGrowth)

(* settlementThreeMonthAverages, for the three months up to m.             *)
Average(basis, m) == (basis[m - 2] + basis[m - 1] + basis[m]) \div 3

Acceleration(prior, recent) ==
    Clamp(recent - prior, -MaximumAcceleration, MaximumAcceleration)

Adjustment(prior, recent) ==
    Clamp(Quo(recent, AdjustmentDivisor)
              + Quo(Acceleration(prior, recent), AdjustmentDivisor),
          -MaximumAdjustment, MaximumAdjustment)

(* The valuation of settlementSourcesTx for the month m: the trailing      *)
(* total at a multiplier adjusted by growth and its acceleration.          *)
Multiplier(basis, m, base) ==
    LET prior == Growth(Average(basis, m - 6), Average(basis, m - 3))
        recent == Growth(Average(basis, m - 3), Average(basis, m))
    IN  Scaled(base, BasisPoints + Adjustment(prior, recent))

-----------------------------------------------------------------------------
(* settlementRatios: the founder's share falls with the measured weight    *)
(* but not below a tenth; the rest goes to the groups by eligible weight,  *)
(* or to the reserve.  Beneficiaries are numbers in the order of their     *)
(* identifiers.                                                            *)

FounderShare(founderScaled, measured) ==
    IF 10 * founderScaled < founderScaled + measured
    THEN <<1, 10>>
    ELSE <<founderScaled, founderScaled + measured>>

(* weights is a function from groups to positive eligible weights.         *)
Shares(founder, reserve, founderScaled, weights, measured) ==
    LET share == FounderShare(founderScaled, measured)
        eligible == SumFunction(weights)
        Operator(g) == <<(share[2] - share[1]) * weights[g], share[2] * eligible>>
    IN  [b \in {founder} \cup (IF DOMAIN weights = {} THEN {reserve} ELSE DOMAIN weights) |->
            CASE b = founder -> share
              [] b = reserve -> <<share[2] - share[1], share[2]>>
              [] OTHER -> Operator(b)]

(* Mutant: the remainder is not distributed.                               *)
LargestRemainderFloor(shares, total) ==
    [b \in DOMAIN shares |-> (total * shares[b][1]) \div shares[b][2]]

(* largestRemainder: every share is rounded down, and the units left over  *)
(* go to the largest remainders, ties to the smaller identifier.           *)
LargestRemainder(shares, total) ==
    LET quotient == [b \in DOMAIN shares |-> (total * shares[b][1]) \div shares[b][2]]
        remainder == [b \in DOMAIN shares |-> (total * shares[b][1]) % shares[b][2]]
        left == total - SumFunction(quotient)
        Before(a, b) ==
            LET x == remainder[a] * shares[b][2]
                y == remainder[b] * shares[a][2]
            IN  x > y \/ (x = y /\ a < b)
        Rank(b) == Cardinality({a \in DOMAIN shares : Before(a, b)})
    IN  [b \in DOMAIN shares |-> quotient[b] + (IF Rank(b) < left THEN 1 ELSE 0)]
=============================================================================
