---------------------------- MODULE BondingCurve ----------------------------
(***************************************************************************)
(* The curve arithmetic of LaunchMath.sol (libraries BondingCurve and      *)
(* LaunchMath): what `amount` launch tokens cost when `supply` of them are *)
(* already sold.  Solidity's `/` and mulDiv round down, as \div does.  The *)
(* fixed-point unit is a parameter: the contracts use 10^18, the small     *)
(* instances a few units, which keeps every rounding step visible.         *)
(***************************************************************************)
EXTENDS Naturals, FiniteSets

CONSTANT PRECISION   \* the fixed-point unit, 1e18 in the contracts

ASSUME PrecisionAssumption == PRECISION \in Nat \ {0}

CurveTypes == {"Linear", "SquareRoot", "Quadratic", "Exponential"}

\* Math.sqrt of OpenZeppelin: the floor of the square root.
sqrt(x) == Cardinality({r \in 1 .. x : r * r <= x})

mulDiv(a, b, d) == (a * b) \div d

\* Simpson's rule over the prices at both ends and at the midpoint.
simpson(priceLow, priceMid, priceHigh, amount) ==
    mulDiv(priceLow + 4 * priceMid + priceHigh, amount, 6 * PRECISION)

linearCost(supply, amount, slope, intercept) ==
    mulDiv(slope, amount * (2 * supply + amount), 2 * PRECISION)
        + mulDiv(intercept, amount, PRECISION)

sqrtCost(supply, amount, coefficient) ==
    simpson(mulDiv(coefficient, sqrt(supply), PRECISION),
            mulDiv(coefficient, sqrt(supply + (amount \div 2)), PRECISION),
            mulDiv(coefficient, sqrt(supply + amount), PRECISION),
            amount)

quadraticCost(supply, amount, coefficient) ==
    LET newSupply  == supply + amount
        sumSquares == mulDiv(newSupply, newSupply, PRECISION)
                        + mulDiv(newSupply, supply, PRECISION)
                        + mulDiv(supply, supply, PRECISION)
    IN  mulDiv(coefficient * amount, sumSquares, 3 * PRECISION * PRECISION)

\* Sixth-order Taylor series of base * e^(k x); each power is rounded down
\* from the rounded power below it.
approxExp(x, base, kFactor) ==
    LET kx  == mulDiv(kFactor, x, PRECISION)
        kx2 == mulDiv(kx, kx, PRECISION)
        kx3 == mulDiv(kx2, kx, PRECISION)
        kx4 == mulDiv(kx3, kx, PRECISION)
        kx5 == mulDiv(kx4, kx, PRECISION)
        kx6 == mulDiv(kx5, kx, PRECISION)
        series == PRECISION + kx + (kx2 \div 2) + (kx3 \div 6) + (kx4 \div 24)
                    + (kx5 \div 120) + (kx6 \div 720)
    IN  mulDiv(base, series, PRECISION)

exponentialCost(supply, amount, base, kFactor) ==
    simpson(approxExp(supply, base, kFactor),
            approxExp(supply + (amount \div 2), base, kFactor),
            approxExp(supply + amount, base, kFactor),
            amount)

\* The four-way dispatch every launch clone calls.
curveCostAt(supply, amount, curveType, curveParam1, curveParam2) ==
    CASE curveType = "Linear"      -> linearCost(supply, amount, curveParam1, curveParam2)
      [] curveType = "SquareRoot"  -> sqrtCost(supply, amount, curveParam1)
      [] curveType = "Quadratic"   -> quadraticCost(supply, amount, curveParam1)
      [] curveType = "Exponential" -> exponentialCost(supply, amount, curveParam1, curveParam2)
=============================================================================
