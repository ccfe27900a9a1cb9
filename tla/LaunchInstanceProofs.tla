------------------------ MODULE LaunchInstanceProofs ------------------------
(***************************************************************************)
(* Type correctness and the safety of the escrow, of the wallet cap and of *)
(* the token reserve of a launch, for every curve, cap and input.          *)
(***************************************************************************)
EXTENDS LaunchInstance, Amounts, FiniteSetTheorems, TLAPS

-----------------------------------------------------------------------------
(* Arithmetic.                                                             *)

\* A product of natural numbers over a positive one is a natural number.
LEMMA MulDivNat ==
    ASSUME NEW x \in Nat, NEW y \in Nat, NEW d \in Nat \ {0}
    PROVE  mulDiv(x, y, d) \in Nat
<1>1. x * y \in Nat
  OBVIOUS
<1> QED
  BY <1>1, DivNat DEF mulDiv

\* What is set aside after the input fee, charged with the purchase fee,
\* exceeds the input by at most one unit.
LEMMA FeeOvershoot ==
    ASSUME NEW u \in Nat, NEW base \in Nat, base <= u - inputFee(u)
    PROVE  /\ buyFee(base) \in Nat
           /\ base + buyFee(base) <= u + 1
<1>1. /\ inputFee(u) \in Nat
      /\ u * 100 < inputFee(u) * 10000 + 10000
  BY DEF inputFee, BUY_FEE_BPS, BPS
<1>2. /\ buyFee(base) \in Nat
      /\ buyFee(base) * 9900 <= base * 100
  BY DEF buyFee, BUY_FEE_BPS, BPS
<1> QED
  BY <1>1, <1>2

-----------------------------------------------------------------------------
(* The curve.                                                              *)

LEMMA SqrtNat ==
    ASSUME NEW x \in Nat
    PROVE  sqrt(x) \in Nat
<1> DEFINE roots == {r \in 1 .. x : r * r <= x}
<1>1. IsFiniteSet(1 .. x)
  BY FS_Interval
<1>2. IsFiniteSet(roots)
  BY <1>1, FS_Subset
<1> QED
  BY <1>2, FS_CardinalityType DEF sqrt

LEMMA SimpsonNat ==
    ASSUME NEW x \in Nat, NEW y \in Nat, NEW z \in Nat, NEW n \in Nat
    PROVE  simpson(x, y, z, n) \in Nat
<1>1. 6 * PRECISION \in Nat \ {0} /\ x + 4 * y + z \in Nat
  BY PrecisionAssumption
<1> QED
  BY <1>1, MulDivNat DEF simpson

LEMMA ApproxExpNat ==
    ASSUME NEW x \in Nat, NEW base \in Nat, NEW k \in Nat
    PROVE  approxExp(x, base, k) \in Nat
<1> DEFINE kx  == mulDiv(k, x, PRECISION)
           kx2 == mulDiv(kx, kx, PRECISION)
           kx3 == mulDiv(kx2, kx, PRECISION)
           kx4 == mulDiv(kx3, kx, PRECISION)
           kx5 == mulDiv(kx4, kx, PRECISION)
           kx6 == mulDiv(kx5, kx, PRECISION)
           series == PRECISION + kx + (kx2 \div 2) + (kx3 \div 6) + (kx4 \div 24)
                       + (kx5 \div 120) + (kx6 \div 720)
<1>0. PRECISION \in Nat \ {0}
  BY PrecisionAssumption
<1>1. kx \in Nat
  BY <1>0, MulDivNat
<1>2. kx2 \in Nat
  <2> HIDE DEF kx
  <2> QED BY <1>0, <1>1, MulDivNat
<1>3. kx3 \in Nat
  <2> HIDE DEF kx, kx2
  <2> QED BY <1>0, <1>1, <1>2, MulDivNat
<1>4. kx4 \in Nat
  <2> HIDE DEF kx, kx3
  <2> QED BY <1>0, <1>1, <1>3, MulDivNat
<1>5. kx5 \in Nat
  <2> HIDE DEF kx, kx4
  <2> QED BY <1>0, <1>1, <1>4, MulDivNat
<1>6. kx6 \in Nat
  <2> HIDE DEF kx, kx5
  <2> QED BY <1>0, <1>1, <1>5, MulDivNat
<1>7. series \in Nat
  <2> HIDE DEF kx, kx2, kx3, kx4, kx5, kx6
  <2> QED BY <1>0, <1>1, <1>2, <1>3, <1>4, <1>5, <1>6
<1>8. mulDiv(base, series, PRECISION) \in Nat
  <2> HIDE DEF series
  <2> QED BY <1>0, <1>7, MulDivNat
<1> QED
  BY <1>8 DEF approxExp

LEMMA CurveCostNat ==
    ASSUME NEW s \in Nat, NEW n \in Nat
    PROVE  _curveCost(s, n) \in Nat
<1>0. /\ PRECISION \in Nat \ {0} /\ 2 * PRECISION \in Nat \ {0}
      /\ 3 * PRECISION * PRECISION \in Nat \ {0}
      /\ s + (n \div 2) \in Nat
  BY PrecisionAssumption
<1>1. curveParam1 \in Nat /\ curveParam2 \in Nat /\ curveType \in CurveTypes
  BY LaunchAssumption
<1> DEFINE d2 == 2 * PRECISION
           d3 == 3 * PRECISION * PRECISION
           mid == s + (n \div 2)
           end == s + n
<1>2. d2 \in Nat \ {0} /\ d3 \in Nat \ {0} /\ mid \in Nat /\ end \in Nat
  BY <1>0
<1>3. linearCost(s, n, curveParam1, curveParam2) \in Nat
  <2> DEFINE area == n * (2 * s + n)
             slopeTerm == mulDiv(curveParam1, area, d2)
             interceptTerm == mulDiv(curveParam2, n, PRECISION)
  <2>1. area \in Nat
    OBVIOUS
  <2>2. slopeTerm \in Nat
    <3> HIDE DEF area, d2
    <3> QED BY <1>1, <1>2, <2>1, MulDivNat
  <2>3. interceptTerm \in Nat
    BY <1>0, <1>1, MulDivNat
  <2>4. slopeTerm + interceptTerm \in Nat
    <3> HIDE DEF slopeTerm, interceptTerm
    <3> QED BY <2>2, <2>3
  <2> QED
    BY <2>4 DEF linearCost
<1>4. sqrtCost(s, n, curveParam1) \in Nat
  <2>1. ASSUME NEW x \in Nat PROVE mulDiv(curveParam1, sqrt(x), PRECISION) \in Nat
    BY <1>0, <1>1, SqrtNat, MulDivNat
  <2> DEFINE price(x) == mulDiv(curveParam1, sqrt(x), PRECISION)
  <2>2. price(s) \in Nat /\ price(mid) \in Nat /\ price(end) \in Nat
    <3> HIDE DEF mid, end
    <3> QED BY <2>1, <1>2
  <2>3. simpson(price(s), price(mid), price(end), n) \in Nat
    <3> HIDE DEF price, mid, end
    <3> QED BY <2>2, SimpsonNat
  <2> QED
    BY <2>3 DEF sqrtCost
<1>5. quadraticCost(s, n, curveParam1) \in Nat
  <2> DEFINE sumSquares == mulDiv(end, end, PRECISION) + mulDiv(end, s, PRECISION)
                             + mulDiv(s, s, PRECISION)
             scaled == curveParam1 * n
  <2>1. /\ mulDiv(end, end, PRECISION) \in Nat /\ mulDiv(end, s, PRECISION) \in Nat
        /\ mulDiv(s, s, PRECISION) \in Nat
    <3> HIDE DEF end
    <3> QED BY <1>0, <1>2, MulDivNat
  <2>2. sumSquares \in Nat /\ scaled \in Nat
    BY <1>1, <2>1
  <2>3. mulDiv(scaled, sumSquares, d3) \in Nat
    <3> HIDE DEF scaled, sumSquares, d3
    <3> QED BY <1>2, <2>2, MulDivNat
  <2> QED
    BY <2>3 DEF quadraticCost
<1>6. exponentialCost(s, n, curveParam1, curveParam2) \in Nat
  <2> DEFINE price(x) == approxExp(x, curveParam1, curveParam2)
  <2>1. price(s) \in Nat /\ price(mid) \in Nat /\ price(end) \in Nat
    <3> HIDE DEF mid, end
    <3> QED BY <1>1, <1>2, ApproxExpNat
  <2>2. simpson(price(s), price(mid), price(end), n) \in Nat
    <3> HIDE DEF price, mid, end
    <3> QED BY <2>1, SimpsonNat
  <2> QED
    BY <2>2 DEF exponentialCost
<1> QED
  BY <1>1, <1>3, <1>4, <1>5, <1>6 DEF _curveCost, curveCostAt, CurveTypes

LEMMA CostNat ==
    ASSUME NEW s \in Nat, NEW n \in Nat
    PROVE  _getCostForTokens(s, n) \in Nat
  BY CurveCostNat, DivNat, LaunchAssumption DEF _getCostForTokens

\* Tokens that a budget affords are left on the curve and cost no more than it.
LEMMA AffordableCost ==
    ASSUME NEW s \in Nat, NEW budget \in Nat, NEW n \in affordable(s, budget),
           tokensForCurve \in Nat
    PROVE  /\ n \in Nat /\ n >= 1 /\ s + n <= tokensForCurve
           /\ _getCostForTokens(s, n) \in Nat
           /\ _getCostForTokens(s, n) <= budget
<1> DEFINE c == _curveCost(s, n)
           q == c \div baseScale
<1>1. n \in Nat /\ n >= 1 /\ s + n <= tokensForCurve /\ c <= budget * baseScale
  BY DEF affordable
<1>2. c \in Nat /\ baseScale \in Nat \ {0}
  BY <1>1, CurveCostNat, LaunchAssumption
<1>3. q \in Nat /\ q * baseScale <= c
  <2> HIDE DEF c
  <2> QED BY <1>2, DivNat
<1>4. q * baseScale <= budget * baseScale
  <2> HIDE DEF c, q
  <2> QED BY <1>1, <1>2, <1>3
<1>5. q <= budget
  <2> HIDE DEF c, q
  <2>1. SUFFICES ASSUME q >= budget + 1 PROVE FALSE
    BY <1>3
  <2>2. q * baseScale >= (budget + 1) * baseScale
    BY <2>1, <1>2, <1>3
  <2>3. (budget + 1) * baseScale = budget * baseScale + baseScale
    BY <1>2
  <2> QED
    BY <2>2, <2>3, <1>4, <1>2, <1>3
<1> QED
  BY <1>1, <1>3, <1>5 DEF _getCostForTokens

-----------------------------------------------------------------------------
(* The split of the deposit and the listing.                               *)

LEMMA SplitNat ==
    /\ tokensForCurve \in Nat /\ creatorTotalTokens \in Nat /\ tokensForLP \in Nat
    /\ tokensForCurve + tokensForLP + creatorTotalTokens = totalTokensRequired
    /\ maxBuyPerWallet \in Nat /\ totalTokensRequired \in Nat
<1> DEFINE share == totalTokensRequired * creatorAllocationBps
<1>1. totalTokensRequired \in Nat /\ hardCap \in Nat
      /\ creatorAllocationBps \in 0 .. 500 /\ maxBuyBps \in 50 .. 500
  BY LaunchAssumption
<1>2. share \in Nat /\ share <= totalTokensRequired * 500
  BY <1>1
<1>3. hardCap * maxBuyBps \in Nat
  BY <1>1
<1>4. maxBuyPerWallet \in Nat
  <2> DEFINE product == hardCap * maxBuyBps
  <2>1. product \div 10000 \in Nat
    <3> HIDE DEF product
    <3> QED BY <1>3, DivNat DEF product
  <2> QED
    BY <2>1 DEF maxBuyPerWallet, BPS
<1>5. /\ share \div 10000 \in Nat
      /\ (totalTokensRequired * 7000) \div 10000 \in Nat
      /\ totalTokensRequired - (totalTokensRequired * 7000) \div 10000 - share \div 10000 \in Nat
  <2> HIDE DEF share
  <2> QED BY <1>1, <1>2
<1> QED
  BY <1>1, <1>4, <1>5 DEF tokensForCurve, creatorTotalTokens, tokensForLP, BPS

LEMMA PriceNat ==
    ASSUME NEW sold \in 0 .. tokensForCurve
    PROVE  getCurrentPrice(sold) \in Nat
<1> DEFINE remaining == tokensForCurve - sold
           amount == IF remaining < PRECISION THEN remaining ELSE PRECISION
           cost == _getCostForTokens(sold, amount)
<1>1. tokensForCurve \in Nat /\ PRECISION \in Nat \ {0}
  BY SplitNat, PrecisionAssumption
<1>2. remaining \in Nat /\ sold \in Nat /\ amount \in Nat
  BY <1>1
<1>3. cost \in Nat
  <2> HIDE DEF amount
  <2> QED BY <1>2, CostNat
<1>4. CASE remaining > 0
  <2>1. amount \in Nat \ {0}
    BY <1>1, <1>2, <1>4
  <2>2. mulDiv(cost, PRECISION, amount) \in Nat
    <3> HIDE DEF cost, amount
    <3> QED BY <2>1, <1>1, <1>3, MulDivNat
  <2> QED
    BY <1>3, <1>4, <2>2 DEF getCurrentPrice
<1>5. CASE ~(remaining > 0) /\ sold >= PRECISION
  <2>1. sold - PRECISION \in Nat
    BY <1>1, <1>2, <1>5
  <2>2. _getCostForTokens(sold - PRECISION, PRECISION) \in Nat
    BY <2>1, <1>1, CostNat
  <2> QED
    BY <1>5, <2>2 DEF getCurrentPrice
<1>6. CASE ~(remaining > 0) /\ ~(sold >= PRECISION) /\ sold > 0
  <2>1. _getCostForTokens(0, sold) \in Nat
    BY <1>2, CostNat
  <2>2. mulDiv(_getCostForTokens(0, sold), PRECISION, sold) \in Nat
    <3> DEFINE total == _getCostForTokens(0, sold)
    <3>1. sold \in Nat \ {0} /\ PRECISION \in Nat
      BY <1>1, <1>2, <1>6
    <3> HIDE DEF total
    <3> QED BY <2>1, <3>1, MulDivNat DEF total
  <2> QED
    BY <1>6, <2>2 DEF getCurrentPrice
<1>7. CASE ~(remaining > 0) /\ ~(sold >= PRECISION) /\ ~(sold > 0)
  BY <1>7 DEF getCurrentPrice
<1> QED
  BY <1>4, <1>5, <1>6, <1>7

\* What graduation sends towards the pair fits in the LP allocation.
LEMMA LpBound ==
    ASSUME NEW raised \in Nat, NEW sold \in 0 .. tokensForCurve
    PROVE  /\ lpTokens(raised, sold) \in 0 .. tokensForLP
           /\ raised - (raised * GRADUATION_FEE_BPS) \div BPS \in Nat
<1> DEFINE usdtForLP == raised - (raised * GRADUATION_FEE_BPS) \div BPS
           price == getCurrentPrice(sold)
           fair == mulDiv(usdtForLP, PRECISION, price)
<1>1. usdtForLP \in Nat
  BY DEF GRADUATION_FEE_BPS, BPS
<1>2. price \in Nat /\ PRECISION \in Nat /\ tokensForLP \in Nat
  BY PriceNat, PrecisionAssumption, SplitNat
<1>3. price > 0 => fair \in Nat
  <2> HIDE DEF usdtForLP, price
  <2> QED BY <1>1, <1>2, MulDivNat
<1> QED
  <2> HIDE DEF usdtForLP, price, fair
  <2>1. (IF price > 0 /\ fair <= tokensForLP THEN fair ELSE tokensForLP) \in 0 .. tokensForLP
    BY <1>2, <1>3
  <2> QED
    BY <1>1, <2>1 DEF lpTokens, usdtForLP, price, fair

\* Graduation empties the escrow and keeps the creator's allocation.
LEMMA GraduateStep ==
    ASSUME NEW raised \in Nat, NEW sold \in 0 .. tokensForCurve,
           NEW usdt \in Nat, NEW tokens \in Nat, now \in Nat,
           tokens >= totalTokensRequired - sold,
           _graduate(raised, sold, usdt, tokens)
    PROVE  /\ state' = "Graduated" /\ graduationTimestamp' \in Nat
           /\ pair' \in [usdt : Nat, tokens : Nat]
           /\ usdtBal' = 0 /\ tokenBal' = creatorTotalTokens
<1> DEFINE toLP == lpTokens(raised, sold)
<1>1. toLP \in 0 .. tokensForLP /\ raised - (raised * GRADUATION_FEE_BPS) \div BPS \in Nat
  BY LpBound
<1>2. toLP - (toLP * GRADUATION_FEE_BPS) \div BPS \in Nat
  <2> HIDE DEF toLP
  <2> QED BY <1>1, SplitNat DEF GRADUATION_FEE_BPS, BPS
<1>3. pair' \in [usdt : Nat, tokens : Nat]
  <2> HIDE DEF toLP
  <2> QED BY <1>1, <1>2 DEF _graduate, toLP
<1>4. tokens - toLP >= creatorTotalTokens /\ tokens - toLP \in Nat
  <2> HIDE DEF toLP
  <2> QED BY <1>1, SplitNat
<1>5. tokenBal' = creatorTotalTokens
  <2> HIDE DEF toLP
  <2> QED BY <1>4, SplitNat DEF _graduate, tokenReserved, toLP
<1> QED
  BY <1>3, <1>5 DEF _graduate

-----------------------------------------------------------------------------
(* The inductive invariant: a launch that is not sold yet has raised       *)
(* nothing, so activation opens it with its escrow covered.                *)

NothingRaisedYet == state = "Pending" => totalBaseRaised = 0

IInv ==
    /\ TypeOK
    /\ EscrowCovers
    /\ WalletCap
    /\ TokensBacked
    /\ NothingRaisedYet

LEMMA InitIInv == Init => IInv
<1> SUFFICES ASSUME Init PROVE IInv
  OBVIOUS
<1>1. TypeOK
  <2>1. /\ paused \in BOOLEAN /\ globalPause \in BOOLEAN /\ exempt \in BOOLEAN
        /\ state \in LaunchState
    BY DEF Init, LaunchState
  <2>2. pair \in [usdt : Nat, tokens : Nat]
    BY DEF Init
  <2>3. /\ tokensSold \in 0 .. tokensForCurve /\ totalTokensDeposited \in 0 .. totalTokensRequired
        /\ creatorClaimed \in 0 .. creatorTotalTokens
    BY SplitNat DEF Init
  <2>4. /\ basePaid \in [Buyers -> Nat] /\ grossPaid \in [Buyers -> Nat]
        /\ tokensBought \in [Buyers -> Nat]
    BY DEF Init
  <2>5. /\ now \in Nat /\ deadline \in Nat /\ totalBaseRaised \in Nat
        /\ totalBuyFeesCollected \in Nat /\ totalPurchases \in Nat
        /\ graduationTimestamp \in Nat /\ refundStartTimestamp \in Nat
        /\ usdtBal \in Nat /\ tokenBal \in Nat /\ donated \in Nat
    BY DEF Init
  <2> QED
    BY <2>1, <2>2, <2>3, <2>4, <2>5 DEF TypeOK
<1>2. WalletCap
  <2>1. \A b \in Buyers : basePaid[b] = 0
    BY DEF Init
  <2> QED
    BY <2>1, SplitNat DEF WalletCap
<1> QED
  BY <1>1, <1>2 DEF IInv, Init, EscrowCovers, TokensBacked, NothingRaisedYet

\* A settled purchase, whichever of the two caps decided it.
LEMMA SettleStep ==
    ASSUME IInv, state = "Active",
           NEW b \in Buyers, NEW u \in Nat, NEW n \in Nat, NEW base \in Nat, NEW m \in Nat,
           tokensSold + n <= tokensForCurve,
           base <= u - inputFee(u),
           basePaid[b] + base <= maxBuyPerWallet,
           _settle(b, u, n, base, m),
           UNCHANGED <<clock, switches, deadline, refundStartTimestamp,
                       totalTokensDeposited, creatorClaimed, donated>>
    PROVE  IInv'
<1> DEFINE fee == buyFee(base)
           totalSpent == base + fee
           excess == IF u > totalSpent THEN u - totalSpent ELSE 0
           onHand == usdtBal + u - excess
           raised == totalBaseRaised + base
           sold == tokensSold + n
<1>0. TypeOK /\ EscrowCovers /\ WalletCap /\ TokensBacked
  BY DEF IInv
<1>1. fee \in Nat /\ totalSpent <= u + 1
  BY FeeOvershoot
<1>2. /\ onHand - fee \in Nat
      /\ onHand - fee + (totalPurchases + 1) >= raised
  <2>1. usdtBal \in Nat /\ totalPurchases \in Nat /\ totalBaseRaised \in Nat
    BY <1>0 DEF TypeOK
  <2>2. usdtBal + totalPurchases >= totalBaseRaised
    BY <1>0 DEF EscrowCovers
  <2>3. onHand >= fee
    BY DEF _settle
  <2>4. totalSpent = base + fee /\ totalSpent \in Nat /\ fee \in Nat
    BY <1>1
  <2>5. CASE u > totalSpent
    <3>1. onHand = usdtBal + totalSpent
      <4> HIDE DEF totalSpent
      <4> QED BY <2>1, <2>4, <2>5
    <3> HIDE DEF fee, onHand, totalSpent
    <3> QED BY <2>1, <2>2, <2>3, <2>4, <3>1
  <2>6. CASE ~(u > totalSpent)
    <3>1. onHand = usdtBal + u
      <4> HIDE DEF totalSpent
      <4> QED BY <2>1, <2>6
    <3> HIDE DEF fee, onHand, totalSpent
    <3> QED BY <1>1, <2>1, <2>2, <2>3, <2>4, <3>1
  <2> QED
    BY <2>5, <2>6
<1>3. /\ sold \in 0 .. tokensForCurve /\ raised \in Nat
      /\ tokenBal - n \in Nat /\ tokenBal - n >= totalTokensRequired - sold
  <2>1. tokenBal >= n
    BY DEF _settle
  <2>2. tokenBal >= totalTokensRequired - tokensSold
    BY <1>0 DEF TokensBacked
  <2> QED
    BY <1>0, <2>1, <2>2, SplitNat DEF TypeOK
<1>4. /\ tokensSold' = sold /\ totalBaseRaised' = raised
      /\ totalBuyFeesCollected' = totalBuyFeesCollected + fee
      /\ basePaid' = [basePaid EXCEPT ![b] = @ + base]
      /\ grossPaid' = [grossPaid EXCEPT ![b] = @ + totalSpent]
      /\ tokensBought' = [tokensBought EXCEPT ![b] = @ + n]
      /\ totalPurchases' = totalPurchases + 1
  BY DEF _settle, credited
<1>5. /\ tokensSold' \in 0 .. tokensForCurve /\ totalBaseRaised' \in Nat
      /\ totalBuyFeesCollected' \in Nat /\ totalPurchases' \in Nat
      /\ basePaid' \in [Buyers -> Nat] /\ grossPaid' \in [Buyers -> Nat]
      /\ tokensBought' \in [Buyers -> Nat]
  <2> HIDE DEF fee
  <2> QED BY <1>0, <1>1, <1>3, <1>4 DEF TypeOK
<1>6. WalletCap'
  BY <1>0, <1>4 DEF WalletCap, TypeOK
<1>7. /\ now' \in Nat /\ deadline' \in Nat /\ refundStartTimestamp' \in Nat
      /\ paused' \in BOOLEAN /\ globalPause' \in BOOLEAN /\ exempt' \in BOOLEAN
      /\ totalTokensDeposited' \in 0 .. totalTokensRequired
      /\ creatorClaimed' \in 0 .. creatorTotalTokens /\ donated' \in Nat
  BY <1>0 DEF TypeOK, clock, switches
<1>8. CASE raised >= hardCap \/ sold >= tokensForCurve
  <2>1. _graduate(raised, sold, onHand - fee, tokenBal - n)
    BY <1>8 DEF _settle
  <2>2. /\ state' = "Graduated" /\ graduationTimestamp' \in Nat
        /\ pair' \in [usdt : Nat, tokens : Nat]
        /\ usdtBal' = 0 /\ tokenBal' = creatorTotalTokens
    <3>1. now \in Nat
      BY <1>0 DEF TypeOK
    <3> HIDE DEF raised, sold, onHand, fee
    <3> QED BY <1>2, <1>3, <2>1, <3>1, GraduateStep
  <2>3. TypeOK'
    BY <1>5, <1>7, <2>2, SplitNat DEF TypeOK, LaunchState
  <2>4. TokensBacked'
    BY <1>0, <2>2, SplitNat DEF TokensBacked, TypeOK
  <2> QED
    BY <1>6, <2>2, <2>3, <2>4 DEF IInv, EscrowCovers, NothingRaisedYet
<1>9. CASE ~(raised >= hardCap \/ sold >= tokensForCurve)
  <2>1. /\ usdtBal' = onHand - fee /\ tokenBal' = tokenBal - n
        /\ UNCHANGED <<state, listing>>
    BY <1>9 DEF _settle
  <2>2. TypeOK'
    <3> HIDE DEF onHand, fee
    <3> QED BY <1>0, <1>2, <1>3, <1>5, <1>7, <2>1 DEF TypeOK, listing
  <2>3. EscrowCovers'
    <3>1. usdtBal' + totalPurchases' >= totalBaseRaised'
      <4> HIDE DEF onHand, fee, raised
      <4> QED BY <1>2, <1>4, <2>1
    <3> QED BY <3>1 DEF EscrowCovers
  <2>4. TokensBacked'
    BY <1>3, <1>4, <2>1 DEF TokensBacked
  <2> QED
    BY <1>6, <2>1, <2>2, <2>3, <2>4 DEF IInv, NothingRaisedYet
<1> QED
  BY <1>8, <1>9

\* A refund, in Refunding or under a pause, takes as much out of the raise
\* as out of the escrow.
LEMMA RefundStep ==
    ASSUME IInv, NEW b \in Buyers, NEW amount, refund(b, amount)
    PROVE  IInv'
<1> DEFINE refundBase == proRata(basePaid[b], amount, tokensBought[b])
           grossRefund == proRata(grossPaid[b], amount, tokensBought[b])
<1>0. TypeOK /\ EscrowCovers /\ WalletCap /\ TokensBacked /\ NothingRaisedYet
  BY DEF IInv
<1>1. /\ basePaid[b] \in Nat /\ grossPaid[b] \in Nat /\ tokensBought[b] \in Nat
      /\ amount \in 1 .. tokensBought[b] /\ refundBase > 0
      /\ tokensSold >= amount /\ totalBaseRaised >= refundBase /\ usdtBal >= refundBase
  BY <1>0 DEF TypeOK, refund
<1>2. refundBase \in 0 .. basePaid[b] /\ grossRefund \in 0 .. grossPaid[b]
  <2>1. amount \in Nat /\ amount <= tokensBought[b] /\ tokensBought[b] \in Nat \ {0}
    BY <1>1
  <2> QED
    BY <1>1, <2>1, ShareBound DEF proRata
<1>3. /\ tokensSold' = tokensSold - amount
      /\ totalBaseRaised' = totalBaseRaised - refundBase
      /\ basePaid' = [basePaid EXCEPT ![b] = @ - refundBase]
      /\ grossPaid' = [grossPaid EXCEPT ![b] = @ - grossRefund]
      /\ tokensBought' = [tokensBought EXCEPT ![b] = @ - amount]
      /\ tokenBal' = tokenBal + amount
      /\ usdtBal' = usdtBal - refundBase
      /\ state' = effectiveState
      /\ refundStartTimestamp' = IF missedSoftCap THEN now ELSE refundStartTimestamp
      /\ UNCHANGED <<now, deadline, totalBuyFeesCollected, totalPurchases, graduationTimestamp,
                     pair, paused, globalPause, exempt,
                     totalTokensDeposited, creatorClaimed, donated>>
  BY DEF refund, _autoResolve, clock, history, listing, switches
<1> HIDE DEF refundBase, grossRefund
<1>4. TypeOK'
  <2>1. state' \in LaunchState /\ refundStartTimestamp' \in Nat
    BY <1>0, <1>3 DEF TypeOK, effectiveState, LaunchState
  <2>2. /\ tokensSold' \in 0 .. tokensForCurve /\ totalBaseRaised' \in Nat
        /\ tokenBal' \in Nat /\ usdtBal' \in Nat
    BY <1>0, <1>1, <1>2, <1>3, SplitNat DEF TypeOK
  <2>3. /\ basePaid' \in [Buyers -> Nat] /\ grossPaid' \in [Buyers -> Nat]
        /\ tokensBought' \in [Buyers -> Nat]
    BY <1>0, <1>1, <1>2, <1>3 DEF TypeOK
  <2> QED
    BY <1>0, <1>3, <2>1, <2>2, <2>3 DEF TypeOK
<1>5. EscrowCovers'
  <2>1. CASE missedSoftCap
    BY <1>0, <1>1, <1>2, <1>3, <2>1 DEF EscrowCovers, missedSoftCap, TypeOK
  <2>2. CASE ~missedSoftCap
    <3>1. state' = state /\ sweepOpens' = sweepOpens /\ now' = now
      BY <1>3, <2>2 DEF effectiveState, sweepOpens, sweepAnchor, STRANDED_SWEEP_DELAY
    <3> QED
      BY <1>0, <1>1, <1>2, <1>3, <3>1 DEF EscrowCovers, TypeOK
  <2> QED
    BY <2>1, <2>2
<1>6. WalletCap'
  BY <1>0, <1>1, <1>2, <1>3, SplitNat DEF WalletCap, TypeOK
<1>7. TokensBacked'
  BY <1>0, <1>1, <1>3, SplitNat DEF TokensBacked, TypeOK, effectiveState, missedSoftCap
<1>8. NothingRaisedYet'
  BY <1>0, <1>1, <1>2, <1>3 DEF NothingRaisedYet, effectiveState, missedSoftCap
<1> QED
  BY <1>4, <1>5, <1>6, <1>7, <1>8 DEF IInv

\* A buy settles within what was set aside from the input and within the
\* wallet's allowance, in both of its branches.
LEMMA BuyStep ==
    ASSUME IInv, NEW b \in Buyers, NEW u \in UsdtAmounts, NEW m \in MinOuts, buy(b, u, m)
    PROVE  IInv'
<1> DEFINE budget == u - inputFee(u)
           cost(n) == _getCostForTokens(tokensSold, n)
           charged(n) == IF cost(n) < budget THEN cost(n) ELSE budget
<1>0. TypeOK /\ WalletCap
  BY DEF IInv
<1>1. u \in Nat /\ m \in Nat /\ state = "Active"
  BY InputAssumption DEF buy
<1>2. UNCHANGED <<clock, switches, deadline, refundStartTimestamp,
                  totalTokensDeposited, creatorClaimed, donated>>
  BY DEF buy
<1>3. budget \in Nat
  BY <1>1 DEF inputFee, BUY_FEE_BPS, BPS
<1>4. tokensSold \in Nat /\ basePaid[b] \in Nat /\ basePaid[b] <= maxBuyPerWallet
      /\ tokensForCurve \in Nat /\ maxBuyPerWallet \in Nat
  BY <1>0, SplitNat DEF TypeOK, WalletCap
<1>5. PICK n \in affordable(tokensSold, budget) :
         \/ /\ basePaid[b] + charged(n) <= maxBuyPerWallet
            /\ _settle(b, u, n, charged(n), m)
         \/ /\ basePaid[b] + charged(n) > maxBuyPerWallet
            /\ walletAllowance(b) > 0
            /\ \E capped \in affordable(tokensSold, walletAllowance(b)) :
                  _settle(b, u, capped, cost(capped), m)
  BY DEF buy
<1>6. n \in Nat /\ tokensSold + n <= tokensForCurve /\ charged(n) \in Nat /\ charged(n) <= budget
  <2>1. n \in Nat /\ tokensSold + n <= tokensForCurve /\ cost(n) \in Nat /\ cost(n) <= budget
    <3> HIDE DEF budget
    <3> QED BY <1>3, <1>4, AffordableCost
  <2> HIDE DEF cost, budget
  <2> QED BY <1>3, <2>1
<1> HIDE DEF charged
<1>7. CASE basePaid[b] + charged(n) <= maxBuyPerWallet /\ _settle(b, u, n, charged(n), m)
  BY <1>1, <1>2, <1>6, <1>7, SettleStep
<1>8. CASE /\ basePaid[b] + charged(n) > maxBuyPerWallet
           /\ walletAllowance(b) > 0
           /\ \E capped \in affordable(tokensSold, walletAllowance(b)) :
                 _settle(b, u, capped, cost(capped), m)
  <2>1. /\ walletAllowance(b) \in Nat /\ walletAllowance(b) <= budget
        /\ basePaid[b] + walletAllowance(b) = maxBuyPerWallet
    <3> HIDE DEF budget
    <3> QED BY <1>3, <1>4, <1>6, <1>8 DEF walletAllowance
  <2>2. PICK k \in affordable(tokensSold, walletAllowance(b)) : _settle(b, u, k, cost(k), m)
    BY <1>8
  <2>3. /\ k \in Nat /\ tokensSold + k <= tokensForCurve
        /\ cost(k) \in Nat /\ cost(k) <= walletAllowance(b)
    BY <1>4, <2>1, AffordableCost
  <2> HIDE DEF cost
  <2>4. cost(k) <= budget /\ basePaid[b] + cost(k) <= maxBuyPerWallet
    <3> HIDE DEF budget
    <3> QED BY <1>3, <1>4, <2>1, <2>3
  <2> QED
    BY <1>1, <1>2, <2>2, <2>3, <2>4, SettleStep
<1> QED
  BY <1>5, <1>7, <1>8

\* Deposits, activation, withdrawal and cancellation happen before anything
\* is raised, and activation finds the whole deposit in the clone.
LEMMA PendingStep ==
    ASSUME IInv,
           \/ \E a \in Deposits : depositTokens(a)
           \/ \E a \in Deposits : notifyDeposit(a)
           \/ activate
           \/ withdrawPendingTokens
           \/ cancelFromFactory
    PROVE  IInv'
<1>0. TypeOK /\ WalletCap /\ TokensBacked /\ NothingRaisedYet
  BY DEF IInv
<1>1. /\ UNCHANGED <<clock, sale, history, listing, switches, usdtBal,
                     refundStartTimestamp, creatorClaimed, donated>>
      /\ state = "Pending"
  BY DEF depositTokens, notifyDeposit, activate, withdrawPendingTokens, cancelFromFactory,
         DepositFrame
<1>2. totalBaseRaised = 0 /\ tokenBal >= totalTokensDeposited
      /\ tokenBal \in Nat /\ totalTokensDeposited \in 0 .. totalTokensRequired
      /\ now \in Nat /\ deadline \in Nat /\ durationDays \in Nat /\ startTimestamp \in Nat
      /\ totalTokensRequired \in Nat
  BY <1>0, <1>1, LaunchAssumption DEF TokensBacked, NothingRaisedYet, TypeOK
<1>3. _activate => state' = "Active" /\ deadline' \in Nat
  BY <1>2 DEF _activate
<1> DEFINE Opened == \/ state' = "Active" /\ deadline' \in Nat
                        /\ totalTokensDeposited' >= totalTokensRequired
                     \/ state' \in {"Pending", "Cancelled"} /\ deadline' = deadline
           Held == /\ totalTokensDeposited' \in 0 .. totalTokensRequired
                   /\ tokenBal' \in Nat /\ tokenBal' >= totalTokensDeposited'
<1>4. ASSUME NEW d \in Nat, totalTokensDeposited' = d, _tryActivate(d) PROVE Opened
  <2>1. CASE preflight(d)
    BY <1>2, <1>3, <1>4, <2>1 DEF _tryActivate, preflight
  <2>2. CASE ~preflight(d)
    BY <1>1, <1>4, <2>2 DEF _tryActivate
  <2> QED
    BY <2>1, <2>2
<1>5. Opened /\ Held
  <2>1. ASSUME NEW a \in Deposits, depositTokens(a) PROVE Opened /\ Held
    <3>1. a \in Nat
      BY InputAssumption
    <3>2. Held
      BY <1>2, <2>1, <3>1 DEF depositTokens, depositRoom
    <3>3. Opened
      <4> HIDE DEF Opened
      <4> QED BY <1>2, <1>4, <2>1, <3>1, <3>2 DEF depositTokens, depositRoom
    <3> QED
      BY <3>2, <3>3
  <2>2. ASSUME NEW a \in Deposits, notifyDeposit(a) PROVE Opened /\ Held
    <3>1. a \in Nat
      BY InputAssumption
    <3>2. Held
      BY <1>2, <2>2, <3>1 DEF notifyDeposit, depositRoom
    <3>3. Opened
      <4> HIDE DEF Opened
      <4> QED BY <1>2, <1>4, <2>2, <3>1, <3>2 DEF notifyDeposit
    <3> QED
      BY <3>2, <3>3
  <2>3. CASE activate
    BY <1>2, <1>3, <2>3 DEF activate, preflight
  <2>4. CASE withdrawPendingTokens
    BY <1>1, <1>2, <2>4 DEF withdrawPendingTokens
  <2>5. CASE cancelFromFactory
    BY <1>1, <1>2, <2>5 DEF cancelFromFactory
  <2> QED
    BY <2>1, <2>2, <2>3, <2>4, <2>5
<1>6. TypeOK'
  BY <1>0, <1>1, <1>2, <1>5 DEF TypeOK, clock, sale, history, listing, switches, LaunchState
<1>7. EscrowCovers' /\ WalletCap' /\ NothingRaisedYet'
  BY <1>0, <1>1, <1>2, <1>5 DEF EscrowCovers, WalletCap, NothingRaisedYet, sale, history, TypeOK
<1>8. TokensBacked'
  BY <1>0, <1>1, <1>2, <1>5 DEF TokensBacked, sale, TypeOK
<1> QED
  BY <1>6, <1>7, <1>8 DEF IInv

\* The rest of the refund side: resolution, the creator's tokens, the sweep.
LEMMA RefundSideStep ==
    ASSUME IInv, resolveState \/ creatorWithdrawAvailable \/ sweepStrandedUsdt
    PROVE  IInv'
<1>0. TypeOK /\ EscrowCovers /\ WalletCap /\ TokensBacked /\ NothingRaisedYet
  BY DEF IInv
<1>1. UNCHANGED <<now, sale, history, graduationTimestamp, pair, paused, globalPause, exempt,
                  deadline, totalTokensDeposited, creatorClaimed, donated>>
  BY DEF resolveState, creatorWithdrawAvailable, sweepStrandedUsdt, _autoResolve,
         clock, lifecycle, listing, switches
<1>2. WalletCap'
  BY <1>0, <1>1 DEF WalletCap, sale
<1>3. CASE resolveState \/ creatorWithdrawAvailable
  <2>1. /\ state' = effectiveState
        /\ refundStartTimestamp' = IF missedSoftCap THEN now ELSE refundStartTimestamp
        /\ usdtBal' = usdtBal
        /\ \/ tokenBal' = tokenBal
           \/ tokenBal' = 0 /\ state' = "Refunding"
    BY <1>3 DEF resolveState, creatorWithdrawAvailable, _autoResolve, holdings
  <2>2. TypeOK'
    <3>1. state' \in LaunchState /\ refundStartTimestamp' \in Nat /\ tokenBal' \in Nat
      BY <1>0, <2>1 DEF TypeOK, effectiveState, LaunchState
    <3> QED
      BY <1>0, <1>1, <2>1, <3>1 DEF TypeOK, sale, history
  <2>3. EscrowCovers'
    <3>1. CASE missedSoftCap
      BY <1>0, <1>1, <2>1, <3>1 DEF EscrowCovers, missedSoftCap, sale, history
    <3>2. CASE ~missedSoftCap
      BY <1>0, <1>1, <2>1, <3>2
         DEF EscrowCovers, effectiveState, sweepOpens, sweepAnchor, sale, history
    <3> QED
      BY <3>1, <3>2
  <2>4. TokensBacked' /\ NothingRaisedYet'
    BY <1>0, <1>1, <2>1
       DEF TokensBacked, NothingRaisedYet, effectiveState, missedSoftCap, sale
  <2> QED
    BY <1>2, <2>2, <2>3, <2>4 DEF IInv
<1>4. CASE sweepStrandedUsdt
  <2>1. state = "Refunding" /\ now >= sweepOpens /\ usdtBal' = 0
        /\ UNCHANGED <<state, refundStartTimestamp, tokenBal>>
    BY <1>4 DEF sweepStrandedUsdt, lifecycle
  <2>2. TypeOK'
    BY <1>0, <1>1, <2>1 DEF TypeOK, sale, history
  <2>3. sweepOpens \in Nat
    BY <1>0 DEF sweepOpens, sweepAnchor, STRANDED_SWEEP_DELAY, TypeOK
  <2>4. EscrowCovers'
    <3>1. sweepOpens' = sweepOpens /\ now' = now /\ now \in Nat
      BY <1>0, <1>1, <2>1 DEF sweepOpens, sweepAnchor, TypeOK
    <3> QED
      BY <2>1, <2>3, <3>1 DEF EscrowCovers
  <2>5. TokensBacked' /\ NothingRaisedYet'
    BY <2>1 DEF TokensBacked, NothingRaisedYet
  <2> QED
    BY <1>2, <2>2, <2>4, <2>5 DEF IInv
<1> QED
  BY <1>3, <1>4

LEMMA GraduateCallStep ==
    ASSUME IInv, NEW c \in BOOLEAN, graduate(c)
    PROVE  IInv'
<1>0. TypeOK /\ WalletCap /\ TokensBacked
  BY DEF IInv
<1>1. /\ state = "Active" /\ _graduate(totalBaseRaised, tokensSold, usdtBal, tokenBal)
      /\ UNCHANGED <<clock, sale, history, switches, deadline, refundStartTimestamp,
                     totalTokensDeposited, creatorClaimed, donated>>
  BY DEF graduate
<1>2. /\ state' = "Graduated" /\ graduationTimestamp' \in Nat
      /\ pair' \in [usdt : Nat, tokens : Nat]
      /\ usdtBal' = 0 /\ tokenBal' = creatorTotalTokens
  BY <1>0, <1>1, GraduateStep DEF TypeOK, TokensBacked
<1>3. TypeOK'
  BY <1>0, <1>1, <1>2, SplitNat DEF TypeOK, LaunchState, clock, sale, history, switches
<1>4. TokensBacked'
  BY <1>0, <1>1, <1>2, SplitNat DEF TokensBacked, TypeOK
<1> QED
  BY <1>0, <1>1, <1>2, <1>3, <1>4
     DEF IInv, EscrowCovers, WalletCap, NothingRaisedYet, sale

\* A claim never passes the allocation, whatever part of it has vested.
LEMMA ClaimStep ==
    ASSUME IInv, claimCreatorTokens
    PROVE  IInv'
<1> DEFINE elapsed == now - graduationTimestamp
           vestedTime == elapsed - vestingCliff
           claimable == vested(elapsed) - creatorClaimed
<1>0. TypeOK /\ EscrowCovers /\ WalletCap /\ TokensBacked
  BY DEF IInv
<1>1. /\ state = "Graduated" /\ elapsed >= vestingCliff /\ claimable > 0 /\ tokenBal >= claimable
      /\ creatorClaimed' = creatorClaimed + claimable
      /\ tokenBal' = tokenBal - claimable
      /\ UNCHANGED <<clock, sale, history, lifecycle, listing, switches, usdtBal,
                     totalTokensDeposited, donated>>
  BY DEF claimCreatorTokens
<1>2. vestedTime \in Nat /\ vestingDays \in Nat /\ creatorTotalTokens \in Nat
      /\ creatorClaimed \in 0 .. creatorTotalTokens /\ tokenBal \in Nat
  BY <1>0, <1>1, SplitNat, LaunchAssumption DEF TypeOK, vestingCliff
<1>3. vested(elapsed) \in 0 .. creatorTotalTokens
  <2> HIDE DEF elapsed
  <2>1. CASE vestedTime >= vestingDays
    BY <1>2, <2>1 DEF vested
  <2>2. CASE ~(vestedTime >= vestingDays)
    <3>1. vestingDays \in Nat \ {0} /\ vestedTime <= vestingDays
      <4> HIDE DEF vestedTime
      <4> QED BY <1>2, <2>2
    <3>2. (creatorTotalTokens * vestedTime) \div vestingDays \in 0 .. creatorTotalTokens
      <4> HIDE DEF vestedTime
      <4> QED BY <1>2, <3>1, ShareBound
    <3> QED
      BY <2>2, <3>2 DEF vested
  <2> QED
    BY <2>1, <2>2
<1>4. creatorClaimed' \in 0 .. creatorTotalTokens /\ tokenBal' \in Nat
      /\ tokenBal' - (creatorTotalTokens - creatorClaimed') = tokenBal - (creatorTotalTokens - creatorClaimed)
  <2> HIDE DEF elapsed
  <2> QED BY <1>1, <1>2, <1>3
<1>5. TypeOK'
  BY <1>0, <1>1, <1>4 DEF TypeOK, clock, sale, history, lifecycle, listing, switches
<1>6. TokensBacked'
  BY <1>0, <1>1, <1>2, <1>4 DEF TokensBacked, lifecycle
<1>7. EscrowCovers' /\ WalletCap' /\ NothingRaisedYet'
  BY <1>0, <1>1 DEF EscrowCovers, WalletCap, NothingRaisedYet, lifecycle, sale
<1> QED
  BY <1>5, <1>6, <1>7 DEF IInv

\* Time and the environment only let the sweep window open and USDT come in.
LEMMA EnvironmentStep ==
    ASSUME IInv,
           \/ \E p \in BOOLEAN : setPaused(p)
           \/ \E p \in BOOLEAN : setGlobalPause(p)
           \/ \E e \in BOOLEAN : setExempt(e)
           \/ \E a \in Donations : donate(a)
           \/ Tick
    PROVE  IInv'
<1>0. TypeOK /\ EscrowCovers /\ WalletCap /\ TokensBacked /\ NothingRaisedYet
  BY DEF IInv
<1>1. UNCHANGED <<sale, history, lifecycle, listing, tokenBal,
                  totalTokensDeposited, creatorClaimed>>
  BY DEF setPaused, setGlobalPause, setExempt, donate, Tick, Unmoved
<1> DEFINE Moved == \E t, gift, n \in Nat :
                       now' = now + t /\ usdtBal' = usdtBal + gift /\ donated' = donated + n
<1>2. Moved
  <2>1. now \in Nat /\ usdtBal \in Nat /\ donated \in Nat
    BY <1>0 DEF TypeOK
  <2>2. ASSUME NEW a \in Donations, donate(a) PROVE Moved
    <3>1. a \in Nat /\ now' = now /\ usdtBal' = usdtBal + a /\ donated' = donated + 1
      BY <2>2, InputAssumption DEF donate, clock
    <3> QED
      BY <2>1, <3>1
  <2>3. CASE Tick
    <3>1. PICK t \in Times : now' = t /\ t > now
      BY <2>3 DEF Tick
    <3>2. t - now \in Nat /\ now' = now + (t - now)
      BY <2>1, <3>1, InputAssumption
    <3>3. usdtBal' = usdtBal + 0 /\ donated' = donated + 0
      BY <2>1, <2>3 DEF Tick
    <3> QED
      BY <3>2, <3>3
  <2>4. CASE ~(\E a \in Donations : donate(a)) /\ ~Tick
    <3>1. now' = now + 0 /\ usdtBal' = usdtBal + 0 /\ donated' = donated + 0
      BY <2>1, <2>4 DEF setPaused, setGlobalPause, setExempt, clock
    <3> QED
      BY <3>1
  <2> QED
    BY <2>2, <2>3, <2>4
<1>3. /\ paused' \in BOOLEAN /\ globalPause' \in BOOLEAN /\ exempt' \in BOOLEAN
  BY <1>0 DEF setPaused, setGlobalPause, setExempt, donate, Tick, switches, TypeOK
<1>4. TypeOK'
  BY <1>0, <1>1, <1>2, <1>3 DEF TypeOK, sale, history, lifecycle, listing
<1>5. EscrowCovers'
  <2>1. sweepOpens' = sweepOpens /\ sweepOpens \in Nat
    BY <1>0, <1>1 DEF sweepOpens, sweepAnchor, STRANDED_SWEEP_DELAY, lifecycle, TypeOK
  <2>2. /\ state' = state /\ totalPurchases' = totalPurchases
        /\ totalBaseRaised' = totalBaseRaised
    BY <1>1 DEF sale, history, lifecycle
  <2>3. /\ now \in Nat /\ usdtBal \in Nat /\ totalPurchases \in Nat
        /\ totalBaseRaised \in Nat
    BY <1>0 DEF TypeOK
  <2> QED
    BY <1>0, <1>2, <2>1, <2>2, <2>3 DEF EscrowCovers
<1>6. WalletCap' /\ TokensBacked' /\ NothingRaisedYet'
  BY <1>0, <1>1 DEF WalletCap, TokensBacked, NothingRaisedYet, sale, lifecycle
<1> QED
  BY <1>4, <1>5, <1>6 DEF IInv

LEMMA NextIInv == IInv /\ [Next]_vars => IInv'
<1> SUFFICES ASSUME IInv, [Next]_vars PROVE IInv'
  OBVIOUS
<1>1. ASSUME NEW b \in Buyers, NEW u \in UsdtAmounts, NEW m \in MinOuts, buy(b, u, m) PROVE IInv'
  BY <1>1, BuyStep
<1>2. ASSUME NEW c \in BOOLEAN, graduate(c) PROVE IInv'
  BY <1>2, GraduateCallStep
<1>3. ASSUME NEW b \in Buyers, NEW t, refund(b, t) PROVE IInv'
  BY <1>3, RefundStep
<1>4. CASE UNCHANGED vars
  BY <1>4 DEF IInv, TypeOK, EscrowCovers, WalletCap, TokensBacked, NothingRaisedYet,
              sweepOpens, sweepAnchor, vars, clock, sale, history, lifecycle, listing,
              holdings, switches
<1> QED
  BY <1>1, <1>2, <1>3, <1>4, PendingStep, RefundSideStep, ClaimStep, EnvironmentStep DEF Next

\* Every reachable state of every launch satisfies the invariant.
THEOREM LaunchInvariant == Spec => []IInv
<1>1. Init => IInv
  BY InitIInv
<1>2. IInv /\ [Next]_vars => IInv'
  BY NextIInv
<1> QED
  BY <1>1, <1>2, PTL DEF Spec

\* Every variable of a launch keeps its type: in particular no unsigned
\* subtraction of the contract that the model performs goes below zero.
THEOREM LaunchTypeOK == Spec => []TypeOK
<1>1. IInv => TypeOK
  BY DEF IInv
<1> QED
  BY <1>1, LaunchInvariant, PTL

\* Until the sweep window opens, the escrow covers the raise to within one
\* unit per purchase, whatever the curve, the caps and the order of calls.
THEOREM LaunchEscrowCovers == Spec => []EscrowCovers
<1>1. IInv => EscrowCovers
  BY DEF IInv
<1> QED
  BY <1>1, LaunchInvariant, PTL

\* No wallet ever holds more than its share of the hard cap.
THEOREM LaunchWalletCap == Spec => []WalletCap
<1>1. IInv => WalletCap
  BY DEF IInv
<1> QED
  BY <1>1, LaunchInvariant, PTL

\* The clone can always deliver the tokens it owes to buyers, pool and creator.
THEOREM LaunchTokensBacked == Spec => []TokensBacked
<1>1. IInv => TokensBacked
  BY DEF IInv
<1> QED
  BY <1>1, LaunchInvariant, PTL

-----------------------------------------------------------------------------
(* Outcomes.                                                               *)

\* A graduation at totals that deserve it.
Graduates ==
    /\ state' = "Graduated"
    /\ totalBaseRaised' >= softCap \/ tokensSold' >= tokensForCurve
    /\ \E usdt, tokens : _graduate(totalBaseRaised', tokensSold', usdt, tokens)

\* Every way the state or the tokens sold may move.
Outcome ==
    \/ UNCHANGED state /\ tokensSold' <= tokensSold
    \/ state = "Pending" /\ state' \in {"Active", "Cancelled"} /\ tokensSold' = tokensSold
    \/ state = "Active" /\ now < deadline /\ UNCHANGED state
    \/ state = "Active" /\ Graduates /\ (now < deadline \/ tokensSold' = tokensSold)
    \/ /\ state = "Active" /\ state' = "Refunding" /\ now >= deadline
       /\ totalBaseRaised' < softCap /\ tokensSold' <= tokensSold

LEMMA SettleOutcome ==
    ASSUME IInv, NEW b, NEW u, NEW n, NEW base, NEW m, _settle(b, u, n, base, m),
           IInv'
    PROVE  UNCHANGED state \/ Graduates
<1> DEFINE raised == totalBaseRaised + base
           sold == tokensSold + n
<1>1. /\ totalBaseRaised' = raised /\ tokensSold' = sold
      /\ \/ UNCHANGED state
         \/ /\ raised >= hardCap \/ sold >= tokensForCurve
            /\ \E usdt, tokens : _graduate(raised, sold, usdt, tokens)
  BY DEF _settle
<1> HIDE DEF raised, sold
<1>2. CASE UNCHANGED state
  BY <1>2
<1>3. CASE /\ raised >= hardCap \/ sold >= tokensForCurve
           /\ \E usdt, tokens : _graduate(raised, sold, usdt, tokens)
  <2>1. state' = "Graduated"
    BY <1>3 DEF _graduate
  <2>2. \E usdt, tokens : _graduate(totalBaseRaised', tokensSold', usdt, tokens)
    BY <1>1, <1>3
  <2>3. totalBaseRaised' \in Nat
    BY DEF IInv, TypeOK
  <2>4. totalBaseRaised' >= softCap \/ tokensSold' >= tokensForCurve
    BY <1>1, <1>3, <2>3, LaunchAssumption
  <2> QED
    BY <2>1, <2>2, <2>4 DEF Graduates
<1> QED
  BY <1>1, <1>2, <1>3

LEMMA RefundOutcome ==
    ASSUME IInv, NEW b \in Buyers, NEW amount, refund(b, amount)
    PROVE  Outcome
<1>1. /\ tokensBought[b] \in Nat /\ tokensSold \in Nat /\ totalBaseRaised \in Nat
      /\ basePaid[b] \in Nat /\ softCap \in Nat
  BY LaunchAssumption DEF IInv, TypeOK
<1>2. /\ amount \in Nat /\ proRata(basePaid[b], amount, tokensBought[b]) > 0
      /\ totalBaseRaised >= proRata(basePaid[b], amount, tokensBought[b])
      /\ tokensSold' = tokensSold - amount
      /\ totalBaseRaised' = totalBaseRaised - proRata(basePaid[b], amount, tokensBought[b])
      /\ _autoResolve
  BY <1>1 DEF refund
<1>3. tokensSold' <= tokensSold
  BY <1>1, <1>2
<1>4. tokensBought[b] \in Nat \ {0}
  BY <1>1 DEF refund
<1>5. proRata(basePaid[b], amount, tokensBought[b]) \in Nat
  <2>1. basePaid[b] * amount \in Nat
    BY <1>1, <1>2
  <2> QED
    BY <2>1, <1>4, DivNat DEF proRata
<1>6. totalBaseRaised' <= totalBaseRaised /\ totalBaseRaised' \in Nat
  BY <1>1, <1>2, <1>5
<1>7. CASE missedSoftCap
  <2>1. state = "Active" /\ now >= deadline /\ totalBaseRaised < softCap /\ state' = "Refunding"
    BY <1>2, <1>7 DEF missedSoftCap, _autoResolve, effectiveState
  <2>2. totalBaseRaised' < softCap
    BY <2>1, <1>1, <1>6
  <2> QED
    BY <2>1, <2>2, <1>3 DEF Outcome
<1>8. CASE ~missedSoftCap
  BY <1>2, <1>3, <1>8 DEF _autoResolve, effectiveState, Outcome
<1> QED
  BY <1>7, <1>8

LEMMA StepOutcome ==
    ASSUME IInv, [Next]_vars
    PROVE  Outcome
<1>0. IInv' /\ tokensSold \in Nat /\ totalBaseRaised \in Nat
  BY NextIInv DEF IInv, TypeOK
<1>1. ASSUME NEW b \in Buyers, NEW u, NEW m, buy(b, u, m) PROVE Outcome
  <2>1. state = "Active" /\ now < deadline /\ \E n, base : _settle(b, u, n, base, m)
    BY <1>1 DEF buy
  <2>2. UNCHANGED state \/ Graduates
    BY <2>1, <1>0, SettleOutcome
  <2> QED
    BY <2>1, <2>2 DEF Outcome
<1>2. ASSUME NEW c, graduate(c) PROVE Outcome
  <2>1. /\ state = "Active" /\ totalBaseRaised >= softCap /\ UNCHANGED sale
        /\ _graduate(totalBaseRaised, tokensSold, usdtBal, tokenBal)
    BY <1>2 DEF graduate
  <2>2. totalBaseRaised' = totalBaseRaised /\ tokensSold' = tokensSold
    BY <2>1 DEF sale
  <2>3. _graduate(totalBaseRaised', tokensSold', usdtBal, tokenBal) /\ state' = "Graduated"
    <3>1. state' = "Graduated"
      BY <2>1 DEF _graduate
    <3> QED
      BY <2>1, <2>2, <3>1
  <2>4. totalBaseRaised' >= softCap
    BY <2>1, <2>2
  <2>5. Graduates
    BY <2>3, <2>4 DEF Graduates
  <2> QED
    BY <2>1, <2>2, <2>5 DEF Outcome
<1>3. ASSUME NEW b \in Buyers, NEW amount, refund(b, amount) PROVE Outcome
  BY <1>3, RefundOutcome
<1>4. ASSUME resolveState \/ creatorWithdrawAvailable PROVE Outcome
  <2>1. _autoResolve /\ UNCHANGED sale
    BY <1>4 DEF resolveState, creatorWithdrawAvailable
  <2>2. totalBaseRaised' = totalBaseRaised /\ tokensSold' = tokensSold
    BY <2>1 DEF sale
  <2>3. CASE missedSoftCap
    BY <1>0, <2>1, <2>2, <2>3 DEF missedSoftCap, _autoResolve, effectiveState, Outcome
  <2>4. CASE ~missedSoftCap
    BY <1>0, <2>1, <2>2, <2>4 DEF _autoResolve, effectiveState, Outcome
  <2> QED
    BY <2>3, <2>4
<1>5. ASSUME \/ \E a \in Deposits : depositTokens(a) \/ notifyDeposit(a)
             \/ activate \/ withdrawPendingTokens \/ cancelFromFactory
      PROVE  Outcome
  <2>1. state = "Pending" /\ UNCHANGED sale /\ (state' = state \/ state' \in {"Active", "Cancelled"})
    BY <1>5 DEF depositTokens, notifyDeposit, activate, withdrawPendingTokens, cancelFromFactory,
                DepositFrame, _tryActivate, _activate
  <2> QED
    BY <1>0, <2>1 DEF sale, Outcome
<1>6. ASSUME \/ sweepStrandedUsdt \/ claimCreatorTokens \/ Tick
             \/ \E p \in BOOLEAN : setPaused(p) \/ setGlobalPause(p) \/ setExempt(p)
             \/ \E a \in Donations : donate(a)
             \/ UNCHANGED vars
      PROVE  Outcome
  <2>1. UNCHANGED <<sale, lifecycle>>
    BY <1>6 DEF sweepStrandedUsdt, claimCreatorTokens, Tick, setPaused, setGlobalPause, setExempt,
                donate, Unmoved, vars
  <2> QED
    BY <1>0, <2>1 DEF sale, lifecycle, Outcome
<1> QED
  BY <1>1, <1>2, <1>3, <1>4, <1>5, <1>6 DEF Next

\* The pair opens at the curve's price or above.
LEMMA ListingPrice ==
    ASSUME NEW raised \in Nat, NEW sold \in 0 .. tokensForCurve, NEW usdt, NEW tokens,
           _graduate(raised, sold, usdt, tokens)
    PROVE  pair'.usdt * PRECISION >= getCurrentPrice(sold) * pair'.tokens
<1> DEFINE usdtForLP == raised - (raised * GRADUATION_FEE_BPS) \div BPS
           price == getCurrentPrice(sold)
           toLP == lpTokens(raised, sold)
           fair == mulDiv(usdtForLP, PRECISION, price)
           net == toLP - (toLP * GRADUATION_FEE_BPS) \div BPS
<1>1. /\ usdtForLP \in Nat /\ price \in Nat /\ PRECISION \in Nat
      /\ tokensForLP \in Nat /\ toLP \in Nat
  BY LpBound, PriceNat, PrecisionAssumption, SplitNat
<1>2. net \in Nat /\ net <= toLP
  <2> HIDE DEF toLP
  <2> QED
    BY <1>1 DEF GRADUATION_FEE_BPS, BPS
<1>3. pair'.usdt = usdtForLP /\ pair'.tokens = net
  <2>1. pair' = [usdt |-> usdtForLP, tokens |-> net]
    BY DEF _graduate
  <2> HIDE DEF usdtForLP, net
  <2> QED
    BY <2>1
<1>4. toLP = IF price > 0 /\ fair <= tokensForLP THEN fair ELSE tokensForLP
  BY DEF lpTokens
<1>5. price > 0 => fair \in Nat /\ fair * price <= usdtForLP * PRECISION
  <2> DEFINE product == usdtForLP * PRECISION
  <2>1. product \in Nat
    <3> HIDE DEF usdtForLP
    <3> QED
      BY <1>1
  <2>2. fair = product \div price
    BY DEF mulDiv
  <2> HIDE DEF product, price, fair, usdtForLP
  <2>3. price > 0 => fair \in Nat /\ fair * price <= product
    BY <2>1, <2>2, <1>1, DivNat
  <2> QED
    BY <2>3 DEF product
<1> HIDE DEF usdtForLP, price, toLP, fair, net
<1>6. CASE price = 0
  <2>1. usdtForLP * PRECISION \in Nat /\ price * net = 0
    BY <1>1, <1>2, <1>6
  <2> QED
    BY <2>1, <1>3 DEF price
<1>7. CASE price > 0
  <2>1. toLP <= fair
    BY <1>1, <1>4, <1>5, <1>7
  <2>2. net <= fair /\ fair \in Nat
    BY <2>1, <1>1, <1>2, <1>5, <1>7
  <2>3. price * net <= fair * price
    BY <2>2, <1>1, <1>2
  <2>4. price * net \in Nat /\ fair * price \in Nat /\ usdtForLP * PRECISION \in Nat
    BY <2>2, <1>1, <1>2
  <2>5. price * net <= usdtForLP * PRECISION
    BY <2>3, <2>4, <1>5, <1>7
  <2> QED
    BY <2>4, <2>5, <1>3 DEF price
<1> QED
  BY <1>1, <1>6, <1>7

\* Every outcome is justified and final, for every curve, cap and order of calls.
THEOREM LaunchOutcomeJustified == Spec => OutcomeJustified
<1> DEFINE A == /\ state' # state => <<state, state'>> \in
                       {<<"Pending", "Active">>, <<"Pending", "Cancelled">>,
                        <<"Active", "Graduated">>, <<"Active", "Refunding">>}
                /\ state' = "Graduated" /\ state # "Graduated" =>
                       totalBaseRaised' >= softCap \/ tokensSold' >= tokensForCurve
                /\ state' = "Refunding" /\ state # "Refunding" =>
                       now >= deadline /\ totalBaseRaised' < softCap
                /\ tokensSold' > tokensSold => state = "Active" /\ now < deadline
<1>1. ASSUME IInv, [Next]_vars PROVE A
  <2>1. Outcome /\ IInv'
    BY <1>1, StepOutcome, NextIInv
  <2>2. tokensSold \in Nat /\ tokensSold' \in Nat
    BY <1>1, <2>1 DEF IInv, TypeOK
  <2> QED
    BY <2>1, <2>2 DEF Outcome, Graduates
<1>2. IInv /\ [Next]_vars => A
  BY <1>1
<1> QED
  BY <1>2, LaunchInvariant, PTL DEF Spec, OutcomeJustified

\* The pool never opens below the price of the next curve token.
THEOREM LaunchListedAtCurvePrice == Spec => ListedAtCurvePrice
<1> DEFINE A == state = "Active" /\ state' = "Graduated" =>
                   pair'.usdt * PRECISION >= getCurrentPrice(tokensSold') * pair'.tokens
<1>1. ASSUME IInv, [Next]_vars, state = "Active", state' = "Graduated"
      PROVE  pair'.usdt * PRECISION >= getCurrentPrice(tokensSold') * pair'.tokens
  <2>1. Outcome /\ IInv'
    BY <1>1, StepOutcome, NextIInv
  <2>2. Graduates
    BY <1>1, <2>1 DEF Outcome
  <2>3. PICK usdt, tokens : _graduate(totalBaseRaised', tokensSold', usdt, tokens)
    BY <2>2 DEF Graduates
  <2>4. totalBaseRaised' \in Nat /\ tokensSold' \in 0 .. tokensForCurve
    BY <2>1 DEF IInv, TypeOK
  <2> QED
    BY <2>3, <2>4, ListingPrice
<1>2. IInv /\ [Next]_vars => A
  BY <1>1
<1> QED
  BY <1>2, LaunchInvariant, PTL DEF Spec, ListedAtCurvePrice

-----------------------------------------------------------------------------
(* What a step does to the sale and to the entitlements of the buyers.     *)

Bought(b, n, base) ==
    /\ n \in Nat \ {0} /\ base \in Nat
    /\ base = _getCostForTokens(tokensSold, n) /\ totalPurchases' = totalPurchases + 1
    /\ tokensSold' = tokensSold + n /\ totalBaseRaised' = totalBaseRaised + base
    /\ basePaid' = [basePaid EXCEPT ![b] = @ + base]
    /\ grossPaid' = [grossPaid EXCEPT ![b] = @ + (base + buyFee(base))]
    /\ tokensBought' = [tokensBought EXCEPT ![b] = @ + n]

Returned(b, amount) ==
    LET refundBase  == proRata(basePaid[b], amount, tokensBought[b])
        grossRefund == proRata(grossPaid[b], amount, tokensBought[b])
    IN  /\ basePaid[b] > 0 /\ amount \in 1 .. tokensBought[b]
        /\ totalPurchases' = totalPurchases
        /\ tokensSold' = tokensSold - amount
        /\ totalBaseRaised' = totalBaseRaised - refundBase
        /\ basePaid' = [basePaid EXCEPT ![b] = @ - refundBase]
        /\ grossPaid' = [grossPaid EXCEPT ![b] = @ - grossRefund]
        /\ tokensBought' = [tokensBought EXCEPT ![b] = @ - amount]

LEMMA BuyBuys ==
    ASSUME IInv, NEW b \in Buyers, NEW u \in UsdtAmounts, NEW m \in MinOuts, buy(b, u, m)
    PROVE  \E n, base : Bought(b, n, base)
<1> DEFINE budget == u - inputFee(u)
           cost(n) == _getCostForTokens(tokensSold, n)
           charged(n) == IF cost(n) < budget THEN cost(n) ELSE budget
<1>1. u \in Nat \ {0} /\ tokensForCurve \in Nat /\ tokensSold \in 0 .. tokensForCurve
      /\ basePaid[b] \in Nat /\ maxBuyPerWallet \in Nat
  BY InputAssumption, SplitNat DEF IInv, TypeOK
<1>2. budget \in Nat \ {0}
  BY <1>1 DEF inputFee, BUY_FEE_BPS, BPS
<1>3. ASSUME NEW amount \in Nat, NEW n \in affordable(tokensSold, amount)
      PROVE  /\ n \in Nat \ {0} /\ cost(n) \in Nat
             /\ cost(n) <= amount
  <2>1. /\ n \in Nat /\ n >= 1 /\ tokensSold + n <= tokensForCurve /\ cost(n) \in Nat
        /\ cost(n) <= amount
    BY <1>1, AffordableCost
  <2> QED
    BY <2>1
<1>4. ASSUME NEW n \in Nat \ {0}, NEW base \in Nat, base = cost(n),
             _settle(b, u, n, base, m)
      PROVE  Bought(b, n, base)
  BY <1>4 DEF _settle, credited, Bought
<1>5. PICK n \in affordable(tokensSold, budget) :
         \/ _settle(b, u, n, charged(n), m)
         \/ /\ walletAllowance(b) > 0
            /\ \E capped \in affordable(tokensSold, walletAllowance(b)) :
                  _settle(b, u, capped, cost(capped), m)
  BY DEF buy
<1> HIDE DEF cost, budget
<1>6. CASE _settle(b, u, n, charged(n), m)
  <2>1. n \in Nat \ {0} /\ cost(n) \in Nat /\ cost(n) <= budget
    BY <1>2, <1>3
  <2>2. charged(n) = cost(n)
    BY <1>2, <2>1
  <2> HIDE DEF charged
  <2> QED
    BY <1>4, <1>6, <2>1, <2>2
<1>7. CASE /\ walletAllowance(b) > 0
           /\ \E capped \in affordable(tokensSold, walletAllowance(b)) :
                 _settle(b, u, capped, cost(capped), m)
  <2>1. walletAllowance(b) \in Nat
    BY <1>1, <1>7 DEF walletAllowance
  <2>2. PICK k \in affordable(tokensSold, walletAllowance(b)) : _settle(b, u, k, cost(k), m)
    BY <1>7
  <2>3. k \in Nat \ {0} /\ cost(k) \in Nat
    BY <1>3, <2>1
  <2> QED
    BY <1>4, <2>2, <2>3
<1> QED
  BY <1>5, <1>6, <1>7

LEMMA SaleMoves ==
    ASSUME IInv, [Next]_vars
    PROVE  \/ UNCHANGED <<sale, totalPurchases>>
           \/ \E b \in Buyers : \E n, base : Bought(b, n, base)
           \/ \E b \in Buyers : \E amount : Returned(b, amount)
<1>1. ASSUME NEW b \in Buyers, NEW u \in UsdtAmounts, NEW m \in MinOuts, buy(b, u, m)
      PROVE  \E n, base : Bought(b, n, base)
  BY <1>1, BuyBuys
<1>2. ASSUME NEW b \in Buyers, NEW amount, refund(b, amount)
      PROVE  Returned(b, amount)
  BY <1>2 DEF refund, Returned, history
<1>3. ASSUME \/ \E c \in BOOLEAN : graduate(c)
             \/ resolveState \/ creatorWithdrawAvailable
             \/ \E a \in Deposits : depositTokens(a) \/ notifyDeposit(a)
             \/ activate \/ withdrawPendingTokens \/ cancelFromFactory
             \/ sweepStrandedUsdt \/ claimCreatorTokens \/ Tick
             \/ \E p \in BOOLEAN : setPaused(p) \/ setGlobalPause(p) \/ setExempt(p)
             \/ \E a \in Donations : donate(a)
             \/ UNCHANGED vars
      PROVE  UNCHANGED <<sale, totalPurchases>>
  BY <1>3 DEF sale, history, graduate, resolveState, creatorWithdrawAvailable, depositTokens, notifyDeposit,
              activate, withdrawPendingTokens, cancelFromFactory, DepositFrame,
              sweepStrandedUsdt, claimCreatorTokens, Tick, setPaused, setGlobalPause, setExempt,
              donate, Unmoved, vars
<1> QED
  BY <1>1, <1>2, <1>3 DEF Next

\* One wallet's account moves, and the total with it.
LEMMA AccountMoves ==
    ASSUME IsFiniteSet(Buyers), NEW f \in [Buyers -> Int], NEW b \in Buyers, NEW d \in Int
    PROVE  SumFunction([f EXCEPT ![b] = @ + d]) = SumFunction(f) + d
<1> DEFINE g == [f EXCEPT ![b] = @ + d]
<1>1. /\ g \in [Buyers -> Int] /\ g[b] = f[b] + d /\ f[b] \in Int
      /\ \A x \in Buyers : x # b => g[x] = f[x]
  OBVIOUS
<1> HIDE DEF g
<1>2. SumFunction(g) = SumFunction(f) - f[b] + g[b]
  BY <1>1, SumUpdate
<1>3. SumFunction(f) \in Int
  BY SumInt
<1>4. SumFunction(g) = SumFunction(f) + d
  BY <1>1, <1>2, <1>3
<1> QED
  BY <1>4 DEF g

LEMMA LedgerStep ==
    ASSUME IInv, LedgerMatches, [Next]_vars
    PROVE  LedgerMatches'
<1>0. /\ basePaid \in [Buyers -> Nat] /\ grossPaid \in [Buyers -> Nat]
      /\ tokensBought \in [Buyers -> Nat] /\ IsFiniteSet(Buyers)
      /\ basePaid \in [Buyers -> Int] /\ tokensBought \in [Buyers -> Int]
      /\ totalBaseRaised \in Nat /\ tokensSold \in Nat
  BY InputAssumption, SplitNat DEF IInv, TypeOK
<1>1. CASE UNCHANGED <<sale, totalPurchases>>
  BY <1>1 DEF sale, LedgerMatches
<1>2. ASSUME NEW b \in Buyers, NEW n, NEW base, Bought(b, n, base) PROVE LedgerMatches'
  <2>1. n \in Int /\ base \in Int
    BY <1>2 DEF Bought
  <2>2. /\ SumFunction(basePaid') = SumFunction(basePaid) + base
        /\ SumFunction(tokensBought') = SumFunction(tokensBought) + n
    BY <1>0, <1>2, <2>1, AccountMoves DEF Bought
  <2> QED
    BY <1>2, <2>2 DEF Bought, LedgerMatches
<1>3. ASSUME NEW b \in Buyers, NEW amount, Returned(b, amount) PROVE LedgerMatches'
  <2> DEFINE refundBase == proRata(basePaid[b], amount, tokensBought[b])
  <2>1. /\ basePaid[b] \in Nat /\ tokensBought[b] \in Nat \ {0} /\ amount \in Nat
    BY <1>0, <1>3 DEF Returned
  <2>2. refundBase \in Nat
    <3>1. basePaid[b] * amount \in Nat
      BY <2>1
    <3> QED
      BY <2>1, <3>1, DivNat DEF proRata
  <2>3. /\ totalBaseRaised' = totalBaseRaised - refundBase
        /\ tokensSold' = tokensSold - amount
        /\ basePaid' = [basePaid EXCEPT ![b] = @ - refundBase]
        /\ tokensBought' = [tokensBought EXCEPT ![b] = @ - amount]
    BY <1>3 DEF Returned
  <2> HIDE DEF refundBase
  <2>4. /\ basePaid' = [basePaid EXCEPT ![b] = @ + (-refundBase)]
        /\ tokensBought' = [tokensBought EXCEPT ![b] = @ + (-amount)]
        /\ -refundBase \in Int /\ -amount \in Int
    <3>1. /\ basePaid[b] - refundBase = basePaid[b] + (-refundBase)
          /\ tokensBought[b] - amount = tokensBought[b] + (-amount)
          /\ -refundBase \in Int /\ -amount \in Int
      BY <2>1, <2>2
    <3> QED
      BY <2>3, <3>1
  <2>5. /\ SumFunction(basePaid') = SumFunction(basePaid) + (-refundBase)
        /\ SumFunction(tokensBought') = SumFunction(tokensBought) + (-amount)
    BY <1>0, <2>4, AccountMoves
  <2> QED
    BY <1>0, <2>1, <2>2, <2>3, <2>5 DEF LedgerMatches
<1> QED
  BY <1>1, <1>2, <1>3, SaleMoves

\* Nothing paid is left when no token is left to return, and the gross covers
\* the net.
NothingStranded ==
    \A b \in Buyers :
        /\ tokensBought[b] = 0 => basePaid[b] = 0
        /\ basePaid[b] <= grossPaid[b]

LEMMA EntitlementStep ==
    ASSUME IInv, [Next]_vars
    PROVE  /\ NothingStranded => NothingStranded'
           /\ \A x \in Buyers : tokensBought'[x] < tokensBought[x]
                                => (basePaid'[x] = 0 <=> tokensBought'[x] = 0)
<1>0. /\ basePaid \in [Buyers -> Nat] /\ grossPaid \in [Buyers -> Nat]
      /\ tokensBought \in [Buyers -> Nat]
  BY DEF IInv, TypeOK
<1>1. CASE UNCHANGED <<sale, totalPurchases>>
  BY <1>0, <1>1 DEF sale, NothingStranded
<1> DEFINE Whole(x) == /\ tokensBought[x] = 0 => basePaid[x] = 0
                       /\ basePaid[x] <= grossPaid[x]
           Fair(x) == tokensBought'[x] < tokensBought[x]
                        => (basePaid'[x] = 0 <=> tokensBought'[x] = 0)
<1>2. ASSUME NEW b \in Buyers, NEW n, NEW base, Bought(b, n, base), NEW x \in Buyers
      PROVE  (Whole(x) => Whole(x)') /\ Fair(x)
  <2>1. CASE x # b
    <3>1. /\ basePaid'[x] = basePaid[x] /\ grossPaid'[x] = grossPaid[x]
          /\ tokensBought'[x] = tokensBought[x]
      BY <1>0, <1>2, <2>1 DEF Bought
    <3> QED
      BY <1>0, <3>1
  <2>2. CASE x = b
    <3>1. /\ n \in Nat \ {0} /\ base \in Nat
          /\ basePaid[b] \in Nat /\ grossPaid[b] \in Nat /\ tokensBought[b] \in Nat
      BY <1>0, <1>2 DEF Bought
    <3>2. buyFee(base) \in Nat
      BY <3>1 DEF buyFee, BUY_FEE_BPS, BPS
    <3>3. /\ basePaid'[b] = basePaid[b] + base
          /\ grossPaid'[b] = grossPaid[b] + (base + buyFee(base))
          /\ tokensBought'[b] = tokensBought[b] + n
      BY <1>0, <1>2 DEF Bought
    <3> QED
      BY <2>2, <3>1, <3>2, <3>3
  <2> QED
    BY <2>1, <2>2
<1>3. ASSUME NEW b \in Buyers, NEW amount, Returned(b, amount), NEW x \in Buyers
      PROVE  (Whole(x) => Whole(x)') /\ Fair(x)
  <2>1. CASE x # b
    <3>1. /\ basePaid'[x] = basePaid[x] /\ grossPaid'[x] = grossPaid[x]
          /\ tokensBought'[x] = tokensBought[x]
      BY <1>0, <1>3, <2>1 DEF Returned
    <3> QED
      BY <1>0, <3>1
  <2>2. CASE x = b
    <3> DEFINE base == basePaid[b]
               gross == grossPaid[b]
               held == tokensBought[b]
               refundBase == (base * amount) \div held
               grossRefund == (gross * amount) \div held
    <3>1. /\ base \in Nat /\ gross \in Nat /\ held \in Nat \ {0} /\ base > 0
          /\ amount \in Nat /\ amount <= held
      BY <1>0, <1>3 DEF Returned
    <3>2. /\ basePaid'[b] = base - refundBase
          /\ grossPaid'[b] = gross - grossRefund
          /\ tokensBought'[b] = held - amount
      BY <1>0, <1>3 DEF Returned, proRata
    <3> HIDE DEF base, gross, held
    <3>3. refundBase \in 0 .. base /\ grossRefund \in 0 .. gross
      BY <3>1, ShareBound
    <3>4. /\ amount = held => refundBase = base
          /\ amount < held => refundBase < base
      BY <3>1, ShareWhole
    <3>5. base <= gross => base - refundBase <= gross - grossRefund
      BY <3>1, ShareRest
    <3> HIDE DEF refundBase, grossRefund
    <3>6. /\ tokensBought'[b] = 0 => basePaid'[b] = 0
          /\ basePaid'[b] = 0 => tokensBought'[b] = 0
          /\ base <= gross => basePaid'[b] <= grossPaid'[b]
      BY <3>1, <3>2, <3>3, <3>4, <3>5
    <3> QED
      BY <2>2, <3>6 DEF base, gross
  <2> QED
    BY <2>1, <2>2
<1>4. ASSUME \A x \in Buyers : (Whole(x) => Whole(x)') /\ Fair(x)
      PROVE  /\ NothingStranded => NothingStranded'
             /\ \A x \in Buyers : Fair(x)
  BY <1>4 DEF NothingStranded
<1> HIDE DEF Whole
<1> QED
  BY <1>1, <1>2, <1>3, <1>4, SaleMoves

\* The totals that decide caps, price and sell-out are the sums of what the
\* buyers are entitled to, for any number of buyers.
THEOREM LaunchLedgerMatches == Spec => []LedgerMatches
<1>1. Init => LedgerMatches
  <2> SUFFICES ASSUME Init PROVE LedgerMatches
    OBVIOUS
  <2>1. /\ basePaid \in [Buyers -> Int] /\ \A b \in Buyers : basePaid[b] = 0
        /\ tokensBought \in [Buyers -> Int] /\ \A b \in Buyers : tokensBought[b] = 0
    BY DEF Init
  <2>2. SumFunction(basePaid) = 0 /\ SumFunction(tokensBought) = 0
    BY <2>1, InputAssumption, SumZero
  <2> QED
    BY <2>2 DEF Init, LedgerMatches
<1>2. IInv /\ LedgerMatches /\ [Next]_vars => LedgerMatches'
  BY LedgerStep
<1> QED
  BY <1>1, <1>2, LaunchInvariant, PTL DEF Spec

\* Whatever the curve charges, a wallet that has returned all its tokens has
\* been paid all it is owed, and its gross never falls below its net.
THEOREM LaunchNothingStranded == Spec => []NothingStranded
<1>1. Init => NothingStranded
  BY DEF Init, NothingStranded
<1>2. IInv /\ NothingStranded /\ [Next]_vars => NothingStranded'
  BY EntitlementStep
<1> QED
  BY <1>1, <1>2, LaunchInvariant, PTL DEF Spec

\* Whatever the curve charges, a refund leaves a wallet with a claim exactly as
\* long as it leaves it with tokens, and never with a claim and no token: the
\* share that is paid back rounds down, and below the whole for a part.
THEOREM LaunchEntitlementsWhole == Spec => EntitlementsWhole
<1> DEFINE A == \A b \in Buyers :
                  /\ tokensBought'[b] < tokensBought[b]
                       => (basePaid'[b] = 0 <=> tokensBought'[b] = 0)
                  /\ tokensBought'[b] = 0 => basePaid'[b] = 0
                  /\ basePaid'[b] <= grossPaid'[b]
<1>1. IInv /\ NothingStranded /\ [Next]_vars => A
  BY EntitlementStep DEF NothingStranded
<1> QED
  BY <1>1, LaunchInvariant, LaunchNothingStranded, PTL DEF Spec, EntitlementsWhole
-----------------------------------------------------------------------------
(* A linear curve is paid for.  Refunds return a share of what a buyer paid, *)
(* so the invariant speaks of shares: if each buyer b were to keep w[b] / D  *)
(* of his tokens and of his payment, the payments kept would still pay for   *)
(* the tokens kept, but for two units per purchase.                          *)

\* What one native unit is worth in the unit of the curve's integral, doubled.
Unit == 2 * PRECISION * baseScale

\* The price of the span from sold to sold + amount, before any rounding.
exact(sold, amount) ==
    curveParam1 * (amount * (2 * sold + amount)) + 2 * (curveParam2 * amount)

kept(f, w) == SumFunction([b \in Buyers |-> f[b] * w[b]])

Pays(paid, tokens, D) ==
    (paid * D + 2 * totalPurchases * (D * D)) * Unit
        >= curveParam1 * (tokens * tokens) + 2 * (curveParam2 * (tokens * D))

SharesBacked ==
    \A D \in Nat \ {0} : \A w \in [Buyers -> 0 .. D] :
        Pays(kept(basePaid, w), kept(tokensBought, w), D)

\* The order of two numbers is that of their multiples.
LEMMA MulOrder ==
    ASSUME NEW x \in Int, NEW y \in Int, NEW k \in Nat, x <= y
    PROVE  k * x <= k * y
OBVIOUS

\* The rounded cost is at most the exact price, and at most two units less.
LEMMA LinearCost ==
    ASSUME curveType = "Linear", NEW s \in Nat, NEW n \in Nat
    PROVE  /\ _getCostForTokens(s, n) \in Nat /\ Unit \in Nat \ {0} /\ exact(s, n) \in Nat
           /\ _getCostForTokens(s, n) * Unit <= exact(s, n)
           /\ exact(s, n) <= (_getCostForTokens(s, n) + 2) * Unit
<1> DEFINE area  == n * (2 * s + n)
           d     == 2 * PRECISION
           slope == curveParam1 * area
           level == curveParam2 * n
           q1    == slope \div d
           q2    == level \div PRECISION
           c     == q1 + q2
           cost  == c \div baseScale
<1>1. /\ PRECISION \in Nat \ {0} /\ baseScale \in Nat \ {0} /\ d \in Nat \ {0}
      /\ curveParam1 \in Nat /\ curveParam2 \in Nat
  BY PrecisionAssumption, LaunchAssumption
<1>2. area \in Nat /\ slope \in Nat /\ level \in Nat
  <2>1. area \in Nat
    OBVIOUS
  <2> HIDE DEF area
  <2> QED
    BY <1>1, <2>1
<1>3. cost = _getCostForTokens(s, n) /\ exact(s, n) = slope + 2 * level
  BY DEF _getCostForTokens, _curveCost, curveCostAt, linearCost, mulDiv, exact
<1> HIDE DEF slope, level, d
<1>4. q1 \in Nat /\ q1 * d <= slope /\ slope < q1 * d + d
  BY <1>1, <1>2, DivNat
<1>5. q2 \in Nat /\ q2 * PRECISION <= level /\ level < q2 * PRECISION + PRECISION
  BY <1>1, <1>2, DivNat
<1> HIDE DEF q1, q2
<1>6. c \in Nat
  BY <1>4, <1>5
<1>7. d * c <= slope + 2 * level /\ slope + 2 * level <= d * (c + 2)
  <2>1. d * c = q1 * d + 2 * (q2 * PRECISION) /\ d * (c + 2) = d * c + 2 * d /\ d = 2 * PRECISION
    BY <1>1, <1>4, <1>5 DEF d
  <2>2. /\ q1 * d \in Nat /\ q2 * PRECISION \in Nat
    BY <1>1, <1>4, <1>5
  <2> QED
    BY <1>1, <1>2, <1>4, <1>5, <2>1, <2>2
<1> HIDE DEF c
<1>8. cost \in Nat /\ cost * baseScale <= c /\ c < cost * baseScale + baseScale
  BY <1>1, <1>6, DivNat
<1> HIDE DEF cost
<1>9. Unit = d * baseScale /\ Unit \in Nat \ {0}
  <2>1. d * baseScale # 0
    BY <1>1
  <2> QED
    BY <1>1, <2>1 DEF Unit, d
<1>10. cost * Unit <= slope + 2 * level
  <2>1. d * (cost * baseScale) <= d * c
    BY <1>1, <1>6, <1>8, MulOrder
  <2>2. d * (cost * baseScale) = cost * Unit
    BY <1>1, <1>8, <1>9
  <2> QED
    BY <1>1, <1>2, <1>6, <1>7, <1>8, <1>9, <2>1, <2>2
<1>11. slope + 2 * level <= (cost + 2) * Unit
  <2>1. c + 2 <= (cost + 2) * baseScale
    <3>1. (cost + 2) * baseScale = cost * baseScale + 2 * baseScale
      BY <1>1, <1>8
    <3>2. cost * baseScale \in Nat
      BY <1>1, <1>8
    <3> QED
      BY <1>1, <1>6, <1>8, <3>1, <3>2
  <2>2. d * (c + 2) <= d * ((cost + 2) * baseScale)
    BY <1>1, <1>6, <1>8, <2>1, MulOrder
  <2>3. d * ((cost + 2) * baseScale) = (cost + 2) * Unit
    BY <1>1, <1>8, <1>9
  <2>4. d * (c + 2) \in Int /\ (cost + 2) * Unit \in Int
    BY <1>1, <1>6, <1>8, <1>9
  <2> QED
    BY <1>2, <1>7, <2>2, <2>3, <2>4
<1> QED
  BY <1>2, <1>3, <1>8, <1>9, <1>10, <1>11

\* A purchase of n tokens at s for c, of which a share v / D is kept: the tokens
\* kept before were at most s, so those added are no dearer than when bought.
LEMMA PurchasePays ==
    ASSUME NEW p \in Nat, NEW q \in Nat, NEW U \in Nat, NEW D \in Nat \ {0}, NEW v \in 0 .. D,
           NEW V \in Nat, NEW W \in Nat, NEW s \in Nat, NEW n \in Nat, NEW c \in Nat,
           NEW m \in Nat, W <= s * D,
           (V * D + 2 * m * (D * D)) * U >= p * (W * W) + 2 * (q * (W * D)),
           p * (n * (2 * s + n)) + 2 * (q * n) <= (c + 2) * U
    PROVE  ((V + c * v) * D + 2 * (m + 1) * (D * D)) * U
             >= p * ((W + n * v) * (W + n * v)) + 2 * (q * ((W + n * v) * D))
<1> DEFINE k     == D * v
           Old   == (V * D + 2 * m * (D * D)) * U
           Spent == k * ((c + 2) * U)
           Worth == k * (p * (n * (2 * s + n)) + 2 * (q * n))
<1>1. k \in Nat /\ k <= D * D
  BY MulOrder
<1>2. Worth <= Spent
  <2>1. p * (n * (2 * s + n)) + 2 * (q * n) \in Int /\ (c + 2) * U \in Int
    OBVIOUS
  <2> HIDE DEF k
  <2> QED
    BY <1>1, <2>1, MulOrder
<1>3. ((V + c * v) * D + 2 * (m + 1) * (D * D)) * U >= Old + Spent
  <2>1. ((V + c * v) * D + 2 * (m + 1) * (D * D)) * U
          = Old + (k * (c * U) + U * (2 * (D * D)))
    OBVIOUS
  <2>2. Spent = k * (c * U) + U * (2 * k)
    OBVIOUS
  <2>3. U * (2 * k) <= U * (2 * (D * D))
    <3>1. 2 * k \in Int /\ 2 * (D * D) \in Int /\ 2 * k <= 2 * (D * D)
      <4> HIDE DEF k
      <4>1. D * D \in Int
        OBVIOUS
      <4> QED
        BY <1>1, <4>1
    <3> HIDE DEF k
    <3> QED
      BY <3>1, MulOrder
  <2>4. k * (c * U) \in Int /\ U * (2 * k) \in Int /\ U * (2 * (D * D)) \in Int /\ Old \in Int
    OBVIOUS
  <2> HIDE DEF Old, Spent, k
  <2> QED
    BY <2>1, <2>2, <2>3, <2>4
<1>4. p * ((W + n * v) * (W + n * v)) + 2 * (q * ((W + n * v) * D))
        <= (p * (W * W) + 2 * (q * (W * D))) + Worth
  <2> DEFINE t == n * v
  <2>1. t \in Nat /\ t * W <= t * (s * D) /\ t * t <= t * (n * D)
    <3>1. t \in Nat /\ s * D \in Int /\ n * D \in Int /\ t <= n * D
      BY MulOrder
    <3> HIDE DEF t
    <3> QED
      BY <3>1, MulOrder
  <2>2. p * ((W + t) * (W + t)) = p * (W * W) + p * (2 * (t * W) + t * t)
    <3>1. t \in Int
      BY <2>1
    <3> HIDE DEF t
    <3> QED
      BY <3>1
  <2>3. p * (2 * (t * W) + t * t) <= p * (2 * (t * (s * D)) + t * (n * D))
    <3>1. /\ t * W \in Int /\ t * (s * D) \in Int /\ t * t \in Int /\ t * (n * D) \in Int
      OBVIOUS
    <3>2. 2 * (t * W) + t * t <= 2 * (t * (s * D)) + t * (n * D)
      <4> HIDE DEF t
      <4> QED
        BY <2>1, <3>1
    <3>3. /\ 2 * (t * W) + t * t \in Int /\ 2 * (t * (s * D)) + t * (n * D) \in Int
      OBVIOUS
    <3> HIDE DEF t
    <3> QED
      BY <3>2, <3>3, MulOrder
  <2>4. Worth = p * (2 * (t * (s * D)) + t * (n * D)) + 2 * (q * (t * D))
    OBVIOUS
  <2>5. 2 * (q * ((W + t) * D)) = 2 * (q * (W * D)) + 2 * (q * (t * D))
    <3>1. t \in Int
      BY <2>1
    <3> HIDE DEF t
    <3> QED
      BY <3>1
  <2>6. /\ p * (W * W) \in Int /\ p * (2 * (t * W) + t * t) \in Int
        /\ p * (2 * (t * (s * D)) + t * (n * D)) \in Int
        /\ 2 * (q * (W * D)) \in Int /\ 2 * (q * (t * D)) \in Int
    OBVIOUS
  <2> HIDE DEF Worth
  <2>7. p * ((W + t) * (W + t)) + 2 * (q * ((W + t) * D))
          <= (p * (W * W) + 2 * (q * (W * D))) + Worth
    <3> HIDE DEF t
    <3> QED
      BY <2>2, <2>3, <2>4, <2>5, <2>6
  <2> QED
    BY <2>7
<1>5. /\ Old \in Int /\ Spent \in Int /\ Worth \in Int
      /\ p * (W * W) + 2 * (q * (W * D)) \in Int
      /\ ((V + c * v) * D + 2 * (m + 1) * (D * D)) * U \in Int
      /\ p * ((W + n * v) * (W + n * v)) + 2 * (q * ((W + n * v) * D)) \in Int
  OBVIOUS
<1>6. Old >= p * (W * W) + 2 * (q * (W * D))
  OBVIOUS
<1> HIDE DEF Old, Spent, Worth
<1> QED
  BY <1>2, <1>3, <1>4, <1>5, <1>6

\* Shares of shares: what pays for t times the tokens with t times the payment
\* at a t-th of the share pays for the tokens.
LEMMA SharePays ==
    ASSUME NEW p \in Nat, NEW q \in Nat, NEW U \in Nat, NEW D \in Nat \ {0}, NEW t \in Nat \ {0},
           NEW V \in Nat, NEW W \in Nat, NEW X \in Nat, NEW m \in Nat, X <= t * V,
           (X * (D * t) + 2 * m * ((D * t) * (D * t))) * U
             >= p * ((t * W) * (t * W)) + 2 * (q * ((t * W) * (D * t)))
    PROVE  (V * D + 2 * m * (D * D)) * U >= p * (W * W) + 2 * (q * (W * D))
<1> DEFINE lhs == (V * D + 2 * m * (D * D)) * U
           rhs == p * (W * W) + 2 * (q * (W * D))
           big == (X * (D * t) + 2 * m * ((D * t) * (D * t))) * U
<1>1. p * ((t * W) * (t * W)) + 2 * (q * ((t * W) * (D * t))) = (rhs * t) * t
  OBVIOUS
<1>2. big <= (lhs * t) * t
  <2>1. (D * t * U) * X <= (D * t * U) * (t * V)
    <3>1. D * t * U \in Nat /\ t * V \in Int
      OBVIOUS
    <3> QED
      BY <3>1, MulOrder
  <2>2. big = (D * t * U) * X + (2 * m * ((D * t) * (D * t))) * U
    OBVIOUS
  <2>3. (lhs * t) * t = (D * t * U) * (t * V) + (2 * m * ((D * t) * (D * t))) * U
    OBVIOUS
  <2>4. /\ (D * t * U) * X \in Int /\ (D * t * U) * (t * V) \in Int
        /\ (2 * m * ((D * t) * (D * t))) * U \in Int
    OBVIOUS
  <2> HIDE DEF big, lhs
  <2> QED
    BY <2>1, <2>2, <2>3, <2>4
<1>3. lhs \in Int /\ rhs \in Int /\ big \in Int /\ big >= (rhs * t) * t
  BY <1>1
<1> HIDE DEF lhs, rhs, big
<1>4. lhs * t \in Int /\ rhs * t \in Int /\ (lhs * t) * t \in Int /\ (rhs * t) * t \in Int
  BY <1>3
<1>5. SUFFICES ASSUME lhs < rhs PROVE FALSE
  BY <1>3 DEF lhs, rhs
<1>6. lhs * t < rhs * t
  BY <1>3, <1>5
<1>7. (lhs * t) * t < (rhs * t) * t
  <2> DEFINE y == lhs * t
             z == rhs * t
  <2>1. y \in Int /\ z \in Int /\ y < z
    BY <1>4, <1>6
  <2> HIDE DEF y, z
  <2>2. y * t < z * t
    BY <2>1
  <2> QED
    BY <2>2 DEF y, z
<1> QED
  BY <1>2, <1>3, <1>4, <1>7

\* What is kept of the amounts is at most that share of their sum.
LEMMA KeptAtMost ==
    ASSUME NEW f \in [Buyers -> Nat], NEW D \in Nat, NEW w \in [Buyers -> 0 .. D]
    PROVE  kept(f, w) \in Nat /\ kept(f, w) <= SumFunction(f) * D
<1> DEFINE g == [b \in Buyers |-> f[b] * w[b]]
<1>1. g \in [Buyers -> Nat] /\ IsFiniteSet(Buyers)
  BY InputAssumption
<1>2. \A b \in Buyers : g[b] * 1 <= D * f[b]
  <2>1. ASSUME NEW b \in Buyers PROVE f[b] * w[b] <= D * f[b] /\ f[b] * w[b] \in Int
    <3>1. f[b] \in Nat /\ w[b] \in Nat /\ w[b] <= D
      OBVIOUS
    <3> QED
      BY <3>1, MulOrder
  <2> QED
    BY <2>1
<1> HIDE DEF g
<1>3. g \in [Buyers -> Int] /\ f \in [Buyers -> Int]
  BY <1>1
<1>4. SumFunction(g) * 1 <= D * SumFunction(f)
  BY <1>1, <1>2, <1>3, SumScaled
<1>5. SumFunction(g) \in Nat /\ SumFunction(f) \in Nat
  BY <1>1, SumNat
<1>6. D * SumFunction(f) = SumFunction(f) * D /\ D * SumFunction(f) \in Int
  BY <1>5
<1> QED
  BY <1>4, <1>5, <1>6 DEF kept, g

LEMMA KeptMoves ==
    ASSUME NEW f \in [Buyers -> Nat], NEW g \in [Buyers -> Nat], NEW w \in [Buyers -> Nat],
           NEW b \in Buyers, NEW d \in Int, g[b] = f[b] + d,
           \A x \in Buyers : x # b => g[x] = f[x]
    PROVE  kept(g, w) = kept(f, w) + d * w[b]
<1> DEFINE F == [x \in Buyers |-> f[x] * w[x]]
           G == [x \in Buyers |-> g[x] * w[x]]
<1>1. /\ F \in [Buyers -> Int] /\ G \in [Buyers -> Int] /\ IsFiniteSet(Buyers)
      /\ \A x \in Buyers : x # b => G[x] = F[x]
  BY InputAssumption
<1>2. G[b] = F[b] + d * w[b] /\ F[b] \in Int /\ d * w[b] \in Int
  <2>1. g[b] = f[b] + d /\ f[b] \in Nat /\ w[b] \in Nat
    OBVIOUS
  <2> QED
    BY <2>1
<1> HIDE DEF F, G
<1>3. SumFunction(G) = SumFunction(F) - F[b] + G[b]
  BY <1>1, SumUpdate
<1>5. SumFunction(F) \in Int
  BY <1>1, SumInt
<1>4. SumFunction(G) = SumFunction(F) + d * w[b]
  BY <1>2, <1>3, <1>5
<1> QED
  BY <1>4 DEF kept, F, G

\* A purchase pays for its tokens at every share.
LEMMA BoughtPays ==
    ASSUME IInv, LedgerMatches, SharesBacked, curveType = "Linear",
           basePaid' \in [Buyers -> Nat], tokensBought' \in [Buyers -> Nat],
           NEW b \in Buyers, NEW n, NEW base, Bought(b, n, base)
    PROVE  SharesBacked'
<1>1. /\ basePaid \in [Buyers -> Nat] /\ tokensBought \in [Buyers -> Nat]
      /\ tokensSold \in Nat /\ totalPurchases \in Nat
      /\ curveParam1 \in Nat /\ curveParam2 \in Nat
  BY LaunchAssumption, SplitNat DEF IInv, TypeOK
<1>2. /\ n \in Nat /\ base \in Nat /\ base = _getCostForTokens(tokensSold, n)
      /\ basePaid' = [basePaid EXCEPT ![b] = @ + base]
      /\ tokensBought' = [tokensBought EXCEPT ![b] = @ + n]
      /\ totalPurchases' = totalPurchases + 1
  BY DEF Bought
<1>3. exact(tokensSold, n) <= (base + 2) * Unit /\ Unit \in Nat
  BY <1>1, <1>2, LinearCost
<1>4. SUFFICES ASSUME NEW D \in Nat \ {0}, NEW w \in [Buyers -> 0 .. D]
               PROVE  Pays(kept(basePaid, w), kept(tokensBought, w), D)'
  BY DEF SharesBacked, kept, Pays, Unit
<1> DEFINE V == kept(basePaid, w)
           W == kept(tokensBought, w)
<1>5. w \in [Buyers -> Nat] /\ w[b] \in 0 .. D
  OBVIOUS
<1>6. /\ kept(basePaid', w) = V + base * w[b]
      /\ kept(tokensBought', w) = W + n * w[b]
  <2>1. n \in Int /\ base \in Int
    BY <1>2
  <2>2. kept(basePaid', w) = kept(basePaid, w) + base * w[b]
    <3>1. basePaid'[b] = basePaid[b] + base /\ \A x \in Buyers : x # b => basePaid'[x] = basePaid[x]
      BY <1>1, <1>2
    <3>2. basePaid \in [Buyers -> Nat]
      BY <1>1
    <3> QED
      BY <1>5, <2>1, <3>1, <3>2, KeptMoves
  <2>3. kept(tokensBought', w) = kept(tokensBought, w) + n * w[b]
    <3>1. /\ tokensBought'[b] = tokensBought[b] + n
          /\ \A x \in Buyers : x # b => tokensBought'[x] = tokensBought[x]
      BY <1>1, <1>2
    <3>2. tokensBought \in [Buyers -> Nat]
      BY <1>1
    <3> QED
      BY <1>5, <2>1, <3>1, <3>2, KeptMoves
  <2> QED
    BY <2>2, <2>3
<1>7. V \in Nat /\ W \in Nat /\ W <= tokensSold * D
  BY <1>1, KeptAtMost DEF LedgerMatches
<1>8. Pays(V, W, D)
  BY DEF SharesBacked
<1>9. /\ kept(basePaid, w)' = kept(basePaid', w)
      /\ kept(tokensBought, w)' = kept(tokensBought', w)
  BY DEF kept
<1> HIDE DEF V, W
<1>10. ((V + base * w[b]) * D + 2 * (totalPurchases + 1) * (D * D)) * Unit
         >= curveParam1 * ((W + n * w[b]) * (W + n * w[b]))
              + 2 * (curveParam2 * ((W + n * w[b]) * D))
  BY <1>1, <1>2, <1>3, <1>5, <1>7, <1>8, PurchasePays DEF Pays, exact
<1> QED
  BY <1>2, <1>6, <1>9, <1>10 DEF Pays, Unit

\* What is left after a partial refund pays at every share: the rest of the
\* payment is at least the rest of the tokens' share of it.
LEMMA ReturnedPays ==
    ASSUME IInv, SharesBacked,
           basePaid' \in [Buyers -> Nat], tokensBought' \in [Buyers -> Nat],
           NEW b \in Buyers, NEW amount, Returned(b, amount)
    PROVE  SharesBacked'
<1> DEFINE t == tokensBought[b]
           paid == basePaid[b]
           r == (paid * amount) \div t
<1>1. /\ basePaid \in [Buyers -> Nat] /\ tokensBought \in [Buyers -> Nat]
      /\ totalPurchases \in Nat
      /\ curveParam1 \in Nat /\ curveParam2 \in Nat /\ Unit \in Nat
  BY LaunchAssumption, PrecisionAssumption DEF IInv, TypeOK, Unit
<1>2. /\ t \in Nat \ {0} /\ paid \in Nat /\ amount \in Nat /\ amount <= t
  BY <1>1 DEF Returned
<1>3. /\ basePaid' = [basePaid EXCEPT ![b] = paid - r]
      /\ tokensBought' = [tokensBought EXCEPT ![b] = t - amount]
      /\ totalPurchases' = totalPurchases
  BY <1>1 DEF Returned, proRata
<1>4. paid - r \in Nat /\ paid * (t - amount) <= t * (paid - r)
  <2>1. r \in 0 .. paid
    BY <1>2, ShareBound
  <2>2. paid * amount \in Nat
    BY <1>2
  <2>3. r * t <= paid * amount
    <3> DEFINE x == paid * amount
    <3>1. x \in Nat
      BY <2>2
    <3> HIDE DEF x, t
    <3>2. (x \div t) * t <= x
      BY <1>2, <3>1, DivNat
    <3> QED
      BY <3>2 DEF x
  <2> HIDE DEF r, t, paid
  <2>4. /\ paid * (t - amount) = paid * t - paid * amount
        /\ t * (paid - r) = paid * t - r * t
        /\ paid * t \in Int /\ r * t \in Int
    BY <1>2, <2>1
  <2>5. paid - r \in Nat
    BY <1>2, <2>1
  <2>6. paid * (t - amount) <= t * (paid - r)
    BY <2>2, <2>3, <2>4
  <2> QED
    BY <2>5, <2>6
<1>5. SUFFICES ASSUME NEW D \in Nat \ {0}, NEW w \in [Buyers -> 0 .. D]
               PROVE  Pays(kept(basePaid, w), kept(tokensBought, w), D)'
  BY DEF SharesBacked, kept, Pays, Unit
<1> DEFINE old == [x \in Buyers |-> IF x = b THEN w[b] * (t - amount) ELSE w[x] * t]
           V == kept(basePaid', w)
           W == kept(tokensBought', w)
           X == kept(basePaid, old)
           Y == kept(tokensBought, old)
<1>6. D * t \in Nat \ {0} /\ old \in [Buyers -> 0 .. D * t] /\ w \in [Buyers -> Nat]
  <2> HIDE DEF t
  <2>1. D * t \in Nat \ {0}
    BY <1>2
  <2>2. ASSUME NEW x \in Buyers PROVE old[x] \in 0 .. D * t
    <3>1. w[x] \in Nat /\ w[b] \in Nat /\ w[x] <= D /\ w[b] <= D /\ t - amount \in Nat /\ t - amount <= t
      BY <1>2
    <3>2. t * w[x] <= t * D /\ t * w[b] <= t * D /\ w[b] * (t - amount) <= w[b] * t
      BY <1>2, <3>1, MulOrder
    <3>3. w[x] * t \in Nat /\ w[b] * (t - amount) \in Nat /\ w[b] * t \in Nat
      BY <1>2, <3>1
    <3> QED
      BY <1>2, <3>1, <3>2, <3>3
  <2> QED
    BY <2>1, <2>2
<1>7. Pays(X, Y, D * t)
  BY <1>6 DEF SharesBacked
<1>8. /\ V \in Nat /\ W \in Nat /\ X \in Nat /\ Y \in Nat
  BY <1>1, <1>2, <1>6, KeptAtMost
<1> DEFINE f == [x \in Buyers |-> basePaid[x] * old[x]]
           g == [x \in Buyers |-> basePaid'[x] * w[x]]
           h == [x \in Buyers |-> tokensBought[x] * old[x]]
           l == [x \in Buyers |-> tokensBought'[x] * w[x]]
<1>9. ASSUME NEW x \in Buyers
      PROVE  /\ f[x] * 1 <= t * g[x] /\ h[x] * 1 <= t * l[x] /\ l[x] * t <= 1 * h[x]
             /\ f[x] \in Int /\ g[x] \in Int /\ h[x] \in Int /\ l[x] \in Int
  <2>1. CASE x = b
    <3>1. /\ f[x] = paid * (w[b] * (t - amount)) /\ g[x] = (paid - r) * w[b]
          /\ h[x] = t * (w[b] * (t - amount)) /\ l[x] = (t - amount) * w[b]
      BY <1>1, <1>3, <2>1
    <3>2. w[b] \in Nat
      BY <1>6
    <3> DEFINE z == paid - r
               y == t - amount
    <3>3. z \in Nat /\ y \in Nat /\ paid * y <= t * z
      BY <1>2, <1>4
    <3> HIDE DEF t, paid, z, y, f, g, h, l
    <3>4. w[b] * (paid * y) <= w[b] * (t * z)
      <4>1. paid * y \in Int /\ t * z \in Int
        BY <1>2, <3>3
      <4> QED
        BY <3>2, <3>3, <4>1, MulOrder
    <3>5. /\ f[x] = paid * (w[b] * y) /\ g[x] = z * w[b]
          /\ h[x] = t * (w[b] * y) /\ l[x] = y * w[b]
      BY <3>1 DEF z, y
    <3> QED
      BY <1>2, <3>2, <3>3, <3>4, <3>5
  <2>2. CASE x # b
    <3>1. /\ f[x] = basePaid[x] * (w[x] * t) /\ g[x] = basePaid[x] * w[x]
          /\ h[x] = tokensBought[x] * (w[x] * t) /\ l[x] = tokensBought[x] * w[x]
          /\ basePaid[x] \in Nat /\ tokensBought[x] \in Nat /\ w[x] \in Nat
      BY <1>1, <1>3, <1>6, <2>2
    <3> HIDE DEF t, f, g, h, l
    <3> QED
      BY <1>2, <3>1
  <2> QED
    BY <2>1, <2>2
<1>10. /\ f \in [Buyers -> Int] /\ g \in [Buyers -> Int]
       /\ h \in [Buyers -> Int] /\ l \in [Buyers -> Int]
  BY <1>9
<1> HIDE DEF f, g, h, l
<1>11. X <= t * V /\ Y = t * W
  <2>1. /\ SumFunction(f) * 1 <= t * SumFunction(g)
        /\ SumFunction(h) * 1 <= t * SumFunction(l)
        /\ SumFunction(l) * t <= 1 * SumFunction(h)
    <3>1. IsFiniteSet(Buyers) /\ t \in Int /\ 1 \in Int
      BY <1>2, InputAssumption
    <3>2. \A x \in Buyers : f[x] * 1 <= t * g[x]
      BY <1>9
    <3>3. \A x \in Buyers : h[x] * 1 <= t * l[x]
      BY <1>9
    <3>4. \A x \in Buyers : l[x] * t <= 1 * h[x]
      BY <1>9
    <3> HIDE DEF t
    <3>5. SumFunction(f) * 1 <= t * SumFunction(g)
      BY <1>10, <3>1, <3>2, SumScaled
    <3>6. SumFunction(h) * 1 <= t * SumFunction(l)
      BY <1>10, <3>1, <3>3, SumScaled
    <3>7. SumFunction(l) * t <= 1 * SumFunction(h)
      BY <1>10, <3>1, <3>4, SumScaled
    <3> QED
      BY <3>5, <3>6, <3>7
  <2>2. /\ X = SumFunction(f) /\ V = SumFunction(g) /\ Y = SumFunction(h) /\ W = SumFunction(l)
    BY DEF kept, f, g, h, l
  <2> HIDE DEF X, V, Y, W, t
  <2>3. X * 1 = X /\ Y * 1 = Y /\ 1 * Y = Y /\ W * t = t * W /\ t * W \in Int /\ t * V \in Int
    BY <1>2, <1>8
  <2> QED
    BY <1>8, <2>1, <2>2, <2>3
<1>12. Pays(V, W, D)
  <2> HIDE DEF X, V, Y, W, t, old
  <2>1. (X * (D * t) + 2 * totalPurchases * ((D * t) * (D * t))) * Unit
          >= curveParam1 * ((t * W) * (t * W)) + 2 * (curveParam2 * ((t * W) * (D * t)))
    BY <1>7, <1>11 DEF Pays
  <2> QED
    BY <1>1, <1>2, <1>8, <1>11, <2>1, SharePays DEF Pays
<1>13. kept(basePaid, w)' = V /\ kept(tokensBought, w)' = W
  BY DEF kept
<1> HIDE DEF V, W
<1> QED
  BY <1>3, <1>12, <1>13 DEF Pays, Unit

LEMMA SharesStep ==
    ASSUME IInv, LedgerMatches, curveType = "Linear", SharesBacked, [Next]_vars, IInv'
    PROVE  SharesBacked'
<1>0. basePaid' \in [Buyers -> Nat] /\ tokensBought' \in [Buyers -> Nat]
  BY DEF IInv, TypeOK
<1>1. CASE UNCHANGED <<sale, totalPurchases>>
  BY <1>1 DEF sale, SharesBacked, Pays, kept, Unit
<1> QED
  BY <1>0, <1>1, SaleMoves, BoughtPays, ReturnedPays

\* Refunds of any size in any order leave a linear curve paid for by those who
\* stay, for any number of buyers and any slope, intercept and unit.
THEOREM LaunchCurveBacked == Spec => []CurveBacked
<1> DEFINE Inv == IInv /\ LedgerMatches /\ (curveType = "Linear" => SharesBacked)
<1>1. Init => (curveType = "Linear" => SharesBacked)
  <2> SUFFICES ASSUME Init, NEW D \in Nat \ {0}, NEW w \in [Buyers -> 0 .. D]
               PROVE  Pays(kept(basePaid, w), kept(tokensBought, w), D)
    BY DEF SharesBacked
  <2>1. /\ basePaid = [x \in Buyers |-> 0] /\ tokensBought = [x \in Buyers |-> 0]
        /\ totalPurchases = 0
    BY DEF Init
  <2> DEFINE z == [x \in Buyers |-> 0 * w[x]]
  <2>2. z \in [Buyers -> Int] /\ \A x \in Buyers : z[x] = 0
    OBVIOUS
  <2> HIDE DEF z
  <2>3. SumFunction(z) = 0
    BY <2>2, InputAssumption, SumZero
  <2>4. kept(basePaid, w) = SumFunction(z) /\ kept(tokensBought, w) = SumFunction(z)
    BY <2>1 DEF kept, z
  <2>5. /\ curveParam1 \in Nat /\ curveParam2 \in Nat /\ Unit \in Nat
    BY LaunchAssumption, PrecisionAssumption DEF Unit
  <2> QED
    BY <2>1, <2>3, <2>4, <2>5 DEF Pays
<1>2. IInv /\ LedgerMatches /\ (curveType = "Linear" => SharesBacked) /\ [Next]_vars /\ IInv'
        => (curveType = "Linear" => SharesBacked)'
  BY SharesStep
<1>3. IInv /\ LedgerMatches /\ (curveType = "Linear" => SharesBacked) => CurveBacked
  <2> SUFFICES ASSUME IInv, LedgerMatches, SharesBacked, curveType = "Linear"
               PROVE  totalBaseRaised + 2 * totalPurchases >= _getCostForTokens(0, tokensSold)
    BY DEF CurveBacked
  <2> DEFINE w == [x \in Buyers |-> 1]
             c == _getCostForTokens(0, tokensSold)
  <2>1. /\ tokensSold \in Nat /\ totalBaseRaised \in Nat /\ totalPurchases \in Nat
        /\ basePaid \in [Buyers -> Nat] /\ tokensBought \in [Buyers -> Nat]
        /\ curveParam1 \in Nat /\ curveParam2 \in Nat
    BY LaunchAssumption, SplitNat DEF IInv, TypeOK
  <2>2. Pays(kept(basePaid, w), kept(tokensBought, w), 1)
    BY DEF SharesBacked
  <2>3. kept(basePaid, w) = totalBaseRaised /\ kept(tokensBought, w) = tokensSold
    <3>1. /\ [x \in Buyers |-> basePaid[x] * w[x]] = basePaid
          /\ [x \in Buyers |-> tokensBought[x] * w[x]] = tokensBought
      BY <2>1
    <3> QED
      BY <3>1 DEF kept, LedgerMatches
  <2>4. c \in Nat /\ Unit \in Nat \ {0} /\ c * Unit <= exact(0, tokensSold)
    BY <2>1, LinearCost
  <2>5. exact(0, tokensSold)
          = curveParam1 * (tokensSold * tokensSold) + 2 * (curveParam2 * (tokensSold * 1))
    BY <2>1 DEF exact
  <2>6. (totalBaseRaised * 1 + 2 * totalPurchases * (1 * 1)) * Unit >= exact(0, tokensSold)
    BY <2>2, <2>3, <2>5 DEF Pays
  <2> HIDE DEF c
  <2> DEFINE paid == totalBaseRaised + 2 * totalPurchases
  <2>7. paid * Unit >= exact(0, tokensSold) /\ paid \in Nat
    BY <2>1, <2>4, <2>6
  <2>8. exact(0, tokensSold) \in Int
    BY <2>1 DEF exact
  <2> HIDE DEF paid
  <2>9. ~ (paid < c)
    <3>1. SUFFICES ASSUME paid < c PROVE FALSE
      OBVIOUS
    <3>2. paid * Unit < c * Unit
      BY <2>4, <2>7, <3>1
    <3>3. paid * Unit \in Int /\ c * Unit \in Int
      BY <2>4, <2>7
    <3> QED
      BY <2>4, <2>7, <2>8, <3>2, <3>3
  <2> QED
    BY <2>4, <2>7, <2>9 DEF paid, c
<1> QED
  BY <1>1, <1>2, <1>3, LaunchInvariant, LaunchLedgerMatches, PTL DEF Spec
=============================================================================
