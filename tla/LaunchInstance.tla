--------------------------- MODULE LaunchInstance ---------------------------
(***************************************************************************)
(* One bonding-curve launch (LaunchInstance.sol), from its clone being     *)
(* initialised to its graduation, its refunds or its cancellation.  Each   *)
(* external function is an action; a revert is the absence of a step.      *)
(*                                                                         *)
(* Time is counted in days.  USDT amounts are integers of USDT's native    *)
(* unit.  The factory's two pauses, the token's exemptions and USDT sent   *)
(* to the clone by anybody are the environment.                            *)
(*                                                                         *)
(* A definition Foo_Slip beside a definition Foo is a plausible slip in    *)
(* it, used only to show that the properties notice.                       *)
(***************************************************************************)
EXTENDS BondingCurve, Functions

CONSTANTS
    Buyers,                  \* the wallets that buy
    totalTokensRequired,     \* launch tokens the creator must deposit
    curveType, curveParam1, curveParam2,
    baseScale,               \* 10^(18 - USDT decimals)
    minSoftCap,              \* 10 USDT in native units
    softCap, hardCap,
    durationDays, startTimestamp,
    maxBuyBps, minBuyUsdt,
    creatorAllocationBps, vestingDays,
    Deposits,                \* token amounts the creator or the router deposits
    UsdtAmounts,             \* USDT a buyer brings, directly or out of a swap
    MinOuts,                 \* slippage floors a buyer asks for
    RefundSizes,             \* token amounts of a partial refund
    Donations,               \* USDT sent to the clone outside of any call
    Times,                   \* the block timestamps that are told apart
    MaxPurchases,            \* bound on the purchase history
    MaxDonations             \* bound on the donations

BPS == 10000
BUY_FEE_BPS == 100
GRADUATION_FEE_BPS == 100
STRANDED_SWEEP_DELAY == 1825

\* The checks of initialize(), and the shape of the enumerated inputs.
ASSUME LaunchAssumption ==
    /\ curveType \in CurveTypes
    /\ curveParam1 \in Nat /\ curveParam2 \in Nat
    /\ (curveParam1 # 0) \/ (curveType = "Linear" /\ curveParam2 # 0)
    /\ totalTokensRequired \in Nat \ {0}
    /\ baseScale \in Nat \ {0}
    /\ minSoftCap \in Nat \ {0}
    /\ softCap \in Nat /\ hardCap \in Nat /\ minSoftCap <= softCap /\ softCap <= hardCap
    /\ durationDays \in 7 .. 90
    /\ startTimestamp \in Nat
    /\ maxBuyBps \in 50 .. 500
    /\ creatorAllocationBps \in 0 .. 500
    /\ vestingDays \in {0, 30, 60, 90}
    /\ creatorAllocationBps # 0 => vestingDays # 0
    /\ minBuyUsdt \in Nat \ {0}
    /\ minBuyUsdt <= softCap /\ minBuyUsdt <= (hardCap * maxBuyBps) \div BPS

ASSUME InputAssumption ==
    /\ IsFiniteSet(Buyers)
    /\ Deposits \subseteq Nat \ {0} /\ UsdtAmounts \subseteq Nat \ {0}
    /\ MinOuts \subseteq Nat /\ RefundSizes \subseteq Nat \ {0}
    /\ Donations \subseteq Nat \ {0} /\ Times \subseteq Nat
    /\ MaxPurchases \in Nat /\ MaxDonations \in Nat

tokensForCurve == (totalTokensRequired * 7000) \div BPS
creatorTotalTokens == (totalTokensRequired * creatorAllocationBps) \div BPS
tokensForLP == totalTokensRequired - tokensForCurve - creatorTotalTokens
maxBuyPerWallet == (hardCap * maxBuyBps) \div BPS
vestingCliff == IF vestingDays > 0 THEN 7 ELSE 0

LaunchState == {"Pending", "Active", "Graduated", "Refunding", "Cancelled"}

VARIABLES
    now,                     \* block.timestamp
    state, deadline, paused,
    tokensSold, totalBaseRaised, totalBuyFeesCollected, totalTokensDeposited,
    basePaid, grossPaid, tokensBought,
    totalPurchases,          \* length of the purchase history
    creatorClaimed, graduationTimestamp, refundStartTimestamp,
    usdtBal, tokenBal,       \* what the clone holds
    pair,                    \* the DEX reserves seeded at graduation
    globalPause,             \* the factory's kill switch
    exempt,                  \* the token exempts and authorises the clone
    donated                  \* donations so far

clock == <<now>>
sale == <<tokensSold, totalBaseRaised, basePaid, grossPaid, tokensBought>>
history == <<totalBuyFeesCollected, totalPurchases>>
lifecycle == <<state, deadline, refundStartTimestamp>>
listing == <<graduationTimestamp, pair>>
holdings == <<usdtBal, tokenBal>>
switches == <<paused, globalPause, exempt>>
vars == <<clock, sale, history, lifecycle, listing, holdings, switches,
          totalTokensDeposited, creatorClaimed, donated>>

TypeOK ==
    /\ now \in Nat /\ state \in LaunchState /\ deadline \in Nat
    /\ paused \in BOOLEAN /\ globalPause \in BOOLEAN /\ exempt \in BOOLEAN
    /\ tokensSold \in 0 .. tokensForCurve
    /\ totalBaseRaised \in Nat /\ totalBuyFeesCollected \in Nat
    /\ totalTokensDeposited \in 0 .. totalTokensRequired
    /\ basePaid \in [Buyers -> Nat] /\ grossPaid \in [Buyers -> Nat]
    /\ tokensBought \in [Buyers -> Nat]
    /\ totalPurchases \in Nat /\ creatorClaimed \in 0 .. creatorTotalTokens
    /\ graduationTimestamp \in Nat /\ refundStartTimestamp \in Nat
    /\ usdtBal \in Nat /\ tokenBal \in Nat
    /\ pair \in [usdt : Nat, tokens : Nat]
    /\ donated \in Nat

Init ==
    /\ now = 0 /\ state = "Pending" /\ deadline = 0
    /\ paused = FALSE /\ globalPause = FALSE /\ exempt \in BOOLEAN
    /\ tokensSold = 0 /\ totalBaseRaised = 0 /\ totalBuyFeesCollected = 0
    /\ totalTokensDeposited = 0
    /\ basePaid = [b \in Buyers |-> 0] /\ grossPaid = [b \in Buyers |-> 0]
    /\ tokensBought = [b \in Buyers |-> 0]
    /\ totalPurchases = 0 /\ creatorClaimed = 0
    /\ graduationTimestamp = 0 /\ refundStartTimestamp = 0
    /\ usdtBal = 0 /\ tokenBal = 0
    /\ pair = [usdt |-> 0, tokens |-> 0]
    /\ donated = 0

-----------------------------------------------------------------------------
(* Deposit, activation, cancellation.                                      *)

\* Room left for tokens under the required deposit.
depositRoom == totalTokensRequired - totalTokensDeposited

\* preflight() with the deposit it is about to see.
preflight(deposited) == deposited >= totalTokensRequired /\ exempt

\* _activate(): the sale window starts at the start timestamp or now.
_activate ==
    /\ state' = "Active"
    /\ deadline' = (IF startTimestamp > now THEN startTimestamp ELSE now) + durationDays

_tryActivate(deposited) ==
    IF preflight(deposited) THEN _activate ELSE UNCHANGED <<state, deadline>>

\* What a deposit in Pending leaves alone.
DepositFrame ==
    UNCHANGED <<clock, sale, history, listing, switches, usdtBal,
                refundStartTimestamp, creatorClaimed, donated>>

depositTokens(amount) ==
    LET toDeposit == IF amount > depositRoom THEN depositRoom ELSE amount
    IN  /\ state = "Pending"
        /\ totalTokensDeposited' = totalTokensDeposited + toDeposit
        /\ tokenBal' = tokenBal + toDeposit
        /\ _tryActivate(totalTokensDeposited + toDeposit)
        /\ DepositFrame

\* The router has just sent `amount` tokens to the clone and tells it so
\* through the factory, in one transaction.
notifyDeposit(amount) ==
    /\ state = "Pending"
    /\ amount <= depositRoom
    /\ totalTokensDeposited' = totalTokensDeposited + amount
    /\ tokenBal' = tokenBal + amount
    /\ tokenBal' >= totalTokensDeposited'
    /\ _tryActivate(totalTokensDeposited + amount)
    /\ DepositFrame

activate ==
    /\ state = "Pending"
    /\ preflight(totalTokensDeposited)
    /\ _activate
    /\ UNCHANGED <<totalTokensDeposited, tokenBal>>
    /\ DepositFrame

withdrawPendingTokens ==
    /\ state = "Pending"
    /\ totalTokensDeposited > 0
    /\ totalTokensDeposited' = 0
    /\ tokenBal' = tokenBal - totalTokensDeposited
    /\ UNCHANGED <<state, deadline>>
    /\ DepositFrame

cancelFromFactory ==
    /\ state = "Pending"
    /\ state' = "Cancelled"
    /\ totalTokensDeposited' = 0
    /\ tokenBal' = tokenBal - totalTokensDeposited
    /\ UNCHANGED deadline
    /\ DepositFrame

-----------------------------------------------------------------------------
(* The curve, at a given number of tokens already sold.                    *)

_curveCost(sold, amount) == curveCostAt(sold, amount, curveType, curveParam1, curveParam2)

_getCostForTokens_FromZero(sold, amount) == _curveCost(0, amount) \div baseScale
_getCostForTokens(sold, amount) == _curveCost(sold, amount) \div baseScale

\* The amounts a budget pays for.
affordable(sold, budget) ==
    {n \in 1 .. (tokensForCurve - sold) : _curveCost(sold, n) <= budget * baseScale}

\* _getTokensForBase(): bisection that remembers the last affordable probe,
\* 0 when there is none.  It stops on a midpoint of 0, so it may miss 1.
_getTokensForBase(sold, budget) ==
    LET best[low \in 0 .. tokensForCurve + 1, high \in 0 .. tokensForCurve] ==
            LET mid == (low + high) \div 2
            IN  IF low > high \/ mid = 0 THEN 0
                ELSE IF _curveCost(sold, mid) > budget * baseScale THEN best[low, mid - 1]
                ELSE IF best[mid + 1, high] = 0 THEN mid ELSE best[mid + 1, high]
    IN  best[0, tokensForCurve - sold]

\* getCurrentPrice(): USDT for PRECISION token units, the next ones or, when
\* the curve is sold out, the last ones; normalised when there are fewer.
getCurrentPrice(sold) ==
    LET remaining == tokensForCurve - sold
        amount == IF remaining < PRECISION THEN remaining ELSE PRECISION
        cost == _getCostForTokens(sold, amount)
    IN  IF remaining > 0 THEN IF amount < PRECISION THEN mulDiv(cost, PRECISION, amount) ELSE cost
        ELSE IF sold >= PRECISION THEN _getCostForTokens(sold - PRECISION, PRECISION)
        ELSE IF sold > 0 THEN mulDiv(_getCostForTokens(0, sold), PRECISION, sold)
        ELSE 0

-----------------------------------------------------------------------------
(* Graduation.                                                             *)

\* Launch tokens leaving for the pair, platform's token fee included.
lpTokens_All(raised, sold) == tokensForLP
lpTokens(raised, sold) ==
    LET usdtForLP == raised - (raised * GRADUATION_FEE_BPS) \div BPS
        price == getCurrentPrice(sold)
        fair == mulDiv(usdtForLP, PRECISION, price)
    IN  IF price > 0 /\ fair <= tokensForLP THEN fair ELSE tokensForLP

\* Tokens the clone keeps back from the burn: the creator's allocation.
tokenReserved_None == 0
tokenReserved == creatorTotalTokens

\* _graduate() with the totals, the USDT and the tokens the clone then has:
\* fees to the platform, both sides to the pair, leftover USDT to the
\* platform, unreserved tokens burned.  It reverts when the USDT on hand
\* does not cover the fee and the pair's side, that is totalBaseRaised.
_graduate(raised, sold, usdt, tokens) ==
    LET usdtForLP == raised - (raised * GRADUATION_FEE_BPS) \div BPS
        toLP == lpTokens(raised, sold)
        left == tokens - toLP
    IN  /\ usdt >= raised
        /\ tokens >= toLP
        /\ state' = "Graduated"
        /\ graduationTimestamp' = now
        /\ pair' = [usdt |-> usdtForLP, tokens |-> toLP - (toLP * GRADUATION_FEE_BPS) \div BPS]
        /\ usdtBal' = 0
        /\ tokenBal' = IF left > tokenReserved THEN tokenReserved ELSE left

\* graduate(): the creator may call it early, anybody once the hard cap is
\* met, the curve sold out or the deadline passed.
graduate(byCreator) ==
    /\ state = "Active"
    /\ ~paused /\ ~globalPause
    /\ totalBaseRaised >= softCap
    /\ \/ byCreator
       \/ totalBaseRaised >= hardCap
       \/ tokensSold >= tokensForCurve
       \/ now >= deadline
    /\ _graduate(totalBaseRaised, tokensSold, usdtBal, tokenBal)
    /\ UNCHANGED <<clock, sale, history, switches, deadline, refundStartTimestamp,
                   totalTokensDeposited, creatorClaimed, donated>>

-----------------------------------------------------------------------------
(* Buying.                                                                 *)

\* The fee taken off what the buyer brings, and the fee charged on what the
\* purchase then costs.
inputFee(usdtAmount) == (usdtAmount * BUY_FEE_BPS) \div BPS

buyFee_RoundedUp(base) == 1 + (base * BUY_FEE_BPS) \div (BPS - BUY_FEE_BPS)
buyFee(base) == (base * BUY_FEE_BPS) \div (BPS - BUY_FEE_BPS)

\* Allowance left to wallet b.
walletAllowance_Fresh(b) == maxBuyPerWallet
walletAllowance(b) == maxBuyPerWallet - basePaid[b]

\* A buyer's account f with x more on it.
credited_Overwritten(f, b, x) == [f EXCEPT ![b] = x]
credited(f, b, x) == [f EXCEPT ![b] = @ + x]

\* The second half of _processBuy(): return the excess, pay the fee, book
\* the purchase, hand over the tokens, graduate at the hard cap or sell-out.
\* The fee leaves the clone in full whether the Affiliate contract pulls a
\* part of it, takes nothing, or fails; pulling more reverts the buy.
_settle(b, usdtAmount, tokensOut, base, minTokensOut) ==
    LET fee == buyFee(base)
        totalSpent == base + fee
        excess == IF usdtAmount > totalSpent THEN usdtAmount - totalSpent ELSE 0
        onHand == usdtBal + usdtAmount - excess
        raised == totalBaseRaised + base
        sold == tokensSold + tokensOut
    IN  /\ tokensOut >= minTokensOut
        /\ onHand >= fee
        /\ tokenBal >= tokensOut
        /\ tokensSold' = sold
        /\ totalBaseRaised' = raised
        /\ totalBuyFeesCollected' = totalBuyFeesCollected + fee
        /\ basePaid' = credited(basePaid, b, base)
        /\ grossPaid' = credited(grossPaid, b, totalSpent)
        /\ tokensBought' = credited(tokensBought, b, tokensOut)
        /\ totalPurchases' = totalPurchases + 1
        /\ IF raised >= hardCap \/ sold >= tokensForCurve
           THEN _graduate(raised, sold, onHand - fee, tokenBal - tokensOut)
           ELSE /\ usdtBal' = onHand - fee
                /\ tokenBal' = tokenBal - tokensOut
                /\ UNCHANGED <<state, listing>>

\* buy(): _buyWithRef() and _processBuy().  usdtAmount is what reached the
\* clone, whether the buyer paid in USDT, in another token or in native coin.
\* Before the deadline _autoResolve() does nothing.
buy(b, usdtAmount, minTokensOut) ==
    LET budget == usdtAmount - inputFee(usdtAmount)
        cost(n) == _getCostForTokens(tokensSold, n)
        charged(n) == IF cost(n) < budget THEN cost(n) ELSE budget
    IN  /\ totalPurchases < MaxPurchases
        /\ ~paused /\ ~globalPause
        /\ state = "Active"
        /\ now >= startTimestamp /\ now < deadline
        /\ usdtAmount >= minBuyUsdt
        /\ \E n \in affordable(tokensSold, budget) :
               /\ n = _getTokensForBase(tokensSold, budget)
               /\ \/ /\ basePaid[b] + charged(n) <= maxBuyPerWallet
                     /\ _settle(b, usdtAmount, n, charged(n), minTokensOut)
                  \/ /\ basePaid[b] + charged(n) > maxBuyPerWallet
                     /\ walletAllowance(b) > 0
                     /\ \E capped \in affordable(tokensSold, walletAllowance(b)) :
                           /\ capped = _getTokensForBase(tokensSold, walletAllowance(b))
                           /\ _settle(b, usdtAmount, capped, cost(capped), minTokensOut)
        /\ UNCHANGED <<clock, switches, deadline, refundStartTimestamp,
                       totalTokensDeposited, creatorClaimed, donated>>

-----------------------------------------------------------------------------
(* Refunds.                                                                *)

missedSoftCap_AnyTime == state = "Active" /\ totalBaseRaised < softCap
missedSoftCap == state = "Active" /\ now >= deadline /\ totalBaseRaised < softCap

effectiveState == IF missedSoftCap THEN "Refunding" ELSE state

_autoResolve ==
    /\ state' = effectiveState
    /\ refundStartTimestamp' = IF missedSoftCap THEN now ELSE refundStartTimestamp
    /\ UNCHANGED deadline

resolveState ==
    /\ _autoResolve
    /\ UNCHANGED <<clock, sale, history, listing, holdings, switches,
                   totalTokensDeposited, creatorClaimed, donated>>

\* When refund() does not revert with NotRefunding.
refundOpen == effectiveState = "Refunding" \/ paused

\* The share of `paid` that returning `amount` of `bought` tokens gives back.
proRata_DivideFirst(paid, amount, bought) == (paid \div bought) * amount
proRata(paid, amount, bought) == (paid * amount) \div bought

\* refund(): USDT out, launch tokens in.  The buyer may have got the tokens
\* back from anywhere, so it may always hold them.
refund(b, amount) ==
    LET refundBase == proRata(basePaid[b], amount, tokensBought[b])
        grossRefund == proRata(grossPaid[b], amount, tokensBought[b])
    IN  /\ refundOpen
        /\ basePaid[b] > 0
        /\ amount \in 1 .. tokensBought[b]
        /\ refundBase > 0
        /\ tokensSold >= amount /\ totalBaseRaised >= refundBase
        /\ usdtBal >= refundBase
        /\ _autoResolve
        /\ tokensSold' = tokensSold - amount
        /\ totalBaseRaised' = totalBaseRaised - refundBase
        /\ basePaid' = [basePaid EXCEPT ![b] = @ - refundBase]
        /\ grossPaid' = [grossPaid EXCEPT ![b] = @ - grossRefund]
        /\ tokensBought' = [tokensBought EXCEPT ![b] = @ - amount]
        /\ tokenBal' = tokenBal + amount
        /\ usdtBal' = usdtBal - refundBase
        /\ UNCHANGED <<clock, history, listing, switches,
                       totalTokensDeposited, creatorClaimed, donated>>

creatorWithdrawAvailable ==
    /\ effectiveState = "Refunding"
    /\ tokenBal > 0
    /\ _autoResolve
    /\ tokenBal' = 0
    /\ UNCHANGED <<clock, sale, history, listing, switches, usdtBal,
                   totalTokensDeposited, creatorClaimed, donated>>

sweepAnchor == IF deadline > refundStartTimestamp THEN deadline ELSE refundStartTimestamp

\* The day the platform may take what abandoned refunds left behind.
sweepOpens == sweepAnchor + STRANDED_SWEEP_DELAY

sweepStrandedUsdt ==
    /\ state = "Refunding"
    /\ now >= sweepOpens
    /\ usdtBal > 0
    /\ usdtBal' = 0
    /\ UNCHANGED <<clock, sale, history, lifecycle, listing, switches, tokenBal,
                   totalTokensDeposited, creatorClaimed, donated>>

-----------------------------------------------------------------------------
(* Creator vesting.                                                        *)

\* Allocation vested `elapsed` days after graduation, past the cliff.
vested(elapsed) ==
    LET vestedTime == elapsed - vestingCliff
    IN  IF vestedTime >= vestingDays THEN creatorTotalTokens
        ELSE (creatorTotalTokens * vestedTime) \div vestingDays

claimCreatorTokens ==
    LET elapsed == now - graduationTimestamp
        claimable == vested(elapsed) - creatorClaimed
    IN  /\ state = "Graduated"
        /\ creatorTotalTokens > 0
        /\ elapsed >= vestingCliff
        /\ claimable > 0
        /\ tokenBal >= claimable
        /\ creatorClaimed' = creatorClaimed + claimable
        /\ tokenBal' = tokenBal - claimable
        /\ UNCHANGED <<clock, sale, history, lifecycle, listing, switches, usdtBal,
                       totalTokensDeposited, donated>>

-----------------------------------------------------------------------------
(* The environment: factory owner, token owner, block time, donors.        *)

Unmoved == UNCHANGED <<sale, history, lifecycle, listing, tokenBal,
                       totalTokensDeposited, creatorClaimed>>

setPaused(p) ==
    /\ paused' = p
    /\ Unmoved /\ UNCHANGED <<clock, globalPause, exempt, usdtBal, donated>>

setGlobalPause(p) ==
    /\ globalPause' = p
    /\ Unmoved /\ UNCHANGED <<clock, paused, exempt, usdtBal, donated>>

\* The token's owner changes the clone's exemptions; only preflight() reads them.
setExempt(e) ==
    /\ state = "Pending"
    /\ exempt' = e
    /\ Unmoved /\ UNCHANGED <<clock, paused, globalPause, usdtBal, donated>>

donate(amount) ==
    /\ donated < MaxDonations
    /\ donated' = donated + 1
    /\ usdtBal' = usdtBal + amount
    /\ Unmoved /\ UNCHANGED <<clock, switches>>

Tick ==
    /\ now' \in {t \in Times : t > now}
    /\ Unmoved /\ UNCHANGED <<switches, usdtBal, donated>>

Next ==
    \/ \E a \in Deposits : depositTokens(a)
    \/ \E a \in Deposits : notifyDeposit(a)
    \/ activate
    \/ withdrawPendingTokens
    \/ cancelFromFactory
    \/ \E b \in Buyers, u \in UsdtAmounts, m \in MinOuts : buy(b, u, m)
    \/ \E c \in BOOLEAN : graduate(c)
    \/ resolveState
    \/ \E b \in Buyers, t \in RefundSizes : refund(b, t)
    \/ \E b \in Buyers : refund(b, tokensBought[b])
    \/ creatorWithdrawAvailable
    \/ sweepStrandedUsdt
    \/ claimCreatorTokens
    \/ \E p \in BOOLEAN : setPaused(p)
    \/ \E p \in BOOLEAN : setGlobalPause(p)
    \/ \E e \in BOOLEAN : setExempt(e)
    \/ \E a \in Donations : donate(a)
    \/ Tick

Spec == Init /\ [][Next]_vars

-----------------------------------------------------------------------------
(* Safety.                                                                 *)

\* While refunds or graduation may still need it, the USDT held covers the
\* net raise but for one native unit per purchase: _settle() charges
\* floor(base * 100 / 9900), which can exceed by one unit what was set aside
\* from the input.  Nothing else takes USDT out before the sweep window.
EscrowCovers ==
    (state = "Active" \/ (state = "Refunding" /\ now < sweepOpens))
        => usdtBal + totalPurchases >= totalBaseRaised

\* The global totals that decide caps, price and sell-out are the sums of
\* the buyers' entitlements, whatever partial refunds have rounded away.
LedgerMatches ==
    /\ SumFunction(basePaid) = totalBaseRaised
    /\ SumFunction(tokensBought) = tokensSold

\* No sequence of buys and refunds puts a wallet above its share of the hard
\* cap, although both caps and refunds are rounded.
WalletCap == \A b \in Buyers : basePaid[b] <= maxBuyPerWallet

\* The two pro-rata roundings of a partial refund strand neither side: after
\* every refund a wallet has a claim exactly as long as it has tokens to return,
\* no wallet is left with a claim and no token, and gross stays above net.  A
\* purchase may give tokens without a claim: the contract sets no price floor.
EntitlementsWhole ==
    [][\A b \in Buyers :
         /\ tokensBought'[b] < tokensBought[b] => (basePaid'[b] = 0 <=> tokensBought'[b] = 0)
         /\ tokensBought'[b] = 0 => basePaid'[b] = 0
         /\ basePaid'[b] <= grossPaid'[b]]_vars

\* The clone holds every token it still owes: the unsold curve, the LP side
\* and the creator's allocation while Active, the unclaimed allocation after
\* graduation has burned the rest.
TokensBacked ==
    /\ state = "Pending" => tokenBal >= totalTokensDeposited
    /\ state = "Active" => tokenBal >= totalTokensRequired - tokensSold
    /\ state = "Graduated" => tokenBal >= creatorTotalTokens - creatorClaimed

\* What has been raised pays for a linear curve up to the tokens sold, but for
\* the rounding of the two terms of each purchase: pro-rata refunds taken in any
\* order during a pause never move the curve below what the remaining buyers
\* paid.  (Simpson's rule, by which LaunchMath prices the exponential curve,
\* asks more for a long span than for its parts, so there is no such bound.)
CurveBacked ==
    curveType = "Linear"
        => totalBaseRaised + 2 * totalPurchases >= _getCostForTokens(0, tokensSold)

\* The pool never opens below the price the curve had reached, fees and the
\* rounding of the LP amounts included: nobody can buy on the DEX for less
\* than the next curve token cost.
ListedAtCurvePrice ==
    [][state = "Active" /\ state' = "Graduated" =>
         pair'.usdt * PRECISION >= getCurrentPrice(tokensSold') * pair'.tokens]_vars

\* A launch graduates only with its soft cap met or its curve sold out, and
\* turns to refunds only past its deadline and short of the soft cap; both
\* outcomes and Cancelled are final, and no sale happens outside Active.
OutcomeJustified ==
    [][/\ state' # state => <<state, state'>> \in
              {<<"Pending", "Active">>, <<"Pending", "Cancelled">>,
               <<"Active", "Graduated">>, <<"Active", "Refunding">>}
       /\ state' = "Graduated" /\ state # "Graduated" =>
              totalBaseRaised' >= softCap \/ tokensSold' >= tokensForCurve
       /\ state' = "Refunding" /\ state # "Refunding" =>
              now >= deadline /\ totalBaseRaised' < softCap
       /\ tokensSold' > tokensSold => state = "Active" /\ now < deadline]_vars

-----------------------------------------------------------------------------
(* Liveness.                                                               *)

\* Blocks keep coming, and once the deadline has passed somebody calls the
\* permissionless resolveState() and graduate().
Fairness ==
    /\ WF_vars(Tick)
    /\ WF_vars(resolveState)
    /\ WF_vars(graduate(FALSE))

FairSpec == Spec /\ Fairness

\* An expired launch that is not paused does not stay Active for ever.
ExpiredResolves ==
    (state = "Active" /\ now >= deadline) ~> (state # "Active" \/ paused \/ globalPause)
=============================================================================
