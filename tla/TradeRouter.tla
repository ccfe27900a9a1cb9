---------------------------- MODULE TradeRouter ----------------------------
(***************************************************************************)
(* TradeRouter.sol: the USDT escrow behind the fiat off-ramp and the       *)
(* reserve behind the fiat on-ramp, which share one balance.               *)
(*                                                                         *)
(* A revert is the absence of a step.  Requests and array positions are    *)
(* numbered from 1; pendingIdxOf and adminIdxOf keep the contract's        *)
(* 0-based values, with 0 for a missing entry.  confirmBatch() is a loop   *)
(* whose iterations are steps of their own, and no other step is enabled   *)
(* while its transaction runs.  Time is in seconds and jumps between the   *)
(* members of Times.  Foo_Slip beside Foo is a plausible slip in Foo.      *)
(***************************************************************************)
EXTENDS Integers, Sequences, FiniteSets, Functions

CONSTANTS
    Users,                   \* depositors
    Referrers,               \* referrers they name
    Router,                  \* the router's own address
    None,                    \* the zero address, and the empty bank reference
    Wallets,                 \* where confirmations and withdrawals may be sent
    Accounts, Deployer,      \* candidate administrators and the first owner
    BankRefs, TxRefs,        \* references of the off-ramp and of the on-ramp
    Amounts,                 \* USDT brought, swapped for, delivered, withdrawn
    Quotes, MinOuts,         \* DEX quotes and slippage floors of swap deposits
    Batches,                 \* argument lists of confirmBatch()
    FeeChoices, TimeoutChoices, MinChoices, SlippageChoices, ShareChoices,
    Affiliates,              \* whether the referral paths may be switched on
    Times,                   \* block timestamps that are told apart
    MaxRequests,             \* bound on the requests
    MaxBalance               \* bound on the USDT sent in directly

BPS == 10000
MAX_FEE_BPS == 500
MIN_TIMEOUT == 300
MAX_TIMEOUT == 86400
MAX_SLIPPAGE_CAP == 2000
MAX_SHARE_BPS == 5000
MAX_ADMINS == 20

Ids == 1 .. MaxRequests
WithdrawStatus == {"Pending", "Confirmed", "Cancelled"}
Request == [user : Users, grossAmount : Nat, fee : Nat, netAmount : Nat, createdAt : Nat,
            expiresAt : Nat, status : WithdrawStatus, bankRef : BankRefs \cup {None},
            referrer : Referrers]

ASSUME RouterAssumption ==
    /\ Router \notin Users /\ None \in Referrers /\ None \notin Users \cup BankRefs \cup Wallets /\ Router # None
    /\ Deployer \in Accounts /\ Deployer \in Wallets
    /\ Amounts \subseteq Nat \ {0} /\ Quotes \subseteq Nat /\ MinOuts \subseteq Nat
    /\ Batches \subseteq Seq(Nat)
    /\ FeeChoices \subseteq Nat /\ TimeoutChoices \subseteq Nat /\ MinChoices \subseteq Nat
    /\ SlippageChoices \subseteq Nat /\ ShareChoices \subseteq Nat
    /\ Affiliates \subseteq BOOLEAN
    /\ Times \subseteq Nat /\ MaxRequests \in Nat /\ MaxBalance \in Nat

VARIABLES
    now, paused,
    feeBps, payoutTimeout, minWithdrawUsdt, maxSlippageBps, platformWallet,
    affiliate,               \* an Affiliate contract is configured
    affiliateEnabled, affiliateShareBps,
    owner, admins, isAdmin, adminIdxOf,
    withdrawals, pendingIds, pendingIdxOf, bankRefUsed,
    totalEscrow, platformEarnings,
    usdtBal,                 \* USDT the router holds
    onrampRefUsed,
    batch,                   \* what a running confirmBatch() has left to do
    quoted,                  \* previewDeposit() at the time of the deposit
    delivered                \* what a settled request has paid out to its payee

config == <<feeBps, payoutTimeout, minWithdrawUsdt, maxSlippageBps, platformWallet,
            affiliate, affiliateEnabled, affiliateShareBps>>
settings == <<paused, config>>
registry == <<owner, admins, isAdmin, adminIdxOf>>
pending == <<pendingIds, pendingIdxOf>>
requests == <<withdrawals, pending, bankRefUsed, quoted, delivered>>
money == <<totalEscrow, platformEarnings, usdtBal>>
vars == <<now, settings, registry, requests, money, onrampRefUsed, batch>>

TypeOK ==
    /\ now \in Nat /\ paused \in BOOLEAN
    /\ feeBps \in 0 .. MAX_FEE_BPS /\ payoutTimeout \in MIN_TIMEOUT .. MAX_TIMEOUT
    /\ minWithdrawUsdt \in Nat /\ maxSlippageBps \in 0 .. MAX_SLIPPAGE_CAP
    /\ platformWallet \in Wallets /\ affiliate \in BOOLEAN
    /\ affiliateEnabled \in BOOLEAN /\ affiliateShareBps \in 0 .. MAX_SHARE_BPS
    /\ owner \in Accounts /\ admins \in Seq(Accounts)
    /\ isAdmin \in [Accounts -> BOOLEAN] /\ adminIdxOf \in [Accounts -> Nat]
    /\ withdrawals \in Seq(Request) /\ Len(withdrawals) <= MaxRequests
    /\ pendingIds \in Seq(Ids) /\ pendingIdxOf \in [Ids -> Nat]
    /\ bankRefUsed \subseteq BankRefs
    /\ totalEscrow \in Nat /\ platformEarnings \in Nat /\ usdtBal \in Nat
    /\ onrampRefUsed \subseteq TxRefs
    /\ batch \in Seq(Nat)
    /\ quoted \in [Ids -> Nat] /\ delivered \in [Ids -> Nat]

Init ==
    /\ now = 0 /\ paused = FALSE
    /\ feeBps = 100 /\ payoutTimeout = 600 /\ minWithdrawUsdt = 0 /\ maxSlippageBps = 500
    /\ platformWallet = Deployer /\ affiliate = FALSE
    /\ affiliateEnabled = FALSE /\ affiliateShareBps = 1000
    /\ owner = Deployer /\ admins = <<Deployer>>
    /\ isAdmin = [x \in Accounts |-> x = Deployer] /\ adminIdxOf = [x \in Accounts |-> 0]
    /\ withdrawals = <<>> /\ pendingIds = <<>> /\ pendingIdxOf = [i \in Ids |-> 0]
    /\ bankRefUsed = {}
    /\ totalEscrow = 0 /\ platformEarnings = 0 /\ usdtBal = 0
    /\ onrampRefUsed = {} /\ batch = <<>>
    /\ quoted = [i \in Ids |-> 0] /\ delivered = [i \in Ids |-> 0]

-----------------------------------------------------------------------------
(* Helpers.                                                                *)

\* No other transaction runs inside a confirmBatch().
idle == batch = <<>>

onlyAdmin(who) == isAdmin[who] \/ who = owner

\* previewDeposit()
feeOf(amount) == (amount * feeBps) \div BPS
previewDeposit(amount) == amount - feeOf(amount)

\* What a transfer takes out of the router: nothing, when sent to itself.
leaves(to, amount) == IF to = Router THEN 0 ELSE amount

\* Swap-and-pop on an array and its 0-based index.
swapPop(array, index) ==
    [i \in 1 .. Len(array) - 1 |-> IF i = index + 1 THEN array[Len(array)] ELSE array[i]]
reindex_NoMove(indexOf, array, x) == [indexOf EXCEPT ![x] = 0]
reindex(indexOf, array, x) ==
    [[indexOf EXCEPT ![array[Len(array)]] = indexOf[x]] EXCEPT ![x] = 0]

_removePendingId(id) ==
    /\ pendingIds # <<>>
    /\ pendingIds' = swapPop(pendingIds, pendingIdxOf[id])
    /\ pendingIdxOf' = reindex(pendingIdxOf, pendingIds, id)

isPending(id) == id \in DOMAIN withdrawals /\ withdrawals[id].status = "Pending"

\* The window of a request is the one snapshot at its deposit.
expiryOf_Live(id) == withdrawals[id].createdAt + payoutTimeout
expiryOf(id) == withdrawals[id].expiresAt

-----------------------------------------------------------------------------
(* Off-ramp: deposit.                                                      *)

expiresAt == now + payoutTimeout

_createWithdrawRequest(user, gross, bankRef, referrer) ==
    LET id == Len(withdrawals) + 1
    IN  /\ id \in Ids
        /\ \E t \in Times : t >= expiresAt      \* its expiry is within the horizon
        /\ minWithdrawUsdt > 0 => gross >= minWithdrawUsdt
        /\ bankRef \notin bankRefUsed
        /\ bankRefUsed' = bankRefUsed \cup ({bankRef} \ {None})
        /\ withdrawals' = Append(withdrawals,
               [user |-> user, grossAmount |-> gross, fee |-> feeOf(gross),
                netAmount |-> gross - feeOf(gross), createdAt |-> now,
                expiresAt |-> expiresAt, status |-> "Pending", bankRef |-> bankRef,
                referrer |-> referrer])
        /\ totalEscrow' = totalEscrow + gross
        /\ usdtBal' = usdtBal + gross
        /\ pendingIdxOf' = [pendingIdxOf EXCEPT ![id] = Len(pendingIds)]
        /\ pendingIds' = Append(pendingIds, id)
        /\ quoted' = [quoted EXCEPT ![id] = previewDeposit(gross)]
        /\ UNCHANGED <<now, settings, registry, platformEarnings, onrampRefUsed, batch, delivered>>

deposit(user, amount, bankRef, referrer) ==
    /\ idle /\ ~paused
    /\ _createWithdrawRequest(user, amount, bankRef, referrer)

\* _validateSlippage(): fails closed on a missing floor or quote.
slippageOK(quote, minOut) ==
    /\ minOut > 0 /\ quote > 0
    /\ minOut >= (quote * (BPS - maxSlippageBps)) \div BPS

\* depositAndSwap() and depositETH(): the request is for what the swap brought.
depositSwapped(user, received, quote, minOut, bankRef, referrer) ==
    /\ idle /\ ~paused
    /\ slippageOK(quote, minOut) /\ received >= minOut
    /\ _createWithdrawRequest(user, received, bankRef, referrer)

-----------------------------------------------------------------------------
(* Off-ramp: settlement.                                                   *)

\* The parts of the fee that may go to the referral.  A configured Affiliate
\* contract can pull at most the allowance, which is the fee, and its failure
\* counts as zero; the legacy path pays a share directly.
cuts(req) ==
    IF affiliate THEN 0 .. req.fee
    ELSE IF affiliateEnabled /\ req.referrer \notin {None, req.user}
         THEN {(req.fee * affiliateShareBps) \div BPS} ELSE {0}

\* What a settled request takes out of totalEscrow, and what its payee gets.
escrowShare_Net(req) == req.netAmount
escrowShare(req) == req.grossAmount
netOf_Live(req) == previewDeposit(req.grossAmount)
netOf(req) == req.netAmount

confirmable(id) == isPending(id) /\ now < expiryOf(id)

_confirm(id, to) ==
    LET req == withdrawals[id]
    IN  /\ confirmable(id)
        /\ withdrawals' = [withdrawals EXCEPT ![id].status = "Confirmed"]
        /\ totalEscrow >= escrowShare(req) /\ totalEscrow' = totalEscrow - escrowShare(req)
        /\ _removePendingId(id)
        /\ \E cut \in cuts(req) :
             LET referral == IF affiliate THEN cut ELSE leaves(req.referrer, cut)
             IN  /\ platformEarnings' = platformEarnings + req.fee - cut
                 /\ usdtBal >= referral + netOf(req)
                 /\ usdtBal' = usdtBal - referral - leaves(to, netOf(req))
        /\ delivered' = [delivered EXCEPT ![id] = netOf(req)]
        /\ UNCHANGED <<now, settings, registry, bankRefUsed, onrampRefUsed, quoted>>

confirm(id, to) == idle /\ _confirm(id, to) /\ UNCHANGED batch

\* confirmBatch() starts, and its loop takes one id at a time.
confirmBatch(ids) ==
    /\ idle /\ batch' = ids
    /\ UNCHANGED <<now, settings, registry, requests, money, onrampRefUsed>>

batchIteration ==
    /\ ~idle
    /\ batch' = Tail(batch)
    /\ \/ _confirm(Head(batch), platformWallet)
       \/ /\ ~confirmable(Head(batch))
          /\ UNCHANGED <<now, settings, registry, requests, money, onrampRefUsed>>

\* What cancel() and refund() share: the gross amount goes back to the user.
refundAmount_Net(req) == req.netAmount
refundAmount(req) == req.grossAmount

_giveBack(id) ==
    LET req == withdrawals[id]
    IN  /\ isPending(id) /\ now >= expiryOf(id)
        /\ withdrawals' = [withdrawals EXCEPT ![id].status = "Cancelled"]
        /\ totalEscrow >= escrowShare(req) /\ totalEscrow' = totalEscrow - escrowShare(req)
        /\ _removePendingId(id)
        /\ usdtBal >= refundAmount(req) /\ usdtBal' = usdtBal - refundAmount(req)
        /\ delivered' = [delivered EXCEPT ![id] = refundAmount(req)]
        /\ UNCHANGED <<now, settings, registry, bankRefUsed, platformEarnings, onrampRefUsed, batch,
                       quoted>>

\* The user's own way out has no pause in it.
cancelAllowed_NotPaused == ~paused
cancelAllowed == TRUE

cancel(user, id) ==
    /\ idle /\ cancelAllowed
    /\ id \in DOMAIN withdrawals /\ withdrawals[id].user = user
    /\ _giveBack(id)

refund(id) == idle /\ _giveBack(id)

-----------------------------------------------------------------------------
(* On-ramp and the owner's withdrawals.                                    *)

\* What the reserve guard of onramp() sets aside.
reserved_EscrowOnly == totalEscrow
reserved == totalEscrow + platformEarnings

onrampAccepts(amount, txRef) ==
    /\ idle /\ ~paused
    /\ txRef \notin onrampRefUsed
    /\ usdtBal >= reserved + amount

\* The BNB drip rides on the same call: a receiver that refuses it reverts it.
onramp(to, amount, txRef) ==
    /\ onrampAccepts(amount, txRef)
    /\ onrampRefUsed' = onrampRefUsed \cup {txRef}
    /\ usdtBal' = usdtBal - leaves(to, amount)
    /\ UNCHANGED <<now, settings, registry, requests, totalEscrow, platformEarnings, batch>>

\* Earnings fall only by what the amount taken cannot leave behind.
available == IF usdtBal > totalEscrow THEN usdtBal - totalEscrow ELSE 0
earningsAfter_Kept(amount) == platformEarnings
earningsAfter(amount) == IF amount >= platformEarnings THEN 0 ELSE platformEarnings - amount

take(to, amount) ==
    /\ available > 0
    /\ platformEarnings' = earningsAfter(amount)
    /\ usdtBal' = usdtBal - leaves(to, amount)
    /\ UNCHANGED <<now, settings, registry, requests, totalEscrow, onrampRefUsed, batch>>

\* A custom amount of 0, or beyond what is available, takes all of it.
_withdraw(to, customAmount) ==
    idle /\ take(to, IF 0 < customAmount /\ customAmount <= available
                     THEN customAmount ELSE available)

rescueToken == idle /\ take(platformWallet, available)

\* Anybody may send USDT to the router: the owner's reserve top-up, a donation.
topUp(amount) ==
    /\ idle
    /\ usdtBal + amount <= MaxBalance
    /\ usdtBal' = usdtBal + amount
    /\ UNCHANGED <<now, settings, registry, requests, totalEscrow, platformEarnings, onrampRefUsed, batch>>

-----------------------------------------------------------------------------
(* Administration.                                                         *)

adminOnly == UNCHANGED <<now, registry, requests, money, onrampRefUsed, batch>>

setPaused(value) == idle /\ paused' = value /\ UNCHANGED config /\ adminOnly

\* The owner's setters; each changes one value, within the cap it enforces.
setOnly(name) ==
    /\ idle /\ UNCHANGED paused /\ adminOnly
    /\ name # "feeBps" => UNCHANGED feeBps
    /\ name # "payoutTimeout" => UNCHANGED payoutTimeout
    /\ name # "minWithdrawUsdt" => UNCHANGED minWithdrawUsdt
    /\ name # "maxSlippageBps" => UNCHANGED maxSlippageBps
    /\ name # "platformWallet" => UNCHANGED platformWallet
    /\ name # "affiliate" => UNCHANGED affiliate
    /\ name # "affiliateEnabled" => UNCHANGED affiliateEnabled
    /\ name # "affiliateShareBps" => UNCHANGED affiliateShareBps

setFeeBps(x) == x <= MAX_FEE_BPS /\ feeBps' = x /\ setOnly("feeBps")
setPayoutTimeout(x) ==
    MIN_TIMEOUT <= x /\ x <= MAX_TIMEOUT /\ payoutTimeout' = x /\ setOnly("payoutTimeout")
setMinWithdrawUsdt(x) == minWithdrawUsdt' = x /\ setOnly("minWithdrawUsdt")
setMaxSlippage(x) ==
    x <= MAX_SLIPPAGE_CAP /\ maxSlippageBps' = x /\ setOnly("maxSlippageBps")
setAffiliateShare(x) ==
    x <= MAX_SHARE_BPS /\ affiliateShareBps' = x /\ setOnly("affiliateShareBps")
setPlatformWallet(x) == platformWallet' = x /\ setOnly("platformWallet")
setAffiliate(x) == affiliate' = x /\ setOnly("affiliate")
setAffiliateEnabled(x) == affiliateEnabled' = x /\ setOnly("affiliateEnabled")

addAdmin(x) ==
    /\ idle /\ ~isAdmin[x] /\ Len(admins) < MAX_ADMINS
    /\ isAdmin' = [isAdmin EXCEPT ![x] = TRUE]
    /\ adminIdxOf' = [adminIdxOf EXCEPT ![x] = Len(admins)]
    /\ admins' = Append(admins, x)
    /\ UNCHANGED <<now, settings, owner, requests, money, onrampRefUsed, batch>>

removeAdmin(x) ==
    /\ idle /\ isAdmin[x] /\ x # owner
    /\ isAdmin' = [isAdmin EXCEPT ![x] = FALSE]
    /\ admins' = swapPop(admins, adminIdxOf[x])
    /\ adminIdxOf' = reindex(adminIdxOf, admins, x)
    /\ UNCHANGED <<now, settings, owner, requests, money, onrampRefUsed, batch>>

transferOwnership(x) ==
    /\ idle /\ owner' = x
    /\ UNCHANGED <<now, settings, admins, isAdmin, adminIdxOf, requests, money, onrampRefUsed, batch>>

Tick ==
    /\ idle
    /\ \E t \in Times : t > now /\ now' = t
    /\ UNCHANGED <<settings, registry, requests, money, onrampRefUsed, batch>>

-----------------------------------------------------------------------------
Open ==
    \E user \in Users, amount \in Amounts, bankRef \in BankRefs \cup {None},
       referrer \in Referrers :
        \/ deposit(user, amount, bankRef, referrer)
        \/ \E quote \in Quotes, minOut \in MinOuts :
             depositSwapped(user, amount, quote, minOut, bankRef, referrer)

Settle ==
    \/ \E id \in Ids, who \in Accounts :
         /\ onlyAdmin(who)
         /\ refund(id) \/ \E to \in Wallets : confirm(id, to)
    \/ \E id \in Ids, user \in Users : cancel(user, id)
    \/ \E ids \in Batches : confirmBatch(ids)
    \/ batchIteration

Reserve ==
    \/ \E amount \in Amounts, txRef \in TxRefs, to \in Users \cup {Router} : onramp(to, amount, txRef)
    \/ \E to \in Wallets, amount \in Amounts \cup {0} : _withdraw(to, amount)
    \/ rescueToken
    \/ \E amount \in Amounts : topUp(amount)

Administer ==
    \/ \E value \in BOOLEAN : setPaused(value)
    \/ \E x \in FeeChoices : setFeeBps(x)
    \/ \E x \in TimeoutChoices : setPayoutTimeout(x)
    \/ \E x \in MinChoices : setMinWithdrawUsdt(x)
    \/ \E x \in SlippageChoices : setMaxSlippage(x)
    \/ \E x \in ShareChoices : setAffiliateShare(x)
    \/ \E x \in Wallets : setPlatformWallet(x)
    \/ \E x \in Affiliates : setAffiliate(x) \/ setAffiliateEnabled(x)
    \/ \E x \in Accounts : addAdmin(x) \/ removeAdmin(x) \/ transferOwnership(x)

Next == Open \/ Settle \/ Reserve \/ Administer \/ Tick

Spec == Init /\ [][Next]_vars

-----------------------------------------------------------------------------
(* Properties.                                                             *)

\* The balance covers the users' escrow and the platform's earnings, whatever
\* the owner withdraws or rescues, the on-ramp pays out of the same balance,
\* and the referral takes: every confirmation and refund can be paid.
Solvent == usdtBal >= totalEscrow + platformEarnings

\* totalEscrow is what the pending requests are worth, request by request.
escrowed == [i \in Ids |-> IF isPending(i) THEN withdrawals[i].grossAmount ELSE 0]
EscrowLedger == totalEscrow = SumFunction(escrowed)

\* An array and its index agree, and list exactly the members.
Indexed(array, indexOf, members) ==
    /\ \A k \in DOMAIN array : array[k] \in members /\ indexOf[array[k]] = k - 1
    /\ \A x \in members : indexOf[x] + 1 \in DOMAIN array /\ array[indexOf[x] + 1] = x

\* pendingIds lists each pending request once and nothing else, through any
\* order of confirmations, refunds and deposits: the swap-and-pop never drops
\* a neighbour, leaves a settled id behind or trusts the default index 0.
PendingIndexed == Indexed(pendingIds, pendingIdxOf, {i \in Ids : isPending(i)})

\* The same for the administrators, through changes of owner.
AdminsIndexed == Indexed(admins, adminIdxOf, {x \in Accounts : isAdmin[x]})

\* A confirmed request has paid what previewDeposit() told the user on the
\* day, and a cancelled one its whole gross amount, whatever the owner has
\* changed since.
PaidAsQuoted ==
    \A i \in DOMAIN withdrawals :
        delivered[i] = CASE withdrawals[i].status = "Pending" -> 0
                         [] withdrawals[i].status = "Confirmed" -> quoted[i]
                         [] withdrawals[i].status = "Cancelled" -> withdrawals[i].grossAmount

\* Once the user may take a request back, no later confirmation can pay it
\* out, also when the owner lengthens the timeout: the two windows are those
\* of the deposit and never overlap.
RefundableNeverConfirmed ==
    [][\A i \in DOMAIN withdrawals :
         isPending(i) /\ now >= withdrawals[i].expiresAt
             => withdrawals'[i].status # "Confirmed"]_vars

\* The router implements the escrow it promises.
phaseOf(i) ==
    IF i \notin DOMAIN withdrawals THEN "none"
    ELSE IF withdrawals[i].status = "Pending" THEN "held"
    ELSE IF withdrawals[i].status = "Confirmed" THEN "released" ELSE "returned"

Vault == INSTANCE EscrowVault WITH
    phase <- [i \in Ids |-> phaseOf(i)],
    held <- [i \in Ids |-> IF i \in DOMAIN withdrawals THEN withdrawals[i].grossAmount ELSE 0],
    surplus <- usdtBal - totalEscrow

\* Deposits, confirmations and refunds are the vault's, each id moves once, and
\* every other step touches the surplus only, which is never negative.
EscrowKept == Vault!Spec

-----------------------------------------------------------------------------
(* Liveness.                                                               *)

\* Blocks keep coming, and each user eventually gets a cancel() included.
\* Strong fairness only bridges the steps of a confirmBatch() transaction,
\* during which nothing else is enabled.
Fairness ==
    /\ WF_vars(batchIteration)
    /\ SF_vars(Tick)
    /\ \A id \in Ids : SF_vars(\E user \in Users : cancel(user, id))

FairSpec == Spec /\ Fairness

\* Every deposit is paid out or taken back, with no help from the platform
\* and whether or not the router is paused.
Settled == \A id \in Ids : isPending(id) ~> ~isPending(id)

=============================================================================
