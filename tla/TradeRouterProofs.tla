------------------------- MODULE TradeRouterProofs -------------------------
(***************************************************************************)
(* The router stays solvent, its arrays and indexes agree, and it keeps    *)
(* the escrow it promises, for every set of users, amounts and requests.   *)
(***************************************************************************)
EXTENDS TradeRouter, Amounts, SequenceTheorems, TLAPS

-----------------------------------------------------------------------------
(* Arrays with an index.                                                   *)

\* Appending a new member keeps array and index in agreement.
LEMMA AppendIndexed ==
    ASSUME NEW S, NEW array \in Seq(S), NEW indexOf \in [S -> Nat], NEW members \in SUBSET S,
           Indexed(array, indexOf, members), NEW x \in S, x \notin members
    PROVE  /\ Append(array, x) \in Seq(S)
           /\ [indexOf EXCEPT ![x] = Len(array)] \in [S -> Nat]
           /\ Indexed(Append(array, x), [indexOf EXCEPT ![x] = Len(array)], members \cup {x})
<1> DEFINE n == Len(array)
           array2 == Append(array, x)
           indexOf2 == [indexOf EXCEPT ![x] = Len(array)]
<1>1. /\ n \in Nat /\ DOMAIN array = 1 .. n
      /\ array2 \in Seq(S) /\ DOMAIN array2 = 1 .. n + 1
      /\ array2[n + 1] = x /\ \A k \in 1 .. n : array2[k] = array[k]
  OBVIOUS
<1>2. indexOf2 \in [S -> Nat] /\ indexOf2[x] = n /\ \A y \in S \ {x} : indexOf2[y] = indexOf[y]
  BY <1>1
<1>3. ASSUME NEW k \in 1 .. n + 1
      PROVE  array2[k] \in members \cup {x} /\ indexOf2[array2[k]] = k - 1
  <2>1. CASE k = n + 1
    BY <2>1, <1>1, <1>2
  <2>2. CASE k \in 1 .. n
    BY <2>2, <1>1, <1>2 DEF Indexed
  <2> QED
    BY <2>1, <2>2, <1>1
<1>4. ASSUME NEW y \in members \cup {x}
      PROVE  indexOf2[y] + 1 \in 1 .. n + 1 /\ array2[indexOf2[y] + 1] = y
  <2>1. CASE y = x
    BY <2>1, <1>1, <1>2
  <2>2. CASE y \in members
    BY <2>2, <1>1, <1>2 DEF Indexed
  <2> QED
    BY <2>1, <2>2
<1> QED
  BY <1>1, <1>2, <1>3, <1>4 DEF Indexed

\* Swap-and-pop removes the member and nothing else.
LEMMA SwapPopIndexed ==
    ASSUME NEW S, NEW array \in Seq(S), NEW indexOf \in [S -> Nat], NEW members \in SUBSET S,
           Indexed(array, indexOf, members), NEW x \in members
    PROVE  /\ array # <<>>
           /\ swapPop(array, indexOf[x]) \in Seq(S)
           /\ reindex(indexOf, array, x) \in [S -> Nat]
           /\ Indexed(swapPop(array, indexOf[x]), reindex(indexOf, array, x), members \ {x})
<1> DEFINE n == Len(array)
           p == indexOf[x] + 1
           last == array[n]
           array2 == swapPop(array, indexOf[x])
           indexOf2 == reindex(indexOf, array, x)
<1>1. /\ n \in Nat /\ DOMAIN array = 1 .. n
      /\ p \in 1 .. n /\ array[p] = x /\ n \in 1 .. n
  BY DEF Indexed
<1>2. /\ \A k \in 1 .. n : array[k] \in S /\ array[k] \in members /\ indexOf[array[k]] = k - 1
      /\ \A y \in members : indexOf[y] + 1 \in 1 .. n /\ array[indexOf[y] + 1] = y
  BY <1>1 DEF Indexed
<1>3. \A j, k \in 1 .. n : array[j] = array[k] => j = k
  BY <1>1, <1>2
<1>4. last \in S /\ last \in members /\ indexOf[last] = n - 1 /\ indexOf[x] = p - 1
  BY <1>1, <1>2
<1>5. /\ DOMAIN array2 = 1 .. n - 1
      /\ \A k \in 1 .. n - 1 : array2[k] = IF k = p THEN last ELSE array[k]
  BY <1>1 DEF swapPop
<1>6. array2 \in Seq(S)
  <2>1. n - 1 \in Nat /\ array2 = [k \in 1 .. n - 1 |-> IF k = p THEN last ELSE array[k]]
    BY <1>1 DEF swapPop
  <2>2. \A k \in 1 .. n - 1 : (IF k = p THEN last ELSE array[k]) \in S
    BY <1>1, <1>2, <1>4
  <2> HIDE DEF array2, last, p, n
  <2> QED
    BY <2>1, <2>2, IsASeq
<1>7. /\ indexOf2 \in [S -> Nat] /\ indexOf2[x] = 0
      /\ last # x => indexOf2[last] = p - 1
      /\ \A y \in S \ {x, last} : indexOf2[y] = indexOf[y]
  BY <1>1, <1>4 DEF reindex
<1> HIDE DEF array2, indexOf2, n, last, p
<1>8. ASSUME NEW k \in 1 .. n - 1
      PROVE  array2[k] \in members \ {x} /\ indexOf2[array2[k]] = k - 1
  <2>0. k \in 1 .. n /\ k # n
    BY <1>1
  <2>1. CASE k = p
    <3>1. array2[k] = last
      BY <2>1, <1>5
    <3>2. last # x
      BY <2>0, <2>1, <1>1, <1>3 DEF last
    <3> QED
      BY <3>1, <3>2, <2>1, <1>4, <1>7
  <2>2. CASE k # p
    <3>1. array2[k] = array[k]
      BY <2>2, <1>5
    <3>2. array[k] # x /\ array[k] # last
      BY <2>0, <2>2, <1>1, <1>3 DEF last
    <3> QED
      BY <3>1, <3>2, <2>0, <1>2, <1>7
  <2> QED
    BY <2>1, <2>2
<1>9. ASSUME NEW y \in members \ {x}
      PROVE  indexOf2[y] + 1 \in 1 .. n - 1 /\ array2[indexOf2[y] + 1] = y
  <2>0. y \in S /\ indexOf[y] + 1 \in 1 .. n /\ array[indexOf[y] + 1] = y /\ indexOf[y] \in Nat
    BY <1>2
  <2>1. CASE y = last
    <3>1. p # n
      BY <2>1, <1>1 DEF last
    <3> QED
      BY <3>1, <2>1, <1>1, <1>5, <1>7
  <2>2. CASE y # last
    <3>1. indexOf2[y] = indexOf[y] /\ indexOf[y] + 1 # p /\ indexOf[y] + 1 # n
      BY <2>0, <2>2, <1>1, <1>7 DEF last
    <3> QED
      BY <3>1, <2>0, <1>1, <1>5
  <2> QED
    BY <2>1, <2>2
<1>10. Indexed(array2, indexOf2, members \ {x})
  BY <1>5, <1>8, <1>9 DEF Indexed
<1>11. array # <<>>
  BY <1>1 DEF n
<1> QED
  BY <1>6, <1>7, <1>10, <1>11 DEF array2, indexOf2
-----------------------------------------------------------------------------
(* The inductive invariant, one conjunct per group of variables.           *)

ConfigInv ==
    /\ paused \in BOOLEAN
    /\ feeBps \in 0 .. MAX_FEE_BPS /\ payoutTimeout \in MIN_TIMEOUT .. MAX_TIMEOUT
    /\ minWithdrawUsdt \in Nat /\ maxSlippageBps \in 0 .. MAX_SLIPPAGE_CAP
    /\ platformWallet \in Wallets /\ affiliate \in BOOLEAN
    /\ affiliateEnabled \in BOOLEAN /\ affiliateShareBps \in 0 .. MAX_SHARE_BPS

RegistryInv ==
    /\ owner \in Accounts /\ admins \in Seq(Accounts)
    /\ isAdmin \in [Accounts -> BOOLEAN] /\ adminIdxOf \in [Accounts -> Nat]
    /\ AdminsIndexed

\* Fee and net amount of a request make up its gross amount.
RequestsSound ==
    \A i \in DOMAIN withdrawals :
        withdrawals[i].netAmount + withdrawals[i].fee = withdrawals[i].grossAmount

RequestInv ==
    /\ withdrawals \in Seq(Request) /\ Len(withdrawals) <= MaxRequests
    /\ pendingIds \in Seq(Ids) /\ pendingIdxOf \in [Ids -> Nat]
    /\ bankRefUsed \subseteq BankRefs
    /\ quoted \in [Ids -> Nat] /\ delivered \in [Ids -> Nat]
    /\ RequestsSound /\ PendingIndexed

MoneyInv ==
    /\ totalEscrow \in Nat /\ platformEarnings \in Nat /\ usdtBal \in Nat
    /\ Solvent

RampInv ==
    /\ now \in Nat
    /\ onrampRefUsed \subseteq TxRefs
    /\ batch \in Seq(Nat)

IInv == ConfigInv /\ RegistryInv /\ RequestInv /\ MoneyInv /\ RampInv

LEMMA Frames ==
    /\ ConfigInv /\ UNCHANGED settings => ConfigInv'
    /\ RegistryInv /\ UNCHANGED registry => RegistryInv'
    /\ RequestInv /\ UNCHANGED requests => RequestInv'
    /\ MoneyInv /\ UNCHANGED money => MoneyInv'
    /\ RampInv /\ UNCHANGED <<now, onrampRefUsed, batch>> => RampInv'
<1>1. ConfigInv /\ UNCHANGED settings => ConfigInv'
  BY DEF ConfigInv, settings, config
<1>2. RegistryInv /\ UNCHANGED registry => RegistryInv'
  BY DEF RegistryInv, registry, AdminsIndexed, Indexed
<1>3. RequestInv /\ UNCHANGED requests => RequestInv'
  BY DEF RequestInv, requests, pending, RequestsSound, PendingIndexed, Indexed, isPending
<1>4. MoneyInv /\ UNCHANGED money => MoneyInv'
  BY DEF MoneyInv, money, Solvent
<1>5. RampInv /\ UNCHANGED <<now, onrampRefUsed, batch>> => RampInv'
  BY DEF RampInv
<1> QED
  BY <1>1, <1>2, <1>3, <1>4, <1>5

LEMMA InitIInv == Init => IInv
<1> SUFFICES ASSUME Init PROVE IInv
  OBVIOUS
<1> USE RouterAssumption DEF Init
<1>1. ConfigInv
  <2>1. paused \in BOOLEAN /\ affiliate \in BOOLEAN /\ affiliateEnabled \in BOOLEAN
    OBVIOUS
  <2>2. /\ feeBps \in 0 .. MAX_FEE_BPS /\ payoutTimeout \in MIN_TIMEOUT .. MAX_TIMEOUT
        /\ maxSlippageBps \in 0 .. MAX_SLIPPAGE_CAP /\ affiliateShareBps \in 0 .. MAX_SHARE_BPS
    BY DEF MAX_FEE_BPS, MIN_TIMEOUT, MAX_TIMEOUT, MAX_SLIPPAGE_CAP, MAX_SHARE_BPS
  <2>3. minWithdrawUsdt \in Nat /\ platformWallet \in Wallets
    OBVIOUS
  <2> QED
    BY <2>1, <2>2, <2>3 DEF ConfigInv
<1>2. RegistryInv
  <2>1. /\ owner \in Accounts /\ admins \in Seq(Accounts)
        /\ isAdmin \in [Accounts -> BOOLEAN] /\ adminIdxOf \in [Accounts -> Nat]
    OBVIOUS
  <2>2. DOMAIN admins = 1 .. 1 /\ admins[1] = Deployer
    <3>1. admins = <<Deployer>>
      OBVIOUS
    <3> QED
      BY ONLY <3>1
  <2>3. {x \in Accounts : isAdmin[x]} = {Deployer}
    BY ZenonT(20)
  <2>4. adminIdxOf[Deployer] = 0
    OBVIOUS
  <2>5. Indexed(admins, adminIdxOf, {Deployer})
    BY ONLY <2>2, <2>4 DEF Indexed
  <2> QED
    BY <2>1, <2>3, <2>5 DEF RegistryInv, AdminsIndexed
<1>3. RequestInv
  BY DEF RequestInv, RequestsSound, PendingIndexed, Indexed, isPending
<1>4. MoneyInv
  BY DEF MoneyInv, Solvent
<1>5. RampInv
  BY DEF RampInv
<1> QED
  BY <1>1, <1>2, <1>3, <1>4, <1>5 DEF IInv

-----------------------------------------------------------------------------
(* Deposits.                                                               *)

LEMMA FeeBound ==
    ASSUME ConfigInv, NEW amount \in Nat
    PROVE  feeOf(amount) \in 0 .. amount
  BY ShareBound DEF ConfigInv, feeOf, BPS, MAX_FEE_BPS

LEMMA TimeoutIsNat == MIN_TIMEOUT .. MAX_TIMEOUT \subseteq Nat
  BY DEF MIN_TIMEOUT, MAX_TIMEOUT

LEMMA ExpiryNat ==
    ASSUME IInv
    PROVE  expiresAt \in Nat
<1>1. now \in Nat
  BY DEF IInv, RampInv
<1>2. payoutTimeout \in MIN_TIMEOUT .. MAX_TIMEOUT
  BY Zenon DEF IInv, ConfigInv
<1>3. payoutTimeout \in Nat
  BY <1>2, TimeoutIsNat, Zenon
<1>4. QED
  BY <1>1, <1>3 DEF expiresAt

LEMMA CreateStep ==
    ASSUME IInv, NEW user \in Users, NEW gross \in Nat, NEW bankRef \in BankRefs \cup {None},
           NEW referrer \in Referrers, _createWithdrawRequest(user, gross, bankRef, referrer)
    PROVE  IInv'
<1> DEFINE id == Len(withdrawals) + 1
           req == [user |-> user, grossAmount |-> gross, fee |-> feeOf(gross),
                   netAmount |-> gross - feeOf(gross), createdAt |-> now,
                   expiresAt |-> expiresAt, status |-> "Pending", bankRef |-> bankRef,
                   referrer |-> referrer]
<1> USE DEF IInv
<1>1. /\ id \in Ids /\ bankRefUsed' = bankRefUsed \cup ({bankRef} \ {None})
      /\ withdrawals' = Append(withdrawals, req)
      /\ totalEscrow' = totalEscrow + gross /\ usdtBal' = usdtBal + gross
      /\ pendingIdxOf' = [pendingIdxOf EXCEPT ![id] = Len(pendingIds)]
      /\ pendingIds' = Append(pendingIds, id)
      /\ quoted' = [quoted EXCEPT ![id] = previewDeposit(gross)]
      /\ UNCHANGED <<now, settings, registry, platformEarnings, onrampRefUsed, batch, delivered>>
  BY DEF _createWithdrawRequest
<1>2. /\ feeOf(gross) \in Nat /\ gross - feeOf(gross) \in Nat
      /\ (gross - feeOf(gross)) + feeOf(gross) = gross /\ expiresAt \in Nat
  <2>1. feeOf(gross) \in 0 .. gross
    BY FeeBound
  <2>2. expiresAt \in Nat
    BY ExpiryNat
  <2> QED
    BY <2>1, <2>2
<1>3. req \in Request
  <2> HIDE DEF IInv
  <2>1. now \in Nat
    BY DEF IInv, RampInv
  <2> QED
    BY <1>2, <2>1 DEF Request, WithdrawStatus
<1>4. /\ Len(withdrawals) \in Nat /\ withdrawals \in Seq(Request) /\ DOMAIN withdrawals = 1 .. id - 1
      /\ id \in Nat
  BY DEF RequestInv
<1> HIDE DEF req, id
<1>5. /\ withdrawals' \in Seq(Request) /\ Len(withdrawals') = id /\ DOMAIN withdrawals' = 1 .. id
      /\ withdrawals'[id] = req /\ \A i \in 1 .. id - 1 : withdrawals'[i] = withdrawals[i]
  BY <1>1, <1>3, <1>4 DEF id
<1>6. req.status = "Pending" /\ req.netAmount + req.fee = req.grossAmount
  BY <1>2 DEF req
<1>7. RequestsSound'
  <2> SUFFICES ASSUME NEW i \in 1 .. id
               PROVE  withdrawals'[i].netAmount + withdrawals'[i].fee = withdrawals'[i].grossAmount
    BY <1>5 DEF RequestsSound
  <2>1. CASE i = id
    BY <2>1, <1>5, <1>6
  <2>2. CASE i \in 1 .. id - 1
    BY <2>2, <1>4, <1>5 DEF RequestInv, RequestsSound
  <2> QED
    BY <2>1, <2>2, <1>4
<1>8. pendingIds' \in Seq(Ids) /\ pendingIdxOf' \in [Ids -> Nat] /\ PendingIndexed'
  <2> DEFINE members == {i \in Ids : isPending(i)}
  <2>1. id \notin members /\ members \in SUBSET Ids
    BY <1>4 DEF isPending
  <2>2. {i \in Ids : isPending(i)}' = members \cup {id}
    BY <1>1, <1>4, <1>5, <1>6 DEF isPending, Ids
  <2>3. /\ Append(pendingIds, id) \in Seq(Ids)
        /\ [pendingIdxOf EXCEPT ![id] = Len(pendingIds)] \in [Ids -> Nat]
        /\ Indexed(Append(pendingIds, id), [pendingIdxOf EXCEPT ![id] = Len(pendingIds)],
                   members \cup {id})
    <3> HIDE DEF IInv, members
    <3>1. pendingIds \in Seq(Ids) /\ pendingIdxOf \in [Ids -> Nat]
      BY DEF IInv, RequestInv
    <3>2. Indexed(pendingIds, pendingIdxOf, members)
      BY DEF IInv, RequestInv, PendingIndexed, members
    <3> QED
      BY <3>1, <3>2, <2>1, <1>1, AppendIndexed
  <2> HIDE DEF members
  <2> QED
    BY <1>1, <2>2, <2>3 DEF PendingIndexed
<1>9. bankRefUsed' \subseteq BankRefs /\ quoted' \in [Ids -> Nat] /\ delivered' \in [Ids -> Nat]
  BY <1>1, <1>2 DEF RequestInv, previewDeposit
<1>10. Len(withdrawals') <= MaxRequests
  BY <1>1, <1>4, <1>5, RouterAssumption DEF Ids
<1>11. RequestInv'
  BY <1>5, <1>7, <1>8, <1>9, <1>10 DEF RequestInv
<1>12. MoneyInv'
  BY <1>1 DEF MoneyInv, Solvent
<1> QED
  BY <1>1, <1>11, <1>12, Frames

-----------------------------------------------------------------------------
(* Settlement.                                                             *)

\* What the status change of one pending request does to the requests.
LEMMA SettleStep ==
    ASSUME RequestInv, NEW id \in Nat, isPending(id), NEW st \in {"Confirmed", "Cancelled"},
           NEW paid \in Nat,
           withdrawals' = [withdrawals EXCEPT ![id].status = st],
           _removePendingId(id), delivered' = [delivered EXCEPT ![id] = paid],
           UNCHANGED <<bankRefUsed, quoted>>
    PROVE  RequestInv'
<1>1. /\ withdrawals \in Seq(Request) /\ Len(withdrawals) \in Nat /\ Len(withdrawals) <= MaxRequests
      /\ DOMAIN withdrawals = 1 .. Len(withdrawals) /\ id \in 1 .. Len(withdrawals)
      /\ withdrawals[id].status = "Pending"
  BY DEF RequestInv, isPending
<1>2. \A i \in DOMAIN withdrawals : withdrawals[i] \in Request
  BY <1>1
<1>3. /\ DOMAIN withdrawals' = DOMAIN withdrawals
      /\ withdrawals'[id] = [withdrawals[id] EXCEPT !.status = st]
      /\ \A i \in DOMAIN withdrawals : i # id => withdrawals'[i] = withdrawals[i]
  BY <1>1
<1>4. [withdrawals[id] EXCEPT !.status = st] \in Request
  BY <1>1, <1>2 DEF Request, WithdrawStatus
<1>5. withdrawals' \in Seq(Request) /\ Len(withdrawals') = Len(withdrawals)
  BY <1>1, <1>4
<1>6. id \in Ids
  BY <1>1, RouterAssumption DEF Ids
<1>7. RequestsSound'
  <2> SUFFICES ASSUME NEW i \in DOMAIN withdrawals
               PROVE  withdrawals'[i].netAmount + withdrawals'[i].fee = withdrawals'[i].grossAmount
    BY <1>3 DEF RequestsSound
  <2>1. withdrawals[i].netAmount + withdrawals[i].fee = withdrawals[i].grossAmount
    BY DEF RequestInv, RequestsSound
  <2>2. CASE i = id
    BY <2>1, <2>2, <1>2, <1>3 DEF Request
  <2>3. CASE i # id
    BY <2>1, <2>3, <1>3
  <2> QED
    BY <2>2, <2>3
<1>8. pendingIds' \in Seq(Ids) /\ pendingIdxOf' \in [Ids -> Nat] /\ PendingIndexed'
  <2> DEFINE members == {i \in Ids : isPending(i)}
  <2>1. id \in members /\ members \in SUBSET Ids
    BY <1>6
  <2>2. {i \in Ids : isPending(i)}' = members \ {id}
    <3>1. withdrawals'[id].status # "Pending"
      BY <1>1, <1>2, <1>3 DEF Request
    <3> QED
      BY <3>1, <1>3 DEF isPending
  <2>3. /\ swapPop(pendingIds, pendingIdxOf[id]) \in Seq(Ids)
        /\ reindex(pendingIdxOf, pendingIds, id) \in [Ids -> Nat]
        /\ Indexed(swapPop(pendingIds, pendingIdxOf[id]), reindex(pendingIdxOf, pendingIds, id),
                   members \ {id})
    <3>1. pendingIds \in Seq(Ids) /\ pendingIdxOf \in [Ids -> Nat]
          /\ Indexed(pendingIds, pendingIdxOf, members)
      BY DEF RequestInv, PendingIndexed
    <3> HIDE DEF members
    <3> QED
      BY <3>1, <2>1, SwapPopIndexed
  <2> HIDE DEF members
  <2> QED
    BY <2>2, <2>3 DEF _removePendingId, PendingIndexed
<1>9. delivered' \in [Ids -> Nat] /\ quoted' \in [Ids -> Nat] /\ bankRefUsed' \subseteq BankRefs
  BY <1>6 DEF RequestInv
<1> QED
  BY <1>1, <1>5, <1>7, <1>8, <1>9 DEF RequestInv

\* What a pending request holds.
LEMMA PendingRequest ==
    ASSUME RequestInv, NEW id, isPending(id)
    PROVE  /\ id \in Nat /\ withdrawals[id] \in Request
           /\ withdrawals[id].grossAmount \in Nat /\ withdrawals[id].fee \in Nat
           /\ withdrawals[id].netAmount \in Nat
           /\ withdrawals[id].netAmount + withdrawals[id].fee = withdrawals[id].grossAmount
<1>1. withdrawals \in Seq(Request) /\ id \in DOMAIN withdrawals
  BY DEF RequestInv, isPending
<1>2. id \in Nat /\ withdrawals[id] \in Request
  BY <1>1
<1> QED
  BY <1>1, <1>2 DEF RequestInv, RequestsSound, Request

\* The referral takes a part of the fee.
LEMMA CutBound ==
    ASSUME ConfigInv, NEW req, req.fee \in Nat, NEW cut \in cuts(req)
    PROVE  cut \in 0 .. req.fee
<1>1. affiliateShareBps \in Nat /\ affiliateShareBps <= BPS /\ BPS \in Nat \ {0}
  BY DEF ConfigInv, BPS, MAX_SHARE_BPS
<1>2. (req.fee * affiliateShareBps) \div BPS \in 0 .. req.fee
  BY <1>1, ShareBound
<1> QED
  BY <1>2 DEF cuts

LEMMA ConfirmStep ==
    ASSUME IInv, NEW id, NEW to, _confirm(id, to)
    PROVE  /\ ConfigInv' /\ RegistryInv' /\ RequestInv' /\ MoneyInv'
           /\ UNCHANGED <<now, onrampRefUsed>>
<1> DEFINE req == withdrawals[id]
<1>1. /\ isPending(id) /\ withdrawals' = [withdrawals EXCEPT ![id].status = "Confirmed"]
      /\ totalEscrow >= req.grossAmount /\ totalEscrow' = totalEscrow - req.grossAmount
      /\ _removePendingId(id) /\ delivered' = [delivered EXCEPT ![id] = req.netAmount]
      /\ UNCHANGED <<now, settings, registry, bankRefUsed, onrampRefUsed, quoted>>
  BY DEF _confirm, confirmable, escrowShare, netOf
<1>2. PICK cut \in cuts(req) :
        LET referral == IF affiliate THEN cut ELSE leaves(req.referrer, cut)
        IN  /\ platformEarnings' = platformEarnings + req.fee - cut
            /\ usdtBal >= referral + netOf(req)
            /\ usdtBal' = usdtBal - referral - leaves(to, netOf(req))
  BY DEF _confirm
<1>3. /\ id \in Nat /\ req.grossAmount \in Nat /\ req.fee \in Nat /\ req.netAmount \in Nat
      /\ req.netAmount + req.fee = req.grossAmount
  BY <1>1, PendingRequest DEF IInv
<1>4. cut \in 0 .. req.fee
  BY <1>2, <1>3, CutBound DEF IInv
<1>5. PICK out \in 0 .. cut, net \in 0 .. req.netAmount :
        usdtBal >= out + req.netAmount /\ usdtBal' = usdtBal - out - net
  <2>1. (IF affiliate THEN cut ELSE leaves(req.referrer, cut)) \in 0 .. cut
    BY <1>3, <1>4 DEF leaves
  <2>2. leaves(to, req.netAmount) \in 0 .. req.netAmount
    BY <1>3 DEF leaves
  <2> HIDE DEF req
  <2> QED
    BY <1>2, <2>1, <2>2 DEF netOf
<1>6. MoneyInv'
  <2>1. totalEscrow \in Nat /\ platformEarnings \in Nat /\ usdtBal \in Nat
        /\ usdtBal >= totalEscrow + platformEarnings
    BY DEF IInv, MoneyInv, Solvent
  <2> HIDE DEF req
  <2>2. /\ totalEscrow' \in Nat /\ platformEarnings' \in Nat /\ usdtBal' \in Nat
    BY <2>1, <1>1, <1>2, <1>3, <1>4, <1>5
  <2>3. usdtBal' >= totalEscrow' + platformEarnings'
    BY <2>1, <1>1, <1>2, <1>3, <1>4, <1>5
  <2> QED
    BY <2>2, <2>3 DEF MoneyInv, Solvent
<1>7. RequestInv'
  BY <1>1, <1>3, SettleStep DEF IInv
<1> QED
  BY <1>1, <1>6, <1>7, Frames DEF IInv

LEMMA GiveBackStep ==
    ASSUME IInv, NEW id, _giveBack(id)
    PROVE  IInv'
<1> DEFINE req == withdrawals[id]
<1>1. /\ isPending(id) /\ withdrawals' = [withdrawals EXCEPT ![id].status = "Cancelled"]
      /\ totalEscrow >= req.grossAmount /\ totalEscrow' = totalEscrow - req.grossAmount
      /\ usdtBal >= req.grossAmount /\ usdtBal' = usdtBal - req.grossAmount
      /\ _removePendingId(id) /\ delivered' = [delivered EXCEPT ![id] = req.grossAmount]
      /\ UNCHANGED <<now, settings, registry, bankRefUsed, platformEarnings, onrampRefUsed, batch, quoted>>
  BY DEF _giveBack, escrowShare, refundAmount
<1>2. id \in Nat /\ req.grossAmount \in Nat
  BY <1>1, PendingRequest DEF IInv
<1>3. MoneyInv'
  <2> HIDE DEF req
  <2> QED
    BY <1>1, <1>2 DEF IInv, MoneyInv, Solvent
<1>4. RequestInv'
  BY <1>1, <1>2, SettleStep DEF IInv
<1> QED
  BY <1>1, <1>3, <1>4, Frames DEF IInv
-----------------------------------------------------------------------------
(* The reserve and the owner.                                              *)

LEMMA TakeStep ==
    ASSUME IInv, NEW to, NEW amount \in Nat, amount <= available, take(to, amount)
    PROVE  IInv'
<1>1. /\ platformEarnings' = earningsAfter(amount) /\ usdtBal' = usdtBal - leaves(to, amount)
      /\ available > 0
      /\ UNCHANGED <<now, settings, registry, requests, totalEscrow, onrampRefUsed, batch>>
  BY DEF take
<1>2. PICK out \in 0 .. amount : usdtBal' = usdtBal - out
  BY <1>1 DEF leaves
<1>3. MoneyInv'
  <2>1. /\ totalEscrow \in Nat /\ platformEarnings \in Nat /\ usdtBal \in Nat
        /\ usdtBal >= totalEscrow + platformEarnings
    BY DEF IInv, MoneyInv, Solvent
  <2>2. available = usdtBal - totalEscrow
    BY <2>1, <1>1 DEF available
  <2> QED
    BY <1>1, <1>2, <2>1, <2>2 DEF earningsAfter, MoneyInv, Solvent
<1> QED
  BY <1>1, <1>3, Frames DEF IInv

LEMMA ReserveStep ==
    ASSUME IInv, Reserve
    PROVE  IInv' /\ UNCHANGED withdrawals
<1>0. /\ totalEscrow \in Nat /\ platformEarnings \in Nat /\ usdtBal \in Nat
      /\ usdtBal >= totalEscrow + platformEarnings
  BY DEF IInv, MoneyInv, Solvent
<1>a. available \in Nat
  BY <1>0 DEF available
<1>1. ASSUME NEW amount \in Amounts, NEW txRef \in TxRefs, NEW to, onramp(to, amount, txRef)
      PROVE  IInv' /\ UNCHANGED withdrawals
  <2>1. /\ usdtBal >= totalEscrow + platformEarnings + amount
        /\ onrampRefUsed' = onrampRefUsed \cup {txRef}
        /\ usdtBal' = usdtBal - leaves(to, amount)
        /\ UNCHANGED <<now, settings, registry, requests, totalEscrow, platformEarnings, batch>>
    BY <1>1 DEF onramp, onrampAccepts, reserved
  <2>2. amount \in Nat
    BY RouterAssumption
  <2>3. PICK out \in 0 .. amount : usdtBal' = usdtBal - out
    BY <2>1, <2>2 DEF leaves
  <2>4. MoneyInv'
    BY <2>1, <2>2, <2>3, <1>0 DEF MoneyInv, Solvent
  <2>5. RampInv'
    BY <2>1 DEF RampInv, IInv
  <2> QED
    BY <2>1, <2>4, <2>5, Frames DEF IInv, requests
<1>2. ASSUME NEW to, NEW customAmount \in Amounts \cup {0}, _withdraw(to, customAmount)
      PROVE  IInv' /\ UNCHANGED withdrawals
  <2> DEFINE amount == IF 0 < customAmount /\ customAmount <= available
                       THEN customAmount ELSE available
  <2>1. amount \in Nat /\ amount <= available
    BY <1>a, RouterAssumption
  <2>2. take(to, amount)
    BY <1>2 DEF _withdraw
  <2> HIDE DEF amount
  <2> QED
    BY <2>1, <2>2, TakeStep DEF take, requests
<1>3. ASSUME rescueToken
      PROVE  IInv' /\ UNCHANGED withdrawals
  <2>1. take(platformWallet, available) /\ available <= available
    BY <1>3, <1>a DEF rescueToken
  <2> QED
    BY <2>1, <1>a, TakeStep DEF take, requests
<1>4. ASSUME NEW amount \in Amounts, topUp(amount)
      PROVE  IInv' /\ UNCHANGED withdrawals
  <2>1. /\ usdtBal' = usdtBal + amount /\ amount \in Nat
        /\ UNCHANGED <<now, settings, registry, requests, totalEscrow, platformEarnings, onrampRefUsed, batch>>
    BY <1>4, RouterAssumption DEF topUp
  <2>2. MoneyInv'
    BY <2>1, <1>0 DEF MoneyInv, Solvent
  <2> QED
    BY <2>1, <2>2, Frames DEF IInv, requests
<1> QED
  BY <1>1, <1>2, <1>3, <1>4 DEF Reserve

LEMMA SetterStep ==
    ASSUME IInv, NEW name, setOnly(name), ConfigInv'
    PROVE  IInv' /\ UNCHANGED withdrawals
<1>1. UNCHANGED <<now, registry, requests, money, onrampRefUsed, batch>>
  BY DEF setOnly, adminOnly
<1> QED
  BY <1>1, Frames DEF IInv, requests

LEMMA AdministerStep ==
    ASSUME IInv, Administer
    PROVE  IInv' /\ UNCHANGED withdrawals
<1>0. ConfigInv
  BY DEF IInv
<1>1. ASSUME NEW value \in BOOLEAN, setPaused(value)
      PROVE  IInv' /\ UNCHANGED withdrawals
  <2>1. paused' = value /\ UNCHANGED config
        /\ UNCHANGED <<now, registry, requests, money, onrampRefUsed, batch>>
    BY <1>1 DEF setPaused, adminOnly
  <2>2. ConfigInv'
    BY <2>1, <1>0 DEF ConfigInv, config
  <2> QED
    BY <2>1, <2>2, Frames DEF IInv, requests
<1>2. ASSUME NEW x \in FeeChoices, setFeeBps(x)
      PROVE  ConfigInv' /\ setOnly("feeBps")
  BY <1>0, <1>2, RouterAssumption DEF setFeeBps, setOnly, ConfigInv, MAX_FEE_BPS
<1>3. ASSUME NEW x \in TimeoutChoices, setPayoutTimeout(x)
      PROVE  ConfigInv' /\ setOnly("payoutTimeout")
  <2>1. x \in Nat
    BY RouterAssumption
  <2>2. payoutTimeout' \in MIN_TIMEOUT .. MAX_TIMEOUT
    <3>1. MIN_TIMEOUT <= x /\ x <= MAX_TIMEOUT /\ payoutTimeout' = x
      BY <1>3 DEF setPayoutTimeout
    <3>2. MIN_TIMEOUT <= x /\ x <= MAX_TIMEOUT
      BY <3>1
    <3>3. MIN_TIMEOUT \in Nat /\ MAX_TIMEOUT \in Nat
      BY DEF MIN_TIMEOUT, MAX_TIMEOUT
    <3>4. x \in MIN_TIMEOUT .. MAX_TIMEOUT
      BY ONLY <2>1, <3>2, <3>3
    <3> QED
      BY ONLY <3>1, <3>4
  <2> QED
    BY <2>2, <1>0, <1>3 DEF setPayoutTimeout, setOnly, ConfigInv
<1>4. ASSUME NEW x \in MinChoices, setMinWithdrawUsdt(x)
      PROVE  ConfigInv' /\ setOnly("minWithdrawUsdt")
  BY <1>0, <1>4, RouterAssumption DEF setMinWithdrawUsdt, setOnly, ConfigInv
<1>5. ASSUME NEW x \in SlippageChoices, setMaxSlippage(x)
      PROVE  ConfigInv' /\ setOnly("maxSlippageBps")
  BY <1>0, <1>5, RouterAssumption DEF setMaxSlippage, setOnly, ConfigInv, MAX_SLIPPAGE_CAP
<1>6. ASSUME NEW x \in ShareChoices, setAffiliateShare(x)
      PROVE  ConfigInv' /\ setOnly("affiliateShareBps")
  BY <1>0, <1>6, RouterAssumption DEF setAffiliateShare, setOnly, ConfigInv, MAX_SHARE_BPS
<1>7. ASSUME NEW x \in Wallets, setPlatformWallet(x)
      PROVE  ConfigInv' /\ setOnly("platformWallet")
  BY <1>0, <1>7 DEF setPlatformWallet, setOnly, ConfigInv
<1>8. ASSUME NEW x \in Affiliates, setAffiliate(x)
      PROVE  ConfigInv' /\ setOnly("affiliate")
  <2>1. affiliate' \in BOOLEAN
    BY <1>8, RouterAssumption DEF setAffiliate
  <2> QED
    BY <2>1, <1>0, <1>8 DEF setAffiliate, setOnly, ConfigInv
<1>9. ASSUME NEW x \in Affiliates, setAffiliateEnabled(x)
      PROVE  ConfigInv' /\ setOnly("affiliateEnabled")
  <2>1. affiliateEnabled' \in BOOLEAN
    BY <1>9, RouterAssumption DEF setAffiliateEnabled
  <2> QED
    BY <2>1, <1>0, <1>9 DEF setAffiliateEnabled, setOnly, ConfigInv
<1> DEFINE members == {x \in Accounts : isAdmin[x]}
<1>a. /\ owner \in Accounts /\ admins \in Seq(Accounts)
      /\ isAdmin \in [Accounts -> BOOLEAN] /\ adminIdxOf \in [Accounts -> Nat]
      /\ Indexed(admins, adminIdxOf, members)
  BY DEF IInv, RegistryInv, AdminsIndexed
<1>10. ASSUME NEW x \in Accounts, addAdmin(x)
       PROVE  IInv' /\ UNCHANGED withdrawals
  <2>1. /\ ~isAdmin[x] /\ isAdmin' = [isAdmin EXCEPT ![x] = TRUE]
        /\ adminIdxOf' = [adminIdxOf EXCEPT ![x] = Len(admins)] /\ admins' = Append(admins, x)
        /\ UNCHANGED <<now, settings, owner, requests, money, onrampRefUsed, batch>>
    BY <1>10 DEF addAdmin
  <2>2. isAdmin' \in [Accounts -> BOOLEAN] /\ {y \in Accounts : isAdmin[y]}' = members \cup {x}
    BY <2>1, <1>a
  <2>3. /\ admins' \in Seq(Accounts) /\ adminIdxOf' \in [Accounts -> Nat]
        /\ Indexed(admins', adminIdxOf', members \cup {x})
    <3>1. x \notin members /\ members \in SUBSET Accounts
      BY <2>1
    <3> HIDE DEF members
    <3> QED
      BY <3>1, <2>1, <1>a, AppendIndexed
  <2>4. RegistryInv'
    BY <2>1, <2>2, <2>3, <1>a DEF RegistryInv, AdminsIndexed
  <2> QED
    BY <2>1, <2>4, Frames DEF IInv, requests
<1>11. ASSUME NEW x \in Accounts, removeAdmin(x)
       PROVE  IInv' /\ UNCHANGED withdrawals
  <2>1. /\ isAdmin[x] /\ isAdmin' = [isAdmin EXCEPT ![x] = FALSE]
        /\ adminIdxOf' = reindex(adminIdxOf, admins, x)
        /\ admins' = swapPop(admins, adminIdxOf[x])
        /\ UNCHANGED <<now, settings, owner, requests, money, onrampRefUsed, batch>>
    BY <1>11 DEF removeAdmin
  <2>2. isAdmin' \in [Accounts -> BOOLEAN] /\ {y \in Accounts : isAdmin[y]}' = members \ {x}
    BY <2>1, <1>a
  <2>3. /\ admins' \in Seq(Accounts) /\ adminIdxOf' \in [Accounts -> Nat]
        /\ Indexed(admins', adminIdxOf', members \ {x})
    <3>1. x \in members /\ members \in SUBSET Accounts
      BY <2>1
    <3> HIDE DEF members
    <3> QED
      BY <3>1, <2>1, <1>a, SwapPopIndexed
  <2>4. RegistryInv'
    BY <2>1, <2>2, <2>3, <1>a DEF RegistryInv, AdminsIndexed
  <2> QED
    BY <2>1, <2>4, Frames DEF IInv, requests
<1>12. ASSUME NEW x \in Accounts, transferOwnership(x)
       PROVE  IInv' /\ UNCHANGED withdrawals
  <2>1. /\ owner' = x
        /\ UNCHANGED <<now, settings, admins, isAdmin, adminIdxOf, requests, money, onrampRefUsed, batch>>
    BY <1>12 DEF transferOwnership
  <2>2. RegistryInv'
    BY <2>1, <1>a DEF RegistryInv, AdminsIndexed, Indexed
  <2> QED
    BY <2>1, <2>2, Frames DEF IInv, requests
<1> HIDE DEF members
<1> QED
  BY <1>1, <1>2, <1>3, <1>4, <1>5, <1>6, <1>7, <1>8, <1>9, <1>10, <1>11, <1>12, SetterStep
  DEF Administer

-----------------------------------------------------------------------------
(* Every step, at once for the invariant and for the vault.                *)

\* A step that leaves the requests alone only moves the surplus.
LEMMA TradeMaps ==
    ASSUME IInv', UNCHANGED withdrawals
    PROVE  Vault!Trade
<1>1. (usdtBal - totalEscrow)' \in Nat
  <2>1. totalEscrow' \in Nat /\ platformEarnings' \in Nat /\ usdtBal' \in Nat
        /\ usdtBal' >= totalEscrow' + platformEarnings'
    BY DEF IInv, MoneyInv, Solvent
  <2>2. \A a, b, c \in Nat : a >= b + c => a - b \in Nat
    OBVIOUS
  <2> QED
    BY <2>1, <2>2
<1>2. UNCHANGED <<[i \in Ids |-> phaseOf(i)],
                  [i \in Ids |-> IF i \in DOMAIN withdrawals
                                 THEN withdrawals[i].grossAmount ELSE 0]>>
  BY DEF phaseOf
<1> QED
  BY <1>1, <1>2 DEF Vault!Trade

\* A deposit opens its request, with the surplus as it was.
LEMMA CreateMaps ==
    ASSUME IInv, NEW user \in Users, NEW gross \in Nat, NEW bankRef \in BankRefs \cup {None},
           NEW referrer \in Referrers, _createWithdrawRequest(user, gross, bankRef, referrer)
    PROVE  Vault!Next
<1> DEFINE ph == [i \in Ids |-> phaseOf(i)]
           he == [i \in Ids |-> IF i \in DOMAIN withdrawals THEN withdrawals[i].grossAmount ELSE 0]
<1>0. PICK id \in Ids : id = Len(withdrawals) + 1
  BY DEF _createWithdrawRequest
<1>1. withdrawals \in Seq(Request) /\ Len(withdrawals) \in Nat /\ DOMAIN withdrawals = 1 .. id - 1
  BY <1>0 DEF IInv, RequestInv
<1>2. /\ totalEscrow' = totalEscrow + gross /\ usdtBal' = usdtBal + gross
      /\ \E req : /\ withdrawals' = Append(withdrawals, req)
                  /\ req.status = "Pending" /\ req.grossAmount = gross
  BY DEF _createWithdrawRequest
<1>3. PICK req : /\ withdrawals' = Append(withdrawals, req)
                 /\ req.status = "Pending" /\ req.grossAmount = gross
  BY <1>2
<1>4. /\ DOMAIN withdrawals' = 1 .. id /\ withdrawals'[id] = req
      /\ \A i \in 1 .. id - 1 : withdrawals'[i] = withdrawals[i]
  BY <1>0, <1>1, <1>3
<1>5. id \in Nat /\ id \notin DOMAIN withdrawals /\ DOMAIN withdrawals' = DOMAIN withdrawals \cup {id}
      /\ \A i \in DOMAIN withdrawals : withdrawals'[i] = withdrawals[i]
  BY <1>0, <1>1, <1>4
<1>6. ph[id] = "none" /\ ph' = [ph EXCEPT ![id] = "held"]
  <2>2. phaseOf(id) = "none"
    BY <1>5 DEF phaseOf
  <2>3. phaseOf(id)' = "held"
    BY <1>3, <1>4, <1>5 DEF phaseOf
  <2>4. ASSUME NEW i \in Ids, i # id PROVE phaseOf(i)' = phaseOf(i)
    <3>1. CASE i \in DOMAIN withdrawals
      <4>1. i \in DOMAIN withdrawals' /\ withdrawals'[i] = withdrawals[i]
        BY <3>1, <1>5
      <4> QED
        BY <3>1, <4>1 DEF phaseOf
    <3>2. CASE i \notin DOMAIN withdrawals
      <4>1. i \notin DOMAIN withdrawals'
        BY <3>2, <2>4, <1>5
      <4> QED
        BY <3>2, <4>1 DEF phaseOf
    <3> QED
      BY <3>1, <3>2
  <2> QED
    BY <2>2, <2>3, <2>4
<1>7. he'[id] = gross /\ he' = [he EXCEPT ![id] = gross]
  BY <1>2, <1>3, <1>4, <1>5
<1>8. (usdtBal - totalEscrow)' = usdtBal - totalEscrow
  BY <1>2 DEF IInv, MoneyInv
<1> HIDE DEF ph, he
<1>9. /\ ph[id] = "none" /\ ph' = [ph EXCEPT ![id] = "held"]
      /\ he'[id] \in Nat /\ he' = [he EXCEPT ![id] = he'[id]]
  BY <1>6, <1>7
<1>10. Vault!Open(id)
  BY <1>8, <1>9 DEF Vault!Open, Vault!Move, ph, he
<1> QED
  BY <1>10 DEF Vault!Next

\* How the phases move when one pending request is settled.
LEMMA SettlePhases ==
    ASSUME RequestInv, NEW id, isPending(id), NEW st \in {"Confirmed", "Cancelled"},
           withdrawals' = [withdrawals EXCEPT ![id].status = st]
    PROVE  /\ id \in Ids
           /\ [i \in Ids |-> phaseOf(i)][id] = "held"
           /\ [i \in Ids |-> phaseOf(i)]' =
                 [[i \in Ids |-> phaseOf(i)] EXCEPT
                    ![id] = IF st = "Confirmed" THEN "released" ELSE "returned"]
           /\ UNCHANGED [i \in Ids |-> IF i \in DOMAIN withdrawals
                                       THEN withdrawals[i].grossAmount ELSE 0]
<1>1. /\ withdrawals \in Seq(Request) /\ DOMAIN withdrawals = 1 .. Len(withdrawals)
      /\ id \in DOMAIN withdrawals /\ withdrawals[id].status = "Pending"
      /\ Len(withdrawals) \in Nat /\ Len(withdrawals) <= MaxRequests
  BY DEF RequestInv, isPending
<1>2. id \in Ids /\ withdrawals[id] \in Request
  BY <1>1, RouterAssumption DEF Ids
<1>3. /\ DOMAIN withdrawals' = DOMAIN withdrawals
      /\ withdrawals'[id].status = st
      /\ withdrawals'[id].grossAmount = withdrawals[id].grossAmount
      /\ \A i \in DOMAIN withdrawals : i # id => withdrawals'[i] = withdrawals[i]
  BY <1>1, <1>2 DEF Request
<1>4. phaseOf(id) = "held"
  BY <1>1 DEF phaseOf
<1>5. phaseOf(id)' = IF st = "Confirmed" THEN "released" ELSE "returned"
  BY <1>1, <1>3 DEF phaseOf
<1>6. \A i \in Ids : i # id => phaseOf(i)' = phaseOf(i)
  <2> SUFFICES ASSUME NEW i \in Ids, i # id PROVE phaseOf(i)' = phaseOf(i)
    OBVIOUS
  <2>1. CASE i \in DOMAIN withdrawals
    <3>1. i \in DOMAIN withdrawals' /\ withdrawals'[i] = withdrawals[i]
      BY <2>1, <1>3
    <3> QED
      BY <2>1, <3>1 DEF phaseOf
  <2>2. CASE i \notin DOMAIN withdrawals
    <3>1. i \notin DOMAIN withdrawals'
      BY <2>2, <1>3
    <3> QED
      BY <2>2, <3>1 DEF phaseOf
  <2> QED
    BY <2>1, <2>2
<1>7. [i \in Ids |-> phaseOf(i)][id] = "held"
  BY <1>2, <1>4
<1>8. [i \in Ids |-> phaseOf(i)]' =
          [[i \in Ids |-> phaseOf(i)] EXCEPT
             ![id] = IF st = "Confirmed" THEN "released" ELSE "returned"]
  BY <1>2, <1>5, <1>6
<1>9. UNCHANGED [i \in Ids |-> IF i \in DOMAIN withdrawals
                               THEN withdrawals[i].grossAmount ELSE 0]
  BY <1>1, <1>3
<1> QED
  BY <1>2, <1>7, <1>8, <1>9

\* A confirmation leaves at most its own gross amount to the surplus.
LEMMA ConfirmMaps ==
    ASSUME IInv, NEW id, NEW to, _confirm(id, to)
    PROVE  Vault!Next
<1> DEFINE req == withdrawals[id]
           ph == [i \in Ids |-> phaseOf(i)]
           he == [i \in Ids |-> IF i \in DOMAIN withdrawals THEN withdrawals[i].grossAmount ELSE 0]
<1>1. /\ isPending(id) /\ withdrawals' = [withdrawals EXCEPT ![id].status = "Confirmed"]
      /\ totalEscrow >= req.grossAmount /\ totalEscrow' = totalEscrow - req.grossAmount
  BY DEF _confirm, confirmable, escrowShare
<1>2. PICK cut \in cuts(req) :
        LET referral == IF affiliate THEN cut ELSE leaves(req.referrer, cut)
        IN  usdtBal' = usdtBal - referral - leaves(to, netOf(req))
  BY DEF _confirm
<1>3. /\ req.grossAmount \in Nat /\ req.fee \in Nat /\ req.netAmount \in Nat
      /\ req.netAmount + req.fee = req.grossAmount
  BY <1>1, PendingRequest DEF IInv
<1>4. cut \in 0 .. req.fee
  BY <1>2, <1>3, CutBound DEF IInv
<1>5. PICK out \in 0 .. req.fee, net \in 0 .. req.netAmount : usdtBal' = usdtBal - out - net
  <2>1. (IF affiliate THEN cut ELSE leaves(req.referrer, cut)) \in 0 .. req.fee
    BY <1>3, <1>4 DEF leaves
  <2>2. leaves(to, req.netAmount) \in 0 .. req.netAmount
    BY <1>3 DEF leaves
  <2> HIDE DEF req
  <2> QED
    BY <1>2, <2>1, <2>2 DEF netOf
<1>6. PICK kept \in 0 .. req.grossAmount :
        (usdtBal - totalEscrow)' = (usdtBal - totalEscrow) + kept
  <2> DEFINE kept == req.grossAmount - out - net
  <2>1. totalEscrow \in Nat /\ usdtBal \in Nat
    BY DEF IInv, MoneyInv
  <2> HIDE DEF req
  <2>2. kept \in 0 .. req.grossAmount
    BY <1>3
  <2>3. (usdtBal - totalEscrow)' = (usdtBal - totalEscrow) + kept
    BY <2>1, <1>1, <1>3, <1>5
  <2> HIDE DEF kept
  <2> QED
    BY <2>2, <2>3
<1>7. usdtBal - totalEscrow \in Nat
  BY DEF IInv, MoneyInv, Solvent
<1>8. /\ id \in Ids /\ ph[id] = "held" /\ ph' = [ph EXCEPT ![id] = "released"] /\ UNCHANGED he
  BY <1>1, SettlePhases DEF IInv
<1>9. he[id] = req.grossAmount
  BY <1>1, <1>8 DEF isPending
<1>10. Vault!Release(id)
  <2> DEFINE surplus == usdtBal - totalEscrow
  <2> HIDE DEF req, ph, he, surplus
  <2>1. surplus' = surplus + kept /\ surplus \in Nat /\ kept \in 0 .. req.grossAmount
    BY <1>6, <1>7 DEF surplus
  <2>2. surplus' \in Nat /\ surplus <= surplus' /\ surplus' <= surplus + req.grossAmount
    BY <2>1, <1>3
  <2> QED
    BY <2>2, <1>8, <1>9 DEF Vault!Release, Vault!Move, ph, he, surplus
<1> QED
  BY <1>8, <1>10 DEF Vault!Next

\* A request taken back returns whole and leaves the surplus as it was.
LEMMA GiveBackMaps ==
    ASSUME IInv, NEW id, _giveBack(id)
    PROVE  Vault!Next
<1> DEFINE req == withdrawals[id]
<1>1. /\ isPending(id) /\ withdrawals' = [withdrawals EXCEPT ![id].status = "Cancelled"]
      /\ totalEscrow' = totalEscrow - req.grossAmount /\ usdtBal' = usdtBal - req.grossAmount
  BY DEF _giveBack, escrowShare, refundAmount
<1>2. req.grossAmount \in Nat
  BY <1>1, PendingRequest DEF IInv
<1>3. UNCHANGED (usdtBal - totalEscrow)
  <2> HIDE DEF req
  <2> QED
    BY <1>1, <1>2 DEF IInv, MoneyInv
<1>4. Vault!Return(id) /\ id \in Ids
  BY <1>1, <1>3, SettlePhases DEF IInv, Vault!Return, Vault!Move
<1> QED
  BY <1>4 DEF Vault!Next

-----------------------------------------------------------------------------
(* The steps of the router together.                                       *)

LEMMA OpenStep ==
    ASSUME IInv, Open
    PROVE  IInv' /\ Vault!Next
<1>1. PICK user \in Users, amount \in Amounts, bankRef \in BankRefs \cup {None},
           referrer \in Referrers : _createWithdrawRequest(user, amount, bankRef, referrer)
  BY DEF Open, deposit, depositSwapped
<1>2. amount \in Nat
  BY RouterAssumption
<1> QED
  BY <1>1, <1>2, CreateStep, CreateMaps

LEMMA SettlementStep ==
    ASSUME IInv, Settle
    PROVE  IInv' /\ Vault!Next
<1>1. ASSUME NEW id, refund(id)
      PROVE  IInv' /\ Vault!Next
  BY <1>1, GiveBackStep, GiveBackMaps DEF refund
<1>2. ASSUME NEW id, NEW to, confirm(id, to)
      PROVE  IInv' /\ Vault!Next
  <2>1. _confirm(id, to) /\ UNCHANGED batch
    BY <1>2 DEF confirm
  <2>2. ConfigInv' /\ RegistryInv' /\ RequestInv' /\ MoneyInv' /\ UNCHANGED <<now, onrampRefUsed>>
    BY <2>1, ConfirmStep
  <2> QED
    BY <2>1, <2>2, ConfirmMaps, Frames DEF IInv
<1>3. ASSUME NEW id, NEW user, cancel(user, id)
      PROVE  IInv' /\ Vault!Next
  BY <1>3, GiveBackStep, GiveBackMaps DEF cancel
<1>4. ASSUME NEW ids \in Batches, confirmBatch(ids)
      PROVE  IInv' /\ Vault!Next
  <2>1. batch' = ids /\ UNCHANGED <<now, settings, registry, requests, money, onrampRefUsed>>
    BY <1>4 DEF confirmBatch
  <2>2. RampInv'
    BY <2>1, RouterAssumption DEF IInv, RampInv
  <2>3. IInv'
    BY <2>1, <2>2, Frames DEF IInv
  <2> QED
    BY <2>1, <2>3, TradeMaps DEF requests, Vault!Next
<1>5. ASSUME batchIteration
      PROVE  IInv' /\ Vault!Next
  <2>1. batch' = Tail(batch) /\ batch # <<>> /\ batch \in Seq(Nat)
    BY <1>5 DEF batchIteration, idle, IInv, RampInv
  <2>2. batch' \in Seq(Nat)
    BY <2>1
  <2>3. CASE _confirm(Head(batch), platformWallet)
    <3>1. ConfigInv' /\ RegistryInv' /\ RequestInv' /\ MoneyInv' /\ UNCHANGED <<now, onrampRefUsed>>
      BY <2>3, ConfirmStep
    <3>2. RampInv'
      BY <2>2, <3>1 DEF IInv, RampInv
    <3> QED
      BY <2>3, <3>1, <3>2, ConfirmMaps DEF IInv
  <2>4. CASE UNCHANGED <<now, settings, registry, requests, money, onrampRefUsed>>
    <3>1. RampInv'
      BY <2>2, <2>4 DEF IInv, RampInv
    <3>2. IInv'
      BY <2>4, <3>1, Frames DEF IInv
    <3> QED
      BY <2>4, <3>2, TradeMaps DEF requests, Vault!Next
  <2> QED
    BY <1>5, <2>3, <2>4 DEF batchIteration
<1> QED
  BY <1>1, <1>2, <1>3, <1>4, <1>5 DEF Settle

LEMMA NextStep ==
    ASSUME IInv, [Next]_vars
    PROVE  IInv' /\ [Vault!Next]_(Vault!vars)
<1>1. CASE Open
  BY <1>1, OpenStep
<1>2. CASE Settle
  BY <1>2, SettlementStep
<1>3. CASE Reserve
  BY <1>3, ReserveStep, TradeMaps DEF Vault!Next
<1>4. CASE Administer
  BY <1>4, AdministerStep, TradeMaps DEF Vault!Next
<1>5. CASE Tick
  <2>1. now' \in Nat /\ UNCHANGED <<settings, registry, requests, money, onrampRefUsed, batch>>
    BY <1>5, RouterAssumption DEF Tick
  <2>2. RampInv'
    BY <2>1 DEF IInv, RampInv
  <2>3. IInv'
    BY <2>1, <2>2, Frames DEF IInv
  <2> QED
    BY <2>1, <2>3, TradeMaps DEF requests, Vault!Next
<1>6. CASE UNCHANGED vars
  <2>1. IInv'
    BY <1>6, Frames DEF IInv, vars
  <2> QED
    BY <1>6, <2>1, TradeMaps DEF vars, requests, Vault!Next
<1> QED
  BY <1>1, <1>2, <1>3, <1>4, <1>5, <1>6 DEF Next

-----------------------------------------------------------------------------
(* What a step does to the requests, whoever takes it.                     *)

payout(req) == CASE req.status = "Pending" -> 0
                 [] req.status = "Confirmed" -> req.netAmount
                 [] req.status = "Cancelled" -> req.grossAmount

Opened ==
    \E id \in Ids, req \in Request :
        /\ id = Len(withdrawals) + 1 /\ req.status = "Pending"
        /\ withdrawals' = Append(withdrawals, req)
        /\ quoted' = [quoted EXCEPT ![id] = req.netAmount] /\ UNCHANGED delivered
        /\ totalEscrow' = totalEscrow + req.grossAmount

Closed(id, st) ==
    /\ isPending(id)
    /\ st = "Confirmed" => now < withdrawals[id].expiresAt
    /\ withdrawals' = [withdrawals EXCEPT ![id].status = st]
    /\ delivered' = [delivered EXCEPT ![id] = IF st = "Confirmed" THEN withdrawals[id].netAmount
                                              ELSE withdrawals[id].grossAmount]
    /\ UNCHANGED quoted
    /\ totalEscrow' = totalEscrow - withdrawals[id].grossAmount

Untouched == UNCHANGED <<withdrawals, quoted, delivered, totalEscrow>>

LEMMA OpenOpens ==
    ASSUME IInv, Open
    PROVE  Opened
<1>1. PICK user \in Users, gross \in Amounts, bankRef \in BankRefs \cup {None},
           referrer \in Referrers : _createWithdrawRequest(user, gross, bankRef, referrer)
  BY DEF Open, deposit, depositSwapped
<1> DEFINE id == Len(withdrawals) + 1
           req == [user |-> user, grossAmount |-> gross, fee |-> feeOf(gross),
                   netAmount |-> gross - feeOf(gross), createdAt |-> now,
                   expiresAt |-> expiresAt, status |-> "Pending", bankRef |-> bankRef,
                   referrer |-> referrer]
<1>2. /\ id \in Ids /\ withdrawals' = Append(withdrawals, req)
      /\ quoted' = [quoted EXCEPT ![id] = previewDeposit(gross)] /\ UNCHANGED delivered
      /\ totalEscrow' = totalEscrow + gross
  BY <1>1 DEF _createWithdrawRequest
<1>3. gross \in Nat
  BY RouterAssumption
<1>4. feeOf(gross) \in 0 .. gross
  BY <1>3, FeeBound DEF IInv
<1>5. feeOf(gross) \in Nat /\ gross - feeOf(gross) \in Nat
  BY <1>3, <1>4
<1>6. now \in Nat
  BY DEF IInv, RampInv
<1>7. expiresAt \in Nat
  BY ExpiryNat
<1>8. req \in Request
  BY <1>3, <1>5, <1>6, <1>7 DEF Request, WithdrawStatus
<1>9. /\ req.status = "Pending" /\ req.netAmount = previewDeposit(gross)
      /\ req.grossAmount = gross
  BY DEF previewDeposit
<1> HIDE DEF id, req
<1> QED
  BY <1>2, <1>8, <1>9 DEF Opened, id

LEMMA SettleCloses ==
    ASSUME IInv, Settle
    PROVE  Untouched \/ \E id, st : st \in {"Confirmed", "Cancelled"} /\ Closed(id, st)
<1>1. ASSUME NEW id, _giveBack(id) PROVE Closed(id, "Cancelled")
  BY <1>1 DEF _giveBack, Closed, refundAmount, escrowShare
<1>2. ASSUME NEW id, NEW to, _confirm(id, to) PROVE Closed(id, "Confirmed")
  BY <1>2 DEF _confirm, confirmable, expiryOf, Closed, netOf, escrowShare
<1>3. \/ \E id : _giveBack(id)
      \/ \E id, to : _confirm(id, to)
      \/ UNCHANGED <<requests, money>>
  BY DEF Settle, refund, cancel, confirm, confirmBatch, batchIteration
<1> QED
  BY <1>1, <1>2, <1>3 DEF Untouched, requests, money

LEMMA RequestMoves ==
    ASSUME IInv, [Next]_vars
    PROVE  \/ Opened \/ Untouched
           \/ \E id, st : st \in {"Confirmed", "Cancelled"} /\ Closed(id, st)
<1>1. CASE Open
  BY <1>1, OpenOpens
<1>2. CASE Settle
  BY <1>2, SettleCloses
<1>3. CASE Reserve
  <2>1. UNCHANGED <<requests, totalEscrow>>
    BY <1>3 DEF Reserve, onramp, _withdraw, rescueToken, take, topUp
  <2> QED
    BY <2>1 DEF Untouched, requests
<1>4. CASE Administer
  <2>1. UNCHANGED <<requests, totalEscrow>>
    <3>1. ASSUME NEW name, setOnly(name) PROVE UNCHANGED <<requests, totalEscrow>>
      BY <3>1 DEF setOnly, adminOnly, money
    <3>2. ASSUME NEW x, addAdmin(x) \/ removeAdmin(x) \/ transferOwnership(x)
          PROVE  UNCHANGED <<requests, totalEscrow>>
      BY <3>2 DEF addAdmin, removeAdmin, transferOwnership, money
    <3>3. ASSUME NEW x, setPaused(x) PROVE UNCHANGED <<requests, totalEscrow>>
      BY <3>3 DEF setPaused, adminOnly, money
    <3> QED
      BY <1>4, <3>1, <3>2, <3>3
      DEF Administer, setFeeBps, setPayoutTimeout, setMinWithdrawUsdt, setMaxSlippage,
          setAffiliateShare, setPlatformWallet, setAffiliate, setAffiliateEnabled
  <2> QED
    BY <2>1 DEF Untouched, requests
<1>5. CASE Tick
  BY <1>5 DEF Tick, Untouched, requests, money
<1>6. CASE UNCHANGED vars
  BY <1>6 DEF vars, Untouched, requests, money
<1> QED
  BY <1>1, <1>2, <1>3, <1>4, <1>5, <1>6 DEF Next

\* The quote is the net amount, and what has been paid follows from the status.
QuotesKept ==
    \A i \in Ids :
        IF i \in DOMAIN withdrawals
        THEN quoted[i] = withdrawals[i].netAmount /\ delivered[i] = payout(withdrawals[i])
        ELSE delivered[i] = 0

LEMMA QuotesStep ==
    ASSUME IInv, QuotesKept, [Next]_vars
    PROVE  QuotesKept'
<1>0. /\ withdrawals \in Seq(Request) /\ Len(withdrawals) \in Nat
      /\ DOMAIN withdrawals = 1 .. Len(withdrawals)
      /\ quoted \in [Ids -> Nat] /\ delivered \in [Ids -> Nat]
  BY DEF IInv, RequestInv
<1>1. CASE Untouched
  BY <1>1 DEF Untouched, QuotesKept, payout
<1>2. CASE Opened
  <2>1. PICK id \in Ids, req \in Request :
          /\ id = Len(withdrawals) + 1 /\ req.status = "Pending"
          /\ withdrawals' = Append(withdrawals, req)
          /\ quoted' = [quoted EXCEPT ![id] = req.netAmount] /\ UNCHANGED delivered
    BY <1>2 DEF Opened
  <2>2. /\ DOMAIN withdrawals' = DOMAIN withdrawals \cup {id} /\ id \notin DOMAIN withdrawals
        /\ withdrawals'[id] = req /\ \A i \in DOMAIN withdrawals : withdrawals'[i] = withdrawals[i]
    BY <1>0, <2>1
  <2>3. ASSUME NEW i \in Ids
        PROVE  IF i \in DOMAIN withdrawals'
               THEN quoted'[i] = withdrawals'[i].netAmount /\ delivered'[i] = payout(withdrawals'[i])
               ELSE delivered'[i] = 0
    <3>1. CASE i = id
      <4>1. quoted'[i] = req.netAmount /\ delivered'[i] = 0
        BY <1>0, <2>1, <2>2, <3>1 DEF QuotesKept
      <4>2. payout(req) = 0
        BY <2>1 DEF payout
      <4> QED
        BY <2>2, <3>1, <4>1, <4>2
    <3>2. CASE i # id
      <4>1. quoted'[i] = quoted[i] /\ delivered'[i] = delivered[i]
        BY <1>0, <2>1, <3>2
      <4> QED
        BY <2>2, <3>2, <4>1 DEF QuotesKept
    <3> QED
      BY <3>1, <3>2
  <2> QED
    BY <2>3 DEF QuotesKept, payout
<1>3. ASSUME NEW id, NEW st \in {"Confirmed", "Cancelled"}, Closed(id, st) PROVE QuotesKept'
  <2>1. id \in DOMAIN withdrawals /\ withdrawals[id] \in Request
    BY <1>0, <1>3 DEF Closed, isPending
  <2>2. /\ DOMAIN withdrawals' = DOMAIN withdrawals
        /\ withdrawals'[id] = [withdrawals[id] EXCEPT !.status = st]
        /\ \A i \in DOMAIN withdrawals : i # id => withdrawals'[i] = withdrawals[i]
    BY <1>0, <1>3, <2>1 DEF Closed
  <2>3. /\ withdrawals'[id].status = st
        /\ withdrawals'[id].netAmount = withdrawals[id].netAmount
        /\ withdrawals'[id].grossAmount = withdrawals[id].grossAmount
    BY <2>1, <2>2 DEF Request
  <2>4. ASSUME NEW i \in Ids
        PROVE  IF i \in DOMAIN withdrawals'
               THEN quoted'[i] = withdrawals'[i].netAmount /\ delivered'[i] = payout(withdrawals'[i])
               ELSE delivered'[i] = 0
    <3>1. CASE i = id
      <4>1. delivered'[i] = IF st = "Confirmed" THEN withdrawals[id].netAmount
                                                ELSE withdrawals[id].grossAmount
        BY <1>0, <1>3, <3>1 DEF Closed
      <4>2. quoted'[i] = quoted[i] /\ quoted[i] = withdrawals[i].netAmount
        BY <1>3, <2>1, <3>1 DEF Closed, QuotesKept
      <4>3. payout(withdrawals'[id]) = IF st = "Confirmed" THEN withdrawals[id].netAmount
                                                          ELSE withdrawals[id].grossAmount
        BY <2>3 DEF payout
      <4> QED
        BY <2>1, <2>2, <2>3, <3>1, <4>1, <4>2, <4>3
    <3>2. CASE i # id
      <4>1. quoted'[i] = quoted[i] /\ delivered'[i] = delivered[i]
        BY <1>0, <1>3, <3>2 DEF Closed
      <4> QED
        BY <2>2, <3>2, <4>1 DEF QuotesKept
    <3> QED
      BY <3>1, <3>2
  <2> QED
    BY <2>4 DEF QuotesKept, payout
<1> QED
  BY <1>1, <1>2, <1>3, RequestMoves

-----------------------------------------------------------------------------
(* The ledger: a step moves totalEscrow by the request it opens or closes. *)

LEMMA GrossInt ==
    ASSUME NEW w \in Seq(Request), NEW i \in DOMAIN w
    PROVE  w[i].grossAmount \in Int
<1>1. w[i] \in Request
  OBVIOUS
<1> QED
  BY <1>1 DEF Request

LEMMA EscrowedType ==
    ASSUME RequestInv
    PROVE  IsFiniteSet(Ids) /\ escrowed \in [Ids -> Int]
<1>1. IsFiniteSet(Ids)
  BY RouterAssumption, FS_Interval DEF Ids
<1>2. \A i \in DOMAIN withdrawals : withdrawals[i].grossAmount \in Int
  BY GrossInt DEF RequestInv
<1> QED
  BY <1>1, <1>2 DEF escrowed, isPending

LEMMA LedgerStep ==
    ASSUME IInv, IInv', EscrowLedger, [Next]_vars
    PROVE  EscrowLedger'
<1>0. /\ IsFiniteSet(Ids) /\ escrowed \in [Ids -> Int] /\ escrowed' \in [Ids -> Int]
      /\ withdrawals \in Seq(Request) /\ DOMAIN withdrawals = 1 .. Len(withdrawals)
      /\ Len(withdrawals) \in Nat
  <2>1. \A i \in DOMAIN withdrawals' : withdrawals'[i].grossAmount \in Int
    BY GrossInt DEF IInv, RequestInv
  <2>2. escrowed' \in [Ids -> Int]
    BY <2>1 DEF escrowed, isPending
  <2> QED
    BY <2>2, EscrowedType DEF IInv, RequestInv
<1>1. CASE Untouched
  BY <1>1 DEF Untouched, EscrowLedger, escrowed, isPending
<1>2. ASSUME NEW x \in Ids,
             \A i \in Ids : i # x => escrowed'[i] = escrowed[i],
             totalEscrow' = totalEscrow - escrowed[x] + escrowed'[x]
      PROVE  EscrowLedger'
  <2>1. SumFunction(escrowed') = SumFunction(escrowed) - escrowed[x] + escrowed'[x]
    BY <1>0, <1>2, SumUpdate
  <2> QED
    BY <1>2, <2>1 DEF EscrowLedger
<1>3. CASE Opened
  <2>1. PICK id \in Ids, req \in Request :
          /\ id = Len(withdrawals) + 1 /\ req.status = "Pending"
          /\ withdrawals' = Append(withdrawals, req)
          /\ totalEscrow' = totalEscrow + req.grossAmount
    BY <1>3 DEF Opened
  <2>2. /\ DOMAIN withdrawals' = DOMAIN withdrawals \cup {id} /\ id \notin DOMAIN withdrawals
        /\ withdrawals'[id] = req /\ \A i \in DOMAIN withdrawals : withdrawals'[i] = withdrawals[i]
    BY <1>0, <2>1
  <2>3. escrowed[id] = 0 /\ escrowed'[id] = req.grossAmount
    BY <2>1, <2>2 DEF escrowed, isPending
  <2>4. \A i \in Ids : i # id => escrowed'[i] = escrowed[i]
    BY <2>2 DEF escrowed, isPending
  <2>5. totalEscrow' = totalEscrow - escrowed[id] + escrowed'[id]
    BY <2>1, <2>3 DEF IInv, MoneyInv, Request
  <2> QED
    BY <1>2, <2>4, <2>5
<1>4. ASSUME NEW id, NEW st \in {"Confirmed", "Cancelled"}, Closed(id, st)
      PROVE  EscrowLedger'
  <2>1. id \in DOMAIN withdrawals /\ withdrawals[id] \in Request /\ id \in Ids
    BY <1>0, <1>4, RouterAssumption DEF Closed, isPending, IInv, RequestInv, Ids
  <2>2. /\ DOMAIN withdrawals' = DOMAIN withdrawals
        /\ withdrawals'[id].status = st
        /\ \A i \in DOMAIN withdrawals : i # id => withdrawals'[i] = withdrawals[i]
    BY <1>0, <1>4, <2>1 DEF Closed, Request
  <2>3. escrowed[id] = withdrawals[id].grossAmount /\ escrowed'[id] = 0
    BY <1>4, <2>1, <2>2 DEF escrowed, Closed, isPending
  <2>4. \A i \in Ids : i # id => escrowed'[i] = escrowed[i]
    BY <2>2 DEF escrowed, isPending
  <2>5. totalEscrow' = totalEscrow - escrowed[id] + escrowed'[id]
    BY <1>4, <2>1, <2>3 DEF IInv, MoneyInv, Request, Closed
  <2> QED
    BY <1>2, <2>1, <2>4, <2>5
<1> QED
  BY <1>1, <1>3, <1>4, RequestMoves

-----------------------------------------------------------------------------
(* The theorems.                                                           *)

\* The inductive invariant holds in every reachable state.
THEOREM RouterInvariant == Spec => []IInv
<1>1. IInv /\ [Next]_vars => IInv'
  BY NextStep
<1> QED
  BY <1>1, InitIInv, PTL DEF Spec

\* Every variable keeps its type.
THEOREM RouterTypeOK == Spec => []TypeOK
<1>1. IInv => TypeOK
  BY DEF IInv, ConfigInv, RegistryInv, RequestInv, MoneyInv, RampInv, TypeOK
<1> QED
  BY <1>1, RouterInvariant, PTL

\* The balance always covers the escrow of the users and the earnings of the
\* platform: confirm, cancel, refund and withdraw can always pay.
THEOREM RouterSolvent == Spec => []Solvent
<1>1. IInv => Solvent
  BY DEF IInv, MoneyInv
<1> QED
  BY <1>1, RouterInvariant, PTL

\* totalEscrow is the sum of the gross amounts of the pending requests, for
\* any number of them.
THEOREM RouterEscrowLedger == Spec => []EscrowLedger
<1>1. Init => EscrowLedger
  <2> SUFFICES ASSUME Init PROVE EscrowLedger
    OBVIOUS
  <2>1. \A i \in Ids : escrowed[i] = 0
    BY DEF Init, escrowed, isPending
  <2>2. SumFunction(escrowed) = 0
    BY <2>1, InitIInv, EscrowedType, SumZero DEF IInv
  <2> QED
    BY <2>2 DEF Init, EscrowLedger
<1>2. IInv /\ IInv' /\ EscrowLedger /\ [Next]_vars => EscrowLedger'
  BY LedgerStep
<1> QED
  BY <1>1, <1>2, RouterInvariant, PTL DEF Spec

\* The pending queue lists each pending request once and nothing else.
THEOREM RouterPendingIndexed == Spec => []PendingIndexed
<1>1. IInv => PendingIndexed
  BY DEF IInv, RequestInv
<1> QED
  BY <1>1, RouterInvariant, PTL

\* The administrators and their index agree.
THEOREM RouterAdminsIndexed == Spec => []AdminsIndexed
<1>1. IInv => AdminsIndexed
  BY DEF IInv, RegistryInv
<1> QED
  BY <1>1, RouterInvariant, PTL

\* The router implements the vault: each request is held once and leaves
\* once, whole or inside its own amount, and nothing else touches it.
THEOREM RouterEscrowKept == Spec => EscrowKept
<1>1. Init => Vault!Init
  <2> SUFFICES ASSUME Init PROVE Vault!Init
    OBVIOUS
  <2>1. withdrawals = <<>> /\ usdtBal = 0 /\ totalEscrow = 0
    BY DEF Init
  <2> QED
    BY <2>1 DEF Vault!Init, phaseOf
<1>2. IInv /\ [Next]_vars => [Vault!Next]_(Vault!vars)
  BY NextStep
<1> QED
  BY <1>1, <1>2, RouterInvariant, PTL DEF Spec, EscrowKept, Vault!Spec

\* A confirmed request has paid what was quoted at its deposit, a cancelled one
\* its gross amount, whatever the owner has set since.
THEOREM RouterPaidAsQuoted == Spec => []PaidAsQuoted
<1>1. Init => QuotesKept
  BY DEF Init, QuotesKept
<1>2. IInv /\ QuotesKept /\ [Next]_vars => QuotesKept'
  BY QuotesStep
<1>3. IInv /\ QuotesKept => PaidAsQuoted
  <2> SUFFICES ASSUME IInv, QuotesKept, NEW i \in DOMAIN withdrawals
               PROVE  delivered[i] = CASE withdrawals[i].status = "Pending" -> 0
                                       [] withdrawals[i].status = "Confirmed" -> quoted[i]
                                       [] withdrawals[i].status = "Cancelled" -> withdrawals[i].grossAmount
    BY DEF PaidAsQuoted
  <2>1. i \in Ids
    BY RouterAssumption DEF IInv, RequestInv, Ids
  <2> QED
    BY <2>1 DEF QuotesKept, payout
<1> QED
  BY <1>1, <1>2, <1>3, RouterInvariant, PTL DEF Spec

\* What the user may take back is not paid out any more, also when the owner
\* changes the timeout.
THEOREM RouterRefundableNeverConfirmed == Spec => RefundableNeverConfirmed
<1> DEFINE A == \A i \in DOMAIN withdrawals :
                   isPending(i) /\ now >= withdrawals[i].expiresAt
                       => withdrawals'[i].status # "Confirmed"
<1>1. ASSUME IInv, [Next]_vars PROVE A
  <2> SUFFICES ASSUME NEW i \in DOMAIN withdrawals, isPending(i), now >= withdrawals[i].expiresAt
               PROVE  withdrawals'[i].status # "Confirmed"
    OBVIOUS
  <2>1. /\ withdrawals \in Seq(Request) /\ withdrawals[i] \in Request
        /\ withdrawals[i].status = "Pending" /\ now \in Nat
    BY <1>1 DEF IInv, RequestInv, RampInv, isPending
  <2>2. CASE Untouched
    BY <2>1, <2>2 DEF Untouched
  <2>3. CASE Opened
    BY <2>1, <2>3 DEF Opened
  <2>4. ASSUME NEW id, NEW st \in {"Confirmed", "Cancelled"}, Closed(id, st)
        PROVE  withdrawals'[i].status # "Confirmed"
    <3>1. withdrawals' = [withdrawals EXCEPT ![id].status = st]
      BY <2>4 DEF Closed
    <3>2. CASE i # id
      BY <2>1, <3>1, <3>2
    <3>3. CASE i = id
      <4>1. withdrawals[i].expiresAt \in Nat
        BY <2>1 DEF Request
      <4>2. st = "Cancelled"
        BY <2>1, <2>4, <3>3, <4>1 DEF Closed
      <4>3. withdrawals'[i] = [withdrawals[i] EXCEPT !.status = "Cancelled"]
        BY <2>1, <3>1, <3>3, <4>2
      <4> QED
        BY <2>1, <4>3 DEF Request
    <3> QED
      BY <3>2, <3>3
  <2> QED
    BY <1>1, <2>2, <2>3, <2>4, RequestMoves
<1>2. IInv /\ [Next]_vars => A
  BY <1>1
<1> QED
  BY <1>2, RouterInvariant, PTL DEF Spec, RefundableNeverConfirmed
=============================================================================
