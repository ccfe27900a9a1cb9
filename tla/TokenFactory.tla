---------------------------- MODULE TokenFactory ----------------------------
(***************************************************************************)
(* TokenFactory.sol: token creation for a fee in USDT, the multi-level     *)
(* referral rewards paid or promised out of that fee, the report of the    *)
(* same fee to Affiliate.sol, the registry of the tokens and the base      *)
(* tokens forced into partner tokens.                                      *)
(*                                                                         *)
(* A transaction is one step and a revert the absence of a step.  Money    *)
(* is counted where the two contracts hold it; payers and payees are       *)
(* outside.  The factory may be moved to another USDT (setUsdt), the       *)
(* Affiliate contract keeps Usdt.  A type is basic or partner: the eight   *)
(* types of the code differ in their fee and in these two kinds only.      *)
(* Every type has its implementation, as deploy.ts leaves the factory.     *)
(***************************************************************************)
EXTENDS Affiliate, Sequences

CONSTANTS
    Factory,                 \* this contract, as a reporter
    Coins, Usdt, Stables,    \* the tokens it may hold; the first USDT; all USDTs
    MinWalk,                 \* the least number of links a cycle check follows, 10
    MaxLevels,               \* the cap on referralLevels, 10
    LevelChoices, PercentChoices, FeeChoices,
    Bases, MaxBases,         \* base tokens, and MAX_DEFAULT_PARTNER_BASES
    BaseLists, Deployed,     \* lists of bases given to a call, and by deploy.ts
    SwapOuts,                \* USDT a tax conversion brings
    MaxCreations,            \* bound on the tokens
    MaxExtras                \* bound on all but creations and payments

Types == {"basic", "partner"}

ASSUME TokenFactoryAssumption ==
    /\ Factory \in Reporters \ Outsiders
    /\ 4 <= Bps              \* the first percents are at most half of the fee
    /\ Usdt \in Stables /\ Stables \subseteq Coins
    /\ MinWalk \in Nat /\ MaxLevels \in Nat \ {0} /\ MaxLevels <= MinWalk
    /\ LevelChoices \subseteq 0 .. MaxLevels
    /\ PercentChoices \subseteq Seq(Nat) /\ FeeChoices \subseteq Nat
    /\ None \notin Bases /\ MaxBases \in Nat /\ BaseLists \subseteq Seq(Bases \cup {None})
    /\ Deployed \in Seq(Bases) /\ Len(Deployed) <= MaxBases /\ IsInjective(Deployed)
    /\ SwapOuts \subseteq Nat
    /\ MaxCreations \in Nat /\ MaxExtras \in Nat

VARIABLES
    usdt,
    purse,                   \* what the factory holds of each coin
    creationFee,
    referrals, pendingRewards, totalPendingRewards,
    referralLevels, referralPercents, autoDistributeReward,
    affiliate,               \* an Affiliate contract is configured
    approved,                \* coins the Affiliate may pull from the factory
    totalTokensCreated,
    newest,                  \* the last token: for whom, its type, its bases and who was
                             \* rewarded how much for it; nothing reads the earlier ones
    defaultBases, isDefaultBase,
    excused,                 \* the owner's settings have spent promised rewards
    extras                   \* calls counted against MaxExtras

rewardVars == <<referrals, pendingRewards, totalPendingRewards>>
settingVars == <<usdt, creationFee, referralLevels, referralPercents,
                 autoDistributeReward, affiliate>>
tokenVars == <<totalTokensCreated, newest>>
baseVars == <<defaultBases, isDefaultBase>>
moneyVars == <<purse, approved, excused>>
factoryVars == <<rewardVars, settingVars, tokenVars, baseVars, moneyVars>>
vars == <<factoryVars, affiliateVars, extras>>

Token == [creator : Users, type : Types, bases : Seq(Bases), rewards : [Users -> Nat]]

TypeOK ==
    /\ AffiliateTypeOK
    /\ usdt \in Stables /\ purse \in [Coins -> Nat]
    /\ creationFee \in Nat
    /\ referrals \in [Users -> Users \cup {None}]
    /\ pendingRewards \in [Users -> Nat] /\ totalPendingRewards \in Nat
    /\ referralLevels \in 0 .. MaxLevels /\ referralPercents \in Seq(Nat)
    /\ autoDistributeReward \in BOOLEAN /\ affiliate \in BOOLEAN /\ approved \subseteq Coins
    /\ totalTokensCreated \in Nat /\ newest \in Token \cup {None}
    /\ defaultBases \in Seq(Bases) /\ isDefaultBase \subseteq Bases
    /\ excused \in BOOLEAN /\ extras \in Nat

Init ==
    /\ AffiliateInit
    /\ usdt = Usdt /\ purse = [c \in Coins |-> 0]
    /\ creationFee = Bps
    /\ referrals = [u \in Users |-> None]
    /\ pendingRewards = [u \in Users |-> 0] /\ totalPendingRewards = 0
    /\ referralLevels = 1 /\ referralPercents = <<1, 1>>
    /\ autoDistributeReward = TRUE /\ affiliate = TRUE /\ approved = {}
    /\ totalTokensCreated = 0 /\ newest = None
    /\ defaultBases = Deployed /\ isDefaultBase = Range(Deployed)
    /\ excused = FALSE /\ extras = 0

-----------------------------------------------------------------------------
(* Referrals.                                                              *)

\* The first n users from start upwards, None past the end of the chain.
upline(refs, start, n) ==
    LET at[i \in 1 .. n] ==
            IF i = 1 THEN start ELSE IF at[i - 1] = None THEN None ELSE refs[at[i - 1]]
    IN at

maxWalk_Slip(levels) == levels
maxWalk(levels) == IF levels * 2 < MinWalk THEN MinWalk ELSE levels * 2

\* The walk up from the proposed referrer meets the creator: CircularReferral.
circular(creator, referral) ==
    LET up == upline(referrals, referral, maxWalk(referralLevels))
    IN \E i \in DOMAIN up : up[i] = creator

\* A creation with this referral records and rewards nothing.
noReferral(creator, referral) == referral \in {None, creator}

referralsAfter(creator, referral) ==
    IF noReferral(creator, referral) \/ referrals[creator] # None
    THEN referrals ELSE [referrals EXCEPT ![creator] = referral]

\* What each user earns from a fee: level i of the creator's chain gets percent i.
rewardsOf(creator, referral, fee) ==
    LET refs == referralsAfter(creator, referral)
        up == upline(refs, refs[creator], referralLevels)
        paid(u) == {i \in DOMAIN up \cap DOMAIN referralPercents : up[i] = u}
    IN [u \in Users |->
          IF noReferral(creator, referral) THEN 0
          ELSE SumFunction([i \in paid(u) |-> (fee * referralPercents[i]) \div Bps])]

total(amounts) == SumFunction(amounts)

\* _processReferral(): bounced is who cannot be paid directly.
accrued(rewards, bounced) ==
    [u \in Users |-> IF ~ autoDistributeReward \/ u \in bounced THEN rewards[u] ELSE 0]

_processReferral(creator, referral, rewards, bounced) ==
    LET late == accrued(rewards, bounced)
    IN /\ referrals' = referralsAfter(creator, referral)
       /\ pendingRewards' = [u \in Users |-> pendingRewards[u] + late[u]]
       /\ totalPendingRewards' = totalPendingRewards + total(late)

-----------------------------------------------------------------------------
(* Base tokens of a partner token.                                         *)

\* _sanitizeBases(): the caller's bases, then the forced ones, without zeros
\* and duplicates.
distinct(list) ==
    LET firsts == {i \in DOMAIN list :
            list[i] # None /\ \A j \in 1 .. i - 1 : list[j] # list[i]}
        nth(n) == CHOOSE i \in firsts : Cardinality({j \in firsts : j < i}) = n - 1
    IN [n \in 1 .. Cardinality(firsts) |-> list[nth(n)]]

_sanitizeBases(bases, type) ==
    distinct(bases \o (IF type = "partner" THEN defaultBases ELSE <<>>))

-----------------------------------------------------------------------------
(* Creation.                                                               *)

\* _initAndRecord(): the salt counts the creator's tokens, so no address is taken.
_initAndRecord(creator, type, bases, rewards) ==
    /\ totalTokensCreated' = totalTokensCreated + 1
    /\ newest' = [creator |-> creator, type |-> type, rewards |-> rewards,
                  bases |-> _sanitizeBases(bases, type)]

\* _reportAffiliate(): the approval is given the first time it is short.
approvedAfter(fee) == IF affiliate /\ fee > 0 THEN approved \cup {usdt} ELSE approved

\* The fee comes in, the direct rewards go out, and the Affiliate pulls its cut.
settle(creator, referral, rewards, bounced) ==
    LET fee == creationFee
        direct == total(rewards) - total(accrued(rewards, bounced))
        funded == [purse EXCEPT ![usdt] = @ + fee - direct]
        reachable == IF Usdt \in approvedAfter(fee) THEN funded[Usdt] ELSE 0
        reported == affiliate /\ fee > 0
        pulled == IF reported /\ ~ reportReverts(Factory, creator, referral, fee, reachable)
                  THEN cut(creator, referral, fee) ELSE 0
    IN /\ IF reported THEN tryReport(Factory, creator, referral, fee, reachable)
                      ELSE UNCHANGED affiliateVars
       /\ approved' = approvedAfter(fee)
       /\ purse' = [funded EXCEPT ![Usdt] = @ - pulled]
       /\ excused' = (excused \/ total(rewards) + (IF usdt = Usdt THEN pulled ELSE 0) > fee)

\* createToken(), ownerCreateToken() and routerCreateToken() differ in who pays and in
\* who is given the supply.  Any of those to be rewarded may be unpayable (bounced).
createToken(creator, referral, type, bases) ==
    LET fee == creationFee
        rewards == rewardsOf(creator, referral, fee)
        payable == IF autoDistributeReward THEN {u \in Users : rewards[u] > 0} ELSE {}
    IN /\ totalTokensCreated < MaxCreations
       /\ noReferral(creator, referral) \/ ~ circular(creator, referral)
       /\ \E bounced \in SUBSET payable :
            _processReferral(creator, referral, rewards, bounced) /\ settle(creator, referral, rewards, bounced)
       /\ _initAndRecord(creator, type, bases, rewards)
       /\ UNCHANGED <<settingVars, baseVars, extras>>

-----------------------------------------------------------------------------
(* Money in and out.                                                       *)

claimReward(user) ==
    LET amount == pendingRewards[user]
    IN /\ amount > 0 /\ totalPendingRewards >= amount /\ purse[usdt] >= amount
       /\ pendingRewards' = [pendingRewards EXCEPT ![user] = 0]
       /\ totalPendingRewards' = totalPendingRewards - amount
       /\ purse' = [purse EXCEPT ![usdt] = @ - amount]
       /\ UNCHANGED <<referrals, settingVars, tokenVars,
                      baseVars, approved, excused, affiliateVars, extras>>

withdrawable_Slip(coin) == purse[coin]
withdrawable(coin) ==
    LET reserved == IF coin = usdt THEN totalPendingRewards ELSE 0
    IN IF purse[coin] > reserved THEN purse[coin] - reserved ELSE 0

withdrawFees(coin) ==
    /\ withdrawable(coin) > 0
    /\ purse' = [purse EXCEPT ![coin] = @ - withdrawable(coin)]
    /\ UNCHANGED <<rewardVars, settingVars, tokenVars, baseVars, approved, excused,
                   affiliateVars, extras>>

\* A conversion by the owner's daemon; one whose swap fails changes nothing here.
processTaxAuth(coin, out) ==
    /\ coin # usdt /\ purse[coin] > 0
    /\ purse' = [purse EXCEPT ![coin] = 0, ![usdt] = @ + out]
    /\ UNCHANGED <<rewardVars, settingVars, tokenVars, baseVars, approved, excused,
                   affiliateVars, extras>>

\* Tax of a token traded, which processTax() announces.
taxAccrues(coin, amount) ==
    /\ coin \notin Stables
    /\ purse' = [purse EXCEPT ![coin] = @ + amount]
    /\ UNCHANGED <<rewardVars, settingVars, tokenVars, baseVars, approved, excused, affiliateVars>>

-----------------------------------------------------------------------------
(* The owner's settings.                                                   *)

keepSettings == <<rewardVars, tokenVars, moneyVars, affiliateVars>>

\* Promises made in one USDT are not backed by another.
setUsdt(coin) ==
    /\ usdt' = coin
    /\ excused' = (excused \/ (coin # usdt /\ totalPendingRewards > 0))
    /\ UNCHANGED <<rewardVars, creationFee, referralLevels, referralPercents,
                   autoDistributeReward, affiliate, tokenVars, baseVars,
                   purse, approved, affiliateVars>>

setCreationFee(fee) ==
    /\ creationFee' = fee
    /\ UNCHANGED <<keepSettings, usdt, referralLevels, referralPercents,
                   autoDistributeReward, affiliate, baseVars>>

setReferralLevels(levels) ==
    /\ levels <= MaxLevels /\ referralLevels' = levels
    /\ UNCHANGED <<keepSettings, usdt, creationFee, referralPercents,
                   autoDistributeReward, affiliate, baseVars>>

\* At most half of the fee in all.
setReferralPercents(percents) ==
    /\ 2 * SumFunction(percents) <= Bps
    /\ referralPercents' = percents
    /\ UNCHANGED <<keepSettings, usdt, creationFee, referralLevels,
                   autoDistributeReward, affiliate, baseVars>>

setAutoDistributeReward(enabled) ==
    /\ autoDistributeReward' = enabled
    /\ UNCHANGED <<keepSettings, usdt, creationFee, referralLevels,
                   referralPercents, affiliate, baseVars>>

setAffiliate(on) ==
    /\ affiliate' = on
    /\ UNCHANGED <<keepSettings, usdt, creationFee, referralLevels,
                   referralPercents, autoDistributeReward, baseVars>>

addDefaultPartnerBase(base) ==
    /\ base \notin isDefaultBase /\ Len(defaultBases) < MaxBases
    /\ isDefaultBase' = isDefaultBase \cup {base}
    /\ defaultBases' = Append(defaultBases, base)
    /\ UNCHANGED <<keepSettings, settingVars>>

\* The last base takes the place of the one removed.
without_Slip(list, base) == SubSeq(list, 1, Len(list) - 1)
without(list, base) ==
    LET last == list[Len(list)]
    IN [i \in 1 .. Len(list) - 1 |-> IF list[i] = base THEN last ELSE list[i]]

removeDefaultPartnerBase(base) ==
    /\ base \in isDefaultBase
    /\ isDefaultBase' = isDefaultBase \ {base}
    /\ defaultBases' = without(defaultBases, base)
    /\ UNCHANGED <<keepSettings, settingVars>>

\* A list too long, or with a zero or a duplicate, is refused whole.
setDefaultPartnerBases(bases) ==
    /\ Len(bases) <= MaxBases /\ distinct(bases) = bases
    /\ defaultBases' = bases
    /\ isDefaultBase' = Range(bases)
    /\ UNCHANGED <<keepSettings, settingVars>>

-----------------------------------------------------------------------------

Creates ==
    \E creator \in Users, referral \in Users \cup {None}, type \in Types, bases \in BaseLists :
        createToken(creator, referral, type, bases)

Pays ==
    \/ \E u \in Users : claimReward(u)
    \/ \E c \in Coins : withdrawFees(c)
    \/ \E c \in Coins, out \in SwapOuts : processTaxAuth(c, out)

Settings ==
    \/ \E c \in Stables : setUsdt(c)
    \/ \E fee \in FeeChoices : setCreationFee(fee)
    \/ \E levels \in LevelChoices : setReferralLevels(levels)
    \/ \E percents \in PercentChoices : setReferralPercents(percents)
    \/ \E on \in BOOLEAN : setAutoDistributeReward(on) \/ setAffiliate(on)
    \/ \E base \in Bases : addDefaultPartnerBase(base) \/ removeDefaultPartnerBase(base)
    \/ \E bases \in BaseLists : setDefaultPartnerBases(bases)

Next ==
    \/ Creates
    \/ Pays
    \/ AffiliatePays /\ UNCHANGED <<factoryVars, extras>>
    \/ /\ extras < MaxExtras /\ extras' = extras + 1
       /\ \/ Settings
          \/ \E c \in Coins, amount \in Gifts : taxAccrues(c, amount)
          \/ AffiliateCalls /\ UNCHANGED factoryVars
          \/ AffiliateAdmin /\ UNCHANGED factoryVars

Spec == Init /\ [][Next]_vars

-----------------------------------------------------------------------------
(* Properties.                                                             *)

\* withdrawFees() and the report to the Affiliate leave the promised rewards in
\* the factory, unless the owner's settings gave away more than a fee, or moved
\* to another USDT, while rewards were promised; and the running total is right.
RewardsBacked ==
    /\ excused \/ purse[usdt] >= totalPendingRewards
    /\ totalPendingRewards = total(pendingRewards)

\* A new token, the last of the registry.
Created == totalTokensCreated' > totalTokensCreated

\* No creator is paid a referral reward out of his own fee, however many users
\* refer each other in a ring longer than the walk of the cycle check and however
\* the number of levels changes meanwhile.
NoSelfReward ==
    newest # None => newest.rewards[newest.creator] = 0

\* A partner token has every default base of the day, and no base twice.
PartnerPools ==
    [][Created /\ newest'.type = "partner" =>
          /\ isDefaultBase \subseteq Range(newest'.bases)
          /\ IsInjective(newest'.bases)]_vars
=============================================================================
