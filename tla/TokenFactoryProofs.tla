------------------------- MODULE TokenFactoryProofs -------------------------
(***************************************************************************)
(* TokenFactory with the Affiliate ledger and the tokens it composes, for  *)
(* any users, shares, fees, levels, percents and reporters, in five parts: *)
(*   - the Affiliate ledger: what is held covers what is pending, and the  *)
(*     pending amounts add up to the running total (AInv);                 *)
(*   - the factory's money: unless the owner has withdrawn it, the purse   *)
(*     covers the rewards owed, whose sum the running total is (FInv);     *)
(*   - the base list: no repetitions, each token at the place its rank     *)
(*     says, which adding and the removal by a swap both keep;             *)
(*   - the pools: a partner token is created with every default base of    *)
(*     that day, and with none of them twice;                              *)
(*   - the rings of referrals: nobody is met again on the way up, in       *)
(*     whatever order the creations come, so no reward goes to a creator.  *)
(***************************************************************************)
EXTENDS TokenFactory, Amounts, FiniteSetTheorems, TLAPS

\* Those a referrer has referred.
referredBy(r) == {u \in Users : referrerOf[u] = r}

\* What is promised is there, and the running total is the sum of it.
Covered == held >= totalPending
Balanced == totalPending = SumFunction(promised)

AInv ==
    /\ AffiliateTypeOK /\ creationFee \in Nat
    /\ Covered /\ Balanced /\ BindingsCounted

\* A user who is bound stays bound to the same referrer.
stays == \A u \in Users : referrerOf[u] # None => referrerOf'[u] = referrerOf[u]
BindingsStay == [][stays]_vars

-----------------------------------------------------------------------------
(* The calls of the Affiliate contract.                                    *)

\* The cut of a report is an amount.
LEMMA CutNat ==
    ASSUME AInv, NEW u \in Users, NEW ref \in Users \cup {None}, NEW fee \in Nat
    PROVE  cut(u, ref, fee) \in Nat
<1>1. shareBps \in Nat /\ Bps \in Nat \ {0}
    BY AffiliateAssumption DEF AInv, AffiliateTypeOK
<1>2. fee * shareBps \in Nat
    BY <1>1
<1>3. (fee * shareBps) \div Bps \in Nat
    BY <1>1, <1>2, DivNat
<1> QED
    BY <1>3 DEF cut

\* A binding with a credit keeps bindings and counts, and stays.
LEMMA BindStep ==
    ASSUME AInv, NEW u \in Users, NEW ref \in Users \cup {None}, ref # u, NEW amount \in Nat,
           bindAndCredit(u, ref, amount)
    PROVE  /\ referrerOf' \in [Users -> Users \cup {None}]
           /\ stats' \in [Users -> Stats]
           /\ BindingsCounted' /\ stays
           /\ SumFunction(promised')
                = SumFunction(promised) + (IF credited(u, ref) = None THEN 0 ELSE amount)
<1> DEFINE r0 == credited(u, ref)
<1> DEFINE new == referrerOf[u] = None
<1>1. /\ referrerOf \in [Users -> Users \cup {None}] /\ stats \in [Users -> Stats]
      /\ None \notin Users /\ IsFiniteSet(Users)
    BY AffiliateAssumption DEF AInv, AffiliateTypeOK
<1>2. /\ referrerOf' = [referrerOf EXCEPT ![u] = r0]
      /\ r0 \in Users \cup {None} /\ r0 # u /\ (~new => r0 = referrerOf[u])
    BY <1>1 DEF bindAndCredit, credited, AInv, BindingsCounted
<1> DEFINE p(r) == IF r = r0 THEN stats[r].pending + amount ELSE stats[r].pending
<1> DEFINE n(r) == IF r = r0 /\ new THEN stats[r].referredCount + 1 ELSE stats[r].referredCount
<1>3. \A r \in Users : stats'[r] = [stats[r] EXCEPT !.pending = p(r), !.referredCount = n(r)]
    BY DEF bindAndCredit
<1>4. stats' = [r \in Users |-> stats'[r]]
    BY DEF bindAndCredit
<1>5. \A r \in Users : stats[r] \in Stats /\ p(r) \in Nat /\ n(r) \in Nat
    BY <1>1 DEF Stats
<1>6. \A r \in Users : /\ stats'[r] \in Stats
                          /\ (stats'[r]).referredCount = n(r)
                          /\ (stats'[r]).pending = p(r)
    <2> TAKE r \in Users
    <2>1. stats[r] \in Stats /\ p(r) \in Nat /\ n(r) \in Nat
        BY <1>5
    <2> DEFINE s == [stats[r] EXCEPT !.pending = p(r)]
    <2>2. stats'[r] = [s EXCEPT !.referredCount = n(r)]
        BY <1>3, <2>1 DEF Stats
    <2> HIDE DEF p, n
    <2>3. s \in Stats /\ s.pending = p(r)
        BY <2>1 DEF Stats
    <2> HIDE DEF s
    <2> QED
        BY <2>1, <2>2, <2>3 DEF Stats
<1>7. stats' \in [Users -> Stats]
    BY <1>4, <1>6
<1>8. referrerOf' \in [Users -> Users \cup {None}]
    BY <1>1, <1>2
<1>9. stays
    BY <1>1, <1>2 DEF stays
<1>10. BindingsCounted'
    <2> SUFFICES ASSUME NEW r \in Users
                 PROVE  referrerOf'[r] # r /\ n(r) = Cardinality(referredBy(r)')
        BY <1>6 DEF BindingsCounted, referredBy
    <2>1. referrerOf'[r] # r
        BY <1>1, <1>2 DEF AInv, BindingsCounted
    <2>2. stats[r].referredCount = Cardinality(referredBy(r))
        BY DEF AInv, BindingsCounted, referredBy
    <2>3. IsFiniteSet(referredBy(r))
        BY <1>1, FS_Subset DEF referredBy
    <2>4. CASE r = r0 /\ new
        <3>1. referredBy(r)' = referredBy(r) \cup {u} /\ u \notin referredBy(r)
            BY <1>1, <1>2, <2>4 DEF referredBy
        <3>2. Cardinality(referredBy(r) \cup {u}) = Cardinality(referredBy(r)) + 1
            BY <2>3, <3>1, FS_AddElement
        <3>3. n(r) = stats[r].referredCount + 1
            BY <2>4
        <3> HIDE DEF n
        <3> QED
            BY <2>1, <2>2, <3>1, <3>2, <3>3
    <2>5. CASE ~(r = r0 /\ new)
        <3>1. referredBy(r)' = referredBy(r)
            BY <1>1, <1>2, <2>5 DEF referredBy
        <3>2. n(r) = stats[r].referredCount
            BY <2>5
        <3> HIDE DEF n
        <3> QED
            BY <2>1, <2>2, <3>1, <3>2
    <2> QED
        BY <2>1, <2>4, <2>5
<1>11. SumFunction(promised') = SumFunction(promised) + (IF r0 = None THEN 0 ELSE amount)
    <2>1. /\ promised \in [Users -> Int] /\ promised' \in [Users -> Int]
          /\ \A r \in Users : promised[r] = stats[r].pending /\ promised'[r] = p(r)
        BY <1>5, <1>6 DEF promised, Stats
    <2>2. SumFunction(promised) \in Int
        BY <1>1, <2>1, SumInt
    <2>3. CASE r0 = None
        <3>1. promised' = promised
            BY <1>1, <2>1, <2>3 DEF promised
        <3> QED
            BY <2>2, <2>3, <3>1
    <2>4. CASE r0 # None
        <3>1. r0 \in Users
            BY <1>2, <2>4
        <3>2. SumFunction(promised') = SumFunction(promised) - promised[r0] + promised'[r0]
            BY <1>1, <2>1, <3>1, SumUpdate
        <3>3. promised'[r0] = promised[r0] + amount /\ promised[r0] \in Int
            BY <2>1, <3>1
        <3> QED
            BY <2>2, <2>4, <3>2, <3>3
    <2> QED
        BY <2>3, <2>4
<1> QED
    BY <1>7, <1>8, <1>9, <1>10, <1>11

\* report(), by whichever contract.
LEMMA ReportStep ==
    ASSUME AInv, NEW u \in Users, NEW ref \in Users \cup {None}, ref # u, NEW fee \in Nat,
           report(u, ref, fee), creationFee' = creationFee
    PROVE  AInv' /\ stays
<1>1. cut(u, ref, fee) \in Nat
    BY CutNat
<1>2. bindAndCredit(u, ref, cut(u, ref, fee))
    BY DEF report
<1>3. /\ referrerOf' \in [Users -> Users \cup {None}] /\ stats' \in [Users -> Stats]
      /\ BindingsCounted' /\ stays
      /\ SumFunction(promised') = SumFunction(promised) + cut(u, ref, fee)
    <2>1. credited(u, ref) = None => cut(u, ref, fee) = 0
        BY DEF cut
    <2> QED
        BY <1>1, <1>2, <2>1, BindStep
<1>4. /\ totalPending' = totalPending + cut(u, ref, fee) /\ held' = held + cut(u, ref, fee)
      /\ UNCHANGED <<authorized, shareBps, minClaim>>
    BY DEF report
<1> QED
    BY <1>1, <1>3, <1>4 DEF AInv, AffiliateTypeOK, Covered, Balanced

\* A step that touches neither binding nor counts.
LEMMA MoneyStep ==
    ASSUME AInv, UNCHANGED referrerOf, stats' \in [Users -> Stats],
           \A r \in Users : (stats'[r]).referredCount = stats[r].referredCount,
           authorized' \subseteq Reporters, totalPending' \in Nat, held' \in Nat,
           held' >= totalPending', shareBps' \in 0 .. Bps, minClaim' \in Nat,
           creationFee' \in Nat, UNCHANGED <<stats, totalPending>> \/ Balanced'
    PROVE  AInv' /\ stays
<1>1. Balanced'
    BY DEF AInv, Balanced, promised
<1> QED
    BY <1>1 DEF AInv, AffiliateTypeOK, Covered, BindingsCounted, stays

LEMMA QuietAffiliate ==
    ASSUME AInv, UNCHANGED affiliateVars, creationFee' \in Nat
    PROVE  AInv' /\ stays
    BY DEF affiliateVars, AInv, AffiliateTypeOK, Covered, Balanced, promised, BindingsCounted, stays

\* What is owed or spare leaves.
LEMMA PaysStep ==
    ASSUME AInv, AffiliatePays, creationFee' = creationFee
    PROVE  AInv' /\ stays
<1> USE DEF AInv, AffiliateTypeOK, Covered
<1>1. CASE \E u \in Users : claim(u)
    <2> PICK u \in Users : claim(u)
        BY <1>1
    <2>1. stats[u] \in Stats /\ stats[u].pending \in Nat
        BY DEF Stats
    <2> DEFINE s == [stats[u] EXCEPT !.pending = 0]
    <2>2. s \in Stats /\ s.referredCount = stats[u].referredCount
        BY <2>1 DEF Stats
    <2>3. stats' = [stats EXCEPT ![u] = s]
        BY DEF claim
    <2> HIDE DEF s
    <2>4. /\ stats' \in [Users -> Stats]
          /\ \A r \in Users : (stats'[r]).referredCount = stats[r].referredCount
        BY <2>2, <2>3
    <2>5. /\ totalPending' = totalPending - stats[u].pending /\ held' = held - stats[u].pending
          /\ totalPending >= stats[u].pending /\ held >= stats[u].pending
          /\ UNCHANGED <<referrerOf, authorized, shareBps, minClaim>>
        BY DEF claim
    <2>6. Balanced'
        <3>1. /\ promised \in [Users -> Int] /\ promised' \in [Users -> Int]
              /\ promised[u] = stats[u].pending /\ promised'[u] = 0
              /\ \A r \in Users : r # u => promised'[r] = promised[r]
            <4>1. /\ \A r \in Users : stats[r].pending \in Int /\ (stats'[r]).pending \in Int
                  /\ (stats'[u]).pending = 0
                  /\ \A r \in Users : r # u => stats'[r] = stats[r]
                BY <2>1, <2>3, <2>4 DEF Stats, claim
            <4> QED
                BY <4>1 DEF promised
        <3>2. SumFunction(promised') = SumFunction(promised) - promised[u] + promised'[u]
            BY <3>1, SumUpdate, AffiliateAssumption
        <3> QED
            BY <2>1, <2>5, <3>1, <3>2 DEF Balanced
    <2> QED
        BY <2>1, <2>4, <2>5, <2>6, MoneyStep
<1>2. CASE \E amount \in Gifts : rescue(amount)
    <2> PICK amount \in Gifts : rescue(amount)
        BY <1>2
    <2>1. amount \in Nat
        BY AffiliateAssumption
    <2> QED
        BY <2>1, MoneyStep DEF rescue
<1> QED
    BY <1>1, <1>2 DEF AffiliatePays

\* The calls of users and of the other contracts.
LEMMA CallsStep ==
    ASSUME AInv, AffiliateCalls, creationFee' = creationFee
    PROVE  AInv' /\ stays
<1>1. CASE \E u, r \in Users : registerReferrer(u, r)
    <2> PICK u \in Users, r \in Users : registerReferrer(u, r)
        BY <1>1
    <2>1. /\ referrerOf' \in [Users -> Users \cup {None}] /\ stats' \in [Users -> Stats]
          /\ BindingsCounted' /\ stays
          /\ SumFunction(promised') = SumFunction(promised) + 0
        BY BindStep DEF registerReferrer
    <2> QED
        BY <2>1 DEF registerReferrer, AInv, AffiliateTypeOK, Covered, Balanced
<1>2. CASE \E amount \in Gifts : donate(amount)
    <2> PICK amount \in Gifts : donate(amount)
        BY <1>2
    <2>1. amount \in Nat
        BY AffiliateAssumption
    <2> QED
        BY <2>1, MoneyStep DEF donate, AInv, AffiliateTypeOK, Covered
<1>3. CASE \E reporter \in Outsiders, u \in Users, r \in Users \cup {None}, fee \in Fees :
              otherReport(reporter, u, r, fee)
    <2> PICK reporter \in Outsiders, u \in Users, r \in Users \cup {None}, fee \in Fees :
              otherReport(reporter, u, r, fee)
        BY <1>3
    <2>1. fee \in Nat /\ r # u /\ report(u, r, fee)
        BY AffiliateAssumption DEF otherReport, reportReverts
    <2> QED
        BY <2>1, ReportStep
<1> QED
    BY <1>1, <1>2, <1>3 DEF AffiliateCalls

\* The owner's settings of the Affiliate contract.
LEMMA AdminStep ==
    ASSUME AInv, AffiliateAdmin, creationFee' = creationFee
    PROVE  AInv' /\ stays
<1> USE DEF AInv, AffiliateTypeOK, Covered
<1>1. CASE \E reporter \in Reporters, enabled \in BOOLEAN : setAuthorized(reporter, enabled)
    <2> PICK reporter \in Reporters, enabled \in BOOLEAN : setAuthorized(reporter, enabled)
        BY <1>1
    <2>1. authorized' \subseteq Reporters
        BY DEF setAuthorized
    <2> QED
        BY <2>1, MoneyStep DEF setAuthorized
<1>2. CASE \E bps \in ShareChoices : setShareBps(bps)
    BY <1>2, AffiliateAssumption, MoneyStep DEF setShareBps
<1>3. CASE \E amount \in MinClaimChoices : setMinClaim(amount)
    BY <1>3, AffiliateAssumption, MoneyStep DEF setMinClaim
<1> QED
    BY <1>1, <1>2, <1>3 DEF AffiliateAdmin

-----------------------------------------------------------------------------
(* The factory's calls.                                                    *)

\* A creation reports its fee, or leaves the Affiliate contract alone.
LEMMA CreatesStep ==
    ASSUME AInv, Creates
    PROVE  AInv' /\ stays
<1> PICK creator \in Users, referral \in Users \cup {None}, type \in Types, bases \in BaseLists :
         createToken(creator, referral, type, bases)
    BY DEF Creates
<1>1. creationFee' = creationFee /\ creationFee \in Nat
    BY DEF createToken, settingVars, AInv
<1> DEFINE rewards == rewardsOf(creator, referral, creationFee)
<1>2. PICK bounced : settle(creator, referral, rewards, bounced)
    BY DEF createToken
<1> HIDE DEF rewards
<1>3. \/ UNCHANGED affiliateVars
      \/ \E funds : tryReport(Factory, creator, referral, creationFee, funds)
    BY <1>2 DEF settle
<1>4. \/ UNCHANGED affiliateVars
      \/ referral # creator /\ report(creator, referral, creationFee)
    BY <1>3 DEF tryReport, reportReverts
<1> QED
    BY <1>1, <1>4, QuietAffiliate, ReportStep

\* The factory's own settings and payments.
LEMMA FactoryStep ==
    ASSUME AInv, Settings \/ Pays \/ \E c \in Coins, amount \in Gifts : taxAccrues(c, amount)
    PROVE  AInv' /\ stays
<1>1. CASE Settings
    <2>1. UNCHANGED affiliateVars
        BY <1>1 DEF Settings, keepSettings, setUsdt, setCreationFee, setReferralLevels,
                    setReferralPercents, setAutoDistributeReward, setAffiliate,
                    addDefaultPartnerBase, removeDefaultPartnerBase, setDefaultPartnerBases
    <2>2. creationFee' = creationFee \/ creationFee' \in FeeChoices
        BY <1>1 DEF Settings, settingVars, setUsdt, setCreationFee, setReferralLevels,
                    setReferralPercents, setAutoDistributeReward, setAffiliate,
                    addDefaultPartnerBase, removeDefaultPartnerBase, setDefaultPartnerBases
    <2>3. creationFee' \in Nat
        BY <2>2, TokenFactoryAssumption DEF AInv
    <2> QED
        BY <2>1, <2>3, QuietAffiliate
<1>2. CASE Pays \/ \E c \in Coins, amount \in Gifts : taxAccrues(c, amount)
    <2>1. UNCHANGED affiliateVars /\ UNCHANGED creationFee
        BY <1>2 DEF Pays, claimReward, withdrawFees, processTaxAuth, taxAccrues, settingVars
    <2> QED
        BY <2>1, QuietAffiliate DEF AInv
<1> QED
    BY <1>1, <1>2

LEMMA AInit ==
    ASSUME Init
    PROVE  AInv
<1>1. Bps \in Nat \ {0} /\ None \notin Users /\ IsFiniteSet(Users)
    BY AffiliateAssumption
<1>2. Bps \div 4 \in 0 .. Bps
    <2>1. Bps \div 4 \in Nat /\ (Bps \div 4) * 4 <= Bps
        BY <1>1, DivNat
    <2> QED
        BY <1>1, <2>1
<1>3. AffiliateTypeOK /\ Covered /\ creationFee \in Nat
    BY <1>1, <1>2 DEF Init, AffiliateInit, AffiliateTypeOK, Stats, Covered
<1>5. Balanced
    <2>1. promised \in [Users -> Int] /\ \A r \in Users : promised[r] = 0
        BY DEF Init, AffiliateInit, promised
    <2>2. SumFunction(promised) = 0
        BY <1>1, <2>1, SumZero
    <2> QED
        BY <2>2 DEF Init, AffiliateInit, Balanced
<1>4. BindingsCounted
    <2> SUFFICES ASSUME NEW r \in Users
                 PROVE  referrerOf[r] # r /\ stats[r].referredCount = Cardinality(referredBy(r))
        BY DEF BindingsCounted, referredBy
    <2>1. referredBy(r) = {}
        BY <1>1 DEF Init, AffiliateInit, referredBy
    <2> QED
        BY <1>1, <2>1, FS_EmptySet DEF Init, AffiliateInit
<1> QED
    BY <1>3, <1>4, <1>5 DEF AInv

LEMMA ANext ==
    ASSUME AInv, [Next]_vars
    PROVE  AInv' /\ stays
<1>1. CASE Creates
    BY <1>1, CreatesStep
<1>2. CASE Settings \/ Pays \/ \E c \in Coins, amount \in Gifts : taxAccrues(c, amount)
    BY <1>2, FactoryStep
<1>3. CASE AffiliatePays /\ UNCHANGED factoryVars
    BY <1>3, PaysStep DEF factoryVars, settingVars
<1>4. CASE AffiliateCalls /\ UNCHANGED factoryVars
    BY <1>4, CallsStep DEF factoryVars, settingVars
<1>5. CASE AffiliateAdmin /\ UNCHANGED factoryVars
    BY <1>5, AdminStep DEF factoryVars, settingVars
<1>6. CASE UNCHANGED vars
    BY <1>6, QuietAffiliate DEF vars, factoryVars, settingVars, AInv
<1> QED
    BY <1>1, <1>2, <1>3, <1>4, <1>5, <1>6 DEF Next

LEMMA AInvariant == Spec => []AInv
<1>1. Init => AInv
    BY AInit
<1>2. AInv /\ [Next]_vars => AInv'
    BY ANext
<1> QED
    BY <1>1, <1>2, PTL DEF Spec

\* The Affiliate contract's variables keep their types.
THEOREM AffiliateTypeCorrect == Spec => []AffiliateTypeOK
    BY AInvariant, PTL DEF AInv

\* The contract holds at least what it has promised to its referrers in all,
\* and that total is the sum of what each may claim.
THEOREM AffiliateIsSolvent == Spec => []AffiliateSolvent
<1>1. AInv => AffiliateSolvent
    BY DEF AInv, Covered, Balanced, AffiliateSolvent
<1> QED
    BY <1>1, AInvariant, PTL

\* Nobody is his own referrer, and each referrer's count is the number bound to
\* him, whoever binds first.
THEOREM AffiliateBindingsCounted == Spec => []BindingsCounted
    BY AInvariant, PTL DEF AInv

\* Once bound, a user stays bound to the same referrer: neither registration
\* nor any report replaces him.
THEOREM AffiliateBindingsStay == Spec => BindingsStay
<1>1. AInv /\ [Next]_vars => [stays]_vars
    BY ANext
<1> QED
    BY <1>1, AInvariant, PTL DEF Spec, BindingsStay

-----------------------------------------------------------------------------
(* The factory's money.                                                    *)

\* At most half of a fee is dealt out in rewards.
HalfAtMost == 2 * SumFunction(referralPercents) <= Bps

RewardPart ==
    /\ referrals \in [Users -> Users \cup {None}]
    /\ pendingRewards \in [Users -> Nat] /\ totalPendingRewards \in Nat
    /\ totalPendingRewards = total(pendingRewards)

SettingPart ==
    /\ usdt \in Stables /\ creationFee \in Nat
    /\ referralLevels \in 0 .. MaxLevels /\ referralPercents \in Seq(Nat) /\ HalfAtMost
    /\ autoDistributeReward \in BOOLEAN /\ affiliate \in BOOLEAN

MoneyPart ==
    /\ purse \in [Coins -> Nat] /\ approved \subseteq Coins /\ excused \in BOOLEAN
    /\ excused \/ purse[usdt] >= totalPendingRewards

FInv == AInv /\ RewardPart /\ SettingPart /\ MoneyPart

\* The rewards of a creation are amounts, and in all at most the fee: the
\* percents are dealt out by level, each to one user, and rounded down.
LEMMA RewardsBounded ==
    ASSUME RewardPart, SettingPart, NEW creator \in Users,
           NEW referral \in Users \cup {None}, NEW fee \in Nat
    PROVE  /\ rewardsOf(creator, referral, fee) \in [Users -> Nat]
           /\ total(rewardsOf(creator, referral, fee)) \in Nat
           /\ total(rewardsOf(creator, referral, fee)) <= fee
<1> DEFINE rewards == rewardsOf(creator, referral, fee)
           refs    == referralsAfter(creator, referral)
           up      == upline(refs, refs[creator], referralLevels)
           D       == DOMAIN referralPercents
           share   == [i \in D |-> (fee * referralPercents[i]) \div Bps]
           paid(u) == {i \in DOMAIN up \cap D : up[i] = u}
           part    == [u \in Users |-> paid(u)]
           g       == [u \in Users |-> SumFunction([i \in part[u] |-> share[i]])]
<1>0. IsFiniteSet(Users) /\ Bps \in Nat \ {0}
    BY AffiliateAssumption
<1>1. CASE noReferral(creator, referral)
    <2>1. rewards = [u \in Users |-> 0]
        BY <1>1 DEF rewardsOf
    <2> HIDE DEF rewards
    <2>2. rewards \in [Users -> Nat] /\ rewards \in [Users -> Int] /\ \A u \in Users : rewards[u] = 0
        BY <2>1
    <2>3. SumFunction(rewards) = 0
        BY <1>0, <2>2, SumZero
    <2> QED
        BY <2>2, <2>3 DEF total, rewards
<1>2. CASE ~ noReferral(creator, referral)
    <2>1. rewards = g
        BY <1>2 DEF rewardsOf
    <2> HIDE DEF up
    <2>2. IsFiniteSet(D) /\ referralPercents \in [D -> Nat]
        <3>1. D = 1 .. Len(referralPercents) /\ Len(referralPercents) \in Nat
            BY DEF SettingPart
        <3>2. IsFiniteSet(D)
            BY <3>1, FS_Interval
        <3> QED
            BY <3>2 DEF SettingPart
    <2> HIDE DEF D
    <2>3. \A i \in D : share[i] \in Nat /\ share[i] * Bps <= fee * referralPercents[i]
        <3> TAKE i \in D
        <3>1. fee * referralPercents[i] \in Nat
            BY <2>2
        <3> QED
            BY <1>0, <3>1, DivNat
    <2>4. share \in [D -> Nat]
        BY <2>3
    <2> HIDE DEF share
    <2>5. /\ part \in [Users -> SUBSET D]
          /\ \A u, v \in Users : u # v => part[u] \cap part[v] = {}
        OBVIOUS
    <2> HIDE DEF part
    <2>6. \A u \in Users : g[u] \in Nat
        <3> TAKE u \in Users
        <3>1. IsFiniteSet(part[u]) /\ [i \in part[u] |-> share[i]] \in [part[u] -> Nat]
            BY <2>2, <2>4, <2>5, FS_Subset
        <3> QED
            BY <3>1, SumNat
    <2>7. g \in [Users -> Nat] /\ \A u \in Users : g[u] = SumFunction([i \in part[u] |-> share[i]])
        BY <2>6
    <2> HIDE DEF g
    <2>8. SumFunction(g) <= SumFunction(share)
        BY <1>0, <2>2, <2>4, <2>5, <2>7, SumParts
    <2>9. SumFunction(share) <= fee
        <3>1. /\ share \in [D -> Int] /\ referralPercents \in [D -> Int]
              /\ SumFunction(share) \in Nat /\ SumFunction(referralPercents) \in Nat
            BY <2>2, <2>4, SumNat
        <3>2. SumFunction(share) * Bps <= fee * SumFunction(referralPercents)
            <4>1. /\ fee \in Int /\ Bps \in Int
                  /\ \A i \in D : share[i] * Bps <= fee * referralPercents[i]
                BY <1>0, <2>3
            <4> QED
                BY <2>2, <3>1, <4>1, SumScaled
        <3>3. SumFunction(referralPercents) <= Bps
            BY <1>0, <3>1 DEF SettingPart, HalfAtMost
        <3>4. \A x \in Nat, y \in Nat : x <= y => fee * x <= fee * y
            OBVIOUS
        <3>5. fee * SumFunction(referralPercents) <= fee * Bps
            BY <1>0, <3>1, <3>3, <3>4
        <3>6. SumFunction(share) * Bps < (fee + 1) * Bps
            <4>1. (fee + 1) * Bps = fee * Bps + Bps /\ fee * Bps \in Nat
                BY <1>0
            <4>2. \A x \in Nat : x * Bps \in Nat /\ fee * x \in Nat
                BY <1>0
            <4> QED
                BY <1>0, <3>1, <3>2, <3>5, <4>1, <4>2
        <3>7. SumFunction(share) < fee + 1
            BY <1>0, <3>1, <3>6, MulCancel
        <3> QED
            BY <3>1, <3>7
    <2>10. SumFunction(g) \in Nat /\ SumFunction(share) \in Nat
        BY <1>0, <2>2, <2>4, <2>7, SumNat
    <2> QED
        BY <2>1, <2>7, <2>8, <2>9, <2>10 DEF total
<1> QED
    BY <1>1, <1>2

\* What is promised for later is an amount for each user, in all at most the
\* whole, and what is paid at once is the difference.
LEMMA AccruedBounded ==
    ASSUME SettingPart, NEW rewards \in [Users -> Nat], NEW bounced
    PROVE  /\ accrued(rewards, bounced) \in [Users -> Nat]
           /\ total(accrued(rewards, bounced)) \in Nat
           /\ total(accrued(rewards, bounced)) <= total(rewards)
<1> DEFINE late == accrued(rewards, bounced)
<1>0. IsFiniteSet(Users)
    BY AffiliateAssumption
<1>1. /\ late \in [Users -> Nat] /\ \A u \in Users : late[u] <= rewards[u]
    BY DEF accrued
<1> HIDE DEF late
<1>2. late \in [Users -> Int] /\ rewards \in [Users -> Int]
    BY <1>1
<1>3. SumFunction(late) <= SumFunction(rewards)
    BY <1>0, <1>1, <1>2, SumMonotone
<1>4. SumFunction(late) \in Nat
    BY <1>0, <1>1, SumNat
<1> QED
    BY <1>1, <1>3, <1>4 DEF total, late

\* Adding what is newly promised to each user adds it to the total.
LEMMA PromiseStep ==
    ASSUME RewardPart, SettingPart, NEW creator \in Users, NEW referral \in Users \cup {None},
           NEW rewards \in [Users -> Nat], NEW bounced,
           _processReferral(creator, referral, rewards, bounced)
    PROVE  /\ RewardPart'
           /\ totalPendingRewards' = totalPendingRewards + total(accrued(rewards, bounced))
<1> DEFINE late == accrued(rewards, bounced)
<1>0. IsFiniteSet(Users)
    BY AffiliateAssumption
<1>1. late \in [Users -> Nat] /\ total(late) \in Nat
    BY AccruedBounded
<1> HIDE DEF late
<1>2. /\ referrals' = referralsAfter(creator, referral)
      /\ pendingRewards' = [u \in Users |-> pendingRewards[u] + late[u]]
      /\ totalPendingRewards' = totalPendingRewards + total(late)
    BY DEF _processReferral, late
<1>3. referrals' \in [Users -> Users \cup {None}]
    BY <1>2 DEF referralsAfter, RewardPart
<1>4. pendingRewards' \in [Users -> Nat]
    BY <1>1, <1>2 DEF RewardPart
<1>5. /\ pendingRewards \in [Users -> Int] /\ pendingRewards' \in [Users -> Int]
      /\ late \in [Users -> Int] /\ \A u \in Users : pendingRewards'[u] = pendingRewards[u] + late[u]
    BY <1>1, <1>2 DEF RewardPart
<1>6. SumFunction(pendingRewards') = SumFunction(pendingRewards) + SumFunction(late)
    BY <1>0, <1>5, SumAdd
<1> QED
    BY <1>1, <1>2, <1>3, <1>4, <1>6 DEF RewardPart, total, late

\* A creation promises at most what its fee leaves, or is excused.
LEMMA CreateMoney ==
    ASSUME FInv, Creates
    PROVE  RewardPart' /\ SettingPart' /\ MoneyPart'
<1> USE DEF FInv
<1> PICK creator \in Users, referral \in Users \cup {None}, type \in Types, bases \in BaseLists :
         createToken(creator, referral, type, bases)
    BY DEF Creates
<1> DEFINE fee     == creationFee
           rewards == rewardsOf(creator, referral, fee)
<1>1. fee \in Nat
    BY DEF SettingPart
<1>2. /\ rewards \in [Users -> Nat]
      /\ total(rewards) \in Nat /\ total(rewards) <= fee
    BY <1>1, RewardsBounded
<1>3. PICK bounced : /\ _processReferral(creator, referral, rewards, bounced)
                     /\ settle(creator, referral, rewards, bounced)
    BY DEF createToken
<1>4. UNCHANGED settingVars
    BY DEF createToken
<1> HIDE DEF rewards
<1>5. /\ total(accrued(rewards, bounced)) \in Nat
      /\ total(accrued(rewards, bounced)) <= total(rewards)
    BY <1>2, AccruedBounded
<1>6. /\ RewardPart'
      /\ totalPendingRewards' = totalPendingRewards + total(accrued(rewards, bounced))
    BY <1>2, <1>3, PromiseStep
<1>7. SettingPart'
    BY <1>4 DEF settingVars, SettingPart, HalfAtMost
<1> DEFINE late      == total(accrued(rewards, bounced))
           funded    == [purse EXCEPT ![usdt] = @ + fee - (total(rewards) - late)]
           reachable == IF Usdt \in approvedAfter(fee) THEN funded[Usdt] ELSE 0
           goes      == affiliate /\ fee > 0 /\ ~ reportReverts(Factory, creator, referral, fee, reachable)
           pulled    == IF goes THEN cut(creator, referral, fee) ELSE 0
<1>8. /\ purse' = [funded EXCEPT ![Usdt] = @ - pulled]
      /\ excused' = (excused \/ total(rewards) + (IF usdt = Usdt THEN pulled ELSE 0) > fee)
      /\ approved' = approvedAfter(fee)
    BY <1>3 DEF settle
<1>9. Usdt \in Coins /\ usdt \in Coins
    BY TokenFactoryAssumption DEF SettingPart
<1>10. /\ purse[usdt] \in Nat /\ purse[usdt] + fee - (total(rewards) - late) \in Nat
       /\ late \in Nat
    BY <1>1, <1>2, <1>5, <1>9 DEF MoneyPart
<1>11. /\ funded \in [Coins -> Nat]
       /\ funded[usdt] = purse[usdt] + fee - (total(rewards) - late)
    BY <1>9, <1>10 DEF MoneyPart
<1> HIDE DEF funded, late
<1>12. cut(creator, referral, fee) \in Nat
    BY <1>1, CutNat
<1>13. pulled \in Nat /\ pulled <= funded[Usdt]
    <2>1. goes => cut(creator, referral, fee) <= reachable
        <3>1. reachable \in Nat
            BY <1>9, <1>11
        <3> HIDE DEF reachable
        <3> QED
            BY <1>12, <3>1 DEF reportReverts
    <2>2. reachable \in Nat /\ reachable <= funded[Usdt] /\ funded[Usdt] \in Nat
        BY <1>9, <1>11
    <2> HIDE DEF goes, reachable
    <2> QED
        BY <1>12, <2>1, <2>2
<1> HIDE DEF pulled
<1>14. /\ funded[Usdt] - pulled \in Nat
       /\ purse' \in [Coins -> Nat]
       /\ purse'[usdt] = IF usdt = Usdt THEN funded[usdt] - pulled ELSE funded[usdt]
    <2>1. funded[Usdt] - pulled \in Nat
        BY <1>9, <1>11, <1>13
    <2> QED
        BY <1>8, <1>9, <1>11, <2>1
<1>15. excused' \in BOOLEAN /\ approved' \subseteq Coins
    BY <1>8, <1>9 DEF MoneyPart, approvedAfter
<1>16. excused' \/ purse'[usdt] >= totalPendingRewards'
    <2>1. SUFFICES ASSUME ~ excused' PROVE purse'[usdt] >= totalPendingRewards'
        OBVIOUS
    <2>2. ~ excused /\ ~ (total(rewards) + (IF usdt = Usdt THEN pulled ELSE 0) > fee)
        BY <1>8, <2>1
    <2>3. purse[usdt] >= totalPendingRewards /\ totalPendingRewards \in Nat
        BY <2>2 DEF MoneyPart, RewardPart
    <2>4. totalPendingRewards' = totalPendingRewards + late
        BY <1>6 DEF late
    <2> QED
        BY <1>1, <1>2, <1>10, <1>11, <1>13, <1>14, <2>2, <2>3, <2>4
<1>17. usdt' = usdt
    BY <1>4 DEF settingVars
<1> QED
    BY <1>6, <1>7, <1>14, <1>15, <1>16, <1>17 DEF MoneyPart

\* Claims take what is promised to the claimer, withdrawals what is not
\* promised, and conversions no USDT.
LEMMA PaysMoney ==
    ASSUME FInv, Pays
    PROVE  RewardPart' /\ SettingPart' /\ MoneyPart'
<1> USE DEF FInv
<1>0. usdt \in Coins /\ IsFiniteSet(Users) /\ SwapOuts \subseteq Nat
    BY AffiliateAssumption, TokenFactoryAssumption DEF SettingPart
<1>1. SettingPart' /\ usdt' = usdt
    BY DEF Pays, claimReward, withdrawFees, processTaxAuth, settingVars, SettingPart, HalfAtMost
<1>2. CASE \E u \in Users : claimReward(u)
    <2> PICK u \in Users : claimReward(u)
        BY <1>2
    <2> DEFINE amount == pendingRewards[u]
    <2>1. /\ amount \in Nat /\ totalPendingRewards >= amount /\ purse[usdt] >= amount
          /\ pendingRewards' = [pendingRewards EXCEPT ![u] = 0]
          /\ totalPendingRewards' = totalPendingRewards - amount
          /\ purse' = [purse EXCEPT ![usdt] = @ - amount]
          /\ UNCHANGED <<referrals, approved, excused>>
        BY DEF claimReward, RewardPart
    <2> HIDE DEF amount
    <2>2. /\ purse[usdt] - amount \in Nat /\ purse' \in [Coins -> Nat]
          /\ purse'[usdt] = purse[usdt] - amount
        <3>1. purse[usdt] - amount \in Nat
            BY <1>0, <2>1 DEF MoneyPart
        <3> QED
            BY <1>0, <2>1, <3>1 DEF MoneyPart
    <2>3. RewardPart'
        <3>1. /\ pendingRewards \in [Users -> Int] /\ pendingRewards' \in [Users -> Int]
              /\ pendingRewards' \in [Users -> Nat]
              /\ pendingRewards[u] = amount /\ pendingRewards'[u] = 0
              /\ \A v \in Users : v # u => pendingRewards'[v] = pendingRewards[v]
            BY <2>1 DEF RewardPart, amount
        <3>2. SumFunction(pendingRewards')
                = SumFunction(pendingRewards) - pendingRewards[u] + pendingRewards'[u]
            BY <1>0, <3>1, SumUpdate
        <3>3. totalPendingRewards \in Nat /\ totalPendingRewards = SumFunction(pendingRewards)
            BY DEF RewardPart, total
        <3>4. totalPendingRewards' = SumFunction(pendingRewards')
            BY <2>1, <3>1, <3>2, <3>3
        <3> QED
            BY <2>1, <3>1, <3>3, <3>4 DEF RewardPart, total
    <2>4. MoneyPart'
        BY <1>0, <1>1, <2>1, <2>2 DEF MoneyPart, RewardPart
    <2> QED
        BY <1>1, <2>3, <2>4
<1>3. CASE \E c \in Coins : withdrawFees(c)
    <2> PICK c \in Coins : withdrawFees(c)
        BY <1>3
    <2>1. /\ purse' = [purse EXCEPT ![c] = @ - withdrawable(c)]
          /\ UNCHANGED <<referrals, pendingRewards, totalPendingRewards, approved, excused>>
        BY DEF withdrawFees, rewardVars
    <2>2. /\ withdrawable(c) \in Nat /\ purse[c] - withdrawable(c) \in Nat
          /\ c = usdt => excused \/ purse[c] - withdrawable(c) >= totalPendingRewards
        BY <1>0 DEF withdrawable, MoneyPart, RewardPart
    <2>3. /\ purse' \in [Coins -> Nat]
          /\ purse'[usdt] = IF c = usdt THEN purse[c] - withdrawable(c) ELSE purse[usdt]
        BY <1>0, <2>1, <2>2 DEF MoneyPart
    <2>4. MoneyPart'
        BY <1>0, <1>1, <2>1, <2>2, <2>3 DEF MoneyPart
    <2> QED
        BY <1>1, <2>1, <2>4 DEF RewardPart, total
<1>4. CASE \E c \in Coins, out \in SwapOuts : processTaxAuth(c, out)
    <2> PICK c \in Coins, out \in SwapOuts : processTaxAuth(c, out)
        BY <1>4
    <2>1. /\ c # usdt /\ purse' = [purse EXCEPT ![c] = 0, ![usdt] = @ + out]
          /\ UNCHANGED <<referrals, pendingRewards, totalPendingRewards, approved, excused>>
        BY DEF processTaxAuth, rewardVars
    <2>2. purse[usdt] \in Nat /\ out \in Nat
        BY <1>0 DEF MoneyPart
    <2>3. purse' \in [Coins -> Nat] /\ purse'[usdt] = purse[usdt] + out
        BY <1>0, <2>1, <2>2 DEF MoneyPart
    <2>4. MoneyPart'
        BY <1>0, <1>1, <2>1, <2>2, <2>3 DEF MoneyPart, RewardPart
    <2> QED
        BY <1>1, <2>1, <2>4 DEF RewardPart, total
<1> QED
    BY <1>2, <1>3, <1>4 DEF Pays

\* The tax of a token traded is no USDT.
LEMMA TaxMoney ==
    ASSUME FInv, NEW c \in Coins, NEW amount \in Gifts, taxAccrues(c, amount)
    PROVE  RewardPart' /\ SettingPart' /\ MoneyPart'
<1> USE DEF FInv
<1>1. /\ purse' = [purse EXCEPT ![c] = @ + amount] /\ c # usdt
      /\ UNCHANGED <<rewardVars, settingVars, approved, excused>>
    BY DEF taxAccrues, SettingPart
<1>2. amount \in Nat /\ purse[c] \in Nat
    BY AffiliateAssumption DEF MoneyPart
<1>3. purse' \in [Coins -> Nat] /\ purse'[usdt] = purse[usdt]
    BY <1>1, <1>2, TokenFactoryAssumption DEF MoneyPart, SettingPart
<1> QED
    BY <1>1, <1>3 DEF rewardVars, settingVars, RewardPart, SettingPart, HalfAtMost, MoneyPart, total

\* A setting that moves the factory to another USDT while rewards are promised
\* is excused.
LEMMA SettingsMoney ==
    ASSUME FInv, Settings
    PROVE  RewardPart' /\ SettingPart' /\ MoneyPart'
<1> USE DEF FInv
<1>1. /\ UNCHANGED <<rewardVars, purse, approved>>
      /\ UNCHANGED <<usdt, excused>> \/ \E c \in Stables : setUsdt(c)
    BY DEF Settings, keepSettings, moneyVars, settingVars, setUsdt, setCreationFee, setReferralLevels,
           setReferralPercents, setAutoDistributeReward, setAffiliate,
           addDefaultPartnerBase, removeDefaultPartnerBase, setDefaultPartnerBases
<1>2. RewardPart'
    BY <1>1 DEF rewardVars, RewardPart, total
<1>3. SettingPart'
    <2> USE DEF settingVars, SettingPart, HalfAtMost
    <2>1. CASE \E c \in Stables : setUsdt(c)
        BY <2>1 DEF setUsdt
    <2>2. CASE \E fee \in FeeChoices : setCreationFee(fee)
        BY <2>2, TokenFactoryAssumption DEF setCreationFee
    <2>3. CASE \E levels \in LevelChoices : setReferralLevels(levels)
        BY <2>3, TokenFactoryAssumption DEF setReferralLevels
    <2>4. CASE \E percents \in PercentChoices : setReferralPercents(percents)
        <3> PICK percents \in PercentChoices : setReferralPercents(percents)
            BY <2>4
        <3>1. referralPercents' = percents /\ percents \in Seq(Nat) /\ 2 * SumFunction(percents) <= Bps
            BY TokenFactoryAssumption DEF setReferralPercents
        <3>2. UNCHANGED <<usdt, creationFee, referralLevels, autoDistributeReward, affiliate>>
            BY DEF setReferralPercents
        <3> QED
            BY <3>1, <3>2
    <2>5. CASE \E on \in BOOLEAN : setAutoDistributeReward(on) \/ setAffiliate(on)
        BY <2>5 DEF setAutoDistributeReward, setAffiliate
    <2>6. CASE \E base \in Bases : addDefaultPartnerBase(base) \/ removeDefaultPartnerBase(base)
        BY <2>6 DEF addDefaultPartnerBase, removeDefaultPartnerBase
    <2>7. CASE \E bases \in BaseLists : setDefaultPartnerBases(bases)
        BY <2>7 DEF setDefaultPartnerBases
    <2> QED
        BY <2>1, <2>2, <2>3, <2>4, <2>5, <2>6, <2>7 DEF Settings
<1>4. CASE UNCHANGED <<usdt, excused>>
    BY <1>1, <1>2, <1>3, <1>4 DEF rewardVars, MoneyPart
<1>5. CASE \E c \in Stables : setUsdt(c)
    <2> PICK c \in Stables : setUsdt(c)
        BY <1>5
    <2>1. /\ usdt' = c /\ excused' = (excused \/ (c # usdt /\ totalPendingRewards > 0))
          /\ UNCHANGED <<purse, approved, totalPendingRewards>>
        BY DEF setUsdt, rewardVars
    <2>2. c \in Coins /\ purse[c] \in Nat /\ totalPendingRewards \in Nat
        BY TokenFactoryAssumption DEF MoneyPart, RewardPart
    <2>3. excused' \/ purse[c] >= totalPendingRewards
        <3>1. CASE c = usdt
            BY <2>1, <3>1 DEF MoneyPart
        <3>2. CASE c # usdt
            <4>1. CASE totalPendingRewards > 0
                BY <2>1, <3>2, <4>1
            <4>2. CASE ~ (totalPendingRewards > 0)
                BY <2>2, <4>2
            <4> QED
                BY <4>1, <4>2
        <3> QED
            BY <3>1, <3>2
    <2>4. MoneyPart'
        BY <2>1, <2>3 DEF MoneyPart
    <2> QED
        BY <1>2, <1>3, <2>4
<1> QED
    BY <1>1, <1>2, <1>3, <1>4, <1>5

LEMMA FInit ==
    ASSUME Init
    PROVE  FInv
<1>0. /\ IsFiniteSet(Users) /\ None \notin Users /\ Bps \in Nat /\ 4 <= Bps
      /\ Usdt \in Stables /\ Stables \subseteq Coins /\ MaxLevels \in Nat
    BY AffiliateAssumption, TokenFactoryAssumption
<1>1. AInv
    BY AInit
<1>2. RewardPart
    <2>1. /\ pendingRewards \in [Users -> Int] /\ pendingRewards \in [Users -> Nat]
          /\ \A u \in Users : pendingRewards[u] = 0
        BY DEF Init
    <2>2. SumFunction(pendingRewards) = 0
        BY <1>0, <2>1, SumZero
    <2> QED
        BY <2>1, <2>2 DEF Init, RewardPart, total
<1>3. SettingPart
    <2>1. referralPercents \in Seq(Nat) /\ referralPercents = <<1, 1>>
        BY DEF Init
    <2>2. HalfAtMost
        <3>1. /\ referralPercents \in [{1, 2} -> Int]
              /\ referralPercents[1] = 1 /\ referralPercents[2] = 1
            <4>1. DOMAIN <<1, 1>> = {1, 2}
                OBVIOUS
            <4> QED
                BY <2>1, <4>1
        <3>2. SumFunction(referralPercents) = 2
            BY <3>1, SumPair
        <3> QED
            BY <1>0, <2>1, <3>1, <3>2 DEF HalfAtMost
    <2> QED
        BY <1>0, <2>1, <2>2, TokenFactoryAssumption DEF Init, SettingPart
<1>4. MoneyPart
    <2>1. Usdt \in Coins /\ purse[Usdt] = 0 /\ purse \in [Coins -> Nat]
        BY <1>0 DEF Init
    <2>2. usdt = Usdt /\ totalPendingRewards = 0 /\ approved = {} /\ excused = FALSE
        BY DEF Init
    <2>3. purse[usdt] >= totalPendingRewards
        BY <2>1, <2>2
    <2> QED
        BY <2>1, <2>2, <2>3 DEF MoneyPart
<1> QED
    BY <1>1, <1>2, <1>3, <1>4 DEF FInv

-----------------------------------------------------------------------------
(* Base tokens.                                                            *)

\* In a finite set of naturals each place up to its size is somebody's: the
\* member with as many smaller ones as there are places before it.
LEMMA Ranked ==
    ASSUME NEW F, F \subseteq Nat, IsFiniteSet(F), NEW n \in 1 .. Cardinality(F)
    PROVE  \E i \in F : Cardinality({j \in F : j < i}) = n - 1
<1> DEFINE below(s, i) == {j \in s : j < i}
           Good == {s \in SUBSET F : \A k \in 1 .. Cardinality(s) :
                       \E i \in s : Cardinality(below(s, i)) = k - 1}
<1>1. {} \in Good
    BY FS_EmptySet
<1>2. ASSUME NEW s \in SUBSET F, s # {}, \A x \in s : s \ {x} \in Good
      PROVE  s \in Good
    <2>1. PICK m \in s : \A x \in s : m <= x
        BY <1>2, LeastNat
    <2> DEFINE t == s \ {m}
    <2>2. /\ IsFiniteSet(s) /\ IsFiniteSet(t)
          /\ Cardinality(s) \in Nat /\ Cardinality(t) = Cardinality(s) - 1
        BY FS_Subset, FS_CardinalityType, FS_RemoveElement
    <2>3. SUFFICES ASSUME NEW k \in 1 .. Cardinality(s)
                   PROVE  \E i \in s : Cardinality(below(s, i)) = k - 1
        OBVIOUS
    <2>4. CASE k = 1
        <3>1. \A x \in s : ~ (x < m)
            <4>1. \A x \in s : x \in Nat /\ m \in Nat
                OBVIOUS
            <4> QED
                BY <2>1, <4>1
        <3>3. below(s, m) = {}
            BY <3>1
        <3>2. Cardinality(below(s, m)) = 0
            BY <3>3, FS_EmptySet
        <3> QED
            BY <2>4, <3>2
    <2>5. CASE k # 1
        <3>1. k - 1 \in 1 .. Cardinality(t)
            BY <2>2, <2>5
        <3>2. t \in Good
            BY <1>2
        <3>3. PICK i \in t : Cardinality(below(t, i)) = (k - 1) - 1
            BY <3>1, <3>2
        <3>4. below(s, i) = below(t, i) \cup {m} /\ m \notin below(t, i)
            <4>1. m < i
                BY <2>1
            <4> QED
                BY <4>1
        <3>5. IsFiniteSet(below(t, i))
            BY <2>2, FS_Subset
        <3> HIDE DEF below
        <3>6. Cardinality(below(s, i)) = Cardinality(below(t, i)) + 1
            BY <3>4, <3>5, FS_AddElement
        <3>7. Cardinality(below(s, i)) = k - 1
            BY <3>3, <3>6
        <3> QED
            BY <3>7
    <2> QED
        BY <2>4, <2>5
<1>3. SUBSET F \subseteq Good
    <2> HIDE DEF Good
    <2> QED
        BY <1>1, <1>2, SubsetSteps
<1> QED
    BY <1>3

\* _sanitizeBases() keeps each base of the lists once, and nothing else.
LEMMA DistinctList ==
    ASSUME NEW list \in Seq(Bases \cup {None})
    PROVE  /\ distinct(list) \in Seq(Bases)
           /\ IsInjective(distinct(list))
           /\ Range(distinct(list)) = Range(list) \ {None}
<1> DEFINE firsts == {i \in DOMAIN list :
                        list[i] # None /\ \A j \in 1 .. i - 1 : list[j] # list[i]}
           below(i) == {j \in firsts : j < i}
           nth(n) == CHOOSE i \in firsts : Cardinality(below(i)) = n - 1
           size == Cardinality(firsts)
<1>1. DOMAIN list = 1 .. Len(list) /\ Len(list) \in Nat
    OBVIOUS
<1>2. firsts \subseteq 1 .. Len(list) /\ firsts \subseteq Nat /\ IsFiniteSet(firsts) /\ size \in Nat
    <2>1. firsts \subseteq 1 .. Len(list) /\ firsts \subseteq Nat
        BY <1>1
    <2>2. IsFiniteSet(1 .. Len(list))
        BY <1>1, FS_Interval
    <2>3. IsFiniteSet(firsts)
        <3> HIDE DEF firsts
        <3> QED
            BY <2>1, <2>2, FS_Subset
    <2> QED
        BY <2>1, <2>3, FS_CardinalityType
<1>3. distinct(list) = [n \in 1 .. size |-> list[nth(n)]]
    BY DEF distinct
<1>4. \A i \in firsts : list[i] \in Bases /\ \A j \in 1 .. i - 1 : list[j] # list[i]
    BY <1>1
<1>5. \A v \in Range(list) : v # None => \E i \in firsts : list[i] = v
    <2> TAKE v \in Range(list)
    <2> HAVE v # None
    <2> DEFINE at == {k \in DOMAIN list : list[k] = v}
    <2>1. at # {} /\ at \subseteq Nat
        BY <1>1 DEF Range
    <2>2. PICK i \in at : \A k \in at : i <= k
        BY <2>1, LeastNat
    <2>3. i \in firsts
        BY <1>1, <2>2
    <2> QED
        BY <2>3
<1> HIDE DEF firsts
<1>6. \A n \in 1 .. size : nth(n) \in firsts /\ Cardinality(below(nth(n))) = n - 1
    <2> TAKE n \in 1 .. size
    <2>1. \E i \in firsts : Cardinality(below(i)) = n - 1
        BY <1>2, Ranked
    <2> HIDE DEF below
    <2> QED
        BY <2>1
<1> HIDE DEF nth
<1>7. distinct(list) \in Seq(Bases)
    <2>1. \A n \in 1 .. size : list[nth(n)] \in Bases
        BY <1>4, <1>6
    <2> HIDE DEF size
    <2> QED
        BY <1>2, <1>3, <2>1
<1>8. \A i, k \in firsts : i # k => list[i] # list[k]
    <2> SUFFICES ASSUME NEW i \in firsts, NEW k \in firsts, i < k
                 PROVE  list[i] # list[k]
        BY <1>2
    <2>1. i \in 1 .. k - 1
        BY <1>2
    <2> QED
        BY <1>4, <2>1
<1>9. IsInjective(distinct(list))
    <2> SUFFICES ASSUME NEW a \in 1 .. size, NEW b \in 1 .. size, list[nth(a)] = list[nth(b)]
                 PROVE  a = b
        BY <1>3 DEF IsInjective
    <2>1. nth(a) = nth(b)
        BY <1>6, <1>8
    <2>2. a - 1 = b - 1
        BY <1>6, <2>1
    <2> QED
        BY <2>2
<1>10. \A i \in firsts : \E n \in 1 .. size : nth(n) = i
    <2> TAKE i \in firsts
    <2> DEFINE r == Cardinality(below(i))
    <2>1. \A k \in firsts : IsFiniteSet(below(k)) /\ Cardinality(below(k)) \in Nat
        BY <1>2, FS_Subset, FS_CardinalityType
    <2>2. \A k, l \in firsts : k < l => Cardinality(below(k)) < Cardinality(below(l))
        <3> SUFFICES ASSUME NEW k \in firsts, NEW l \in firsts, k < l
                     PROVE  Cardinality(below(k)) < Cardinality(below(l))
            OBVIOUS
        <3>1. below(k) \cup {k} \subseteq below(l) /\ k \notin below(k)
            <4>1. k \in Nat /\ l \in Nat /\ \A j \in firsts : j \in Nat
                BY <1>2
            <4>2. \A j \in firsts : j < k => j < l
                BY <4>1
            <4>3. ~ (k < k)
                BY <4>1
            <4> QED
                BY <4>2, <4>3
        <3> HIDE DEF below
        <3>2. Cardinality(below(k) \cup {k}) = Cardinality(below(k)) + 1
            BY <2>1, <3>1, FS_AddElement
        <3>3. Cardinality(below(k) \cup {k}) <= Cardinality(below(l))
            BY <2>1, <3>1, FS_Subset
        <3> QED
            BY <2>1, <3>2, <3>3
    <2>3. r + 1 \in 1 .. size
        <3>1. below(i) \cup {i} \subseteq firsts /\ i \notin below(i)
            BY <1>2
        <3>2. Cardinality(below(i) \cup {i}) = r + 1
            BY <2>1, <3>1, FS_AddElement
        <3>3. Cardinality(below(i) \cup {i}) <= size
            BY <1>2, <3>1, FS_Subset
        <3> HIDE DEF below, size
        <3> QED
            BY <1>2, <2>1, <3>2, <3>3
    <2> DEFINE k == nth(r + 1)
    <2>4. k \in firsts /\ Cardinality(below(k)) = (r + 1) - 1
        BY <1>6, <2>3
    <2>5. k = i
        <3> HIDE DEF k, below
        <3>1. Cardinality(below(k)) = Cardinality(below(i))
            BY <2>1, <2>4
        <3>2. k \in Nat /\ i \in Nat
            BY <1>2, <2>4
        <3>3. ~ (k < i) /\ ~ (i < k)
            BY <2>1, <2>2, <2>4, <3>1
        <3> QED
            BY <3>2, <3>3
    <2> QED
        BY <2>3, <2>5
<1>11. Range(distinct(list)) = Range(list) \ {None}
    <2>1. Range(distinct(list)) = {list[nth(n)] : n \in 1 .. size}
        BY <1>3 DEF Range
    <2>2. \A n \in 1 .. size : list[nth(n)] \in Range(list) \ {None}
        BY <1>1, <1>2, <1>4, <1>6, TokenFactoryAssumption DEF Range
    <2>3. \A v \in Range(list) \ {None} : \E n \in 1 .. size : list[nth(n)] = v
        BY <1>5, <1>10
    <2> QED
        BY <2>1, <2>2, <2>3
<1> QED
    BY <1>7, <1>9, <1>11

\* The last base takes the place of the one removed: the others stay, once each.
LEMMA WithoutList ==
    ASSUME NEW list \in Seq(Bases), IsInjective(list), NEW base \in Range(list)
    PROVE  /\ without(list, base) \in Seq(Bases)
           /\ IsInjective(without(list, base))
           /\ Range(without(list, base)) = Range(list) \ {base}
<1> DEFINE size == Len(list)
           f == without(list, base)
           at(i) == IF list[i] = base THEN list[size] ELSE list[i]
<1>1. /\ size \in Nat /\ DOMAIN list = 1 .. size
      /\ \A i \in 1 .. size : list[i] \in Bases
      /\ \A i, k \in 1 .. size : list[i] = list[k] => i = k
    BY DEF IsInjective
<1>2. PICK k \in 1 .. size : list[k] = base
    BY <1>1 DEF Range
<1>3. f = [i \in 1 .. size - 1 |-> at(i)]
    BY DEF without
<1>4. size - 1 \in Nat /\ size \in 1 .. size /\ \A i \in 1 .. size - 1 : i \in 1 .. size /\ i # size
    <2>1. size \in Nat /\ size >= 1
        BY <1>1, <1>2
    <2> HIDE DEF size
    <2> QED
        BY <2>1
<1>5. \A i \in 1 .. size - 1 : at(i) \in Bases
    BY <1>1, <1>4
<1>6. f \in Seq(Bases)
    <2> HIDE DEF at, f, size
    <2> QED
        BY <1>3, <1>4, <1>5
<1>7. DOMAIN f = 1 .. size - 1 /\ \A i \in 1 .. size - 1 : f[i] = at(i)
    BY <1>3
<1> HIDE DEF f, size
<1>8. IsInjective(f)
    <2> SUFFICES ASSUME NEW i \in 1 .. size - 1, NEW j \in 1 .. size - 1, at(i) = at(j)
                 PROVE  i = j
        BY <1>7 DEF IsInjective
    <2> QED
        BY <1>1, <1>4
<1>9. Range(f) = Range(list) \ {base}
    <2>1. \A i \in 1 .. size - 1 : at(i) \in Range(list) /\ at(i) # base
        BY <1>1, <1>2, <1>4 DEF Range
    <2>2. \A j \in 1 .. size : list[j] # base => \E i \in 1 .. size - 1 : at(i) = list[j]
        <3> TAKE j \in 1 .. size
        <3> HAVE list[j] # base
        <3>1. CASE j # size
            <4>1. j \in 1 .. size - 1
                BY <1>1, <3>1
            <4> QED
                BY <4>1
        <3>2. CASE j = size
            <4>1. k \in 1 .. size - 1
                BY <1>1, <1>2, <3>2
            <4> QED
                BY <1>2, <3>2, <4>1
        <3> QED
            BY <3>1, <3>2
    <2> HIDE DEF at
    <2>3. \A v \in Range(f) : v \in Range(list) \ {base}
        BY <1>7, <2>1 DEF Range
    <2>4. \A v \in Range(list) \ {base} : v \in Range(f)
        <3> SUFFICES ASSUME NEW j \in 1 .. size, list[j] # base
                     PROVE  list[j] \in Range(f)
            BY <1>1 DEF Range
        <3>1. PICK i \in 1 .. size - 1 : at(i) = list[j]
            BY <2>2
        <3> QED
            BY <1>7, <3>1 DEF Range
    <2> QED
        BY <2>3, <2>4
<1> QED
    BY <1>6, <1>8, <1>9 DEF f

BasePart ==
    /\ defaultBases \in Seq(Bases) /\ IsInjective(defaultBases)
    /\ isDefaultBase = Range(defaultBases)

TokenPart ==
    /\ totalTokensCreated \in Nat /\ newest \in Token \cup {None} /\ extras \in Nat

PoolsStep ==
    Created /\ newest'.type = "partner" =>
        /\ isDefaultBase \subseteq Range(newest'.bases)
        /\ IsInjective(newest'.bases)

\* A creation records its rewards and its bases, the forced ones among them.
LEMMA CreateRecord ==
    ASSUME FInv, BasePart, TokenPart, Creates
    PROVE  BasePart' /\ TokenPart' /\ PoolsStep
<1> PICK creator \in Users, referral \in Users \cup {None}, type \in Types, bases \in BaseLists :
         createToken(creator, referral, type, bases)
    BY DEF Creates
<1> DEFINE rewards == rewardsOf(creator, referral, creationFee)
           list    == bases \o (IF type = "partner" THEN defaultBases ELSE <<>>)
<1>1. rewards \in [Users -> Nat]
    BY RewardsBounded DEF FInv, SettingPart
<1>2. /\ _initAndRecord(creator, type, bases, rewards)
      /\ UNCHANGED <<baseVars, extras>>
    BY DEF createToken
<1> HIDE DEF rewards
<1>3. bases \in Seq(Bases \cup {None}) /\ None \notin Bases
    BY TokenFactoryAssumption
<1>4. list \in Seq(Bases \cup {None})
    BY <1>3 DEF BasePart
<1>5. /\ distinct(list) \in Seq(Bases) /\ IsInjective(distinct(list))
      /\ Range(distinct(list)) = Range(list) \ {None}
    BY <1>4, DistinctList
<1>6. /\ totalTokensCreated' = totalTokensCreated + 1
      /\ newest' = [creator |-> creator, type |-> type, rewards |-> rewards,
                    bases |-> distinct(list)]
    BY <1>2 DEF _initAndRecord, _sanitizeBases
<1>7. type = "partner" => isDefaultBase \subseteq Range(list) \ {None}
    <2> SUFFICES ASSUME type = "partner", NEW v \in Range(defaultBases)
                 PROVE  v \in Range(list) \ {None}
        BY DEF BasePart
    <2>1. PICK i \in 1 .. Len(defaultBases) : v = defaultBases[i]
        BY DEF Range, BasePart
    <2>2. v \in Bases
        BY <2>1 DEF BasePart
    <2>3. list = bases \o defaultBases
        OBVIOUS
    <2>4. /\ Len(bases) + i \in 1 .. Len(bases \o defaultBases)
          /\ (bases \o defaultBases)[Len(bases) + i] = v
        BY <1>3, <2>1 DEF BasePart
    <2>5. DOMAIN list = 1 .. Len(list)
        BY <1>4
    <2> HIDE DEF list
    <2> QED
        BY <1>3, <2>2, <2>3, <2>4, <2>5 DEF Range
<1> HIDE DEF list
<1>8. newest' \in Token /\ newest'.type = type /\ newest'.bases = distinct(list)
    BY <1>1, <1>5, <1>6 DEF Token
<1>9. PoolsStep
    BY <1>5, <1>7, <1>8 DEF PoolsStep
<1> QED
    BY <1>2, <1>6, <1>8, <1>9 DEF BasePart, TokenPart, baseVars

\* The owner's changes of the list keep it a list without duplicates, and the
\* flags its members.
LEMMA BaseSettings ==
    ASSUME BasePart, Settings
    PROVE  BasePart'
<1> USE DEF BasePart
<1>1. CASE UNCHANGED baseVars
    BY <1>1 DEF baseVars
<1>2. CASE \E base \in Bases : addDefaultPartnerBase(base)
    <2> PICK base \in Bases : addDefaultPartnerBase(base)
        BY <1>2
    <2>1. /\ base \notin Range(defaultBases)
          /\ defaultBases' = Append(defaultBases, base)
          /\ isDefaultBase' = Range(defaultBases) \cup {base}
        BY DEF addDefaultPartnerBase
    <2> DEFINE size == Len(defaultBases)
               f == Append(defaultBases, base)
    <2>2. /\ size \in Nat /\ DOMAIN defaultBases = 1 .. size
          /\ f \in Seq(Bases) /\ DOMAIN f = 1 .. size + 1
          /\ \A i \in 1 .. size : i \in 1 .. size + 1 /\ f[i] = defaultBases[i] /\ f[i] # base
          /\ f[size + 1] = base /\ size + 1 \in 1 .. size + 1
        BY <2>1 DEF Range
    <2>3. \A i \in 1 .. size + 1 : i \in 1 .. size \/ i = size + 1
        BY <2>2
    <2> HIDE DEF f, size
    <2>4. IsInjective(f)
        BY <2>2, <2>3 DEF IsInjective
    <2>5. Range(f) = Range(defaultBases) \cup {base}
        <3>1. \A v \in Range(f) : v \in Range(defaultBases) \cup {base}
            BY <2>2, <2>3 DEF Range
        <3>2. \A v \in Range(defaultBases) \cup {base} : v \in Range(f)
            BY <2>2 DEF Range
        <3> QED
            BY <3>1, <3>2
    <2> QED
        BY <2>1, <2>2, <2>4, <2>5 DEF f
<1>3. CASE \E base \in Bases : removeDefaultPartnerBase(base)
    <2> PICK base \in Bases : removeDefaultPartnerBase(base)
        BY <1>3
    <2> QED
        BY WithoutList DEF removeDefaultPartnerBase
<1>4. CASE \E bases \in BaseLists : setDefaultPartnerBases(bases)
    <2> PICK bases \in BaseLists : setDefaultPartnerBases(bases)
        BY <1>4
    <2>1. bases \in Seq(Bases \cup {None})
        BY TokenFactoryAssumption
    <2>2. /\ distinct(bases) = bases /\ defaultBases' = bases /\ isDefaultBase' = Range(bases)
        BY DEF setDefaultPartnerBases
    <2>3. bases \in Seq(Bases) /\ IsInjective(bases)
        BY <2>1, <2>2, DistinctList
    <2> QED
        BY <2>2, <2>3
<1> QED
    BY <1>1, <1>2, <1>3, <1>4
    DEF Settings, setUsdt, setCreationFee, setReferralLevels, setReferralPercents,
        setAutoDistributeReward, setAffiliate, baseVars

TInv == FInv /\ BasePart /\ TokenPart

LEMMA TInit ==
    ASSUME Init
    PROVE  TInv
<1>1. FInv
    BY FInit
<1>2. BasePart /\ TokenPart
    BY TokenFactoryAssumption DEF Init, BasePart, TokenPart
<1> QED
    BY <1>1, <1>2 DEF TInv

\* Steps that leave the factory's own state alone.
LEMMA QuietFactory ==
    ASSUME TInv, UNCHANGED factoryVars, extras' \in Nat
    PROVE  /\ RewardPart' /\ SettingPart' /\ MoneyPart' /\ BasePart' /\ TokenPart'
           /\ PoolsStep
<1>1. UNCHANGED <<rewardVars, settingVars, tokenVars, baseVars, moneyVars>>
    BY DEF factoryVars
<1>2. RewardPart' /\ SettingPart'
    BY <1>1 DEF TInv, FInv, rewardVars, settingVars, RewardPart, SettingPart, HalfAtMost, total
<1>3. MoneyPart'
    BY <1>1 DEF TInv, FInv, MoneyPart, moneyVars, settingVars, rewardVars
<1>4. BasePart' /\ TokenPart'
    BY <1>1 DEF TInv, BasePart, TokenPart, baseVars, tokenVars
<1>5. PoolsStep
    BY <1>1 DEF PoolsStep, Created, tokenVars, TInv, TokenPart
<1> QED
    BY <1>2, <1>3, <1>4, <1>5

LEMMA TNext ==
    ASSUME TInv, [Next]_vars
    PROVE  TInv' /\ PoolsStep
<1> USE DEF TInv
<1>0. AInv'
    BY ANext DEF FInv
<1>00. extras + 1 \in Nat /\ totalTokensCreated \in Nat
    BY DEF TokenPart
<1>1. CASE Creates
    BY <1>0, <1>1, CreateMoney, CreateRecord DEF FInv
<1>2. CASE Pays
    <2>1. RewardPart' /\ SettingPart' /\ MoneyPart'
        BY <1>2, PaysMoney
    <2>2. UNCHANGED <<baseVars, tokenVars, extras>>
        BY <1>2 DEF Pays, claimReward, withdrawFees, processTaxAuth
    <2> QED
        BY <1>0, <1>00, <2>1, <2>2
        DEF FInv, BasePart, TokenPart, PoolsStep, Created, baseVars, tokenVars
<1>3. CASE Settings /\ extras' = extras + 1
    <2>1. RewardPart' /\ SettingPart' /\ MoneyPart'
        BY <1>3, SettingsMoney
    <2>2. BasePart'
        BY <1>3, BaseSettings
    <2>3. UNCHANGED tokenVars
        BY <1>3 DEF Settings, keepSettings, setUsdt, setCreationFee, setReferralLevels,
           setReferralPercents, setAutoDistributeReward, setAffiliate,
           addDefaultPartnerBase, removeDefaultPartnerBase, setDefaultPartnerBases
    <2> QED
        BY <1>0, <1>00, <1>3, <2>1, <2>2, <2>3
        DEF FInv, TokenPart, PoolsStep, Created, tokenVars
<1>4. CASE (\E c \in Coins, amount \in Gifts : taxAccrues(c, amount)) /\ extras' = extras + 1
    <2>1. RewardPart' /\ SettingPart' /\ MoneyPart'
        BY <1>4, TaxMoney
    <2>2. UNCHANGED <<baseVars, tokenVars>>
        BY <1>4 DEF taxAccrues
    <2> QED
        BY <1>0, <1>00, <1>4, <2>1, <2>2
        DEF FInv, BasePart, TokenPart, PoolsStep, Created, baseVars, tokenVars
<1>5. CASE UNCHANGED factoryVars /\ (extras' = extras \/ extras' = extras + 1)
    BY <1>0, <1>00, <1>5, QuietFactory DEF FInv, TokenPart
<1> QED
    BY <1>1, <1>2, <1>3, <1>4, <1>5 DEF Next, vars

LEMMA TInvariant == Spec => []TInv
<1>1. Init => TInv
    BY TInit
<1>2. TInv /\ [Next]_vars => TInv'
    BY TNext
<1> QED
    BY <1>1, <1>2, PTL DEF Spec

\* Every variable of the factory keeps its type; in particular it never pays out
\* more of a coin than it holds.
THEOREM TokenFactoryTypeCorrect == Spec => []TypeOK
<1>1. TInv => TypeOK
    <2> SUFFICES ASSUME TInv PROVE TypeOK
        OBVIOUS
    <2>1. isDefaultBase \subseteq Bases
        BY DEF TInv, BasePart, Range
    <2> QED
        BY <2>1 DEF TInv, FInv, AInv, RewardPart, SettingPart, MoneyPart, BasePart, TokenPart, TypeOK
<1> QED
    BY <1>1, TInvariant, PTL

\* withdrawFees() and the report to the Affiliate leave the promised rewards in
\* the factory, for any percents, levels, shares and fees, unless the owner's
\* settings gave them away; and the running total is the sum of the promises.
THEOREM RewardsAreBacked == Spec => []RewardsBacked
<1>1. TInv => RewardsBacked
    BY DEF TInv, FInv, RewardPart, MoneyPart, RewardsBacked
<1> QED
    BY <1>1, TInvariant, PTL

\* A partner token has every default base of the day, and no base twice, however
\* the list was changed before.
THEOREM PartnerPoolsForced == Spec => PartnerPools
<1>1. TInv /\ [Next]_vars => [PoolsStep]_vars
    BY TNext
<1> QED
    BY <1>1, TInvariant, PTL DEF Spec, PartnerPools, PoolsStep

-----------------------------------------------------------------------------
(* Rings of referrals.                                                     *)

\* p follows k links of refs, from user to user.
Follows(refs, p, k) ==
    /\ p \in [0 .. k -> Users]
    /\ \A i \in 0 .. k - 1 : p[i + 1] = refs[p[i]]

\* Nobody is met again within the least walk of the cycle check.
NoRing(refs) ==
    \A k \in 1 .. MinWalk : \A p \in [0 .. k -> Users] :
        Follows(refs, p, k) => p[k] # p[0]

\* The walk of the code: one link after the other, None once it has ended.
LEMMA UplineSteps ==
    ASSUME NEW refs, NEW start, NEW n \in Nat
    PROVE  /\ DOMAIN upline(refs, start, n) = 1 .. n
           /\ \A i \in 1 .. n : upline(refs, start, n)[i] =
                 IF i = 1 THEN start
                 ELSE IF upline(refs, start, n)[i - 1] = None THEN None
                      ELSE refs[upline(refs, start, n)[i - 1]]
<1> DEFINE Body(g, i) == IF i = 1 THEN start
                         ELSE IF g[i - 1] = None THEN None ELSE refs[g[i - 1]]
           Good == {m \in Nat : \E g : g = [i \in 1 .. m |-> Body(g, i)]}
<1>1. 0 \in Good
    <2> DEFINE g == [i \in 1 .. 0 |-> None]
    <2>1. g = [i \in 1 .. 0 |-> Body(g, i)]
        OBVIOUS
    <2> QED
        BY <2>1
<1>2. ASSUME NEW m \in Nat, m \in Good
      PROVE  m + 1 \in Good
    <2>1. PICK g : g = [i \in 1 .. m |-> Body(g, i)]
        BY <1>2
    <2> DEFINE h == [i \in 1 .. m + 1 |-> Body(g, i)]
    <2>2. \A i \in 1 .. m : i \in 1 .. m + 1 /\ g[i] = Body(g, i)
        <3>1. \A i \in 1 .. m : i \in 1 .. m + 1
            OBVIOUS
        <3>2. \A i \in 1 .. m : g[i] = Body(g, i)
            <4> HIDE DEF Body
            <4> QED
                BY <2>1
        <3> QED
            BY <3>1, <3>2
    <2>3. \A i \in 1 .. m : h[i] = g[i]
        BY <2>2
    <2>4. \A i \in 1 .. m + 1 : i # 1 => i - 1 \in 1 .. m
        OBVIOUS
    <2>5. \A i \in 1 .. m + 1 : Body(g, i) = Body(h, i)
        <3> HIDE DEF h
        <3> QED
            BY <2>3, <2>4
    <2>6. h = [i \in 1 .. m + 1 |-> Body(h, i)]
        BY <2>5
    <2> HIDE DEF h, Body
    <2> QED
        BY <2>6
<1>3. Nat \subseteq Good
    <2> HIDE DEF Good
    <2> QED
        BY <1>1, <1>2, NatSteps
<1>4. \E g : g = [i \in 1 .. n |-> Body(g, i)]
    BY <1>3
<1> DEFINE up == upline(refs, start, n)
<1>5. up = [i \in 1 .. n |-> Body(up, i)]
    BY <1>4 DEF upline
<1>6. DOMAIN up = 1 .. n /\ \A i \in 1 .. n : up[i] = Body(up, i)
    <2> HIDE DEF up, Body
    <2> QED
        BY <1>5
<1> QED
    BY <1>6

\* Who is met on the walk of the code is met by following links.
LEMMA UplineFollows ==
    ASSUME NEW refs \in [Users -> Users \cup {None}], NEW u \in Users, NEW n \in Nat,
           NEW i \in 1 .. n, upline(refs, refs[u], n)[i] \in Users
    PROVE  \E p \in [0 .. i -> Users] :
              Follows(refs, p, i) /\ p[0] = u /\ p[i] = upline(refs, refs[u], n)[i]
<1> DEFINE up == upline(refs, refs[u], n)
<1>0. None \notin Users
    BY AffiliateAssumption
<1>1. \A j \in 1 .. n : up[j] = IF j = 1 THEN refs[u]
                                ELSE IF up[j - 1] = None THEN None ELSE refs[up[j - 1]]
    BY UplineSteps
<1> HIDE DEF up
<1>2. \A j \in 1 .. n : up[j] \in Users \cup {None}
    <2> DEFINE Good == {m \in Nat : \A j \in 1 .. n : j <= m => up[j] \in Users \cup {None}}
    <2>1. 0 \in Good
        OBVIOUS
    <2>2. ASSUME NEW m \in Nat, m \in Good
          PROVE  m + 1 \in Good
        <3> SUFFICES ASSUME m + 1 \in 1 .. n
                     PROVE  up[m + 1] \in Users \cup {None}
            BY <2>2
        <3>1. CASE m = 0
            BY <1>1, <3>1
        <3>2. CASE m # 0
            <4>1. m \in 1 .. n /\ m + 1 # 1 /\ (m + 1) - 1 = m
                BY <3>2
            <4>2. up[m] \in Users \cup {None}
                BY <2>2, <4>1
            <4> QED
                BY <1>1, <4>1, <4>2
        <3> QED
            BY <3>1, <3>2
    <2>3. Nat \subseteq Good
        <3> HIDE DEF Good
        <3> QED
            BY <2>1, <2>2, NatSteps
    <2> QED
        BY <2>3
<1>3. \A j \in 1 .. i : up[j] \in Users
    <2> DEFINE Good == {m \in Nat : m < i => up[i - m] \in Users}
    <2>1. 0 \in Good
        BY DEF up
    <2>2. ASSUME NEW m \in Nat, m \in Good
          PROVE  m + 1 \in Good
        <3> SUFFICES ASSUME m + 1 < i
                     PROVE  up[i - (m + 1)] \in Users
            OBVIOUS
        <3> DEFINE k == i - m
        <3>1. k \in 1 .. n /\ k # 1 /\ k - 1 \in 1 .. n /\ k - 1 = i - (m + 1)
            OBVIOUS
        <3>2. up[k] \in Users
            BY <2>2
        <3>3. up[k - 1] # None
            BY <1>0, <1>1, <3>1, <3>2
        <3> HIDE DEF k
        <3> QED
            BY <1>2, <3>1, <3>3
    <2>3. Nat \subseteq Good
        <3> HIDE DEF Good
        <3> QED
            BY <2>1, <2>2, NatSteps
    <2> TAKE j \in 1 .. i
    <2>4. i - j \in Nat /\ i - j < i /\ i - (i - j) = j
        OBVIOUS
    <2> QED
        BY <2>3, <2>4
<1> DEFINE p == [j \in 0 .. i |-> IF j = 0 THEN u ELSE up[j]]
<1>4. /\ \A j \in 0 .. i : j # 0 => j \in 1 .. i
      /\ 0 \in 0 .. i /\ i \in 0 .. i /\ i # 0
    OBVIOUS
<1>5. p \in [0 .. i -> Users] /\ p[0] = u /\ p[i] = up[i]
    BY <1>3, <1>4
<1>6. ASSUME NEW j \in 0 .. i - 1
      PROVE  p[j + 1] = refs[p[j]]
    <2>1. /\ j \in 0 .. i /\ j + 1 \in 0 .. i /\ j + 1 # 0 /\ (j + 1) - 1 = j
          /\ j + 1 \in 1 .. n
        OBVIOUS
    <2>2. p[j + 1] = up[j + 1]
        BY <2>1
    <2>3. CASE j = 0
        BY <1>1, <2>1, <2>2, <2>3
    <2>4. CASE j # 0
        <3>1. up[j] \in Users /\ j + 1 # 1 /\ p[j] = up[j]
            BY <1>3, <1>4, <2>1, <2>4
        <3>2. up[j] # None
            BY <1>0, <3>1
        <3> QED
            BY <1>1, <2>1, <2>2, <3>1, <3>2
    <2> QED
        BY <2>3, <2>4
<1> QED
    BY <1>5, <1>6 DEF Follows, up

\* A ring entered at m may be entered at its first place as well.
LEMMA RingTurned ==
    ASSUME NEW refs, NEW k \in Nat \ {0}
    PROVE  \A p \in [0 .. k -> Users] : Follows(refs, p, k) /\ p[k] = p[0] =>
              \A m \in 0 .. k - 1 : \E q \in [0 .. k -> Users] :
                  Follows(refs, q, k) /\ q[0] = p[m] /\ q[k] = p[m]
<1> SUFFICES ASSUME NEW p \in [0 .. k -> Users], Follows(refs, p, k), p[k] = p[0],
                    NEW m \in 0 .. k - 1
             PROVE  \E q \in [0 .. k -> Users] :
                       Follows(refs, q, k) /\ q[0] = p[m] /\ q[k] = p[m]
    OBVIOUS
<1> DEFINE at(i) == IF i + m <= k THEN i + m ELSE i + m - k
           q == [i \in 0 .. k |-> p[at(i)]]
<1>1. /\ p \in [0 .. k -> Users]
      /\ \A i \in 0 .. k - 1 : p[i + 1] = refs[p[i]]
    BY DEF Follows
<1>2. \A i \in 0 .. k : at(i) \in 0 .. k
    OBVIOUS
<1>3. q \in [0 .. k -> Users]
    BY <1>1, <1>2
<1>4. q[0] = p[m] /\ q[k] = p[m]
    <2>1. 0 \in 0 .. k /\ at(0) = m
        OBVIOUS
    <2>2. k \in 0 .. k /\ (m = 0 => at(k) = k) /\ (m # 0 => at(k) = m)
        OBVIOUS
    <2> HIDE DEF at
    <2>3. q[0] = p[m] /\ q[k] = p[at(k)]
        BY <2>1, <2>2
    <2> HIDE DEF q
    <2> QED
        BY <2>2, <2>3
<1>5. ASSUME NEW i \in 0 .. k - 1
      PROVE  q[i + 1] = refs[q[i]]
    <2>1. i \in 0 .. k /\ i + 1 \in 0 .. k
        OBVIOUS
    <2>2. q[i] = p[at(i)] /\ q[i + 1] = p[at(i + 1)]
        BY <2>1
    <2>3. CASE i + m = k
        <3>1. at(i) = k /\ at(i + 1) = 1 /\ 0 \in 0 .. k - 1 /\ 0 + 1 = 1
            BY <2>3
        <3>2. p[1] = refs[p[0]]
            BY <1>1, <3>1
        <3> HIDE DEF at
        <3> QED
            BY <2>2, <3>1, <3>2
    <2>4. CASE i + m # k
        <3>1. at(i) \in 0 .. k - 1 /\ at(i + 1) = at(i) + 1
            BY <2>4
        <3> HIDE DEF at
        <3> QED
            BY <1>1, <2>2, <3>1
    <2> QED
        BY <2>3, <2>4
<1> HIDE DEF q
<1> QED
    BY <1>3, <1>4, <1>5 DEF Follows

\* A ring that does not start at c does not pass through it either.
LEMMA RingAvoids ==
    ASSUME NEW refs, NEW c, NEW n \in Nat,
           \A k \in 1 .. n : \A q \in [0 .. k -> Users] :
              Follows(refs, q, k) => ~ (q[0] = c /\ q[k] = c)
    PROVE  \A k \in 1 .. n : \A p \in [0 .. k -> Users] :
              Follows(refs, p, k) /\ p[k] = p[0] => \A m \in 0 .. k - 1 : p[m] # c
<1> TAKE k \in 1 .. n
<1>1. k \in Nat \ {0}
    OBVIOUS
<1>2. \A p \in [0 .. k -> Users] : Follows(refs, p, k) /\ p[k] = p[0] =>
          \A m \in 0 .. k - 1 : \E q \in [0 .. k -> Users] :
              Follows(refs, q, k) /\ q[0] = p[m] /\ q[k] = p[m]
    BY <1>1, RingTurned
<1> QED
    BY <1>2

\* A referrer whose walk does not meet the creator closes no ring: one that did
\* would come back to the creator first along links that were there before.
LEMMA RecordStep ==
    ASSUME NoRing(referrals), referrals \in [Users -> Users \cup {None}],
           NEW creator \in Users, NEW referral \in Users \cup {None},
           referralLevels \in 0 .. MaxLevels,
           noReferral(creator, referral) \/ ~ circular(creator, referral)
    PROVE  NoRing(referralsAfter(creator, referral))
<1> DEFINE after == referralsAfter(creator, referral)
           long  == maxWalk(referralLevels)
           up    == upline(referrals, referral, long)
<1>0. None \notin Users /\ MinWalk \in Nat /\ MaxLevels \in Nat
    BY AffiliateAssumption, TokenFactoryAssumption
<1>1. CASE noReferral(creator, referral) \/ referrals[creator] # None
    BY <1>1 DEF referralsAfter
<1>2. CASE ~ noReferral(creator, referral) /\ referrals[creator] = None
    <2>1. after = [referrals EXCEPT ![creator] = referral]
        BY <1>2 DEF referralsAfter
    <2>2. /\ after[creator] = referral
          /\ \A v \in Users : v # creator => after[v] = referrals[v]
        BY <2>1
    <2>3. long \in Nat /\ long >= MinWalk
        <3>1. referralLevels \in Nat
            BY <1>0
        <3> QED
            BY <1>0, <3>1 DEF maxWalk
    <2>4. \A i \in 1 .. long : up[i] = IF i = 1 THEN referral
                                       ELSE IF up[i - 1] = None THEN None ELSE referrals[up[i - 1]]
        BY <2>3, UplineSteps
    <2> HIDE DEF long
    <2>5. \A i \in DOMAIN up : up[i] # creator
        BY <1>2 DEF circular, long
    <2>6. DOMAIN up = 1 .. long
        BY <2>3, UplineSteps
    <2> HIDE DEF up, after
    <2>7. ASSUME NEW k \in 1 .. MinWalk, NEW p \in [0 .. k -> Users],
                 Follows(after, p, k), p[0] = creator, p[k] = creator
          PROVE  FALSE
        <3> DEFINE back == {j \in 1 .. k : p[j] = creator}
        <3>1. k \in back /\ back \subseteq Nat
            BY <1>0, <2>7
        <3>2. PICK j \in back : \A i \in back : j <= i
            BY <3>1, LeastNat
        <3>3. \A i \in 1 .. j - 1 : p[i] # creator
            BY <3>2
        <3> DEFINE Good == {i \in Nat : i \in 1 .. j => up[i] = p[i]}
        <3>4. 0 \in Good
            OBVIOUS
        <3>5. ASSUME NEW i \in Nat, i \in Good
              PROVE  i + 1 \in Good
            <4> SUFFICES ASSUME i + 1 \in 1 .. j
                         PROVE  up[i + 1] = p[i + 1]
                OBVIOUS
            <4>1. i \in 0 .. k - 1 /\ i + 1 \in 1 .. long /\ (i + 1) - 1 = i
                BY <1>0, <2>3
            <4>2. p[i + 1] = after[p[i]]
                BY <2>7, <4>1 DEF Follows
            <4>3. CASE i = 0
                BY <2>2, <2>4, <2>7, <4>1, <4>2, <4>3
            <4>4. CASE i # 0
                <5>1. i \in 1 .. j - 1 /\ i \in 1 .. j /\ i \in 0 .. k /\ i + 1 # 1
                    BY <4>1, <4>4
                <5>2. up[i] = p[i] /\ p[i] # creator /\ p[i] \in Users
                    BY <3>3, <3>5, <5>1
                <5>3. up[i + 1] = referrals[p[i]]
                    BY <1>0, <2>4, <4>1, <5>1, <5>2
                <5> QED
                    BY <2>2, <4>2, <5>2, <5>3
            <4> QED
                BY <4>3, <4>4
        <3>6. j \in Good
            <4>1. Nat \subseteq Good
                <5> HIDE DEF Good
                <5> QED
                    BY <3>4, <3>5, NatSteps
            <4> QED
                BY <4>1
        <3>7. j \in 1 .. long /\ up[j] = creator
            BY <1>0, <2>3, <3>6
        <3> QED
            BY <2>5, <2>6, <3>7
    <2>8. \A k \in 1 .. MinWalk : \A p \in [0 .. k -> Users] :
            Follows(after, p, k) /\ p[k] = p[0] => \A m \in 0 .. k - 1 : p[m] # creator
        BY <1>0, <2>7, RingAvoids
    <2>9. SUFFICES ASSUME NEW k \in 1 .. MinWalk, NEW p \in [0 .. k -> Users],
                          Follows(after, p, k), p[k] = p[0]
                   PROVE  FALSE
        BY DEF NoRing, after
    <2>10. \A i \in 0 .. k - 1 : i \in 0 .. k /\ p[i] \in Users /\ p[i] # creator
        BY <1>0, <2>8, <2>9
    <2>11. \A i \in 0 .. k - 1 : p[i + 1] = referrals[p[i]]
        BY <2>2, <2>9, <2>10 DEF Follows
    <2>12. Follows(referrals, p, k)
        BY <2>11 DEF Follows
    <2> QED
        BY <2>9, <2>12 DEF NoRing
<1> QED
    BY <1>1, <1>2

\* Without a ring as long as the levels, no level of a creation's chain is the
\* creator, and nothing is dealt to him.
LEMMA NothingToCreator ==
    ASSUME RewardPart, SettingPart, NoRing(referrals), NEW creator \in Users,
           NEW referral \in Users \cup {None}, NEW fee \in Nat,
           noReferral(creator, referral) \/ ~ circular(creator, referral)
    PROVE  rewardsOf(creator, referral, fee)[creator] = 0
<1> DEFINE refs    == referralsAfter(creator, referral)
           up      == upline(refs, refs[creator], referralLevels)
           paid(u) == {i \in DOMAIN up \cap DOMAIN referralPercents : up[i] = u}
           share(u) == [i \in paid(u) |-> (fee * referralPercents[i]) \div Bps]
<1>0. MinWalk \in Nat /\ MaxLevels \in Nat /\ MaxLevels <= MinWalk
    BY TokenFactoryAssumption
<1>1. CASE noReferral(creator, referral)
    BY <1>1 DEF rewardsOf
<1>2. CASE ~ noReferral(creator, referral)
    <2>1. rewardsOf(creator, referral, fee)[creator] = SumFunction(share(creator))
        BY <1>2 DEF rewardsOf
    <2>2. NoRing(refs) /\ refs \in [Users -> Users \cup {None}]
        <3>1. NoRing(refs)
            BY RecordStep DEF RewardPart, SettingPart
        <3>2. refs \in [Users -> Users \cup {None}]
            BY DEF referralsAfter, RewardPart
        <3> QED
            BY <3>1, <3>2
    <2> HIDE DEF refs
    <2>3. referralLevels \in Nat /\ referralLevels <= MinWalk
        BY <1>0 DEF SettingPart
    <2>4. DOMAIN up = 1 .. referralLevels
        BY <2>3, UplineSteps
    <2>5. ASSUME NEW i \in 1 .. referralLevels, up[i] = creator
          PROVE  FALSE
        <3>1. up[i] \in Users
            BY <2>5
        <3>2. PICK p \in [0 .. i -> Users] :
                  Follows(refs, p, i) /\ p[0] = creator /\ p[i] = up[i]
            <4> HIDE DEF up
            <4> QED
                BY <2>2, <2>3, <3>1, UplineFollows DEF up
        <3>3. i \in 1 .. MinWalk
            BY <1>0, <2>3
        <3> HIDE DEF up
        <3> QED
            BY <2>2, <2>5, <3>2, <3>3 DEF NoRing
    <2>6. paid(creator) = {}
        <3> HIDE DEF up
        <3> QED
            BY <2>4, <2>5
    <2> HIDE DEF paid
    <2>7. share(creator) \in [{} -> Int] /\ \A i \in {} : share(creator)[i] = 0
        BY <2>6
    <2> HIDE DEF share
    <2>8. SumFunction(share(creator)) = 0
        BY <2>7, SumZero, FS_EmptySet
    <2> QED
        BY <2>1, <2>8
<1> QED
    BY <1>1, <1>2

LEMMA RNext ==
    ASSUME TInv, NoRing(referrals), NoSelfReward, [Next]_vars
    PROVE  NoRing(referrals)' /\ NoSelfReward'
<1>1. CASE Creates
    <2> PICK creator \in Users, referral \in Users \cup {None}, type \in Types, bases \in BaseLists :
             createToken(creator, referral, type, bases)
        BY <1>1 DEF Creates
    <2> DEFINE rewards == rewardsOf(creator, referral, creationFee)
    <2>1. /\ noReferral(creator, referral) \/ ~ circular(creator, referral)
          /\ \E bounced : _processReferral(creator, referral, rewards, bounced)
          /\ _initAndRecord(creator, type, bases, rewards)
        BY DEF createToken
    <2>2. rewards[creator] = 0
        BY <2>1, NothingToCreator DEF TInv, FInv, SettingPart
    <2> HIDE DEF rewards
    <2>3. newest'.rewards = rewards /\ newest'.creator = creator
        BY <2>1 DEF _initAndRecord
    <2>4. referrals' = referralsAfter(creator, referral)
        BY <2>1 DEF _processReferral
    <2>5. NoRing(referralsAfter(creator, referral))
        BY <2>1, RecordStep DEF TInv, FInv, RewardPart, SettingPart
    <2> QED
        BY <2>2, <2>3, <2>4, <2>5 DEF NoSelfReward, NoRing, Follows
<1>2. CASE UNCHANGED <<referrals, newest>>
    BY <1>2 DEF NoSelfReward, NoRing, Follows
<1>3. CASE Pays \/ Settings \/ \E c \in Coins, amount \in Gifts : taxAccrues(c, amount)
    <2>1. UNCHANGED <<referrals, newest>>
        BY <1>3 DEF Pays, claimReward, withdrawFees, processTaxAuth, taxAccrues, Settings,
           keepSettings, setUsdt, setCreationFee, setReferralLevels, setReferralPercents,
           setAutoDistributeReward, setAffiliate, addDefaultPartnerBase,
           removeDefaultPartnerBase, setDefaultPartnerBases, rewardVars, tokenVars
    <2> QED
        BY <1>2, <2>1
<1>4. CASE UNCHANGED factoryVars
    <2>1. UNCHANGED <<referrals, newest>>
        BY <1>4 DEF factoryVars, rewardVars, tokenVars
    <2> QED
        BY <1>2, <2>1
<1> QED
    BY <1>1, <1>3, <1>4 DEF Next, vars

LEMMA RInit ==
    ASSUME Init
    PROVE  NoRing(referrals) /\ NoSelfReward
<1>1. NoSelfReward
    BY DEF Init, NoSelfReward
<1>2. ASSUME NEW k \in 1 .. MinWalk, NEW p \in [0 .. k -> Users], Follows(referrals, p, k)
      PROVE  FALSE
    <2>1. 0 \in 0 .. k - 1 /\ 0 \in 0 .. k /\ 1 \in 0 .. k /\ 0 + 1 = 1
        BY TokenFactoryAssumption
    <2>2. p[0] \in Users /\ p[1] \in Users /\ p[1] = referrals[p[0]]
        BY <1>2, <2>1 DEF Follows
    <2>3. referrals[p[0]] = None
        BY <2>2 DEF Init
    <2> QED
        BY <2>2, <2>3, AffiliateAssumption
<1> QED
    BY <1>1, <1>2 DEF NoRing

\* No creator is paid a referral reward out of his own fee: no user is met again
\* within the least walk of the cycle check, and the levels never exceed it,
\* however long the rings users refer each other in and however the number of
\* levels changes meanwhile.
THEOREM CreatorsEarnNothing == Spec => []NoSelfReward
<1> DEFINE RInv == TInv /\ NoRing(referrals) /\ NoSelfReward
<1>1. Init => RInv
    BY TInit, RInit
<1>2. RInv /\ [Next]_vars => RInv'
    <2> SUFFICES ASSUME RInv, [Next]_vars PROVE RInv'
        OBVIOUS
    <2>1. TInv'
        BY TNext
    <2>2. NoRing(referrals)' /\ NoSelfReward'
        BY RNext
    <2> QED
        BY <2>1, <2>2
<1>3. RInv => NoSelfReward
    OBVIOUS
<1> HIDE DEF RInv
<1> QED
    BY <1>1, <1>2, <1>3, PTL DEF Spec
=============================================================================
