-------------------------- MODULE LaunchpadProofs --------------------------
(***************************************************************************)
(* Proofs about Launchpad, for any tokens, people and number of launches.  *)
(*                                                                         *)
(* Most steps touch one token's controls, or one launch.  What either kind *)
(* may do and keep the invariant is stated once (TokenStep, LaunchStep),   *)
(* and each action is shown to be of its kind.                             *)
(***************************************************************************)
EXTENDS Launchpad, TLAPS

\* A locked ceiling bounds the rate, and trading has locked it.
sane(k) == (k.locked => k.tax <= k.ceiling) /\ (k.trading => k.locked)
AllSane == \A t \in Tokens : sane(tokens[t])

\* A registration names a launch of its token.
Registered ==
    \A t \in Tokens : tokenToLaunch[t] # None =>
        tokenToLaunch[t] \in DOMAIN launches /\ tokenOf(tokenToLaunch[t]) = t

\* Launches are of tokens that exist.
LaunchesExist == \A l \in DOMAIN launches : created(tokenOf(l))

\* Unless its owner has authorised one, no person is a launcher of the token.
NoPerson == \A t \in Tokens \ meddled : tokens[t].launchers \cap Users = {}

\* A launch that sells is still the launcher it was when it was activated.
Welcome ==
    \A l \in DOMAIN launches : launches[l].state = "Active" /\ tokenOf(l) \notin meddled
        => l \in tokens[tokenOf(l)].launchers

LInv ==
    /\ TypeOK /\ AllSane /\ Registered /\ LaunchesExist /\ NoPerson
    /\ Welcome /\ OneLiveLaunch /\ TermsKept /\ GraduatedTrades

-----------------------------------------------------------------------------
(* The operations on a token's record.                                     *)

\* What one step may make of a token's record k.
lawful(k, k2) ==
    /\ sane(k2)
    /\ k.owner # None => k2.owner # None
    /\ k.trading => k2.trading
    /\ k.trading => k2.ceiling <= k.ceiling

\* What it may do, besides, without being the owner's meddling.
keeps(k, k2) ==
    /\ k.launchers \cap Ids \subseteq k2.launchers
    /\ k2.launchers \cap Users \subseteq k.launchers
    /\ k.locked => k2.locked /\ k2.ceiling <= k.ceiling

\* lockTaxCeiling() keeps the rates and everything else.
LEMMA LockFields ==
    ASSUME NEW k \in Token
    PROVE  /\ lockTaxCeiling(k) \in Token
           /\ lockTaxCeiling(k).owner = k.owner /\ lockTaxCeiling(k).trading = k.trading
           /\ lockTaxCeiling(k).tax = k.tax /\ lockTaxCeiling(k).ceiling = k.tax
           /\ lockTaxCeiling(k).locked /\ lockTaxCeiling(k).launchers = k.launchers
    BY DEF lockTaxCeiling, Token

\* enableTrading() leaves a locked ceiling as it is.
LEMMA EnableFields ==
    ASSUME NEW k \in Token
    PROVE  /\ enableTrading(k) \in Token
           /\ enableTrading(k).owner = k.owner /\ enableTrading(k).trading
           /\ enableTrading(k).tax = k.tax /\ enableTrading(k).locked
           /\ enableTrading(k).ceiling = IF k.locked THEN k.ceiling ELSE k.tax
           /\ enableTrading(k).launchers = k.launchers
<1>1. CASE k.locked
    BY <1>1 DEF enableTrading, Token
<1>2. CASE ~k.locked
    <2>1. enableTrading(k) = [lockTaxCeiling(k) EXCEPT !.trading = TRUE]
        BY <1>2 DEF enableTrading
    <2> QED
        BY <1>2, <2>1, LockFields DEF Token
<1> QED
    BY <1>1, <1>2

\* unlockTaxCeiling() clears the ceiling only.
LEMMA UnlockFields ==
    ASSUME NEW k \in Token
    PROVE  /\ unlockTaxCeiling(k) \in Token
           /\ unlockTaxCeiling(k).owner = k.owner /\ unlockTaxCeiling(k).trading = k.trading
           /\ unlockTaxCeiling(k).locked = FALSE
           /\ unlockTaxCeiling(k).launchers = k.launchers
<1>1. unlockTaxCeiling(k) = [[k EXCEPT !.ceiling = 0] EXCEPT !.locked = FALSE]
    BY DEF unlockTaxCeiling, Token
<1>2. 0 \in 0 .. MaxTax
    BY LaunchpadAssumption
<1>3. [k EXCEPT !.ceiling = 0] \in Token
    BY <1>2 DEF Token
<1> QED
    BY <1>1, <1>3 DEF Token

\* forceRelaxTaxes() lowers the rate and never raises the ceiling.
LEMMA RelaxFields ==
    ASSUME NEW k \in Token, NEW x \in Nat, x <= k.tax, sane(k)
    PROVE  /\ forceRelaxTaxes(k, x) \in Token
           /\ lawful(k, forceRelaxTaxes(k, x)) /\ keeps(k, forceRelaxTaxes(k, x))
<1> DEFINE c == IF k.ceiling > 0 /\ x < k.ceiling THEN x ELSE k.ceiling
<1> DEFINE j == [k EXCEPT !.tax = x]
<1> DEFINE k2 == [j EXCEPT !.ceiling = c]
<1>1. k.tax \in 0 .. MaxTax /\ k.ceiling \in 0 .. MaxTax /\ MaxTax \in Nat
    BY LaunchpadAssumption DEF Token
<1>2. c \in 0 .. MaxTax /\ x \in 0 .. MaxTax /\ c <= k.ceiling /\ (k.locked => x <= c)
    BY <1>1 DEF sane
<1>3. forceRelaxTaxes(k, x) = k2
    BY DEF forceRelaxTaxes, Token
<1> HIDE DEF c
<1>4. j \in Token /\ j.ceiling = k.ceiling /\ j.tax = x /\ j.owner = k.owner
      /\ j.trading = k.trading /\ j.locked = k.locked /\ j.launchers = k.launchers
    BY <1>2 DEF Token
<1> HIDE DEF j
<1>5. k2 \in Token /\ k2.ceiling = c /\ k2.tax = j.tax /\ k2.owner = j.owner
      /\ k2.trading = j.trading /\ k2.locked = j.locked /\ k2.launchers = j.launchers
    BY <1>2, <1>4 DEF Token
<1> HIDE DEF k2
<1> QED
    BY <1>2, <1>3, <1>4, <1>5 DEF lawful, keeps, sane

-----------------------------------------------------------------------------
(* The kinds of steps.                                                     *)

\* What CeilingFinal says of one step.
CeilingStep ==
    \A t \in Tokens : tokens[t].trading =>
        /\ tokens'[t].locked /\ tokens'[t].ceiling <= tokens[t].ceiling
        /\ tokens'[t].tax <= tokens'[t].ceiling

\* Where a launch stands.
LEMMA Launches ==
    ASSUME TypeOK
    PROVE  /\ DOMAIN launches \subseteq Ids
           /\ \A l \in DOMAIN launches : launches[l] \in Launch /\ tokenOf(l) \in Tokens
<1>1. launches \in Seq(Launch) /\ Len(launches) <= MaxLaunches /\ MaxLaunches \in Nat
    BY LaunchpadAssumption DEF TypeOK
<1>2. /\ DOMAIN launches = 1 .. Len(launches) /\ Len(launches) \in Nat
      /\ \A l \in DOMAIN launches : launches[l] \in Launch
    BY <1>1
<1>3. \A m \in Launch : m.token \in Tokens
    BY DEF Launch
<1> QED
    BY <1>1, <1>2, <1>3 DEF Ids, tokenOf

\* A step that changes the controls of one token, and perhaps counts it as
\* meddled with.  A token that was not there has no launch to keep anything for.
LEMMA TokenStep ==
    ASSUME LInv, NEW t \in Tokens, NEW k \in Token,
           tokens' = [tokens EXCEPT ![t] = k],
           UNCHANGED <<launches, registry, platform>>,
           meddled' = meddled \/ meddled' = meddled \cup {t},
           lawful(tokens[t], k),
           \/ t \in meddled' \/ keeps(tokens[t], k)
           \/ ~created(t) /\ k.launchers \cap Users \subseteq tokens[t].launchers
    PROVE  LInv' /\ CeilingStep
<1> USE DEF LInv
<1>1. /\ tokens' \in [Tokens -> Token] /\ tokens'[t] = k /\ tokens[t] \in Token
      /\ \A s \in Tokens : s # t => tokens'[s] = tokens[s]
    BY DEF TypeOK
<1>2. /\ launches' = launches /\ tokenToLaunch' = tokenToLaunch /\ meddled \subseteq meddled'
      /\ \A s \in Tokens : s # t => (s \in meddled' <=> s \in meddled)
    BY DEF registry
<1>3. TypeOK'
    BY <1>1 DEF TypeOK, registry, platform
<1>4. AllSane'
    BY <1>1 DEF AllSane, lawful, sane
<1>5. Registered'
    BY <1>2 DEF Registered, tokenOf
<1>6. LaunchesExist'
    BY <1>1, <1>2, Launches DEF LaunchesExist, created, tokenOf, lawful
<1>7. NoPerson'
    BY <1>1, <1>2 DEF NoPerson, keeps
<1>8. Welcome'
    BY <1>1, <1>2, Launches DEF Welcome, tokenOf, keeps, LaunchesExist
<1>9. OneLiveLaunch'
    BY <1>2 DEF OneLiveLaunch, live, tokenOf
<1>10. TermsKept'
    <2> SUFFICES ASSUME NEW l \in DOMAIN launches, live(l), launches[l].terms # None,
                        tokenOf(l) \notin meddled'
                 PROVE  honours(tokens'[tokenOf(l)], launches[l].terms)
        BY <1>2 DEF TermsKept, live, tokenOf
    <2>1. tokenOf(l) \in Tokens /\ launches[l].terms \in 0 .. MaxTax
        BY Launches DEF Launch
    <2>2. honours(tokens[tokenOf(l)], launches[l].terms)
        BY <1>2 DEF TermsKept
    <2>3. CASE tokenOf(l) = t
        <3>1. k.locked /\ k.ceiling <= tokens[t].ceiling /\ k.tax <= k.ceiling
            BY <1>2, <2>2, <2>3 DEF honours, keeps, lawful, sane, LaunchesExist
        <3>2. /\ k.ceiling \in 0 .. MaxTax /\ k.tax \in 0 .. MaxTax
              /\ tokens[t].ceiling \in 0 .. MaxTax
            BY <1>1 DEF Token
        <3> QED
            BY <1>1, <2>1, <2>2, <2>3, <3>1, <3>2 DEF honours
    <2>4. CASE tokenOf(l) # t
        BY <1>1, <2>1, <2>2, <2>4
    <2> QED
        BY <2>3, <2>4
<1>11. GraduatedTrades'
    BY <1>1, <1>2, Launches DEF GraduatedTrades, tokenOf, lawful
<1>12. CeilingStep
    <2> SUFFICES ASSUME NEW s \in Tokens, tokens[s].trading
                 PROVE  /\ tokens'[s].locked /\ tokens'[s].ceiling <= tokens[s].ceiling
                        /\ tokens'[s].tax <= tokens'[s].ceiling
        BY DEF CeilingStep
    <2>1. tokens[s].ceiling \in 0 .. MaxTax
        BY DEF TypeOK, Token
    <2> QED
        BY <1>1, <2>1 DEF AllSane, lawful, sane
<1> QED
    BY <1>3, <1>4, <1>5, <1>6, <1>7, <1>8, <1>9, <1>10, <1>11, <1>12

\* A step of a live launch, which may unregister it as it ends.
LEMMA LaunchStep ==
    ASSUME LInv, NEW l \in DOMAIN launches, live(l), NEW m \in Launch, NEW k \in Token,
           launches' = [launches EXCEPT ![l] = m],
           m.token = tokenOf(l), m.terms = launches[l].terms,
           tokens' = [tokens EXCEPT ![tokenOf(l)] = k],
           UNCHANGED <<platform, meddled, usdt, usdtLocked>>,
           lawful(tokens[tokenOf(l)], k), k.launchers = tokens[tokenOf(l)].launchers,
           keeps(tokens[tokenOf(l)], k) \/ m.state = "Refunding",
           \/ tokenToLaunch' = tokenToLaunch
           \/ /\ tokenToLaunch' = [tokenToLaunch EXCEPT ![tokenOf(l)] = None]
              /\ m.state \in {"Refunding", "Cancelled"},
           m.state = "Active" => l \in k.launchers,
           m.state = "Graduated" => k.trading \/ tokenOf(l) \in meddled
    PROVE  LInv' /\ CeilingStep
<1> USE DEF LInv
<1> DEFINE t == tokenOf(l)
<1>1. t \in Tokens /\ l \in Ids /\ tokenToLaunch[t] = l
    BY Launches DEF OneLiveLaunch
<1>2. /\ tokens' \in [Tokens -> Token] /\ tokens'[t] = k /\ tokens[t] \in Token
      /\ \A s \in Tokens : s # t => tokens'[s] = tokens[s]
    BY <1>1 DEF TypeOK
<1>3. /\ launches' \in Seq(Launch) /\ Len(launches') = Len(launches)
      /\ DOMAIN launches' = DOMAIN launches /\ launches'[l] = m
      /\ \A n \in DOMAIN launches : n # l => launches'[n] = launches[n]
    BY DEF TypeOK
<1>4. \A n \in DOMAIN launches : (launches'[n]).token = tokenOf(n) /\ tokenOf(n) \in Tokens
    BY <1>3, Launches DEF tokenOf
<1>5. /\ tokenToLaunch' \in [Tokens -> Ids \cup {None}]
      /\ \A s \in Tokens : s # t => tokenToLaunch'[s] = tokenToLaunch[s]
      /\ tokenToLaunch'[t] \in {l, None}
      /\ m.state \notin {"Refunding", "Cancelled"} => tokenToLaunch'[t] = l
    BY <1>1 DEF TypeOK
<1>6. None \notin Ids
    BY LaunchpadAssumption DEF Ids
<1>7. TypeOK'
    BY <1>2, <1>3, <1>5 DEF TypeOK, platform
<1>8. AllSane'
    BY <1>1, <1>2 DEF AllSane, lawful, sane
<1>9. Registered'
    BY <1>1, <1>3, <1>4, <1>5 DEF Registered, tokenOf
<1>10. LaunchesExist'
    BY <1>1, <1>2, <1>3, <1>4 DEF LaunchesExist, created, tokenOf, lawful
<1>11. NoPerson'
    BY <1>1, <1>2 DEF NoPerson
<1>12. Welcome'
    BY <1>1, <1>2, <1>3, <1>4 DEF Welcome, tokenOf
\* Another launch of the same token is not live.
<1>13. \A n \in DOMAIN launches : n # l /\ live(n) => tokenOf(n) # t
    BY <1>1 DEF OneLiveLaunch
<1>14. \A n \in DOMAIN launches : live(n)' => live(n)
    BY <1>3 DEF live
<1>15. OneLiveLaunch'
    <2> SUFFICES ASSUME NEW n \in DOMAIN launches, live(n)'
                 PROVE  tokenToLaunch'[tokenOf(n)] = n
        BY <1>3, <1>4 DEF OneLiveLaunch, tokenOf
    <2>1. CASE n = l
        BY <2>1, <1>3, <1>5 DEF live
    <2>2. CASE n # l
        BY <2>2, <1>3, <1>4, <1>5, <1>13, <1>14 DEF OneLiveLaunch
    <2> QED
        BY <2>1, <2>2
<1>16. TermsKept'
    <2> SUFFICES ASSUME NEW n \in DOMAIN launches, live(n)', (launches'[n]).terms # None,
                        tokenOf(n) \notin meddled
                 PROVE  honours(tokens'[tokenOf(n)], (launches'[n]).terms)
        BY <1>3, <1>4 DEF TermsKept, tokenOf
    <2>1. live(n) /\ tokenOf(n) \in Tokens /\ (launches'[n]).terms = launches[n].terms
        BY <1>3, <1>4, <1>14
    <2>2. honours(tokens[tokenOf(n)], launches[n].terms)
        BY <2>1 DEF TermsKept
    <2>3. launches[n].terms \in 0 .. MaxTax
        BY <2>1, Launches DEF Launch
    <2>4. CASE n = l
        <3>1. keeps(tokens[t], k)
            BY <2>4, <1>3 DEF live
        <3>2. k.locked /\ k.ceiling <= tokens[t].ceiling /\ k.tax <= k.ceiling
            BY <2>2, <2>4, <3>1 DEF honours, keeps, lawful, sane
        <3>3. /\ k.ceiling \in 0 .. MaxTax /\ k.tax \in 0 .. MaxTax
              /\ tokens[t].ceiling \in 0 .. MaxTax
            BY <1>2 DEF Token
        <3> QED
            BY <1>2, <2>1, <2>2, <2>3, <2>4, <3>2, <3>3 DEF honours
    <2>5. CASE n # l
        BY <1>2, <1>13, <2>1, <2>2, <2>5
    <2> QED
        BY <2>4, <2>5
<1>17. GraduatedTrades'
    <2> SUFFICES ASSUME NEW n \in DOMAIN launches, (launches'[n]).state = "Graduated",
                        tokenOf(n) \notin meddled
                 PROVE  (tokens'[tokenOf(n)]).trading
        BY <1>3, <1>4 DEF GraduatedTrades, tokenOf
    <2>1. CASE n = l
        BY <2>1, <1>2, <1>3
    <2>2. CASE n # l
        BY <2>2, <1>2, <1>3, <1>4 DEF GraduatedTrades, lawful
    <2> QED
        BY <2>1, <2>2
<1>18. CeilingStep
    <2> SUFFICES ASSUME NEW s \in Tokens, tokens[s].trading
                 PROVE  /\ (tokens'[s]).locked /\ (tokens'[s]).ceiling <= tokens[s].ceiling
                        /\ (tokens'[s]).tax <= (tokens'[s]).ceiling
        BY DEF CeilingStep
    <2>1. tokens[s].ceiling \in 0 .. MaxTax
        BY DEF TypeOK, Token
    <2> QED
        BY <1>2, <2>1 DEF AllSane, lawful, sane
<1> QED
    BY <1>7, <1>8, <1>9, <1>10, <1>11, <1>12, <1>15, <1>16, <1>17, <1>18

\* A launch is added for a token that has none.
LEMMA NewLaunch ==
    ASSUME LInv, NEW t \in Tokens, NEW m \in Launch, NEW k \in Token, canLaunch(t),
           launches' = Append(launches, m),
           tokenToLaunch' = [tokenToLaunch EXCEPT ![t] = next],
           tokens' = [tokens EXCEPT ![t] = k],
           usdtLocked' = TRUE, UNCHANGED <<usdt, platform, meddled>>,
           m.token = t, m.state \in {"Pending", "Active"},
           m.state = "Active" => next \in k.launchers,
           m.terms = None \/ honours(k, m.terms),
           lawful(tokens[t], k), k.owner # None,
           k.launchers \cap Users \subseteq tokens[t].launchers
    PROVE  LInv' /\ CeilingStep
<1> USE DEF LInv
<1>1. /\ tokens' \in [Tokens -> Token] /\ tokens'[t] = k /\ tokens[t] \in Token
      /\ \A s \in Tokens : s # t => tokens'[s] = tokens[s]
    BY DEF TypeOK
<1>2. /\ launches \in Seq(Launch) /\ Len(launches) \in Nat /\ Len(launches) < MaxLaunches
      /\ tokenToLaunch[t] = None /\ MaxLaunches \in Nat
    BY LaunchpadAssumption DEF TypeOK, canLaunch
<1>3. next \in Ids /\ next \notin DOMAIN launches
    BY <1>2 DEF next, Ids
<1>4. /\ launches' \in Seq(Launch) /\ Len(launches') <= MaxLaunches
      /\ DOMAIN launches' = DOMAIN launches \cup {next} /\ launches'[next] = m
      /\ \A n \in DOMAIN launches : launches'[n] = launches[n]
    BY <1>2 DEF next
<1>5. /\ \A n \in DOMAIN launches : (launches'[n]).token = tokenOf(n) /\ tokenOf(n) \in Tokens
      /\ (launches'[next]).token = t
    BY <1>4, Launches DEF tokenOf
<1>6. /\ tokenToLaunch' \in [Tokens -> Ids \cup {None}] /\ tokenToLaunch'[t] = next
      /\ \A s \in Tokens : s # t => tokenToLaunch'[s] = tokenToLaunch[s]
    BY <1>3 DEF TypeOK
<1>7. None \notin Ids /\ DOMAIN launches \subseteq Ids
    BY Launches, LaunchpadAssumption DEF Ids
\* No launch of the token is live.
<1>8. \A n \in DOMAIN launches : live(n) => tokenOf(n) # t
    BY <1>2, <1>7 DEF OneLiveLaunch
<1>9. TypeOK'
    BY <1>1, <1>4, <1>6 DEF TypeOK, platform
<1>10. AllSane'
    BY <1>1 DEF AllSane, lawful, sane
<1>11. Registered'
    BY <1>4, <1>5, <1>6 DEF Registered, tokenOf
<1>12. LaunchesExist'
    BY <1>1, <1>4, <1>5 DEF LaunchesExist, created, tokenOf
<1>13. NoPerson'
    BY <1>1 DEF NoPerson
<1>14. Welcome'
    <2> SUFFICES ASSUME NEW n \in DOMAIN launches \cup {next}, (launches'[n]).state = "Active",
                        (launches'[n]).token \notin meddled
                 PROVE  n \in (tokens'[(launches'[n]).token]).launchers
        BY <1>4 DEF Welcome, tokenOf
    <2>1. CASE n = next
        BY <2>1, <1>1, <1>4, <1>5
    <2>2. CASE n \in DOMAIN launches
        BY <2>2, <1>1, <1>4, <1>5, <1>8 DEF Welcome, live
    <2> QED
        BY <2>1, <2>2
<1>15. OneLiveLaunch'
    <2> SUFFICES ASSUME NEW n \in DOMAIN launches \cup {next}, live(n)'
                 PROVE  tokenToLaunch'[(launches'[n]).token] = n
        BY <1>4 DEF OneLiveLaunch, tokenOf
    <2>1. CASE n = next
        BY <2>1, <1>5, <1>6
    <2>2. CASE n \in DOMAIN launches
        <3>1. live(n) /\ tokenOf(n) # t
            BY <2>2, <1>4, <1>8 DEF live
        <3> QED
            BY <2>2, <3>1, <1>5, <1>6 DEF OneLiveLaunch
    <2> QED
        BY <2>1, <2>2
<1>16. TermsKept'
    <2> SUFFICES ASSUME NEW n \in DOMAIN launches \cup {next}, live(n)',
                        (launches'[n]).terms # None, (launches'[n]).token \notin meddled
                 PROVE  honours(tokens'[(launches'[n]).token], (launches'[n]).terms)
        BY <1>4 DEF TermsKept, tokenOf
    <2>1. CASE n = next
        BY <2>1, <1>1, <1>4, <1>5
    <2>2. CASE n \in DOMAIN launches
        <3>1. live(n) /\ tokenOf(n) # t
            BY <2>2, <1>4, <1>8 DEF live
        <3> QED
            BY <2>2, <3>1, <1>1, <1>4, <1>5 DEF TermsKept
    <2> QED
        BY <2>1, <2>2
<1>17. GraduatedTrades'
    <2> SUFFICES ASSUME NEW n \in DOMAIN launches \cup {next},
                        (launches'[n]).state = "Graduated", (launches'[n]).token \notin meddled
                 PROVE  (tokens'[(launches'[n]).token]).trading
        BY <1>4 DEF GraduatedTrades, tokenOf
    <2>1. n \in DOMAIN launches
        BY <1>4
    <2> QED
        BY <2>1, <1>1, <1>4, <1>5, <1>8 DEF GraduatedTrades, live
<1>18. CeilingStep
    <2> SUFFICES ASSUME NEW s \in Tokens, tokens[s].trading
                 PROVE  /\ (tokens'[s]).locked /\ (tokens'[s]).ceiling <= tokens[s].ceiling
                        /\ (tokens'[s]).tax <= (tokens'[s]).ceiling
        BY DEF CeilingStep
    <2>1. tokens[s].ceiling \in 0 .. MaxTax
        BY DEF TypeOK, Token
    <2> QED
        BY <1>1, <2>1 DEF AllSane, lawful, sane
<1> QED
    BY <1>9, <1>10, <1>11, <1>12, <1>13, <1>14, <1>15, <1>16, <1>17, <1>18

\* A step that leaves the tokens and the launches alone, and registers no
\* launch anew.
LEMMA QuietStep ==
    ASSUME LInv, UNCHANGED <<tokens, launches, tokenToLaunch, meddled>>,
           usdt' \in Dollars, usdtLocked' \in BOOLEAN,
           authorizedRouter' \in {Router, None}, paused' \in BOOLEAN
    PROVE  LInv' /\ CeilingStep
<1> USE DEF LInv
<1>1. /\ TypeOK' /\ AllSane' /\ Registered' /\ LaunchesExist' /\ NoPerson' /\ Welcome'
      /\ OneLiveLaunch' /\ TermsKept' /\ GraduatedTrades'
    BY DEF TypeOK, AllSane, Registered, LaunchesExist, NoPerson, Welcome, OneLiveLaunch,
           TermsKept, GraduatedTrades, created, tokenOf, live, sane
<1>2. \A s \in Tokens : tokens[s].ceiling \in 0 .. MaxTax
    BY DEF TypeOK, Token
<1> QED
    BY <1>1, <1>2 DEF CeilingStep, AllSane, sane

-----------------------------------------------------------------------------
(* The operations.                                                         *)

\* The record of a token as it stands.
LEMMA Sanity ==
    ASSUME LInv, NEW t \in Tokens
    PROVE  /\ tokens[t] \in Token /\ sane(tokens[t])
           /\ lawful(tokens[t], tokens[t]) /\ keeps(tokens[t], tokens[t])
           /\ tokens = [tokens EXCEPT ![t] = tokens[t]]
<1>1. tokens \in [Tokens -> Token] /\ sane(tokens[t])
    BY DEF LInv, TypeOK, AllSane
<1>2. tokens[t] \in Token /\ tokens[t].ceiling \in 0 .. MaxTax
    BY <1>1 DEF Token
<1> QED
    BY <1>1, <1>2 DEF lawful, keeps

\* What an owner does.
LEMMA OwnerStep ==
    ASSUME LInv, NEW u \in Users, NEW t \in Tokens, Owner(u, t)
    PROVE  LInv' /\ CeilingStep
<1> DEFINE k == tokens[t]
<1>1. /\ k \in Token /\ sane(k) /\ lawful(k, k) /\ keeps(k, k)
      /\ k.tax \in 0 .. MaxTax /\ k.ceiling \in 0 .. MaxTax /\ MaxTax \in Nat
    BY Sanity, LaunchpadAssumption DEF Token
<1>2. u # None /\ Router # None /\ u \notin Ids
    BY LaunchpadAssumption DEF Ids
<1>3. CASE createToken(u, t)
    <2> DEFINE j == [k EXCEPT !.owner = u]
    <2>1. j \in Token /\ lawful(k, j) /\ keeps(k, j)
        BY <1>1, <1>2 DEF Token, lawful, keeps, sane
    <2>2. tokens' = [tokens EXCEPT ![t] = j]
        BY <1>3 DEF createToken
    <2> HIDE DEF j
    <2> QED
        BY <1>3, <2>1, <2>2, TokenStep DEF createToken, tokenOnly
<1>4. CASE \E x \in Taxes : ownerSetsTaxes(u, t, x)
    <2> PICK x \in Taxes : ownerSetsTaxes(u, t, x)
        BY <1>4
    <2> DEFINE j == setTaxes(k, x)
    <2>1. x \in 0 .. MaxTax /\ (k.locked => x <= k.ceiling)
        BY LaunchpadAssumption DEF ownerSetsTaxes, canSetTaxes
    <2>2. j \in Token /\ lawful(k, j) /\ keeps(k, j)
        BY <1>1, <2>1 DEF setTaxes, Token, lawful, keeps, sane
    <2>3. tokens' = [tokens EXCEPT ![t] = j]
        BY DEF ownerSetsTaxes
    <2> HIDE DEF j
    <2> QED
        BY <2>2, <2>3, TokenStep DEF ownerSetsTaxes, tokenOnly
<1>5. CASE ownerLocksCeiling(u, t)
    <2> DEFINE j == lockTaxCeiling(k)
    <2>1. j \in Token /\ lawful(k, j) /\ keeps(k, j)
        BY <1>1, LockFields DEF lawful, keeps, sane
    <2>2. tokens' = [tokens EXCEPT ![t] = j]
        BY <1>5 DEF ownerLocksCeiling
    <2> HIDE DEF j
    <2> QED
        BY <1>5, <2>1, <2>2, TokenStep DEF ownerLocksCeiling, tokenOnly
<1>6. CASE ownerEnablesTrading(u, t)
    <2> DEFINE j == enableTrading(k)
    <2>1. j \in Token /\ lawful(k, j) /\ keeps(k, j)
        BY <1>1, EnableFields DEF lawful, keeps, sane
    <2>2. tokens' = [tokens EXCEPT ![t] = j]
        BY <1>6 DEF ownerEnablesTrading
    <2> HIDE DEF j
    <2> QED
        BY <1>6, <2>1, <2>2, TokenStep DEF ownerEnablesTrading, tokenOnly
<1>7. CASE \E who \in Users \cup DOMAIN launches, authorized \in BOOLEAN :
               setAuthorizedLauncher(u, t, who, authorized)
    <2> PICK who \in Users \cup DOMAIN launches, authorized \in BOOLEAN :
                 setAuthorizedLauncher(u, t, who, authorized)
        BY <1>7
    <2> DEFINE c == IF authorized THEN k.launchers \cup {who} ELSE k.launchers \ {who}
    <2> DEFINE j == [k EXCEPT !.launchers = c]
    <2>1. who \in Ids \cup Users
        BY Launches DEF LInv
    <2>2. c \in SUBSET (Ids \cup Users)
        BY <1>1, <2>1 DEF Token
    <2>3. tokens' = [tokens EXCEPT ![t] = j]
        BY DEF setAuthorizedLauncher
    <2>4. authorized /\ who \in Ids => c \cap Users \subseteq k.launchers
        BY LaunchpadAssumption DEF Ids
    <2>5. k.launchers \cap Ids \subseteq c \/ ~authorized
        OBVIOUS
    <2> HIDE DEF c
    <2>6. /\ j \in Token /\ j.launchers = c /\ j.owner = k.owner /\ j.trading = k.trading
          /\ j.locked = k.locked /\ j.ceiling = k.ceiling /\ j.tax = k.tax
        BY <1>1, <2>2 DEF Token
    <2> HIDE DEF j
    <2>7. lawful(k, j)
        BY <1>1, <2>6 DEF lawful, sane
    <2>8. t \in meddled' \/ keeps(k, j)
        BY <1>1, <2>4, <2>5, <2>6 DEF keeps, setAuthorizedLauncher
    <2> QED
        BY <2>3, <2>6, <2>7, <2>8, TokenStep DEF setAuthorizedLauncher, tokenOnly
<1>8. CASE \E l \in DOMAIN launches, exempt \in BOOLEAN : setExempt(u, t, l, exempt)
    <2> PICK l \in DOMAIN launches, exempt \in BOOLEAN : setExempt(u, t, l, exempt)
        BY <1>8
    <2> DEFINE c == IF exempt THEN k.exempt \cup {l} ELSE k.exempt \ {l}
    <2> DEFINE j == [k EXCEPT !.exempt = c]
    <2>1. c \in SUBSET Ids
        BY <1>1, Launches DEF Token, LInv
    <2>2. tokens' = [tokens EXCEPT ![t] = j]
        BY DEF setExempt
    <2> HIDE DEF c
    <2>3. j \in Token /\ lawful(k, j) /\ keeps(k, j)
        BY <1>1, <2>1 DEF Token, lawful, keeps, sane
    <2> HIDE DEF j
    <2> QED
        BY <2>2, <2>3, TokenStep DEF setExempt, tokenOnly
<1>9. CASE \E to \in Users \cup {Router} : transferOwnership(u, t, to)
    <2> PICK to \in Users \cup {Router} : transferOwnership(u, t, to)
        BY <1>9
    <2> DEFINE j == [k EXCEPT !.owner = to]
    <2>1. to # None
        BY LaunchpadAssumption
    <2>2. j \in Token /\ lawful(k, j) /\ keeps(k, j)
        BY <1>1, <2>1 DEF Token, lawful, keeps, sane
    <2>3. tokens' = [tokens EXCEPT ![t] = j]
        BY DEF transferOwnership
    <2> HIDE DEF j
    <2> QED
        BY <2>2, <2>3, TokenStep DEF transferOwnership, tokenOnly
<1>10. CASE unlockByHand(u, t)
    <2> DEFINE j == unlockTaxCeiling(k)
    <2>1. u \in k.launchers /\ ~k.trading /\ tokens' = [tokens EXCEPT ![t] = j]
        BY <1>10 DEF unlockByHand, canUnlock
    <2>2. t \in meddled' /\ meddled' = meddled
        BY <1>10, <2>1 DEF unlockByHand, LInv, NoPerson
    <2>3. j \in Token /\ lawful(k, j)
        BY <1>1, <2>1, UnlockFields DEF lawful, sane
    <2> HIDE DEF j
    <2> QED
        BY <1>10, <2>1, <2>2, <2>3, TokenStep DEF unlockByHand, tokenOnly
<1> QED
    BY <1>3, <1>4, <1>5, <1>6, <1>7, <1>8, <1>9, <1>10 DEF Owner

\* What the platform does.
LEMMA PlatformStep ==
    ASSUME LInv, Platform
    PROVE  LInv' /\ CeilingStep
<1>1. CASE \E t \in Tokens, x \in Taxes : platformRelaxes(t, x)
    <2> PICK t \in Tokens, x \in Taxes : platformRelaxes(t, x)
        BY <1>1
    <2> DEFINE k == tokens[t]
    <2> DEFINE j == forceRelaxTaxes(k, x)
    <2>1. k \in Token /\ sane(k) /\ x \in Nat /\ x <= k.tax
        BY Sanity, LaunchpadAssumption DEF platformRelaxes
    <2>2. j \in Token /\ lawful(k, j) /\ keeps(k, j)
        BY <2>1, RelaxFields
    <2>3. tokens' = [tokens EXCEPT ![t] = j]
        BY DEF platformRelaxes
    <2> HIDE DEF j
    <2> QED
        BY <2>2, <2>3, TokenStep DEF platformRelaxes, tokenOnly
<1>2. CASE \E d \in Dollars : setUsdt(d)
    BY <1>2, QuietStep DEF setUsdt, platform, LInv, TypeOK
<1>3. CASE \E r \in {Router, None} : setAuthorizedRouter(r)
    BY <1>3, QuietStep DEF setAuthorizedRouter, registry, LInv, TypeOK
<1>4. CASE \E p \in BOOLEAN : setPaused(p)
    BY <1>4, QuietStep DEF setPaused, registry, LInv, TypeOK
<1> QED
    BY <1>1, <1>2, <1>3, <1>4 DEF Platform

\* A launch that has not ended.
LEMMA Running ==
    ASSUME LInv, NEW l, NEW s \in {"Pending", "Active"}, inState(l, s)
    PROVE  /\ l \in DOMAIN launches /\ live(l) /\ launches[l] \in Launch
           /\ tokenOf(l) \in Tokens /\ launches[l].token = tokenOf(l)
           /\ launches[l].state = s
    BY Launches DEF LInv, inState, live, tokenOf

\* A launch that waits.
LEMMA PendingStep ==
    ASSUME LInv, NEW l, NEW m \in Launch, inState(l, "Pending"),
           launches' = [launches EXCEPT ![l] = m],
           m.token = launches[l].token, m.terms = launches[l].terms,
           UNCHANGED <<tokens, platform, meddled, usdt, usdtLocked>>,
           \/ m.state = "Pending" /\ tokenToLaunch' = tokenToLaunch
           \/ /\ m.state = "Active" /\ welcome(tokens[tokenOf(l)], l)
              /\ tokenToLaunch' = tokenToLaunch
           \/ /\ m.state = "Cancelled"
              /\ tokenToLaunch' = [tokenToLaunch EXCEPT ![tokenOf(l)] = None]
    PROVE  LInv' /\ CeilingStep
<1> DEFINE k == tokens[tokenOf(l)]
<1>1. l \in DOMAIN launches /\ live(l) /\ tokenOf(l) \in Tokens /\ m.token = tokenOf(l)
    BY Running
<1>2. k \in Token /\ lawful(k, k) /\ keeps(k, k) /\ tokens' = [tokens EXCEPT ![tokenOf(l)] = k]
    BY <1>1, Sanity
<1>3. m.state = "Active" => l \in k.launchers
    BY DEF welcome
<1> HIDE DEF k
<1> QED
    BY <1>1, <1>2, <1>3, LaunchStep DEF k

\* The transactions on a waiting launch.
LEMMA WaitingStep ==
    ASSUME LInv, NEW l,
           depositTokens(l) \/ activate(l) \/ withdrawPendingTokens(l)
    PROVE  LInv' /\ CeilingStep
<1>1. inState(l, "Pending") /\ launches[l] \in Launch /\ launches[l].state = "Pending"
    BY Running DEF depositTokens, activate, withdrawPendingTokens
<1> DEFINE n == launches[l]
<1>2. CASE depositTokens(l)
    <2> DEFINE f == [n EXCEPT !.funded = TRUE]
    <2> DEFINE e == IF welcome(tokens[tokenOf(l)], l) THEN "Active" ELSE n.state
    <2> DEFINE m == [f EXCEPT !.state = e]
    <2>1. f \in Launch /\ f.token = n.token /\ f.terms = n.terms
        BY <1>1 DEF Launch
    <2>2. fund(n, tokens[tokenOf(l)], l) = m
        BY <1>1 DEF fund, Launch
    <2>3. e \in LaunchState /\ (e = "Pending" \/ (e = "Active" /\ welcome(tokens[tokenOf(l)], l)))
        BY <1>1 DEF LaunchState
    <2> HIDE DEF f, e
    <2>4. m \in Launch /\ m.token = n.token /\ m.terms = n.terms /\ m.state = e
        BY <2>1, <2>3 DEF Launch
    <2>5. launches' = [launches EXCEPT ![l] = m]
        BY <1>2, <2>2 DEF depositTokens
    <2> HIDE DEF m
    <2> QED
        BY <1>1, <1>2, <2>3, <2>4, <2>5, PendingStep DEF depositTokens, launchOnly, registry
<1>3. CASE activate(l)
    <2> DEFINE m == [n EXCEPT !.state = "Active"]
    <2>1. m \in Launch /\ m.token = n.token /\ m.terms = n.terms /\ m.state = "Active"
        BY <1>1 DEF Launch, LaunchState
    <2>2. launches' = [launches EXCEPT ![l] = m]
        BY <1>3 DEF activate
    <2> HIDE DEF m
    <2> QED
        BY <1>1, <1>3, <2>1, <2>2, PendingStep DEF activate, launchOnly, registry
<1>4. CASE withdrawPendingTokens(l)
    <2> DEFINE m == [n EXCEPT !.funded = FALSE]
    <2>1. m \in Launch /\ m.token = n.token /\ m.terms = n.terms /\ m.state = "Pending"
        BY <1>1 DEF Launch, LaunchState
    <2>2. launches' = [launches EXCEPT ![l] = m]
        BY <1>4 DEF withdrawPendingTokens
    <2> HIDE DEF m
    <2> QED
        BY <1>1, <1>4, <2>1, <2>2, PendingStep DEF withdrawPendingTokens, launchOnly, registry
<1> QED
    BY <1>2, <1>3, <1>4

\* A sale that misses its soft cap, whoever notices.
LEMMA ResolveStep ==
    ASSUME LInv, NEW l, inState(l, "Active"), _autoResolve(l),
           \/ tokenToLaunch' = tokenToLaunch
           \/ tokenToLaunch' = [tokenToLaunch EXCEPT ![tokenOf(l)] = None],
           UNCHANGED <<usdt, usdtLocked, platform, meddled>>
    PROVE  LInv' /\ CeilingStep
<1> DEFINE n == launches[l]
<1> DEFINE t == tokenOf(l)
<1> DEFINE k == IF canUnlock(tokens[t], l) THEN unlockTaxCeiling(tokens[t]) ELSE tokens[t]
<1> DEFINE m == [n EXCEPT !.state = "Refunding"]
<1>1. l \in DOMAIN launches /\ live(l) /\ n \in Launch /\ t \in Tokens /\ n.token = t
    BY Running
<1>2. m \in Launch /\ m.token = n.token /\ m.terms = n.terms /\ m.state = "Refunding"
    BY <1>1 DEF Launch, LaunchState
<1>3. launches' = [launches EXCEPT ![l] = m] /\ tokens' = [tokens EXCEPT ![t] = k]
    BY <1>1, Sanity DEF _autoResolve
<1>4. tokens[t] \in Token /\ sane(tokens[t]) /\ lawful(tokens[t], tokens[t])
    BY <1>1, Sanity
<1>5. k \in Token /\ lawful(tokens[t], k) /\ k.launchers = tokens[t].launchers
    BY <1>4, UnlockFields DEF lawful, sane, canUnlock
<1> HIDE DEF k, m
<1> QED
    BY <1>1, <1>2, <1>3, <1>5, LaunchStep

\* The creator's withdrawal from a launch that had failed before: it only
\* unregisters the launch, which is not live.
LEMMA LateWithdrawal ==
    ASSUME LInv, NEW l, inState(l, "Refunding"), UNCHANGED <<launches, tokens>>,
           clearTokenLaunch(l), UNCHANGED <<usdt, usdtLocked, platform, meddled>>
    PROVE  LInv' /\ CeilingStep
<1> USE DEF LInv
<1>1. l \in DOMAIN launches /\ ~live(l) /\ tokenOf(l) \in Tokens
    BY Launches DEF inState, live
<1>2. /\ tokenToLaunch' \in [Tokens -> Ids \cup {None}]
      /\ \A t \in Tokens : \/ tokenToLaunch'[t] = tokenToLaunch[t]
                           \/ tokenToLaunch'[t] = None /\ tokenToLaunch[t] = l
    BY <1>1 DEF clearTokenLaunch, TypeOK
<1>3. TypeOK' /\ AllSane'
    BY <1>2 DEF TypeOK, platform, AllSane, sane
<1>4. Registered' /\ LaunchesExist'
    BY <1>2 DEF Registered, LaunchesExist, created, tokenOf
<1>5. OneLiveLaunch'
    BY <1>1, <1>2, Launches DEF OneLiveLaunch, live, tokenOf
<1>6. NoPerson' /\ Welcome' /\ TermsKept' /\ GraduatedTrades'
    BY DEF NoPerson, Welcome, TermsKept, GraduatedTrades, live, tokenOf
<1>7. \A s \in Tokens : tokens[s].ceiling \in 0 .. MaxTax
    BY DEF TypeOK, Token
<1>8. CeilingStep
    BY <1>7 DEF CeilingStep, AllSane, sane
<1> QED
    BY <1>3, <1>4, <1>5, <1>6, <1>8

\* What happens to a launch.
LEMMA RunStep ==
    ASSUME LInv, NEW l, Run(l)
    PROVE  LInv' /\ CeilingStep
<1>1. CASE depositTokens(l) \/ activate(l) \/ withdrawPendingTokens(l)
    BY <1>1, WaitingStep
<1>2. CASE fail(l)
    BY <1>2, ResolveStep DEF fail, launchOnly, registry
<1>3. CASE graduate(l)
    <2> DEFINE n == launches[l]
    <2> DEFINE t == tokenOf(l)
    <2> DEFINE opens == l \in tokens[t].launchers /\ ~tokens[t].trading
    <2> DEFINE k == IF opens THEN enableTrading(tokens[t]) ELSE tokens[t]
    <2> DEFINE m == [n EXCEPT !.state = "Graduated"]
    <2>1. /\ l \in DOMAIN launches /\ live(l) /\ n \in Launch /\ t \in Tokens /\ n.token = t
          /\ n.state = "Active"
        BY <1>3, Running DEF graduate
    <2>2. m \in Launch /\ m.token = n.token /\ m.terms = n.terms /\ m.state = "Graduated"
        BY <2>1 DEF Launch, LaunchState
    <2>3. launches' = [launches EXCEPT ![l] = m] /\ tokens' = [tokens EXCEPT ![t] = k]
        BY <1>3, <2>1, Sanity DEF graduate
    <2>4. /\ tokens[t] \in Token /\ sane(tokens[t]) /\ lawful(tokens[t], tokens[t])
          /\ keeps(tokens[t], tokens[t]) /\ tokens[t].ceiling \in 0 .. MaxTax
        BY <2>1, Sanity DEF Token
    <2> DEFINE j == enableTrading(tokens[t])
    <2>e. /\ j \in Token /\ lawful(tokens[t], j) /\ keeps(tokens[t], j)
          /\ j.launchers = tokens[t].launchers /\ j.trading
        BY <2>4, EnableFields DEF lawful, keeps, sane, Token
    <2>j. k = IF opens THEN j ELSE tokens[t]
        OBVIOUS
    <2> HIDE DEF j, k
    <2>5. /\ k \in Token /\ lawful(tokens[t], k) /\ keeps(tokens[t], k)
          /\ k.launchers = tokens[t].launchers
        BY <2>4, <2>e, <2>j
    <2>6. k.trading \/ t \in meddled
        BY <2>1, <2>e, <2>j DEF LInv, Welcome
    <2> HIDE DEF m
    <2> QED
        BY <1>3, <2>1, <2>2, <2>3, <2>5, <2>6, LaunchStep DEF graduate, launchOnly, registry
<1>4. CASE creatorWithdrawAvailable(l)
    <2>1. CASE inState(l, "Active") /\ _autoResolve(l)
        BY <1>4, <2>1, ResolveStep DEF creatorWithdrawAvailable, clearTokenLaunch
    <2>2. CASE inState(l, "Refunding") /\ UNCHANGED <<launches, tokens>>
        BY <1>4, <2>2, LateWithdrawal DEF creatorWithdrawAvailable
    <2> QED
        BY <1>4, <2>1, <2>2 DEF creatorWithdrawAvailable
<1> QED
    BY <1>1, <1>2, <1>3, <1>4 DEF Run

\* A clone as it is made.
LEMMA CloneFields ==
    ASSUME LInv, NEW u \in Users, NEW t \in Tokens, NEW terms \in (0 .. MaxTax) \cup {None}
    PROVE  /\ clone(u, t, terms) \in Launch
           /\ clone(u, t, terms).token = t /\ clone(u, t, terms).terms = terms
           /\ clone(u, t, terms).state = "Pending"
    BY DEF clone, Launch, LaunchState, LInv, TypeOK

\* What the factory's own entries do.
LEMMA RegistryStep ==
    ASSUME LInv, Registry
    PROVE  LInv' /\ CeilingStep
<1> PICK t \in Tokens : cancelPendingLaunch(t) \/ \E u \in Users : createLaunch(u, t)
    BY DEF Registry
<1>1. CASE cancelPendingLaunch(t)
    <2> DEFINE l == tokenToLaunch[t]
    <2> DEFINE n == launches[l]
    <2> DEFINE f == [n EXCEPT !.state = "Cancelled"]
    <2> DEFINE m == [f EXCEPT !.funded = FALSE]
    <2>1. l \in DOMAIN launches /\ tokenOf(l) = t /\ inState(l, "Pending")
        BY <1>1 DEF cancelPendingLaunch, LInv, Registered, inState
    <2>2. n \in Launch /\ n.token = t
        BY <2>1, Running
    <2>3. f \in Launch /\ f.token = n.token /\ f.terms = n.terms /\ f.state = "Cancelled"
        BY <2>2 DEF Launch, LaunchState
    <2>4. launches' = [[launches EXCEPT ![l] = f] EXCEPT ![l] = m]
        BY <1>1, <2>1 DEF cancelPendingLaunch
    <2> HIDE DEF f
    <2>5. m \in Launch /\ m.token = n.token /\ m.terms = n.terms /\ m.state = "Cancelled"
        BY <2>3 DEF Launch
    <2>6. launches' = [launches EXCEPT ![l] = m]
        BY <2>1, <2>4
    <2> HIDE DEF m
    <2>7. tokenToLaunch' = [tokenToLaunch EXCEPT ![tokenOf(l)] = None]
        BY <1>1, <2>1 DEF cancelPendingLaunch
    <2> HIDE DEF l
    <2> QED
        BY <1>1, <2>1, <2>5, <2>6, <2>7, PendingStep DEF cancelPendingLaunch
<1>2. CASE \E u \in Users : createLaunch(u, t)
    <2> PICK u \in Users : createLaunch(u, t)
        BY <1>2
    <2> DEFINE m == clone(u, t, None)
    <2>1. m \in Launch /\ m.token = t /\ m.terms = None /\ m.state = "Pending"
        <3>1. None \in (0 .. MaxTax) \cup {None}
            OBVIOUS
        <3> HIDE DEF m
        <3>2. \A c \in (0 .. MaxTax) \cup {None} :
                  /\ clone(u, t, c) \in Launch /\ clone(u, t, c).token = t
                  /\ clone(u, t, c).terms = c /\ clone(u, t, c).state = "Pending"
            BY CloneFields
        <3> QED
            BY <3>1, <3>2, Zenon DEF m
    <2>2. /\ tokens[t] \in Token /\ lawful(tokens[t], tokens[t])
          /\ tokens' = [tokens EXCEPT ![t] = tokens[t]] /\ tokens[t].owner # None
        BY Sanity DEF createLaunch, created
    <2>3. /\ canLaunch(t) /\ launches' = Append(launches, m) /\ usdtLocked' = TRUE
          /\ tokenToLaunch' = [tokenToLaunch EXCEPT ![t] = next]
          /\ UNCHANGED <<usdt, platform, meddled>>
        BY DEF createLaunch, _createLaunchInternal
    <2> HIDE DEF m
    <2> QED
        BY <2>1, <2>2, <2>3, NewLaunch
<1> QED
    BY <1>1, <1>2

\* What the router makes of a token: _configureLaunchProtections().
LEMMA ProtectedFields ==
    ASSUME NEW k \in Token, sane(k), NEW l \in Ids, NEW x \in Nat, NEW isTaxable \in BOOLEAN,
           isTaxable /\ x > 0 => canSetTaxes(k, x)
    PROVE  LET j == _configureLaunchProtections(k, l, x, isTaxable)
           IN  /\ j \in Token /\ lawful(k, j) /\ j.owner = k.owner
               /\ j.launchers = k.launchers \cup {l}
               /\ isTaxable => j.locked /\ j.ceiling = j.tax
<1> DEFINE a == asked(k, x)
<1> DEFINE c == k.launchers \cup {l}
<1> DEFINE e == k.exempt \cup {l}
<1> DEFINE k1 == [k EXCEPT !.launchers = c]
<1> DEFINE k2 == [k1 EXCEPT !.exempt = e]
<1> DEFINE k3 == [k2 EXCEPT !.tax = a]
<1>1. MaxTax \in Nat /\ k.tax \in 0 .. MaxTax /\ k.ceiling \in 0 .. MaxTax
    BY LaunchpadAssumption DEF Token
<1>2. isTaxable => a \in 0 .. MaxTax /\ (k.locked => a <= k.ceiling)
    BY <1>1 DEF asked, canSetTaxes, sane
<1>3. c \in SUBSET (Ids \cup Users) /\ e \in SUBSET Ids
    BY DEF Token
<1>4. _configureLaunchProtections(k, l, x, isTaxable) = IF isTaxable THEN lockTaxCeiling(k3) ELSE k1
    BY DEF _configureLaunchProtections, Token
<1> HIDE DEF a, c, e
<1>5. /\ k1 \in Token /\ k1.launchers = c /\ k1.owner = k.owner /\ k1.trading = k.trading
      /\ k1.tax = k.tax /\ k1.ceiling = k.ceiling /\ k1.locked = k.locked
    BY <1>3 DEF Token
<1> HIDE DEF k1
<1>6. CASE ~isTaxable
    BY <1>1, <1>4, <1>5, <1>6 DEF lawful, sane, c
<1>7. CASE isTaxable
    <2>1. /\ k2 \in Token /\ k2.launchers = c /\ k2.owner = k.owner /\ k2.trading = k.trading
        BY <1>3, <1>5 DEF Token
    <2> HIDE DEF k2
    <2>2. /\ k3 \in Token /\ k3.launchers = c /\ k3.owner = k.owner /\ k3.trading = k.trading
          /\ k3.tax = a
        BY <1>2, <1>7, <2>1 DEF Token
    <2> HIDE DEF k3
    <2> DEFINE j == lockTaxCeiling(k3)
    <2>3. /\ j \in Token /\ j.owner = k.owner /\ j.trading = k.trading /\ j.tax = a
          /\ j.ceiling = a /\ j.locked /\ j.launchers = c
        BY <2>2, LockFields
    <2> HIDE DEF j
    <2>4. lawful(k, j)
        BY <1>1, <1>2, <1>7, <2>3 DEF lawful, sane
    <2> QED
        BY <1>4, <1>7, <2>3, <2>4 DEF c, j
<1> QED
    BY <1>6, <1>7

\* A launch made by the router.
LEMMA RouterStep ==
    ASSUME LInv, NEW u \in Users, NEW t \in Tokens, NEW x \in Taxes,
           NEW isTaxable \in BOOLEAN, routerLaunches(u, t, x, isTaxable)
    PROVE  LInv' /\ CeilingStep
<1> DEFINE token == _configureLaunchProtections(tokens[t], next, x, isTaxable)
<1> DEFINE terms == IF isTaxable THEN token.tax ELSE None
<1> DEFINE n == clone(u, t, terms)
<1> DEFINE f == [n EXCEPT !.funded = TRUE]
<1> DEFINE e == IF welcome(token, next) THEN "Active" ELSE n.state
<1> DEFINE m == [f EXCEPT !.state = e]
<1> DEFINE k == [token EXCEPT !.owner = u]
<1>1. /\ canLaunch(t) /\ launches' = Append(launches, fund(n, token, next))
      /\ tokenToLaunch' = [tokenToLaunch EXCEPT ![t] = next]
      /\ usdtLocked' = TRUE /\ tokens' = [tokens EXCEPT ![t] = k]
      /\ UNCHANGED <<usdt, platform, meddled>>
      /\ isTaxable /\ x > 0 => canSetTaxes(tokens[t], x)
    BY DEF routerLaunches, _createLaunchInternal
<1>2. tokens[t] \in Token /\ sane(tokens[t]) /\ x \in Nat /\ u # None
    BY Sanity, LaunchpadAssumption
<1>3. next \in Ids
    BY <1>1, LaunchpadAssumption DEF canLaunch, next, Ids, LInv, TypeOK
<1>4. /\ token \in Token /\ lawful(tokens[t], token)
      /\ token.launchers = tokens[t].launchers \cup {next}
      /\ isTaxable => token.locked /\ token.ceiling = token.tax
    BY <1>1, <1>2, <1>3, ProtectedFields
<1> HIDE DEF token
<1>5. /\ terms \in (0 .. MaxTax) \cup {None}
      /\ terms = None \/ (terms = token.tax /\ token.locked /\ token.ceiling = token.tax)
    BY <1>4 DEF Token
<1> HIDE DEF terms
<1>6. n \in Launch /\ n.token = t /\ n.terms = terms /\ n.state = "Pending"
    BY <1>5, CloneFields
<1> HIDE DEF n
<1>7. f \in Launch /\ f.token = t /\ f.terms = terms
    BY <1>6 DEF Launch
<1>8. fund(n, token, next) = m
    BY <1>6 DEF fund, Launch
<1>9. e \in {"Pending", "Active"} /\ e \in LaunchState
    BY <1>6 DEF LaunchState
<1> HIDE DEF f, e
<1>10. m \in Launch /\ m.token = t /\ m.terms = terms /\ m.state = e
    BY <1>7, <1>9 DEF Launch
<1> HIDE DEF m
<1>11. /\ k \in Token /\ k.owner = u /\ k.launchers = token.launchers /\ k.tax = token.tax
       /\ k.ceiling = token.ceiling /\ k.locked = token.locked /\ k.trading = token.trading
    BY <1>4 DEF Token
<1> HIDE DEF k
<1>12. lawful(tokens[t], k)
    BY <1>2, <1>4, <1>11 DEF lawful, sane
<1>13. terms = None \/ honours(k, terms)
    BY <1>5, <1>11 DEF honours, Token
<1>14. k.launchers \cap Users \subseteq tokens[t].launchers /\ next \in k.launchers
    BY <1>3, <1>4, <1>11, LaunchpadAssumption DEF Ids
<1> QED
    BY <1>1, <1>2, <1>8, <1>9, <1>10, <1>11, <1>12, <1>13, <1>14, NewLaunch

\* What the router does.
LEMMA RoutedStep ==
    ASSUME LInv, NEW u \in Users, NEW t \in Tokens, NEW x \in Taxes, Routed(u, t, x)
    PROVE  LInv' /\ CeilingStep
<1>1. CASE createTokenAndLaunch(u, t, x)
    BY <1>1, RouterStep DEF createTokenAndLaunch
<1>2. CASE \E isTaxable \in BOOLEAN : launchCreatedToken(u, t, x, isTaxable)
    BY <1>2, RouterStep DEF launchCreatedToken
<1>3. CASE createAndOpen(u, t, x)
    <2> DEFINE k == tokens[t]
    <2> DEFINE a == asked(k, x)
    <2> DEFINE k1 == [k EXCEPT !.tax = a]
    <2> DEFINE k2 == lockTaxCeiling(k1)
    <2> DEFINE k3 == enableTrading(k2)
    <2> DEFINE k4 == [k3 EXCEPT !.owner = u]
    <2>1. /\ k \in Token /\ sane(k) /\ u # None /\ MaxTax \in Nat
          /\ k.tax \in 0 .. MaxTax /\ k.ceiling \in 0 .. MaxTax /\ x \in Nat
        BY Sanity, LaunchpadAssumption DEF Token
    <2>2. a \in 0 .. MaxTax /\ (k.locked => a <= k.ceiling)
        BY <1>3, <2>1 DEF asked, canSetTaxes, sane, createAndOpen
    <2>3. tokens' = [tokens EXCEPT ![t] = k4] /\ ~created(t)
        BY <1>3 DEF createAndOpen, _configureAndEnableTrading
    <2> HIDE DEF a
    <2>4. k1 \in Token /\ k1.tax = a /\ k1.launchers = k.launchers /\ k1.owner = k.owner
        BY <2>1, <2>2 DEF Token
    <2> HIDE DEF k1
    <2>5. /\ k2 \in Token /\ k2.tax = a /\ k2.ceiling = a /\ k2.locked
          /\ k2.launchers = k.launchers /\ k2.owner = k.owner
        BY <2>4, LockFields
    <2> HIDE DEF k2
    <2>6. /\ k3 \in Token /\ k3.tax = a /\ k3.ceiling = a /\ k3.locked /\ k3.trading
          /\ k3.launchers = k.launchers
        BY <2>5, EnableFields
    <2> HIDE DEF k3
    <2>7. /\ k4 \in Token /\ k4.tax = a /\ k4.ceiling = a /\ k4.locked /\ k4.trading
          /\ k4.launchers = k.launchers /\ k4.owner = u
        BY <2>6 DEF Token
    <2> HIDE DEF k4
    <2>8. lawful(k, k4)
        BY <2>1, <2>2, <2>7 DEF lawful, sane
    <2> QED
        BY <1>3, <2>3, <2>7, <2>8, TokenStep DEF createAndOpen, tokenOnly
<1> QED
    BY <1>1, <1>2, <1>3 DEF Routed

-----------------------------------------------------------------------------
(* The invariant, and what follows.                                        *)

LEMMA LInit ==
    ASSUME Init
    PROVE  LInv
<1>1. launches = <<>> /\ DOMAIN launches = {}
    BY DEF Init
<1> DEFINE k == [owner |-> None, trading |-> FALSE, tax |-> 0, ceiling |-> 0, locked |-> FALSE,
                 launchers |-> {}, exempt |-> {}]
<1>2. k \in Token /\ sane(k) /\ k.launchers = {}
    BY LaunchpadAssumption DEF Token, sane
<1>3. tokens = [t \in Tokens |-> k]
    BY DEF Init
<1> HIDE DEF k
<1>4. TypeOK
    <2>1. tokens \in [Tokens -> Token] /\ tokenToLaunch \in [Tokens -> Ids \cup {None}]
        BY <1>2, <1>3 DEF Init
    <2>2. launches \in Seq(Launch) /\ Len(launches) <= MaxLaunches
        BY <1>1, LaunchpadAssumption
    <2> QED
        BY <2>1, <2>2, LaunchpadAssumption DEF Init, TypeOK
<1>5. AllSane /\ NoPerson
    BY <1>2, <1>3 DEF AllSane, NoPerson
<1>6. Registered /\ LaunchesExist /\ Welcome /\ OneLiveLaunch /\ TermsKept /\ GraduatedTrades
    BY <1>1 DEF Init, Registered, LaunchesExist, Welcome, OneLiveLaunch, TermsKept,
                GraduatedTrades
<1> QED
    BY <1>4, <1>5, <1>6 DEF LInv

LEMMA LNext ==
    ASSUME LInv, [Next]_vars
    PROVE  LInv' /\ CeilingStep
<1>1. CASE \E u \in Users, t \in Tokens : Owner(u, t) \/ \E x \in Taxes : Routed(u, t, x)
    BY <1>1, OwnerStep, RoutedStep
<1>2. CASE Platform
    BY <1>2, PlatformStep
<1>3. CASE Registry
    BY <1>3, RegistryStep
<1>4. CASE \E l \in Ids : Run(l)
    BY <1>4, RunStep
<1>5. CASE UNCHANGED vars
    BY <1>5, QuietStep DEF vars, registry, platform, LInv, TypeOK
<1> QED
    BY <1>1, <1>2, <1>3, <1>4, <1>5 DEF Next

LEMMA LInvariant == Spec => []LInv
<1>1. Init => LInv
    BY LInit
<1>2. LInv /\ [Next]_vars => LInv'
    BY LNext
<1> QED
    BY <1>1, <1>2, PTL DEF Spec

\* The variables of the launchpad have their types: rates and ceilings stay
\* under the caps, a registration is a launch's number.
THEOREM LaunchpadTypeCorrect == Spec => []TypeOK
    BY LInvariant, PTL DEF LInv

\* A launch that waits, sells or has graduated is the one registered.
THEOREM LaunchpadOneLiveLaunch == Spec => []OneLiveLaunch
    BY LInvariant, PTL DEF LInv

\* Buyers get the rates of the launch or lower ones.
THEOREM LaunchpadTermsKept == Spec => []TermsKept
    BY LInvariant, PTL DEF LInv

\* A graduated launch has opened trading.
THEOREM LaunchpadGraduatedTrades == Spec => []GraduatedTrades
    BY LInvariant, PTL DEF LInv

\* Once trading has started the ceiling is for good.
THEOREM LaunchpadCeilingFinal == Spec => CeilingFinal
<1>1. LInv /\ [Next]_vars => [CeilingStep]_vars
    BY LNext
<1> QED
    BY <1>1, LInvariant, PTL DEF Spec, CeilingFinal, CeilingStep
=============================================================================
