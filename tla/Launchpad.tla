----------------------------- MODULE Launchpad -----------------------------
(***************************************************************************)
(* What binds a taxable token, its launches and the platform together:     *)
(* the factory's registry (LaunchpadFactory.sol), the token's controls     *)
(* that a launch relies on (BasicToken.sol, TaxableToken.sol), the steps   *)
(* of a launch that touch either (LaunchInstance.sol, whose sale is the    *)
(* module LaunchInstance), and the router that does all of it in one       *)
(* transaction (PlatformRouter.sol).                                       *)
(*                                                                         *)
(* One transaction is one step, one rate stands for a token's three, and   *)
(* the exemptions from limits and from tax, always set together, are one.  *)
(* Fees are paid and amounts fit; a sale ends when its outcome does.       *)
(***************************************************************************)
EXTENDS Integers, Sequences

CONSTANTS
    Tokens, Users,
    Router,                  \* the PlatformRouter
    None,
    Dollars, RouterUsdt,     \* USDT addresses, and the one baked into the router
    MaxTax,                  \* MAX_BUY_TAX_BPS
    Taxes,                   \* the rates somebody asks for
    MaxLaunches              \* bound on the launches

ASSUME LaunchpadAssumption ==
    /\ None \notin Users \cup {Router} /\ Router \notin Users
    /\ RouterUsdt \in Dollars
    /\ MaxTax \in Nat /\ Taxes \subseteq Nat
    /\ MaxLaunches \in Nat
    /\ Users \cap Nat = {} /\ None \notin Nat

VARIABLES
    tokens,                  \* the controls of each token
    launches,                \* the clones, in the order of their creation
    tokenToLaunch,           \* the registered launch of a token, or None
    usdt, usdtLocked, authorizedRouter,
    paused,                  \* the router's pause
    meddled                  \* tokens whose owner has authorised a person, or taken an
                             \* authorisation away

registry == <<tokenToLaunch, usdt, usdtLocked>>
platform == <<authorizedRouter, paused>>
vars == <<tokens, launches, registry, platform, meddled>>

LaunchState == {"Pending", "Active", "Graduated", "Refunding", "Cancelled"}
Ids == 1 .. MaxLaunches

Token == [owner : Users \cup {Router, None}, trading : BOOLEAN, tax : 0 .. MaxTax, ceiling : 0 .. MaxTax,
          locked : BOOLEAN, launchers : SUBSET (Ids \cup Users), exempt : SUBSET Ids]
Launch == [token : Tokens, creator : Users, state : LaunchState, funded : BOOLEAN,
           terms : (0 .. MaxTax) \cup {None}]

TypeOK ==
    /\ tokens \in [Tokens -> Token]
    /\ launches \in Seq(Launch) /\ Len(launches) <= MaxLaunches
    /\ tokenToLaunch \in [Tokens -> Ids \cup {None}]
    /\ usdt \in Dollars /\ usdtLocked \in BOOLEAN
    /\ authorizedRouter \in {Router, None} /\ paused \in BOOLEAN
    /\ meddled \subseteq Tokens

Init ==
    /\ tokens = [t \in Tokens |->
           [owner |-> None, trading |-> FALSE, tax |-> 0, ceiling |-> 0, locked |-> FALSE,
            launchers |-> {}, exempt |-> {}]]
    /\ launches = <<>>
    /\ tokenToLaunch = [t \in Tokens |-> None]
    /\ usdt = RouterUsdt /\ usdtLocked = FALSE
    /\ authorizedRouter = Router /\ paused = FALSE
    /\ meddled = {}

-----------------------------------------------------------------------------
(* The token's controls, as updates of its record.                         *)

\* lockTaxCeiling(): today's rates are the ceiling.
lockTaxCeiling(token) == [token EXCEPT !.ceiling = token.tax, !.locked = TRUE]

\* setTaxes(), within the cap and a locked ceiling.
canSetTaxes(token, x) == x <= MaxTax /\ (token.locked => x <= token.ceiling)
setTaxes(token, x) == [token EXCEPT !.tax = x]

\* enableTrading() locks a ceiling that nobody has.
enableTrading(token) ==
    [(IF token.locked THEN token ELSE lockTaxCeiling(token)) EXCEPT !.trading = TRUE]

\* unlockTaxCeiling(), by an authorised launcher before trading has started.
canUnlock_Slip(token, who) == who \in token.launchers
canUnlock(token, who) == who \in token.launchers /\ ~token.trading
unlockTaxCeiling(token) == [token EXCEPT !.ceiling = 0, !.locked = FALSE]

\* forceRelaxTaxes(): a ceiling that is set comes down with the rate.
forceRelaxTaxes(token, x) ==
    [token EXCEPT !.tax = x, !.ceiling = IF @ > 0 /\ x < @ THEN x ELSE @]

created(t) == tokens[t].owner # None
owns(u, t) == tokens[t].owner = u
tokenOnly == UNCHANGED <<launches, registry, platform>>

createToken(u, t) ==
    /\ ~created(t)
    /\ tokens' = [tokens EXCEPT ![t].owner = u]
    /\ tokenOnly /\ UNCHANGED meddled

ownerSetsTaxes(u, t, x) ==
    /\ owns(u, t) /\ canSetTaxes(tokens[t], x)
    /\ tokens' = [tokens EXCEPT ![t] = setTaxes(@, x)]
    /\ tokenOnly /\ UNCHANGED meddled

ownerLocksCeiling(u, t) ==
    /\ owns(u, t)
    /\ tokens' = [tokens EXCEPT ![t] = lockTaxCeiling(@)]
    /\ tokenOnly /\ UNCHANGED meddled

ownerEnablesTrading(u, t) ==
    /\ owns(u, t) /\ ~tokens[t].trading
    /\ tokens' = [tokens EXCEPT ![t] = enableTrading(@)]
    /\ tokenOnly /\ UNCHANGED meddled

\* Only an authorisation the launch does not ask for, or the loss of one it
\* does, is meddling.
setAuthorizedLauncher(u, t, who, authorized) ==
    /\ owns(u, t)
    /\ tokens' = [tokens EXCEPT ![t].launchers = IF authorized THEN @ \cup {who} ELSE @ \ {who}]
    /\ meddled' = IF authorized /\ who \in Ids THEN meddled ELSE meddled \cup {t}
    /\ tokenOnly

\* setExcludedFromLimits() and excludeFromTax() for a clone.
setExempt(u, t, l, exempt) ==
    /\ owns(u, t)
    /\ tokens' = [tokens EXCEPT ![t].exempt = IF exempt THEN @ \cup {l} ELSE @ \ {l}]
    /\ tokenOnly /\ UNCHANGED meddled

transferOwnership(u, t, to) ==
    /\ owns(u, t)
    /\ tokens' = [tokens EXCEPT ![t].owner = to]
    /\ tokenOnly /\ UNCHANGED meddled

\* An authorised launcher that is a person unlocks by hand.
unlockByHand(u, t) ==
    /\ canUnlock(tokens[t], u)
    /\ tokens' = [tokens EXCEPT ![t] = unlockTaxCeiling(@)]
    /\ tokenOnly /\ UNCHANGED meddled

\* TokenFactory.forceRelaxTaxes(), by the platform.
platformRelaxes(t, x) ==
    /\ created(t) /\ x <= tokens[t].tax
    /\ tokens' = [tokens EXCEPT ![t] = forceRelaxTaxes(@, x)]
    /\ tokenOnly /\ UNCHANGED meddled

-----------------------------------------------------------------------------
(* The factory.                                                            *)

next == Len(launches) + 1

\* _createLaunchInternal(): refused while the token has a launch.
canLaunch(t) == tokenToLaunch[t] = None /\ Len(launches) < MaxLaunches

\* The clone of a launch, before any deposit.
clone(creator, t, terms) ==
    [token |-> t, creator |-> creator, state |-> "Pending", funded |-> FALSE, terms |-> terms]

_createLaunchInternal(l, t) ==
    /\ canLaunch(t)
    /\ launches' = Append(launches, l)
    /\ tokenToLaunch' = [tokenToLaunch EXCEPT ![t] = next]
    /\ usdtLocked' = TRUE /\ UNCHANGED usdt

\* createLaunch() and createLaunchCustomCurve(), by anybody for any token.
createLaunch(u, t) ==
    /\ created(t)
    /\ _createLaunchInternal(clone(u, t, None), t)
    /\ UNCHANGED <<tokens, platform, meddled>>

\* By the creator or the platform.
cancelPendingLaunch(t) ==
    /\ tokenToLaunch[t] # None /\ launches[tokenToLaunch[t]].state = "Pending"
    /\ launches' = [launches EXCEPT ![tokenToLaunch[t]].state = "Cancelled",
                                    ![tokenToLaunch[t]].funded = FALSE]
    /\ tokenToLaunch' = [tokenToLaunch EXCEPT ![t] = None]
    /\ UNCHANGED <<tokens, usdt, usdtLocked, platform, meddled>>

setUsdt(d) ==
    /\ ~usdtLocked /\ usdt' = d
    /\ UNCHANGED <<tokens, launches, tokenToLaunch, usdtLocked, platform, meddled>>

setAuthorizedRouter(r) ==
    /\ authorizedRouter' = r
    /\ UNCHANGED <<tokens, launches, registry, paused, meddled>>

-----------------------------------------------------------------------------
(* A launch.                                                               *)

inState(l, s) == l \in DOMAIN launches /\ launches[l].state = s
tokenOf(l) == launches[l].token
launchOnly == UNCHANGED <<registry, platform, meddled>>

\* The part of preflight() that asks the token.
welcome_Slip(token, l) == l \in token.exempt
welcome(token, l) == l \in token.exempt /\ l \in token.launchers

\* Funding a clone activates it if the token is ready.
fund(launch, token, l) ==
    [launch EXCEPT !.funded = TRUE, !.state = IF welcome(token, l) THEN "Active" ELSE @]

depositTokens(l) ==
    /\ inState(l, "Pending") /\ ~launches[l].funded
    /\ launches' = [launches EXCEPT ![l] = fund(@, tokens[tokenOf(l)], l)]
    /\ launchOnly /\ UNCHANGED tokens

activate(l) ==
    /\ inState(l, "Pending") /\ launches[l].funded /\ welcome(tokens[tokenOf(l)], l)
    /\ launches' = [launches EXCEPT ![l].state = "Active"]
    /\ launchOnly /\ UNCHANGED tokens

withdrawPendingTokens(l) ==
    /\ inState(l, "Pending") /\ launches[l].funded
    /\ launches' = [launches EXCEPT ![l].funded = FALSE]
    /\ launchOnly /\ UNCHANGED tokens

\* _autoResolve() past the deadline and short of the soft cap.
_autoResolve(l) ==
    /\ launches' = [launches EXCEPT ![l].state = "Refunding"]
    /\ tokens' = IF canUnlock(tokens[tokenOf(l)], l)
                 THEN [tokens EXCEPT ![tokenOf(l)] = unlockTaxCeiling(@)] ELSE tokens

\* resolveState() or the first refund().
fail(l) == inState(l, "Active") /\ _autoResolve(l) /\ launchOnly

\* _graduate(): trading starts if it has not and the clone may start it.
\* Whether the transfer into the pool passes depends on pools and limits.
graduate(l) ==
    /\ inState(l, "Active")
    /\ launches' = [launches EXCEPT ![l].state = "Graduated"]
    /\ tokens' = IF l \in tokens[tokenOf(l)].launchers /\ ~tokens[tokenOf(l)].trading
                 THEN [tokens EXCEPT ![tokenOf(l)] = enableTrading(@)] ELSE tokens
    /\ launchOnly

\* clearTokenLaunch(), which only the registered launch may call.
clearTokenLaunch_Slip(l) == tokenToLaunch' = [tokenToLaunch EXCEPT ![tokenOf(l)] = None]
clearTokenLaunch(l) ==
    tokenToLaunch' = IF tokenToLaunch[tokenOf(l)] = l
                     THEN [tokenToLaunch EXCEPT ![tokenOf(l)] = None] ELSE tokenToLaunch

\* The creator takes back what is unsold or refunded, as often as more comes in.
creatorWithdrawAvailable(l) ==
    /\ \/ inState(l, "Active") /\ _autoResolve(l)
       \/ inState(l, "Refunding") /\ UNCHANGED <<launches, tokens>>
    /\ clearTokenLaunch(l)
    /\ UNCHANGED <<usdt, usdtLocked, platform, meddled>>

-----------------------------------------------------------------------------
(* The router.  Each call ends with the caller owning the token.           *)

setPaused(p) ==
    /\ paused' = p
    /\ UNCHANGED <<tokens, launches, registry, authorizedRouter, meddled>>

\* The rate a call leaves: none asked for changes nothing.
asked(token, x) == IF x > 0 THEN x ELSE token.tax

\* _configureLaunchProtections() for a token said to be taxable or not.
_configureLaunchProtections_Slip(token, l, x, isTaxable) ==
    [token EXCEPT !.launchers = @ \cup {l}, !.exempt = @ \cup {l}, !.tax = asked(token, x)]
_configureLaunchProtections(token, l, x, isTaxable) ==
    IF isTaxable
    THEN lockTaxCeiling([token EXCEPT !.launchers = @ \cup {l}, !.exempt = @ \cup {l},
                                      !.tax = asked(token, x)])
    ELSE [token EXCEPT !.launchers = @ \cup {l}]

\* routerCreateLaunch() pulls its fee in the factory's USDT, and the deposit is
\* notified through the factory: both need the authorisation.
routerLaunches(u, t, x, isTaxable) ==
    LET token == _configureLaunchProtections(tokens[t], next, x, isTaxable)
        terms == IF isTaxable THEN token.tax ELSE None
    IN  /\ ~paused /\ authorizedRouter = Router /\ usdt = RouterUsdt
        /\ isTaxable /\ x > 0 => canSetTaxes(tokens[t], x)
        /\ _createLaunchInternal(fund(clone(u, t, terms), token, next), t)
        /\ tokens' = [tokens EXCEPT ![t] = [token EXCEPT !.owner = u]]
        /\ UNCHANGED <<platform, meddled>>

createTokenAndLaunch(u, t, x) == ~created(t) /\ routerLaunches(u, t, x, TRUE)

\* Whoever calls after the owner has handed the token to the router.
launchCreatedToken(u, t, x, isTaxable) == owns(Router, t) /\ routerLaunches(u, t, x, isTaxable)

_configureAndEnableTrading(token, x) ==
    enableTrading(lockTaxCeiling([token EXCEPT !.tax = asked(token, x)]))

\* createAndList() and createTokenOnly() differ in their pools only.
createAndOpen(u, t, x) ==
    /\ ~created(t) /\ ~paused
    /\ x > 0 => canSetTaxes(tokens[t], x)
    /\ tokens' = [tokens EXCEPT ![t] =
           [_configureAndEnableTrading(tokens[t], x) EXCEPT !.owner = u]]
    /\ tokenOnly /\ UNCHANGED meddled

-----------------------------------------------------------------------------
Owner(u, t) ==
    \/ createToken(u, t)
    \/ \E x \in Taxes : ownerSetsTaxes(u, t, x)
    \/ ownerLocksCeiling(u, t)
    \/ ownerEnablesTrading(u, t)
    \/ \E who \in Users \cup DOMAIN launches, authorized \in BOOLEAN :
           setAuthorizedLauncher(u, t, who, authorized)
    \/ \E l \in DOMAIN launches, exempt \in BOOLEAN : setExempt(u, t, l, exempt)
    \/ \E to \in Users \cup {Router} : transferOwnership(u, t, to)
    \/ unlockByHand(u, t)

Platform ==
    \/ \E t \in Tokens, x \in Taxes : platformRelaxes(t, x)
    \/ \E d \in Dollars : setUsdt(d)
    \/ \E r \in {Router, None} : setAuthorizedRouter(r)
    \/ \E p \in BOOLEAN : setPaused(p)

Registry ==
    \E t \in Tokens : cancelPendingLaunch(t) \/ \E u \in Users : createLaunch(u, t)

Run(l) ==
    \/ depositTokens(l) \/ activate(l) \/ withdrawPendingTokens(l)
    \/ fail(l) \/ graduate(l) \/ creatorWithdrawAvailable(l)

Routed(u, t, x) ==
    \/ createTokenAndLaunch(u, t, x)
    \/ \E isTaxable \in BOOLEAN : launchCreatedToken(u, t, x, isTaxable)
    \/ createAndOpen(u, t, x)

Next ==
    \/ \E u \in Users, t \in Tokens : Owner(u, t) \/ \E x \in Taxes : Routed(u, t, x)
    \/ Platform \/ Registry
    \/ \E l \in Ids : Run(l)

Spec == Init /\ [][Next]_vars

-----------------------------------------------------------------------------
(* Properties.                                                             *)

\* A token has one launch at a time: whatever clones exist, one that still
\* waits, sells or has graduated is the one registered for its token, so a
\* failed launch that returns late refunds to its creator cannot unregister
\* its successor, and nothing is sold twice.
live(l) == launches[l].state \in {"Pending", "Active", "Graduated"}
OneLiveLaunch ==
    \A l \in DOMAIN launches : live(l) => tokenToLaunch[tokenOf(l)] = l

\* Buyers of a launch made by the router get the rates it was launched with
\* or lower ones, through failed launches and relaunches of the same token,
\* changes of its owner, relief and graduation, unless the owner has
\* authorised somebody else on the token.
honours(token, terms) == token.locked /\ token.tax <= terms /\ token.ceiling <= terms
TermsKept ==
    \A l \in DOMAIN launches :
        live(l) /\ launches[l].terms # None /\ tokenOf(l) \notin meddled
            => honours(tokens[tokenOf(l)], launches[l].terms)

\* A graduated launch has opened the token's trading: what preflight() asked
\* for before the sale is still there at its end, unless the owner took it
\* away.  _graduate() swallows the refusal of enableTrading().
GraduatedTrades ==
    \A l \in DOMAIN launches :
        launches[l].state = "Graduated" /\ tokenOf(l) \notin meddled => tokens[tokenOf(l)].trading

\* Once trading has started the ceiling is for good: it stays locked, never
\* rises, and no rate is above it ("ceiling becomes permanent",
\* TaxableToken.sol:195).
CeilingFinal ==
    [][\A t \in Tokens : tokens[t].trading =>
         /\ tokens'[t].locked /\ tokens'[t].ceiling <= tokens[t].ceiling
         /\ tokens'[t].tax <= tokens'[t].ceiling]_vars

=============================================================================
