----------------------------- MODULE Affiliate -----------------------------
(***************************************************************************)
(* Affiliate.sol: who referred whom, and what the referrers may claim.     *)
(*                                                                         *)
(* The contract is called by its users and by the platform's revenue       *)
(* contracts, so this module has no Init and Next of a system of its own:  *)
(* a module that EXTENDS it composes Affiliated, the calls nobody else     *)
(* takes part in, with report() made by the contract it models.  A revert  *)
(* is the absence of a step.  Shares are in parts of Bps, the contract's   *)
(* 10,000.  Foo_Slip beside Foo is a plausible slip in Foo.                *)
(***************************************************************************)
EXTENDS Integers, FiniteSets, Functions

CONSTANTS
    Users,                   \* referrers and referred
    None,                    \* the zero address
    Reporters, Outsiders,    \* the revenue contracts, and those modelled elsewhere
    Bps,                     \* the whole, in basis points
    ShareChoices,            \* arguments of setShareBps()
    MinClaimChoices,         \* arguments of setMinClaim()
    Fees,                    \* fees the other reporters collect
    Gifts                    \* amounts sent to a contract by a plain transfer

ASSUME AffiliateAssumption ==
    /\ IsFiniteSet(Users) /\ None \notin Users /\ Outsiders \subseteq Reporters
    /\ Bps \in Nat \ {0}
    /\ ShareChoices \subseteq 0 .. Bps /\ MinClaimChoices \subseteq Nat
    /\ Fees \subseteq Nat /\ Gifts \subseteq Nat \ {0}

VARIABLES
    referrerOf,
    stats,                   \* by referrer, without the lifetime counters nothing reads
    authorized,
    totalPending,
    shareBps, minClaim,
    held                     \* the USDT this contract holds

affiliateVars == <<referrerOf, stats, authorized, totalPending, shareBps, minClaim, held>>

Stats == [pending : Nat, referredCount : Nat]

AffiliateTypeOK ==
    /\ referrerOf \in [Users -> Users \cup {None}]
    /\ stats \in [Users -> Stats]
    /\ authorized \subseteq Reporters
    /\ totalPending \in Nat
    /\ shareBps \in 0 .. Bps /\ minClaim \in Nat
    /\ held \in Nat

\* As deploy.ts leaves it: the reporters are whitelisted.
AffiliateInit ==
    /\ referrerOf = [u \in Users |-> None]
    /\ stats = [u \in Users |-> [pending |-> 0, referredCount |-> 0]]
    /\ authorized = Reporters
    /\ totalPending = 0
    /\ shareBps = Bps \div 4 /\ minClaim = 1
    /\ held = 0

-----------------------------------------------------------------------------
(* Binding and crediting.                                                  *)

\* The referrer a report for user credits, when it proposes ref.
credited(user, ref) == IF referrerOf[user] = None THEN ref ELSE referrerOf[user]

cut(user, ref, fee) == IF credited(user, ref) = None THEN 0 ELSE (fee * shareBps) \div Bps

\* The sticky binding, then the credit of amount to whoever is bound.
bindAndCredit_Slip(user, ref, amount) ==
    /\ referrerOf' = [referrerOf EXCEPT ![user] = ref]
    /\ stats' = [r \in Users |->
        [stats[r] EXCEPT !.pending = IF r = ref THEN @ + amount ELSE @,
                         !.referredCount = IF r = ref /\ referrerOf[user] # r THEN @ + 1 ELSE @]]
bindAndCredit(user, ref, amount) ==
    LET r0 == credited(user, ref)
        new == referrerOf[user] = None
    IN /\ referrerOf' = [referrerOf EXCEPT ![user] = r0]
       /\ stats' = [r \in Users |->
            [stats[r] EXCEPT !.pending = IF r = r0 THEN @ + amount ELSE @,
                             !.referredCount = IF r = r0 /\ new THEN @ + 1 ELSE @]]

\* Whether report() reverts, for a reporter with funds approved and at hand.
reportReverts(reporter, user, ref, fee, funds) ==
    \/ reporter \notin authorized
    \/ ref = user
    \/ cut(user, ref, fee) > funds

\* report() when it does not revert.
report(user, ref, fee) ==
    /\ bindAndCredit(user, ref, cut(user, ref, fee))
    /\ totalPending' = totalPending + cut(user, ref, fee)
    /\ held' = held + cut(user, ref, fee)
    /\ UNCHANGED <<authorized, shareBps, minClaim>>

\* try affiliate.report(..) {} catch {}
tryReport(reporter, user, ref, fee, funds) ==
    IF reportReverts(reporter, user, ref, fee, funds)
    THEN UNCHANGED affiliateVars ELSE report(user, ref, fee)

-----------------------------------------------------------------------------
(* The calls.                                                              *)

\* A call of a user already bound changes nothing.
registerReferrer(user, ref) ==
    /\ ref # user /\ referrerOf[user] = None
    /\ bindAndCredit(user, ref, 0)
    /\ UNCHANGED <<authorized, totalPending, shareBps, minClaim, held>>

claim_Slip(user) ==
    /\ stats[user].pending > 0 /\ stats[user].pending >= minClaim
    /\ held >= stats[user].pending
    /\ stats' = [stats EXCEPT ![user].pending = 0]
    /\ held' = held - stats[user].pending
    /\ UNCHANGED <<referrerOf, authorized, totalPending, shareBps, minClaim>>
claim(user) ==
    /\ stats[user].pending > 0 /\ stats[user].pending >= minClaim
    /\ totalPending >= stats[user].pending /\ held >= stats[user].pending
    /\ stats' = [stats EXCEPT ![user].pending = 0]
    /\ totalPending' = totalPending - stats[user].pending
    /\ held' = held - stats[user].pending
    /\ UNCHANGED <<referrerOf, authorized, shareBps, minClaim>>

\* By the owner, or by a factory it has whitelisted.
setAuthorized(reporter, enabled) ==
    /\ authorized' = IF enabled THEN authorized \cup {reporter} ELSE authorized \ {reporter}
    /\ UNCHANGED <<referrerOf, stats, totalPending, shareBps, minClaim, held>>

setShareBps(bps) ==
    /\ shareBps' = bps
    /\ UNCHANGED <<referrerOf, stats, authorized, totalPending, minClaim, held>>

setMinClaim(amount) ==
    /\ minClaim' = amount
    /\ UNCHANGED <<referrerOf, stats, authorized, totalPending, shareBps, held>>

\* The owner takes what is not owed; a rescue of another token touches no state here.
rescue(amount) ==
    /\ held > totalPending /\ amount <= held - totalPending
    /\ held' = held - amount
    /\ UNCHANGED <<referrerOf, stats, authorized, totalPending, shareBps, minClaim>>

\* A plain transfer of USDT to the contract.
donate(amount) ==
    /\ held' = held + amount
    /\ UNCHANGED <<referrerOf, stats, authorized, totalPending, shareBps, minClaim>>

\* TradeRouter and LaunchInstance approve the whole fee they hold, and catch a revert.
otherReport(reporter, user, ref, fee) ==
    /\ ~ reportReverts(reporter, user, ref, fee, fee)
    /\ report(user, ref, fee)

\* What is owed or spare leaves.
AffiliatePays ==
    \/ \E u \in Users : claim(u)
    \/ \E amount \in Gifts : rescue(amount)

\* The other calls, and the reports of the contracts modelled elsewhere.
AffiliateCalls ==
    \/ \E u, r \in Users : registerReferrer(u, r)
    \/ \E amount \in Gifts : donate(amount)
    \/ \E reporter \in Outsiders, u \in Users, r \in Users \cup {None}, fee \in Fees :
          otherReport(reporter, u, r, fee)

AffiliateAdmin ==
    \/ \E reporter \in Reporters, enabled \in BOOLEAN : setAuthorized(reporter, enabled)
    \/ \E bps \in ShareChoices : setShareBps(bps)
    \/ \E amount \in MinClaimChoices : setMinClaim(amount)

-----------------------------------------------------------------------------
(* Properties.                                                             *)

\* What each referrer may claim.
promised == [r \in Users |-> stats[r].pending]

\* Every USDT promised to a referrer is in the contract, whatever the other
\* referrers claim and the owner rescues, and the running total is the sum.
AffiliateSolvent ==
    /\ held >= totalPending
    /\ totalPending = SumFunction(promised)

\* A user is bound once, by whichever of his registration and the reports of the
\* revenue contracts comes first, never to himself, and is counted once.
BindingsCounted ==
    \A r \in Users :
        /\ referrerOf[r] # r
        /\ stats[r].referredCount = Cardinality({u \in Users : referrerOf[u] = r})
=============================================================================
