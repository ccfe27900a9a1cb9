# TLA+ specifications of TokenKrafter

TokenKrafter is a token launchpad with a fiat bridge: contracts that sell a token along a bonding
curve and hold USDT in escrow, and a backend with daemons that turn escrowed USDT into bank
transfers and bank transfers into USDT. This directory specifies the parts that hold somebody's
money or keys: the launch, the escrow router, the on-ramp and the off-ramp, the referral ledgers, the
controls a token keeps through its launches, and the embedded wallets. TLC checks small instances; TLAPS
proves the central invariants for every value of the constants.

Paths below are relative to `src/`; `contracts/` stands for `solidty-contracts/contracts/`.

## 1. Inventory

### Parts that carry the core logic

| Part | Source | State | Operations |
|---|---|---|---|
| LaunchInstance, LaunchMath | `contracts/LaunchInstance.sol`, `LaunchMath.sol` | one sale: state, totals, per-buyer net, gross and tokens, USDT and token balance, vesting | deposit, activate, cancel, buy, graduate, resolve, refund, sweep, claim, pause |
| TradeRouter | `contracts/TradeRouter.sol` | withdrawal requests, queue of pending ids with its index, escrow and earnings totals, administrators, used bank and payment references, USDT balance | deposit (direct or swapped), confirm, confirmBatch, cancel, refund, onramp, withdraw, rescue, settings, administrators |
| On-ramp | `web/src/routes/api/onramp/*`, `api/webhooks/flutterwave/onramp`, `payment-server/src/onramp-delivery.ts` | row of `onramp_intents`, redis lock, provider customer | quote, intent POST and DELETE, webhook, poll, deliver |
| Off-ramp | `web/src/routes/api/withdrawals/*`, `payment-server/src/withdrawal-processor.ts`, `web/src/routes/_/lib/WithdrawalsTab.svelte` | row of `withdrawal_requests`, mutex per chain, redis key, provider balance | row POST and PATCH, verify, sync-status, process, admin confirm |
| Affiliate | `contracts/Affiliate.sol` | pending and total earnings per referrer, reporters | register, report, claim, rescue, settings |
| LaunchpadFactory | `contracts/LaunchpadFactory.sol` | launches, token-to-launch map, global pause, fees | create (owner, custom, routed), notify, clear, pause by index, cancel, withdraw |
| TokenFactory | `contracts/TokenFactory.sol` | tokens, referral tree, pending rewards, fees | create, claim, process tax, withdraw, settings |
| PlatformRouter | `contracts/PlatformRouter.sol` | none between calls | create, list, launch in one transaction |
| Tokens | `contracts/tokens/*.sol` | owner, trading, launchers, exemptions, taxes and their ceilings; pools, limits, blacklist | taxes, lock and unlock of the ceiling, enableTrading, relief; transfer with protections |
| Embedded wallets | `web/src/routes/api/wallets/**`, `web/src/lib/embeddedWallet.ts` | table `wallets` with its primary index, each tab's list and its PIN-change flag | create, promote, re-encrypt, delete, rotate the PIN |

The rest keeps no state worth a model, or a cache of the chain that is overwritten idempotently: the
lens contracts, the event indexer's launch and token tables, the SAFU, price and logo jobs, the
activity bots (ordinary users to the contracts), the payment proxy (a relay, whose errors are in `OffRamp`), metadata APIs, session
signatures, pages and scripts. `PROJECT.json` lists each with its files and the reason.

### How the parts interact

- A **launch** is a clone made by LaunchpadFactory, filled by its creator or by PlatformRouter through
  `notifyDeposit`. It reads the factory's global pause on every buy and graduation, reports its fee to
  Affiliate inside a try/catch, and seeds the exchange pair when it graduates.
- A **withdrawal** starts with a row (POST `/api/withdrawals`, status `awaiting_trade`), whose hash the
  trader gives to the router as `bankRef`; the router refuses a `bankRef` twice. The page and the
  indexer both report the deposit to `verify`. The processor daemon (event and poll) calls `process`,
  which reads the router, reads the row, checks the provider's balance, confirms on-chain, records it,
  transfers NGN, and records that. An administrator may press a button that runs the same handler,
  confirm from an own wallet, or cancel the row. After expiry the user cancels, or an administrator refunds.
- A **purchase** starts with a quote row. The POST registers a customer and a virtual account with the
  provider and binds the receiver. The provider's webhook records the payment; the daemon polls paid
  rows, takes a redis lock, and calls `deliver`, which flips the row by compare-and-swap, checks the
  router, sends `onramp()` from the owner's key and waits for the receipt. The USDT comes out of the
  router's balance beyond escrow and earnings, which is where the off-ramp leaves what it confirms.

- A **token** is created by TokenFactory for a fee, out of which referrers are paid or promised rewards, and which
  is reported to Affiliate; the Affiliate pulls its cut from the same balance. The page creates and
  launches in one call of PlatformRouter, or creates, hands the token to the router, and launches in
  another. The router sets taxes, locks their ceiling, authorises the clone, and passes the ownership on. LaunchpadFactory
  keeps one launch per token; a failed launch unlocks the ceiling, and clears its entry when its creator withdraws.
- A **wallet**'s seed reaches the server only as a blob under a PIN. Every device of a user has a list of his own;
  changing the PIN sends all blobs at once, and the server checks the ids, then writes row by row.

### What is hard, and what makes each part correct

- *Launch.* No concurrency beyond transaction order, but long sequences of buys, partial refunds, pauses,
  donations and deadlines, with every amount rounded. Correct means: escrow covers the raise, totals equal the
  sum of entitlements, caps hold, tokens owed are there, the listing price is not below the curve, each
  outcome is justified and final, and an expired launch gets out of Active.
- *Router.* One balance serves escrow, earnings and reserve; settings change between a deposit and its
  settlement; four operations race for a request around its expiry; swap-and-pop indexes; a batch is many steps
  with an external call in each. Correct means: solvent, paid as quoted, settled once, indexes agree,
  and the user gets out without the platform.
- *On-ramp.* Handlers that interleave at every await, a lock that expires under its holder, duplicate
  webhooks, RPC errors after a broadcast, crashes. Correct means: one payout per reference, only after the
  right payment, to the bound receiver, and eventually.
- *Off-ramp.* Two entrances to one handler of which only one is locked, lost answers, a transaction mined
  after its caller gave up, refunds at the expiry, several unconditional writers of the row. Correct means: at
  most one transfer, only for a confirmed request, a row that says of it what the handler was answered, and no request
  left unattended.
- *Referrals.* Two ledgers over two balances fed by the same fee, a ring of referrers longer than the bounded cycle
  check, settings that change between a promise and its claim. Correct means: what is promised is there, everybody
  is bound once and counted once, nobody is rewarded out of his own fee.
- *Launches of a token.* Long sequences across four contracts: failure, relaunch, late refunds to an old clone, relief,
  changes of owner. Correct means: one live launch per token, the buyers' rates hold, a graduated token trades, a
  ceiling is final once trading has started.
- *Wallets.* Check-then-act over several rows from several devices. Correct means: one primary, no deleted wallet comes
  back, an acknowledged rotation holds.

Every hazard is listed at its line in `PROJECT.json`, with the properties that cover it or the reason
why none does.

## 2. Modules

| Module | Role |
|---|---|
| `BondingCurve` | the integer curves of LaunchMath: cost, price, bisection |
| `LaunchInstance` | one launch; extends `BondingCurve` |
| `EscrowVault` | abstract: each request is held once and leaves once |
| `TradeRouter` | the router; implements `EscrowVault` (`EscrowKept == Vault!Spec`) |
| `OnRamp` | one intent, every handler split at its awaits |
| `OffRamp` | withdrawal requests, rows, daemon and handler |
| `Affiliate` | the shared referral ledger, without an Init and Next of its own |
| `TokenFactory` | creation, referral rewards and default bases; extends `Affiliate` and composes the two contracts |
| `Launchpad` | the registry of launches, a token's controls, the lifecycle of its launches and the router's calls |
| `Wallets` | the wallets of one user, every handler split at its awaits |
| `MC*` | values for TLC |
| `Amounts` | the lemmas on amounts the proofs cite: `\div`, shares, sums over a set |
| `*Proofs` | the theorems |

An operator `Foo_Slip` (or `Foo_` with the name of the slip) next to `Foo` is a plausible programming slip in `Foo`. It takes no part in the
specification: substituting it for `Foo` shows that the property concerned notices.

### LaunchInstance

An external function is an action, its `require`s and custom errors are the guards, a revert is the
absence of a step. `_autoResolve()` is part of every function that calls it. Time is counted in days,
because every delay of the contract is. Prices and amounts are integers in the native unit, divided as
the contract divides them, so roundings are exact. `PRECISION` and the supplies are constants; TLC
gives small ones, the proofs none. The affiliate call of a buy spends part of the fee or fails; neither
reaches the escrow, because the allowance it gets is exactly its share and is reset, so it is not a variable.
`exempt` stands for the token's exclusions and launcher authorisation, which the creator may set and unset while
the launch is Pending. Donations of USDT to the clone are modelled because the contract reads its own
balance. A launch that sells out graduates in the same transaction, also below its soft cap: the
contract says so (lines 799 and 829) and `OutcomeJustified` admits it.

### TradeRouter and EscrowVault

The pending queue is the array the contract has, with its index mapping and the swap-and-pop. USDT has one
balance. `confirmBatch` is the one transaction of the model that takes several steps: `batchIteration`
handles one id; no other action is enabled while `batch` is not empty, as within a transaction, so
that each iteration is judged by the refinement. The referral contract may fail or pull any
part of its allowance, which is the fee; the legacy path pays a share directly. Swapped deposits choose the amount the exchange delivers.

The refinement maps a request to `none`, `held`, `released` or `returned`, and `usdtBal - totalEscrow`
to the vault's surplus: what belongs to nobody's request. In the vault a release takes no more than
the request held, a return takes exactly that, and everything else may move the surplus only.

### OnRamp

One row from its quote. A handler that awaits is split there: `PostRead` ... `PostWrite`, `HookRead` and
`HookWrite`, `CancelRead` and `CancelWrite`, and the deliver handler from `DeliverRead` to
`markDelivered`. What a handler has read is kept (`to`, `hooks`, `tx`). `Workers` are passes of the daemon, which
may overlap because `setInterval` does not wait. A transaction is sent, then mined or dropped; `Mine`
applies the router's checks (`accepted`). `CallFails` is a failing await at each place, `BackendStops`
cuts a handler off, `DaemonStops` loses the daemon's pass while the handler goes on.

The row's receiver is written unconditionally by the second update of a POST. What keeps two signers of one
reference apart is the provider: it refuses a second customer under the e-mail derived from the
reference. That the provider does so is taken from the code's comment (intent/+server.ts:75-79); the
slip `emailTaken_PerAttempt` shows what an e-mail of its own for each attempt would break.

### OffRamp

A request is a row together with the router's request carrying its hash; the router's one-time
`bankRef` makes them correspond. The router appears through its statuses and through what
`_confirm` requires (`confirmable`); that those are faithful is what `TradeRouter` is about. `Calls`
are runs of the process handler; a call of the daemon passes through the mutex (`queue`) and the key, one from the
page does not. `at` says where a call is, and implies what it has read: it has found the request Pending,
the row open, the balance enough, and so on. `orphans` are confirm transactions whose caller has
returned or died. A transfer may be refused, may throw after it was made, or may be made and answered as failed: the
payment server catches a broken connection or an unreadable answer of the provider and returns an error
(`errAfterTransfer`), which the handler takes for a refusal. `denied` is the history of those requests. Payouts are all of one unit of the provider's balance. The page's list may be
arbitrarily old (`listed`).

Verify is called by the page and by the indexer; sync-status may arrive late, repeatedly and in
any order, because the indexer re-reads blocks. Both write unconditionally.

### Affiliate and TokenFactory

`Affiliate` is written as operators on its own variables, because its calls happen inside transactions of other
contracts: `tryReport` is the try/catch of `TokenFactory._reportAffiliate`, `otherReport` a report
of a reporter modelled elsewhere. `createToken` is one step in the order of the code: fee in, referral, rewards out or
promised, report, record. A payee may refuse a direct reward (`bounced`), whereupon it is promised. The
factory's USDT may be replaced by the owner while the Affiliate keeps the one it was deployed with, hence
`purse` by coin and `approved`. `newest` keeps of the registry the last token, for whom it was made and who was rewarded for it.
`excused` records that the owner's settings spent more than a fee, or changed the USDT, while rewards
were promised: nothing in the code prevents either, and `RewardsBacked` says what holds without.

### Launchpad

One record per token holds its controls; one per clone, its token, creator and state. The sale itself is
`LaunchInstance`; here any outcome may follow a sale. One rate stands for the three of a token, and the two
exemptions are one flag. `terms` is the rate a routed launch was made with, `meddled` the tokens whose owner
authorised a person as launcher or revoked an authorisation, which the contracts let him do. A router call is one
transaction and so one step; `launchCreatedToken` may be called by anybody while the router owns the token.
`_graduate()` may find the token refusing `enableTrading()` and goes on, as in the code.

### Wallets

One user, several tabs (pages or devices) and several calls. A blob is the PIN that opens it. A handler is a record
with its step and what it has read; every await is a step boundary. A tab that reloads abandons its calls, which run
on. `DbError` is an answered database error, and the fourth disjunct of `PostDecide` a count that failed and is taken for
zero. `over` and `lapsed` are history variables: which listed wallets another call has written since a rotation's check, and
whether one of two things has happened in which the code can lose the primary: a deletion under way beside a promotion of the
same wallet, or the failed insert of a primary.

## 3. Runs

All runs allow every interleaving of the actions. "Violation" runs check one property that a comment of
the code states and TLC refutes. Type invariants are theorems (section 5) and are not run again.

| Run | Question | Bounds |
|---|---|---|
| `LaunchEscrow` | are escrow, totals, caps and outcomes right whatever the order? | two buyers, three purchases, partial and full refunds, both pauses, one donation; times before the start, at the deadline, in the sweep window |
| `LaunchVesting` | are tokens owed there and listed at the right price; does an expired launch resolve? | one buyer, two purchases, two depositors, five times around cliff and end of vesting; inputs 120 and 320, whose fee never exceeds what was set aside |
| `LaunchStuck` | violation of `ExpiredResolves` | inputs of 99 units, see Findings |
| `RouterEscrow` | solvent, ledger exact, paid as quoted, queue indexed, window respected? | two requests, settled singly and in batches with both orders and a repeated id, fee and timeout changes, both referral paths |
| `RouterReserve` | is the vault implemented beside reserve, swaps, withdrawals and setters; does a user get out? | one request, one on-ramp payment, one bank reference, two accounts passing the ownership, pauses, a batch that repeats its id |
| `OnRamp` | one payout, one deliverer, right payment, right receiver, truthful `delivered`; does a matching payment end in a delivery or with an operator? | two signers, a canceller, a right and a wrong payment, two overlapping passes, one webhook call at a time, two transactions, one fault, one crash |
| `OnRampCrash` | violation of `Resolves` | one of each, one crash |
| `OffRamp` | one transfer, only if confirmed, a row that is true unless the payment server was not; is every request attended to? | one request, two verify calls, two runs of the handler, two failures, one crash |
| `OffRampLost` | violation of `Answered` | one request, one run, one failure |
| `TokenFactory` | are both referral ledgers backed, everybody bound once, nobody self-rewarded, partner pools complete? | three users (a ring of three is longer than the walk, which is two here), three creations, one gift or change of a setting, two USDTs and a taxed token; every creation with one base of the caller |
| `Launchpad` | one live launch, terms kept, graduated tokens trade, ceilings final? | one token, two people, two launches, rates below, at and above the cap, two USDTs |
| `Wallets` | one primary, a signer kept, no resurrection, rotations hold? | two wallets, two PINs, one tab that may reload, two calls at once, one failing database call |

Bounds. Two is the least number with which two buyers, requests, workers or calls can meet, and every
pairwise race needs no more; three requests and three accounts are the least with which swap-and-pop
moves an entry that is neither the removed one nor the only other. One on-ramp row is enough because rows
share nothing but the router's reserve, which `Drain` and `TopUp` change at will. One off-ramp request is enough for
the properties of a request; requests meet only in the queue of a chain, the nonces of a wallet and the
provider's balance. The proofs lift the bound for all safety properties of this kind. The numbers of
the launch are chosen so that the wallet cap, the sell-out, both fee roundings and partial refunds
occur: the curve has ten tokens, a wallet may take part of them, and one of the two inputs (99) rounds up.
Each setting that a run leaves empty (`FeeChoices = {}` and so on) is exercised by another run.

The run of `OnRamp` has a single webhook call at a time. Two that have both read `pending_payment` write one after
the other, and the later write takes a row back to `payment_received` that is delivering or delivered: each such call
can start one more delivery. `OneDeliverer` therefore bounds the handlers past the compare-and-swap by the number of
overlapping webhook calls, which is one in the run; the theorems `OnRampOneDeliverer`, `OnRampPaidAtMostOnce` and the
others hold for any number of them. In the same way payments of the router to itself as a referrer, three pending requests and the
administrators' index are beyond the runs' bounds and within `RouterSolvent`, `RouterPendingIndexed` and
`RouterAdminsIndexed`. A walk of two and a cap of two levels stand for the code's ten and ten: what matters is that
the walk is no shorter than the levels, which `TokenFactoryAssumption` says. Two launches of one token are
the least with which a failed launch and its successor meet; tokens share only the registry's lock and the router's
pause, and `LaunchpadProofs` has any number of both.

`CHECK_DEADLOCK FALSE` in the on-ramp and off-ramp runs: a row that is delivered, cancelled or expired, or
a withdrawal that was refunded, has nothing left to do. In `TokenFactory` and `Wallets` the creations and
the identifiers run out.

### Fairness

- `LaunchInstance`: blocks keep coming, and after the deadline somebody calls `resolveState()` and
  `graduate()`, which anybody may (lines 949-950). No buy, refund or pause is fair.
- `TradeRouter`: blocks keep coming and the user's `cancel()` is eventually included. It is strong
  fairness only because the steps of a batch disable everything else for a while; a transaction does
  not take for ever (`WF` of `batchIteration`). Nothing the platform does is fair.
- `OnRamp`: a started handler goes on (unless it is cut off), the daemon polls for ever
  (`setInterval`), the redis lock has a lifetime, the chain mines what was sent, the provider repeats its
  webhook until it is answered, and the owner tops the reserve up when alerted.
- `OffRamp`: weak fairness of started calls, of the key's expiry (`EX 300`), of mining and of the top-up of the
  provider's balance; strong fairness of `tryProcess` for each request, since a poll walks the
  whole list of pending ids, so a request that is on it again and again is attempted again and again.
- `TokenFactory`, `Launchpad` and `Wallets` state no fairness: their properties are safety.
  Crashes and failures are bounded and never fair. The fetch of the daemon has no timeout, but an
  answer that never comes is not among the behaviours: a handler either answers or is cut off, and
  then the connection closes.

## 4. Findings

1. **A buy can cost one unit more than it brought** (`LaunchStuck`, `LaunchInstance.sol:723`). The fee is set aside
   as `floor(u/100)` but charged as `floor(base*100/9900)`; for `u = 99 (mod 100)` the charge can exceed the
   input by one native unit, taken out of the escrow. `EscrowCovers` bounds this by one unit per purchase
   (proved); but graduation pays out exactly `totalBaseRaised` and reverts while a single unit is missing, so the
   launch stays Active until somebody donates it. "Anyone ... can unstick it by calling graduate()".
2. **A crash leaves a paid intent in `delivering`** (`OnRampCrash`, `deliver/+server.ts:91`). No poll lists
   that status. "Daemon retries naturally via the next poll cycle if anything fails."
3. **A confirmed withdrawal can be forgotten** (`OffRampLost`, `process/+server.ts:193`). When the
   broadcast or the wait throws and the transaction is mined all the same, the request is Confirmed,
   nothing lists it any more, and its row is neither paid nor flagged. The same happens when the transfer throws. The
   daemon's alert (`withdrawal-processor.ts:219`) or the page's answer names the error of the call, nothing says that
   the request is Confirmed all the same. "flag for manual resolution".

Known divergences that have no run of their own, met while modelling and present in the models:

- The DELETE of an intent checks the status it read and then updates by reference alone
  (`intent/[ref]/+server.ts:53`): a payment recorded in between is cancelled, although "Only stoppable while
  pre-payment" (48-50). A POST that writes after a cancel revives the cancelled intent.
- A PIN rotation is neither "atomic" (`rotate-pin/+server.ts:2`) nor "either every wallet gets the new
  ciphertext or none do" (`embeddedWallet.ts:842-844`): the handler writes row by row and answers 500 at the
  first failure, with the rows before it under the new PIN. In the model this is `DbError` at step `rotating`.
- A withdrawal that was paid may be flagged "fiat transfer FAILED ... Needs manual resolution"
  (`process/+server.ts:225-235`): when the provider's answer is lost or is not JSON, the payment server's catch
  (`payment-server/src/index.ts:97-99`) answers with an error, `v3Fetch` does not look at the status, and `initiateTransfer`
  (`flutterwave.ts:204`) reports a failure. An operator who resolves it by hand pays twice. `RowIsTrue` says that these are the only
  paid requests that are ever flagged.
- A deletion and a promotion of the same wallet that are under way together leave a user without a primary, or
  without a wallet (`wallets/[id]/+server.ts:156-175`): `is_primary` is read before the promotion and the row
  deleted after it, or the row is promoted after it is gone, which demotes the others. "Cannot delete the last wallet (leaves user
  with no signing key)". And a POST that asks for the primary and fails to insert has demoted the old one
  (`wallets/+server.ts:131-151`). `SignerKept` excepts these two (`lapsed`) and nothing else.
- `Affiliate.report` reverts for `ref = user` even when the user is bound to somebody else, so that the earning is
  lost, although a proposed referrer is "ignored if user already has one" (`Affiliate.sol:109`, 118).
- "Owner cannot unlock" the ceiling (`TaxableToken.sol:59-60`), but the owner may authorise himself as a launcher
  (`BasicToken.sol:194`) and then unlock. `meddled` marks such tokens.
- The global pause leaves refunds open "so users can always exit" (`LaunchpadFactory.sol:137-139`), but
  `LaunchInstance.sol:997` opens them for the pause of one launch only.
- A token parked with the router between `transferOwnership` and `launchCreatedToken` is given to whoever calls first.
- "Re-delivery of an already-processed event is a no-op" (`webhooks/flutterwave/onramp/+server.ts:98`) is so only
  one after the other: two calls that both read `pending_payment` both write, the later one by reference alone
  (131-141). A delivered row is then queued again, and the router's refusal of the used reference ends it in `failed`.
- A transfer that bounces is never recorded: the pattern at `api/webhooks/flutterwave/+server.ts:49` matches no
  reference that `process/+server.ts:213-214` gives.

## 5. Proofs

No theorem rests on anything but the named assumptions of the modules (`LaunchAssumption`,
`InputAssumption`, `PrecisionAssumption`, `OnRampAssumption`, `OffRampAssumption`, `RouterAssumption`,
`AffiliateAssumption`, `TokenFactoryAssumption`, `LaunchpadAssumption`, `WalletsAssumption`),
which say what the constructors check or what kind a constant is.

Every invariant and every action property that a passing run checks is a theorem; so is the type invariant of each module.

**Amounts** has no state. `DivNat` says what `\div` does, `ShareBound`, `ShareWhole` and `ShareRest` what a pro-rata
share leaves. The other half is about `SumFunction`, a fold: its value after one amount changed (`SumUpdate`), of a pointwise
sum (`SumAdd`), of parts that do not overlap (`SumParts`), of amounts that are pointwise within a factor (`SumScaled`). The
library's induction theorems take a predicate as a parameter, which the provers cannot instantiate; here induction is stated
of sets instead: a set of naturals that holds 0 and with n also n + 1 (`NatSteps`, from the well-foundedness
of `<`), and a set of subsets that holds the empty one and each whose parts with one member less it holds (`SubsetSteps`). The
inductive hypothesis is then membership in a set, which is first-order. `IterParts` builds the function the fold
defines size by size, because nothing else says that a recursive function definition over subsets has a solution.

**LaunchInstanceProofs**: type correctness, `EscrowCovers`, `LedgerMatches`, `WalletCap`, `EntitlementsWhole`, `TokensBacked`,
`CurveBacked`, `OutcomeJustified`, `ListedAtCurvePrice`. `EscrowCovers` is not
inductive alone: activation would open a launch that had raised something. `IInv` adds
`NothingRaisedYet`, the types, and the other two. The work is arithmetic: `FeeOvershoot` (a purchase costs at
most one unit more than its input), `AffordableCost` (the bisection returns an amount whose cost is within the
budget, whatever the curve), `LpBound` (the pool's tokens fit in what is left), `ListingPrice` (what goes to the pool,
priced by the curve at the end). `StepOutcome` sorts the steps by what they do to the launch's state: only a
graduation, a refund decision or the deadline changes it, and each under its condition. `SaleMoves` sorts them by what they do
to the accounts: a purchase of n tokens at the curve's cost (`Bought`), a pro-rata return (`Returned`), or nothing;
`LedgerMatches`, `EntitlementsWhole` and `CurveBacked` follow from those two.

`EntitlementsWhole` speaks of steps, because the balance of a wallet's tokens and payments has two sides. That no payment
is left without tokens holds in every state (`LaunchNothingStranded`). That no tokens are left without a payment is so after
every refund: a part of the tokens takes less than the whole payment with it (`ShareWhole`). It need not be so after a purchase: the
contract has a minimum for what a buyer brings and none for what a token costs, so on a cheap curve the price of a
few units may round to zero, and there is nothing to return them for.

`CurveBacked` says that those who stay have paid for the tokens they hold, however the others left. It is far from
inductive: who leaves may have bought cheaper or dearer than the end of the curve. `SharesBacked` is: if
every buyer b kept a share w[b]/D of his tokens and payment, for any w and D, the payments kept would pay for the tokens
kept. A purchase preserves it because a linear curve is convex (`PurchasePays`: any share of the new tokens would have cost less
lower on the curve), a refund because it only scales one buyer's share and rounds in favour of those who stay
(`SharePays`). The bound is two units per purchase because `linearCost` rounds twice: with purchases of 1, 1 and 2 tokens at
`PRECISION` 4, slope 5 and intercept 3 the difference is four units, more than one for each. The property speaks of linear
curves because Simpson's rule prices a long span of the exponential curve higher than its parts, by some percent and
not by rounding.

**TradeRouterProofs**: types, `Solvent`, `EscrowLedger`, `PendingIndexed`, `AdminsIndexed`, `PaidAsQuoted`,
`RefundableNeverConfirmed` and the refinement `EscrowKept`. The
invariant is grouped by variables: settings, registry of administrators, requests and their queue,
money, used references. `SwapPopIndexed` is stated once for any array with an index and used for ids and
administrators; its hypothesis that the removed element is a member is what the contract's status check and
`isAdmin` check provide, since the mapping's default 0 is also a valid index. `Solvent` needs that the amount of every
pending request is at most `totalEscrow`; from that the refinement follows step by step. `EscrowLedger`, that `totalEscrow` is the sum
over the pending requests, is carried along the same moves with `SumUpdate`. `RequestMoves` says that a step
opens one request, settles one, or leaves all alone; what a settled one pays is then compared with what it was
quoted when it was opened (`QuotesKept`).

**OnRampProofs**: types, `PaidAtMostOnce`, `PaidForPayment`, `DeliveredIsPaid`, `PaidToSigner`,
`ReceiverFixed`,
`OneDeliverer`. `OneSigner` says that at most one POST is past the provider's registration and that only that one
can still write the receiver; `Working`, that workers and their transactions hold that receiver;
`PaidFirst`, that a row a worker holds has been paid with the right amount; `Confirmed` and `RefMarked`, that
a receipt means an accepted transaction and that the chain has then marked the reference. `OneDeliverer` is the
consequence of counting: `Claims` says that handlers past the compare-and-swap, webhook calls that have read the row,
and a row in `payment_received` are together never more than the webhook calls that may overlap. A webhook call makes
its claim only on a pending row, when there is none, a flip passes the row's claim to a worker, and no other step
adds one.

**OffRampProofs**: types, `FiatAtMostOnce`, `FiatOnlyIfConfirmed`, `RowIsTrue`. The argument is that the
router takes a request out of Pending once, and a call pays only after the receipt of its own
confirmation (`OnePayer`); no lock of the daemon takes part in it, so it holds with the page's button, expired keys
and lost answers. `Knows` says what a paying call may rely on (no transfer before the provider is called; after a
refusal none either, unless the request is `denied`; one after a success; not flagged), and keeps the row and the bank in step (`Ledger`).

**LaunchpadProofs**: types, `OneLiveLaunch`, `TermsKept`, `GraduatedTrades`, `CeilingFinal`. The inductive
invariant `LInv` adds to them: a registration names a launch of that token (`Registered`), launches are of tokens
that exist (`LaunchesExist`), only a meddled token has a person among its launchers (`NoPerson`), an active launch is
still authorised by its token unless that is meddled (`Welcome`), and a token that trades is locked, and one that is
locked is within its ceiling (`AllSane`). The lemmas go by what a step may change:
one token (`TokenStep`), one launch (`LaunchStep`), a new launch (`NewLaunch`), neither (`QuietStep`); every action is
one of these.

**TokenFactoryProofs**: types of both contracts, `AffiliateSolvent`, `BindingsCounted`, `BindingsStay`, `RewardsBacked`,
`PartnerPools`, `NoSelfReward`.

- *Affiliate.* `AInv` is the type, `held >= totalPending`, `totalPending` as the sum of what is promised, and
  `BindingsCounted`, which needs cardinalities of the set of users bound to a referrer before and after a binding (`BindStep`).
- *Money.* `FInv` adds to it that the promised rewards add up to `totalPendingRewards`, that the percents are within
  half of the fee, and that the purse covers the promises or the owner is `excused`. The step that matters is a creation:
  the rewards of one fee, each rounded down and dealt out by level to users who may occur in several levels, are in
  all at most the fee (`RewardsBounded`, from `SumParts`), and what the Affiliate pulls is counted by `excused`.
- *Base list.* `TInv` adds that the list of default bases has no repetitions and `isDefaultBase` is its range, which
  the removal by a swap keeps; `_sanitizeBases()` returns each base once (`DistinctList`, by ranks: `Ranked`).
- *Rings.* `NoRing` says that nobody is met again within `MinWalk` links. A creation keeps it: a ring of at most that many links
  that uses the new one can be turned to begin at the creator (`RingTurned`); the rest of it leads from the proposed referrer back to
  the creator along links that were there before, and the walk of the check, no shorter, would have met him (`RecordStep`).
  The levels paid are no more than `MinWalk`, so none of them is the creator (`NothingToCreator`).

`TokenFactoryAssumption` also says that the first percents (one and one of `Bps`) are at most half of the fee, as the
constructor's are and as `setReferralPercents` requires of later ones, and that at least one level may be set.

**WalletsProofs**: types, `AtMostOnePrimary`, `NoResurrection`, `RotationHolds`, `SignerKept`. That a rotation holds is not
inductive; `RotatedSoFar` says it of the rows already written, at every moment of the rotation. `SignerKept` holds
over any number of handlers that meet, and `SInv` says why: unless `lapsed`, no promotion is under way beside a deletion of the same
wallet (`Apart`), what the handlers have read still holds as far as the primary hangs on it (`Ready`: the wallet to be
promoted is there, the wallet to be deleted is an issued one that is not the primary, an insert of no primary is not the
first), and the primary is missing only while an insert that brings one is under way (`SignedOrSigning`).

Only model-checked: liveness (`ExpiredResolves`, `Settled`, `Recorded`, `Attended`), which needs ENABLED and is out of TLAPS's
reach. The specifications have no recursive operators; recursion is by functions and folds.

## 6. Not modelled, and why

- In LaunchInstance: `recoverETH` and read-only history. In TradeRouter: pass-through swaps, which leave no
  state behind, the BNB balance, and the per-user index that only views read.
- In the on-ramp: the arithmetic of the quote, alerts, the history endpoint. A refused BNB drip reverts the
  delivery it rides on although `TradeRouter.sol:769-771` says otherwise; the model has no BNB.
- In the off-ramp: NGN arithmetic, gas checks, alerts, nonces, the 200-request page of the poll, `verify` with a settled
  status and `sync-status` by row id (nobody sends either), and the transfer webhook, whose pattern
  `TKR-<chain>-<id>` matches no reference `process` gives. Statuses `expired` and `refunded`, and
  `failed` of a withdrawal, are therefore never written.
- In the token factory: clone addresses, implementations, daily statistics and lifetime counters; one fee stands
  for the eight. In the launchpad: launch fees, curve defaults, pausing by index, liquidity, swaps of the router, and
  whether the transfer into the pool succeeds at graduation (a revoked exemption can block it).
- Of the tokens: transfers with limits, cooldown, blacklist, pools, tax distribution and `holderCount`. The last is
  decremented unchecked (`BasicToken.sol:395`) and only displayed.
- Of the wallets: encryption, recovery blobs, names and preferences.
- The event indexer's token and launch tables: each event is one idempotent upsert from the chain, without a
  decision that depends on an earlier one.
- Rows written by hand in the database, and redis losing its keys other than by expiry.
- Pages, translations, charts, lenses, jobs and scripts: presentation, read-only calls or overwritten caches. They are most
  of the repository's lines (the translations and the launch and token pages alone are tens of thousands), which
  is why the modelled share of all lines is small although the parts with state of consequence are modelled.

## 7. Plan

Done: the launch, the escrow router with its abstract vault, both fiat bridges, the referral ledgers with token creation, the launches of a
token across registry, token controls and router, and the embedded wallets, each with its theorems.

Left, in this order:

1. `FiatBridge`: OnRamp and OffRamp over one TradeRouter reserve, with several requests and several intents.
2. Transfers of the tokens: pool locks, limits and taxes as guards of a transfer, with the holder count, and what they do to graduation.
3. Proofs: a refinement of an abstract payout by OffRamp, and `CurveBacked` for the quadratic curve.
4. A rotation that is atomic, as an abstract specification, and the conditions under which `Wallets` implements it.
