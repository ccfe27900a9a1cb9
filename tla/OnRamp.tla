------------------------------- MODULE OnRamp -------------------------------
(***************************************************************************)
(* The fiat on-ramp: one intent, from its quote to the USDT delivery.      *)
(*                                                                         *)
(* The intent is a database row which five kinds of handler read and write *)
(* in separate steps: the signer's POST, the canceller's DELETE, the bank  *)
(* provider's webhook, the delivery daemon's poll, and the deliver handler *)
(* that poll calls.  Every await of a handler ends one of its steps, and   *)
(* what it read before is kept in posts, cancels, hooks, pc and to.  The   *)
(* chain is the list of transactions sent for the intent's reference.      *)
(*                                                                         *)
(* A worker is one pass of the daemon over the row together with the       *)
(* deliver handler it calls; passes overlap, for setInterval() starts a    *)
(* new one although the last has not ended.  Foo_Slip beside Foo is a      *)
(* plausible slip in Foo.                                                  *)
(***************************************************************************)
EXTENDS Naturals, FiniteSets, Sequences

CONSTANTS
    Signers,            \* wallets that sign and submit the quoted intent
    Cancellers,         \* concurrent DELETE calls
    Payments,           \* bank transfers into the virtual account
    Right,              \* those whose amount is within the tolerance
    Hooks,              \* concurrent webhook calls
    Workers,            \* concurrent passes of the delivery daemon
    None,               \* the null of the row's columns
    MaxTx,              \* bound on the transactions sent
    MaxFaults,          \* bound on RPC errors and drained reserves
    MaxCrashes          \* bound on handlers and daemons that die

ASSUME OnRampAssumption ==
    /\ None \notin Signers \cup Payments /\ Right \subseteq Payments
    /\ IsFiniteSet(Hooks) /\ IsFiniteSet(Workers)
    /\ MaxTx \in Nat /\ MaxFaults \in Nat /\ MaxCrashes \in Nat

VARIABLES
    status, receiver, flutterwave_tx_id,      \* the row of onramp_intents
    expired,            \* the quote's expires_at has passed
    customer,           \* the provider has the reference's customer record
    posts,              \* where each signer's POST is
    cancels,            \* the DELETE calls that have passed their check
    paid,               \* the payments made
    hooks,              \* the payment each webhook call is about to record
    pc, to, tx,         \* where each worker is, the receiver it read, its transaction
    lock,               \* the redis key onramp:processing:<reference> exists
    txs,                \* the onramp() transactions sent
    onrampRefUsed,      \* the router's mapping, at this reference
    funded,             \* the router's free reserve covers the amount
    faults, crashes

row == <<status, receiver, flutterwave_tx_id>>
bank == <<customer, paid>>
chain == <<txs, onrampRefUsed, funded>>
daemon == <<pc, to, tx, lock>>
spent == <<faults, crashes>>
vars == <<row, expired, posts, cancels, bank, hooks, daemon, chain, spent>>

OnrampStatus == {"quoted", "pending_payment", "payment_received", "delivering", "delivered",
                 "expired", "failed", "cancelled", "refunded"}
Phases == {"idle", "listed", "locked", "read", "flipped", "unused", "covered", "sent", "mined",
           "failing", "retrying", "done"}
Tx == [to : Signers, state : {"pending", "ok", "reverted"}]

TypeOK ==
    /\ status \in OnrampStatus /\ receiver \in Signers \cup {None}
    /\ flutterwave_tx_id \in Payments \cup {None}
    /\ expired \in BOOLEAN /\ customer \in BOOLEAN
    /\ posts \in [Signers -> {"none", "checked", "customer", "account", "done"}]
    /\ cancels \subseteq Cancellers /\ paid \subseteq Payments
    /\ hooks \in [Hooks -> Payments \cup {None}]
    /\ pc \in [Workers -> Phases] /\ to \in [Workers -> Signers \cup {None}]
    /\ tx \in [Workers -> 0 .. MaxTx] /\ lock \in BOOLEAN
    /\ txs \in Seq(Tx) /\ onrampRefUsed \in BOOLEAN /\ funded \in BOOLEAN
    /\ faults \in 0 .. MaxFaults /\ crashes \in 0 .. MaxCrashes

\* The quote endpoint has inserted the row.
Init ==
    /\ status = "quoted" /\ receiver = None /\ flutterwave_tx_id = None
    /\ expired = FALSE /\ customer = FALSE
    /\ posts = [s \in Signers |-> "none"]
    /\ cancels = {} /\ paid = {}
    /\ hooks = [h \in Hooks |-> None]
    /\ pc = [w \in Workers |-> "idle"] /\ to = [w \in Workers |-> None]
    /\ tx = [w \in Workers |-> 0] /\ lock = FALSE
    /\ txs = <<>> /\ onrampRefUsed = FALSE /\ funded = TRUE
    /\ faults = 0 /\ crashes = 0

-----------------------------------------------------------------------------
(* POST /api/onramp/intent, in the order of its awaits.                    *)

Expire ==
    /\ ~expired /\ expired' = TRUE
    /\ UNCHANGED <<row, posts, cancels, bank, hooks, daemon, chain, spent>>

PostRead(s) ==
    /\ posts[s] = "none"
    /\ status = "quoted" /\ ~expired
    /\ posts' = [posts EXCEPT ![s] = "checked"]
    /\ UNCHANGED <<row, expired, cancels, bank, hooks, daemon, chain, spent>>

\* The e-mail is made from the reference, and the provider refuses it twice; the
\* slip makes it anew for each attempt.
emailTaken_PerAttempt == FALSE
emailTaken == customer

PostCustomer(s) ==
    /\ posts[s] = "checked"
    /\ \/ /\ ~emailTaken /\ customer' = TRUE
          /\ posts' = [posts EXCEPT ![s] = "customer"]
       \/ /\ posts' = [posts EXCEPT ![s] = "none"]
          /\ UNCHANGED customer
    /\ UNCHANGED <<row, expired, cancels, paid, hooks, daemon, chain, spent>>

PostAccount(s) ==
    /\ posts[s] = "customer"
    /\ \E outcome \in {"account", "none"} : posts' = [posts EXCEPT ![s] = outcome]
    /\ UNCHANGED <<row, expired, cancels, bank, hooks, daemon, chain, spent>>

\* The update names the reference alone: whatever the status has become.
PostWrite(s) ==
    /\ posts[s] = "account"
    /\ posts' = [posts EXCEPT ![s] = "done"]
    /\ receiver' = s /\ status' = "pending_payment"
    /\ UNCHANGED <<flutterwave_tx_id, expired, cancels, bank, hooks, daemon, chain, spent>>

-----------------------------------------------------------------------------
(* DELETE /api/onramp/intent/:ref                                          *)

CancelRead(c) ==
    /\ c \notin cancels
    /\ status \in {"quoted", "pending_payment"}
    /\ cancels' = cancels \cup {c}
    /\ UNCHANGED <<row, expired, posts, bank, hooks, daemon, chain, spent>>

CancelWrite(c) ==
    /\ c \in cancels
    /\ cancels' = cancels \ {c}
    /\ status' = "cancelled"
    /\ UNCHANGED <<receiver, flutterwave_tx_id, expired, posts, bank, hooks, daemon, chain, spent>>

-----------------------------------------------------------------------------
(* The bank transfer, and POST /api/webhooks/flutterwave/onramp.           *)

\* The bank details are shown when a POST has returned.
Pay(p) ==
    /\ p \notin paid
    /\ \E s \in Signers : posts[s] = "done"
    /\ paid' = paid \cup {p}
    /\ UNCHANGED <<row, expired, posts, cancels, customer, hooks, daemon, chain, spent>>

\* A webhook the handler ignores changes nothing and is no step.
HookRead(h, p) ==
    /\ hooks[h] = None /\ p \in paid
    /\ flutterwave_tx_id # p /\ status = "pending_payment"
    /\ hooks' = [hooks EXCEPT ![h] = p]
    /\ UNCHANGED <<row, expired, posts, cancels, bank, daemon, chain, spent>>

amountMatches_Any(p) == p \in Payments
amountMatches(p) == p \in Right

HookWrite(h) ==
    /\ hooks[h] # None
    /\ status' = IF amountMatches(hooks[h]) THEN "payment_received" ELSE "failed"
    /\ flutterwave_tx_id' = hooks[h]
    /\ hooks' = [hooks EXCEPT ![h] = None]
    /\ UNCHANGED <<receiver, expired, posts, cancels, bank, daemon, chain, spent>>

-----------------------------------------------------------------------------
(* The daemon: one poll pass over the row.                                 *)

goto(w, phase) == pc' = [pc EXCEPT ![w] = phase]

\* fetchPending(): the rows in payment_received.
Poll(w) ==
    /\ pc[w] = "idle" /\ status = "payment_received"
    /\ goto(w, "listed")
    /\ UNCHANGED <<row, expired, posts, cancels, bank, hooks, to, tx, lock, chain, spent>>

tryAcquireLock(w) ==
    /\ pc[w] = "listed"
    /\ goto(w, IF lock THEN "idle" ELSE "locked")
    /\ lock' = TRUE
    /\ UNCHANGED <<row, expired, posts, cancels, bank, hooks, to, tx, chain, spent>>

LockExpire ==
    /\ lock /\ lock' = FALSE
    /\ UNCHANGED <<row, expired, posts, cancels, bank, hooks, pc, to, tx, chain, spent>>

\* The finally clause deletes the key, whoever holds it by now.
releaseLock(w) ==
    /\ pc[w] = "done"
    /\ goto(w, "idle") /\ to' = [to EXCEPT ![w] = None] /\ tx' = [tx EXCEPT ![w] = 0]
    /\ lock' = FALSE
    /\ UNCHANGED <<row, expired, posts, cancels, bank, hooks, chain, spent>>

-----------------------------------------------------------------------------
(* POST /api/onramp/deliver                                                *)

DeliverRead(w) ==
    /\ pc[w] = "locked"
    /\ IF status = "payment_received" /\ receiver # None
       THEN goto(w, "read") /\ to' = [to EXCEPT ![w] = receiver]
       ELSE goto(w, "done") /\ UNCHANGED to
    /\ UNCHANGED <<row, expired, posts, cancels, bank, hooks, tx, lock, chain, spent>>

mayFlip_Any == TRUE
mayFlip == status = "payment_received"

\* The compare-and-swap from payment_received to delivering.
Flip(w) ==
    /\ pc[w] = "read"
    /\ IF mayFlip
       THEN goto(w, "flipped") /\ status' = "delivering"
       ELSE goto(w, "done") /\ UNCHANGED status
    /\ UNCHANGED <<receiver, flutterwave_tx_id, expired, posts, cancels, bank, hooks, to, tx, lock,
                   chain, spent>>

CheckRef(w) ==
    /\ pc[w] = "flipped"
    /\ goto(w, IF onrampRefUsed THEN "failing" ELSE "unused")
    /\ UNCHANGED <<row, expired, posts, cancels, bank, hooks, to, tx, lock, chain, spent>>

afterShortfall_Done == "done"
afterShortfall == "retrying"

CheckReserve(w) ==
    /\ pc[w] = "unused"
    /\ goto(w, IF funded THEN "covered" ELSE afterShortfall)
    /\ UNCHANGED <<row, expired, posts, cancels, bank, hooks, to, tx, lock, chain, spent>>

\* How a failed onramp() call is classified hangs on the words of its message,
\* which quotes the call's own data: either way.
Verdicts == {"failing", "retrying"}

\* What the contract requires of the transaction.
accepted_NoRefCheck == funded
accepted == ~onrampRefUsed /\ funded

afterSend_Delivered == "mined"
afterSend == "sent"

broadcast(w) ==
    /\ Len(txs) < MaxTx
    /\ txs' = Append(txs, [to |-> to[w], state |-> "pending"])

\* estimateGas() runs the call; if it reverts, nothing is sent.
Send(w) ==
    /\ pc[w] = "covered"
    /\ \/ /\ accepted /\ broadcast(w)
          /\ goto(w, afterSend) /\ tx' = [tx EXCEPT ![w] = Len(txs) + 1]
       \/ /\ ~accepted
          /\ \E v \in Verdicts : goto(w, v)
          /\ UNCHANGED <<txs, tx>>
    /\ UNCHANGED <<row, expired, posts, cancels, bank, hooks, to, lock, onrampRefUsed, funded,
                   spent>>

\* tx.wait() returns the receipt, or throws if the transaction reverted.
Wait(w) ==
    /\ pc[w] = "sent"
    /\ \/ txs[tx[w]].state = "ok" /\ goto(w, "mined")
       \/ txs[tx[w]].state = "reverted" /\ \E v \in Verdicts : goto(w, v)
    /\ UNCHANGED <<row, expired, posts, cancels, bank, hooks, to, tx, lock, chain, spent>>

\* An RPC or configuration call fails.  A lost answer to the broadcast leaves a
\* transaction behind that no worker waits for.
CallFails(w) ==
    /\ faults < MaxFaults /\ faults' = faults + 1
    /\ \/ /\ pc[w] \in {"flipped", "covered", "sent"}
          /\ \E v \in Verdicts : goto(w, v)
          /\ UNCHANGED txs
       \/ pc[w] = "unused" /\ goto(w, "retrying") /\ UNCHANGED txs
       \/ /\ pc[w] = "covered" /\ accepted /\ broadcast(w)
          /\ \E v \in Verdicts : goto(w, v)
    /\ UNCHANGED <<row, expired, posts, cancels, bank, hooks, to, tx, lock, onrampRefUsed, funded,
                   crashes>>

setStatus(w, phase, new) ==
    /\ pc[w] = phase /\ goto(w, "done")
    /\ status' = new
    /\ UNCHANGED <<receiver, flutterwave_tx_id, expired, posts, cancels, bank, hooks, to, tx, lock,
                   chain, spent>>

markDelivered(w) == setStatus(w, "mined", "delivered")
markFailed(w) == setStatus(w, "failing", "failed")
rollbackToPaid(w) ==
    setStatus(w, "retrying", IF status = "delivering" THEN "payment_received" ELSE status)

-----------------------------------------------------------------------------
(* TradeRouter.onramp() being mined, and the reserve.                      *)

Mine(t) ==
    /\ t \in DOMAIN txs /\ txs[t].state = "pending"
    /\ txs' = [txs EXCEPT ![t].state = IF accepted THEN "ok" ELSE "reverted"]
    /\ onrampRefUsed' = (onrampRefUsed \/ accepted)
    /\ UNCHANGED <<row, expired, posts, cancels, bank, hooks, daemon, funded, spent>>

\* Other deliveries and withdrawals use the reserve up; the owner refills it.
Drain ==
    /\ funded /\ funded' = FALSE
    /\ faults < MaxFaults /\ faults' = faults + 1
    /\ UNCHANGED <<row, expired, posts, cancels, bank, hooks, daemon, txs, onrampRefUsed, crashes>>

TopUp ==
    /\ ~funded /\ funded' = TRUE
    /\ UNCHANGED <<row, expired, posts, cancels, bank, hooks, daemon, txs, onrampRefUsed, spent>>

-----------------------------------------------------------------------------
(* Handlers and daemons that stop.                                         *)

\* The deliver handler is cut off, has no ADMIN_KEY, or loses its last update,
\* which it does not check: the row stays in delivering.
BackendStops(w) ==
    /\ crashes < MaxCrashes /\ crashes' = crashes + 1
    /\ pc[w] \in Phases \ {"idle", "listed", "done"}
    /\ goto(w, "done")
    /\ UNCHANGED <<row, expired, posts, cancels, bank, hooks, to, tx, lock, chain, faults>>

\* The daemon dies with the key set.  A deliver handler it has called goes on.
DaemonStops(w) ==
    /\ crashes < MaxCrashes /\ crashes' = crashes + 1
    /\ pc[w] \in {"listed", "locked", "done"}
    /\ goto(w, "idle") /\ to' = [to EXCEPT ![w] = None] /\ tx' = [tx EXCEPT ![w] = 0]
    /\ UNCHANGED <<row, expired, posts, cancels, bank, hooks, lock, chain, faults>>

-----------------------------------------------------------------------------

Post(s) == PostRead(s) \/ PostCustomer(s) \/ PostAccount(s) \/ PostWrite(s)
Cancel(c) == CancelRead(c) \/ CancelWrite(c)
Hook(h) == (\E p \in Payments : HookRead(h, p)) \/ HookWrite(h)

Daemon(w) == Poll(w) \/ tryAcquireLock(w) \/ releaseLock(w)
Deliver(w) ==
    \/ DeliverRead(w) \/ Flip(w) \/ CheckRef(w) \/ CheckReserve(w) \/ Send(w) \/ Wait(w)
    \/ markDelivered(w) \/ markFailed(w) \/ rollbackToPaid(w)
Worker(w) == Daemon(w) \/ Deliver(w)

Next ==
    \/ Expire \/ LockExpire \/ Drain \/ TopUp
    \/ \E s \in Signers : Post(s)
    \/ \E c \in Cancellers : Cancel(c)
    \/ \E p \in Payments : Pay(p)
    \/ \E h \in Hooks : Hook(h)
    \/ \E w \in Workers : Worker(w) \/ CallFails(w) \/ BackendStops(w) \/ DaemonStops(w)
    \/ \E t \in 1 .. MaxTx : Mine(t)

Spec == Init /\ [][Next]_vars

\* setInterval() polls for ever, a handler that has started runs on, the key
\* has a lifetime, the chain mines, and the owner answers the alert.
Fairness ==
    /\ \A h \in Hooks : WF_vars(Hook(h))
    /\ \A w \in Workers : WF_vars(Worker(w))
    /\ \A t \in 1 .. MaxTx : WF_vars(Mine(t))
    /\ WF_vars(LockExpire) /\ WF_vars(TopUp)

FairSpec == Spec /\ Fairness

-----------------------------------------------------------------------------
(* What must hold.                                                         *)

Settled(t) == txs[t].state = "ok"

\* A reference is paid out at most once, however many workers send for it:
\* deliver's comment says that the contract guarantees what the database lock
\* cannot (deliver/+server.ts:22-24).
PaidAtMostOnce == \A t, u \in DOMAIN txs : Settled(t) /\ Settled(u) => t = u

\* USDT is sent only after a transfer of the right amount was made: no handler
\* order gets a row to a worker past the webhook's amount check.
PaidForPayment == txs # <<>> => paid \cap Right # {}

\* A row that says delivered has been: the contract has paid its reference.
DeliveredIsPaid == status = "delivered" => \E t \in DOMAIN txs : Settled(t)

\* The receiver of a row is never replaced, and every transaction goes to it
\* ("The receiver cannot be redirected after this point", intent/+server.ts:6-8).
\* The update of a second POST would replace it; only the provider's refusal
\* of a second customer for the reference keeps that POST from getting there.
PaidToSigner == \A t \in DOMAIN txs : txs[t].to = receiver
ReceiverFixed == [][receiver # None => receiver' = receiver]_receiver

\* However many passes overlap and redis keys expire under them, no more deliver
\* handlers are past their compare-and-swap ("Prevents two concurrent daemon polls
\* from both firing the tx", deliver/+server.ts:88) than webhook calls may overlap:
\* the write of a call that has read pending_payment puts a row back that is already
\* delivering, and so starts one more.
delivering(w) == pc[w] \in {"flipped", "unused", "covered", "sent", "mined", "failing", "retrying"}
OneDeliverer == Cardinality({w \in Workers : delivering(w)}) <= Cardinality(Hooks)

\* A recorded payment is delivered or handed to an operator, as long as no
\* handler is cut off ("Daemon retries naturally via the next poll cycle if
\* anything fails", onramp-delivery.ts:16).
Resolves == status = "payment_received" ~> status \in {"delivered", "failed"}

\* A payment that was made and matches is delivered or handed to an operator,
\* by the webhook's retries and the daemon's, unless the intent is cancelled or
\* a handler is cut off.
Recorded ==
    \A p \in Right : p \in paid ~> \/ status \in {"delivered", "failed", "cancelled"}
                                  \/ crashes > 0
=============================================================================
