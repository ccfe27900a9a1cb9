------------------------------ MODULE OffRamp -------------------------------
(***************************************************************************)
(* The fiat off-ramp: withdrawals from their escrow in TradeRouter to the  *)
(* bank transfer that answers them.                                        *)
(*                                                                         *)
(* A request is a row of withdrawal_requests and the router's request that *)
(* carries the row's hash as bankRef; the router refuses a bankRef twice,  *)
(* so the two stand in one-to-one.  A call is one run of the process       *)
(* handler, with the daemon that made it or from the administrator's page: *)
(* every await ends a step, and what it read is kept in at.  The daemon's  *)
(* calls wait in the promise chain of their blockchain (queue) and hold a  *)
(* redis key; the administrator's do neither.  The router is seen through  *)
(* the statuses TradeRouter.tla gives it.  Foo_Slip beside Foo is a        *)
(* plausible slip in Foo.                                                  *)
(***************************************************************************)
EXTENDS Naturals, Sequences

CONSTANTS
    Requests,           \* rows, and with each the router's request
    chainOf,            \* the blockchain of a request
    Verifiers,          \* concurrent verify calls: the page's, the indexer's
    Calls,              \* concurrent runs of the process handler
    None,               \* no request
    MaxFloat,           \* bound on the provider balance, in payouts
    MaxFaults,          \* bound on failing calls and lost answers
    MaxCrashes          \* bound on handlers and daemons that die

ASSUME OffRampAssumption ==
    /\ None \notin Requests /\ DOMAIN chainOf = Requests
    /\ MaxFloat \in Nat \ {0} /\ MaxFaults \in Nat /\ MaxCrashes \in Nat

VARIABLES
    row, linked, flagged,       \* status, withdraw_id is set, admin_note asks for an operator
    onchain, expired,           \* the router's status; block.timestamp >= expiresAt
    byHand,                     \* confirmed from the administrator's own wallet
    orphans,                    \* confirm transactions under way that no call waits for
    verifies,                   \* verify calls between their read and their write
    at, req,                    \* where each call is, and for which request
    queue,                      \* chainAdminMutex, of each chain
    key,                        \* the redis key processing:<chain>:<id> exists
    float, fiat,                \* provider balance in payouts, transfers made
    denied,                     \* history: requests whose transfer, made, was answered as failed
    faults, crashes

table == <<row, linked, flagged>>
router == <<onchain, expired, byHand>>
daemon == <<queue, key>>
bank == <<float, fiat, denied>>
spent == <<faults, crashes>>
vars == <<table, router, orphans, verifies, at, req, daemon, bank, spent>>

Status == {"none", "awaiting_trade", "pending", "confirmed", "processing", "cancelled"}
WithdrawStatus == {"none", "Pending", "Confirmed", "Cancelled"}
\* The process handler, from its start to the answer it is about to give.
Handling == {"called", "read", "matched", "funded", "sent", "confirmed", "recorded", "unpaid",
             "paid", "done"}
Phases == {"idle", "queued"} \cup Handling
Chains == {chainOf[r] : r \in Requests}

TypeOK ==
    /\ row \in [Requests -> Status]
    /\ linked \in [Requests -> BOOLEAN] /\ flagged \in [Requests -> BOOLEAN]
    /\ onchain \in [Requests -> WithdrawStatus] /\ expired \in [Requests -> BOOLEAN]
    /\ byHand \subseteq Requests /\ orphans \subseteq Requests
    /\ verifies \subseteq Verifiers \X Requests
    /\ at \in [Calls -> Phases] /\ req \in [Calls -> Requests \cup {None}]
    /\ queue \in [Chains -> Seq(Calls)] /\ key \in [Requests -> BOOLEAN]
    /\ float \in 0 .. MaxFloat /\ fiat \in [Requests -> Nat] /\ denied \subseteq Requests
    /\ faults \in 0 .. MaxFaults /\ crashes \in 0 .. MaxCrashes

Init ==
    /\ row = [r \in Requests |-> "none"]
    /\ linked = [r \in Requests |-> FALSE] /\ flagged = [r \in Requests |-> FALSE]
    /\ onchain = [r \in Requests |-> "none"] /\ expired = [r \in Requests |-> FALSE]
    /\ byHand = {} /\ orphans = {} /\ verifies = {}
    /\ at = [w \in Calls |-> "idle"] /\ req = [w \in Calls |-> None]
    /\ queue = [c \in Chains |-> <<>>] /\ key = [r \in Requests |-> FALSE]
    /\ float = MaxFloat /\ fiat = [r \in Requests |-> 0] /\ denied = {}
    /\ faults = 0 /\ crashes = 0

-----------------------------------------------------------------------------
(* The trader: the row first, then the deposit; after expiry, the refund.  *)

POST(r) ==
    /\ row[r] = "none"
    /\ row' = [row EXCEPT ![r] = "awaiting_trade"]
    /\ UNCHANGED <<linked, flagged, router, orphans, verifies, at, req, daemon, bank, spent>>

WithdrawRequested(r) ==
    /\ row[r] # "none" /\ onchain[r] = "none"
    /\ onchain' = [onchain EXCEPT ![r] = "Pending"]
    /\ UNCHANGED <<table, expired, byHand, orphans, verifies, at, req, daemon, bank, spent>>

Expire(r) ==
    /\ onchain[r] = "Pending" /\ ~expired[r]
    /\ expired' = [expired EXCEPT ![r] = TRUE]
    /\ UNCHANGED <<table, onchain, byHand, orphans, verifies, at, req, daemon, bank, spent>>

\* cancel() by the user, refund() by an administrator.
WithdrawCancelled(r) ==
    /\ onchain[r] = "Pending" /\ expired[r]
    /\ onchain' = [onchain EXCEPT ![r] = "Cancelled"]
    /\ UNCHANGED <<table, expired, byHand, orphans, verifies, at, req, daemon, bank, spent>>

-----------------------------------------------------------------------------
(* The row's other writers.                                                *)

\* matchAndUpdate(): the read of the awaiting rows...
VerifyRead(v, r) ==
    /\ onchain[r] # "none" /\ row[r] = "awaiting_trade"
    /\ <<v, r>> \notin verifies /\ verifies' = verifies \cup {<<v, r>>}
    /\ UNCHANGED <<table, router, orphans, at, req, daemon, bank, spent>>

\* ... and an update that names the row alone, whatever its status has become.
VerifyWrite(v, r) ==
    /\ <<v, r>> \in verifies /\ verifies' = verifies \ {<<v, r>>}
    /\ row' = [row EXCEPT ![r] = "pending"]
    /\ linked' = [linked EXCEPT ![r] = TRUE]
    /\ UNCHANGED <<flagged, router, orphans, at, req, daemon, bank, spent>>

\* The indexer's event arrives late, and again when it re-reads its blocks.  A
\* row without a withdraw_id is not found.
SyncStatus(r) ==
    /\ linked[r] /\ onchain[r] \in {"Confirmed", "Cancelled"}
    /\ row' = [row EXCEPT ![r] = IF onchain[r] = "Confirmed" THEN "confirmed" ELSE "cancelled"]
    /\ UNCHANGED <<linked, flagged, router, orphans, verifies, at, req, daemon, bank, spent>>

\* The administrator's page has it as pending, perhaps from a list loaded long
\* ago: a row is given its withdraw_id with that status.
listed(r) == linked[r]

\* executeConfirm(): the administrator's own transaction, and then the PATCH.
AdminConfirm(r) ==
    /\ listed(r) /\ onchain[r] = "Pending" /\ ~expired[r]
    /\ onchain' = [onchain EXCEPT ![r] = "Confirmed"]
    /\ byHand' = byHand \cup {r}
    /\ UNCHANGED <<table, expired, orphans, verifies, at, req, daemon, bank, spent>>

AdminPatch(r) ==
    /\ \/ r \in byHand /\ row' = [row EXCEPT ![r] = "confirmed"]
       \/ listed(r) /\ row' = [row EXCEPT ![r] = "cancelled"]
    /\ flagged' = [flagged EXCEPT ![r] = FALSE]
    /\ UNCHANGED <<linked, router, orphans, verifies, at, req, daemon, bank, spent>>

-----------------------------------------------------------------------------
(* withdrawal-processor.ts: events and polls, the mutex, the redis key.    *)

goto(w, phase) == at' = [at EXCEPT ![w] = phase]
rest == UNCHANGED <<table, router, orphans, verifies, bank, spent>>

\* The call whose turn it is; the daemon waits for its answer.
line(w) == queue[chainOf[req[w]]]
awaited(w) == line(w) # <<>> /\ Head(line(w)) = w
leaves(w) == queue' = [queue EXCEPT ![chainOf[req[w]]] = Tail(@)]

\* An event or a poll has read a pending request, its expiry and the balance.
tryProcess(w, r) ==
    /\ at[w] = "idle"
    /\ onchain[r] = "Pending" /\ ~expired[r] /\ float > 0
    /\ goto(w, "queued") /\ req' = [req EXCEPT ![w] = r]
    /\ queue' = [queue EXCEPT ![chainOf[r]] = Append(@, w)]
    /\ UNCHANGED key /\ rest

_processWithdrawalImpl(w) ==
    /\ at[w] = "queued" /\ awaited(w)
    /\ IF key[req[w]]
       THEN /\ goto(w, "idle") /\ req' = [req EXCEPT ![w] = None]
            /\ leaves(w) /\ UNCHANGED key
       ELSE /\ goto(w, "called")
            /\ key' = [key EXCEPT ![req[w]] = TRUE]
            /\ UNCHANGED <<req, queue>>
    /\ rest

lapses_Never == FALSE
lapses == TRUE

\* EX 300.
KeyExpire(r) ==
    /\ lapses
    /\ key[r] /\ key' = [key EXCEPT ![r] = FALSE]
    /\ UNCHANGED <<at, req, queue>> /\ rest

\* The answer reaches the daemon, which deletes the key, or the page.
Return(w) ==
    /\ at[w] = "done"
    /\ goto(w, "idle") /\ req' = [req EXCEPT ![w] = None]
    /\ IF awaited(w)
       THEN leaves(w) /\ key' = [key EXCEPT ![req[w]] = FALSE]
       ELSE UNCHANGED daemon
    /\ rest

\* processWithFlutterwave(): the button beside a pending row.
processWithFlutterwave(w, r) ==
    /\ at[w] = "idle" /\ listed(r)
    /\ goto(w, "called") /\ req' = [req EXCEPT ![w] = r]
    /\ UNCHANGED daemon /\ rest

-----------------------------------------------------------------------------
(* POST /api/withdrawals/process, await by await.                          *)

proceedIf(w, from, condition, phase) ==
    /\ at[w] = from /\ goto(w, IF condition THEN phase ELSE "done")
    /\ UNCHANGED <<req, daemon>> /\ rest

ReadChain(w) == proceedIf(w, "called", onchain[req[w]] = "Pending", "read")
Match(w) == proceedIf(w, "read", row[req[w]] \in {"pending", "awaiting_trade"}, "matched")
CheckBalance(w) == proceedIf(w, "matched", float > 0, "funded")

\* What _confirm() of the router requires.
confirmable_Again(r) == ~expired[r]
confirmable(r) == onchain[r] = "Pending" /\ ~expired[r]

\* estimateGas() runs the call; if it reverts, nothing is sent.
Send(w) == proceedIf(w, "funded", confirmable(req[w]), "sent")

afterRevert_Ignored == "confirmed"
afterRevert == "done"

\* The transaction is mined and tx.wait() returns, or throws if it reverted.
Wait(w) ==
    /\ at[w] = "sent"
    /\ IF confirmable(req[w])
       THEN goto(w, "confirmed") /\ onchain' = [onchain EXCEPT ![req[w]] = "Confirmed"]
       ELSE goto(w, afterRevert) /\ UNCHANGED onchain
    /\ UNCHANGED <<table, expired, byHand, orphans, verifies, req, daemon, bank, spent>>

MineOrphan(r) ==
    /\ r \in orphans /\ orphans' = orphans \ {r}
    /\ onchain' = [onchain EXCEPT ![r] = IF confirmable(r) THEN "Confirmed" ELSE @]
    /\ UNCHANGED <<table, expired, byHand, verifies, at, req, daemon, bank, spent>>

\* Each of the updates replaces the note, and with it a call for an operator.
setRow(w, from, status, note, phase) ==
    /\ at[w] = from /\ goto(w, phase)
    /\ row' = [row EXCEPT ![req[w]] = status]
    /\ flagged' = [flagged EXCEPT ![req[w]] = note]
    /\ UNCHANGED <<router, orphans, verifies, req, daemon, bank, spent>>

Record(w) ==
    /\ setRow(w, "confirmed", "confirmed", FALSE, "recorded")
    /\ linked' = [linked EXCEPT ![req[w]] = TRUE]

transfers(r) ==
    /\ float > 0 /\ float' = float - 1
    /\ fiat' = [fiat EXCEPT ![r] = @ + 1]

afterRefusal_Unchecked == "paid"
afterRefusal == "unpaid"

\* The payment server catches a connection to the provider that breaks, or an
\* answer it cannot read, and answers with an error: the transfer may be made.
errAfterTransfer(r) ==
    /\ faults < MaxFaults /\ faults' = faults + 1
    /\ transfers(r) /\ denied' = denied \cup {r}

\* The provider may refuse, for the balance or for the account; the handler does
\* not tell that from an error of the payment server.
initiateTransfer(w) ==
    /\ at[w] = "recorded"
    /\ \/ transfers(req[w]) /\ goto(w, "paid") /\ UNCHANGED <<denied, faults>>
       \/ UNCHANGED <<bank, faults>> /\ goto(w, afterRefusal)
       \/ errAfterTransfer(req[w]) /\ goto(w, afterRefusal)
    /\ UNCHANGED <<table, router, orphans, verifies, req, daemon, crashes>>

Flag(w) == setRow(w, "unpaid", "confirmed", TRUE, "done") /\ UNCHANGED linked
MarkProcessing(w) == setRow(w, "paid", "processing", FALSE, "done") /\ UNCHANGED linked

-----------------------------------------------------------------------------
(* Failures.                                                               *)

\* A call of the handler fails.  Before the broadcast, and when its answer is
\* lost, the handler gives up, and the transaction may be under way; a row
\* update that fails is not noticed; a transfer that throws may have been made.
CallFails(w) ==
    /\ faults < MaxFaults /\ faults' = faults + 1
    /\ \/ /\ at[w] \in {"called", "read", "matched", "funded"}
          /\ goto(w, "done") /\ UNCHANGED <<orphans, bank>>
       \/ /\ at[w] = "sent" \/ (at[w] = "funded" /\ confirmable(req[w]))
          /\ goto(w, "done") /\ orphans' = orphans \cup {req[w]} /\ UNCHANGED bank
       \/ at[w] = "confirmed" /\ goto(w, "recorded") /\ UNCHANGED <<orphans, bank>>
       \/ /\ at[w] = "recorded" /\ goto(w, "done") /\ UNCHANGED orphans
          /\ (transfers(req[w]) /\ UNCHANGED denied) \/ UNCHANGED bank
       \/ at[w] \in {"unpaid", "paid"} /\ goto(w, "done") /\ UNCHANGED <<orphans, bank>>
    /\ UNCHANGED <<table, router, verifies, req, daemon, crashes>>

\* The daemon's fetch throws while the handler goes on: the next one starts.
AnswerLost(w) ==
    /\ faults < MaxFaults /\ faults' = faults + 1
    /\ at[w] \in Handling /\ awaited(w)
    /\ leaves(w) /\ key' = [key EXCEPT ![req[w]] = FALSE]
    /\ UNCHANGED <<table, router, orphans, verifies, at, req, bank, crashes>>

\* A handler is cut off; what it has sent stays under way.
BackendStops(w) ==
    /\ crashes < MaxCrashes /\ crashes' = crashes + 1
    /\ at[w] \in Handling \ {"done"}
    /\ goto(w, "done")
    /\ orphans' = IF at[w] = "sent" THEN orphans \cup {req[w]} ELSE orphans
    /\ UNCHANGED <<table, router, verifies, req, daemon, bank, faults>>

\* The daemon is restarted: it forgets its queues, and redis keeps the keys.
DaemonStops ==
    /\ crashes < MaxCrashes /\ crashes' = crashes + 1
    /\ queue' = [c \in Chains |-> <<>>]
    /\ at' = [w \in Calls |-> IF at[w] = "queued" THEN "idle" ELSE at[w]]
    /\ req' = [w \in Calls |-> IF at[w] = "queued" THEN None ELSE req[w]]
    /\ UNCHANGED <<table, router, orphans, verifies, key, bank, faults>>

\* The owner answers the alert about the provider's balance.
TopUp ==
    /\ float = 0 /\ float' = MaxFloat
    /\ UNCHANGED <<table, router, orphans, verifies, at, req, daemon, fiat, denied, spent>>

-----------------------------------------------------------------------------

Process(w) ==
    \/ ReadChain(w) \/ Match(w) \/ CheckBalance(w) \/ Send(w) \/ Wait(w)
    \/ Record(w) \/ initiateTransfer(w) \/ Flag(w) \/ MarkProcessing(w)
Call(w) == _processWithdrawalImpl(w) \/ Process(w) \/ Return(w)

Trader(r) == POST(r) \/ WithdrawRequested(r) \/ Expire(r) \/ WithdrawCancelled(r)
Table(r) == SyncStatus(r) \/ AdminConfirm(r) \/ AdminPatch(r)

Next ==
    \/ \E r \in Requests : Trader(r) \/ Table(r) \/ KeyExpire(r) \/ MineOrphan(r)
    \/ \E v \in Verifiers, r \in Requests : VerifyRead(v, r) \/ VerifyWrite(v, r)
    \/ \E w \in Calls, r \in Requests : tryProcess(w, r) \/ processWithFlutterwave(w, r)
    \/ \E w \in Calls : Call(w) \/ CallFails(w) \/ AnswerLost(w) \/ BackendStops(w)
    \/ DaemonStops \/ TopUp

Spec == Init /\ [][Next]_vars

\* A call that has begun goes on, the poll comes back to every request on its
\* list, keys expire, the chain mines and the owner answers the alert.
Fairness ==
    /\ \A w \in Calls : WF_vars(Call(w))
    /\ \A r \in Requests :
        /\ SF_vars(\E w \in Calls : tryProcess(w, r))
        /\ WF_vars(KeyExpire(r)) /\ WF_vars(MineOrphan(r))
    /\ WF_vars(TopUp)

FairSpec == Spec /\ Fairness

-----------------------------------------------------------------------------
(* What must hold.                                                         *)

\* One withdrawal, at most one bank transfer, however many calls process it:
\* the page's button takes neither the mutex nor the key, a lost answer or a
\* dead daemon lets a second call in, and the key expires under the first; only
\* the router's status keeps them apart (process/+server.ts:75-79, 176-198).
FiatAtMostOnce == \A r \in Requests : fiat[r] <= 1

\* Nobody gets the money and the escrow back: a transfer is made only for a
\* request the router has confirmed, never for one it refunds.
FiatOnlyIfConfirmed == \A r \in Requests : fiat[r] > 0 => onchain[r] = "Confirmed"

\* What the table tells the operator who resolves payouts by hand is so: a row
\* says confirmed or processing only after the router did, processing only of a
\* transfer made.  And it asks for an operator ("fiat transfer FAILED ... Needs
\* manual resolution", process/+server.ts:225-235) only when no transfer was made
\* or the payment server itself answered that it had failed: no crash, retry or
\* second call flags a request that was paid.
RowIsTrue ==
    \A r \in Requests :
        /\ row[r] \in {"confirmed", "processing"} => onchain[r] = "Confirmed"
        /\ row[r] = "processing" => fiat[r] > 0
        /\ flagged[r] => onchain[r] = "Confirmed" /\ (fiat[r] = 0 \/ r \in denied)

\* A request the daemon has to serve is confirmed before it can be refunded, or
\* the administrator takes it off: no dead holder of the key or of the queue
\* keeps it waiting for ever ("catch anything WS missed", processor:12-14).
Attended ==
    \A r \in Requests :
        onchain[r] = "Pending" ~> (onchain[r] # "Pending" \/ expired[r] \/ row[r] = "cancelled")

\* A confirmed withdrawal is paid or flagged ("On-chain already confirmed but
\* fiat failed -- flag for manual resolution", process/+server.ts:226).
Answered ==
    \A r \in Requests :
        (onchain[r] = "Confirmed" /\ r \notin byHand) ~> (fiat[r] > 0 \/ flagged[r])
=============================================================================
