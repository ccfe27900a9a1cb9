---------------------------- MODULE OffRampProofs ----------------------------
(***************************************************************************)
(* Proofs about OffRamp: for any number of requests, blockchains, verify   *)
(* calls and runs of the process handler, and any number of failures.      *)
(*                                                                         *)
(* A call is paying from the receipt of its own confirmation to its last   *)
(* row update.  The router takes a request out of Pending once, so two     *)
(* calls never pay for one request; with what a paying call knows of the   *)
(* transfer (Knows) this keeps the bank and the table in step (Ledger).    *)
(***************************************************************************)
EXTENDS OffRamp, TLAPS

paying(w) == at[w] \in {"confirmed", "recorded", "unpaid", "paid"}

Addressed == \A w \in Calls : at[w] # "idle" => req[w] \in Requests

OnePayer ==
    /\ \A w \in Calls : paying(w) => onchain[req[w]] = "Confirmed"
    /\ \A v, w \in Calls : paying(v) /\ paying(w) /\ req[v] = req[w] => v = w

Knows ==
    \A w \in Calls :
        /\ at[w] \in {"confirmed", "recorded"} => fiat[req[w]] = 0
        /\ at[w] = "unpaid" => fiat[req[w]] = 0 \/ req[w] \in denied
        /\ at[w] = "paid" => fiat[req[w]] > 0
        /\ paying(w) => ~flagged[req[w]]

Ledger ==
    /\ \A r \in byHand : onchain[r] = "Confirmed"
    /\ FiatAtMostOnce /\ FiatOnlyIfConfirmed /\ RowIsTrue

IInv == TypeOK /\ Addressed /\ OnePayer /\ Knows /\ Ledger

-----------------------------------------------------------------------------

\* The invariant holds before the first request.
LEMMA InitIInv == Init => IInv
<1> SUFFICES ASSUME Init PROVE IInv
  OBVIOUS
<1>1. TypeOK
  <2>1. float \in 0 .. MaxFloat /\ faults \in 0 .. MaxFaults /\ crashes \in 0 .. MaxCrashes
    BY OffRampAssumption DEF Init
  <2>2. queue \in [Chains -> Seq(Calls)]
    <3>1. <<>> \in Seq(Calls)
      OBVIOUS
    <3>. QED
      BY <3>1 DEF Init
  <2>3. /\ linked \in [Requests -> BOOLEAN] /\ flagged \in [Requests -> BOOLEAN]
        /\ expired \in [Requests -> BOOLEAN] /\ key \in [Requests -> BOOLEAN]
    BY DEF Init
  <2>4. /\ row \in [Requests -> Status] /\ onchain \in [Requests -> WithdrawStatus]
        /\ fiat \in [Requests -> Nat] /\ denied \subseteq Requests
    BY DEF Init, Status, WithdrawStatus
  <2>5. at \in [Calls -> Phases] /\ req \in [Calls -> Requests \cup {None}]
    BY DEF Init, Phases, Handling
  <2>6. byHand \subseteq Requests /\ orphans \subseteq Requests
        /\ verifies \subseteq Verifiers \X Requests
    BY DEF Init
  <2>. QED
    BY <2>1, <2>2, <2>3, <2>4, <2>5, <2>6 DEF TypeOK
<1>2. Addressed /\ OnePayer /\ Knows
  BY DEF Init, Addressed, OnePayer, Knows, paying
<1>3. Ledger
  BY DEF Init, Ledger, FiatAtMostOnce, FiatOnlyIfConfirmed, RowIsTrue
<1>. QED
  BY <1>1, <1>2, <1>3 DEF IInv

\* The steps that can end a call's payment or begin one, and those of others.
Moves(w) ==
    \/ Wait(w) \/ Record(w) \/ initiateTransfer(w) \/ Flag(w) \/ MarkProcessing(w)
    \/ CallFails(w) \/ BackendStops(w)
Starts(w) ==
    \/ \E r \in Requests : tryProcess(w, r) \/ processWithFlutterwave(w, r)
    \/ _processWithdrawalImpl(w) \/ Return(w)
    \/ ReadChain(w) \/ Match(w) \/ CheckBalance(w) \/ Send(w)
Others ==
    \/ \E r \in Requests : Trader(r) \/ Table(r) \/ KeyExpire(r) \/ MineOrphan(r)
    \/ \E v \in Verifiers, r \in Requests : VerifyRead(v, r) \/ VerifyWrite(v, r)
    \/ \E w \in Calls : AnswerLost(w)
    \/ TopUp

LEMMA Steps == Next => (\E w \in Calls : Moves(w) \/ Starts(w)) \/ Others \/ DaemonStops
BY DEF Next, Call, Process, Moves, Starts, Others

\* Before its receipt a call changes neither the table, the router nor the bank.
LEMMA StartsQuiet ==
    ASSUME TypeOK, Addressed, NEW w \in Calls, Starts(w)
    PROVE  /\ UNCHANGED <<row, linked, flagged, onchain, expired, byHand, fiat, float, denied, orphans, verifies,
                          faults, crashes>>
           /\ at' \in [Calls -> Phases] /\ req' \in [Calls -> Requests \cup {None}]
           /\ \A v \in Calls \ {w} : at'[v] = at[v] /\ req'[v] = req[v]
           /\ at[w] \in {"idle", "queued", "called", "read", "matched", "funded", "done"}
           /\ at'[w] \in {"idle", "queued", "called", "read", "matched", "funded", "sent", "done"}
           /\ at'[w] # "idle" => req'[w] \in Requests
<1> USE DEF rest, table, router, bank, spent, daemon, goto, TypeOK, Phases, Handling
<1>1. CASE \E r \in Requests : tryProcess(w, r) \/ processWithFlutterwave(w, r)
  BY <1>1 DEF tryProcess, processWithFlutterwave
<1>2. CASE _processWithdrawalImpl(w) \/ Return(w)
  <2>1. UNCHANGED <<row, linked, flagged, onchain, expired, byHand, fiat, float, denied, orphans, verifies,
                    faults, crashes>>
    BY <1>2 DEF _processWithdrawalImpl, Return
  <2>2. at[w] \in {"queued", "done"} /\ (goto(w, "idle") \/ goto(w, "called"))
    BY <1>2 DEF _processWithdrawalImpl, Return
  <2>3. \/ goto(w, "idle") /\ req' = [req EXCEPT ![w] = None]
        \/ UNCHANGED req
    BY <1>2 DEF _processWithdrawalImpl, Return
  <2>. QED
    BY <2>1, <2>2, <2>3 DEF Addressed
<1>3. CASE ReadChain(w) \/ Match(w) \/ CheckBalance(w) \/ Send(w)
  BY <1>3 DEF ReadChain, Match, CheckBalance, Send, proceedIf, Addressed
<1>. QED
  BY <1>1, <1>2, <1>3 DEF Starts

\* What the others do: no call is moved, nothing is paid or flagged, and a
\* confirmed request stays confirmed.
LEMMA OthersQuiet ==
    ASSUME TypeOK, Others
    PROVE  /\ UNCHANGED <<at, req, fiat, denied, crashes>>
           /\ \A r \in Requests : onchain[r] = "Confirmed" => onchain'[r] = "Confirmed"
           /\ \A r \in Requests : flagged'[r] => flagged[r]
<1> USE DEF table, router, bank, spent, daemon, rest, TypeOK
<1> DEFINE Quiet == /\ UNCHANGED <<at, req, fiat, denied, crashes>>
                    /\ \A r \in Requests : onchain[r] = "Confirmed" => onchain'[r] = "Confirmed"
                    /\ \A r \in Requests : flagged'[r] => flagged[r]
<1>1. ASSUME NEW r \in Requests, Trader(r) PROVE Quiet
  BY <1>1 DEF Trader, POST, WithdrawRequested, Expire, WithdrawCancelled
<1>2. ASSUME NEW r \in Requests, Table(r) PROVE Quiet
  BY <1>2 DEF Table, SyncStatus, AdminConfirm, AdminPatch
<1>3. ASSUME NEW r \in Requests, KeyExpire(r) \/ MineOrphan(r) PROVE Quiet
  BY <1>3 DEF KeyExpire, MineOrphan
<1>4. ASSUME NEW v \in Verifiers, NEW r \in Requests, VerifyRead(v, r) \/ VerifyWrite(v, r) PROVE Quiet
  BY <1>4 DEF VerifyRead, VerifyWrite
<1>5. ASSUME NEW w \in Calls, AnswerLost(w) PROVE Quiet
  BY <1>5 DEF AnswerLost
<1>6. CASE TopUp
  BY <1>6 DEF TopUp
<1>. QED
  BY <1>1, <1>2, <1>3, <1>4, <1>5, <1>6 DEF Others

\* How a call that is under way goes on.  A payment begins only with a request
\* that was not confirmed before.
LEMMA MovesTo ==
    ASSUME TypeOK, Addressed, NEW w \in Calls, Moves(w)
    PROVE  /\ UNCHANGED req /\ req[w] \in Requests /\ at' \in [Calls -> Phases]
           /\ \A v \in Calls \ {w} : at'[v] = at[v]
           /\ at[w] \in Handling \ {"done"}
           /\ paying(w)' => \/ paying(w) /\ UNCHANGED onchain
                            \/ /\ at'[w] = "confirmed" /\ onchain[req[w]] = "Pending"
                               /\ onchain' = [onchain EXCEPT ![req[w]] = "Confirmed"]
           /\ onchain' = onchain \/ onchain' = [onchain EXCEPT ![req[w]] = "Confirmed"]
<1> USE DEF table, router, bank, spent, daemon, goto, TypeOK, Phases, Handling, paying, Addressed
<1>1. CASE Wait(w)
  BY <1>1 DEF Wait, confirmable, afterRevert
<1>2. CASE Record(w) \/ Flag(w) \/ MarkProcessing(w)
  BY <1>2 DEF Record, Flag, MarkProcessing, setRow
<1>3. CASE initiateTransfer(w)
  BY <1>3 DEF initiateTransfer, afterRefusal
<1>4. CASE CallFails(w)
  BY <1>4 DEF CallFails
<1>5. CASE BackendStops(w)
  BY <1>5 DEF BackendStops
<1>. QED
  BY <1>1, <1>2, <1>3, <1>4, <1>5 DEF Moves

\* What a call on its way does to the bank and to the note of its request.
LEMMA MovesPay ==
    ASSUME TypeOK, Addressed, NEW w \in Calls, Moves(w)
    PROVE  /\ \/ UNCHANGED <<fiat, denied>> /\ at'[w] # "paid"
              \/ /\ at[w] = "recorded" /\ at'[w] \in {"paid", "done"} /\ UNCHANGED <<flagged, denied>>
                 /\ fiat' = [fiat EXCEPT ![req[w]] = @ + 1]
              \/ /\ at[w] = "recorded" /\ at'[w] = "unpaid" /\ UNCHANGED flagged
                 /\ fiat' = [fiat EXCEPT ![req[w]] = @ + 1]
                 /\ denied' = denied \cup {req[w]}
           /\ \/ flagged' = flagged
              \/ paying(w) /\ flagged' = [flagged EXCEPT ![req[w]] = FALSE]
              \/ /\ at[w] = "unpaid" /\ at'[w] = "done"
                 /\ flagged' = [flagged EXCEPT ![req[w]] = TRUE]
           /\ at'[w] = "confirmed" => at[w] = "sent"
           /\ at'[w] = "recorded" => at[w] = "confirmed"
           /\ at'[w] = "unpaid" => at[w] = "recorded"
<1> USE DEF table, router, bank, spent, daemon, goto, TypeOK, Handling, paying, Addressed
<1>1. CASE Wait(w)
  BY <1>1 DEF Wait, afterRevert
<1>2. CASE Record(w) \/ Flag(w) \/ MarkProcessing(w)
  BY <1>2 DEF Record, Flag, MarkProcessing, setRow
<1>3. CASE initiateTransfer(w)
  BY <1>3 DEF initiateTransfer, errAfterTransfer, afterRefusal, transfers
<1>4. CASE CallFails(w)
  BY <1>4 DEF CallFails, transfers
<1>5. CASE BackendStops(w)
  BY <1>5 DEF BackendStops
<1>. QED
  BY <1>1, <1>2, <1>3, <1>4, <1>5 DEF Moves

-----------------------------------------------------------------------------

\* Addressed is preserved: a call that is not idle knows its request.
LEMMA AddressedStep == TypeOK /\ Addressed /\ Next => Addressed'
<1> SUFFICES ASSUME TypeOK, Addressed, Next PROVE Addressed'
  OBVIOUS
<1>1. ASSUME NEW w \in Calls, Moves(w) PROVE Addressed'
  BY <1>1, MovesTo DEF Addressed, Handling
<1>2. ASSUME NEW w \in Calls, Starts(w) PROVE Addressed'
  BY <1>2, StartsQuiet DEF Addressed
<1>3. CASE Others
  BY <1>3, OthersQuiet DEF Addressed
<1>4. CASE DaemonStops
  BY <1>4 DEF DaemonStops, Addressed
<1>. QED
  BY <1>1, <1>2, <1>3, <1>4, Steps

\* OnePayer is preserved: the router lets a request out of Pending once.
LEMMA OnePayerStep == TypeOK /\ Addressed /\ OnePayer /\ Next => OnePayer'
<1> SUFFICES ASSUME TypeOK, Addressed, OnePayer, Next PROVE OnePayer'
  OBVIOUS
<1>1. ASSUME NEW w \in Calls, Moves(w) PROVE OnePayer'
  <2>1. \A v \in Calls : paying(v) => onchain'[req[v]] = "Confirmed" /\ req[v] \in Requests
    BY <1>1, MovesTo DEF OnePayer, paying, Addressed, TypeOK
  <2>2. CASE paying(w)' /\ ~paying(w)
    <3>1. onchain[req[w]] = "Pending" /\ onchain'[req[w]] = "Confirmed" /\ UNCHANGED req
      BY <1>1, <2>2, MovesTo DEF TypeOK
    <3>2. \A v \in Calls \ {w} : paying(v) => req[v] # req[w]
      BY <3>1 DEF OnePayer
    <3>3. \A v \in Calls \ {w} : paying(v)' <=> paying(v)
      BY <1>1, MovesTo DEF paying
    <3>. QED
      BY <2>1, <3>1, <3>2, <3>3 DEF OnePayer
  <2>3. CASE ~(paying(w)' /\ ~paying(w))
    <3>1. UNCHANGED req /\ \A v \in Calls : paying(v)' => paying(v)
      BY <1>1, <2>3, MovesTo DEF paying
    <3>. QED
      BY <2>1, <3>1 DEF OnePayer
  <2>. QED
    BY <2>2, <2>3
<1>2. ASSUME NEW w \in Calls, Starts(w) PROVE OnePayer'
  <2>1. \A v \in Calls : paying(v)' => paying(v) /\ req'[v] = req[v]
    BY <1>2, StartsQuiet DEF paying
  <2>. QED
    BY <1>2, <2>1, StartsQuiet DEF OnePayer
<1>3. CASE Others
  <2>1. \A v \in Calls : paying(v)' => paying(v) /\ req'[v] = req[v] /\ req[v] \in Requests
    BY <1>3, OthersQuiet DEF paying, Addressed
  <2>. QED
    BY <1>3, <2>1, OthersQuiet DEF OnePayer
<1>4. CASE DaemonStops
  <2>1. \A v \in Calls : paying(v)' => paying(v) /\ req'[v] = req[v]
    BY <1>4 DEF DaemonStops, paying
  <2>. QED
    BY <1>4, <2>1 DEF DaemonStops, OnePayer, router
<1>. QED
  BY <1>1, <1>2, <1>3, <1>4, Steps

\* Knows is preserved: what a paying call has seen of the bank and of the note
\* only that call can change.
LEMMA KnowsStep == TypeOK /\ Addressed /\ OnePayer /\ Knows /\ Ledger /\ Next => Knows'
<1> SUFFICES ASSUME TypeOK, Addressed, OnePayer, Knows, Ledger, Next PROVE Knows'
  OBVIOUS
<1>1. ASSUME NEW w \in Calls, Moves(w) PROVE Knows'
  <2>1. ASSUME NEW v \in Calls, v # w, paying(v)'
        PROVE  /\ at'[v] = at[v] /\ paying(v)
               /\ req[v] = req[w] => ~paying(w) /\ ~paying(w)'
    <3>1. at'[v] = at[v] /\ paying(v)
      BY <1>1, <2>1, MovesTo DEF paying
    <3>2. paying(w)' => paying(w) \/ onchain[req[w]] = "Pending"
      BY <1>1, MovesTo
    <3>3. CASE paying(w)
      BY <2>1, <3>1, <3>3 DEF OnePayer
    <3>4. CASE onchain[req[w]] = "Pending"
      BY <3>1, <3>4 DEF OnePayer
    <3>. QED
      BY <3>1, <3>2, <3>3, <3>4
  <2>2. ASSUME NEW v \in Calls, v # w, paying(v)'
        PROVE  /\ fiat'[req'[v]] = fiat[req[v]] /\ flagged'[req'[v]] = flagged[req[v]]
               /\ req[v] \in denied => req'[v] \in denied'
    <3>1. UNCHANGED req /\ req[v] \in Requests /\ req[w] \in Requests
      BY <1>1, <2>1, <2>2, MovesTo DEF paying, Addressed
    <3>2. CASE paying(w) \/ paying(w)'
      BY <1>1, <2>1, <2>2, <3>1, <3>2, MovesPay DEF TypeOK
    <3>3. CASE ~(paying(w) \/ paying(w)')
      BY <1>1, <3>1, <3>3, MovesPay DEF paying
    <3>. QED
      BY <3>2, <3>3
  <2> DEFINE Sure(v) == /\ at'[v] \in {"confirmed", "recorded"} => fiat'[req'[v]] = 0
                        /\ at'[v] = "unpaid" => fiat'[req'[v]] = 0 \/ req'[v] \in denied'
                        /\ at'[v] = "paid" => fiat'[req'[v]] > 0
                        /\ paying(v)' => ~flagged'[req'[v]]
  <2>3. ASSUME paying(w)', ~paying(w) PROVE Sure(w)
    <3>1. at'[w] = "confirmed" /\ onchain[req[w]] = "Pending" /\ UNCHANGED req /\ req[w] \in Requests
      BY <1>1, <2>3, MovesTo
    <3>2. fiat[req[w]] = 0 /\ ~flagged[req[w]]
      <4>1. fiat[req[w]] \in Nat /\ onchain[req[w]] # "Confirmed"
        BY <3>1 DEF TypeOK
      <4>2. ~(fiat[req[w]] > 0) /\ ~flagged[req[w]]
        BY <3>1, <4>1 DEF Ledger, FiatOnlyIfConfirmed, RowIsTrue
      <4>. QED
        BY <4>1, <4>2
    <3>3. UNCHANGED <<fiat, flagged>>
      BY <1>1, <2>3, MovesPay DEF paying
    <3>. QED
      BY <3>1, <3>2, <3>3
  <2>4. ASSUME paying(w)', paying(w) PROVE Sure(w)
    <3>1. UNCHANGED req /\ req[w] \in Requests /\ ~flagged[req[w]]
      BY <1>1, <2>4, MovesTo DEF Knows
    <3>2. ~flagged'[req[w]]
      BY <1>1, <2>4, <3>1, MovesPay DEF paying, TypeOK
    <3>3. /\ at'[w] \in {"confirmed", "recorded"} => fiat'[req[w]] = 0
          /\ at'[w] = "unpaid" => fiat'[req[w]] = 0 \/ req[w] \in denied'
      BY <1>1, <2>4, MovesPay, MovesTo DEF Knows, paying
    <3>4. at'[w] = "paid" => fiat'[req[w]] > 0
      <4>1. at'[w] = "paid" => fiat' = [fiat EXCEPT ![req[w]] = @ + 1]
        BY <1>1, MovesPay, Zenon
      <4>. QED
        BY <3>1, <4>1 DEF TypeOK
    <3>. QED
      BY <3>1, <3>2, <3>3, <3>4 DEF paying
  <2>5. ASSUME ~paying(w)' PROVE Sure(w)
    BY <2>5 DEF paying
  <2>6. ASSUME NEW v \in Calls, v # w PROVE Sure(v)
    <3>1. CASE paying(v)'
      BY <2>1, <2>2, <2>6, <3>1 DEF Knows, paying
    <3>2. CASE ~paying(v)'
      BY <3>2 DEF paying
    <3>. QED
      BY <3>1, <3>2
  <2>7. \A v \in Calls : Sure(v)
    BY <2>3, <2>4, <2>5, <2>6
  <2>. QED
    BY <2>7 DEF Knows
<1>2. ASSUME NEW w \in Calls, Starts(w) PROVE Knows'
  <2>1. \A v \in Calls : paying(v)' => at'[v] = at[v] /\ req'[v] = req[v]
    BY <1>2, StartsQuiet DEF paying
  <2>. QED
    BY <1>2, <2>1, StartsQuiet DEF Knows, paying
<1>3. CASE Others
  BY <1>3, OthersQuiet DEF Knows, paying, Addressed
<1>4. CASE DaemonStops
  <2>1. \A v \in Calls : paying(v)' => at'[v] = at[v] /\ req'[v] = req[v]
    BY <1>4 DEF DaemonStops, paying
  <2>. QED
    BY <1>4, <2>1 DEF DaemonStops, Knows, paying, table, bank
<1>. QED
  BY <1>1, <1>2, <1>3, <1>4, Steps

\* Who writes a row, and what has to be true before it may say so.
LEMMA MovesRow ==
    ASSUME TypeOK, Addressed, NEW w \in Calls, Moves(w)
    PROVE  /\ UNCHANGED byHand
           /\ \/ UNCHANGED row
              \/ at[w] \in {"confirmed", "unpaid"} /\ row' = [row EXCEPT ![req[w]] = "confirmed"]
              \/ at[w] = "paid" /\ row' = [row EXCEPT ![req[w]] = "processing"]
<1> USE DEF table, router, bank, spent, daemon
<1>1. CASE Wait(w) \/ initiateTransfer(w) \/ CallFails(w) \/ BackendStops(w)
  BY <1>1 DEF Wait, initiateTransfer, CallFails, BackendStops
<1>2. CASE Record(w) \/ Flag(w) \/ MarkProcessing(w)
  BY <1>2 DEF Record, Flag, MarkProcessing, setRow
<1>. QED
  BY <1>1, <1>2 DEF Moves

LEMMA OthersRow ==
    ASSUME TypeOK, Ledger, Others, NEW r \in Requests
    PROVE  /\ row'[r] = "processing" => row[r] = "processing"
           /\ row'[r] = "confirmed" => row[r] = "confirmed" \/ onchain[r] = "Confirmed"
           /\ r \in byHand' => r \in byHand \/ onchain'[r] = "Confirmed"
<1> USE DEF table, router, TypeOK
<1> DEFINE Row == /\ row'[r] = "processing" => row[r] = "processing"
                  /\ row'[r] = "confirmed" => row[r] = "confirmed" \/ onchain[r] = "Confirmed"
                  /\ r \in byHand' => r \in byHand \/ onchain'[r] = "Confirmed"
<1>1. ASSUME NEW q \in Requests, Trader(q) PROVE Row
  BY <1>1 DEF Trader, POST, WithdrawRequested, Expire, WithdrawCancelled
<1>2. ASSUME NEW q \in Requests, SyncStatus(q) PROVE Row
  BY <1>2 DEF SyncStatus
<1>3. ASSUME NEW q \in Requests, AdminConfirm(q) \/ AdminPatch(q) PROVE Row
  BY <1>3 DEF AdminConfirm, AdminPatch, Ledger
<1>4. ASSUME NEW q \in Requests, KeyExpire(q) \/ MineOrphan(q) PROVE Row
  BY <1>4 DEF KeyExpire, MineOrphan, rest
<1>5. ASSUME NEW v \in Verifiers, NEW q \in Requests, VerifyRead(v, q) \/ VerifyWrite(v, q) PROVE Row
  BY <1>5 DEF VerifyRead, VerifyWrite
<1>6. (TopUp \/ \E w \in Calls : AnswerLost(w)) => Row
  BY DEF TopUp, AnswerLost
<1>. QED
  BY <1>1, <1>2, <1>3, <1>4, <1>5, <1>6 DEF Others, Table

\* Ledger is preserved.
LEMMA LedgerStep == TypeOK /\ Addressed /\ OnePayer /\ Knows /\ Ledger /\ Next => Ledger'
<1> SUFFICES ASSUME TypeOK, Addressed, OnePayer, Knows, Ledger, Next PROVE Ledger'
  OBVIOUS
<1> DEFINE Entry(r) ==
      /\ fiat[r] <= 1 /\ (fiat[r] > 0 => onchain[r] = "Confirmed")
      /\ (r \in byHand => onchain[r] = "Confirmed")
      /\ row[r] \in {"confirmed", "processing"} => onchain[r] = "Confirmed"
      /\ row[r] = "processing" => fiat[r] > 0
      /\ flagged[r] => onchain[r] = "Confirmed" /\ (fiat[r] = 0 \/ r \in denied)
<1>1. \A r \in Requests : Entry(r)
  BY DEF Ledger, FiatAtMostOnce, FiatOnlyIfConfirmed, RowIsTrue
<1>2. (\A r \in Requests : Entry(r)') /\ byHand' \subseteq Requests => Ledger'
  BY DEF Ledger, FiatAtMostOnce, FiatOnlyIfConfirmed, RowIsTrue
<1>3. ASSUME NEW w \in Calls, Moves(w) PROVE (\A r \in Requests : Entry(r)') /\ byHand' \subseteq Requests
  <2>1. byHand' = byHand /\ byHand \subseteq Requests
    BY <1>3, MovesRow DEF TypeOK
  <2>2. ASSUME NEW r \in Requests, r # req[w] PROVE Entry(r)'
    <3>1. /\ fiat'[r] = fiat[r] /\ flagged'[r] = flagged[r] /\ onchain'[r] = onchain[r] /\ row'[r] = row[r]
          /\ r \in denied => r \in denied'
      <4>1. req[w] \in Requests
        BY <1>3, MovesTo
      <4>2. fiat'[r] = fiat[r]
        <5>1. fiat' = fiat \/ fiat' = [fiat EXCEPT ![req[w]] = @ + 1]
          BY <1>3, MovesPay, Zenon
        <5>. QED
          BY <5>1, <2>2, <4>1 DEF TypeOK
      <4>3. flagged'[r] = flagged[r]
        <5>1. \/ flagged' = flagged
              \/ flagged' = [flagged EXCEPT ![req[w]] = FALSE]
              \/ flagged' = [flagged EXCEPT ![req[w]] = TRUE]
          BY <1>3, MovesPay, Zenon
        <5>. QED
          BY <5>1, <2>2, <4>1 DEF TypeOK
      <4>4. onchain'[r] = onchain[r]
        <5>1. onchain' = onchain \/ onchain' = [onchain EXCEPT ![req[w]] = "Confirmed"]
          BY <1>3, MovesTo
        <5>. QED
          BY <5>1, <2>2, <4>1 DEF TypeOK
      <4>5. row'[r] = row[r]
        BY <1>3, <2>2, <4>1, MovesRow DEF TypeOK
      <4>6. r \in denied => r \in denied'
        BY <1>3, MovesPay
      <4>. QED
        BY <4>2, <4>3, <4>4, <4>5, <4>6
    <3>. QED
      BY <1>1, <2>1, <3>1
  <2>3. ASSUME NEW r \in Requests, r = req[w] PROVE Entry(r)'
    <3>1. r \in Requests /\ r = req[w]
      BY <2>3
    <3>2. onchain[r] = "Confirmed" => onchain'[r] = "Confirmed"
      BY <1>3, <3>1, MovesTo DEF TypeOK
    <3>3. CASE paying(w)
      <4>1. onchain'[r] = "Confirmed"
        BY <3>1, <3>2, <3>3 DEF OnePayer
      <4>2. /\ fiat'[r] <= 1 /\ (row'[r] = "processing" => fiat'[r] > 0)
            /\ flagged'[r] => fiat'[r] = 0 \/ r \in denied'
        <5>1. fiat[r] \in Nat /\ fiat[r] <= 1 /\ ~flagged[r] /\ (row[r] = "processing" => fiat[r] > 0)
          BY <1>1, <3>1, <3>3 DEF Knows, TypeOK
        <5>2. CASE /\ at[w] = "recorded" /\ UNCHANGED flagged
                   /\ fiat' = [fiat EXCEPT ![r] = @ + 1]
          <6>1. fiat[r] = 0 /\ fiat'[r] = 1
            BY <5>2, <3>1 DEF Knows, TypeOK
          <6>. QED
            BY <5>1, <5>2, <6>1
        <5>3. CASE UNCHANGED <<fiat, denied>>
          <6>1. row'[r] = "processing" => fiat'[r] > 0
            BY <1>3, <5>1, <5>3, <3>1, MovesRow DEF Knows, TypeOK
          <6>2. flagged'[r] => fiat'[r] = 0 \/ r \in denied'
            BY <1>3, <5>1, <5>3, <3>1, MovesPay DEF Knows, TypeOK
          <6>. QED
            BY <5>1, <5>3, <6>1, <6>2
        <5>. QED
          BY <1>3, <2>3, <5>2, <5>3, MovesPay
      <4>. QED
        BY <2>1, <4>1, <4>2
    <3>4. CASE ~paying(w)
      <4>1. UNCHANGED <<fiat, denied, flagged, row>>
        BY <1>3, <3>4, MovesPay, MovesRow DEF paying
      <4>. QED
        BY <1>1, <2>1, <3>1, <3>2, <4>1
    <3>. QED
      BY <3>3, <3>4
  <2>. QED
    BY <2>1, <2>2, <2>3
<1>4. ASSUME NEW w \in Calls, Starts(w) PROVE (\A r \in Requests : Entry(r)') /\ byHand' \subseteq Requests
  <2>1. UNCHANGED <<row, flagged, onchain, byHand, fiat, denied>>
    BY <1>4, StartsQuiet
  <2>. QED
    BY <1>1, <2>1 DEF TypeOK
<1>5. ASSUME Others PROVE (\A r \in Requests : Entry(r)') /\ byHand' \subseteq Requests
  <2>1. ASSUME NEW r \in Requests PROVE Entry(r)'
    <3>1. fiat'[r] = fiat[r] /\ (onchain[r] = "Confirmed" => onchain'[r] = "Confirmed")
          /\ (flagged'[r] => flagged[r]) /\ UNCHANGED denied
      BY <1>5, OthersQuiet
    <3>. QED
      BY <1>1, <1>5, <3>1, OthersRow
  <2>2. byHand' \subseteq Requests
    BY <1>5 DEF Others, Trader, POST, WithdrawRequested, Expire, WithdrawCancelled, Table, SyncStatus,
       AdminConfirm, AdminPatch, KeyExpire, MineOrphan, VerifyRead, VerifyWrite, AnswerLost, TopUp,
       router, rest, TypeOK
  <2>. QED
    BY <2>1, <2>2
<1>6. ASSUME DaemonStops PROVE (\A r \in Requests : Entry(r)') /\ byHand' \subseteq Requests
  BY <1>1, <1>6 DEF DaemonStops, table, router, bank, TypeOK
<1>. QED
  BY <1>2, <1>3, <1>4, <1>5, <1>6, Steps

\* The daemon's queues and keys keep their types.
LEMMA DaemonType ==
    ASSUME TypeOK, Addressed, Next
    PROVE  queue' \in [Chains -> Seq(Calls)] /\ key' \in [Requests -> BOOLEAN]
<1> DEFINE Typed == queue' \in [Chains -> Seq(Calls)] /\ key' \in [Requests -> BOOLEAN]
<1>1. CASE UNCHANGED daemon
  BY <1>1 DEF daemon, TypeOK
<1>2. ASSUME NEW w \in Calls, NEW r \in Requests, tryProcess(w, r) PROVE Typed
  <2>1. chainOf[r] \in Chains /\ queue[chainOf[r]] \in Seq(Calls)
    BY DEF Chains, TypeOK
  <2>2. Append(queue[chainOf[r]], w) \in Seq(Calls)
    BY <2>1
  <2>. QED
    BY <1>2, <2>1, <2>2 DEF tryProcess, TypeOK
<1>3. ASSUME NEW w \in Calls, leaves(w), awaited(w), req[w] \in Requests
      PROVE  queue' \in [Chains -> Seq(Calls)]
  <2>1. chainOf[req[w]] \in Chains /\ queue[chainOf[req[w]]] \in Seq(Calls)
    BY <1>3 DEF Chains, TypeOK
  <2>2. Tail(queue[chainOf[req[w]]]) \in Seq(Calls)
    BY <1>3, <2>1 DEF awaited, line
  <2>. QED
    BY <1>3, <2>1, <2>2 DEF leaves, TypeOK
<1>4. ASSUME NEW w \in Calls, _processWithdrawalImpl(w) \/ Return(w) \/ AnswerLost(w) PROVE Typed
  <2>1. req[w] \in Requests
    BY <1>4 DEF _processWithdrawalImpl, Return, AnswerLost, Addressed, Handling
  <2>2. UNCHANGED queue \/ (leaves(w) /\ awaited(w))
    BY <1>4 DEF _processWithdrawalImpl, Return, AnswerLost, daemon
  <2>3. \/ UNCHANGED key
        \/ key' = [key EXCEPT ![req[w]] = TRUE]
        \/ key' = [key EXCEPT ![req[w]] = FALSE]
    BY <1>4 DEF _processWithdrawalImpl, Return, AnswerLost, daemon
  <2>4. queue' \in [Chains -> Seq(Calls)]
    BY <1>3, <2>1, <2>2 DEF TypeOK
  <2>5. key' \in [Requests -> BOOLEAN]
    BY <2>1, <2>3 DEF TypeOK
  <2>. QED
    BY <2>4, <2>5
<1>5. ASSUME NEW r \in Requests, KeyExpire(r) PROVE Typed
  BY <1>5 DEF KeyExpire, TypeOK
<1>6. CASE DaemonStops
  <2>1. <<>> \in Seq(Calls)
    OBVIOUS
  <2>. QED
    BY <1>6, <2>1 DEF DaemonStops, TypeOK
<1>7. \/ UNCHANGED daemon \/ DaemonStops
      \/ \E w \in Calls : _processWithdrawalImpl(w) \/ Return(w) \/ AnswerLost(w)
      \/ \E w \in Calls, r \in Requests : tryProcess(w, r)
      \/ \E r \in Requests : KeyExpire(r)
  BY DEF Next, Trader, POST, WithdrawRequested, Expire, WithdrawCancelled, Table, SyncStatus,
     AdminConfirm, AdminPatch, MineOrphan, VerifyRead, VerifyWrite, processWithFlutterwave, Call,
     Process, ReadChain, Match, CheckBalance, Send, proceedIf, Wait, Record, initiateTransfer, Flag,
     MarkProcessing, setRow, CallFails, BackendStops, TopUp
<1>. QED
  BY <1>1, <1>2, <1>4, <1>5, <1>6, <1>7

\* The steps of the calls keep the other types.
LEMMA MovesType ==
    ASSUME TypeOK, Addressed, NEW w \in Calls, Moves(w)
    PROVE  /\ row' \in [Requests -> Status] /\ linked' \in [Requests -> BOOLEAN]
           /\ flagged' \in [Requests -> BOOLEAN] /\ onchain' \in [Requests -> WithdrawStatus]
           /\ UNCHANGED <<expired, verifies>> /\ byHand' \subseteq Requests /\ orphans' \subseteq Requests
           /\ float' \in 0 .. MaxFloat /\ fiat' \in [Requests -> Nat] /\ denied' \subseteq Requests
           /\ faults' \in 0 .. MaxFaults /\ crashes' \in 0 .. MaxCrashes
<1>1. req[w] \in Requests
  BY MovesTo
<1>2. row' \in [Requests -> Status] /\ byHand' \subseteq Requests
  BY <1>1, MovesRow DEF TypeOK, Status
<1>3. onchain' \in [Requests -> WithdrawStatus]
  <2>1. onchain' = onchain \/ onchain' = [onchain EXCEPT ![req[w]] = "Confirmed"]
    BY MovesTo
  <2>. QED
    BY <1>1, <2>1 DEF TypeOK, WithdrawStatus
<1>4. flagged' \in [Requests -> BOOLEAN]
  <2>1. \/ flagged' = flagged \/ flagged' = [flagged EXCEPT ![req[w]] = FALSE]
        \/ flagged' = [flagged EXCEPT ![req[w]] = TRUE]
    BY MovesPay
  <2>. QED
    BY <1>1, <2>1 DEF TypeOK
<1>5. linked' \in [Requests -> BOOLEAN]
  <2>1. UNCHANGED linked \/ linked' = [linked EXCEPT ![req[w]] = TRUE]
    BY DEF Moves, Wait, Record, initiateTransfer, Flag, MarkProcessing, CallFails, BackendStops, table
  <2>. QED
    BY <1>1, <2>1 DEF TypeOK
<1>6. UNCHANGED <<expired, verifies>>
  BY DEF Moves, Wait, Record, initiateTransfer, Flag, MarkProcessing, setRow, CallFails, BackendStops,
     router
<1>7. orphans' \subseteq Requests
  <2>1. UNCHANGED orphans \/ orphans' = orphans \cup {req[w]}
    BY DEF Moves, Wait, Record, initiateTransfer, Flag, MarkProcessing, setRow, CallFails, BackendStops
  <2>. QED
    BY <1>1, <2>1 DEF TypeOK
<1>8. float' \in 0 .. MaxFloat /\ fiat' \in [Requests -> Nat] /\ denied' \subseteq Requests
  <2>1. UNCHANGED bank \/ (transfers(req[w]) /\ (UNCHANGED denied \/ denied' = denied \cup {req[w]}))
    BY DEF Moves, Wait, Record, initiateTransfer, Flag, MarkProcessing, setRow, CallFails, BackendStops,
       bank, errAfterTransfer
  <2>2. CASE UNCHANGED bank
    BY <2>2 DEF bank, TypeOK
  <2>3. CASE transfers(req[w]) /\ (UNCHANGED denied \/ denied' = denied \cup {req[w]})
    BY <1>1, <2>3, OffRampAssumption DEF transfers, TypeOK
  <2>. QED
    BY <2>1, <2>2, <2>3
<1>9. faults' \in 0 .. MaxFaults /\ crashes' \in 0 .. MaxCrashes
  <2>1. \/ UNCHANGED spent
        \/ faults < MaxFaults /\ faults' = faults + 1 /\ UNCHANGED crashes
        \/ crashes < MaxCrashes /\ crashes' = crashes + 1 /\ UNCHANGED faults
    BY DEF Moves, Wait, Record, initiateTransfer, Flag, MarkProcessing, setRow, CallFails, BackendStops,
       spent, errAfterTransfer
  <2>. QED
    BY <2>1, OffRampAssumption DEF spent, TypeOK
<1>. QED
  BY <1>2, <1>3, <1>4, <1>5, <1>6, <1>7, <1>8, <1>9

\* And so do all others.
LEMMA OthersType ==
    ASSUME TypeOK, Others
    PROVE  /\ row' \in [Requests -> Status] /\ linked' \in [Requests -> BOOLEAN]
           /\ flagged' \in [Requests -> BOOLEAN] /\ onchain' \in [Requests -> WithdrawStatus]
           /\ expired' \in [Requests -> BOOLEAN] /\ verifies' \subseteq Verifiers \X Requests
           /\ byHand' \subseteq Requests /\ orphans' \subseteq Requests
           /\ float' \in 0 .. MaxFloat /\ faults' \in 0 .. MaxFaults
<1> USE DEF table, router, bank, spent, rest, TypeOK, Status, WithdrawStatus
<1> DEFINE Typed == /\ row' \in [Requests -> Status] /\ linked' \in [Requests -> BOOLEAN]
                    /\ flagged' \in [Requests -> BOOLEAN] /\ onchain' \in [Requests -> WithdrawStatus]
                    /\ expired' \in [Requests -> BOOLEAN] /\ verifies' \subseteq Verifiers \X Requests
                    /\ byHand' \subseteq Requests /\ orphans' \subseteq Requests
                    /\ float' \in 0 .. MaxFloat /\ faults' \in 0 .. MaxFaults
<1>1. ASSUME NEW r \in Requests, Trader(r) PROVE Typed
  BY <1>1 DEF Trader, POST, WithdrawRequested, Expire, WithdrawCancelled
<1>2. ASSUME NEW r \in Requests, Table(r) PROVE Typed
  <2>1. CASE SyncStatus(r)
    BY <2>1 DEF SyncStatus
  <2>2. CASE AdminConfirm(r)
    BY <2>2 DEF AdminConfirm
  <2>3. CASE AdminPatch(r)
    BY <2>3 DEF AdminPatch
  <2>. QED
    BY <1>2, <2>1, <2>2, <2>3 DEF Table
<1>3. ASSUME NEW r \in Requests, KeyExpire(r) \/ MineOrphan(r) PROVE Typed
  BY <1>3 DEF KeyExpire, MineOrphan
<1>4. ASSUME NEW v \in Verifiers, NEW r \in Requests, VerifyRead(v, r) \/ VerifyWrite(v, r) PROVE Typed
  <2>1. CASE VerifyRead(v, r)
    BY <1>4, <2>1 DEF VerifyRead
  <2>2. CASE VerifyWrite(v, r)
    <3>1. row' \in [Requests -> Status]
      BY <2>2 DEF VerifyWrite
    <3>2. linked' \in [Requests -> BOOLEAN]
      BY <2>2 DEF VerifyWrite
    <3>. QED
      BY <2>2, <3>1, <3>2 DEF VerifyWrite
  <2>. QED
    BY <1>4, <2>1, <2>2
<1>5. ASSUME NEW w \in Calls, AnswerLost(w) PROVE Typed
  <2>1. faults' \in 0 .. MaxFaults
    BY <1>5, OffRampAssumption DEF AnswerLost
  <2>. QED
    BY <1>5, <2>1 DEF AnswerLost
<1>6. CASE TopUp
  BY <1>6, OffRampAssumption DEF TopUp
<1>. QED
  BY <1>1, <1>2, <1>3, <1>4, <1>5, <1>6 DEF Others

\* TypeOK is preserved.
LEMMA TypeStep == TypeOK /\ Addressed /\ Next => TypeOK'
<1> SUFFICES ASSUME TypeOK, Addressed, Next PROVE TypeOK'
  OBVIOUS
<1>1. queue' \in [Chains -> Seq(Calls)] /\ key' \in [Requests -> BOOLEAN]
  BY DaemonType
<1>2. ASSUME NEW w \in Calls, Moves(w) PROVE TypeOK'
  <2>1. at' \in [Calls -> Phases] /\ UNCHANGED req
    BY <1>2, MovesTo
  <2>. QED
    BY <1>1, <1>2, <2>1, MovesType DEF TypeOK
<1>3. ASSUME NEW w \in Calls, Starts(w) PROVE TypeOK'
  BY <1>1, <1>3, StartsQuiet DEF TypeOK
<1>4. CASE Others
  <2>1. UNCHANGED <<at, req, fiat, denied, crashes>>
    BY <1>4, OthersQuiet
  <2>. QED
    BY <1>1, <1>4, <2>1, OthersType DEF TypeOK
<1>5. CASE DaemonStops
  <2>1. crashes' \in 0 .. MaxCrashes
    BY <1>5, OffRampAssumption DEF DaemonStops, TypeOK
  <2>2. at' \in [Calls -> Phases] /\ req' \in [Calls -> Requests \cup {None}]
    BY <1>5 DEF DaemonStops, TypeOK, Phases
  <2>. QED
    BY <1>1, <1>5, <2>1, <2>2 DEF DaemonStops, TypeOK, table, router, bank
<1>. QED
  BY <1>2, <1>3, <1>4, <1>5, Steps

\* No step leaves the invariant.
LEMMA NextIInv == IInv /\ [Next]_vars => IInv'
<1> SUFFICES ASSUME IInv, [Next]_vars PROVE IInv'
  OBVIOUS
<1>1. CASE Next
  BY <1>1, TypeStep, AddressedStep, OnePayerStep, KnowsStep, LedgerStep DEF IInv
<1>2. CASE UNCHANGED vars
  BY <1>2 DEF vars, table, router, daemon, bank, spent, IInv, TypeOK, Addressed, OnePayer, Knows, paying,
     Ledger, FiatAtMostOnce, FiatOnlyIfConfirmed, RowIsTrue
<1>. QED
  BY <1>1, <1>2

-----------------------------------------------------------------------------
(* What holds of every behaviour.                                          *)

\* The inductive invariant holds in every reachable state: whatever number of
\* calls, failures and restarts, the router's one confirmation has one payer.
THEOREM OffRampInvariant == Spec => []IInv
BY InitIInv, NextIInv, PTL DEF Spec

\* The rows, the calls, the queues and the keys keep their types.
THEOREM OffRampTypeOK == Spec => []TypeOK
BY OffRampInvariant, PTL DEF IInv

\* One withdrawal is answered by at most one bank transfer, although neither
\* the mutex nor the redis key keeps two process calls apart.
THEOREM OffRampFiatAtMostOnce == Spec => []FiatAtMostOnce
BY OffRampInvariant, PTL DEF IInv, Ledger

\* A transfer is made only for a request the router has confirmed.
THEOREM OffRampFiatOnlyIfConfirmed == Spec => []FiatOnlyIfConfirmed
BY OffRampInvariant, PTL DEF IInv, Ledger

\* What the table tells the operator is so.
THEOREM OffRampRowIsTrue == Spec => []RowIsTrue
BY OffRampInvariant, PTL DEF IInv, Ledger
=============================================================================
