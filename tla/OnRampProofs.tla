---------------------------- MODULE OnRampProofs ----------------------------
(***************************************************************************)
(* Proofs about OnRamp: for any number of signers, cancellers, payments,   *)
(* webhook calls and workers, and any number of failures and crashes.      *)
(*                                                                         *)
(* The inductive invariant joins what the handlers know of one another:    *)
(* OneSigner says who can still write the receiver, Working that a worker  *)
(* and its transactions hold that receiver, PaidFirst what had to happen   *)
(* before a worker took the row, and Confirmed what a worker that has its  *)
(* receipt knows of the chain.  Claims, which needs these, counts who may  *)
(* be past the compare-and-swap.                                           *)
(***************************************************************************)
EXTENDS OnRamp, FiniteSetTheorems, TLAPS

registered(s) == posts[s] \in {"customer", "account", "done"}
busy(w) == pc[w] \notin {"idle", "listed", "locked", "done"}
recordedAsPaid == status \in {"payment_received", "delivering", "delivered"}

OneSigner ==
    /\ \A s \in Signers : registered(s) => customer
    /\ \A r, s \in Signers : registered(r) /\ registered(s) => r = s
    /\ \A s \in Signers : posts[s] \in {"customer", "account"} => receiver = None
    /\ receiver # None => \E s \in Signers : posts[s] = "done"

Working ==
    /\ \A w \in Workers : to[w] # None => to[w] = receiver
    /\ \A w \in Workers : busy(w) => to[w] # None
    /\ \A t \in DOMAIN txs : txs[t].to = receiver

PaidFirst ==
    /\ \A h \in Hooks : hooks[h] # None => hooks[h] \in paid
    /\ (recordedAsPaid \/ (\E w \in Workers : busy(w)) \/ txs # <<>>) => paid \cap Right # {}

Confirmed ==
    /\ \A w \in Workers : pc[w] = "sent" => tx[w] \in DOMAIN txs
    /\ (status = "delivered" \/ \E w \in Workers : pc[w] = "mined")
          => \E t \in DOMAIN txs : Settled(t)

RefMarked == \A t \in DOMAIN txs : Settled(t) => onrampRefUsed

IInv == TypeOK /\ OneSigner /\ Working /\ PaidFirst /\ Confirmed /\ RefMarked /\ PaidAtMostOnce

-----------------------------------------------------------------------------

\* The invariant holds of a row that has just been quoted.
LEMMA InitIInv == Init => IInv
<1> USE OnRampAssumption
<1>. SUFFICES ASSUME Init PROVE IInv
  OBVIOUS
<1>1. TypeOK
  <2>1. <<>> \in Seq(Tx)
    OBVIOUS
  <2>2. expired \in BOOLEAN /\ customer \in BOOLEAN /\ lock \in BOOLEAN
        /\ onrampRefUsed \in BOOLEAN /\ funded \in BOOLEAN
    BY DEF Init
  <2>3. cancels \subseteq Cancellers /\ paid \subseteq Payments
    BY DEF Init
  <2>4. faults \in 0 .. MaxFaults /\ crashes \in 0 .. MaxCrashes /\ tx \in [Workers -> 0 .. MaxTx]
    BY DEF Init, OnRampAssumption
  <2>5. /\ pc \in [Workers -> Phases] /\ to \in [Workers -> Signers \cup {None}]
        /\ posts \in [Signers -> {"none", "checked", "customer", "account", "done"}]
        /\ hooks \in [Hooks -> Payments \cup {None}]
    BY DEF Init, Phases
  <2>. QED
    BY <2>1, <2>2, <2>3, <2>4, <2>5 DEF Init, TypeOK, OnrampStatus
<1>2. OneSigner /\ Working /\ PaidFirst
  BY DEF Init, OneSigner, Working, PaidFirst, registered, busy, recordedAsPaid
<1>3. Confirmed /\ RefMarked /\ PaidAtMostOnce
  BY DEF Init, Confirmed, RefMarked, PaidAtMostOnce, Settled
<1>. QED
  BY <1>1, <1>2, <1>3 DEF IInv

\* Only a POST writes the receiver or what the provider has registered.
LEMMA SignerVars == Next => (\E s \in Signers : Post(s)) \/ UNCHANGED <<receiver, customer, posts>>
BY DEF Next, Expire, LockExpire, Drain, TopUp, Cancel, CancelRead, CancelWrite, Pay, Hook, HookRead,
       HookWrite, Worker, Daemon, Deliver, Poll, tryAcquireLock, releaseLock, DeliverRead, Flip,
       CheckRef, CheckReserve, Send, Wait, markDelivered, markFailed, rollbackToPaid, setStatus,
       CallFails, BackendStops, DaemonStops, Mine, row, bank

\* Only a worker moves a worker.
LEMMA WorkerVars ==
    Next => \/ \E w \in Workers : Worker(w) \/ CallFails(w) \/ BackendStops(w) \/ DaemonStops(w)
            \/ UNCHANGED <<pc, to, tx>>
BY DEF Next, Expire, LockExpire, Drain, TopUp, Cancel, CancelRead, CancelWrite, Pay, Hook, HookRead,
       HookWrite, Post, PostRead, PostCustomer, PostAccount, PostWrite, Mine, daemon

\* Only a send appends to the list of transactions, and only the chain marks.
LEMMA ChainVars ==
    Next => \/ \E w \in Workers : Send(w) \/ CallFails(w)
            \/ \E t \in 1 .. MaxTx : Mine(t)
            \/ UNCHANGED <<txs, onrampRefUsed>>
BY DEF Next, Expire, LockExpire, Drain, TopUp, Cancel, CancelRead, CancelWrite, Pay, Hook, HookRead,
       HookWrite, Post, PostRead, PostCustomer, PostAccount, PostWrite, Worker, Daemon, Deliver, Poll,
       tryAcquireLock, releaseLock, DeliverRead, Flip, CheckRef, CheckReserve, Wait, markDelivered,
       markFailed, rollbackToPaid, setStatus, BackendStops, DaemonStops, chain

\* OneSigner is preserved: only the holder of the customer record goes on.
LEMMA OneSignerStep == TypeOK /\ OneSigner /\ Next => OneSigner'
<1>. SUFFICES ASSUME TypeOK, OneSigner, Next PROVE OneSigner'
  OBVIOUS
<1>1. ASSUME NEW s \in Signers, PostRead(s) PROVE OneSigner'
  BY <1>1 DEF PostRead, OneSigner, registered, TypeOK, row, bank
<1>2. ASSUME NEW s \in Signers, PostCustomer(s) PROVE OneSigner'
  <2>1. CASE ~emailTaken /\ customer' /\ posts' = [posts EXCEPT ![s] = "customer"]
    <3>1. \A r \in Signers : ~registered(r)
      BY <2>1 DEF OneSigner, emailTaken
    <3>2. receiver = None
      BY <3>1 DEF OneSigner, registered
    <3>. QED
      BY <1>2, <2>1, <3>1, <3>2 DEF PostCustomer, OneSigner, registered, TypeOK, row
  <2>2. CASE posts' = [posts EXCEPT ![s] = "none"] /\ UNCHANGED customer
    BY <1>2, <2>2 DEF PostCustomer, OneSigner, registered, TypeOK, row
  <2>. QED
    BY <1>2, <2>1, <2>2 DEF PostCustomer
<1>3. ASSUME NEW s \in Signers, PostAccount(s) PROVE OneSigner'
  BY <1>3 DEF PostAccount, OneSigner, registered, TypeOK, row, bank
<1>4. ASSUME NEW s \in Signers, PostWrite(s) PROVE OneSigner'
  BY <1>4 DEF PostWrite, OneSigner, registered, TypeOK, row, bank
<1>5. CASE UNCHANGED <<receiver, customer, posts>>
  BY <1>5 DEF OneSigner, registered
<1>. QED
  BY <1>1, <1>2, <1>3, <1>4, <1>5, SignerVars DEF Post
\* What a step of a worker does to the sequence of transactions.
LEMMA BroadcastTo ==
    ASSUME TypeOK, NEW w \in Workers, to[w] \in Signers, broadcast(w)
    PROVE  /\ txs' \in Seq(Tx) /\ Len(txs) + 1 \in 1 .. MaxTx
           /\ DOMAIN txs' = DOMAIN txs \cup {Len(txs) + 1} /\ Len(txs) + 1 \notin DOMAIN txs
           /\ txs'[Len(txs) + 1] = [to |-> to[w], state |-> "pending"]
           /\ \A t \in DOMAIN txs : txs'[t] = txs[t]
<1>1. [to |-> to[w], state |-> "pending"] \in Tx
  BY DEF Tx
<1>2. txs \in Seq(Tx) /\ Len(txs) \in Nat /\ DOMAIN txs = 1 .. Len(txs)
  BY DEF TypeOK
<1>3. DOMAIN txs' = 1 .. Len(txs) + 1
  BY <1>1, <1>2 DEF broadcast
<1>. QED
  BY <1>1, <1>2, <1>3, OnRampAssumption DEF broadcast

\* A transaction that is mined keeps its receiver; the others keep everything.
LEMMA MineKeeps ==
    ASSUME TypeOK, NEW t \in 1 .. MaxTx, Mine(t)
    PROVE  /\ txs' \in Seq(Tx) /\ DOMAIN txs' = DOMAIN txs /\ t \in DOMAIN txs
           /\ \A u \in DOMAIN txs : txs'[u].to = txs[u].to
           /\ \A u \in DOMAIN txs \ {t} : txs'[u] = txs[u]
           /\ txs[t].state = "pending"
           /\ txs'[t].state = IF accepted THEN "ok" ELSE "reverted"
<1>1. txs \in Seq(Tx) /\ t \in DOMAIN txs /\ txs[t] \in Tx /\ txs[t].state = "pending"
  BY DEF TypeOK, Mine
<1> DEFINE new == [txs[t] EXCEPT !.state = IF accepted THEN "ok" ELSE "reverted"]
<1>2. txs' = [txs EXCEPT ![t] = new]
  BY DEF Mine
<1>3. new \in Tx /\ new.to = txs[t].to /\ new.state = IF accepted THEN "ok" ELSE "reverted"
  BY <1>1 DEF Tx
<1> HIDE DEF new
<1>4. txs' \in Seq(Tx) /\ DOMAIN txs' = DOMAIN txs
  BY <1>1, <1>2, <1>3
<1>5. txs'[t] = new /\ \A u \in DOMAIN txs \ {t} : txs'[u] = txs[u]
  BY <1>1, <1>2
<1>. QED
  BY <1>1, <1>3, <1>4, <1>5

-----------------------------------------------------------------------------

\* Working is preserved: the receiver a worker has read is still the row's.
LEMMA WorkingStep == TypeOK /\ OneSigner /\ Working /\ Next => Working'
<1>. SUFFICES ASSUME TypeOK, OneSigner, Working, Next PROVE Working'
  OBVIOUS
<1>1. ASSUME NEW s \in Signers, PostWrite(s) PROVE Working'
  <2>1. receiver = None
    BY <1>1 DEF PostWrite, OneSigner
  <2>2. \A w \in Workers : to[w] = None
    BY <2>1 DEF Working
  <2>3. \A t \in DOMAIN txs : FALSE
    <3>1. \A t \in DOMAIN txs : txs[t] \in Tx
      BY DEF TypeOK
    <3>. QED
      BY <3>1, <2>1, OnRampAssumption DEF Working, Tx
  <2>. QED
    BY <1>1, <2>2, <2>3 DEF PostWrite, Working, busy, daemon, chain
<1>2. ASSUME UNCHANGED receiver,
             NEW w \in Workers, Worker(w) \/ CallFails(w) \/ BackendStops(w) \/ DaemonStops(w)
      PROVE  Working'
  <2> USE DEF Working, busy, goto, TypeOK
  <2>1. CASE Send(w) \/ CallFails(w)
    <3>1. busy(w)
      BY <2>1 DEF Send, CallFails
    <3>2. to[w] = receiver /\ to[w] \in Signers /\ UNCHANGED to
      BY <3>1, <2>1 DEF Send, CallFails
    <3>3. \A v \in Workers : busy(v)' => busy(v)
      BY <2>1, <3>1 DEF Send, CallFails
    <3>4. broadcast(w) \/ UNCHANGED txs
      BY <2>1 DEF Send, CallFails
    <3>5. \A t \in DOMAIN txs' : txs'[t].to = receiver
      <4>1. CASE broadcast(w)
        <5>1. /\ DOMAIN txs' = DOMAIN txs \cup {Len(txs) + 1} /\ Len(txs) + 1 \notin DOMAIN txs
              /\ txs'[Len(txs) + 1] = [to |-> to[w], state |-> "pending"]
              /\ \A t \in DOMAIN txs : txs'[t] = txs[t]
          BY <4>1, <3>2, BroadcastTo
        <5>2. ASSUME NEW t \in DOMAIN txs' PROVE txs'[t].to = receiver
          <6>1. CASE t \in DOMAIN txs
            BY <5>1, <6>1
          <6>2. CASE t = Len(txs) + 1
            BY <5>1, <6>2, <3>2
          <6>. QED
            BY <5>1, <6>1, <6>2
        <5>. QED
          BY <5>2
      <4>. QED
        BY <3>4, <4>1
    <3>. QED
      BY <1>2, <3>2, <3>3, <3>5
  <2>2. CASE DeliverRead(w)
    BY <1>2, <2>2 DEF DeliverRead, chain
  <2>3. CASE releaseLock(w) \/ DaemonStops(w)
    BY <1>2, <2>3 DEF releaseLock, DaemonStops, chain
  <2>4. CASE Poll(w) \/ tryAcquireLock(w)
    BY <1>2, <2>4 DEF Poll, tryAcquireLock, chain
  <2>5. CASE Flip(w) \/ CheckRef(w) \/ CheckReserve(w) \/ Wait(w)
    BY <1>2, <2>5 DEF Flip, CheckRef, CheckReserve, Wait, Verdicts, chain
  <2>6. CASE markDelivered(w) \/ markFailed(w) \/ rollbackToPaid(w) \/ BackendStops(w)
    BY <1>2, <2>6 DEF markDelivered, markFailed, rollbackToPaid, setStatus, BackendStops, chain
  <2>. QED
    BY <1>2, <2>1, <2>2, <2>3, <2>4, <2>5, <2>6 DEF Worker, Daemon, Deliver
<1>3. ASSUME NEW t \in 1 .. MaxTx, Mine(t) PROVE Working'
  BY <1>3, MineKeeps DEF Mine, Working, busy, row, daemon
<1>4. CASE UNCHANGED <<receiver, pc, to, txs>>
  BY <1>4 DEF Working, busy
<1>5. (\E s \in Signers : Post(s)) => UNCHANGED <<pc, to, txs>>
  BY DEF Post, PostRead, PostCustomer, PostAccount, PostWrite, daemon, chain
<1>6. (\E s \in Signers : Post(s)) => (\E s \in Signers : PostWrite(s)) \/ UNCHANGED receiver
  BY DEF Post, PostRead, PostCustomer, PostAccount, row
<1>7. (\E w \in Workers : Send(w) \/ CallFails(w)) => \E w \in Workers : Worker(w) \/ CallFails(w)
  BY DEF Worker, Deliver
<1>8. (\E w \in Workers : Worker(w) \/ CallFails(w) \/ BackendStops(w) \/ DaemonStops(w))
         => UNCHANGED receiver
  BY DEF Worker, Daemon, Deliver, Poll, tryAcquireLock, releaseLock, DeliverRead, Flip, CheckRef,
         CheckReserve, Send, Wait, markDelivered, markFailed, rollbackToPaid, setStatus, CallFails,
         BackendStops, DaemonStops, row
<1>. QED
  BY <1>1, <1>2, <1>3, <1>4, <1>5, <1>6, <1>7, <1>8, SignerVars, WorkerVars, ChainVars
\* A step of a worker that may send: where it comes from and what it leaves.
LEMMA Sending ==
    ASSUME TypeOK, Working, NEW w \in Workers, Send(w) \/ CallFails(w)
    PROVE  /\ UNCHANGED <<row, expired, posts, cancels, bank, hooks, to, lock, onrampRefUsed, funded, crashes>>
           /\ pc[w] \in {"flipped", "unused", "covered", "sent"} /\ to[w] \in Signers
           /\ broadcast(w) \/ UNCHANGED txs
           /\ pc' \in [Workers -> Phases] /\ tx' \in [Workers -> 0 .. MaxTx]
           /\ faults' \in 0 .. MaxFaults
           /\ \A v \in Workers \ {w} : pc'[v] = pc[v] /\ tx'[v] = tx[v]
           /\ pc'[w] \in {"sent", "failing", "retrying"}
           /\ pc'[w] = "sent" => broadcast(w) /\ tx'[w] = Len(txs) + 1
<1>1. pc[w] \in {"flipped", "unused", "covered", "sent"}
  BY DEF Send, CallFails
<1>2. to[w] \in Signers
  BY <1>1 DEF Working, busy, TypeOK
<1>3. CASE Send(w)
  <2>1. CASE accepted /\ broadcast(w) /\ goto(w, "sent") /\ tx' = [tx EXCEPT ![w] = Len(txs) + 1]
    <3>1. Len(txs) + 1 \in 0 .. MaxTx
      <4>1. Len(txs) + 1 \in 1 .. MaxTx
        BY <2>1, <1>2, BroadcastTo
      <4>. QED
        BY <4>1
    <3>. QED
      BY <1>1, <1>2, <1>3, <2>1, <3>1 DEF Send, goto, TypeOK, Phases, spent
  <2>2. CASE (\E v \in Verdicts : goto(w, v)) /\ UNCHANGED <<txs, tx>>
    BY <1>1, <1>2, <1>3, <2>2 DEF Send, Verdicts, goto, TypeOK, Phases, spent
  <2>. QED
    BY <1>3, <2>1, <2>2 DEF Send, afterSend
<1>4. CASE CallFails(w)
  BY <1>1, <1>2, <1>4, OnRampAssumption DEF CallFails, Verdicts, goto, TypeOK, Phases
<1>. QED
  BY <1>3, <1>4

\* TypeOK is preserved.
LEMMA TypeStep == TypeOK /\ Working /\ Next => TypeOK'
<1>. SUFFICES ASSUME TypeOK, Working, Next PROVE TypeOK'
  OBVIOUS
<1>1. ASSUME NEW s \in Signers, Post(s) PROVE TypeOK'
  <2> USE DEF TypeOK, row, bank, daemon, chain, spent
  <2>1. CASE PostRead(s)
    BY <2>1 DEF PostRead
  <2>2. CASE PostCustomer(s)
    <3>1. customer' \in BOOLEAN
      BY <2>2 DEF PostCustomer
    <3>. QED
      BY <2>2, <3>1 DEF PostCustomer
  <2>3. CASE PostAccount(s)
    BY <2>3 DEF PostAccount
  <2>4. CASE PostWrite(s)
    BY <2>4 DEF PostWrite, OnrampStatus
  <2>. QED
    BY <1>1, <2>1, <2>2, <2>3, <2>4 DEF Post
<1>2. ASSUME NEW c \in Cancellers, Cancel(c) PROVE TypeOK'
  BY <1>2 DEF Cancel, CancelRead, CancelWrite, TypeOK, OnrampStatus, row, bank, daemon, chain, spent
<1>3. ASSUME NEW h \in Hooks, Hook(h) PROVE TypeOK'
  BY <1>3 DEF Hook, HookRead, HookWrite, TypeOK, OnrampStatus, row, bank, daemon, chain, spent
<1>4. ASSUME NEW p \in Payments, Pay(p) PROVE TypeOK'
  BY <1>4 DEF Pay, TypeOK, row, daemon, chain, spent
<1>5. CASE Expire \/ LockExpire \/ Drain \/ TopUp
  <2>1. expired' \in BOOLEAN /\ lock' \in BOOLEAN /\ funded' \in BOOLEAN
    BY <1>5 DEF Expire, LockExpire, Drain, TopUp, TypeOK, daemon, chain
  <2>2. faults' \in 0 .. MaxFaults
    BY <1>5, OnRampAssumption DEF Expire, LockExpire, Drain, TopUp, TypeOK, spent
  <2>. QED
    BY <1>5, <2>1, <2>2 DEF Expire, LockExpire, Drain, TopUp, TypeOK, row, bank, daemon, chain, spent
<1>6. ASSUME NEW w \in Workers, Daemon(w) PROVE TypeOK'
  <2>1. lock' \in BOOLEAN
    BY <1>6 DEF Daemon, Poll, tryAcquireLock, releaseLock, TypeOK
  <2>2. pc' \in [Workers -> Phases]
    BY <1>6 DEF Daemon, Poll, tryAcquireLock, releaseLock, goto, Phases, TypeOK
  <2>3. to' \in [Workers -> Signers \cup {None}] /\ tx' \in [Workers -> 0 .. MaxTx]
    <3>1. CASE releaseLock(w)
      BY <3>1, OnRampAssumption DEF releaseLock, TypeOK
    <3>2. CASE UNCHANGED <<to, tx>>
      BY <3>2 DEF TypeOK
    <3>. QED
      BY <1>6, <3>1, <3>2 DEF Daemon, Poll, tryAcquireLock
  <2>. QED
    BY <1>6, <2>1, <2>2, <2>3
    DEF Daemon, Poll, tryAcquireLock, releaseLock, TypeOK, row, bank, chain, spent
<1>7. ASSUME NEW w \in Workers, Send(w) \/ CallFails(w) PROVE TypeOK'
  <2>1. txs' \in Seq(Tx)
    BY <1>7, Sending, BroadcastTo DEF TypeOK
  <2>. QED
    BY <1>7, <2>1, Sending DEF TypeOK, row, bank
<1>8. ASSUME NEW w \in Workers, DeliverRead(w) \/ Flip(w) \/ CheckRef(w) \/ CheckReserve(w) \/ Wait(w)
      PROVE  TypeOK'
  <2>1. pc' \in [Workers -> Phases]
    BY <1>8 DEF DeliverRead, Flip, CheckRef, CheckReserve, afterShortfall, Wait, Verdicts, goto, Phases,
                TypeOK
  <2>2. to' \in [Workers -> Signers \cup {None}]
    BY <1>8 DEF DeliverRead, Flip, CheckRef, CheckReserve, Wait, TypeOK
  <2>3. status' \in OnrampStatus
    BY <1>8 DEF DeliverRead, Flip, CheckRef, CheckReserve, Wait, TypeOK, OnrampStatus, row
  <2>. QED
    BY <1>8, <2>1, <2>2, <2>3
    DEF DeliverRead, Flip, CheckRef, CheckReserve, Wait, TypeOK, row, bank, chain, spent
<1>9. ASSUME NEW w \in Workers, markDelivered(w) \/ markFailed(w) \/ rollbackToPaid(w) PROVE TypeOK'
  BY <1>9 DEF markDelivered, markFailed, rollbackToPaid, setStatus, goto, Phases, TypeOK, OnrampStatus,
              bank, chain, spent
<1>10. ASSUME NEW w \in Workers, BackendStops(w) \/ DaemonStops(w) PROVE TypeOK'
  <2>1. crashes' \in 0 .. MaxCrashes
    BY <1>10, OnRampAssumption DEF BackendStops, DaemonStops, TypeOK
  <2>2. pc' \in [Workers -> Phases]
    BY <1>10 DEF BackendStops, DaemonStops, goto, Phases, TypeOK
  <2>3. to' \in [Workers -> Signers \cup {None}] /\ tx' \in [Workers -> 0 .. MaxTx]
    <3>1. CASE DaemonStops(w)
      BY <3>1, OnRampAssumption DEF DaemonStops, TypeOK
    <3>2. CASE UNCHANGED <<to, tx>>
      BY <3>2 DEF TypeOK
    <3>. QED
      BY <1>10, <3>1, <3>2 DEF BackendStops
  <2>. QED
    BY <1>10, <2>1, <2>2, <2>3 DEF BackendStops, DaemonStops, TypeOK, row, bank, chain
<1>11. ASSUME NEW t \in 1 .. MaxTx, Mine(t) PROVE TypeOK'
  <2>1. txs' \in Seq(Tx)
    BY <1>11, MineKeeps
  <2>. QED
    BY <1>11, <2>1 DEF Mine, TypeOK, row, bank, daemon, spent
<1>. QED
  BY <1>1, <1>2, <1>3, <1>4, <1>5, <1>6, <1>7, <1>8, <1>9, <1>10, <1>11
  DEF Next, Worker, Deliver
-----------------------------------------------------------------------------

\* PaidFirst is preserved: before a right payment no worker can take the row.
LEMMA PaidFirstStep == TypeOK /\ Working /\ PaidFirst /\ Next => PaidFirst'
<1>. SUFFICES ASSUME TypeOK, Working, PaidFirst, Next PROVE PaidFirst'
  OBVIOUS
<1>1. paid \subseteq paid'
  <2>1. (\E p \in Payments : Pay(p)) \/ UNCHANGED paid
    BY WorkerVars DEF Next, Expire, LockExpire, Drain, TopUp, Cancel, CancelRead, CancelWrite, Hook,
       HookRead, HookWrite, Post, PostRead, PostCustomer, PostAccount, PostWrite, Worker, Daemon,
       Deliver, Poll, tryAcquireLock, releaseLock, DeliverRead, Flip, CheckRef, CheckReserve, Send,
       Wait, markDelivered, markFailed, rollbackToPaid, setStatus, CallFails, BackendStops,
       DaemonStops, Mine, bank
  <2>. QED
    BY <2>1 DEF Pay
<1>2. \A h \in Hooks : hooks'[h] # None => hooks'[h] \in paid'
  <2>1. ASSUME NEW h \in Hooks, Hook(h) PROVE \A g \in Hooks : hooks'[g] # None => hooks'[g] \in paid
    BY <2>1 DEF Hook, HookRead, HookWrite, PaidFirst, TypeOK
  <2>2. (\E h \in Hooks : Hook(h)) \/ UNCHANGED hooks
    BY DEF Next, Expire, LockExpire, Drain, TopUp, Cancel, CancelRead, CancelWrite, Pay,
       Post, PostRead, PostCustomer, PostAccount, PostWrite, Worker, Daemon,
       Deliver, Poll, tryAcquireLock, releaseLock, DeliverRead, Flip, CheckRef, CheckReserve, Send,
       Wait, markDelivered, markFailed, rollbackToPaid, setStatus, CallFails, BackendStops,
       DaemonStops, Mine
  <2>. QED
    BY <2>1, <2>2, <1>1 DEF PaidFirst
<1>3. CASE paid \cap Right # {}
  BY <1>1, <1>2, <1>3 DEF PaidFirst
<1>4. CASE paid \cap Right = {}
  <2>1. ~recordedAsPaid /\ (\A w \in Workers : ~busy(w)) /\ txs = <<>>
    BY <1>4 DEF PaidFirst
  <2>2. ~recordedAsPaid'
    <3>1. ASSUME NEW h \in Hooks, HookWrite(h) PROVE ~recordedAsPaid'
      BY <3>1, <1>4 DEF HookWrite, amountMatches, PaidFirst, recordedAsPaid
    <3>2. ASSUME NEW s \in Signers, PostWrite(s) PROVE ~recordedAsPaid'
      BY <3>2 DEF PostWrite, recordedAsPaid
    <3>3. ASSUME NEW c \in Cancellers, CancelWrite(c) PROVE ~recordedAsPaid'
      BY <3>3 DEF CancelWrite, recordedAsPaid
    <3>4. ASSUME NEW w \in Workers, Flip(w) \/ markDelivered(w) \/ markFailed(w) \/ rollbackToPaid(w)
          PROVE  ~recordedAsPaid'
      BY <3>4, <2>1 DEF Flip, markDelivered, markFailed, rollbackToPaid, setStatus, busy
    <3>5. \/ UNCHANGED status
          \/ \E h \in Hooks : HookWrite(h)
          \/ \E s \in Signers : PostWrite(s)
          \/ \E c \in Cancellers : CancelWrite(c)
          \/ \E w \in Workers : Flip(w) \/ markDelivered(w) \/ markFailed(w) \/ rollbackToPaid(w)
      BY DEF Next, Expire, LockExpire, Drain, TopUp, Cancel, CancelRead, Pay, Hook, HookRead,
         Post, PostRead, PostCustomer, PostAccount, Worker, Daemon, Deliver, Poll, tryAcquireLock,
         releaseLock, DeliverRead, CheckRef, CheckReserve, Send, Wait, CallFails, BackendStops,
         DaemonStops, Mine, row
    <3>. QED
      BY <2>1, <3>1, <3>2, <3>3, <3>4, <3>5 DEF recordedAsPaid
  <2>3. \A w \in Workers : ~busy(w)'
    <3>1. ASSUME NEW w \in Workers, Worker(w) \/ CallFails(w) \/ BackendStops(w) \/ DaemonStops(w)
          PROVE  \A v \in Workers : ~busy(v)'
      BY <2>1, <3>1 DEF busy, recordedAsPaid, Worker, Daemon, Deliver, Poll, tryAcquireLock,
         releaseLock, DeliverRead, Flip, CheckRef, CheckReserve, Send, Wait, markDelivered, markFailed,
         rollbackToPaid, setStatus, CallFails, BackendStops, DaemonStops, goto, TypeOK
    <3>. QED
      BY <2>1, <3>1, WorkerVars DEF busy
  <2>4. txs' = <<>>
    <3>1. ~(\E w \in Workers : Send(w) \/ CallFails(w))
      BY <2>1 DEF Send, CallFails, busy
    <3>2. ~(\E t \in 1 .. MaxTx : Mine(t))
      BY <2>1 DEF Mine
    <3>. QED
      BY <2>1, <3>1, <3>2, ChainVars
  <2>. QED
    BY <1>2, <2>2, <2>3, <2>4 DEF PaidFirst
<1>. QED
  BY <1>3, <1>4
\* No step takes a transaction off the list or a receipt back.
LEMMA ChainGrows ==
    ASSUME TypeOK, Working, Next
    PROVE  \A t \in DOMAIN txs : t \in DOMAIN txs' /\ (Settled(t) => Settled(t)')
<1>1. ASSUME NEW w \in Workers, Send(w) \/ CallFails(w), NEW t \in DOMAIN txs
      PROVE  t \in DOMAIN txs' /\ (Settled(t) => Settled(t)')
  <2>1. CASE broadcast(w)
    <3>1. to[w] \in Signers
      BY <1>1, Sending
    <3>2. t \in DOMAIN txs' /\ txs'[t] = txs[t]
      BY <2>1, <3>1, BroadcastTo
    <3>. QED
      BY <3>2 DEF Settled
  <2>2. CASE UNCHANGED txs
    BY <2>2 DEF Settled
  <2>. QED
    BY <1>1, <2>1, <2>2, Sending
<1>2. ASSUME NEW u \in 1 .. MaxTx, Mine(u), NEW t \in DOMAIN txs
      PROVE  t \in DOMAIN txs' /\ (Settled(t) => Settled(t)')
  <2>1. /\ DOMAIN txs' = DOMAIN txs /\ txs[u].state = "pending"
        /\ \A v \in DOMAIN txs \ {u} : txs'[v] = txs[v]
    BY <1>2, MineKeeps
  <2>. QED
    BY <2>1 DEF Settled
<1>3. CASE UNCHANGED txs
  BY <1>3 DEF Settled
<1>. QED
  BY <1>1, <1>2, <1>3, ChainVars

\* Confirmed is preserved: only a receipt leads to delivered.
LEMMA ConfirmedStep == TypeOK /\ Working /\ Confirmed /\ Next => Confirmed'
<1>. SUFFICES ASSUME TypeOK, Working, Confirmed, Next PROVE Confirmed'
  OBVIOUS
<1>1. \A t \in DOMAIN txs : t \in DOMAIN txs' /\ (Settled(t) => Settled(t)')
  BY ChainGrows
<1>2. ASSUME NEW v \in Workers, pc'[v] = "sent" PROVE tx'[v] \in DOMAIN txs'
  <2>1. CASE pc[v] = "sent" /\ tx'[v] = tx[v]
    BY <1>1, <2>1 DEF Confirmed
  <2>2. CASE \E w \in Workers : Send(w) \/ CallFails(w)
    <3>1. PICK w \in Workers : Send(w) \/ CallFails(w)
      BY <2>2
    <3>2. CASE v = w
      <4>1. broadcast(w) /\ tx'[w] = Len(txs) + 1 /\ to[w] \in Signers
        BY <3>1, <3>2, <1>2, Sending
      <4>. QED
        BY <4>1, <3>2, BroadcastTo
    <3>3. CASE v # w
      BY <1>2, <3>1, <3>3, <2>1, Sending
    <3>. QED
      BY <3>2, <3>3
  <2>3. ASSUME NEW w \in Workers, Daemon(w) \/ DeliverRead(w) \/ Flip(w) \/ CheckRef(w)
                  \/ CheckReserve(w) \/ Wait(w) \/ markDelivered(w) \/ markFailed(w)
                  \/ rollbackToPaid(w) \/ BackendStops(w) \/ DaemonStops(w)
        PROVE  pc[v] = "sent" /\ tx'[v] = tx[v]
    <3>1. CASE v = w
      <4>1. pc'[w] # "sent"
        BY <2>3 DEF TypeOK, Daemon, Poll, tryAcquireLock, releaseLock, DeliverRead, Flip, CheckRef,
           CheckReserve, afterShortfall, Wait, Verdicts, markDelivered, markFailed, rollbackToPaid,
           setStatus, BackendStops, DaemonStops, goto
      <4>. QED
        BY <4>1, <3>1, <1>2
    <3>2. CASE v # w
      BY <1>2, <2>3, <3>2 DEF TypeOK, Daemon, Poll, tryAcquireLock, releaseLock, DeliverRead, Flip,
         CheckRef, CheckReserve, Wait, markDelivered, markFailed, rollbackToPaid, setStatus,
         BackendStops, DaemonStops, goto
    <3>. QED
      BY <3>1, <3>2
  <2>4. CASE UNCHANGED <<pc, tx>>
    BY <1>2, <2>1, <2>4
  <2>. QED
    BY <2>1, <2>2, <2>3, <2>4, WorkerVars DEF Worker, Deliver
<1>3. ASSUME NEW v \in Workers, pc'[v] = "mined" PROVE \E t \in DOMAIN txs : Settled(t)
  <2>1. CASE pc[v] = "mined"
    BY <2>1 DEF Confirmed
  <2>2. CASE pc[v] # "mined"
    <3>1. ASSUME NEW w \in Workers, Worker(w) \/ CallFails(w) \/ BackendStops(w) \/ DaemonStops(w)
          PROVE  Wait(v) /\ txs[tx[v]].state = "ok"
      BY <1>3, <2>2, <3>1 DEF TypeOK, Worker, Daemon, Deliver, Poll, tryAcquireLock, releaseLock,
         DeliverRead, Flip, CheckRef, CheckReserve, afterShortfall, Send, afterSend, Wait, Verdicts,
         CallFails, markDelivered, markFailed, rollbackToPaid, setStatus, BackendStops, DaemonStops,
         goto
    <3>2. Wait(v) /\ txs[tx[v]].state = "ok"
      BY <1>3, <2>2, <3>1, WorkerVars
    <3>. QED
      BY <3>2 DEF Wait, Confirmed, Settled
  <2>. QED
    BY <2>1, <2>2
<1>4. ASSUME status' = "delivered" PROVE \E t \in DOMAIN txs : Settled(t)
  <2>1. status = "delivered" \/ \E w \in Workers : pc[w] = "mined"
    BY <1>4 DEF Next, Expire, LockExpire, Drain, TopUp, Cancel, CancelRead, CancelWrite, Pay, Hook,
       HookRead, HookWrite, Post, PostRead, PostCustomer, PostAccount, PostWrite, Worker, Daemon,
       Deliver, Poll, tryAcquireLock, releaseLock, DeliverRead, Flip, CheckRef, CheckReserve, Send,
       Wait, markDelivered, markFailed, rollbackToPaid, setStatus, CallFails, BackendStops,
       DaemonStops, Mine, row
  <2>. QED
    BY <2>1 DEF Confirmed
<1>. QED
  BY <1>1, <1>2, <1>3, <1>4 DEF Confirmed
\* The contract accepts a reference once, whoever sends for it.
LEMMA RefStep == TypeOK /\ Working /\ RefMarked /\ PaidAtMostOnce /\ Next => (RefMarked /\ PaidAtMostOnce)'
<1>. SUFFICES ASSUME TypeOK, Working, RefMarked, PaidAtMostOnce, Next
              PROVE  (RefMarked /\ PaidAtMostOnce)'
  OBVIOUS
<1>1. ASSUME NEW w \in Workers, Send(w) \/ CallFails(w) PROVE (RefMarked /\ PaidAtMostOnce)'
  <2>1. UNCHANGED onrampRefUsed /\ to[w] \in Signers
    BY <1>1, Sending
  <2>2. \A t \in DOMAIN txs' : Settled(t)' => t \in DOMAIN txs /\ Settled(t)
    <3>1. CASE broadcast(w)
      <4>1. /\ DOMAIN txs' = DOMAIN txs \cup {Len(txs) + 1}
            /\ txs'[Len(txs) + 1] = [to |-> to[w], state |-> "pending"]
            /\ \A t \in DOMAIN txs : txs'[t] = txs[t]
        BY <2>1, <3>1, BroadcastTo
      <4>2. ASSUME NEW t \in DOMAIN txs', Settled(t)' PROVE t \in DOMAIN txs /\ Settled(t)
        <5>1. t # Len(txs) + 1
          BY <4>1, <4>2 DEF Settled
        <5>. QED
          BY <4>1, <4>2, <5>1 DEF Settled
      <4>. QED
        BY <4>2
    <3>2. CASE UNCHANGED txs
      BY <3>2 DEF Settled
    <3>. QED
      BY <1>1, <3>1, <3>2, Sending
  <2>. QED
    BY <2>1, <2>2 DEF RefMarked, PaidAtMostOnce
<1>2. ASSUME NEW u \in 1 .. MaxTx, Mine(u) PROVE (RefMarked /\ PaidAtMostOnce)'
  <2>1. /\ DOMAIN txs' = DOMAIN txs /\ txs'[u].state = IF accepted THEN "ok" ELSE "reverted"
        /\ \A v \in DOMAIN txs \ {u} : txs'[v] = txs[v]
    BY <1>2, MineKeeps
  <2>2. CASE accepted
    <3>1. \A t \in DOMAIN txs : ~Settled(t)
      BY <2>2 DEF accepted, RefMarked
    <3>2. onrampRefUsed'
      BY <1>2, <2>2 DEF Mine
    <3>3. \A t \in DOMAIN txs' : Settled(t)' => t = u
      BY <2>1, <3>1 DEF Settled
    <3>. QED
      BY <3>2, <3>3 DEF RefMarked, PaidAtMostOnce
  <2>3. CASE ~accepted
    <3>1. \A t \in DOMAIN txs' : Settled(t)' => t \in DOMAIN txs /\ Settled(t)
      BY <2>1, <2>3 DEF Settled
    <3>2. onrampRefUsed => onrampRefUsed'
      BY <1>2 DEF Mine
    <3>. QED
      BY <3>1, <3>2 DEF RefMarked, PaidAtMostOnce
  <2>. QED
    BY <2>2, <2>3
<1>3. CASE UNCHANGED <<txs, onrampRefUsed>>
  BY <1>3 DEF RefMarked, PaidAtMostOnce, Settled
<1>. QED
  BY <1>1, <1>2, <1>3, ChainVars

-----------------------------------------------------------------------------
(* Who may be past the compare-and-swap.  Each such handler, each webhook  *)
(* call that has read the row and a row in payment_received stand for one  *)
(* claim on the delivery; webhook calls are where claims come from, and a  *)
(* call reads the row only while it is pending, when there is none.        *)

Delivering == {w \in Workers : delivering(w)}
Reading == {h \in Hooks : hooks[h] # None}
queued == IF status = "payment_received" THEN 1 ELSE 0

Claims ==
    /\ status = "pending_payment" => Delivering = {}
    /\ Cardinality(Delivering) + Cardinality(Reading) + queued <= Cardinality(Hooks)

\* The claims are counted by natural numbers.
LEMMA ClaimsCount ==
    /\ \A D : D \subseteq Workers => IsFiniteSet(D) /\ Cardinality(D) \in Nat
    /\ \A H : H \subseteq Hooks => IsFiniteSet(H) /\ Cardinality(H) \in Nat
                                   /\ Cardinality(H) <= Cardinality(Hooks)
    /\ Cardinality(Hooks) \in Nat
BY FS_Subset, FS_CardinalityType, OnRampAssumption

\* A step that starts no delivery, leaves the webhook calls alone and does not
\* queue or reopen the row makes no claim.
LEMMA NoClaim ==
    ASSUME Claims, Delivering' \subseteq Delivering, UNCHANGED hooks,
           status' = "payment_received" => status = "payment_received",
           status' = "pending_payment" => Delivering = {}
    PROVE  Claims'
<1>1. Reading' = Reading
  BY DEF Reading
<1>2. Cardinality(Delivering') <= Cardinality(Delivering)
  BY ClaimsCount, FS_Subset DEF Delivering
<1>3. queued' <= queued /\ queued \in Nat /\ queued' \in Nat
  BY DEF queued
<1>4. Delivering \subseteq Workers /\ Delivering' \subseteq Workers /\ Reading \subseteq Hooks
  BY DEF Delivering, Reading
<1>. QED
  BY <1>1, <1>2, <1>3, <1>4, ClaimsCount DEF Claims

\* The claim of the queued row passes to the worker that flips it.
LEMMA FlipClaims == ASSUME TypeOK, Claims, NEW w \in Workers, Flip(w) PROVE Claims'
<1>1. CASE ~mayFlip
  <2>1. Delivering' \subseteq Delivering
    BY <1>1 DEF Flip, goto, Delivering, delivering, TypeOK
  <2>. QED
    BY <1>1, <2>1, NoClaim DEF Flip, Claims
<1>2. CASE mayFlip
  <2>1. Delivering' = Delivering \cup {w} /\ w \notin Delivering
    BY <1>2 DEF Flip, goto, Delivering, delivering, TypeOK
  <2>2. queued = 1 /\ queued' = 0 /\ status' # "pending_payment" /\ Reading' = Reading
    BY <1>2 DEF Flip, mayFlip, queued, Reading
  <2>3. Delivering \subseteq Workers /\ Reading \subseteq Hooks
    BY DEF Delivering, Reading
  <2>4. Cardinality(Delivering') = Cardinality(Delivering) + 1
    BY <2>1, <2>3, ClaimsCount, FS_AddElement
  <2>. QED
    BY <2>2, <2>3, <2>4, ClaimsCount DEF Claims
<1>. QED
  BY <1>1, <1>2

\* A worker that ends its delivery gives its claim up, or back to the row.
LEMMA EndClaims ==
    ASSUME TypeOK, Claims, NEW w \in Workers, markDelivered(w) \/ markFailed(w) \/ rollbackToPaid(w)
    PROVE  Claims'
<1> USE DEF markDelivered, markFailed, rollbackToPaid, setStatus
<1>1. Delivering' = Delivering \ {w} /\ w \in Delivering
  BY DEF goto, Delivering, delivering, TypeOK
<1>2. status' # "pending_payment" /\ Reading' = Reading
  BY <1>1 DEF Claims, Reading
<1>3. Delivering \subseteq Workers /\ Reading \subseteq Hooks
  BY DEF Delivering, Reading
<1>4. Cardinality(Delivering') = Cardinality(Delivering) - 1
  BY <1>1, <1>3, ClaimsCount, FS_RemoveElement
<1>5. queued \in {0, 1} /\ queued' \in {0, 1}
  BY DEF queued
<1>. QED
  BY <1>2, <1>3, <1>4, <1>5, ClaimsCount DEF Claims

\* A webhook call makes its claim while nobody delivers, and queues the row with it.
LEMMA HookClaims == ASSUME TypeOK, Claims, NEW h \in Hooks, Hook(h) PROVE Claims'
<1>1. Delivering' = Delivering
  BY DEF Hook, HookRead, HookWrite, daemon, Delivering, delivering
<1>2. Delivering \subseteq Workers /\ Reading \subseteq Hooks /\ Reading' \subseteq Hooks
  BY DEF Delivering, Reading
<1>3. CASE \E p \in Payments : HookRead(h, p)
  <2>1. Delivering' = {} /\ queued' = 0
    BY <1>1, <1>3 DEF HookRead, row, Claims, queued
  <2>. QED
    BY <1>2, <2>1, ClaimsCount, FS_EmptySet DEF Claims
<1>4. CASE HookWrite(h)
  <2>1. Reading' = Reading \ {h} /\ h \in Reading
    BY <1>4 DEF HookWrite, Reading, TypeOK
  <2>2. Cardinality(Reading') = Cardinality(Reading) - 1
    BY <1>2, <2>1, ClaimsCount, FS_RemoveElement
  <2>3. status' # "pending_payment" /\ queued \in {0, 1} /\ queued' \in {0, 1}
    BY <1>4 DEF HookWrite, queued
  <2>. QED
    BY <1>1, <1>2, <2>2, <2>3, ClaimsCount DEF Claims
<1>. QED
  BY <1>3, <1>4 DEF Hook

\* Claims is preserved: no other step makes one.
LEMMA ClaimsStep == TypeOK /\ OneSigner /\ Working /\ Claims /\ Next => Claims'
<1>. SUFFICES ASSUME TypeOK, OneSigner, Working, Claims, Next PROVE Claims'
  OBVIOUS
<1>1. ASSUME NEW s \in Signers, PostWrite(s) PROVE Claims'
  <2>1. Delivering = {}
    BY <1>1 DEF PostWrite, OneSigner, Working, busy, Delivering, delivering
  <2>2. Delivering' = Delivering /\ UNCHANGED hooks /\ status' = "pending_payment"
    BY <1>1 DEF PostWrite, daemon, Delivering, delivering
  <2>. QED
    BY <2>1, <2>2, NoClaim
<1>2. ASSUME NEW c \in Cancellers, CancelWrite(c) PROVE Claims'
  <2>1. Delivering' = Delivering /\ UNCHANGED hooks /\ status' = "cancelled"
    BY <1>2 DEF CancelWrite, daemon, Delivering, delivering
  <2>. QED
    BY <2>1, NoClaim
<1>3. ASSUME NEW w \in Workers,
             \/ Daemon(w) \/ DeliverRead(w) \/ CheckRef(w) \/ CheckReserve(w) \/ Send(w) \/ Wait(w)
             \/ CallFails(w) \/ BackendStops(w) \/ DaemonStops(w)
      PROVE  Claims'
  <2>1. UNCHANGED status /\ UNCHANGED hooks
    BY <1>3 DEF Daemon, Poll, tryAcquireLock, releaseLock, DeliverRead, CheckRef, CheckReserve, Send,
       Wait, CallFails, BackendStops, DaemonStops, row
  <2>2. /\ \A v \in Workers \ {w} : pc'[v] = pc[v]
        /\ delivering(w)' => delivering(w)
    BY <1>3 DEF Daemon, Poll, tryAcquireLock, releaseLock, DeliverRead, CheckRef, CheckReserve,
       afterShortfall, Send, afterSend, Wait, Verdicts, CallFails, BackendStops, DaemonStops, goto,
       delivering, TypeOK
  <2>3. Delivering' \subseteq Delivering
    BY <2>2 DEF Delivering, delivering
  <2>. QED
    BY <2>1, <2>3, NoClaim DEF Claims
<1>4. CASE UNCHANGED <<status, hooks, pc>>
  BY <1>4 DEF Claims, Delivering, delivering, Reading, queued
<1>5. \/ UNCHANGED <<status, hooks, pc>>
      \/ \E s \in Signers : PostWrite(s)
      \/ \E c \in Cancellers : CancelWrite(c)
      \/ \E h \in Hooks : Hook(h)
      \/ \E w \in Workers : Worker(w) \/ CallFails(w) \/ BackendStops(w) \/ DaemonStops(w)
  BY DEF Next, Expire, LockExpire, Drain, TopUp, Cancel, CancelRead, Pay, Post, PostRead,
     PostCustomer, PostAccount, Mine, row, daemon
<1>. QED
  BY <1>1, <1>2, <1>3, <1>4, <1>5, FlipClaims, EndClaims, HookClaims DEF Worker, Deliver

\* No step of any handler, worker or failure leaves the invariant.
LEMMA NextIInv == IInv /\ [Next]_vars => IInv'
<1>. SUFFICES ASSUME IInv, [Next]_vars PROVE IInv'
  OBVIOUS
<1>1. CASE Next
  BY <1>1, TypeStep, OneSignerStep, WorkingStep, PaidFirstStep, ConfirmedStep, RefStep DEF IInv
<1>2. CASE UNCHANGED vars
  BY <1>2 DEF vars, row, bank, daemon, chain, spent, IInv, TypeOK, OneSigner, registered, Working,
     busy, PaidFirst, recordedAsPaid, Confirmed, RefMarked, PaidAtMostOnce, Settled
<1>. QED
  BY <1>1, <1>2

-----------------------------------------------------------------------------
(* What holds of every behaviour.                                          *)

\* The inductive invariant holds in every reachable state: the five kinds of
\* handler keep each other's assumptions, whatever their number and order.
THEOREM OnRampInvariant == Spec => []IInv
BY InitIInv, NextIInv, PTL DEF Spec

\* No more deliver handlers are past their compare-and-swap than webhook calls
\* may overlap, for any number of passes and of expired keys.
THEOREM OnRampOneDeliverer == Spec => []OneDeliverer
<1>1. Init => Claims
  <2>1. ASSUME Init PROVE Delivering = {} /\ Reading = {} /\ queued = 0
    BY <2>1 DEF Init, Delivering, delivering, Reading, queued
  <2>. QED
    BY <2>1, ClaimsCount, FS_EmptySet DEF Claims
<1>2. IInv /\ Claims /\ [Next]_vars => Claims'
  <2>1. UNCHANGED vars /\ Claims => Claims'
    BY DEF vars, row, daemon, Claims, Delivering, delivering, Reading, queued
  <2>. QED
    BY <2>1, ClaimsStep DEF IInv
<1>3. Claims => OneDeliverer
  <2>1. Delivering \subseteq Workers /\ Reading \subseteq Hooks /\ queued \in Nat
    BY DEF Delivering, Reading, queued
  <2>2. OneDeliverer <=> Cardinality(Delivering) <= Cardinality(Hooks)
    BY DEF OneDeliverer, Delivering
  <2>. QED
    BY <2>1, <2>2, ClaimsCount DEF Claims
<1>. QED
  BY <1>1, <1>2, <1>3, OnRampInvariant, PTL DEF Spec

\* The row, the handlers and the transactions keep their types.
THEOREM OnRampTypeOK == Spec => []TypeOK
BY OnRampInvariant, PTL DEF IInv

\* One reference is paid out at most once (deliver/+server.ts:22-24).
THEOREM OnRampPaidAtMostOnce == Spec => []PaidAtMostOnce
BY OnRampInvariant, PTL DEF IInv

\* No USDT is sent before a transfer of the right amount was made.
THEOREM OnRampPaidForPayment == Spec => []PaidForPayment
<1>1. IInv => PaidForPayment
  BY DEF IInv, PaidFirst, PaidForPayment
<1>. QED
  BY <1>1, OnRampInvariant, PTL

\* A row that says delivered has been paid out by the contract.
THEOREM OnRampDeliveredIsPaid == Spec => []DeliveredIsPaid
<1>1. IInv => DeliveredIsPaid
  BY DEF IInv, Confirmed, DeliveredIsPaid
<1>. QED
  BY <1>1, OnRampInvariant, PTL

\* Every transaction goes to the row's receiver.
THEOREM OnRampPaidToSigner == Spec => []PaidToSigner
<1>1. IInv => PaidToSigner
  BY DEF IInv, Working, PaidToSigner
<1>. QED
  BY <1>1, OnRampInvariant, PTL

\* Once a receiver is bound, it is never replaced (intent/+server.ts:6-8).
THEOREM OnRampReceiverFixed == Spec => ReceiverFixed
<1>1. IInv /\ [Next]_vars => [receiver # None => receiver' = receiver]_receiver
  <2>. SUFFICES ASSUME IInv, Next, receiver # None PROVE receiver' = receiver
    BY DEF vars, row
  <2>1. ASSUME NEW s \in Signers, Post(s) PROVE receiver' = receiver
    BY <2>1 DEF Post, PostRead, PostCustomer, PostAccount, PostWrite, row, IInv, OneSigner
  <2>. QED
    BY <2>1, SignerVars
<1>. QED
  BY <1>1, OnRampInvariant, PTL DEF Spec, ReceiverFixed
=============================================================================
