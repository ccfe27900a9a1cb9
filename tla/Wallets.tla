------------------------------ MODULE Wallets ------------------------------
(***************************************************************************)
(* The embedded wallets of one user: the wallets table, the handlers of    *)
(* /api/wallets and the browser tabs that call them.                       *)
(*                                                                         *)
(* The server keeps a wallet's seed encrypted under a PIN that only the    *)
(* tabs see; a blob is modelled by the PIN that opens it.  Every await of  *)
(* a handler ends a step, and what it read is kept in its call.  Several   *)
(* calls, of one tab or of several devices, are under way at once; a tab   *)
(* that is reloaded no longer waits for its calls, which run on.  Names,   *)
(* account counts, preferences and the recovery blobs beside the primary   *)
(* one are left out.  Foo_Slip beside Foo is a plausible slip in Foo.      *)
(***************************************************************************)
EXTENDS Naturals, FiniteSets

CONSTANTS
    Ids,            \* what gen_random_uuid() may return
    Pins,
    Tabs,           \* open pages, of one device or of several
    Calls,          \* handlers that may be under way at once
    None,           \* no PIN, no wallet, no tab
    MaxFaults       \* bound on failing database calls

ASSUME WalletsAssumption ==
    /\ None \notin Ids \cup Pins \cup Tabs
    /\ IsFiniteSet(Ids) /\ MaxFaults \in Nat

VARIABLES
    stored, primary,    \* the user's rows, and those with is_primary
    blob,               \* the PIN that opens a stored row's primary_blob
    issued,             \* ids given out so far
    list,               \* _state.wallets of each tab: its wallets and their blobs
    changing,           \* _pinChanging of each tab
    call,               \* the handlers under way
    faults,
    lapsed              \* history: a deletion was under way beside a promotion of
                        \* its wallet, or the insert of a primary failed

table == <<stored, primary, blob, issued>>
tabs == <<list, changing>>
vars == <<table, tabs, call, faults, lapsed>>

Steps == {"idle", "post", "insert", "patch", "promote", "update", "delete", "count", "remove",
          "rotate", "rotating"}

\* A handler: its step, the tab that waits, the body, and what it has read.
\* over is history: the listed rows another call wrote since the check.
Handler == [at: Steps, tab: Tabs \cup {None}, id: Ids \cup {None}, pin: Pins \cup {None},
            flag: BOOLEAN, listed: SUBSET Ids, todo: SUBSET Ids, over: SUBSET Ids]

Idle == [at |-> "idle", tab |-> None, id |-> None, pin |-> None, flag |-> FALSE,
         listed |-> {}, todo |-> {}, over |-> {}]

TypeOK ==
    /\ stored \subseteq issued /\ issued \subseteq Ids
    /\ primary \subseteq stored
    /\ blob \in [Ids -> Pins \cup {None}]
    /\ list \in [Tabs -> [Ids -> Pins \cup {None}]]
    /\ changing \in [Tabs -> BOOLEAN]
    /\ call \in [Calls -> Handler]
    /\ faults \in 0 .. MaxFaults /\ lapsed \in BOOLEAN

Init ==
    /\ stored = {} /\ primary = {} /\ issued = {}
    /\ blob = [i \in Ids |-> None]
    /\ list = [t \in Tabs |-> [i \in Ids |-> None]]
    /\ changing = [t \in Tabs |-> FALSE]
    /\ call = [c \in Calls |-> Idle]
    /\ faults = 0 /\ lapsed = FALSE

-----------------------------------------------------------------------------
(* The tab.                                                                *)

Shown(t) == {i \in Ids : list[t][i] # None}

\* Handlers that will promote or delete the wallet they name, and one about to
\* insert the row that is to be the primary.
Promoting(h) == h.at = "promote" \/ (h.at = "patch" /\ h.flag)
Deleting(h) == h.at \in {"delete", "count", "remove"}
Crosses(g, h) == g.id = h.id /\ Promoting(g) /\ Deleting(h)
Signing(h) == h.at = "insert" /\ h.flag

\* A call leaves the tab.
Send(c, h) ==
    /\ call[c].at = "idle" /\ call' = [call EXCEPT ![c] = h]
    /\ lapsed' = (lapsed \/ \E d \in Calls : Crosses(h, call[d]) \/ Crosses(call[d], h))
    /\ UNCHANGED <<table, list, faults>>

\* autoReconnect(), unlockWallet() of a fresh page: the list is fetched, the
\* calls of the page before are nobody's.
Reload(t) ==
    /\ list' = [list EXCEPT ![t] = blob]
    /\ changing' = [changing EXCEPT ![t] = FALSE]
    /\ call' = [c \in Calls |-> IF call[c].tab = t THEN [call[c] EXCEPT !.tab = None] ELSE call[c]]
    /\ UNCHANGED <<table, faults, lapsed>>

\* createNewWallet() under whatever PIN was typed, importWallet() under the
\* cached one.  This client never sends setPrimary; the handler accepts it.
Create(c, t, p, setPrimary) ==
    /\ Send(c, [Idle EXCEPT !.at = "post", !.tab = t, !.pin = p, !.flag = setPrimary])
    /\ UNCHANGED changing

\* setPrimaryWallet() (flag), setNewPin() after a recovery (a PIN).
Patch(c, t, i, setPrimary, p) ==
    /\ i \in Shown(t)
    /\ Send(c, [Idle EXCEPT !.at = "patch", !.tab = t, !.id = i, !.flag = setPrimary, !.pin = p])
    /\ UNCHANGED changing

Delete(c, t, i) ==
    /\ i \in Shown(t)
    /\ Send(c, [Idle EXCEPT !.at = "delete", !.tab = t, !.id = i])
    /\ UNCHANGED changing

\* changePin(): the current PIN opens every blob of the list, as the tab has it.
ChangePin(c, t, current, p) ==
    /\ ~changing[t] /\ Shown(t) # {} /\ p # current
    /\ \A i \in Shown(t) : list[t][i] = current
    /\ Send(c, [Idle EXCEPT !.at = "rotate", !.tab = t, !.pin = p,
                            !.listed = Shown(t), !.todo = Shown(t)])
    /\ changing' = [changing EXCEPT ![t] = TRUE]

-----------------------------------------------------------------------------
(* Answers.                                                                *)

\* The tab that still waits puts the blobs of ids under pin p (None: drops them).
Reply(t, ids, p) ==
    list' = IF t = None THEN list
            ELSE [list EXCEPT ![t] = [i \in Ids |-> IF i \in ids THEN p ELSE @[i]]]

\* finally { _pinChanging = false }
Settle(c) ==
    changing' = IF call[c].at \in {"rotate", "rotating"} /\ call[c].tab # None
                THEN [changing EXCEPT ![call[c].tab] = FALSE] ELSE changing

Refuse(c) ==
    /\ call' = [call EXCEPT ![c] = Idle] /\ Settle(c)
    /\ UNCHANGED <<table, list>>

Fault == faults < MaxFaults /\ faults' = faults + 1
Calm == UNCHANGED <<faults, lapsed>>

\* A database call that fails is answered with 500, wherever it is not ignored.
DbError(c) ==
    /\ call[c].at \in {"insert", "patch", "promote", "update", "delete", "count",
                       "remove", "rotate", "rotating"}
    /\ Fault /\ Refuse(c)
    /\ lapsed' = (lapsed \/ Signing(call[c]))

-----------------------------------------------------------------------------
(* POST /api/wallets                                                       *)

\* Decide the primary flag; errors of either call are not looked at, and a
\* count that failed counts as none.
PostDecide(c) ==
    /\ call[c].at = "post"
    /\ \/ /\ call[c].flag /\ primary' = {} /\ Calm
          /\ call' = [call EXCEPT ![c] = [@ EXCEPT !.at = "insert"]]
       \/ /\ call[c].flag /\ UNCHANGED <<primary, lapsed>> /\ Fault
          /\ call' = [call EXCEPT ![c] = [@ EXCEPT !.at = "insert"]]
       \/ /\ ~call[c].flag /\ UNCHANGED primary
          /\ call' = [call EXCEPT ![c] = [@ EXCEPT !.at = "insert", !.flag = (stored = {})]]
          /\ Calm
       \/ /\ ~call[c].flag /\ UNCHANGED <<primary, lapsed>>
          /\ call' = [call EXCEPT ![c] = [@ EXCEPT !.at = "insert", !.flag = TRUE]]
          /\ Fault
    /\ UNCHANGED <<stored, blob, issued, tabs>>

PostInsert_Slip(c) ==       \* without the unique index
    /\ call[c].at = "insert" /\ Calm
    /\ \E i \in Ids \ issued :
          /\ stored' = stored \cup {i} /\ issued' = issued \cup {i}
          /\ primary' = IF call[c].flag THEN primary \cup {i} ELSE primary
          /\ blob' = [blob EXCEPT ![i] = call[c].pin]
          /\ Reply(call[c].tab, {i}, call[c].pin)
    /\ call' = [call EXCEPT ![c] = Idle] /\ UNCHANGED changing

\* idx_wallets_one_primary_per_user refuses a second primary.
PostInsert(c) ==
    /\ call[c].at = "insert" /\ Calm
    /\ \/ /\ call[c].flag => primary = {}
          /\ \E i \in Ids \ issued :
                /\ stored' = stored \cup {i} /\ issued' = issued \cup {i}
                /\ primary' = IF call[c].flag THEN primary \cup {i} ELSE primary
                /\ blob' = [blob EXCEPT ![i] = call[c].pin]
                /\ Reply(call[c].tab, {i}, call[c].pin)
          /\ call' = [call EXCEPT ![c] = Idle] /\ UNCHANGED changing
       \/ call[c].flag /\ primary # {} /\ Refuse(c)

-----------------------------------------------------------------------------
(* PATCH /api/wallets/[id]                                                 *)

PatchLoad(c) ==
    /\ call[c].at = "patch" /\ Calm
    /\ \/ /\ call[c].id \in stored
          /\ call' = [call EXCEPT ![c] = [@ EXCEPT !.at = IF call[c].flag THEN "promote" ELSE "update"]]
          /\ UNCHANGED <<table, tabs>>
       \/ call[c].id \notin stored /\ Refuse(c)

\* set_primary_wallet: one transaction, which demotes even when the wallet it
\* should promote is gone.
PatchPromote(c) ==
    /\ call[c].at = "promote" /\ Calm
    /\ primary' = {call[c].id} \cap stored
    /\ call' = [call EXCEPT ![c] = IF call[c].pin = None THEN Idle ELSE [@ EXCEPT !.at = "update"]]
    /\ UNCHANGED <<stored, blob, issued, tabs>>

\* A row's blob is written: rotations that list it have been overtaken.
Write(c, i, p) ==
    blob' = IF i \in stored THEN [blob EXCEPT ![i] = p] ELSE blob

Overtake(c, i) ==
    [d \in Calls |-> IF d # c /\ call[d].at = "rotating" /\ i \in call[d].listed
                     THEN [call[d] EXCEPT !.over = @ \cup {i}] ELSE call[d]]

PatchUpdate(c) ==
    /\ call[c].at = "update" /\ Calm
    /\ \/ /\ call[c].id \in stored
          /\ Write(c, call[c].id, call[c].pin)
          /\ Reply(call[c].tab, {call[c].id}, call[c].pin)
          /\ call' = [Overtake(c, call[c].id) EXCEPT ![c] = Idle]
          /\ UNCHANGED <<stored, primary, issued, changing>>
       \/ call[c].id \notin stored /\ Refuse(c)

-----------------------------------------------------------------------------
(* DELETE /api/wallets/[id]                                                *)

\* loadOwnedWallet()
DeleteLoad(c) ==
    /\ call[c].at = "delete" /\ Calm
    /\ \/ /\ call[c].id \in stored
          /\ call' = [call EXCEPT ![c] = [@ EXCEPT !.at = "count", !.flag = (call[c].id \in primary)]]
          /\ UNCHANGED <<table, tabs>>
       \/ call[c].id \notin stored /\ Refuse(c)

\* The count, and both guards: is_primary as it was loaded.
DeleteGuard_Slip(c) ==       \* without the second guard
    /\ call[c].at = "count" /\ Calm
    /\ \/ /\ Cardinality(stored) > 1
          /\ call' = [call EXCEPT ![c] = [@ EXCEPT !.at = "remove"]]
          /\ UNCHANGED <<table, tabs>>
       \/ Cardinality(stored) <= 1 /\ Refuse(c)

DeleteGuard(c) ==
    /\ call[c].at = "count" /\ Calm
    /\ \/ /\ Cardinality(stored) > 1 /\ ~call[c].flag
          /\ call' = [call EXCEPT ![c] = [@ EXCEPT !.at = "remove"]]
          /\ UNCHANGED <<table, tabs>>
       \/ (Cardinality(stored) <= 1 \/ call[c].flag) /\ Refuse(c)

DeleteRow(c) ==
    /\ call[c].at = "remove" /\ Calm
    /\ stored' = stored \ {call[c].id} /\ primary' = primary \ {call[c].id}
    /\ blob' = [blob EXCEPT ![call[c].id] = None]
    /\ Reply(call[c].tab, {call[c].id}, None)
    /\ call' = [call EXCEPT ![c] = Idle]
    /\ UNCHANGED <<issued, changing>>

-----------------------------------------------------------------------------
(* POST /api/wallets/rotate-pin                                            *)

RotateCheck(c) ==
    /\ call[c].at = "rotate" /\ Calm
    /\ \/ /\ call[c].listed \subseteq stored
          /\ call' = [call EXCEPT ![c] = [@ EXCEPT !.at = "rotating"]]
          /\ UNCHANGED <<table, tabs>>
       \/ ~(call[c].listed \subseteq stored) /\ Refuse(c)

\* One row after the other; a row deleted since the check matches nothing.
RotateRow_Slip(c, i) ==       \* upsert: a deleted row is inserted again
    /\ call[c].at = "rotating" /\ i \in call[c].todo /\ Calm
    /\ stored' = stored \cup {i}
    /\ blob' = [blob EXCEPT ![i] = call[c].pin]
    /\ call' = [Overtake(c, i) EXCEPT ![c] = [@ EXCEPT !.todo = call[c].todo \ {i}, !.over = call[c].over \ {i}]]
    /\ UNCHANGED <<primary, issued, tabs>>

RotateRow(c, i) ==
    /\ call[c].at = "rotating" /\ i \in call[c].todo /\ Calm
    /\ Write(c, i, call[c].pin)
    /\ call' = [Overtake(c, i) EXCEPT ![c] = [@ EXCEPT !.todo = call[c].todo \ {i}, !.over = call[c].over \ {i}]]
    /\ UNCHANGED <<stored, primary, issued, tabs>>

RotateAnswer_Slip(c) ==       \* errors of single rows are counted, not answered
    /\ call[c].at = "rotating" /\ Calm
    /\ Reply(call[c].tab, {}, None)
    /\ call' = [call EXCEPT ![c] = Idle] /\ Settle(c)
    /\ UNCHANGED table

RotateAnswer(c) ==
    /\ call[c].at = "rotating" /\ call[c].todo = {} /\ Calm
    /\ Reply(call[c].tab, call[c].listed \cap (IF call[c].tab = None THEN {} ELSE Shown(call[c].tab)),
             call[c].pin)
    /\ call' = [call EXCEPT ![c] = Idle] /\ Settle(c)
    /\ UNCHANGED table

-----------------------------------------------------------------------------

Tab(c, t) ==
    \/ \E p \in Pins, s \in BOOLEAN : Create(c, t, p, s)
    \/ \E i \in Ids : Delete(c, t, i) \/ Patch(c, t, i, TRUE, None)
    \/ \E i \in Ids, p \in Pins, s \in BOOLEAN : Patch(c, t, i, s, p)
    \/ \E p, q \in Pins : ChangePin(c, t, p, q)

Serve(c) ==
    \/ PostDecide(c) \/ PostInsert(c)
    \/ PatchLoad(c) \/ PatchPromote(c) \/ PatchUpdate(c)
    \/ DeleteLoad(c) \/ DeleteGuard(c) \/ DeleteRow(c)
    \/ RotateCheck(c) \/ (\E i \in Ids : RotateRow(c, i)) \/ RotateAnswer(c)
    \/ DbError(c)

Next ==
    \/ \E t \in Tabs : Reload(t)
    \/ \E c \in Calls, t \in Tabs : Tab(c, t)
    \/ \E c \in Calls : Serve(c)

Spec == Init /\ [][Next]_vars

-----------------------------------------------------------------------------
(* Properties.                                                             *)

\* At most one primary, whatever is under way: every writer of the flag goes
\* through the index or the transaction (POST 120-151, set_primary_wallet).
AtMostOnePrimary == \A i, j \in primary : i = j

\* Once a user has a wallet one of them signs, whatever calls meet or fail: two
\* first creations, creations and promotions over each other, deletions of every
\* other wallet at once, a count or a demotion that fails ("cannot delete the
\* last wallet (leaves user with no signing key)", [id]/+server.ts:145-147).
\* Only two histories are excepted, and the code does lose the primary in them:
\* a deletion beside a promotion of the same wallet, and an insert that fails
\* after its handler has demoted the primary for it (wallets/+server.ts:131-156).
SignerKept ==
    lapsed \/ issued = {} \/ primary # {} \/ \E c \in Calls : Signing(call[c])

\* A wallet that was deleted does not come back, by a rotation that had already
\* checked it either (rotate-pin 7-10, 72-74).
NoResurrection == [][stored' \cap issued \subseteq stored]_vars

\* A rotation answered with success has put each wallet it listed under the new
\* PIN, except those another call wrote over it meanwhile (rotate-pin 75-88).
RotationHolds ==
    [][\A c \in Calls : call[c].at = "rotating" /\ call'[c].at = "idle" /\ faults' = faults =>
          \A i \in call[c].listed \cap stored : blob[i] = call[c].pin \/ i \in call[c].over]_vars
=============================================================================
