--------------------------- MODULE WalletsProofs ----------------------------
(***************************************************************************)
(* Wallets.tla for every set of ids, PINs, tabs and handlers.              *)
(***************************************************************************)
EXTENDS Wallets, TLAPS

\* A rotation under way lists rows that once were there, and has put those it is
\* done with under its PIN.
Held(c) ==
    /\ call[c].at = "rotate" => call[c].todo = call[c].listed
    /\ call[c].at = "rotating" =>
          /\ call[c].listed \subseteq issued
          /\ \A i \in (call[c].listed \ call[c].todo) \cap stored :
                blob[i] = call[c].pin \/ i \in call[c].over

RotatedSoFar == \A c \in Calls : Held(c)

-----------------------------------------------------------------------------
(* Types.                                                                  *)

LEMMA IdleIsHandler == Idle \in Handler
BY DEF Idle, Handler, Steps

\* A handler goes on to another step, with another flag or with one row less to do.
LEMMA StepOn ==
    ASSUME NEW f \in [Calls -> Handler], NEW c \in Calls, NEW a \in Steps
    PROVE  [f EXCEPT ![c] = [@ EXCEPT !.at = a]] \in [Calls -> Handler]
BY DEF Handler

LEMMA FlagOn ==
    ASSUME NEW f \in [Calls -> Handler], NEW c \in Calls, NEW a \in Steps, NEW b \in BOOLEAN
    PROVE  [f EXCEPT ![c] = [@ EXCEPT !.at = a, !.flag = b]] \in [Calls -> Handler]
BY DEF Handler

LEMMA RowOn ==
    ASSUME NEW f \in [Calls -> Handler], NEW c \in Calls,
           NEW x \in SUBSET Ids, NEW y \in SUBSET Ids
    PROVE  [f EXCEPT ![c] = [@ EXCEPT !.todo = x, !.over = y]] \in [Calls -> Handler]
BY DEF Handler

LEMMA NamesAreSteps ==
    {"insert", "promote", "update", "count", "remove", "rotating"} \subseteq Steps
BY DEF Steps

LEMMA CallsOn ==
    ASSUME NEW f \in [Calls -> Handler], NEW c \in Calls, NEW h \in Handler
    PROVE  [f EXCEPT ![c] = h] \in [Calls -> Handler]
OBVIOUS

LEMMA InitType == Init => TypeOK
<1> SUFFICES ASSUME Init PROVE TypeOK
  OBVIOUS
<1>1. 0 \in 0 .. MaxFaults
  BY WalletsAssumption
<1>2. call \in [Calls -> Handler]
  BY IdleIsHandler DEF Init
<1>3. QED
  BY <1>1, <1>2 DEF Init, TypeOK

LEMMA ReplyType ==
    ASSUME TypeOK, NEW t \in Tabs \cup {None}, NEW ids, NEW p \in Pins \cup {None}, Reply(t, ids, p)
    PROVE  list' \in [Tabs -> [Ids -> Pins \cup {None}]]
BY DEF Reply, TypeOK

LEMMA SettleType ==
    ASSUME TypeOK, NEW c \in Calls, Settle(c)
    PROVE  changing' \in [Tabs -> BOOLEAN]
BY DEF Settle, TypeOK, Handler

LEMMA RefuseType ==
    ASSUME TypeOK, NEW c \in Calls, Refuse(c)
    PROVE  /\ call' \in [Calls -> Handler] /\ changing' \in [Tabs -> BOOLEAN]
           /\ UNCHANGED <<table, list>>
BY IdleIsHandler, SettleType DEF Refuse, TypeOK

LEMMA OvertakeType ==
    ASSUME TypeOK, NEW c \in Calls, NEW i \in Ids
    PROVE  Overtake(c, i) \in [Calls -> Handler]
<1>1. ASSUME NEW h \in Handler PROVE [h EXCEPT !.over = @ \cup {i}] \in Handler
  BY <1>1 DEF Handler
<1>2. call \in [Calls -> Handler]
  BY DEF TypeOK
<1> DEFINE raised(d) == d # c /\ call[d].at = "rotating" /\ i \in call[d].listed
<1>3. Overtake(c, i) = [d \in Calls |-> IF raised(d) THEN [call[d] EXCEPT !.over = @ \cup {i}]
                                                  ELSE call[d]]
  BY DEF Overtake
<1> HIDE DEF raised
<1>4. QED
  BY <1>1, <1>2, <1>3

LEMMA BudgetType ==
    ASSUME TypeOK, Calm \/ Fault
    PROVE  faults' \in 0 .. MaxFaults /\ (Calm => lapsed' \in BOOLEAN)
BY WalletsAssumption DEF Calm, Fault, TypeOK

LEMMA SendType ==
    ASSUME TypeOK, NEW c \in Calls, NEW h \in Handler, Send(c, h),
           changing' \in [Tabs -> BOOLEAN]
    PROVE  TypeOK'
<1>1. lapsed' \in BOOLEAN
  BY DEF Send, TypeOK
<1>2. call' \in [Calls -> Handler]
  BY DEF Send, TypeOK
<1>3. QED
  BY <1>1, <1>2 DEF Send, TypeOK, table

LEMMA TabType ==
    ASSUME TypeOK, NEW c \in Calls, NEW t \in Tabs, Tab(c, t)
    PROVE  TypeOK'
<1>1. CASE \E p \in Pins, s \in BOOLEAN : Create(c, t, p, s)
  <2>1. PICK p \in Pins, s \in BOOLEAN : Create(c, t, p, s)
    BY <1>1
  <2>2. [Idle EXCEPT !.at = "post", !.tab = t, !.pin = p, !.flag = s] \in Handler
    BY DEF Idle, Handler, Steps
  <2>3. QED
    BY <2>1, <2>2, SendType DEF Create, TypeOK
<1>2. CASE \E i \in Ids : Delete(c, t, i)
  <2>1. PICK i \in Ids : Delete(c, t, i)
    BY <1>2
  <2>2. [Idle EXCEPT !.at = "delete", !.tab = t, !.id = i] \in Handler
    BY DEF Idle, Handler, Steps
  <2>3. QED
    BY <2>1, <2>2, SendType DEF Delete, TypeOK
<1>3. CASE \E i \in Ids, s \in BOOLEAN, p \in Pins \cup {None} : Patch(c, t, i, s, p)
  <2>1. PICK i \in Ids, s \in BOOLEAN, p \in Pins \cup {None} : Patch(c, t, i, s, p)
    BY <1>3
  <2>2. [Idle EXCEPT !.at = "patch", !.tab = t, !.id = i, !.flag = s, !.pin = p] \in Handler
    BY DEF Idle, Handler, Steps
  <2>3. QED
    BY <2>1, <2>2, SendType DEF Patch, TypeOK
<1>4. CASE \E p, q \in Pins : ChangePin(c, t, p, q)
  <2>1. PICK p \in Pins, q \in Pins : ChangePin(c, t, p, q)
    BY <1>4
  <2>2. [Idle EXCEPT !.at = "rotate", !.tab = t, !.pin = q,
                     !.listed = Shown(t), !.todo = Shown(t)] \in Handler
    BY DEF Idle, Handler, Steps, Shown
  <2>3. changing' \in [Tabs -> BOOLEAN]
    BY <2>1 DEF ChangePin, TypeOK
  <2>4. QED
    BY <2>1, <2>2, <2>3, SendType DEF ChangePin
<1>5. QED
  BY <1>1, <1>2, <1>3, <1>4 DEF Tab

\* A step of a handler that leaves the rows and the tabs alone.
LEMMA ServeType ==
    ASSUME TypeOK, NEW c \in Calls, Serve(c)
    PROVE  TypeOK'
<1> USE IdleIsHandler, NamesAreSteps
<1>0. call[c] \in Handler /\ call \in [Calls -> Handler]
  BY DEF TypeOK
<1>1. CASE PostDecide(c)
  <2>0. "insert" \in Steps /\ (stored = {}) \in BOOLEAN /\ TRUE \in BOOLEAN
    BY DEF Steps
  <2>a. /\ [call EXCEPT ![c] = [@ EXCEPT !.at = "insert"]] \in [Calls -> Handler]
        /\ [call EXCEPT ![c] = [@ EXCEPT !.at = "insert", !.flag = TRUE]] \in [Calls -> Handler]
    BY <1>0, <2>0, StepOn, FlagOn
  <2>b. [call EXCEPT ![c] = [@ EXCEPT !.at = "insert", !.flag = (stored = {})]] \in [Calls -> Handler]
    BY <1>0, <2>0, FlagOn
  <2>1. call' \in [Calls -> Handler]
    BY <1>1, <2>a, <2>b DEF PostDecide
  <2>2. (Calm \/ Fault) /\ (Calm \/ UNCHANGED lapsed)
    BY <1>1 DEF PostDecide
  <2>3. QED
    BY <1>1, <2>1, <2>2, BudgetType DEF PostDecide, TypeOK, tabs
<1>2. CASE PostInsert(c)
  <2>1. CASE Refuse(c)
    BY <1>2, <2>1, RefuseType, BudgetType DEF PostInsert, TypeOK, table
  <2>2. CASE ~Refuse(c)
    <3>1. PICK i \in Ids \ issued :
             /\ stored' = stored \cup {i} /\ issued' = issued \cup {i}
             /\ primary' = IF call[c].flag THEN primary \cup {i} ELSE primary
             /\ blob' = [blob EXCEPT ![i] = call[c].pin]
             /\ Reply(call[c].tab, {i}, call[c].pin)
             /\ call' = [call EXCEPT ![c] = Idle] /\ UNCHANGED changing
      BY <1>2, <2>2 DEF PostInsert
    <3>2. call[c].tab \in Tabs \cup {None} /\ call[c].pin \in Pins \cup {None}
      BY DEF TypeOK, Handler
    <3>3. list' \in [Tabs -> [Ids -> Pins \cup {None}]]
      BY <3>1, <3>2, ReplyType
    <3>4. QED
      BY <1>2, <3>1, <3>2, <3>3, BudgetType DEF PostInsert, TypeOK
  <2>3. QED
    BY <2>1, <2>2
<1>3. CASE PatchLoad(c)
  <2>1. CASE Refuse(c)
    BY <1>3, <2>1, RefuseType, BudgetType DEF PatchLoad, TypeOK, table
  <2>2. CASE ~Refuse(c)
    <3>a. [call EXCEPT ![c] = [@ EXCEPT !.at = "promote"]] \in [Calls -> Handler]
      BY <1>0, StepOn
    <3>b. [call EXCEPT ![c] = [@ EXCEPT !.at = "update"]] \in [Calls -> Handler]
      BY <1>0, StepOn
    <3>1. call' \in [Calls -> Handler]
      BY <1>3, <2>2, <3>a, <3>b DEF PatchLoad
    <3>2. QED
      BY <1>3, <2>2, <3>1, BudgetType DEF PatchLoad, TypeOK, table, tabs
  <2>3. QED
    BY <2>1, <2>2
<1>4. CASE PatchPromote(c)
  <2>1. call' \in [Calls -> Handler]
    BY <1>0, <1>4, StepOn, FlagOn, CallsOn DEF PatchPromote
  <2>2. QED
    BY <1>4, <2>1, BudgetType DEF PatchPromote, TypeOK, tabs
<1>5. CASE PatchUpdate(c)
  <2>1. CASE Refuse(c)
    BY <1>5, <2>1, RefuseType, BudgetType DEF PatchUpdate, TypeOK, table
  <2>2. CASE ~Refuse(c)
    <3>1. /\ call[c].tab \in Tabs \cup {None} /\ call[c].pin \in Pins \cup {None}
          /\ call[c].id \in Ids
      BY <1>5, <2>2 DEF PatchUpdate, TypeOK, Handler
    <3>2. list' \in [Tabs -> [Ids -> Pins \cup {None}]]
      BY <1>5, <2>2, <3>1, ReplyType DEF PatchUpdate
    <3>3. call' \in [Calls -> Handler]
      BY <1>5, <2>2, <3>1, OvertakeType, CallsOn DEF PatchUpdate
    <3>4. blob' \in [Ids -> Pins \cup {None}]
      BY <1>5, <2>2, <3>1 DEF PatchUpdate, Write, TypeOK
    <3>5. QED
      BY <1>5, <2>2, <3>2, <3>3, <3>4, BudgetType DEF PatchUpdate, TypeOK
  <2>3. QED
    BY <2>1, <2>2
<1>6. CASE DeleteLoad(c)
  <2>1. CASE Refuse(c)
    BY <1>6, <2>1, RefuseType, BudgetType DEF DeleteLoad, TypeOK, table
  <2>2. CASE ~Refuse(c)
    <3>a. [call EXCEPT ![c] = [@ EXCEPT !.at = "count", !.flag = (call[c].id \in primary)]] \in [Calls -> Handler]
      <4>1. "count" \in Steps /\ (call[c].id \in primary) \in BOOLEAN
        OBVIOUS
      <4>2. QED
        BY <1>0, <4>1, FlagOn
    <3>1. call' \in [Calls -> Handler]
      BY <1>6, <2>2, <3>a DEF DeleteLoad
    <3>2. QED
      BY <1>6, <2>2, <3>1, BudgetType DEF DeleteLoad, TypeOK, table, tabs
  <2>3. QED
    BY <2>1, <2>2
<1>7. CASE DeleteGuard(c)
  <2>1. CASE Refuse(c)
    BY <1>7, <2>1, RefuseType, BudgetType DEF DeleteGuard, TypeOK, table
  <2>2. CASE ~Refuse(c)
    <3>a. [call EXCEPT ![c] = [@ EXCEPT !.at = "remove"]] \in [Calls -> Handler]
      BY <1>0, StepOn
    <3>1. call' \in [Calls -> Handler]
      BY <1>7, <2>2, <3>a DEF DeleteGuard
    <3>2. QED
      BY <1>7, <2>2, <3>1, BudgetType DEF DeleteGuard, TypeOK, table, tabs
  <2>3. QED
    BY <2>1, <2>2
<1>8. CASE DeleteRow(c)
  <2>1. call[c].tab \in Tabs \cup {None}
    BY DEF TypeOK, Handler
  <2>2. list' \in [Tabs -> [Ids -> Pins \cup {None}]]
    BY <1>8, <2>1, ReplyType DEF DeleteRow
  <2>3. QED
    BY <1>8, <2>2, BudgetType DEF DeleteRow, TypeOK
<1>9. CASE RotateCheck(c)
  <2>1. CASE Refuse(c)
    BY <1>9, <2>1, RefuseType, BudgetType DEF RotateCheck, TypeOK, table
  <2>2. CASE ~Refuse(c)
    <3>a. [call EXCEPT ![c] = [@ EXCEPT !.at = "rotating"]] \in [Calls -> Handler]
      BY <1>0, StepOn
    <3>1. call' \in [Calls -> Handler]
      BY <1>9, <2>2, <3>a DEF RotateCheck
    <3>2. QED
      BY <1>9, <2>2, <3>1, BudgetType DEF RotateCheck, TypeOK, table, tabs
  <2>3. QED
    BY <2>1, <2>2
<1>10. CASE \E i \in Ids : RotateRow(c, i)
  <2>1. PICK i \in Ids : RotateRow(c, i)
    BY <1>10
  <2>2. blob' \in [Ids -> Pins \cup {None}]
    BY <2>1 DEF RotateRow, Write, TypeOK, Handler
  <2>3. call' \in [Calls -> Handler]
    <3>1. /\ Overtake(c, i) \in [Calls -> Handler]
          /\ call[c].todo \ {i} \in SUBSET Ids /\ call[c].over \ {i} \in SUBSET Ids
      BY <1>0, OvertakeType DEF Handler
    <3>2. [Overtake(c, i) EXCEPT ![c] = [@ EXCEPT !.todo = call[c].todo \ {i},
                                                  !.over = call[c].over \ {i}]] \in [Calls -> Handler]
      BY <3>1, RowOn
    <3>3. QED
      BY <2>1, <3>2 DEF RotateRow
  <2>4. QED
    BY <2>1, <2>2, <2>3, BudgetType DEF RotateRow, TypeOK, tabs
<1>11. CASE RotateAnswer(c)
  <2>1. call[c].tab \in Tabs \cup {None} /\ call[c].pin \in Pins \cup {None}
    BY DEF TypeOK, Handler
  <2>2. list' \in [Tabs -> [Ids -> Pins \cup {None}]]
    BY <1>11, <2>1, ReplyType DEF RotateAnswer
  <2>3. QED
    BY <1>11, <2>2, SettleType, BudgetType DEF RotateAnswer, TypeOK, table
<1>12. CASE DbError(c)
  <2>1. lapsed' \in BOOLEAN
    BY <1>12 DEF DbError, TypeOK
  <2>2. QED
    BY <1>12, <2>1, RefuseType, BudgetType DEF DbError, TypeOK, table
<1>13. QED
  BY <1>1, <1>2, <1>3, <1>4, <1>5, <1>6, <1>7, <1>8, <1>9, <1>10, <1>11, <1>12 DEF Serve

LEMMA NextType == TypeOK /\ [Next]_vars => TypeOK'
<1> SUFFICES ASSUME TypeOK, [Next]_vars PROVE TypeOK'
  OBVIOUS
<1>1. CASE \E t \in Tabs : Reload(t)
  <2>1. PICK t \in Tabs : Reload(t)
    BY <1>1
  <2>2. call' \in [Calls -> Handler]
    <3>1. \A h \in Handler : [h EXCEPT !.tab = None] \in Handler
      BY DEF Handler
    <3>2. QED
      BY <2>1, <3>1 DEF Reload, TypeOK
  <2>3. list' \in [Tabs -> [Ids -> Pins \cup {None}]] /\ changing' \in [Tabs -> BOOLEAN]
    BY <2>1 DEF Reload, TypeOK
  <2>4. QED
    BY <2>1, <2>2, <2>3 DEF Reload, TypeOK, table
<1>2. CASE \E c \in Calls, t \in Tabs : Tab(c, t)
  BY <1>2, TabType
<1>3. CASE \E c \in Calls : Serve(c)
  BY <1>3, ServeType
<1>4. CASE UNCHANGED vars
  BY <1>4 DEF TypeOK, vars, table, tabs
<1>5. QED
  BY <1>1, <1>2, <1>3, <1>4 DEF Next

\* Every variable keeps its type.
THEOREM WalletsTypeCorrect == Spec => []TypeOK
BY InitType, NextType, PTL DEF Spec

-----------------------------------------------------------------------------
(* The table's own rules.                                                  *)

LEMMA TabKeeps ==
    ASSUME NEW c \in Calls, NEW t \in Tabs, Tab(c, t)
    PROVE  /\ UNCHANGED <<table, list, faults>> /\ call[c].at = "idle"
           /\ \E h : /\ call' = [call EXCEPT ![c] = h] /\ h.at # "rotating"
                     /\ h.at = "rotate" => h.todo = h.listed
<1>1. ASSUME NEW h, Send(c, h), h.at # "rotating", h.at = "rotate" => h.todo = h.listed
      PROVE  /\ UNCHANGED <<table, list, faults>> /\ call[c].at = "idle"
             /\ \E k : /\ call' = [call EXCEPT ![c] = k] /\ k.at # "rotating"
                       /\ k.at = "rotate" => k.todo = k.listed
  BY <1>1, Zenon DEF Send
<1>2. CASE \E p \in Pins, s \in BOOLEAN : Create(c, t, p, s)
  <2>1. PICK p \in Pins, s \in BOOLEAN : Create(c, t, p, s)
    BY <1>2
  <2>2. [Idle EXCEPT !.at = "post", !.tab = t, !.pin = p, !.flag = s].at = "post"
    BY DEF Idle
  <2>3. QED
    BY <1>1, <2>1, <2>2 DEF Create
<1>3. CASE \E i \in Ids : Delete(c, t, i)
  <2>1. PICK i \in Ids : Delete(c, t, i)
    BY <1>3
  <2>2. [Idle EXCEPT !.at = "delete", !.tab = t, !.id = i].at = "delete"
    BY DEF Idle
  <2>3. QED
    BY <1>1, <2>1, <2>2 DEF Delete
<1>4. CASE \E i \in Ids, s \in BOOLEAN, p \in Pins \cup {None} : Patch(c, t, i, s, p)
  <2>1. PICK i \in Ids, s \in BOOLEAN, p \in Pins \cup {None} : Patch(c, t, i, s, p)
    BY <1>4
  <2>2. [Idle EXCEPT !.at = "patch", !.tab = t, !.id = i, !.flag = s, !.pin = p].at = "patch"
    BY DEF Idle
  <2>3. QED
    BY <1>1, <2>1, <2>2 DEF Patch
<1>5. CASE \E p, q \in Pins : ChangePin(c, t, p, q)
  <2>1. PICK p \in Pins, q \in Pins : ChangePin(c, t, p, q)
    BY <1>5
  <2> DEFINE k == [Idle EXCEPT !.at = "rotate", !.tab = t, !.pin = q,
                               !.listed = Shown(t), !.todo = Shown(t)]
  <2>2. k.at = "rotate" /\ k.todo = k.listed
    BY DEF Idle
  <2>3. Send(c, k)
    BY <2>1 DEF ChangePin
  <2> HIDE DEF k
  <2>4. QED
    BY <1>1, <2>2, <2>3
<1>6. QED
  BY <1>2, <1>3, <1>4, <1>5 DEF Tab

LEMMA PrimaryStep == TypeOK /\ AtMostOnePrimary /\ [Next]_vars => AtMostOnePrimary'
<1> SUFFICES ASSUME TypeOK, AtMostOnePrimary, [Next]_vars PROVE AtMostOnePrimary'
  OBVIOUS
<1>1. CASE UNCHANGED primary
  BY <1>1 DEF AtMostOnePrimary
<1>2. CASE \E c \in Calls : Serve(c) /\ ~UNCHANGED primary
  <2>1. PICK c \in Calls : Serve(c) /\ ~UNCHANGED primary
    BY <1>2
  <2>2. PostDecide(c) \/ PostInsert(c) \/ PatchPromote(c) \/ DeleteRow(c)
    BY <2>1 DEF Serve, PatchLoad, PatchUpdate, DeleteLoad, DeleteGuard, RotateCheck, RotateRow,
                RotateAnswer, DbError, Refuse, table
  <2>3. CASE PostDecide(c)
    BY <2>3 DEF PostDecide, AtMostOnePrimary
  <2>4. CASE PostInsert(c)
    BY <2>4 DEF PostInsert, Refuse, table, AtMostOnePrimary
  <2>5. CASE PatchPromote(c)
    BY <2>5 DEF PatchPromote, AtMostOnePrimary
  <2>6. CASE DeleteRow(c)
    BY <2>6 DEF DeleteRow, AtMostOnePrimary
  <2>7. QED
    BY <2>2, <2>3, <2>4, <2>5, <2>6
<1>3. QED
  <2>1. CASE \E t \in Tabs : Reload(t)
    BY <1>1, <2>1 DEF Reload, table
  <2>2. CASE \E c \in Calls, t \in Tabs : Tab(c, t)
    BY <1>1, <2>2, TabKeeps DEF table
  <2>3. CASE UNCHANGED vars
    BY <1>1, <2>3 DEF vars, table
  <2>4. QED
    BY <1>1, <1>2, <2>1, <2>2, <2>3 DEF Next

\* At most one wallet of the user is the primary.
THEOREM WalletsOnePrimary == Spec => []AtMostOnePrimary
<1>1. Init => AtMostOnePrimary
  BY DEF Init, AtMostOnePrimary
<1>2. QED
  BY <1>1, PrimaryStep, WalletsTypeCorrect, PTL DEF Spec

\* Rows come from PostInsert, with an id that was never given out.
LEMMA NewRowsAreNew ==
    ASSUME TypeOK, [Next]_vars
    PROVE  stored' \cap issued \subseteq stored
<1>1. CASE stored' \subseteq stored
  BY <1>1
<1>2. CASE \E c \in Calls : PostInsert(c)
  BY <1>2 DEF PostInsert, Refuse, table
<1>3. CASE \E c \in Calls : Serve(c) /\ ~PostInsert(c)
  <2>1. PICK c \in Calls : Serve(c) /\ ~PostInsert(c)
    BY <1>3
  <2>2. stored' \subseteq stored
    BY <2>1 DEF Serve, PostDecide, PatchLoad, PatchPromote, PatchUpdate, DeleteLoad, DeleteGuard,
                DeleteRow, RotateCheck, RotateRow, RotateAnswer, DbError, Refuse, table
  <2>3. QED
    BY <1>1, <2>2
<1>4. QED
  <2>1. CASE \E t \in Tabs : Reload(t)
    BY <1>1, <2>1 DEF Reload, table
  <2>2. CASE \E c \in Calls, t \in Tabs : Tab(c, t)
    BY <1>1, <2>2, TabKeeps DEF table
  <2>3. CASE UNCHANGED vars
    BY <1>1, <2>3 DEF vars, table
  <2>4. QED
    BY <1>1, <1>2, <1>3, <2>1, <2>2, <2>3 DEF Next

\* No deleted wallet comes back.
THEOREM WalletsNoResurrection == Spec => NoResurrection
<1>1. TypeOK /\ [Next]_vars => [stored' \cap issued \subseteq stored]_vars
  BY NewRowsAreNew
<1>2. QED
  BY <1>1, WalletsTypeCorrect, PTL DEF Spec, NoResurrection

-----------------------------------------------------------------------------
(* Rotations.                                                              *)

\* A step that rotation d has no part in and that writes no blob.
LEMMA OthersKeep ==
    ASSUME TypeOK, NEW d \in Calls, Held(d), call'[d] = call[d],
           \A i \in stored' \cap issued : i \in stored /\ blob'[i] = blob[i],
           issued \subseteq issued'
    PROVE  Held(d)'
BY DEF Held

\* A step that ends in a handler that does not rotate.
LEMMA NotRotating ==
    ASSUME NEW d \in Calls, call'[d].at \notin {"rotate", "rotating"}
    PROVE  Held(d)'
BY DEF Held

LEMMA IdleHeld ==
    ASSUME TypeOK, NEW c \in Calls, NEW d \in Calls, Held(d), call' = [call EXCEPT ![c] = Idle],
           UNCHANGED table
    PROVE  Held(d)'
<1>1. CASE d = c
  BY <1>1, NotRotating DEF TypeOK, Idle
<1>2. CASE d # c
  BY <1>2, OthersKeep DEF TypeOK, table
<1>3. QED
  BY <1>1, <1>2

LEMMA AtOn ==
    ASSUME NEW h \in Handler
    PROVE  /\ \A a : [h EXCEPT !.at = a].at = a
           /\ \A a, b : [h EXCEPT !.at = a, !.flag = b].at = a
BY DEF Handler

LEMMA HeldStep ==
    ASSUME TypeOK, RotatedSoFar, NEW c \in Calls, Serve(c), NEW d \in Calls
    PROVE  Held(d)'
<1>0. Held(d) /\ call \in [Calls -> Handler]
  BY DEF RotatedSoFar, TypeOK
<1>1. CASE Refuse(c) \/ DbError(c) \/ RotateAnswer(c)
  BY <1>0, <1>1, IdleHeld DEF Refuse, DbError, RotateAnswer, table
<1>2. CASE PostDecide(c)
  <2>1. UNCHANGED <<stored, blob, issued>>
    BY <1>2 DEF PostDecide
  <2>2. CASE d = c
    <3>1. call'[c].at = "insert"
      <4>1. \/ call' = [call EXCEPT ![c] = [@ EXCEPT !.at = "insert"]]
            \/ call' = [call EXCEPT ![c] = [@ EXCEPT !.at = "insert", !.flag = (stored = {})]]
            \/ call' = [call EXCEPT ![c] = [@ EXCEPT !.at = "insert", !.flag = TRUE]]
        BY <1>2 DEF PostDecide
      <4>2. call[c] \in Handler
        BY <1>0
      <4>3. /\ [call[c] EXCEPT !.at = "insert"].at = "insert"
            /\ [call[c] EXCEPT !.at = "insert", !.flag = (stored = {})].at = "insert"
            /\ [call[c] EXCEPT !.at = "insert", !.flag = TRUE].at = "insert"
        BY <4>2, AtOn
      <4>4. \/ call'[c] = [call[c] EXCEPT !.at = "insert"]
            \/ call'[c] = [call[c] EXCEPT !.at = "insert", !.flag = (stored = {})]
            \/ call'[c] = [call[c] EXCEPT !.at = "insert", !.flag = TRUE]
        BY <1>0, <4>1
      <4>5. QED
        BY <4>3, <4>4, Zenon
    <3>2. QED
      BY <2>2, <3>1, NotRotating
  <2>3. CASE d # c
    <3>1. call'[d] = call[d]
      BY <1>0, <1>2, <2>3 DEF PostDecide
    <3>2. QED
      BY <1>0, <2>1, <3>1, OthersKeep
  <2>4. QED
    BY <2>2, <2>3
<1>3. CASE PostInsert(c) /\ ~Refuse(c)
  <2>1. PICK i \in Ids \ issued :
           /\ stored' = stored \cup {i} /\ issued' = issued \cup {i}
           /\ blob' = [blob EXCEPT ![i] = call[c].pin]
           /\ call' = [call EXCEPT ![c] = Idle]
    BY <1>3 DEF PostInsert
  <2>2. CASE d = c
    BY <1>0, <2>1, <2>2, NotRotating DEF Idle
  <2>3. CASE d # c
    <3>1. call'[d] = call[d]
      BY <1>0, <2>1, <2>3
    <3>2. \A j \in stored' \cap issued : j \in stored /\ blob'[j] = blob[j]
      BY <2>1 DEF TypeOK
    <3>3. QED
      BY <1>0, <2>1, <3>1, <3>2, OthersKeep
  <2>4. QED
    BY <2>2, <2>3
<1>4. CASE (PatchLoad(c) \/ PatchPromote(c) \/ DeleteLoad(c) \/ DeleteGuard(c)) /\ ~Refuse(c)
  <2>1. UNCHANGED <<stored, blob, issued>>
    BY <1>4 DEF PatchLoad, PatchPromote, DeleteLoad, DeleteGuard, table
  <2>2. CASE d = c
    <3>0. call[c] \in Handler
      BY <1>0
    <3>1. ASSUME NEW a, call'[c] = [call[c] EXCEPT !.at = a], a \notin {"rotate", "rotating"}
          PROVE  Held(d)'
      <4>1. [call[c] EXCEPT !.at = a].at = a
        BY <3>0, AtOn
      <4>2. call'[d].at = a
        BY <2>2, <3>1, <4>1
      <4>3. QED
        BY <3>1, <4>2, NotRotating
    <3>a. CASE PatchLoad(c)
      <4>1. \/ call'[c] = [call[c] EXCEPT !.at = "promote"]
            \/ call'[c] = [call[c] EXCEPT !.at = "update"]
        BY <1>0, <1>4, <3>a DEF PatchLoad
      <4>2. QED
        BY <3>1, <4>1
    <3>b. CASE PatchPromote(c)
      <4>1. call'[c] = Idle \/ call'[c] = [call[c] EXCEPT !.at = "update"]
        BY <1>0, <3>b DEF PatchPromote
      <4>2. QED
        BY <2>2, <3>1, <4>1, NotRotating DEF Idle
    <3>c. CASE DeleteLoad(c)
      <4>1. call'[c] = [call[c] EXCEPT !.at = "count", !.flag = (call[c].id \in primary)]
        BY <1>0, <1>4, <3>c DEF DeleteLoad
      <4>2. call'[c].at = "count"
        BY <3>0, <4>1, AtOn
      <4>3. QED
        BY <2>2, <4>2, NotRotating
    <3>d. CASE DeleteGuard(c)
      <4>1. call'[c] = [call[c] EXCEPT !.at = "remove"]
        BY <1>0, <1>4, <3>d DEF DeleteGuard
      <4>2. QED
        BY <3>1, <4>1
    <3>2. QED
      BY <1>4, <3>a, <3>b, <3>c, <3>d
  <2>3. CASE d # c
    <3>1. call'[d] = call[d]
      BY <1>0, <1>4, <2>3 DEF PatchLoad, PatchPromote, DeleteLoad, DeleteGuard
    <3>2. QED
      BY <1>0, <2>1, <3>1, OthersKeep
  <2>4. QED
    BY <2>2, <2>3
<1>5. CASE DeleteRow(c)
  <2>1. CASE d = c
    BY <1>0, <1>5, <2>1, NotRotating DEF DeleteRow, Idle
  <2>2. CASE d # c
    <3>1. call'[d] = call[d]
      BY <1>0, <1>5, <2>2 DEF DeleteRow
    <3>2. \A j \in stored' \cap issued : j \in stored /\ blob'[j] = blob[j]
      BY <1>5 DEF DeleteRow, TypeOK
    <3>3. QED
      BY <1>0, <1>5, <3>1, <3>2, OthersKeep DEF DeleteRow
  <2>3. QED
    BY <2>1, <2>2
<1>6. CASE RotateCheck(c) /\ ~Refuse(c)
  <2>1. /\ call[c].listed \subseteq stored /\ call[c].at = "rotate" /\ UNCHANGED table
        /\ call' = [call EXCEPT ![c] = [@ EXCEPT !.at = "rotating"]]
    BY <1>6 DEF RotateCheck
  <2>2. CASE d = c
    <3>1. /\ call'[c].at = "rotating" /\ call'[c].listed = call[c].listed
          /\ call'[c].todo = call[c].listed
      BY <1>0, <2>1, <2>2 DEF Handler, Held
    <3>2. QED
      BY <2>1, <2>2, <3>1 DEF Held, table, TypeOK
  <2>3. CASE d # c
    BY <1>0, <2>1, <2>3, OthersKeep DEF table
  <2>4. QED
    BY <2>2, <2>3
<1>7. CASE PatchUpdate(c) /\ ~Refuse(c)
  <2> DEFINE i == call[c].id
  <2>1. /\ i \in stored /\ Write(c, i, call[c].pin) /\ UNCHANGED <<stored, issued>>
        /\ call' = [Overtake(c, i) EXCEPT ![c] = Idle]
    BY <1>7 DEF PatchUpdate
  <2>2. CASE d = c
    BY <2>1, <2>2, NotRotating DEF Idle, Overtake
  <2>3. CASE d # c
    <3>1. call'[d] = Overtake(c, i)[d]
      BY <2>1, <2>3 DEF Overtake
    <3>2. QED
      BY <1>0, <2>1, <2>3, <3>1 DEF Overtake, Write, Held, TypeOK, Handler
  <2>4. QED
    BY <2>2, <2>3
<1>8. CASE \E i \in Ids : RotateRow(c, i)
  <2>1. PICK i \in Ids : RotateRow(c, i)
    BY <1>8
  <2>2. CASE d = c
    <3>1. /\ call'[c].at = "rotating" /\ call'[c].todo = call[c].todo \ {i}
          /\ call'[c].over = call[c].over \ {i} /\ call'[c].pin = call[c].pin
          /\ call'[c].listed = call[c].listed
      BY <1>0, <2>1 DEF RotateRow, Overtake, Handler
    <3>2. QED
      BY <1>0, <2>1, <2>2, <3>1 DEF RotateRow, Write, Held, TypeOK
  <2>3. CASE d # c
    <3>1. call'[d] = Overtake(c, i)[d]
      BY <2>1, <2>3 DEF RotateRow, Overtake
    <3>2. CASE call[d].at = "rotating"
      <4>1. /\ call'[d].listed = call[d].listed /\ call'[d].todo = call[d].todo
            /\ call'[d].pin = call[d].pin /\ call'[d].at = "rotating"
            /\ call[d].over \subseteq call'[d].over
            /\ i \in call[d].listed => i \in call'[d].over
        BY <1>0, <2>3, <3>1, <3>2 DEF Overtake, Handler
      <4>2. /\ UNCHANGED <<stored, issued>>
            /\ \A j \in Ids : j # i => blob'[j] = blob[j]
        BY <2>1 DEF RotateRow, Write, TypeOK
      <4>3. call[d].listed \subseteq Ids
        BY <1>0 DEF Handler
      <4>4. QED
        BY <1>0, <3>2, <4>1, <4>2, <4>3 DEF Held
    <3>3. CASE call[d].at # "rotating"
      BY <1>0, <2>3, <3>1, <3>3 DEF Overtake, Held
    <3>4. QED
      BY <3>2, <3>3
  <2>4. QED
    BY <2>2, <2>3
<1>9. QED
  BY <1>1, <1>2, <1>3, <1>4, <1>5, <1>6, <1>7, <1>8 DEF Serve

LEMMA RotatedStep == TypeOK /\ RotatedSoFar /\ [Next]_vars => RotatedSoFar'
<1> SUFFICES ASSUME TypeOK, RotatedSoFar, [Next]_vars, NEW d \in Calls PROVE Held(d)'
  BY DEF RotatedSoFar
<1>0. Held(d) /\ call \in [Calls -> Handler]
  BY DEF RotatedSoFar, TypeOK
<1>1. CASE \E t \in Tabs : Reload(t)
  <2>1. /\ UNCHANGED table /\ call'[d].at = call[d].at /\ call'[d].todo = call[d].todo
        /\ call'[d].listed = call[d].listed /\ call'[d].over = call[d].over
        /\ call'[d].pin = call[d].pin
    BY <1>0, <1>1 DEF Reload, Handler
  <2>2. QED
    BY <1>0, <2>1 DEF Held, table
<1>2. CASE \E c \in Calls, t \in Tabs : Tab(c, t)
  <2>1. PICK c \in Calls, t \in Tabs : Tab(c, t)
    BY <1>2
  <2>2. PICK h : /\ call' = [call EXCEPT ![c] = h] /\ h.at # "rotating"
                 /\ h.at = "rotate" => h.todo = h.listed
    BY <2>1, TabKeeps
  <2>3. UNCHANGED <<stored, blob, issued>>
    BY <2>1, TabKeeps DEF table
  <2>4. CASE d = c
    BY <1>0, <2>2, <2>4 DEF Held
  <2>5. CASE d # c
    <3>1. call'[d] = call[d]
      BY <1>0, <2>2, <2>5
    <3>2. QED
      BY <1>0, <2>3, <3>1, OthersKeep
  <2>6. QED
    BY <2>4, <2>5
<1>3. CASE \E c \in Calls : Serve(c)
  BY <1>3, HeldStep
<1>4. CASE UNCHANGED vars
  BY <1>0, <1>4, OthersKeep DEF vars, table
<1>5. QED
  BY <1>1, <1>2, <1>3, <1>4 DEF Next

\* A rotation under way has put the rows it is done with under its PIN.
THEOREM WalletsRotatedSoFar == Spec => []RotatedSoFar
<1>1. Init => RotatedSoFar
  BY DEF Init, RotatedSoFar, Held, Idle
<1>2. QED
  BY <1>1, RotatedStep, WalletsTypeCorrect, PTL DEF Spec

\* A rotation that ends well has put each listed wallet under the new PIN, unless
\* another call wrote over it meanwhile.
THEOREM WalletsRotationHolds == Spec => RotationHolds
<1>1. TypeOK /\ RotatedSoFar /\ [Next]_vars =>
        [\A c \in Calls : call[c].at = "rotating" /\ call'[c].at = "idle" /\ faults' = faults =>
           \A i \in call[c].listed \cap stored : blob[i] = call[c].pin \/ i \in call[c].over]_vars
  <2> SUFFICES ASSUME TypeOK, RotatedSoFar, Next, NEW c \in Calls,
                      call[c].at = "rotating", call'[c].at = "idle", faults' = faults
               PROVE  call[c].todo = {}
    BY DEF RotatedSoFar, Held
  <2>0. call[c] \in Handler /\ call \in [Calls -> Handler]
    BY DEF TypeOK
  <2>1. CASE \E t \in Tabs : Reload(t)
    BY <2>0, <2>1 DEF Reload, Handler
  <2>2. CASE \E d \in Calls, t \in Tabs : Tab(d, t)
    <3>1. PICK d \in Calls, t \in Tabs : Tab(d, t)
      BY <2>2
    <3>2. call'[c] = call[c] \/ c = d
      BY <2>0, <3>1, TabKeeps
    <3>3. QED
      BY <3>1, <3>2, TabKeeps
  <2>3. CASE \E d \in Calls : Serve(d)
    <3>1. PICK d \in Calls : Serve(d)
      BY <2>3
    <3>2. CASE d = c
      <4>1. RotateAnswer(c) \/ (\E i \in Ids : RotateRow(c, i)) \/ DbError(c)
        BY <3>1, <3>2 DEF Serve, PostDecide, PostInsert, PatchLoad, PatchPromote, PatchUpdate,
                          DeleteLoad, DeleteGuard, DeleteRow, RotateCheck
      <4>2. ~DbError(c)
        BY DEF DbError, Fault, TypeOK
      <4>3. ASSUME NEW i \in Ids, RotateRow(c, i) PROVE FALSE
        BY <2>0, <4>3 DEF RotateRow, Overtake, Handler
      <4>4. QED
        BY <4>1, <4>2, <4>3 DEF RotateAnswer
    <3>3. CASE d # c
      <4>1. call'[c].at = call[c].at
        <5>0. \A i : Overtake(d, i)[c].at = call[c].at
          BY <2>0 DEF Overtake, Handler
        <5>1. CASE \E i \in Ids : RotateRow(d, i)
          BY <3>3, <5>0, <5>1 DEF RotateRow, Overtake
        <5>2. CASE PatchUpdate(d)
          BY <2>0, <3>3, <5>0, <5>2 DEF PatchUpdate, Refuse, Overtake
        <5>3. CASE ~PatchUpdate(d) /\ ~\E i \in Ids : RotateRow(d, i)
          <6>1. \E h : call' = [call EXCEPT ![d] = h]
            BY <3>1, <5>3, Zenon DEF Serve, PostDecide, PostInsert, PatchLoad, PatchPromote,
               DeleteLoad, DeleteGuard, DeleteRow, RotateCheck, RotateAnswer, DbError, Refuse
          <6>2. QED
            BY <2>0, <3>3, <6>1
        <5>4. QED
          BY <5>1, <5>2, <5>3
      <4>2. QED
        BY <4>1
    <3>4. QED
      BY <3>2, <3>3
  <2>4. QED
    BY <2>1, <2>2, <2>3 DEF Next
<1>2. QED
  BY <1>1, WalletsTypeCorrect, WalletsRotatedSoFar, PTL DEF Spec, RotationHolds

-----------------------------------------------------------------------------
(* The primary.                                                            *)

\* The user has no wallet yet, or one to sign with.
Signed == issued = {} \/ primary # {}

\* What a handler has read of the rows still holds, as far as the primary hangs
\* on it: other handlers may have moved the flag, or removed other rows.
Ready(h) ==
    /\ h.at = "insert" /\ ~h.flag => issued # {}
    /\ h.at = "promote" => h.id \in stored
    /\ (h.at = "count" /\ ~h.flag) \/ h.at = "remove" => h.id \in issued \ primary

Apart == \A c, d \in Calls : ~Crosses(call[c], call[d])
AllReady == \A c \in Calls : Ready(call[c])

\* The primary is missing only between a demotion and the row that takes its place.
SignedOrSigning ==
    /\ Apart /\ AllReady
    /\ Signed \/ \E c \in Calls : Signing(call[c])

SInv == lapsed \/ SignedOrSigning

\* A handler where it was; one past all that concerns the primary; and one that
\* goes on with what it does.
Same(h, g) == g.at = h.at /\ g.id = h.id /\ g.flag = h.flag
Quiet(g) == g.at \in {"idle", "update", "rotate", "rotating"}
Keeps(h, g) ==
    \/ g.id = h.id /\ (Promoting(g) => Promoting(h)) /\ (Deleting(g) => Deleting(h))
    \/ ~Promoting(g) /\ ~Deleting(g)

\* Handlers that keep to what they do stay apart.
LEMMA ApartStep ==
    ASSUME Apart, \A d \in Calls : Keeps(call[d], call'[d])
    PROVE  Apart'
<1> SUFFICES ASSUME NEW c \in Calls, NEW d \in Calls PROVE ~Crosses(call'[c], call'[d])
    BY DEF Apart, Crosses, Promoting, Deleting
<1>1. ~Crosses(call[c], call[d]) /\ Keeps(call[c], call'[c]) /\ Keeps(call[d], call'[d])
    BY DEF Apart
<1> QED
    BY <1>1 DEF Crosses, Keeps

\* A step that leaves the rows alone and every handler where it is, or past them.
LEMMA SideStep ==
    ASSUME SignedOrSigning, UNCHANGED <<stored, primary, issued>>,
           \A d \in Calls : Same(call[d], call'[d]) \/ (Quiet(call'[d]) /\ ~Signing(call[d]))
    PROVE  SignedOrSigning'
<1>1. Apart'
    <2>1. \A d \in Calls : Keeps(call[d], call'[d])
        BY DEF Same, Quiet, Keeps, Promoting, Deleting
    <2> QED
        BY <2>1, ApartStep DEF SignedOrSigning
<1>2. AllReady'
    <2> SUFFICES ASSUME NEW d \in Calls PROVE Ready(call[d])'
        BY DEF AllReady
    <2>1. Ready(call[d])
        BY DEF SignedOrSigning, AllReady
    <2> QED
        BY <2>1 DEF Ready, Same, Quiet
<1>3. (Signed \/ \E c \in Calls : Signing(call[c]))'
    <2>1. CASE Signed
        BY <2>1 DEF Signed
    <2>2. ASSUME NEW c \in Calls, Signing(call[c]) PROVE Signing(call[c])'
        BY <2>2 DEF Signing, Same
    <2> QED
        BY <2>1, <2>2 DEF SignedOrSigning
<1> QED
    BY <1>1, <1>2, <1>3 DEF SignedOrSigning

\* A step of one handler that goes on, or is done, while the others stay.
LEMMA OwnStep ==
    ASSUME SignedOrSigning, NEW c \in Calls,
           \A d \in Calls : d # c => call'[d] = call[d] /\ Ready(call[d])',
           Keeps(call[c], call'[c]), Ready(call[c])',
           \/ Signed' \/ Signing(call[c])'
           \/ ~Signing(call[c]) /\ UNCHANGED <<primary, issued>>
    PROVE  SignedOrSigning'
<1>1. Apart'
    <2>1. \A d \in Calls : Keeps(call[d], call'[d])
        BY DEF Keeps
    <2> QED
        BY <2>1, ApartStep DEF SignedOrSigning
<1>2. AllReady'
    BY DEF AllReady
<1>3. (Signed \/ \E d \in Calls : Signing(call[d]))'
    <2>1. CASE Signed' \/ Signing(call[c])'
        BY <2>1
    <2>2. CASE ~Signing(call[c]) /\ UNCHANGED <<primary, issued>>
        <3>1. CASE Signed
            BY <2>2, <3>1 DEF Signed
        <3>2. ASSUME NEW d \in Calls, Signing(call[d]) PROVE Signing(call[d])'
            BY <2>2, <3>2 DEF Signing
        <3> QED
            BY <3>1, <3>2 DEF SignedOrSigning
    <2> QED
        BY <2>1, <2>2
<1> QED
    BY <1>1, <1>2, <1>3 DEF SignedOrSigning

\* A step of one handler that leaves the rows alone.
LEMMA ReadStep ==
    ASSUME SignedOrSigning, NEW c \in Calls, UNCHANGED <<stored, primary, issued>>,
           \A d \in Calls : d # c => call'[d] = call[d],
           Keeps(call[c], call'[c]), Ready(call[c])', ~Signing(call[c])
    PROVE  SignedOrSigning'
<1>1. \A d \in Calls : d # c => call'[d] = call[d] /\ Ready(call[d])'
    BY DEF SignedOrSigning, AllReady, Ready
<1> QED
    BY <1>1, OwnStep

\* A call that leaves a tab.
LEMMA TabSends ==
    ASSUME NEW c \in Calls, NEW t \in Tabs, Tab(c, t)
    PROVE  \E h : Send(c, h) /\ h.at \in {"post", "patch", "delete", "rotate"}
<1>1. CASE \E p \in Pins, s \in BOOLEAN : Create(c, t, p, s)
  <2>1. PICK p \in Pins, s \in BOOLEAN : Create(c, t, p, s)
    BY <1>1
  <2>2. [Idle EXCEPT !.at = "post", !.tab = t, !.pin = p, !.flag = s].at = "post"
    BY DEF Idle
  <2>3. QED
    BY <2>1, <2>2 DEF Create
<1>2. CASE \E i \in Ids : Delete(c, t, i)
  <2>1. PICK i \in Ids : Delete(c, t, i)
    BY <1>2
  <2>2. [Idle EXCEPT !.at = "delete", !.tab = t, !.id = i].at = "delete"
    BY DEF Idle
  <2>3. QED
    BY <2>1, <2>2 DEF Delete
<1>3. CASE \E i \in Ids, s \in BOOLEAN, p \in Pins \cup {None} : Patch(c, t, i, s, p)
  <2>1. PICK i \in Ids, s \in BOOLEAN, p \in Pins \cup {None} : Patch(c, t, i, s, p)
    BY <1>3
  <2>2. [Idle EXCEPT !.at = "patch", !.tab = t, !.id = i, !.flag = s, !.pin = p].at = "patch"
    BY DEF Idle
  <2>3. QED
    BY <2>1, <2>2 DEF Patch
<1>4. CASE \E p, q \in Pins : ChangePin(c, t, p, q)
  <2>1. PICK p \in Pins, q \in Pins : ChangePin(c, t, p, q)
    BY <1>4
  <2>2. [Idle EXCEPT !.at = "rotate", !.tab = t, !.pin = q,
                     !.listed = Shown(t), !.todo = Shown(t)].at = "rotate"
    BY DEF Idle
  <2>3. QED
    BY <2>1, <2>2 DEF ChangePin
<1>5. QED
  BY <1>1, <1>2, <1>3, <1>4 DEF Tab

\* A call sent while none crosses it.
LEMMA SentStep ==
    ASSUME TypeOK, SignedOrSigning, ~lapsed', NEW c \in Calls, NEW t \in Tabs, Tab(c, t)
    PROVE  SignedOrSigning'
<1> PICK h : Send(c, h) /\ h.at \in {"post", "patch", "delete", "rotate"}
    BY TabSends
<1>1. /\ call[c].at = "idle" /\ call' = [call EXCEPT ![c] = h]
      /\ UNCHANGED <<stored, primary, issued>>
      /\ \A d \in Calls : ~Crosses(h, call[d]) /\ ~Crosses(call[d], h)
    BY DEF Send, table
<1>2. call'[c] = h /\ \A d \in Calls : d # c => call'[d] = call[d]
    BY <1>1 DEF TypeOK
<1>3. Apart'
    <2>1. ~Crosses(h, h)
        BY DEF Crosses, Promoting, Deleting
    <2>2. \A d, e \in Calls : ~Crosses(call'[d], call'[e])
        BY <1>1, <1>2, <2>1 DEF SignedOrSigning, Apart
    <2> QED
        BY <2>2 DEF Apart, Crosses, Promoting, Deleting
<1>4. AllReady'
    <2> SUFFICES ASSUME NEW d \in Calls PROVE Ready(call[d])'
        BY DEF AllReady
    <2>1. CASE d = c
        BY <1>2, <2>1 DEF Ready
    <2>2. CASE d # c
        BY <1>1, <1>2, <2>2 DEF SignedOrSigning, AllReady, Ready
    <2> QED
        BY <2>1, <2>2
<1>5. (Signed \/ \E d \in Calls : Signing(call[d]))'
    <2>1. CASE Signed
        BY <1>1, <2>1 DEF Signed
    <2>2. ASSUME NEW d \in Calls, Signing(call[d]) PROVE Signing(call[d])'
        BY <1>1, <1>2, <2>2 DEF Signing
    <2> QED
        BY <2>1, <2>2 DEF SignedOrSigning
<1> QED
    BY <1>3, <1>4, <1>5 DEF SignedOrSigning

\* A handler that is refused before it inserts.
LEMMA RefuseSide ==
    ASSUME TypeOK, SignedOrSigning, NEW c \in Calls, Refuse(c), ~Signing(call[c])
    PROVE  SignedOrSigning'
<1>1. UNCHANGED <<stored, primary, issued>> /\ call' = [call EXCEPT ![c] = Idle]
    BY DEF Refuse, table
<1>2. Quiet(Idle)
    BY DEF Quiet, Idle
<1>3. \A d \in Calls : IF d = c THEN call'[d] = Idle ELSE call'[d] = call[d]
    BY <1>1 DEF TypeOK
<1> QED
    BY <1>1, <1>2, <1>3, SideStep DEF Same

\* POST: the decision about the flag, and the insert.
LEMMA PostStep ==
    ASSUME TypeOK, SignedOrSigning, NEW c \in Calls, PostDecide(c) \/ PostInsert(c)
    PROVE  SignedOrSigning'
<1> DEFINE h == call[c]
<1>0. /\ call \in [Calls -> Handler] /\ h \in Handler /\ stored \subseteq issued
      /\ \A d \in Calls : Ready(call[d])
    BY DEF TypeOK, SignedOrSigning, AllReady
<1>1. CASE PostDecide(c)
    <2>1. /\ h.at = "post" /\ UNCHANGED <<stored, issued>> /\ (primary' = {} \/ UNCHANGED primary)
          /\ \/ /\ h.flag /\ call' = [call EXCEPT ![c] = [@ EXCEPT !.at = "insert"]]
             \/ /\ UNCHANGED primary
                /\ call' = [call EXCEPT ![c] = [@ EXCEPT !.at = "insert", !.flag = (stored = {})]]
             \/ call' = [call EXCEPT ![c] = [@ EXCEPT !.at = "insert", !.flag = TRUE]]
        BY <1>1 DEF PostDecide
    <2>2. \A d \in Calls : d # c => call'[d] = call[d]
        BY <1>0, <2>1
    <2>3. \A d \in Calls : d # c => call'[d] = call[d] /\ Ready(call[d])'
        BY <1>0, <2>1, <2>2 DEF Ready
    <2>4. call'[c].at = "insert" /\ (call'[c].flag \/ (UNCHANGED primary /\ stored # {}))
        <3>1. CASE h.flag /\ call' = [call EXCEPT ![c] = [@ EXCEPT !.at = "insert"]]
            <4>1. call'[c] = [h EXCEPT !.at = "insert"]
                BY <1>0, <3>1
            <4> QED
                BY <1>0, <3>1, <4>1 DEF Handler
        <3>2. CASE /\ UNCHANGED primary
                   /\ call' = [call EXCEPT ![c] = [@ EXCEPT !.at = "insert", !.flag = (stored = {})]]
            <4>1. call'[c] = [h EXCEPT !.at = "insert", !.flag = (stored = {})]
                BY <1>0, <3>2
            <4>2. call'[c].at = "insert" /\ (call'[c].flag <=> stored = {})
                BY <1>0, <4>1 DEF Handler
            <4> QED
                BY <3>2, <4>2
        <3>3. CASE call' = [call EXCEPT ![c] = [@ EXCEPT !.at = "insert", !.flag = TRUE]]
            <4>1. call'[c] = [h EXCEPT !.at = "insert", !.flag = TRUE]
                BY <1>0, <3>3
            <4> QED
                BY <1>0, <4>1 DEF Handler
        <3> QED
            BY <2>1, <3>1, <3>2, <3>3
    <2>5. Keeps(call[c], call'[c]) /\ Ready(call[c])'
        BY <1>0, <2>1, <2>4 DEF Keeps, Promoting, Deleting, Ready
    <2>6. Signing(call[c])' \/ (~Signing(call[c]) /\ UNCHANGED <<primary, issued>>)
        BY <2>1, <2>4 DEF Signing
    <2> QED
        BY <2>3, <2>5, <2>6, OwnStep
<1>2. CASE PostInsert(c)
    <2>1. h.at = "insert"
        BY <1>2 DEF PostInsert
    <2>2. CASE Refuse(c)
        <3>1. /\ UNCHANGED <<stored, primary, issued>> /\ call' = [call EXCEPT ![c] = Idle]
            BY <2>2 DEF Refuse, table
        <3>2. (\A d \in Calls : d # c => call'[d] = call[d]) /\ call'[c].at = "idle"
            BY <1>0, <3>1 DEF Idle
        <3>3. \A d \in Calls : d # c => call'[d] = call[d] /\ Ready(call[d])'
            BY <1>0, <3>1, <3>2 DEF Ready
        <3>4. Keeps(call[c], call'[c]) /\ Ready(call[c])'
            BY <3>2 DEF Keeps, Promoting, Deleting, Ready
        <3>5. primary # {} \/ \E i \in Ids \ issued : issued' = issued \cup {i}
            BY <1>2 DEF PostInsert
        <3>6. Signed'
            BY <3>1, <3>5 DEF Signed
        <3> QED
            BY <3>3, <3>4, <3>6, OwnStep
    <2>3. CASE ~Refuse(c)
        <3>1. PICK i \in Ids \ issued :
                 /\ stored' = stored \cup {i} /\ issued' = issued \cup {i}
                 /\ primary' = IF h.flag THEN primary \cup {i} ELSE primary
                 /\ call' = [call EXCEPT ![c] = Idle]
            BY <1>2, <2>3 DEF PostInsert
        <3>2. (\A d \in Calls : d # c => call'[d] = call[d]) /\ call'[c].at = "idle"
            BY <1>0, <3>1 DEF Idle
        <3>3. \A d \in Calls : d # c => call'[d] = call[d] /\ Ready(call[d])'
            BY <1>0, <3>1, <3>2 DEF Ready
        <3>4. Keeps(call[c], call'[c]) /\ Ready(call[c])'
            BY <3>2 DEF Keeps, Promoting, Deleting, Ready
        <3>5. CASE h.flag
            <4>1. Signed'
                BY <3>1, <3>5 DEF Signed
            <4> QED
                BY <3>3, <3>4, <4>1, OwnStep
        <3>6. CASE ~h.flag
            <4>1. issued # {} /\ UNCHANGED primary
                BY <1>0, <2>1, <3>1, <3>6 DEF Ready
            <4>2. CASE Signed
                <5>1. Signed'
                    BY <4>1, <4>2 DEF Signed
                <5> QED
                    BY <3>3, <3>4, <5>1, OwnStep
            <4>3. CASE \E d \in Calls : Signing(call[d])
                <5>1. \E d \in Calls : Signing(call[d])'
                    BY <3>2, <3>6, <4>3 DEF Signing
                <5>2. Apart'
                    <6>1. \A d \in Calls : Keeps(call[d], call'[d])
                        BY <3>2, <3>4 DEF Keeps
                    <6> QED
                        BY <6>1, ApartStep DEF SignedOrSigning
                <5>3. AllReady'
                    BY <3>3, <3>4 DEF AllReady
                <5> QED
                    BY <5>1, <5>2, <5>3 DEF SignedOrSigning
            <4> QED
                BY <4>2, <4>3 DEF SignedOrSigning
        <3> QED
            BY <3>5, <3>6
    <2> QED
        BY <2>2, <2>3
<1> QED
    BY <1>1, <1>2

\* PATCH: a wallet that is promoted is there, for no deletion of it is under way.
LEMMA PatchStep ==
    ASSUME TypeOK, SignedOrSigning, NEW c \in Calls,
           PatchLoad(c) \/ PatchPromote(c) \/ PatchUpdate(c)
    PROVE  SignedOrSigning'
<1> DEFINE h == call[c]
<1>0. /\ call \in [Calls -> Handler] /\ h \in Handler
      /\ \A d \in Calls : Ready(call[d])
    BY DEF TypeOK, SignedOrSigning, AllReady
<1>1. CASE PatchLoad(c)
    <2>1. h.at = "patch" /\ ~Signing(h)
        BY <1>1 DEF PatchLoad, Signing
    <2>2. CASE Refuse(c)
        BY <2>1, <2>2, RefuseSide
    <2>3. CASE ~Refuse(c)
        <3>1. /\ h.id \in stored /\ UNCHANGED <<stored, primary, issued>>
              /\ call' = [call EXCEPT ![c] = [@ EXCEPT !.at = IF h.flag THEN "promote" ELSE "update"]]
            BY <1>1, <2>3 DEF PatchLoad, table
        <3>2. \A d \in Calls : d # c => call'[d] = call[d]
            BY <1>0, <3>1
        <3>3. /\ call'[c].at = (IF h.flag THEN "promote" ELSE "update")
              /\ call'[c].id = h.id /\ call'[c].flag = h.flag
            BY <1>0, <3>1 DEF Handler
        <3>4. Keeps(call[c], call'[c])
            BY <2>1, <3>3 DEF Keeps, Promoting, Deleting
        <3>5. Ready(call[c])'
            BY <3>1, <3>3 DEF Ready
        <3> QED
            BY <2>1, <3>1, <3>2, <3>4, <3>5, ReadStep
    <2> QED
        BY <2>2, <2>3
<1>2. CASE PatchPromote(c)
    <2>1. /\ h.at = "promote" /\ primary' = {h.id} \cap stored /\ UNCHANGED <<stored, issued>>
          /\ call' = [call EXCEPT ![c] = IF h.pin = None THEN Idle ELSE [@ EXCEPT !.at = "update"]]
        BY <1>2 DEF PatchPromote
    <2>2. h.id \in stored /\ Promoting(h)
        BY <1>0, <2>1 DEF Ready, Promoting
    <2>3. \A d \in Calls : d # c => call'[d] = call[d]
        BY <1>0, <2>1
    <2>4. call'[c] = Idle \/ call'[c] = [h EXCEPT !.at = "update"]
        BY <1>0, <2>1
    <2>5. call'[c].at \in {"idle", "update"}
        BY <1>0, <2>4 DEF Handler, Idle
    <2>6. ASSUME NEW d \in Calls, d # c PROVE Ready(call[d])'
        <3>1. Deleting(call[d]) => call[d].id # h.id
            BY <2>2 DEF SignedOrSigning, Apart, Crosses
        <3> QED
            BY <1>0, <2>1, <2>3, <2>6, <3>1 DEF Ready, Deleting
    <2>7. Keeps(call[c], call'[c]) /\ Ready(call[c])' /\ Signed'
        BY <2>1, <2>2, <2>5 DEF Keeps, Promoting, Deleting, Ready, Signed
    <2> QED
        BY <2>3, <2>6, <2>7, OwnStep
<1>3. CASE PatchUpdate(c)
    <2>1. h.at = "update"
        BY <1>3 DEF PatchUpdate
    <2>2. CASE Refuse(c)
        BY <2>1, <2>2, RefuseSide DEF Signing
    <2>3. CASE ~Refuse(c)
        <3>1. /\ call' = [Overtake(c, h.id) EXCEPT ![c] = Idle]
              /\ UNCHANGED <<stored, primary, issued>>
            BY <1>3, <2>3 DEF PatchUpdate
        <3>2. Quiet(Idle) /\ ~Signing(h)
            BY <2>1 DEF Quiet, Idle, Signing
        <3>3. \A d \in Calls : d # c => Same(call[d], call'[d])
            BY <1>0, <3>1 DEF Overtake, Handler, Same
        <3>4. call'[c] = Idle
            BY <3>1 DEF Overtake
        <3> QED
            BY <3>1, <3>2, <3>3, <3>4, SideStep
    <2> QED
        BY <2>2, <2>3
<1> QED
    BY <1>1, <1>2, <1>3

\* DELETE: what was not the primary when it was loaded is none when it goes.
LEMMA DeleteStep ==
    ASSUME TypeOK, SignedOrSigning, NEW c \in Calls,
           DeleteLoad(c) \/ DeleteGuard(c) \/ DeleteRow(c)
    PROVE  SignedOrSigning'
<1> DEFINE h == call[c]
<1>0. /\ call \in [Calls -> Handler] /\ h \in Handler /\ stored \subseteq issued
      /\ \A d \in Calls : Ready(call[d])
    BY DEF TypeOK, SignedOrSigning, AllReady
<1>1. CASE DeleteLoad(c)
    <2>1. h.at = "delete" /\ ~Signing(h)
        BY <1>1 DEF DeleteLoad, Signing
    <2>2. CASE Refuse(c)
        BY <2>1, <2>2, RefuseSide
    <2>3. CASE ~Refuse(c)
        <3>1. /\ call' = [call EXCEPT ![c] = [@ EXCEPT !.at = "count", !.flag = (h.id \in primary)]]
              /\ h.id \in stored /\ UNCHANGED <<stored, primary, issued>>
            BY <1>1, <2>3 DEF DeleteLoad, table
        <3>2. \A d \in Calls : d # c => call'[d] = call[d]
            BY <1>0, <3>1
        <3>3. call'[c] = [h EXCEPT !.at = "count", !.flag = (h.id \in primary)]
            BY <1>0, <3>1
        <3>4. /\ call'[c].at = "count" /\ call'[c].id = h.id
              /\ call'[c].flag <=> h.id \in primary
            BY <1>0, <3>3 DEF Handler
        <3>5. Keeps(call[c], call'[c])
            BY <2>1, <3>4 DEF Keeps, Promoting, Deleting
        <3>6. Ready(call[c])'
            BY <1>0, <3>1, <3>4 DEF Ready
        <3> QED
            BY <2>1, <3>1, <3>2, <3>5, <3>6, ReadStep
    <2> QED
        BY <2>2, <2>3
<1>2. CASE DeleteGuard(c)
    <2>1. h.at = "count" /\ ~Signing(h)
        BY <1>2 DEF DeleteGuard, Signing
    <2>2. CASE Refuse(c)
        BY <2>1, <2>2, RefuseSide
    <2>3. CASE ~Refuse(c)
        <3>1. /\ ~h.flag /\ call' = [call EXCEPT ![c] = [@ EXCEPT !.at = "remove"]]
              /\ UNCHANGED <<stored, primary, issued>>
            BY <1>2, <2>3 DEF DeleteGuard, table
        <3>2. \A d \in Calls : d # c => call'[d] = call[d]
            BY <1>0, <3>1
        <3>3. call'[c].at = "remove" /\ call'[c].id = h.id
            BY <1>0, <3>1 DEF Handler
        <3>4. Keeps(call[c], call'[c])
            BY <2>1, <3>3 DEF Keeps, Promoting, Deleting
        <3>5. Ready(call[c])'
            BY <1>0, <2>1, <3>1, <3>3 DEF Ready
        <3> QED
            BY <2>1, <3>1, <3>2, <3>4, <3>5, ReadStep
    <2> QED
        BY <2>2, <2>3
<1>3. CASE DeleteRow(c)
    <2>1. /\ h.at = "remove" /\ primary' = primary \ {h.id} /\ UNCHANGED issued
          /\ stored' = stored \ {h.id} /\ call' = [call EXCEPT ![c] = Idle]
        BY <1>3 DEF DeleteRow
    <2>2. UNCHANGED primary /\ ~Signing(h) /\ Deleting(h)
        BY <1>0, <2>1 DEF Signing, Ready, Deleting
    <2>3. (\A d \in Calls : d # c => call'[d] = call[d]) /\ call'[c].at = "idle"
        BY <1>0, <2>1 DEF Idle
    <2>4. ASSUME NEW d \in Calls, d # c PROVE Ready(call[d])'
        <3>1. Promoting(call[d]) => call[d].id # h.id
            BY <2>2 DEF SignedOrSigning, Apart, Crosses
        <3> QED
            BY <1>0, <2>1, <2>2, <2>3, <2>4, <3>1 DEF Ready, Promoting
    <2>5. Keeps(call[c], call'[c]) /\ Ready(call[c])'
        BY <2>3 DEF Keeps, Promoting, Deleting, Ready
    <2> QED
        BY <2>1, <2>2, <2>3, <2>4, <2>5, OwnStep
<1> QED
    BY <1>1, <1>2, <1>3

\* The rotation writes blobs alone.
LEMMA RotateStep ==
    ASSUME TypeOK, SignedOrSigning, NEW c \in Calls,
           RotateCheck(c) \/ (\E i \in Ids : RotateRow(c, i)) \/ RotateAnswer(c)
    PROVE  SignedOrSigning'
<1> DEFINE h == call[c]
<1>0. call \in [Calls -> Handler] /\ h \in Handler
    BY DEF TypeOK
<1>1. CASE RotateCheck(c)
    <2>1. h.at = "rotate" /\ ~Signing(h)
        BY <1>1 DEF RotateCheck, Signing
    <2>2. CASE Refuse(c)
        BY <2>1, <2>2, RefuseSide
    <2>3. CASE ~Refuse(c)
        <3>1. /\ call' = [call EXCEPT ![c] = [@ EXCEPT !.at = "rotating"]]
              /\ UNCHANGED <<stored, primary, issued>>
            BY <1>1, <2>3 DEF RotateCheck, table
        <3>2. /\ \A d \in Calls : d # c => call'[d] = call[d]
              /\ Quiet(call'[c])
            BY <1>0, <3>1 DEF Handler, Quiet
        <3> QED
            BY <2>1, <3>1, <3>2, SideStep DEF Same
    <2> QED
        BY <2>2, <2>3
<1>2. CASE \E i \in Ids : RotateRow(c, i)
    <2> PICK i \in Ids : RotateRow(c, i)
        BY <1>2
    <2>1. /\ call' = [Overtake(c, i) EXCEPT ![c] = [@ EXCEPT !.todo = h.todo \ {i}, !.over = h.over \ {i}]]
          /\ UNCHANGED <<stored, primary, issued>>
        BY DEF RotateRow
    <2>2. \A d \in Calls : Same(call[d], call'[d])
        BY <1>0, <2>1 DEF Overtake, Handler, Same
    <2> QED
        BY <2>1, <2>2, SideStep
<1>3. CASE RotateAnswer(c)
    <2>1. /\ h.at = "rotating" /\ call' = [call EXCEPT ![c] = Idle]
          /\ UNCHANGED <<stored, primary, issued>>
        BY <1>3 DEF RotateAnswer, table
    <2>2. Quiet(Idle) /\ ~Signing(h)
        BY <2>1 DEF Quiet, Idle, Signing
    <2>3. \A d \in Calls : IF d = c THEN call'[d] = Idle ELSE call'[d] = call[d]
        BY <1>0, <2>1
    <2> QED
        BY <2>1, <2>2, <2>3, SideStep DEF Same
<1> QED
    BY <1>1, <1>2, <1>3

\* The steps of a handler, unless its insert fails.
LEMMA ServedStep ==
    ASSUME TypeOK, SignedOrSigning, ~lapsed', NEW c \in Calls, Serve(c)
    PROVE  SignedOrSigning'
<1>1. CASE DbError(c)
    <2>1. Refuse(c) /\ ~Signing(call[c])
        BY <1>1 DEF DbError
    <2> QED
        BY <2>1, RefuseSide
<1> QED
    BY <1>1, PostStep, PatchStep, DeleteStep, RotateStep DEF Serve

\* What the history has recorded stays so.
LEMMA LapsedStays ==
    ASSUME lapsed, [Next]_vars
    PROVE  lapsed'
<1>1. CASE \E t \in Tabs : Reload(t)
    BY <1>1 DEF Reload
<1>2. CASE \E c \in Calls, t \in Tabs : Tab(c, t)
    <2>0. PICK c \in Calls, t \in Tabs : Tab(c, t)
        BY <1>2
    <2>1. PICK h : Send(c, h)
        BY <2>0, TabSends
    <2> QED
        BY <2>1 DEF Send
<1>3. CASE \E c \in Calls : Serve(c)
    BY <1>3 DEF Serve, PostDecide, PostInsert, PatchLoad, PatchPromote, PatchUpdate, DeleteLoad,
                DeleteGuard, DeleteRow, RotateCheck, RotateRow, RotateAnswer, DbError, Calm
<1> QED
    BY <1>1, <1>2, <1>3 DEF Next, vars

LEMMA SignerStep == TypeOK /\ SInv /\ [Next]_vars => SInv'
<1> SUFFICES ASSUME TypeOK, SignedOrSigning, [Next]_vars, ~lapsed'
             PROVE  SignedOrSigning'
    BY LapsedStays DEF SInv
<1>1. CASE \E t \in Tabs : Reload(t)
    <2>1. UNCHANGED <<stored, primary, issued>>
        BY <1>1 DEF Reload, table
    <2>2. \A d \in Calls : Same(call[d], call'[d])
        BY <1>1 DEF Reload, TypeOK, Handler, Same
    <2> QED
        BY <2>1, <2>2, SideStep
<1>2. CASE \E c \in Calls, t \in Tabs : Tab(c, t)
    BY <1>2, SentStep
<1>3. CASE \E c \in Calls : Serve(c)
    BY <1>3, ServedStep
<1>4. CASE UNCHANGED vars
    BY <1>4, SideStep DEF vars, table, Same
<1> QED
    BY <1>1, <1>2, <1>3, <1>4 DEF Next

\* Once the user has a wallet there is one to sign with, whatever handlers are
\* under way and whatever database calls fail, unless a deletion was under way
\* beside a promotion of its own wallet or the insert of a primary failed: a
\* row named for promotion stays, a row loaded as no primary becomes none before
\* it goes, and an insert that the index refuses finds a primary in place.
THEOREM WalletsSignerKept == Spec => []SignerKept
<1>1. Init => SInv
    BY DEF Init, SInv, SignedOrSigning, Apart, Crosses, Promoting, AllReady, Ready, Signed, Idle
<1>2. SInv => SignerKept
    BY DEF SInv, SignedOrSigning, Signed, SignerKept
<1> QED
    BY <1>1, <1>2, SignerStep, WalletsTypeCorrect, PTL DEF Spec
=============================================================================
