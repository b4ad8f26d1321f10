------------------------- MODULE ColumnAgentProofs -------------------------
(***************************************************************************)
(* Proofs about ColumnAgent, for any number of runs, workers and columns:  *)
(* the types, the bounds on turns and on automatic contacts, and that runs *)
(* that share a worker never get in each other's way.                      *)
(***************************************************************************)
EXTENDS ColumnAgent, FiniteSetTheorems, TLAPS

ClientLabels == {"lock", "sync", "insert", "write_sync", "limit", "audio", "notice", "count"}
FireLabels   == {"fire_lock", "fire", "counted", "fired", "force"}
ToolLabels   == {"tool", "escalate", "handoff", "emit", "promote", "auto_promote",
                 "write_tool", "write_emit", "write_quote"}
PromoteLabels == {"promote", "auto_promote", "write_quote"}

\* A run counts its iterations from its first call of the LLM.
IterOK ==
  \A r \in Runs :
    /\ pc[r] \in {"idle"} \cup ClientLabels \cup FireLabels => iter[r] = 0
    /\ pc[r] = "llm" => iter[r] < MaxIterations

\* Tools run with the column of a card, promotions from a column with a target.
CtxOK ==
  \A r \in Runs :
    /\ pc[r] \in ToolLabels => ctx[r] \in Columns
    /\ pc[r] \in PromoteLabels => PromoteTo[ctx[r]] \in Columns

\* Only clients take the way of a client's message, and they start with one.
OwnWay ==
  \A r \in Runs :
    /\ pc[r] \in ClientLabels => r \in Clients
    /\ pc[r] = "lock" => msg[r] \in Msgs

Ctl ==
  /\ tick \in Runs \cup {NoRun}
  /\ pc \in [Runs -> Labels] /\ loop \in [Workers -> Runs \cup {NoRun}]
  /\ msg \in [Runs -> Msgs \cup {NoMsg}]
  /\ colOf \in [Runs -> Columns \cup {NoColumn}] /\ ctx \in [Runs -> Columns \cup {NoColumn}]
  /\ iter \in [Runs -> 0..MaxIterations] /\ calls \in [Runs -> 0..MaxCalls]
  /\ IterOK /\ CtxOK /\ OwnWay

Data ==
  /\ cardColumn \in Columns /\ enabled \subseteq Columns
  /\ row \in Rows /\ copy \in [Runs -> Rows]
  /\ msgLocks \subseteq Msgs /\ fireLock \in BOOLEAN
  /\ nudges \in Nat

IInv == Ctl /\ Data /\ raced \in BOOLEAN

LEMMA IInvTypeOK == IInv => TypeOK
  BY DEF IInv, Ctl, Data, TypeOK

LEMMA InitIInv == Init => IInv
<1> SUFFICES ASSUME Init PROVE IInv
  OBVIOUS
<1>1. NoRow \in Rows
  BY DEF NoRow, Rows, Statuses, ForcedAt
<1>2. Data
  BY <1>1, AgentAssumption DEF Init, Data
<1>3. Ctl
  BY AgentAssumption
  DEF Init, Ctl, IterOK, CtxOK, OwnWay, Labels, ClientLabels, ToolLabels, PromoteLabels
<1> QED BY <1>2, <1>3 DEF IInv, Init

-----------------------------------------------------------------------------
(* Control: where a run may go from where it is *)

LEMMA Going ==
  ASSUME Ctl, NEW r \in Runs, NEW label \in Labels, Keep(r, label) \/ Await(r, label),
         label # "lock",
         label \in {"idle"} \cup ClientLabels \cup FireLabels => iter[r] = 0,
         label = "llm" => iter[r] < MaxIterations,
         label \in ToolLabels => ctx[r] \in Columns,
         label \in PromoteLabels => PromoteTo[ctx[r]] \in Columns,
         label \in ClientLabels => r \in Clients
  PROVE  Ctl'
<1>1. PICK owner \in {r, NoRun} : Goto(r, label, owner)
  BY DEF Keep, Await
<1>2. UNCHANGED <<tick, msg, colOf, ctx, iter, calls>>
  BY DEF Keep, Await, locals
<1>3. /\ pc' \in [Runs -> Labels] /\ loop' \in [Workers -> Runs \cup {NoRun}]
      /\ pc' = [pc EXCEPT ![r] = label]
  BY <1>1 DEF Ctl, Goto
<1>4. IterOK'
  BY <1>2, <1>3 DEF Ctl, IterOK
<1>5. CtxOK'
  BY <1>2, <1>3 DEF Ctl, CtxOK
<1>6. OwnWay'
  BY <1>2, <1>3 DEF Ctl, OwnWay
<1> QED BY <1>2, <1>3, <1>4, <1>5, <1>6 DEF Ctl

LEMMA Returning ==
  ASSUME Ctl, NEW r \in Runs, Return(r)
  PROVE  Ctl'
<1>1. /\ tick' \in Runs \cup {NoRun} /\ pc' \in [Runs -> Labels]
      /\ loop' \in [Workers -> Runs \cup {NoRun}] /\ msg' \in [Runs -> Msgs \cup {NoMsg}]
  BY DEF Ctl, Return, Goto, Labels
<1>2. /\ colOf' \in [Runs -> Columns \cup {NoColumn}]
      /\ ctx' \in [Runs -> Columns \cup {NoColumn}]
      /\ iter' \in [Runs -> 0..MaxIterations] /\ calls' \in [Runs -> 0..MaxCalls]
  BY AgentAssumption DEF Ctl, Return
<1>3. IterOK'
  BY DEF Ctl, IterOK, Return, Goto
<1>4. CtxOK'
  BY DEF Ctl, CtxOK, Return, Goto, ToolLabels, PromoteLabels
<1>5. OwnWay'
  BY DEF Ctl, OwnWay, Return, Goto, ClientLabels
<1> QED BY <1>1, <1>2, <1>3, <1>4, <1>5 DEF Ctl

LEMMA GoingOn ==
  ASSUME Ctl, NEW r \in Runs, pc[r] \in ToolLabels, AfterTool(r)
  PROVE  Ctl'
<1>1. CASE NextCall(r)
  <2>1. /\ pc' = [pc EXCEPT ![r] = "tool"] /\ loop' = [loop EXCEPT ![WorkerOf[r]] = r]
        /\ calls' = [calls EXCEPT ![r] = @ + 1] /\ calls[r] < MaxCalls
        /\ UNCHANGED <<tick, msg, colOf, ctx, iter>>
    BY <1>1 DEF NextCall, Goto
  <2>2. calls' \in [Runs -> 0..MaxCalls]
    BY <2>1, AgentAssumption DEF Ctl
  <2>3. IterOK' /\ CtxOK' /\ OwnWay'
    BY <2>1 DEF Ctl, IterOK, CtxOK, OwnWay, ClientLabels, FireLabels, ToolLabels, PromoteLabels
  <2> QED BY <2>1, <2>2, <2>3 DEF Ctl, Labels
<1>2. CASE Again(r) /\ iter[r] = MaxIterations
  BY <1>2, Returning DEF Again
<1>3. CASE Again(r) /\ iter[r] # MaxIterations
  <2>1. /\ pc' = [pc EXCEPT ![r] = "llm"] /\ loop' = [loop EXCEPT ![WorkerOf[r]] = NoRun]
        /\ ctx' = [ctx EXCEPT ![r] = NoColumn] /\ calls' = [calls EXCEPT ![r] = 0]
        /\ UNCHANGED <<tick, msg, colOf, iter>>
    BY <1>3 DEF Again, Goto
  <2>2. calls' \in [Runs -> 0..MaxCalls] /\ iter[r] < MaxIterations
    BY <1>3, <2>1, AgentAssumption DEF Ctl
  <2>3. IterOK' /\ CtxOK' /\ OwnWay'
    BY <2>1, <2>2 DEF Ctl, IterOK, CtxOK, OwnWay, ClientLabels, FireLabels, ToolLabels, PromoteLabels
  <2> QED BY <2>1, <2>2, <2>3 DEF Ctl, Labels
<1> QED BY <1>1, <1>2, <1>3 DEF AfterTool

-----------------------------------------------------------------------------
(* Data: what is written to the row *)

LEMMA SettingRow ==
  ASSUME Data, NEW r \in Runs, NEW new \in Rows, SetRow(r, new)
  PROVE  /\ row' \in Rows /\ copy' \in [Runs -> Rows] /\ nudges' \in Nat
  BY DEF Data, SetRow, NoRow, Rows, Statuses, ForcedAt

LEMMA Upserting ==
  ASSUME Data, NEW r \in Runs, NEW new \in Rows, Upsert(r, new)
  PROVE  /\ row' \in Rows /\ copy' \in [Runs -> Rows] /\ nudges' \in Nat
  BY DEF Data, Upsert

LEMMA Quiet ==
  ASSUME Data, NoStatement
  PROVE  /\ row' \in Rows /\ copy' \in [Runs -> Rows] /\ nudges' \in Nat
  BY DEF Data, NoStatement

LEMMA RowReset ==
  ASSUME NEW x \in Rows, NEW c \in Columns \cup {NoColumn}, NEW role \in {"own", "custom"},
         NEW s \in Statuses
  PROVE  [x EXCEPT !.column = c, !.role = role, !.turns = 0, !.timer = "none", !.fires = 0,
                   !.status = s] \in Rows
<1>1. 0 \in 0..ForcedAt
  BY DEF ForcedAt
<1> QED BY <1>1 DEF Rows

LEMMA RowTimed ==
  ASSUME NEW x \in Rows, NEW n \in Nat, NEW t \in {"none", "armed", "due"}
  PROVE  [x EXCEPT !.turns = n, !.timer = t, !.fires = 0] \in Rows
<1>1. 0 \in 0..ForcedAt
  BY DEF ForcedAt
<1> QED BY <1>1 DEF Rows

LEMMA RowsBuilt ==
  ASSUME Data, NEW c \in Columns \cup {NoColumn}
  PROVE  /\ NoRow \in Rows /\ Synced(c) \in Rows /\ Postponed(c) \in Rows /\ Forced(c) \in Rows
         /\ SaveData(c) \in Rows /\ Reschedule(c) \in Rows /\ DeleteFinal(c) \in Rows
<1>1. NoRow \in Rows
  BY DEF NoRow, Rows, Statuses, ForcedAt
<1>2. Synced(c) \in Rows /\ SaveData(c) \in Rows
  BY DEF Data, Synced, SaveData, Rows, Statuses
<1>3. Postponed(c) \in Rows
  BY DEF Data, Postponed, Rows
<1>4. Forced(c) \in Rows
  <2>1. [row EXCEPT !.column = c, !.role = "custom", !.timer = "armed"] \in Rows
    BY DEF Data, Rows
  <2>2. \A x \in Rows : [x EXCEPT !.fires = 0, !.status = "paused"] \in Rows
    <3> TAKE x \in Rows
    <3>1. 0 \in 0..ForcedAt /\ "paused" \in Statuses
      BY DEF ForcedAt, Statuses
    <3> QED BY <3>1 DEF Rows
  <2>3. Forced(c) = [[row EXCEPT !.column = c, !.role = "custom", !.timer = "armed"]
                       EXCEPT !.fires = 0, !.status = "paused"]
    BY DEF Forced, Data, Rows
  <2> QED BY <2>1, <2>2, <2>3
<1>5. Reschedule(c) \in Rows /\ DeleteFinal(c) \in Rows
  BY <1>2 DEF Reschedule, DeleteFinal, Rows, Statuses
<1> QED BY <1>1, <1>2, <1>3, <1>4, <1>5

-----------------------------------------------------------------------------
(* Types: one lemma for the control of each step, one for its data *)

LEMMA ControlStep ==
  ASSUME Ctl, Data, NEW r \in Runs, Step(r)
  PROVE  Ctl'
<1> USE AgentAssumption DEF At, Labels, ClientLabels, FireLabels, ToolLabels, PromoteLabels
<1>1. CASE ClientLock(r)
  BY <1>1, Going, Returning DEF ClientLock, Ctl, OwnWay, IterOK
<1>2. CASE ClientSync(r)
  BY <1>2, Going DEF ClientSync, Ctl, OwnWay, IterOK
<1>3. CASE ClientLimit(r)
  BY <1>3, Going, Returning DEF ClientLimit, Ctl, OwnWay, IterOK
<1>4. CASE Transcribed(r)
  BY <1>4, Going DEF Transcribed, Ctl, OwnWay, IterOK
<1>5. CASE DeliverNotice(r)
  BY <1>5, Returning DEF DeliverNotice
<1>6. CASE ClientTurn(r)
  BY <1>6, Going DEF ClientTurn, Ctl, IterOK
<1>7. CASE FireLock(r)
  BY <1>7, Going, Returning DEF FireLock, Ctl, IterOK
<1>8. CASE Postpone(r)
  BY <1>8, Going DEF Postpone, Ctl, IterOK
<1>9. CASE CountFire(r)
  BY <1>9, Going DEF CountFire, Ctl, IterOK
<1>10. CASE ClearTimer(r)
  BY <1>10, Returning DEF ClearTimer
<1>11. CASE ForceMorno(r)
  BY <1>11, Going DEF ForceMorno, Ctl, IterOK
<1>12. CASE Dispatch(r)
  BY <1>12, Going DEF Dispatch, Ctl, IterOK
<1>13. CASE SwitchedOff(r)
  BY <1>13, Returning DEF SwitchedOff
<1>14. CASE NoAnswer(r)
  BY <1>14, Returning DEF NoAnswer
<1>15. CASE FinalText(r)
  BY <1>15, Going, Returning DEF FinalText
<1>16. CASE CallTools(r)
  <2>1. /\ pc' = [pc EXCEPT ![r] = "tool"] /\ loop' = [loop EXCEPT ![WorkerOf[r]] = r]
        /\ ctx' = [ctx EXCEPT ![r] = cardColumn] /\ iter' = [iter EXCEPT ![r] = @ + 1]
        /\ calls' = [calls EXCEPT ![r] = 1] /\ pc[r] = "llm"
        /\ UNCHANGED <<tick, msg, colOf>>
    BY <1>16 DEF CallTools, Goto, locks
  <2>2. iter' \in [Runs -> 0..MaxIterations] /\ calls' \in [Runs -> 0..MaxCalls]
    BY <2>1 DEF Ctl, IterOK
  <2>3. IterOK' /\ CtxOK' /\ OwnWay'
    BY <2>1 DEF Ctl, Data, IterOK, CtxOK, OwnWay
  <2> QED BY <2>1, <2>2, <2>3 DEF Ctl, Data
<1>17. CASE Write(r)
  BY <1>17, Going, Returning, GoingOn DEF Write, Ctl, IterOK, CtxOK, OwnWay
<1>18. CASE ReadTool(r)
  BY <1>18, GoingOn DEF ReadTool
<1>19. CASE RowTool(r)
  BY <1>19, Going DEF RowTool, CtxOK, Ctl
<1>20. CASE MoveTool(r)
  BY <1>20, Going DEF MoveTool, CtxOK, Ctl
<1>21. CASE Escalate(r)
  BY <1>21, Going DEF Escalate, CtxOK, Ctl
<1>22. CASE EscalateMove(r)
  BY <1>22, Going, GoingOn DEF EscalateMove, CtxOK, Ctl
<1>23. CASE Handoff(r)
  BY <1>23, Going DEF Handoff, CtxOK, Ctl
<1>24. CASE HandoffStatus(r)
  BY <1>24, Going DEF HandoffStatus, CtxOK, Ctl
<1>25. CASE Emitted(r)
  BY <1>25, GoingOn DEF Emitted
<1>26. CASE Promote(r)
  BY <1>26, Going, GoingOn DEF Promote, CtxOK, Ctl, MayPromote
<1>27. CASE Promoted(r)
  BY <1>27, Going DEF Promoted, CtxOK, Ctl
<1>28. CASE Deliver(r)
  BY <1>28, Going DEF Deliver
<1>29. CASE SendFails(r)
  BY <1>29, Returning DEF SendFails
<1>31. CASE InsertRow(r)
  BY <1>31, Going, Returning DEF InsertRow, Ctl, OwnWay, IterOK
<1>32. CASE ReadCount(r)
  BY <1>32, Going DEF ReadCount, Ctl, IterOK
<1>30. CASE AfterSend(r)
  <2>1. CASE Return(r)
    BY <2>1, Returning
  <2>2. CASE ~Return(r)
    <3>1. /\ pc' = [pc EXCEPT ![r] = "auto_promote"] /\ loop' = [loop EXCEPT ![WorkerOf[r]] = r]
          /\ ctx' = [ctx EXCEPT ![r] = cardColumn] /\ PromoteTo[cardColumn] # NoColumn
          /\ UNCHANGED <<tick, msg, colOf, iter, calls>>
      BY <1>30, <2>2 DEF AfterSend, Goto
    <3>2. IterOK' /\ CtxOK' /\ OwnWay'
      BY <3>1 DEF Ctl, Data, IterOK, CtxOK, OwnWay
    <3> QED BY <3>1, <3>2 DEF Ctl, Data
  <2> QED BY <2>1, <2>2
<1> QED BY <1>1, <1>2, <1>3, <1>4, <1>5, <1>6, <1>7, <1>8, <1>9, <1>10, <1>11, <1>12, <1>13, <1>14, <1>15, <1>16, <1>17, <1>18, <1>19, <1>20, <1>21, <1>22, <1>23, <1>24, <1>25, <1>26, <1>27, <1>28, <1>29, <1>30, <1>31, <1>32
  DEF Step, ClientStep, FireStep, ToolStep

LEMMA DataStep ==
  ASSUME Ctl, Data, NEW r \in Runs, Step(r)
  PROVE  Data'
<1> USE AgentAssumption DEF Data, card
<1>1. CASE ClientLock(r)
  <2>1. msg[r] \in Msgs
    BY <1>1 DEF ClientLock, At, Ctl, OwnWay
  <2>2. msgLocks' \subseteq Msgs /\ UNCHANGED <<cardColumn, enabled, fireLock>> /\ NoStatement
    BY <1>1, <2>1 DEF ClientLock
  <2> QED BY <2>2, Quiet
<1>2. CASE ClientSync(r)
  <2>2. colOf[r] \in Columns \cup {NoColumn}
    BY DEF Ctl
  <2>1. Synced(colOf[r]) \in Rows
    BY <2>2, RowsBuilt
  <2> QED BY <1>2, <2>1, Upserting DEF ClientSync
<1>3. CASE ClientLimit(r)
  <2>1. [row EXCEPT !.status = "stuck"] \in Rows
    BY DEF Rows, Statuses
  <2>2. CASE SetStatus(r, "stuck")
    BY <1>3, <2>1, <2>2, SettingRow DEF ClientLimit, SetStatus
  <2>3. CASE NoStatement
    BY <1>3, <2>3, Quiet DEF ClientLimit
  <2>4. CASE Forget(r)
    BY <1>3, <2>4, Upserting, RowsBuilt DEF ClientLimit, Forget
  <2> QED BY <1>3, <2>2, <2>3, <2>4 DEF ClientLimit
<1>4. CASE Transcribed(r)
  BY <1>4, Quiet DEF Transcribed
<1>5. CASE DeliverNotice(r)
  BY <1>5, Upserting, RowsBuilt DEF DeliverNotice, Forget
<1>6. CASE ClientTurn(r)
  <2>1. row.turns + 1 \in Nat
    BY DEF Rows
  <2>2. [row EXCEPT !.turns = row.turns + 1, !.timer = "armed", !.fires = 0] \in Rows
    BY <2>1, RowTimed
  <2> QED BY <1>6, <2>2, SettingRow DEF ClientTurn
<1>7. CASE FireLock(r)
  BY <1>7, Quiet DEF FireLock
<1>8. CASE Postpone(r)
  BY <1>8, Upserting, RowsBuilt DEF Postpone, Ctl
<1>9. CASE CountFire(r)
  <2>1. NextFire \in 0..ForcedAt
    BY DEF NextFire, ForcedAt, Rows
  <2>2. [row EXCEPT !.fires = NextFire] \in Rows
    BY <2>1 DEF Rows
  <2> QED BY <1>9, <2>2, SettingRow DEF CountFire
<1>10. CASE ClearTimer(r)
  <2>1. 0 \in 0..ForcedAt
    BY DEF ForcedAt
  <2>2. [row EXCEPT !.timer = "none", !.fires = 0] \in Rows
    BY <2>1 DEF Rows
  <2> QED BY <1>10, <2>2, SettingRow DEF ClearTimer
<1>11. CASE ForceMorno(r)
  BY <1>11, Upserting, RowsBuilt DEF ForceMorno, Ctl
<1>12. CASE Dispatch(r)
  <2>1. nudges' \in Nat
    BY <1>12 DEF Dispatch, ForcedAt
  <2> QED BY <1>12, <2>1 DEF Dispatch, card
<1>13. CASE SwitchedOff(r)
  BY <1>13, Quiet DEF SwitchedOff
<1>14. CASE NoAnswer(r)
  BY <1>14, Quiet DEF NoAnswer
<1>15. CASE FinalText(r)
  BY <1>15, Quiet DEF FinalText
<1>16. CASE CallTools(r)
  BY <1>16, Quiet DEF CallTools, locks
<1>17. CASE Write(r)
  <2>1. UNCHANGED <<card, msgLocks, fireLock>>
    BY <1>17 DEF Write
  <2>2. copy[r] \in Rows
    OBVIOUS
  <2>3. CASE SetRow(r, copy[r])
    BY <2>1, <2>2, <2>3, SettingRow
  <2>4. CASE row' = copy[r] /\ UNCHANGED copy /\ nudges' = IF copy[r].fires = 0 THEN 0 ELSE nudges
    BY <2>1, <2>2, <2>4
  <2> QED BY <1>17, <2>3, <2>4 DEF Write
<1>18. CASE ReadTool(r)
  BY <1>18, Quiet DEF ReadTool
<1>19. CASE RowTool(r)
  BY <1>19, Upserting, RowsBuilt DEF RowTool, Ctl
<1>20. CASE MoveTool(r)
  <2>0. UNCHANGED <<enabled, msgLocks, fireLock>> /\ ctx[r] \in Columns
    BY <1>20 DEF MoveTool, Ctl, CtxOK, At, ToolLabels
  <2>1. CASE MarkLost(r)
    <3> DEFINE c == IF LostColumn = NoColumn THEN ctx[r] ELSE LostColumn
    <3>1. c \in Columns /\ SaveData(c) \in Rows
      BY <2>0, RowsBuilt
    <3>2. [SaveData(c) EXCEPT !.status = "done"] \in Rows
      BY <3>1 DEF Rows, Statuses
    <3>3. cardColumn' \in Columns /\ Upsert(r, [SaveData(c) EXCEPT !.status = "done"])
      BY <2>1, <3>1 DEF MarkLost
    <3> QED BY <2>0, <3>2, <3>3, Upserting
  <2>2. CASE ToFollowUp(r)
    <3> DEFINE new == [SaveData(FollowUpColumn) EXCEPT
                         !.turns = 0, !.timer = "none", !.fires = 0, !.status = "active"]
    <3>1. SaveData(FollowUpColumn) \in Rows
      BY RowsBuilt
    <3>2. 0 \in 0..ForcedAt /\ "active" \in Statuses
      BY DEF ForcedAt, Statuses
    <3>4. new \in Rows
      BY <3>1, <3>2 DEF Rows
    <3>3. cardColumn' \in Columns /\ Upsert(r, new)
      BY <2>2 DEF ToFollowUp
    <3> QED BY <2>0, <3>3, <3>4, Upserting
  <2>3. CASE BackToSeller(r)
    <3> DEFINE new == [SaveData(SellerColumn) EXCEPT !.turns = 0, !.status = "active"]
    <3>1. SaveData(SellerColumn) \in Rows
      BY RowsBuilt
    <3>2. new \in Rows
      BY <3>1 DEF Rows, Statuses
    <3>3. cardColumn' \in Columns /\ Upsert(r, new)
      BY <2>3 DEF BackToSeller
    <3> QED BY <2>0, <3>2, <3>3, Upserting
  <2> QED BY <1>20, <2>1, <2>2, <2>3 DEF MoveTool
<1>21. CASE Escalate(r)
  BY <1>21, SettingRow DEF Escalate, SetStatus, Rows, Statuses
<1>22. CASE EscalateMove(r)
  <2> DEFINE new == [row EXCEPT !.column = HumanColumn, !.role = "custom", !.turns = 0,
                                !.timer = "none", !.fires = 0, !.status = "escalated"]
  <2>1. HumanColumn \in Columns \cup {NoColumn}
    OBVIOUS
  <2>2. new \in Rows
    BY <2>1, RowReset DEF Statuses
  <2>3. CASE NoStatement /\ UNCHANGED cardColumn
    BY <1>22, <2>3, Quiet DEF EscalateMove
  <2>4. CASE cardColumn' = HumanColumn /\ HumanColumn # NoColumn /\ Upsert(r, new)
    BY <1>22, <2>1, <2>2, <2>4, Upserting DEF EscalateMove
  <2> QED BY <1>22, <2>3, <2>4 DEF EscalateMove
<1>23. CASE Handoff(r)
  BY <1>23, Quiet DEF Handoff
<1>24. CASE HandoffStatus(r)
  BY <1>24, SettingRow DEF HandoffStatus, SetStatus, Rows, Statuses
<1>25. CASE Emitted(r)
  BY <1>25, Quiet DEF Emitted
<1>26. CASE Promote(r)
  BY <1>26, Quiet, Upserting, RowsBuilt DEF Promote, Ctl
<1>27. CASE Promoted(r)
  <2>1. PromoteTo[ctx[r]] \in Columns
    BY <1>27 DEF Promoted, Ctl, CtxOK, At, PromoteLabels
  <2>2. PICK role \in {"own", "custom"} :
          Upsert(r, [row EXCEPT !.column = PromoteTo[ctx[r]], !.role = role, !.turns = 0,
                                !.timer = "none", !.fires = 0, !.status = "active"])
    BY <1>27 DEF Promoted
  <2>3. [row EXCEPT !.column = PromoteTo[ctx[r]], !.role = role, !.turns = 0,
                    !.timer = "none", !.fires = 0, !.status = "active"] \in Rows
    BY <2>1, RowReset DEF Statuses
  <2> QED BY <1>27, <2>1, <2>2, <2>3, Upserting DEF Promoted
<1>28. CASE Deliver(r)
  BY <1>28, Quiet DEF Deliver
<1>29. CASE SendFails(r)
  BY <1>29, Quiet DEF SendFails
<1>30. CASE AfterSend(r)
  BY <1>30, Quiet DEF AfterSend
<1>31. CASE InsertRow(r)
  <2>1. Synced(colOf[r]) \in Rows /\ NoRow \in Rows
    BY RowsBuilt DEF Ctl
  <2>2. [Synced(colOf[r]) EXCEPT !.turns = 0, !.status = "active"] \in Rows
    BY <2>1 DEF Rows, Statuses
  <2>3. row' \in Rows
    BY <1>31, <2>2 DEF InsertRow
  <2>4. copy' \in [Runs -> Rows]
    BY <1>31, <2>1, <2>3 DEF InsertRow
  <2>5. nudges' \in Nat
    BY <1>31 DEF InsertRow
  <2> QED BY <1>31, <2>3, <2>4, <2>5 DEF InsertRow
<1>32. CASE ReadCount(r)
  BY <1>32, Quiet DEF ReadCount
<1> QED BY <1>1, <1>2, <1>3, <1>4, <1>5, <1>6, <1>7, <1>8, <1>9, <1>10, <1>11, <1>12, <1>13, <1>14, <1>15, <1>16, <1>17, <1>18, <1>19, <1>20, <1>21, <1>22, <1>23, <1>24, <1>25, <1>26, <1>27, <1>28, <1>29, <1>30, <1>31, <1>32
  DEF Step, ClientStep, FireStep, ToolStep

LEMMA OtherStep ==
  ASSUME Ctl, Data, [Users \/ Time \/ \E r \in Runs : Start(r)]_vars
  PROVE  Ctl' /\ Data'
<1> USE AgentAssumption DEF card, locks, locals
<1>1. ASSUME NEW r \in Clients, NEW m \in Msgs, ClientStart(r, m) PROVE Ctl' /\ Data'
  <2>1. /\ pc' = [pc EXCEPT ![r] = "lock"] /\ loop' = [loop EXCEPT ![WorkerOf[r]] = NoRun]
        /\ msg' = [msg EXCEPT ![r] = m] /\ colOf' = [colOf EXCEPT ![r] = cardColumn]
        /\ pc[r] = "idle" /\ UNCHANGED <<tick, ctx, iter, calls>>
    BY <1>1 DEF ClientStart, At, Goto
  <2>2. IterOK' /\ CtxOK' /\ OwnWay'
    BY <2>1 DEF Ctl, IterOK, CtxOK, OwnWay, Runs, ClientLabels, FireLabels, ToolLabels, PromoteLabels
  <2>3. Ctl'
    BY <2>1, <2>2 DEF Ctl, Data, Labels, Runs
  <2>4. Data'
    BY <1>1 DEF ClientStart, NoStatement, Data
  <2> QED BY <2>3, <2>4
<1>2. ASSUME NEW r \in Fires, FireFound(r) PROVE Ctl' /\ Data'
  <2>1. /\ pc' = [pc EXCEPT ![r] = "fire_lock"] /\ loop' = [loop EXCEPT ![WorkerOf[r]] = NoRun]
        /\ tick' = r /\ colOf' = [colOf EXCEPT ![r] = row.column] /\ row.column \in Columns \cup {NoColumn}
        /\ pc[r] = "idle" /\ UNCHANGED <<msg, ctx, iter, calls>>
    BY <1>2 DEF FireFound, At, Goto, Data, Rows
  <2>2. IterOK' /\ CtxOK' /\ OwnWay'
    BY <2>1 DEF Ctl, IterOK, CtxOK, OwnWay, Runs, ClientLabels, FireLabels, ToolLabels, PromoteLabels
  <2>3. Ctl'
    BY <2>1, <2>2 DEF Ctl, Data, Labels, Runs
  <2>4. Data'
    BY <1>2 DEF FireFound, NoStatement, Data
  <2> QED BY <2>3, <2>4
<1>3. ASSUME NEW c \in Columns, UserMoves(c) PROVE Ctl' /\ Data'
  BY <1>3 DEF UserMoves, Ctl, Data, IterOK, CtxOK, OwnWay
<1>4. ASSUME NEW c \in Switchable, Switch(c) PROVE Ctl' /\ Data'
  BY <1>4 DEF Switch, Ctl, Data, IterOK, CtxOK, OwnWay
<1>5. CASE TimerDue
  <2>1. [row EXCEPT !.timer = "due"] \in Rows
    BY DEF Data, Rows
  <2> QED BY <1>5, <2>1 DEF TimerDue, Ctl, Data, IterOK, CtxOK, OwnWay
<1>6. CASE TickTimeout
  BY <1>6 DEF TickTimeout, Ctl, Data, IterOK, CtxOK, OwnWay
<1>7. CASE FireLockExpires
  BY <1>7 DEF FireLockExpires, Ctl, Data, IterOK, CtxOK, OwnWay
<1>8. ASSUME NEW m \in Msgs, MsgLockExpires(m) PROVE Ctl' /\ Data'
  BY <1>8 DEF MsgLockExpires, Ctl, Data, IterOK, CtxOK, OwnWay
<1>9. CASE UNCHANGED vars
  BY <1>9 DEF vars, Ctl, Data, IterOK, CtxOK, OwnWay
<1> QED BY <1>1, <1>2, <1>3, <1>4, <1>5, <1>6, <1>7, <1>8, <1>9 DEF Users, Time, Start

LEMMA Inductive == IInv /\ [Next]_vars => IInv'
<1> SUFFICES ASSUME IInv, [Next]_vars PROVE IInv'
  OBVIOUS
<1>1. Ctl' /\ Data'
  BY ControlStep, DataStep, OtherStep DEF IInv, Next
<1>2. raced' \in BOOLEAN
  <2>1. ASSUME NEW r \in Runs, Step(r) PROVE raced' \in BOOLEAN
    <3>1. raced' = (raced \/ Races(r))
      BY <2>1 DEF Step
    <3> QED BY <3>1, Zenon
  <2>2. CASE [Users \/ Time \/ \E r \in Runs : Start(r)]_vars
    <3>1. raced' = raced
      BY <2>2 DEF Users, Time, Start, UserMoves, Switch, TimerDue, TickTimeout, FireLockExpires, MsgLockExpires, vars
    <3> QED BY <3>1 DEF IInv
  <2> QED BY <2>1, <2>2 DEF Next
<1> QED BY <1>1, <1>2 DEF IInv

\* Every variable of the agent keeps its type in every reachable state.
THEOREM TypeCorrect == Spec => []TypeOK
<1>1. Spec => []IInv
  BY InitIInv, Inductive, PTL DEF Spec
<1> QED BY <1>1, IInvTypeOK, PTL

-----------------------------------------------------------------------------
(* The bounds, as long as no run changes a count that another has read and *)
(* still acts on.                                                          *)

LateLabels  == {"audio", "count"}

\* A copy to be written has the counters of the row, or has reset them.
Fresh ==
  \A r \in Runs :
    /\ pc[r] \in WriteLabels => /\ copy[r].fires \in {0, row.fires}
                                /\ copy[r].turns \in {0, row.turns}
    /\ pc[r] = "limit" => copy[r].turns = row.turns

FiredLabels == {"counted", "fired"}

\* The fire that is about to be dispatched is counted already, and it is the only one.
Counted ==
  /\ nudges < ForcedAt /\ nudges <= row.fires
  /\ \A r \in Runs : pc[r] \in FiredLabels => nudges < row.fires
  /\ \A r \in Runs : pc[r] = "fired" => row.fires < ForcedAt
  /\ \A q, r \in Runs :
       pc[q] \in FiredLabels /\ pc[r] \in FiredLabels /\ row.fires < ForcedAt => q = r

\* Each client that is not yet past the limit has a turn in reserve.
Reserve == row.turns < MaxTurns + Cardinality({q \in Clients : pc[q] \notin LateLabels})

Bounds == Fresh /\ Counted /\ Reserve
BInv == ~raced => Bounds

LEMMA BInvBounds == BInv /\ TypeOK => NudgesBounded /\ TurnsBounded
<1> SUFFICES ASSUME Bounds, TypeOK PROVE nudges < ForcedAt /\ row.turns < MaxTurns + Cardinality(Clients)
  BY DEF BInv, NudgesBounded, TurnsBounded
<1> DEFINE early == {q \in Clients : pc[q] \notin LateLabels}
<1>1. /\ Cardinality(early) \in Nat /\ Cardinality(Clients) \in Nat
      /\ Cardinality(early) <= Cardinality(Clients)
  BY AgentAssumption, FS_Subset, FS_CardinalityType
<1>2. row.turns \in Nat
  BY DEF TypeOK, Rows
<1> QED BY <1>1, <1>2, AgentAssumption DEF Bounds, Counted, Reserve

LEMMA InitBInv == Init => BInv
<1> SUFFICES ASSUME Init PROVE Bounds
  BY DEF BInv
<1>1. Fresh /\ Counted
  BY DEF Init, NoRow, ForcedAt, Fresh, Counted, FiredLabels, WriteLabels
<1>2. Cardinality({q \in Clients : pc[q] \notin LateLabels}) \in Nat
  BY AgentAssumption, FS_Subset, FS_CardinalityType
<1>3. Reserve
  BY <1>2, AgentAssumption DEF Init, NoRow, Reserve
<1> QED BY <1>1, <1>3 DEF Bounds

\* A run moves nobody else, and takes or leaves only its own worker's loop.
LEMMA Others ==
  ASSUME IInv, NEW r \in Runs, Step(r)
  PROVE  /\ \A q \in Runs \ {r} : pc'[q] = pc[q] /\ copy'[q] = copy[q]
         /\ loop[WorkerOf[r]] \in {NoRun, r}
         /\ \E label \in Labels, owner \in {r, NoRun} :
              Goto(r, label, owner) /\ (label \in HeldLabels => owner = r)
<1>1. loop[WorkerOf[r]] \in {NoRun, r}
  BY DEF Step, ClientStep, FireStep, ToolStep, At, ClientLock, ClientSync, InsertRow, ClientLimit, Transcribed,
         DeliverNotice, ClientTurn, FireLock, Postpone, CountFire, ReadCount, ClearTimer, ForceMorno, Dispatch,
         SwitchedOff, NoAnswer, FinalText, CallTools, Write, ReadTool, RowTool, MoveTool, Escalate,
         EscalateMove, Handoff, HandoffStatus, Emitted, Promote, Promoted, Deliver, SendFails, AfterSend
<1>3. \E label \in Labels, owner \in {r, NoRun} :
        Goto(r, label, owner) /\ (label \in HeldLabels => owner = r)
  <2> USE DEF Keep, Await, Return, AfterTool, NextCall, Again, Labels, HeldLabels, WriteLabels
  <2>1. CASE ClientStep(r)
    BY <2>1 DEF ClientStep, ClientLock, ClientSync, InsertRow, ClientLimit, Transcribed, DeliverNotice, ClientTurn
  <2>2. CASE FireStep(r)
    BY <2>2 DEF FireStep, FireLock, Postpone, CountFire, ReadCount, ClearTimer, ForceMorno, Dispatch, SwitchedOff
  <2>3. CASE NoAnswer(r) \/ FinalText(r) \/ CallTools(r) \/ Write(r) \/ ReadTool(r) \/ RowTool(r) \/ MoveTool(r)
    BY <2>3 DEF NoAnswer, FinalText, CallTools, Write, ReadTool, RowTool, MoveTool
  <2>4. CASE Escalate(r) \/ EscalateMove(r) \/ Handoff(r) \/ HandoffStatus(r) \/ Emitted(r)
    BY <2>4 DEF Escalate, EscalateMove, Handoff, HandoffStatus, Emitted
  <2>5. CASE Promote(r) \/ Promoted(r) \/ Deliver(r) \/ SendFails(r) \/ AfterSend(r)
    BY <2>5 DEF Promote, Promoted, Deliver, SendFails, AfterSend
  <2> QED BY <2>1, <2>2, <2>3, <2>4, <2>5 DEF Step, ToolStep
<1>4. \A q \in Runs \ {r} : pc'[q] = pc[q]
  BY <1>3 DEF Goto, IInv, Ctl
<1>5. copy' = copy \/ \E new : copy' = [copy EXCEPT ![r] = new]
  <2> USE DEF SetRow, SetStatus, Upsert, NoStatement, Forget
  <2>1. CASE ClientStep(r)
    BY <2>1 DEF ClientStep, ClientLock, ClientSync, InsertRow, ClientLimit, Transcribed, DeliverNotice, ClientTurn
  <2>2. CASE FireStep(r)
    BY <2>2 DEF FireStep, FireLock, Postpone, CountFire, ReadCount, ClearTimer, ForceMorno, Dispatch, SwitchedOff
  <2>3. CASE NoAnswer(r) \/ FinalText(r) \/ CallTools(r) \/ Write(r) \/ ReadTool(r) \/ RowTool(r)
    BY <2>3 DEF NoAnswer, FinalText, CallTools, Write, ReadTool, RowTool, locks
  <2>4. CASE Escalate(r) \/ EscalateMove(r) \/ Handoff(r) \/ HandoffStatus(r) \/ Emitted(r) \/ MoveTool(r)
    BY <2>4 DEF Escalate, EscalateMove, Handoff, HandoffStatus, Emitted, MoveTool, MarkLost, ToFollowUp,
                BackToSeller
  <2>5. CASE Promote(r) \/ Promoted(r) \/ Deliver(r) \/ SendFails(r) \/ AfterSend(r)
    BY <2>5 DEF Promote, Promoted, Deliver, SendFails, AfterSend
  <2> QED BY <2>1, <2>2, <2>3, <2>4, <2>5 DEF Step, ToolStep
<1>6. \A q \in Runs \ {r} : copy'[q] = copy[q]
  BY <1>5 DEF IInv, Data
<1> QED BY <1>1, <1>3, <1>4, <1>6

\* A step that does not race keeps the counters, or nobody else acts on them.
LEMMA Unraced ==
  ASSUME IInv, BInv, NEW r \in Runs, Step(r), ~raced'
  PROVE  /\ Bounds
         /\ \/ row'.fires = row.fires /\ row'.turns = row.turns
            \/ \A q \in Runs \ {r} : pc[q] \notin HeldLabels
<1>1. ~raced /\ ~Races(r)
  BY DEF Step
<1> QED BY <1>1 DEF BInv, Races

\* What most steps do to the counters: they keep them or reset them, and r's copy has
\* them as they are in the row.
Mild(r) ==
  /\ row'.fires \in {0, row.fires} /\ row'.turns \in {0, row.turns}
  /\ nudges' \in {0, nudges} /\ (row'.fires # row.fires => nudges' = 0)
  /\ pc'[r] \notin FiredLabels
  /\ pc'[r] \in WriteLabels => copy'[r].fires \in {0, row'.fires} /\ copy'[r].turns \in {0, row'.turns}
  /\ pc'[r] = "limit" => copy'[r].turns = row'.turns
  /\ pc'[r] \in LateLabels => pc[r] \in LateLabels \/ row'.turns < MaxTurns

LEMMA MoreReserve ==
  ASSUME NEW S, NEW T, S \subseteq T, T \subseteq Clients
  PROVE  Cardinality(S) \in Nat /\ Cardinality(T) \in Nat /\ Cardinality(S) <= Cardinality(T)
  BY AgentAssumption, FS_Subset, FS_CardinalityType

LEMMA MildKeeps ==
  ASSUME IInv, IInv', BInv, NEW r \in Runs, Step(r), Mild(r)
  PROVE  BInv'
<1> SUFFICES ASSUME ~raced' PROVE Fresh' /\ Counted' /\ Reserve'
  BY DEF BInv, Bounds
<1>1. \A q \in Runs \ {r} : pc'[q] = pc[q] /\ copy'[q] = copy[q]
  BY Others
<1>2. row \in Rows /\ row' \in Rows /\ nudges \in Nat /\ nudges' \in Nat
  BY DEF IInv, Data
<1>3. /\ Fresh /\ Counted /\ Reserve
      /\ \/ row'.fires = row.fires /\ row'.turns = row.turns
         \/ \A q \in Runs \ {r} : pc[q] \notin HeldLabels
  BY Unraced DEF Bounds
<1>4. Fresh'
  <2>1. ASSUME NEW q \in Runs \ {r}, pc[q] \in WriteLabels \cup {"limit"}
        PROVE  row'.fires = row.fires /\ row'.turns = row.turns
    BY <1>3, <2>1 DEF HeldLabels
  <2> QED BY <1>1, <1>3, <2>1 DEF Fresh, Mild
<1>5. Counted'
  <2>1. nudges' < ForcedAt /\ nudges' <= row'.fires
    BY <1>2, <1>3 DEF Mild, Counted, Rows, ForcedAt
  <2>2. ASSUME NEW q \in Runs, pc'[q] \in FiredLabels
        PROVE  q # r /\ pc'[q] = pc[q] /\ row'.fires = row.fires
    BY <1>1, <1>3, <2>2 DEF Mild, HeldLabels, FiredLabels
  <2>3. ASSUME NEW q \in Runs, pc'[q] \in FiredLabels
        PROVE  nudges' < row'.fires /\ (pc'[q] = "fired" => row'.fires < ForcedAt)
    BY <1>2, <1>3, <2>2, <2>3 DEF Mild, Counted, Rows
  <2>4. \A q, s \in Runs :
          pc'[q] \in FiredLabels /\ pc'[s] \in FiredLabels /\ row'.fires < ForcedAt => q = s
    BY <1>3, <2>2 DEF Counted
  <2>5. \A q \in Runs : pc'[q] = "fired" => row'.fires < ForcedAt
    BY <2>3 DEF FiredLabels
  <2> QED BY <2>1, <2>3, <2>4, <2>5 DEF Counted
<1>6. Reserve'
  <2> DEFINE early == {q \in Clients : pc[q] \notin LateLabels}
             after == {q \in Clients : pc'[q] \notin LateLabels}
  <2>0. row.turns \in Nat /\ row'.turns \in Nat /\ MaxTurns \in Nat /\ MaxTurns > 0
    BY <1>2, AgentAssumption DEF Rows
  <2>1. Cardinality(after) \in Nat
    BY MoreReserve
  <2>2. CASE row'.turns < MaxTurns
    BY <2>0, <2>1, <2>2 DEF Reserve
  <2>3. CASE ~(row'.turns < MaxTurns)
    <3>1. early \subseteq after
      BY <1>1, <2>3 DEF Mild, Runs
    <3>2. Cardinality(early) \in Nat /\ Cardinality(early) <= Cardinality(after)
      BY <3>1, MoreReserve
    <3>3. row'.turns = row.turns
      BY <2>0, <2>3 DEF Mild
    <3>4. row.turns < MaxTurns + Cardinality(early)
      BY <1>3 DEF Reserve
    <3>5. row'.turns < MaxTurns + Cardinality(after)
      BY <2>0, <2>1, <3>2, <3>3, <3>4
    <3> QED BY <3>5 DEF Reserve
  <2> QED BY <2>2, <2>3
<1> QED BY <1>4, <1>5, <1>6

\* r goes where nothing it has read of the row is used any more.
Away(r) == \E label \in Labels \ (HeldLabels \cup LateLabels), owner \in {r, NoRun} : Goto(r, label, owner)

LEMMA Leaving ==
  ASSUME NEW r \in Runs
  PROVE  /\ Return(r) => Away(r)
         /\ AfterTool(r) => Away(r)
         /\ \A label \in Labels \ (HeldLabels \cup LateLabels) :
              Keep(r, label) \/ Await(r, label) => Away(r)
  BY DEF Away, Return, AfterTool, NextCall, Again, Keep, Await, Labels, HeldLabels, WriteLabels, LateLabels

LEMMA MildQuiet ==
  ASSUME IInv, NEW r \in Runs, Away(r), UNCHANGED <<row, nudges>>
  PROVE  Mild(r)
<1>1. row \in Rows
  BY DEF IInv, Data
<1>2. pc'[r] \notin HeldLabels \cup LateLabels
  BY DEF Away, Goto, IInv, Ctl
<1> QED BY <1>1, <1>2 DEF Mild, Rows, HeldLabels, FiredLabels

LEMMA MildSet ==
  ASSUME IInv, NEW r \in Runs, Away(r), NEW new \in Rows, SetRow(r, new),
         new.fires \in {0, row.fires}, new.turns \in {0, row.turns}
  PROVE  Mild(r)
<1>1. pc'[r] \notin HeldLabels \cup LateLabels
  BY DEF Away, Goto, IInv, Ctl
<1> QED BY <1>1 DEF Mild, SetRow, HeldLabels, FiredLabels

LEMMA MildUpsert ==
  ASSUME IInv, NEW r \in Runs, NEW label \in WriteLabels, Keep(r, label), NEW new, Upsert(r, new),
         new.fires \in {0, row.fires}, new.turns \in {0, row.turns}
  PROVE  Mild(r)
<1>1. pc'[r] = label
  BY DEF Keep, Goto, IInv, Ctl
<1>2. copy'[r] = new /\ UNCHANGED <<row, nudges>>
  BY DEF Upsert, IInv, Data
<1> QED BY <1>1, <1>2 DEF Mild, WriteLabels, LateLabels, FiredLabels

\* The rows the steps build keep the counters or reset them.
LEMMA CountersKept ==
  ASSUME IInv, NEW c
  PROVE  /\ Synced(c).fires = row.fires /\ Synced(c).turns = row.turns
         /\ SaveData(c).fires = row.fires /\ SaveData(c).turns = row.turns
         /\ Reschedule(c).fires = row.fires /\ Reschedule(c).turns = row.turns
         /\ DeleteFinal(c).fires = row.fires /\ DeleteFinal(c).turns = row.turns
         /\ Postponed(c).fires = row.fires /\ Postponed(c).turns = row.turns
         /\ Forced(c).fires = 0 /\ Forced(c).turns = row.turns
<1>1. row \in Rows
  BY DEF IInv, Data
<1> QED BY <1>1 DEF Rows, Synced, SaveData, Reschedule, DeleteFinal, Postponed, Forced

LEMMA MildReset ==
  ASSUME IInv, NEW r \in Runs, NEW label \in WriteLabels, Keep(r, label), NEW c, NEW role, NEW s,
         Upsert(r, [row EXCEPT !.column = c, !.role = role, !.turns = 0, !.timer = "none",
                               !.fires = 0, !.status = s])
  PROVE  Mild(r)
<1> DEFINE new == [row EXCEPT !.column = c, !.role = role, !.turns = 0, !.timer = "none",
                              !.fires = 0, !.status = s]
<1>1. row \in Rows
  BY DEF IInv, Data
<1>2. new.fires = 0 /\ new.turns = 0
  BY <1>1 DEF Rows
<1> HIDE DEF new
<1>3. Upsert(r, new)
  BY DEF new
<1> QED BY <1>2, <1>3, MildUpsert

LEMMA MildClient ==
  ASSUME IInv, Bounds, NEW r \in Runs, ClientStep(r), ~ClientTurn(r)
  PROVE  Mild(r)
<1> USE DEF Labels, HeldLabels, WriteLabels, LateLabels, FiredLabels
<1>0. row \in Rows /\ NoRow \in Rows
  BY RowsBuilt DEF IInv, Data
<1>1. CASE ClientLock(r)
  <2>1. Away(r) /\ UNCHANGED <<row, nudges>>
    BY <1>1, Leaving DEF ClientLock, NoStatement
  <2> QED BY <2>1, MildQuiet
<1>2. CASE ClientSync(r)
  <2> DEFINE new == Synced(colOf[r])
  <2>1. new.fires = row.fires /\ new.turns = row.turns
    BY CountersKept
  <2>2. Upsert(r, new)
    BY <1>2 DEF ClientSync
  <2>3. CASE Keep(r, "limit") /\ new = row
    <3>1. pc'[r] = "limit"
      BY <2>3 DEF Keep, Goto, IInv, Ctl
    <3>2. copy'[r] = row /\ UNCHANGED <<row, nudges>>
      BY <2>2, <2>3 DEF Upsert, IInv, Data
    <3> QED BY <3>1, <3>2 DEF Mild
  <2>4. CASE Keep(r, "insert") \/ Keep(r, "write_sync")
    BY <2>1, <2>2, <2>4, MildUpsert
  <2> QED BY <1>2, <2>3, <2>4 DEF ClientSync
<1>6. CASE InsertRow(r)
  <2>1. copy[r].fires \in {0, row.fires} /\ copy[r].turns \in {0, row.turns}
    BY <1>6 DEF InsertRow, At, Bounds, Fresh
  <2> DEFINE new == [Synced(colOf[r]) EXCEPT !.turns = 0, !.status = "active"]
  <2>2. new.fires = row.fires /\ new.turns = 0
    BY RowsBuilt, CountersKept DEF IInv, Ctl, Rows
  <2>3. row'.fires \in {0, row.fires} /\ row'.turns \in {0, row.turns}
    BY <1>6, <2>1, <2>2 DEF InsertRow
  <2>4. pc'[r] \in {"limit", "idle"}
    BY <1>6 DEF InsertRow, Keep, Return, Goto, IInv, Ctl
  <2>5. pc'[r] = "limit" => copy'[r] = row'
    BY <1>6 DEF InsertRow, IInv, Data
  <2>6. nudges' = IF row'.fires = 0 THEN 0 ELSE nudges
    BY <1>6 DEF InsertRow
  <2> QED BY <2>3, <2>4, <2>5, <2>6 DEF Mild
<1>3. CASE ClientLimit(r)
  <2>1. pc[r] = "limit" /\ copy[r].turns = row.turns
    BY <1>3 DEF ClientLimit, At, Bounds, Fresh
  <2>2. CASE Return(r) /\ SetStatus(r, "stuck")
    <3> DEFINE new == [row EXCEPT !.status = "stuck"]
    <3>1. new \in Rows /\ new.fires = row.fires /\ new.turns = row.turns /\ SetRow(r, new)
      BY <1>0, <2>2 DEF Rows, Statuses, SetStatus
    <3> QED BY <3>1, <2>2, Leaving, MildSet
  <2>3. CASE ~StuckAt(r) /\ NoStatement
             /\ \E label \in {"notice", "audio", "count"} : Keep(r, label) \/ Await(r, label)
    <3>1. row.turns < MaxTurns
      BY <1>0, <2>1, <2>3, AgentAssumption DEF StuckAt, Rows
    <3>2. pc'[r] \in {"notice", "audio", "count"}
      BY <2>3 DEF Keep, Await, Goto, IInv, Ctl
    <3>3. UNCHANGED <<row, nudges>>
      BY <2>3 DEF NoStatement
    <3> QED BY <1>0, <3>1, <3>2, <3>3 DEF Mild
  <2>4. CASE Return(r) /\ Forget(r)
    BY <2>4, Leaving, MildQuiet DEF Forget, Upsert
  <2> QED BY <1>3, <2>2, <2>3, <2>4 DEF ClientLimit
<1>4. CASE Transcribed(r)
  <2>1. pc[r] = "audio" /\ pc'[r] \in {"count", "notice"} /\ UNCHANGED <<row, nudges>>
    BY <1>4 DEF Transcribed, At, NoStatement, Keep, Await, Goto, IInv, Ctl
  <2> QED BY <1>0, <2>1 DEF Mild
<1>5. CASE DeliverNotice(r)
  <2>1. Away(r) /\ UNCHANGED <<row, nudges>>
    BY <1>5, Leaving DEF DeliverNotice, Forget, Upsert
  <2> QED BY <2>1, MildQuiet
<1> QED BY <1>1, <1>2, <1>3, <1>4, <1>5, <1>6 DEF ClientStep

LEMMA MildFire ==
  ASSUME IInv, Bounds, NEW r \in Runs, FireStep(r), ~CountFire(r), ~ReadCount(r), ~Dispatch(r)
  PROVE  Mild(r)
<1> USE DEF Labels, HeldLabels, WriteLabels, LateLabels, FiredLabels
<1>0. row \in Rows
  BY DEF IInv, Data
<1>1. CASE FireLock(r)
  <2>1. Away(r) /\ UNCHANGED <<row, nudges>>
    BY <1>1, Leaving DEF FireLock, NoStatement
  <2> QED BY <2>1, MildQuiet
<1>2. CASE Postpone(r)
  BY <1>2, CountersKept, MildUpsert DEF Postpone
<1>3. CASE ClearTimer(r)
  <2> DEFINE new == [row EXCEPT !.timer = "none", !.fires = 0]
  <2>1. 0 \in 0..ForcedAt
    BY DEF ForcedAt
  <2>2. new \in Rows /\ new.fires = 0 /\ new.turns = row.turns
    BY <1>0, <2>1 DEF Rows
  <2>3. SetRow(r, new) /\ Away(r)
    BY <1>3, Leaving DEF ClearTimer
  <2> QED BY <2>2, <2>3, MildSet
<1>4. CASE ForceMorno(r)
  BY <1>4, CountersKept, MildUpsert DEF ForceMorno
<1>5. CASE SwitchedOff(r)
  <2>1. Away(r) /\ UNCHANGED <<row, nudges>>
    BY <1>5, Leaving DEF SwitchedOff, NoStatement
  <2> QED BY <2>1, MildQuiet
<1> QED BY <1>1, <1>2, <1>3, <1>4, <1>5 DEF FireStep

LEMMA MildWrite ==
  ASSUME IInv, Bounds, NEW r \in Runs, Write(r)
  PROVE  Mild(r)
<1> USE DEF Labels, HeldLabels, WriteLabels, LateLabels, FiredLabels
<1>1. row \in Rows /\ copy[r] \in Rows
  BY DEF IInv, Data
<1>2. copy[r].fires \in {0, row.fires} /\ copy[r].turns \in {0, row.turns}
  BY DEF Write, At, Bounds, Fresh
<1>3. CASE Away(r) /\ SetRow(r, copy[r])
  BY <1>1, <1>2, <1>3, MildSet
<1>4. CASE /\ Keep(r, "limit") /\ row' = copy[r] /\ UNCHANGED copy
           /\ nudges' = IF copy[r].fires = 0 THEN 0 ELSE nudges
  <2>1. pc'[r] = "limit"
    BY <1>4 DEF Keep, Goto, IInv, Ctl
  <2> QED BY <1>1, <1>2, <1>4, <2>1 DEF Mild
<1> QED BY <1>3, <1>4, Leaving DEF Write

LEMMA MildTool ==
  ASSUME IInv, Bounds, NEW r \in Runs, ToolStep(r)
  PROVE  Mild(r)
<1> USE DEF Labels, HeldLabels, WriteLabels, LateLabels, FiredLabels
<1>0. row \in Rows
  BY DEF IInv, Data
<1>1. CASE NoAnswer(r)
  <2>1. Away(r) /\ UNCHANGED <<row, nudges>>
    BY <1>1, Leaving DEF NoAnswer, NoStatement
  <2> QED BY <2>1, MildQuiet
<1>2. CASE FinalText(r)
  <2>1. Away(r) /\ UNCHANGED <<row, nudges>>
    BY <1>2, Leaving DEF FinalText, NoStatement
  <2> QED BY <2>1, MildQuiet
<1>3. CASE ReadTool(r)
  <2>1. Away(r) /\ UNCHANGED <<row, nudges>>
    BY <1>3, Leaving DEF ReadTool, NoStatement
  <2> QED BY <2>1, MildQuiet
<1>4. CASE Handoff(r)
  <2>1. Away(r) /\ UNCHANGED <<row, nudges>>
    BY <1>4, Leaving DEF Handoff, NoStatement
  <2> QED BY <2>1, MildQuiet
<1>5. CASE Emitted(r)
  <2>1. Away(r) /\ UNCHANGED <<row, nudges>>
    BY <1>5, Leaving DEF Emitted, NoStatement
  <2> QED BY <2>1, MildQuiet
<1>6. CASE Deliver(r)
  <2>1. Away(r) /\ UNCHANGED <<row, nudges>>
    BY <1>6, Leaving DEF Deliver, NoStatement
  <2> QED BY <2>1, MildQuiet
<1>7. CASE SendFails(r)
  <2>1. Away(r) /\ UNCHANGED <<row, nudges>>
    BY <1>7, Leaving DEF SendFails, NoStatement
  <2> QED BY <2>1, MildQuiet
<1>8. CASE CallTools(r)
  <2>1. Away(r) /\ UNCHANGED <<row, nudges>>
    BY <1>8, Leaving DEF CallTools, Away, NoStatement
  <2> QED BY <2>1, MildQuiet
<1>9. CASE AfterSend(r)
  <2>1. Away(r) /\ UNCHANGED <<row, nudges>>
    BY <1>9, Leaving DEF AfterSend, Away, NoStatement
  <2> QED BY <2>1, MildQuiet
<1>10. CASE Write(r)
  BY <1>10, MildWrite
<1>11. CASE RowTool(r)
  <2>1. PICK new \in {SaveData(ctx[r]), Reschedule(ctx[r]), DeleteFinal(ctx[r])} : Upsert(r, new)
    BY <1>11 DEF RowTool
  <2>2. new.fires = row.fires /\ new.turns = row.turns
    BY <2>1, CountersKept
  <2>3. Keep(r, "write_tool")
    BY <1>11 DEF RowTool
  <2> QED BY <2>1, <2>2, <2>3, MildUpsert
<1>12. CASE MoveTool(r)
  <2>1. Keep(r, "write_tool")
    BY <1>12 DEF MoveTool
  <2>2. \A c : LET d == SaveData(c) IN
          /\ [d EXCEPT !.status = "done"].fires = row.fires /\ [d EXCEPT !.status = "done"].turns = row.turns
          /\ [d EXCEPT !.turns = 0, !.timer = "none", !.fires = 0, !.status = "active"].fires = 0
          /\ [d EXCEPT !.turns = 0, !.timer = "none", !.fires = 0, !.status = "active"].turns = 0
          /\ [d EXCEPT !.turns = 0, !.status = "active"].fires = row.fires
          /\ [d EXCEPT !.turns = 0, !.status = "active"].turns = 0
    BY <1>0 DEF SaveData, Rows
  <2>3. PICK new : Upsert(r, new) /\ new.fires \in {0, row.fires} /\ new.turns \in {0, row.turns}
    <3>1. CASE MarkLost(r)
      BY <3>1, <2>2 DEF MarkLost
    <3>2. CASE ToFollowUp(r)
      BY <3>2, <2>2 DEF ToFollowUp
    <3>3. CASE BackToSeller(r)
      BY <3>3, <2>2 DEF BackToSeller
    <3> QED BY <1>12, <3>1, <3>2, <3>3 DEF MoveTool
  <2> QED BY <2>1, <2>3, MildUpsert
<1>13. CASE Escalate(r)
  <2> DEFINE new == [row EXCEPT !.status = "escalated"]
  <2>1. new \in Rows /\ new.fires = row.fires /\ new.turns = row.turns
    BY <1>0 DEF Rows, Statuses
  <2>2. SetRow(r, new) /\ Away(r)
    BY <1>13, Leaving DEF Escalate, SetStatus
  <2> QED BY <2>1, <2>2, MildSet
<1>14. CASE HandoffStatus(r)
  <2> DEFINE new == [row EXCEPT !.status = "escalated"]
  <2>1. new \in Rows /\ new.fires = row.fires /\ new.turns = row.turns
    BY <1>0 DEF Rows, Statuses
  <2>2. SetRow(r, new) /\ Away(r)
    BY <1>14, Leaving DEF HandoffStatus, SetStatus
  <2> QED BY <2>1, <2>2, MildSet
<1>15. CASE EscalateMove(r)
  <2>1. CASE AfterTool(r) /\ NoStatement
    BY <2>1, Leaving, MildQuiet DEF NoStatement
  <2>2. CASE ~(AfterTool(r) /\ NoStatement)
    <3>1. Keep(r, "write_tool")
      BY <1>15, <2>2 DEF EscalateMove
    <3>2. Upsert(r, [row EXCEPT !.column = HumanColumn, !.role = "custom", !.turns = 0,
                                !.timer = "none", !.fires = 0, !.status = "escalated"])
      BY <1>15, <2>2 DEF EscalateMove
    <3> QED BY <3>1, <3>2, MildReset
  <2> QED BY <2>1, <2>2
<1>16. CASE Promote(r)
  <2>1. CASE Keep(r, "write_quote") /\ Upsert(r, SaveData(ctx[r]))
    BY <2>1, CountersKept, MildUpsert
  <2>2. CASE Away(r) /\ NoStatement
    BY <2>2, MildQuiet DEF NoStatement
  <2> QED BY <1>16, <2>1, <2>2, Leaving DEF Promote
<1>17. CASE Promoted(r)
  <2>1. PICK label \in WriteLabels : Keep(r, label)
    BY <1>17 DEF Promoted
  <2>2. PICK role \in {"own", "custom"} :
          Upsert(r, [row EXCEPT !.column = PromoteTo[ctx[r]], !.role = role, !.turns = 0,
                                !.timer = "none", !.fires = 0, !.status = "active"])
    BY <1>17 DEF Promoted
  <2> QED BY <2>1, <2>2, MildReset
<1> QED BY <1>1, <1>2, <1>3, <1>4, <1>5, <1>6, <1>7, <1>8, <1>9, <1>10, <1>11, <1>12, <1>13, <1>14, <1>15, <1>16, <1>17 DEF ToolStep

LEMMA CountFireKeeps ==
  ASSUME IInv, BInv, NEW r \in Runs, Step(r), CountFire(r)
  PROVE  BInv'
<1> SUFFICES ASSUME ~raced' PROVE Fresh' /\ Counted' /\ Reserve'
  BY DEF BInv, Bounds
<1>0. \A q \in Runs \ {r} : pc'[q] = pc[q] /\ copy'[q] = copy[q]
  BY Others
<1>1. /\ row \in Rows /\ row'.fires = NextFire /\ row'.turns = row.turns /\ nudges' = nudges
      /\ NextFire \in 1..ForcedAt /\ (NextFire > row.fires \/ NextFire = ForcedAt)
  BY DEF CountFire, SetRow, IInv, Data, Rows, NextFire, ForcedAt
<1>2. pc[r] = "fire" /\ pc'[r] = "counted"
  BY DEF CountFire, At, Keep, Goto, IInv, Ctl
<1>3. /\ Fresh /\ Counted /\ Reserve
      /\ row'.fires = row.fires \/ \A q \in Runs \ {r} : pc[q] \notin HeldLabels
  BY Unraced DEF Bounds
<1>4. Fresh'
  <2>1. ASSUME NEW q \in Runs \ {r}, pc[q] \in WriteLabels \cup {"limit"}
        PROVE  row'.fires = row.fires
    BY <1>3, <2>1 DEF HeldLabels
  <2>2. pc'[r] \notin WriteLabels \cup {"limit"}
    BY <1>2 DEF WriteLabels
  <2> QED BY <1>0, <1>1, <1>3, <2>1, <2>2 DEF Fresh
<1>5. Counted'
  <2>1. nudges \in Nat /\ nudges < ForcedAt /\ nudges <= row.fires
    BY <1>3 DEF Counted, IInv, Data
  <2>2. nudges' < ForcedAt /\ nudges' <= row'.fires
    BY <1>1, <2>1 DEF ForcedAt, Rows
  <2>3. nudges' < row'.fires
    BY <1>1, <2>1 DEF ForcedAt, Rows
  <2>4. CASE row.fires < ForcedAt
    <3>1. row'.fires # row.fires
      BY <1>1, <2>4 DEF Rows, ForcedAt
    <3>2. \A q \in Runs \ {r} : pc'[q] \notin FiredLabels
      BY <1>0, <1>3, <3>1 DEF HeldLabels, FiredLabels
    <3> QED BY <1>2, <2>2, <2>3, <3>2 DEF Counted, FiredLabels
  <2>5. CASE ~(row.fires < ForcedAt)
    <3>1. NextFire = ForcedAt
      BY <2>5 DEF NextFire
    <3>2. \A q \in Runs : pc[q] # "fired"
      BY <1>3, <2>5 DEF Counted
    <3>3. \A q \in Runs : pc'[q] # "fired"
      BY <1>0, <1>2, <3>2
    <3>4. ~(row'.fires < ForcedAt)
      BY <1>1, <3>1 DEF ForcedAt
    <3> QED BY <2>2, <2>3, <3>3, <3>4 DEF Counted
  <2> QED BY <2>4, <2>5
<1>6. Reserve'
  <2>1. \A q \in Clients : pc[q] \notin LateLabels <=> pc'[q] \notin LateLabels
    BY <1>0, <1>2 DEF Runs, LateLabels
  <2>2. {q \in Clients : pc[q] \notin LateLabels} = {q \in Clients : pc'[q] \notin LateLabels}
    BY <2>1
  <2> QED BY <1>1, <1>3, <2>2 DEF Reserve
<1> QED BY <1>4, <1>5, <1>6

LEMMA ReadCountKeeps ==
  ASSUME IInv, BInv, NEW r \in Runs, Step(r), ReadCount(r)
  PROVE  BInv'
<1> SUFFICES ASSUME ~raced' PROVE Fresh' /\ Counted' /\ Reserve'
  BY DEF BInv, Bounds
<1>0. \A q \in Runs \ {r} : pc'[q] = pc[q]
  BY Others
<1>1. /\ UNCHANGED <<row, copy, nudges>> /\ pc[r] = "counted"
      /\ pc'[r] = IF row.fires = ForcedAt THEN "force" ELSE "fired"
  BY DEF ReadCount, NoStatement, At, Keep, Goto, IInv, Ctl
<1>2. Fresh /\ Counted /\ Reserve
  BY Unraced DEF Bounds
<1>3. Fresh'
  BY <1>0, <1>1, <1>2 DEF Fresh, WriteLabels
<1>4. Counted'
  <2>1. \A q \in Runs : pc'[q] \in FiredLabels => pc[q] \in FiredLabels
    BY <1>0, <1>1 DEF FiredLabels
  <2>2. pc'[r] = "fired" => row.fires < ForcedAt
    BY <1>1 DEF IInv, Data, Rows, ForcedAt
  <2>3. \A q \in Runs : pc'[q] = "fired" => row'.fires < ForcedAt
    BY <1>0, <1>1, <1>2, <2>2 DEF Counted
  <2> QED BY <1>1, <1>2, <2>1, <2>3 DEF Counted
<1>5. Reserve'
  <2>1. \A q \in Clients : pc[q] \notin LateLabels <=> pc'[q] \notin LateLabels
    BY <1>0, <1>1 DEF Runs, LateLabels
  <2>2. {q \in Clients : pc[q] \notin LateLabels} = {q \in Clients : pc'[q] \notin LateLabels}
    BY <2>1
  <2> QED BY <1>1, <1>2, <2>2 DEF Reserve
<1> QED BY <1>3, <1>4, <1>5

LEMMA DispatchKeeps ==
  ASSUME IInv, BInv, NEW r \in Runs, Step(r), Dispatch(r)
  PROVE  BInv'
<1> SUFFICES ASSUME ~raced' PROVE Fresh' /\ Counted' /\ Reserve'
  BY DEF BInv, Bounds
<1>0. \A q \in Runs \ {r} : pc'[q] = pc[q] /\ copy'[q] = copy[q]
  BY Others
<1>1. UNCHANGED <<row, copy>> /\ pc[r] = "fired" /\ pc'[r] = "llm"
  BY DEF Dispatch, At, Await, Goto, IInv, Ctl
<1>2. Fresh /\ Counted /\ Reserve
  BY Unraced DEF Bounds
<1>3. row \in Rows /\ nudges \in Nat /\ nudges < row.fires /\ row.fires < ForcedAt
  BY <1>1, <1>2 DEF Counted, FiredLabels, IInv, Data
<1>4. nudges' = nudges + 1
  BY <1>3 DEF Dispatch, Rows, ForcedAt
<1>5. Fresh'
  BY <1>0, <1>1, <1>2 DEF Fresh, WriteLabels
<1>6. Counted'
  <2>1. nudges' < ForcedAt /\ nudges' <= row'.fires
    BY <1>1, <1>3, <1>4 DEF Rows, ForcedAt
  <2>2. \A q \in Runs : pc'[q] \notin FiredLabels
    BY <1>0, <1>1, <1>2, <1>3 DEF Counted, FiredLabels
  <2> QED BY <2>1, <2>2 DEF Counted, FiredLabels
<1>7. Reserve'
  <2>1. \A q \in Clients : pc[q] \notin LateLabels <=> pc'[q] \notin LateLabels
    BY <1>0, <1>1 DEF Runs, LateLabels
  <2>2. {q \in Clients : pc[q] \notin LateLabels} = {q \in Clients : pc'[q] \notin LateLabels}
    BY <2>1
  <2> QED BY <1>1, <1>2, <2>2 DEF Reserve
<1> QED BY <1>5, <1>6, <1>7

LEMMA TurnKeeps ==
  ASSUME IInv, BInv, NEW r \in Runs, Step(r), ClientTurn(r)
  PROVE  BInv'
<1> SUFFICES ASSUME ~raced' PROVE Fresh' /\ Counted' /\ Reserve'
  BY DEF BInv, Bounds
<1>1. row \in Rows /\ row'.turns = row.turns + 1 /\ row'.fires = 0 /\ nudges' = 0
  BY DEF ClientTurn, SetRow, IInv, Data, Rows
<1>2. pc[r] = "count" /\ pc'[r] = "llm"
  BY DEF ClientTurn, At, Await, Goto, IInv, Ctl
<1>3. \A q \in Runs \ {r} : pc'[q] = pc[q]
  BY Others
<1>4. Fresh /\ Counted /\ Reserve /\ \A q \in Runs \ {r} : pc[q] \notin HeldLabels
  <2>1. row'.turns # row.turns
    BY <1>1 DEF Rows
  <2> QED BY <2>1, Unraced DEF Bounds
<1>5. \A q \in Runs : pc'[q] \notin HeldLabels
  BY <1>2, <1>3, <1>4 DEF HeldLabels, WriteLabels
<1>6. Fresh'
  BY <1>5 DEF Fresh, HeldLabels
<1>7. Counted'
  <2>1. \A q \in Runs : pc'[q] \notin FiredLabels
    BY <1>5 DEF HeldLabels, FiredLabels
  <2>2. 0 < ForcedAt
    BY DEF ForcedAt
  <2> QED BY <1>1, <2>1, <2>2 DEF Counted, FiredLabels
<1>8. Reserve'
  <2> DEFINE early == {q \in Clients : pc[q] \notin LateLabels}
             after == {q \in Clients : pc'[q] \notin LateLabels}
  <2>1. r \in Clients
    BY <1>2 DEF IInv, Ctl, OwnWay, ClientLabels
  <2>2. after = early \cup {r} /\ r \notin early
    BY <1>2, <1>3, <2>1 DEF Runs, LateLabels
  <2>3. Cardinality(after) = Cardinality(early) + 1 /\ Cardinality(early) \in Nat
    <3>1. IsFiniteSet(early)
      BY AgentAssumption, FS_Subset
    <3> QED BY <2>2, <3>1, FS_AddElement, FS_CardinalityType
  <2>4. row.turns < MaxTurns + Cardinality(early)
    BY <1>4 DEF Reserve
  <2>5. row'.turns < MaxTurns + Cardinality(after)
    BY <1>1, <2>3, <2>4, AgentAssumption DEF Rows
  <2> QED BY <2>5 DEF Reserve
<1> QED BY <1>6, <1>7, <1>8

\* Users, time and starts leave the counters alone.
LEMMA OthersKeep ==
  ASSUME IInv, BInv, [Users \/ Time \/ \E r \in Runs : Start(r)]_vars
  PROVE  BInv'
<1>1. CASE UNCHANGED <<pc, copy, nudges, raced>> /\ row'.fires = row.fires /\ row'.turns = row.turns
  BY <1>1 DEF BInv, Bounds, Fresh, Counted, Reserve
<1>2. ASSUME NEW r \in Runs, Start(r) PROVE BInv'
  <2>1. PICK label \in {"lock", "fire_lock"} : pc' = [pc EXCEPT ![r] = label]
    BY <1>2 DEF Start, ClientStart, FireFound, Goto
  <2>2. pc[r] = "idle" /\ UNCHANGED <<row, copy, nudges, raced>>
    BY <1>2 DEF Start, ClientStart, FireFound, At, NoStatement
  <2>3. \A q \in Runs : pc'[q] = IF q = r THEN label ELSE pc[q]
    BY <2>1 DEF IInv, Ctl
  <2>4. {q \in Clients : pc[q] \notin LateLabels} = {q \in Clients : pc'[q] \notin LateLabels}
    <3>1. \A q \in Clients : pc[q] \notin LateLabels <=> pc'[q] \notin LateLabels
      BY <2>2, <2>3 DEF Runs, LateLabels
    <3> QED BY <3>1
  <2>5. Fresh => Fresh'
    BY <2>2, <2>3 DEF Fresh, WriteLabels
  <2>6. Counted => Counted'
    BY <2>2, <2>3 DEF Counted, FiredLabels
  <2>7. Reserve => Reserve'
    BY <2>2, <2>4 DEF Reserve
  <2> QED BY <2>2, <2>5, <2>6, <2>7 DEF BInv, Bounds
<1>3. CASE Users
  BY <1>3, <1>1 DEF Users, UserMoves, Switch
<1>4. CASE TimerDue
  <2>1. row'.fires = row.fires /\ row'.turns = row.turns
    BY <1>4 DEF TimerDue, IInv, Data, Rows
  <2> QED BY <1>1, <1>4, <2>1 DEF TimerDue
<1>5. CASE TickTimeout \/ FireLockExpires \/ \E m \in Msgs : MsgLockExpires(m)
  BY <1>5, <1>1 DEF TickTimeout, FireLockExpires, MsgLockExpires
<1>6. CASE UNCHANGED vars
  BY <1>6, <1>1 DEF vars
<1> QED BY <1>2, <1>3, <1>4, <1>5, <1>6 DEF Time

LEMMA BoundsInductive ==
  ASSUME IInv, IInv', BInv, [Next]_vars
  PROVE  BInv'
<1>1. ASSUME NEW r \in Runs, Step(r) PROVE BInv'
  <2>1. CASE CountFire(r)
    BY <1>1, <2>1, CountFireKeeps
  <2>2. CASE Dispatch(r)
    BY <1>1, <2>2, DispatchKeeps
  <2>6. CASE ReadCount(r)
    BY <1>1, <2>6, ReadCountKeeps
  <2>3. CASE ClientTurn(r)
    BY <1>1, <2>3, TurnKeeps
  <2>4. CASE ~CountFire(r) /\ ~ReadCount(r) /\ ~Dispatch(r) /\ ~ClientTurn(r) /\ ~raced'
    <3>1. Bounds
      BY <1>1, <2>4, Unraced
    <3>2. Mild(r)
      BY <1>1, <2>4, <3>1, MildClient, MildFire, MildTool DEF Step
    <3> QED BY <1>1, <3>2, MildKeeps
  <2>5. CASE raced'
    BY <2>5 DEF BInv
  <2> QED BY <2>1, <2>2, <2>3, <2>4, <2>5, <2>6
<1> QED BY <1>1, OthersKeep DEF Next

\* Unless a run changes a count between another's read and its use of it, a silent client
\* gets fewer automatic contacts than the count that forces "morno", and max_turns is
\* exceeded by fewer turns than there are runs of the client in flight, whatever the tools,
\* the users, the locks and the other workers do in between.
THEOREM BoundsSafe == Spec => [](NudgesBounded /\ TurnsBounded)
<1>1. Init => IInv /\ BInv
  BY InitIInv, InitBInv
<1>2. IInv /\ BInv /\ [Next]_vars => IInv' /\ BInv'
  BY Inductive, BoundsInductive
<1>3. IInv /\ BInv => NudgesBounded /\ TurnsBounded
  BY IInvTypeOK, BInvBounds
<1> QED BY <1>1, <1>2, <1>3, PTL DEF Spec

\* With the same exception, max_turns is exceeded by fewer turns than there are clients,
\* though a run reads the count of turns before it awaits the model and adds to it after.
THEOREM TurnsSafe == Spec => []TurnsBounded
<1>1. Init => IInv /\ BInv
  BY InitIInv, InitBInv
<1>2. IInv /\ BInv /\ [Next]_vars => IInv' /\ BInv'
  BY Inductive, BoundsInductive
<1>3. IInv /\ BInv => TurnsBounded
  BY IInvTypeOK, BInvBounds
<1> QED BY <1>1, <1>2, <1>3, PTL DEF Spec

-----------------------------------------------------------------------------
(* The exception is a matter of two workers.                               *)

\* Between its read and its use a run has its worker's loop.
Holds == \A r \in Runs : pc[r] \in HeldLabels => loop[WorkerOf[r]] = r

LEMMA HoldsInductive ==
  ASSUME IInv, Holds, [Next]_vars
  PROVE  Holds'
<1>1. ASSUME NEW r \in Runs, NEW label, NEW owner \in {r, NoRun}, Goto(r, label, owner),
             label \in HeldLabels => owner = r, loop[WorkerOf[r]] \in {NoRun, r}
      PROVE  Holds'
  <2> SUFFICES ASSUME NEW q \in Runs, pc'[q] \in HeldLabels PROVE loop'[WorkerOf[q]] = q
    BY DEF Holds
  <2>1. CASE q = r
    BY <1>1, <2>1, AgentAssumption DEF Goto, IInv, Ctl
  <2>2. CASE q # r
    <3>1. pc[q] \in HeldLabels /\ loop[WorkerOf[q]] = q
      BY <1>1, <2>2 DEF Goto, IInv, Ctl, Holds
    <3>2. WorkerOf[q] # WorkerOf[r]
      BY <1>1, <2>2, <3>1, AgentAssumption
    <3> QED BY <1>1, <3>1, <3>2, AgentAssumption DEF Goto, IInv, Ctl
  <2> QED BY <2>1, <2>2
<1>2. ASSUME NEW r \in Runs, Step(r) PROVE Holds'
  BY <1>1, <1>2, Others
<1>3. ASSUME NEW r \in Runs, Start(r) PROVE Holds'
  <2>1. PICK label \in {"lock", "fire_lock"} : Goto(r, label, NoRun) /\ loop[WorkerOf[r]] \in {NoRun, r}
    BY <1>3 DEF Start, ClientStart, FireFound, At
  <2> QED BY <1>1, <2>1 DEF HeldLabels, WriteLabels
<1>4. CASE Users \/ Time \/ UNCHANGED vars
  <2>1. UNCHANGED <<pc, loop>>
    BY <1>4 DEF Users, UserMoves, Switch, Time, TimerDue, TickTimeout, FireLockExpires, MsgLockExpires, vars
  <2> QED BY <2>1 DEF Holds
<1> QED BY <1>2, <1>3, <1>4 DEF Next

SharedLoop == \A q, r \in Runs : WorkerOf[q] = WorkerOf[r]

\* If one worker has all the runs, none changes a count that another still acts on, so
\* the two bounds hold without exception.
THEOREM NeverRaced ==
  ASSUME SharedLoop
  PROVE  Spec => []~raced
<1>1. Init => IInv /\ Holds /\ ~raced
  BY InitIInv DEF Init, Holds, HeldLabels, WriteLabels
<1>2. IInv /\ Holds /\ ~raced /\ [Next]_vars => IInv' /\ Holds' /\ ~raced'
  <2> SUFFICES ASSUME IInv, Holds, ~raced, [Next]_vars PROVE ~raced'
    BY Inductive, HoldsInductive
  <2>1. ASSUME NEW r \in Runs, Step(r) PROVE ~raced'
    <3>1. loop[WorkerOf[r]] \in {NoRun, r}
      BY <2>1, Others
    <3>2. \A q \in Runs \ {r} : pc[q] \notin HeldLabels
      BY <3>1, AgentAssumption DEF SharedLoop, Holds
    <3>3. raced' = (raced \/ Races(r))
      BY <2>1 DEF Step
    <3>4. ~Races(r)
      BY <3>2 DEF Races
    <3> QED BY <3>3, <3>4
  <2>2. CASE [Users \/ Time \/ \E r \in Runs : Start(r)]_vars
    BY <2>2 DEF Users, Time, Start, UserMoves, Switch, TimerDue, TickTimeout, FireLockExpires, MsgLockExpires, vars
  <2> QED BY <2>1, <2>2 DEF Next
<1>3. IInv /\ Holds /\ ~raced => ~raced
  OBVIOUS
<1> QED BY <1>1, <1>2, <1>3, PTL DEF Spec

=============================================================================
