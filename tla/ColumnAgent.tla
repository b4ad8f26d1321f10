---------------------------- MODULE ColumnAgent ----------------------------
(***************************************************************************)
(* The column agent of one card (src/crm/agents): a run of the agent       *)
(* answers a client message (runColumnAgent) or an inactivity timer        *)
(* (tickInactivity, runFromInactivityFire), and its LLM calls tools that   *)
(* move the card and rewrite the row of crm_card_agent_state.              *)
(*                                                                         *)
(* A slot of Clients or Fires is one place for a run in flight on a        *)
(* worker; it is used again when its run ends.  As in Inbox a step is one  *)
(* SQL statement, or statements that no other worker can tell apart, and a *)
(* worker keeps its loop until the code awaits.  upsertCardAgentState      *)
(* reads the row and writes all of it, so it is two steps: the row to be   *)
(* written waits in "copy".  moveCard and the read of the upsert that      *)
(* follows it are one step.                                                *)
(***************************************************************************)
EXTENDS Naturals, FiniteSets

CONSTANTS Clients, Fires,      \* slots for runs of either kind
          Workers, WorkerOf,   \* the worker of a slot; the scheduler's for Fires
          Columns, Switchable, \* the columns an admin switches agent_enabled of
          AgentOn,             \* agent_enabled at the start
          PromoteTo,           \* agent_promote_to_column_id of a column, or NoColumn
          HumanColumn, SaleColumn, LostColumn, FollowUpColumn, SellerColumn,
          StartColumn,
          MaxTurns,            \* agent_max_turns
          MaxIterations,       \* MAX_TOOL_ITERATIONS
          MaxCalls,            \* bound: tool calls in one answer of the LLM
          Msgs,                \* provider message ids
          NoColumn, NoRun, NoMsg

Runs == Clients \cup Fires

ForcedAt == 3   \* FIRE_COUNT_FORCE_MORNO

ASSUME AgentAssumption ==
  /\ Clients \cap Fires = {} /\ NoRun \notin Runs /\ NoMsg \notin Msgs
  /\ WorkerOf \in [Runs -> Workers]
  /\ Switchable \subseteq Columns /\ AgentOn \subseteq Columns
  /\ NoColumn \notin Columns /\ StartColumn \in Columns
  /\ PromoteTo \in [Columns -> Columns \cup {NoColumn}]
  /\ {HumanColumn, SaleColumn, LostColumn, FollowUpColumn, SellerColumn}
       \subseteq Columns \cup {NoColumn}
  /\ IsFiniteSet(Clients)
  /\ MaxTurns \in Nat \ {0} /\ MaxIterations \in Nat \ {0} /\ MaxCalls \in Nat \ {0}

VARIABLES
  cardColumn,  \* crm_cards.column_id
  enabled,     \* columns with agent_enabled = 1
  row,         \* crm_card_agent_state; status "none" before INSERT
  msgLocks,    \* crm:col-agent:msg:{id}
  fireLock,    \* crm:inact:fire:{card}
  tick,        \* the fire the running tickInactivity still waits for
  pc, loop,
  msg,         \* input.messageId
  colOf,       \* the column passed to the run
  ctx,         \* toolCtx.column: the card's column when the LLM answered
  iter, calls, \* iterations of the tool loop, tool calls in this one
  copy,        \* the run's copy of the row (state, or what an upsert is to write)
  nudges,      \* history: fires dispatched since the count was reset, at most ForcedAt
  raced        \* history: a run changed a count while another was between its read and its use

card    == <<cardColumn, enabled>>
locks   == <<msgLocks, fireLock, tick>>
locals  == <<msg, colOf, ctx, iter, calls>>
vars    == <<card, row, locks, pc, loop, locals, copy, nudges, raced>>

Statuses == {"none", "active", "stuck", "escalated", "paused", "done"}

\* role: "own" is the agent_role of the row's column.
NoRow == [column |-> NoColumn, role |-> "own", turns |-> 0, timer |-> "none",
          fires |-> 0, status |-> "none"]

Init ==
  /\ cardColumn = StartColumn
  /\ enabled = AgentOn
  /\ row = NoRow
  /\ msgLocks = {} /\ fireLock = FALSE /\ tick = NoRun
  /\ pc = [r \in Runs |-> "idle"]
  /\ loop = [w \in Workers |-> NoRun]
  /\ msg = [r \in Runs |-> NoMsg]
  /\ colOf = [r \in Runs |-> NoColumn]
  /\ ctx = [r \in Runs |-> NoColumn]
  /\ iter = [r \in Runs |-> 0]
  /\ calls = [r \in Runs |-> 0]
  /\ copy = [r \in Runs |-> NoRow]
  /\ nudges = 0 /\ raced = FALSE

(***************************************************************************)
(* The event loop, as in Inbox.                                            *)
(***************************************************************************)
At(r, label) == pc[r] = label /\ loop[WorkerOf[r]] \in {NoRun, r}

Goto(r, label, owner) ==
  /\ pc' = [pc EXCEPT ![r] = label]
  /\ loop' = [loop EXCEPT ![WorkerOf[r]] = owner]

Keep(r, label)  == Goto(r, label, r) /\ UNCHANGED <<tick, locals>>
Await(r, label) == Goto(r, label, NoRun) /\ UNCHANGED <<tick, locals>>

\* The run returns; a tick that waits for it goes on.
Return(r) ==
  /\ Goto(r, "idle", NoRun)
  /\ tick' = IF tick = r THEN NoRun ELSE tick
  /\ msg' = [msg EXCEPT ![r] = NoMsg]
  /\ colOf' = [colOf EXCEPT ![r] = NoColumn]
  /\ ctx' = [ctx EXCEPT ![r] = NoColumn]
  /\ iter' = [iter EXCEPT ![r] = 0]
  /\ calls' = [calls EXCEPT ![r] = 0]

\* A statement on the row: one UPDATE, or the read of an upsert, whose write is Write.
SetRow(r, new) ==
  /\ row' = new
  /\ copy' = [copy EXCEPT ![r] = NoRow]
  /\ nudges' = IF new.fires = 0 THEN 0 ELSE nudges
SetStatus(r, s) == SetRow(r, [row EXCEPT !.status = s])
Upsert(r, new) ==
  /\ copy' = [copy EXCEPT ![r] = new]
  /\ UNCHANGED <<row, nudges>>
NoStatement == UNCHANGED <<row, copy, nudges>>
Forget(r) == Upsert(r, NoRow)

-----------------------------------------------------------------------------
(* runColumnAgent up to the tool loop *)

\* dispatchAfterDebounce picks the card's column, step 0 is its kill switch.
ClientStart(r, m) ==
  /\ At(r, "idle") /\ cardColumn \in enabled
  /\ Goto(r, "lock", NoRun)
  /\ msg' = [msg EXCEPT ![r] = m]
  /\ colOf' = [colOf EXCEPT ![r] = cardColumn]
  /\ UNCHANGED <<card, locks, ctx, iter, calls>> /\ NoStatement

\* Step 1: SET NX EX; an error of the store does not stop the run.
ClientLock(r) ==
  /\ At(r, "lock")
  /\ \/ /\ msg[r] \in msgLocks
        /\ Return(r) /\ UNCHANGED msgLocks
     \/ /\ msg[r] \notin msgLocks
        /\ msgLocks' = msgLocks \cup {msg[r]}
        /\ Keep(r, "sync")
     \/ Keep(r, "sync") /\ UNCHANGED msgLocks
  /\ UNCHANGED <<card, fireLock>> /\ NoStatement

\* Step 2: the row follows the column the run was given.
Synced(c) ==
  [row EXCEPT !.column = c, !.role = "own",
              !.status = IF row.status = "none" THEN "active" ELSE row.status]

ClientSync(r) ==
  /\ At(r, "sync")
  /\ Keep(r, IF row.status = "none" THEN "insert"
             ELSE IF Synced(colOf[r]) = row THEN "limit" ELSE "write_sync")
  /\ Upsert(r, Synced(colOf[r]))
  /\ UNCHANGED <<card, msgLocks, fireLock>>

\* The first run of a card inserts its row.  If another worker has inserted it since, the
\* upsert reads that row and updates it, or it read none and the key makes it throw.
InsertRow(r) ==
  /\ At(r, "insert")
  /\ \/ row.status = "none" /\ row' = copy[r] /\ Keep(r, "limit")
     \/ row.status # "none" /\ Keep(r, "limit")
        /\ row' = [Synced(colOf[r]) EXCEPT !.turns = 0, !.status = "active"]
     \/ row.status # "none" /\ row' = row /\ Return(r)
  /\ copy' = [copy EXCEPT ![r] = IF pc'[r] = "limit" THEN row' ELSE NoRow]
  /\ nudges' = IF row'.fires = 0 THEN 0 ELSE nudges
  /\ UNCHANGED <<card, msgLocks, fireLock>>

\* Steps 3 to 5: max_turns, active hours, and the text of the message.
\* Mutant: one turn too many.
StuckAtLate(r) == copy[r].turns > MaxTurns

StuckAt(r) == copy[r].turns >= MaxTurns

ClientLimit(r) ==
  /\ At(r, "limit")
  /\ IF StuckAt(r)
     THEN Return(r) /\ SetStatus(r, "stuck")
     ELSE \/ /\ Await(r, "notice") \/ Await(r, "audio") \/ Keep(r, "count")
             /\ NoStatement
          \/ Return(r) /\ Forget(r)     \* no text
  /\ UNCHANGED <<card, msgLocks, fireLock>>

Transcribed(r) ==
  /\ At(r, "audio")
  /\ Keep(r, "count") \/ Await(r, "notice")
  /\ UNCHANGED <<card, msgLocks, fireLock>> /\ NoStatement

\* The out-of-hours template, or the apology for an audio; a send that fails
\* returns as one that is delivered.
DeliverNotice(r) ==
  /\ At(r, "notice")
  /\ Return(r) /\ Forget(r)
  /\ UNCHANGED <<card, msgLocks, fireLock>>

\* Step 7, recordAgentTurn('client'): one UPDATE counts the turn and re-arms the timer.
ClientTurn(r) ==
  /\ At(r, "count")
  /\ SetRow(r, [row EXCEPT !.turns = @ + 1, !.timer = "armed", !.fires = 0])
  /\ Await(r, "llm")
  /\ UNCHANGED <<card, msgLocks, fireLock>>

-----------------------------------------------------------------------------
(* tickInactivity and processOneCard *)

Eligible == row.status = "active" /\ row.timer = "due" /\ row.column \in enabled

\* findEligibleCards; the run keeps the column it has read.
FireFound(r) ==
  /\ At(r, "idle") /\ tick = NoRun /\ Eligible
  /\ tick' = r
  /\ colOf' = [colOf EXCEPT ![r] = row.column]
  /\ Goto(r, "fire_lock", NoRun)
  /\ UNCHANGED <<card, msgLocks, fireLock, msg, ctx, iter, calls>> /\ NoStatement

FireLock(r) ==
  /\ At(r, "fire_lock")
  /\ IF fireLock
     THEN Return(r) /\ UNCHANGED fireLock
     ELSE Keep(r, "fire") /\ fireLock' = TRUE
  /\ UNCHANGED <<card, msgLocks>> /\ NoStatement

\* Out of hours the timer is postponed: the upsert rewrites column and role too.
Postponed(c) == [row EXCEPT !.column = c, !.role = "custom", !.timer = "armed"]

Postpone(r) ==
  /\ At(r, "fire")
  /\ Keep(r, "write_end") /\ Upsert(r, Postponed(colOf[r]))
  /\ UNCHANGED <<card, msgLocks, fireLock>>

\* incrementInactivityFireCount, an UPDATE and the SELECT of its result; the count
\* saturates at the value that forces "morno".
NextFire == IF row.fires < ForcedAt THEN row.fires + 1 ELSE ForcedAt

CountFire(r) ==
  /\ At(r, "fire")
  /\ SetRow(r, [row EXCEPT !.fires = NextFire])
  /\ Keep(r, "counted")
  /\ UNCHANGED <<card, msgLocks, fireLock>>

\* Mutant: the third fire is dispatched like the others.
ReadCountLate(r) ==
  /\ At(r, "counted")
  /\ Keep(r, IF row.fires > ForcedAt THEN "force" ELSE "fired")
  /\ UNCHANGED <<card, msgLocks, fireLock>> /\ NoStatement

ReadCount(r) ==
  /\ At(r, "counted")
  /\ Keep(r, IF row.fires = ForcedAt THEN "force" ELSE "fired")
  /\ UNCHANGED <<card, msgLocks, fireLock>> /\ NoStatement

\* clearInactivityTimer: the card, its channel or its column is gone.
ClearTimer(r) ==
  /\ At(r, "fired")
  /\ SetRow(r, [row EXCEPT !.timer = "none", !.fires = 0])
  /\ Return(r)
  /\ UNCHANGED <<card, msgLocks, fireLock>>

\* forceMornoNoLLM: paused until D+2.
\* Mutant: the timer is left as it is.
ForcedKeepsTimer(c) == [row EXCEPT !.column = c, !.role = "custom", !.fires = 0]

Forced(c) == [row EXCEPT !.column = c, !.role = "custom", !.timer = "armed",
                         !.fires = 0, !.status = "paused"]

ForceMorno(r) ==
  /\ At(r, "force")
  /\ Keep(r, "write_end") /\ Upsert(r, Forced(colOf[r]))
  /\ UNCHANGED <<card, msgLocks, fireLock>>

\* runFromInactivityFire, whose kill switch looks at the column it was given.
Dispatch(r) ==
  /\ At(r, "fired") /\ colOf[r] \in enabled
  /\ Await(r, "llm")
  /\ nudges' = IF nudges < ForcedAt THEN nudges + 1 ELSE ForcedAt
  /\ UNCHANGED <<card, msgLocks, fireLock, row, copy>>

SwitchedOff(r) ==
  /\ At(r, "fired") /\ colOf[r] \notin enabled
  /\ Return(r)
  /\ UNCHANGED <<card, msgLocks, fireLock>> /\ NoStatement

-----------------------------------------------------------------------------
(* The tool loop *)

\* The LLM failed, answered with no text, or with text the anti-loop or the
\* meta-commentary filter drops.
NoAnswer(r) ==
  /\ At(r, "llm") /\ Return(r)
  /\ UNCHANGED <<card, msgLocks, fireLock>> /\ NoStatement

\* Step 9.6, isCardStillOnAgentColumn, between the final text and the send.
FinalText(r) ==
  /\ At(r, "llm")
  /\ IF cardColumn \in enabled THEN Await(r, "send") ELSE Return(r)
  /\ UNCHANGED <<card, msgLocks, fireLock>> /\ NoStatement

\* toolCtx is read once for all the calls of one answer.
CallTools(r) ==
  /\ At(r, "llm")
  /\ Goto(r, "tool", r)
  /\ ctx' = [ctx EXCEPT ![r] = cardColumn]
  /\ iter' = [iter EXCEPT ![r] = @ + 1]
  /\ calls' = [calls EXCEPT ![r] = 1]
  /\ UNCHANGED <<card, locks, msg, colOf>> /\ NoStatement

\* After a tool: the next call, or the LLM again, at most MAX_TOOL_ITERATIONS times.
\* Mutant: the iterations are not counted.
AgainForever(r) ==
  /\ Goto(r, "llm", NoRun)
  /\ ctx' = [ctx EXCEPT ![r] = NoColumn] /\ calls' = [calls EXCEPT ![r] = 0]
  /\ iter' = [iter EXCEPT ![r] = 0]
  /\ UNCHANGED <<tick, msg, colOf>>

Again(r) ==
  IF iter[r] = MaxIterations
  THEN Return(r)
  ELSE /\ Goto(r, "llm", NoRun)
       /\ ctx' = [ctx EXCEPT ![r] = NoColumn] /\ calls' = [calls EXCEPT ![r] = 0]
       /\ UNCHANGED <<tick, msg, colOf, iter>>

NextCall(r) ==
  /\ calls[r] < MaxCalls
  /\ Goto(r, "tool", r)
  /\ calls' = [calls EXCEPT ![r] = @ + 1]
  /\ UNCHANGED <<tick, msg, colOf, ctx, iter>>

AfterTool(r) == NextCall(r) \/ Again(r)

\* The write of an upsert, and where the code goes on.
Write(r) ==
  /\ \/ /\ At(r, "write_sync") /\ Keep(r, "limit")
        /\ row' = copy[r] /\ UNCHANGED copy
        /\ nudges' = IF copy[r].fires = 0 THEN 0 ELSE nudges
     \/ At(r, "write_tool") /\ AfterTool(r) /\ SetRow(r, copy[r])
     \/ At(r, "write_emit") /\ Await(r, "emit") /\ SetRow(r, copy[r])
     \/ At(r, "write_quote") /\ Keep(r, "promote") /\ SetRow(r, copy[r])
     \/ At(r, "write_end") /\ Return(r) /\ SetRow(r, copy[r])
  /\ UNCHANGED <<card, msgLocks, fireLock>>

\* Tools that read, and tools refused for their role or their arguments.
ReadTool(r) ==
  /\ At(r, "tool") /\ AfterTool(r)
  /\ UNCHANGED <<card, msgLocks, fireLock>> /\ NoStatement

\* salvar_dados_*, marcar_morno, agendar_followup, marcar_perdido, deletar_card_final:
\* an upsert with the column of toolCtx.
SaveData(c)    == [row EXCEPT !.column = c, !.role = "own"]
Reschedule(c)  == [SaveData(c) EXCEPT !.timer = "armed"]
DeleteFinal(c) == [Reschedule(c) EXCEPT !.status = "done"]

RowTool(r) ==
  /\ At(r, "tool") /\ Keep(r, "write_tool")
  /\ \E new \in {SaveData(ctx[r]), Reschedule(ctx[r]), DeleteFinal(ctx[r])} : Upsert(r, new)
  /\ UNCHANGED <<card, msgLocks, fireLock>>

\* marcar_perdido, mover_para_followup, voltou_para_vendedor: moveCard and an upsert.
MarkLost(r) ==
  LET c == IF LostColumn = NoColumn THEN ctx[r] ELSE LostColumn
  IN  /\ cardColumn' = IF c = ctx[r] THEN cardColumn ELSE c
      /\ Upsert(r, [SaveData(c) EXCEPT !.status = "done"])

ToFollowUp(r) ==
  /\ FollowUpColumn \notin {NoColumn, ctx[r]}
  /\ cardColumn' = FollowUpColumn
  /\ Upsert(r, [SaveData(FollowUpColumn) EXCEPT
                  !.turns = 0, !.timer = "none", !.fires = 0, !.status = "active"])

BackToSeller(r) ==
  /\ SellerColumn # NoColumn
  /\ cardColumn' = SellerColumn
  /\ Upsert(r, [SaveData(SellerColumn) EXCEPT !.turns = 0, !.status = "active"])

MoveTool(r) ==
  /\ At(r, "tool") /\ Keep(r, "write_tool")
  /\ MarkLost(r) \/ ToFollowUp(r) \/ BackToSeller(r)
  /\ UNCHANGED <<enabled, msgLocks, fireLock>>

\* escalar_humano: the status, an awaited webhook, then the move.
Escalate(r) ==
  /\ At(r, "tool")
  /\ SetStatus(r, "escalated") /\ Await(r, "escalate")
  /\ UNCHANGED <<card, msgLocks, fireLock>>

EscalateMove(r) ==
  /\ At(r, "escalate")
  /\ IF HumanColumn \in {NoColumn, ctx[r]}
     THEN AfterTool(r) /\ NoStatement /\ UNCHANGED cardColumn
     ELSE /\ cardColumn' = HumanColumn
          /\ Keep(r, "write_tool")
          /\ Upsert(r, [row EXCEPT !.column = HumanColumn, !.role = "custom", !.turns = 0,
                                   !.timer = "none", !.fires = 0, !.status = "escalated"])
  /\ UNCHANGED <<enabled, msgLocks, fireLock>>

\* handoff_para_corretor: the move, an awaited import, the status, an awaited webhook.
Handoff(r) ==
  /\ At(r, "tool") /\ Await(r, "handoff")
  /\ cardColumn' = IF SaleColumn \in {NoColumn, ctx[r]} THEN cardColumn ELSE SaleColumn
  /\ UNCHANGED <<enabled, msgLocks, fireLock>> /\ NoStatement

HandoffStatus(r) ==
  /\ At(r, "handoff")
  /\ SetStatus(r, "escalated") /\ Await(r, "emit")
  /\ UNCHANGED <<card, msgLocks, fireLock>>

Emitted(r) ==
  /\ At(r, "emit") /\ AfterTool(r)
  /\ UNCHANGED <<card, msgLocks, fireLock>> /\ NoStatement

\* validatePromotionTarget: the row has left the column of toolCtx, or the column has
\* a target.
Left(r)       == row.status # "none" /\ row.column # ctx[r]
MayPromote(r) == ~Left(r) /\ PromoteTo[ctx[r]] # NoColumn

\* promover_para_*: promover_para_lancar_venda awaits a webhook before it moves the
\* card, promover_pendente_daniel saves a quotation before and awaits a webhook after,
\* or if there is no target.
Promote(r) ==
  /\ At(r, "tool")
  /\ \/ MayPromote(r) /\ (Keep(r, "promote") \/ Await(r, "promote")) /\ NoStatement
     \/ MayPromote(r) /\ Keep(r, "write_quote") /\ Upsert(r, SaveData(ctx[r]))
     \/ ~MayPromote(r) /\ AfterTool(r) /\ NoStatement
     \/ ~MayPromote(r) /\ ~Left(r) /\ Await(r, "emit") /\ NoStatement
  /\ UNCHANGED <<card, msgLocks, fireLock>>

\* executePromotion.
Promoted(r) ==
  /\ \/ At(r, "promote") /\ (Keep(r, "write_tool") \/ Keep(r, "write_emit"))
     \/ At(r, "auto_promote") /\ Keep(r, "write_end")
  /\ cardColumn' = PromoteTo[ctx[r]]
  /\ \E role \in {"own", "custom"} :
       Upsert(r, [row EXCEPT !.column = PromoteTo[ctx[r]], !.role = role, !.turns = 0,
                             !.timer = "none", !.fires = 0, !.status = "active"])
  /\ UNCHANGED <<enabled, msgLocks, fireLock>>

-----------------------------------------------------------------------------
(* The answer *)

\* sendReply: the provider takes the text while the run waits.
Deliver(r) ==
  /\ At(r, "send") /\ Await(r, "sent")
  /\ UNCHANGED <<card, msgLocks, fireLock>> /\ NoStatement

SendFails(r) ==
  /\ At(r, "send") /\ Return(r)
  /\ UNCHANGED <<card, msgLocks, fireLock>> /\ NoStatement

\* After the send: maybeAutoPromote for a client's run whose qualification is complete.
AfterSend(r) ==
  /\ At(r, "sent")
  /\ \/ Return(r)
     \/ /\ r \in Clients
        /\ PromoteTo[cardColumn] # NoColumn /\ row.column = cardColumn /\ row.turns >= 2
        /\ Goto(r, "auto_promote", r)
        /\ ctx' = [ctx EXCEPT ![r] = cardColumn]
        /\ UNCHANGED <<tick, msg, colOf, iter, calls>>
  /\ UNCHANGED <<card, msgLocks, fireLock>> /\ NoStatement

-----------------------------------------------------------------------------
(* Users and time *)

UserMoves(c) ==
  /\ c # cardColumn /\ cardColumn' = c
  /\ UNCHANGED <<enabled, row, locks, pc, loop, locals, copy, nudges, raced>>

Switch(c) ==
  /\ enabled' = IF c \in enabled THEN enabled \ {c} ELSE enabled \cup {c}
  /\ UNCHANGED <<cardColumn, row, locks, pc, loop, locals, copy, nudges, raced>>

TimerDue ==
  /\ row.timer = "armed" /\ row' = [row EXCEPT !.timer = "due"]
  /\ UNCHANGED <<card, locks, pc, loop, locals, copy, nudges, raced>>

MsgLockExpires(m) ==
  /\ m \in msgLocks /\ msgLocks' = msgLocks \ {m}
  /\ UNCHANGED <<card, row, fireLock, tick, pc, loop, locals, copy, nudges, raced>>

\* The tick gives up on a fire after 60 s, its lock lives 120 s: when the lock expires
\* no tick waits for the fire that holds it.
TickTimeout ==
  /\ tick # NoRun /\ pc[tick] # "fire_lock" /\ loop[WorkerOf[tick]] = NoRun
  /\ tick' = NoRun
  /\ UNCHANGED <<card, row, msgLocks, fireLock, pc, loop, locals, copy, nudges, raced>>

FireLockExpires ==
  /\ fireLock /\ (tick # NoRun => pc[tick] = "fire_lock")
  /\ fireLock' = FALSE
  /\ UNCHANGED <<card, row, msgLocks, tick, pc, loop, locals, copy, nudges, raced>>

-----------------------------------------------------------------------------
Start(r) ==
  /\ \/ r \in Clients /\ \E m \in Msgs : ClientStart(r, m)
     \/ r \in Fires /\ FireFound(r)
  /\ UNCHANGED raced

ClientStep(r) ==
  \/ ClientLock(r) \/ ClientSync(r) \/ InsertRow(r) \/ ClientLimit(r)
  \/ Transcribed(r) \/ DeliverNotice(r) \/ ClientTurn(r)

FireStep(r) ==
  \/ FireLock(r) \/ Postpone(r) \/ CountFire(r) \/ ReadCount(r)
  \/ ClearTimer(r) \/ ForceMorno(r) \/ Dispatch(r) \/ SwitchedOff(r)

ToolStep(r) ==
  \/ NoAnswer(r) \/ FinalText(r) \/ CallTools(r) \/ Write(r)
  \/ ReadTool(r) \/ RowTool(r) \/ MoveTool(r) \/ Escalate(r) \/ EscalateMove(r)
  \/ Handoff(r) \/ HandoffStatus(r) \/ Emitted(r) \/ Promote(r) \/ Promoted(r)
  \/ Deliver(r) \/ SendFails(r) \/ AfterSend(r)

\* Between these labels and the statement before them a run has read the row, or counted a
\* fire, and acts on it; on one worker it has the loop.
WriteLabels == {"insert", "write_sync", "write_tool", "write_emit", "write_quote", "write_end"}
HeldLabels  == {"counted", "fired", "limit"} \cup WriteLabels

\* Two runs get in each other's way: only runs of two workers can.
Races(r) ==
  /\ row'.fires # row.fires \/ row'.turns # row.turns
  /\ \E q \in Runs \ {r} : pc[q] \in HeldLabels

Step(r) ==
  /\ ClientStep(r) \/ FireStep(r) \/ ToolStep(r)
  /\ raced' = (raced \/ Races(r))

Time == TimerDue \/ TickTimeout \/ FireLockExpires \/ \E m \in Msgs : MsgLockExpires(m)

Users == \E c \in Columns : UserMoves(c) \/ (c \in Switchable /\ Switch(c))

Next == Users \/ Time \/ \E r \in Runs : Start(r) \/ Step(r)

Spec == Init /\ [][Next]_vars

\* The calls of the code settle, and Node resumes a settled run, or the scheduler's
\* interval, although others take the loop in between (it serves its queues in order);
\* timers and locks run out.
Fairness ==
  /\ \A r \in Runs : SF_vars(Step(r))
  /\ \A r \in Fires : SF_vars(Start(r))
  /\ WF_vars(TimerDue) /\ WF_vars(TickTimeout) /\ WF_vars(FireLockExpires)

FairSpec == Spec /\ Fairness

-----------------------------------------------------------------------------
(* Properties *)

Rows == [column : Columns \cup {NoColumn}, role : {"own", "custom"}, turns : Nat,
         timer : {"none", "armed", "due"}, fires : 0..ForcedAt, status : Statuses]

Labels == {"idle", "lock", "sync", "insert", "write_sync", "limit", "audio", "notice", "count",
           "fire_lock", "fire", "counted", "fired", "force", "llm", "tool", "escalate", "handoff",
           "emit", "promote", "auto_promote", "write_tool", "write_emit", "write_quote", "write_end", "send", "sent"}

\* The type of every variable.
TypeOK ==
  /\ cardColumn \in Columns /\ enabled \subseteq Columns
  /\ row \in Rows /\ copy \in [Runs -> Rows]
  /\ msgLocks \subseteq Msgs /\ fireLock \in BOOLEAN /\ tick \in Runs \cup {NoRun}
  /\ pc \in [Runs -> Labels] /\ loop \in [Workers -> Runs \cup {NoRun}]
  /\ msg \in [Runs -> Msgs \cup {NoMsg}]
  /\ colOf \in [Runs -> Columns \cup {NoColumn}] /\ ctx \in [Runs -> Columns \cup {NoColumn}]
  /\ iter \in [Runs -> 0..MaxIterations] /\ calls \in [Runs -> 0..MaxCalls]
  /\ nudges \in Nat /\ raced \in BOOLEAN

\* max_turns is exceeded at most by the runs that were past the check together
\* (columnAgentRunner.ts, step 3), until a run of another worker has changed a count between
\* one run's read of it and its use: what is written back then is stale.
TurnsBounded == ~raced => row.turns < MaxTurns + Cardinality(Clients)

\* A silent client gets at most two automatic contacts before the card is made "morno"
\* (inactivityScheduler.ts, FIRE_COUNT_FORCE_MORNO), with the same exception.
NudgesBounded == ~raced => nudges < ForcedAt

\* Every run returns: the tool loop is bounded (MAX_TOOL_ITERATIONS).
RunsEnd == \A r \in Runs : pc[r] # "idle" ~> pc[r] = "idle"

\* A due timer does not stay due on a card the scheduler looks at: the run that fires
\* sets it again, or the third fire parks the card.
SilenceEnds == []<>(~Eligible)
=============================================================================
