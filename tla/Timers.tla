------------------------------- MODULE Timers -------------------------------
(***************************************************************************)
(* The column timers of one card: columnTimerTick of crm/scheduler.ts,     *)
(* tickColumnTimers of crm/agents/columnTimerScheduler.ts, and what moves  *)
(* the clocks and tags they read: messages, users, tools of the agent's    *)
(* runs, the inactivity timer.  ColumnAgent has the runs in detail.        *)
(*                                                                         *)
(* Time is what has passed since the instant a query counts from:          *)
(* "silence" since last_bot_message_at, "stay" since column_changed_at.    *)
(* A tick awaits only the key of each row it has found and is one step     *)
(* from one await to the next; the keys of the minute only space the ticks *)
(* out and are left out.  The keys are in Redis, or in the memory of a     *)
(* worker that has not reached it.                                         *)
(***************************************************************************)
EXTENDS Naturals, FiniteSets, Sequences

CONSTANTS Workers,         \* processes that run the scheduler (a reload has two)
          Fallback,        \* workers that may not reach Redis, or have no client for it
          Slots,           \* bound: runs of the agent in flight
          Columns, FollowUp, Seller, Human, StartColumn,
          AgentColumns,    \* agent_enabled = 1
          EntryColumns,    \* agent_entry_delay_minutes > 0
          ChaseColumns,    \* agent_no_response_chase_steps_json
          EntryDelay,      \* agent_entry_delay_minutes
          ChaseDelay,      \* the delays of the steps, as a user lists them: in any order,
          FollowDelay,     \* with repetitions
          Day,             \* 24 hours
          LLMTags,         \* tags of steps that the LLM may write
          MaxEvents,       \* bound: messages, fires of the inactivity timer, users' edits,
                           \* killed workers and failing store calls
          None

Chases    == {"chase"} \X (1..Len(ChaseDelay))
Followups == {"followup"} \X (1..Len(FollowDelay))
Entry     == <<"entry", 0>>
Final     == <<"final", 0>>   \* the farewell, whose tag schedules the deletion
Done      == <<"done", 0>>
Steps     == Chases \cup Followups \cup {Final}
Fires     == Steps \cup {Entry}

FinalDelay ==
  Day + IF FollowDelay = <<>> THEN 3 * Day ELSE FollowDelay[Len(FollowDelay)]

Delay(f) ==
  IF f \in Chases THEN ChaseDelay[f[2]]
  ELSE IF f \in Followups THEN FollowDelay[f[2]] ELSE FinalDelay

\* A follow-up step's tag is named after its hours, which others may share.
Tag(f) == IF f \in Followups THEN <<"hours", FollowDelay[f[2]]>> ELSE f

Tags == {Tag(f) : f \in Steps} \cup {Done}

ASSUME TimersAssumption ==
  /\ EntryDelay \in Nat \ {0} /\ Day \in Nat \ {0}
  /\ ChaseDelay \in Seq(Nat \ {0}) /\ FollowDelay \in Seq(Nat \ {0})
  /\ Fallback \subseteq Workers
  /\ MaxEvents \in Nat
  /\ {FollowUp, Seller, Human, StartColumn} \subseteq Columns
  /\ AgentColumns \subseteq Columns /\ FollowUp \in AgentColumns
  /\ EntryColumns \subseteq AgentColumns /\ ChaseColumns \subseteq AgentColumns
  /\ LLMTags \subseteq Tags
  /\ None \notin Fires /\ None \notin Workers

VARIABLES
  column, deleted, \* crm_cards.column_id, deleted_at
  last,            \* "bot" if last_bot_message_at is there and later than the client's, or "client"
  spoke,           \* last_bot_message_at >= column_changed_at, in a column that asks for it
  silence, stay,   \* time since the bot's message (if it is last), since the column changed
  tags,            \* the steps' tags in crm_card_tags, and final_delete_done as Done
  timer,           \* crm_card_agent_state.inactivity_timer_at
  channel,         \* the tenant has an active channel
  own,             \* workers whose keys are in their own memory
  keys,            \* keys col-timer:... of each worker's memory, and of Redis (at None)
  found,           \* the row a worker's tick has found and awaits the key of
  late,            \* workers whose row has lost its key to another tick since they found it
  run,             \* runs in flight
  pending,         \* a client message waits for the debounce
  events,          \* counter for the bound
  sent             \* history: how often each step was dispatched, "loose" if first without its
                   \* tag or while a tick with other keys had found it

card   == <<column, deleted, last, spoke, silence, stay>>
ticks  == <<own, keys, found, late>>
vars   == <<card, tags, timer, channel, ticks, run, pending, events, sent>>

Init ==
  /\ column = StartColumn /\ deleted = FALSE
  /\ last = "client" /\ spoke = FALSE /\ silence = 0 /\ stay = 0
  /\ tags = {} /\ timer = "none"
  /\ channel = TRUE
  /\ own \in SUBSET Fallback
  /\ keys = [t \in Fallback \cup {None} |-> {}]
  /\ found = [w \in Workers |-> None] /\ late = {}
  /\ run = [s \in Slots |-> "none"]
  /\ pending = TRUE
  /\ events = 0
  /\ sent = [f \in Steps |-> "no"]

Event == events < MaxEvents /\ events' = events + 1

-----------------------------------------------------------------------------
(* What the queries select; none of them looks at deleted_at *)

EntryDue == {f \in {Entry} : column \in EntryColumns /\ stay >= EntryDelay /\ ~spoke}

\* The step that is listed first.
FirstOf(fs) == {f \in fs : \A g \in fs : f[2] <= g[2]}

Unsent(steps, passed) == {f \in steps : passed >= Delay(f) /\ Tag(f) \notin tags}

ChaseDue ==
  IF column \in ChaseColumns /\ last = "bot" THEN FirstOf(Unsent(Chases, silence)) ELSE {}

\* The farewell comes a day after the step listed last, when no step is due.
FinalDue == {f \in {Final} : stay >= FinalDelay /\ f \notin tags /\ Done \notin tags}

\* Mutant: a client who has answered gets no more of Follow Up's steps.
FollowupDueUnanswered ==
  LET due == Unsent(Followups, stay) IN
  IF column # FollowUp \/ last = "client" THEN {}
  ELSE IF due # {} THEN FirstOf(due) ELSE FinalDue

\* Mutant: the farewell does not wait for the steps.
FollowupDueFarewellFirst ==
  IF column # FollowUp THEN {}
  ELSE IF FinalDue # {} THEN FinalDue ELSE FirstOf(Unsent(Followups, stay))

FollowupDue ==
  LET due == Unsent(Followups, stay) IN
  IF column # FollowUp THEN {} ELSE IF due # {} THEN FirstOf(due) ELSE FinalDue

-----------------------------------------------------------------------------
(* A tick: entry, chase, followup, final deletes *)

\* Mutant: a card that has left Follow Up is spared.
ExecuteFinalDeletesHere(newTags) ==
  IF Final \in newTags /\ timer = "due" /\ column = FollowUp
  THEN tags' = newTags \cup {Done} /\ deleted' = TRUE
  ELSE tags' = newTags /\ UNCHANGED deleted

ExecuteFinalDeletes(newTags) ==
  IF Final \in newTags /\ timer = "due"
  THEN tags' = newTags \cup {Done} /\ deleted' = TRUE
  ELSE tags' = newTags /\ UNCHANGED deleted

\* What the tick finds after a fire of one category, in the categories that come after it.
Found(f) ==
  LET entry == IF f = None THEN EntryDue ELSE {}
      chase == IF f \in {None, Entry} THEN ChaseDue ELSE {}
  IN IF entry # {} THEN entry
     ELSE IF chase # {} THEN chase
     ELSE IF f \in {None, Entry} \cup Chases THEN FollowupDue ELSE {}

\* The tick goes on to the next row it finds, or to its end.
GoesOn(w, f, newTags) ==
  \/ /\ \E g \in Found(f) : found' = [found EXCEPT ![w] = g]
     /\ tags' = newTags /\ UNCHANGED deleted
  \/ /\ Found(f) = {}
     /\ found' = [found EXCEPT ![w] = None]
     /\ ExecuteFinalDeletes(newTags)

TickStarts(w) ==
  /\ found[w] = None
  /\ UNCHANGED <<column, last, spoke, silence, stay, timer, channel, own, keys, late, run,
                 pending, events, sent>>
  /\ GoesOn(w, None, tags)

Starts(s) == run[s] = "none" /\ run' = [run EXCEPT ![s] = "llm"]

Store(w) == IF w \in own THEN w ELSE None

\* Another worker, with other keys, has found the step.
Apart(w, f) == \E v \in Workers \ {w} : found[v] = f /\ Store(v) # Store(w)

\* The tag of a step is written before its run starts, which does not ask whether it was;
\* nobody reads the one of Entry.
Fire(w, f, written) ==
  /\ \E s \in Slots : Starts(s)
  /\ sent' = [g \in Steps |->
               IF g # f \/ sent[g] = "loose" THEN sent[g]
               ELSE IF sent[g] # "no" THEN "twice"
               ELSE IF written /\ ~Apart(w, f) THEN "once" ELSE "loose"]
  /\ GoesOn(w, f, IF written /\ f # Entry THEN tags \cup {Tag(f)} ELSE tags)

\* Mutant: the tick fires without asking for the key.
DispatchUnlocked(w) ==
  /\ found[w] # None
  /\ Fire(w, found[w], TRUE) /\ UNCHANGED <<own, keys, late>>
  /\ UNCHANGED <<column, last, spoke, silence, stay, timer, channel, pending, events>>

\* The key of a step that has its tag is of use only to a tick that has found the step before.
Wanted(w, t, f) == \E v \in Workers \ {w} : found[v] = f /\ Store(v) = t

TakesKey(w) ==
  LET had(t) == IF t = Store(w) THEN keys[t] \cup {found[w]} ELSE keys[t]
      losers == {v \in Workers : /\ found[v] = found[w] /\ Store(v) = Store(w)
                                 /\ found[w] \notin keys[Store(w)]}
  IN /\ keys' = [t \in Fallback \cup {None} |->
                   {f \in had(t) : Tag(f) \in tags' => Wanted(w, t, f)}]
     /\ late' = (late \cup losers) \ {w}
     /\ UNCHANGED own

\* dispatchEntry, dispatchChase, dispatchFollowup from setNxEx: another tick has the key, or
\* this one takes it and fires, or returns because the tenant has no active channel.
Dispatch(w) ==
  /\ found[w] # None
  /\ UNCHANGED <<column, last, spoke, silence, stay, timer, channel, pending, events>>
  /\ \/ /\ found[w] \in keys[Store(w)] \/ ~channel
        /\ UNCHANGED <<run, sent>>
        /\ GoesOn(w, found[w], tags)
     \/ /\ found[w] \notin keys[Store(w)] /\ channel
        /\ Fire(w, found[w], TRUE)
  /\ TakesKey(w)

\* applyTagSystem swallows an error of the database.
DispatchUntagged(w) ==
  /\ Event /\ found[w] \in Steps \ keys[Store(w)] /\ channel
  /\ Fire(w, found[w], FALSE)
  /\ TakesKey(w)
  /\ UNCHANGED <<column, last, spoke, silence, stay, timer, channel, pending>>

\* setNxEx rejects: the error ends the tick before its final deletes.
DispatchFails(w) ==
  /\ Event /\ found[w] # None
  /\ found' = [found EXCEPT ![w] = None] /\ late' = late \ {w}
  /\ UNCHANGED <<card, tags, timer, channel, own, keys, run, pending, sent>>

-----------------------------------------------------------------------------
(* Time *)

\* Two minutes are longer than the way from a query to the key of what it found: a key that
\* was taken on that way lasts to its end.
KeyExpires(t, f) ==
  /\ f \in keys[t] /\ \A w \in late : ~(Store(w) = t /\ found[w] = f)
  /\ keys' = [keys EXCEPT ![t] = @ \ {f}]
  /\ UNCHANGED <<card, tags, timer, channel, own, found, late, run, pending, events, sent>>

\* A clock that no query of the column reads stands still, and so does one that has passed all
\* the delays it is compared with.
SilencePasses ==
  /\ column \in ChaseColumns /\ last = "bot" /\ \E f \in Chases : silence < Delay(f)
  /\ silence' = silence + 1
  /\ UNCHANGED <<column, deleted, last, spoke, stay, tags, timer, channel, ticks, run,
                 pending, events, sent>>

StayDelays ==
  (IF column \in EntryColumns THEN {EntryDelay} ELSE {})
    \cup (IF column = FollowUp THEN {Delay(f) : f \in Followups \cup {Final}} ELSE {})

StayPasses ==
  /\ \E d \in StayDelays : stay < d
  /\ stay' = stay + 1
  /\ UNCHANGED <<column, deleted, last, spoke, silence, tags, timer, channel, ticks, run,
                 pending, events, sent>>

TimerPasses ==
  /\ timer = "armed" /\ timer' = "due"
  /\ UNCHANGED <<card, tags, channel, ticks, run, pending, events, sent>>

-----------------------------------------------------------------------------
(* The runs of the agent *)

\* logActivity of message_in; a deleted card is not found and the message goes to another.
ClientWrites ==
  /\ Event /\ ~deleted
  /\ last' = "client" /\ silence' = 0 /\ pending' = TRUE
  /\ UNCHANGED <<column, deleted, spoke, stay, tags, timer, channel, ticks, run, sent>>

\* dispatchAfterDebounce and the client's turn; a run may also return before it counts one.
ClientRun(s) ==
  /\ pending /\ pending' = FALSE
  /\ \/ ~deleted /\ column \in AgentColumns /\ Starts(s) /\ timer' = "armed"
     \/ UNCHANGED <<run, timer>>
  /\ UNCHANGED <<card, tags, channel, ticks, events, sent>>

\* tickInactivity: a run, the timer put off (out of hours, third fire), or cleared.
InactivityFire(s) ==
  /\ Event /\ timer = "due"
  /\ \/ ~deleted /\ channel /\ Starts(s) /\ UNCHANGED timer
     \/ timer' = "armed" /\ UNCHANGED run
     \/ (deleted \/ ~channel) /\ timer' = "none" /\ UNCHANGED run
  /\ UNCHANGED <<card, tags, channel, ticks, pending, sent>>

\* moveCard and column_changed_at; moveCard does not find a deleted card.
MovesTo(c) ==
  /\ column' = IF deleted THEN column ELSE c
  /\ spoke' = FALSE /\ stay' = 0

\* mover_para_followup and escalar_humano clear the inactivity timer.
Handover(c) ==
  /\ column # c /\ MovesTo(c)
  /\ timer' = "none"
  /\ UNCHANGED <<deleted, last, silence, tags>>

\* executePromotion also forgets the bot's last message.
Promotion ==
  /\ column # FollowUp
  /\ \E c \in Columns \ {column} : MovesTo(c)
  /\ last' = "client"
  /\ silence' = 0
  /\ timer' = "none"
  /\ UNCHANGED <<deleted, tags>>

\* voltou_para_vendedor keeps the timer, and the tags with it.
BackToSeller ==
  /\ column = FollowUp /\ MovesTo(Seller)
  /\ UNCHANGED <<deleted, last, silence, tags, timer>>

\* deletar_card_final
ScheduleDelete ==
  /\ column = FollowUp
  /\ timer' = "armed" /\ tags' = tags \cup {Final}
  /\ UNCHANGED card

\* aplicar_tag takes any tag.
ApplyTag ==
  /\ \E f \in LLMTags : tags' = tags \cup {f}
  /\ UNCHANGED <<card, timer>>

Tool(s) ==
  /\ run[s] = "llm"
  /\ \/ Handover(FollowUp) \/ Handover(Human) \/ Promotion \/ BackToSeller
     \/ ScheduleDelete \/ ApplyTag
  /\ UNCHANGED <<channel, ticks, run, pending, events, sent>>

\* The run ends: with nothing or an error, or with a text, which is sent if the card's column
\* has an agent and logged on the contact's newest card, never on a deleted one.  (ColumnAgent
\* has the await between the check and the log.)
Answer(s) ==
  /\ run[s] = "llm" /\ run' = [run EXCEPT ![s] = "none"]
  /\ \/ /\ column \in AgentColumns /\ ~deleted
        /\ last' = "bot" /\ spoke' = (column \in EntryColumns) /\ silence' = 0
     \/ UNCHANGED <<last, spoke, silence>>
  /\ UNCHANGED <<column, deleted, stay, tags, timer, channel, ticks, pending, events, sent>>

-----------------------------------------------------------------------------
(* Users, and workers that die *)

UserMoves ==
  /\ Event /\ ~deleted
  /\ \E c \in Columns \ {column} : MovesTo(c)
  /\ UNCHANGED <<deleted, last, silence, tags, timer, channel, ticks, run, pending, sent>>

\* deleteCard, and restore of the trash.
UserDeletes ==
  /\ Event
  /\ deleted' = ~deleted
  /\ UNCHANGED <<column, last, spoke, silence, stay, tags, timer, channel, ticks, run,
                 pending, sent>>

ChannelSwitched ==
  /\ Event
  /\ channel' = ~channel
  /\ UNCHANGED <<card, tags, timer, ticks, run, pending, sent>>

\* What a worker has in memory is gone, with its own keys; Redis and the rows stay.  The next
\* one may reach Redis or not.
Crash(w) ==
  /\ Event
  /\ found' = [found EXCEPT ![w] = None] /\ late' = late \ {w}
  /\ \E alone \in SUBSET ({w} \cap Fallback) : own' = (own \ {w}) \cup alone
  /\ keys' = [t \in Fallback \cup {None} |-> IF t = w THEN {} ELSE keys[t]]
  /\ \E lost \in SUBSET Slots : run' = [s \in Slots |-> IF s \in lost THEN "none" ELSE run[s]]
  /\ UNCHANGED <<card, tags, timer, channel, pending, sent>>

-----------------------------------------------------------------------------
TimersStep(w) ==
  TickStarts(w) \/ Dispatch(w) \/ DispatchUntagged(w) \/ DispatchFails(w) \/ Crash(w)

Time ==
  \/ SilencePasses \/ StayPasses \/ TimerPasses
  \/ \E t \in Fallback \cup {None}, f \in Fires : KeyExpires(t, f)

RunStep(s) ==
  Tool(s) \/ Answer(s) \/ ClientRun(s) \/ InactivityFire(s)

Users == ClientWrites \/ UserMoves \/ UserDeletes \/ ChannelSwitched

Next ==
  \/ \E w \in Workers : TimersStep(w)
  \/ Time
  \/ \E s \in Slots : RunStep(s)
  \/ Users

Spec == Init /\ [][Next]_vars

(***************************************************************************)
(* setInterval goes on, awaited calls return, clocks advance.  Dispatch is *)
(* strongly fair because it may find every one of the bounded slots taken  *)
(* whenever it looks.  Users owe nothing.                                  *)
(***************************************************************************)
Fairness ==
  /\ \A w \in Workers : WF_vars(TickStarts(w)) /\ SF_vars(Dispatch(w))
  /\ WF_vars(StayPasses) /\ WF_vars(TimerPasses)
  /\ \A t \in Fallback \cup {None}, f \in Fires : WF_vars(KeyExpires(t, f))
  /\ \A s \in Slots : WF_vars(Answer(s))

FairSpec == Spec /\ Fairness

-----------------------------------------------------------------------------
\* Every variable has its type.
TypeOK ==
  /\ column \in Columns /\ deleted \in BOOLEAN
  /\ last \in {"bot", "client"} /\ spoke \in BOOLEAN
  /\ silence \in Nat /\ stay \in Nat
  /\ tags \subseteq Tags
  /\ timer \in {"none", "armed", "due"} /\ channel \in BOOLEAN
  /\ own \subseteq Fallback
  /\ keys \in [Fallback \cup {None} -> SUBSET Fires]
  /\ found \in [Workers -> Fires \cup {None}] /\ late \subseteq Workers
  /\ run \in [Slots -> {"none", "llm"}]
  /\ pending \in BOOLEAN
  /\ events \in 0..MaxEvents
  /\ sent \in [Steps -> {"no", "once", "twice", "loose"}]

\* A chase step, a follow-up step and the farewell are dispatched a second time only when the
\* database refused the tag, or when ticks of two workers that have their keys apart have
\* found the step at once.  Ticks that overlap, find a step before either tags it, or die
\* half-way, and a key that expires long before the card is done with its step, are no reason.
OncePerStep == \A f \in Steps : sent[f] # "twice"

\* When a step is dispatched, the steps listed before it that wait no longer than it have
\* their tags, and when the farewell is, all of Follow Up's steps that wait no longer than it:
\* whatever the card did between the query and the dispatch, in whatever order the delays are
\* listed, and though a tag may be refused.
StepsInOrder ==
  /\ \A f, g \in Chases :
       f[2] < g[2] /\ Delay(f) <= Delay(g) /\ sent[g] # "no" => Tag(f) \in tags
  /\ \A f, g \in Followups :
       f[2] < g[2] /\ Delay(f) <= Delay(g) /\ sent[g] # "no" => Tag(f) \in tags
  /\ sent[Final] # "no" => \A f \in Followups : Delay(f) <= FinalDelay => Tag(f) \in tags

\* A card that stays in Follow Up of a tenant with a channel is scheduled for deletion in the
\* end, whether its client answers or not: findFollowupCards counts from column_changed_at
\* and looks at no message.
FollowUpEnds == <>[](column = FollowUp /\ channel /\ ~deleted) => <>(Final \in tags)

\* A card scheduled for deletion is deleted when its inactivity timer stays past, wherever it
\* has been moved since, whoever has answered, and again when a user restores it: no step
\* takes the tag away and executeFinalDeletes asks for nothing else.
Doomed == <>[](Final \in tags /\ timer = "due") => []<>deleted
=============================================================================
