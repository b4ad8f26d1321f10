# System Clow: verification project

System Clow is a multi-tenant assistant platform in TypeScript: a coding agent with a command
line and a server, a remote bridge to users' machines, and a CRM that talks to clients over
WhatsApp and lets LLM agents work its sales funnel. It is deployed as **two PM2 cluster workers**
(`ecosystem.config.cjs`) behind one nginx upstream. Every worker is one Node process with its own
event loop; what they share is one SQLite database per concern, a JSON file of tenants under an
advisory lock, and Redis (or, failing that, each worker's own memory) for short-lived keys.

This directory models the parts where that sharing, or the interleavings of one event loop, can go
wrong. Paths below are relative to `src/` of the repository.

| module | what it is |
|---|---|
| `Inbox` | ingest and send of WhatsApp messages (`crm/inbox.ts`, `crm/webhooks.ts`) |
| `ColumnAgent` | the LLM agent of one card (`crm/agents/`) |
| `Timers` | the timers of a column: entry, chase, follow-up, farewell, final delete (`crm/agents/columnTimerScheduler.ts`) |
| `Webhooks` | outbound webhooks of the CRM and their retries (`crm/outboundWebhooks.ts`) |
| `Bridge`, `BridgeWork` | `clow bridge` with its server side; the abstract promise about a work item |
| `Tenants`, `TenantTable` | `tenants.json` and its users; the abstract table it implements |
| `Engine` | one query engine: history, model and tool calls, budget, compaction (`query/QueryEngine.ts`, `utils/compact/`) |
| `Server` | session pools of two workers, the active-session quota, Redis or memory (`server/sessionPool.ts`, `utils/clusterStore.ts`) |
| `Transcript`, `AppendLog` | the buffered writer of a session's transcript (`utils/session/`); the abstract log |
| `Mailbox`, `MessageQueue` | the inbox file of a swarm agent under its lock file (`swarm/mailbox/`); the abstract queue |
| `MC*` | instances for TLC, one per component, with the `.cfg` files of the runs |
| `*Proofs` | theorems checked by TLAPS, one module per component, but `SchedulerProofs` for `Timers` and `Webhooks`, which one scheduler ticks, and `FilesProofs` for `Mailbox` and `Transcript` |
| `PROJECT.json` | components, runs, mutants, source map, hazards, theorems |

## 1. Inventory

For each part: its state, its operations, who it talks to, and what makes it hard.

**CRM inbox.** State: rows of `crm_contacts`, `crm_boards`, `crm_columns`, `crm_cards`, `crm_activities`, `crm_card_tags`,
tied by foreign keys. Operations: `ingestInbound` (webhook entry to contact, card and activity), `sendOutbound`
(provider call, then activity); users delete, merge, forget, move, relink, restore and purge rows and delete
columns and boards meanwhile. The webhook acknowledges first and ingests after; providers redeliver and echo. Hard: up to four awaits between the
duplicate check and the INSERT, local ids that outlive their rows, two workers. Correct when: a
message is logged once, nothing is dropped silently, a contact gets one card.

**CRM column agents.** State: the card's column, the row of `crm_card_agent_state` (column, role,
turns, fire count, timer, status), message and fire locks in the cluster store. Operations: a
client's message starts `runColumnAgent`; `tickInactivity` fires on silent cards and forces
"morno" at the third time; the LLM's tools move, promote, escalate and reschedule. Users move cards
and switch agents off. Hard: read-modify-write of the whole row, checks before awaits of seconds,
locks that expire, two schedulers' worth of clocks. Correct when: a human's column gets no bot
text, automatic contacts and turns are bounded, runs end, a silent client is left alone.

**CRM column timers.** State: the card's column and deletion, the clocks its queries read (last bot
message, column change, inactivity timer), tags of the steps sent, keys in Redis or in a worker's memory. Operations:
ticks of both workers, which dispatch one step after another behind a key, and the final delete; the
agent's tools, client, users and the inactivity timer move what they read. Hard: a tag set between a key that expires and a run
nobody awaits, deaths in between, clocks started elsewhere, delays listed in any order. Correct when: a step is sent once
unless a store failed, and in order, a card left in Follow Up comes to its end, one scheduled for deletion is deleted.

**CRM outbound webhooks.** State: `crm_outbound_webhooks`, `crm_webhook_deliveries`. Operations: `emit` inserts a row per
hook and POSTs it at once; the scheduler's tick POSTs what is due; an attempt writes what came of it; users switch
hooks off and delete them. Hard: two attempts of one row, counts written from what was read, a bounded selection.
Correct when: a receiver gets a delivery again only for a reason, attempts are bounded, deliveries end.

**Other CRM parts.** Automations (rules on events, deduplicated for five seconds), scheduler (ticks with
a key per interval, reminders, billing, reports, monthly rotation on worker 0), assignment, line
items and stock, per-worker rate limits, channels (Z-API, Meta),
security and LGPD, proposals, documents, forms, calendar, tasks, reports, search and caches,
migrations, some four hundred HTTP routes. Mostly one SQL statement per operation.

**Standalone bridge.** State on the machine: pointer file, poll loop, items being acknowledged,
the Map of sessions, child processes. State on the server: Maps of environments and queues of one
worker. Operations: register, poll, ack, spawn, exit, heartbeat, give up, shutdown, recover after a
crash; `POST /bridge/work`. Hard: responses lost after their effect, handlers nobody awaits, a
shutdown beside a poll, restarts of either side. Correct when: an item starts at most one session,
slots are given back, a bridge the server forgot ends, a shutdown ends and kills what runs.

**Tenant store, quota, billing, signup.** State: `tenants.json`, its lock file, each handler's copy.
Operations: quota check, Stripe events, provisioning of a checkout, signup, password changes, monthly rotation,
touching API keys. Hard: lock-free readers beside a writer that truncates, awaits of bcrypt between
look-up and creation, killed workers, events out of order and delivered twice. Correct when: no
count is lost, an email has one tenant, a mailed password works, operations are applied one by one.

**Bridge transports and REPL bridge.** SSE and hybrid transports, batch uploader, flush gate,
heartbeat loop. Not reached from the command line's bridge.

**Query engine.** State: the session's history, turns, two sums of what was spent, files read, blocked reads. Operations:
submit a message, call the model, run tools, compact, stop, `/clear`. Hard: the server does not serialise messages of one
session; every await and yield lets another submission in; the provider refuses a history in which a tool call
has no result. Correct when: what goes to the model is paired, calls are answered, the budget holds.

**Session pool and server.** State: engines per worker with a time to live, the tenant's set of active sessions in the
cluster store, requests. Operations: create, get (rehydrating from the transcript), message, expire, delete, shut down. Hard: the quota is read before the
session is registered by a command nobody awaits; a worker falls back to its own memory for good; engines are
replaced. Correct when: every slot that counts belongs to a session, every session counts, an answer
knows what was said, the limit is kept.

**Session transcripts.** State: the JSONL file, each writer's queue, write on its way and timer. Operations: append, flush, timer, failures, a kill. Hard:
callers that wait for each other's writes, batches put back, two writers of a file, torn lines. Correct when: what
`flush` was called for is on disk, and the file is an append-only log.

**Swarm mailbox.** State: an inbox file and its lock file. Operations: send, poll, wait for a reply. Hard: the lock is created empty and
filled later, staleness is found in one step and acted on in another, processes die in between. Correct when: one
operation is at work, the inbox is a queue, a left lock stops nobody.

**Cluster store** (`utils/clusterStore.ts`): INCR, SET NX EX and sets on Redis, or in memory; it is part of
`Server`, `ColumnAgent` and `Timers`. **Compaction**: part of `Engine`. **Permissions** (rules in order), **hooks**,
**plugins**, **skills**, **memory**, **tools**, **MCP**, **coordinator**, the swarm's **teams**: sequential within one session.
**HTTP server, authentication, adapters, notifications, model API, command line, front end, scripts,
deployment**: I/O and wiring. `PROJECT.json` lists every part with its files and its status.

## 2. Plan

The modules of the plan are written: `Inbox`, `ColumnAgent`, `Bridge` refining `BridgeWork`, `Tenants` refining
`TenantTable`, `Engine`, `Server`, `Transcript` refining `AppendLog`, `Mailbox` refining `MessageQueue`, `Timers`,
`Webhooks`. Every safety property, action property and refinement that a run checks has a theorem. What TLC alone
checks is liveness (section 5).

A further model would be the line items of a card: stock, value and whole-row updates of two workers (section 6).

A serial instance of `Inbox` is not run: `SerialLoggedOnce` proves for every instance what it would show.

## 3. The models

Common conventions. A step is one SQL statement, or the code between two awaits, whichever is
finer where another worker can see it. A worker's `loop` names the run inside a synchronous block:
others on that worker wait until it awaits, others elsewhere do not. Names of labels say what
the run does next. Texts, wording, logging and provider payloads are left out. Definitions that end
in a word like `Late`, `Unchecked`, `Anyway` or `Retrying` and are commented as mutants belong to no specification;
they are what a plausible bug would make of the definition after them, and every property is
shown to notice one.

**Inbox.** `Deliver` is the webhook's unawaited call; then `FindContact`, `CreateContact`, `FindCard`,
`ChooseColumn` (the channel's board and column, or the tenant's, seeded if there is none), `FindBoard`, `CreateCard`, `LogCard`,
`Download`, `LogInbound`, `CheckTag`, `ApplyTag`. `AlreadyLogged` is the duplicate check. Three places can be refused by SQLite's
`foreign_keys = ON`: a card's INSERT names a contact, a board and a column (`CardKeysOk`), and an activity's
a contact and a card (`ForeignKeysOk`); the run throws (`CreateCard`, `LogCard`, `RefuseActivity`). Sends go through
`StartSend`, `ProviderAccepts` or `SendFails`, `ResolveContact`, `LogOutbound`; an echo (`FromMe`) can
arrive as soon as the provider has accepted. Users act through `DeleteContact`, `MergeContacts`, `ForgetContact`,
`MoveCard`, `RelinkCard`, `DeleteCard` and `RestoreCard` (`deleted_at`), `PurgeCard`, `PurgeActivity`, `DeleteColumn`, `DeleteBoard`; the
last two and the purge delete rows of cards, and with them tags and activities (`CardsGo`). `Throws` is any other
exception, `Crash` loses a worker's runs. A row has one life (`none`, `live`, `gone`). `before`, `ever` and `seen` are history: what was logged at an
entry's check, what was ever logged, and which cards there were when it looked for one.

**ColumnAgent.** One card, its row, slots of runs. `ClientStart` to `ClientTurn` is the way of a client's
message, `FireFound` to `ForceMorno` that of the timer; both meet at the label `llm`, where the
model answers with a text (`FinalText`), nothing (`NoAnswer`) or tool calls (`CallTools`). Each tool that
moves the card or writes the row is an action; an upsert is a read into `copy` and a `Write`. `Promote`
and `Promoted` are `executePromotion` and `maybeAutoPromote`. `InsertRow` is the first upsert of a card, which another worker
may have made superfluous, and `CountFire`, `ReadCount` the two statements of `incrementInactivityFireCount`. `raced` records
that a run changed one of the counts while another stood between its read and its use (`HeldLabels`). Users are `UserMoves` and `Switch`, time is
`TimerDue`, `TickTimeout` and the expiry of locks. Columns that a funnel merges may be one value.

**Bridge.** Fibers `main` (start and poll loop), `down` (shutdown) and `acking` (one `handleWork` per item).
A request and its outcome are one step; `PollRetry` and `RegisterLost` are responses that were lost after
their effect. `SpawnThrows`, `SpawnError` and `Spawn` are the three ends of `spawnForWork`. `BridgeWork` is
the promise: new, waiting, taken, running, ended, or lost, never back. The mapping reads an
item's state off the queue, `acking` and its child.

**Tenants.** A request is one handler on a worker: `want` the lock, `loaded` a copy, `writing` (truncated),
`written`. `Mutated` is what each mutator does to a row; `CreateTenant` and `Refused` are the two
outcomes under the lock; `ChangePassword` is a user's change, which compares the old hash, awaits bcrypt (`Resumes`) and stores
the new one whatever is stored by then, `PatchPassword` the administrator's; `changed` is what they stored last. `Counts` says whether a job adds a message: quotaGuard's check does it if it lets the message
through, a turn of the server's engine always, when it is over (`Turn`, `Resumes`); `Release` goes on to the next change. `Seen` is `readStore` without the lock.
`Kill` leaves the lock `Abandoned`; it is taken over when stale. A live holder never becomes stale, because
the critical section is synchronous and far shorter than eight seconds. `HardLimit` is twice the plan's
messages, as `quotaGuard.ts` computes it. `TenantTable` is the table one operation changes at a
time; the mapping is the identity on `table`, `recorded` and `mailed`. The file exists at the start.
`KilledInWrite` says whether a kill may fall between truncation and filling.

**Engine.** A submission goes `Begin`, `Prompt`, then rounds: `AutoCompact` and `CompactEnds`, `BudgetStop` or
`CallModel`, `Answers`, then `Continue` (an answer cut off), `Done` or `UseTools` with
`Resolve`, `Proceed`, `Reread` (the guard against repeated reads), `RunTool`, `ToolEnds`, `Deferred`, `NextRound`. `Overflow` and
`Recompact` are the reactive compaction. A message is its kind and the tool calls it makes or
answers. `Resolved` is the safety net that makes up missing results; `Split`, `WalksTo` and `StopsAt` are where
`compactConversation` cuts, `Compacted` what it leaves. `loop` is the submission inside a synchronous block.
`overlapped`, `severed` and `stale` record that submissions ran together, that a compaction cut a call
from its result, or replaced a history that had grown meanwhile. `paid` is the engine's own sum, `spent` the tracker's,
to which the end of a submission adds the engine's whole sum once more; `/clear` (`Clear`) resets only `spent`.

**Server.** A request is a creation or a message on a worker: `Arrive`, `Admitted` (the quota's count of
active sessions), `Get`, `Loaded` or `NotFound` or `LoadFails` (a rehydration), `Created`, `Answered`, `Ends`. Commands to Redis go down the worker's `wire` in order and are
carried out by `Deliver`; `own` says that the worker gave up on Redis at its first use. `Expire`, `Delete`, `Flush`, `Shutdown`,
`Exit`, `Crash` are the pool's other operations. A history is the set of requests it knows; `disk` is the
transcript, `queued` what its writer has not written, in one step each (`Transcript` has the steps).

**Transcript.** `AppendEntry`, `Open`/`Opened`/`OpenFails` (the await of `getWriter`, in which two writers of one file can
arise), `TimerFires`, `Flush`, `WriteEnds`, `WriteFails`, `WriteShort` (the disk takes a part), `Killed`. When a write ends, all who awaited it
resume before anything else runs: `Resume` is that step, in the order in which they waited. In `AppendLog` what was accepted
is `held`, then in the log or, by an outage alone, lost; the log only grows at its end. `Readable` are the places
where a reader of the file finds an entry: one that follows a torn line is part of that line, and skipped. The mapping takes
the file for the log and what the writers have in memory (`Unwritten`) for what is held; `ReadOnce` and `StaysReadable`
are what follows for readers.

**Mailbox.** A step is a call of the file system: `Create` (`wx`), `Fill`, `Judge` (is the lock stale?), `Unlink`, `Read`, `WriteInbox`
(truncates), `Written`, `Unlock`; `Wake` ends the sleep between attempts. A process blocks its own operations, not others'. `Stall` lets the lock of an
operation grow old. `MessageQueue` is a queue of at most `Capacity`; the mapping shows the content
of an inbox that is being rewritten as it was.

**Timers.** One card. `Delay` is a step's delay as a user lists it, in any order and with repetitions, and `Tag` the tag that marks it as sent: a chase
step's is named after its place, a follow-up step's after its hours. `EntryDue`, `ChaseDue`, `FollowupDue`, `FinalDue` are the
finders, `Dispatch` what one found step does from its key to its unawaited run (`Fire`), `Found` where the tick goes on, `ExecuteFinalDeletes` the end of the tick.
`Store` says whose keys a worker asks: Redis, or its own memory (`own`) if it did not reach Redis at its start. `DispatchUntagged` is a dispatch whose tag the database refuses, which
`applyTagSystem` swallows. `sent` is history: how often a step was dispatched, and whether its first dispatch left a reason for another.
`Handover`, `Promotion`, `BackToSeller`, `ScheduleDelete`, `ApplyTag` are the LLM's tools that touch what timers read.

**Webhooks.** `Emit` is the SELECT of the hooks, `Insert` a row with its immediate attempt up to the POST; `Select` and `Retry` are
`tickRetries`; `Handled` is the receiver, `Ends` the answer, error or timeout with the UPDATE (`Write`), `Dies` a worker's death. `due` holds what is
due in the order of its index; `NotDue` takes rows out of it by their places (`Kept`). `raced` and `unsure` record the two reasons for a repetition.

## 4. Runs

`-workers 2`; sizes are distinct states. Each run checks what its row says; type invariants are
checked with the proofs (section 5) or were checked while the module was written.

| run | instance | shows |
|---|---|---|
| `inbox` (6.3 M) | two deliveries of one message and a send, a channel with a board and a column of its own, two workers, two contacts, two cards, two edits of any kind, crashes | duplicates and second cards only from overlap; finished means logged, and refused means that a row the run held on to was taken away |
| `inbox_settles` (373 k) | a send, its echo and a client's message, a channel without a column, two boards of which one is seeded when the other is deleted, one worker, fairness | every entry settles |
| `agent` (1.7 M) | two clients' runs on two workers, every tool, users, switching, expiring locks | turns exceed the limit by at most the runs in flight, unless `raced` |
| `agent_live` (160 k) | a client's run and the timer on two workers, fairness | unless `raced` automatic contacts bounded; runs end; a due timer does not stay due |
| `bridge` (76 k) | two items, two environments, two starts, one restart of the server, a lost response | refinement of `BridgeWork`; one place per item; slots; three liveness properties |
| `tenants` (862 k) | two requests at a time, four in all, two emails, one kill, two chosen passwords | refinement of `TenantTable`; counts exact; a message let through only under the limit; one tenant per email; mailed passwords work until they are changed |
| `engine` (5.2 M) | two submissions, a transcript of one exchange, two calls per answer, compaction, one note | histories paired when undisturbed; unanswered calls explained; the budget exceeded by calls under way only |
| `server` (1.5 M) | two requests of any kind, two sessions (one bound to a worker), a stop of a worker | no slot leaks; every session counts; answers know the session; the limit |
| `transcript` (451 k) | three entries, two flushes, a failed write, an outage, fairness | `flush` keeps its word; what is flushed for drains; refinement of `AppendLog` |
| `mailbox` (6.7 M) | three sends, a poll, a wait, three processes, a crash, a stall, capacity two | mutual exclusion unless a holder is robbed; nothing vanishes; left locks stop nobody; refinement of `MessageQueue` |
| `timers` (735 k) | two workers, one of which may have its own keys, two columns, one chase step and follow-up steps after 1, 2 and 1, one event (a user's edit, a message, a fire, a kill, a refused tag or a failing store), fairness | a step twice only for a refused tag or keys apart, and in order; Follow Up ends; scheduled deletions happen |
| `webhooks` (427 k) | one event for two hooks, two attempts, one place in the selection, two edits, a crash, fairness | repetitions explained; attempts bounded; deliveries end |

Bounds. Two of everything that races is what the properties need: they speak of pairs (two runs of
a message, two holders of a lock, two starts). Row ids are drawn once, so their number bounds
creations; two edits let a column or board go and a card or contact after it, or a card be deleted and restored. In `inbox_settles` there are as many contacts as operations, otherwise a run would wait for an id
that the code always gets. In `agent` `MaxTurns`, `MaxIterations` and `MaxCalls` are one: the
limit, the loop's last iteration and the last call of an answer are each reached at once, and the bound of
automatic contacts is the code's own three. The constraint `NotRaced` ends the behaviours of `agent` at the step that sets `raced`,
after which `TurnsBounded` says nothing and turns are unbounded. `MaxRetries = 1` in `bridge` has a first and a last attempt;
`MaxStarts = 2` a crash and a recovery. `MaxRequests = 4` in `tenants` allows a tenant to be created, given
credentials, counted to the limit of two and reset while another request is on its way. `Ids` are
as many as `Emails`, so that a duplicate tenant would have room. In `engine` `Large = 6` makes the history of
one round with two calls long enough to be compacted, with the split both in the middle of an
answer and outside; `MaxBudget = 3` is reached by three calls, or by two and the sum booked again; `MaxFiles = 0` leaves out files read again after a
compaction, which are messages without calls. `MaxSessions = 1` in `server` is a limit that the second session meets, and
`MaxWire = 3` exceeds the commands a request can leave behind. In `transcript` a queue of two entries is full with one
more to come, in `mailbox` the third message must make room. In `timers` the
follow-up delays 1, 2, 1 have a step that is listed last and due first, and two that share a tag; the farewell is a day (1) after the last, at the same
time as the second. The instance has no column with an entry delay: the entry has no tag, so no property
speaks of it, and only the proofs include it. `Limit = 1` in `webhooks` is the
smallest selection that a row of a switched-off hook can fill, and two edits switch a hook off and on.
Deadlock is not checked: all systems may rest, when nothing more arrives or a bound is used up.

Symmetry is declared on rows, workers, requests, submissions, ids, emails and passwords, never in a run
with a liveness property. (`OneAtATime` and `KeepsQueue` are safety properties without ENABLED.)

Fairness. `inbox_settles`: weak fairness of each entry's steps and of resuming a send: Node runs a settled
promise, and a provider's call settles by answer or timeout. `agent_live`: strong fairness of a run's steps,
because other runs of the worker may take the loop in between and Node serves its queue in order; weak
fairness of the clock, the tick's sixty seconds and the fire lock's expiry. Nothing is assumed of clients, users or of the model:
it may call tools for ever. `bridge`: weak fairness of the loop, shutdown and handlers, as timers fire and
requests time out; children end; strong fairness of `TakeWork`, because a server that
answers now and then answers a poll now and then; strong fairness of `GiveUp`, because errors that last
outlive `giveUpMs`. `transcript`: weak fairness of a write's end and of a timer. `timers`: weak fairness of ticks, clocks, the
expiry of keys and the end of a run (its iterations and its model calls are bounded); strong fairness of `Dispatch`, whose slots of
runs are a bound of the instance that other runs may fill for a while. `webhooks`: weak fairness of the tick's steps, of
the end of an attempt (it times out after ten seconds) and of the backoff; none of the receiver, which may fail for ever.
No liveness is stated where the code promises none: a handler of `Tenants` or `Mailbox` that does not get the lock
throws; a submission of `Engine` that overflows after every compaction compacts again without a bound; in `Server` Redis may stay silent.

## 5. Proofs

TLAPS checks about 16900 obligations; every theorem is for any value of the constants under the modules'
named assumptions. Each proof follows the same line: an inductive invariant `IInv`, checked with TLC first,
then `Init => IInv`, `IInv /\ [Next]_vars => IInv'` with one step per action, and PTL.

* **InboxProofs**: `TypeCorrect`, `OverlapOnly`, `NothingDroppedSilently`, `OneCardUnlessRaced` for `Spec`;
  `SerialLoggedOnce` for `SerialSpec`, in which runs do not overlap. The properties alone are not inductive: `CheckHolds`
  adds that what the duplicate check established is remembered through the whole run, `InsertedOnce` that
  a row is inserted only by its own operation, `ContactKnown` and `RowsKnown` that a contact, card, board or column in hand was a row once (it
  may be gone, never unborn), which is what a failing foreign key needs; `Looked` that an entry that creates a card found none
  it could use among those that were there and that nobody has edited since. They use that a tenant's channel names
  rows that were there when it was configured (`InboxAssumption`), not that they still are.
* **ColumnAgentProofs**: `TypeCorrect` for any number of runs and workers. The type of `iter` is not inductive by itself; it
  needs where each run stands (`IterOK`, `CtxOK`, `OwnWay`). `BoundsSafe` and `TurnsSafe` hold on any number of workers until
  `raced`: a copy about to be written has the row's counters or has reset them (`Fresh`), a fire that is about to
  be dispatched is counted and alone (`Counted`), and every client not yet past the check holds a turn
  in reserve (`Reserve`). `NeverRaced` adds that on one worker there is no exception: whoever stands between read
  and use has the worker's loop (`Holds`). Section 6 says what the exception means on the two workers of the deployment.
* **BridgeProofs**: `TypeCorrect`, `InOnePlace`, `SlotsRight`, and `PromiseKept`, the refinement of `BridgeWork`. The invariant
  is that queues hold no item twice (`Distinct`), queue, handler and child share none (`Apart`), and
  whatever is somewhere was posted (`Known`), so that an item that is nowhere is new or lost for good.
* **TenantsProofs**: `TypeCorrect`, `CountsKept`, `LimitKept`, `OnePerEmail` with kills anywhere; `MailedPasswordWorks` and
  `OneOperationAtATime`, the refinement of `TenantTable`, assuming `~KilledInWrite`. The
  invariant says what a request knows: with the lock, its copy is the table (`Copies`), or the table with its own
  change (`Plans`), since nobody else writes; a request that created a tenant alone gives it
  credentials (`Distinct`, `NewRows`), which is why a mailed password is the stored one until somebody changes it, and no late write of the
  credentials comes after that. Without the
  assumption both theorems are false (section 6).
* **EngineProofs**: `TypeCorrect`, `SpentSafe`, `UnansweredSafe` and `PairedSafe` for any number of submissions. The sum and the
  number of turns alone are not inductive: `Charged` and `Counted` add the calls and turns that are under way,
  each of which passed the check when the limit was not reached and is charged once. For unanswered calls `UInv` adds that
  every answer lies where its submission put it (`Placed`, `Fresh`), and in order while no compaction replaced a
  history that had grown (`InOrder`). For pairing, `PInv` says of the one submission that runs what is paired but
  for the calls it still has to make (`PairedBut`, `Todo`), which are calls of the newest answer (`Newest`), and that a compaction
  that severs nothing shifts what is left as it was (`Shifted`). `TranscriptAssumption` is what a loaded history
  is: messages without tool calls, as transcripts hold none.
* **ServerProofs**: `TypeCorrect`, `SlotsNotLeaked`, `SessionsAccounted`, `LimitSafe`, `HistoryRemembered`. What a worker believes and what the store
  knows differ by what is on the wire, so the invariants speak of the last command about a session that has not arrived (`AddKept`, `RemKept`).
  The limit needs that an admission is for what was counted (`WithinLimit`, `Passes`); memory needs that what was said is
  in the pool's engine, in the transcript, or in a copy that a rehydration has in hand (`PoolKnows`, `CopyKnows`, `Written`).
* **FilesProofs**, `Mailbox`: `TypeCorrect`, `ExclusiveSafe`, `AloneSafe`, `KeptSafe`, `QueueKept` (the refinement of `MessageQueue`), and two
  properties that no run checks: `InboxDistinct`, which is what makes dropping all messages of an id dropping one, and
  `HandledOnce`. Unless robbed the file of the lock belongs to who is at work (`Held`, `Owned`); the inbox
  that is being rewritten is in its writer's buffer (`Emptied`, `Placed`); whoever will dispatch a message has taken it alone (`Apart`).
* **FilesProofs**, `Transcript`: `TranscriptTypeCorrect`, `FlushedSafe`, `AcceptedKept`, `LogKept` (the refinement of `AppendLog`), and for the
  readers `TranscriptReadOnce`, `TranscriptStaysReadable`, `TranscriptInOrder`. Every step is one of three towards the entries: nothing
  moves (`Rests`), a writer is given one (`Gains`), or a batch goes to the end of the file while others are lost (`Drains`). The invariant
  `TranscriptIInv` says where an entry is: in one place of one writer's memory, and not in the file (`Single`, `Located`),
  or in the file or gone (`Recorded`), which gives the refinement. `Flushed` needs what the calls that have not returned count on: the call
  that awaits its own write finds what it is due in that batch or on file (`OwnClaim`); the first of those that await another's
  finds it in the writer's memory, and all behind it are in `second` (`WaitClaim`). `TranscriptInOrder` adds that batch and queue of a writer, one behind the other, are in
  the order of acceptance (`Line`, `Sorted`), and come after all it has written (`InOrder`): a batch that fails goes back to the front of the queue it left.
* **SchedulerProofs**, `Timers`: `TypeCorrect`, `OnceSafe`, `OrderSafe`, for any number of workers, any of them with keys of its own, and any
  lists of delays. A step dispatched for good, that is with its tag and while no tick with other keys had found it, has its tag (`Tagged`); a tick of the same store that found it before finds
  its key, which lives as long as any tick can hold the row (`Locked`, `Holds`), and a tick that looks later finds the tag. A row that is found has the tags of the steps
  listed before it that wait no longer (`Ready`, `InTurn`), and so has one that was dispatched (`Sent`), since tags are never taken away.
* **SchedulerProofs**, `Webhooks`: `WebhooksTypeCorrect`, `RepeatsSafe`, `AttemptsSafe`. `WebhooksIInv` speaks of one delivery at a time. An emit's attempt and
  the tick's can meet on the first attempt only (`Paired`): later the row is due only when no attempt is under way. So what an attempt has read, and will write over
  what others wrote, is short of what has ended by one at most, and only where `raced` (`Counted`, which also keeps the attempts under way
  in reserve); and what the receiver has handled is still in its attempt, or that attempt succeeded and was the last (`Answered`).

The names of `Timers` and `Webhooks`, and of `Mailbox` and `Transcript`, are disjoint, so that one module can extend both and
the lemmas about sequences stand once.

Only model-checked: liveness (`EveryEntrySettles`, `RunsEnd`, `SilenceEnds`, `WorkIsFetched`,
`LostBridgeEnds`, `ShutdownEnds`, `FlushDrains`, `FollowUpEnds`, `Doomed`, `DeliveriesEnd`), which rests on fairness and ENABLED, out of this prover's reach, as are
induction over data and RECURSIVE operators (the models use none). What a filter or a recursive reading returns for every sequence is such an
induction, so where a proof needs it the models say the same in first-order terms: `MessageQueue` removes a
message, and `Webhooks` a row, by its position (`Without`, `Kept`), `AppendLog` finds the readable entries by their
places (`Readable`).

## 6. What the models say about the code

Where a comment promises more than the code keeps, the checked property states what it keeps.

* *Inbox.* "Idempotent on providerMessageId" (`inbox.ts:44`) holds when runs do not overlap (`SerialLoggedOnce`). There is no UNIQUE
  index, and up to four awaits lie between the check and the INSERT: a redelivery inside them is logged twice, an echo is logged beside the send's own
  row (`inbox.ts:326`). On two workers a card gets both lead tags (`inbox.ts:150`) and a new contact two cards (`inbox.ts:243`). A message whose contact, card or column is
  deleted meanwhile is refused by a foreign key after the webhook has acknowledged it, and nobody takes up the error; so is every message on a channel that creates cards and whose
  `inbox_column_id` names a deleted column of a board that is there: that id has no foreign key. With a deleted board `createCard` returns null and
  the message is logged without a card. "criar card LA" (`inbox.ts:205`) is kept only if the
  channel names its board too: otherwise `:231` overwrites the column, the card is created elsewhere, and the next message, which looks in the named column, opens another.
* *ColumnAgent.* "cliente em Atendimento Humano nunca pode receber msg automatica" (`columnAgentRunner.ts:67`): the column is checked
  before awaits of seconds and not again before the text is sent (`:450`), and notices are sent unchecked. On two workers the bounds on turns and contacts fail without their exception `~raced`: an upsert writes back counters it read
  before another worker counted (`cardAgentStateStore.ts:84`), or a client's turn resets the count of a fire that is about to be dispatched. The
  first messages of a card on two workers may both find no row; the second INSERT throws and its message gets no answer (`:139`). The inactivity run's kill switch reads
  the column of the state row, which a user's move does not touch (`columnAgentRunner.ts:531`). A client
  who answers between the timer's read and its dispatch is nudged (`inactivityScheduler.ts:123`). Promote,
  save, promote in one answer promotes twice (`tools/common.ts:517`). Postponing writes the role 'custom'
  (`inactivityScheduler.ts:156`).
* *Timers.* "Cada disparo usa cluster.setNxEx pra evitar duplicacao multi-worker" (`columnTimerScheduler.ts:21`): without Redis, whose client `ioredis` is not among the dependencies of
  `package.json`, each worker has its own keys (`clusterStore.ts:173`), and two ticks of a reload may both dispatch a step that both have found. A tag the database refuses
  is only logged (`tags.ts:83`), and the step goes out again when its key expires after two minutes. The route takes the delays in any order (`boards.ts:584`): with [120, 30] the second
  step is sent first; the farewell counts from the step listed last, so it may come before a longer one; and of two follow-up steps
  with equal hours, which share a tag, the second is never sent. The tag is set before a run that nobody awaits: a worker that dies in between has lost that text for good, which is the price of
  `OncePerStep`. The entry's tag is never read, so the entry fires again when its key expires after two
  minutes. With the configured delays entry and first follow-up fall into one tick. The tags of chase steps are shared by columns and never
  removed. The final delete asks neither for answers nor for the column, and deletes again what a user restores. No finder looks at `deleted_at`.
  Without a channel the key is used up and the step tried again. The safety net for unanswered messages is commented out (`columnTimerScheduler.ts:436`).
* *Webhooks.* "Failed deliveries retry up to 5 times" (`outboundWebhooks.ts:7`) is five attempts in all, and one more when the tick POSTs a
  row beside its first attempt, since a new row is due at once. A failure that ends after a success of the other attempt clears
  `succeeded_at`, and the delivery is sent again. Rows of hooks that are switched off stay due and first in the index: with fifty of them nothing is
  retried (`DeliveriesEnd` without its second condition is violated). A hook deleted by another worker during `emit` fails the foreign key, and the
  hooks after it get nothing. An exception of what runs before it in the same block skips the retries of that tick (`scheduler.ts:199`).
* *Bridge.* "Kill active sessions" (`bridgeMain.ts:120`) kills none: `for ... of` a Map yields pairs (`sessionRunner.ts:189`). "Max concurrent bridge sessions" (`cli.ts:155`) is compared
  with a count that grows only after an ack nobody waits for. Work queued for the environment before a crash is never fetched: the recovered id is only
  metadata (`cli.ts:510`, `CrashRecovery.ts:5`) and the server draws a new one. A child that fails to spawn keeps its slot
  (`sessionRunner.ts:111`). A lost poll response or a failed ack loses the item. `expiresAt` is not looked at.
* *Tenants.* Readers without the lock (`tenantStore.ts:114`) may find an empty store while a writer has truncated it. With `KilledInWrite = TRUE` a kill between truncation and filling ends in an empty store: the stale lock is cleaned,
  the next `mutateStore` parses nothing and writes that. `invoice.paid` reads
  the status before it takes the lock and may undo a cancellation (`stripeRoutes.ts:354`); events carry no version, so a late update
  after a deletion reactivates (`:315`); a handler that throws is answered 200 and not redelivered (`:388`). Signup's second
  write sets the Stripe ids to null over an upgrade that came in between (`authRoutes.ts:203`). A kill or a
  lock that is not free between `createTenant` and `updateTenant` leaves a tenant without a password
  (`stripeRoutes.ts:434`). A checkout provisioned on a torn read takes the create path, is refused as a duplicate, and is
  answered 200. A turn of a user's session has no `tenant` in its context, so `checkQuota` is skipped (`server/routes.ts:212`)
  and the counter may pass the limit that bounds the channels. A rotation on a torn read resets nobody although the month counts as rotated.
* *Engine.* Kill switch, exception and a consumer that stops leave tool calls without results, although the safety net's comment
  (`QueryEngine.ts:571`) says none is left. Overlapping submissions answer a call twice. A compaction replaces a history that has grown meanwhile. The fixed split, and notes
  between a call and its result, sever pairs. A submission that ends adds the engine's whole sum to the tracker's, which holds it already (`addCost` at `:297`, `recordTurn(this.instanceCostUsd)` at `:373`), so the budget ends early; `/clear`
  resets neither the blocked reads nor the engine's own sum; another submission's start forgets that tools were withheld.
* *Server.* A message to a session that exists is also refused by the session quota. A worker that dies leaves its sessions in Redis for ever. A session
  expires although a message runs on its engine; a deleted one comes back from its transcript; creating a known id replaces its engine by an empty
  one; a rehydration that fails is caught and the message goes on without history (`sessionPool.ts:467`). A rehydrated engine has no tier and a fresh budget.
  Transcripts hold no tool calls and no WhatsApp messages. A worker that could not reach Redis at first never tries again.
* *Transcript.* A call of `flush` behind another one may return before its entries are written (`Flushed` excepts it; `TranscriptInOrder` is of one writer, and two that were opened at once interleave). A timer that
  awaits a write on its way leaves what was queued meanwhile without a timer until the next append. A short write is not noticed. A torn last line swallows the next entry: `recoverCorruption` and
  rotation are never called. `flushSession` stops at the first writer that fails.
* *Mailbox.* A lock that is created and not yet filled looks stale, so that two operations may hold it although the comment promises mutual exclusion (`robbed`).
  An owner's release removes whatever lock is there. The command line's poller knows four types of messages and discards
  others, replies that somebody waits for among them. A death between truncating and filling loses the inbox.

Outside the models, read in the code: `bridgeRoutes.ts:49` keeps its Maps per worker although the README calls the session
pool the only such item; a quota check that throws lets the message through (`adapters/whatsappMeta.ts:750`); session events of a bridge are posted
without awaiting the one before (`sessionRunner.ts:238`); an automation's deduplication key is set before its rules run (`automations.ts:76`), and the month is marked
before its rotation (`crm/scheduler.ts:173`), so a failure in between is not repaired; `updateCard` reads a card and writes the
whole row back (`cardsStore.ts:109`), so that a worker in between loses its update, and `Inbox` takes the two
statements as one step; "Idempotent: re-running won't double-decrement" (`lineItems.ts:122`) holds in one process only, since
the stock is taken one statement before the item is marked.

## 7. Not modelled, and why

Within the modelled parts: boards, columns and cards that users or other parts of the CRM create (`Inbox` knows those a run creates and seeds), edits of what makes a column a lead's or terminal,
of a contact's phone and of a channel's settings during a run, LGPD's anonymizing, and the assignment that `createCard` starts beside itself; in `Tenants` the other fields an administrator's PATCH may
store (an email or a counter among them, with which an administrator may break what `OneTenant` and `CountExact` say), and other writers of the status (run-overdue-check, the administrator's suspension), which are like
Stripe's events; in `Timers` reads that fail (`cardHasTag` answers no, `loadFullCard` ends a dispatch after its key is taken), a failing
write of the final delete, keys that Redis loses, and changes of a column's delays while a card is in it; `ColumnAgent` takes its locks as
shared by the workers, as they are with Redis; webhook signatures, delivery statuses and stored media; totals of outbound webhooks; the quotation
forms; session events, permission answers and the heartbeat of the bridge; API keys, WhatsApp numbers, additional
logins, the Asaas handlers and the cost counter, which use the same `mutateStore`; the size limits and streaming of the engine's messages;
commands to Redis that fail after the first; LIMITs of the column timers' queries, which a single card does not meet; broadcasts of the mailbox. Late
handling by the server of a request the bridge has already retried is modelled only while the request lasts.

Not reached by the program, and therefore not modelled: `server/requestQueue.ts` and `redisSessionStore.ts`, the session lock file,
rotation and recovery of transcripts, the fallback model, SSE and hybrid transports of the bridge.

The map covers about one line in twenty of the repository. The rest is, by size, front end and video scenes, HTTP routes around single SQL
statements, prompts and parsers, and wrappers of external services: sequential code in which an
order of steps cannot go wrong, and which a model would only repeat. `PROJECT.json` lists each part with the reason.
