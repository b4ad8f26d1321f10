------------------------------ MODULE Webhooks ------------------------------
(* Outbound webhooks of the CRM (crm/outboundWebhooks.ts): an event makes a   *)
(* row for every hook that is subscribed to it, the row is POSTed at once by  *)
(* the worker that emitted the event, and the tick of the scheduler's worker  *)
(* POSTs what is due until the receiver has answered or the attempts are      *)
(* used up.  Nothing keeps the two from working on one row.                   *)
(*                                                                            *)
(* A delivery is an event and a hook.  An attempt reads its row, awaits the   *)
(* receiver for ten seconds at most, and writes the row from what it read.    *)
(* (No name is one of Timers, so that the proofs about both, which the tick   *)
(* runs one after the other, can stand in one module.)                        *)
EXTENDS Naturals, Sequences, SequencesExt, FiniteSets

CONSTANTS
  Events, Hooks,
  Subscribed,   \* which hooks want which events
  Processes,
  Scheduler,    \* the worker that ticks (isSchedulerWorker), one tick at a time
  Nothing,
  MaxAttempts,  \* attempts after which a delivery is given up
  Limit,        \* LIMIT of tickRetries
  MaxEdits,     \* bound: changes of hooks by users
  MaxCrashes    \* bound: workers that die

Deliveries == Subscribed

ASSUME WebhooksAssumption ==
  /\ Subscribed \subseteq Events \X Hooks
  /\ Scheduler \in Processes /\ Scheduler \notin Deliveries
  /\ Nothing \notin Deliveries \cup Processes
  /\ MaxAttempts \in Nat \ {0} /\ Limit \in Nat \ {0} /\ MaxEdits \in Nat /\ MaxCrashes \in Nat

\* An attempt is made by the emit of its delivery, or by the tick.
Runners == Deliveries \cup {Scheduler}

VARIABLES
  enabled, removed,  \* crm_outbound_webhooks
  row,        \* of each delivery: none, open (it has a next_retry_at), over, or gone
  count,      \* attempt_count
  succeeded,  \* succeeded_at
  due,        \* open rows whose next_retry_at is past, in its order
  on,         \* the worker that emits each event
  todo,       \* hooks an emit has selected and not come to
  job,        \* the delivery each runner is attempting
  read,       \* the attempt_count it has read
  took,       \* runners whose POST the receiver has handled
  list,       \* what the tick has selected and not come to
  taken,      \* history: deliveries the receiver has handled
  repeated,   \* history: deliveries it has handled again
  unsure,     \* history: deliveries it has handled in an attempt that failed or died
  raced,      \* history: deliveries attempted by two at once, or from a stale selection
  ended,      \* history: attempts of each delivery that have ended
  edits, crashes

hooks == <<enabled, removed>>
rows == <<row, count, succeeded, due>>
emits == <<on, todo>>
attempts == <<job, read, took>>
past == <<taken, repeated, unsure, raced, ended, edits, crashes>>
webhookVars == <<hooks, rows, emits, attempts, list, past>>

HookOf(d) == d[2]
Posts(h) == h \in enabled \ removed
InFlight(d) == \E x \in Runners : job[x] = d
WorkerOf(x) == IF x = Scheduler THEN x ELSE on[x[1]]
\* emit awaits nothing: its worker does nothing else until it has come to all hooks.
Busy(w) == \E e \in Events : on[e] = w /\ todo[e] # {}

WebhooksInit ==
  /\ enabled = Hooks /\ removed = {}
  /\ row = [d \in Deliveries |-> "none"]
  /\ count = [d \in Deliveries |-> 0]
  /\ succeeded = {} /\ due = <<>>
  /\ on = [e \in Events |-> Nothing]
  /\ todo = [e \in Events |-> {}]
  /\ job = [x \in Runners |-> Nothing]
  /\ read = [x \in Runners |-> 0]
  /\ took = {} /\ list = <<>>
  /\ taken = {} /\ repeated = {} /\ unsure = {} /\ raced = {}
  /\ ended = [d \in Deliveries |-> 0]
  /\ edits = 0 /\ crashes = 0

\* The positions of q, in their order, whose delivery is not in S.
Kept(q, S) ==
  LET places == {i \in DOMAIN q : q[i] \notin S}
  IN {at \in [1..Cardinality(places) -> places] :
        \A i, j \in DOMAIN at : i < j => at[i] < at[j]}
\* The rows S are due no longer.
NotDue(S) == \E at \in Kept(due, S) : due' = [i \in DOMAIN at |-> due[at[i]]]

-----------------------------------------------------------------------------
(* emit *)

Emit(e, w) ==
  /\ on[e] = Nothing /\ ~Busy(w)
  /\ on' = [on EXCEPT ![e] = w]
  /\ todo' = [todo EXCEPT ![e] = {h \in Hooks : <<e, h>> \in Subscribed /\ Posts(h)}]
  /\ UNCHANGED <<hooks, rows, attempts, list, past>>

\* attemptDelivery, up to the POST: it looks at the row and its hook, not whether it is due.
StartAttempt(x, d, n) ==
  /\ job' = [job EXCEPT ![x] = d]
  /\ read' = [read EXCEPT ![x] = n]

\* A row that is due at once, and its first attempt.
Insert(e, h) ==
  LET d == <<e, h>>
  IN /\ h \in todo[e] /\ h \notin removed
     /\ todo' = [todo EXCEPT ![e] = @ \ {h}]
     /\ row' = [row EXCEPT ![d] = "open"]
     /\ due' = Append(due, d)
     /\ IF Posts(h) THEN StartAttempt(d, d, 0) ELSE UNCHANGED <<job, read>>
     /\ UNCHANGED <<hooks, count, succeeded, on, took, list, past>>

\* The hook was deleted by another worker: the foreign key fails, and emit with it.
InsertFails(e, h) ==
  /\ h \in todo[e] /\ h \in removed
  /\ todo' = [todo EXCEPT ![e] = {}]
  /\ UNCHANGED <<hooks, rows, on, attempts, list, past>>

-----------------------------------------------------------------------------
(* tickRetries *)

\* Mutant: rows that have one attempt left are not selected (attempt_count < 4).
SelectOneLess ==
  LET left == SelectSeq(due, LAMBDA d : count[d] + 1 < MaxAttempts)
  IN /\ list = <<>> /\ job[Scheduler] = Nothing /\ left # <<>> /\ ~Busy(Scheduler)
     /\ list' = SubSeq(left, 1, IF Len(left) < Limit THEN Len(left) ELSE Limit)
     /\ UNCHANGED <<hooks, rows, emits, attempts, past>>
\* What is due, the oldest first, up to the limit.
Select ==
  /\ list = <<>> /\ job[Scheduler] = Nothing /\ due # <<>> /\ ~Busy(Scheduler)
  /\ list' = SubSeq(due, 1, IF Len(due) < Limit THEN Len(due) ELSE Limit)
  /\ UNCHANGED <<hooks, rows, emits, attempts, past>>

\* The tick comes to the next row, which others may have attempted since: it is passed over
\* only if it is gone or its hook does not post.
Retry ==
  LET d == Head(list)
  IN /\ list # <<>> /\ job[Scheduler] = Nothing /\ ~Busy(Scheduler)
     /\ list' = Tail(list)
     /\ IF row[d] # "gone" /\ Posts(HookOf(d))
        THEN /\ StartAttempt(Scheduler, d, count[d])
             /\ raced' = IF InFlight(d) \/ d \notin ToSet(due) THEN raced \cup {d} ELSE raced
        ELSE UNCHANGED <<job, read, raced>>
     /\ UNCHANGED <<hooks, rows, emits, took, taken, repeated, unsure, ended, edits, crashes>>

\* Thirty seconds or more have passed since the last attempt was written, longer than an
\* attempt may take.
BackoffPasses(d) ==
  /\ row[d] = "open" /\ d \notin ToSet(due) /\ ~InFlight(d)
  /\ due' = Append(due, d)
  /\ UNCHANGED <<hooks, row, count, succeeded, emits, attempts, list, past>>

-----------------------------------------------------------------------------
(* The POST, and what is written of it *)

\* The receiver handles the request; its answer is still on the way.
Handled(x) ==
  /\ job[x] # Nothing /\ x \notin took
  /\ took' = took \cup {x}
  /\ taken' = taken \cup {job[x]}
  /\ repeated' = IF job[x] \in taken THEN repeated \cup {job[x]} ELSE repeated
  /\ UNCHANGED <<hooks, rows, emits, job, read, list, unsure, raced, ended, edits, crashes>>

Free(x) ==
  /\ job' = [job EXCEPT ![x] = Nothing] /\ read' = [read EXCEPT ![x] = 0]
  /\ took' = took \ {x}

\* The UPDATE of the row, over whatever another attempt has written.
\* Mutant: the row of a success keeps its next_retry_at and gets no succeeded_at.
WriteNoSuccess(d, n, ok) ==
  IF row[d] = "gone" THEN UNCHANGED rows
  ELSE /\ count' = [count EXCEPT ![d] = n]
       /\ row' = [row EXCEPT ![d] = IF n >= MaxAttempts THEN "over" ELSE "open"]
       /\ succeeded' = succeeded \ {d}
       /\ NotDue({d})
\* Mutant: the number of attempts is written as it was read.
WriteUncounted(d, n, ok) ==
  IF row[d] = "gone" THEN UNCHANGED rows
  ELSE /\ count' = [count EXCEPT ![d] = n - 1]
       /\ row' = [row EXCEPT ![d] = IF ok \/ n >= MaxAttempts THEN "over" ELSE "open"]
       /\ succeeded' = IF ok THEN succeeded \cup {d} ELSE succeeded \ {d}
       /\ NotDue({d})
Write(d, n, ok) ==
  IF row[d] = "gone" THEN UNCHANGED rows
  ELSE /\ count' = [count EXCEPT ![d] = n]
       /\ row' = [row EXCEPT ![d] = IF ok \/ n >= MaxAttempts THEN "over" ELSE "open"]
       /\ succeeded' = IF ok THEN succeeded \cup {d} ELSE succeeded \ {d}
       /\ NotDue({d})

\* An answer with a status of 2xx, or another status, an error or a timeout, after which
\* nobody knows whether the receiver has handled the request, or will: one that it handles
\* after the timeout counts as handled before.
Ends(x, ok) ==
  LET d == job[x]
  IN /\ d # Nothing /\ (ok => x \in took) /\ ~Busy(WorkerOf(x))
     /\ Write(d, read[x] + 1, ok)
     /\ Free(x)
     /\ unsure' = IF ~ok /\ x \in took THEN unsure \cup {d} ELSE unsure
     /\ ended' = [ended EXCEPT ![d] = @ + 1]
     /\ UNCHANGED <<hooks, emits, list, taken, repeated, raced, edits, crashes>>

-----------------------------------------------------------------------------
(* Users, and workers that die *)

Toggle(h) ==
  /\ edits < MaxEdits /\ h \notin removed
  /\ edits' = edits + 1
  /\ enabled' = IF h \in enabled THEN enabled \ {h} ELSE enabled \cup {h}
  /\ UNCHANGED <<removed, rows, emits, attempts, list, taken, repeated, unsure, raced, ended, crashes>>

\* The rows go with the hook (ON DELETE CASCADE).
Delete(h) ==
  /\ edits < MaxEdits /\ h \notin removed
  /\ edits' = edits + 1
  /\ removed' = removed \cup {h}
  /\ row' = [d \in Deliveries |-> IF HookOf(d) = h /\ row[d] # "none" THEN "gone" ELSE row[d]]
  /\ NotDue({d \in Deliveries : HookOf(d) = h})
  /\ UNCHANGED <<enabled, count, succeeded, emits, attempts, list, taken, repeated, unsure,
                 raced, ended, crashes>>

\* A worker is gone with its emits, its attempts and its tick; the rows stay.
Dies(w) ==
  LET mine == {x \in Runners : WorkerOf(x) = w}
  IN /\ crashes < MaxCrashes
     /\ crashes' = crashes + 1
     /\ todo' = [e \in Events |-> IF on[e] = w THEN {} ELSE todo[e]]
     /\ job' = [x \in Runners |-> IF x \in mine THEN Nothing ELSE job[x]]
     /\ read' = [x \in Runners |-> IF x \in mine THEN 0 ELSE read[x]]
     /\ took' = took \ mine
     /\ unsure' = unsure \cup {job[x] : x \in took \cap mine}
     /\ list' = IF w = Scheduler THEN <<>> ELSE list
     /\ UNCHANGED <<hooks, rows, on, taken, repeated, raced, ended, edits>>

Attempt(x) == Handled(x) \/ \E ok \in BOOLEAN : Ends(x, ok)

WebhooksNext ==
  \/ \E e \in Events : \/ \E w \in Processes : Emit(e, w)
                       \/ \E h \in Hooks : Insert(e, h) \/ InsertFails(e, h)
  \/ Select \/ Retry
  \/ \E d \in Deliveries : BackoffPasses(d)
  \/ \E x \in Runners : Attempt(x)
  \/ \E h \in Hooks : Toggle(h) \/ Delete(h)
  \/ \E w \in Processes : Dies(w)

WebhooksSpec == WebhooksInit /\ [][WebhooksNext]_webhookVars

\* emit runs to its end, the scheduler ticks (what it runs before tickRetries returns),
\* requests time out, clocks advance.  An attempt's end does not depend on the receiver.
WebhooksFairness ==
  /\ \A e \in Events : WF_webhookVars(\E h \in Hooks : Insert(e, h) \/ InsertFails(e, h))
  /\ WF_webhookVars(Select) /\ WF_webhookVars(Retry)
  /\ \A d \in Deliveries : WF_webhookVars(BackoffPasses(d))
  /\ \A x \in Runners : WF_webhookVars(Ends(x, TRUE) \/ Ends(x, FALSE))

WebhooksFairSpec == WebhooksSpec /\ WebhooksFairness

-----------------------------------------------------------------------------
\* The rows, the emits, the attempts and the tick.
WebhooksTypeOK ==
  /\ enabled \subseteq Hooks /\ removed \subseteq Hooks
  /\ row \in [Deliveries -> {"none", "open", "over", "gone"}]
  /\ count \in [Deliveries -> Nat]
  /\ succeeded \subseteq Deliveries /\ due \in Seq(Deliveries)
  /\ on \in [Events -> Processes \cup {Nothing}] /\ todo \in [Events -> SUBSET Hooks]
  /\ job \in [Runners -> Deliveries \cup {Nothing}] /\ read \in [Runners -> Nat]
  /\ took \subseteq Runners /\ list \in Seq(Deliveries)
  /\ taken \subseteq Deliveries /\ repeated \subseteq Deliveries
  /\ unsure \subseteq Deliveries /\ raced \subseteq Deliveries
  /\ ended \in [Deliveries -> Nat] /\ edits \in Nat /\ crashes \in Nat

\* The receiver handles a delivery a second time only if an attempt it had handled failed or
\* died before its answer was written, or the tick took the row up from under another attempt.
RepeatsExplained == repeated \subseteq raced \cup unsure

\* A delivery is given up after as many failures as the limit says, never before; and the
\* attempt that the tick makes beside the first one is the only one more that it may get.
AttemptsBounded ==
  \A d \in Deliveries :
    /\ row[d] = "over" /\ d \notin succeeded => ended[d] >= MaxAttempts
    /\ ended[d] <= MaxAttempts + (IF d \in raced THEN 1 ELSE 0)

\* Rows that stay due because their hook does not post.
Idle == {d \in ToSet(due) : ~Posts(HookOf(d))}

\* What is due is delivered or given up in the end, as long as its hook posts and the rows of
\* hooks that do not leave room in the selection: those come first, and for ever.
DeliveriesEnd ==
  \A d \in Deliveries :
    <>[](Posts(HookOf(d)) /\ Cardinality(Idle) < Limit) =>
      (row[d] = "open" ~> row[d] = "over")
=============================================================================
