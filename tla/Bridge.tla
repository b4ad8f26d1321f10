------------------------------- MODULE Bridge -------------------------------
(***************************************************************************)
(* The standalone bridge (`clow bridge`): a process on a user's machine    *)
(* registers an environment with the server (bridgeRoutes.ts), polls it    *)
(* for work and runs every item in a child process (sessionRunner.ts).     *)
(*                                                                         *)
(* The bridge is one Node process with three fibers: start() and its poll  *)
(* loop ("main"), shutdown() ("down") and one handleWork per item taken    *)
(* ("acking"), which nobody awaits.  A step is the code between two        *)
(* awaits.  A request to the server is one step with its outcome, because  *)
(* nothing else reads what it changes in between; a response that is lost  *)
(* has changed the server all the same.  The heartbeat at capacity changes *)
(* nothing that any code reads and is left out.                            *)
(*                                                                         *)
(* The server is one worker: environments and queues are Maps of its       *)
(* process, gone when it restarts.                                         *)
(***************************************************************************)
EXTENDS Naturals, Sequences, FiniteSets

CONSTANTS Work,              \* workIds, one per POST /bridge/work
          Envs,              \* environment ids the server may draw
          NoEnv,
          Capacity,          \* config.capacity
          MaxRetries,        \* BridgeApiClient.maxRetries
          MaxStarts,         \* bound: starts of the bridge process
          MaxServerRestarts  \* bound: restarts of the server

ASSUME BridgeAssumption ==
  /\ NoEnv \notin Envs
  /\ Capacity \in Nat \ {0} /\ MaxRetries \in Nat
  /\ MaxStarts \in Nat /\ MaxServerRestarts \in Nat

VARIABLES
  registered, issued,  \* bridgeEnvironments; ids drawn so far
  pending,             \* bridgePendingWork
  posted,              \* items queued so far
  restarts,
  pointer,             \* bridge-pointer.json
  main, env, reuse,    \* start(): where it is, this.environment, existingEnvironmentId
  tries,               \* attempts of the request main waits for
  erring,              \* errStartedAt # 0
  down,                \* where shutdown() is; "no" while shuttingDown is false
  acking,              \* items in handleWork, before spawnForWork
  sessions,            \* SessionRunner.sessions
  child,               \* the child process of an item
  starts

server == <<registered, issued, pending, posted, restarts>>
life   == <<pointer, env, reuse, starts>>
work   == <<acking, sessions, child>>
vars   == <<server, life, main, tries, erring, down, work>>

Children == {"none", "running", "failed", "orphaned", "exited"}

Init ==
  /\ registered = {} /\ issued = {} /\ posted = {} /\ restarts = 0
  /\ pending = [e \in Envs |-> <<>>]
  /\ pointer = NoEnv /\ env = NoEnv /\ reuse = NoEnv /\ starts = 0
  /\ main = "off" /\ tries = 0 /\ erring = FALSE /\ down = "no"
  /\ acking = {} /\ sessions = {} /\ child = [w \in Work |-> "none"]

Polling == main \in {"idle", "polling"}

-----------------------------------------------------------------------------
(* The server. *)

\* POST /bridge/work: the item joins the queue of a known environment.
PostWork(e, w) ==
  /\ e \in registered /\ w \notin posted
  /\ posted' = posted \cup {w}
  /\ pending' = [pending EXCEPT ![e] = Append(@, w)]
  /\ UNCHANGED <<registered, issued, restarts, life, main, tries, erring, down, work>>

\* POST /environments: always a new id.
DrawId(e) ==
  /\ e \in Envs \ issued
  /\ registered' = registered \cup {e} /\ issued' = issued \cup {e}

\* GET /environments/:id/work takes the first item off the queue.
HasWork == env \in registered /\ pending[env] # <<>>
\* Mutant: the item is read but stays in the queue.
ShiftPeeks == UNCHANGED pending

Shift == pending' = [pending EXCEPT ![env] = Tail(@)]

\* The Maps die with the process.
ServerRestart ==
  /\ restarts < MaxServerRestarts /\ restarts' = restarts + 1
  /\ registered' = {} /\ pending' = [e \in Envs |-> <<>>]
  /\ UNCHANGED <<issued, posted, life, main, tries, erring, down, work>>

-----------------------------------------------------------------------------
(* Start of the bridge. *)

\* attemptRecovery: without a usable pointer nothing is reused; a stale one
\* is cleared, one whose pid is alive is kept but not used.
StartBridge ==
  /\ main = "off" /\ starts < MaxStarts /\ starts' = starts + 1
  /\ \/ pointer' = NoEnv /\ reuse' = NoEnv
     \/ pointer' = pointer /\ reuse' \in {NoEnv, pointer}
  /\ main' = "registering" /\ tries' = 0
  /\ UNCHANGED <<server, env, erring, down, work>>

Register(e) ==
  /\ main = "registering" /\ DrawId(e)
  /\ env' = e /\ main' = "saving" /\ tries' = 0 /\ reuse' = NoEnv
  /\ UNCHANGED <<pending, posted, restarts, pointer, starts, erring, down, work>>

\* The request did not reach the server, or its response did not come back.
RegisterLost ==
  /\ main = "registering"
  /\ UNCHANGED <<registered, issued>> \/ \E e \in Envs : DrawId(e)
  /\ \/ tries < MaxRetries /\ tries' = tries + 1 /\ UNCHANGED <<main, reuse>>
     \/ tries = MaxRetries /\ reuse # NoEnv  \* reuse failed: try a fresh registration
        /\ tries' = 0 /\ reuse' = NoEnv /\ UNCHANGED main
     \/ tries = MaxRetries /\ reuse = NoEnv  \* start() rejects
        /\ tries' = 0 /\ main' = "off" /\ UNCHANGED reuse
  /\ UNCHANGED <<pending, posted, restarts, pointer, env, starts, erring, down, work>>

\* saveState, then the signal handlers, then the loop.
SavePointer ==
  /\ main = "saving" /\ pointer' = env /\ main' = "idle"
  /\ UNCHANGED <<server, env, reuse, starts, tries, erring, down, work>>

-----------------------------------------------------------------------------
(* The poll loop. *)

ActiveCount == Cardinality(sessions)   \* getActiveCount

AskWork ==
  /\ main = "idle" /\ down = "no" /\ ActiveCount < Capacity
  /\ main' = "polling" /\ tries' = 0
  /\ UNCHANGED <<server, life, erring, down, work>>

LoopEnds ==
  /\ main = "idle" /\ down # "no" /\ main' = "ended"
  /\ UNCHANGED <<server, life, tries, erring, down, work>>

\* handleWork runs to its ack and is left to itself.
TakeWork ==
  /\ main = "polling" /\ HasWork /\ Shift
  /\ acking' = acking \cup {Head(pending[env])}
  /\ main' = "idle" /\ erring' = FALSE
  /\ UNCHANGED <<registered, issued, posted, restarts, life, tries, down, sessions, child>>

NoWork ==
  /\ main = "polling" /\ env \in registered /\ pending[env] = <<>>
  /\ main' = "idle" /\ erring' = FALSE
  /\ UNCHANGED <<server, life, tries, down, work>>

\* The attempt fails: the server never saw it, or took an item off for nobody.
AttemptLost == UNCHANGED pending \/ (HasWork /\ Shift)

PollRetry ==
  /\ main = "polling" /\ tries < MaxRetries /\ AttemptLost /\ tries' = tries + 1
  /\ UNCHANGED <<registered, issued, posted, restarts, life, main, erring, down, work>>

\* pollForWork throws: retries used up, or a 4xx (404 for an environment the
\* server does not know) or a body that is no JSON, which are not retried.
PollThrows ==
  /\ main = "polling" /\ AttemptLost /\ erring' = TRUE
  /\ UNCHANGED <<registered, issued, posted, restarts, life, tries, acking>>

PollFails == PollThrows /\ main' = "idle" /\ UNCHANGED <<down, sessions, child>>

\* shutdown() up to its first wait for the outside.  getActiveSessions() is
\* the Map of sessions, so each turn of "for (const session of active)" sees
\* a pair [workId, session], whose .workId is undefined: killSession finds no
\* session and returns.  A second call returns at once.
BeginShutdown ==
  /\ down' = IF down = "no" THEN "deregistering" ELSE down
  /\ UNCHANGED <<sessions, child>>

\* Mutant: errors never add up to giving up.
GiveUpNever == PollThrows /\ erring /\ main' = "idle" /\ UNCHANGED <<down, sessions, child>>

\* Errors and nothing else for giveUpMs.
GiveUp == PollThrows /\ erring /\ main' = "ended" /\ BeginShutdown

-----------------------------------------------------------------------------
(* handleWork and the child processes. *)

\* Any failure of the ack rejects handleWork, which is only logged.
AckFails(w) ==
  /\ w \in acking /\ acking' = acking \ {w}
  /\ UNCHANGED <<server, life, main, tries, erring, down, sessions, child>>

\* Mutant: the item stays with handleWork.
AckedStays(w) ==
  /\ w \in acking /\ env \in registered /\ UNCHANGED acking
  /\ UNCHANGED <<server, life, main, tries, erring, down>>

\* The server knows the environment; spawnForWork follows in the same step.
Acked(w) ==
  /\ w \in acking /\ env \in registered /\ acking' = acking \ {w}
  /\ UNCHANGED <<server, life, main, tries, erring, down>>

\* Mutant: the session is entered before the process is created.
SpawnThrowsLate(w) == Acked(w) /\ sessions' = sessions \cup {w} /\ UNCHANGED child

\* mkdirSync or spawn throws before the session is entered.
SpawnThrows(w) == Acked(w) /\ UNCHANGED <<sessions, child>>

\* 'error' instead of 'spawn': no 'exit' follows, the entry stays.
SpawnError(w) ==
  /\ Acked(w) /\ sessions' = sessions \cup {w}
  /\ child' = [child EXCEPT ![w] = "failed"]

Spawn(w) ==
  /\ Acked(w) /\ sessions' = sessions \cup {w}
  /\ child' = [child EXCEPT ![w] = "running"]

\* Mutant: the slot is not given back.
ChildExitKeeps(w) ==
  /\ child[w] = "running" /\ child' = [child EXCEPT ![w] = "exited"]
  /\ UNCHANGED <<server, life, main, tries, erring, down, acking, sessions>>

ChildExit(w) ==
  /\ child[w] = "running"
  /\ child' = [child EXCEPT ![w] = "exited"] /\ sessions' = sessions \ {w}
  /\ UNCHANGED <<server, life, main, tries, erring, down, acking>>

OrphanExit(w) ==
  /\ child[w] = "orphaned" /\ child' = [child EXCEPT ![w] = "exited"]
  /\ UNCHANGED <<server, life, main, tries, erring, down, acking, sessions>>

-----------------------------------------------------------------------------
(* Shutdown and crash. *)

\* SIGINT or SIGTERM, once the handlers are installed.
Signal ==
  /\ Polling /\ down = "no" /\ BeginShutdown
  /\ UNCHANGED <<server, life, main, tries, erring, acking>>

\* Mutant: a refused DELETE is not caught, shutdown() goes no further.
DeregisterThrows ==
  /\ down = "deregistering" /\ env \in registered /\ down' = "clearing"
  /\ registered' \in {registered, registered \ {env}}
  /\ UNCHANGED <<issued, pending, posted, restarts, life, main, tries, erring, work>>

\* DELETE /environments/:id leaves the queue; a failure is swallowed.
Deregister ==
  /\ down = "deregistering" /\ down' = "clearing"
  /\ registered' \in {registered, registered \ {env}}
  /\ UNCHANGED <<issued, pending, posted, restarts, life, main, tries, erring, work>>

\* The process ends; its children do not, and no child is left of a failed spawn.
ProcessEnds ==
  /\ main' = "off" /\ env' = NoEnv /\ reuse' = NoEnv /\ tries' = 0 /\ erring' = FALSE /\ down' = "no"
  /\ acking' = {} /\ sessions' = {}
  /\ child' = [w \in Work |-> CASE child[w] = "running" -> "orphaned"
                              [] child[w] = "failed"  -> "none"
                              [] OTHER                -> child[w]]
  /\ UNCHANGED <<server, starts>>

Exit == down = "clearing" /\ pointer' = NoEnv /\ ProcessEnds

Crash == main # "off" /\ UNCHANGED pointer /\ ProcessEnds

-----------------------------------------------------------------------------
LoopStep == AskWork \/ LoopEnds \/ TakeWork \/ NoWork \/ PollRetry \/ PollFails \/ GiveUp
ItemStep(w) == AckFails(w) \/ SpawnThrows(w) \/ SpawnError(w) \/ Spawn(w) \/ ChildExit(w)
DownStep == Deregister \/ Exit

Next ==
  \/ \E e \in Envs, w \in Work : PostWork(e, w)
  \/ ServerRestart \/ StartBridge \/ (\E e \in Envs : Register(e)) \/ RegisterLost \/ SavePointer
  \/ LoopStep \/ DownStep \/ Signal \/ Crash
  \/ \E w \in Work : ItemStep(w) \/ OrphanExit(w)

Spec == Init /\ [][Next]_vars

(* Timers fire and promises settle, so the loop, the handlers and shutdown  *)
(* take their steps; children end.  A server that answers now and then is   *)
(* strong fairness of TakeWork; errors that last outlive giveUpMs.          *)
Fairness ==
  /\ WF_vars(LoopStep) /\ SF_vars(TakeWork) /\ SF_vars(GiveUp) /\ WF_vars(DownStep)
  /\ \A w \in Work : WF_vars(ItemStep(w))

FairSpec == Spec /\ Fairness

-----------------------------------------------------------------------------
(* Properties. *)

TypeOK ==
  /\ registered \subseteq issued /\ issued \subseteq Envs
  /\ pending \in [Envs -> Seq(Work)]
  /\ posted \subseteq Work /\ restarts \in 0..MaxServerRestarts
  /\ pointer \in Envs \cup {NoEnv} /\ env \in Envs \cup {NoEnv}
  /\ reuse \in Envs \cup {NoEnv} /\ starts \in 0..MaxStarts
  /\ main \in {"off", "registering", "saving", "idle", "polling", "ended"}
  /\ tries \in 0..MaxRetries /\ erring \in BOOLEAN
  /\ down \in {"no", "deregistering", "clearing"}
  /\ acking \subseteq Work /\ sessions \subseteq Work
  /\ child \in [Work -> Children]

Queued(w) == \E e \in Envs : \E i \in DOMAIN pending[e] : pending[e][i] = w

\* The state of an item as BridgeWork tells it.
ItemState(w) ==
  IF child[w] \in {"running", "orphaned"} THEN "running"
  ELSE IF child[w] = "exited" THEN "ended"
  ELSE IF w \in acking THEN "taken"
  ELSE IF Queued(w) THEN "waiting"
  ELSE IF w \in posted THEN "lost" ELSE "new"

Promise == INSTANCE BridgeWork WITH state <- [w \in Work |-> ItemState(w)]

(* Handed out at most once: through lost responses, failed acks, crashes   *)
(* and restarts of either side an item goes one way (the shift of GET work *)
(* before its answer is known to have arrived).                            *)
KeepsPromise == Promise!Spec

(* An item is in one place: once in one queue, or with handleWork, or with *)
(* its child.                                                              *)
OnePlace ==
  /\ \A e1, e2 \in Envs : \A i1 \in DOMAIN pending[e1], i2 \in DOMAIN pending[e2] :
        pending[e1][i1] = pending[e2][i2] => e1 = e2 /\ i1 = i2
  /\ \A w \in Work :
        /\ ~(Queued(w) /\ w \in acking)
        /\ child[w] # "none" => ~Queued(w) /\ w \notin acking

(* The runner's Map, which the capacity check counts, holds exactly the    *)
(* children that run and those that failed to spawn.                       *)
SlotsCounted == sessions = {w \in Work : child[w] \in {"running", "failed"}}

\* Slots that failed spawns hold until the process ends.
SlotsGone == Cardinality({w \in sessions : child[w] = "failed"}) >= Capacity

Waits(e, w) == \E i \in DOMAIN pending[e] : pending[e][i] = w

(* An item that waits for a bridge that polls is taken off the queue,      *)
(* unless the bridge goes away or failed spawns have used up its capacity: *)
(* handleChildExit must give back the slot.                                *)
WorkIsFetched ==
  \A e \in Envs, w \in Work :
    (Polling /\ env = e /\ Waits(e, w))
      ~> (~Waits(e, w) \/ ~Polling \/ down # "no" \/ SlotsGone)

(* A bridge whose environment the server has forgotten does not poll for   *)
(* ever: the errors make it give up and shut down (pollLoop's catch).      *)
LostBridgeEnds ==
  (Polling /\ env \notin registered) ~> (main = "off" \/ SlotsGone)

(* A shutdown, once begun, ends the process whatever the server answers.   *)
ShutdownEnds == (down # "no") ~> (main = "off")
=============================================================================
