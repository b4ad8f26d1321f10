------------------------------- MODULE Server -------------------------------
(* The session pools of one tenant (server/sessionPool.ts) and the requests   *)
(* that use them (server/routes.ts).  Every worker keeps the engines of its   *)
(* own sessions, with a time to live; what outlives a worker is the           *)
(* transcript of a session on disk, from which any worker makes an engine     *)
(* again, and the set of active sessions that the quota counts: in Redis, or  *)
(* in the worker's own memory if Redis did not answer at its first use        *)
(* (utils/clusterStore.ts).                                                   *)
(*                                                                            *)
(* Nobody awaits the commands that register and unregister a session: they    *)
(* go down the worker's connection in the order they were given.  An engine   *)
(* is named by the request that created it; its history is the set of         *)
(* messages it has answered or read from the transcript.  The queue of the    *)
(* transcript's writer is one set here, and its flush one step: Transcript is *)
(* the module about the writer.                                               *)
EXTENDS Naturals, Sequences, FiniteSets

CONSTANTS
  Workers, Sessions, Requests,
  Redis,          \* the store the workers share
  None,           \* no engine, no session, no request
  Route,          \* the workers to which the load balancer may send each session's requests
  MaxSessions,    \* tenant.max_concurrent_sessions
  MaxStops,     \* bound: workers that exit or are killed
  MaxWire         \* bound: commands on their way from a worker

ASSUME ServerAssumption ==
  /\ Redis \notin Workers /\ None \notin Requests \cup Sessions
  /\ IsFiniteSet(Sessions) /\ Route \in [Sessions -> SUBSET Workers]
  /\ MaxSessions \in Nat /\ MaxStops \in Nat /\ MaxWire \in Nat

Stores == Workers \cup {Redis}

VARIABLES
  held,      \* SessionPool.engines of each worker
  known,     \* the history of the engine each request created
  closing,   \* the workers that have shut their pool down
  own,       \* the workers whose cluster store is their own memory
  active,    \* tenant:active-sessions in each store
  wire,      \* commands on their way to the store
  disk,      \* messages in the transcript of each session
  queued,    \* messages in the queue of each worker's transcript writers
  pc, kind, ses, on, \* of each request: where it is, what it is, its session and worker
  eng,       \* the engine it works with
  copy,      \* the transcript it has loaded
  lost,      \* history: sessions a worker died with
  disturbed, \* history: sessions of which two requests overlapped, that were created again, or
             \* whose transcript could not be read
  unguarded, \* history: sessions of each store last opened without the quota, or beside another one
  stops

pool == <<held, known, closing>>
store == <<own, active, wire>>
transcript == <<disk, queued>>
request == <<kind, ses, on>>
past == <<lost, disturbed, unguarded, stops>>
vars == <<pool, store, transcript, pc, request, eng, copy, past>>

\* count: sCard; ses is the session for sAdd and sRem, by the request that awaits the answer.
Commands == [op : {"add", "rem", "count"}, ses : Sessions, by : Requests \cup {None}]
Command(o, s, r) == [op |-> o, ses |-> s, by |-> r]

StoreOf(w) == IF own[w] THEN w ELSE Redis

Kinds == {"create", "message", "read"}
Waiting == {"counting", "get", "loading", "rehydrating", "creating", "run", "flush"}
Over == {"ended", "refused", "died"}

Init ==
  /\ held = [w \in Workers |-> [s \in Sessions |-> None]]
  /\ known = [r \in Requests |-> {}]
  /\ closing = {}
  /\ own \in [Workers -> BOOLEAN]
  /\ active = [x \in Stores |-> {}]
  /\ wire = [w \in Workers |-> <<>>]
  /\ disk = [s \in Sessions |-> {}]
  /\ queued = [w \in Workers |-> [s \in Sessions |-> {}]]
  /\ pc = [r \in Requests |-> "new"]
  /\ kind = [r \in Requests |-> "read"]
  /\ ses = [r \in Requests |-> None]
  /\ on = [r \in Requests |-> None]
  /\ eng = [r \in Requests |-> None]
  /\ copy = [r \in Requests |-> {}]
  /\ lost = {} /\ disturbed = {} /\ unguarded = [x \in Stores |-> {}] /\ stops = 0

Goto(r, l) == pc' = [pc EXCEPT ![r] = l]
Send(w, c) == Len(wire[w]) < MaxWire /\ wire' = [wire EXCEPT ![w] = Append(@, c)]

-----------------------------------------------------------------------------
(* Requests *)

\* Where a request goes when the quota lets it through.
Admitted(k) == IF k = "create" THEN "creating" ELSE "get"

\* A request reaches a worker.  A client with an API key is checked against the quota when it
\* creates a session and at each message; a user's session is not, nor is a read.  The id of
\* a new session may be one that the client has chosen and used before.
Arrive(r, k, s, w) ==
  /\ pc[r] = "new" /\ w \in Route[s]
  /\ kind' = [kind EXCEPT ![r] = k] /\ ses' = [ses EXCEPT ![r] = s] /\ on' = [on EXCEPT ![r] = w]
  /\ disturbed' = IF \E t \in Requests : ses[t] = s /\ (k = "create" \/ pc[t] \in Waiting)
                  THEN disturbed \cup {s} ELSE disturbed
  /\ \/ k # "read" /\ Goto(r, "counting") /\ Send(w, Command("count", s, r)) /\ UNCHANGED unguarded
     \/ Goto(r, Admitted(k)) /\ UNCHANGED wire
        /\ unguarded' = [unguarded EXCEPT ![StoreOf(w)] = @ \cup {s}]
  /\ UNCHANGED <<pool, own, active, transcript, eng, copy, lost, stops>>

\* What a request does with the engine it was given.
AfterGet(k) == IF k = "message" THEN "run" ELSE IF k = "read" THEN "ended" ELSE "flush"
Use(r, e) == eng' = [eng EXCEPT ![r] = IF kind[r] = "message" THEN e ELSE None]

\* pool.get: an engine of this worker, or the transcript is read.
Get(r) ==
  /\ pc[r] = "get"
  /\ LET e == held[on[r]][ses[r]]
     IN IF e = None THEN Goto(r, "loading") /\ UNCHANGED eng
        ELSE Goto(r, AfterGet(kind[r])) /\ Use(r, e)
  /\ UNCHANGED <<pool, store, transcript, request, copy, past>>

\* tryRehydrate has the entries of the transcript; the engine is made after further awaits.
Loaded(r) ==
  /\ pc[r] = "loading"
  /\ Goto(r, "rehydrating")
  /\ copy' = [copy EXCEPT ![r] = disk[ses[r]]]
  /\ UNCHANGED <<pool, store, transcript, request, eng, past>>

\* There is no transcript.
NotFound(r) ==
  /\ pc[r] = "loading" /\ disk[ses[r]] = {}
  /\ Goto(r, IF kind[r] = "read" THEN "refused" ELSE "creating")
  /\ UNCHANGED <<pool, store, transcript, request, eng, copy, past>>

\* Whatever tryRehydrate catches is taken for a session that does not exist: a message goes
\* on with an engine that remembers nothing.
LoadFails(r) ==
  /\ pc[r] \in {"loading", "rehydrating"}
  /\ Goto(r, IF kind[r] = "read" THEN "refused" ELSE "creating")
  /\ copy' = [copy EXCEPT ![r] = {}]
  /\ disturbed' = disturbed \cup {ses[r]}
  /\ UNCHANGED <<pool, store, transcript, request, eng, lost, unguarded, stops>>

\* registerSession.
Registration(r) == Command("add", ses[r], None)

\* create: the engine enters the pool, in the place of one that another request has made
\* meanwhile, and the session is registered.
\* Mutant: what is made from a transcript is not registered.
CreatedOnlyNewRegistered(r) ==
  LET w == on[r] s == ses[r]
  IN /\ pc[r] \in {"rehydrating", "creating"}
     /\ held' = [held EXCEPT ![w][s] = r]
     /\ known' = [known EXCEPT ![r] = copy[r]]
     /\ IF pc[r] = "creating" THEN Send(w, Registration(r)) ELSE UNCHANGED wire
     /\ Use(r, r) /\ copy' = [copy EXCEPT ![r] = {}]
     /\ Goto(r, AfterGet(kind[r]))
     /\ UNCHANGED <<closing, own, active, transcript, request, past>>
Created(r) ==
  LET w == on[r] s == ses[r]
  IN /\ pc[r] \in {"rehydrating", "creating"}
     /\ held' = [held EXCEPT ![w][s] = r]
     /\ known' = [known EXCEPT ![r] = copy[r]]
     /\ Send(w, Registration(r))
     /\ Use(r, r) /\ copy' = [copy EXCEPT ![r] = {}]
     /\ Goto(r, AfterGet(kind[r]))
     /\ UNCHANGED <<closing, own, active, transcript, request, past>>

CreateFails(r) ==
  /\ pc[r] = "creating"
  /\ Goto(r, "refused")
  /\ UNCHANGED <<pool, store, transcript, request, eng, copy, past>>

\* The engine has answered: the answer is in its history and in the writer's queue.
Answered(r) ==
  /\ pc[r] = "run"
  /\ known' = [known EXCEPT ![eng[r]] = @ \cup {r}]
  /\ queued' = [queued EXCEPT ![on[r]][ses[r]] = @ \cup {r}]
  /\ Goto(r, "flush") /\ eng' = [eng EXCEPT ![r] = None]
  /\ UNCHANGED <<held, closing, store, disk, request, copy, past>>

\* flushSession: all that the worker's writers have in their queues.
FlushSession(w) ==
  /\ disk' = [s \in Sessions |-> disk[s] \cup queued[w][s]]
  /\ queued' = [queued EXCEPT ![w] = [s \in Sessions |-> {}]]

\* The engine throws: the stream ends with an error, after a flush.
RunFails(r) ==
  /\ pc[r] = "run" /\ FlushSession(on[r])
  /\ Goto(r, "refused") /\ eng' = [eng EXCEPT ![r] = None]
  /\ UNCHANGED <<pool, store, request, copy, past>>

\* A flush, then "done".
\* Mutant: the response does not wait for it.
EndsUnflushed(r) ==
  /\ pc[r] = "flush"
  /\ Goto(r, "ended")
  /\ UNCHANGED <<pool, store, transcript, request, eng, copy, past>>
Ends(r) ==
  /\ pc[r] = "flush" /\ FlushSession(on[r])
  /\ Goto(r, "ended")
  /\ UNCHANGED <<pool, store, request, eng, copy, past>>

-----------------------------------------------------------------------------
(* Workers and the store *)

\* Another session has passed the quota and is not in the store yet.
Opening == {"get", "loading", "rehydrating", "creating"}
Racing(x, s) ==
  \E u \in Sessions \ (unguarded[x] \cup {s}) :
    \/ \E t \in Requests : ses[t] = u /\ pc[t] \in Opening /\ StoreOf(on[t]) = x
    \/ \E w \in Workers : StoreOf(w) = x /\ Command("add", u, None) \in {wire[w][i] : i \in DOMAIN wire[w]}

\* checkQuota has the number of active sessions.
\* Mutant: the limit itself is let through.
HasSlotLate(x) == Cardinality(active[x]) <= MaxSessions
HasSlot(x) == Cardinality(active[x]) < MaxSessions

\* The head of a connection reaches its store.
Deliver(w) ==
  /\ wire[w] # <<>>
  /\ wire' = [wire EXCEPT ![w] = Tail(@)]
  /\ LET c == Head(wire[w]) x == StoreOf(w)
     IN \/ /\ c.op = "add"
           /\ active' = [active EXCEPT ![x] = @ \cup {c.ses}]
           /\ UNCHANGED <<pc, unguarded>>
        \/ /\ c.op = "rem"
           /\ active' = [active EXCEPT ![x] = @ \ {c.ses}]
           /\ UNCHANGED <<pc, unguarded>>
        \/ /\ c.op = "count" /\ HasSlot(x)
           /\ Goto(c.by, Admitted(kind[c.by]))
           /\ unguarded' = [unguarded EXCEPT ![x] = IF Racing(x, c.ses) THEN @ \cup {c.ses} ELSE @ \ {c.ses}]
           /\ UNCHANGED active
        \/ /\ c.op = "count" /\ ~HasSlot(x)
           /\ Goto(c.by, "refused")
           /\ UNCHANGED <<active, unguarded>>
  /\ UNCHANGED <<pool, own, transcript, request, eng, copy, lost, disturbed, stops>>

\* An engine leaves the pool and the session is unregistered.
Close(w, s) ==
  /\ held[w][s] # None
  /\ held' = [held EXCEPT ![w][s] = None]
  /\ Send(w, Command("rem", s, None))
  /\ UNCHANGED <<known, closing, own, active, transcript, pc, request, eng, copy, past>>

\* The cleanup finds a session that nobody has used for thirty minutes; a message may still
\* be running on it.
\* Mutant: the session is not unregistered.
ExpireSilently(w, s) ==
  /\ w \notin closing /\ held[w][s] # None
  /\ held' = [held EXCEPT ![w][s] = None]
  /\ UNCHANGED <<known, closing, store, transcript, pc, request, eng, copy, past>>
Expire(w, s) == w \notin closing /\ Close(w, s)

\* DELETE /v1/sessions/:id, on the worker the request reaches; the transcript stays.
Delete(w, s) == w \in Route[s] /\ Close(w, s)

\* The writer's own timer.
Flush(w, s) ==
  /\ queued[w][s] # {}
  /\ disk' = [disk EXCEPT ![s] = @ \cup queued[w][s]]
  /\ queued' = [queued EXCEPT ![w][s] = {}]
  /\ UNCHANGED <<pool, store, pc, request, eng, copy, past>>

\* SIGTERM: every session is unregistered; requests go on until the process exits.
Shutdown(w) ==
  /\ w \notin closing /\ stops < MaxStops
  /\ stops' = stops + 1
  /\ closing' = closing \cup {w}
  /\ held' = [held EXCEPT ![w] = [s \in Sessions |-> None]]
  /\ \E n \in 0..Cardinality(Sessions) : \E order \in [1..n -> Sessions] :
       /\ {order[i] : i \in 1..n} = {s \in Sessions : held[w][s] # None}
       /\ \A i, j \in 1..n : order[i] = order[j] => i = j
       /\ wire' = [wire EXCEPT ![w] = @ \o [i \in 1..n |-> Command("rem", order[i], None)]]
  /\ UNCHANGED <<known, own, active, transcript, pc, request, eng, copy, lost, disturbed, unguarded>>

\* The process is gone with its pool, its requests and what it had not sent or written; a
\* new one takes its place and looks for Redis again.
Dies(w) ==
  /\ lost' = lost \cup {s \in Sessions : held[w][s] # None}
                  \cup {wire[w][i].ses : i \in {j \in DOMAIN wire[w] : wire[w][j].op # "count"}}
  /\ held' = [held EXCEPT ![w] = [s \in Sessions |-> None]]
  /\ queued' = [queued EXCEPT ![w] = [s \in Sessions |-> {}]]
  /\ pc' = [r \in Requests |-> IF on[r] = w /\ pc[r] \in Waiting THEN "died" ELSE pc[r]]
  /\ eng' = [r \in Requests |-> IF on[r] = w THEN None ELSE eng[r]]
  /\ copy' = [r \in Requests |-> IF on[r] = w THEN {} ELSE copy[r]]
  /\ wire' = [wire EXCEPT ![w] = <<>>]
  /\ active' = [active EXCEPT ![w] = {}]
  /\ own' \in {own, [own EXCEPT ![w] = ~@]}
  /\ closing' = closing \ {w}
  /\ UNCHANGED <<known, disk, request, disturbed, unguarded>>

\* process.exit at the end of the shutdown.
Exit(w) == w \in closing /\ Dies(w) /\ UNCHANGED stops

\* The process is killed or runs out of memory.
Crash(w) == stops < MaxStops /\ Dies(w) /\ stops' = stops + 1

Step(r) ==
  \/ Get(r) \/ Loaded(r) \/ NotFound(r) \/ LoadFails(r) \/ Created(r) \/ CreateFails(r)
  \/ Answered(r) \/ RunFails(r) \/ Ends(r)

Next ==
  \/ \E r \in Requests : Step(r) \/ \E k \in Kinds, s \in Sessions, w \in Workers : Arrive(r, k, s, w)
  \/ \E w \in Workers : Deliver(w) \/ Shutdown(w) \/ Exit(w) \/ Crash(w)
  \/ \E w \in Workers, s \in Sessions : Expire(w, s) \/ Delete(w, s) \/ Flush(w, s)

Spec == Init /\ [][Next]_vars

-----------------------------------------------------------------------------
\* The state of the pools, the stores, the transcripts and the requests.
TypeOK ==
  /\ held \in [Workers -> [Sessions -> Requests \cup {None}]]
  /\ known \in [Requests -> SUBSET Requests]
  /\ closing \subseteq Workers
  /\ own \in [Workers -> BOOLEAN]
  /\ active \in [Stores -> SUBSET Sessions]
  /\ wire \in [Workers -> Seq(Commands)]
  /\ disk \in [Sessions -> SUBSET Requests]
  /\ queued \in [Workers -> [Sessions -> SUBSET Requests]]
  /\ pc \in [Requests -> {"new"} \cup Waiting \cup Over]
  /\ kind \in [Requests -> Kinds]
  /\ ses \in [Requests -> Sessions \cup {None}]
  /\ on \in [Requests -> Workers \cup {None}]
  /\ eng \in [Requests -> Requests \cup {None}]
  /\ copy \in [Requests -> SUBSET Requests]
  /\ lost \subseteq Sessions /\ disturbed \subseteq Sessions /\ unguarded \in [Stores -> SUBSET Sessions]
  /\ stops \in Nat

\* The last command about s that is on its way from w.
LastIs(q, s, o) ==
  \E i \in DOMAIN q : /\ q[i].ses = s /\ q[i].op = o
                      /\ \A j \in DOMAIN q : j > i => q[j].ses # s \/ q[j].op = "count"
Pending(w, s, o) == LastIs(wire[w], s, o)

\* A session that counts against the quota is one that some worker has in its pool, or whose
\* removal is on its way, or that a worker died with: no order of creations, overwritten
\* engines, deletions, expiries and shutdowns leaks a slot.
NoLeak ==
  \A x \in Stores : \A s \in active[x] \ lost :
    \E w \in Workers : StoreOf(w) = x /\ (held[w][s] # None \/ Pending(w, s, "rem"))

\* A session that its one worker has in the pool counts against the quota, at the latest when
\* the command that is on its way has been delivered.
Accounted ==
  \A w \in Workers, s \in Sessions :
    held[w][s] # None /\ Route[s] = {w} => s \in active[StoreOf(w)] \/ Pending(w, s, "add")

\* The engine a message runs on knows every message of the session that has ended, whether it
\* was answered by this engine or by one that is gone (expired, deleted, or lost with its
\* worker), if the session's requests go to one worker, do not overlap and do not create it again.
Remembers ==
  \A r, m \in Requests :
    /\ pc[r] = "run" /\ kind[m] = "message" /\ pc[m] = "ended" /\ ses[m] = ses[r]
    /\ Route[ses[r]] = {on[r]} /\ ses[r] \notin disturbed
    => m \in known[eng[r]]

\* The limit of concurrent sessions is exceeded only by sessions that were opened without the
\* quota check, or that passed it while another one had passed it and was not registered yet.
LimitKept == \A x \in Stores : Cardinality(active[x] \ unguarded[x]) <= MaxSessions
=============================================================================
