------------------------------- MODULE Engine -------------------------------
(* One query engine of a session (query/QueryEngine.ts) and the messages that *)
(* are submitted to it: the history, the loop of model calls and tool calls,  *)
(* the budget, the guard against repeated reads and the compaction of the     *)
(* history (utils/compact/compact.ts).  The server hands a message to the     *)
(* engine of its session without waiting for the message before, so two       *)
(* submissions may run on one history: the event loop changes hands at every  *)
(* await and at every yield to the consumer.                                  *)
(*                                                                            *)
(* A message of the history is a kind and the tool calls it makes (assistant) *)
(* or answers (result); texts and sizes are abstracted.  A tool call is named *)
(* by its submission, its round and its place in the answer.                  *)
EXTENDS Integers, Sequences, FiniteSets

CONSTANTS
  Submits,        \* messages submitted to the engine
  NoSubmit,       \* nobody holds the event loop
  Reads,          \* inputs of the read-only tools
  Transcripts,    \* histories the engine may start with: none, or rehydrated from a transcript
  MaxTurns,       \* config.maxTurns
  MaxBudget,      \* config.maxBudgetUsd, in calls of the model
  MaxRounds,      \* MAX_TOOL_ROUNDS
  MaxRetries,     \* MAX_OUTPUT_TOKENS_RECOVERY_LIMIT
  MaxCalls,       \* bound on the tool calls of one answer
  MaxFiles,       \* config.postCompactMaxFiles
  MaxNotes,       \* bound on the messages of hooks and skills in the history
  Large,          \* messages from which a history may be too long
  TurnBlocks,     \* blocked reads of a turn after which tools are withheld
  SessionBlocks   \* blocked reads of a session after which a submission is aborted

ASSUME EngineAssumption ==
  /\ NoSubmit \notin Submits /\ IsFiniteSet(Submits)
  /\ MaxTurns \in Nat \ {0} /\ MaxBudget \in Nat \ {0}
  /\ MaxRounds \in Nat /\ MaxRetries \in Nat /\ MaxCalls \in Nat /\ MaxFiles \in Nat
  /\ MaxNotes \in Nat /\ Large \in Nat /\ TurnBlocks \in Nat /\ SessionBlocks \in Nat

VARIABLES
  history,     \* MessageState.mutableMessages
  turns,       \* BudgetTracker.turnCount
  spent,       \* BudgetTracker.totalCostUsd
  paid,        \* instanceCostUsd: what the calls of this engine have cost
  seen,        \* keys of seenToolCalls
  blocked,     \* sessionBlockedTotal
  noTools,     \* forceNoTools
  loop,        \* the submission that runs between two awaits
  pc,          \* where each submission is
  rounds,      \* toolRounds
  retries,     \* maxOutputRetries
  asked,       \* number of tool calls of the current answer
  next,        \* the tool call to run next
  stop,        \* finishReason of the current answer
  turnBlocked, \* blockedInThisTurn
  offered,     \* was the model call made with tools
  copy,        \* the snapshot a compaction works on
  overlapped,  \* history: two submissions ran at the same time
  severed,     \* history: a compaction separated a result from its call
  stale        \* history: a compaction replaced messages it had not seen

budget == <<turns, spent, paid>>
guard == <<seen, blocked, noTools>>
answer == <<asked, next, stop>>
past == <<overlapped, severed, stale>>
locals == <<rounds, retries, answer, turnBlocked, offered, copy>>
vars == <<history, budget, guard, loop, pc, locals, past>>

-----------------------------------------------------------------------------
(* Messages and histories *)

Kinds == {"user", "note", "assistant", "cut", "result"}

Call(s, n, i) == <<s, n, i>>
CallIds == Submits \X Nat \X Nat

Messages == [kind : Kinds, calls : SUBSET CallIds]

Message(k, calls) == [kind |-> k, calls |-> calls]
User == Message("user", {})
Note == Message("note", {})
Result(c) == Message("result", {c})

\* A transcript keeps the texts of users and answers, never a call or its result.
ASSUME TranscriptAssumption == Transcripts \subseteq Seq({User, Message("assistant", {})})

\* The calls of the answer that s is working through.
Asked(s) == {Call(s, rounds[s], i) : i \in 1..asked[s]}

CallsOf(h) == UNION {h[i].calls : i \in {j \in DOMAIN h : h[j].kind = "assistant"}}
ResultsOf(h) == UNION {h[i].calls : i \in {j \in DOMAIN h : h[j].kind = "result"}}

\* injectContinuation: the last assistant message stopped at max_tokens.
LastIsCut(h) ==
  \E i \in DOMAIN h : /\ h[i].kind = "cut"
                      /\ \A j \in DOMAIN h : j > i => h[j].kind \notin {"assistant", "cut"}

\* The results at the end of the history, up to the last user message that is none.
Resolved(h) ==
  UNION {h[i].calls : i \in {j \in DOMAIN h : h[j].kind = "result" /\ \A k \in DOMAIN h : k > j => h[k].kind # "user"}}

\* Every call has one result behind it and every result its call before it
\* (validateInvariants, and what the provider accepts).
Paired(h) ==
  /\ \A i \in DOMAIN h : h[i].kind = "assistant" =>
       \A c \in h[i].calls : \E j \in DOMAIN h :
         j > i /\ h[j] = Result(c) /\ \A k \in DOMAIN h : h[k] = Result(c) => k = j
  /\ \A j \in DOMAIN h : h[j].kind = "result" =>
       \E i \in DOMAIN h : i < j /\ h[i].kind = "assistant" /\ h[j].calls \subseteq h[i].calls

-----------------------------------------------------------------------------
(* Compaction: where the history is split *)

\* keepCount of the strategies, emergency, aggressive and standard.
LessOf(m, n) == IF m < n THEN m ELSE n
KeepCounts(n) == {2, LessOf(3, n \div 3), LessOf(4, n \div 2)}

\* The backward walk stops at message k: it is no result, and its calls are answered.
\* Mutant: results are not looked at.
StopsAtResult(h, k) ==
  h[k+1].kind = "assistant" =>
    \A c \in h[k+1].calls : \E j \in k+2..Len(h) : h[j] = Result(c)
StopsAt(h, k) ==
  /\ h[k+1].kind # "result"
  /\ h[k+1].kind = "assistant" =>
       \A c \in h[k+1].calls : \E j \in k+2..Len(h) : h[j] = Result(c)

\* The walk from p back ends at k, at 0 if it stops nowhere.
WalksTo(h, p, k) ==
  /\ k > 0 => StopsAt(h, k)
  /\ \A j \in k+1..p : ~StopsAt(h, j)

\* adjustForInvariants: the number of messages to summarise.
Split(h, k) == IF k <= 2 THEN LessOf(4, Len(h) \div 2) ELSE k

\* replaceMessagesFromApi: a system message comes back as a user message, a stop reason is gone.
Restored(m) == IF m.kind = "note" THEN User
               ELSE IF m.kind = "cut" THEN Message("assistant", {}) ELSE m

Compacted(h, split, files) ==
  [i \in 1..1 + files |-> User] \o [i \in 1..Len(h) - split |-> Restored(h[split + i])]

\* Two ways in which a result is kept without its call: the walk found nothing and the
\* fixed split was taken, or it stopped at a note that stands between the two (a note that
\* has been compacted once is a user message).
Severs(h, k) ==
  /\ k <= 2 \/ h[k+1].kind \in {"note", "user"}
  /\ \E i \in 1..Split(h, k), j \in Split(h, k) + 1..Len(h) : h[i].calls \cap h[j].calls # {}

-----------------------------------------------------------------------------
(* Control: the event loop is held from one await to the next. *)

\* A submission ends with a result (success, error or a limit), in the middle of an answer
\* by the guard against repeated reads (aborted), or thrown out of it (broken).
Ended == {"ended", "aborted", "broken"}
Running == {"prompt", "top", "compact", "budget", "call", "answered", "tools", "tool", "net", "overflow", "recompact"}

At(s, l) == pc[s] = l /\ loop \in {s, NoSubmit}
Keep(s, l) == pc' = [pc EXCEPT ![s] = l] /\ loop' = s
Await(s, l) == pc' = [pc EXCEPT ![s] = l] /\ loop' = NoSubmit

\* The generator returns and its local variables are gone.  The calls of an answer that it
\* leaves in the middle are kept for the properties.
End(s, l) ==
  /\ Await(s, l)
  /\ retries' = [retries EXCEPT ![s] = 0] /\ next' = [next EXCEPT ![s] = 1]
  /\ stop' = [stop EXCEPT ![s] = "stop"] /\ turnBlocked' = [turnBlocked EXCEPT ![s] = 0]
  /\ offered' = [offered EXCEPT ![s] = TRUE] /\ copy' = [copy EXCEPT ![s] = <<>>]
  /\ IF l = "ended" THEN rounds' = [rounds EXCEPT ![s] = 0] /\ asked' = [asked EXCEPT ![s] = 0]
     ELSE UNCHANGED <<rounds, asked>>

Push(m) == history' = Append(history, m)

\* What a hook or a skill may add.
Notes == IF Cardinality({i \in DOMAIN history : history[i].kind = "note"}) < MaxNotes
         THEN {<<>>, <<Note>>} ELSE {<<>>}

Init ==
  /\ history \in Transcripts
  /\ turns = 0 /\ spent = 0 /\ paid = 0
  /\ seen = {} /\ blocked = 0 /\ noTools = FALSE
  /\ loop = NoSubmit
  /\ pc = [s \in Submits |-> "new"]
  /\ rounds = [s \in Submits |-> 0] /\ retries = [s \in Submits |-> 0]
  /\ asked = [s \in Submits |-> 0] /\ next = [s \in Submits |-> 1]
  /\ stop = [s \in Submits |-> "stop"]
  /\ turnBlocked = [s \in Submits |-> 0]
  /\ offered = [s \in Submits |-> TRUE]
  /\ copy = [s \in Submits |-> <<>>]
  /\ overlapped = FALSE /\ severed = FALSE /\ stale = FALSE

-----------------------------------------------------------------------------
(* submitMessage *)

\* A message arrives: the guard against repeated reads starts afresh, then hooks are awaited.
Begin(s) ==
  /\ At(s, "new") /\ loop = NoSubmit
  /\ seen' = {} /\ noTools' = FALSE
  /\ overlapped' = (overlapped \/ \E t \in Submits : pc[t] \in Running)
  /\ Await(s, "prompt")
  /\ UNCHANGED <<history, budget, blocked, locals, severed, stale>>

\* What hooks and skills add comes first, then the message itself, which is yielded.
Prompt(s) ==
  /\ At(s, "prompt")
  /\ \E notes \in Notes : history' = history \o notes \o <<User>>
  /\ Await(s, "top")
  /\ UNCHANGED <<budget, guard, locals, past>>

-----------------------------------------------------------------------------
(* The top of queryLoop *)

RoundsUsedUp(s) ==
  /\ At(s, "top") /\ rounds[s] >= MaxRounds
  /\ End(s, "ended")
  /\ UNCHANGED <<history, budget, guard, past>>

\* The history is large: a copy of it goes to compactConversation.
AutoCompact(s) ==
  /\ At(s, "top") /\ rounds[s] < MaxRounds /\ Len(history) >= Large
  /\ copy' = [copy EXCEPT ![s] = history]
  /\ Await(s, "compact")
  /\ UNCHANGED <<history, budget, guard, rounds, retries, answer, turnBlocked, offered, past>>

NoCompact(s) ==
  /\ At(s, "top") /\ rounds[s] < MaxRounds
  /\ Keep(s, "budget")
  /\ UNCHANGED <<history, budget, guard, locals, past>>

\* The compaction returns: the whole history is replaced by the boundary, the files that
\* the copy's calls had read, and the tail of the copy.
CompactEnds(s, keep, files) ==
  /\ \/ At(s, "compact") /\ Await(s, "budget")
     \/ At(s, "recompact") /\ Await(s, "top")
  /\ Len(copy[s]) >= 6
  /\ LET h == copy[s]
     IN /\ keep \in KeepCounts(Len(h)) /\ files <= Cardinality(CallsOf(h))
        /\ \E k \in 0..Len(h) - keep :
             /\ WalksTo(h, Len(h) - keep, k)
             /\ history' = Compacted(h, Split(h, k), files)
             /\ severed' = (severed \/ Severs(h, k))
        /\ stale' = (stale \/ history # h)
  /\ copy' = [copy EXCEPT ![s] = <<>>]
  /\ UNCHANGED <<budget, guard, rounds, retries, answer, turnBlocked, offered, overlapped>>

\* Too few messages, or the model did not summarise: the loop goes on, unless the provider
\* has refused the history as too long.
CompactFails(s) ==
  /\ \/ /\ At(s, "compact") /\ Await(s, "budget")
        /\ copy' = [copy EXCEPT ![s] = <<>>]
        /\ UNCHANGED <<rounds, retries, answer, turnBlocked, offered>>
     \/ At(s, "recompact") /\ End(s, "ended")
  /\ UNCHANGED <<history, budget, guard, past>>

\* checkBeforeTurn, and the look at the cost of the whole process, of which the engine has
\* paid a part.
OverBudget == turns >= MaxTurns \/ spent >= MaxBudget \/ paid >= MaxBudget

\* The limits are reached, or other sessions of the process have spent the rest.
BudgetStop(s) ==
  /\ At(s, "budget")
  /\ End(s, "ended")
  /\ UNCHANGED <<history, budget, guard, past>>

\* The history goes to the model.
CallModel(s) ==
  /\ At(s, "budget") /\ ~OverBudget
  /\ offered' = [offered EXCEPT ![s] = ~noTools]
  /\ Await(s, "call")
  /\ UNCHANGED <<history, budget, guard, rounds, retries, answer, turnBlocked, copy, past>>

-----------------------------------------------------------------------------
(* The model's answer *)

\* An answer is charged once, to the budget and to the engine.
\* Mutant: it is charged by its cache metrics and by its usage.
ChargeTwice == spent' = spent + 2 /\ paid' = paid + 2
Charge == spent' = spent + 1 /\ paid' = paid + 1

\* n tool calls, or a text that ends (stop) or is cut off at max_tokens (length).
Answers(s, n, why) ==
  /\ At(s, "call") /\ (n > 0 => offered[s] /\ why = "stop")
  /\ Push(IF why = "length" THEN Message("cut", {})
          ELSE Message("assistant", {Call(s, rounds[s], i) : i \in 1..n}))
  /\ Charge
  /\ asked' = [asked EXCEPT ![s] = n] /\ next' = [next EXCEPT ![s] = 1]
  /\ stop' = [stop EXCEPT ![s] = why] /\ turnBlocked' = [turnBlocked EXCEPT ![s] = 0]
  /\ Await(s, "answered")
  /\ UNCHANGED <<turns, guard, rounds, retries, offered, copy, past>>

\* The provider refuses the history as too long, which is yielded; then a copy of the
\* history is compacted and the call tried again, however often this happens.
Overflow(s) ==
  /\ At(s, "call") /\ Len(history) >= Large
  /\ Await(s, "overflow")
  /\ UNCHANGED <<history, budget, guard, locals, past>>

Recompact(s) ==
  /\ At(s, "overflow")
  /\ copy' = [copy EXCEPT ![s] = history]
  /\ Await(s, "recompact")
  /\ UNCHANGED <<history, budget, guard, rounds, retries, answer, turnBlocked, offered, past>>

\* Any other error, after the retries of withRetry.
CallFails(s) ==
  /\ At(s, "call")
  /\ End(s, "ended")
  /\ UNCHANGED <<history, budget, guard, past>>

\* The text was cut off: "continue" is asked for.
Continue(s) ==
  /\ At(s, "answered") /\ asked[s] = 0
  /\ stop[s] = "length" /\ retries[s] < MaxRetries /\ LastIsCut(history)
  /\ Push(User)
  /\ retries' = [retries EXCEPT ![s] = @ + 1]
  /\ Keep(s, "top")
  /\ UNCHANGED <<budget, guard, rounds, answer, turnBlocked, offered, copy, past>>

\* The answer makes no call: the submission ends with it, and recordTurn adds the cost of all
\* the engine's calls, which addCost has added before, to the budget once more.
\* Mutant: an answer that makes calls is taken for a text.
DoneAnyway(s) ==
  /\ At(s, "answered")
  /\ ~(stop[s] = "length" /\ retries[s] < MaxRetries /\ LastIsCut(history))
  /\ turns' = turns + 1 /\ spent' = spent + paid
  /\ End(s, "ended")
  /\ UNCHANGED <<history, paid, guard, past>>
Done(s) ==
  /\ At(s, "answered") /\ asked[s] = 0
  /\ ~(stop[s] = "length" /\ retries[s] < MaxRetries /\ LastIsCut(history))
  /\ turns' = turns + 1 /\ spent' = spent + paid
  /\ End(s, "ended")
  /\ UNCHANGED <<history, paid, guard, past>>

UseTools(s) ==
  /\ At(s, "answered") /\ asked[s] > 0
  /\ Keep(s, "tools")
  /\ UNCHANGED <<history, budget, guard, locals, past>>

-----------------------------------------------------------------------------
(* The tool calls of an answer, in order *)

Now(s) == Call(s, rounds[s], next[s])
Pending(s) == At(s, "tools") /\ next[s] <= asked[s]

\* pushToolResult
Resolve(s) == Push(Result(Now(s))) /\ UNCHANGED <<budget, past>>
Proceed(s) ==
  /\ next' = [next EXCEPT ![s] = @ + 1]
  /\ UNCHANGED <<rounds, retries, asked, stop, offered, copy>>

\* Unknown tool, or an input that does not parse.
Invalid(s) ==
  /\ Pending(s) /\ Resolve(s) /\ Proceed(s)
  /\ Keep(s, "tools")
  /\ UNCHANGED <<guard, turnBlocked>>

\* A read that was made before in this submission is refused; a session with too many of
\* them ends the submission.
Reread(s, r) ==
  /\ Pending(s) /\ r \in seen /\ Resolve(s)
  /\ blocked' = blocked + 1
  /\ noTools' = (noTools \/ turnBlocked[s] + 1 >= TurnBlocks)
  /\ IF blocked + 1 >= SessionBlocks THEN End(s, "aborted")
     ELSE /\ Keep(s, "tools") /\ Proceed(s)
          /\ turnBlocked' = [turnBlocked EXCEPT ![s] = @ + 1]
  /\ UNCHANGED seen

\* A first read, or another tool: hooks, permission, validation and the tool are awaited.
RunTool(s, new) ==
  /\ Pending(s) /\ new \cap seen = {}
  /\ seen' = seen \cup new
  /\ Await(s, "tool")
  /\ UNCHANGED <<history, budget, blocked, noTools, locals, past>>

\* Denied, invalid, failed or done: the result is pushed, behind what a skill adds.
ToolEnds(s) ==
  /\ At(s, "tool")
  /\ \E notes \in Notes : history' = history \o notes \o <<Result(Now(s))>>
  /\ Proceed(s)
  /\ Await(s, "tools")
  /\ UNCHANGED <<budget, guard, turnBlocked, past>>

\* The messages that hooks left for the end of the turn, each yielded.
Deferred(s) ==
  /\ At(s, "tools") /\ next[s] > asked[s]
  /\ <<Note>> \in Notes /\ Push(Note)
  /\ Await(s, "net")
  /\ UNCHANGED <<budget, guard, locals, past>>

NoneDeferred(s) ==
  /\ At(s, "tools") /\ next[s] > asked[s]
  /\ Keep(s, "net")
  /\ UNCHANGED <<history, budget, guard, locals, past>>

\* The safety net: an error result for every call of the answer that has none at the end
\* of the history; the turn is recorded and the loop goes round.
Unresolved(s) == Asked(s) \ Resolved(history)

NextRound(s) == rounds[s] + 1
RoundEnds(s) ==
  /\ At(s, "net")
  /\ \E n \in 0..asked[s] : \E order \in [1..n -> Unresolved(s)] :
       /\ {order[i] : i \in 1..n} = Unresolved(s)
       /\ \A i, j \in 1..n : i < j => order[i][3] < order[j][3]
       /\ history' = history \o [i \in 1..n |-> Result(order[i])]
  /\ turns' = turns + 1
  /\ rounds' = [rounds EXCEPT ![s] = NextRound(s)]
  /\ retries' = [retries EXCEPT ![s] = 0]
  /\ asked' = [asked EXCEPT ![s] = 0] /\ next' = [next EXCEPT ![s] = 1]
  /\ turnBlocked' = [turnBlocked EXCEPT ![s] = 0]
  /\ Keep(s, "top")
  /\ UNCHANGED <<spent, paid, guard, stop, offered, copy, past>>

\* A hook, a validation, a permission check or a skill throws, or the consumer throws or
\* leaves at a yield: the generator ends where it is.  (Where no answer is being worked on
\* this is no more than CallFails.)
Breaks(s) ==
  /\ pc[s] \in {"answered", "tools", "tool", "net"} /\ loop = NoSubmit
  /\ End(s, "broken")
  /\ UNCHANGED <<history, budget, guard, past>>

-----------------------------------------------------------------------------
\* /clear of the terminal: a new history and budget, between two submissions.  What the
\* engine has paid stays as it is, in the engine and in the total of the process.
Clear ==
  /\ loop = NoSubmit /\ \A s \in Submits : pc[s] \notin Running
  /\ history # <<>>
  /\ history' = <<>> /\ turns' = 0 /\ spent' = 0
  /\ UNCHANGED <<paid, guard, loop, pc, locals, past>>

Step(s) ==
  \/ Prompt(s) \/ RoundsUsedUp(s) \/ AutoCompact(s) \/ NoCompact(s)
  \/ \E keep \in 2..4, files \in 0..MaxFiles : CompactEnds(s, keep, files)
  \/ CompactFails(s) \/ BudgetStop(s) \/ CallModel(s)
  \/ \E n \in 0..MaxCalls, why \in {"stop", "length"} : Answers(s, n, why)
  \/ Overflow(s) \/ Recompact(s) \/ CallFails(s) \/ Continue(s) \/ Done(s) \/ UseTools(s)
  \/ Invalid(s) \/ (\E r \in Reads : Reread(s, r) \/ RunTool(s, {r})) \/ RunTool(s, {})
  \/ ToolEnds(s) \/ Deferred(s) \/ NoneDeferred(s) \/ RoundEnds(s) \/ Breaks(s)

Next == (\E s \in Submits : Begin(s) \/ Step(s)) \/ Clear

Spec == Init /\ [][Next]_vars

-----------------------------------------------------------------------------
\* The state of the engine, of the event loop and of each submission.
TypeOK ==
  /\ history \in Seq(Messages)
  /\ turns \in Nat /\ spent \in Nat /\ paid \in Nat
  /\ seen \subseteq Reads /\ blocked \in Nat /\ noTools \in BOOLEAN
  /\ loop \in Submits \cup {NoSubmit}
  /\ pc \in [Submits -> {"new"} \cup Running \cup Ended]
  /\ rounds \in [Submits -> Nat] /\ retries \in [Submits -> Nat]
  /\ asked \in [Submits -> Nat] /\ next \in [Submits -> Nat]
  /\ stop \in [Submits -> {"stop", "length"}]
  /\ turnBlocked \in [Submits -> Nat]
  /\ offered \in [Submits -> BOOLEAN]
  /\ copy \in [Submits -> Seq(Messages)]
  /\ overlapped \in BOOLEAN /\ severed \in BOOLEAN /\ stale \in BOOLEAN

\* What goes to the model is paired, call by call, as long as no two submissions ran at the
\* same time, none has ended in the middle of an answer, and no compaction had to use the
\* fixed split or stopped at a note between a call and its result (validateInvariants).
Undisturbed ==
  /\ ~overlapped /\ ~severed /\ ~stale
  /\ \A s \in Submits : pc[s] \notin {"aborted", "broken"}
PairedUndisturbed == Undisturbed /\ (\E s \in Submits : pc[s] = "call") => Paired(history)

\* A call without a result is one that a submission still works on or has ended with: the
\* safety net leaves no other, however submissions interleave and histories are compacted.
Open(s) == pc[s] \in Running \cup {"aborted", "broken"}
UnansweredExplained ==
  ~stale => \A c \in CallsOf(history) \ ResultsOf(history) :
              \E s \in Submits : Open(s) /\ c \in Asked(s)

\* The budget is checked before a call and charged after it: what the engine pays exceeds it
\* by at most the calls that were under way together, over every /clear, and so does the
\* number of turns.
SpentBounded ==
  /\ paid < MaxBudget + Cardinality(Submits)
  /\ turns < MaxTurns + Cardinality(Submits)
=============================================================================
