----------------------------- MODULE Transcript -----------------------------
(* The transcript of one session: JSONLWriter (utils/session/jsonlWriter.ts)  *)
(* and the map of writers in front of it (utils/session/sessionStorage.ts),   *)
(* in one process that may be killed and started again.                       *)
(*                                                                            *)
(* A step is what runs between two awaits.  When a write ends, everybody who  *)
(* awaits it runs on before the event loop takes up anything else, so that    *)
(* is one step too.  A writer is named by the append that opened it.  (No     *)
(* name is one of Mailbox, so that the proofs about both can stand in one     *)
(* module.)                                                                   *)
EXTENDS Naturals, Sequences, SequencesExt, FiniteSets

CONSTANTS
  Entries,      \* each is appended once
  Flushers,     \* calls of flushSession
  Nobody,
  Cut,          \* the rest of a line that was not written to its end
  MaxQueue,     \* MAX_WRITE_QUEUE
  MaxOutages,   \* bound: crashes, and writes of which the disk takes a part
  MaxErrors     \* bound: writes and opens that fail

ASSUME TranscriptAssumption ==
  /\ Nobody \notin Entries \cup Flushers /\ Cut \notin Entries
  /\ MaxQueue \in Nat \ {0} /\ MaxOutages \in Nat /\ MaxErrors \in Nat

VARIABLES
  current,   \* _writers.get(session)
  queue,     \* of each writer, as the next ones
  timer,     \* writers whose timer is set
  flight,    \* flushing: the batch on its way to the file
  owner,     \* the call of flush() that awaits its own write; Nobody: the timer, or a full queue
  waiting,   \* calls of flush() that await another's write
  app, fl,   \* of each append and each call of flush(): where it is
  file,
  by,        \* history: the writer of each accepted entry
  order,     \* history: the accepted entries, in the order of write()
  due,       \* history: what each flush() found queued or on its way
  second,    \* history: calls of flush() that waited behind another one
  gone,      \* history: accepted entries that went with the process or were cut off
  failed,    \* history: entries of a write that failed
  outages, errors

writer == <<queue, timer, flight, owner, waiting>>
history == <<by, order, due, second, gone, failed, outages, errors>>
transcriptVars == <<current, writer, app, fl, file, history>>

Writers == Entries
\* What a writer has been given and not yet written.
InMemory(w) == ToSet(queue[w]) \cup ToSet(flight[w])
Unwritten == UNION {InMemory(w) : w \in Writers}

TranscriptInit ==
  /\ current = Nobody
  /\ queue = [w \in Writers |-> <<>>]
  /\ timer = {}
  /\ flight = [w \in Writers |-> <<>>]
  /\ owner = [w \in Writers |-> Nobody]
  /\ waiting = [w \in Writers |-> <<>>]
  /\ app = [e \in Entries |-> "new"]
  /\ fl = [f \in Flushers |-> "new"]
  /\ file = <<>>
  /\ by = [e \in Entries |-> Nobody] /\ order = <<>>
  /\ due = [f \in Flushers |-> {}] /\ second = {}
  /\ gone = {} /\ failed = {} /\ outages = 0 /\ errors = 0

-----------------------------------------------------------------------------
(* write *)

\* flushNow, in the write that fills the queue: what a flush in flight leaves stays queued.
WriteFull(w, e) ==
  /\ IF flight[w] # <<>>
     THEN queue' = [queue EXCEPT ![w] = Append(@, e)] /\ UNCHANGED <<flight, owner>>
     ELSE /\ flight' = [flight EXCEPT ![w] = Append(queue[w], e)]
          /\ owner' = [owner EXCEPT ![w] = Nobody]
          /\ queue' = [queue EXCEPT ![w] = <<>>]
  /\ UNCHANGED timer

\* The entry is queued and the timer set, unless the queue is full.
Write(w, e) ==
  /\ IF Len(queue[w]) + 1 >= MaxQueue
     THEN WriteFull(w, e)
     ELSE /\ queue' = [queue EXCEPT ![w] = Append(@, e)]
          /\ timer' = timer \cup {w}
          /\ UNCHANGED <<flight, owner>>
  /\ app' = [app EXCEPT ![e] = "written"]
  /\ by' = [by EXCEPT ![e] = w] /\ order' = Append(order, e)
  /\ UNCHANGED <<waiting, fl, file, due, second, gone, failed, outages>>

\* appendEntryForSession with a writer at hand.
AppendEntry(e) ==
  /\ app[e] = "new" /\ current # Nobody
  /\ Write(current, e)
  /\ UNCHANGED <<current, errors>>

\* getWriter: there is none yet, and the file is opened.
Open(e) ==
  /\ app[e] = "new" /\ current = Nobody
  /\ app' = [app EXCEPT ![e] = "opening"]
  /\ UNCHANGED <<current, writer, fl, file, history>>

\* The writer takes the place of one that another append has opened meanwhile.
Opened(e) ==
  /\ app[e] = "opening"
  /\ current' = e
  /\ Write(e, e)
  /\ UNCHANGED errors

OpenFails(e) ==
  /\ app[e] = "opening" /\ errors < MaxErrors
  /\ errors' = errors + 1
  /\ app' = [app EXCEPT ![e] = "failed"]
  /\ UNCHANGED <<current, writer, fl, file, by, order, due, second, gone, failed, outages>>

-----------------------------------------------------------------------------
(* flush *)

\* doFlush takes the whole queue.
StartWrite(w, o) ==
  /\ flight' = [flight EXCEPT ![w] = queue[w]]
  /\ queue' = [queue EXCEPT ![w] = <<>>]
  /\ owner' = [owner EXCEPT ![w] = o]

\* The timer: a flush in flight is awaited, and what was queued behind it stays there.
TimerFires(w) ==
  /\ w \in timer
  /\ timer' = timer \ {w}
  /\ IF flight[w] = <<>> /\ queue[w] # <<>> THEN StartWrite(w, Nobody) ELSE UNCHANGED <<queue, flight, owner>>
  /\ UNCHANGED <<current, waiting, app, fl, file, history>>

\* flushSession, on the session's writer.
\* Mutant: a flush in flight is not waited for.
FlushImpatient(f) ==
  LET w == current
  IN /\ fl[f] = "new" /\ current # Nobody
     /\ timer' = timer \ {w}
     /\ due' = [due EXCEPT ![f] = InMemory(w)]
     /\ IF flight[w] = <<>> /\ queue[w] # <<>>
        THEN StartWrite(w, f) /\ fl' = [fl EXCEPT ![f] = "in"]
        ELSE fl' = [fl EXCEPT ![f] = "done"] /\ UNCHANGED <<queue, flight, owner>>
     /\ UNCHANGED <<current, waiting, second, app, file, by, order, gone, failed, outages, errors>>
Flush(f) ==
  LET w == current
  IN /\ fl[f] = "new" /\ current # Nobody
     /\ timer' = timer \ {w}
     /\ due' = [due EXCEPT ![f] = InMemory(w)]
     /\ \/ /\ flight[w] # <<>>
           /\ waiting' = [waiting EXCEPT ![w] = Append(@, f)]
           /\ second' = IF waiting[w] # <<>> THEN second \cup {f} ELSE second
           /\ fl' = [fl EXCEPT ![f] = "in"]
           /\ UNCHANGED <<queue, flight, owner>>
        \/ /\ flight[w] = <<>> /\ queue[w] # <<>>
           /\ StartWrite(w, f)
           /\ fl' = [fl EXCEPT ![f] = "in"]
           /\ UNCHANGED <<waiting, second>>
        \/ /\ flight[w] = <<>> /\ queue[w] = <<>>
           /\ fl' = [fl EXCEPT ![f] = "done"]
           /\ UNCHANGED <<queue, flight, owner, waiting, second>>
     /\ UNCHANGED <<current, app, file, by, order, gone, failed, outages, errors>>

\* The calls S return with r.
Return(S, r) == fl' = [f \in Flushers |-> IF f \in S THEN r ELSE fl[f]]
Awaiting(w) == {owner[w]} \cup ToSet(waiting[w])

\* Those who await a write run on, in the order they came: the first that finds entries in the
\* queue writes all of them, and the others find none and return.
\* Mutant: nobody looks at the queue again.
ResumeOnly(w) ==
  /\ flight' = [flight EXCEPT ![w] = <<>>] /\ owner' = [owner EXCEPT ![w] = Nobody]
  /\ UNCHANGED queue
  /\ Return(Awaiting(w), "done")
  /\ waiting' = [waiting EXCEPT ![w] = <<>>]
Resume(w) ==
  /\ IF waiting[w] # <<>> /\ queue[w] # <<>>
     THEN StartWrite(w, Head(waiting[w])) /\ Return(Awaiting(w) \ {Head(waiting[w])}, "done")
     ELSE /\ flight' = [flight EXCEPT ![w] = <<>>] /\ owner' = [owner EXCEPT ![w] = Nobody]
          /\ UNCHANGED queue
          /\ Return(Awaiting(w), "done")
  /\ waiting' = [waiting EXCEPT ![w] = <<>>]

WriteEnds(w) ==
  /\ flight[w] # <<>>
  /\ file' = file \o flight[w]
  /\ Resume(w)
  /\ UNCHANGED <<current, timer, app, history>>

\* The batch goes back to the front of the queue, and every caller gets the error; nobody sets
\* the timer.
\* Mutant: the batch was written before the error, and goes back all the same.
WriteFailsLate(w) ==
  /\ flight[w] # <<>> /\ errors < MaxErrors
  /\ errors' = errors + 1
  /\ file' = file \o flight[w]
  /\ queue' = [queue EXCEPT ![w] = flight[w] \o @]
  /\ flight' = [flight EXCEPT ![w] = <<>>] /\ owner' = [owner EXCEPT ![w] = Nobody]
  /\ waiting' = [waiting EXCEPT ![w] = <<>>]
  /\ Return(Awaiting(w), "failed")
  /\ failed' = failed \cup ToSet(flight[w])
  /\ UNCHANGED <<current, timer, app, by, order, due, second, gone, outages>>
WriteFails(w) ==
  /\ flight[w] # <<>> /\ errors < MaxErrors
  /\ errors' = errors + 1
  /\ queue' = [queue EXCEPT ![w] = flight[w] \o @]
  /\ flight' = [flight EXCEPT ![w] = <<>>] /\ owner' = [owner EXCEPT ![w] = Nobody]
  /\ waiting' = [waiting EXCEPT ![w] = <<>>]
  /\ Return(Awaiting(w), "failed")
  /\ failed' = failed \cup ToSet(flight[w])
  /\ UNCHANGED <<current, timer, app, file, by, order, due, second, gone, outages>>

\* What is on the file when n entries of a batch are, and perhaps a part of the next.
Part(batch, n, cut) == SubSeq(batch, 1, n) \o IF cut THEN <<Cut>> ELSE <<>>

\* The disk takes a part of the write, and nobody looks at how much it was.
WriteShort(w, n, cut) ==
  /\ flight[w] # <<>> /\ n < Len(flight[w]) /\ outages < MaxOutages
  /\ outages' = outages + 1
  /\ file' = file \o Part(flight[w], n, cut)
  /\ gone' = gone \cup (ToSet(flight[w]) \ ToSet(SubSeq(flight[w], 1, n)))
  /\ Resume(w)
  /\ UNCHANGED <<current, timer, app, by, order, due, second, failed, errors>>

\* The process is gone, perhaps in the middle of a write, and a new one starts.
Killed(w, n, cut) ==
  /\ outages < MaxOutages
  /\ outages' = outages + 1
  /\ n <= Len(flight[w]) /\ (cut => n < Len(flight[w]))
  /\ file' = file \o Part(flight[w], n, cut)
  /\ gone' = gone \cup (Unwritten \ ToSet(SubSeq(flight[w], 1, n)))
  /\ current' = Nobody /\ timer' = {}
  /\ queue' = [v \in Writers |-> <<>>] /\ flight' = [v \in Writers |-> <<>>]
  /\ owner' = [v \in Writers |-> Nobody] /\ waiting' = [v \in Writers |-> <<>>]
  /\ app' = [e \in Entries |-> IF app[e] = "opening" THEN "died" ELSE app[e]]
  /\ fl' = [f \in Flushers |-> IF fl[f] = "in" THEN "died" ELSE fl[f]]
  /\ UNCHANGED <<by, order, due, second, failed, errors>>

TranscriptNext ==
  \/ \E e \in Entries : AppendEntry(e) \/ Open(e) \/ Opened(e) \/ OpenFails(e)
  \/ \E w \in Writers : TimerFires(w) \/ WriteEnds(w) \/ WriteFails(w)
  \/ \E f \in Flushers : Flush(f)
  \/ \E w \in Writers, n \in 0..Cardinality(Entries), cut \in BOOLEAN :
       WriteShort(w, n, cut) \/ Killed(w, n, cut)

TranscriptSpec == TranscriptInit /\ [][TranscriptNext]_transcriptVars

\* The event loop runs the timers, and every call of the file system settles.
Settles(w) ==
  \/ WriteEnds(w) \/ WriteFails(w)
  \/ \E n \in 0..Cardinality(Entries), cut \in BOOLEAN : WriteShort(w, n, cut)
TranscriptFairness == \A w \in Writers : WF_transcriptVars(Settles(w)) /\ WF_transcriptVars(TimerFires(w))
TranscriptFairSpec == TranscriptSpec /\ TranscriptFairness

-----------------------------------------------------------------------------
Calls == {"new", "in", "done", "failed", "died"}

\* The state of the writers, their callers and the file.
TranscriptTypeOK ==
  /\ current \in Writers \cup {Nobody}
  /\ queue \in [Writers -> Seq(Entries)] /\ flight \in [Writers -> Seq(Entries)]
  /\ timer \subseteq Writers
  /\ owner \in [Writers -> Flushers \cup {Nobody}]
  /\ waiting \in [Writers -> Seq(Flushers)]
  /\ app \in [Entries -> {"new", "opening", "written", "failed", "died"}]
  /\ fl \in [Flushers -> Calls]
  /\ file \in Seq(Entries \cup {Cut})
  /\ by \in [Entries -> Writers \cup {Nobody}] /\ order \in Seq(Entries)
  /\ due \in [Flushers -> SUBSET Entries] /\ second \subseteq Flushers
  /\ gone \subseteq Entries /\ failed \subseteq Entries
  /\ outages \in Nat /\ errors \in Nat

OnFile(e) == e \in ToSet(file)

\* When flush() has returned, what it found in the queue or on its way is in the file, unless
\* the disk took only a part of it, or the call waited behind another call of flush().
Flushed ==
  \A f \in Flushers : fl[f] = "done" /\ f \notin second => \A e \in due[f] : OnFile(e) \/ e \in gone

\* What flush() was called for reaches the file, also when it waited behind another call and
\* returned before, unless a write failed or there was an outage.
FlushDrains ==
  \A f \in Flushers, e \in Entries :
    (fl[f] = "in" /\ e \in due[f]) ~> (OnFile(e) \/ e \in gone \cup failed \/ fl[f] = "failed")

Log == INSTANCE AppendLog WITH
  accepted <- ToSet(order), held <- Unwritten, log <- file, Tear <- Cut, lost <- gone

\* The transcript is an append-only log that only outages lose entries of.
KeepsLog == Log!Spec
=============================================================================
