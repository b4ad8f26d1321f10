------------------------------ MODULE Mailbox ------------------------------
(* The inbox file of one agent of a team (swarm/mailbox), and the processes   *)
(* of the team that use it: teammates that send to it, the agent's poller,    *)
(* and its calls of SendMessage that wait for a reply.  The file is read and  *)
(* written whole, under a lock file that a process creates, fills with its    *)
(* process id and removes.                                                    *)
(*                                                                            *)
(* Between two awaits a process runs alone in its own event loop, but beside  *)
(* the other processes: a step is one call of the file system.  A message is  *)
(* named by the send it belongs to.                                           *)
EXTENDS Naturals, Sequences, SequencesExt, FiniteSets

CONSTANTS
  Sends,        \* appendToInbox, one message each
  Polls,        \* polls of the agent's poller
  Waits,        \* calls of waitForReply
  Reply,        \* the message each of them waits for
  Procs, Proc,  \* the process of each operation
  None,
  Retries,      \* MAILBOX_LOCK_RETRIES
  Capacity,     \* MAILBOX_MAX_SIZE
  MaxCrashes,   \* bound: processes that are killed
  MaxStalls     \* bound: operations that stop for MAILBOX_STALE_LOCK_MS with the lock

Ops == Sends \cup Polls \cup Waits

ASSUME MailboxAssumption ==
  /\ None \notin Ops
  /\ Sends \cap Polls = {} /\ Sends \cap Waits = {} /\ Polls \cap Waits = {}
  /\ Reply \in [Waits -> Sends] /\ Proc \in [Ops -> Procs]
  /\ Retries \in Nat \ {0} /\ Capacity \in Nat \ {0} /\ MaxCrashes \in Nat /\ MaxStalls \in Nat

VARIABLES
  holder, filled, old,  \* the lock file: who created it, whether its content is there, and aged
  inbox,     \* the inbox file
  dead,      \* processes that are gone
  pc,        \* of each operation: where it is
  tries,     \* attempts to take the lock
  found,     \* a wait has found its reply and consumes it
  buf,       \* what each operation has read of the inbox
  handled,   \* messages the poller has dispatched
  got,       \* messages waits have returned
  put,       \* history: messages that were written to the inbox
  dropped,   \* history: messages that made room for others
  lost,      \* history: messages only a process that died had
  robbed,    \* history: the lock of an operation that was at work has been removed
  alone,     \* history: operations beside which no other has run
  crashes, stalls

lock == <<holder, filled, old>>
local == <<tries, found, buf>>
past == <<put, dropped, lost, robbed, alone, crashes, stalls>>
vars == <<lock, inbox, dead, pc, local, handled, got, past>>

Section == {"fill", "locked", "write", "unlock"}
Over == {"done", "failed", "timeout", "died"}
Idle == {"new"} \cup Over

\* In the middle of what its process runs without an await.
Busy == {"create", "unlink", "fill", "write", "unlock"}
MayRun(o) == \A p \in Ops \ {o} : Proc[p] = Proc[o] => pc[p] \notin Busy

Init ==
  /\ holder = None /\ filled = FALSE /\ old = FALSE
  /\ inbox = <<>> /\ dead = {}
  /\ pc = [o \in Ops |-> "new"]
  /\ tries = [o \in Ops |-> 0]
  /\ found = [o \in Ops |-> FALSE]
  /\ buf = [o \in Ops |-> <<>>]
  /\ handled = <<>> /\ got = {}
  /\ put = {} /\ dropped = {} /\ lost = {} /\ robbed = FALSE /\ alone = {}
  /\ crashes = 0 /\ stalls = 0

Goto(o, l) == pc' = [pc EXCEPT ![o] = l]

\* An operation begins; the poller polls once at a time.
Start(o) ==
  /\ pc[o] = "new" /\ Proc[o] \notin dead
  /\ o \in Polls => \A p \in Polls \ {o} : pc[p] \in Idle
  /\ Goto(o, "try")
  /\ alone' = IF \A p \in Ops \ {o} : pc[p] \in Idle THEN {o} ELSE {}
  /\ UNCHANGED <<lock, inbox, dead, local, handled, got, put, dropped, lost, robbed, crashes, stalls>>

-----------------------------------------------------------------------------
(* acquireLock *)

\* clearStaleLock: the process is gone, the lock is old, or there is nothing in it.
\* Mutant: the process is not looked for.
StaleByAge == holder # None /\ (old \/ ~filled)
Stale == holder # None /\ (Proc[holder] \in dead \/ old \/ ~filled)

NoLock == holder' = None /\ filled' = FALSE /\ old' = FALSE

\* Before every attempt but the first.
Judge(o) ==
  /\ pc[o] = "try" /\ tries[o] > 0 /\ MayRun(o)
  /\ Goto(o, IF Stale THEN "unlink" ELSE "create")
  /\ UNCHANGED <<lock, inbox, dead, local, handled, got, past>>

\* The lock it has found stale, or another one by now.
Unlink(o) ==
  /\ pc[o] = "unlink"
  /\ NoLock
  /\ robbed' = (robbed \/ (holder # None /\ Proc[holder] \notin dead))
  /\ Goto(o, "create")
  /\ UNCHANGED <<inbox, dead, local, handled, got, put, dropped, lost, alone, crashes, stalls>>

\* The lock file is created exclusively; if it exists, the operation sleeps or gives up.
\* Mutant: it is opened as any file.
CreateAnyway(o) ==
  /\ pc[o] = "create" \/ (pc[o] = "try" /\ tries[o] = 0 /\ MayRun(o))
  /\ holder' = o /\ filled' = FALSE /\ old' = FALSE
  /\ Goto(o, "fill")
  /\ UNCHANGED <<tries, found, buf, inbox, dead, handled, got, past>>
Create(o) ==
  /\ pc[o] = "create" \/ (pc[o] = "try" /\ tries[o] = 0 /\ MayRun(o))
  /\ \/ /\ holder = None
        /\ holder' = o /\ filled' = FALSE /\ old' = FALSE
        /\ Goto(o, "fill") /\ UNCHANGED tries
     \/ /\ holder # None /\ tries[o] < Retries
        /\ Goto(o, "try") /\ tries' = [tries EXCEPT ![o] = @ + 1]
        /\ UNCHANGED lock
     \/ /\ holder # None /\ tries[o] = Retries
        /\ Goto(o, "failed") /\ tries' = [tries EXCEPT ![o] = 0]
        /\ UNCHANGED lock
  /\ UNCHANGED <<found, buf, inbox, dead, handled, got, past>>

Fill(o) ==
  /\ pc[o] = "fill"
  /\ filled' = (filled \/ holder = o)
  /\ Goto(o, "locked")
  /\ UNCHANGED <<holder, old, inbox, dead, local, handled, got, past>>

-----------------------------------------------------------------------------
(* What is done with the lock *)

Looks(o) == o \in Waits /\ ~found[o]

\* readInboxFile, and the first half of writeInboxFile: opening the file empties it.  What
\* another process might do between the two it might as well do after them.
Read(o) ==
  /\ pc[o] = "locked" /\ MayRun(o)
  /\ buf' = [buf EXCEPT ![o] = inbox]
  /\ IF Looks(o) THEN Goto(o, "unlock") /\ UNCHANGED inbox ELSE Goto(o, "write") /\ inbox' = <<>>
  /\ UNCHANGED <<lock, dead, tries, found, handled, got, past>>

Queue == INSTANCE MessageQueue WITH
  Messages <- Sends, box <- inbox

\* What an operation writes: the message behind the newest, nothing, or all but the reply.
\* Mutant: the newest make room for a message.
WrittenBeforeNewest(o) ==
  IF o \in Sends THEN Append(SubSeq(buf[o], 1, IF Len(buf[o]) < Capacity THEN Len(buf[o]) ELSE Capacity - 1), o)
  ELSE IF o \in Polls THEN <<>> ELSE Queue!Without(buf[o], Reply[o])
Written(o) ==
  IF o \in Sends THEN Append(Queue!Newest(buf[o]), o)
  ELSE IF o \in Polls THEN <<>> ELSE Queue!Without(buf[o], Reply[o])

WriteInbox(o) ==
  /\ pc[o] = "write"
  /\ inbox' = Written(o)
  /\ put' = IF o \in Sends THEN put \cup {o} ELSE put
  /\ dropped' = IF o \in Sends THEN dropped \cup (ToSet(buf[o]) \ ToSet(Written(o))) ELSE dropped
  /\ Goto(o, "unlock")
  /\ UNCHANGED <<lock, dead, local, handled, got, lost, robbed, alone, crashes, stalls>>

Has(o) == o \in Waits /\ Reply[o] \in ToSet(buf[o])

\* release removes the lock file, its own or not.  A wait that has seen its reply takes the
\* lock again to consume it, and returns it whether it is still there or not.
\* Mutant: an inbox that was read is dispatched only by the next poll.
UnlockUndispatched(o) ==
  /\ pc[o] = "unlock"
  /\ NoLock
  /\ tries' = [tries EXCEPT ![o] = 0]
  /\ buf' = IF o \in Polls THEN buf ELSE [buf EXCEPT ![o] = <<>>]
  /\ \/ o \in Sends \cup Polls /\ Goto(o, "done") /\ UNCHANGED <<found, got>>
     \/ Looks(o) /\ Has(o) /\ Goto(o, "try") /\ found' = [found EXCEPT ![o] = TRUE] /\ UNCHANGED got
     \/ Looks(o) /\ ~Has(o) /\ Goto(o, "sleep") /\ UNCHANGED <<found, got>>
     \/ o \in Waits /\ found[o] /\ Goto(o, "done") /\ got' = got \cup {Reply[o]} /\ UNCHANGED found
  /\ UNCHANGED <<inbox, dead, handled, past>>
Unlock(o) ==
  /\ pc[o] = "unlock"
  /\ NoLock
  /\ tries' = [tries EXCEPT ![o] = 0]
  /\ buf' = IF o \in Polls THEN buf ELSE [buf EXCEPT ![o] = <<>>]
  /\ \/ o \in Sends /\ Goto(o, "done") /\ UNCHANGED <<found, got>>
     \/ o \in Polls /\ Goto(o, "dispatch") /\ UNCHANGED <<found, got>>
     \/ Looks(o) /\ Has(o) /\ Goto(o, "try") /\ found' = [found EXCEPT ![o] = TRUE] /\ UNCHANGED got
     \/ Looks(o) /\ ~Has(o) /\ Goto(o, "sleep") /\ UNCHANGED <<found, got>>
     \/ o \in Waits /\ found[o] /\ Goto(o, "done") /\ got' = got \cup {Reply[o]} /\ UNCHANGED found
  /\ UNCHANGED <<inbox, dead, handled, past>>

\* waitForReply looks again, or its time is up.
Wake(o) ==
  /\ pc[o] = "sleep"
  /\ Goto(o, "try") \/ Goto(o, "timeout")
  /\ UNCHANGED <<lock, inbox, dead, local, handled, got, past>>

\* The poller hands the messages to the handlers, one after the other; a handler that throws
\* does not keep the others from running.
Dispatch(o) ==
  /\ pc[o] = "dispatch"
  /\ IF buf[o] = <<>>
     THEN Goto(o, "done") /\ UNCHANGED <<buf, handled>>
     ELSE /\ handled' = Append(handled, Head(buf[o]))
          /\ buf' = [buf EXCEPT ![o] = Tail(@)]
          /\ UNCHANGED pc
  /\ UNCHANGED <<lock, inbox, dead, tries, found, got, past>>

-----------------------------------------------------------------------------
\* Messages that are in the memory of an operation and nowhere else.
Hands(o) ==
  IF pc[o] = "write" \/ (o \in Polls /\ pc[o] \in {"unlock", "dispatch"}) THEN ToSet(buf[o])
  ELSE IF o \in Waits /\ found[o] /\ pc[o] = "unlock" THEN ToSet(buf[o]) \cap {Reply[o]} ELSE {}

\* A process is killed; its lock stays.
Crash(p) ==
  /\ p \notin dead /\ crashes < MaxCrashes
  /\ crashes' = crashes + 1
  /\ dead' = dead \cup {p}
  /\ pc' = [o \in Ops |-> IF Proc[o] = p /\ pc[o] \notin Idle THEN "died" ELSE pc[o]]
  /\ lost' = lost \cup UNION {Hands(o) : o \in {x \in Ops : Proc[x] = p}}
  /\ tries' = [o \in Ops |-> IF Proc[o] = p THEN 0 ELSE tries[o]]
  /\ buf' = [o \in Ops |-> IF Proc[o] = p THEN <<>> ELSE buf[o]]
  /\ UNCHANGED <<lock, inbox, found, handled, got, put, dropped, robbed, alone, stalls>>

\* The holder does nothing for thirty seconds.
Stall ==
  /\ holder # None /\ Proc[holder] \notin dead /\ filled /\ ~old /\ stalls < MaxStalls
  /\ old' = TRUE /\ stalls' = stalls + 1
  /\ UNCHANGED <<holder, filled, inbox, dead, pc, local, handled, got, put, dropped, lost, robbed, alone, crashes>>

Next ==
  \/ \E o \in Ops :
       \/ Start(o) \/ Judge(o) \/ Unlink(o) \/ Create(o) \/ Fill(o) \/ Read(o)
       \/ WriteInbox(o) \/ Unlock(o) \/ Wake(o) \/ Dispatch(o)
  \/ \E p \in Procs : Crash(p)
  \/ Stall

Spec == Init /\ [][Next]_vars

-----------------------------------------------------------------------------
\* The lock, the inbox and the operations.
TypeOK ==
  /\ holder \in Ops \cup {None} /\ filled \in BOOLEAN /\ old \in BOOLEAN
  /\ inbox \in Seq(Sends) /\ dead \subseteq Procs
  /\ pc \in [Ops -> Idle \cup Section \cup {"try", "create", "unlink", "sleep", "dispatch"}]
  /\ tries \in [Ops -> 0..Retries] /\ found \in [Ops -> BOOLEAN]
  /\ buf \in [Ops -> Seq(Sends)]
  /\ handled \in Seq(Sends) /\ got \subseteq Sends
  /\ put \subseteq Sends /\ dropped \subseteq Sends /\ lost \subseteq Sends
  /\ robbed \in BOOLEAN /\ alone \subseteq Ops /\ crashes \in Nat /\ stalls \in Nat

\* Two operations are at work on the inbox together only after the lock of one that was at
\* work has been removed as stale: crashes alone do not break the lock.
Exclusive == ~robbed => \A o, p \in Ops : pc[o] \in Section /\ pc[p] \in Section => o = p

\* A message whose send has returned is in the inbox or in the hands of an operation until it
\* is dispatched, returned by a wait, has made room, or its reader died with it.
Kept ==
  ~robbed => \A m \in Sends :
    pc[m] = "done" => m \in ToSet(inbox) \cup ToSet(handled) \cup got \cup dropped \cup lost
                            \cup UNION {Hands(o) : o \in Ops}

\* A lock that was left behind by a process that died, filled or not, never makes an operation
\* fail that runs by itself.
AloneSucceeds == \A o \in alone : pc[o] # "failed"

\* The content of the inbox while it is being rewritten is what it was before.
Box == IF \E o \in Ops : pc[o] = "write" THEN buf[CHOOSE o \in Ops : pc[o] = "write"] ELSE inbox

Abstract == INSTANCE MessageQueue WITH Messages <- Sends, box <- Box

\* As long as no lock is removed from an operation at work, the inbox is a queue: messages
\* leave in the order in which they came, none comes back, and none leaves without a reader
\* or a crash.
KeepsQueue == Abstract!Init /\ [][~robbed' => Abstract!Next]_<<Box, put>>
=============================================================================
