----------------------------- MODULE AppendLog -----------------------------
(* What the transcript of a session promises to those who read it: what has   *)
(* been accepted comes into the log at most once and stays at its place, and  *)
(* only an outage (a crash, a disk that takes a part of a write) loses any of *)
(* it: what had not reached the disk, and the one entry that follows a line   *)
(* the outage tore.                                                           *)
EXTENDS Naturals, FiniteSets, Sequences, SequencesExt

CONSTANTS Entries, Tear

VARIABLES
  accepted,  \* entries that were written to the log
  held,      \* those of them that are still to reach it
  log,       \* entries, and ends of lines that were torn, in the order of the file
  lost,      \* entries that never will be in it
  outages    \* how many there have been

vars == <<accepted, held, log, lost, outages>>

\* The places of l where a reader finds an entry: one that follows a torn line is part of that
\* line, and skipped with it.
Readable(l) == {i \in DOMAIN l : l[i] # Tear /\ (i > 1 => l[i - 1] # Tear)}

Init == accepted = {} /\ held = {} /\ log = <<>> /\ lost = {} /\ outages = 0

Accept(e) ==
  /\ e \notin accepted
  /\ accepted' = accepted \cup {e} /\ held' = held \cup {e}
  /\ UNCHANGED <<log, lost, outages>>

Write(S) ==
  /\ \E batch \in SetToSeqs(S) : log' = log \o batch
  /\ held' = held \ S
  /\ UNCHANGED <<accepted, lost, outages>>

Outage(S, L) ==
  /\ \E batch \in SetToSeqs(S), torn \in BOOLEAN :
       log' = log \o batch \o IF torn THEN <<Tear>> ELSE <<>>
  /\ held' = held \ (S \cup L) /\ lost' = lost \cup L
  /\ outages' = outages + 1
  /\ UNCHANGED accepted

Next ==
  \/ \E e \in Entries : Accept(e)
  \/ \E S \in (SUBSET held) \ {{}} : Write(S)
  \/ \E S \in SUBSET held : \E L \in SUBSET (held \ S) : Outage(S, L)

Spec == Init /\ [][Next]_vars

-----------------------------------------------------------------------------
\* Nobody reads an entry twice.
ReadOnce == \A i, j \in Readable(log) : log[i] = log[j] => i = j

\* What has been read is read again, at its place: by the next reader, and by the process that
\* resumes the session.
StaysReadable ==
  [][\A i \in Readable(log) : i \in Readable(log') /\ log'[i] = log[i]]_vars
=============================================================================
