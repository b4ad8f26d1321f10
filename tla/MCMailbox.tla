----------------------------- MODULE MCMailbox -----------------------------
(* Small instances of Mailbox. *)
EXTENDS Mailbox, TLC

CONSTANTS s1, s2, s3, poll, wait, agent, mate1, mate2

\* The poller and the wait run in the agent's own process.
ProcOf == [o \in Ops |-> IF o \in Polls \cup Waits THEN agent ELSE IF o = s1 THEN mate1 ELSE mate2]
ReplyOf == [w \in Waits |-> s1]

Symmetry == Permutations({s2, s3})
=============================================================================
