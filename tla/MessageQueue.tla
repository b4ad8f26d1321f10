---------------------------- MODULE MessageQueue ----------------------------
(* What the inbox of an agent promises: a queue of at most Capacity messages. *)
(* A message is put once, the oldest makes room for it, and readers take all  *)
(* messages or one.  What has left the queue does not come back.              *)
EXTENDS Naturals, Sequences

CONSTANTS Messages, Capacity

VARIABLES box, put

vars == <<box, put>>

Newest(q) == IF Len(q) >= Capacity THEN SubSeq(q, Len(q) - Capacity + 2, Len(q)) ELSE q

\* The messages of q but m, which is at most once among them.
Without(q, m) ==
  LET at == CHOOSE i \in DOMAIN q : q[i] = m
  IN IF \E i \in DOMAIN q : q[i] = m
     THEN SubSeq(q, 1, at - 1) \o SubSeq(q, at + 1, Len(q)) ELSE q

Init == box = <<>> /\ put = {}

Put(m) == m \notin put /\ put' = put \cup {m} /\ box' = Append(Newest(box), m)

TakeAll == box' = <<>> /\ UNCHANGED put

Take(m) == box' = Without(box, m) /\ UNCHANGED put

Next == TakeAll \/ \E m \in Messages : Put(m) \/ Take(m)
=============================================================================
