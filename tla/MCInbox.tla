------------------------------ MODULE MCInbox ------------------------------
(* Small instances of Inbox: which messages arrive is in the definitions below. *)
EXTENDS Inbox, TLC

CONSTANTS e1, e2, s1, m1, m2, p1, lead, fresh, won, b1, b2

OneContactPhone == [o \in Ops |-> p1]

\* e1 and e2 are two deliveries of message m1, s1 sends another message.
DeliveriesAndSend == [o \in Ops |-> IF o = s1 THEN m2 ELSE m1]

\* e1 is the echo of send s1, e2 is a message of the client.
EchoAndMessage == [o \in Ops |-> IF o = e2 THEN m2 ELSE m1]

\* One board with a lead and a won column.
OneBoard == [col \in Columns |-> b1]

\* A board with one column; another, with a terminal column too, is seeded when it is gone.
SeededBoard == [col \in Columns |-> IF col = lead THEN b1 ELSE b2]

Symmetry == Permutations(Contacts) \cup Permutations(Cards) \cup Permutations(Workers)
=============================================================================
