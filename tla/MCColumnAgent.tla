--------------------------- MODULE MCColumnAgent ---------------------------
(* Small instances of ColumnAgent: a lead column whose agent promotes to a  *)
(* second agent column, and the column where a human takes over.            *)
EXTENDS ColumnAgent

CONSTANTS c1, c2, f1, w0, w1, lead, closer

\* The scheduler's worker and another, as two processes of the server.
TwoWorkers == [r \in Runs |-> IF r = c1 THEN w0 ELSE w1]

LeadPromotes == [c \in Columns |-> IF c = lead THEN closer ELSE NoColumn]
NobodyPromotes == [c \in Columns |-> NoColumn]

\* The invariants say nothing of what follows a race, which is never forgotten.
NotRaced == ~raced

=============================================================================
