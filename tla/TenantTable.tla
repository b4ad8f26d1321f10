----------------------------- MODULE TenantTable -----------------------------
(***************************************************************************)
(* What the tenant store promises its callers: a table that one operation  *)
(* changes at a time, each applied to the table the last one left.  A      *)
(* tenant is never removed, what is recorded of it is counted, and         *)
(* a password is mailed only when it is the one stored.                    *)
(***************************************************************************)
EXTENDS Naturals

CONSTANTS Ids, Emails, Passwords, HardLimit, None, Own, Renewed

VARIABLES table, recorded, mailed

Statuses == {"active", "suspended", "cancelled", "past_due"}
Secrets == Passwords \cup {Own, Renewed, None}

Row == [email : Emails, status : Statuses, count : Nat,
        linked : BOOLEAN, pass : Secrets]

In(t) == {i \in Ids : t[i] # None}

Init ==
  /\ table \in [Ids -> Row \cup {None}]
  /\ \A i, j \in In(table) : table[i].email = table[j].email => i = j
  /\ recorded \in [Ids -> Nat] /\ \A i \in In(table) : recorded[i] = table[i].count
  /\ mailed = {}

\* One row is rewritten; what was let through is written with it.
Put(i, row, n) ==
  /\ table' = [table EXCEPT ![i] = row]
  /\ recorded' = [recorded EXCEPT ![i] = n]
  /\ UNCHANGED mailed

Recount(i, n, g) == Put(i, [table[i] EXCEPT !.count = n], g)

Count(i) ==
  /\ table[i].count < HardLimit /\ table[i].status \notin {"suspended", "cancelled"}
  /\ Recount(i, table[i].count + 1, recorded[i] + 1)

\* A turn that is over is counted whatever the limit says.
Report(i) == Recount(i, table[i].count + 1, recorded[i] + 1)

Reset(i) == Recount(i, 0, 0)

\* Status, subscription and password: whatever an event says, the count stays.
Edit(i, st, l, pw) ==
  Put(i, [table[i] EXCEPT !.status = st, !.linked = l, !.pass = pw], recorded[i])

Create(i, e) ==
  /\ table[i] = None
  /\ \A j \in In(table) : table[j].email # e
  /\ Put(i, [email |-> e, status |-> "active", count |-> 0, linked |-> FALSE, pass |-> None], 0)

Mail(i) ==
  /\ table[i].pass \in Passwords
  /\ mailed' = mailed \cup {<<table[i].email, table[i].pass>>}
  /\ UNCHANGED <<table, recorded>>

Next ==
  \/ \E i \in In(table) : Count(i) \/ Report(i) \/ Reset(i) \/ Mail(i)
  \/ \E i \in In(table), st \in Statuses, l \in BOOLEAN, pw \in Secrets : Edit(i, st, l, pw)
  \/ \E i \in Ids, e \in Emails : Create(i, e)

Spec == Init /\ [][Next]_<<table, recorded, mailed>>
=============================================================================
