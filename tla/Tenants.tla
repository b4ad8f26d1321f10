------------------------------- MODULE Tenants -------------------------------
(***************************************************************************)
(* The tenant store: one JSON file that every worker of the cluster reads  *)
(* without a lock and rewrites whole under an advisory lock, and the       *)
(* requests that use it: the quota counter and the turns that add to it    *)
(* after the fact, Stripe's events, provisioning after a checkout, signup, *)
(* changes of a password, and the monthly rotation.                        *)
(*                                                                         *)
(* A request stands for one handler running on a worker of its own: two    *)
(* requests of one worker interleave less, only at their awaits.  Writing  *)
(* truncates the file and then fills it, so a reader in between parses     *)
(* nothing and gets an empty store.  A killed worker leaves its lock       *)
(* behind, which is taken over once it is stale.                           *)
(***************************************************************************)
EXTENDS Naturals

CONSTANTS
  Requests,      \* handlers that may run at once
  Ids,           \* tenant ids to draw from (randomUUID)
  Emails,
  Passwords,     \* temporary passwords to draw from (randomBytes)
  HardLimit,     \* twice the plan's messages: the quota check passes no more
  None,          \* no row, no tenant, no email, no password
  Own, Renewed,  \* passwords a user or an administrator chose
  Free, Abandoned,
  KilledInWrite, \* may a kill fall between truncating the file and filling it?
  MaxRequests,   \* bound: requests ever started
  MaxKills       \* bound: workers ever killed

Statuses == {"active", "suspended", "cancelled", "past_due"}
Chosen == {Own, Renewed}
Secrets == Passwords \cup Chosen \cup {None}

Row == [email : Emails, status : Statuses, count : Nat,
        linked : BOOLEAN, pass : Secrets]

ASSUME LockAssumption == Free \notin Requests /\ Abandoned \notin Requests /\ Free # Abandoned
ASSUME BoundsAssumption ==
  HardLimit \in Nat \ {0} /\ MaxRequests \in Nat /\ MaxKills \in Nat /\ KilledInWrite \in BOOLEAN
ASSUME NoneAssumption == None \notin Row /\ None \notin Ids /\ None \notin Emails
ASSUME SecretsAssumption == None \notin Passwords \cup Chosen /\ Own \notin Passwords

VARIABLES
  table,    \* the file's tenants, as last completely written
  whole,    \* FALSE while the file is truncated and not yet filled
  lock,     \* who holds tenants.json.lock
  pc, job, snap,  \* of each request: where it is, what it does, its copy of the store
  recorded, \* history: messages let through or reported since the tenant's last reset
  mailed,   \* history: <<email, password>> sent in welcome messages
  changed,  \* history: the password of a tenant changed since it got its credentials
  minted,   \* ids and passwords already drawn
  started, kills

vars == <<table, whole, lock, pc, job, snap, recorded, mailed, changed, minted, started, kills>>

Tables == [Ids -> Row \cup {None}]
Empty == [i \in Ids |-> None]
In(t) == {i \in Ids : t[i] # None}

Ops == {"count", "reset", "status", "touch", "upgrade", "create", "creds", "usage", "password"}

\* at: the tenant changed now; rest: those the handler's loop changes after it;
\* counts: it adds a message to the counter; pass: the password that is stored.
Job == [op : Ops, at : Ids \cup {None}, rest : SUBSET Ids, status : Statuses,
        email : Emails \cup {None}, pass : Secrets, counts : BOOLEAN]

\* A change to one tenant and then to each of S; the creation of one.
Change(o, i, S, st) == [op |-> o, at |-> i, rest |-> S, status |-> st,
                        email |-> None, pass |-> None, counts |-> FALSE]
Creation(e, pw) == [op |-> "create", at |-> None, rest |-> {}, status |-> "active",
                    email |-> e, pass |-> pw, counts |-> FALSE]
NewPassword(i, pw) == [op |-> "password", at |-> i, rest |-> {}, status |-> "active",
                       email |-> None, pass |-> pw, counts |-> FALSE]
NoJob == Change("touch", None, {}, "active")

Subscriber(e) ==
  [email |-> e, status |-> "active", count |-> 0, linked |-> TRUE, pass |-> Own]

\* The deployment has been running: one tenant with a subscription, or none yet.
Init ==
  /\ \/ table = Empty
     \/ \E i \in Ids, e \in Emails : table = [Empty EXCEPT ![i] = Subscriber(e)]
  /\ whole = TRUE /\ lock = Free
  /\ pc = [r \in Requests |-> "idle"]
  /\ job = [r \in Requests |-> NoJob]
  /\ snap = [r \in Requests |-> Empty]
  /\ recorded = [i \in Ids |-> 0]
  /\ mailed = {} /\ changed = [i \in Ids |-> None] /\ minted = In(table)
  /\ started = 0 /\ kills = 0

-----------------------------------------------------------------------------
(* What a handler reads before it changes anything, without the lock.      *)

\* readStore: a file that does not parse is an empty store.
Seen == IF whole THEN table ELSE Empty

Begin(r, at, j) ==
  /\ pc[r] = "idle" /\ started < MaxRequests
  /\ started' = started + 1
  /\ pc' = [pc EXCEPT ![r] = at]
  /\ job' = [job EXCEPT ![r] = j]
  /\ UNCHANGED <<table, whole, lock, snap, recorded, mailed, changed, kills>>

\* A change to each of a set, in the order of the handler's loop.
BeginAll(r, o, S, st) ==
  /\ \E i \in S : Begin(r, "want", Change(o, i, S \ {i}, st))
  /\ UNCHANGED minted

\* A message for a tenant's channel, which holds the tenant's id: the quota
\* check is all under the lock.
Message(r) ==
  /\ \E i \in In(table) : Begin(r, "want", Change("count", i, {}, "active"))
  /\ UNCHANGED minted

\* A turn of the server's engine: what a user's session asks is checked against
\* no quota, and is added to the counter when the turn is over.
Turn(r) ==
  /\ \E i \in In(table) : Begin(r, "awaiting", Change("usage", i, {}, "active"))
  /\ UNCHANGED minted

\* touchApiKey and the like: the tenants are rewritten as they were.
Touch(r) == Begin(r, "want", NoJob) /\ UNCHANGED minted

\* customer.subscription.updated and .deleted, invoice.payment_failed: an event
\* may come at any time, again, or after a later one.
SubscriptionEvent(r, st) ==
  \E i \in In(Seen) : Seen[i].linked /\ BeginAll(r, "status", {i}, st)

\* invoice.paid looks at the status before it takes the lock.
InvoicePaid(r) ==
  \E i \in In(Seen) :
    /\ Seen[i].linked /\ Seen[i].status \in {"past_due", "suspended"}
    /\ BeginAll(r, "status", {i}, "active")

\* rotateMonthlyAllTenants, and the administrator's reset of one tenant.
Rotate(r) == BeginAll(r, "reset", In(Seen), "active")

Held(e) == {i \in In(Seen) : Seen[i].email = e}

\* provisionFromSession: a known email is upgraded, a new one gets a password
\* and goes on after bcrypt.
ProvisionKnown(r, e) ==
  \E i \in Held(e) : BeginAll(r, "upgrade", {i}, "active")

ProvisionNew(r, e) ==
  /\ Held(e) = {}
  /\ \E pw \in Passwords \ minted :
       /\ Begin(r, "awaiting", Creation(e, pw))
       /\ minted' = minted \cup {pw}

\* POST /auth/signup: the same steps with the user's own password.
Signup(r, e) ==
  /\ Held(e) = {}
  /\ Begin(r, "awaiting", Creation(e, Own))
  /\ UNCHANGED minted

\* POST /auth/change-password: the old password is compared with the hash that was
\* read, the new one hashed, and stored whatever was stored meanwhile.
ChangePassword(r) ==
  /\ \E i \in In(Seen), pw \in Chosen :
       Seen[i].pass # None /\ Begin(r, "awaiting", NewPassword(i, pw))
  /\ UNCHANGED minted

\* The administrator's PATCH of a tenant stores its body, here a password_hash.
PatchPassword(r) ==
  /\ \E i \in In(table), pw \in Chosen : Begin(r, "want", NewPassword(i, pw))
  /\ UNCHANGED minted

-----------------------------------------------------------------------------
(* mutateStore.                                                            *)

Goto(r, at) == pc' = [pc EXCEPT ![r] = at]

\* bcrypt is done, or the engine's turn is.
Resumes(r) ==
  /\ pc[r] = "awaiting" /\ Goto(r, "want")
  /\ UNCHANGED <<table, whole, lock, job, snap, recorded, mailed, changed, minted, started, kills>>

\* The handler returns or throws, and its locals go.
Ends(r) ==
  /\ Goto(r, "idle")
  /\ job' = [job EXCEPT ![r] = NoJob] /\ snap' = [snap EXCEPT ![r] = Empty]

\* It goes on with the next change.
Continues(r, j) == Goto(r, "want") /\ job' = [job EXCEPT ![r] = j] /\ UNCHANGED snap

\* Mutant of Acquire: the lock is not waited for.
AcquireAnyway(r) ==
  /\ pc[r] = "want"
  /\ lock' = r /\ snap' = [snap EXCEPT ![r] = Seen] /\ Goto(r, "loaded")
  /\ UNCHANGED <<table, whole, job, recorded, mailed, changed, minted, started, kills>>

\* lockSync, then readStore.
Acquire(r) ==
  /\ pc[r] = "want" /\ lock \in {Free, Abandoned}
  /\ lock' = r /\ snap' = [snap EXCEPT ![r] = Seen] /\ Goto(r, "loaded")
  /\ UNCHANGED <<table, whole, job, recorded, mailed, changed, minted, started, kills>>

\* Ten attempts, about 1.3 s, while another holds the lock or left it behind
\* (stale after 8 s): the handler throws.
LockFails(r) ==
  /\ pc[r] = "want" /\ lock # Free
  /\ Ends(r)
  /\ UNCHANGED <<table, whole, lock, recorded, mailed, changed, minted, started, kills>>

\* createTenant throws: the lock is released and nothing is written.
Refused(r) ==
  /\ pc[r] = "loaded" /\ job[r].op = "create"
  /\ \E i \in In(snap[r]) : snap[r][i].email = job[r].email
  /\ lock' = Free /\ Ends(r)
  /\ UNCHANGED <<table, whole, recorded, mailed, changed, minted, started, kills>>

Allowed(row) == row.status \notin {"suspended", "cancelled"} /\ row.count < HardLimit

\* Does the job add a message to the row's counter?
Counts(j, row) == j.op = "usage" \/ (j.op = "count" /\ Allowed(row))

WithCount(row, n) == [row EXCEPT !.count = n]

\* Mutant of Mutated: an upgrade stores the credentials it does not have.
MutatedWipesPass(j, row) ==
  IF j.op \in {"count", "usage"} THEN (IF Counts(j, row) THEN WithCount(row, row.count + 1) ELSE row)
  ELSE IF j.op = "reset" THEN WithCount(row, 0)
  ELSE IF j.op = "status" THEN [row EXCEPT !.status = j.status]
  ELSE IF j.op = "upgrade" THEN [row EXCEPT !.status = "active", !.linked = TRUE, !.pass = j.pass]
  ELSE IF j.op = "password" THEN [row EXCEPT !.pass = j.pass]
  ELSE [row EXCEPT !.pass = j.pass, !.linked = (j.pass # Own), !.status = "active"]

\* The row the mutator leaves.
Mutated(j, row) ==
  IF j.op \in {"count", "usage"} THEN (IF Counts(j, row) THEN WithCount(row, row.count + 1) ELSE row)
  ELSE IF j.op = "reset" THEN WithCount(row, 0)
  ELSE IF j.op = "status" THEN [row EXCEPT !.status = j.status]
  ELSE IF j.op = "upgrade" THEN [row EXCEPT !.status = "active", !.linked = TRUE]
  ELSE IF j.op = "password" THEN [row EXCEPT !.pass = j.pass]
  ELSE IF j.pass = Own THEN [row EXCEPT !.pass = j.pass, !.linked = FALSE]
  ELSE [row EXCEPT !.pass = j.pass, !.linked = TRUE, !.status = "active"]

\* writeFileSync opens the file with O_TRUNC.
Truncates(r) == whole' = FALSE /\ Goto(r, "writing")

\* Mutant of Mutate: the lock is released before the store is written.
MutateUnlocked(r) ==
  /\ pc[r] = "loaded" /\ job[r].op # "create"
  /\ IF job[r].at \in In(snap[r])
       THEN /\ snap' = [snap EXCEPT ![r][job[r].at] = Mutated(job[r], snap[r][job[r].at])]
            /\ job' = [job EXCEPT ![r].counts = Counts(job[r], snap[r][job[r].at])]
       ELSE UNCHANGED <<snap, job>>
  /\ Truncates(r) /\ lock' = Free
  /\ UNCHANGED <<table, recorded, mailed, changed, minted, started, kills>>

\* A tenant that is not there: the mutator returns null and the store is
\* written back.
Mutate(r) ==
  /\ pc[r] = "loaded" /\ job[r].op # "create"
  /\ IF job[r].at \in In(snap[r])
       THEN /\ snap' = [snap EXCEPT ![r][job[r].at] = Mutated(job[r], snap[r][job[r].at])]
            /\ job' = [job EXCEPT ![r].counts = Counts(job[r], snap[r][job[r].at])]
       ELSE UNCHANGED <<snap, job>>
  /\ Truncates(r)
  /\ UNCHANGED <<table, lock, recorded, mailed, changed, minted, started, kills>>

NewRow(e) == [email |-> e, status |-> "active", count |-> 0, linked |-> FALSE, pass |-> None]

\* Mutant of CreateTenant: the email is not looked up again under the lock.
CreateTenantUnchecked(r) ==
  /\ pc[r] = "loaded" /\ job[r].op = "create"
  /\ \E i \in Ids \ minted :
       /\ snap' = [snap EXCEPT ![r][i] = NewRow(job[r].email)]
       /\ job' = [job EXCEPT ![r].at = i]
       /\ minted' = minted \cup {i}
  /\ Truncates(r)
  /\ UNCHANGED <<table, lock, recorded, mailed, changed, started, kills>>

CreateTenant(r) ==
  /\ pc[r] = "loaded" /\ job[r].op = "create"
  /\ \A i \in In(snap[r]) : snap[r][i].email # job[r].email
  /\ \E i \in Ids \ minted :
       /\ snap' = [snap EXCEPT ![r][i] = NewRow(job[r].email)]
       /\ job' = [job EXCEPT ![r].at = i]
       /\ minted' = minted \cup {i}
  /\ Truncates(r)
  /\ UNCHANGED <<table, lock, recorded, mailed, changed, started, kills>>

Write(r) ==
  /\ pc[r] = "writing" /\ Goto(r, "written")
  /\ table' = snap[r] /\ whole' = TRUE
  /\ recorded' = IF job[r].op = "reset" THEN [recorded EXCEPT ![job[r].at] = 0]
                 ELSE IF job[r].counts THEN [recorded EXCEPT ![job[r].at] = recorded[job[r].at] + 1]
                 ELSE recorded
  /\ changed' = IF job[r].op = "password" THEN [changed EXCEPT ![job[r].at] = job[r].pass]
                ELSE IF job[r].op = "creds" THEN [changed EXCEPT ![job[r].at] = None]
                ELSE changed
  /\ UNCHANGED <<lock, job, snap, mailed, minted, started, kills>>

\* The lock is released and the handler goes on: a new tenant gets its
\* credentials, the next one of a loop its change; provisioning ends with the
\* welcome messages.
Release(r) ==
  /\ pc[r] = "written" /\ lock' = Free
  /\ IF job[r].op = "create"
       THEN Continues(r, [job[r] EXCEPT !.op = "creds"])
     ELSE IF job[r].rest # {}
       THEN \E i \in job[r].rest :
              Continues(r, [job[r] EXCEPT !.at = i, !.rest = job[r].rest \ {i}])
     ELSE Ends(r)
  /\ mailed' = IF job[r].op = "creds" /\ job[r].pass # Own
                 THEN mailed \cup {<<job[r].email, job[r].pass>>} ELSE mailed
  /\ UNCHANGED <<table, whole, recorded, changed, minted, started, kills>>

\* The worker of a request is killed; what it held stays locked, and a file it
\* had truncated stays so: the next reader finds an empty store.
Kill(r) ==
  /\ pc[r] # "idle" /\ kills < MaxKills /\ (pc[r] = "writing" => KilledInWrite)
  /\ kills' = kills + 1
  /\ table' = IF pc[r] = "writing" THEN Empty ELSE table
  /\ whole' = (whole \/ pc[r] = "writing")
  /\ lock' = IF lock = r THEN Abandoned ELSE lock
  /\ Ends(r)
  /\ UNCHANGED <<recorded, mailed, changed, minted, started>>

Starts(r) ==
  \/ Message(r) \/ Turn(r) \/ Touch(r) \/ InvoicePaid(r) \/ Rotate(r)
  \/ ChangePassword(r) \/ PatchPassword(r)
  \/ \E st \in Statuses : SubscriptionEvent(r, st)
  \/ \E e \in Emails : ProvisionKnown(r, e) \/ ProvisionNew(r, e) \/ Signup(r, e)

Next == \E r \in Requests :
  \/ Starts(r) \/ Resumes(r) \/ Acquire(r) \/ LockFails(r)
  \/ Refused(r) \/ Mutate(r) \/ CreateTenant(r)
  \/ Write(r) \/ Release(r) \/ Kill(r)

Spec == Init /\ [][Next]_vars

-----------------------------------------------------------------------------
(* Properties.                                                             *)

\* Every variable keeps its type.
TypeOK ==
  /\ table \in Tables /\ whole \in BOOLEAN
  /\ lock \in Requests \cup {Free, Abandoned}
  /\ pc \in [Requests -> {"idle", "awaiting", "want", "loaded", "writing", "written"}]
  /\ job \in [Requests -> Job] /\ snap \in [Requests -> Tables]
  /\ recorded \in [Ids -> Nat]
  /\ mailed \subseteq Emails \X Passwords /\ changed \in [Ids -> Chosen \cup {None}]
  /\ minted \subseteq Ids \cup Passwords
  /\ started \in 0..MaxRequests /\ kills \in 0..MaxKills

\* No increment is lost and none is refused and counted: the stored counter is
\* the number of messages let through or reported since the last reset, whatever
\* other requests wrote the file meanwhile and whoever was killed.
CountExact == \A i \in In(table) : table[i].count = recorded[i]

\* What the quota check saw still holds when its answer is stored, and with it
\* returned: a message is let through only to a tenant in good standing that is
\* under its hard limit then, whatever turns, events and resets came between.
LetThroughUnderLimit ==
  [][\A r \in Requests :
       Write(r) /\ job[r].op = "count" /\ job[r].counts =>
         /\ job[r].at \in In(table)
         /\ table[job[r].at].count < HardLimit
         /\ table[job[r].at].status \notin {"suspended", "cancelled"}]_vars

\* Two requests that both found the email free before their bcrypt await do not
\* both create a tenant.
OneTenant == \A i, j \in In(table) : table[i].email = table[j].email => i = j

\* The password a welcome message carries works until its user or an administrator
\* changes it, and then the one chosen last does: a checkout delivered twice, a signup
\* beside it, an event that rewrites the row or another change does not put it back.
WelcomeMatches ==
  \A m \in mailed : \E i \in In(table) :
    /\ table[i].email = m[1]
    /\ table[i].pass = IF changed[i] = None THEN m[2] ELSE changed[i]

\* However the requests interleave and die, the file goes through one operation
\* at a time, each applied to what the one before it left, and no tenant goes.
Promise == INSTANCE TenantTable
OneAtATime == Promise!Spec
=============================================================================
