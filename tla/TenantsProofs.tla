---------------------------- MODULE TenantsProofs ----------------------------
(***************************************************************************)
(* Proofs about the tenant store, for any number of requests, tenants,     *)
(* emails and kills.  The invariant says what each request knows: a        *)
(* request that holds the lock has a copy of the table, or the table with  *)
(* its own change in it, because nobody else writes; a request that        *)
(* created a tenant is the only one to give it credentials.                *)
(***************************************************************************)
EXTENDS Tenants, TLAPS

Edits == {"count", "usage", "reset", "status", "upgrade", "creds", "password"}

\* A request in the middle of provisioning a tenant of its own.
OwnsNew(r) ==
  job[r].op = "creds" \/ (job[r].op = "create" /\ pc[r] \in {"writing", "written"})

Holding == {"loaded", "writing", "written"}

LockOk == \A r \in Requests : (pc[r] \in Holding => lock = r) /\ (lock = r => pc[r] \in Holding)

WholeOk ==
  /\ \A r \in Requests : pc[r] = "writing" => ~whole
  /\ ~whole => \E r \in Requests : pc[r] = "writing"

\* What a job at its place in the handler looks like.
Fits(p, j) ==
  /\ p = "idle" => j = NoJob
  /\ j.counts => j.op \in {"count", "usage"} /\ p \in {"writing", "written"}
  /\ j.op \in {"count", "usage"} => j.rest = {}
  /\ j.op = "touch" => j.at = None /\ j.rest = {}
  /\ j.op \in Edits => j.at \in Ids
  /\ j.op = "password" => j.pass \in Chosen /\ j.rest = {}
  /\ j.op \in {"create", "creds"} => j.email \in Emails /\ j.pass \in Passwords \cup {Own} /\ j.rest = {}
  /\ p = "awaiting" => j.op \in {"create", "usage", "password"}
  /\ j.op = "create" /\ p \in {"writing", "written"} => j.at \in Ids

JobsFit == \A r \in Requests : Fits(pc[r], job[r])

\* The copy and the change a holder of the lock is about to write.
Changed(j, t, s) ==
  IF j.op = "create"
    THEN /\ t[j.at] = None /\ \A i \in In(t) : t[i].email # j.email
         /\ s = [t EXCEPT ![j.at] = NewRow(j.email)]
  ELSE IF j.at \in In(t)
    THEN /\ s = [t EXCEPT ![j.at] = Mutated(j, t[j.at])]
         /\ j.counts = Counts(j, t[j.at])
  ELSE s = t /\ ~j.counts

Copies == \A r \in Requests : pc[r] = "loaded" => snap[r] = table
Plans == \A r \in Requests : pc[r] = "writing" => Changed(job[r], table, snap[r])

Minted ==
  /\ In(table) \subseteq minted
  /\ \A i \in Ids \ minted : recorded[i] = 0
  /\ \A r \in Requests : OwnsNew(r) => job[r].at \in minted
  /\ \A r \in Requests : pc[r] = "writing" /\ job[r].op = "create" => recorded[job[r].at] = 0

\* A tenant that is not there has had nothing let through.
Unused == ~KilledInWrite => \A i \in Ids \ In(table) : recorded[i] = 0

Distinct == \A r, q \in Requests : r # q /\ OwnsNew(r) /\ OwnsNew(q) => job[r].at # job[q].at

\* The row a provisioning request is about to give its credentials: no password has been
\* mailed for its email.
HasRow(j, p, t, sent, ch) ==
  j.op = "creds" \/ (j.op = "create" /\ p = "written") =>
    /\ j.at \in In(t) /\ t[j.at].email = j.email
    /\ IF j.op = "creds" /\ p = "written" THEN t[j.at].pass = j.pass /\ ch[j.at] = None
       ELSE \A m \in sent : m[1] # j.email

NewRows == ~KilledInWrite => \A r \in Requests : HasRow(job[r], pc[r], table, mailed, changed)
Mailed == ~KilledInWrite => WelcomeMatches

IInv ==
  /\ TypeOK /\ LockOk /\ WholeOk /\ JobsFit /\ Copies /\ Plans
  /\ Minted /\ Unused /\ Distinct /\ NewRows
  /\ CountExact /\ OneTenant /\ Mailed

-----------------------------------------------------------------------------
(* Rows and mutators.                                                      *)

LEMMA Recounted ==
  ASSUME NEW row \in Row, NEW n \in Nat
  PROVE  /\ WithCount(row, n) \in Row /\ WithCount(row, n).count = n
         /\ WithCount(row, n).email = row.email /\ WithCount(row, n).pass = row.pass
BY DEF WithCount, Row

\* A mutator leaves a row of the same email.
LEMMA MutatedRow ==
  ASSUME NEW j \in Job, j.op \in Edits, NEW row \in Row
  PROVE  /\ Mutated(j, row) \in Row
         /\ Mutated(j, row).email = row.email
         /\ j.op \notin {"creds", "password"} => Mutated(j, row).pass = row.pass
         /\ j.op \in {"creds", "password"} => Mutated(j, row).pass = j.pass
         /\ j.op = "reset" => Mutated(j, row).count = 0
         /\ Counts(j, row) => Mutated(j, row).count = row.count + 1
         /\ j.op # "reset" /\ ~Counts(j, row) => Mutated(j, row).count = row.count
<1>0. Counts(j, row) => j.op \in {"count", "usage"}
  BY DEF Counts
<1>1. CASE j.op \in {"count", "usage"}
  <2>1. row.count + 1 \in Nat
    BY DEF Row
  <2>2. CASE Counts(j, row)
    <3>1. Mutated(j, row) = WithCount(row, row.count + 1)
      BY <1>1, <2>2 DEF Mutated
    <3> QED BY <1>1, <2>1, <2>2, <3>1, Recounted
  <2>3. CASE ~Counts(j, row)
    BY <1>1, <2>3 DEF Mutated
  <2> QED BY <2>2, <2>3
<1>2. CASE j.op = "reset"
  <2>1. Mutated(j, row) = WithCount(row, 0) /\ ~Counts(j, row)
    BY <1>0, <1>2 DEF Mutated
  <2>2. 0 \in Nat
    OBVIOUS
  <2> QED BY <1>2, <2>1, <2>2, Recounted
<1>3. CASE j.op = "status"
  BY <1>0, <1>3 DEF Mutated, Row, Job
<1>4. CASE j.op = "upgrade"
  BY <1>0, <1>4 DEF Mutated, Row, Statuses
<1>5. CASE j.op = "creds"
  BY <1>0, <1>5 DEF Mutated, Row, Job, Statuses
<1>6. CASE j.op = "password"
  BY <1>0, <1>6 DEF Mutated, Row, Job
<1> QED BY <1>1, <1>2, <1>3, <1>4, <1>5, <1>6 DEF Edits

LEMMA NewRowIsRow ==
  ASSUME NEW e \in Emails
  PROVE  NewRow(e) \in Row /\ NewRow(e).email = e /\ NewRow(e).count = 0 /\ NewRow(e).pass = None
BY BoundsAssumption DEF NewRow, Row, Statuses, Secrets

\* A row that is there is a row.
LEMMA InRow ==
  ASSUME NEW t \in Tables, NEW i \in In(t)
  PROVE  t[i] \in Row /\ i \in Ids
BY DEF Tables, In

\* The table a change leaves.
LEMMA ChangedTable ==
  ASSUME NEW t \in Tables, NEW s, NEW j \in Job, Fits("writing", j), Changed(j, t, s)
  PROVE  /\ s \in Tables
         /\ In(t) \subseteq In(s)
         /\ \A i \in In(s) : i \in In(t) \/ (j.op = "create" /\ i = j.at)
         /\ \A i \in In(t) : i # j.at => s[i] = t[i]
         /\ \A i \in In(t) : s[i].email = t[i].email
         /\ j.op = "create" => s[j.at] = NewRow(j.email) /\ j.at \in In(s) /\ j.at \notin In(t)
         /\ j.op # "create" /\ j.at \in In(t) => s[j.at] = Mutated(j, t[j.at])
<1>1. CASE j.op = "create"
  <2>1. j.at \in Ids /\ j.email \in Emails
    BY <1>1 DEF Fits
  <2>2. NewRow(j.email) \in Row /\ NewRow(j.email) # None
    BY <2>1, NewRowIsRow, NoneAssumption
  <2>3. t[j.at] = None /\ s = [t EXCEPT ![j.at] = NewRow(j.email)]
    BY <1>1 DEF Changed
  <2> QED BY <1>1, <2>1, <2>2, <2>3 DEF Tables, In
<1>2. CASE j.op # "create" /\ j.at \in In(t)
  <2>1. j.op \in Edits /\ t[j.at] \in Row /\ j.at \in Ids
    BY <1>2, InRow, NoneAssumption DEF Fits, Job, Ops, Edits
  <2>2. Mutated(j, t[j.at]) \in Row /\ Mutated(j, t[j.at]).email = t[j.at].email
    BY <2>1, MutatedRow
  <2>3. Mutated(j, t[j.at]) # None
    BY <2>2, NoneAssumption
  <2>4. s = [t EXCEPT ![j.at] = Mutated(j, t[j.at])]
    BY <1>2 DEF Changed
  <2> HIDE DEF Mutated
  <2> QED BY <1>2, <2>1, <2>2, <2>3, <2>4 DEF Tables, In
<1>3. CASE j.op # "create" /\ j.at \notin In(t)
  BY <1>3 DEF Changed
<1> QED BY <1>1, <1>2, <1>3

-----------------------------------------------------------------------------
(* The invariant holds at first and is kept by every step.                 *)

LEMMA NoJobIsJob == NoJob \in Job /\ Fits("idle", NoJob) /\ Fits("want", NoJob)
BY DEF NoJob, Change, Job, Ops, Statuses, Secrets, Fits, Edits

LEMMA EmptyIsTable == Empty \in Tables /\ In(Empty) = {}
BY DEF Empty, Tables, In

LEMMA Initially == Init => IInv
<1> SUFFICES ASSUME Init PROVE IInv
  OBVIOUS
<1>0. /\ table \in Tables
      /\ \A i \in In(table) : table[i].count = 0
      /\ \A i, k \in In(table) : i = k
  <2>1. CASE table = Empty
    BY <2>1, EmptyIsTable
  <2>2. CASE \E i \in Ids, e \in Emails : table = [Empty EXCEPT ![i] = Subscriber(e)]
    <3>1. PICK i \in Ids, e \in Emails : table = [Empty EXCEPT ![i] = Subscriber(e)]
      BY <2>2
    <3>2. Subscriber(e) \in Row /\ Subscriber(e).count = 0
      BY DEF Subscriber, Row, Statuses, Secrets, Chosen
    <3> QED BY <3>1, <3>2, EmptyIsTable DEF Tables, Empty, In
  <2> QED BY <2>1, <2>2 DEF Init
<1>1. TypeOK
  <2>1. 0 \in 0..MaxRequests /\ 0 \in 0..MaxKills
    BY BoundsAssumption
  <2> QED BY <1>0, <2>1, NoJobIsJob, EmptyIsTable DEF Init, TypeOK, In
<1>2. LockOk /\ WholeOk /\ Copies /\ Plans
  BY LockAssumption DEF Init, LockOk, WholeOk, Copies, Plans, Holding
<1>3. JobsFit
  BY NoJobIsJob DEF Init, JobsFit
<1>4. \A r \in Requests : ~OwnsNew(r)
  BY DEF Init, OwnsNew, NoJob, Change
<1>5. Minted /\ Unused /\ Distinct
  BY <1>4 DEF Init, Minted, Unused, Distinct
<1>6. NewRows /\ Mailed
  BY DEF Init, NewRows, HasRow, NoJob, Change, Mailed, WelcomeMatches
<1>7. CountExact
  BY <1>0 DEF Init, CountExact, In
<1>8. OneTenant
  BY <1>0 DEF OneTenant
<1> QED BY <1>1, <1>2, <1>3, <1>5, <1>6, <1>7, <1>8 DEF IInv

\* Another request's places and plans stay when the table, the counts and its
\* own part do.
Local(r) ==
  /\ UNCHANGED <<table, whole, recorded, mailed, changed>>
  /\ \A q \in Requests \ {r} : pc'[q] = pc[q] /\ job'[q] = job[q] /\ snap'[q] = snap[q]

\* A step of one request that leaves the store alone keeps what the invariant
\* says of it, provided it does so for the request itself.
LEMMA LocalStep ==
  ASSUME IInv, TypeOK', NEW r \in Requests, Local(r),
         pc[r] # "writing", pc'[r] # "writing",
         pc'[r] = "loaded" => snap'[r] = table,
         lock' = lock \/ lock' = r \/ (lock = r /\ lock' \notin Requests),
         pc'[r] \in Holding => lock' = r,
         lock' = r => pc'[r] \in Holding,
         lock' = r => lock \notin Requests \ {r},
         Fits(pc'[r], job'[r]),
         OwnsNew(r)' => OwnsNew(r) /\ job'[r].at = job[r].at,
         ~KilledInWrite => HasRow(job'[r], pc'[r], table, mailed, changed),
         minted \subseteq minted'
  PROVE  IInv'
<1> USE DEF Local
<1>1. LockOk'
  BY DEF IInv, LockOk, TypeOK
<1>2. WholeOk'
  <2>1. \A q \in Requests : pc'[q] = "writing" => pc[q] = "writing"
    OBVIOUS
  <2>2. \A q \in Requests : pc[q] = "writing" => pc'[q] = "writing"
    OBVIOUS
  <2> QED BY <2>1, <2>2 DEF IInv, WholeOk
<1>3. JobsFit'
  BY DEF IInv, JobsFit
<1>4. Copies' /\ Plans'
  BY DEF IInv, Copies, Plans
<1>5. \A q \in Requests : OwnsNew(q)' => OwnsNew(q) /\ job'[q].at = job[q].at
  BY DEF OwnsNew
<1>6. Minted'
  <2>1. \A q \in Requests : pc'[q] = "writing" => pc[q] = "writing" /\ job'[q] = job[q]
    OBVIOUS
  <2> QED BY <1>5, <2>1 DEF IInv, Minted
<1>7. Distinct'
  BY <1>5 DEF IInv, Distinct
<1>8. NewRows'
  BY DEF IInv, NewRows
<1>9. CountExact' /\ OneTenant' /\ Mailed' /\ Unused'
  BY DEF IInv, CountExact, OneTenant, Mailed, WelcomeMatches, Unused
<1> QED BY <1>1, <1>2, <1>3, <1>4, <1>6, <1>7, <1>8, <1>9 DEF IInv

\* A handler starts.
LEMMA Begins ==
  ASSUME IInv, NEW r \in Requests, NEW at \in {"want", "awaiting"}, NEW j \in Job,
         Begin(r, at, j), Fits(at, j), j.op # "creds",
         minted \subseteq minted', minted' \subseteq Ids \cup Passwords
  PROVE  IInv'
<1>1. TypeOK'
  <2>1. started + 1 \in 0..MaxRequests
    BY BoundsAssumption DEF IInv, TypeOK, Begin
  <2>2. at \in {"idle", "awaiting", "want", "loaded", "writing", "written"}
    OBVIOUS
  <2>3. pc' \in [Requests -> {"idle", "awaiting", "want", "loaded", "writing", "written"}]
    BY <2>2 DEF IInv, TypeOK, Begin
  <2>4. job' \in [Requests -> Job]
    BY DEF IInv, TypeOK, Begin
  <2> QED BY <2>1, <2>3, <2>4 DEF IInv, TypeOK, Begin
<1>2. pc[r] = "idle" /\ pc'[r] = at /\ job'[r] = j /\ Local(r)
  BY DEF IInv, TypeOK, Begin, Local
<1>3. lock # r /\ lock' = lock
  BY <1>2 DEF IInv, LockOk, Begin, Holding
<1>4. ~OwnsNew(r)' /\ HasRow(job'[r], pc'[r], table, mailed, changed)
  BY <1>2 DEF OwnsNew, HasRow
<1> QED BY <1>1, <1>2, <1>3, <1>4, LocalStep DEF Holding

\* A change to tenants that are there begins.
LEMMA BeginsChange ==
  ASSUME IInv, NEW r \in Requests, NEW o \in {"reset", "status", "upgrade"},
         NEW S \in SUBSET Ids, NEW st \in Statuses, BeginAll(r, o, S, st)
  PROVE  IInv'
<1>1. PICK i \in S : Begin(r, "want", Change(o, i, S \ {i}, st))
  BY DEF BeginAll
<1> DEFINE j == Change(o, i, S \ {i}, st)
<1>3. j \in Job
  BY DEF Change, Job, Ops, Secrets
<1>4. Fits("want", j)
  BY DEF Change, Fits, Edits
<1>5. j.op # "creds" /\ Begin(r, "want", j)
  BY <1>1 DEF Change
<1> HIDE DEF j
<1>6. minted' = minted /\ minted \subseteq Ids \cup Passwords
  BY DEF BeginAll, IInv, TypeOK
<1> QED BY <1>3, <1>4, <1>5, <1>6, Begins

\* Provisioning or signup begins.
LEMMA BeginsCreate ==
  ASSUME IInv, NEW r \in Requests, NEW e \in Emails, NEW pw \in Passwords \cup {Own},
         Begin(r, "awaiting", Creation(e, pw)),
         minted \subseteq minted', minted' \subseteq Ids \cup Passwords
  PROVE  IInv'
<1> DEFINE j == Creation(e, pw)
<1>2. j \in Job
  BY DEF Creation, Job, Ops, Statuses, Secrets, Chosen
<1>3. Fits("awaiting", j)
  BY SecretsAssumption DEF Creation, Fits, Edits
<1>4. j.op # "creds" /\ Begin(r, "awaiting", j)
  BY DEF Creation
<1> HIDE DEF j
<1> QED BY <1>2, <1>3, <1>4, Begins

\* A change of a password begins.
LEMMA BeginsPassword ==
  ASSUME IInv, NEW r \in Requests, NEW i \in Ids, NEW pw \in Chosen, NEW at \in {"want", "awaiting"},
         Begin(r, at, NewPassword(i, pw)), minted' = minted
  PROVE  IInv'
<1> DEFINE j == NewPassword(i, pw)
<1>1. j \in Job
  BY DEF NewPassword, Job, Ops, Statuses, Secrets
<1>2. Fits(at, j)
  BY DEF NewPassword, Fits, Edits
<1>3. j.op # "creds" /\ Begin(r, at, j)
  BY DEF NewPassword
<1>4. minted \subseteq minted' /\ minted' \subseteq Ids \cup Passwords
  BY DEF IInv, TypeOK
<1> HIDE DEF j
<1> QED BY <1>1, <1>2, <1>3, <1>4, Begins

LEMMA SeenIds == ASSUME IInv PROVE In(Seen) \in SUBSET Ids
BY DEF In

LEMMA Started ==
  ASSUME IInv, NEW r \in Requests, Starts(r)
  PROVE  IInv'
<1>1. minted \subseteq Ids \cup Passwords
  BY DEF IInv, TypeOK
<1>2. CASE Message(r)
  <2>1. PICK i \in In(table) : Begin(r, "want", Change("count", i, {}, "active"))
    BY <1>2 DEF Message
  <2>2. Change("count", i, {}, "active").op # "creds"
    BY DEF Change
  <2>3. Change("count", i, {}, "active") \in Job
    BY DEF Change, Job, Ops, Statuses, Secrets, In
  <2>4. Fits("want", Change("count", i, {}, "active"))
    BY DEF Change, Fits, Edits, In
  <2>5. minted' = minted
    BY <1>2 DEF Message
  <2> QED BY <1>1, <2>1, <2>2, <2>3, <2>4, <2>5, Begins
<1>3. CASE Touch(r)
  <2>1. NoJob.op # "creds"
    BY DEF NoJob, Change
  <2> QED BY <1>1, <1>3, <2>1, NoJobIsJob, Begins DEF Touch
<1>4. CASE InvoicePaid(r)
  <2>1. PICK i \in In(Seen) : BeginAll(r, "status", {i}, "active")
    BY <1>4 DEF InvoicePaid
  <2>2. {i} \in SUBSET Ids /\ "active" \in Statuses
    BY SeenIds DEF Statuses
  <2> QED BY <2>1, <2>2, BeginsChange
<1>5. CASE Rotate(r)
  <2>1. "active" \in Statuses
    BY DEF Statuses
  <2> QED BY <1>5, <2>1, SeenIds, BeginsChange DEF Rotate
<1>6. ASSUME NEW st \in Statuses, SubscriptionEvent(r, st) PROVE IInv'
  <2>1. PICK i \in In(Seen) : BeginAll(r, "status", {i}, st)
    BY <1>6 DEF SubscriptionEvent
  <2>2. {i} \in SUBSET Ids
    BY SeenIds
  <2> QED BY <2>1, <2>2, BeginsChange
<1>7. ASSUME NEW e \in Emails, ProvisionKnown(r, e) PROVE IInv'
  <2>1. PICK i \in Held(e) : BeginAll(r, "upgrade", {i}, "active")
    BY <1>7 DEF ProvisionKnown
  <2>2. {i} \in SUBSET Ids /\ "active" \in Statuses
    BY SeenIds DEF Held, Statuses
  <2> QED BY <2>1, <2>2, BeginsChange
<1>8. ASSUME NEW e \in Emails, ProvisionNew(r, e) PROVE IInv'
  <2>1. PICK pw \in Passwords \ minted :
          /\ Begin(r, "awaiting", Creation(e, pw))
          /\ minted' = minted \cup {pw}
    BY <1>8 DEF ProvisionNew
  <2>2. minted \subseteq minted' /\ minted' \subseteq Ids \cup Passwords
    BY <1>1, <2>1
  <2> QED BY <2>1, <2>2, BeginsCreate
<1>9. ASSUME NEW e \in Emails, Signup(r, e) PROVE IInv'
  <2>1. Begin(r, "awaiting", Creation(e, Own)) /\ minted' = minted
    BY <1>9 DEF Signup
  <2> QED BY <1>1, <2>1, BeginsCreate
<1>10. CASE Turn(r)
  <2>1. PICK i \in In(table) : Begin(r, "awaiting", Change("usage", i, {}, "active"))
    BY <1>10 DEF Turn
  <2>2. Change("usage", i, {}, "active").op = "usage"
    BY DEF Change
  <2>3. Change("usage", i, {}, "active") \in Job
    BY DEF Change, Job, Ops, Statuses, Secrets, In
  <2>4. Fits("awaiting", Change("usage", i, {}, "active"))
    BY DEF Change, Fits, Edits, In
  <2>5. minted' = minted
    BY <1>10 DEF Turn
  <2> QED BY <1>1, <2>1, <2>2, <2>3, <2>4, <2>5, Begins
<1>11. CASE ChangePassword(r)
  BY <1>11, SeenIds, BeginsPassword DEF ChangePassword
<1>12. CASE PatchPassword(r)
  BY <1>12, BeginsPassword DEF PatchPassword, In
<1> QED BY <1>2, <1>3, <1>4, <1>5, <1>6, <1>7, <1>8, <1>9, <1>10, <1>11, <1>12 DEF Starts

LEMMA ResumesKeeps ==
  ASSUME IInv, NEW r \in Requests, Resumes(r)
  PROVE  IInv'
<1>1. pc[r] = "awaiting" /\ pc'[r] = "want" /\ job' = job /\ Local(r) /\ lock' = lock
  BY DEF IInv, TypeOK, Resumes, Goto, Local
<1>2. TypeOK'
  BY DEF IInv, TypeOK, Resumes, Goto
<1>3. lock # r /\ ~OwnsNew(r)' /\ job[r].op \in {"create", "usage", "password"}
  BY <1>1 DEF IInv, LockOk, JobsFit, Fits, OwnsNew, Holding
<1>4. Fits("want", job[r])
  BY <1>1 DEF IInv, JobsFit, Fits
<1>5. HasRow(job'[r], pc'[r], table, mailed, changed)
  BY <1>1, <1>3 DEF HasRow
<1>6. minted' = minted
  BY DEF Resumes
<1> QED BY <1>1, <1>2, <1>3, <1>4, <1>5, <1>6, LocalStep DEF Holding

LEMMA AcquireKeeps ==
  ASSUME IInv, NEW r \in Requests, Acquire(r)
  PROVE  IInv'
<1>1. pc[r] = "want" /\ pc'[r] = "loaded" /\ job' = job /\ Local(r) /\ lock' = r /\ snap'[r] = Seen
  BY DEF IInv, TypeOK, Acquire, Goto, Local
<1>2. lock \notin Requests
  BY LockAssumption DEF Acquire
<1>3. Seen = table
  BY <1>2 DEF Seen, IInv, WholeOk, LockOk, Holding
<1>4. TypeOK'
  BY <1>3 DEF IInv, TypeOK, Acquire, Goto
<1>5. Fits("loaded", job[r])
  BY <1>1 DEF IInv, JobsFit, Fits
<1>6. OwnsNew(r)' => OwnsNew(r)
  BY <1>1 DEF OwnsNew
<1>7. ~KilledInWrite => HasRow(job'[r], pc'[r], table, mailed, changed)
  BY <1>1 DEF HasRow, IInv, NewRows
<1>8. minted' = minted
  BY DEF Acquire
<1> QED BY <1>1, <1>2, <1>3, <1>4, <1>5, <1>6, <1>7, <1>8, LocalStep DEF Holding

\* A handler that ends without having the file truncated.
LEMMA EndKeeps ==
  ASSUME IInv, NEW r \in Requests, Ends(r), pc[r] # "writing",
         UNCHANGED <<table, whole, recorded, mailed, changed, minted, started>>,
         kills' \in 0..MaxKills,
         lock' = IF lock = r THEN lock' ELSE lock,
         lock' \in Requests \cup {Free, Abandoned},
         lock = r => lock' \notin Requests
  PROVE  IInv'
<1>1. pc'[r] = "idle" /\ job'[r] = NoJob /\ Local(r)
  BY DEF IInv, TypeOK, Ends, Goto, Local
<1>2. TypeOK'
  <2>1. pc' \in [Requests -> {"idle", "awaiting", "want", "loaded", "writing", "written"}]
    BY DEF IInv, TypeOK, Ends, Goto
  <2>2. job' \in [Requests -> Job] /\ snap' \in [Requests -> Tables]
    BY NoJobIsJob, EmptyIsTable DEF IInv, TypeOK, Ends
  <2> QED BY <2>1, <2>2 DEF IInv, TypeOK
<1>3. lock' # r
  OBVIOUS
<1>4. ~OwnsNew(r)' /\ HasRow(job'[r], pc'[r], table, mailed, changed)
  BY <1>1 DEF OwnsNew, HasRow, NoJob, Change
<1> QED BY <1>1, <1>2, <1>3, <1>4, NoJobIsJob, LocalStep DEF Holding

LEMMA LockFailsKeeps ==
  ASSUME IInv, NEW r \in Requests, LockFails(r)
  PROVE  IInv'
<1>1. lock # r
  BY DEF LockFails, IInv, LockOk, Holding
<1>2. lock \in Requests \cup {Free, Abandoned} /\ kills \in 0..MaxKills
  BY DEF IInv, TypeOK
<1> QED BY <1>1, <1>2, EndKeeps DEF LockFails

LEMMA RefusedKeeps ==
  ASSUME IInv, NEW r \in Requests, Refused(r)
  PROVE  IInv'
<1>1. lock = r
  BY DEF Refused, IInv, LockOk, Holding
<1>2. kills \in 0..MaxKills
  BY DEF IInv, TypeOK
<1> QED BY <1>1, <1>2, LockAssumption, EndKeeps DEF Refused

-----------------------------------------------------------------------------
(* The steps of a holder of the lock.                                      *)

\* The change is made in the copy and the file is truncated.
LEMMA TruncatedKeeps ==
  ASSUME IInv, NEW r \in Requests, NEW j \in Job, NEW s \in Tables,
         pc[r] = "loaded", Truncates(r),
         job' = [job EXCEPT ![r] = j], snap' = [snap EXCEPT ![r] = s],
         Fits("writing", j), Changed(j, table, s),
         j.op = job[r].op, j.email = job[r].email,
         \/ j.op # "create" /\ j.at = job[r].at /\ minted' = minted
         \/ j.op = "create" /\ j.at \in Ids \ minted /\ minted' = minted \cup {j.at},
         UNCHANGED <<table, lock, recorded, mailed, changed, started, kills>>
  PROVE  IInv'
<1>1. TypeOK'
  <2>1. pc' \in [Requests -> {"idle", "awaiting", "want", "loaded", "writing", "written"}]
    BY DEF IInv, TypeOK, Truncates, Goto
  <2>2. job' \in [Requests -> Job] /\ snap' \in [Requests -> Tables]
    BY DEF IInv, TypeOK
  <2>3. minted' \subseteq Ids \cup Passwords
    BY DEF IInv, TypeOK
  <2>4. whole' \in BOOLEAN
    BY DEF Truncates
  <2> QED BY <2>1, <2>2, <2>3, <2>4 DEF IInv, TypeOK
<1>2. /\ pc'[r] = "writing" /\ job'[r] = j /\ snap'[r] = s
      /\ \A q \in Requests \ {r} : pc'[q] = pc[q] /\ job'[q] = job[q] /\ snap'[q] = snap[q]
  BY DEF IInv, TypeOK, Truncates, Goto
<1>3. lock = r /\ \A q \in Requests \ {r} : pc[q] \notin Holding
  BY DEF IInv, LockOk, Holding
<1>4. LockOk'
  BY <1>2, <1>3 DEF LockOk, Holding
<1>5. WholeOk'
  BY <1>2, <1>3 DEF WholeOk, Truncates
<1>6. JobsFit'
  BY <1>2 DEF IInv, JobsFit
<1>7. Copies' /\ Plans'
  BY <1>2, <1>3 DEF Copies, Plans, Holding
<1>8. \A q \in Requests \ {r} : OwnsNew(q)' => OwnsNew(q) /\ job'[q].at = job[q].at
  BY <1>2 DEF OwnsNew
<1>9. ASSUME j.op # "create" PROVE Minted' /\ Distinct'
  <2>1. OwnsNew(r)' => OwnsNew(r) /\ job'[r].at = job[r].at
    BY <1>2, <1>9 DEF OwnsNew
  <2>2. \A q \in Requests : OwnsNew(q)' => OwnsNew(q) /\ job'[q].at = job[q].at
    BY <1>8, <2>1
  <2>3. Minted'
    BY <1>2, <1>3, <1>9, <2>2 DEF IInv, Minted, Holding
  <2>4. Distinct'
    BY <2>2 DEF IInv, Distinct
  <2> QED BY <2>3, <2>4
<1>10. ASSUME j.op = "create" PROVE Minted' /\ Distinct'
  <2>1. j.at \in Ids \ minted /\ minted' = minted \cup {j.at} /\ recorded[j.at] = 0
    BY <1>10 DEF IInv, Minted
  <2>2. \A q \in Requests \ {r} : OwnsNew(q)' => job'[q].at # j.at
    BY <1>8, <2>1 DEF IInv, Minted
  <2>3. Minted'
    <3>1. In(table)' \subseteq minted'
      BY <2>1 DEF IInv, Minted
    <3>2. \A q \in Requests : OwnsNew(q)' => job'[q].at \in minted'
      BY <1>2, <1>8, <2>1 DEF IInv, Minted
    <3> QED BY <1>2, <1>3, <2>1, <3>1, <3>2 DEF IInv, Minted, Holding
  <2>4. Distinct'
    BY <1>2, <1>8, <2>2 DEF IInv, Distinct
  <2> QED BY <2>3, <2>4
<1>11. NewRows'
  <2>1. ~KilledInWrite => HasRow(j, "writing", table, mailed, changed)
    BY DEF HasRow, IInv, NewRows
  <2> QED BY <1>2, <2>1 DEF IInv, NewRows
<1>12. CountExact' /\ OneTenant' /\ Mailed' /\ Unused'
  BY DEF IInv, CountExact, OneTenant, Mailed, WelcomeMatches, Unused
<1> QED BY <1>1, <1>4, <1>5, <1>6, <1>7, <1>9, <1>10, <1>11, <1>12 DEF IInv

LEMMA MutateKeeps ==
  ASSUME IInv, NEW r \in Requests, Mutate(r)
  PROVE  IInv'
<1>1. /\ pc[r] = "loaded" /\ job[r] \in Job /\ table \in Tables /\ snap[r] = table
      /\ Fits("loaded", job[r]) /\ job[r].op # "create"
  BY DEF Mutate, IInv, TypeOK, Copies, JobsFit
<1>2. CASE job[r].at \in In(table)
  <2> DEFINE t == job[r].at
             g == Counts(job[r], table[t])
             j == [job[r] EXCEPT !.counts = g]
             s == [table EXCEPT ![t] = Mutated(job[r], table[t])]
  <2>1. t \in Ids /\ table[t] \in Row /\ job[r].op \in Edits
    BY <1>1, <1>2, InRow, NoneAssumption DEF Fits, Job, Ops, Edits
  <2>2. Mutated(job[r], table[t]) \in Row
    BY <1>1, <2>1, MutatedRow
  <2>3. s \in Tables
    BY <1>1, <2>1, <2>2 DEF Tables
  <2>4. g \in BOOLEAN
    BY DEF Counts, Allowed
  <2>5. /\ j \in Job /\ j.counts = g /\ j.op = job[r].op /\ j.at = t /\ j.status = job[r].status
        /\ j.email = job[r].email /\ j.pass = job[r].pass /\ j.rest = job[r].rest
    BY <1>1, <2>4 DEF Job
  <2>6. Mutated(j, table[t]) = Mutated(job[r], table[t]) /\ Counts(j, table[t]) = g
    BY <2>5 DEF Mutated, Counts
  <2>7. job' = [job EXCEPT ![r] = j] /\ snap' = [snap EXCEPT ![r] = s]
    BY <1>1, <1>2 DEF Mutate, IInv, TypeOK
  <2> HIDE DEF j, s
  <2>8. Fits("writing", j)
    <3>1. j.counts => j.op \in {"count", "usage"}
      BY <2>5 DEF Counts
    <3> QED BY <1>1, <2>1, <2>5, <3>1 DEF Fits
  <2>9. Changed(j, table, s)
    BY <1>1, <1>2, <2>5, <2>6 DEF Changed, s
  <2>10. j.op # "create" /\ j.at = job[r].at /\ minted' = minted
    BY <1>1, <2>5 DEF Mutate
  <2> QED BY <1>1, <2>3, <2>5, <2>7, <2>8, <2>9, <2>10, TruncatedKeeps DEF Mutate
<1>3. CASE job[r].at \notin In(table)
  <2>1. job' = [job EXCEPT ![r] = job[r]] /\ snap' = [snap EXCEPT ![r] = table]
    BY <1>1, <1>3 DEF Mutate, IInv, TypeOK
  <2>2. ~job[r].counts
    BY <1>1 DEF Fits
  <2>3. Fits("writing", job[r]) /\ Changed(job[r], table, table)
    BY <1>1, <1>3, <2>2 DEF Fits, Changed
  <2>4. minted' = minted
    BY DEF Mutate
  <2> QED BY <1>1, <2>1, <2>3, <2>4, TruncatedKeeps DEF Mutate
<1> QED BY <1>2, <1>3

LEMMA CreateTenantKeeps ==
  ASSUME IInv, NEW r \in Requests, CreateTenant(r)
  PROVE  IInv'
<1>1. /\ pc[r] = "loaded" /\ job[r] \in Job /\ table \in Tables /\ snap[r] = table
      /\ Fits("loaded", job[r]) /\ job[r].op = "create"
      /\ In(table) \subseteq minted
  BY DEF CreateTenant, IInv, TypeOK, Copies, JobsFit, Minted
<1>2. PICK i \in Ids \ minted :
        /\ snap' = [snap EXCEPT ![r][i] = NewRow(job[r].email)]
        /\ job' = [job EXCEPT ![r].at = i]
        /\ minted' = minted \cup {i}
  BY DEF CreateTenant
<1> DEFINE j == [job[r] EXCEPT !.at = i]
           s == [table EXCEPT ![i] = NewRow(job[r].email)]
<1>3. NewRow(job[r].email) \in Row
  BY <1>1, NewRowIsRow DEF Fits
<1>4. s \in Tables /\ table[i] = None
  BY <1>1, <1>3 DEF Tables, In
<1>5. /\ j \in Job /\ j.counts = job[r].counts /\ j.op = "create" /\ j.at = i
      /\ j.email = job[r].email /\ j.pass = job[r].pass /\ j.rest = job[r].rest
  BY <1>1 DEF Job
<1>6. job' = [job EXCEPT ![r] = j] /\ snap' = [snap EXCEPT ![r] = s]
  BY <1>1, <1>2 DEF IInv, TypeOK
<1>7. \A k \in In(table) : table[k].email # job[r].email
  BY <1>1 DEF CreateTenant
<1>8. Changed(j, table, s)
  BY <1>4, <1>5, <1>7 DEF Changed
<1> HIDE DEF j, s
<1>9. Fits("writing", j)
  BY <1>1, <1>5 DEF Fits, Edits
<1> QED BY <1>1, <1>2, <1>4, <1>5, <1>6, <1>8, <1>9, TruncatedKeeps DEF CreateTenant

\* The file is filled with the copy.
LEMMA WriteKeeps ==
  ASSUME IInv, NEW r \in Requests, Write(r)
  PROVE  IInv'
<1> DEFINE j == job[r]
<1>1. /\ pc[r] = "writing" /\ lock = r /\ j \in Job /\ Fits("writing", j)
      /\ table \in Tables /\ Changed(j, table, snap[r]) /\ table' = snap[r]
  BY DEF Write, IInv, TypeOK, LockOk, JobsFit, Plans, Holding
<1>2. /\ pc'[r] = "written" /\ job' = job /\ snap' = snap /\ lock' = lock
      /\ \A q \in Requests \ {r} : pc'[q] = pc[q] /\ pc[q] \notin Holding
  BY <1>1 DEF Write, Goto, IInv, TypeOK, LockOk, Holding
<1> HIDE DEF j
<1>3. /\ table' \in Tables
      /\ In(table) \subseteq In(table')
      /\ \A i \in In(table') : i \in In(table) \/ (j.op = "create" /\ i = j.at)
      /\ \A i \in In(table) : i # j.at => table'[i] = table[i]
      /\ \A i \in In(table) : table'[i].email = table[i].email
      /\ j.op = "create" => table'[j.at] = NewRow(j.email) /\ j.at \in In(table') /\ j.at \notin In(table)
      /\ j.op # "create" /\ j.at \in In(table) => table'[j.at] = Mutated(j, table[j.at])
  BY <1>1, ChangedTable
<1>4. recorded' = IF j.op = "reset" THEN [recorded EXCEPT ![j.at] = 0]
                 ELSE IF j.counts THEN [recorded EXCEPT ![j.at] = recorded[j.at] + 1]
                 ELSE recorded
  BY DEF Write, j
<1>5. recorded \in [Ids -> Nat] /\ recorded' \in [Ids -> Nat]
  <2>1. recorded \in [Ids -> Nat]
    BY DEF IInv, TypeOK
  <2>2. j.counts => j.at \in Ids
    BY <1>1 DEF Fits, Edits
  <2>3. j.counts => recorded[j.at] + 1 \in Nat
    BY <2>1, <2>2
  <2> QED BY <1>4, <2>1, <2>3
<1>0. /\ changed' = IF j.op = "password" THEN [changed EXCEPT ![j.at] = j.pass]
                     ELSE IF j.op = "creds" THEN [changed EXCEPT ![j.at] = None]
                     ELSE changed
      /\ changed \in [Ids -> Chosen \cup {None}]
      /\ j.op = "password" => j.pass \in Chosen
  BY <1>1 DEF Write, IInv, TypeOK, Fits, j
<1>6. TypeOK'
  <2>1. pc' \in [Requests -> {"idle", "awaiting", "want", "loaded", "writing", "written"}]
    BY DEF IInv, TypeOK, Write, Goto
  <2>2. whole' \in BOOLEAN
    BY DEF Write
  <2>3. changed' \in [Ids -> Chosen \cup {None}]
    BY <1>0
  <2> QED BY <1>2, <1>3, <1>5, <2>1, <2>2, <2>3 DEF IInv, TypeOK, Write
<1>7. LockOk' /\ WholeOk'
  BY <1>1, <1>2 DEF IInv, LockOk, WholeOk, Write, Holding
<1>8. JobsFit'
  <2>1. Fits("written", j)
    BY <1>1 DEF Fits
  <2> QED BY <1>2, <2>1 DEF IInv, JobsFit, j
<1>9. Copies' /\ Plans'
  BY <1>2 DEF Copies, Plans, Holding
<1>10. \A q \in Requests : OwnsNew(q)' => OwnsNew(q) /\ job'[q].at = job[q].at
  BY <1>1, <1>2 DEF OwnsNew
<1>11. minted' = minted
  BY DEF Write
<1>12. Minted'
  <2>1. In(table') \subseteq minted'
    BY <1>1, <1>3, <1>11 DEF IInv, Minted, OwnsNew, j
  <2>2. ASSUME NEW i \in Ids \ minted PROVE recorded'[i] = 0
    <3>1. recorded[i] = 0
      BY DEF IInv, Minted
    <3>2. CASE j.op = "reset"
      BY <1>4, <1>5, <3>1, <3>2
    <3>3. CASE j.op # "reset" /\ j.counts
      <4>1. j.op \in {"count", "usage"} /\ j.at \in In(table)
        BY <1>1, <3>3 DEF Fits, Changed
      <4>2. i # j.at
        BY <4>1 DEF IInv, Minted
      <4> QED BY <1>4, <1>5, <3>1, <3>3, <4>2
    <3>4. CASE j.op # "reset" /\ ~j.counts
      BY <1>4, <3>1, <3>4
    <3> QED BY <3>2, <3>3, <3>4
  <2>3. \A q \in Requests : pc'[q] # "writing"
    BY <1>2 DEF Holding
  <2>4. \A q \in Requests : OwnsNew(q)' => job'[q].at \in minted'
    BY <1>10, <1>11 DEF IInv, Minted
  <2> QED BY <1>11, <2>1, <2>2, <2>3, <2>4 DEF Minted
<1>13. Distinct'
  BY <1>10 DEF IInv, Distinct
<1>14. CountExact'
  <2> SUFFICES ASSUME NEW i \in In(table') PROVE table'[i].count = recorded'[i]
    BY DEF CountExact
  <2>1. i \in Ids
    BY <1>3, InRow
  <2>2. CASE j.op = "create"
    <3>1. recorded' = recorded
      BY <1>1, <1>4, <2>2 DEF Fits
    <3>2. recorded[j.at] = 0
      BY <1>1, <2>2 DEF IInv, Minted, j
    <3>3. table'[j.at].count = 0
      BY <1>3, <2>2 DEF NewRow
    <3> QED BY <1>3, <2>2, <3>1, <3>2, <3>3 DEF IInv, CountExact
  <2>3. CASE j.op # "create"
    <3>1. i \in In(table) /\ table[i].count = recorded[i]
      BY <1>3, <2>3 DEF IInv, CountExact
    <3>2. CASE i # j.at
      BY <1>3, <1>4, <1>5, <2>1, <3>1, <3>2
    <3>3. CASE i = j.at
      <4>1. table[i] \in Row /\ j.op \in Edits
        BY <1>1, <2>3, <3>1, <3>3, InRow, NoneAssumption DEF Fits, Job, Ops, Edits
      <4>2. table'[i] = Mutated(j, table[i])
        BY <1>3, <2>3, <3>1, <3>3
      <4>3. j.counts = Counts(j, table[i])
        BY <1>1, <2>3, <3>1, <3>3 DEF Changed
      <4>4. CASE j.op = "reset"
        BY <1>1, <1>4, <1>5, <2>1, <3>3, <4>1, <4>2, <4>4, MutatedRow
      <4>5. CASE Counts(j, table[i])
        <5>1. j.op # "reset"
          BY <4>5 DEF Counts
        <5> QED BY <5>1, <1>1, <1>4, <1>5, <2>1, <3>1, <3>3, <4>1, <4>2, <4>3, <4>5, MutatedRow
      <4>6. CASE j.op # "reset" /\ ~Counts(j, table[i])
        <5>1. recorded' = recorded
          BY <1>4, <4>3, <4>6
        <5>2. Mutated(j, table[i]).count = table[i].count
          BY <1>1, <4>1, <4>6, MutatedRow
        <5> QED BY <3>1, <4>2, <5>1, <5>2
      <4> QED BY <4>4, <4>5, <4>6
    <3> QED BY <3>2, <3>3
  <2> QED BY <2>2, <2>3
<1>15. OneTenant'
  <2> SUFFICES ASSUME NEW i \in In(table'), NEW k \in In(table'), table'[i].email = table'[k].email
               PROVE  i = k
    BY DEF OneTenant
  <2>1. CASE j.op = "create"
    <3>1. \A m \in In(table) : table[m].email # j.email
      BY <1>1, <2>1 DEF Changed
    <3>2. table'[j.at].email = j.email
      BY <1>3, <2>1 DEF NewRow
    <3> QED BY <1>3, <2>1, <3>1, <3>2 DEF IInv, OneTenant
  <2>2. CASE j.op # "create"
    BY <1>3, <2>2 DEF IInv, OneTenant
  <2> QED BY <2>1, <2>2
<1>16. ASSUME NEW i \in In(table), i = j.at
       PROVE  /\ j.op # "create"
              /\ j.op \notin {"creds", "password"} => table'[i].pass = table[i].pass
              /\ j.op \in {"creds", "password"} => table'[i].pass = j.pass
  <2>1. j.op # "create"
    BY <1>3, <1>16
  <2>2. table[i] \in Row /\ j.op \in Edits
    BY <1>1, <1>16, <2>1, InRow, NoneAssumption DEF Fits, Job, Ops, Edits
  <2> QED BY <1>1, <1>3, <1>16, <2>1, <2>2, MutatedRow
<1>20. mailed' = mailed
  BY DEF Write
<1>17. NewRows'
  <2> SUFFICES ASSUME ~KilledInWrite, NEW q \in Requests PROVE HasRow(job[q], pc'[q], table', mailed, changed')
    BY <1>2, <1>20 DEF NewRows
  <2>1. HasRow(job[q], pc[q], table, mailed, changed)
    BY DEF IInv, NewRows
  <2>2. CASE q = r
    <3>1. CASE j.op = "create"
      <4>1. \A m \in mailed : \E i \in In(table) : table[i].email = m[1]
        BY DEF IInv, Mailed, WelcomeMatches
      <4>2. \A i \in In(table) : table[i].email # j.email
        BY <1>1, <3>1 DEF Changed
      <4> QED BY <1>2, <1>3, <2>2, <3>1, <4>1, <4>2 DEF HasRow, NewRow, j
    <3>2. CASE j.op = "creds"
      <4>1. j.at \in In(table) /\ table[j.at].email = j.email
        BY <2>1, <2>2, <3>2 DEF HasRow, j
      <4>2. j.at \in Ids
        BY <4>1 DEF In
      <4>3. changed'[j.at] = None
        BY <1>0, <3>2, <4>2
      <4> QED BY <1>2, <1>3, <1>16, <2>2, <3>2, <4>1, <4>3 DEF HasRow, j
    <3>3. CASE j.op \notin {"create", "creds"}
      BY <2>2, <3>3 DEF HasRow, j
    <3> QED BY <3>1, <3>2, <3>3
  <2>3. CASE q # r
    <3>1. CASE job[q].op = "creds"
      <4>1. job[q].at \in In(table) /\ table[job[q].at].email = job[q].email /\ \A m \in mailed : m[1] # job[q].email
        BY <1>2, <2>1, <2>3, <3>1 DEF HasRow, Holding
      <4> QED BY <1>2, <1>3, <2>3, <3>1, <4>1 DEF HasRow, Holding
    <3>2. CASE job[q].op # "creds"
      BY <1>2, <2>3, <3>2 DEF HasRow, Holding
    <3> QED BY <3>1, <3>2
  <2> QED BY <2>2, <2>3
<1>18. Mailed'
  <2> SUFFICES ASSUME ~KilledInWrite, NEW m \in mailed
               PROVE  \E i \in In(table') :
                        /\ table'[i].email = m[1]
                        /\ table'[i].pass = IF changed'[i] = None THEN m[2] ELSE changed'[i]
    BY <1>20 DEF Mailed, WelcomeMatches
  <2>1. PICK i \in In(table) : /\ table[i].email = m[1]
                               /\ table[i].pass = IF changed[i] = None THEN m[2] ELSE changed[i]
    BY DEF IInv, Mailed, WelcomeMatches
  <2>2. j.op = "creds" => i # j.at
    BY <1>1, <2>1 DEF IInv, NewRows, HasRow, j
  <2>3. CASE j.op = "password" /\ i = j.at
    <3>1. i \in Ids /\ changed'[i] = j.pass /\ j.pass # None
      BY <1>0, <2>3, SecretsAssumption DEF In
    <3> QED BY <1>3, <1>16, <2>1, <2>3, <3>1
  <2>4. CASE ~(j.op = "password" /\ i = j.at)
    <3>1. changed'[i] = changed[i] /\ i \in Ids
      BY <1>0, <2>2, <2>4 DEF In
    <3>2. table'[i].pass = table[i].pass
      BY <1>3, <1>16, <2>2, <2>4
    <3> QED BY <1>3, <2>1, <3>1, <3>2
  <2> QED BY <2>3, <2>4
<1>19. Unused'
  <2> SUFFICES ASSUME ~KilledInWrite, NEW i \in Ids \ In(table') PROVE recorded'[i] = 0
    BY DEF Unused
  <2>1. i \notin In(table) /\ recorded[i] = 0
    BY <1>3 DEF IInv, Unused
  <2>2. j.counts => i # j.at
    BY <1>1, <2>1 DEF Fits, Changed
  <2> QED BY <1>4, <1>5, <2>1, <2>2
<1> QED BY <1>6, <1>7, <1>8, <1>9, <1>12, <1>13, <1>14, <1>15, <1>17, <1>18, <1>19 DEF IInv

LEMMA ReleaseKeeps ==
  ASSUME IInv, NEW r \in Requests, Release(r)
  PROVE  IInv'
<1>1. /\ pc[r] = "written" /\ lock = r /\ job[r] \in Job /\ Fits("written", job[r])
      /\ table \in Tables /\ lock' = Free /\ UNCHANGED <<table, whole, recorded, changed, minted, started, kills>>
  BY DEF Release, IInv, TypeOK, LockOk, JobsFit, Holding
<1>2. job[r].op = "creds" /\ job[r].pass # Own =>
        /\ job[r].email \in Emails /\ job[r].pass \in Passwords
        /\ mailed' = mailed \cup {<<job[r].email, job[r].pass>>}
  BY <1>1 DEF Release, Fits, Job, Secrets
<1>3. ~(job[r].op = "creds" /\ job[r].pass # Own) => mailed' = mailed
  BY DEF Release
<1>4. mailed' \subseteq Emails \X Passwords
  BY <1>2, <1>3 DEF IInv, TypeOK
<1>5. Mailed'
  <2> SUFFICES ASSUME ~KilledInWrite, NEW m \in mailed'
               PROVE  \E i \in In(table) :
                        /\ table[i].email = m[1]
                        /\ table[i].pass = IF changed[i] = None THEN m[2] ELSE changed[i]
    BY <1>1 DEF Mailed, WelcomeMatches
  <2>1. CASE m \in mailed
    BY <2>1 DEF IInv, Mailed, WelcomeMatches
  <2>2. CASE m \notin mailed
    <3>1. job[r].op = "creds" /\ m = <<job[r].email, job[r].pass>>
      BY <1>2, <1>3, <2>2
    <3>2. HasRow(job[r], pc[r], table, mailed, changed)
      BY DEF IInv, NewRows
    <3>3. /\ job[r].at \in In(table) /\ table[job[r].at].email = m[1]
          /\ table[job[r].at].pass = m[2] /\ changed[job[r].at] = None
      BY <1>1, <3>1, <3>2 DEF HasRow
    <3> QED BY <3>3
  <2> QED BY <2>1, <2>2
\* All but the history of the mail is a local step.
<1> DEFINE p == pc'[r]
           j == job'[r]
<1>6. /\ \A q \in Requests \ {r} : pc'[q] = pc[q] /\ job'[q] = job[q] /\ snap'[q] = snap[q]
      /\ pc' \in [Requests -> {"idle", "awaiting", "want", "loaded", "writing", "written"}]
      /\ job' \in [Requests -> Job] /\ snap' \in [Requests -> Tables]
      /\ p \in {"idle", "want"} /\ Fits(p, j)
      /\ OwnsNew(r)' => OwnsNew(r) /\ j.at = job[r].at
      /\ ~KilledInWrite => HasRow(j, p, table, mailed, changed)
  <2>1. CASE job[r].op = "create"
    <3>1. Continues(r, [job[r] EXCEPT !.op = "creds"])
      BY <2>1 DEF Release
    <3>2. [job[r] EXCEPT !.op = "creds"] \in Job
      BY <1>1 DEF Job, Ops
    <3>3. /\ p = "want" /\ j.op = "creds" /\ j.at = job[r].at /\ j.email = job[r].email
          /\ j.pass = job[r].pass /\ j.rest = job[r].rest /\ j.counts = job[r].counts
      BY <1>1, <3>1 DEF Continues, Goto, IInv, TypeOK, Job
    <3>4. Fits(p, j)
      BY <1>1, <2>1, <3>3 DEF Fits, Edits
    <3>5. ~KilledInWrite => HasRow(j, p, table, mailed, changed)
      BY <1>1, <2>1, <3>3 DEF IInv, NewRows, HasRow
    <3>6. OwnsNew(r)
      BY <1>1, <2>1 DEF OwnsNew
    <3> QED BY <3>1, <3>2, <3>3, <3>4, <3>5, <3>6 DEF Continues, Goto, IInv, TypeOK
  <2>2. CASE job[r].op # "create" /\ job[r].rest # {}
    <3>1. PICK i \in job[r].rest : Continues(r, [job[r] EXCEPT !.at = i, !.rest = job[r].rest \ {i}])
      BY <2>2 DEF Release
    <3>2. [job[r] EXCEPT !.at = i, !.rest = job[r].rest \ {i}] \in Job
      BY <1>1 DEF Job
    <3>3. /\ p = "want" /\ j.op = job[r].op /\ j.at = i /\ j.counts = job[r].counts
      BY <1>1, <3>1 DEF Continues, Goto, IInv, TypeOK, Job
    <3>4. j.op \notin {"create", "creds", "count", "usage", "touch"} /\ i \in Ids /\ ~j.counts
      BY <1>1, <2>2, <3>3 DEF Fits, Job
    <3>5. j.rest \subseteq Ids /\ j.op # "password"
      BY <1>1, <2>2, <3>1, <3>2 DEF Continues, IInv, TypeOK, Job, Fits
    <3>6. Fits(p, j) /\ HasRow(j, p, table, mailed, changed) /\ ~OwnsNew(r)'
      BY <3>3, <3>4, <3>5 DEF Fits, HasRow, OwnsNew
    <3>7. /\ \A q \in Requests \ {r} : pc'[q] = pc[q] /\ job'[q] = job[q] /\ snap'[q] = snap[q]
          /\ pc' \in [Requests -> {"idle", "awaiting", "want", "loaded", "writing", "written"}]
          /\ job' \in [Requests -> Job] /\ snap' \in [Requests -> Tables]
      BY <3>1, <3>2 DEF Continues, Goto, IInv, TypeOK
    <3> QED BY <3>3, <3>6, <3>7
  <2>3. CASE job[r].op # "create" /\ job[r].rest = {}
    <3>1. Ends(r)
      BY <2>3 DEF Release
    <3>2. p = "idle" /\ j = NoJob
      BY <3>1 DEF Ends, Goto, IInv, TypeOK
    <3> QED BY <3>1, <3>2, NoJobIsJob, EmptyIsTable
            DEF Ends, Goto, IInv, TypeOK, HasRow, OwnsNew, NoJob, Change
  <2> QED BY <2>1, <2>2, <2>3
<1>7. TypeOK'
  BY <1>1, <1>4, <1>6 DEF IInv, TypeOK
<1>8. \A q \in Requests \ {r} : pc[q] \notin Holding
  BY <1>1 DEF IInv, LockOk
<1>9. LockOk' /\ WholeOk'
  BY <1>1, <1>6, <1>8, LockAssumption DEF IInv, LockOk, WholeOk, Holding
<1>10. JobsFit'
  BY <1>6 DEF IInv, JobsFit
<1>11. Copies' /\ Plans'
  BY <1>6, <1>8 DEF Copies, Plans, Holding
<1>12. \A q \in Requests : OwnsNew(q)' => OwnsNew(q) /\ job'[q].at = job[q].at
  BY <1>6 DEF OwnsNew
<1>13. Minted'
  <2>1. \A q \in Requests : pc'[q] # "writing"
    BY <1>6, <1>8 DEF Holding
  <2> QED BY <1>1, <1>12, <2>1 DEF IInv, Minted
<1>14. Distinct'
  BY <1>12 DEF IInv, Distinct
<1>15. NewRows'
  <2> SUFFICES ASSUME ~KilledInWrite, NEW q \in Requests
               PROVE  HasRow(job'[q], pc'[q], table, mailed', changed)
    BY <1>1 DEF NewRows
  <2>1. CASE mailed' = mailed
    BY <1>6, <2>1 DEF IInv, NewRows
  <2>2. CASE mailed' # mailed
    <3>1. job[r].op = "creds" /\ mailed' = mailed \cup {<<job[r].email, job[r].pass>>}
      BY <1>2, <1>3, <2>2
    <3>2. CASE q = r
      <4>1. Ends(r)
        BY <1>1, <3>1 DEF Release, Fits
      <4> QED BY <3>2, <4>1 DEF Ends, Goto, IInv, TypeOK, HasRow, NoJob, Change
    <3>3. CASE q # r /\ OwnsNew(q)
      <4>1. job[q].at # job[r].at
        BY <3>1, <3>3 DEF IInv, Distinct, OwnsNew
      <4>2. HasRow(job[r], "written", table, mailed, changed) /\ HasRow(job[q], pc[q], table, mailed, changed)
        BY <1>1 DEF IInv, NewRows
      <4>3. pc[q] \notin Holding /\ pc'[q] = pc[q] /\ job'[q] = job[q]
        BY <1>6, <1>8, <3>3
      <4>4. job[r].at \in In(table) /\ table[job[r].at].email = job[r].email
        BY <3>1, <4>2 DEF HasRow
      <4>5. job[q].at \in In(table) /\ table[job[q].at].email = job[q].email
        BY <3>3, <4>2, <4>3 DEF HasRow, OwnsNew, Holding
      <4>6. job[q].email # job[r].email
        BY <4>1, <4>4, <4>5 DEF IInv, OneTenant
      <4> QED BY <3>1, <4>2, <4>3, <4>6 DEF HasRow, Holding
    <3>4. CASE q # r /\ ~OwnsNew(q)
      BY <1>6, <3>4 DEF HasRow, OwnsNew
    <3> QED BY <3>2, <3>3, <3>4
  <2> QED BY <2>1, <2>2
<1>16. CountExact' /\ OneTenant' /\ Unused'
  BY <1>1 DEF IInv, CountExact, OneTenant, Unused
<1> QED BY <1>5, <1>7, <1>9, <1>10, <1>11, <1>13, <1>14, <1>15, <1>16 DEF IInv

\* A kill in the middle of a write leaves an empty store.
LEMMA KillKeeps ==
  ASSUME IInv, NEW r \in Requests, Kill(r)
  PROVE  IInv'
<1>1. kills + 1 \in 0..MaxKills
  BY BoundsAssumption DEF Kill, IInv, TypeOK
<1>2. CASE pc[r] # "writing"
  <2>1. UNCHANGED <<table, recorded, mailed, changed, minted, started>> /\ Ends(r) /\ kills' = kills + 1
    BY <1>2 DEF Kill
  <2>2. whole' = whole
    BY <1>2 DEF Kill, IInv, TypeOK
  <2>3. lock' = IF lock = r THEN Abandoned ELSE lock
    BY DEF Kill
  <2>4. lock' \in Requests \cup {Free, Abandoned}
    BY <2>3 DEF IInv, TypeOK
  <2> QED BY <1>1, <1>2, <2>1, <2>2, <2>3, <2>4, LockAssumption, EndKeeps
<1>3. CASE pc[r] = "writing"
  <2>1. /\ KilledInWrite /\ table' = Empty /\ whole' = TRUE /\ lock = r /\ lock' = Abandoned
        /\ Ends(r) /\ UNCHANGED <<recorded, mailed, changed, minted, started>> /\ kills' = kills + 1
    BY <1>3 DEF Kill, IInv, LockOk, Holding
  <2>2. In(table') = {}
    BY <2>1, EmptyIsTable
  <2>3. /\ pc'[r] = "idle" /\ job'[r] = NoJob
        /\ \A q \in Requests \ {r} : pc'[q] = pc[q] /\ job'[q] = job[q] /\ pc[q] \notin Holding
    BY <2>1 DEF Ends, Goto, IInv, TypeOK, LockOk
  <2>4. TypeOK'
    <3>1. pc' \in [Requests -> {"idle", "awaiting", "want", "loaded", "writing", "written"}]
      BY <2>1 DEF Ends, Goto, IInv, TypeOK
    <3>2. job' \in [Requests -> Job] /\ snap' \in [Requests -> Tables]
      BY <2>1, NoJobIsJob, EmptyIsTable DEF Ends, IInv, TypeOK
    <3> QED BY <1>1, <2>1, <3>1, <3>2, EmptyIsTable DEF IInv, TypeOK
  <2>5. LockOk' /\ WholeOk'
    BY <2>1, <2>3, LockAssumption DEF LockOk, WholeOk, Holding
  <2>6. JobsFit' /\ Copies' /\ Plans'
    BY <2>3, NoJobIsJob DEF IInv, JobsFit, Copies, Plans, Holding
  <2>7. \A q \in Requests : OwnsNew(q)' => OwnsNew(q) /\ job'[q].at = job[q].at
    BY <2>3 DEF OwnsNew, NoJob, Change
  <2>8. Minted' /\ Distinct'
    <3>1. \A q \in Requests : pc'[q] # "writing"
      BY <2>3 DEF Holding
    <3> QED BY <2>1, <2>2, <2>7, <3>1 DEF IInv, Minted, Distinct
  <2>9. NewRows' /\ Mailed' /\ CountExact' /\ OneTenant' /\ Unused'
    BY <2>1, <2>2 DEF NewRows, Mailed, CountExact, OneTenant, Unused
  <2> QED BY <2>4, <2>5, <2>6, <2>8, <2>9 DEF IInv
<1> QED BY <1>2, <1>3

LEMMA Steps ==
  ASSUME IInv, [Next]_vars
  PROVE  IInv'
<1>1. CASE UNCHANGED vars
  BY <1>1 DEF vars, IInv, TypeOK, LockOk, WholeOk, JobsFit, Copies, Plans, Minted, OwnsNew, Distinct,
              NewRows, CountExact, OneTenant, Mailed, WelcomeMatches, Unused
<1>2. CASE Next
  BY <1>2, Started, ResumesKeeps, AcquireKeeps, LockFailsKeeps, RefusedKeeps, MutateKeeps,
     CreateTenantKeeps, WriteKeeps, ReleaseKeeps, KillKeeps DEF Next
<1> QED BY <1>1, <1>2

-----------------------------------------------------------------------------
(* The theorems.                                                           *)

THEOREM Invariant == Spec => []IInv
BY Initially, Steps, PTL DEF Spec

\* Every variable of the store, its file and its requests keeps its type.
THEOREM TypeCorrect == Spec => []TypeOK
<1>1. IInv => TypeOK
  BY DEF IInv
<1> QED BY <1>1, Invariant, PTL

\* No increment of a tenant's counter is lost, kills in a write included: the
\* stored count is what quotaGuard.ts let through since the last reset.
THEOREM CountsKept == Spec => []CountExact
<1>1. IInv => CountExact
  BY DEF IInv
<1> QED BY <1>1, Invariant, PTL

\* An email never has two tenants, however checkouts and signups overlap at
\* their bcrypt await.
THEOREM OnePerEmail == Spec => []OneTenant
<1>1. IInv => OneTenant
  BY DEF IInv
<1> QED BY <1>1, Invariant, PTL

\* While no kill falls in a write, a welcome message carries the password stored.
THEOREM MailedPasswordWorks ==
  ASSUME ~KilledInWrite
  PROVE  Spec => []WelcomeMatches
<1>1. IInv => WelcomeMatches
  BY DEF IInv, Mailed
<1> QED BY <1>1, Invariant, PTL

\* The check's answer is not stale when it is stored: a message is let through
\* only to a tenant that is under its hard limit and in good standing then.
THEOREM LimitKept == Spec => LetThroughUnderLimit
<1> DEFINE A == \A r \in Requests :
       Write(r) /\ job[r].op = "count" /\ job[r].counts =>
         /\ job[r].at \in In(table)
         /\ table[job[r].at].count < HardLimit
         /\ table[job[r].at].status \notin {"suspended", "cancelled"}
<1>1. IInv /\ [Next]_vars => [A]_vars
  <2> SUFFICES ASSUME IInv, NEW r \in Requests, Write(r), job[r].op = "count", job[r].counts
               PROVE  job[r].at \in In(table) /\ Allowed(table[job[r].at])
    BY DEF Allowed
  <2>1. Changed(job[r], table, snap[r])
    BY DEF Write, IInv, Plans
  <2> QED BY <2>1 DEF Changed, Counts
<1> QED BY <1>1, Invariant, PTL DEF Spec, LetThroughUnderLimit

-----------------------------------------------------------------------------
(* The store implements the table that changes one operation at a time.    *)

\* Writing a mutator's change is one operation of the table.
LEMMA EditWritten ==
  ASSUME IInv, NEW r \in Requests, Write(r), job[r].op # "create", job[r].at \in In(table)
  PROVE  Promise!Next
<1> DEFINE j == job[r]
           i == job[r].at
<1>1. /\ j \in Job /\ Fits("writing", j) /\ table \in Tables /\ recorded \in [Ids -> Nat]
      /\ Changed(j, table, table') /\ mailed' = mailed
  BY DEF Write, IInv, TypeOK, JobsFit, Plans
<1>2. i \in Ids /\ table[i] \in Row /\ j.op \in Edits
  BY <1>1, InRow, NoneAssumption DEF Fits, Job, Ops, Edits
<1>3. table' = [table EXCEPT ![i] = Mutated(j, table[i])]
  BY <1>1 DEF Changed
<1>4. recorded' = IF j.op = "reset" THEN [recorded EXCEPT ![i] = 0]
                 ELSE IF j.counts THEN [recorded EXCEPT ![i] = recorded[i] + 1]
                 ELSE recorded
  BY DEF Write
<1>5. i \in Promise!In(table)
  BY DEF Promise!In, In
<1>6. j.counts = Counts(j, table[i])
  BY <1>1 DEF Changed
<1> HIDE DEF j, i
<1>7. CASE Counts(j, table[i])
  <2>1. j.op \in {"count", "usage"} /\ (j.op = "count" => Allowed(table[i]))
    BY <1>7 DEF Counts
  <2>2. table' = [table EXCEPT ![i] = WithCount(table[i], table[i].count + 1)]
    BY <1>3, <1>7, <2>1 DEF Mutated
  <2>3. recorded' = [recorded EXCEPT ![i] = recorded[i] + 1]
    BY <1>4, <1>6, <1>7, <2>1
  <2>4. Promise!Recount(i, table[i].count + 1, recorded[i] + 1)
    BY <1>1, <2>2, <2>3 DEF Promise!Recount, Promise!Put, WithCount
  <2>5. Promise!Report(i)
    BY <2>4 DEF Promise!Report
  <2> QED BY <1>5, <2>5 DEF Promise!Next
<1>8. CASE j.op = "reset"
  <2>1. table' = [table EXCEPT ![i] = WithCount(table[i], 0)] /\ recorded' = [recorded EXCEPT ![i] = 0]
    BY <1>3, <1>4, <1>8 DEF Mutated
  <2>2. Promise!Reset(i)
    BY <1>1, <2>1 DEF Promise!Reset, Promise!Recount, Promise!Put, WithCount
  <2> QED BY <1>5, <2>2 DEF Promise!Next
<1>9. CASE j.op # "reset" /\ ~Counts(j, table[i])
  <2>1. recorded' = [recorded EXCEPT ![i] = recorded[i]]
    BY <1>1, <1>2, <1>4, <1>6, <1>9
  <2>2. \E st \in Statuses, l \in BOOLEAN, pw \in Secrets :
          Mutated(j, table[i]) = [table[i] EXCEPT !.status = st, !.linked = l, !.pass = pw]
    <3> DEFINE row == table[i]
    <3> SUFFICES \E st \in Statuses, l \in BOOLEAN, pw \in Secrets :
                   Mutated(j, row) = [row EXCEPT !.status = st, !.linked = l, !.pass = pw]
      OBVIOUS
    <3>1. row \in Row
      BY <1>2
    <3>7. ~Counts(j, row)
      BY <1>9
    <3>8. j.op \in {"count", "status", "upgrade", "creds", "password"}
      BY <1>2, <1>9 DEF Edits, Counts
    <3> HIDE DEF row
    <3>2. row = [row EXCEPT !.status = row.status, !.linked = row.linked, !.pass = row.pass]
          /\ row.status \in Statuses /\ row.linked \in BOOLEAN /\ row.pass \in Secrets
      BY <3>1 DEF Row
    <3>3. CASE j.op = "count"
      <4>1. Mutated(j, row) = row
        BY <3>3, <3>7 DEF Mutated
      <4> QED BY <3>2, <4>1
    <3>4. CASE j.op = "status"
      <4>1. Mutated(j, row) = [row EXCEPT !.status = j.status, !.linked = row.linked, !.pass = row.pass]
        BY <3>1, <3>4 DEF Mutated, Row
      <4>2. j.status \in Statuses
        BY <1>1 DEF Job
      <4> QED BY <3>2, <4>1, <4>2
    <3>5. CASE j.op = "upgrade"
      <4>1. Mutated(j, row) = [row EXCEPT !.status = "active", !.linked = TRUE, !.pass = row.pass]
        BY <3>1, <3>5 DEF Mutated, Row
      <4>2. "active" \in Statuses
        BY DEF Statuses
      <4> QED BY <3>2, <4>1, <4>2
    <3>6. CASE j.op = "creds"
      <4>1. j.pass \in Secrets /\ "active" \in Statuses
        BY <1>1 DEF Job, Statuses
      <4>2. CASE j.pass = Own
        <5>1. Mutated(j, row) = [row EXCEPT !.status = row.status, !.linked = FALSE, !.pass = j.pass]
          BY <3>1, <3>6, <4>2 DEF Mutated, Row
        <5> QED BY <3>2, <4>1, <5>1
      <4>3. CASE j.pass # Own
        <5>1. Mutated(j, row) = [row EXCEPT !.status = "active", !.linked = TRUE, !.pass = j.pass]
          BY <3>1, <3>6, <4>3 DEF Mutated, Row
        <5> QED BY <4>1, <5>1
      <4> QED BY <4>2, <4>3
    <3>9. CASE j.op = "password"
      <4>1. Mutated(j, row) = [row EXCEPT !.status = row.status, !.linked = row.linked, !.pass = j.pass]
        BY <3>1, <3>9 DEF Mutated, Row
      <4>2. j.pass \in Secrets
        BY <1>1 DEF Job
      <4> QED BY <3>2, <4>1, <4>2
    <3> QED BY <3>3, <3>4, <3>5, <3>6, <3>8, <3>9
  <2>3. PICK st \in Statuses, l \in BOOLEAN, pw \in Secrets :
          Mutated(j, table[i]) = [table[i] EXCEPT !.status = st, !.linked = l, !.pass = pw]
    BY <2>2
  <2>4. Promise!Edit(i, st, l, pw)
    BY <1>1, <1>3, <2>1, <2>3 DEF Promise!Edit, Promise!Put
  <2>5. Promise!Statuses = Statuses /\ Promise!Secrets = Secrets
    BY DEF Promise!Statuses, Statuses, Promise!Secrets, Secrets, Chosen
  <2> QED BY <1>5, <2>4, <2>5 DEF Promise!Next
<1> QED BY <1>7, <1>8, <1>9

LEMMA CreateWritten ==
  ASSUME IInv, NEW r \in Requests, Write(r), job[r].op = "create"
  PROVE  Promise!Next
<1> DEFINE j == job[r]
<1>1. /\ j \in Job /\ Fits("writing", j) /\ table \in Tables /\ recorded \in [Ids -> Nat]
      /\ Changed(j, table, table') /\ mailed' = mailed /\ recorded[j.at] = 0
  BY DEF Write, IInv, TypeOK, JobsFit, Plans, Minted
<1>2. recorded' = recorded /\ j.at \in Ids /\ j.email \in Emails
  BY <1>1 DEF Write, Fits
<1>3. recorded' = [recorded EXCEPT ![j.at] = 0]
  BY <1>1, <1>2
<1>4. Promise!Create(j.at, j.email)
  BY <1>1, <1>3 DEF Changed, Promise!Create, Promise!Put, Promise!In, In, NewRow
<1> QED BY <1>2, <1>4 DEF Promise!Next

LEMMA StepImplemented ==
  ASSUME IInv, ~KilledInWrite, [Next]_vars
  PROVE  [Promise!Next]_<<table, recorded, mailed>>
<1>1. CASE UNCHANGED vars
  BY <1>1 DEF vars
<1>2. ASSUME NEW r \in Requests, Write(r) PROVE [Promise!Next]_<<table, recorded, mailed>>
  <2>1. CASE job[r].op = "create"
    BY <1>2, <2>1, CreateWritten
  <2>2. CASE job[r].op # "create" /\ job[r].at \in In(table)
    BY <1>2, <2>2, EditWritten
  <2>3. CASE job[r].op # "create" /\ job[r].at \notin In(table)
    <3>1. table' = table /\ ~job[r].counts /\ mailed' = mailed
      BY <1>2, <2>3 DEF Write, IInv, Plans, Changed
    <3>2. job[r].op = "reset" => recorded[job[r].at] = 0 /\ recorded \in [Ids -> Nat]
      BY <2>3 DEF IInv, Unused, JobsFit, Fits, Edits, TypeOK
    <3>3. recorded' = recorded
      BY <1>2, <3>1, <3>2 DEF Write
    <3> QED BY <3>1, <3>3
  <2> QED BY <2>1, <2>2, <2>3
<1>3. ASSUME NEW r \in Requests, Release(r) PROVE [Promise!Next]_<<table, recorded, mailed>>
  <2>1. CASE job[r].op = "creds" /\ job[r].pass # Own
    <3>1. HasRow(job[r], "written", table, mailed, changed) /\ job[r] \in Job /\ Fits("written", job[r])
      BY <1>3 DEF Release, IInv, NewRows, TypeOK, JobsFit
    <3>2. /\ job[r].at \in Promise!In(table) /\ table[job[r].at].email = job[r].email
          /\ table[job[r].at].pass = job[r].pass /\ job[r].pass \in Passwords
      BY <2>1, <3>1 DEF HasRow, Fits, Job, Secrets, Promise!In, In
    <3>3. Promise!Mail(job[r].at)
      BY <1>3, <2>1, <3>2 DEF Release, Promise!Mail
    <3> QED BY <3>2, <3>3 DEF Promise!Next
  <2>2. CASE ~(job[r].op = "creds" /\ job[r].pass # Own)
    BY <1>3, <2>2 DEF Release
  <2> QED BY <2>1, <2>2
<1>4. ASSUME NEW r \in Requests, Starts(r) PROVE UNCHANGED <<table, recorded, mailed>>
  BY <1>4 DEF Starts, Message, Turn, Touch, InvoicePaid, Rotate, SubscriptionEvent,
              ProvisionKnown, ProvisionNew, Signup, ChangePassword, PatchPassword, BeginAll, Begin
<1>5. ASSUME NEW r \in Requests, Kill(r) PROVE UNCHANGED <<table, recorded, mailed>>
  BY <1>5 DEF Kill
<1>6. ASSUME NEW r \in Requests,
             Resumes(r) \/ Acquire(r) \/ LockFails(r) \/ Refused(r) \/ Mutate(r) \/ CreateTenant(r)
      PROVE  UNCHANGED <<table, recorded, mailed>>
  BY <1>6 DEF Resumes, Acquire, LockFails, Refused, Mutate, CreateTenant
<1> QED BY <1>1, <1>2, <1>3, <1>4, <1>5, <1>6 DEF Next

\* While no kill falls in a write, the file goes through one operation at a time:
\* each change is made to what the last one left, and no tenant is ever gone.
THEOREM OneOperationAtATime ==
  ASSUME ~KilledInWrite
  PROVE  Spec => OneAtATime
<1>1. Init => Promise!Init
  <2> SUFFICES ASSUME Init PROVE Promise!Init
    OBVIOUS
  <2>1. Promise!Row = Row /\ Promise!In(table) = In(table)
    BY DEF Promise!Row, Row, Promise!Statuses, Statuses, Promise!Secrets, Secrets, Chosen, Promise!In, In
  <2>2. TypeOK /\ CountExact /\ OneTenant
    BY Initially DEF IInv
  <2> QED BY <2>1, <2>2 DEF Promise!Init, Init, TypeOK, Tables, CountExact, OneTenant
<1> QED BY <1>1, Invariant, StepImplemented, PTL DEF Spec, OneAtATime, Promise!Spec
=============================================================================
