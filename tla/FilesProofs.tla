---------------------------- MODULE FilesProofs ----------------------------
(* Theorems about what the program keeps in files.  Mailbox: the lock         *)
(* excludes, what is sent is kept, and the inbox is the queue of              *)
(* MessageQueue, for any number of operations, processes, crashes and stalls. *)
(* Transcript: a flush() that returns has written what it was called for, and *)
(* the file is the log of AppendLog, for any number of entries, writers,      *)
(* calls, crashes and failures of the disk.                                   *)
EXTENDS Mailbox, Transcript, SequenceTheorems, FiniteSetTheorems, TLAPS

Labels == Idle \cup Section \cup {"try", "create", "unlink", "sleep", "dispatch"}

\* The steps of an operation, and what they have in common.
Acts(o) ==
  \/ Start(o) \/ Judge(o) \/ Unlink(o) \/ Create(o) \/ Fill(o) \/ Read(o)
  \/ WriteInbox(o) \/ Unlock(o) \/ Wake(o) \/ Dispatch(o)

-----------------------------------------------------------------------------
(* Sequences *)

LEMMA ElementsTyped ==
  ASSUME NEW S, NEW q \in Seq(S)
  PROVE  ToSet(q) \subseteq S
BY DEF ToSet

LEMMA ElementsAppend ==
  ASSUME NEW S, NEW q \in Seq(S), NEW m \in S
  PROVE  /\ Append(q, m) \in Seq(S)
         /\ ToSet(Append(q, m)) = ToSet(q) \cup {m}
<1>1. /\ Append(q, m) \in Seq(S) /\ DOMAIN Append(q, m) = 1..Len(q) + 1 /\ DOMAIN q = 1..Len(q) /\ Len(q) \in Nat
      /\ \A i \in 1..Len(q) : Append(q, m)[i] = q[i]
      /\ Append(q, m)[Len(q) + 1] = m
  BY AppendProperties, LenProperties
<1>2. ASSUME NEW x \in ToSet(Append(q, m)) PROVE x \in ToSet(q) \cup {m}
  <2>1. PICK i \in DOMAIN Append(q, m) : x = Append(q, m)[i]
    BY <1>2 DEF ToSet
  <2>2. i \in 1..Len(q) \/ i = Len(q) + 1
    BY <1>1, <2>1
  <2> QED BY <1>1, <2>1, <2>2 DEF ToSet
<1>3. ASSUME NEW x \in ToSet(q) \cup {m} PROVE x \in ToSet(Append(q, m))
  <2>1. CASE x = m
    BY <1>1, <2>1 DEF ToSet
  <2>2. CASE x \in ToSet(q)
    <3>1. PICK i \in 1..Len(q) : x = q[i]
      BY <1>1, <2>2 DEF ToSet
    <3>2. i \in DOMAIN Append(q, m) /\ x = Append(q, m)[i]
      BY <1>1, <3>1
    <3> QED BY <3>2 DEF ToSet
  <2> QED BY <1>3, <2>1, <2>2
<1> QED BY <1>1, <1>2, <1>3

LEMMA ElementsHead ==
  ASSUME NEW S, NEW q \in Seq(S), q # <<>>
  PROVE  /\ Head(q) \in S /\ Tail(q) \in Seq(S)
         /\ ToSet(q) = ToSet(Tail(q)) \cup {Head(q)}
<1>1. /\ Head(q) \in S /\ Tail(q) \in Seq(S) /\ Len(Tail(q)) = Len(q) - 1 /\ Head(q) = q[1]
      /\ \A i \in 1..Len(q) - 1 : Tail(q)[i] = q[i + 1]
      /\ Len(q) \in Nat /\ Len(q) >= 1 /\ DOMAIN q = 1..Len(q) /\ DOMAIN Tail(q) = 1..Len(q) - 1
  BY HeadTailProperties, EmptySeq, LenProperties
<1>2. ASSUME NEW x \in ToSet(q) PROVE x \in ToSet(Tail(q)) \cup {Head(q)}
  <2>1. PICK i \in 1..Len(q) : x = q[i]
    BY <1>1, <1>2 DEF ToSet
  <2>2. CASE i = 1
    BY <1>1, <2>1, <2>2
  <2>3. CASE i # 1
    <3>1. i - 1 \in 1..Len(q) - 1 /\ i - 1 + 1 = i
      BY <1>1, <2>3
    <3>2. Tail(q)[i - 1] = x
      BY <1>1, <2>1, <3>1
    <3> QED BY <1>1, <3>1, <3>2 DEF ToSet
  <2> QED BY <2>2, <2>3
<1>3. ASSUME NEW x \in ToSet(Tail(q)) PROVE x \in ToSet(q)
  <2>1. PICK i \in 1..Len(q) - 1 : x = Tail(q)[i]
    BY <1>1, <1>3 DEF ToSet
  <2>2. i + 1 \in DOMAIN q /\ x = q[i + 1]
    BY <1>1, <2>1
  <2> QED BY <2>2 DEF ToSet
<1>4. Head(q) \in ToSet(q)
  BY <1>1 DEF ToSet
<1> QED BY <1>1, <1>2, <1>3, <1>4

\* A part of a sequence.
LEMMA PartTyped ==
  ASSUME NEW S, NEW q \in Seq(S), NEW a \in 1..Len(q) + 1, NEW b \in 0..Len(q)
  PROVE  /\ SubSeq(q, a, b) \in Seq(S)
         /\ Len(SubSeq(q, a, b)) = IF a <= b THEN b - a + 1 ELSE 0
         /\ \A i \in 1..Len(SubSeq(q, a, b)) : i + a - 1 \in DOMAIN q /\ SubSeq(q, a, b)[i] = q[i + a - 1]
<1>1. DOMAIN q = 1..Len(q) /\ Len(q) \in Nat
  BY LenProperties
<1>2. \A i \in a..b : i \in DOMAIN q /\ q[i] \in S
  BY <1>1, ElementOfSeq
<1>3. /\ SubSeq(q, a, b) \in Seq(S)
      /\ Len(SubSeq(q, a, b)) = IF a <= b THEN b - a + 1 ELSE 0
      /\ \A i \in 1..b - a + 1 : SubSeq(q, a, b)[i] = q[a + i - 1]
  <2>1. a \in Int /\ b \in Int
    BY <1>1
  <2> QED BY <1>2, <2>1, SubSeqProperties
<1>4. ASSUME NEW i \in 1..Len(SubSeq(q, a, b)) PROVE i + a - 1 \in DOMAIN q /\ SubSeq(q, a, b)[i] = q[i + a - 1]
  <2>1. a <= b /\ i \in 1..b - a + 1
    BY <1>1, <1>3
  <2>2. SubSeq(q, a, b)[i] = q[a + i - 1] /\ a + i - 1 = i + a - 1
    BY <1>1, <1>3, <2>1
  <2>3. i + a - 1 \in a..b
    BY <1>1, <2>1
  <2> QED BY <1>2, <2>2, <2>3
<1> QED BY <1>3, <1>4

\* No message is twice in q.
Distinct(q) == \A i, j \in DOMAIN q : q[i] = q[j] => i = j

LEMMA PartKeeps ==
  ASSUME NEW S, NEW q \in Seq(S), NEW a \in 1..Len(q) + 1, NEW b \in 0..Len(q)
  PROVE  /\ ToSet(SubSeq(q, a, b)) \subseteq ToSet(q)
         /\ Distinct(q) => Distinct(SubSeq(q, a, b))
<1> DEFINE p == SubSeq(q, a, b)
<1>1. p \in Seq(S) /\ \A i \in 1..Len(p) : i + a - 1 \in DOMAIN q /\ p[i] = q[i + a - 1]
  BY PartTyped
<1>2. DOMAIN p = 1..Len(p) /\ Len(p) \in Nat /\ a \in Int
  BY <1>1, LenProperties
<1> HIDE DEF p
<1>3. ToSet(p) \subseteq ToSet(q)
  BY <1>1, <1>2 DEF ToSet
<1>4. ASSUME Distinct(q), NEW i \in DOMAIN p, NEW j \in DOMAIN p, p[i] = p[j] PROVE i = j
  <2>1. i + a - 1 = j + a - 1
    BY <1>1, <1>2, <1>4 DEF Distinct
  <2> QED BY <1>2, <2>1
<1>5. Distinct(q) => Distinct(p)
  BY <1>4 DEF Distinct
<1> QED BY <1>3, <1>5 DEF p

LEMMA NewestKeeps ==
  ASSUME NEW S, NEW q \in Seq(S)
  PROVE  /\ Queue!Newest(q) \in Seq(S) /\ ToSet(Queue!Newest(q)) \subseteq ToSet(q)
         /\ Distinct(q) => Distinct(Queue!Newest(q))
<1>1. CASE Len(q) >= Capacity
  <2>1. Len(q) - Capacity + 2 \in 1..Len(q) + 1 /\ Len(q) \in 0..Len(q)
    BY <1>1, MailboxAssumption, LenProperties
  <2> QED BY <1>1, <2>1, PartTyped, PartKeeps DEF Queue!Newest
<1>2. CASE ~(Len(q) >= Capacity)
  BY <1>2 DEF Queue!Newest
<1> QED BY <1>1, <1>2

\* Taking a message out leaves the others, and leaves no copy of it where there was one only.
LEMMA WithoutKeeps ==
  ASSUME NEW S, NEW q \in Seq(S), NEW m \in S
  PROVE  /\ Queue!Without(q, m) \in Seq(S)
         /\ ToSet(q) \ {m} \subseteq ToSet(Queue!Without(q, m))
         /\ ToSet(Queue!Without(q, m)) \subseteq ToSet(q)
         /\ Distinct(q) => /\ Distinct(Queue!Without(q, m))
                           /\ ToSet(Queue!Without(q, m)) = ToSet(q) \ {m}
<1>1. CASE ~ \E i \in DOMAIN q : q[i] = m
  <2>1. Queue!Without(q, m) = q
    BY <1>1 DEF Queue!Without
  <2>2. m \notin ToSet(q)
    BY <1>1 DEF ToSet
  <2> QED BY <2>1, <2>2
<1>2. CASE \E i \in DOMAIN q : q[i] = m
  <2> DEFINE at == CHOOSE i \in DOMAIN q : q[i] = m
             h == SubSeq(q, 1, at - 1)
             t == SubSeq(q, at + 1, Len(q))
             w == h \o t
  <2>1. at \in DOMAIN q /\ q[at] = m
    BY <1>2
  <2>2. Queue!Without(q, m) = w
    BY <1>2 DEF Queue!Without
  <2> HIDE DEF at
  <2>3. at \in 1..Len(q) /\ Len(q) \in Nat /\ DOMAIN q = 1..Len(q)
    BY <2>1, LenProperties
  <2>4. 1 \in 1..Len(q) + 1 /\ at - 1 \in 0..Len(q) /\ at + 1 \in 1..Len(q) + 1 /\ Len(q) \in 0..Len(q)
    BY <2>3
  <2>5. h \in Seq(S) /\ Len(h) = at - 1 /\ \A i \in 1..Len(h) : h[i] = q[i]
    <3>1. /\ h \in Seq(S) /\ Len(h) = (IF 1 <= at - 1 THEN at - 1 - 1 + 1 ELSE 0)
          /\ \A i \in 1..Len(h) : h[i] = q[i + 1 - 1]
      BY <2>4, PartTyped
    <3>2. Len(h) = at - 1
      BY <2>3, <3>1
    <3> QED BY <2>3, <3>1, <3>2
  <2>6. t \in Seq(S) /\ Len(t) = Len(q) - at /\ \A i \in 1..Len(t) : t[i] = q[i + at]
    <3>1. /\ t \in Seq(S) /\ Len(t) = (IF at + 1 <= Len(q) THEN Len(q) - (at + 1) + 1 ELSE 0)
          /\ \A i \in 1..Len(t) : t[i] = q[i + (at + 1) - 1]
      BY <2>4, PartTyped
    <3>a. at \in Nat /\ Len(q) \in Nat /\ at <= Len(q)
          /\ Len(t) = (IF at + 1 <= Len(q) THEN Len(q) - (at + 1) + 1 ELSE 0)
      BY <2>3, <3>1
    <3> HIDE DEF t, h, w
    <3>2. Len(t) = Len(q) - at
      <4>1. CASE at + 1 <= Len(q)
        BY <3>a, <4>1
      <4>2. CASE ~(at + 1 <= Len(q))
        BY <3>a, <4>2
      <4> QED BY <4>1, <4>2
    <3>3. ASSUME NEW i \in 1..Len(t) PROVE t[i] = q[i + at]
      <4>1. i + (at + 1) - 1 = i + at
        BY <2>3, <3>2
      <4> QED BY <3>1, <4>1
    <3> QED BY <3>1, <3>2, <3>3
  <2> HIDE DEF h, t
  <2>7. /\ w \in Seq(S) /\ Len(w) = Len(q) - 1 /\ DOMAIN w = 1..Len(q) - 1
        /\ \A i \in 1..Len(q) - 1 : w[i] = IF i <= at - 1 THEN q[i] ELSE q[i + 1]
    <3>1. /\ w \in Seq(S) /\ Len(w) = Len(h) + Len(t)
          /\ \A i \in 1..Len(h) + Len(t) : w[i] = IF i <= Len(h) THEN h[i] ELSE t[i - Len(h)]
      BY <2>5, <2>6, ConcatProperties
    <3>2. Len(h) + Len(t) = Len(q) - 1
      BY <2>3, <2>5, <2>6
    <3>3. ASSUME NEW i \in 1..Len(q) - 1 PROVE w[i] = IF i <= at - 1 THEN q[i] ELSE q[i + 1]
      <4>1. CASE i <= at - 1
        BY <2>3, <2>5, <3>1, <3>2, <4>1
      <4>2. CASE ~(i <= at - 1)
        <5>1. i - Len(h) \in 1..Len(t) /\ i - Len(h) + at = i + 1
          BY <2>3, <2>5, <2>6, <4>2
        <5>2. w[i] = t[i - Len(h)]
          BY <2>5, <3>1, <3>2, <4>2
        <5> QED BY <2>6, <4>2, <5>1, <5>2
      <4> QED BY <4>1, <4>2
    <3> QED BY <3>1, <3>2, <3>3, LenProperties
  <2> HIDE DEF w
  <2>8. ASSUME NEW x \in ToSet(q), x # m PROVE x \in ToSet(w)
    <3>1. PICK i \in 1..Len(q) : x = q[i]
      BY <2>3, <2>8 DEF ToSet
    <3>2. i # at
      BY <2>1, <2>8, <3>1
    <3>3. CASE i < at
      <4>1. i \in 1..Len(q) - 1 /\ i <= at - 1
        BY <2>3, <3>3
      <4> QED BY <2>7, <3>1, <4>1 DEF ToSet
    <3>4. CASE i > at
      <4>1. i - 1 \in 1..Len(q) - 1 /\ ~(i - 1 <= at - 1) /\ i - 1 + 1 = i
        BY <2>3, <3>4
      <4>2. w[i - 1] = x
        BY <2>7, <3>1, <4>1
      <4> QED BY <2>7, <4>1, <4>2 DEF ToSet
    <3> QED BY <2>3, <3>2, <3>3, <3>4
  <2>9. ASSUME NEW i \in DOMAIN w
        PROVE  \E k \in DOMAIN q : k = (IF i <= at - 1 THEN i ELSE i + 1) /\ k # at /\ w[i] = q[k]
    <3>1. CASE i <= at - 1
      BY <2>3, <2>7, <3>1
    <3>2. CASE ~(i <= at - 1)
      BY <2>3, <2>7, <3>2
    <3> QED BY <3>1, <3>2
  <2>10. ToSet(w) \subseteq ToSet(q)
    BY <2>9 DEF ToSet
  <2>11. ASSUME Distinct(q) PROVE Distinct(w) /\ ToSet(w) = ToSet(q) \ {m}
    <3>1. ASSUME NEW i \in DOMAIN w, NEW j \in DOMAIN w, w[i] = w[j] PROVE i = j
      <4>1. PICK k \in DOMAIN q : k = (IF i <= at - 1 THEN i ELSE i + 1) /\ w[i] = q[k]
        BY <2>9
      <4>2. PICK n \in DOMAIN q : n = (IF j <= at - 1 THEN j ELSE j + 1) /\ w[j] = q[n]
        BY <2>9
      <4>3. k = n
        BY <2>11, <3>1, <4>1, <4>2 DEF Distinct
      <4> QED BY <2>3, <2>7, <4>1, <4>2, <4>3
    <3>2. m \notin ToSet(w)
      <4> SUFFICES ASSUME NEW i \in DOMAIN w, w[i] = m PROVE FALSE
        BY DEF ToSet
      <4>1. PICK k \in DOMAIN q : k # at /\ w[i] = q[k]
        BY <2>9
      <4> QED BY <2>1, <2>11, <4>1 DEF Distinct
    <3> QED BY <2>8, <2>10, <3>1, <3>2 DEF Distinct
  <2> QED BY <2>2, <2>7, <2>8, <2>10, <2>11
<1> QED BY <1>1, <1>2

-----------------------------------------------------------------------------
(* Types *)

LEMMA HandsTyped ==
  ASSUME TypeOK, NEW o \in Ops
  PROVE  Hands(o) \subseteq Sends
<1>1. ToSet(buf[o]) \subseteq Sends
  BY ElementsTyped DEF TypeOK
<1> QED BY <1>1 DEF Hands

LEMMA WrittenTyped ==
  ASSUME TypeOK, NEW o \in Ops
  PROVE  Written(o) \in Seq(Sends)
<1>1. buf[o] \in Seq(Sends)
  BY DEF TypeOK
<1>2. CASE o \in Sends
  <2>1. Queue!Newest(buf[o]) \in Seq(Sends)
    BY <1>1, NewestKeeps
  <2> QED BY <1>2, <2>1, ElementsAppend DEF Written
<1>3. CASE o \notin Sends /\ o \in Polls
  BY <1>3 DEF Written
<1>4. CASE o \notin Sends /\ o \notin Polls
  <2>1. Reply[o] \in Sends
    BY <1>4, MailboxAssumption DEF Ops
  <2> QED BY <1>1, <1>4, <2>1, WithoutKeeps DEF Written
<1> QED BY <1>2, <1>3, <1>4

LEMMA TypeStep ==
  ASSUME TypeOK, NEW o \in Ops, Acts(o)
  PROVE  TypeOK'
<1> USE DEF TypeOK, Goto, lock, local, past, Idle, Over, Section
<1>1. CASE Start(o)
  BY <1>1 DEF Start
<1>2. CASE Judge(o)
  BY <1>2 DEF Judge
<1>3. CASE Unlink(o)
  <2>1. robbed' \in BOOLEAN
    BY <1>3 DEF Unlink
  <2> QED BY <1>3, <2>1 DEF Unlink, NoLock
<1>4. CASE Create(o)
  <2>1. UNCHANGED <<found, buf, inbox, dead, handled, got, past>>
    BY <1>4 DEF Create
  <2>2. /\ holder' \in Ops \cup {None} /\ filled' \in BOOLEAN /\ old' \in BOOLEAN
        /\ pc' \in [Ops -> Idle \cup Section \cup {"try", "create", "unlink", "sleep", "dispatch"}]
    BY <1>4 DEF Create
  <2>3. tries' \in [Ops -> 0..Retries]
    <3>1. CASE UNCHANGED tries
      BY <3>1
    <3>2. CASE tries[o] < Retries /\ tries' = [tries EXCEPT ![o] = @ + 1]
      <4>1. tries[o] + 1 \in 0..Retries
        BY <3>2, MailboxAssumption
      <4> QED BY <3>2, <4>1
    <3>3. CASE tries' = [tries EXCEPT ![o] = 0]
      <4>1. 0 \in 0..Retries
        BY MailboxAssumption
      <4> QED BY <3>3, <4>1
    <3> QED BY <1>4, <3>1, <3>2, <3>3 DEF Create
  <2> QED BY <2>1, <2>2, <2>3
<1>5. CASE Fill(o)
  <2>1. filled' \in BOOLEAN
    BY <1>5 DEF Fill
  <2> QED BY <1>5, <2>1 DEF Fill
<1>6. CASE Read(o)
  <2>1. inbox' \in Seq(Sends)
    <3>1. inbox' = inbox \/ inbox' = <<>>
      BY <1>6 DEF Read
    <3>2. inbox \in Seq(Sends)
      OBVIOUS
    <3>3. <<>> \in Seq(Sends)
      BY EmptySeq
    <3> QED BY <3>1, <3>2, <3>3
  <2> QED BY <1>6, <2>1 DEF Read
<1>7. CASE WriteInbox(o)
  <2>1. inbox' \in Seq(Sends)
    BY <1>7, WrittenTyped DEF WriteInbox
  <2>2. ToSet(buf[o]) \subseteq Sends
    BY ElementsTyped
  <2>3. put' \subseteq Sends /\ dropped' \subseteq Sends
    BY <1>7, <2>2 DEF WriteInbox
  <2> QED BY <1>7, <2>1, <2>3 DEF WriteInbox
<1>8. CASE Unlock(o)
  <2>1. tries' \in [Ops -> 0..Retries]
    <3>1. 0 \in 0..Retries
      BY MailboxAssumption
    <3> QED BY <1>8, <3>1 DEF Unlock
  <2>2. o \in Waits => Reply[o] \in Sends
    BY MailboxAssumption
  <2>3. found' \in [Ops -> BOOLEAN] /\ got' \subseteq Sends
    BY <1>8, <2>2 DEF Unlock
  <2>4. pc' \in [Ops -> Idle \cup Section \cup {"try", "create", "unlink", "sleep", "dispatch"}]
    BY <1>8 DEF Unlock
  <2>5. buf' \in [Ops -> Seq(Sends)]
    BY <1>8 DEF Unlock
  <2> QED BY <1>8, <2>1, <2>3, <2>4, <2>5 DEF Unlock, NoLock
<1>9. CASE Wake(o)
  BY <1>9 DEF Wake
<1>10. CASE Dispatch(o)
  <2>1. CASE buf[o] = <<>>
    BY <1>10, <2>1 DEF Dispatch
  <2>2. CASE buf[o] # <<>>
    <3>1. Head(buf[o]) \in Sends /\ Tail(buf[o]) \in Seq(Sends)
      BY <2>2, ElementsHead
    <3>2. handled' \in Seq(Sends)
      <4>1. handled' = Append(handled, Head(buf[o]))
        BY <1>10, <2>2 DEF Dispatch
      <4> QED BY <3>1, <4>1, ElementsAppend
    <3> QED BY <1>10, <2>2, <3>1, <3>2 DEF Dispatch
  <2> QED BY <2>1, <2>2
<1> QED BY <1>1, <1>2, <1>3, <1>4, <1>5, <1>6, <1>7, <1>8, <1>9, <1>10 DEF Acts

LEMMA TypeCrash ==
  ASSUME TypeOK, NEW p \in Procs, Crash(p)
  PROVE  TypeOK'
<1>1. lost' \subseteq Sends
  BY HandsTyped DEF Crash, TypeOK
<1>2. tries' \in [Ops -> 0..Retries]
  <2>1. 0 \in 0..Retries
    BY MailboxAssumption
  <2> QED BY <2>1 DEF Crash, TypeOK
<1>3. buf' \in [Ops -> Seq(Sends)]
  BY DEF Crash, TypeOK
<1>4. pc' \in [Ops -> Idle \cup Section \cup {"try", "create", "unlink", "sleep", "dispatch"}]
  BY DEF Crash, TypeOK, Idle, Over
<1>5. crashes' \in Nat /\ dead' \subseteq Procs
  BY DEF Crash, TypeOK
<1> QED BY <1>1, <1>2, <1>3, <1>4, <1>5 DEF Crash, TypeOK, lock

\* What happens: a step of an operation, a crash or a stall.
LEMMA NextCases == Next => (\E o \in Ops : Acts(o)) \/ (\E p \in Procs : Crash(p)) \/ Stall
BY DEF Next, Acts

LEMMA TypeInductive == TypeOK /\ [Next]_vars => TypeOK'
<1> SUFFICES ASSUME TypeOK, [Next]_vars PROVE TypeOK'
  OBVIOUS
<1>1. CASE Stall
  BY <1>1 DEF Stall, TypeOK, local
<1>2. CASE UNCHANGED vars
  BY <1>2 DEF vars, lock, local, past, TypeOK
<1> QED BY <1>1, <1>2, NextCases, TypeStep, TypeCrash

LEMMA InitTypeOK == Init => TypeOK
<1> SUFFICES ASSUME Init PROVE TypeOK
  OBVIOUS
<1>1. tries \in [Ops -> 0..Retries]
  <2>1. 0 \in 0..Retries
    BY MailboxAssumption
  <2> QED BY <2>1 DEF Init
<1>2. <<>> \in Seq(Sends)
  OBVIOUS
<1>3. buf \in [Ops -> Seq(Sends)] /\ inbox \in Seq(Sends) /\ handled \in Seq(Sends)
  BY <1>2 DEF Init
<1>4. pc \in [Ops -> Idle \cup Section \cup {"try", "create", "unlink", "sleep", "dispatch"}]
  BY DEF Init, Idle
<1> QED BY <1>1, <1>3, <1>4 DEF Init, TypeOK

\* The lock, the inbox and the operations keep their types, for any number of operations.
THEOREM TypeCorrect == Spec => []TypeOK
BY InitTypeOK, TypeInductive, PTL DEF Spec

-----------------------------------------------------------------------------
(* The lock *)

\* Only operations of living processes are under way.
Alive == \A o \in Ops : pc[o] \notin Idle => Proc[o] \notin dead

\* Who is at work has the lock, as long as no lock was taken from one at work.
Held == ~robbed => \A o \in Ops : pc[o] \in Section => holder = o

\* A lock belongs to an operation at work, or to one whose process is gone.
Owned == holder # None => pc[holder] \in Section \/ Proc[holder] \in dead

\* An operation that runs by itself finds every lock stale, and with it none.
Unhindered ==
  \A o \in alone : /\ \A p \in Ops \ {o} : pc[p] \in Idle
                   /\ pc[o] = "create" => holder = None
                   /\ pc[o] # "failed"

LInv == Alive /\ Held /\ Owned /\ Unhindered

\* Only o moves, within its living process.
Moves(o) ==
  /\ \E l \in Labels : pc' = [pc EXCEPT ![o] = l]
  /\ dead' = dead /\ Proc[o] \notin dead

LEMMA ActsMove ==
  ASSUME TypeOK, Alive, NEW o \in Ops, Acts(o)
  PROVE  Moves(o)
<1> USE DEF Labels, Idle, Over, Section, Goto, Moves, past, local, lock
<1>1. CASE Start(o)
  BY <1>1 DEF Start
<1>2. CASE Judge(o)
  BY <1>2 DEF Judge, Alive
<1>3. CASE Unlink(o) \/ Fill(o)
  BY <1>3 DEF Unlink, Fill, Alive
<1>4. CASE Create(o)
  BY <1>4 DEF Create, Alive
<1>5. CASE Read(o)
  BY <1>5 DEF Read, Alive
<1>6. CASE WriteInbox(o) \/ Wake(o)
  BY <1>6 DEF WriteInbox, Wake, Alive
<1>7. CASE Unlock(o)
  BY <1>7 DEF Unlock, Alive
<1>8. CASE Dispatch(o)
  <2>1. pc[o] = "dispatch"
    BY <1>8 DEF Dispatch
  <2>2. Proc[o] \notin dead /\ dead' = dead
    BY <1>8, <2>1 DEF Dispatch, Alive
  <2>3. pc' = [pc EXCEPT ![o] = "dispatch"] \/ pc' = [pc EXCEPT ![o] = "done"]
    BY <1>8, <2>1 DEF Dispatch, TypeOK
  <2> QED BY <2>2, <2>3
<1> HIDE DEF Moves
<1> QED BY <1>1, <1>2, <1>3, <1>4, <1>5, <1>6, <1>7, <1>8 DEF Acts

LEMMA AliveStep ==
  ASSUME TypeOK, Alive, NEW o \in Ops, Moves(o)
  PROVE  Alive'
BY DEF TypeOK, Alive, Moves

\* The three ways in which a step treats the lock.
Takes(o) == holder = None /\ holder' = o /\ pc[o] \notin Section /\ pc'[o] \in Section
Drops(o) ==
  /\ holder' = None /\ pc'[o] \notin Section
  /\ \/ pc[o] \in Section
     \/ pc[o] \notin Section /\ (~robbed' => holder = None \/ Proc[holder] \in dead)
Leaves(o) == holder' = holder /\ (pc[o] \in Section <=> pc'[o] \in Section)

LEMMA LockCases ==
  ASSUME TypeOK, NEW o \in Ops, Acts(o)
  PROVE  /\ Takes(o) \/ Drops(o) \/ Leaves(o)
         /\ robbed => robbed'
<1> USE DEF Idle, Over, Section, Goto, past, local, lock, NoLock, TypeOK
<1> DEFINE Goal == (Takes(o) \/ Drops(o) \/ Leaves(o)) /\ (robbed => robbed')
<1>1. ASSUME Start(o) \/ Judge(o) \/ Fill(o) \/ Read(o) \/ WriteInbox(o) \/ Wake(o) PROVE Goal
  <2>1. Leaves(o)
    BY <1>1 DEF Start, Judge, Fill, Read, WriteInbox, Wake, Leaves
  <2>2. robbed' = robbed
    BY <1>1 DEF Start, Judge, Fill, Read, WriteInbox, Wake
  <2> QED BY <2>1, <2>2
<1>2. ASSUME Unlink(o) PROVE Goal
  BY <1>2 DEF Unlink, Drops
<1>3. ASSUME Create(o) PROVE Goal
  <2>1. robbed' = robbed /\ pc[o] \in {"create", "try"}
    BY <1>3 DEF Create
  <2>2. CASE holder = None /\ holder' = o /\ pc' = [pc EXCEPT ![o] = "fill"]
    BY <2>1, <2>2 DEF Takes
  <2>3. CASE holder' = holder /\ (pc' = [pc EXCEPT ![o] = "try"] \/ pc' = [pc EXCEPT ![o] = "failed"])
    BY <2>1, <2>3 DEF Leaves
  <2> QED BY <1>3, <2>2, <2>3 DEF Create
<1>4. ASSUME Unlock(o) PROVE Goal
  <2>1. robbed' = robbed /\ pc[o] = "unlock" /\ holder' = None
    BY <1>4 DEF Unlock
  <2>2. \E l \in {"done", "dispatch", "try", "sleep"} : pc' = [pc EXCEPT ![o] = l]
    BY <1>4 DEF Unlock
  <2> QED BY <2>1, <2>2 DEF Drops
<1>5. ASSUME Dispatch(o) PROVE Goal
  <2>1. holder' = holder /\ robbed' = robbed /\ pc[o] = "dispatch"
    BY <1>5 DEF Dispatch
  <2>2. pc' = pc \/ pc' = [pc EXCEPT ![o] = "done"]
    BY <1>5 DEF Dispatch
  <2> QED BY <2>1, <2>2 DEF Leaves
<1> QED BY <1>1, <1>2, <1>3, <1>4, <1>5 DEF Acts

LEMMA HeldStep ==
  ASSUME TypeOK, LInv, NEW o \in Ops, Acts(o)
  PROVE  Held' /\ Owned'
<1>1. Moves(o) /\ (Takes(o) \/ Drops(o) \/ Leaves(o)) /\ (robbed => robbed')
  BY ActsMove, LockCases DEF LInv
<1>2. PICK l \in Labels : pc' = [pc EXCEPT ![o] = l]
  BY <1>1 DEF Moves
<1>3. \A p \in Ops : pc'[p] = IF p = o THEN l ELSE pc[p]
  BY <1>2 DEF TypeOK
<1>4. dead' = dead
  BY <1>1 DEF Moves
<1>5. Held'
  <2> SUFFICES ASSUME ~robbed', NEW p \in Ops, pc'[p] \in Section PROVE holder' = p
    BY DEF Held
  <2>1. \A q \in Ops : pc[q] \in Section => holder = q /\ Proc[q] \notin dead
    BY <1>1 DEF LInv, Held, Alive, Section, Idle, Over
  <2>2. CASE Takes(o)
    BY <1>3, <2>1, <2>2, MailboxAssumption DEF Takes
  <2>3. CASE Drops(o)
    <3>1. p # o /\ pc[p] \in Section
      BY <1>3, <2>3 DEF Drops
    <3>2. holder = p /\ Proc[p] \notin dead /\ p # None
      BY <2>1, <3>1, MailboxAssumption
    <3> QED BY <2>1, <2>3, <3>1, <3>2 DEF Drops
  <2>4. CASE Leaves(o)
    BY <1>3, <2>1, <2>4 DEF Leaves
  <2> QED BY <1>1, <2>2, <2>3, <2>4
<1>6. Owned'
  <2> SUFFICES ASSUME holder' # None PROVE pc'[holder'] \in Section \/ Proc[holder'] \in dead
    BY <1>4 DEF Owned
  <2>1. CASE Takes(o)
    BY <2>1 DEF Takes
  <2>2. CASE Leaves(o)
    <3>1. holder \in Ops /\ holder' = holder
      BY <2>2 DEF Leaves, TypeOK
    <3>2. pc[holder] \in Section \/ Proc[holder] \in dead
      BY <3>1 DEF LInv, Owned
    <3> QED BY <1>3, <2>2, <3>1, <3>2 DEF Leaves
  <2> QED BY <1>1, <2>1, <2>2 DEF Drops
<1> QED BY <1>5, <1>6

LEMMA UnhinderedStep ==
  ASSUME TypeOK, LInv, NEW o \in Ops, Acts(o)
  PROVE  Unhindered'
<1>1. PICK l \in Labels : pc' = [pc EXCEPT ![o] = l]
  BY ActsMove DEF LInv, Moves
<1>2. \A p \in Ops : pc'[p] = IF p = o THEN l ELSE pc[p]
  BY <1>1 DEF TypeOK
<1>3. CASE Start(o)
  <2>1. pc'[o] = "try" /\ alone' = IF \A p \in Ops \ {o} : pc[p] \in Idle THEN {o} ELSE {}
    BY <1>3 DEF Start, Goto, TypeOK
  <2> QED BY <1>2, <2>1 DEF Unhindered
<1>4. CASE ~Start(o)
  <2> SUFFICES ASSUME NEW a \in alone'
               PROVE  /\ \A p \in Ops \ {a} : pc'[p] \in Idle
                      /\ pc'[a] = "create" => holder' = None
                      /\ pc'[a] # "failed"
    BY DEF Unhindered
  <2>1. alone' = alone
    BY <1>4 DEF Acts, Judge, Unlink, Create, Fill, Read, WriteInbox, Unlock, Wake, Dispatch, past
  <2>2. pc[o] \notin Idle
    BY <1>4 DEF Acts, Judge, Unlink, Create, Fill, Read, WriteInbox, Unlock, Wake, Dispatch, Idle, Over
  <2>3. a = o /\ a \in alone
    BY <2>1, <2>2 DEF LInv, Unhindered, TypeOK
  <2>4. /\ \A p \in Ops \ {o} : pc[p] \in Idle
        /\ pc[o] = "create" => holder = None
    BY <2>3 DEF LInv, Unhindered
  <2>5. ASSUME pc[o] \notin Section, holder # None PROVE Proc[holder] \in dead
    <3>1. holder \in Ops
      BY <2>5 DEF TypeOK
    <3>2. pc[holder] \notin Section
      BY <2>4, <2>5, <3>1 DEF Idle, Over, Section
    <3> QED BY <2>5, <3>2 DEF LInv, Owned
  <2>6. pc'[o] = "create" => holder' = None
    <3> SUFFICES ASSUME pc'[o] = "create" PROVE holder' = None
      OBVIOUS
    <3>1. CASE Judge(o)
      <4>1. ~Stale /\ pc[o] = "try" /\ holder' = holder
        BY <3>1 DEF Judge, Goto, TypeOK, lock
      <4> QED BY <2>5, <4>1 DEF Stale, Section
    <3>2. CASE Unlink(o)
      BY <3>2 DEF Unlink, NoLock
    <3>3. CASE ~Judge(o) /\ ~Unlink(o)
      <4>1. ~(pc'[o] = "create")
        BY <1>4, <3>3 DEF Acts, Create, Fill, Read, WriteInbox, Unlock, Wake, Dispatch, Goto, TypeOK
      <4> QED BY <4>1
    <3> QED BY <3>1, <3>2, <3>3
  <2>7. pc'[o] # "failed"
    <3>1. CASE Create(o)
      <4>1. ~(holder # None /\ tries[o] = Retries)
        BY <2>4, <3>1, MailboxAssumption DEF Create
      <4> QED BY <3>1, <4>1 DEF Create, Goto, TypeOK
    <3>2. CASE ~Create(o)
      <4>1. CASE Dispatch(o)
        BY <4>1 DEF Dispatch, Goto, TypeOK
      <4>2. CASE Judge(o) \/ Unlink(o) \/ Fill(o) \/ Read(o) \/ WriteInbox(o) \/ Wake(o)
        BY <4>2 DEF Judge, Unlink, Fill, Read, WriteInbox, Wake, Goto, TypeOK
      <4>3. CASE Unlock(o)
        BY <4>3 DEF Unlock, Goto, TypeOK
      <4> QED BY <1>4, <3>2, <4>1, <4>2, <4>3 DEF Acts
    <3> QED BY <3>1, <3>2
  <2> QED BY <1>2, <2>3, <2>4, <2>6, <2>7
<1> QED BY <1>3, <1>4

LEMMA LInvInductive == TypeOK /\ LInv /\ [Next]_vars => LInv'
<1> SUFFICES ASSUME TypeOK, LInv, [Next]_vars PROVE LInv'
  OBVIOUS
<1>1. ASSUME NEW o \in Ops, Acts(o) PROVE LInv'
  BY <1>1, ActsMove, AliveStep, HeldStep, UnhinderedStep DEF LInv
<1>2. ASSUME NEW p \in Procs, Crash(p) PROVE LInv'
  <2>1. /\ \A o \in Ops : pc'[o] = IF Proc[o] = p /\ pc[o] \notin Idle THEN "died" ELSE pc[o]
        /\ dead' = dead \cup {p} /\ holder' = holder /\ robbed' = robbed /\ alone' = alone
    BY <1>2 DEF Crash, lock
  <2>2. \A o \in Ops : /\ pc'[o] = pc[o] \/ pc'[o] = "died"
                       /\ pc[o] \in Idle => pc'[o] = pc[o]
    BY <2>1
  <2>3. Alive'
    BY <2>1 DEF LInv, Alive, Idle, Over
  <2>4. Held'
    BY <2>1, <2>2 DEF LInv, Held, Section
  <2>5. Owned'
    <3> SUFFICES ASSUME holder # None PROVE pc'[holder] \in Section \/ Proc[holder] \in dead'
      BY <2>1 DEF Owned
    <3>1. holder \in Ops /\ (pc[holder] \in Section \/ Proc[holder] \in dead)
      BY DEF LInv, Owned, TypeOK
    <3>2. CASE pc[holder] \in Section /\ Proc[holder] # p
      BY <2>1, <3>1, <3>2
    <3> QED BY <2>1, <3>1, <3>2
  <2>6. Unhindered'
    <3> SUFFICES ASSUME NEW a \in alone
                 PROVE  /\ \A o \in Ops \ {a} : pc'[o] \in Idle
                        /\ pc'[a] = "create" => holder' = None
                        /\ pc'[a] # "failed"
      BY <2>1 DEF Unhindered
    <3>1. /\ \A o \in Ops \ {a} : pc[o] \in Idle
          /\ pc[a] = "create" => holder = None
          /\ pc[a] # "failed" /\ a \in Ops
      BY DEF LInv, Unhindered, TypeOK
    <3> QED BY <2>1, <2>2, <3>1
  <2> QED BY <2>3, <2>4, <2>5, <2>6 DEF LInv
<1>3. CASE Stall
  <2>1. UNCHANGED <<pc, dead, holder, robbed, alone>>
    BY <1>3 DEF Stall
  <2> QED BY <2>1 DEF LInv, Alive, Held, Owned, Unhindered
<1>4. CASE UNCHANGED vars
  <2>1. UNCHANGED <<pc, dead, holder, robbed, alone>>
    BY <1>4 DEF vars, past, lock
  <2> QED BY <2>1 DEF LInv, Alive, Held, Owned, Unhindered
<1> QED BY <1>1, <1>2, <1>3, <1>4, NextCases

LEMMA InitLInv == Init => LInv
BY DEF Init, LInv, Alive, Held, Owned, Unhindered, Idle, Section

LEMMA LInvExclusive == LInv => Exclusive
BY DEF LInv, Held, Exclusive

\* Crashes alone do not break the lock: two operations are at work on the inbox together
\* only after the lock of a living process has been taken for stale.
THEOREM ExclusiveSafe == Spec => []Exclusive
BY TypeCorrect, InitLInv, LInvInductive, LInvExclusive, PTL DEF Spec

\* An operation that runs by itself gets the lock, whatever was left behind by the processes
\* that died: with its content, without, and as often as it takes the lock.
THEOREM AloneSafe == Spec => []AloneSucceeds
<1>1. LInv => AloneSucceeds
  BY DEF LInv, Unhindered, AloneSucceeds
<1> QED BY <1>1, TypeCorrect, InitLInv, LInvInductive, PTL DEF Spec

-----------------------------------------------------------------------------
(* What is sent *)

\* While an inbox is being rewritten it is empty, and a wait rewrites it to take its reply.
Emptied == ~robbed => \A o \in Ops : pc[o] = "write" => inbox = <<>>
Consumes == \A o \in Waits : pc[o] = "write" => found[o]

\* A message is written by its send, once.
Sent ==
  \A m \in Sends : /\ pc[m] \in {"unlock", "done"} => m \in put
                   /\ m \in put => pc[m] \in {"unlock", "done", "died"}
                   /\ pc[m] # "dispatch"

\* Where a message may be.
Here(o) == ToSet(inbox) \cup ToSet(handled) \cup got \cup dropped \cup lost \cup Hands(o)
Placed == ~robbed => \A m \in put : \E o \in Ops : m \in Here(o)

SInv == Emptied /\ Consumes /\ Sent /\ Placed

LEMMA OthersSame ==
  ASSUME TypeOK, NEW o \in Ops, Acts(o), NEW p \in Ops \ {o}
  PROVE  pc'[p] = pc[p] /\ buf'[p] = buf[p] /\ found'[p] = found[p]
<1> USE DEF Goto, local, TypeOK
<1>1. CASE Start(o) \/ Judge(o) \/ Unlink(o) \/ Fill(o) \/ WriteInbox(o) \/ Wake(o)
  BY <1>1 DEF Start, Judge, Unlink, Fill, WriteInbox, Wake
<1>2. CASE Create(o)
  BY <1>2 DEF Create
<1>3. CASE Read(o)
  BY <1>3 DEF Read
<1>4. CASE Unlock(o)
  <2>1. pc'[p] = pc[p] /\ found'[p] = found[p]
    BY <1>4 DEF Unlock
  <2>2. buf'[p] = buf[p]
    BY <1>4 DEF Unlock
  <2> QED BY <2>1, <2>2
<1>5. CASE Dispatch(o)
  <2>1. CASE buf[o] = <<>>
    BY <1>5, <2>1 DEF Dispatch
  <2>2. CASE buf[o] # <<>>
    BY <1>5, <2>2 DEF Dispatch
  <2> QED BY <2>1, <2>2
<1> QED BY <1>1, <1>2, <1>3, <1>4, <1>5 DEF Acts

\* Nobody else rewrites the inbox when o is at work on it.
LEMMA OneWrites ==
  ASSUME LInv, NEW o \in Ops, pc[o] \in Section, ~robbed, NEW p \in Ops, pc[p] = "write"
  PROVE  p = o
BY DEF LInv, Held, Section

LEMMA EmptiedStep ==
  ASSUME TypeOK, LInv, SInv, NEW o \in Ops, Acts(o)
  PROVE  Emptied' /\ Consumes'
<1>1. \A p \in Ops \ {o} : pc'[p] = pc[p] /\ found'[p] = found[p]
  BY OthersSame
<1>2. robbed => robbed'
  BY LockCases
<1>3. Emptied'
  <2> SUFFICES ASSUME ~robbed', NEW p \in Ops, pc'[p] = "write" PROVE inbox' = <<>>
    BY DEF Emptied
  <2>1. CASE Read(o)
    <3>1. pc[o] = "locked" /\ (inbox' = <<>> \/ pc' = [pc EXCEPT ![o] = "unlock"])
      BY <2>1 DEF Read, Goto
    <3>2. CASE inbox' = <<>>
      BY <3>2
    <3>3. CASE pc' = [pc EXCEPT ![o] = "unlock"]
      <4>1. p # o /\ pc[p] = "write"
        BY <1>1, <3>3 DEF TypeOK
      <4> QED BY <1>2, <3>1, <4>1, OneWrites DEF Section
    <3> QED BY <3>1, <3>2, <3>3
  <2>2. CASE WriteInbox(o)
    <3>1. pc[o] = "write" /\ pc'[o] = "unlock"
      BY <2>2 DEF WriteInbox, Goto, TypeOK
    <3>2. p # o /\ pc[p] = "write"
      BY <1>1, <3>1
    <3> QED BY <1>2, <3>1, <3>2, OneWrites DEF Section
  <2>3. CASE ~Read(o) /\ ~WriteInbox(o)
    <3>1. inbox' = inbox
      BY <2>3 DEF Acts, Start, Judge, Unlink, Create, Fill, Unlock, Wake, Dispatch
    <3>2. pc'[o] # "write" \/ pc[o] = "write"
      <4>1. CASE Dispatch(o)
        BY <4>1 DEF Dispatch, Goto, TypeOK
      <4>2. CASE Start(o) \/ Judge(o) \/ Unlink(o) \/ Fill(o) \/ Wake(o)
        BY <4>2 DEF Start, Judge, Unlink, Fill, Wake, Goto, TypeOK
      <4>3. CASE Unlock(o)
        BY <4>3 DEF Unlock, Goto, TypeOK
      <4>4. CASE Create(o)
        BY <4>4 DEF Create, Goto, TypeOK
      <4> QED BY <2>3, <4>1, <4>2, <4>3, <4>4 DEF Acts
    <3>3. pc[p] = "write"
      BY <1>1, <3>2
    <3> QED BY <1>2, <3>1, <3>3 DEF SInv, Emptied
  <2> QED BY <2>1, <2>2, <2>3
<1>4. Consumes'
  <2> SUFFICES ASSUME o \in Waits, pc'[o] = "write" PROVE found'[o]
    BY <1>1 DEF SInv, Consumes, Ops
  <2>1. CASE Read(o)
    <3>1. ~Looks(o) /\ found' = found
      BY <2>1 DEF Read, Goto, TypeOK
    <3> QED BY <3>1 DEF Looks
  <2>2. CASE ~Read(o)
    <3>1. ~(pc'[o] = "write") \/ (pc[o] = "write" /\ found' = found)
      <4>1. CASE Dispatch(o)
        BY <4>1 DEF Dispatch, Goto, TypeOK
      <4>2. CASE Start(o) \/ Judge(o) \/ Unlink(o) \/ Fill(o) \/ Wake(o) \/ WriteInbox(o)
        BY <4>2 DEF Start, Judge, Unlink, Fill, Wake, WriteInbox, Goto, TypeOK
      <4>3. CASE Unlock(o)
        BY <4>3 DEF Unlock, Goto, TypeOK
      <4>4. CASE Create(o)
        BY <4>4 DEF Create, Goto, TypeOK
      <4> QED BY <2>2, <4>1, <4>2, <4>3, <4>4 DEF Acts
    <3> QED BY <3>1 DEF SInv, Consumes
  <2> QED BY <2>1, <2>2
<1> QED BY <1>3, <1>4

LEMMA SentStep ==
  ASSUME TypeOK, SInv, NEW o \in Ops, Acts(o)
  PROVE  Sent'
<1>1. \A p \in Ops \ {o} : pc'[p] = pc[p]
  BY OthersSame
<1>2. o \in put => o \in Sends
  BY DEF TypeOK
<1>3. CASE WriteInbox(o)
  <2>1. pc'[o] = "unlock" /\ put' = IF o \in Sends THEN put \cup {o} ELSE put
    BY <1>3 DEF WriteInbox, Goto, TypeOK
  <2> QED BY <1>1, <2>1 DEF SInv, Sent, Ops, TypeOK
<1>4. CASE ~WriteInbox(o)
  <2>1. put' = put
    BY <1>4 DEF Acts, Start, Judge, Unlink, Create, Fill, Read, Unlock, Wake, Dispatch, past
  <2>2. ASSUME o \in Sends
        PROVE  /\ pc'[o] \in {"unlock", "done"} => o \in put
               /\ o \in put => pc'[o] \in {"unlock", "done", "died"}
               /\ pc'[o] # "dispatch"
    <3>1. o \notin Waits /\ o \notin Polls
      BY <2>2, MailboxAssumption
    <3>2. /\ pc[o] \in {"unlock", "done"} => o \in put
          /\ o \in put => pc[o] \in {"unlock", "done", "died"}
          /\ pc[o] # "dispatch"
      BY <2>2 DEF SInv, Sent
    <3>3. CASE Unlock(o)
      <4>1. pc[o] = "unlock" /\ pc'[o] = "done"
        BY <3>1, <3>3 DEF Unlock, Looks, Goto, TypeOK
      <4> QED BY <3>2, <4>1
    <3>4. CASE Start(o) \/ Judge(o) \/ Unlink(o) \/ Fill(o) \/ Wake(o)
      <4>1. pc[o] \notin {"unlock", "done", "died"} /\ pc'[o] \notin {"unlock", "done", "died", "dispatch"}
        BY <3>4 DEF Start, Judge, Unlink, Fill, Wake, Goto, TypeOK
      <4> QED BY <3>2, <4>1
    <3>5. CASE Create(o)
      <4>1. pc[o] \notin {"unlock", "done", "died"} /\ pc'[o] \notin {"unlock", "done", "died", "dispatch"}
        BY <3>5 DEF Create, Goto, TypeOK
      <4> QED BY <3>2, <4>1
    <3>6. CASE Read(o)
      <4>1. ~Looks(o)
        BY <3>1 DEF Looks
      <4>2. pc[o] = "locked" /\ pc'[o] = "write"
        BY <3>6, <4>1 DEF Read, Goto, TypeOK
      <4> QED BY <3>2, <4>2
    <3>7. ~Dispatch(o)
      BY <3>2 DEF Dispatch
    <3> QED BY <1>4, <3>3, <3>4, <3>5, <3>6, <3>7 DEF Acts
  <2> QED BY <1>1, <2>1, <2>2 DEF SInv, Sent, Ops
<1> QED BY <1>3, <1>4

\* A step of o moves messages within what o reaches, and adds the one that o writes.
LEMMA HereStep ==
  ASSUME TypeOK, SInv, NEW o \in Ops, Acts(o), ~robbed
  PROVE  /\ Here(o) \subseteq Here(o)'
         /\ put' \subseteq put \cup Here(o)'
         /\ ToSet(inbox) \cup ToSet(handled) \cup got \cup dropped \cup lost \subseteq Here(o)'
<1> USE DEF Goto, TypeOK
<1>1. ToSet(inbox) \cup ToSet(handled) \cup got \cup dropped \cup lost \subseteq Here(o)
  BY DEF Here
<1> DEFINE Goal == Here(o) \subseteq Here(o)' /\ put' \subseteq put \cup Here(o)'
<1>2. ASSUME Start(o) \/ Judge(o) \/ Unlink(o) \/ Fill(o) \/ Wake(o) PROVE Goal
  <2>1. UNCHANGED <<inbox, handled, got, put, dropped, lost, found, buf>>
    BY <1>2 DEF Start, Judge, Unlink, Fill, Wake, local, past
  <2>2. pc[o] \notin {"write", "unlock", "dispatch"}
    BY <1>2 DEF Start, Judge, Unlink, Fill, Wake
  <2>3. Hands(o) = {}
    BY <2>2 DEF Hands
  <2> QED BY <2>1, <2>3 DEF Here
<1>3. ASSUME Create(o) PROVE Goal
  <2>1. UNCHANGED <<inbox, handled, got, put, dropped, lost, found, buf>>
    BY <1>3 DEF Create, past
  <2>2. pc[o] \notin {"write", "unlock", "dispatch"}
    BY <1>3 DEF Create
  <2>3. Hands(o) = {}
    BY <2>2 DEF Hands
  <2> QED BY <2>1, <2>3 DEF Here
<1>4. ASSUME Read(o) PROVE Goal
  <2>1. UNCHANGED <<handled, got, put, dropped, lost, found>> /\ pc[o] = "locked" /\ buf' = [buf EXCEPT ![o] = inbox]
    BY <1>4 DEF Read, past
  <2>2. Hands(o) = {}
    BY <2>1 DEF Hands
  <2>3. CASE Looks(o)
    <3>1. inbox' = inbox
      BY <1>4, <2>3 DEF Read
    <3> QED BY <2>1, <2>2, <3>1 DEF Here
  <2>4. CASE ~Looks(o)
    <3>1. pc'[o] = "write" /\ buf'[o] = inbox
      BY <1>4, <2>1, <2>4 DEF Read
    <3>2. Hands(o)' = ToSet(inbox)
      BY <3>1 DEF Hands
    <3> QED BY <2>1, <2>2, <3>2 DEF Here
  <2> QED BY <2>3, <2>4
<1>5. ASSUME WriteInbox(o) PROVE Goal
  <2>1. /\ UNCHANGED <<handled, got, lost, found, buf>> /\ pc[o] = "write" /\ pc'[o] = "unlock" /\ inbox' = Written(o)
        /\ put' = IF o \in Sends THEN put \cup {o} ELSE put
        /\ dropped' = IF o \in Sends THEN dropped \cup (ToSet(buf[o]) \ ToSet(Written(o))) ELSE dropped
    BY <1>5 DEF WriteInbox, local
  <2>2. ToSet(inbox) = {} /\ Hands(o) = ToSet(buf[o]) /\ buf[o] \in Seq(Sends)
    BY <2>1 DEF SInv, Emptied, Hands, ToSet
  <2>3. CASE o \in Sends
    <3>1. o \in ToSet(Written(o))
      <4>1. Queue!Newest(buf[o]) \in Seq(Sends)
        BY <2>2, NewestKeeps
      <4>2. Written(o) = Append(Queue!Newest(buf[o]), o)
        BY <2>3 DEF Written
      <4> QED BY <2>3, <4>1, <4>2, ElementsAppend
    <3>2. ToSet(inbox)' = ToSet(Written(o))
      BY <2>1
    <3> QED BY <2>1, <2>2, <2>3, <3>1, <3>2 DEF Here
  <2>4. CASE o \in Polls
    <3>1. o \notin Sends
      BY <2>4, MailboxAssumption
    <3>2. Hands(o)' = ToSet(buf[o])
      BY <2>1, <2>4 DEF Hands
    <3> QED BY <2>1, <2>2, <3>1, <3>2 DEF Here
  <2>5. CASE o \in Waits
    <3>1. o \notin Sends /\ o \notin Polls /\ Reply[o] \in Sends
      BY <2>5, MailboxAssumption
    <3>2. found[o]
      BY <2>1, <2>5 DEF SInv, Consumes
    <3>3. Hands(o)' = ToSet(buf[o]) \cap {Reply[o]}
      BY <2>1, <2>5, <3>1, <3>2 DEF Hands
    <3>4. Written(o) = Queue!Without(buf[o], Reply[o])
      BY <3>1 DEF Written
    <3>5. ToSet(buf[o]) \ {Reply[o]} \subseteq ToSet(Written(o))
      BY <2>2, <3>1, <3>4, WithoutKeeps
    <3>6. ToSet(inbox)' = ToSet(Written(o))
      BY <2>1
    <3> QED BY <2>1, <2>2, <3>1, <3>3, <3>5, <3>6 DEF Here
  <2> QED BY <2>3, <2>4, <2>5 DEF Ops
<1>6. ASSUME Unlock(o) PROVE Goal
  <2>1. UNCHANGED <<inbox, handled, put, dropped, lost>> /\ pc[o] = "unlock" /\ got \subseteq got'
    BY <1>6 DEF Unlock, past
  <2>2. CASE o \in Polls
    <3>1. pc'[o] = "dispatch" /\ buf' = buf
      BY <1>6, <2>2, MailboxAssumption DEF Unlock, Looks
    <3>2. Hands(o)' = Hands(o)
      BY <2>1, <2>2, <3>1 DEF Hands
    <3> QED BY <2>1, <3>2 DEF Here
  <2>3. CASE o \notin Polls /\ o \in Waits /\ found[o]
    <3>1. got' = got \cup {Reply[o]}
      BY <1>6, <2>3, MailboxAssumption DEF Unlock, Looks
    <3>2. Hands(o) \subseteq {Reply[o]}
      BY <2>1, <2>3 DEF Hands
    <3> QED BY <2>1, <3>1, <3>2 DEF Here
  <2>4. CASE o \notin Polls /\ ~(o \in Waits /\ found[o])
    <3>1. Hands(o) = {}
      BY <2>1, <2>4 DEF Hands
    <3> QED BY <2>1, <3>1 DEF Here
  <2> QED BY <2>2, <2>3, <2>4
<1>7. ASSUME Dispatch(o) PROVE Goal
  <2>1. UNCHANGED <<inbox, got, put, dropped, lost, found>> /\ pc[o] = "dispatch" /\ buf[o] \in Seq(Sends)
    BY <1>7 DEF Dispatch, past
  <2>2. CASE buf[o] = <<>>
    <3>1. Hands(o) = {} /\ handled' = handled
      BY <1>7, <2>1, <2>2 DEF Hands, ToSet, Dispatch
    <3> QED BY <2>1, <3>1 DEF Here
  <2>3. CASE buf[o] # <<>>
    <3>1. handled' = Append(handled, Head(buf[o])) /\ buf'[o] = Tail(buf[o]) /\ pc' = pc
      BY <1>7, <2>3 DEF Dispatch
    <3>2. Head(buf[o]) \in Sends /\ ToSet(buf[o]) = ToSet(Tail(buf[o])) \cup {Head(buf[o])}
      BY <2>1, <2>3, ElementsHead
    <3>3. ToSet(handled)' = ToSet(handled) \cup {Head(buf[o])}
      BY <3>1, <3>2, ElementsAppend
    <3>4. CASE o \in Polls
      <4>1. Hands(o) = ToSet(buf[o]) /\ Hands(o)' = ToSet(Tail(buf[o]))
        BY <2>1, <3>1, <3>4 DEF Hands
      <4> QED BY <2>1, <3>2, <3>3, <4>1 DEF Here
    <3>5. CASE o \notin Polls
      <4>1. Hands(o) = {}
        BY <2>1, <3>5 DEF Hands
      <4> QED BY <2>1, <3>3, <4>1 DEF Here
    <3> QED BY <3>4, <3>5
  <2> QED BY <2>2, <2>3
<1>8. Goal
  BY <1>2, <1>3, <1>4, <1>5, <1>6, <1>7 DEF Acts
<1> QED BY <1>1, <1>8

LEMMA PlacedStep ==
  ASSUME TypeOK, SInv, NEW o \in Ops, Acts(o)
  PROVE  Placed'
<1> SUFFICES ASSUME ~robbed', NEW m \in put' PROVE \E p \in Ops : m \in Here(p)'
  BY DEF Placed
<1>1. ~robbed
  BY LockCases
<1>2. CASE m \notin put
  BY <1>1, <1>2, HereStep
<1>3. CASE m \in put
  <2>1. PICK p \in Ops : m \in Here(p)
    BY <1>1, <1>3 DEF SInv, Placed
  <2>2. CASE p = o \/ m \notin Hands(p)
    <3>1. m \in Here(o)'
      BY <1>1, <2>1, <2>2, HereStep DEF Here
    <3> QED BY <3>1
  <2>3. CASE p # o /\ m \in Hands(p)
    <3>1. pc'[p] = pc[p] /\ buf'[p] = buf[p] /\ found'[p] = found[p]
      BY <2>3, OthersSame
    <3>2. Hands(p)' = Hands(p)
      BY <3>1 DEF Hands
    <3>3. m \in Here(p)'
      BY <2>3, <3>2 DEF Here
    <3> QED BY <3>3
  <2> QED BY <2>2, <2>3
<1> QED BY <1>2, <1>3

\* What only a process had that is killed is counted as lost; others keep what they have.
LEMMA CrashHands ==
  ASSUME TypeOK, NEW p \in Procs, Crash(p), NEW o \in Ops
  PROVE  Here(o) \subseteq Here(o)'
<1>1. /\ UNCHANGED <<inbox, handled, got, dropped, found>>
      /\ lost' = lost \cup UNION {Hands(q) : q \in {x \in Ops : Proc[x] = p}}
      /\ pc'[o] = (IF Proc[o] = p /\ pc[o] \notin Idle THEN "died" ELSE pc[o])
      /\ buf'[o] = (IF Proc[o] = p THEN <<>> ELSE buf[o])
  BY DEF Crash
<1>2. CASE Proc[o] = p
  <2>1. Hands(o) \subseteq lost'
    BY <1>1, <1>2
  <2> QED BY <1>1, <2>1 DEF Here
<1>3. CASE Proc[o] # p
  <2>1. Hands(o)' = Hands(o)
    BY <1>1, <1>3 DEF Hands
  <2> QED BY <1>1, <2>1 DEF Here
<1> QED BY <1>2, <1>3

LEMMA SInvInductive == TypeOK /\ LInv /\ SInv /\ [Next]_vars => SInv'
<1> SUFFICES ASSUME TypeOK, LInv, SInv, [Next]_vars PROVE SInv'
  OBVIOUS
<1>1. ASSUME NEW o \in Ops, Acts(o) PROVE SInv'
  BY <1>1, EmptiedStep, SentStep, PlacedStep DEF SInv
<1>2. ASSUME NEW p \in Procs, Crash(p) PROVE SInv'
  <2>1. /\ \A o \in Ops : pc'[o] = IF Proc[o] = p /\ pc[o] \notin Idle THEN "died" ELSE pc[o]
        /\ UNCHANGED <<inbox, robbed, put, found>>
    BY <1>2 DEF Crash
  <2>2. \A o \in Ops : pc'[o] = pc[o] \/ (pc'[o] = "died" /\ pc[o] \notin Idle)
    BY <2>1
  <2>3. Emptied' /\ Consumes'
    BY <2>1, <2>2 DEF SInv, Emptied, Consumes, Ops
  <2>4. Sent'
    <3> SUFFICES ASSUME NEW m \in Sends
                 PROVE  /\ pc'[m] \in {"unlock", "done"} => m \in put
                        /\ m \in put => pc'[m] \in {"unlock", "done", "died"}
                        /\ pc'[m] # "dispatch"
      BY <2>1 DEF Sent
    <3>1. /\ pc[m] \in {"unlock", "done"} => m \in put
          /\ m \in put => pc[m] \in {"unlock", "done", "died"}
          /\ pc[m] # "dispatch" /\ m \in Ops
      BY DEF SInv, Sent, Ops
    <3> QED BY <2>2, <3>1
  <2>5. Placed'
    <3> SUFFICES ASSUME ~robbed, NEW m \in put PROVE \E o \in Ops : m \in Here(o)'
      BY <2>1 DEF Placed
    <3>1. PICK o \in Ops : m \in Here(o)
      BY DEF SInv, Placed
    <3>2. m \in Here(o)'
      BY <1>2, <3>1, CrashHands
    <3> QED BY <3>2
  <2> QED BY <2>3, <2>4, <2>5 DEF SInv
<1>3. CASE UNCHANGED <<inbox, pc, local, handled, got, put, dropped, lost, robbed>>
  BY <1>3 DEF SInv, Emptied, Consumes, Sent, Placed, Here, Hands, local
<1>4. Stall \/ UNCHANGED vars => UNCHANGED <<inbox, pc, local, handled, got, put, dropped, lost, robbed>>
  BY DEF Stall, vars, past
<1> QED BY <1>1, <1>2, <1>3, <1>4, NextCases

LEMMA InitSInv == Init => SInv
<1> SUFFICES ASSUME Init PROVE SInv
  OBVIOUS
<1>1. \A o \in Ops : pc[o] = "new"
  BY DEF Init
<1>2. put = {} /\ Sends \subseteq Ops /\ Waits \subseteq Ops
  BY DEF Init, Ops
<1> QED BY <1>1, <1>2 DEF SInv, Emptied, Consumes, Sent, Placed

LEMMA SInvKept == SInv => Kept
<1> SUFFICES ASSUME SInv, ~robbed, NEW m \in Sends, pc[m] = "done"
             PROVE  m \in ToSet(inbox) \cup ToSet(handled) \cup got \cup dropped \cup lost
                          \cup UNION {Hands(o) : o \in Ops}
  BY DEF Kept
<1>1. PICK o \in Ops : m \in Here(o)
  BY DEF SInv, Sent, Placed
<1> QED BY <1>1 DEF Here

\* As long as no lock was taken from an operation at work, a message whose send has returned
\* is in the inbox, with its reader, or where its reader has put it, unless it made room for
\* a newer one or its reader was killed.
THEOREM KeptSafe == Spec => []Kept
BY TypeCorrect, InitLInv, LInvInductive, InitSInv, SInvInductive, SInvKept, PTL DEF Spec

-----------------------------------------------------------------------------
(* The queue *)

\* The operation that rewrites the inbox.
LEMMA BoxWriter ==
  ASSUME LInv, ~robbed, NEW o \in Ops, pc[o] = "write"
  PROVE  Box = buf[o]
<1>1. \A p \in Ops : pc[p] = "write" => p = o
  BY OneWrites DEF Section
<1>2. (CHOOSE p \in Ops : pc[p] = "write") = o
  BY <1>1
<1> QED BY <1>2 DEF Box

LEMMA BoxIdle ==
  ASSUME \A o \in Ops : pc[o] # "write"
  PROVE  Box = inbox
BY DEF Box

\* The same in the next state.
LEMMA BoxWriterNext ==
  ASSUME LInv', ~robbed', NEW o \in Ops, pc'[o] = "write"
  PROVE  Box' = buf'[o]
<1>1. \A p \in Ops : pc'[p] = "write" => p = o
  BY DEF LInv, Held, Section
<1>2. (CHOOSE p \in Ops : pc'[p] = "write") = o
  BY <1>1
<1> QED BY <1>2 DEF Box

LEMMA BoxIdleNext ==
  ASSUME \A o \in Ops : pc'[o] # "write"
  PROVE  Box' = inbox'
BY DEF Box

\* A step that does not touch the inbox, nor who rewrites it, leaves the queue alone.
LEMMA BoxKept ==
  ASSUME LInv, LInv', ~robbed, ~robbed', inbox' = inbox,
         \A o \in Ops : /\ pc'[o] = "write" <=> pc[o] = "write"
                        /\ pc[o] = "write" => buf'[o] = buf[o]
  PROVE  Box' = Box
<1>1. CASE \E o \in Ops : pc[o] = "write"
  <2>1. PICK o \in Ops : pc[o] = "write"
    BY <1>1
  <2> QED BY <2>1, BoxWriter, BoxWriterNext
<1>2. CASE ~ \E o \in Ops : pc[o] = "write"
  BY <1>2, BoxIdle, BoxIdleNext
<1> QED BY <1>1, <1>2

\* Every step is one of the queue, or leaves it alone, while no lock is taken from an
\* operation at work.
LEMMA QueueActs ==
  ASSUME TypeOK, LInv, LInv', SInv, NEW o \in Ops, Acts(o), ~robbed'
  PROVE  Abstract!Next \/ UNCHANGED <<Box, put>>
<1>a. ~robbed
  BY LockCases
<1>b. \A p \in Ops \ {o} : pc'[p] = pc[p] /\ buf'[p] = buf[p]
  BY OthersSame
<1>1. CASE WriteInbox(o)
  <2>1. /\ pc[o] = "write" /\ pc'[o] = "unlock" /\ inbox' = Written(o)
        /\ put' = IF o \in Sends THEN put \cup {o} ELSE put
    BY <1>1 DEF WriteInbox, Goto, TypeOK
  <2>2. Box = buf[o]
    BY <1>a, <2>1, BoxWriter
  <2>3. \A p \in Ops : pc'[p] # "write"
    BY <1>a, <1>b, <2>1, OneWrites DEF Section
  <2>4. Box' = Written(o)
    BY <2>1, <2>3, BoxIdleNext
  <2>5. CASE o \in Sends
    <3>1. o \notin put
      BY <2>1, <2>5 DEF SInv, Sent
    <3>2. Box' = Append(Abstract!Newest(Box), o)
      BY <2>2, <2>4, <2>5 DEF Written, Queue!Newest, Abstract!Newest
    <3>3. Abstract!Put(o)
      BY <2>1, <2>5, <3>1, <3>2 DEF Abstract!Put
    <3> QED BY <2>5, <3>3 DEF Abstract!Next
  <2>6. CASE o \in Polls
    <3>1. o \notin Sends
      BY <2>6, MailboxAssumption
    <3>2. Abstract!TakeAll
      BY <2>1, <2>4, <2>6, <3>1 DEF Written, Abstract!TakeAll
    <3> QED BY <3>2 DEF Abstract!Next
  <2>7. CASE o \in Waits
    <3>1. o \notin Sends /\ o \notin Polls /\ Reply[o] \in Sends
      BY <2>7, MailboxAssumption
    <3>2. Box' = Abstract!Without(Box, Reply[o])
      BY <2>2, <2>4, <3>1 DEF Written, Queue!Without, Abstract!Without
    <3>3. Abstract!Take(Reply[o])
      BY <2>1, <3>1, <3>2 DEF Abstract!Take
    <3> QED BY <3>1, <3>3 DEF Abstract!Next
  <2> QED BY <2>5, <2>6, <2>7 DEF Ops
<1>2. CASE Read(o)
  <2>1. put' = put /\ pc[o] = "locked" /\ buf'[o] = inbox
    BY <1>2 DEF Read, past, TypeOK
  <2>2. \A p \in Ops : pc[p] # "write"
    <3> SUFFICES ASSUME NEW p \in Ops, pc[p] = "write" PROVE FALSE
      OBVIOUS
    <3>1. p = o
      BY <1>a, <2>1, OneWrites DEF Section
    <3> QED BY <2>1, <3>1
  <2>3. Box = inbox
    BY <2>2, BoxIdle
  <2>4. CASE Looks(o)
    <3>1. inbox' = inbox /\ pc'[o] = "unlock"
      BY <1>2, <2>4 DEF Read, Goto, TypeOK
    <3>2. Box' = inbox'
      BY <1>b, <2>2, <3>1, BoxIdleNext
    <3> QED BY <2>1, <2>3, <3>1, <3>2
  <2>5. CASE ~Looks(o)
    <3>1. pc'[o] = "write"
      BY <1>2, <2>5 DEF Read, Goto, TypeOK
    <3>2. Box' = buf'[o]
      BY <3>1, BoxWriterNext
    <3> QED BY <2>1, <2>3, <3>2
  <2> QED BY <2>4, <2>5
<1>3. CASE ~WriteInbox(o) /\ ~Read(o)
  <2>1. inbox' = inbox /\ put' = put
    BY <1>3 DEF Acts, Start, Judge, Unlink, Create, Fill, Unlock, Wake, Dispatch, past
  <2>2. pc[o] # "write" /\ pc'[o] # "write"
    <3>1. CASE Dispatch(o)
      BY <3>1 DEF Dispatch, Goto, TypeOK
    <3>2. CASE Start(o) \/ Judge(o) \/ Unlink(o) \/ Fill(o) \/ Wake(o)
      BY <3>2 DEF Start, Judge, Unlink, Fill, Wake, Goto, TypeOK
    <3>3. CASE Unlock(o)
      BY <3>3 DEF Unlock, Goto, TypeOK
    <3>4. CASE Create(o)
      BY <3>4 DEF Create, Goto, TypeOK
    <3> QED BY <1>3, <3>1, <3>2, <3>3, <3>4 DEF Acts
  <2>3. Box' = Box
    BY <1>a, <1>b, <2>1, <2>2, BoxKept
  <2> QED BY <2>1, <2>3
<1> QED BY <1>1, <1>2, <1>3

LEMMA QueueCrash ==
  ASSUME TypeOK, LInv, LInv', SInv, NEW p \in Procs, Crash(p), ~robbed'
  PROVE  Abstract!Next \/ UNCHANGED <<Box, put>>
<1>1. /\ \A o \in Ops : pc'[o] = IF Proc[o] = p /\ pc[o] \notin Idle THEN "died" ELSE pc[o]
      /\ \A o \in Ops : buf'[o] = IF Proc[o] = p THEN <<>> ELSE buf[o]
      /\ UNCHANGED <<inbox, put, robbed>>
  BY DEF Crash
<1>2. CASE \E o \in Ops : Proc[o] = p /\ pc[o] = "write"
  <2>1. PICK o \in Ops : Proc[o] = p /\ pc[o] = "write"
    BY <1>2
  <2>2. \A q \in Ops : pc[q] = "write" => q = o
    BY <1>1, <2>1, OneWrites DEF Section
  <2>3. pc'[o] = "died"
    BY <1>1, <2>1 DEF Idle, Over
  <2>4. \A q \in Ops : pc'[q] # "write"
    <3> SUFFICES ASSUME NEW q \in Ops, pc'[q] = "write" PROVE FALSE
      OBVIOUS
    <3>1. pc[q] = "write"
      BY <1>1
    <3>2. q = o
      BY <2>2, <3>1
    <3> QED BY <2>3, <3>2
  <2>5. inbox' = <<>>
    BY <1>1, <2>1 DEF SInv, Emptied
  <2>6. Box' = <<>>
    BY <2>4, <2>5, BoxIdleNext
  <2>7. Abstract!TakeAll
    BY <1>1, <2>6 DEF Abstract!TakeAll
  <2> QED BY <2>7 DEF Abstract!Next
<1>3. CASE ~ \E o \in Ops : Proc[o] = p /\ pc[o] = "write"
  <2>1. \A o \in Ops : pc'[o] = "write" <=> pc[o] = "write"
    BY <1>1, <1>3 DEF Idle, Over
  <2>2. \A o \in Ops : pc[o] = "write" => buf'[o] = buf[o]
    BY <1>1, <1>3
  <2>3. Box' = Box
    BY <1>1, <2>1, <2>2, BoxKept
  <2> QED BY <1>1, <2>3
<1> QED BY <1>2, <1>3

LEMMA QueueStep ==
  TypeOK /\ LInv /\ LInv' /\ SInv /\ [Next]_vars => [~robbed' => Abstract!Next]_<<Box, put>>
<1> SUFFICES ASSUME TypeOK, LInv, LInv', SInv, [Next]_vars, ~robbed'
             PROVE  Abstract!Next \/ UNCHANGED <<Box, put>>
  OBVIOUS
<1>1. CASE Stall \/ UNCHANGED vars
  <2>1. UNCHANGED <<inbox, put, pc, buf, robbed>>
    BY <1>1 DEF Stall, vars, past, local
  <2>2. Box' = Box
    BY <2>1, BoxKept
  <2> QED BY <2>1, <2>2
<1> QED BY <1>1, NextCases, QueueActs, QueueCrash

LEMMA QueueInit == Init => Abstract!Init
<1> SUFFICES ASSUME Init PROVE Abstract!Init
  OBVIOUS
<1>1. Box = inbox
  BY BoxIdle DEF Init
<1> QED BY <1>1 DEF Init, Abstract!Init

\* As long as no lock is taken from an operation at work the inbox is the bounded queue of
\* MessageQueue: with a rewriting in the middle, through every crash.
THEOREM QueueKept == Spec => KeepsQueue
<1>1. Spec => Abstract!Init
  BY QueueInit DEF Spec
<1>2. Spec => [][~robbed' => Abstract!Next]_<<Box, put>>
  BY TypeCorrect, InitLInv, LInvInductive, InitSInv, SInvInductive, QueueStep, PTL DEF Spec
<1> QED BY <1>1, <1>2 DEF KeepsQueue

-----------------------------------------------------------------------------
(* Each message once *)

\* Messages of q have been sent, and none is twice in it.
Good(q) == ToSet(q) \subseteq put /\ Distinct(q)

\* One poll at a time, and only polls dispatch.
OnePoll ==
  /\ \A o, p \in Polls : pc[o] \notin Idle /\ pc[p] \notin Idle => o = p
  /\ \A o \in Ops : pc[o] = "dispatch" => o \in Polls

GInv == OnePoll /\ Good(inbox) /\ \A o \in Ops : Good(buf[o])

LEMMA GoodMore ==
  ASSUME NEW q, Good(q), put \subseteq put'
  PROVE  ToSet(q) \subseteq put' /\ Distinct(q)
BY DEF Good

LEMMA WrittenGood ==
  ASSUME TypeOK, SInv, NEW o \in Ops, Good(buf[o]), WriteInbox(o)
  PROVE  ToSet(inbox') \subseteq put' /\ Distinct(inbox')
<1>1. /\ pc[o] = "write" /\ inbox' = Written(o) /\ buf[o] \in Seq(Sends)
      /\ put' = (IF o \in Sends THEN put \cup {o} ELSE put)
      /\ ToSet(buf[o]) \subseteq put /\ Distinct(buf[o])
  BY DEF WriteInbox, TypeOK, Good
<1>2. CASE o \in Sends
  <2> DEFINE q == Queue!Newest(buf[o])
  <2>1. q \in Seq(Sends) /\ ToSet(q) \subseteq put /\ Distinct(q)
    BY <1>1, NewestKeeps
  <2>2. o \notin ToSet(q)
    BY <1>1, <1>2, <2>1 DEF SInv, Sent
  <2>3. Written(o) = Append(q, o)
    BY <1>2 DEF Written
  <2> HIDE DEF q
  <2>4. ToSet(Append(q, o)) = ToSet(q) \cup {o}
    BY <1>2, <2>1, ElementsAppend
  <2>5. Distinct(Append(q, o))
    <3>1. /\ DOMAIN Append(q, o) = 1..Len(q) + 1 /\ DOMAIN q = 1..Len(q) /\ Len(q) \in Nat
          /\ \A i \in 1..Len(q) : Append(q, o)[i] = q[i] /\ q[i] \in ToSet(q)
          /\ Append(q, o)[Len(q) + 1] = o
      <4>1. DOMAIN q = 1..Len(q) /\ Len(q) \in Nat
        BY <2>1, LenProperties
      <4>2. \A i \in 1..Len(q) : q[i] \in ToSet(q)
        BY <4>1 DEF ToSet
      <4> QED BY <1>2, <2>1, <4>1, <4>2, AppendProperties, LenProperties
    <3> SUFFICES ASSUME NEW i \in DOMAIN Append(q, o), NEW j \in DOMAIN Append(q, o), Append(q, o)[i] = Append(q, o)[j]
                 PROVE  i = j
      BY DEF Distinct
    <3>2. CASE i \in 1..Len(q) /\ j \in 1..Len(q)
      BY <2>1, <3>1, <3>2 DEF Distinct
    <3>3. CASE i \in 1..Len(q) /\ j = Len(q) + 1
      BY <2>2, <3>1, <3>3
    <3>4. CASE i = Len(q) + 1 /\ j \in 1..Len(q)
      BY <2>2, <3>1, <3>4
    <3>5. CASE i = Len(q) + 1 /\ j = Len(q) + 1
      BY <3>5
    <3> QED BY <3>1, <3>2, <3>3, <3>4, <3>5
  <2> QED BY <1>1, <1>2, <2>1, <2>3, <2>4, <2>5
<1>3. CASE o \in Polls
  <2>1. Written(o) = <<>> /\ o \notin Sends
    BY <1>3, MailboxAssumption DEF Written
  <2>2. ToSet(<<>>) = {} /\ Distinct(<<>>)
    BY DEF ToSet, Distinct
  <2> QED BY <1>1, <2>1, <2>2
<1>4. CASE o \in Waits
  <2>1. o \notin Sends /\ o \notin Polls /\ Reply[o] \in Sends
    BY <1>4, MailboxAssumption
  <2>2. Written(o) = Queue!Without(buf[o], Reply[o])
    BY <2>1 DEF Written
  <2> QED BY <1>1, <2>1, <2>2, WithoutKeeps
<1> QED BY <1>2, <1>3, <1>4 DEF Ops

LEMMA TailGood ==
  ASSUME NEW q \in Seq(Sends), Good(q), q # <<>>
  PROVE  Good(Tail(q)) /\ Head(q) \notin ToSet(Tail(q)) /\ Head(q) \in ToSet(q)
<1>1. /\ Tail(q) \in Seq(Sends) /\ Len(Tail(q)) = Len(q) - 1 /\ Head(q) = q[1]
      /\ \A i \in 1..Len(q) - 1 : Tail(q)[i] = q[i + 1]
      /\ Len(q) \in Nat /\ Len(q) >= 1 /\ DOMAIN q = 1..Len(q) /\ DOMAIN Tail(q) = 1..Len(q) - 1
  BY HeadTailProperties, EmptySeq, LenProperties
<1>2. ToSet(q) = ToSet(Tail(q)) \cup {Head(q)}
  BY ElementsHead
<1>3. \A i \in DOMAIN Tail(q) : i + 1 \in DOMAIN q /\ Tail(q)[i] = q[i + 1] /\ i + 1 # 1
  BY <1>1
<1>4. Distinct(Tail(q))
  <2> SUFFICES ASSUME NEW i \in DOMAIN Tail(q), NEW j \in DOMAIN Tail(q), Tail(q)[i] = Tail(q)[j] PROVE i = j
    BY DEF Distinct
  <2>1. i + 1 = j + 1
    BY <1>3 DEF Good, Distinct
  <2> QED BY <1>1, <2>1
<1>5. Head(q) \notin ToSet(Tail(q))
  <2> SUFFICES ASSUME NEW i \in DOMAIN Tail(q), Tail(q)[i] = Head(q) PROVE FALSE
    BY DEF ToSet
  <2> QED BY <1>1, <1>3 DEF Good, Distinct
<1> QED BY <1>2, <1>4, <1>5 DEF Good

LEMMA GInvStep ==
  ASSUME TypeOK, SInv, GInv, NEW o \in Ops, Acts(o)
  PROVE  GInv'
<1>1. \A p \in Ops \ {o} : pc'[p] = pc[p] /\ buf'[p] = buf[p]
  BY OthersSame
<1>2. put \subseteq put'
  BY DEF Acts, Start, Judge, Unlink, Create, Fill, Read, WriteInbox, Unlock, Wake, Dispatch, past
<1>3. \A p \in Ops : Good(buf[p]) /\ Good(inbox)
  BY DEF GInv
<1>4. OnePoll'
  <2>1. CASE Start(o)
    <3>1. /\ pc[o] = "new" /\ pc'[o] = "try"
          /\ o \in Polls => \A p \in Polls \ {o} : pc[p] \in Idle
      BY <2>1 DEF Start, Goto, TypeOK
    <3> QED BY <1>1, <3>1 DEF GInv, OnePoll, Ops
  <2>2. CASE ~Start(o)
    <3>1. pc[o] \notin Idle
      BY <2>2 DEF Acts, Judge, Unlink, Create, Fill, Read, WriteInbox, Unlock, Wake, Dispatch, Idle, Over
    <3>2. pc'[o] = "dispatch" => o \in Polls
      <4>1. CASE Dispatch(o)
        BY <4>1 DEF Dispatch, GInv, OnePoll
      <4>2. CASE Judge(o) \/ Unlink(o) \/ Fill(o) \/ Wake(o) \/ WriteInbox(o)
        BY <4>2 DEF Judge, Unlink, Fill, Wake, WriteInbox, Goto, TypeOK
      <4>3. CASE Unlock(o)
        BY <4>3 DEF Unlock, Goto, TypeOK
      <4>4. CASE Create(o)
        BY <4>4 DEF Create, Goto, TypeOK
      <4>5. CASE Read(o)
        BY <4>5 DEF Read, Goto, TypeOK
      <4> QED BY <2>2, <4>1, <4>2, <4>3, <4>4, <4>5 DEF Acts
    <3> QED BY <1>1, <3>1, <3>2 DEF GInv, OnePoll, Ops
  <2> QED BY <2>1, <2>2
<1>5. ToSet(inbox') \subseteq put' /\ Distinct(inbox')
  <2>1. CASE WriteInbox(o)
    BY <1>3, <2>1, WrittenGood
  <2>2. CASE ~WriteInbox(o)
    <3>1. inbox' = inbox \/ inbox' = <<>>
      BY <2>2 DEF Acts, Start, Judge, Unlink, Create, Fill, Read, Unlock, Wake, Dispatch
    <3>2. CASE inbox' = <<>>
      BY <3>2 DEF ToSet, Distinct
    <3> QED BY <1>2, <1>3, <3>1, <3>2, GoodMore
  <2> QED BY <2>1, <2>2
<1>6. Good(buf'[o])
  <2>0. buf[o] \in Seq(Sends) /\ Good(<<>>)
    BY DEF TypeOK, Good, ToSet, Distinct
  <2>1. buf'[o] \in {buf[o], inbox, <<>>} \/ (buf[o] # <<>> /\ buf'[o] = Tail(buf[o]))
    <3>1. CASE Dispatch(o)
      BY <3>1 DEF Dispatch, TypeOK
    <3>2. CASE Read(o)
      BY <3>2 DEF Read, TypeOK
    <3>3. CASE Unlock(o)
      BY <3>3 DEF Unlock, TypeOK
    <3>4. CASE ~Dispatch(o) /\ ~Read(o) /\ ~Unlock(o)
      <4>1. buf' = buf
        BY <3>4 DEF Acts, Start, Judge, Unlink, Create, Fill, WriteInbox, Wake, local
      <4> QED BY <4>1
    <3> QED BY <3>1, <3>2, <3>3, <3>4
  <2> QED BY <1>3, <2>0, <2>1, TailGood
<1>7. \A p \in Ops : ToSet(buf'[p]) \subseteq put' /\ Distinct(buf'[p])
  BY <1>1, <1>2, <1>3, <1>6, GoodMore DEF Good
<1> QED BY <1>4, <1>5, <1>7 DEF GInv, Good

LEMMA GInvInductive == TypeOK /\ SInv /\ GInv /\ [Next]_vars => GInv'
<1> SUFFICES ASSUME TypeOK, SInv, GInv, [Next]_vars PROVE GInv'
  OBVIOUS
<1>1. ASSUME NEW p \in Procs, Crash(p) PROVE GInv'
  <2>1. /\ \A o \in Ops : pc'[o] = IF Proc[o] = p /\ pc[o] \notin Idle THEN "died" ELSE pc[o]
        /\ \A o \in Ops : buf'[o] = IF Proc[o] = p THEN <<>> ELSE buf[o]
        /\ UNCHANGED <<inbox, put>>
    BY <1>1 DEF Crash
  <2>2. OnePoll'
    BY <2>1 DEF GInv, OnePoll, Ops, Idle, Over
  <2>3. \A o \in Ops : Good(buf[o]) /\ Good(inbox) /\ Good(<<>>)
    BY DEF GInv, Good, ToSet, Distinct
  <2>4. \A o \in Ops : Good(buf'[o])
    BY <2>1, <2>3
  <2>5. \A o \in Ops : Good(buf[o])'
    BY <2>1, <2>4 DEF Good
  <2>6. Good(inbox)'
    BY <2>1 DEF GInv, Good
  <2> QED BY <2>2, <2>5, <2>6 DEF GInv
<1>2. CASE Stall \/ UNCHANGED vars
  <2>1. UNCHANGED <<inbox, put, pc, buf>>
    BY <1>2 DEF Stall, vars, past, local
  <2> QED BY <2>1 DEF GInv, OnePoll, Good
<1> QED BY <1>1, <1>2, NextCases, GInvStep

\* What a poll has taken is in nobody else's hands, and what is handled is in nobody's.
Taken(o) == o \in Polls /\ pc[o] \in {"unlock", "dispatch"}
Apart ==
  /\ ToSet(Box) \cap ToSet(handled) = {}
  /\ \A o \in Ops : Taken(o) => ToSet(buf[o]) \cap (ToSet(Box) \cup ToSet(handled)) = {}
DInv ==
  /\ ToSet(handled) \subseteq put
  /\ ~robbed => Distinct(handled) /\ Apart

\* What comes into the queue is new to it.
LEMMA BoxGrows ==
  ASSUME TypeOK, LInv, LInv', SInv, [Next]_vars, ~robbed'
  PROVE  ToSet(Box') \subseteq ToSet(Box) \cup (put' \ put)
<1>1. Abstract!Next \/ UNCHANGED <<Box, put>>
  BY QueueStep
<1>2. Box \in Seq(Sends)
  <2>1. CASE \E o \in Ops : pc[o] = "write"
    BY <2>1 DEF Box, TypeOK
  <2>2. CASE ~ \E o \in Ops : pc[o] = "write"
    BY <2>2 DEF Box, TypeOK
  <2> QED BY <2>1, <2>2
<1>3. PICK q : q = Box
  OBVIOUS
<1>4. q \in Seq(Sends)
  BY <1>2, <1>3
<1>5. CASE UNCHANGED <<Box, put>>
  BY <1>5
<1>6. CASE Abstract!TakeAll
  BY <1>6 DEF Abstract!TakeAll, ToSet
<1>7. ASSUME NEW m \in Sends, Abstract!Put(m) PROVE ToSet(Box') \subseteq ToSet(Box) \cup (put' \ put)
  <2>1. Box' = Append(Queue!Newest(q), m) /\ m \in put' \ put
    BY <1>3, <1>7 DEF Abstract!Put, Abstract!Newest, Queue!Newest
  <2>2. Queue!Newest(q) \in Seq(Sends) /\ ToSet(Queue!Newest(q)) \subseteq ToSet(q)
    BY <1>4, NewestKeeps
  <2>3. ToSet(Append(Queue!Newest(q), m)) = ToSet(Queue!Newest(q)) \cup {m}
    BY <2>2, ElementsAppend
  <2> QED BY <1>3, <2>1, <2>2, <2>3
<1>8. ASSUME NEW m \in Sends, Abstract!Take(m) PROVE ToSet(Box') \subseteq ToSet(Box) \cup (put' \ put)
  <2>1. Box' = Queue!Without(q, m)
    BY <1>3, <1>8 DEF Abstract!Take, Abstract!Without, Queue!Without
  <2>2. ToSet(Queue!Without(q, m)) \subseteq ToSet(q)
    BY <1>4, WithoutKeeps
  <2> QED BY <1>3, <2>1, <2>2
<1> QED BY <1>1, <1>5, <1>6, <1>7, <1>8 DEF Abstract!Next

LEMMA DispatchApart ==
  ASSUME TypeOK, LInv, LInv', SInv, GInv, DInv, [Next]_vars, NEW o \in Ops, Dispatch(o), ~robbed'
  PROVE  Distinct(handled)' /\ Apart'
<1>1. /\ pc[o] = "dispatch" /\ o \in Polls /\ UNCHANGED <<inbox, robbed, put>> /\ buf[o] \in Seq(Sends)
      /\ handled \in Seq(Sends)
  BY DEF Dispatch, past, GInv, OnePoll, TypeOK
<1>2. ToSet(Box') \subseteq ToSet(Box)
  BY <1>1, BoxGrows
<1>3. Distinct(handled) /\ Apart
  BY <1>1 DEF DInv
<1>4. Taken(o) /\ Good(buf[o])
  BY <1>1 DEF Taken, GInv
<1>5. \A p \in Ops \ {o} : pc'[p] = pc[p] /\ buf'[p] = buf[p]
  BY OthersSame DEF Acts
<1>6. ASSUME NEW p \in Ops, p # o PROVE ~Taken(p)'
  <2>1. Taken(p)' => p \in Polls /\ pc[p] \notin Idle
    BY <1>5, <1>6 DEF Taken, Idle, Over
  <2>2. pc[o] \notin Idle
    BY <1>1 DEF Idle, Over
  <2> QED BY <1>1, <1>6, <2>1, <2>2 DEF GInv, OnePoll
<1>7. CASE buf[o] = <<>>
  <2>1. handled' = handled /\ buf' = buf
    BY <1>7 DEF Dispatch
  <2> QED BY <1>2, <1>3, <1>4, <1>6, <2>1 DEF Apart
<1>8. CASE buf[o] # <<>>
  <2>1. handled' = Append(handled, Head(buf[o])) /\ buf'[o] = Tail(buf[o])
    BY <1>8 DEF Dispatch, TypeOK
  <2>2. PICK h : h = Head(buf[o])
    OBVIOUS
  <2>3. h \in Sends /\ h \in ToSet(buf[o]) /\ h \notin ToSet(Tail(buf[o]))
    BY <1>1, <1>4, <1>8, <2>2, TailGood, ElementsHead
  <2>4. ToSet(Tail(buf[o])) \subseteq ToSet(buf[o])
    BY <1>1, <1>8, ElementsHead
  <2>5. h \notin ToSet(handled) /\ h \notin ToSet(Box)
    BY <1>3, <1>4, <2>3 DEF Apart
  <2>6. ToSet(handled') = ToSet(handled) \cup {h}
    BY <1>1, <2>1, <2>2, <2>3, ElementsAppend
  <2>7. Distinct(handled')
    <3>1. /\ DOMAIN handled' = 1..Len(handled) + 1 /\ DOMAIN handled = 1..Len(handled) /\ Len(handled) \in Nat
          /\ \A i \in 1..Len(handled) : handled'[i] = handled[i] /\ handled[i] \in ToSet(handled)
          /\ handled'[Len(handled) + 1] = h
      <4>1. DOMAIN handled = 1..Len(handled) /\ Len(handled) \in Nat
        BY <1>1, LenProperties
      <4>2. \A i \in 1..Len(handled) : handled[i] \in ToSet(handled)
        BY <4>1 DEF ToSet
      <4>3. handled' = Append(handled, h)
        BY <2>1, <2>2
      <4> QED BY <1>1, <2>3, <4>1, <4>2, <4>3, AppendProperties, LenProperties
    <3> SUFFICES ASSUME NEW i \in DOMAIN handled', NEW j \in DOMAIN handled', handled'[i] = handled'[j]
                 PROVE  i = j
      BY DEF Distinct
    <3>2. CASE i \in 1..Len(handled) /\ j \in 1..Len(handled)
      BY <1>3, <3>1, <3>2 DEF Distinct
    <3>3. CASE i \in 1..Len(handled) /\ j = Len(handled) + 1
      BY <2>5, <3>1, <3>3
    <3>4. CASE i = Len(handled) + 1 /\ j \in 1..Len(handled)
      BY <2>5, <3>1, <3>4
    <3>5. CASE i = Len(handled) + 1 /\ j = Len(handled) + 1
      BY <3>5
    <3> QED BY <3>1, <3>2, <3>3, <3>4, <3>5
  <2>8. ToSet(Box') \cap ToSet(handled') = {}
    BY <1>2, <1>3, <2>5, <2>6 DEF Apart
  <2>9. ToSet(buf'[o]) \cap (ToSet(Box') \cup ToSet(handled')) = {}
    BY <1>2, <1>3, <1>4, <2>1, <2>3, <2>4, <2>6 DEF Apart
  <2>10. \A p \in Ops : Taken(p)' => ToSet(buf'[p]) \cap (ToSet(Box') \cup ToSet(handled')) = {}
    BY <1>6, <2>9
  <2> QED BY <2>7, <2>8, <2>10 DEF Apart, Distinct
<1> QED BY <1>7, <1>8

LEMMA QuietApart ==
  ASSUME TypeOK, LInv, LInv', SInv, GInv, DInv, [Next]_vars, handled' = handled, ~robbed', ~robbed,
         \A o \in Ops : Taken(o)' => \/ Taken(o) /\ buf'[o] = buf[o]
                                     \/ ToSet(buf'[o]) \cap ToSet(handled) = {} /\ ToSet(Box') = {}
  PROVE  Distinct(handled)' /\ Apart'
<1>1. ToSet(Box') \subseteq ToSet(Box) \cup (put' \ put)
  BY BoxGrows
<1>2. Distinct(handled) /\ Apart /\ ToSet(handled) \subseteq put
  BY DEF DInv
<1>3. ToSet(Box') \cap ToSet(handled) = {}
  BY <1>1, <1>2 DEF Apart
<1>4. ASSUME NEW o \in Ops, Taken(o)' PROVE ToSet(buf'[o]) \cap (ToSet(Box') \cup ToSet(handled)) = {}
  <2>1. CASE Taken(o) /\ buf'[o] = buf[o]
    <3>1. ToSet(buf[o]) \subseteq put
      BY DEF GInv, Good
    <3> QED BY <1>1, <1>2, <2>1, <3>1 DEF Apart
  <2>2. CASE ToSet(buf'[o]) \cap ToSet(handled) = {} /\ ToSet(Box') = {}
    BY <2>2
  <2> QED BY <1>4, <2>1, <2>2
<1> QED BY <1>2, <1>3, <1>4 DEF Apart, Distinct

LEMMA TakenStep ==
  ASSUME TypeOK, LInv, LInv', SInv, GInv, DInv, NEW o \in Ops, Acts(o), ~Dispatch(o), ~robbed', ~robbed
  PROVE  \A p \in Ops : Taken(p)' => \/ Taken(p) /\ buf'[p] = buf[p]
                                     \/ ToSet(buf'[p]) \cap ToSet(handled) = {} /\ ToSet(Box') = {}
<1>1. \A p \in Ops \ {o} : pc'[p] = pc[p] /\ buf'[p] = buf[p]
  BY OthersSame
<1>2. ASSUME o \in Polls, pc'[o] \in {"unlock", "dispatch"}
      PROVE  \/ Taken(o) /\ buf'[o] = buf[o]
             \/ ToSet(buf'[o]) \cap ToSet(handled) = {} /\ ToSet(Box') = {}
  <2>1. o \notin Sends /\ o \notin Waits
    BY <1>2, MailboxAssumption
  <2>2. CASE WriteInbox(o)
    <3>1. pc[o] = "write" /\ pc'[o] = "unlock" /\ inbox' = Written(o) /\ buf' = buf
      BY <2>2 DEF WriteInbox, local, Goto, TypeOK
    <3>2. Box = buf[o]
      BY <3>1, BoxWriter
    <3>3. \A p \in Ops : pc'[p] # "write"
      BY <1>1, <3>1, OneWrites DEF Section
    <3>4. Box' = <<>>
      BY <1>2, <2>1, <3>1, <3>3, BoxIdleNext DEF Written
    <3>5. ToSet(buf[o]) \cap ToSet(handled) = {}
      BY <3>2 DEF DInv, Apart
    <3> QED BY <3>1, <3>4, <3>5 DEF ToSet
  <2>3. CASE Unlock(o)
    <3>1. pc[o] = "unlock" /\ buf' = buf
      BY <1>2, <2>3 DEF Unlock
    <3> QED BY <1>2, <3>1 DEF Taken
  <2>4. CASE Read(o)
    <3>1. pc'[o] = "write"
      BY <2>1, <2>4 DEF Read, Looks, Goto, TypeOK
    <3> QED BY <1>2, <3>1
  <2>5. CASE Start(o) \/ Judge(o) \/ Unlink(o) \/ Fill(o) \/ Wake(o)
    <3>1. pc'[o] \notin {"unlock", "dispatch"}
      BY <2>5 DEF Start, Judge, Unlink, Fill, Wake, Goto, TypeOK
    <3> QED BY <1>2, <3>1
  <2>6. CASE Create(o)
    <3>1. pc'[o] \notin {"unlock", "dispatch"}
      BY <2>6 DEF Create, Goto, TypeOK
    <3> QED BY <1>2, <3>1
  <2> QED BY <2>2, <2>3, <2>4, <2>5, <2>6 DEF Acts
<1> QED BY <1>1, <1>2 DEF Taken

LEMMA DInvInductive == TypeOK /\ LInv /\ LInv' /\ SInv /\ GInv /\ DInv /\ [Next]_vars => DInv'
<1> SUFFICES ASSUME TypeOK, LInv, LInv', SInv, GInv, DInv, [Next]_vars PROVE DInv'
  OBVIOUS
<1>1. ASSUME NEW o \in Ops, Acts(o) PROVE DInv'
  <2>1. robbed => robbed'
    BY <1>1, LockCases
  <2>2. put \subseteq put'
    BY <1>1 DEF Acts, Start, Judge, Unlink, Create, Fill, Read, WriteInbox, Unlock, Wake, Dispatch, past
  <2>3. CASE Dispatch(o)
    <3>1. ToSet(handled') \subseteq put
      <4>1. handled \in Seq(Sends) /\ buf[o] \in Seq(Sends) /\ ToSet(buf[o]) \subseteq put
        BY DEF TypeOK, GInv, Good
      <4>2. CASE buf[o] = <<>>
        BY <2>3, <4>2 DEF Dispatch, DInv
      <4>3. CASE buf[o] # <<>>
        <5>1. Head(buf[o]) \in Sends /\ Head(buf[o]) \in put
          BY <4>1, <4>3, ElementsHead
        <5>2. handled' = Append(handled, Head(buf[o]))
          BY <2>3, <4>3 DEF Dispatch
        <5> QED BY <4>1, <5>1, <5>2, ElementsAppend DEF DInv
      <4> QED BY <4>2, <4>3
    <3> QED BY <2>2, <2>3, <3>1, DispatchApart DEF DInv
  <2>4. CASE ~Dispatch(o)
    <3>1. handled' = handled
      BY <1>1, <2>4 DEF Acts, Start, Judge, Unlink, Create, Fill, Read, WriteInbox, Unlock, Wake
    <3>2. ~robbed' => Distinct(handled)' /\ Apart'
      BY <1>1, <2>1, <2>4, <3>1, TakenStep, QuietApart
    <3> QED BY <2>2, <3>1, <3>2 DEF DInv
  <2> QED BY <2>3, <2>4
<1>2. ASSUME NEW p \in Procs, Crash(p) PROVE DInv'
  <2>1. /\ \A o \in Ops : pc'[o] = IF Proc[o] = p /\ pc[o] \notin Idle THEN "died" ELSE pc[o]
        /\ \A o \in Ops : buf'[o] = IF Proc[o] = p THEN <<>> ELSE buf[o]
        /\ UNCHANGED <<handled, put, robbed>>
    BY <1>2 DEF Crash
  <2>2. ASSUME NEW o \in Ops, Taken(o)' PROVE Taken(o) /\ buf'[o] = buf[o]
    BY <2>1, <2>2 DEF Taken, Idle, Over
  <2>3. ~robbed' => Distinct(handled)' /\ Apart'
    BY <2>1, <2>2, QuietApart
  <2> QED BY <2>1, <2>3 DEF DInv
<1>3. CASE Stall \/ UNCHANGED vars
  <2>1. UNCHANGED <<handled, put, robbed, pc, buf>>
    BY <1>3 DEF Stall, vars, past, local
  <2>2. ~robbed' => Distinct(handled)' /\ Apart'
    BY <2>1, QuietApart DEF Taken
  <2> QED BY <2>1, <2>2 DEF DInv
<1> QED BY <1>1, <1>2, <1>3, NextCases

LEMMA InitGood == Init => GInv /\ DInv
<1> SUFFICES ASSUME Init PROVE GInv /\ DInv
  OBVIOUS
<1>1. /\ \A o \in Ops : pc[o] = "new" /\ buf[o] = <<>>
      /\ inbox = <<>> /\ handled = <<>>
  BY DEF Init
<1>2. ToSet(<<>>) = {} /\ Distinct(<<>>)
  BY DEF ToSet, Distinct
<1>3. GInv
  BY <1>1, <1>2 DEF GInv, OnePoll, Good, Idle, Ops
<1>4. DInv
  BY <1>1, <1>2 DEF DInv, Apart, Taken
<1> QED BY <1>3, <1>4

\* The inbox never holds a message twice, whatever happens to its lock: dropping all messages
\* of an id is dropping one.
THEOREM InboxDistinct == Spec => []Distinct(inbox)
<1>1. GInv => Distinct(inbox)
  BY DEF GInv, Good
<1> QED BY <1>1, TypeCorrect, InitSInv, InitLInv, LInvInductive, SInvInductive, InitGood, GInvInductive, PTL DEF Spec

\* No message is dispatched twice, as long as no lock is taken from an operation at work:
\* not by two polls, nor because a message was written back under one of them.
THEOREM HandledOnce == Spec => [](~robbed => Distinct(handled))
<1>1. DInv => (~robbed => Distinct(handled))
  BY DEF DInv
<1> QED BY <1>1, TypeCorrect, InitSInv, InitLInv, LInvInductive, SInvInductive, InitGood, GInvInductive, DInvInductive, PTL DEF Spec

-----------------------------------------------------------------------------
(* Sequences put together *)

LEMMA ToSetNone == ToSet(<<>>) = {} /\ Distinct(<<>>)
BY DEF ToSet, Distinct

LEMMA ToSetOne == \A x : ToSet(<<x>>) = {x}
BY DEF ToSet

LEMMA ToSetConcat ==
  ASSUME NEW S, NEW q \in Seq(S), NEW r \in Seq(S)
  PROVE  /\ q \o r \in Seq(S)
         /\ ToSet(q \o r) = ToSet(q) \cup ToSet(r)
         /\ Distinct(q) /\ Distinct(r) /\ ToSet(q) \cap ToSet(r) = {} => Distinct(q \o r)
<1> DEFINE s == q \o r
<1>1. /\ s \in Seq(S) /\ Len(s) = Len(q) + Len(r) /\ Len(q) \in Nat /\ Len(r) \in Nat
      /\ DOMAIN s = 1..Len(q) + Len(r) /\ DOMAIN q = 1..Len(q) /\ DOMAIN r = 1..Len(r)
      /\ \A i \in 1..Len(q) + Len(r) : s[i] = IF i <= Len(q) THEN q[i] ELSE r[i - Len(q)]
  BY ConcatProperties, LenProperties
<1> HIDE DEF s
<1>2. ASSUME NEW i \in 1..Len(q) + Len(r)
      PROVE  \/ i \in DOMAIN q /\ s[i] = q[i]
             \/ i > Len(q) /\ i - Len(q) \in DOMAIN r /\ s[i] = r[i - Len(q)]
  BY <1>1
<1>3. ASSUME NEW i \in DOMAIN q PROVE i \in DOMAIN s /\ s[i] = q[i]
  BY <1>1
<1>4. ASSUME NEW i \in DOMAIN r PROVE i + Len(q) \in DOMAIN s /\ s[i + Len(q)] = r[i]
  <2>1. ~(i + Len(q) <= Len(q)) /\ i + Len(q) - Len(q) = i /\ i + Len(q) \in 1..Len(q) + Len(r)
    BY <1>1
  <2> QED BY <1>1, <2>1
<1>5. ToSet(s) \subseteq ToSet(q) \cup ToSet(r)
  BY <1>1, <1>2 DEF ToSet
<1>6. ToSet(q) \subseteq ToSet(s) /\ ToSet(r) \subseteq ToSet(s)
  BY <1>3, <1>4 DEF ToSet
<1>7. ASSUME Distinct(q), Distinct(r), ToSet(q) \cap ToSet(r) = {},
             NEW i \in DOMAIN s, NEW j \in DOMAIN s, s[i] = s[j]
      PROVE  i = j
  <2>1. \A k \in DOMAIN q, l \in DOMAIN r : q[k] # r[l]
    BY <1>7 DEF ToSet
  <2>2. CASE i \in DOMAIN q /\ s[i] = q[i]
    <3>1. j \in DOMAIN q /\ s[j] = q[j]
      BY <1>1, <1>2, <1>7, <2>1, <2>2
    <3> QED BY <1>7, <2>2, <3>1 DEF Distinct
  <2>3. CASE i > Len(q) /\ i - Len(q) \in DOMAIN r /\ s[i] = r[i - Len(q)]
    <3>1. j - Len(q) \in DOMAIN r /\ s[j] = r[j - Len(q)]
      BY <1>1, <1>2, <1>7, <2>1, <2>3
    <3>2. i - Len(q) = j - Len(q)
      BY <1>7, <2>3, <3>1 DEF Distinct
    <3> QED BY <1>1, <3>2
  <2> QED BY <1>1, <1>2, <2>2, <2>3
<1>8. Distinct(q) /\ Distinct(r) /\ ToSet(q) \cap ToSet(r) = {} => Distinct(s)
  BY <1>7 DEF Distinct
<1> QED BY <1>1, <1>5, <1>6, <1>8 DEF s

LEMMA DistinctAppend ==
  ASSUME NEW S, NEW q \in Seq(S), NEW m \in S, m \notin ToSet(q), Distinct(q)
  PROVE  Distinct(Append(q, m))
<1>1. /\ DOMAIN Append(q, m) = 1..Len(q) + 1 /\ DOMAIN q = 1..Len(q) /\ Len(q) \in Nat
      /\ \A i \in 1..Len(q) : Append(q, m)[i] = q[i]
      /\ Append(q, m)[Len(q) + 1] = m
  BY AppendProperties, LenProperties
<1>2. \A i \in 1..Len(q) : q[i] # m
  BY <1>1 DEF ToSet
<1>3. \A i \in 1..Len(q) + 1 : i \in 1..Len(q) \/ i = Len(q) + 1
  BY <1>1
<1> QED BY <1>1, <1>2, <1>3 DEF Distinct

\* A batch without repetitions is its elements in one of their orders.
LEMMA BatchOrder ==
  ASSUME NEW S, NEW q \in Seq(S), Distinct(q)
  PROVE  Len(q) = Cardinality(ToSet(q)) /\ q \in Log!SetToSeqs(ToSet(q))
<1>1. DOMAIN q = 1..Len(q) /\ Len(q) \in Nat /\ q = [i \in DOMAIN q |-> q[i]]
  BY LenProperties, SeqDef
<1>2. q \in [1..Len(q) -> ToSet(q)]
  BY <1>1 DEF ToSet
<1>3. IsFiniteSet(1..Len(q)) /\ Cardinality(1..Len(q)) = Len(q)
  <2>1. 1 \in Int /\ Len(q) \in Int /\ Len(q) - 1 + 1 = Len(q) /\ (1 > Len(q) => Len(q) = 0)
    BY <1>1
  <2> QED BY <2>1, FS_Interval
<1>4. q \in Bijection(1..Len(q), ToSet(q))
  <2>1. q \in Injection(1..Len(q), ToSet(q))
    BY <1>1, <1>2 DEF Injection, IsInjective, Distinct
  <2>2. q \in Surjection(1..Len(q), ToSet(q))
    BY <1>1, <1>2 DEF Surjection, ToSet
  <2> QED BY <2>1, <2>2 DEF Bijection
<1>5. Cardinality(ToSet(q)) = Len(q)
  BY <1>3, <1>4, FS_Bijection DEF ExistsBijection
<1>6. Log!Cardinality(ToSet(q)) = Cardinality(ToSet(q))
  BY Zenon DEF Log!Cardinality, Cardinality
<1>7. \A i, j \in 1..Len(q) : i # j => q[i] # q[j]
  BY <1>1 DEF Distinct
<1>8. q \in Log!SetToSeqs(ToSet(q))
  BY <1>2, <1>5, <1>6, <1>7 DEF Log!SetToSeqs
<1> QED BY <1>5, <1>8

-----------------------------------------------------------------------------
(* Transcript: types *)

LEMMA StartWriteTyped ==
  ASSUME TranscriptTypeOK, NEW w \in Writers, NEW o \in Flushers \cup {Nobody}, StartWrite(w, o)
  PROVE  /\ queue' \in [Writers -> Seq(Entries)] /\ flight' \in [Writers -> Seq(Entries)]
         /\ owner' \in [Writers -> Flushers \cup {Nobody}]
<1>1. <<>> \in Seq(Entries)
  BY EmptySeq
<1>2. queue[w] \in Seq(Entries)
  BY DEF TranscriptTypeOK
<1> QED BY <1>1, <1>2 DEF TranscriptTypeOK, StartWrite

LEMMA WriteTyped ==
  ASSUME TranscriptTypeOK, NEW w \in Writers, NEW e \in Entries, Write(w, e), errors' \in Nat,
         current' \in Writers \cup {Nobody}
  PROVE  TranscriptTypeOK'
<1>1. /\ Append(queue[w], e) \in Seq(Entries) /\ <<>> \in Seq(Entries)
      /\ Append(order, e) \in Seq(Entries)
  BY AppendProperties, EmptySeq DEF TranscriptTypeOK
<1>2. queue' \in [Writers -> Seq(Entries)] /\ flight' \in [Writers -> Seq(Entries)]
      /\ owner' \in [Writers -> Flushers \cup {Nobody}] /\ timer' \subseteq Writers
  BY <1>1 DEF TranscriptTypeOK, Write, WriteFull
<1>3. app' \in [Entries -> {"new", "opening", "written", "failed", "died"}]
      /\ by' \in [Entries -> Writers \cup {Nobody}] /\ order' \in Seq(Entries)
  BY <1>1 DEF TranscriptTypeOK, Write
<1>4. waiting' \in [Writers -> Seq(Flushers)] /\ fl' \in [Flushers -> Calls]
      /\ file' \in Seq(Entries \cup {Cut}) /\ due' \in [Flushers -> SUBSET Entries]
      /\ second' \subseteq Flushers /\ gone' \subseteq Entries /\ failed' \subseteq Entries /\ outages' \in Nat
  BY DEF TranscriptTypeOK, Write
<1> QED BY <1>2, <1>3, <1>4 DEF TranscriptTypeOK

LEMMA MemoryTyped ==
  ASSUME TranscriptTypeOK, NEW w \in Writers
  PROVE  /\ queue[w] \in Seq(Entries) /\ flight[w] \in Seq(Entries) /\ waiting[w] \in Seq(Flushers)
         /\ ToSet(queue[w]) \subseteq Entries /\ ToSet(flight[w]) \subseteq Entries
         /\ ToSet(waiting[w]) \subseteq Flushers
         /\ InMemory(w) \subseteq Entries
<1>1. queue[w] \in Seq(Entries) /\ flight[w] \in Seq(Entries) /\ waiting[w] \in Seq(Flushers)
  BY DEF TranscriptTypeOK
<1> QED BY <1>1, ElementsTyped DEF InMemory

LEMMA ResumeTyped ==
  ASSUME TranscriptTypeOK, NEW w \in Writers, Resume(w)
  PROVE  /\ queue' \in [Writers -> Seq(Entries)] /\ flight' \in [Writers -> Seq(Entries)]
         /\ owner' \in [Writers -> Flushers \cup {Nobody}] /\ waiting' \in [Writers -> Seq(Flushers)]
         /\ fl' \in [Flushers -> Calls]
<1>1. <<>> \in Seq(Entries) /\ <<>> \in Seq(Flushers)
  BY EmptySeq
<1>2. waiting' \in [Writers -> Seq(Flushers)]
  BY <1>1 DEF TranscriptTypeOK, Resume
<1>3. CASE waiting[w] # <<>> /\ queue[w] # <<>>
  <2>1. /\ StartWrite(w, Head(waiting[w]))
        /\ fl' = [f \in Flushers |-> IF f \in Awaiting(w) \ {Head(waiting[w])} THEN "done" ELSE fl[f]]
    BY <1>3 DEF Resume, Return
  <2>2. Head(waiting[w]) \in Flushers
    BY <1>3, MemoryTyped, ElementsHead
  <2>3. fl' \in [Flushers -> Calls]
    BY <2>1 DEF TranscriptTypeOK, Calls
  <2> QED BY <1>2, <2>1, <2>2, <2>3, StartWriteTyped
<1>4. CASE ~(waiting[w] # <<>> /\ queue[w] # <<>>)
  <2>1. /\ flight' = [flight EXCEPT ![w] = <<>>] /\ owner' = [owner EXCEPT ![w] = Nobody]
        /\ queue' = queue
        /\ fl' = [f \in Flushers |-> IF f \in Awaiting(w) THEN "done" ELSE fl[f]]
    BY <1>4 DEF Resume, Return
  <2>2. fl' \in [Flushers -> Calls]
    BY <2>1 DEF TranscriptTypeOK, Calls
  <2> QED BY <1>1, <1>2, <2>1, <2>2 DEF TranscriptTypeOK
<1> QED BY <1>3, <1>4

\* A batch up to its n-th entry.
LEMMA PrefixKeeps ==
  ASSUME NEW S, NEW q \in Seq(S), NEW n \in Nat, n <= Len(q)
  PROVE  /\ SubSeq(q, 1, n) \in Seq(S) /\ ToSet(SubSeq(q, 1, n)) \subseteq ToSet(q)
         /\ Distinct(q) => Distinct(SubSeq(q, 1, n))
<1>1. 1 \in 1..Len(q) + 1 /\ n \in 0..Len(q)
  BY LenProperties
<1> QED BY <1>1, PartTyped, PartKeeps

LEMMA PartFile ==
  ASSUME TranscriptTypeOK, NEW w \in Writers, NEW n \in Nat, n <= Len(flight[w]), NEW cut \in BOOLEAN
  PROVE  \E t \in {<<>>, <<Cut>>} :
           /\ t = IF cut THEN <<Cut>> ELSE <<>>
           /\ file \o Part(flight[w], n, cut) = (file \o SubSeq(flight[w], 1, n)) \o t
           /\ file \o Part(flight[w], n, cut) \in Seq(Entries \cup {Cut})
           /\ SubSeq(flight[w], 1, n) \in Seq(Entries) /\ SubSeq(flight[w], 1, n) \in Seq(Entries \cup {Cut})
<1> DEFINE b == SubSeq(flight[w], 1, n)
           t == IF cut THEN <<Cut>> ELSE <<>>
<1>1. flight[w] \in Seq(Entries) /\ flight[w] \in Seq(Entries \cup {Cut}) /\ file \in Seq(Entries \cup {Cut})
  BY MemoryTyped DEF TranscriptTypeOK
<1>2. b \in Seq(Entries) /\ b \in Seq(Entries \cup {Cut})
  BY <1>1, PrefixKeeps
<1>3. t \in {<<>>, <<Cut>>} /\ t \in Seq(Entries \cup {Cut})
  <2>1. <<Cut>> \in Seq(Entries \cup {Cut}) /\ <<>> \in Seq(Entries \cup {Cut})
    OBVIOUS
  <2> QED BY <2>1
<1>4. Part(flight[w], n, cut) = b \o t
  BY DEF Part
<1> HIDE DEF b, t
<1>5. file \o (b \o t) = (file \o b) \o t /\ (file \o b) \o t \in Seq(Entries \cup {Cut})
  BY <1>1, <1>2, <1>3, ConcatAssociative, ConcatProperties
<1>6. file \o Part(flight[w], n, cut) = (file \o b) \o t /\ file \o Part(flight[w], n, cut) \in Seq(Entries \cup {Cut})
  BY <1>4, <1>5
<1> QED BY <1>2, <1>3, <1>6 DEF b, t

\* The steps of Transcript.
Appends(e) == AppendEntry(e) \/ Open(e) \/ Opened(e) \/ OpenFails(e)
Writes(w) == TimerFires(w) \/ WriteEnds(w) \/ WriteFails(w)
Breaks(w, n, cut) == WriteShort(w, n, cut) \/ Killed(w, n, cut)

LEMMA TranscriptCases ==
  ASSUME TranscriptNext
  PROVE  \/ \E e \in Entries : Appends(e)
         \/ \E w \in Writers : Writes(w)
         \/ \E f \in Flushers : Flush(f)
         \/ \E w \in Writers, n \in Nat, cut \in BOOLEAN : Breaks(w, n, cut)
<1>1. \A n \in 0..Cardinality(Entries) : n \in Nat
  OBVIOUS
<1> QED BY <1>1 DEF TranscriptNext, Appends, Writes, Breaks

LEMMA TypeAppends ==
  ASSUME TranscriptTypeOK, NEW e \in Entries, Appends(e)
  PROVE  TranscriptTypeOK'
<1>1. CASE AppendEntry(e)
  BY <1>1, WriteTyped DEF AppendEntry, TranscriptTypeOK
<1>2. CASE Open(e)
  <2>1. app' \in [Entries -> {"new", "opening", "written", "failed", "died"}]
    BY <1>2 DEF Open, TranscriptTypeOK
  <2> QED BY <1>2, <2>1 DEF Open, TranscriptTypeOK, writer, history
<1>3. CASE Opened(e)
  BY <1>3, WriteTyped DEF Opened, TranscriptTypeOK, Writers
<1>4. CASE OpenFails(e)
  <2>1. app' \in [Entries -> {"new", "opening", "written", "failed", "died"}] /\ errors' \in Nat
    BY <1>4 DEF OpenFails, TranscriptTypeOK
  <2> QED BY <1>4, <2>1 DEF OpenFails, TranscriptTypeOK, writer
<1> QED BY <1>1, <1>2, <1>3, <1>4 DEF Appends

LEMMA TypeWrites ==
  ASSUME TranscriptTypeOK, NEW w \in Writers, Writes(w)
  PROVE  TranscriptTypeOK'
<1>1. CASE TimerFires(w)
  <2>1. /\ queue' \in [Writers -> Seq(Entries)] /\ flight' \in [Writers -> Seq(Entries)]
        /\ owner' \in [Writers -> Flushers \cup {Nobody}]
    <3>1. CASE flight[w] = <<>> /\ queue[w] # <<>>
      BY <1>1, <3>1, StartWriteTyped DEF TimerFires
    <3>2. CASE ~(flight[w] = <<>> /\ queue[w] # <<>>)
      BY <1>1, <3>2 DEF TimerFires, TranscriptTypeOK
    <3> QED BY <3>1, <3>2
  <2>2. timer' \subseteq Writers
    BY <1>1 DEF TimerFires, TranscriptTypeOK
  <2> QED BY <1>1, <2>1, <2>2 DEF TimerFires, TranscriptTypeOK, history
<1>2. CASE WriteEnds(w)
  <2>1. file' \in Seq(Entries \cup {Cut})
    <3>1. flight[w] \in Seq(Entries \cup {Cut}) /\ file \in Seq(Entries \cup {Cut})
      BY MemoryTyped DEF TranscriptTypeOK
    <3> QED BY <1>2, <3>1, ConcatProperties DEF WriteEnds
  <2> QED BY <1>2, <2>1, ResumeTyped DEF WriteEnds, TranscriptTypeOK, history
<1>3. CASE WriteFails(w)
  <2>1. flight[w] \o queue[w] \in Seq(Entries) /\ <<>> \in Seq(Entries) /\ <<>> \in Seq(Flushers)
    BY MemoryTyped, ToSetConcat, EmptySeq
  <2>2. /\ queue' \in [Writers -> Seq(Entries)] /\ flight' \in [Writers -> Seq(Entries)]
        /\ owner' \in [Writers -> Flushers \cup {Nobody}] /\ waiting' \in [Writers -> Seq(Flushers)]
    BY <1>3, <2>1 DEF WriteFails, TranscriptTypeOK
  <2>3. fl' \in [Flushers -> Calls]
    BY <1>3 DEF WriteFails, TranscriptTypeOK, Return, Calls
  <2>4. failed' \subseteq Entries /\ errors' \in Nat
    BY <1>3, MemoryTyped DEF WriteFails, TranscriptTypeOK
  <2> QED BY <1>3, <2>2, <2>3, <2>4 DEF WriteFails, TranscriptTypeOK
<1> QED BY <1>1, <1>2, <1>3 DEF Writes

LEMMA TypeFlush ==
  ASSUME TranscriptTypeOK, NEW f \in Flushers, Flush(f)
  PROVE  TranscriptTypeOK'
<1> DEFINE w == current
<1>1. w \in Writers
  BY DEF Flush, TranscriptTypeOK
<1>2. /\ timer' = timer \ {w} /\ due' = [due EXCEPT ![f] = InMemory(w)]
      /\ UNCHANGED <<current, app, file, by, order, gone, failed, outages, errors>>
  BY DEF Flush
<1>3. timer' \subseteq Writers /\ due' \in [Flushers -> SUBSET Entries]
  BY <1>1, <1>2, MemoryTyped DEF TranscriptTypeOK
<1>4. /\ queue' \in [Writers -> Seq(Entries)] /\ flight' \in [Writers -> Seq(Entries)]
      /\ owner' \in [Writers -> Flushers \cup {Nobody}] /\ waiting' \in [Writers -> Seq(Flushers)]
      /\ fl' \in [Flushers -> Calls] /\ second' \subseteq Flushers
  <2>1. CASE flight[w] # <<>>
    <3>1. /\ waiting' = [waiting EXCEPT ![w] = Append(@, f)]
          /\ second' = IF waiting[w] # <<>> THEN second \cup {f} ELSE second
          /\ fl' = [fl EXCEPT ![f] = "in"] /\ UNCHANGED <<queue, flight, owner>>
      BY <2>1 DEF Flush
    <3>2. Append(waiting[w], f) \in Seq(Flushers)
      BY <1>1, MemoryTyped, AppendProperties
    <3> QED BY <3>1, <3>2 DEF TranscriptTypeOK, Calls
  <2>2. CASE flight[w] = <<>> /\ queue[w] # <<>>
    <3>1. StartWrite(w, f) /\ fl' = [fl EXCEPT ![f] = "in"] /\ UNCHANGED <<waiting, second>>
      BY <2>2 DEF Flush
    <3>2. fl' \in [Flushers -> Calls] /\ waiting' \in [Writers -> Seq(Flushers)] /\ second' \subseteq Flushers
      BY <3>1 DEF TranscriptTypeOK, Calls
    <3> QED BY <1>1, <3>1, <3>2, StartWriteTyped
  <2>3. CASE flight[w] = <<>> /\ queue[w] = <<>>
    <3>1. fl' = [fl EXCEPT ![f] = "done"] /\ UNCHANGED <<queue, flight, owner, waiting, second>>
      BY <2>3 DEF Flush
    <3> QED BY <3>1 DEF TranscriptTypeOK, Calls
  <2> QED BY <2>1, <2>2, <2>3
<1> QED BY <1>2, <1>3, <1>4 DEF TranscriptTypeOK

LEMMA TypeBreaks ==
  ASSUME TranscriptTypeOK, NEW w \in Writers, NEW n \in Nat, NEW cut \in BOOLEAN, Breaks(w, n, cut)
  PROVE  TranscriptTypeOK'
<1>1. n <= Len(flight[w])
  <2>1. Len(flight[w]) \in Nat
    BY MemoryTyped, LenProperties
  <2>2. n < Len(flight[w]) \/ n <= Len(flight[w])
    BY DEF Breaks, WriteShort, Killed
  <2> QED BY <2>1, <2>2
<1>2. file' \in Seq(Entries \cup {Cut})
  <2>1. file' = file \o Part(flight[w], n, cut)
    BY DEF Breaks, WriteShort, Killed
  <2> QED BY <1>1, <2>1, PartFile
<1>3. CASE WriteShort(w, n, cut)
  <2>1. gone' \subseteq Entries /\ outages' \in Nat
    BY <1>3, MemoryTyped DEF WriteShort, TranscriptTypeOK
  <2> QED BY <1>2, <1>3, <2>1, ResumeTyped DEF WriteShort, TranscriptTypeOK
<1>4. CASE Killed(w, n, cut)
  <2>1. gone' \subseteq Entries /\ outages' \in Nat
    BY <1>4, MemoryTyped DEF Killed, TranscriptTypeOK, Unwritten
  <2>2. <<>> \in Seq(Entries) /\ <<>> \in Seq(Flushers)
    BY EmptySeq
  <2>3. /\ queue' \in [Writers -> Seq(Entries)] /\ flight' \in [Writers -> Seq(Entries)]
        /\ owner' \in [Writers -> Flushers \cup {Nobody}] /\ waiting' \in [Writers -> Seq(Flushers)]
    BY <1>4, <2>2 DEF Killed
  <2>4. app' \in [Entries -> {"new", "opening", "written", "failed", "died"}] /\ fl' \in [Flushers -> Calls]
    BY <1>4 DEF Killed, TranscriptTypeOK, Calls
  <2>5. current' \in Writers \cup {Nobody} /\ timer' \subseteq Writers
    BY <1>4 DEF Killed
  <2> QED BY <1>2, <1>4, <2>1, <2>3, <2>4, <2>5 DEF Killed, TranscriptTypeOK
<1> QED BY <1>3, <1>4 DEF Breaks

LEMMA TranscriptTypeInductive == TranscriptTypeOK /\ [TranscriptNext]_transcriptVars => TranscriptTypeOK'
<1> SUFFICES ASSUME TranscriptTypeOK, [TranscriptNext]_transcriptVars PROVE TranscriptTypeOK'
  OBVIOUS
<1>1. CASE TranscriptNext
  BY <1>1, TranscriptCases, TypeAppends, TypeWrites, TypeFlush, TypeBreaks
<1>2. CASE UNCHANGED transcriptVars
  BY <1>2 DEF TranscriptTypeOK, transcriptVars, writer, history
<1> QED BY <1>1, <1>2

LEMMA TranscriptInitTypeOK == TranscriptInit => TranscriptTypeOK
<1> SUFFICES ASSUME TranscriptInit PROVE TranscriptTypeOK
  OBVIOUS
<1>1. <<>> \in Seq(Entries) /\ <<>> \in Seq(Flushers) /\ <<>> \in Seq(Entries \cup {Cut})
  BY EmptySeq
<1> QED BY <1>1 DEF TranscriptInit, TranscriptTypeOK, Calls

\* The transcript's writers, the calls that wait for them and the file always have the shape
\* TranscriptTypeOK gives them.
THEOREM TranscriptTypeCorrect == TranscriptSpec => []TranscriptTypeOK
<1>1. TranscriptInit => TranscriptTypeOK
  BY TranscriptInitTypeOK
<1>2. TranscriptTypeOK /\ [TranscriptNext]_transcriptVars => TranscriptTypeOK'
  BY TranscriptTypeInductive
<1> QED BY <1>1, <1>2, PTL DEF TranscriptSpec

-----------------------------------------------------------------------------
(* Transcript: where an entry is *)

Stored(e) == OnFile(e) \/ e \in gone

\* No writer has an entry twice.
Single ==
  \A w \in Writers : Distinct(queue[w]) /\ Distinct(flight[w]) /\ ToSet(queue[w]) \cap ToSet(flight[w]) = {}

\* What a writer has was given to it, and is not in the file yet.
Located == \A w \in Writers : \A e \in InMemory(w) : by[e] = w /\ app[e] = "written" /\ ~Stored(e)

\* What was given to a writer is in its memory, in the file or gone.
Recorded ==
  \A e \in Entries :
    /\ e \in ToSet(order) <=> app[e] = "written"
    /\ Stored(e) => app[e] = "written"
    /\ app[e] = "written" => by[e] \in Writers /\ (Stored(e) \/ e \in InMemory(by[e]))

Places == Single /\ Located /\ Recorded

\* What a step does to the entries: nothing ...
Rests ==
  /\ \A v \in Writers : InMemory(v)' = InMemory(v)
  /\ \A e \in Entries : app'[e] = "written" <=> app[e] = "written"
  /\ UNCHANGED <<by, order, file, gone, outages>>

\* ... or a writer is given one ...
Gains(w, e) ==
  /\ app[e] # "written"
  /\ InMemory(w)' = InMemory(w) \cup {e}
  /\ \A v \in Writers \ {w} : InMemory(v)' = InMemory(v)
  /\ app' = [app EXCEPT ![e] = "written"]
  /\ by' = [by EXCEPT ![e] = w]
  /\ order' = Append(order, e)
  /\ UNCHANGED <<file, gone, outages>>

\* ... or a batch b of what they have comes to the file, and L is lost.
Drains(b, t, L) ==
  /\ b \in Seq(Entries) /\ Distinct(b) /\ t \in {<<>>, <<Cut>>}
  /\ ToSet(b) \cap L = {}
  /\ ToSet(b) \cup L \subseteq Unwritten
  /\ \A v \in Writers : InMemory(v)' = InMemory(v) \ (ToSet(b) \cup L)
  /\ \A e \in Entries : app'[e] = "written" <=> app[e] = "written"
  /\ file' = (file \o b) \o t
  /\ gone' = gone \cup L
  /\ UNCHANGED <<by, order>>
  /\ \/ outages' = outages + 1
     \/ (outages' = outages /\ L = {} /\ t = <<>>)

Grows == \A e \in Entries : Stored(e) => Stored(e)'

LEMMA RestsKeeps ==
  ASSUME TranscriptTypeOK, Located, Recorded, Rests
  PROVE  Located' /\ Recorded' /\ Grows
<1>1. \A e \in Entries : Stored(e)' <=> Stored(e)
  BY DEF Rests, Stored, OnFile
<1>2. \A e \in Entries : (e \in ToSet(order))' <=> e \in ToSet(order)
  BY DEF Rests
<1>3. \A e \in Entries : by'[e] = by[e] /\ (app'[e] = "written" <=> app[e] = "written")
  BY DEF Rests
<1>4. \A v \in Writers : InMemory(v)' = InMemory(v) /\ InMemory(v) \subseteq Entries
  BY MemoryTyped DEF Rests
<1>5. Located'
  BY <1>1, <1>3, <1>4 DEF Located
<1>6. Recorded'
  BY <1>1, <1>2, <1>3, <1>4 DEF Recorded
<1> QED BY <1>1, <1>5, <1>6 DEF Grows

LEMMA GainsKeeps ==
  ASSUME TranscriptTypeOK, Located, Recorded, NEW w \in Writers, NEW e \in Entries, Gains(w, e)
  PROVE  Located' /\ Recorded' /\ Grows
<1>1. \A d \in Entries : Stored(d)' <=> Stored(d)
  BY DEF Gains, Stored, OnFile
<1>2. \A d \in Entries : (d \in ToSet(order))' <=> d \in ToSet(order) \/ d = e
  <2>1. ToSet(order') = ToSet(order) \cup {e}
    BY ElementsAppend DEF Gains, TranscriptTypeOK
  <2> QED BY <2>1
<1>3. \A d \in Entries : by'[d] = (IF d = e THEN w ELSE by[d]) /\ app'[d] = (IF d = e THEN "written" ELSE app[d])
  BY DEF Gains, TranscriptTypeOK
<1>4. \A v \in Writers : /\ InMemory(v)' = IF v = w THEN InMemory(v) \cup {e} ELSE InMemory(v)
                         /\ InMemory(v) \subseteq Entries
  BY MemoryTyped DEF Gains
<1>5. ~Stored(e) /\ app[e] # "written"
  BY DEF Gains, Recorded
<1>6. \A v \in Writers : e \notin InMemory(v)
  BY <1>5 DEF Located
<1>7. ASSUME NEW v \in Writers, NEW d \in InMemory(v)' PROVE by'[d] = v /\ app'[d] = "written" /\ ~Stored(d)'
  <2>1. CASE d = e
    BY <1>1, <1>3, <1>4, <1>5, <1>6, <1>7, <2>1
  <2>2. CASE d # e
    <3>1. d \in InMemory(v) /\ d \in Entries
      BY <1>4, <1>7, <2>2
    <3> QED BY <1>1, <1>3, <2>2, <3>1 DEF Located
  <2> QED BY <2>1, <2>2
<1>8. Located'
  BY <1>7 DEF Located
<1>9. ASSUME NEW d \in Entries
      PROVE  /\ (d \in ToSet(order))' <=> app'[d] = "written"
             /\ Stored(d)' => app'[d] = "written"
             /\ app'[d] = "written" => by'[d] \in Writers /\ (Stored(d)' \/ d \in InMemory(by[d])')
  <2>1. CASE d = e
    <3>1. by'[d] = w /\ app'[d] = "written" /\ d \in InMemory(w)'
      BY <1>3, <1>4, <2>1
    <3> QED BY <1>2, <2>1, <3>1
  <2>2. CASE d # e
    <3>1. /\ d \in ToSet(order) <=> app[d] = "written"
          /\ Stored(d) => app[d] = "written"
          /\ app[d] = "written" => by[d] \in Writers /\ (Stored(d) \/ d \in InMemory(by[d]))
      BY DEF Recorded
    <3>2. by'[d] = by[d] /\ app'[d] = app[d]
      BY <1>3, <2>2
    <3> QED BY <1>1, <1>2, <1>4, <2>2, <3>1, <3>2
  <2> QED BY <2>1, <2>2
<1>10. Recorded'
  BY <1>9 DEF Recorded
<1> QED BY <1>1, <1>8, <1>10 DEF Grows

\* What is on the file after a batch has come to it.
LEMMA DrainsFile ==
  ASSUME TranscriptTypeOK, NEW b, NEW t, NEW L, Drains(b, t, L)
  PROVE  /\ ToSet(file') = ToSet(file) \cup ToSet(b) \cup ToSet(t)
         /\ \A e \in Entries : Stored(e)' <=> Stored(e) \/ e \in ToSet(b) \cup L
<1>1. /\ b \in Seq(Entries \cup {Cut}) /\ t \in Seq(Entries \cup {Cut}) /\ file \in Seq(Entries \cup {Cut})
      /\ file' = (file \o b) \o t
  <2>1. b \in Seq(Entries) /\ t \in {<<>>, <<Cut>>} /\ file' = (file \o b) \o t
    BY DEF Drains
  <2>2. <<Cut>> \in Seq(Entries \cup {Cut}) /\ <<>> \in Seq(Entries \cup {Cut})
    OBVIOUS
  <2>3. file \in Seq(Entries \cup {Cut})
    BY DEF TranscriptTypeOK
  <2>4. b \in Seq(Entries \cup {Cut})
    BY <2>1
  <2> QED BY <2>1, <2>2, <2>3, <2>4
<1>2. file \o b \in Seq(Entries \cup {Cut}) /\ ToSet(file \o b) = ToSet(file) \cup ToSet(b)
  BY <1>1, ToSetConcat
<1>3. ToSet(file') = ToSet(file) \cup ToSet(b) \cup ToSet(t)
  <2>1. PICK s \in Seq(Entries \cup {Cut}) : s = file \o b
    BY <1>2
  <2>2. ToSet(s \o t) = ToSet(s) \cup ToSet(t)
    BY <1>1, ToSetConcat
  <2>3. file' = s \o t
    BY <1>1, <2>1
  <2> QED BY <1>2, <2>1, <2>2, <2>3
<1>4. ToSet(t) \subseteq {Cut}
  BY ToSetNone, ToSetOne DEF Drains
<1>5. \A e \in Entries : e # Cut
  BY TranscriptAssumption
<1>6. \A e \in Entries : (e \in ToSet(file))' <=> e \in ToSet(file) \/ e \in ToSet(b)
  BY <1>3, <1>4, <1>5
<1>7. gone' = gone \cup L
  BY DEF Drains
<1> QED BY <1>3, <1>6, <1>7 DEF Stored, OnFile

LEMMA DrainsKeeps ==
  ASSUME TranscriptTypeOK, Located, Recorded, NEW b, NEW t, NEW L, Drains(b, t, L)
  PROVE  Located' /\ Recorded' /\ Grows
<1> DEFINE X == ToSet(b) \cup L
<1>1. \A e \in Entries : Stored(e)' <=> Stored(e) \/ e \in X
  BY DrainsFile
<1>2. \A e \in Entries : (e \in ToSet(order))' <=> e \in ToSet(order)
  BY DEF Drains
<1>3. \A e \in Entries : by'[e] = by[e] /\ (app'[e] = "written" <=> app[e] = "written")
  BY DEF Drains
<1>4. \A v \in Writers : InMemory(v)' = InMemory(v) \ X /\ InMemory(v) \subseteq Entries
  BY MemoryTyped DEF Drains
<1>5. \A e \in Entries : e \in X => app[e] = "written"
  BY DEF Drains, Located, Unwritten
<1> HIDE DEF X
<1>6. Located'
  BY <1>1, <1>3, <1>4 DEF Located
<1>7. Recorded'
  BY <1>1, <1>2, <1>3, <1>4, <1>5 DEF Recorded
<1> QED BY <1>1, <1>6, <1>7 DEF Grows

\* What a writer's memory is after the steps it can take.
LEMMA StartWriteMemory ==
  ASSUME TranscriptTypeOK, Single, NEW w \in Writers, NEW o, StartWrite(w, o), flight[w] = <<>>
  PROVE  /\ Single' /\ \A v \in Writers : InMemory(v)' = InMemory(v)
         /\ ToSet(flight[w])' = ToSet(queue[w])
<1>1. \A v \in Writers : /\ queue'[v] = IF v = w THEN <<>> ELSE queue[v]
                         /\ flight'[v] = IF v = w THEN queue[w] ELSE flight[v]
  BY DEF StartWrite, TranscriptTypeOK
<1>2. Single'
  BY <1>1, ToSetNone DEF Single
<1>3. ASSUME NEW v \in Writers PROVE InMemory(v)' = InMemory(v)
  <2>1. InMemory(v)' = ToSet(queue'[v]) \cup ToSet(flight'[v])
    BY DEF InMemory
  <2> QED BY <1>1, <2>1, ToSetNone DEF InMemory
<1>4. ToSet(flight[w])' = ToSet(flight'[w])
  OBVIOUS
<1> QED BY <1>1, <1>2, <1>3, <1>4

LEMMA WriteGains ==
  ASSUME TranscriptTypeOK, Places, NEW w \in Writers, NEW e \in Entries, Write(w, e), app[e] # "written"
  PROVE  Gains(w, e) /\ Single'
<1>1. \A v \in Writers : e \notin InMemory(v)
  BY DEF Places, Located
<1>2. /\ queue[w] \in Seq(Entries) /\ ToSet(Append(queue[w], e)) = ToSet(queue[w]) \cup {e}
      /\ Distinct(queue[w]) /\ e \notin ToSet(queue[w]) /\ e \notin ToSet(flight[w])
      /\ Distinct(Append(queue[w], e))
  BY <1>1, MemoryTyped, ElementsAppend, DistinctAppend DEF Places, Single, InMemory
<1>3. \/ /\ queue' = [queue EXCEPT ![w] = Append(queue[w], e)] /\ flight' = flight
      \/ /\ flight[w] = <<>>
         /\ flight' = [flight EXCEPT ![w] = Append(queue[w], e)] /\ queue' = [queue EXCEPT ![w] = <<>>]
  BY DEF Write, WriteFull
<1>4. CASE queue' = [queue EXCEPT ![w] = Append(queue[w], e)] /\ flight' = flight
  <2>1. \A v \in Writers : /\ queue'[v] = IF v = w THEN Append(queue[w], e) ELSE queue[v]
                           /\ flight'[v] = flight[v]
    BY <1>4 DEF TranscriptTypeOK
  <2>2. Single'
    BY <1>2, <2>1 DEF Places, Single
  <2>3. \A v \in Writers : InMemory(v)' = ToSet(queue'[v]) \cup ToSet(flight'[v])
    BY DEF InMemory
  <2>4. InMemory(w)' = InMemory(w) \cup {e} /\ \A v \in Writers \ {w} : InMemory(v)' = InMemory(v)
    BY <1>2, <2>1, <2>3 DEF InMemory
  <2> QED BY <2>2, <2>4 DEF Gains, Write
<1>5. CASE /\ flight[w] = <<>>
           /\ flight' = [flight EXCEPT ![w] = Append(queue[w], e)] /\ queue' = [queue EXCEPT ![w] = <<>>]
  <2>1. \A v \in Writers : /\ queue'[v] = IF v = w THEN <<>> ELSE queue[v]
                           /\ flight'[v] = IF v = w THEN Append(queue[w], e) ELSE flight[v]
    BY <1>5 DEF TranscriptTypeOK
  <2>2. Single'
    BY <1>2, <2>1, ToSetNone DEF Places, Single
  <2>3. \A v \in Writers : InMemory(v)' = ToSet(queue'[v]) \cup ToSet(flight'[v])
    BY DEF InMemory
  <2>4. InMemory(w)' = InMemory(w) \cup {e} /\ \A v \in Writers \ {w} : InMemory(v)' = InMemory(v)
    BY <1>2, <1>5, <2>1, <2>3, ToSetNone DEF InMemory
  <2> QED BY <2>2, <2>4 DEF Gains, Write
<1> QED BY <1>3, <1>4, <1>5

LEMMA ResumeMemory ==
  ASSUME TranscriptTypeOK, Single, NEW w \in Writers, Resume(w)
  PROVE  /\ Single'
         /\ \A v \in Writers : InMemory(v)' = IF v = w THEN InMemory(w) \ ToSet(flight[w]) ELSE InMemory(v)
<1>1. InMemory(w) \ ToSet(flight[w]) = ToSet(queue[w])
  BY DEF Single, InMemory
<1>2. \A v \in Writers : InMemory(v)' = ToSet(queue'[v]) \cup ToSet(flight'[v])
  BY DEF InMemory
<1>3. \/ \A v \in Writers : /\ queue'[v] = IF v = w THEN <<>> ELSE queue[v]
                            /\ flight'[v] = IF v = w THEN queue[w] ELSE flight[v]
      \/ \A v \in Writers : queue'[v] = queue[v] /\ flight'[v] = IF v = w THEN <<>> ELSE flight[v]
  BY DEF Resume, StartWrite, TranscriptTypeOK
<1>4. CASE \A v \in Writers : /\ queue'[v] = IF v = w THEN <<>> ELSE queue[v]
                              /\ flight'[v] = IF v = w THEN queue[w] ELSE flight[v]
  <2>1. Single'
    BY <1>4, ToSetNone DEF Single
  <2>2. \A v \in Writers : InMemory(v)' = IF v = w THEN ToSet(queue[w]) ELSE InMemory(v)
    BY <1>2, <1>4, ToSetNone DEF InMemory
  <2> QED BY <1>1, <2>1, <2>2
<1>5. CASE \A v \in Writers : queue'[v] = queue[v] /\ flight'[v] = IF v = w THEN <<>> ELSE flight[v]
  <2>1. Single'
    BY <1>5, ToSetNone DEF Single
  <2>2. \A v \in Writers : InMemory(v)' = IF v = w THEN ToSet(queue[w]) ELSE InMemory(v)
    BY <1>2, <1>5, ToSetNone DEF InMemory
  <2> QED BY <1>1, <2>1, <2>2
<1> QED BY <1>3, <1>4, <1>5

\* No writer has what another has.
LEMMA OneWriter ==
  ASSUME Located, NEW v \in Writers, NEW w \in Writers, NEW e \in InMemory(v), e \in InMemory(w)
  PROVE  v = w
BY DEF Located

LEMMA AppendsPlaces ==
  ASSUME TranscriptTypeOK, Places, NEW e \in Entries, Appends(e)
  PROVE  Single' /\ (Rests \/ \E w \in Writers : Gains(w, e))
<1>1. CASE AppendEntry(e)
  <2>1. current \in Writers /\ Write(current, e) /\ app[e] # "written"
    BY <1>1 DEF AppendEntry, TranscriptTypeOK
  <2> QED BY <2>1, WriteGains
<1>2. CASE Open(e)
  <2>1. UNCHANGED <<queue, flight, by, order, file, gone, outages>>
    BY <1>2 DEF Open, writer, history
  <2>2. Single' /\ \A v \in Writers : InMemory(v)' = InMemory(v)
    BY <2>1 DEF Places, Single, InMemory
  <2>3. \A d \in Entries : app'[d] = "written" <=> app[d] = "written"
    BY <1>2 DEF Open, TranscriptTypeOK
  <2> QED BY <2>1, <2>2, <2>3 DEF Rests
<1>3. CASE Opened(e)
  <2>1. Write(e, e) /\ app[e] # "written" /\ e \in Writers
    BY <1>3 DEF Opened, Writers
  <2> QED BY <2>1, WriteGains
<1>4. CASE OpenFails(e)
  <2>1. UNCHANGED <<queue, flight, by, order, file, gone, outages>>
    BY <1>4 DEF OpenFails, writer
  <2>2. Single' /\ \A v \in Writers : InMemory(v)' = InMemory(v)
    BY <2>1 DEF Places, Single, InMemory
  <2>3. \A d \in Entries : app'[d] = "written" <=> app[d] = "written"
    BY <1>4 DEF OpenFails, TranscriptTypeOK
  <2> QED BY <2>1, <2>2, <2>3 DEF Rests
<1> QED BY <1>1, <1>2, <1>3, <1>4 DEF Appends

LEMMA WriteEndsPlaces ==
  ASSUME TranscriptTypeOK, Places, NEW w \in Writers, WriteEnds(w)
  PROVE  Single' /\ Drains(flight[w], <<>>, {})
<1>1. /\ file' = file \o flight[w] /\ Resume(w)
      /\ UNCHANGED <<app, by, order, gone, outages>>
  BY DEF WriteEnds, history
<1>2. /\ Single' /\ flight[w] \in Seq(Entries) /\ Distinct(flight[w])
      /\ \A v \in Writers : InMemory(v)' = IF v = w THEN InMemory(w) \ ToSet(flight[w]) ELSE InMemory(v)
  BY <1>1, ResumeMemory, MemoryTyped DEF Places, Single
<1>3. ToSet(flight[w]) \subseteq InMemory(w)
  BY DEF InMemory
<1>4. \A v \in Writers : InMemory(v)' = InMemory(v) \ (ToSet(flight[w]) \cup {})
  BY <1>2, <1>3, OneWriter DEF Places
<1>5. file' = (file \o flight[w]) \o <<>>
  <2>1. file \in Seq(Entries \cup {Cut}) /\ flight[w] \in Seq(Entries \cup {Cut})
    BY <1>2 DEF TranscriptTypeOK
  <2>2. file \o flight[w] \in Seq(Entries \cup {Cut})
    BY <2>1, ConcatProperties
  <2> QED BY <1>1, <2>2, ConcatEmptySeq
<1>6. ToSet(flight[w]) \cup {} \subseteq Unwritten
  BY <1>3 DEF Unwritten
<1>7. /\ gone' = gone \cup {} /\ outages' = outages /\ UNCHANGED <<by, order>>
      /\ \A e \in Entries : app'[e] = "written" <=> app[e] = "written"
      /\ ToSet(flight[w]) \cap {} = {}
  BY <1>1
<1> QED BY <1>2, <1>4, <1>5, <1>6, <1>7 DEF Drains

LEMMA WritesPlaces ==
  ASSUME TranscriptTypeOK, Places, NEW w \in Writers, Writes(w)
  PROVE  Single' /\ (Rests \/ Drains(flight[w], <<>>, {}))
<1>1. CASE TimerFires(w)
  <2>1. UNCHANGED <<app, by, order, file, gone, outages>>
    BY <1>1 DEF TimerFires, history
  <2>2. Single' /\ \A v \in Writers : InMemory(v)' = InMemory(v)
    <3>1. CASE flight[w] = <<>> /\ queue[w] # <<>>
      BY <1>1, <3>1, StartWriteMemory DEF TimerFires, Places
    <3>2. CASE ~(flight[w] = <<>> /\ queue[w] # <<>>)
      BY <1>1, <3>2 DEF TimerFires, Places, Single, InMemory
    <3> QED BY <3>1, <3>2
  <2> QED BY <2>1, <2>2 DEF Rests
<1>2. CASE WriteFails(w)
  <2>1. UNCHANGED <<app, by, order, file, gone, outages>>
    BY <1>2 DEF WriteFails
  <2>2. \A v \in Writers : /\ queue'[v] = IF v = w THEN flight[w] \o queue[w] ELSE queue[v]
                           /\ flight'[v] = IF v = w THEN <<>> ELSE flight[v]
    BY <1>2 DEF WriteFails, TranscriptTypeOK
  <2>3. /\ ToSet(flight[w] \o queue[w]) = ToSet(flight[w]) \cup ToSet(queue[w])
        /\ Distinct(flight[w] \o queue[w])
    <3>1. queue[w] \in Seq(Entries) /\ flight[w] \in Seq(Entries)
      BY MemoryTyped
    <3>2. Distinct(queue[w]) /\ Distinct(flight[w]) /\ ToSet(flight[w]) \cap ToSet(queue[w]) = {}
      BY DEF Places, Single
    <3> QED BY <3>1, <3>2, ToSetConcat
  <2>4. Single'
    BY <2>2, <2>3, ToSetNone DEF Places, Single
  <2>5. \A v \in Writers : InMemory(v)' = ToSet(queue'[v]) \cup ToSet(flight'[v])
    BY DEF InMemory
  <2>6. \A v \in Writers : InMemory(v)' = InMemory(v)
    BY <2>2, <2>3, <2>5, ToSetNone DEF InMemory
  <2> QED BY <2>1, <2>4, <2>6 DEF Rests
<1> QED BY <1>1, <1>2, WriteEndsPlaces DEF Writes

LEMMA FlushPlaces ==
  ASSUME TranscriptTypeOK, Places, NEW f \in Flushers, Flush(f)
  PROVE  Single' /\ Rests
<1>1. current \in Writers /\ UNCHANGED <<app, by, order, file, gone, outages>>
  BY DEF Flush, TranscriptTypeOK
<1>2. Single' /\ \A v \in Writers : InMemory(v)' = InMemory(v)
  <2>1. \/ UNCHANGED <<queue, flight>>
        \/ flight[current] = <<>> /\ StartWrite(current, f)
    BY DEF Flush
  <2>2. CASE UNCHANGED <<queue, flight>>
    BY <2>2 DEF Places, Single, InMemory
  <2>3. CASE flight[current] = <<>> /\ StartWrite(current, f)
    BY <1>1, <2>3, StartWriteMemory DEF Places
  <2> QED BY <2>1, <2>2, <2>3
<1> QED BY <1>1, <1>2 DEF Rests

LEMMA BreaksPlaces ==
  ASSUME TranscriptTypeOK, Places, NEW w \in Writers, NEW n \in Nat, NEW cut \in BOOLEAN, Breaks(w, n, cut)
  PROVE  Single' /\ \E b, t, L : /\ Drains(b, t, L) /\ outages' = outages + 1
                                 /\ ToSet(flight[w]) \subseteq ToSet(b) \cup L
                                 /\ b = SubSeq(flight[w], 1, n)
<1> DEFINE q == flight[w]
<1>1. q \in Seq(Entries) /\ Len(q) \in Nat /\ n <= Len(q)
  <2>1. q \in Seq(Entries) /\ Len(q) \in Nat
    BY MemoryTyped, LenProperties
  <2>2. n < Len(q) \/ n <= Len(q)
    BY DEF Breaks, WriteShort, Killed
  <2> QED BY <2>1, <2>2
<1>2. PICK t \in {<<>>, <<Cut>>} : file \o Part(flight[w], n, cut) = (file \o SubSeq(flight[w], 1, n)) \o t
  BY <1>1, PartFile
<1>3. PICK b : b = SubSeq(flight[w], 1, n)
  OBVIOUS
<1>4. b \in Seq(Entries) /\ ToSet(b) \subseteq ToSet(q) /\ Distinct(b)
  BY <1>1, <1>3, PrefixKeeps DEF Places, Single
<1>5. file' = (file \o b) \o t /\ UNCHANGED <<by, order>> /\ outages' = outages + 1
  BY <1>2, <1>3 DEF Breaks, WriteShort, Killed
<1>6. ToSet(q) \subseteq InMemory(w)
  BY DEF InMemory
<1>7. CASE WriteShort(w, n, cut)
  <2>1. PICK L : L = ToSet(q) \ ToSet(b)
    OBVIOUS
  <2>2. /\ Single'
        /\ \A v \in Writers : InMemory(v)' = IF v = w THEN InMemory(w) \ ToSet(q) ELSE InMemory(v)
    BY <1>7, ResumeMemory DEF WriteShort, Places
  <2>3. ToSet(b) \cup L = ToSet(q) /\ ToSet(b) \cap L = {}
    BY <1>4, <2>1
  <2>4. \A v \in Writers : InMemory(v)' = InMemory(v) \ (ToSet(b) \cup L)
    BY <1>6, <2>2, <2>3, OneWriter DEF Places
  <2>5. gone' = gone \cup L /\ \A e \in Entries : app'[e] = "written" <=> app[e] = "written"
    BY <1>3, <1>7, <2>1 DEF WriteShort
  <2>6. ToSet(b) \cup L \subseteq Unwritten
    BY <1>6, <2>3 DEF Unwritten
  <2>7. Drains(b, t, L)
    BY <1>4, <1>5, <2>3, <2>4, <2>5, <2>6 DEF Drains
  <2> QED BY <1>3, <1>5, <2>2, <2>3, <2>7
<1>8. CASE Killed(w, n, cut)
  <2>1. PICK L : L = Unwritten \ ToSet(b)
    OBVIOUS
  <2>2. \A v \in Writers : queue'[v] = <<>> /\ flight'[v] = <<>>
    BY <1>8 DEF Killed
  <2>3. Single' /\ \A v \in Writers : InMemory(v)' = {}
    <3>1. \A v \in Writers : InMemory(v)' = ToSet(queue'[v]) \cup ToSet(flight'[v])
      BY DEF InMemory
    <3> QED BY <2>2, <3>1, ToSetNone DEF Single
  <2>4. ToSet(b) \cup L = Unwritten /\ ToSet(b) \cap L = {}
    <3>1. PICK M : M = Unwritten
      OBVIOUS
    <3>2. ToSet(b) \subseteq M
      BY <1>4, <1>6, <3>1 DEF Unwritten
    <3>3. L = M \ ToSet(b)
      BY <2>1, <3>1
    <3>4. ToSet(b) \cup L = M /\ ToSet(b) \cap L = {}
      BY <3>2, <3>3
    <3> QED BY <3>1, <3>4
  <2>5. \A v \in Writers : InMemory(v)' = InMemory(v) \ (ToSet(b) \cup L)
    BY <2>3, <2>4 DEF Unwritten
  <2>6. gone' = gone \cup L
    BY <1>3, <1>8, <2>1 DEF Killed
  <2>7. \A e \in Entries : app'[e] = "written" <=> app[e] = "written"
    BY <1>8 DEF Killed, TranscriptTypeOK
  <2>8. Drains(b, t, L)
    BY <1>4, <1>5, <2>4, <2>5, <2>6, <2>7 DEF Drains
  <2>9. ToSet(q) \subseteq ToSet(b) \cup L
    BY <1>6, <2>4 DEF Unwritten
  <2> QED BY <1>3, <1>5, <2>3, <2>8, <2>9
<1> QED BY <1>7, <1>8 DEF Breaks

\* Every step leaves the entries as they are, gives a writer one, or takes a batch to the file.
LEMMA PlacesStep ==
  ASSUME TranscriptTypeOK, Places, TranscriptNext
  PROVE  /\ Places' /\ Grows
         /\ \/ Rests
            \/ \E w \in Writers, e \in Entries : Gains(w, e)
            \/ \E b, t, L : Drains(b, t, L)
<1>1. Single' /\ (\/ Rests
                  \/ \E w \in Writers, e \in Entries : Gains(w, e)
                  \/ \E b, t, L : Drains(b, t, L))
  BY TranscriptCases, AppendsPlaces, WritesPlaces, FlushPlaces, BreaksPlaces
<1>2. Located' /\ Recorded' /\ Grows
  BY <1>1, RestsKeeps, GainsKeeps, DrainsKeeps DEF Places
<1> QED BY <1>1, <1>2 DEF Places

LEMMA PlacesSame ==
  ASSUME Places, UNCHANGED transcriptVars
  PROVE  Places' /\ Grows
<1>1. UNCHANGED <<queue, flight, app, by, order, file, gone>>
  BY DEF transcriptVars, writer, history
<1>2. \A v \in Writers : InMemory(v)' = InMemory(v)
  BY <1>1 DEF InMemory
<1>3. \A e \in Entries : Stored(e)' <=> Stored(e)
  BY <1>1 DEF Stored, OnFile
<1>4. Single' /\ Recorded'
  BY <1>1, <1>2, <1>3 DEF Places, Single, Recorded
<1>5. Located'
  BY <1>1, <1>2 DEF Places, Located, Stored, OnFile
<1> QED BY <1>3, <1>4, <1>5 DEF Places, Grows

LEMMA PlacesInit == TranscriptInit => Places
<1> SUFFICES ASSUME TranscriptInit PROVE Places
  OBVIOUS
<1>1. \A v \in Writers : queue[v] = <<>> /\ flight[v] = <<>>
  BY DEF TranscriptInit
<1>2. Single /\ \A v \in Writers : InMemory(v) = {}
  BY <1>1, ToSetNone DEF Single, InMemory
<1>3. ToSet(file) = {} /\ ToSet(order) = {} /\ gone = {} /\ \A e \in Entries : app[e] = "new"
  BY ToSetNone DEF TranscriptInit
<1> QED BY <1>2, <1>3 DEF Places, Located, Recorded, Stored, OnFile

-----------------------------------------------------------------------------
(* Transcript: what a call of flush() can count on *)

\* The call that awaits its own write has all it was called for on its way or in the file.
OwnClaim(w) ==
  owner[w] # Nobody =>
    /\ fl[owner[w]] # "new"
    /\ owner[w] \notin second => \A e \in due[owner[w]] : Stored(e) \/ e \in ToSet(flight[w])

\* The first of those that await another's write has the rest of it in the queue.
WaitClaim(w) ==
  /\ \A i \in DOMAIN waiting[w] : fl[waiting[w][i]] # "new" /\ (i > 1 => waiting[w][i] \in second)
  /\ waiting[w] # <<>> /\ waiting[w][1] \notin second =>
       \A e \in due[waiting[w][1]] : Stored(e) \/ e \in InMemory(w)

Claim(w) == OwnClaim(w) /\ WaitClaim(w)
Claimed == \A w \in Writers : Claim(w)

\* What a call that returned was promised.
Honoured(f) == fl[f] = "done" /\ f \notin second => \A e \in due[f] : Stored(e)

\* A step keeps what the calls that have started were promised.
Regards ==
  \A f \in Flushers : fl[f] # "new" => /\ fl'[f] # "new" /\ due'[f] = due[f]
                                       /\ f \in second' <=> f \in second

\* The call that awaits its own write, or another's, waits on, or nobody does any more.
OwnRests(w) ==
  \/ owner'[w] = Nobody
  \/ /\ owner'[w] = owner[w]
     /\ \A e \in ToSet(flight[w]) : Stored(e)' \/ e \in ToSet(flight'[w])
WaitRests(w) ==
  \/ waiting'[w] = <<>>
  \/ /\ waiting'[w] = waiting[w]
     /\ \A e \in InMemory(w) : Stored(e)' \/ e \in InMemory(w)'
ClaimRests(w) == OwnRests(w) /\ WaitRests(w)

LEMMA OwnClaimKept ==
  ASSUME TranscriptTypeOK, Grows, Regards, NEW w \in Writers, OwnClaim(w), OwnRests(w)
  PROVE  OwnClaim(w)'
<1>1. owner[w] \in Flushers \cup {Nobody} /\ \A f \in Flushers : due[f] \subseteq Entries
  BY DEF TranscriptTypeOK
<1>2. \A e \in Entries : Stored(e) => Stored(e)'
  BY DEF Grows
<1>3. ASSUME owner'[w] # Nobody
      PROVE  /\ fl'[owner'[w]] # "new"
             /\ owner'[w] \notin second' =>
                  \A e \in due'[owner'[w]] : Stored(e)' \/ e \in ToSet(flight'[w])
  <2>1. owner'[w] = owner[w] /\ \A e \in ToSet(flight[w]) : Stored(e)' \/ e \in ToSet(flight'[w])
    BY <1>3 DEF OwnRests
  <2>2. PICK f \in Flushers : f = owner[w]
    BY <1>1, <1>3, <2>1
  <2>3. fl[f] # "new" /\ (f \notin second => \A e \in due[f] : Stored(e) \/ e \in ToSet(flight[w]))
    BY <1>3, <2>1, <2>2 DEF OwnClaim
  <2>4. fl'[f] # "new" /\ due'[f] = due[f] /\ (f \in second' <=> f \in second)
    BY <2>3 DEF Regards
  <2> QED BY <1>1, <1>2, <2>1, <2>2, <2>3, <2>4
<1> QED BY <1>3 DEF OwnClaim

LEMMA WaitClaimKept ==
  ASSUME TranscriptTypeOK, Grows, Regards, NEW w \in Writers, WaitClaim(w), WaitRests(w)
  PROVE  WaitClaim(w)'
<1>1. waiting[w] \in Seq(Flushers) /\ \A f \in Flushers : due[f] \subseteq Entries
  BY DEF TranscriptTypeOK
<1>2. \A e \in Entries : Stored(e) => Stored(e)'
  BY DEF Grows
<1>3. ASSUME NEW i \in DOMAIN waiting'[w]
      PROVE  fl'[waiting'[w][i]] # "new" /\ (i > 1 => waiting'[w][i] \in second')
  <2>1. waiting'[w] # <<>>
    BY <1>3
  <2>2. waiting'[w] = waiting[w]
    BY <2>1 DEF WaitRests
  <2>3. PICK f \in Flushers : f = waiting[w][i]
    BY <1>1, <1>3, <2>2, ElementOfSeq, LenProperties
  <2>4. fl[f] # "new" /\ (i > 1 => f \in second)
    BY <1>3, <2>2, <2>3 DEF WaitClaim
  <2> QED BY <2>2, <2>3, <2>4 DEF Regards
<1>4. ASSUME waiting'[w] # <<>>, waiting'[w][1] \notin second'
      PROVE  \A e \in due'[waiting'[w][1]] : Stored(e)' \/ e \in InMemory(w)'
  <2>1. waiting'[w] = waiting[w] /\ \A e \in InMemory(w) : Stored(e)' \/ e \in InMemory(w)'
    BY <1>4 DEF WaitRests
  <2>2. 1 \in DOMAIN waiting[w]
    BY <1>1, <1>4, <2>1, EmptySeq, LenProperties
  <2>3. PICK f \in Flushers : f = waiting[w][1]
    BY <1>1, <2>2, ElementOfSeq, LenProperties
  <2>4. fl[f] # "new" /\ (f \notin second => \A e \in due[f] : Stored(e) \/ e \in InMemory(w))
    BY <1>4, <2>1, <2>2, <2>3 DEF WaitClaim
  <2>5. due'[f] = due[f] /\ (f \in second' <=> f \in second)
    BY <2>4 DEF Regards
  <2> QED BY <1>1, <1>2, <1>4, <2>1, <2>3, <2>4, <2>5
<1> QED BY <1>3, <1>4 DEF WaitClaim

LEMMA ClaimKept ==
  ASSUME TranscriptTypeOK, Grows, Regards, NEW w \in Writers, Claim(w), ClaimRests(w)
  PROVE  Claim(w)'
BY OwnClaimKept, WaitClaimKept DEF Claim, ClaimRests

\* What a call that has returned was promised stays so.
LEMMA HonouredKept ==
  ASSUME TranscriptTypeOK, Grows, Regards, NEW f \in Flushers, Honoured(f), fl[f] = "done" \/ fl'[f] # "done"
  PROVE  Honoured(f)'
<1>1. due[f] \subseteq Entries
  BY DEF TranscriptTypeOK
<1>2. CASE fl'[f] # "done"
  BY <1>2 DEF Honoured
<1>3. CASE fl[f] = "done" /\ fl'[f] = "done"
  <2>1. fl[f] # "new"
    BY <1>3
  <2>2. due'[f] = due[f] /\ (f \in second' <=> f \in second)
    BY <2>1 DEF Regards
  <2> QED BY <1>1, <1>3, <2>2 DEF Honoured, Grows
<1> QED BY <1>2, <1>3

LEMMA WriteClaims ==
  ASSUME TranscriptTypeOK, Places, NEW w \in Writers, NEW e \in Entries, Write(w, e), app[e] # "written"
  PROVE  /\ Regards /\ UNCHANGED fl
         /\ \A v \in Writers : ClaimRests(v)
<1>1. UNCHANGED <<fl, due, second, waiting>>
  BY DEF Write
<1>2. \A v \in Writers : InMemory(v) \subseteq InMemory(v)'
  BY WriteGains DEF Gains
<1>3. \A v \in Writers : owner'[v] = Nobody \/ (owner'[v] = owner[v] /\ flight'[v] = flight[v])
  BY DEF Write, WriteFull, TranscriptTypeOK
<1> QED BY <1>1, <1>2, <1>3 DEF Regards, ClaimRests, OwnRests, WaitRests

LEMMA AppendsClaims ==
  ASSUME TranscriptTypeOK, Places, NEW e \in Entries, Appends(e)
  PROVE  /\ Regards /\ UNCHANGED fl
         /\ \A v \in Writers : ClaimRests(v)
<1>1. CASE \E w \in Writers : Write(w, e) /\ app[e] # "written"
  BY <1>1, WriteClaims
<1>2. CASE UNCHANGED <<queue, flight, owner, waiting, fl, due, second>>
  BY <1>2 DEF Regards, ClaimRests, OwnRests, WaitRests, InMemory
<1>3. AppendEntry(e) => \E w \in Writers : Write(w, e) /\ app[e] # "written"
  BY DEF AppendEntry, TranscriptTypeOK
<1>4. Opened(e) => \E w \in Writers : Write(w, e) /\ app[e] # "written"
  BY DEF Opened, Writers
<1>5. Open(e) \/ OpenFails(e) => UNCHANGED <<queue, flight, owner, waiting, fl, due, second>>
  BY DEF Open, OpenFails, writer, history
<1> QED BY <1>1, <1>2, <1>3, <1>4, <1>5 DEF Appends

\* Those who awaited a write that reached the file, or was lost, got what they were promised.
LEMMA ResumeClaims ==
  ASSUME TranscriptTypeOK, TranscriptTypeOK', Single, Grows, NEW w \in Writers, Claim(w), Resume(w),
         UNCHANGED <<due, second>>, \A e \in ToSet(flight[w]) : Stored(e)'
  PROVE  /\ Regards /\ Claim(w)' /\ \A v \in Writers \ {w} : ClaimRests(v)
         /\ \A f \in Flushers : Honoured(f) => Honoured(f)'
<1>1. /\ owner[w] \in Flushers \cup {Nobody} /\ waiting[w] \in Seq(Flushers)
      /\ DOMAIN waiting[w] = 1..Len(waiting[w]) /\ Len(waiting[w]) \in Nat
      /\ \A f \in Flushers : due[f] \subseteq Entries
      /\ Nobody \notin Flushers
  BY LenProperties, TranscriptAssumption DEF TranscriptTypeOK
<1>2. \A e \in Entries : Stored(e) => Stored(e)'
  BY DEF Grows
<1>3. /\ waiting' = [waiting EXCEPT ![w] = <<>>]
      /\ \A v \in Writers \ {w} : owner'[v] = owner[v] /\ flight'[v] = flight[v] /\ queue'[v] = queue[v]
      /\ \A f \in Flushers : fl'[f] = fl[f] \/ (fl'[f] = "done" /\ f \in Awaiting(w))
  BY DEF Resume, Return, StartWrite, TranscriptTypeOK
<1>4. Regards
  BY <1>3 DEF Regards
<1>5. \A v \in Writers \ {w} : ClaimRests(v)
  <2>1. \A v \in Writers \ {w} : waiting'[v] = waiting[v]
    BY <1>3 DEF TranscriptTypeOK
  <2> QED BY <1>3, <2>1 DEF ClaimRests, OwnRests, WaitRests, InMemory
<1>6. ASSUME waiting[w] # <<>>
      PROVE  /\ 1 \in DOMAIN waiting[w] /\ Head(waiting[w]) = waiting[w][1] /\ waiting[w][1] \in Flushers
             /\ fl[waiting[w][1]] # "new"
  <2>1. 1 \in DOMAIN waiting[w]
    BY <1>1, <1>6, EmptySeq
  <2> QED BY <1>1, <1>6, <2>1, HeadTailProperties, ElementOfSeq DEF Claim, OwnClaim, WaitClaim
<1>7. waiting'[w] = <<>>
  BY <1>3 DEF TranscriptTypeOK
<1>8. Claim(w)'
  <2>1. CASE waiting[w] # <<>> /\ queue[w] # <<>>
    <3>1. owner'[w] = waiting[w][1] /\ flight'[w] = queue[w]
      BY <1>6, <2>1 DEF Resume, StartWrite, TranscriptTypeOK
    <3>2. PICK f \in Flushers : f = waiting[w][1]
      BY <1>6, <2>1
    <3>3. fl[f] # "new" /\ (f \notin second => \A e \in due[f] : Stored(e) \/ e \in InMemory(w))
      BY <1>6, <2>1, <3>2 DEF Claim, OwnClaim, WaitClaim
    <3>4. fl'[f] # "new" /\ due'[f] = due[f] /\ (f \in second' <=> f \in second)
      BY <1>4, <3>3 DEF Regards
    <3>5. f \notin second' => \A e \in due'[f] : Stored(e)' \/ e \in ToSet(flight'[w])
      BY <1>1, <1>2, <3>1, <3>3, <3>4 DEF InMemory
    <3> QED BY <1>7, <3>1, <3>2, <3>4, <3>5 DEF Claim, OwnClaim, WaitClaim
  <2>2. CASE ~(waiting[w] # <<>> /\ queue[w] # <<>>)
    <3>1. owner'[w] = Nobody
      BY <2>2 DEF Resume, TranscriptTypeOK
    <3> QED BY <1>7, <3>1 DEF Claim, OwnClaim, WaitClaim
  <2> QED BY <2>1, <2>2
<1>9. ASSUME NEW f \in Flushers, Honoured(f) PROVE Honoured(f)'
  <2>1. CASE fl[f] = "done" \/ fl'[f] # "done"
    BY <1>4, <1>9, <2>1, HonouredKept
  <2>2. CASE fl[f] # "done" /\ fl'[f] = "done"
    <3>1. f \in Awaiting(w) /\ (waiting[w] # <<>> /\ queue[w] # <<>> => f # Head(waiting[w]))
      BY <2>2 DEF Resume, Return
    <3>2. CASE f = owner[w]
      <4>1. f \notin second => \A e \in due[f] : Stored(e) \/ e \in ToSet(flight[w])
        BY <1>1, <3>2 DEF Claim, OwnClaim, WaitClaim
      <4> QED BY <1>1, <1>2, <4>1 DEF Honoured
    <3>3. CASE f \in ToSet(waiting[w])
      <4>1. PICK i \in DOMAIN waiting[w] : f = waiting[w][i]
        BY <3>3 DEF ToSet
      <4>2. CASE i > 1
        BY <4>1, <4>2 DEF Claim, OwnClaim, WaitClaim, Honoured
      <4>3. CASE i = 1
        <5>1. waiting[w] # <<>>
          BY <1>1, <4>1
        <5>2. queue[w] = <<>>
          BY <1>6, <3>1, <4>1, <4>3, <5>1
        <5>3. f \notin second => \A e \in due[f] : Stored(e) \/ e \in InMemory(w)
          BY <4>1, <4>3, <5>1 DEF Claim, OwnClaim, WaitClaim
        <5>4. InMemory(w) = ToSet(flight[w])
          BY <5>2, ToSetNone DEF InMemory
        <5> QED BY <1>1, <1>2, <5>3, <5>4 DEF Honoured
      <4> QED BY <1>1, <4>1, <4>2, <4>3
    <3> QED BY <3>1, <3>2, <3>3 DEF Awaiting
  <2> QED BY <2>1, <2>2
<1> QED BY <1>4, <1>5, <1>8, <1>9

LEMMA WritesClaims ==
  ASSUME TranscriptTypeOK, TranscriptTypeOK', Places, Claimed, Grows, NEW w \in Writers, Writes(w),
         \A f \in Flushers : Honoured(f)
  PROVE  Claimed' /\ \A f \in Flushers : Honoured(f)'
<1>1. CASE TimerFires(w)
  <2>1. UNCHANGED <<fl, due, second, waiting>>
    BY <1>1 DEF TimerFires, history
  <2>2. \A v \in Writers : InMemory(v)' = InMemory(v)
    BY <1>1, StartWriteMemory DEF TimerFires, Places, InMemory
  <2>3. \A v \in Writers : owner'[v] = Nobody \/ (owner'[v] = owner[v] /\ flight'[v] = flight[v])
    BY <1>1 DEF TimerFires, StartWrite, TranscriptTypeOK
  <2>4. Regards /\ \A v \in Writers : ClaimRests(v)
    BY <2>1, <2>2, <2>3 DEF Regards, ClaimRests, OwnRests, WaitRests
  <2> QED BY <2>1, <2>4, ClaimKept, HonouredKept DEF Claimed
<1>2. CASE WriteEnds(w)
  <2>1. Resume(w) /\ UNCHANGED <<due, second>> /\ Drains(flight[w], <<>>, {})
    BY <1>2, WriteEndsPlaces DEF WriteEnds, history
  <2>2. \A e \in ToSet(flight[w]) : Stored(e)'
    BY <2>1, DrainsFile, MemoryTyped
  <2>3. /\ Regards /\ Claim(w)' /\ \A v \in Writers \ {w} : ClaimRests(v)
        /\ \A f \in Flushers : Honoured(f) => Honoured(f)'
    BY <2>1, <2>2, ResumeClaims DEF Places, Claimed
  <2> QED BY <2>3, ClaimKept DEF Claimed
<1>3. CASE WriteFails(w)
  <2>1. /\ UNCHANGED <<due, second>>
        /\ \A f \in Flushers : fl'[f] = fl[f] \/ fl'[f] = "failed"
    BY <1>3 DEF WriteFails, Return
  <2>2. \A v \in Writers : InMemory(v)' = InMemory(v)
    <3>1. flight[w] # <<>> /\ queue' = [queue EXCEPT ![w] = flight[w] \o queue[w]] /\ flight' = [flight EXCEPT ![w] = <<>>]
      BY <1>3 DEF WriteFails
    <3>2. \A v \in Writers : /\ queue'[v] = IF v = w THEN flight[w] \o queue[w] ELSE queue[v]
                             /\ flight'[v] = IF v = w THEN <<>> ELSE flight[v]
      BY <3>1 DEF TranscriptTypeOK
    <3>3. ToSet(flight[w] \o queue[w]) = ToSet(flight[w]) \cup ToSet(queue[w])
      BY MemoryTyped, ToSetConcat
    <3>4. \A v \in Writers : InMemory(v)' = ToSet(queue'[v]) \cup ToSet(flight'[v])
      BY DEF InMemory
    <3> QED BY <3>2, <3>3, <3>4, ToSetNone DEF InMemory
  <2>3. \A v \in Writers : /\ owner'[v] = Nobody \/ (owner'[v] = owner[v] /\ flight'[v] = flight[v])
                           /\ waiting'[v] = <<>> \/ waiting'[v] = waiting[v]
    BY <1>3 DEF WriteFails, TranscriptTypeOK
  <2>4. Regards /\ \A v \in Writers : ClaimRests(v)
    BY <2>1, <2>2, <2>3 DEF Regards, ClaimRests, OwnRests, WaitRests
  <2>5. \A f \in Flushers : fl[f] = "done" \/ fl'[f] # "done"
    BY <2>1
  <2> QED BY <2>4, <2>5, ClaimKept, HonouredKept DEF Claimed
<1> QED BY <1>1, <1>2, <1>3 DEF Writes

LEMMA FlushClaims ==
  ASSUME TranscriptTypeOK, TranscriptTypeOK', Places, Claimed, Grows, NEW f \in Flushers, Flush(f),
         \A g \in Flushers : Honoured(g)
  PROVE  Claimed' /\ \A g \in Flushers : Honoured(g)'
<1> DEFINE w == current
<1>1. PICK x \in Writers : x = w
  BY DEF Flush, TranscriptTypeOK
<1> HIDE DEF w
<1>2. fl[f] = "new" /\ due' = [due EXCEPT ![f] = InMemory(x)]
  BY <1>1 DEF Flush, w
<1>3. /\ \A g \in Flushers \ {f} : fl'[g] = fl[g] /\ due'[g] = due[g] /\ (g \in second' <=> g \in second)
      /\ fl'[f] \in {"in", "done"}
      /\ due'[f] = InMemory(x)
  BY <1>2 DEF Flush, TranscriptTypeOK
<1>4. Regards
  BY <1>2, <1>3 DEF Regards
<1>5. \A v \in Writers : InMemory(v)' = InMemory(v)
  BY FlushPlaces DEF Rests
<1>6. \A v \in Writers \ {x} : /\ owner'[v] = owner[v] /\ waiting'[v] = waiting[v]
                               /\ flight'[v] = flight[v]
  BY <1>1 DEF Flush, StartWrite, TranscriptTypeOK, w
<1>7. \A v \in Writers \ {x} : Claim(v)'
  BY <1>4, <1>5, <1>6, ClaimKept DEF Claimed, ClaimRests, OwnRests, WaitRests
<1>8. Claim(x)
  BY DEF Claimed
<1>9. Claim(x)' /\ Honoured(f)'
  <2>1. CASE flight[x] # <<>>
    <3>1. /\ waiting' = [waiting EXCEPT ![x] = Append(waiting[x], f)]
          /\ second' = (IF waiting[x] # <<>> THEN second \cup {f} ELSE second)
          /\ fl'[f] = "in" /\ UNCHANGED <<queue, flight, owner>>
      BY <1>1, <2>1 DEF Flush, TranscriptTypeOK, w
    <3>2. OwnClaim(x)'
      BY <1>4, <1>8, <3>1, OwnClaimKept DEF Claim, OwnRests
    <3>3. /\ waiting[x] \in Seq(Flushers) /\ Len(waiting[x]) \in Nat /\ DOMAIN waiting[x] = 1..Len(waiting[x])
          /\ waiting[x] # <<>> => Len(waiting[x]) >= 1
      BY EmptySeq, LenProperties DEF TranscriptTypeOK
    <3>4. waiting'[x] = Append(waiting[x], f)
      BY <3>1 DEF TranscriptTypeOK
    <3>5. /\ DOMAIN waiting'[x] = 1..Len(waiting[x]) + 1
          /\ \A i \in 1..Len(waiting[x]) : waiting'[x][i] = waiting[x][i]
          /\ waiting'[x][Len(waiting[x]) + 1] = f
      <4>1. Append(waiting[x], f) \in Seq(Flushers) /\ Len(Append(waiting[x], f)) = Len(waiting[x]) + 1
        BY <3>3, AppendProperties
      <4>2. DOMAIN Append(waiting[x], f) = 1..Len(Append(waiting[x], f))
        BY <4>1, LenProperties
      <4> QED BY <3>3, <3>4, <4>1, <4>2, AppendProperties
    <3>6. ASSUME NEW i \in DOMAIN waiting'[x]
          PROVE  fl'[waiting'[x][i]] # "new" /\ (i > 1 => waiting'[x][i] \in second')
      <4>1. CASE i \in 1..Len(waiting[x])
        <5>1. PICK g \in Flushers : g = waiting[x][i]
          BY <3>3, <4>1, ElementOfSeq
        <5>2. fl[g] # "new" /\ (i > 1 => g \in second)
          BY <1>8, <3>3, <4>1, <5>1 DEF Claim, WaitClaim
        <5>3. waiting'[x][i] = g
          BY <3>5, <4>1, <5>1
        <5> QED BY <1>4, <5>2, <5>3 DEF Regards
      <4>2. CASE i = Len(waiting[x]) + 1
        <5>1. waiting'[x][i] = f
          BY <3>5, <4>2
        <5>2. i > 1 => waiting[x] # <<>>
          BY <4>2, EmptySeq
        <5> QED BY <3>1, <5>1, <5>2
      <4> QED BY <3>3, <3>5, <3>6, <4>1, <4>2
    <3>7. ASSUME waiting'[x][1] \notin second'
          PROVE  \A e \in due'[waiting'[x][1]] : Stored(e)' \/ e \in InMemory(x)'
      <4>1. CASE waiting[x] = <<>>
        <5>1. waiting'[x][1] = f
          BY <3>3, <3>5, <4>1, EmptySeq
        <5> QED BY <1>3, <1>5, <5>1
      <4>2. CASE waiting[x] # <<>>
        <5>1. 1 \in 1..Len(waiting[x])
          BY <3>3, <4>2
        <5>2. PICK g \in Flushers : g = waiting[x][1]
          BY <3>3, <5>1, ElementOfSeq
        <5>3. fl[g] # "new" /\ (g \notin second => \A e \in due[g] : Stored(e) \/ e \in InMemory(x))
          BY <1>8, <3>3, <4>2, <5>1, <5>2 DEF Claim, WaitClaim
        <5>4. due'[g] = due[g] /\ (g \in second' <=> g \in second) /\ due[g] \subseteq Entries
          BY <1>4, <5>3 DEF Regards, TranscriptTypeOK
        <5>5. waiting'[x][1] = g
          BY <3>5, <5>1, <5>2
        <5> QED BY <1>5, <3>7, <5>3, <5>4, <5>5 DEF Grows
      <4> QED BY <4>1, <4>2
    <3>8. WaitClaim(x)'
      BY <3>6, <3>7 DEF WaitClaim
    <3> QED BY <3>1, <3>2, <3>8 DEF Claim, Honoured
  <2>2. CASE flight[x] = <<>> /\ queue[x] # <<>>
    <3>1. StartWrite(x, f) /\ fl'[f] = "in" /\ UNCHANGED <<waiting, second>>
      BY <1>1, <2>2 DEF Flush, TranscriptTypeOK, w
    <3>2. WaitClaim(x)'
      BY <1>4, <1>5, <1>8, <3>1, WaitClaimKept DEF Claim, WaitRests
    <3>3. owner'[x] = f /\ flight'[x] = queue[x]
      BY <3>1 DEF StartWrite, TranscriptTypeOK
    <3>4. InMemory(x) = ToSet(flight'[x])
      BY <2>2, <3>3, ToSetNone DEF InMemory
    <3>5. OwnClaim(x)'
      BY <1>3, <3>1, <3>3, <3>4 DEF OwnClaim
    <3> QED BY <3>1, <3>2, <3>5 DEF Claim, Honoured
  <2>3. CASE flight[x] = <<>> /\ queue[x] = <<>>
    <3>1. UNCHANGED <<queue, flight, owner, waiting, second>>
      BY <1>1, <2>3 DEF Flush, w
    <3>2. Claim(x)'
      BY <1>4, <1>5, <1>8, <3>1, ClaimKept DEF ClaimRests, OwnRests, WaitRests
    <3>3. due'[f] = {}
      BY <1>3, <2>3, ToSetNone DEF InMemory
    <3> QED BY <3>2, <3>3 DEF Honoured
  <2> QED BY <2>1, <2>2, <2>3
<1>10. \A g \in Flushers \ {f} : Honoured(g)'
  BY <1>3, <1>4, HonouredKept
<1> QED BY <1>7, <1>9, <1>10 DEF Claimed

LEMMA BreaksClaims ==
  ASSUME TranscriptTypeOK, TranscriptTypeOK', Places, Claimed, Grows,
         NEW w \in Writers, NEW n \in Nat, NEW cut \in BOOLEAN, Breaks(w, n, cut),
         \A f \in Flushers : Honoured(f)
  PROVE  Claimed' /\ \A f \in Flushers : Honoured(f)'
<1>1. CASE WriteShort(w, n, cut)
  <2>1. Resume(w) /\ UNCHANGED <<due, second>>
    BY <1>1 DEF WriteShort
  <2>2. PICK b, t, L : Drains(b, t, L) /\ ToSet(flight[w]) \subseteq ToSet(b) \cup L
    BY BreaksPlaces
  <2>3. \A e \in ToSet(flight[w]) : Stored(e)'
    BY <2>2, DrainsFile, MemoryTyped
  <2>4. /\ Regards /\ Claim(w)' /\ \A v \in Writers \ {w} : ClaimRests(v)
        /\ \A f \in Flushers : Honoured(f) => Honoured(f)'
    BY <2>1, <2>3, ResumeClaims DEF Places, Claimed
  <2> QED BY <2>4, ClaimKept DEF Claimed
<1>2. CASE Killed(w, n, cut)
  <2>1. /\ UNCHANGED <<due, second>> /\ \A v \in Writers : owner'[v] = Nobody /\ waiting'[v] = <<>>
        /\ \A f \in Flushers : fl'[f] = fl[f] \/ (fl'[f] = "died" /\ fl[f] = "in")
    BY <1>2 DEF Killed
  <2>2. Regards /\ \A f \in Flushers : fl[f] = "done" \/ fl'[f] # "done"
    BY <2>1 DEF Regards
  <2>3. \A v \in Writers : Claim(v)'
    BY <2>1, ToSetNone DEF Claim, OwnClaim, WaitClaim
  <2> QED BY <2>2, <2>3, HonouredKept DEF Claimed
<1> QED BY <1>1, <1>2 DEF Breaks

-----------------------------------------------------------------------------
(* Transcript: the invariant *)

TranscriptIInv == TranscriptTypeOK /\ Places /\ Claimed /\ \A f \in Flushers : Honoured(f)

LEMMA TranscriptIInvInit == TranscriptInit => TranscriptIInv
<1> SUFFICES ASSUME TranscriptInit PROVE TranscriptIInv
  OBVIOUS
<1>1. Claimed /\ \A f \in Flushers : Honoured(f)
  BY ToSetNone DEF TranscriptInit, Claimed, Claim, OwnClaim, WaitClaim, Honoured
<1> QED BY <1>1, TranscriptInitTypeOK, PlacesInit DEF TranscriptIInv

LEMMA TranscriptIInvInductive ==
  TranscriptIInv /\ [TranscriptNext]_transcriptVars => TranscriptIInv'
<1> SUFFICES ASSUME TranscriptIInv, [TranscriptNext]_transcriptVars PROVE TranscriptIInv'
  OBVIOUS
<1>1. TranscriptTypeOK'
  BY TranscriptTypeInductive DEF TranscriptIInv
<1>2. CASE TranscriptNext
  <2>1. Places' /\ Grows
    BY <1>2, PlacesStep DEF TranscriptIInv
  <2>2. ASSUME NEW e \in Entries, Appends(e) PROVE Claimed' /\ \A f \in Flushers : Honoured(f)'
    <3>1. Regards /\ UNCHANGED fl /\ \A v \in Writers : ClaimRests(v)
      BY <2>2, AppendsClaims DEF TranscriptIInv
    <3> QED BY <2>1, <3>1, ClaimKept, HonouredKept DEF TranscriptIInv, Claimed
  <2>3. ASSUME NEW w \in Writers, Writes(w) PROVE Claimed' /\ \A f \in Flushers : Honoured(f)'
    BY <1>1, <2>1, <2>3, WritesClaims DEF TranscriptIInv
  <2>4. ASSUME NEW f \in Flushers, Flush(f) PROVE Claimed' /\ \A g \in Flushers : Honoured(g)'
    BY <1>1, <2>1, <2>4, FlushClaims DEF TranscriptIInv
  <2>5. ASSUME NEW w \in Writers, NEW n \in Nat, NEW cut \in BOOLEAN, Breaks(w, n, cut)
        PROVE  Claimed' /\ \A f \in Flushers : Honoured(f)'
    BY <1>1, <2>1, <2>5, BreaksClaims DEF TranscriptIInv
  <2>6. Claimed' /\ \A f \in Flushers : Honoured(f)'
    BY <1>2, <2>2, <2>3, <2>4, <2>5, TranscriptCases
  <2> QED BY <1>1, <2>1, <2>6 DEF TranscriptIInv
<1>3. CASE UNCHANGED transcriptVars
  <2>1. Places' /\ Grows
    BY <1>3, PlacesSame DEF TranscriptIInv
  <2>2. UNCHANGED <<queue, flight, owner, waiting, fl, due, second>>
    BY <1>3 DEF transcriptVars, writer, history
  <2>3. Regards /\ \A v \in Writers : ClaimRests(v)
    BY <2>2 DEF Regards, ClaimRests, OwnRests, WaitRests, InMemory
  <2>4. \A f \in Flushers : fl[f] = "done" \/ fl'[f] # "done"
    BY <2>2
  <2>5. Claimed' /\ \A f \in Flushers : Honoured(f)'
    BY <2>1, <2>3, <2>4, ClaimKept, HonouredKept DEF TranscriptIInv, Claimed
  <2> QED BY <1>1, <2>1, <2>5 DEF TranscriptIInv
<1> QED BY <1>2, <1>3

LEMMA TranscriptInvariant == TranscriptSpec => []TranscriptIInv
<1>1. TranscriptInit => TranscriptIInv
  BY TranscriptIInvInit
<1>2. TranscriptIInv /\ [TranscriptNext]_transcriptVars => TranscriptIInv'
  BY TranscriptIInvInductive
<1> QED BY <1>1, <1>2, PTL DEF TranscriptSpec

\* A flush() that has returned has what it found queued, or on its way, in the file: the write it
\* waited for took all of it, or left the rest to the next one, which it awaited as well.
THEOREM FlushedSafe == TranscriptSpec => []Flushed
<1>1. TranscriptIInv => Flushed
  BY DEF TranscriptIInv, Honoured, Flushed, Stored
<1> QED BY <1>1, TranscriptInvariant, PTL

\* An entry that was accepted is, at any time, in the memory of the writer it was given to, in the
\* file, or lost in an outage: opening a second writer, a full queue and a failed write drop none.
THEOREM AcceptedKept == TranscriptSpec => [](\A e \in ToSet(order) : Stored(e) \/ e \in InMemory(by[e]))
<1>1. TranscriptIInv => \A e \in ToSet(order) : Stored(e) \/ e \in InMemory(by[e])
  <2> SUFFICES ASSUME TranscriptIInv, NEW e \in ToSet(order) PROVE Stored(e) \/ e \in InMemory(by[e])
    OBVIOUS
  <2>1. e \in Entries
    BY ElementsTyped DEF TranscriptIInv, TranscriptTypeOK
  <2> QED BY <2>1 DEF TranscriptIInv, Places, Recorded
<1> QED BY <1>1, TranscriptInvariant, PTL

-----------------------------------------------------------------------------
(* Transcript: the log that AppendLog describes *)

LEMMA LogStep ==
  ASSUME TranscriptTypeOK, Places, TranscriptNext
  PROVE  [Log!Next]_(Log!vars)
<1>1. CASE Rests
  <2>1. UNCHANGED <<order, file, gone, outages>> /\ \A v \in Writers : InMemory(v)' = InMemory(v)
    BY <1>1 DEF Rests
  <2>2. Unwritten' = Unwritten
    BY <2>1 DEF Unwritten
  <2>3. ToSet(order)' = ToSet(order)
    BY <2>1
  <2> QED BY <2>1, <2>2, <2>3 DEF Log!vars
<1>2. ASSUME NEW w \in Writers, NEW e \in Entries, Gains(w, e) PROVE Log!Next
  <2>1. e \notin ToSet(order)
    BY <1>2 DEF Gains, Places, Recorded
  <2>2. ToSet(order)' = ToSet(order) \cup {e}
    <3>1. ToSet(order') = ToSet(order) \cup {e}
      BY <1>2, ElementsAppend DEF Gains, TranscriptTypeOK
    <3> QED BY <3>1
  <2>3. Unwritten' = Unwritten \cup {e}
    <3>1. \A v \in Writers : InMemory(v)' = IF v = w THEN InMemory(v) \cup {e} ELSE InMemory(v)
      BY <1>2 DEF Gains
    <3> QED BY <3>1 DEF Unwritten
  <2>4. UNCHANGED <<file, gone, outages>>
    BY <1>2 DEF Gains
  <2>5. Log!Accept(e)
    BY <2>1, <2>2, <2>3, <2>4 DEF Log!Accept
  <2> QED BY <2>5 DEF Log!Next
<1>3. ASSUME NEW b, NEW t, NEW L, Drains(b, t, L) PROVE [Log!Next]_(Log!vars)
  <2>1. b \in Log!SetToSeqs(ToSet(b))
    BY <1>3, BatchOrder DEF Drains
  <2>2. /\ ToSet(b) \cup L \subseteq Unwritten /\ ToSet(b) \cap L = {}
        /\ file' = (file \o b) \o t /\ t \in {<<>>, <<Cut>>}
        /\ gone' = gone \cup L
    BY <1>3 DEF Drains
  <2>3. Unwritten' = Unwritten \ (ToSet(b) \cup L)
    BY <1>3 DEF Drains, Unwritten
  <2>4. ToSet(order)' = ToSet(order)
    BY <1>3 DEF Drains
  <2>5. CASE outages' = outages + 1
    <3>1. PICK torn \in BOOLEAN : t = IF torn THEN <<Cut>> ELSE <<>>
      BY <2>2
    <3>2. Log!Outage(ToSet(b), L)
      BY <2>1, <2>2, <2>3, <2>4, <2>5, <3>1 DEF Log!Outage
    <3>3. ToSet(b) \in SUBSET Unwritten /\ L \in SUBSET (Unwritten \ ToSet(b))
      BY <2>2
    <3> QED BY <3>2, <3>3 DEF Log!Next
  <2>6. CASE outages' = outages /\ L = {} /\ t = <<>>
    <3>1. file \o b \in Seq(Entries \cup {Cut}) /\ file \o b = (file \o b) \o <<>>
      <4>1. b \in Seq(Entries) /\ file \in Seq(Entries \cup {Cut})
        BY <1>3 DEF Drains, TranscriptTypeOK
      <4>2. b \in Seq(Entries \cup {Cut})
        BY <4>1
      <4>3. file \o b \in Seq(Entries \cup {Cut})
        BY <4>1, <4>2, ConcatProperties
      <4> QED BY <4>3, ConcatEmptySeq
    <3>2. file' = file \o b /\ gone' = gone /\ Unwritten' = Unwritten \ ToSet(b)
      BY <2>2, <2>3, <2>6, <3>1
    <3>3. CASE ToSet(b) = {}
      <4>1. b = <<>>
        <5>1. b \in Seq(Entries) /\ DOMAIN b = 1..Len(b) /\ Len(b) \in Nat
          BY <1>3, LenProperties DEF Drains
        <5>2. 1 \notin DOMAIN b
          BY <3>3 DEF ToSet
        <5> QED BY <5>1, <5>2, EmptySeq
      <4>2. file' = file
        <5>1. file \in Seq(Entries \cup {Cut})
          BY DEF TranscriptTypeOK
        <5> QED BY <3>2, <4>1, <5>1, ConcatEmptySeq
      <4> QED BY <2>4, <2>6, <3>2, <3>3, <4>2 DEF Log!vars
    <3>4. CASE ToSet(b) # {}
      <4>1. Log!Write(ToSet(b))
        BY <2>1, <2>4, <2>6, <3>2 DEF Log!Write
      <4>2. ToSet(b) \in (SUBSET Unwritten) \ {{}}
        BY <2>2, <3>4
      <4> QED BY <4>1, <4>2 DEF Log!Next
    <3> QED BY <3>3, <3>4
  <2> QED BY <1>3, <2>5, <2>6 DEF Drains
<1> QED BY <1>1, <1>2, <1>3, PlacesStep

\* The transcript is the log of AppendLog: an entry comes into the file at most once, in a batch
\* that leaves what is there in its place, and only a crash or a short write loses one.
THEOREM LogKept == TranscriptSpec => KeepsLog
<1>1. TranscriptInit => Log!Init
  <2> SUFFICES ASSUME TranscriptInit PROVE Log!Init
    OBVIOUS
  <2>1. \A v \in Writers : InMemory(v) = {}
    BY ToSetNone DEF TranscriptInit, InMemory
  <2>2. Unwritten = {}
    BY <2>1 DEF Unwritten
  <2> QED BY <2>2, ToSetNone DEF TranscriptInit, Log!Init
<1>2. TranscriptIInv /\ [TranscriptNext]_transcriptVars => [Log!Next]_(Log!vars)
  <2> SUFFICES ASSUME TranscriptIInv, [TranscriptNext]_transcriptVars PROVE [Log!Next]_(Log!vars)
    OBVIOUS
  <2>1. CASE TranscriptNext
    BY <2>1, LogStep DEF TranscriptIInv
  <2>2. CASE UNCHANGED transcriptVars
    <3>1. UNCHANGED <<queue, flight, order, file, gone, outages>>
      BY <2>2 DEF transcriptVars, writer, history
    <3>2. UNCHANGED <<ToSet(order), Unwritten, file, gone, outages>>
      BY <3>1 DEF Unwritten, InMemory
    <3> QED BY <3>2 DEF Log!vars
  <2> QED BY <2>1, <2>2
<1> QED BY <1>1, <1>2, TranscriptInvariant, PTL DEF TranscriptSpec, KeepsLog, Log!Spec

-----------------------------------------------------------------------------
(* Transcript: those who read it *)

\* Nothing but the rest of a torn line is twice in q.
Once(q) == \A i, j \in DOMAIN q : q[i] = q[j] /\ q[i] # Cut => i = j

LEMMA OnceConcat ==
  ASSUME NEW S, NEW q \in Seq(S), NEW r \in Seq(S), Once(q), Once(r), ToSet(q) \cap ToSet(r) \subseteq {Cut}
  PROVE  Once(q \o r)
<1> DEFINE s == q \o r
<1>1. /\ s \in Seq(S) /\ Len(s) = Len(q) + Len(r) /\ Len(q) \in Nat /\ Len(r) \in Nat
      /\ DOMAIN s = 1..Len(q) + Len(r) /\ DOMAIN q = 1..Len(q) /\ DOMAIN r = 1..Len(r)
      /\ \A i \in 1..Len(q) + Len(r) : s[i] = IF i <= Len(q) THEN q[i] ELSE r[i - Len(q)]
  BY ConcatProperties, LenProperties
<1> HIDE DEF s
<1>2. ASSUME NEW i \in DOMAIN s
      PROVE  \/ i \in DOMAIN q /\ s[i] = q[i]
             \/ i > Len(q) /\ i - Len(q) \in DOMAIN r /\ s[i] = r[i - Len(q)]
  BY <1>1
<1>3. \A k \in DOMAIN q, l \in DOMAIN r : q[k] = r[l] => q[k] = Cut
  BY DEF ToSet
<1>4. ASSUME NEW i \in DOMAIN s, NEW j \in DOMAIN s, s[i] = s[j], s[i] # Cut PROVE i = j
  <2>1. CASE i \in DOMAIN q /\ s[i] = q[i]
    <3>1. j \in DOMAIN q /\ s[j] = q[j]
      BY <1>2, <1>3, <1>4, <2>1
    <3> QED BY <1>4, <2>1, <3>1 DEF Once
  <2>2. CASE i > Len(q) /\ i - Len(q) \in DOMAIN r /\ s[i] = r[i - Len(q)]
    <3>1. j - Len(q) \in DOMAIN r /\ s[j] = r[j - Len(q)]
      BY <1>2, <1>3, <1>4, <2>2
    <3>2. i - Len(q) = j - Len(q)
      BY <1>4, <2>2, <3>1 DEF Once
    <3> QED BY <1>1, <3>2
  <2> QED BY <1>2, <2>1, <2>2
<1> QED BY <1>4 DEF Once, s

\* What is put behind a sequence leaves what is in it in its place.
LEMMA ConcatKeeps ==
  ASSUME NEW S, NEW q \in Seq(S), NEW r \in Seq(S)
  PROVE  \A i \in DOMAIN q : i \in DOMAIN (q \o r) /\ (q \o r)[i] = q[i]
<1> DEFINE s == q \o r
<1>1. /\ s \in Seq(S) /\ Len(s) = Len(q) + Len(r) /\ Len(q) \in Nat /\ Len(r) \in Nat
      /\ DOMAIN s = 1..Len(q) + Len(r) /\ DOMAIN q = 1..Len(q)
      /\ \A i \in 1..Len(q) + Len(r) : s[i] = IF i <= Len(q) THEN q[i] ELSE r[i - Len(q)]
  BY ConcatProperties, LenProperties
<1> HIDE DEF s
<1>2. ASSUME NEW i \in DOMAIN q PROVE i \in DOMAIN s /\ s[i] = q[i]
  BY <1>1
<1> QED BY <1>2 DEF s

LEMMA DrainsOnce ==
  ASSUME TranscriptTypeOK, Located, NEW b, NEW t, NEW L, Drains(b, t, L)
  PROVE  /\ Once(file) => Once(file')
         /\ \A i \in DOMAIN file : i \in DOMAIN file' /\ file'[i] = file[i]
<1> DEFINE S == Entries \cup {Cut}
<1>1. b \in Seq(Entries) /\ Distinct(b) /\ t \in {<<>>, <<Cut>>} /\ file' = (file \o b) \o t
  BY DEF Drains
<1>2. b \in Seq(S) /\ file \in Seq(S) /\ <<>> \in Seq(S) /\ <<Cut>> \in Seq(S)
  BY <1>1 DEF TranscriptTypeOK
<1>3. t \in Seq(S) /\ ToSet(t) \subseteq {Cut} /\ Once(t)
  <2>1. Once(<<>>) /\ Once(<<Cut>>)
    BY DEF Once
  <2> QED BY <1>1, <1>2, <2>1, ToSetNone, ToSetOne
<1>4. \A e \in ToSet(b) : e \notin ToSet(file)
  <2>1. ToSet(b) \subseteq Unwritten
    BY DEF Drains
  <2> QED BY <2>1 DEF Located, Unwritten, Stored, OnFile
<1>5. Once(b)
  BY <1>1 DEF Distinct, Once
<1> HIDE DEF S
<1>6. PICK s \in Seq(S) : s = file \o b
  BY <1>2, ConcatProperties
<1>7. Once(file) => Once(s)
  BY <1>2, <1>4, <1>5, <1>6, OnceConcat
<1>8. Once(file) => Once(s \o t)
  BY <1>3, <1>6, <1>7, OnceConcat
<1>9. \A i \in DOMAIN file : i \in DOMAIN s /\ s[i] = file[i]
  BY <1>2, <1>6, ConcatKeeps
<1>10. \A i \in DOMAIN s : i \in DOMAIN (s \o t) /\ (s \o t)[i] = s[i]
  BY <1>3, <1>6, ConcatKeeps
<1>11. file' = s \o t
  BY <1>1, <1>6
<1> QED BY <1>8, <1>9, <1>10, <1>11

LEMMA FileStep ==
  ASSUME TranscriptIInv, [TranscriptNext]_transcriptVars
  PROVE  /\ Once(file) => Once(file')
         /\ \A i \in DOMAIN file : i \in DOMAIN file' /\ file'[i] = file[i]
<1>1. CASE UNCHANGED file
  BY <1>1
<1>2. CASE \E b, t, L : Drains(b, t, L)
  BY <1>2, DrainsOnce DEF TranscriptIInv, Places
<1>3. TranscriptNext => UNCHANGED file \/ \E b, t, L : Drains(b, t, L)
  <2>1. Rests => UNCHANGED file
    BY DEF Rests
  <2>2. \A w \in Writers, e \in Entries : Gains(w, e) => UNCHANGED file
    BY DEF Gains
  <2> QED BY <2>1, <2>2, PlacesStep DEF TranscriptIInv
<1> QED BY <1>1, <1>2, <1>3 DEF transcriptVars

\* Nobody who reads the transcript finds an entry in it twice: the batch of a write that failed
\* goes back to the queue, and none of it is in the file then.
THEOREM TranscriptReadOnce == TranscriptSpec => []Log!ReadOnce
<1>1. TranscriptInit => Once(file)
  BY DEF TranscriptInit, Once
<1>2. TranscriptIInv /\ Once(file) /\ [TranscriptNext]_transcriptVars => Once(file)'
  BY FileStep
<1>3. Once(file) => Log!ReadOnce
  BY DEF Once, Log!ReadOnce, Log!Readable
<1> QED BY <1>1, <1>2, <1>3, TranscriptInvariant, PTL DEF TranscriptSpec

\* What has been read from the transcript is read again at its place, by the next reader and by
\* the process that resumes the session: what is torn or lost later spoils none of it.
THEOREM TranscriptStaysReadable == TranscriptSpec => Log!StaysReadable
<1>1. TranscriptIInv /\ [TranscriptNext]_transcriptVars =>
        [\A i \in Log!Readable(file) : i \in Log!Readable(file') /\ file'[i] = file[i]]_(Log!vars)
  <2> SUFFICES ASSUME TranscriptIInv, [TranscriptNext]_transcriptVars, NEW i \in Log!Readable(file)
               PROVE  i \in Log!Readable(file') /\ file'[i] = file[i]
    OBVIOUS
  <2>1. i \in DOMAIN file /\ file[i] # Cut /\ (i > 1 => file[i - 1] # Cut)
    BY DEF Log!Readable
  <2>2. \A k \in DOMAIN file : k \in DOMAIN file' /\ file'[k] = file[k]
    BY FileStep
  <2>3. i > 1 => i - 1 \in DOMAIN file
    <3>1. DOMAIN file = 1..Len(file) /\ Len(file) \in Nat
      BY LenProperties DEF TranscriptIInv, TranscriptTypeOK
    <3> QED BY <2>1, <3>1
  <2> QED BY <2>1, <2>2, <2>3 DEF Log!Readable
<1> QED BY <1>1, TranscriptInvariant, PTL DEF TranscriptSpec, Log!StaysReadable

-----------------------------------------------------------------------------
(* Transcript: the order of the file *)

\* What a writer has, in the order in which it will write it.
Line(w) == flight[w] \o queue[w]

\* e was accepted before d.
Before(e, d) == \A k, l \in DOMAIN order : order[k] = e /\ order[l] = d => k < l
Sorted(q) == \A i, j \in DOMAIN q : i < j => Before(q[i], q[j])

\* The entries of one writer stand in the file in the order in which it was given them.
FileSorted ==
  \A i, j \in DOMAIN file :
    i < j /\ file[i] # Cut /\ file[j] # Cut /\ by[file[i]] = by[file[j]] => Before(file[i], file[j])

\* Every writer writes what it is given in the order in which it was given it.
InOrder ==
  /\ \A w \in Writers : Sorted(Line(w))
  /\ \A w \in Writers, d \in Entries : \A e \in ToSet(file) :
       d \in InMemory(w) /\ e # Cut /\ by[e] = w => Before(e, d)
  /\ FileSorted

LEMMA LineMemory ==
  ASSUME TranscriptTypeOK, NEW w \in Writers
  PROVE  Line(w) \in Seq(Entries) /\ ToSet(Line(w)) = InMemory(w)
<1>1. flight[w] \in Seq(Entries) /\ queue[w] \in Seq(Entries)
  BY MemoryTyped
<1>2. Line(w) \in Seq(Entries) /\ ToSet(Line(w)) = ToSet(flight[w]) \cup ToSet(queue[w])
  BY <1>1, ToSetConcat DEF Line
<1> QED BY <1>2 DEF InMemory

\* Two sorted sequences one behind the other.
LEMMA SortedConcat ==
  ASSUME NEW S, NEW q \in Seq(S), NEW r \in Seq(S)
  PROVE  Sorted(q \o r) <=> /\ Sorted(q) /\ Sorted(r)
                            /\ \A e \in ToSet(q), d \in ToSet(r) : Before(e, d)
<1> DEFINE s == q \o r
<1>1. /\ s \in Seq(S) /\ Len(s) = Len(q) + Len(r) /\ Len(q) \in Nat /\ Len(r) \in Nat
      /\ DOMAIN s = 1..Len(q) + Len(r) /\ DOMAIN q = 1..Len(q) /\ DOMAIN r = 1..Len(r)
      /\ \A i \in 1..Len(q) + Len(r) : s[i] = IF i <= Len(q) THEN q[i] ELSE r[i - Len(q)]
  BY ConcatProperties, LenProperties
<1> HIDE DEF s
<1>2. ASSUME NEW i \in DOMAIN s
      PROVE  \/ i \in DOMAIN q /\ s[i] = q[i]
             \/ i > Len(q) /\ i - Len(q) \in DOMAIN r /\ s[i] = r[i - Len(q)]
  BY <1>1
<1>3. \A i \in DOMAIN q : i \in DOMAIN s /\ s[i] = q[i]
  BY <1>1
<1>4. ASSUME NEW i \in DOMAIN r PROVE Len(q) + i \in DOMAIN s /\ s[Len(q) + i] = r[i] /\ Len(q) + i > Len(q)
  <2>1. ~(Len(q) + i <= Len(q)) /\ Len(q) + i - Len(q) = i /\ Len(q) + i \in 1..Len(q) + Len(r)
    BY <1>1
  <2> QED BY <1>1, <2>1
<1>5. ASSUME Sorted(s)
      PROVE  Sorted(q) /\ Sorted(r) /\ \A e \in ToSet(q), d \in ToSet(r) : Before(e, d)
  <2>1. Sorted(q)
    BY <1>3, <1>5 DEF Sorted
  <2>2. ASSUME NEW i \in DOMAIN r, NEW j \in DOMAIN r, i < j PROVE Before(r[i], r[j])
    <3>1. Len(q) + i < Len(q) + j
      BY <1>1, <2>2
    <3>2. Len(q) + i \in DOMAIN s /\ Len(q) + j \in DOMAIN s /\ s[Len(q) + i] = r[i] /\ s[Len(q) + j] = r[j]
      BY <1>4
    <3> QED BY <1>5, <3>1, <3>2 DEF Sorted
  <2>3. ASSUME NEW i \in DOMAIN q, NEW j \in DOMAIN r PROVE Before(q[i], r[j])
    <3>1. i < Len(q) + j
      BY <1>1
    <3>2. Len(q) + j \in DOMAIN s /\ s[Len(q) + j] = r[j] /\ i \in DOMAIN s /\ s[i] = q[i]
      BY <1>3, <1>4
    <3> QED BY <1>5, <3>1, <3>2 DEF Sorted
  <2> QED BY <2>1, <2>2, <2>3 DEF Sorted, ToSet
<1>6. ASSUME Sorted(q), Sorted(r), \A e \in ToSet(q), d \in ToSet(r) : Before(e, d)
      PROVE  Sorted(s)
  <2>1. \A i \in DOMAIN q, j \in DOMAIN r : Before(q[i], r[j])
    BY <1>6 DEF ToSet
  <2>2. ASSUME NEW i \in DOMAIN s, NEW j \in DOMAIN s, i < j PROVE Before(s[i], s[j])
    <3>1. CASE i \in DOMAIN q /\ s[i] = q[i] /\ j \in DOMAIN q /\ s[j] = q[j]
      BY <1>6, <2>2, <3>1 DEF Sorted
    <3>2. CASE i \in DOMAIN q /\ s[i] = q[i] /\ j - Len(q) \in DOMAIN r /\ s[j] = r[j - Len(q)]
      BY <2>1, <3>2
    <3>3. CASE /\ i > Len(q) /\ i - Len(q) \in DOMAIN r /\ s[i] = r[i - Len(q)]
               /\ j - Len(q) \in DOMAIN r /\ s[j] = r[j - Len(q)]
      <4>1. i - Len(q) < j - Len(q)
        BY <1>1, <2>2
      <4> QED BY <1>6, <3>3, <4>1 DEF Sorted
    <3>4. ~(i > Len(q) /\ j \in DOMAIN q)
      BY <1>1, <2>2
    <3> QED BY <1>2, <3>1, <3>2, <3>3, <3>4
  <2> QED BY <2>2 DEF Sorted
<1> QED BY <1>5, <1>6 DEF s

\* What a step does to the lines: nothing, an entry at the end of one, or a batch from the front
\* of one to the file.
LineGains(w, e) ==
  /\ Line(w)' = Append(Line(w), e)
  /\ \A v \in Writers \ {w} : Line(v)' = Line(v)

LineDrains(w, b, L) ==
  /\ ToSet(b) \subseteq ToSet(flight[w]) /\ (Sorted(flight[w]) => Sorted(b))
  /\ ToSet(flight[w]) \subseteq ToSet(b) \cup L
  /\ \A v \in Writers : \/ Line(v)' = Line(v)
                        \/ Line(v)' = queue[v]
                        \/ Line(v)' = <<>>

LEMMA ResumeLine ==
  ASSUME TranscriptTypeOK, NEW w \in Writers, Resume(w)
  PROVE  \A v \in Writers : Line(v)' = Line(v) \/ Line(v)' = queue[v]
<1>1. \A v \in Writers : Line(v)' = flight'[v] \o queue'[v] /\ queue[v] \in Seq(Entries)
  BY MemoryTyped DEF Line
<1>2. \/ \A v \in Writers : /\ queue'[v] = IF v = w THEN <<>> ELSE queue[v]
                            /\ flight'[v] = IF v = w THEN queue[w] ELSE flight[v]
      \/ \A v \in Writers : queue'[v] = queue[v] /\ flight'[v] = IF v = w THEN <<>> ELSE flight[v]
  BY DEF Resume, StartWrite, TranscriptTypeOK
<1> QED BY <1>1, <1>2, ConcatEmptySeq DEF Line

LEMMA StartWriteLine ==
  ASSUME TranscriptTypeOK, NEW w \in Writers, NEW o, StartWrite(w, o), flight[w] = <<>>
  PROVE  \A v \in Writers : Line(v)' = Line(v)
<1>1. \A v \in Writers : Line(v)' = flight'[v] \o queue'[v] /\ queue[v] \in Seq(Entries)
  BY MemoryTyped DEF Line
<1>2. \A v \in Writers : /\ queue'[v] = IF v = w THEN <<>> ELSE queue[v]
                         /\ flight'[v] = IF v = w THEN queue[w] ELSE flight[v]
  BY DEF StartWrite, TranscriptTypeOK
<1> QED BY <1>1, <1>2, ConcatEmptySeq DEF Line

LEMMA AppendConcat ==
  ASSUME NEW q \in Seq(Entries), NEW r \in Seq(Entries), NEW m \in Entries
  PROVE  Append(q \o r, m) = q \o Append(r, m)
<1>0. <<m>> \in Seq(Entries)
  OBVIOUS
<1>1. PICK o \in Seq(Entries) : o = <<m>>
  BY <1>0
<1>2. q \o r \in Seq(Entries)
  BY ConcatProperties
<1>3. Append(q \o r, m) = (q \o r) \o o /\ Append(r, m) = r \o o
  BY <1>1, <1>2, AppendIsConcat
<1>4. (q \o r) \o o = q \o (r \o o)
  BY ConcatAssociative
<1> QED BY <1>3, <1>4

LEMMA WriteLine ==
  ASSUME TranscriptTypeOK, NEW w \in Writers, NEW e \in Entries, Write(w, e)
  PROVE  LineGains(w, e)
<1>1. /\ queue[w] \in Seq(Entries) /\ flight[w] \in Seq(Entries)
      /\ Append(queue[w], e) = queue[w] \o <<e>> /\ <<e>> \in Seq(Entries) /\ Append(queue[w], e) \in Seq(Entries)
  BY MemoryTyped, AppendIsConcat, AppendProperties
<1>2. Append(Line(w), e) = flight[w] \o Append(queue[w], e)
  <2>1. PICK q \in Seq(Entries), r \in Seq(Entries) : q = flight[w] /\ r = queue[w]
    BY <1>1
  <2>2. Append(q \o r, e) = q \o Append(r, e)
    BY AppendConcat
  <2> QED BY <2>1, <2>2 DEF Line
<1>3. \A v \in Writers : Line(v)' = flight'[v] \o queue'[v]
  BY DEF Line
<1>4. \/ /\ queue' = [queue EXCEPT ![w] = Append(queue[w], e)] /\ flight' = flight
      \/ /\ flight[w] = <<>>
         /\ flight' = [flight EXCEPT ![w] = Append(queue[w], e)] /\ queue' = [queue EXCEPT ![w] = <<>>]
  BY DEF Write, WriteFull
<1>5. CASE queue' = [queue EXCEPT ![w] = Append(queue[w], e)] /\ flight' = flight
  <2>1. \A v \in Writers : /\ queue'[v] = IF v = w THEN Append(queue[w], e) ELSE queue[v]
                           /\ flight'[v] = flight[v]
    BY <1>5 DEF TranscriptTypeOK
  <2> QED BY <1>2, <1>3, <2>1 DEF LineGains, Line
<1>6. CASE /\ flight[w] = <<>>
           /\ flight' = [flight EXCEPT ![w] = Append(queue[w], e)] /\ queue' = [queue EXCEPT ![w] = <<>>]
  <2>1. \A v \in Writers : /\ queue'[v] = IF v = w THEN <<>> ELSE queue[v]
                           /\ flight'[v] = IF v = w THEN Append(queue[w], e) ELSE flight[v]
    BY <1>6 DEF TranscriptTypeOK
  <2>2. Line(w)' = Append(queue[w], e) \o <<>> /\ Append(Line(w), e) = <<>> \o Append(queue[w], e)
    BY <1>2, <1>3, <1>6, <2>1
  <2>3. Line(w)' = Append(Line(w), e)
    BY <1>1, <2>2, ConcatEmptySeq
  <2> QED BY <1>3, <2>1, <2>3 DEF LineGains, Line
<1> QED BY <1>4, <1>5, <1>6

LEMMA PrefixSorted ==
  ASSUME NEW S, NEW q \in Seq(S), NEW n \in Nat, n <= Len(q), Sorted(q)
  PROVE  Sorted(SubSeq(q, 1, n))
<1>1. 1 \in 1..Len(q) + 1 /\ n \in 0..Len(q)
  BY LenProperties
<1>2. PICK p : p = SubSeq(q, 1, n)
  OBVIOUS
<1>3. p \in Seq(S) /\ \A i \in 1..Len(p) : i + 1 - 1 \in DOMAIN q /\ p[i] = q[i + 1 - 1]
  BY <1>1, <1>2, PartTyped
<1>4. DOMAIN p = 1..Len(p) /\ Len(p) \in Nat
  BY <1>3, LenProperties
<1>5. \A i \in DOMAIN p : i \in DOMAIN q /\ p[i] = q[i]
  <2>1. \A i \in 1..Len(p) : i + 1 - 1 = i
    BY <1>4
  <2> QED BY <1>3, <1>4, <2>1
<1> QED BY <1>2, <1>5 DEF Sorted

LEMMA LinesStep ==
  ASSUME TranscriptTypeOK, Places, TranscriptNext
  PROVE  \/ Rests /\ \A v \in Writers : Line(v)' = Line(v)
         \/ \E w \in Writers, e \in Entries : Gains(w, e) /\ LineGains(w, e)
         \/ \E w \in Writers : \E b, t, L : Drains(b, t, L) /\ LineDrains(w, b, L)
<1>1. ASSUME NEW w \in Writers, NEW e \in Entries, Write(w, e), app[e] # "written"
      PROVE  Gains(w, e) /\ LineGains(w, e)
  BY <1>1, WriteGains, WriteLine
<1>2. ASSUME NEW e \in Entries, Appends(e)
      PROVE  \/ Rests /\ \A v \in Writers : Line(v)' = Line(v)
             \/ \E w \in Writers : Gains(w, e) /\ LineGains(w, e)
  <2>1. CASE AppendEntry(e)
    <3>1. current \in Writers /\ Write(current, e) /\ app[e] # "written"
      BY <2>1 DEF AppendEntry, TranscriptTypeOK
    <3> QED BY <1>1, <3>1
  <2>2. CASE Opened(e)
    <3>1. Write(e, e) /\ app[e] # "written" /\ e \in Writers
      BY <2>2 DEF Opened, Writers
    <3> QED BY <1>1, <3>1
  <2>3. CASE Open(e) \/ OpenFails(e)
    <3>1. UNCHANGED <<queue, flight, order>>
      BY <2>3 DEF Open, OpenFails, writer, history
    <3>2. \A v \in Writers : Line(v)' = Line(v)
      BY <3>1 DEF Line
    <3>3. app'[e] # "written"
      BY <2>3 DEF Open, OpenFails, TranscriptTypeOK
    <3>4. \A w \in Writers : ~Gains(w, e)
      BY <3>3 DEF Gains, TranscriptTypeOK
    <3> QED BY <1>2, <3>2, <3>4, AppendsPlaces DEF Appends
  <2> QED BY <1>2, <2>1, <2>2, <2>3 DEF Appends
<1>3. ASSUME NEW w \in Writers, Writes(w)
      PROVE  \/ Rests /\ \A v \in Writers : Line(v)' = Line(v)
             \/ \E b, t, L : Drains(b, t, L) /\ LineDrains(w, b, L)
  <2>1. CASE TimerFires(w)
    <3>1. \A v \in Writers : Line(v)' = Line(v)
      <4>1. CASE flight[w] = <<>> /\ queue[w] # <<>>
        BY <2>1, <4>1, StartWriteLine DEF TimerFires
      <4>2. CASE ~(flight[w] = <<>> /\ queue[w] # <<>>)
        BY <2>1, <4>2 DEF TimerFires, Line
      <4> QED BY <4>1, <4>2
    <3>2. UNCHANGED <<app, by, order, file, gone, outages>>
      BY <2>1 DEF TimerFires, history
    <3>3. \A v \in Writers : InMemory(v)' = InMemory(v)
      <4>1. CASE flight[w] = <<>> /\ queue[w] # <<>>
        BY <2>1, <4>1, StartWriteMemory DEF TimerFires, Places
      <4>2. CASE ~(flight[w] = <<>> /\ queue[w] # <<>>)
        BY <2>1, <4>2 DEF TimerFires, InMemory
      <4> QED BY <4>1, <4>2
    <3> QED BY <3>1, <3>2, <3>3 DEF Rests
  <2>2. CASE WriteEnds(w)
    <3>1. Drains(flight[w], <<>>, {}) /\ \A v \in Writers : Line(v)' = Line(v) \/ Line(v)' = queue[v]
      BY <2>2, WriteEndsPlaces, ResumeLine DEF WriteEnds
    <3>2. LineDrains(w, flight[w], {})
      BY <3>1 DEF LineDrains
    <3> QED BY <3>1, <3>2
  <2>3. CASE WriteFails(w)
    <3>1. \A v \in Writers : /\ queue'[v] = IF v = w THEN flight[w] \o queue[w] ELSE queue[v]
                             /\ flight'[v] = IF v = w THEN <<>> ELSE flight[v]
      BY <2>3 DEF WriteFails, TranscriptTypeOK
    <3>2. \A v \in Writers : Line(v)' = flight'[v] \o queue'[v] /\ Line(v) \in Seq(Entries)
      BY LineMemory DEF Line
    <3>3. \A v \in Writers : Line(v)' = Line(v)
      <4>1. Line(w)' = <<>> \o Line(w)
        BY <3>1, <3>2 DEF Line
      <4>2. Line(w)' = Line(w)
        BY <3>2, <4>1, ConcatEmptySeq
      <4>3. \A v \in Writers \ {w} : Line(v)' = Line(v)
        BY <3>1, <3>2 DEF Line
      <4> QED BY <4>2, <4>3
    <3>4. UNCHANGED <<app, by, order, file, gone, outages>>
      BY <2>3 DEF WriteFails
    <3>5. \A v \in Writers : InMemory(v)' = InMemory(v)
      <4>1. \A v \in Writers : ToSet(Line(v)) = InMemory(v)
        BY LineMemory
      <4>2. \A v \in Writers : ToSet(flight[v] \o queue[v]) = ToSet(flight[v]) \cup ToSet(queue[v])
        BY <4>1 DEF Line, InMemory
      <4>3. \A v \in Writers : InMemory(v)' = ToSet(queue'[v]) \cup ToSet(flight'[v])
        BY DEF InMemory
      <4> QED BY <3>1, <4>2, <4>3, ToSetNone DEF InMemory
    <3> QED BY <3>3, <3>4, <3>5 DEF Rests
  <2> QED BY <1>3, <2>1, <2>2, <2>3 DEF Writes
<1>4. ASSUME NEW f \in Flushers, Flush(f) PROVE Rests /\ \A v \in Writers : Line(v)' = Line(v)
  <2>1. current \in Writers
    BY <1>4 DEF Flush, TranscriptTypeOK
  <2>2. CASE UNCHANGED <<queue, flight>>
    BY <1>4, <2>2, FlushPlaces DEF Line
  <2>3. CASE flight[current] = <<>> /\ StartWrite(current, f)
    BY <1>4, <2>1, <2>3, FlushPlaces, StartWriteLine
  <2>4. UNCHANGED <<queue, flight>> \/ (flight[current] = <<>> /\ StartWrite(current, f))
    BY <1>4 DEF Flush
  <2> QED BY <2>2, <2>3, <2>4
<1>5. ASSUME NEW w \in Writers, NEW n \in Nat, NEW cut \in BOOLEAN, Breaks(w, n, cut)
      PROVE  \E b, t, L : Drains(b, t, L) /\ LineDrains(w, b, L)
  <2>1. PICK b, t, L : /\ Drains(b, t, L) /\ ToSet(flight[w]) \subseteq ToSet(b) \cup L
                       /\ b = SubSeq(flight[w], 1, n)
    BY <1>5, BreaksPlaces
  <2>2. flight[w] \in Seq(Entries) /\ n <= Len(flight[w])
    <3>1. flight[w] \in Seq(Entries) /\ Len(flight[w]) \in Nat
      BY MemoryTyped, LenProperties
    <3>2. n < Len(flight[w]) \/ n <= Len(flight[w])
      BY <1>5 DEF Breaks, WriteShort, Killed
    <3> QED BY <3>1, <3>2
  <2>3. ToSet(b) \subseteq ToSet(flight[w]) /\ (Sorted(flight[w]) => Sorted(b))
    BY <2>1, <2>2, PrefixKeeps, PrefixSorted
  <2>4. \A v \in Writers : Line(v)' = Line(v) \/ Line(v)' = queue[v] \/ Line(v)' = <<>>
    <3>1. CASE WriteShort(w, n, cut)
      BY <3>1, ResumeLine DEF WriteShort
    <3>2. CASE Killed(w, n, cut)
      <4>1. \A v \in Writers : Line(v)' = flight'[v] \o queue'[v]
        BY DEF Line
      <4>2. \A v \in Writers : flight'[v] = <<>> /\ queue'[v] = <<>>
        BY <3>2 DEF Killed
      <4>3. <<>> \o <<>> = <<>>
        BY EmptySeq, ConcatEmptySeq
      <4> QED BY <4>1, <4>2, <4>3
    <3> QED BY <1>5, <3>1, <3>2 DEF Breaks
  <2>5. LineDrains(w, b, L)
    BY <2>1, <2>3, <2>4 DEF LineDrains
  <2> QED BY <2>1, <2>5
<1> QED BY <1>2, <1>3, <1>4, <1>5, TranscriptCases

LEMMA InOrderKept ==
  ASSUME InOrder, UNCHANGED <<by, order, file>>,
         \A v \in Writers : InMemory(v)' = InMemory(v) /\ Line(v)' = Line(v)
  PROVE  InOrder'
<1>1. \A v \in Writers : Sorted(Line(v))'
  <2> SUFFICES ASSUME NEW v \in Writers PROVE Sorted(Line(v))'
    OBVIOUS
  <2>1. PICK q : q = Line(v)
    OBVIOUS
  <2>2. Sorted(q)
    BY <2>1 DEF InOrder
  <2>3. Sorted(q)' <=> Sorted(q)
    BY DEF Sorted, Before
  <2>4. Line(v)' = q
    BY <2>1
  <2> QED BY <2>2, <2>3, <2>4 DEF Sorted
<1> QED BY <1>1 DEF InOrder, FileSorted, Before

LEMMA InOrderStep ==
  ASSUME TranscriptTypeOK, Places, InOrder, TranscriptNext
  PROVE  InOrder'
<1>1. CASE Rests /\ \A v \in Writers : Line(v)' = Line(v)
  <2>1. UNCHANGED <<by, order, file>> /\ \A v \in Writers : InMemory(v)' = InMemory(v)
    BY <1>1 DEF Rests
  <2> QED BY <1>1, <2>1, InOrderKept
<1>2. ASSUME NEW w \in Writers, NEW e \in Entries, Gains(w, e), LineGains(w, e) PROVE InOrder'
  <2>1. /\ order' = Append(order, e) /\ file' = file /\ by' = [by EXCEPT ![e] = w]
        /\ app[e] # "written"
    BY <1>2 DEF Gains
  <2>2. e \notin ToSet(order) /\ \A v \in Writers : e \notin InMemory(v)
    BY <2>1 DEF Places, Located, Recorded
  <2>3. e \notin ToSet(file)
    BY <2>1 DEF Places, Recorded, Stored, OnFile
  <2>4. /\ order \in Seq(Entries) /\ DOMAIN order = 1..Len(order) /\ Len(order) \in Nat
        /\ DOMAIN order' = 1..Len(order) + 1
        /\ \A k \in 1..Len(order) : order'[k] = order[k]
        /\ order'[Len(order) + 1] = e
    <3>1. order \in Seq(Entries)
      BY DEF TranscriptTypeOK
    <3>2. Append(order, e) \in Seq(Entries) /\ Len(Append(order, e)) = Len(order) + 1
      BY <3>1, AppendProperties
    <3>3. DOMAIN Append(order, e) = 1..Len(Append(order, e)) /\ DOMAIN order = 1..Len(order) /\ Len(order) \in Nat
      BY <3>1, <3>2, LenProperties
    <3> QED BY <2>1, <3>1, <3>2, <3>3, AppendProperties
  <2>5. \A k \in 1..Len(order) : order[k] # e
    BY <2>2, <2>4 DEF ToSet
  \* What is true of two entries stays true, and the new one comes after all others.
  <2>6. ASSUME NEW c, NEW d, Before(c, d), c # e, d # e PROVE Before(c, d)'
    <3>1. ASSUME NEW k \in DOMAIN order', NEW l \in DOMAIN order', order'[k] = c, order'[l] = d PROVE k < l
      <4>1. k \in DOMAIN order /\ l \in DOMAIN order /\ order[k] = c /\ order[l] = d
        BY <2>4, <2>6, <3>1
      <4> QED BY <2>6, <4>1 DEF Before
    <3> QED BY <3>1 DEF Before
  <2>7. ASSUME NEW c, c # e PROVE Before(c, e)'
    <3>1. ASSUME NEW k \in DOMAIN order', NEW l \in DOMAIN order', order'[k] = c, order'[l] = e PROVE k < l
      <4>1. k \in 1..Len(order)
        BY <2>4, <2>7, <3>1
      <4>2. l = Len(order) + 1
        BY <2>4, <2>5, <3>1
      <4> QED BY <2>4, <4>1, <4>2
    <3> QED BY <3>1 DEF Before
  <2>8. ASSUME NEW v \in Writers PROVE Sorted(Line(v))'
    <3>1. PICK q \in Seq(Entries) : q = Line(v) /\ ToSet(q) = InMemory(v)
      BY LineMemory
    <3>2. Sorted(q) /\ DOMAIN q = 1..Len(q) /\ Len(q) \in Nat /\ \A i \in DOMAIN q : q[i] # e
      <4>1. e \notin ToSet(q)
        BY <2>2, <3>1
      <4> QED BY <3>1, <4>1, LenProperties DEF InOrder, ToSet
    <3>3. \A i, j \in DOMAIN q : i < j => Before(q[i], q[j])'
      BY <2>6, <3>2 DEF Sorted
    <3>4. CASE v # w
      <4>1. Line(v)' = q
        BY <1>2, <3>1, <3>4 DEF LineGains
      <4> QED BY <3>3, <4>1 DEF Sorted
    <3>5. CASE v = w
      <4>1. PICK p : p = Append(q, e)
        OBVIOUS
      <4>2. Line(v)' = p
        BY <1>2, <3>1, <3>5, <4>1 DEF LineGains
      <4>3. /\ DOMAIN p = 1..Len(q) + 1 /\ \A i \in 1..Len(q) : p[i] = q[i]
            /\ p[Len(q) + 1] = e
        <5>1. p \in Seq(Entries) /\ Len(p) = Len(q) + 1
          BY <3>1, <4>1, AppendProperties
        <5> QED BY <3>1, <3>2, <4>1, <5>1, AppendProperties, LenProperties
      <4>4. ASSUME NEW i \in DOMAIN p, NEW j \in DOMAIN p, i < j PROVE Before(p[i], p[j])'
        <5>1. i \in DOMAIN q /\ p[i] = q[i] /\ q[i] # e
          BY <3>2, <4>3, <4>4
        <5>2. CASE j \in DOMAIN q
          <6>1. p[j] = q[j]
            BY <3>2, <4>3, <5>2
          <6> QED BY <3>3, <4>4, <5>1, <5>2, <6>1
        <5>3. CASE j = Len(q) + 1
          <6>1. p[j] = e
            BY <4>3, <5>3
          <6> QED BY <2>7, <5>1, <6>1
        <5> QED BY <3>2, <4>3, <5>2, <5>3
      <4> QED BY <4>2, <4>4 DEF Sorted
    <3> QED BY <3>4, <3>5
  <2>9. \A c \in ToSet(file) : c # e /\ c \in Entries \cup {Cut}
    BY <2>3, ElementsTyped DEF TranscriptTypeOK
  <2>10. \A c \in Entries : c # e => by'[c] = by[c]
    BY <2>1 DEF TranscriptTypeOK
  <2>11. ASSUME NEW v \in Writers, NEW d \in Entries, NEW c \in ToSet(file),
                d \in InMemory(v)', c # Cut, by'[c] = v
         PROVE  Before(c, d)'
    <3>1. c \in Entries /\ c # e /\ by[c] = v
      BY <2>9, <2>10, <2>11
    <3>2. CASE d = e
      BY <2>7, <3>1, <3>2
    <3>3. CASE d # e
      <4>1. d \in InMemory(v)
        BY <1>2, <2>11, <3>3 DEF Gains
      <4>2. Before(c, d)
        BY <2>11, <3>1, <4>1 DEF InOrder
      <4> QED BY <2>6, <3>1, <3>3, <4>2
    <3> QED BY <3>2, <3>3
  <2>12. FileSorted'
    <3> SUFFICES ASSUME NEW i \in DOMAIN file', NEW j \in DOMAIN file',
                        i < j, file'[i] # Cut, file'[j] # Cut, by'[file'[i]] = by'[file'[j]]
                 PROVE  Before(file[i], file[j])'
      BY DEF FileSorted
    <3>0. i \in DOMAIN file /\ j \in DOMAIN file /\ file'[i] = file[i] /\ file'[j] = file[j]
      BY <2>1
    <3>1. file[i] \in ToSet(file) /\ file[j] \in ToSet(file)
      BY <3>0 DEF ToSet
    <3>2. by[file[i]] = by[file[j]] /\ file[i] # e /\ file[j] # e
      BY <2>9, <2>10, <3>0, <3>1
    <3>3. Before(file[i], file[j])
      BY <3>0, <3>2 DEF InOrder, FileSorted
    <3>4. PICK c, d : c = file[i] /\ d = file[j] /\ c = file'[i] /\ d = file'[j]
      BY <3>0
    <3>5. Before(c, d)'
      BY <2>6, <3>2, <3>3, <3>4
    <3> QED BY <3>4, <3>5 DEF Before
  <2> QED BY <2>1, <2>8, <2>11, <2>12 DEF InOrder
<1>3. ASSUME NEW w \in Writers, NEW b, NEW t, NEW L, Drains(b, t, L), LineDrains(w, b, L) PROVE InOrder'
  <2>1. /\ b \in Seq(Entries) /\ t \in {<<>>, <<Cut>>} /\ file' = (file \o b) \o t
        /\ UNCHANGED <<by, order>>
        /\ \A v \in Writers : InMemory(v)' = InMemory(v) \ (ToSet(b) \cup L)
    BY <1>3 DEF Drains
  <2>2. \A c, d : Before(c, d)' <=> Before(c, d)
    BY <2>1 DEF Before
  <2>3. ASSUME NEW v \in Writers
        PROVE  /\ Sorted(flight[v]) /\ Sorted(queue[v])
               /\ \A c \in ToSet(flight[v]), d \in ToSet(queue[v]) : Before(c, d)
    <3>1. Sorted(flight[v] \o queue[v])
      BY DEF InOrder, Line
    <3>2. PICK q \in Seq(Entries), r \in Seq(Entries) : q = flight[v] /\ r = queue[v]
      BY MemoryTyped
    <3> QED BY <3>1, <3>2, SortedConcat
  <2>4. ASSUME NEW v \in Writers PROVE Sorted(Line(v))'
    <3>1. Sorted(<<>>)
      BY DEF Sorted
    <3>2. PICK q : q \in {Line(v), queue[v], <<>>} /\ Line(v)' = q
      BY <1>3 DEF LineDrains
    <3>3. Sorted(q)
      BY <2>3, <3>1, <3>2 DEF InOrder
    <3> QED BY <2>2, <3>2, <3>3 DEF Sorted
  <2>5. /\ ToSet(b) \subseteq ToSet(flight[w]) /\ ToSet(b) \subseteq Entries /\ Sorted(b)
        /\ \A c \in ToSet(b) : by[c] = w /\ c # Cut
        /\ \A v \in Writers : InMemory(v)' \subseteq InMemory(v)
        /\ InMemory(w)' \subseteq ToSet(queue[w])
    <3>1. ToSet(b) \subseteq ToSet(flight[w]) /\ Sorted(b) /\ ToSet(flight[w]) \subseteq ToSet(b) \cup L
      BY <1>3, <2>3 DEF LineDrains
    <3>2. ToSet(b) \subseteq InMemory(w) /\ ToSet(b) \subseteq Entries
      BY <3>1, MemoryTyped DEF InMemory
    <3>3. \A c \in ToSet(b) : by[c] = w /\ c # Cut
      BY <3>2, TranscriptAssumption DEF Places, Located
    <3>4. InMemory(w)' \subseteq ToSet(queue[w])
      BY <2>1, <3>1 DEF InMemory
    <3> QED BY <2>1, <3>1, <3>2, <3>3, <3>4
  <2>6. ToSet(t) \subseteq {Cut} /\ ToSet(file') = ToSet(file) \cup ToSet(b) \cup ToSet(t)
    BY <1>3, <2>1, DrainsFile, ToSetNone, ToSetOne
  <2>7. ASSUME NEW v \in Writers, NEW d \in Entries, NEW c \in ToSet(file'),
               d \in InMemory(v)', c # Cut, by[c] = v
        PROVE  Before(c, d)
    <3>1. CASE c \in ToSet(file)
      BY <2>5, <2>7, <3>1 DEF InOrder
    <3>2. CASE c \in ToSet(b)
      <4>1. v = w /\ c \in ToSet(flight[w]) /\ d \in ToSet(queue[w])
        BY <2>5, <2>7, <3>2
      <4> QED BY <2>3, <4>1
    <3> QED BY <2>6, <2>7, <3>1, <3>2
  <2>8. FileSorted'
    <3> DEFINE Rises(q) == \A i, j \in DOMAIN q :
                 i < j /\ q[i] # Cut /\ q[j] # Cut /\ by[q[i]] = by[q[j]] => Before(q[i], q[j])
    <3>1. ASSUME NEW S, NEW q \in Seq(S), NEW r \in Seq(S), Rises(q), Rises(r),
                 \A c \in ToSet(q), d \in ToSet(r) : c # Cut /\ d # Cut /\ by[c] = by[d] => Before(c, d)
          PROVE  Rises(q \o r)
      <4> DEFINE s == q \o r
      <4>1. /\ Len(s) = Len(q) + Len(r) /\ Len(q) \in Nat /\ Len(r) \in Nat
            /\ DOMAIN s = 1..Len(q) + Len(r) /\ DOMAIN q = 1..Len(q) /\ DOMAIN r = 1..Len(r)
            /\ \A i \in 1..Len(q) + Len(r) : s[i] = IF i <= Len(q) THEN q[i] ELSE r[i - Len(q)]
        BY ConcatProperties, LenProperties
      <4> HIDE DEF s
      <4>2. ASSUME NEW i \in DOMAIN s
            PROVE  \/ i \in DOMAIN q /\ s[i] = q[i]
                   \/ i > Len(q) /\ i - Len(q) \in DOMAIN r /\ s[i] = r[i - Len(q)]
        BY <4>1
      <4>3. \A i \in DOMAIN q, j \in DOMAIN r :
              q[i] # Cut /\ r[j] # Cut /\ by[q[i]] = by[r[j]] => Before(q[i], r[j])
        BY <3>1 DEF ToSet
      <4>4. ASSUME NEW i \in DOMAIN s, NEW j \in DOMAIN s,
                   i < j, s[i] # Cut, s[j] # Cut, by[s[i]] = by[s[j]]
            PROVE  Before(s[i], s[j])
        <5>1. CASE i \in DOMAIN q /\ s[i] = q[i] /\ j \in DOMAIN q /\ s[j] = q[j]
          BY <3>1, <4>4, <5>1
        <5>2. CASE i \in DOMAIN q /\ s[i] = q[i] /\ j - Len(q) \in DOMAIN r /\ s[j] = r[j - Len(q)]
          BY <4>3, <4>4, <5>2
        <5>3. CASE /\ i > Len(q) /\ i - Len(q) \in DOMAIN r /\ s[i] = r[i - Len(q)]
                   /\ j - Len(q) \in DOMAIN r /\ s[j] = r[j - Len(q)]
          <6>1. i - Len(q) < j - Len(q)
            BY <4>1, <4>4
          <6> QED BY <3>1, <4>4, <5>3, <6>1
        <5>4. ~(i > Len(q) /\ j \in DOMAIN q)
          BY <4>1, <4>4
        <5> QED BY <4>2, <5>1, <5>2, <5>3, <5>4
      <4> QED BY <4>4 DEF s
    <3>2. Rises(file) /\ Rises(b) /\ Rises(t)
      <4>1. Rises(file)
        BY DEF InOrder, FileSorted
      <4>2. Rises(b)
        BY <2>5 DEF Sorted
      <4>3. \A i \in DOMAIN t : t[i] = Cut
        BY <2>6 DEF ToSet
      <4> QED BY <4>1, <4>2, <4>3
    <3>3. \A c \in ToSet(file), d \in ToSet(b) : c # Cut /\ d # Cut /\ by[c] = by[d] => Before(c, d)
      <4>1. \A d \in ToSet(b) : d \in InMemory(w) /\ by[d] = w /\ d \in Entries
        BY <2>5 DEF InMemory
      <4> QED BY <4>1 DEF InOrder
    <3>4. \A c \in ToSet(file) \cup ToSet(b), d \in ToSet(t) : d = Cut
      BY <2>6
    <3> HIDE DEF Rises
    <3>5. PICK S : S = Entries \cup {Cut}
      OBVIOUS
    <3>6. file \in Seq(S) /\ b \in Seq(S) /\ t \in Seq(S)
      <4>1. Cut \in S /\ Entries \subseteq S
        BY <3>5
      <4>2. <<>> \in Seq(S) /\ <<Cut>> \in Seq(S)
        BY <4>1
      <4>3. t \in Seq(S)
        BY <2>1, <4>2
      <4>4. file \in Seq(S)
        BY <3>5 DEF TranscriptTypeOK
      <4>5. b \in Seq(S)
        <5>1. b \in Seq(Entries)
          BY <2>1
        <5> QED BY <4>1, <5>1
      <4> QED BY <4>3, <4>4, <4>5
    <3>7. PICK s \in Seq(S) : s = file \o b /\ ToSet(s) = ToSet(file) \cup ToSet(b)
      BY <3>6, ToSetConcat
    <3>8. Rises(s)
      BY <3>1, <3>2, <3>3, <3>6, <3>7
    <3>9. Rises(s \o t)
      BY <3>1, <3>2, <3>4, <3>6, <3>7, <3>8
    <3>10. PICK f \in Seq(S) : f = s \o t /\ file' = f
      BY <2>1, <3>6, <3>7, ConcatProperties
    <3>11. \A i, j \in DOMAIN f :
             i < j /\ f[i] # Cut /\ f[j] # Cut /\ by[f[i]] = by[f[j]] => Before(f[i], f[j])
      BY <3>9, <3>10 DEF Rises
    <3> QED BY <2>1, <2>2, <3>10, <3>11 DEF FileSorted
  <2> QED BY <2>1, <2>2, <2>4, <2>7, <2>8 DEF InOrder
<1> QED BY <1>1, <1>2, <1>3, LinesStep

\* The file has what one writer was given in the order in which it was given, though batches that
\* fail go back behind what was queued, the disk takes parts of them and processes die: a session
\* that is resumed reads its messages in the order of the conversation.
THEOREM TranscriptInOrder == TranscriptSpec => []FileSorted
<1>1. TranscriptInit => InOrder
  <2> SUFFICES ASSUME TranscriptInit PROVE InOrder
    OBVIOUS
  <2>1. \A v \in Writers : Line(v) = <<>> \o <<>>
    BY DEF TranscriptInit, Line
  <2>2. <<>> \o <<>> = <<>>
    BY EmptySeq, ConcatEmptySeq
  <2>3. \A v \in Writers : Sorted(Line(v))
    BY <2>1, <2>2 DEF Sorted
  <2> QED BY <2>3, ToSetNone DEF TranscriptInit, InOrder, FileSorted
<1>2. TranscriptIInv /\ InOrder /\ [TranscriptNext]_transcriptVars => InOrder'
  <2> SUFFICES ASSUME TranscriptIInv, InOrder, [TranscriptNext]_transcriptVars PROVE InOrder'
    OBVIOUS
  <2>1. CASE TranscriptNext
    BY <2>1, InOrderStep DEF TranscriptIInv
  <2>2. CASE UNCHANGED transcriptVars
    <3>1. UNCHANGED <<by, order, file>> /\ \A v \in Writers : InMemory(v)' = InMemory(v) /\ Line(v)' = Line(v)
      BY <2>2 DEF transcriptVars, writer, history, Line, InMemory
    <3> QED BY <3>1, InOrderKept
  <2> QED BY <2>1, <2>2
<1>3. InOrder => FileSorted
  BY DEF InOrder
<1> QED BY <1>1, <1>2, <1>3, TranscriptInvariant, PTL DEF TranscriptSpec
=============================================================================
