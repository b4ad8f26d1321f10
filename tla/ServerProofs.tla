---------------------------- MODULE ServerProofs ----------------------------
(* Theorems about Server, for any number of workers, sessions and requests:   *)
(* its types, that the store of active sessions neither leaks nor misses one, *)
(* that the quota is kept, and that a session that stays with a worker is     *)
(* never forgotten.                                                           *)
EXTENDS Server, TLAPS, FiniteSetTheorems, SequenceTheorems

-----------------------------------------------------------------------------
(* Connections: what sending and delivering a command changes *)

Has(q, s, o) == \E i \in DOMAIN q : q[i].ses = s /\ q[i].op = o

LEMMA CommandTyped ==
  ASSUME NEW o \in {"add", "rem", "count"}, NEW s \in Sessions, NEW b \in Requests \cup {None}
  PROVE  /\ Command(o, s, b) \in Commands
         /\ Command(o, s, b).op = o /\ Command(o, s, b).ses = s /\ Command(o, s, b).by = b
BY DEF Command, Commands

LEMMA StoreTyped ==
  ASSUME TypeOK, NEW w \in Workers
  PROVE  StoreOf(w) \in Stores /\ StoreOf(w) \in {w, Redis}
BY DEF TypeOK, StoreOf, Stores

LEMMA EmptyWire ==
  ASSUME NEW s, NEW o
  PROVE  ~Has(<<>>, s, o) /\ ~LastIs(<<>>, s, o)
BY DEF Has, LastIs

LEMMA LastHas ==
  ASSUME NEW q, NEW s, NEW o, LastIs(q, s, o)
  PROVE  Has(q, s, o)
BY DEF LastIs, Has

LEMMA AppendHas ==
  ASSUME NEW q \in Seq(Commands), NEW c \in Commands, NEW s, NEW o
  PROVE  Has(Append(q, c), s, o) <=> Has(q, s, o) \/ (c.ses = s /\ c.op = o)
<1> DEFINE p == Append(q, c)
<1>1. /\ DOMAIN q = 1..Len(q) /\ Len(q) \in Nat /\ DOMAIN p = 1..(Len(q) + 1)
      /\ \A i \in 1..Len(q) : p[i] = q[i]
      /\ p[Len(q) + 1] = c
  BY AppendProperties, LenProperties
<1>2. ASSUME Has(p, s, o) PROVE Has(q, s, o) \/ (c.ses = s /\ c.op = o)
  <2>1. PICK i \in DOMAIN p : p[i].ses = s /\ p[i].op = o
    BY <1>2 DEF Has
  <2>2. CASE i = Len(q) + 1
    BY <2>1, <2>2, <1>1
  <2>3. CASE i # Len(q) + 1
    <3>1. i \in DOMAIN q /\ q[i] = p[i]
      BY <2>3, <1>1
    <3> QED
      BY <3>1, <2>1 DEF Has
  <2> QED
    BY <2>2, <2>3
<1>3. ASSUME Has(q, s, o) PROVE Has(p, s, o)
  <2>1. PICK i \in DOMAIN q : q[i].ses = s /\ q[i].op = o
    BY <1>3 DEF Has
  <2>2. i \in DOMAIN p /\ p[i] = q[i]
    BY <1>1
  <2> QED
    BY <2>1, <2>2 DEF Has
<1>4. ASSUME c.ses = s, c.op = o PROVE Has(p, s, o)
  <2>1. Len(q) + 1 \in DOMAIN p
    BY <1>1
  <2> QED
    BY <1>4, <1>1, <2>1 DEF Has
<1> QED
  BY <1>2, <1>3, <1>4

LEMMA AppendLast ==
  ASSUME NEW q \in Seq(Commands), NEW c \in Commands
  PROVE  /\ LastIs(Append(q, c), c.ses, c.op)
         /\ \A s, o : LastIs(q, s, o) /\ (c.ses # s \/ c.op = "count") => LastIs(Append(q, c), s, o)
<1> DEFINE p == Append(q, c)
<1>1. /\ DOMAIN q = 1..Len(q) /\ Len(q) \in Nat /\ DOMAIN p = 1..(Len(q) + 1)
      /\ \A i \in 1..Len(q) : p[i] = q[i]
      /\ p[Len(q) + 1] = c
  BY AppendProperties, LenProperties
<1>2. LastIs(p, c.ses, c.op)
  <2>1. Len(q) + 1 \in DOMAIN p /\ ~\E j \in DOMAIN p : j > Len(q) + 1
    BY <1>1
  <2> QED
    BY <1>1, <2>1 DEF LastIs
<1>3. ASSUME NEW s, NEW o, LastIs(q, s, o), c.ses # s \/ c.op = "count" PROVE LastIs(p, s, o)
  <2>1. PICK i \in DOMAIN q : /\ q[i].ses = s /\ q[i].op = o
                              /\ \A j \in DOMAIN q : j > i => q[j].ses # s \/ q[j].op = "count"
    BY <1>3 DEF LastIs
  <2>2. i \in DOMAIN p /\ p[i] = q[i]
    BY <1>1
  <2>3. ASSUME NEW j \in DOMAIN p, j > i PROVE p[j].ses # s \/ p[j].op = "count"
    <3>1. CASE j = Len(q) + 1
      BY <3>1, <1>1, <1>3
    <3>2. CASE j # Len(q) + 1
      <4>1. j \in DOMAIN q /\ p[j] = q[j]
        BY <3>2, <1>1
      <4> QED
        BY <4>1, <2>1, <2>3
    <3> QED
      BY <3>1, <3>2
  <2> QED
    BY <2>1, <2>2, <2>3 DEF LastIs
<1> QED
  BY <1>2, <1>3

\* The rest of a connection after its head.
LEMMA TailAt ==
  ASSUME NEW q \in Seq(Commands), q # <<>>
  PROVE  /\ Tail(q) \in Seq(Commands) /\ Head(q) \in Commands
         /\ 1 \in DOMAIN q /\ q[1] = Head(q)
         /\ \A i \in DOMAIN Tail(q) : i \in Nat /\ i + 1 \in DOMAIN q /\ Tail(q)[i] = q[i + 1]
         /\ \A i \in DOMAIN q : i \in Nat /\ (i = 1 \/ (i - 1 \in DOMAIN Tail(q) /\ Tail(q)[i - 1] = q[i]))
<1>1. /\ Head(q) \in Commands /\ Tail(q) \in Seq(Commands) /\ Len(Tail(q)) = Len(q) - 1
      /\ \A i \in 1..Len(Tail(q)) : Tail(q)[i] = q[i + 1]
  BY HeadTailProperties
<1>2. /\ DOMAIN q = 1..Len(q) /\ Len(q) \in Nat \ {0} /\ DOMAIN Tail(q) = 1..Len(Tail(q))
  BY <1>1, LenProperties, EmptySeq
<1>3. q[1] = Head(q)
  BY <1>2
<1> QED
  BY <1>1, <1>2, <1>3

LEMMA TailHas ==
  ASSUME NEW q \in Seq(Commands), q # <<>>
  PROVE  /\ Has(q, Head(q).ses, Head(q).op)
         /\ \A s, o : Has(Tail(q), s, o) => Has(q, s, o)
<1>1. Has(q, Head(q).ses, Head(q).op)
  BY TailAt DEF Has
<1>2. ASSUME NEW s, NEW o, Has(Tail(q), s, o) PROVE Has(q, s, o)
  <2>1. PICK i \in DOMAIN Tail(q) : Tail(q)[i].ses = s /\ Tail(q)[i].op = o
    BY <1>2 DEF Has
  <2>2. i + 1 \in DOMAIN q /\ Tail(q)[i] = q[i + 1]
    BY TailAt
  <2> QED
    BY <2>1, <2>2 DEF Has
<1> QED
  BY <1>1, <1>2

\* The last command about a session stays the last one when another is delivered, also when
\* one about the session is left.
LEMMA TailLast ==
  ASSUME NEW q \in Seq(Commands), q # <<>>, NEW s, NEW o, LastIs(q, s, o),
         \/ Head(q).ses # s
         \/ Head(q).op # o
         \/ \E p \in {"add", "rem"} : Has(Tail(q), s, p)
  PROVE  LastIs(Tail(q), s, o)
<1>1. PICK i \in DOMAIN q : /\ q[i].ses = s /\ q[i].op = o
                            /\ \A j \in DOMAIN q : j > i => q[j].ses # s \/ q[j].op = "count"
  BY DEF LastIs
<1>2. i # 1
  <2>1. SUFFICES ASSUME i = 1 PROVE FALSE
    OBVIOUS
  <2>2. PICK p \in {"add", "rem"} : Has(Tail(q), s, p)
    BY <1>1, <2>1, TailAt
  <2>3. PICK k \in DOMAIN Tail(q) : Tail(q)[k].ses = s /\ Tail(q)[k].op = p
    BY <2>2 DEF Has
  <2>4. k \in Nat /\ k + 1 \in DOMAIN q /\ q[k + 1] = Tail(q)[k]
    BY TailAt
  <2>5. k # 0
    <3>1. DOMAIN Tail(q) = 1..Len(Tail(q))
      BY TailAt, LenProperties
    <3> QED
      BY <3>1
  <2>6. k + 1 > i
    BY <2>1, <2>4, <2>5
  <2> QED
    BY <1>1, <2>3, <2>4, <2>6
<1>3. i \in Nat /\ i - 1 \in DOMAIN Tail(q) /\ Tail(q)[i - 1] = q[i]
  BY <1>2, TailAt
<1>4. ASSUME NEW j \in DOMAIN Tail(q), j > i - 1
      PROVE  Tail(q)[j].ses # s \/ Tail(q)[j].op = "count"
  <2>1. j \in Nat /\ j + 1 \in DOMAIN q /\ Tail(q)[j] = q[j + 1]
    BY TailAt
  <2>2. j + 1 > i
    BY <2>1, <1>3, <1>4
  <2> QED
    BY <1>1, <2>1, <2>2
<1> QED
  BY <1>1, <1>3, <1>4 DEF LastIs

LEMMA ConcatAt ==
  ASSUME NEW q \in Seq(Commands), NEW p \in Seq(Commands)
  PROVE  /\ q \o p \in Seq(Commands)
         /\ \A i \in DOMAIN q : i \in Nat /\ i \in DOMAIN (q \o p) /\ (q \o p)[i] = q[i]
         /\ \A i \in DOMAIN p : /\ i \in Nat /\ Len(q) + i \in DOMAIN (q \o p)
                                /\ (q \o p)[Len(q) + i] = p[i]
         /\ Len(q) \in Nat
         /\ \A i \in DOMAIN (q \o p) :
              /\ i \in Nat
              /\ \/ i \in DOMAIN q /\ i <= Len(q)
                 \/ i - Len(q) \in DOMAIN p /\ (q \o p)[i] = p[i - Len(q)] /\ i > Len(q)
<1>1. /\ q \o p \in Seq(Commands) /\ Len(q \o p) = Len(q) + Len(p)
      /\ \A i \in 1..(Len(q) + Len(p)) : (q \o p)[i] = IF i <= Len(q) THEN q[i] ELSE p[i - Len(q)]
  BY ConcatProperties
<1>2. /\ DOMAIN q = 1..Len(q) /\ DOMAIN p = 1..Len(p) /\ Len(q) \in Nat /\ Len(p) \in Nat
      /\ DOMAIN (q \o p) = 1..(Len(q) + Len(p))
  BY <1>1, LenProperties
<1>3. ASSUME NEW i \in DOMAIN q
      PROVE  i \in Nat /\ i \in DOMAIN (q \o p) /\ (q \o p)[i] = q[i]
  BY <1>1, <1>2
<1>4. ASSUME NEW i \in DOMAIN p
      PROVE  i \in Nat /\ Len(q) + i \in DOMAIN (q \o p) /\ (q \o p)[Len(q) + i] = p[i]
  <2>1. i \in 1..Len(p) /\ Len(q) + i \in 1..(Len(q) + Len(p)) /\ ~(Len(q) + i <= Len(q))
    BY <1>2
  <2>2. (Len(q) + i) - Len(q) = i
    BY <2>1, <1>2
  <2> QED
    BY <1>1, <1>2, <2>1, <2>2
<1>5. ASSUME NEW i \in DOMAIN (q \o p)
      PROVE  /\ i \in Nat
             /\ \/ i \in DOMAIN q /\ i <= Len(q)
                \/ i - Len(q) \in DOMAIN p /\ (q \o p)[i] = p[i - Len(q)] /\ i > Len(q)
  BY <1>1, <1>2
<1> QED
  BY <1>1, <1>2, <1>3, <1>4, <1>5

LEMMA ConcatHas ==
  ASSUME NEW q \in Seq(Commands), NEW p \in Seq(Commands), NEW s, NEW o
  PROVE  Has(q \o p, s, o) <=> Has(q, s, o) \/ Has(p, s, o)
<1>1. ASSUME Has(q \o p, s, o) PROVE Has(q, s, o) \/ Has(p, s, o)
  <2>1. PICK i \in DOMAIN (q \o p) : (q \o p)[i].ses = s /\ (q \o p)[i].op = o
    BY <1>1 DEF Has
  <2>2. CASE i \in DOMAIN q
    BY <2>1, <2>2, ConcatAt DEF Has
  <2>3. CASE i - Len(q) \in DOMAIN p /\ (q \o p)[i] = p[i - Len(q)]
    BY <2>1, <2>3 DEF Has
  <2> QED
    BY <2>2, <2>3, ConcatAt
<1>2. ASSUME Has(q, s, o) PROVE Has(q \o p, s, o)
  BY <1>2, ConcatAt DEF Has
<1>3. ASSUME Has(p, s, o) PROVE Has(q \o p, s, o)
  <2>1. PICK i \in DOMAIN p : p[i].ses = s /\ p[i].op = o
    BY <1>3 DEF Has
  <2>2. Len(q) + i \in DOMAIN (q \o p) /\ (q \o p)[Len(q) + i] = p[i]
    BY ConcatAt
  <2> QED
    BY <2>1, <2>2 DEF Has
<1> QED
  BY <1>1, <1>2, <1>3

LEMMA ConcatLast ==
  ASSUME NEW q \in Seq(Commands), NEW p \in Seq(Commands), NEW s, NEW o
  PROVE  /\ LastIs(p, s, o) => LastIs(q \o p, s, o)
         /\ LastIs(q, s, o) /\ (\A i \in DOMAIN p : p[i].ses # s) => LastIs(q \o p, s, o)
<1>1. ASSUME LastIs(p, s, o) PROVE LastIs(q \o p, s, o)
  <2>1. PICK i \in DOMAIN p : /\ p[i].ses = s /\ p[i].op = o
                              /\ \A j \in DOMAIN p : j > i => p[j].ses # s \/ p[j].op = "count"
    BY <1>1 DEF LastIs
  <2>2. Len(q) \in Nat /\ i \in Nat /\ Len(q) + i \in DOMAIN (q \o p) /\ (q \o p)[Len(q) + i] = p[i]
    BY ConcatAt
  <2>3. ASSUME NEW j \in DOMAIN (q \o p), j > Len(q) + i
        PROVE  (q \o p)[j].ses # s \/ (q \o p)[j].op = "count"
    <3>1. j \in Nat /\ ~(j <= Len(q))
      BY <2>2, <2>3, ConcatAt
    <3>2. j - Len(q) \in DOMAIN p /\ (q \o p)[j] = p[j - Len(q)]
      BY <3>1, ConcatAt
    <3>3. j - Len(q) > i
      BY <2>2, <2>3, <3>1
    <3> QED
      BY <2>1, <3>2, <3>3
  <2> QED
    BY <2>1, <2>2, <2>3 DEF LastIs
<1>2. ASSUME LastIs(q, s, o), \A i \in DOMAIN p : p[i].ses # s PROVE LastIs(q \o p, s, o)
  <2>1. PICK i \in DOMAIN q : /\ q[i].ses = s /\ q[i].op = o
                              /\ \A j \in DOMAIN q : j > i => q[j].ses # s \/ q[j].op = "count"
    BY <1>2 DEF LastIs
  <2>2. i \in DOMAIN (q \o p) /\ (q \o p)[i] = q[i]
    BY ConcatAt
  <2>3. ASSUME NEW j \in DOMAIN (q \o p), j > i
        PROVE  (q \o p)[j].ses # s \/ (q \o p)[j].op = "count"
    <3>1. CASE j \in DOMAIN q
      BY <3>1, <2>1, <2>3, ConcatAt
    <3>2. CASE j - Len(q) \in DOMAIN p /\ (q \o p)[j] = p[j - Len(q)]
      BY <3>2, <1>2
    <3> QED
      BY <3>1, <3>2, ConcatAt
  <2> QED
    BY <2>1, <2>2, <2>3 DEF LastIs
<1> QED
  BY <1>1, <1>2

-----------------------------------------------------------------------------
(* Types *)

LEMMA WireTyped ==
  ASSUME TypeOK, NEW w \in Workers, NEW q \in Seq(Commands), wire' = [wire EXCEPT ![w] = q]
  PROVE  wire' \in [Workers -> Seq(Commands)]
BY DEF TypeOK

LEMMA SendTyped ==
  ASSUME TypeOK, NEW w \in Workers, NEW c \in Commands, Send(w, c)
  PROVE  /\ wire' \in [Workers -> Seq(Commands)]
         /\ wire' = [wire EXCEPT ![w] = Append(wire[w], c)]
<1>1. wire[w] \in Seq(Commands) /\ Append(wire[w], c) \in Seq(Commands)
  BY AppendProperties DEF TypeOK
<1>2. wire' = [wire EXCEPT ![w] = Append(wire[w], c)]
  BY DEF Send
<1> QED
  BY <1>1, <1>2 DEF TypeOK

LEMMA FlushTyped ==
  ASSUME TypeOK, NEW w \in Workers, FlushSession(w)
  PROVE  /\ disk' \in [Sessions -> SUBSET Requests]
         /\ queued' \in [Workers -> [Sessions -> SUBSET Requests]]
BY DEF TypeOK, FlushSession

LEMMA GotoTyped ==
  ASSUME TypeOK, NEW r, NEW l \in {"new"} \cup Waiting \cup Over, Goto(r, l)
  PROVE  pc' \in [Requests -> {"new"} \cup Waiting \cup Over]
BY DEF TypeOK, Goto

\* The order in which a shutdown unregisters sessions.
LEMMA OrderTyped ==
  ASSUME NEW n \in Nat, NEW order \in [1..n -> Sessions]
  PROVE  /\ [i \in 1..n |-> Command("rem", order[i], None)] \in Seq(Commands)
         /\ DOMAIN [i \in 1..n |-> Command("rem", order[i], None)] = 1..n
<1>1. \A i \in 1..n : Command("rem", order[i], None) \in Commands
  BY CommandTyped
<1> QED
  BY <1>1

LEMMA ShutdownWire ==
  ASSUME TypeOK, NEW w \in Workers, Shutdown(w)
  PROVE  \E p \in Seq(Commands) :
           /\ wire' = [wire EXCEPT ![w] = wire[w] \o p]
           /\ \A i \in DOMAIN p : p[i].op = "rem" /\ p[i].by = None /\ held[w][p[i].ses] # None
           /\ \A s \in Sessions : held[w][s] # None => LastIs(p, s, "rem")
<1>1. PICK n \in 0..Cardinality(Sessions) : \E order \in [1..n -> Sessions] :
         /\ {order[i] : i \in 1..n} = {s \in Sessions : held[w][s] # None}
         /\ \A i, j \in 1..n : order[i] = order[j] => i = j
         /\ wire' = [wire EXCEPT ![w] = @ \o [i \in 1..n |-> Command("rem", order[i], None)]]
  BY DEF Shutdown
<1>2. PICK order \in [1..n -> Sessions] :
         /\ {order[i] : i \in 1..n} = {s \in Sessions : held[w][s] # None}
         /\ \A i, j \in 1..n : order[i] = order[j] => i = j
         /\ wire' = [wire EXCEPT ![w] = @ \o [i \in 1..n |-> Command("rem", order[i], None)]]
  BY <1>1
<1> DEFINE p == [i \in 1..n |-> Command("rem", order[i], None)]
<1>3. n \in Nat
  BY <1>1, FS_CardinalityType, ServerAssumption DEF ServerAssumption
<1>4. p \in Seq(Commands) /\ DOMAIN p = 1..n
  BY <1>3, OrderTyped
<1>5. wire' = [wire EXCEPT ![w] = wire[w] \o p]
  BY <1>2
<1>6. ASSUME NEW i \in 1..n
      PROVE  /\ p[i].op = "rem" /\ p[i].ses = order[i] /\ p[i].by = None
             /\ order[i] \in Sessions /\ held[w][order[i]] # None
  <2>1. p[i] = Command("rem", order[i], None)
    OBVIOUS
  <2>2. order[i] \in {s \in Sessions : held[w][s] # None}
    BY <1>2
  <2> QED
    BY <2>1, <2>2, CommandTyped
<1>7. ASSUME NEW s \in Sessions, held[w][s] # None PROVE LastIs(p, s, "rem")
  <2>1. PICK i \in 1..n : order[i] = s
    BY <1>2, <1>7
  <2>2. p[i].ses = s /\ p[i].op = "rem" /\ i \in DOMAIN p
    BY <1>4, <1>6, <2>1
  <2>3. ASSUME NEW j \in DOMAIN p, j > i PROVE p[j].ses # s
    <3>1. j \in 1..n /\ j # i
      BY <1>4, <2>3
    <3>2. order[j] # s
      BY <3>1, <2>1, <1>2
    <3> QED
      BY <3>1, <3>2, <1>6
  <2> HIDE DEF p
  <2> QED
    BY <2>2, <2>3 DEF LastIs
<1>8. \A i \in DOMAIN p : p[i].op = "rem" /\ p[i].by = None /\ held[w][p[i].ses] # None
  BY <1>4, <1>6
<1> HIDE DEF p
<1> QED
  BY <1>4, <1>5, <1>7, <1>8

LEMMA TypeInit == Init => TypeOK
<1> SUFFICES ASSUME Init PROVE TypeOK
  OBVIOUS
<1>1. wire \in [Workers -> Seq(Commands)]
  BY EmptySeq DEF Init
<1>2. kind \in [Requests -> Kinds] /\ pc \in [Requests -> {"new"} \cup Waiting \cup Over]
  BY DEF Init, Kinds
<1> QED
  BY <1>1, <1>2 DEF Init, TypeOK

\* A request that has arrived has a session and a worker the session's requests may go to; and
\* what a session has in a pool or on its way is at such a worker.
Placed ==
  /\ \A r \in Requests : pc[r] # "new" => ses[r] \in Sessions /\ on[r] \in Route[ses[r]]
  /\ \A w \in Workers, s \in Sessions :
       held[w][s] # None \/ Has(wire[w], s, "add") \/ Has(wire[w], s, "rem") => w \in Route[s]

LEMMA PlacedOn ==
  ASSUME Placed, NEW r \in Requests, pc[r] # "new"
  PROVE  ses[r] \in Sessions /\ on[r] \in Workers
BY ServerAssumption DEF Placed, ServerAssumption

LEMMA TypeStep == TypeOK /\ Placed /\ [Next]_vars => TypeOK'
<1> SUFFICES ASSUME TypeOK, Placed, [Next]_vars PROVE TypeOK'
  OBVIOUS
<1> USE DEF pool, store, transcript, request, past
<1> DEFINE Labels == {"new"} \cup Waiting \cup Over
<1>0. /\ \A k : Admitted(k) \in Labels /\ AfterGet(k) \in Labels
      /\ {"counting", "loading", "rehydrating", "creating", "flush", "refused", "ended", "died"} \subseteq Labels
  BY DEF Admitted, AfterGet, Waiting, Over
<1>g. ASSUME NEW r, NEW l \in Labels, Goto(r, l) PROVE pc' \in [Requests -> Labels]
  BY <1>g, GotoTyped
<1> HIDE DEF Labels
<1>t. pc \in [Requests -> Labels] /\ (pc' \in [Requests -> Labels] => pc' \in [Requests -> {"new"} \cup Waiting \cup Over])
  BY DEF Labels, TypeOK
<1>1. ASSUME NEW r \in Requests, NEW k \in Kinds, NEW s \in Sessions, NEW w \in Workers,
             Arrive(r, k, s, w)
      PROVE  TypeOK'
  <2>1. wire' \in [Workers -> Seq(Commands)] /\ unguarded' \in [Stores -> SUBSET Sessions]
    <3>1. CASE Send(w, Command("count", s, r)) /\ UNCHANGED unguarded
      BY <3>1, SendTyped, CommandTyped DEF TypeOK
    <3>2. CASE UNCHANGED wire /\ unguarded' = [unguarded EXCEPT ![StoreOf(w)] = @ \cup {s}]
      BY <3>2 DEF TypeOK
    <3> QED
      BY <1>1, <3>1, <3>2 DEF Arrive
  <2>2. pc' \in [Requests -> Labels]
    BY <1>1, <1>0, <1>g DEF Arrive
  <2>3. disturbed' \subseteq Sessions
    BY <1>1 DEF Arrive, TypeOK
  <2> QED
    BY <1>1, <1>t, <2>1, <2>2, <2>3 DEF Arrive, TypeOK
<1>2. ASSUME NEW r \in Requests, Get(r) PROVE TypeOK'
  <2>1. pc' \in [Requests -> Labels]
    BY <1>2, <1>0, <1>g DEF Get
  <2>2. eng' \in [Requests -> Requests \cup {None}]
    <3>1. held[on[r]][ses[r]] \in Requests \cup {None}
      BY <1>2, PlacedOn DEF Get, TypeOK
    <3> QED
      BY <1>2, <3>1 DEF Get, Use, TypeOK
  <2> QED
    BY <1>2, <1>t, <2>1, <2>2 DEF Get, TypeOK
<1>3. ASSUME NEW r \in Requests, Loaded(r) PROVE TypeOK'
  <2>1. pc' \in [Requests -> Labels]
    BY <1>3, <1>0, <1>g DEF Loaded
  <2>2. disk[ses[r]] \in SUBSET Requests
    BY <1>3, PlacedOn DEF Loaded, TypeOK
  <2> QED
    BY <1>3, <1>t, <2>1, <2>2 DEF Loaded, TypeOK
<1>4. ASSUME NEW r \in Requests, NotFound(r) PROVE TypeOK'
  <2>1. pc' \in [Requests -> Labels]
    BY <1>4, <1>0, <1>g DEF NotFound
  <2> QED
    BY <1>4, <1>t, <2>1 DEF NotFound, TypeOK
<1>5. ASSUME NEW r \in Requests, LoadFails(r) PROVE TypeOK'
  <2>1. pc' \in [Requests -> Labels]
    BY <1>5, <1>0, <1>g DEF LoadFails
  <2>2. ses[r] \in Sessions
    BY <1>5, PlacedOn DEF LoadFails
  <2> QED
    BY <1>5, <1>t, <2>1, <2>2 DEF LoadFails, TypeOK
<1>6. ASSUME NEW r \in Requests, Created(r) PROVE TypeOK'
  <2>1. pc' \in [Requests -> Labels]
    BY <1>6, <1>0, <1>g DEF Created
  <2>2. ses[r] \in Sessions /\ on[r] \in Workers
    BY <1>6, PlacedOn DEF Created
  <2>3. wire' \in [Workers -> Seq(Commands)]
    BY <1>6, <2>2, SendTyped, CommandTyped DEF Created, Registration
  <2>4. held' \in [Workers -> [Sessions -> Requests \cup {None}]]
    BY <1>6 DEF Created, TypeOK
  <2>5. known' \in [Requests -> SUBSET Requests] /\ copy' \in [Requests -> SUBSET Requests]
    BY <1>6 DEF Created, TypeOK
  <2>6. eng' \in [Requests -> Requests \cup {None}]
    BY <1>6 DEF Created, Use, TypeOK
  <2> QED
    BY <1>6, <1>t, <2>1, <2>3, <2>4, <2>5, <2>6 DEF Created, TypeOK
<1>7. ASSUME NEW r \in Requests, CreateFails(r) PROVE TypeOK'
  <2>1. pc' \in [Requests -> Labels]
    BY <1>7, <1>0, <1>g DEF CreateFails
  <2> QED
    BY <1>7, <1>t, <2>1 DEF CreateFails, TypeOK
<1>8. ASSUME NEW r \in Requests, Answered(r) PROVE TypeOK'
  <2>1. pc' \in [Requests -> Labels]
    BY <1>8, <1>0, <1>g DEF Answered
  <2>2. known' \in [Requests -> SUBSET Requests]
    BY <1>8 DEF Answered, TypeOK
  <2>3. queued' \in [Workers -> [Sessions -> SUBSET Requests]]
    <3>1. on[r] \in Workers /\ ses[r] \in Sessions
      BY <1>8, PlacedOn DEF Answered
    <3>2. queued[on[r]] \in [Sessions -> SUBSET Requests]
      BY <3>1 DEF TypeOK
    <3>3. [queued[on[r]] EXCEPT ![ses[r]] = @ \cup {r}] \in [Sessions -> SUBSET Requests]
      BY <3>1, <3>2
    <3>4. queued' = [queued EXCEPT ![on[r]] = [queued[on[r]] EXCEPT ![ses[r]] = @ \cup {r}]]
      BY <1>8 DEF Answered
    <3> QED
      BY <3>3, <3>4 DEF TypeOK
  <2>4. eng' \in [Requests -> Requests \cup {None}]
    BY <1>8 DEF Answered, TypeOK
  <2> QED
    BY <1>8, <1>t, <2>1, <2>2, <2>3, <2>4 DEF Answered, TypeOK
<1>9. ASSUME NEW r \in Requests, RunFails(r) PROVE TypeOK'
  <2>1. pc' \in [Requests -> Labels]
    BY <1>9, <1>0, <1>g DEF RunFails
  <2>2. disk' \in [Sessions -> SUBSET Requests] /\ queued' \in [Workers -> [Sessions -> SUBSET Requests]]
    BY <1>9, PlacedOn, FlushTyped DEF RunFails
  <2> QED
    BY <1>9, <1>t, <2>1, <2>2 DEF RunFails, TypeOK
<1>10. ASSUME NEW r \in Requests, Ends(r) PROVE TypeOK'
  <2>1. pc' \in [Requests -> Labels]
    BY <1>10, <1>0, <1>g DEF Ends
  <2>2. disk' \in [Sessions -> SUBSET Requests] /\ queued' \in [Workers -> [Sessions -> SUBSET Requests]]
    BY <1>10, PlacedOn, FlushTyped DEF Ends
  <2> QED
    BY <1>10, <1>t, <2>1, <2>2 DEF Ends, TypeOK
<1>11. ASSUME NEW w \in Workers, Deliver(w) PROVE TypeOK'
  <2> DEFINE c == Head(wire[w]) x == StoreOf(w)
  <2>1. wire[w] \in Seq(Commands) /\ wire[w] # <<>>
    BY <1>11 DEF Deliver, TypeOK
  <2>2. c \in Commands /\ Tail(wire[w]) \in Seq(Commands)
    BY <2>1, TailAt
  <2>3. c.ses \in Sessions
    BY <2>2 DEF Commands
  <2>4. wire' \in [Workers -> Seq(Commands)]
    BY <1>11, <2>2 DEF Deliver, TypeOK
  <2>5. /\ pc' \in [Requests -> Labels] /\ active' \in [Stores -> SUBSET Sessions]
        /\ unguarded' \in [Stores -> SUBSET Sessions]
    <3>1. CASE active' = [active EXCEPT ![x] = @ \cup {c.ses}] /\ UNCHANGED <<pc, unguarded>>
      BY <3>1, <2>3, <1>t DEF TypeOK
    <3>2. CASE active' = [active EXCEPT ![x] = @ \ {c.ses}] /\ UNCHANGED <<pc, unguarded>>
      BY <3>2, <2>3, <1>t DEF TypeOK
    <3>3. CASE /\ Goto(c.by, Admitted(kind[c.by]))
               /\ unguarded' = [unguarded EXCEPT ![x] = IF Racing(x, c.ses) THEN @ \cup {c.ses} ELSE @ \ {c.ses}]
               /\ UNCHANGED active
      <4>1. pc' \in [Requests -> Labels]
        BY <3>3, <1>0, <1>g
      <4>2. unguarded' \in [Stores -> SUBSET Sessions]
        BY <3>3, <2>3 DEF TypeOK
      <4> QED
        BY <3>3, <4>1, <4>2 DEF TypeOK
    <3>4. CASE Goto(c.by, "refused") /\ UNCHANGED <<active, unguarded>>
      <4>1. pc' \in [Requests -> Labels]
        BY <3>4, <1>0, <1>g
      <4> QED
        BY <3>4, <4>1 DEF TypeOK
    <3> QED
      BY <1>11, <3>1, <3>2, <3>3, <3>4 DEF Deliver
  <2> QED
    BY <1>11, <1>t, <2>4, <2>5 DEF Deliver, TypeOK
<1>12. ASSUME NEW w \in Workers, NEW s \in Sessions, Close(w, s) PROVE TypeOK'
  <2>1. wire' \in [Workers -> Seq(Commands)]
    BY <1>12, SendTyped, CommandTyped DEF Close
  <2>2. held' \in [Workers -> [Sessions -> Requests \cup {None}]]
    BY <1>12 DEF Close, TypeOK
  <2> QED
    BY <1>12, <2>1, <2>2 DEF Close, TypeOK
<1>13. ASSUME NEW w \in Workers, NEW s \in Sessions, Flush(w, s) PROVE TypeOK'
  <2>1. /\ disk' \in [Sessions -> SUBSET Requests]
        /\ queued' \in [Workers -> [Sessions -> SUBSET Requests]]
    BY <1>13 DEF Flush, TypeOK
  <2> QED
    BY <1>13, <2>1 DEF Flush, TypeOK
<1>14. ASSUME NEW w \in Workers, Shutdown(w) PROVE TypeOK'
  <2>1. wire' \in [Workers -> Seq(Commands)]
    <3>1. PICK p \in Seq(Commands) : wire' = [wire EXCEPT ![w] = wire[w] \o p]
      BY <1>14, ShutdownWire
    <3>2. wire[w] \in Seq(Commands)
      BY DEF TypeOK
    <3>3. wire[w] \o p \in Seq(Commands)
      BY <3>2, ConcatAt
    <3> QED
      BY <3>1, <3>3, WireTyped
  <2>2. held' \in [Workers -> [Sessions -> Requests \cup {None}]]
    BY <1>14 DEF Shutdown, TypeOK
  <2>3. stops' \in Nat /\ closing' \subseteq Workers
    BY <1>14 DEF Shutdown, TypeOK
  <2> QED
    BY <1>14, <2>1, <2>2, <2>3 DEF Shutdown, TypeOK
<1>15. ASSUME NEW w \in Workers, Dies(w), stops' \in Nat PROVE TypeOK'
  <2>1. lost' \subseteq Sessions
    <3>1. ASSUME NEW i \in DOMAIN wire[w] PROVE wire[w][i].ses \in Sessions
      <4>1. wire[w][i] \in Commands
        BY LenProperties, ElementOfSeq DEF TypeOK
      <4> QED
        BY <4>1 DEF Commands
    <3> QED
      BY <1>15, <3>1 DEF Dies, TypeOK
  <2>2. held' \in [Workers -> [Sessions -> Requests \cup {None}]]
    BY <1>15 DEF Dies, TypeOK
  <2>3. queued' \in [Workers -> [Sessions -> SUBSET Requests]]
    BY <1>15 DEF Dies, TypeOK
  <2>4. pc' \in [Requests -> Labels]
    BY <1>15, <1>0, <1>t DEF Dies
  <2>5. eng' \in [Requests -> Requests \cup {None}] /\ copy' \in [Requests -> SUBSET Requests]
    BY <1>15 DEF Dies, TypeOK
  <2>6. wire' \in [Workers -> Seq(Commands)]
    BY <1>15, EmptySeq DEF Dies, TypeOK
  <2>7. active' \in [Stores -> SUBSET Sessions] /\ closing' \subseteq Workers
    BY <1>15 DEF Dies, TypeOK
  <2>8. own' \in [Workers -> BOOLEAN]
    <3>1. (~own[w]) \in BOOLEAN
      OBVIOUS
    <3> QED
      BY <1>15, <3>1 DEF Dies, TypeOK
  <2> QED
    BY <1>15, <1>t, <2>1, <2>2, <2>3, <2>4, <2>5, <2>6, <2>7, <2>8 DEF Dies, TypeOK
<1>16. ASSUME NEW w \in Workers, Exit(w) \/ Crash(w) PROVE TypeOK'
  BY <1>16, <1>15 DEF Exit, Crash, TypeOK
<1>17. CASE UNCHANGED vars
  BY <1>17 DEF vars, TypeOK
<1> QED
  BY <1>1, <1>2, <1>3, <1>4, <1>5, <1>6, <1>7, <1>8, <1>9, <1>10, <1>11, <1>12, <1>13, <1>14, <1>16,
     <1>17 DEF Next, Step, Expire, Delete

-----------------------------------------------------------------------------
(* What a step does to the pools and connections, and to a request *)

Sends(w, c) == wire' = [wire EXCEPT ![w] = Append(wire[w], c)]

LEMMA NextCases ==
  ASSUME [Next]_vars
  PROVE  \/ \E r \in Requests, k \in Kinds, s \in Sessions, w \in Workers : Arrive(r, k, s, w)
         \/ \E r \in Requests : Step(r)
         \/ \E w \in Workers : Deliver(w) \/ Shutdown(w) \/ Dies(w)
         \/ \E w \in Workers, s \in Sessions : Close(w, s) \/ Flush(w, s)
         \/ UNCHANGED vars
BY DEF Next, Exit, Crash, Expire, Delete

\* Of all steps, only seven kinds touch a pool, a connection or a store.
LEMMA PoolCases ==
  ASSUME TypeOK, Placed, [Next]_vars
  PROVE  \/ UNCHANGED <<held, wire, active, own, lost>>
         \/ \E r \in Requests, s \in Sessions, w \in Workers :
              /\ Sends(w, Command("count", s, r)) /\ pc[r] = "new"
              /\ pc' = [pc EXCEPT ![r] = "counting"]
              /\ ses' = [ses EXCEPT ![r] = s] /\ on' = [on EXCEPT ![r] = w]
              /\ UNCHANGED <<held, active, own, lost>>
         \/ \E r \in Requests : Created(r)
         \/ \E w \in Workers, s \in Sessions : Close(w, s)
         \/ \E w \in Workers : Shutdown(w)
         \/ \E w \in Workers : Deliver(w)
         \/ \E w \in Workers : Dies(w)
<1> USE DEF pool, store, transcript, request, past
<1>1. ASSUME NEW r \in Requests, NEW k \in Kinds, NEW s \in Sessions, NEW w \in Workers,
             Arrive(r, k, s, w)
      PROVE  \/ UNCHANGED <<held, wire, active, own, lost>>
             \/ /\ Sends(w, Command("count", s, r)) /\ pc[r] = "new"
                /\ pc' = [pc EXCEPT ![r] = "counting"]
                /\ ses' = [ses EXCEPT ![r] = s] /\ on' = [on EXCEPT ![r] = w]
                /\ UNCHANGED <<held, active, own, lost>>
  BY <1>1 DEF Arrive, Send, Sends, Goto
<1>2. ASSUME NEW r \in Requests, Step(r)
      PROVE  UNCHANGED <<held, wire, active, own, lost>> \/ Created(r)
  <2>1. ASSUME Get(r) \/ Loaded(r) \/ NotFound(r)
        PROVE  UNCHANGED <<held, wire, active, own, lost>>
    BY <2>1 DEF Get, Loaded, NotFound
  <2>2. ASSUME LoadFails(r) \/ CreateFails(r) \/ Answered(r)
        PROVE  UNCHANGED <<held, wire, active, own, lost>>
    BY <2>2 DEF LoadFails, CreateFails, Answered
  <2>3. ASSUME RunFails(r) \/ Ends(r)
        PROVE  UNCHANGED <<held, wire, active, own, lost>>
    BY <2>3 DEF RunFails, Ends
  <2> QED
    BY <1>2, <2>1, <2>2, <2>3 DEF Step
<1>3. ASSUME NEW w \in Workers, NEW s \in Sessions, Flush(w, s)
      PROVE  UNCHANGED <<held, wire, active, own, lost>>
  BY <1>3 DEF Flush
<1>4. CASE UNCHANGED vars
  BY <1>4 DEF vars
<1> QED
  BY <1>1, <1>2, <1>3, <1>4 DEF Next, Exit, Crash, Expire, Delete

\* The number of a session that is counted is awaited by one request, on the worker it is at.
Calls(w) ==
  \A i \in DOMAIN wire[w] :
    IF wire[w][i].op = "count"
    THEN /\ wire[w][i].by \in Requests /\ pc[wire[w][i].by] = "counting"
         /\ ses[wire[w][i].by] = wire[w][i].ses /\ on[wire[w][i].by] = w
         /\ \A j \in DOMAIN wire[w] : wire[w][j].op = "count" /\ wire[w][j].by = wire[w][i].by => j = i
    ELSE wire[w][i].by = None
Awaited == \A w \in Workers : Calls(w)

LEMMA DeliveredCall ==
  ASSUME TypeOK, Awaited, NEW w \in Workers, Deliver(w)
  PROVE  /\ wire[w] \in Seq(Commands) /\ wire[w] # <<>> /\ Head(wire[w]) \in Commands
         /\ Head(wire[w]).ses \in Sessions /\ Tail(wire[w]) \in Seq(Commands)
         /\ wire' = [wire EXCEPT ![w] = Tail(wire[w])]
         /\ Head(wire[w]).op = "count" =>
              /\ Head(wire[w]).by \in Requests /\ pc[Head(wire[w]).by] = "counting"
              /\ ses[Head(wire[w]).by] = Head(wire[w]).ses /\ on[Head(wire[w]).by] = w
         /\ Head(wire[w]).op # "count" => Head(wire[w]).by = None /\ UNCHANGED <<pc, unguarded>>
<1>1. wire[w] \in Seq(Commands) /\ wire[w] # <<>> /\ wire' = [wire EXCEPT ![w] = Tail(wire[w])]
  BY DEF TypeOK, Deliver
<1>2. 1 \in DOMAIN wire[w] /\ wire[w][1] = Head(wire[w]) /\ Head(wire[w]) \in Commands
  BY <1>1, TailAt
<1>3. Tail(wire[w]) \in Seq(Commands)
  BY <1>1, TailAt
<1>4. Head(wire[w]).op # "count" => UNCHANGED <<pc, unguarded>>
  BY DEF Deliver
<1> QED
  BY <1>1, <1>2, <1>3, <1>4 DEF Awaited, Calls, Commands

\* A request stands still, arrives, takes a step of its own, gets the answer it waits for, or
\* dies with its worker.
LEMMA RequestCases ==
  ASSUME TypeOK, Placed, Awaited, [Next]_vars, NEW r \in Requests
  PROVE  \/ \E k \in Kinds, s \in Sessions, w \in Workers : Arrive(r, k, s, w)
         \/ /\ ses'[r] = ses[r] /\ on'[r] = on[r] /\ kind'[r] = kind[r]
            /\ \/ pc'[r] = pc[r] /\ eng'[r] = eng[r] /\ copy'[r] = copy[r]
               \/ Step(r)
               \/ \E w \in Workers : /\ Deliver(w) /\ Head(wire[w]).op = "count" /\ Head(wire[w]).by = r
                                     /\ eng'[r] = eng[r] /\ copy'[r] = copy[r]
               \/ \E w \in Workers : Dies(w) /\ on[r] = w /\ pc[r] \in Waiting /\ pc'[r] = "died"
               \/ \E w \in Workers : Dies(w) /\ on[r] = w /\ pc[r] \notin Waiting /\ pc'[r] = pc[r]
<1> USE DEF pool, store, transcript, request, past
<1> DEFINE Still == /\ ses'[r] = ses[r] /\ on'[r] = on[r] /\ kind'[r] = kind[r]
                    /\ pc'[r] = pc[r] /\ eng'[r] = eng[r] /\ copy'[r] = copy[r]
<1>1. ASSUME NEW t \in Requests, t # r,
             NEW k \in Kinds, NEW s \in Sessions, NEW w \in Workers, Arrive(t, k, s, w)
      PROVE  Still
  BY <1>1 DEF Arrive, Goto, TypeOK
<1>2. ASSUME NEW t \in Requests, Step(t) PROVE UNCHANGED request /\ (t # r => Still)
  <2>1. ASSUME Get(t) \/ Loaded(t) \/ NotFound(t) PROVE UNCHANGED request /\ (t # r => Still)
    BY <2>1 DEF Get, Loaded, NotFound, Goto, Use, TypeOK
  <2>2. ASSUME LoadFails(t) \/ CreateFails(t) PROVE UNCHANGED request /\ (t # r => Still)
    BY <2>2 DEF LoadFails, CreateFails, Goto, TypeOK
  <2>3. ASSUME Created(t) PROVE UNCHANGED request /\ (t # r => Still)
    BY <2>3 DEF Created, Goto, Use, TypeOK
  <2>4. ASSUME Answered(t) \/ RunFails(t) \/ Ends(t) PROVE UNCHANGED request /\ (t # r => Still)
    BY <2>4 DEF Answered, RunFails, Ends, Goto, TypeOK
  <2> QED
    BY <1>2, <2>1, <2>2, <2>3, <2>4 DEF Step
<1>3. ASSUME NEW w \in Workers, Deliver(w)
      PROVE  \/ Still
             \/ /\ Head(wire[w]).op = "count" /\ Head(wire[w]).by = r
                /\ UNCHANGED <<ses, on, kind, eng, copy>>
  <2>1. UNCHANGED <<ses, on, kind, eng, copy>>
    BY <1>3 DEF Deliver
  <2>2. CASE Head(wire[w]).op # "count"
    BY <1>3, <2>1, <2>2, DeliveredCall
  <2>3. CASE Head(wire[w]).op = "count" /\ Head(wire[w]).by # r
    <3>1. \E l : pc' = [pc EXCEPT ![Head(wire[w]).by] = l]
      BY <1>3, <2>3 DEF Deliver, Goto
    <3> QED
      BY <2>1, <2>3, <3>1 DEF TypeOK
  <2> QED
    BY <2>1, <2>2, <2>3
<1>4. ASSUME NEW w \in Workers, NEW s \in Sessions, Close(w, s) \/ Flush(w, s) PROVE Still
  BY <1>4 DEF Close, Flush
<1>5. ASSUME NEW w \in Workers, Shutdown(w) PROVE Still
  BY <1>5 DEF Shutdown
<1>6. ASSUME NEW w \in Workers, Dies(w)
      PROVE  /\ UNCHANGED request
             /\ on[r] # w => Still
             /\ on[r] = w => IF pc[r] \in Waiting THEN pc'[r] = "died" ELSE pc'[r] = pc[r]
  BY <1>6 DEF Dies, TypeOK
<1>7. ASSUME UNCHANGED vars PROVE Still
  BY <1>7 DEF vars
<1> DEFINE Fate ==
      \/ \E k \in Kinds, s \in Sessions, w \in Workers : Arrive(r, k, s, w)
      \/ /\ ses'[r] = ses[r] /\ on'[r] = on[r] /\ kind'[r] = kind[r]
         /\ \/ pc'[r] = pc[r] /\ eng'[r] = eng[r] /\ copy'[r] = copy[r]
            \/ Step(r)
            \/ \E w \in Workers : /\ Deliver(w) /\ Head(wire[w]).op = "count" /\ Head(wire[w]).by = r
                                  /\ eng'[r] = eng[r] /\ copy'[r] = copy[r]
            \/ \E w \in Workers : Dies(w) /\ on[r] = w /\ pc[r] \in Waiting /\ pc'[r] = "died"
            \/ \E w \in Workers : Dies(w) /\ on[r] = w /\ pc[r] \notin Waiting /\ pc'[r] = pc[r]
<1>10. Still => Fate
  OBVIOUS
<1>11. ASSUME NEW t \in Requests, NEW k \in Kinds, NEW s \in Sessions, NEW w \in Workers,
              Arrive(t, k, s, w)
       PROVE  Fate
  <2>1. CASE t = r
    BY <1>11, <2>1
  <2>2. CASE t # r
    BY <1>11, <1>1, <1>10, <2>2
  <2> QED
    BY <2>1, <2>2
<1>12. ASSUME NEW t \in Requests, Step(t) PROVE Fate
  <2>1. CASE t = r
    BY <1>12, <1>2, <2>1
  <2>2. CASE t # r
    BY <1>12, <1>2, <1>10, <2>2
  <2> QED
    BY <2>1, <2>2
<1>13. ASSUME NEW w \in Workers, Deliver(w) PROVE Fate
  <2>1. CASE /\ Head(wire[w]).op = "count" /\ Head(wire[w]).by = r
             /\ UNCHANGED <<ses, on, kind, eng, copy>>
    BY <1>13, <2>1
  <2> QED
    BY <1>13, <1>3, <1>10, <2>1
<1>14. ASSUME NEW w \in Workers, Dies(w) PROVE Fate
  <2>1. CASE on[r] # w
    BY <1>14, <1>6, <1>10, <2>1
  <2>2. CASE on[r] = w /\ pc[r] \in Waiting
    BY <1>14, <1>6, <2>2
  <2>3. CASE on[r] = w /\ pc[r] \notin Waiting
    BY <1>14, <1>6, <2>3
  <2> QED
    BY <2>1, <2>2, <2>3
<1>15. ASSUME NEW w \in Workers, NEW s \in Sessions, Close(w, s) \/ Flush(w, s) PROVE Fate
  BY <1>15, <1>4, <1>10
<1>16. ASSUME NEW w \in Workers, Shutdown(w) PROVE Fate
  BY <1>16, <1>5, <1>10
<1>17. ASSUME UNCHANGED vars PROVE Fate
  BY <1>17, <1>7, <1>10
<1>18. Fate
  <2> HIDE DEF Fate, Still
  <2> QED
    BY <1>11, <1>12, <1>13, <1>14, <1>15, <1>16, <1>17, NextCases
<1> QED
  BY <1>18

-----------------------------------------------------------------------------
(* Requests that wait for a count, and where sessions are *)

LEMMA StepNotCounting ==
  ASSUME NEW r, Step(r)
  PROVE  pc[r] \in Waiting \ {"counting"}
<1>1. CASE Get(r) \/ Loaded(r) \/ NotFound(r) \/ LoadFails(r)
  BY <1>1 DEF Get, Loaded, NotFound, LoadFails, Waiting
<1>2. CASE Created(r) \/ CreateFails(r) \/ Answered(r) \/ RunFails(r) \/ Ends(r)
  BY <1>2 DEF Created, CreateFails, Answered, RunFails, Ends, Waiting
<1> QED
  BY <1>1, <1>2 DEF Step

LEMMA CountingKept ==
  ASSUME TypeOK, Placed, Awaited, [Next]_vars, NEW r \in Requests, pc[r] = "counting"
  PROVE  \/ pc'[r] = "counting" /\ ses'[r] = ses[r] /\ on'[r] = on[r]
         \/ on[r] \in Workers /\ Dies(on[r])
         \/ on[r] \in Workers /\ Deliver(on[r])
<1>1. on[r] \in Workers
  BY PlacedOn
<1>2. ~\E k \in Kinds, s \in Sessions, w \in Workers : Arrive(r, k, s, w)
  BY DEF Arrive
<1>3. ~Step(r)
  BY StepNotCounting
<1>4. ASSUME NEW w \in Workers, Deliver(w), Head(wire[w]).op = "count", Head(wire[w]).by = r
      PROVE  w = on[r]
  BY <1>4, DeliveredCall
<1>5. pc[r] \in Waiting
  BY DEF Waiting
<1> QED
  BY <1>1, <1>2, <1>3, <1>4, <1>5, RequestCases

LEMMA CallsMore ==
  ASSUME NEW v \in Workers, wire[v] \in Seq(Commands), Calls(v), NEW p \in Seq(Commands),
         wire'[v] = wire[v] \o p,
         \A r \in Requests : pc[r] = "counting" /\ on[r] = v =>
            pc'[r] = "counting" /\ ses'[r] = ses[r] /\ on'[r] = on[r],
         \A i \in DOMAIN p : p[i].op # "count" /\ p[i].by = None
  PROVE  Calls(v)'
<1> DEFINE q == wire[v] \o p
<1>1. ASSUME NEW i \in DOMAIN q
      PROVE  IF q[i].op = "count"
             THEN /\ q[i].by \in Requests /\ pc'[q[i].by] = "counting"
                  /\ ses'[q[i].by] = q[i].ses /\ on'[q[i].by] = v
                  /\ \A j \in DOMAIN q : q[j].op = "count" /\ q[j].by = q[i].by => j = i
             ELSE q[i].by = None
  <2>1. CASE i \in DOMAIN wire[v]
    <3>1. q[i] = wire[v][i]
      BY <2>1, ConcatAt
    <3>2. CASE q[i].op = "count"
      <4>1. /\ q[i].by \in Requests /\ pc[q[i].by] = "counting"
            /\ ses[q[i].by] = q[i].ses /\ on[q[i].by] = v
        BY <2>1, <3>1, <3>2 DEF Calls
      <4>2. ASSUME NEW j \in DOMAIN q, q[j].op = "count", q[j].by = q[i].by PROVE j = i
        <5>1. j \in DOMAIN wire[v] \/ (j - Len(wire[v]) \in DOMAIN p /\ q[j] = p[j - Len(wire[v])])
          BY ConcatAt
        <5>2. j \in DOMAIN wire[v]
          BY <4>2, <5>1
        <5>3. q[j] = wire[v][j]
          BY <5>2, ConcatAt
        <5> QED
          BY <2>1, <3>1, <3>2, <4>2, <5>2, <5>3 DEF Calls
      <4> HIDE DEF q
      <4> QED
        BY <3>2, <4>1, <4>2
    <3>3. CASE q[i].op # "count"
      BY <2>1, <3>1, <3>3 DEF Calls
    <3> QED
      BY <3>2, <3>3
  <2>2. CASE i - Len(wire[v]) \in DOMAIN p /\ q[i] = p[i - Len(wire[v])]
    BY <2>2
  <2> QED
    BY <2>1, <2>2, ConcatAt
<1>2. wire'[v] = q
  OBVIOUS
<1> HIDE DEF q
<1> QED
  BY <1>1, <1>2 DEF Calls

LEMMA CallsCount ==
  ASSUME NEW v \in Workers, wire[v] \in Seq(Commands), Calls(v), NEW c \in Commands, c.op = "count",
         wire'[v] = Append(wire[v], c),
         \A r \in Requests : pc[r] = "counting" /\ on[r] = v =>
            pc'[r] = "counting" /\ ses'[r] = ses[r] /\ on'[r] = on[r],
         c.by \in Requests, pc[c.by] # "counting", pc'[c.by] = "counting",
         ses'[c.by] = c.ses, on'[c.by] = v
  PROVE  Calls(v)'
<1> DEFINE q == Append(wire[v], c)
<1>0. /\ DOMAIN wire[v] = 1..Len(wire[v]) /\ Len(wire[v]) \in Nat /\ DOMAIN q = 1..(Len(wire[v]) + 1)
      /\ \A i \in 1..Len(wire[v]) : q[i] = wire[v][i]
      /\ q[Len(wire[v]) + 1] = c
  BY AppendProperties, LenProperties
<1>3. \A j \in DOMAIN q : (j \in DOMAIN wire[v] /\ q[j] = wire[v][j]) \/ (j = Len(wire[v]) + 1 /\ q[j] = c)
  BY <1>0
<1>4. \A j \in DOMAIN wire[v] : wire[v][j].op = "count" => wire[v][j].by # c.by
  BY DEF Calls
<1>1. ASSUME NEW i \in DOMAIN q
      PROVE  IF q[i].op = "count"
             THEN /\ q[i].by \in Requests /\ pc'[q[i].by] = "counting"
                  /\ ses'[q[i].by] = q[i].ses /\ on'[q[i].by] = v
                  /\ \A j \in DOMAIN q : q[j].op = "count" /\ q[j].by = q[i].by => j = i
             ELSE q[i].by = None
  <2> HIDE DEF q
  <2>1. CASE i \in DOMAIN wire[v] /\ q[i] = wire[v][i]
    <3>2. CASE q[i].op = "count"
      <4>1. /\ q[i].by \in Requests /\ pc[q[i].by] = "counting"
            /\ ses[q[i].by] = q[i].ses /\ on[q[i].by] = v
        BY <2>1, <3>2 DEF Calls
      <4>2. ASSUME NEW j \in DOMAIN q, q[j].op = "count", q[j].by = q[i].by PROVE j = i
        <5>1. j \in DOMAIN wire[v] /\ q[j] = wire[v][j]
          BY <1>3, <4>2, <4>1
        <5> QED
          BY <2>1, <3>2, <4>2, <5>1 DEF Calls
      <4> QED
        BY <3>2, <4>1, <4>2
    <3>3. CASE q[i].op # "count"
      BY <2>1, <3>3 DEF Calls
    <3> QED
      BY <3>2, <3>3
  <2>2. CASE i = Len(wire[v]) + 1 /\ q[i] = c
    <3>1. ASSUME NEW j \in DOMAIN q, q[j].op = "count", q[j].by = q[i].by PROVE j = i
      BY <1>3, <1>4, <2>2, <3>1
    <3> QED
      BY <2>2, <3>1
  <2> QED
    BY <1>3, <2>1, <2>2
<1>2. wire'[v] = q
  OBVIOUS
<1> HIDE DEF q
<1> QED
  BY <1>1, <1>2 DEF Calls

LEMMA CallsDelivered ==
  ASSUME TypeOK, Placed, Awaited, [Next]_vars, NEW v \in Workers, Deliver(v)
  PROVE  Calls(v)'
<1>1. /\ wire[v] \in Seq(Commands) /\ wire[v] # <<>>
      /\ wire'[v] = Tail(wire[v])
      /\ UNCHANGED <<ses, on>>
  BY DeliveredCall DEF Deliver, request, TypeOK
<1> DEFINE q == Tail(wire[v])
<1>2. \A i \in DOMAIN q : i \in Nat /\ i + 1 \in DOMAIN wire[v] /\ q[i] = wire[v][i + 1]
  BY <1>1, TailAt
<1>3. 1 \in DOMAIN wire[v] /\ wire[v][1] = Head(wire[v]) /\ q \in Seq(Commands)
  BY <1>1, TailAt
<1>4. \A i \in DOMAIN q : i # 0
  BY <1>3, LenProperties
<1> HIDE DEF q
<1>5. ASSUME NEW i \in DOMAIN q, q[i].op = "count" PROVE q[i].by \in Requests /\ pc'[q[i].by] = "counting"
  <2>1. /\ q[i].by \in Requests /\ pc[q[i].by] = "counting"
        /\ \A j \in DOMAIN wire[v] : wire[v][j].op = "count" /\ wire[v][j].by = q[i].by => j = i + 1
    BY <1>2, <1>5 DEF Awaited, Calls
  <2>2. CASE Head(wire[v]).op # "count"
    BY <2>1, <2>2, DeliveredCall
  <2>3. CASE Head(wire[v]).op = "count"
    <3>1. Head(wire[v]).by # q[i].by
      <4>1. 1 # i + 1
        BY <1>2, <1>4
      <4> QED
        BY <4>1, <2>1, <2>3, <1>3
    <3>2. \E l : pc' = [pc EXCEPT ![Head(wire[v]).by] = l]
      BY <2>3 DEF Deliver, Goto
    <3> QED
      BY <2>1, <3>1, <3>2 DEF TypeOK
  <2> QED
    BY <2>2, <2>3
<1>6. ASSUME NEW i \in DOMAIN q
      PROVE  IF q[i].op = "count"
             THEN /\ q[i].by \in Requests /\ pc'[q[i].by] = "counting"
                  /\ ses'[q[i].by] = q[i].ses /\ on'[q[i].by] = v
                  /\ \A j \in DOMAIN q : q[j].op = "count" /\ q[j].by = q[i].by => j = i
             ELSE q[i].by = None
  <2>1. CASE q[i].op = "count"
    <3>1. ses[q[i].by] = q[i].ses /\ on[q[i].by] = v
      BY <1>2, <2>1 DEF Awaited, Calls
    <3>2. ASSUME NEW j \in DOMAIN q, q[j].op = "count", q[j].by = q[i].by PROVE j = i
      <4>1. j + 1 = i + 1
        BY <1>2, <2>1, <3>2 DEF Awaited, Calls
      <4> QED
        BY <4>1, <1>2
    <3> QED
      BY <1>1, <1>5, <2>1, <3>1, <3>2
  <2>2. CASE q[i].op # "count"
    BY <1>2, <2>2 DEF Awaited, Calls
  <2> QED
    BY <2>1, <2>2
<1>7. wire'[v] = q
  BY <1>1 DEF q
<1> QED
  BY <1>6, <1>7 DEF Calls

LEMMA CreatedSends ==
  ASSUME TypeOK, Placed, NEW r \in Requests, Created(r)
  PROVE  /\ on[r] \in Workers /\ ses[r] \in Sessions /\ on[r] \in Route[ses[r]]
         /\ Registration(r) \in Commands /\ Registration(r).op = "add" /\ Registration(r).ses = ses[r]
         /\ Registration(r).by = None
         /\ Sends(on[r], Registration(r))
         /\ UNCHANGED <<own, active, lost>>
<1>1. on[r] \in Workers /\ ses[r] \in Sessions /\ on[r] \in Route[ses[r]]
  BY PlacedOn DEF Created, Placed
<1> QED
  BY <1>1, CommandTyped DEF Created, Send, Sends, Registration, past

LEMMA CloseSends ==
  ASSUME NEW w \in Workers, NEW s \in Sessions, Close(w, s)
  PROVE  /\ Command("rem", s, None) \in Commands /\ Command("rem", s, None).op = "rem"
         /\ Command("rem", s, None).ses = s /\ Command("rem", s, None).by = None
         /\ Sends(w, Command("rem", s, None))
         /\ UNCHANGED <<own, active, lost>>
BY CommandTyped DEF Close, Send, Sends, past

LEMMA OneSent ==
  ASSUME NEW q \in Seq(Commands), NEW c \in Commands
  PROVE  /\ Append(q, c) = q \o <<c>> /\ <<c>> \in Seq(Commands)
         /\ \A i \in DOMAIN <<c>> : <<c>>[i] = c
<1>1. Append(q, c) = q \o <<c>>
  BY AppendIsConcat
<1>2. <<c>> \in Seq(Commands) /\ \A i \in DOMAIN <<c>> : <<c>>[i] = c
  OBVIOUS
<1> QED
  BY <1>1, <1>2

LEMMA AwaitedStep ==
  ASSUME TypeOK, Placed, Awaited, [Next]_vars
  PROVE  Awaited'
<1> SUFFICES ASSUME NEW v \in Workers PROVE Calls(v)'
  BY DEF Awaited
<1>1. CASE Deliver(v)
  BY <1>1, CallsDelivered
<1>2. CASE Dies(v)
  <2>1. wire'[v] = <<>>
    BY <1>2 DEF Dies, TypeOK
  <2> QED
    BY <2>1 DEF Calls
<1>3. CASE ~Deliver(v) /\ ~Dies(v)
  <2>1. \A r \in Requests : pc[r] = "counting" /\ on[r] = v =>
            pc'[r] = "counting" /\ ses'[r] = ses[r] /\ on'[r] = on[r]
    BY <1>3, CountingKept
  <2>2. Calls(v) /\ wire[v] \in Seq(Commands)
    BY DEF Awaited, TypeOK
  <2>3. ASSUME wire'[v] = wire[v] PROVE Calls(v)'
    BY <2>1, <2>2, <2>3 DEF Calls
  <2>4. ASSUME NEW c \in Commands, c.op # "count", c.by = None, wire'[v] = Append(wire[v], c)
        PROVE  Calls(v)'
    <3>1. wire'[v] = wire[v] \o <<c>> /\ <<c>> \in Seq(Commands)
      BY <2>2, <2>4, OneSent
    <3>2. \A i \in DOMAIN <<c>> : <<c>>[i].op # "count" /\ <<c>>[i].by = None
      BY <2>4
    <3> QED
      BY <2>1, <2>2, <3>1, <3>2, CallsMore
  <2>5. ASSUME NEW r \in Requests, NEW s \in Sessions, NEW w \in Workers,
               Sends(w, Command("count", s, r)), pc[r] = "new", pc' = [pc EXCEPT ![r] = "counting"],
               ses' = [ses EXCEPT ![r] = s], on' = [on EXCEPT ![r] = w]
        PROVE  Calls(v)'
    <3>1. CASE w = v
      <4> DEFINE c == Command("count", s, r)
      <4>1. c \in Commands /\ c.op = "count" /\ c.ses = s /\ c.by = r
        BY CommandTyped
      <4> HIDE DEF c
      <4>2. wire'[v] = Append(wire[v], c)
        BY <2>5, <3>1 DEF Sends, TypeOK, c
      <4>3. pc[c.by] # "counting" /\ pc'[c.by] = "counting" /\ ses'[c.by] = c.ses /\ on'[c.by] = v
        BY <2>5, <3>1, <4>1 DEF TypeOK
      <4> QED
        BY <2>1, <2>2, <4>1, <4>2, <4>3, CallsCount
    <3>2. CASE w # v
      BY <2>3, <2>5, <3>2 DEF Sends, TypeOK
    <3> QED
      BY <3>1, <3>2
  <2>6. ASSUME NEW r \in Requests, Created(r) PROVE Calls(v)'
    <3> DEFINE w == on[r] c == Registration(r)
    <3>1. w \in Workers /\ c \in Commands /\ c.op = "add" /\ c.by = None /\ Sends(w, c)
      BY <2>6, CreatedSends
    <3> HIDE DEF w, c
    <3>2. CASE w = v
      BY <2>4, <3>1, <3>2 DEF Sends, TypeOK
    <3>3. CASE w # v
      BY <2>3, <3>1, <3>3 DEF Sends, TypeOK
    <3> QED
      BY <3>2, <3>3
  <2>7. ASSUME NEW w \in Workers, NEW s \in Sessions, Close(w, s) PROVE Calls(v)'
    <3> DEFINE c == Command("rem", s, None)
    <3>1. c \in Commands /\ c.op = "rem" /\ c.by = None /\ Sends(w, c)
      BY <2>7, CloseSends
    <3> HIDE DEF c
    <3>2. CASE w = v
      BY <2>4, <3>1, <3>2 DEF Sends, TypeOK
    <3>3. CASE w # v
      BY <2>3, <3>1, <3>3 DEF Sends, TypeOK
    <3> QED
      BY <3>2, <3>3
  <2>8. ASSUME NEW w \in Workers, Shutdown(w) PROVE Calls(v)'
    <3>1. PICK p \in Seq(Commands) :
            /\ wire' = [wire EXCEPT ![w] = wire[w] \o p]
            /\ \A i \in DOMAIN p : p[i].op = "rem" /\ p[i].by = None /\ held[w][p[i].ses] # None
      BY <2>8, ShutdownWire
    <3>2. CASE w = v
      <4>1. wire'[v] = wire[v] \o p
        BY <3>1, <3>2 DEF TypeOK
      <4>2. \A i \in DOMAIN p : p[i].op # "count" /\ p[i].by = None
        BY <3>1
      <4> QED
        BY <2>1, <2>2, <4>1, <4>2, CallsMore
    <3>3. CASE w # v
      BY <2>3, <3>1, <3>3 DEF TypeOK
    <3> QED
      BY <3>2, <3>3
  <2>9. ASSUME NEW w \in Workers, Deliver(w) \/ Dies(w) PROVE Calls(v)'
    <3>1. w # v
      BY <1>3, <2>9
    <3>2. \E q : wire' = [wire EXCEPT ![w] = q]
      BY <2>9 DEF Deliver, Dies
    <3> QED
      BY <2>3, <3>1, <3>2 DEF TypeOK
  <2> QED
    BY <2>3, <2>5, <2>6, <2>7, <2>8, <2>9, PoolCases
<1> QED
  BY <1>1, <1>2, <1>3

\* Where the sessions of a step's pools and commands come from.
LEMMA PlacedStep ==
  ASSUME TypeOK, Placed, Awaited, [Next]_vars
  PROVE  Placed'
<1>1. ASSUME NEW r \in Requests, pc'[r] # "new" PROVE ses'[r] \in Sessions /\ on'[r] \in Route[ses'[r]]
  <2>1. ASSUME NEW k \in Kinds, NEW s \in Sessions, NEW w \in Workers, Arrive(r, k, s, w)
        PROVE  ses'[r] \in Sessions /\ on'[r] \in Route[ses'[r]]
    BY <2>1 DEF Arrive, TypeOK
  <2>2. CASE ses'[r] = ses[r] /\ on'[r] = on[r] /\ pc[r] # "new"
    BY <2>2 DEF Placed
  <2>3. ASSUME NEW w \in Workers, Deliver(w), Head(wire[w]).op = "count", Head(wire[w]).by = r
        PROVE  pc[r] # "new"
    BY <2>3, DeliveredCall
  <2>4. Step(r) \/ pc[r] \in Waiting => pc[r] # "new"
    BY StepNotCounting DEF Waiting
  <2> QED
    BY <1>1, <2>1, <2>2, <2>3, <2>4, RequestCases
<1>2. ASSUME NEW v \in Workers, NEW u \in Sessions,
             held'[v][u] # None \/ Has(wire'[v], u, "add") \/ Has(wire'[v], u, "rem")
      PROVE  v \in Route[u]
  <2> DEFINE Here(h, q) == h[v][u] # None \/ Has(q[v], u, "add") \/ Has(q[v], u, "rem")
  <2>0. /\ wire[v] \in Seq(Commands)
        /\ Here(held, wire) => v \in Route[u]
        /\ Here(held', wire')
    BY <1>2 DEF Placed, TypeOK
  <2>1. CASE UNCHANGED <<held, wire>>
    BY <2>0, <2>1
  <2>2. ASSUME NEW c \in Commands, NEW w \in Workers, Sends(w, c),
               \/ c.op = "count" /\ UNCHANGED held
               \/ /\ c.op # "count" /\ w \in Route[c.ses]
                  /\ \E e : held' = [held EXCEPT ![w][c.ses] = e]
        PROVE  v \in Route[u]
    <3>1. CASE v # w
      <4>1. wire'[v] = wire[v] /\ held'[v] = held[v]
        BY <2>2, <3>1 DEF Sends, TypeOK
      <4> QED
        BY <2>0, <4>1
    <3>2. CASE v = w
      <4>1. wire'[v] = Append(wire[v], c)
        BY <2>2, <3>2 DEF Sends, TypeOK
      <4>2. \A o : Has(wire'[v], u, o) => Has(wire[v], u, o) \/ (c.ses = u /\ c.op = o)
        BY <2>0, <4>1, AppendHas
      <4>3. CASE c.op # "count" /\ c.ses = u
        BY <2>2, <3>2, <4>3
      <4>4. CASE c.op = "count" \/ c.ses # u
        <5>1. held'[v][u] = held[v][u]
          <6>1. CASE UNCHANGED held
            BY <6>1
          <6>2. CASE c.ses # u /\ \E e : held' = [held EXCEPT ![w][c.ses] = e]
            <7>1. PICK e : held' = [held EXCEPT ![w][c.ses] = e]
              BY <6>2
            <7> QED
              BY <6>2, <7>1, <3>2 DEF TypeOK
          <6> QED
            BY <2>2, <4>4, <6>1, <6>2
        <5>2. "add" # "count" /\ "rem" # "count"
          OBVIOUS
        <5> QED
          BY <2>0, <4>2, <4>4, <5>1, <5>2
      <4> QED
        BY <4>3, <4>4
    <3> QED
      BY <3>1, <3>2
  <2>3. ASSUME NEW r \in Requests, NEW s \in Sessions, NEW w \in Workers,
               Sends(w, Command("count", s, r)), UNCHANGED held
        PROVE  v \in Route[u]
    BY <2>2, <2>3, CommandTyped
  <2>4. ASSUME NEW r \in Requests, Created(r) PROVE v \in Route[u]
    <3>1. held' = [held EXCEPT ![on[r]][ses[r]] = r]
      BY <2>4 DEF Created
    <3> QED
      BY <2>2, <2>4, <3>1, CreatedSends
  <2>5. ASSUME NEW w \in Workers, NEW s \in Sessions, Close(w, s) PROVE v \in Route[u]
    <3>1. held' = [held EXCEPT ![w][s] = None] /\ w \in Route[s]
      BY <2>5 DEF Close, Placed
    <3> QED
      BY <2>2, <2>5, <3>1, CloseSends
  <2>6. ASSUME NEW w \in Workers, Shutdown(w) PROVE v \in Route[u]
    <3>1. PICK p \in Seq(Commands) :
            /\ wire' = [wire EXCEPT ![w] = wire[w] \o p]
            /\ \A i \in DOMAIN p : p[i].op = "rem" /\ p[i].by = None /\ held[w][p[i].ses] # None
      BY <2>6, ShutdownWire
    <3>2. held' = [held EXCEPT ![w] = [s \in Sessions |-> None]]
      BY <2>6 DEF Shutdown
    <3>3. CASE v # w
      BY <2>0, <3>1, <3>2, <3>3 DEF TypeOK
    <3>4. CASE v = w
      <4>1. wire'[v] = wire[v] \o p /\ held'[v][u] = None
        BY <3>1, <3>2, <3>4 DEF TypeOK
      <4>2. \A o : Has(wire'[v], u, o) => Has(wire[v], u, o) \/ Has(p, u, o)
        BY <2>0, <4>1, ConcatHas
      <4>3. ASSUME NEW o, Has(p, u, o) PROVE held[v][u] # None
        BY <3>1, <3>4, <4>3 DEF Has
      <4> QED
        BY <2>0, <4>1, <4>2, <4>3
    <3> QED
      BY <3>3, <3>4
  <2>7. ASSUME NEW w \in Workers, Deliver(w) PROVE v \in Route[u]
    <3>1. /\ wire' = [wire EXCEPT ![w] = Tail(wire[w])] /\ wire[w] \in Seq(Commands) /\ wire[w] # <<>>
          /\ UNCHANGED held
      BY <2>7, DeliveredCall DEF Deliver, pool
    <3>2. CASE v # w
      BY <2>0, <3>1, <3>2 DEF TypeOK
    <3>3. CASE v = w
      <4>1. wire'[v] = Tail(wire[v])
        BY <3>1, <3>3 DEF TypeOK
      <4>2. \A o : Has(wire'[v], u, o) => Has(wire[v], u, o)
        BY <3>1, <3>3, <4>1, TailHas
      <4> QED
        BY <2>0, <3>1, <4>2
    <3> QED
      BY <3>2, <3>3
  <2>8. ASSUME NEW w \in Workers, Dies(w) PROVE v \in Route[u]
    <3>1. /\ wire' = [wire EXCEPT ![w] = <<>>]
          /\ held' = [held EXCEPT ![w] = [s \in Sessions |-> None]]
      BY <2>8 DEF Dies
    <3>2. CASE v # w
      BY <2>0, <3>1, <3>2 DEF TypeOK
    <3>3. CASE v = w
      <4>1. wire'[v] = <<>> /\ held'[v][u] = None
        BY <3>1, <3>3 DEF TypeOK
      <4> QED
        BY <2>0, <4>1, EmptyWire
    <3> QED
      BY <3>2, <3>3
  <2> QED
    BY <2>1, <2>3, <2>4, <2>5, <2>6, <2>7, <2>8, PoolCases
<1> QED
  BY <1>1, <1>2 DEF Placed

-----------------------------------------------------------------------------
(* The store of active sessions *)

\* What becomes of a session at a worker, in the pool and on the way to the store.
Unmoved(v, u) ==
  /\ held'[v][u] = held[v][u]
  /\ Has(wire'[v], u, "add") => Has(wire[v], u, "add")
  /\ Has(wire'[v], u, "rem") => Has(wire[v], u, "rem")
  /\ LastIs(wire[v], u, "add") => LastIs(wire'[v], u, "add")
  /\ LastIs(wire[v], u, "rem") => LastIs(wire'[v], u, "rem")
Joins(v, u) == held'[v][u] # None /\ LastIs(wire'[v], u, "add")
Leaves(v, u) == held'[v][u] = None /\ LastIs(wire'[v], u, "rem")

LEMMA UnmovedElsewhere ==
  ASSUME NEW v, NEW u, held'[v] = held[v], wire'[v] = wire[v]
  PROVE  Unmoved(v, u)
BY DEF Unmoved

LEMMA UnmovedBySend ==
  ASSUME TypeOK, NEW v \in Workers, NEW u \in Sessions, held'[v][u] = held[v][u],
         NEW c \in Commands, wire'[v] = Append(wire[v], c), c.op = "count" \/ c.ses # u
  PROVE  Unmoved(v, u)
<1>1. wire[v] \in Seq(Commands)
  BY DEF TypeOK
<1>2. ASSUME NEW o \in {"add", "rem"}, Has(wire'[v], u, o) PROVE Has(wire[v], u, o)
  BY <1>1, <1>2, AppendHas
<1>3. ASSUME NEW o \in {"add", "rem"}, LastIs(wire[v], u, o) PROVE LastIs(wire'[v], u, o)
  BY <1>1, <1>3, AppendLast
<1> QED
  BY <1>2, <1>3 DEF Unmoved

LEMMA SessionAtSend ==
  ASSUME TypeOK, NEW v \in Workers, NEW u \in Sessions, NEW w \in Workers, NEW c \in Commands,
         Sends(w, c),
         \/ c.op = "count" /\ UNCHANGED held
         \/ c.op = "add" /\ \E e : e # None /\ held' = [held EXCEPT ![w][c.ses] = e]
         \/ c.op = "rem" /\ held' = [held EXCEPT ![w][c.ses] = None]
  PROVE  Unmoved(v, u) \/ Joins(v, u) \/ Leaves(v, u)
<1>0. wire[v] \in Seq(Commands) /\ c.ses \in Sessions
  BY DEF TypeOK, Commands
<1>1. CASE v # w
  <2>1. wire'[v] = wire[v] /\ held'[v] = held[v]
    BY <1>1 DEF Sends, TypeOK
  <2> QED
    BY <2>1, UnmovedElsewhere
<1>2. CASE v = w
  <2>1. wire'[v] = Append(wire[v], c)
    BY <1>2 DEF Sends, TypeOK
  <2>2. CASE c.op = "count" \/ c.ses # u
    <3>1. held'[v][u] = held[v][u]
      BY <2>2, <1>2, <1>0 DEF TypeOK
    <3> QED
      BY <2>1, <2>2, <3>1, UnmovedBySend
  <2>3. CASE c.op = "add" /\ c.ses = u
    <3>1. held'[v][u] # None
      BY <2>3, <1>2 DEF TypeOK
    <3>2. LastIs(wire'[v], u, "add")
      BY <1>0, <2>1, <2>3, AppendLast
    <3> QED
      BY <3>1, <3>2 DEF Joins
  <2>4. CASE c.op = "rem" /\ c.ses = u
    <3>1. held'[v][u] = None
      BY <2>4, <1>2 DEF TypeOK
    <3>2. LastIs(wire'[v], u, "rem")
      BY <1>0, <2>1, <2>4, AppendLast
    <3> QED
      BY <3>1, <3>2 DEF Leaves
  <2> QED
    BY <2>2, <2>3, <2>4
<1> QED
  BY <1>1, <1>2

LEMMA SessionCases ==
  ASSUME TypeOK, Placed, [Next]_vars, NEW v \in Workers, NEW u \in Sessions
  PROVE  \/ /\ UNCHANGED <<active, own, lost>>
            /\ Unmoved(v, u) \/ Joins(v, u) \/ Leaves(v, u)
         \/ \E w \in Workers : Deliver(w) \/ Dies(w)
<1>1. CASE UNCHANGED <<held, wire, active, own, lost>>
  BY <1>1, UnmovedElsewhere
<1>2. ASSUME NEW r \in Requests, NEW s \in Sessions, NEW w \in Workers,
             Sends(w, Command("count", s, r)), UNCHANGED <<held, active, own, lost>>
      PROVE  /\ UNCHANGED <<active, own, lost>>
             /\ Unmoved(v, u) \/ Joins(v, u) \/ Leaves(v, u)
  BY <1>2, CommandTyped, SessionAtSend
<1>3. ASSUME NEW r \in Requests, Created(r)
      PROVE  /\ UNCHANGED <<active, own, lost>>
             /\ Unmoved(v, u) \/ Joins(v, u) \/ Leaves(v, u)
  <2>1. held' = [held EXCEPT ![on[r]][Registration(r).ses] = r]
    BY <1>3, CreatedSends DEF Created
  <2>2. r # None
    BY ServerAssumption DEF ServerAssumption
  <2>3. /\ on[r] \in Workers /\ Registration(r) \in Commands /\ Registration(r).op = "add"
        /\ Sends(on[r], Registration(r)) /\ UNCHANGED <<own, active, lost>>
    BY <1>3, CreatedSends
  <2> QED
    BY <2>1, <2>2, <2>3, SessionAtSend
<1>4. ASSUME NEW w \in Workers, NEW s \in Sessions, Close(w, s)
      PROVE  /\ UNCHANGED <<active, own, lost>>
             /\ Unmoved(v, u) \/ Joins(v, u) \/ Leaves(v, u)
  <2> DEFINE c == Command("rem", s, None)
  <2>1. c \in Commands /\ c.op = "rem" /\ c.ses = s /\ Sends(w, c) /\ UNCHANGED <<own, active, lost>>
    BY <1>4, CloseSends
  <2>2. held' = [held EXCEPT ![w][s] = None]
    BY <1>4 DEF Close
  <2> HIDE DEF c
  <2> QED
    BY <2>1, <2>2, SessionAtSend
<1>5. ASSUME NEW w \in Workers, Shutdown(w)
      PROVE  /\ UNCHANGED <<active, own, lost>>
             /\ Unmoved(v, u) \/ Joins(v, u) \/ Leaves(v, u)
  <2>1. PICK p \in Seq(Commands) :
          /\ wire' = [wire EXCEPT ![w] = wire[w] \o p]
          /\ \A i \in DOMAIN p : p[i].op = "rem" /\ p[i].by = None /\ held[w][p[i].ses] # None
          /\ \A s \in Sessions : held[w][s] # None => LastIs(p, s, "rem")
    BY <1>5, ShutdownWire
  <2>2. held' = [held EXCEPT ![w] = [s \in Sessions |-> None]] /\ UNCHANGED <<active, own, lost>>
    BY <1>5 DEF Shutdown
  <2>3. CASE v # w
    <3>1. held'[v] = held[v] /\ wire'[v] = wire[v]
      BY <2>1, <2>2, <2>3 DEF TypeOK
    <3> QED
      BY <2>2, <3>1, UnmovedElsewhere
  <2>4. CASE v = w
    <3>1. held'[v][u] = None /\ wire'[v] = wire[v] \o p /\ wire[v] \in Seq(Commands)
      BY <2>1, <2>2, <2>4 DEF TypeOK
    <3>2. CASE held[v][u] # None
      <4>1. LastIs(wire'[v], u, "rem")
        BY <2>1, <2>4, <3>1, <3>2, ConcatLast
      <4> QED
        BY <2>2, <3>1, <4>1 DEF Leaves
    <3>3. CASE held[v][u] = None
      <4>1. \A i \in DOMAIN p : p[i].ses # u
        BY <2>1, <2>4, <3>3
      <4>2. \A o : ~Has(p, u, o)
        BY <4>1 DEF Has
      <4>3. \A o \in {"add", "rem"} : Has(wire'[v], u, o) => Has(wire[v], u, o)
        BY <3>1, <4>2, ConcatHas
      <4>4. \A o \in {"add", "rem"} : LastIs(wire[v], u, o) => LastIs(wire'[v], u, o)
        BY <3>1, <4>1, ConcatLast
      <4>5. Unmoved(v, u)
        BY <3>1, <3>3, <4>3, <4>4 DEF Unmoved
      <4> QED
        BY <2>2, <4>5
    <3> QED
      BY <3>2, <3>3
  <2> QED
    BY <2>3, <2>4
<1> QED
  BY <1>1, <1>2, <1>3, <1>4, <1>5, PoolCases

LEMMA StoreSame ==
  ASSUME TypeOK, Placed, [Next]_vars, ~\E w \in Workers : Deliver(w) \/ Dies(w)
  PROVE  UNCHANGED <<active, own, lost>>
<1>1. ASSUME NEW r \in Requests, Created(r) PROVE UNCHANGED <<active, own, lost>>
  BY <1>1, CreatedSends
<1>2. ASSUME NEW w \in Workers, NEW s \in Sessions, Close(w, s) PROVE UNCHANGED <<active, own, lost>>
  BY <1>2, CloseSends
<1>3. ASSUME NEW w \in Workers, Shutdown(w) PROVE UNCHANGED <<active, own, lost>>
  BY <1>3 DEF Shutdown
<1> QED
  BY <1>1, <1>2, <1>3, PoolCases

\* A session whose registration is on its way is in the pool, or is unregistered after it; a
\* session whose removal is on its way is not in the pool, or is registered again after it.
AddKept == \A w \in Workers, s \in Sessions :
  Has(wire[w], s, "add") => held[w][s] # None \/ Pending(w, s, "rem")
RemKept == \A w \in Workers, s \in Sessions :
  Has(wire[w], s, "rem") => held[w][s] = None \/ Pending(w, s, "add")

LEMMA DeliveredElsewhere ==
  ASSUME TypeOK, NEW w \in Workers, Deliver(w) \/ Dies(w), NEW v \in Workers, v # w, NEW u
  PROVE  Unmoved(v, u)
<1>1. wire'[v] = wire[v]
  BY DEF Deliver, Dies, TypeOK
<1>2. held'[v] = held[v]
  <2>1. CASE Deliver(w)
    BY <2>1 DEF Deliver, pool
  <2>2. CASE Dies(w)
    BY <2>2 DEF Dies, TypeOK
  <2> QED
    BY <2>1, <2>2
<1> QED
  BY <1>1, <1>2, UnmovedElsewhere

LEMMA DiesHere ==
  ASSUME TypeOK, NEW w \in Workers, Dies(w), NEW u \in Sessions
  PROVE  /\ held'[w][u] = None /\ wire'[w] = <<>>
         /\ \A o : ~Has(wire'[w], u, o)
<1>1. held'[w][u] = None /\ wire'[w] = <<>>
  BY DEF Dies, TypeOK
<1> QED
  BY <1>1, EmptyWire

LEMMA DeliveredHere ==
  ASSUME TypeOK, Awaited, NEW w \in Workers, Deliver(w), NEW u \in Sessions, NEW o
  PROVE  /\ held'[w][u] = held[w][u]
         /\ Has(wire[w], Head(wire[w]).ses, Head(wire[w]).op)
         /\ Has(wire'[w], u, o) => Has(wire[w], u, o)
         /\ LastIs(wire[w], u, o) =>
              \/ Head(wire[w]).ses = u /\ Head(wire[w]).op = o /\ ~Has(wire'[w], u, "add")
                 /\ ~Has(wire'[w], u, "rem")
              \/ LastIs(wire'[w], u, o)
<1>1. /\ wire[w] \in Seq(Commands) /\ wire[w] # <<>> /\ wire'[w] = Tail(wire[w])
      /\ UNCHANGED held
  BY DeliveredCall DEF Deliver, pool, TypeOK
<1>2. ASSUME LastIs(wire[w], u, o),
             ~(/\ Head(wire[w]).ses = u /\ Head(wire[w]).op = o
               /\ ~Has(wire'[w], u, "add") /\ ~Has(wire'[w], u, "rem"))
      PROVE  LastIs(wire'[w], u, o)
  <2>1. \/ Head(wire[w]).ses # u
        \/ Head(wire[w]).op # o
        \/ \E p \in {"add", "rem"} : Has(Tail(wire[w]), u, p)
    BY <1>1, <1>2
  <2>2. LastIs(Tail(wire[w]), u, o)
    BY <1>1, <1>2, <2>1, TailLast
  <2> QED
    BY <1>1, <2>2
<1>3. Has(wire[w], Head(wire[w]).ses, Head(wire[w]).op)
  BY <1>1, TailHas
<1>4. ASSUME Has(wire'[w], u, o) PROVE Has(wire[w], u, o)
  BY <1>1, <1>4, TailHas
<1>5. held'[w][u] = held[w][u]
  BY <1>1
<1> QED
  BY <1>2, <1>3, <1>4, <1>5

LEMMA KeptStep ==
  ASSUME TypeOK, Placed, Awaited, AddKept, RemKept, [Next]_vars
  PROVE  AddKept' /\ RemKept'
<1> SUFFICES ASSUME NEW w \in Workers, NEW s \in Sessions
             PROVE  /\ Has(wire'[w], s, "add") => held'[w][s] # None \/ LastIs(wire'[w], s, "rem")
                    /\ Has(wire'[w], s, "rem") => held'[w][s] = None \/ LastIs(wire'[w], s, "add")
  BY DEF AddKept, RemKept, Pending
<1>0. /\ Has(wire[w], s, "add") => held[w][s] # None \/ LastIs(wire[w], s, "rem")
      /\ Has(wire[w], s, "rem") => held[w][s] = None \/ LastIs(wire[w], s, "add")
  BY DEF AddKept, RemKept, Pending
<1>1. CASE Unmoved(w, s)
  BY <1>0, <1>1 DEF Unmoved
<1>2. CASE Joins(w, s)
  BY <1>2 DEF Joins
<1>3. CASE Leaves(w, s)
  BY <1>3 DEF Leaves
<1>4. ASSUME NEW v \in Workers, Deliver(v), v = w
      PROVE  /\ Has(wire'[w], s, "add") => held'[w][s] # None \/ LastIs(wire'[w], s, "rem")
             /\ Has(wire'[w], s, "rem") => held'[w][s] = None \/ LastIs(wire'[w], s, "add")
  BY <1>0, <1>4, DeliveredHere
<1>5. ASSUME NEW v \in Workers, Dies(v), v = w
      PROVE  /\ Has(wire'[w], s, "add") => held'[w][s] # None \/ LastIs(wire'[w], s, "rem")
             /\ Has(wire'[w], s, "rem") => held'[w][s] = None \/ LastIs(wire'[w], s, "add")
  BY <1>5, DiesHere
<1> QED
  BY <1>1, <1>2, <1>3, <1>4, <1>5, SessionCases, DeliveredElsewhere

Base == TypeOK /\ Placed /\ Awaited

LEMMA BaseInit == Init => Base
<1> SUFFICES ASSUME Init PROVE Base
  OBVIOUS
<1>1. Placed
  <2>1. \A w \in Workers, s \in Sessions :
          held[w][s] = None /\ ~Has(wire[w], s, "add") /\ ~Has(wire[w], s, "rem")
    BY EmptyWire DEF Init
  <2>2. \A r \in Requests : pc[r] = "new"
    BY DEF Init
  <2> QED
    BY <2>1, <2>2 DEF Placed
<1>2. Awaited
  BY DEF Init, Awaited, Calls
<1> QED
  BY <1>1, <1>2, TypeInit DEF Base

LEMMA BaseStep == Base /\ [Next]_vars => Base'
BY TypeStep, PlacedStep, AwaitedStep DEF Base

\* The state of the pools, the stores, the transcripts and the requests has its type in every
\* reachable state; a request that has arrived is on a worker it may go to, and the answer to
\* a count goes to the request that waits for it.
THEOREM TypeCorrect == Spec => [](TypeOK /\ Placed /\ Awaited)
<1>1. Spec => []Base
  BY BaseInit, BaseStep, PTL DEF Spec
<1>2. Base => TypeOK /\ Placed /\ Awaited
  BY DEF Base
<1> QED
  BY <1>1, <1>2, PTL

LEMMA KeptInit == Init => AddKept /\ RemKept
BY EmptyWire DEF Init, AddKept, RemKept

LEMMA KeptAlways == Spec => [](Base /\ AddKept /\ RemKept)
<1>1. Base /\ AddKept /\ RemKept /\ [Next]_vars => (AddKept /\ RemKept)'
  BY KeptStep DEF Base
<1> QED
  BY <1>1, KeptInit, BaseInit, BaseStep, PTL DEF Spec

LEMMA StoreKept ==
  ASSUME TypeOK, NEW w \in Workers, NEW v \in Workers, Deliver(w) \/ (Dies(w) /\ v # w)
  PROVE  StoreOf(v)' = StoreOf(v)
<1>1. own'[v] = own[v]
  <2>1. CASE Deliver(w)
    BY <2>1 DEF Deliver
  <2>2. CASE Dies(w) /\ v # w
    BY <2>2 DEF Dies, TypeOK
  <2> QED
    BY <2>1, <2>2
<1> QED
  BY <1>1 DEF StoreOf

LEMMA DeliveredActive ==
  ASSUME TypeOK, NEW w \in Workers, Deliver(w), NEW x \in Stores
  PROVE  /\ x # StoreOf(w) \/ Head(wire[w]).op = "count" => active'[x] = active[x]
         /\ x = StoreOf(w) /\ Head(wire[w]).op = "add" => active'[x] = active[x] \cup {Head(wire[w]).ses}
         /\ x = StoreOf(w) /\ Head(wire[w]).op = "rem" => active'[x] = active[x] \ {Head(wire[w]).ses}
         /\ Head(wire[w]).op \in {"add", "rem", "count"}
         /\ UNCHANGED lost
BY DEF Deliver, TypeOK, past

LEMMA NoLeakNext ==
  ASSUME \A x \in Stores : \A s \in active'[x] \ lost' :
           \E w \in Workers : StoreOf(w)' = x /\ (held'[w][s] # None \/ LastIs(wire'[w], s, "rem"))
  PROVE  NoLeak'
BY DEF NoLeak, Pending

LEMMA NoLeakStep ==
  ASSUME TypeOK, Placed, Awaited, AddKept, NoLeak, [Next]_vars
  PROVE  NoLeak'
<1> SUFFICES \A x \in Stores : \A s \in active'[x] \ lost' :
      \E w \in Workers : StoreOf(w)' = x /\ (held'[w][s] # None \/ LastIs(wire'[w], s, "rem"))
  BY NoLeakNext
<1> TAKE x \in Stores
<1> TAKE s \in active'[x] \ lost'
<1> DEFINE Home ==
      \E w \in Workers : StoreOf(w)' = x /\ (held'[w][s] # None \/ LastIs(wire'[w], s, "rem"))
<1> SUFFICES Home
  OBVIOUS
<1>0. s \in Sessions
  BY TypeStep DEF TypeOK
<1>a. ASSUME s \in active[x], s \notin lost
      PROVE  \E v \in Workers : StoreOf(v) = x /\ (held[v][s] # None \/ LastIs(wire[v], s, "rem"))
  BY <1>a DEF NoLeak, Pending
<1>1. ASSUME NEW v \in Workers, Deliver(v)
      PROVE  Home
  <2> DEFINE c == Head(wire[v])
  <2>1. \A w \in Workers : StoreOf(w)' = StoreOf(w)
    BY <1>1, StoreKept
  <2>2. CASE x = StoreOf(v) /\ c.op = "add" /\ c.ses = s
    <3>1. Has(wire[v], s, "add")
      BY <1>1, <1>0, <2>2, DeliveredHere
    <3>2. held[v][s] # None \/ LastIs(wire[v], s, "rem")
      BY <3>1, <1>0 DEF AddKept, Pending
    <3>3. "add" # "rem"
      OBVIOUS
    <3>4. held'[v][s] # None \/ LastIs(wire'[v], s, "rem")
      BY <1>0, <1>1, <2>2, <3>2, <3>3, DeliveredHere
    <3> QED
      BY <2>1, <2>2, <3>4
  <2>3. CASE ~(x = StoreOf(v) /\ c.op = "add" /\ c.ses = s)
    <3>1. /\ s \in active[x] /\ s \notin lost
          /\ ~(x = StoreOf(v) /\ c.op = "rem" /\ c.ses = s)
      BY <1>1, <2>3, DeliveredActive
    <3>2. PICK w \in Workers : StoreOf(w) = x /\ (held[w][s] # None \/ LastIs(wire[w], s, "rem"))
      BY <1>a, <3>1
    <3>3. held'[w][s] # None \/ LastIs(wire'[w], s, "rem")
      <4>1. CASE w = v
        BY <1>0, <1>1, <3>1, <3>2, <4>1, DeliveredHere
      <4>2. CASE w # v
        BY <1>1, <3>2, <4>2, DeliveredElsewhere DEF Unmoved
      <4> QED
        BY <4>1, <4>2
    <3> QED
      BY <2>1, <3>2, <3>3
  <2> QED
    BY <2>2, <2>3
<1>2. ASSUME NEW v \in Workers, Dies(v)
      PROVE  Home
  <2>1. /\ active' = [active EXCEPT ![v] = {}]
        /\ lost' = lost \cup {u \in Sessions : held[v][u] # None}
                       \cup {wire[v][i].ses : i \in {j \in DOMAIN wire[v] : wire[v][j].op # "count"}}
    BY <1>2 DEF Dies
  <2>2. s \in active[x] /\ s \notin lost
    BY <2>1 DEF TypeOK
  <2>3. PICK w \in Workers : StoreOf(w) = x /\ (held[w][s] # None \/ LastIs(wire[w], s, "rem"))
    BY <1>a, <2>2
  <2>4. w # v
    <3>1. SUFFICES ASSUME w = v PROVE FALSE
      OBVIOUS
    <3>2. held[v][s] = None
      BY <1>0, <2>1
    <3>3. PICK i \in DOMAIN wire[v] : wire[v][i].ses = s /\ wire[v][i].op = "rem"
      BY <2>3, <3>1, <3>2 DEF LastIs
    <3> QED
      BY <2>1, <3>3
  <2>5. held'[w][s] # None \/ LastIs(wire'[w], s, "rem")
    BY <1>2, <2>3, <2>4, DeliveredElsewhere DEF Unmoved
  <2>6. StoreOf(w)' = StoreOf(w)
    BY <1>2, <2>4, StoreKept
  <2> QED
    BY <2>3, <2>5, <2>6
<1>3. ASSUME ~\E v \in Workers : Deliver(v) \/ Dies(v) PROVE Home
  <2>1. UNCHANGED <<active, own, lost>>
    BY <1>3, StoreSame
  <2>2. PICK w \in Workers : StoreOf(w) = x /\ (held[w][s] # None \/ LastIs(wire[w], s, "rem"))
    BY <1>a, <2>1
  <2>3. held'[w][s] # None \/ LastIs(wire'[w], s, "rem")
    BY <1>0, <1>3, <2>2, SessionCases DEF Unmoved, Joins, Leaves
  <2>4. StoreOf(w)' = StoreOf(w)
    BY <2>1 DEF StoreOf
  <2> QED
    BY <2>2, <2>3, <2>4
<1> HIDE DEF Home
<1> QED
  BY <1>1, <1>2, <1>3

LEMMA AccountedStep ==
  ASSUME TypeOK, Placed, Awaited, RemKept, Accounted, [Next]_vars
  PROVE  Accounted'
<1> SUFFICES ASSUME NEW w \in Workers, NEW s \in Sessions, held'[w][s] # None, Route[s] = {w}
             PROVE  s \in active'[StoreOf(w)'] \/ LastIs(wire'[w], s, "add")
  BY DEF Accounted, Pending
<1>a. held[w][s] # None => s \in active[StoreOf(w)] \/ LastIs(wire[w], s, "add")
  BY DEF Accounted, Pending
<1>1. ASSUME NEW v \in Workers, Deliver(v)
      PROVE  s \in active'[StoreOf(w)'] \/ LastIs(wire'[w], s, "add")
  <2> DEFINE c == Head(wire[v])
  <2>1. StoreOf(w)' = StoreOf(w) /\ StoreOf(w) \in Stores
    BY <1>1, StoreKept, StoreTyped
  <2>2. held[w][s] # None
    <3>1. CASE v = w
      BY <1>1, <3>1, DeliveredHere
    <3>2. CASE v # w
      BY <1>1, <3>2, DeliveredElsewhere DEF Unmoved
    <3> QED
      BY <3>1, <3>2
  <2>3. CASE LastIs(wire[w], s, "add")
    <3>1. CASE v = w
      <4>1. CASE c.ses = s /\ c.op = "add"
        <5>1. s \in active'[StoreOf(w)]
          BY <1>1, <2>1, <3>1, <4>1, DeliveredActive
        <5> QED
          BY <2>1, <5>1
      <4>2. CASE ~(c.ses = s /\ c.op = "add")
        BY <1>1, <2>3, <3>1, <4>2, DeliveredHere
      <4> QED
        BY <4>1, <4>2
    <3>2. CASE v # w
      BY <1>1, <2>3, <3>2, DeliveredElsewhere DEF Unmoved
    <3> QED
      BY <3>1, <3>2
  <2>4. CASE ~LastIs(wire[w], s, "add")
    <3>1. s \in active[StoreOf(w)]
      BY <1>a, <2>2, <2>4
    <3>2. ~(c.op = "rem" /\ c.ses = s)
      <4>1. SUFFICES ASSUME c.op = "rem", c.ses = s PROVE FALSE
        OBVIOUS
      <4>2. Has(wire[v], s, "rem")
        BY <1>1, <4>1, DeliveredHere
      <4>3. v = w
        BY <4>2 DEF Placed
      <4> QED
        BY <2>2, <2>4, <4>2, <4>3 DEF RemKept, Pending
    <3>3. s \in active'[StoreOf(w)]
      BY <1>1, <2>1, <3>1, <3>2, DeliveredActive
    <3> QED
      BY <2>1, <3>3
  <2> QED
    BY <2>3, <2>4
<1>2. ASSUME NEW v \in Workers, Dies(v)
      PROVE  s \in active'[StoreOf(w)'] \/ LastIs(wire'[w], s, "add")
  <2>1. v # w
    BY <1>2, DiesHere
  <2>2. Unmoved(w, s) /\ StoreOf(w)' = StoreOf(w)
    BY <1>2, <2>1, DeliveredElsewhere, StoreKept
  <2>3. active'[StoreOf(w)] = active[StoreOf(w)]
    <3>1. StoreOf(w) \in Stores /\ StoreOf(w) # v
      BY <2>1, StoreTyped, ServerAssumption DEF ServerAssumption
    <3>2. active' = [active EXCEPT ![v] = {}]
      BY <1>2 DEF Dies
    <3> QED
      BY <3>1, <3>2 DEF TypeOK
  <2> QED
    BY <1>a, <2>2, <2>3 DEF Unmoved
<1>3. CASE ~\E v \in Workers : Deliver(v) \/ Dies(v)
  <2>1. /\ UNCHANGED <<active, own, lost>>
        /\ Unmoved(w, s) \/ Joins(w, s) \/ Leaves(w, s)
    BY <1>3, SessionCases
  <2>2. StoreOf(w)' = StoreOf(w)
    BY <2>1 DEF StoreOf
  <2> QED
    BY <1>a, <2>1, <2>2 DEF Unmoved, Joins, Leaves
<1> QED
  BY <1>1, <1>2, <1>3

\* No order of creations, overwritten engines, deletions, expiries and shutdowns leaks a slot
\* of the quota: a session that counts is in some pool, or its removal is on its way, or a
\* worker died with it, for any number of workers and any routing.
THEOREM SlotsNotLeaked == Spec => []NoLeak
<1>1. Init => NoLeak
  BY DEF Init, NoLeak
<1>2. Base /\ AddKept /\ RemKept /\ NoLeak /\ [Next]_vars => NoLeak'
  BY NoLeakStep DEF Base
<1> QED
  BY <1>1, <1>2, KeptAlways, PTL DEF Spec

\* A session that its one worker has in the pool counts against the quota, or will as soon as
\* what is on its way has arrived: no delivery of an older removal takes it out again.
THEOREM SessionsAccounted == Spec => []Accounted
<1>1. Init => Accounted
  BY DEF Init, Accounted
<1>2. Base /\ AddKept /\ RemKept /\ Accounted /\ [Next]_vars => Accounted'
  BY AccountedStep DEF Base
<1> QED
  BY <1>1, <1>2, KeptAlways, PTL DEF Spec

-----------------------------------------------------------------------------
(* The quota *)

\* A session that is on its way into a store: a request that has passed the quota is opening
\* it, or its registration has been sent.
Comes(x, u) ==
  \/ \E t \in Requests : ses[t] = u /\ pc[t] \in Opening /\ StoreOf(on[t]) = x
  \/ \E w \in Workers : StoreOf(w) = x /\ Has(wire[w], u, "add")

\* The sessions that the quota answers for: they are in the store or come into it, and the last
\* request that opened them was checked, alone.
Guarded(x) == {u \in Sessions : u \notin unguarded[x] /\ (u \in active[x] \/ Comes(x, u))}
WithinLimit == \A x \in Stores : Cardinality(Guarded(x)) <= MaxSessions

\* A count at a store that lets its request through.
Passes(w, x, s) ==
  /\ Deliver(w) /\ StoreOf(w) = x /\ HasSlot(x)
  /\ Head(wire[w]).op = "count" /\ Head(wire[w]).ses = s

LEMMA NotComing ==
  ASSUME TypeOK, Awaited, NEW x \in Stores, NEW s, ~Racing(x, s),
         NEW u \in Sessions, u \notin unguarded[x], u # s
  PROVE  ~Comes(x, u)
<1>1. ASSUME NEW t \in Requests, ses[t] = u, pc[t] \in Opening, StoreOf(on[t]) = x PROVE FALSE
  BY <1>1 DEF Racing
<1>2. ASSUME NEW w \in Workers, StoreOf(w) = x, Has(wire[w], u, "add") PROVE FALSE
  <2>1. PICK i \in DOMAIN wire[w] : wire[w][i].ses = u /\ wire[w][i].op = "add"
    BY <1>2 DEF Has
  <2>2. wire[w][i].by = None
    BY <2>1 DEF Awaited, Calls
  <2>3. wire[w][i] \in Commands
    BY LenProperties, ElementOfSeq DEF TypeOK
  <2>4. wire[w][i] = Command("add", u, None)
    BY <2>1, <2>2, <2>3 DEF Commands, Command
  <2> QED
    BY <1>2, <2>4 DEF Racing
<1> QED
  BY <1>1, <1>2 DEF Comes

LEMMA OpeningBefore ==
  ASSUME TypeOK, NEW r \in Requests, Step(r), pc'[r] \in Opening
  PROVE  pc[r] \in Opening /\ UNCHANGED own
<1> USE DEF store, Opening
<1>1. CASE Get(r)
  BY <1>1 DEF Get
<1>2. CASE Loaded(r) \/ NotFound(r)
  BY <1>2 DEF Loaded, NotFound
<1>3. CASE LoadFails(r)
  BY <1>3 DEF LoadFails
<1>4. CASE CreateFails(r)
  BY <1>4 DEF CreateFails
<1>5. CASE Created(r)
  BY <1>5 DEF Created
<1>6. CASE Answered(r)
  BY <1>6 DEF Answered, Goto, TypeOK
<1>7. CASE RunFails(r) \/ Ends(r)
  BY <1>7 DEF RunFails, Ends, Goto, TypeOK
<1> QED
  BY <1>1, <1>2, <1>3, <1>4, <1>5, <1>6, <1>7 DEF Step

\* A worker's store changes only when the worker dies.
LEMMA OwnKept ==
  ASSUME TypeOK, Placed, [Next]_vars, NEW w \in Workers
  PROVE  own'[w] = own[w] \/ Dies(w)
<1>1. ASSUME NEW v \in Workers, Dies(v) PROVE own'[w] = own[w] \/ Dies(w)
  <2>1. own' = own \/ own' = [own EXCEPT ![v] = ~@]
    BY <1>1 DEF Dies
  <2>2. CASE v = w
    BY <1>1, <2>2
  <2>3. CASE v # w
    BY <2>1, <2>3 DEF TypeOK
  <2> QED
    BY <2>2, <2>3
<1>2. ASSUME NEW v \in Workers, Deliver(v) PROVE own'[w] = own[w]
  BY <1>2 DEF Deliver
<1> QED
  BY <1>1, <1>2, StoreSame

LEMMA AddSentBefore ==
  ASSUME TypeOK, Placed, Awaited, [Next]_vars, NEW w \in Workers, NEW u \in Sessions,
         Has(wire'[w], u, "add")
  PROVE  Has(wire[w], u, "add") \/ \E r \in Requests : on[r] = w /\ ses[r] = u /\ pc[r] \in Opening
<1>0. wire[w] \in Seq(Commands)
  BY DEF TypeOK
<1>1. ASSUME NEW v \in Workers, NEW c \in Commands, Sends(v, c), c.op # "add"
      PROVE  Has(wire[w], u, "add")
  <2>1. CASE v = w
    <3>1. wire'[w] = Append(wire[w], c)
      BY <1>1, <2>1 DEF Sends, TypeOK
    <3> QED
      BY <1>0, <1>1, <3>1, AppendHas
  <2>2. CASE v # w
    BY <1>1, <2>2 DEF Sends, TypeOK
  <2> QED
    BY <2>1, <2>2
<1>2. ASSUME NEW r \in Requests, Created(r)
      PROVE  Has(wire[w], u, "add") \/ (on[r] = w /\ ses[r] = u /\ pc[r] \in Opening)
  <2> DEFINE v == on[r] c == Registration(r)
  <2>1. v \in Workers /\ c \in Commands /\ c.op = "add" /\ c.ses = ses[r] /\ Sends(v, c)
    BY <1>2, CreatedSends
  <2>2. pc[r] \in Opening
    BY <1>2 DEF Created, Opening
  <2>3. CASE v = w
    <3>1. wire'[w] = Append(wire[w], c)
      BY <2>1, <2>3 DEF Sends, TypeOK
    <3>2. Has(wire[w], u, "add") \/ c.ses = u
      BY <1>0, <2>1, <3>1, AppendHas
    <3> QED
      BY <2>1, <2>2, <2>3, <3>2
  <2>4. CASE v # w
    <3> HIDE DEF v, c
    <3>1. wire'[w] = wire[w]
      BY <2>1, <2>4 DEF Sends, TypeOK
    <3> QED
      BY <3>1
  <2> QED
    BY <2>3, <2>4
<1>3. ASSUME NEW r \in Requests, NEW s \in Sessions, NEW v \in Workers, Sends(v, Command("count", s, r))
      PROVE  Has(wire[w], u, "add")
  BY <1>1, <1>3, CommandTyped
<1>4. ASSUME NEW v \in Workers, NEW s \in Sessions, Close(v, s) PROVE Has(wire[w], u, "add")
  BY <1>1, <1>4, CloseSends
<1>5. ASSUME NEW v \in Workers, Shutdown(v) PROVE Has(wire[w], u, "add")
  <2>1. PICK p \in Seq(Commands) :
          /\ wire' = [wire EXCEPT ![v] = wire[v] \o p]
          /\ \A i \in DOMAIN p : p[i].op = "rem" /\ p[i].by = None /\ held[v][p[i].ses] # None
    BY <1>5, ShutdownWire
  <2>2. CASE v = w
    <3>1. wire'[w] = wire[w] \o p
      BY <2>1, <2>2 DEF TypeOK
    <3>2. ~Has(p, u, "add")
      BY <2>1 DEF Has
    <3> QED
      BY <1>0, <3>1, <3>2, ConcatHas
  <2>3. CASE v # w
    BY <2>1, <2>3 DEF TypeOK
  <2> QED
    BY <2>2, <2>3
<1>6. ASSUME NEW v \in Workers, Deliver(v) \/ Dies(v) PROVE Has(wire[w], u, "add")
  <2>1. CASE v = w
    BY <1>6, <2>1, DeliveredHere, DiesHere
  <2>2. CASE v # w
    BY <1>6, <2>2, DeliveredElsewhere DEF Unmoved
  <2> QED
    BY <2>1, <2>2
<1> QED
  BY <1>2, <1>3, <1>4, <1>5, <1>6, PoolCases

LEMMA ComesBefore ==
  ASSUME TypeOK, Placed, Awaited, [Next]_vars, NEW x \in Stores, NEW u \in Sessions,
         Comes(x, u)', u \notin unguarded'[x]
  PROVE  Comes(x, u) \/ \E w \in Workers : Passes(w, x, u)
<1>1. ASSUME NEW t \in Requests, ses'[t] = u, pc'[t] \in Opening,
             (IF own'[on'[t]] THEN on'[t] ELSE Redis) = x
      PROVE  Comes(x, u) \/ \E w \in Workers : Passes(w, x, u)
  <2>1. ~\E k \in Kinds, s \in Sessions, w \in Workers : Arrive(t, k, s, w)
    <3>1. SUFFICES ASSUME NEW k \in Kinds, NEW s \in Sessions, NEW w \in Workers, Arrive(t, k, s, w)
                   PROVE  FALSE
      OBVIOUS
    <3>2. pc'[t] # "counting"
      BY <1>1 DEF Opening
    <3>3. unguarded' = [unguarded EXCEPT ![StoreOf(w)] = @ \cup {s}]
      BY <3>1, <3>2 DEF Arrive, Goto, TypeOK
    <3>4. s = u /\ on'[t] = w /\ UNCHANGED own
      BY <1>1, <3>1 DEF Arrive, TypeOK
    <3>5. StoreOf(w) = x
      BY <1>1, <3>4 DEF StoreOf
    <3> QED
      BY <3>3, <3>4, <3>5 DEF TypeOK
  <2>2. ses'[t] = ses[t] /\ on'[t] = on[t]
    BY <2>1, RequestCases
  <2>3. CASE pc[t] \in Opening
    <3>1. on[t] \in Workers
      BY <2>3, PlacedOn DEF Opening
    <3>2. pc[t] \in Waiting /\ "died" \notin Opening
      BY <2>3 DEF Opening, Waiting
    <3>3. ~Dies(on[t])
      BY <1>1, <3>1, <3>2 DEF Dies, TypeOK
    <3>4. StoreOf(on[t]) = x
      BY <1>1, <2>2, <3>1, <3>3, OwnKept DEF StoreOf
    <3> QED
      BY <1>1, <2>2, <2>3, <3>4 DEF Comes
  <2>4. CASE pc[t] \notin Opening
    <3>1. PICK w \in Workers : Deliver(w) /\ Head(wire[w]).op = "count" /\ Head(wire[w]).by = t
      BY <1>1, <2>1, <2>4, RequestCases, OpeningBefore DEF Opening
    <3>2. ses[t] = Head(wire[w]).ses /\ on[t] = w
      BY <3>1, DeliveredCall
    <3>3. StoreOf(w) = x
      <4>1. UNCHANGED own
        BY <3>1 DEF Deliver
      <4> QED
        BY <1>1, <2>2, <3>2, <4>1 DEF StoreOf
    <3>4. HasSlot(x)
      <4>1. SUFFICES ASSUME ~HasSlot(x) PROVE FALSE
        OBVIOUS
      <4>2. Goto(t, "refused")
        BY <3>1, <3>3, <4>1 DEF Deliver
      <4> QED
        BY <1>1, <4>2 DEF Goto, TypeOK, Opening
    <3> QED
      BY <1>1, <2>2, <3>1, <3>2, <3>3, <3>4 DEF Passes
  <2> QED
    BY <2>3, <2>4
<1>2. ASSUME NEW w \in Workers, (IF own'[w] THEN w ELSE Redis) = x, Has(wire'[w], u, "add")
      PROVE  Comes(x, u)
  <2>1. ~Dies(w)
    BY <1>2, DiesHere
  <2>2. StoreOf(w) = x
    BY <1>2, <2>1, OwnKept DEF StoreOf
  <2> QED
    BY <1>2, <2>2, AddSentBefore DEF Comes
<1>3. \/ \E t \in Requests : /\ ses'[t] = u /\ pc'[t] \in Opening
                             /\ (IF own'[on'[t]] THEN on'[t] ELSE Redis) = x
      \/ \E w \in Workers : (IF own'[w] THEN w ELSE Redis) = x /\ Has(wire'[w], u, "add")
  BY DEF Comes, StoreOf
<1> QED
  BY <1>1, <1>2, <1>3

LEMMA UnguardedBefore ==
  ASSUME TypeOK, Placed, Awaited, [Next]_vars, NEW x \in Stores, NEW u \in Sessions,
         u \notin unguarded'[x]
  PROVE  u \notin unguarded[x] \/ \E w \in Workers : Passes(w, x, u)
<1>1. ASSUME NEW r \in Requests, NEW k \in Kinds, NEW s \in Sessions, NEW w \in Workers,
             Arrive(r, k, s, w)
      PROVE  u \notin unguarded[x]
  <2>1. unguarded' = unguarded \/ unguarded' = [unguarded EXCEPT ![StoreOf(w)] = @ \cup {s}]
    BY <1>1 DEF Arrive
  <2> QED
    BY <2>1 DEF TypeOK
<1>2. ASSUME NEW r \in Requests, Step(r) PROVE u \notin unguarded[x]
  <2>1. UNCHANGED unguarded
    <3>1. CASE Get(r) \/ Loaded(r) \/ NotFound(r) \/ LoadFails(r)
      BY <3>1 DEF Get, Loaded, NotFound, LoadFails, past
    <3>2. CASE Created(r) \/ CreateFails(r) \/ Answered(r)
      BY <3>2 DEF Created, CreateFails, Answered, past
    <3>3. CASE RunFails(r) \/ Ends(r)
      BY <3>3 DEF RunFails, Ends, past
    <3> QED
      BY <1>2, <3>1, <3>2, <3>3 DEF Step
  <2> QED
    BY <2>1
<1>3. ASSUME NEW w \in Workers, Deliver(w)
      PROVE  u \notin unguarded[x] \/ Passes(w, x, u)
  <2> DEFINE c == Head(wire[w]) y == StoreOf(w)
  <2>1. CASE UNCHANGED unguarded
    BY <2>1
  <2>2. CASE /\ c.op = "count" /\ HasSlot(y)
             /\ unguarded' = [unguarded EXCEPT ![y] = IF Racing(y, c.ses) THEN @ \cup {c.ses} ELSE @ \ {c.ses}]
    <3>1. CASE x = y /\ c.ses = u
      BY <1>3, <2>2, <3>1 DEF Passes
    <3>2. CASE ~(x = y /\ c.ses = u)
      BY <2>2, <3>2 DEF TypeOK
    <3> QED
      BY <3>1, <3>2
  <2> QED
    BY <1>3, <2>1, <2>2 DEF Deliver
<1>4. ASSUME NEW w \in Workers, NEW s \in Sessions, Close(w, s) \/ Flush(w, s) PROVE u \notin unguarded[x]
  BY <1>4 DEF Close, Flush, past
<1>5. ASSUME NEW w \in Workers, Shutdown(w) \/ Dies(w) PROVE u \notin unguarded[x]
  BY <1>5 DEF Shutdown, Dies
<1>6. ASSUME UNCHANGED vars PROVE u \notin unguarded[x]
  BY <1>6 DEF vars, past
<1> QED
  BY <1>1, <1>2, <1>3, <1>4, <1>5, <1>6, NextCases

LEMMA ActiveBefore ==
  ASSUME TypeOK, Placed, Awaited, [Next]_vars, NEW x \in Stores, NEW u \in Sessions, u \in active'[x]
  PROVE  u \in active[x] \/ Comes(x, u)
<1>1. ASSUME NEW w \in Workers, Deliver(w) PROVE u \in active[x] \/ Comes(x, u)
  <2>1. CASE x = StoreOf(w) /\ Head(wire[w]).op = "add" /\ Head(wire[w]).ses = u
    <3>1. Has(wire[w], u, "add")
      BY <1>1, <2>1, DeliveredHere
    <3> QED
      BY <2>1, <3>1 DEF Comes
  <2>2. CASE ~(x = StoreOf(w) /\ Head(wire[w]).op = "add" /\ Head(wire[w]).ses = u)
    BY <1>1, <2>2, DeliveredActive
  <2> QED
    BY <2>1, <2>2
<1>2. ASSUME NEW w \in Workers, Dies(w) PROVE u \in active[x]
  BY <1>2 DEF Dies, TypeOK
<1> QED
  BY <1>1, <1>2, StoreSame

\* A session the quota answers for was one before, unless it has just passed.
LEMMA GuardedBefore ==
  ASSUME TypeOK, Placed, Awaited, [Next]_vars, NEW x \in Stores, NEW u \in Guarded(x)'
  PROVE  u \in Guarded(x) \/ \E w \in Workers : Passes(w, x, u)
<1>1. u \in Sessions /\ u \notin unguarded'[x] /\ (u \in active'[x] \/ Comes(x, u)')
  BY DEF Guarded
<1>2. u \notin unguarded[x] \/ \E w \in Workers : Passes(w, x, u)
  BY <1>1, UnguardedBefore
<1>3. u \in active[x] \/ Comes(x, u) \/ \E w \in Workers : Passes(w, x, u)
  BY <1>1, ActiveBefore, ComesBefore
<1> QED
  BY <1>1, <1>2, <1>3 DEF Guarded

LEMMA GuardedFinite ==
  ASSUME NEW S, S \subseteq Sessions
  PROVE  IsFiniteSet(S) /\ Cardinality(S) \in Nat
BY FS_Subset, FS_CardinalityType, ServerAssumption DEF ServerAssumption

\* A count that finds a slot, while nobody else is coming, leaves the store within the limit.
LEMMA PassesWithin ==
  ASSUME TypeOK, Placed, Awaited, [Next]_vars, NEW x \in Stores, WithinLimit,
         NEW w \in Workers, NEW s \in Sessions, Passes(w, x, s)
  PROVE  Cardinality(Guarded(x)') <= MaxSessions
<1>0. /\ Guarded(x)' \subseteq Sessions /\ Guarded(x) \subseteq Sessions
      /\ active[x] \subseteq Sessions /\ MaxSessions \in Nat
  BY ServerAssumption DEF Guarded, TypeOK, ServerAssumption
<1>1. \A u \in Sessions : (\E v \in Workers : Passes(v, x, u)) => u = s
  <2> SUFFICES ASSUME NEW v \in Workers, NEW u \in Sessions, Passes(v, x, u) PROVE u = s
    OBVIOUS
  <2>1. v = w
    <3>1. SUFFICES ASSUME v # w PROVE FALSE
      OBVIOUS
    <3>2. /\ wire' = [wire EXCEPT ![w] = Tail(wire[w])] /\ wire' = [wire EXCEPT ![v] = Tail(wire[v])]
          /\ wire[w] \in Seq(Commands) /\ wire[w] # <<>>
      BY DeliveredCall DEF Passes
    <3>3. Tail(wire[w]) = wire[w]
      BY <3>1, <3>2 DEF TypeOK
    <3>4. Len(Tail(wire[w])) = Len(wire[w]) - 1
      BY <3>2, HeadTailProperties
    <3>5. Len(wire[w]) \in Nat
      BY <3>2, LenProperties
    <3>6. Len(wire[w]) = Len(wire[w]) - 1
      BY <3>3, <3>4
    <3> QED
      BY <3>5, <3>6
  <2> QED
    BY <2>1 DEF Passes
<1>2. /\ unguarded'[x] = IF Racing(x, s) THEN unguarded[x] \cup {s} ELSE unguarded[x] \ {s}
      /\ HasSlot(x)
  BY DEF Passes, Deliver, TypeOK
<1>3. CASE Racing(x, s)
  <2>1. Guarded(x)' \subseteq Guarded(x)
    <3> SUFFICES ASSUME NEW u \in Guarded(x)' PROVE u \in Guarded(x)
      OBVIOUS
    <3>1. u \in Sessions /\ u \notin unguarded'[x]
      BY DEF Guarded
    <3>2. u # s
      BY <1>2, <1>3, <3>1
    <3> QED
      BY <1>1, <3>1, <3>2, GuardedBefore
  <2>2. Cardinality(Guarded(x)') <= Cardinality(Guarded(x)) /\ Cardinality(Guarded(x)) <= MaxSessions
    BY <1>0, <2>1, GuardedFinite, FS_Subset DEF WithinLimit
  <2>3. Cardinality(Guarded(x)') \in Nat /\ Cardinality(Guarded(x)) \in Nat
    BY <1>0, GuardedFinite
  <2> QED
    BY <1>0, <2>2, <2>3
<1>4. CASE ~Racing(x, s)
  <2>1. Guarded(x)' \subseteq active[x] \cup {s}
    <3> SUFFICES ASSUME NEW u \in Guarded(x)', u # s PROVE u \in active[x]
      OBVIOUS
    <3>1. u \in Sessions /\ u \in Guarded(x)
      <4>1. u \in Sessions
        BY DEF Guarded
      <4> QED
        BY <1>1, <4>1, GuardedBefore
    <3>2. u \notin unguarded[x] /\ (u \in active[x] \/ Comes(x, u))
      BY <3>1 DEF Guarded
    <3> QED
      BY <1>4, <3>1, <3>2, NotComing
  <2>2. IsFiniteSet(active[x]) /\ Cardinality(active[x]) \in Nat
    BY <1>0, GuardedFinite
  <2>3. /\ IsFiniteSet(active[x] \cup {s})
        /\ Cardinality(active[x] \cup {s}) <= Cardinality(active[x]) + 1
        /\ Cardinality(active[x] \cup {s}) \in Nat
    <3>1. /\ IsFiniteSet(active[x] \cup {s})
          /\ \/ Cardinality(active[x] \cup {s}) = Cardinality(active[x])
             \/ Cardinality(active[x] \cup {s}) = Cardinality(active[x]) + 1
      BY <2>2, FS_AddElement
    <3> QED
      BY <2>2, <3>1
  <2>4. Cardinality(Guarded(x)') <= Cardinality(active[x] \cup {s}) /\ Cardinality(Guarded(x)') \in Nat
    BY <1>0, <2>1, <2>3, FS_Subset, GuardedFinite
  <2>5. Cardinality(active[x]) < MaxSessions
    BY <1>2 DEF HasSlot
  <2> QED
    BY <1>0, <2>2, <2>3, <2>4, <2>5
<1> QED
  BY <1>3, <1>4

LEMMA WithinLimitStep ==
  ASSUME TypeOK, Placed, Awaited, WithinLimit, [Next]_vars
  PROVE  WithinLimit'
<1> SUFFICES ASSUME NEW x \in Stores PROVE Cardinality(Guarded(x)') <= MaxSessions
  BY DEF WithinLimit
<1>1. CASE \E w \in Workers, s \in Sessions : Passes(w, x, s)
  BY <1>1, PassesWithin
<1>2. CASE ~\E w \in Workers, s \in Sessions : Passes(w, x, s)
  <2>1. Guarded(x)' \subseteq Sessions /\ Guarded(x) \subseteq Sessions /\ MaxSessions \in Nat
    BY ServerAssumption DEF Guarded, ServerAssumption
  <2>2. Guarded(x)' \subseteq Guarded(x)
    BY <1>2, <2>1, GuardedBefore
  <2>3. Cardinality(Guarded(x)') <= Cardinality(Guarded(x)) /\ Cardinality(Guarded(x)) <= MaxSessions
    BY <2>1, <2>2, GuardedFinite, FS_Subset DEF WithinLimit
  <2>4. Cardinality(Guarded(x)') \in Nat /\ Cardinality(Guarded(x)) \in Nat
    BY <2>1, GuardedFinite
  <2> QED
    BY <2>1, <2>3, <2>4
<1> QED
  BY <1>1, <1>2

LEMMA WithinLimitInit == Init => WithinLimit
<1> SUFFICES ASSUME Init, NEW x \in Stores PROVE Cardinality(Guarded(x)) <= MaxSessions
  BY DEF WithinLimit
<1>1. active[x] = {} /\ \A r \in Requests : pc[r] \notin Opening
  BY DEF Init, Opening
<1>2. \A w \in Workers, u \in Sessions : ~Has(wire[w], u, "add")
  BY EmptyWire DEF Init
<1>3. Guarded(x) = {}
  BY <1>1, <1>2 DEF Guarded, Comes
<1> QED
  BY <1>3, FS_EmptySet, ServerAssumption DEF ServerAssumption

\* The limit of concurrent sessions is exceeded only by sessions that were opened without the
\* quota check, or that passed it beside another one: for any number of workers, sessions and
\* requests, whatever the order in which counts and registrations reach the store.
THEOREM LimitSafe == Spec => []LimitKept
<1>1. Base /\ WithinLimit /\ [Next]_vars => WithinLimit'
  BY WithinLimitStep DEF Base
<1>2. Base /\ WithinLimit => LimitKept
  <2> SUFFICES ASSUME TypeOK, WithinLimit, NEW x \in Stores
               PROVE  Cardinality(active[x] \ unguarded[x]) <= MaxSessions
    BY DEF Base, LimitKept
  <2>1. active[x] \ unguarded[x] \subseteq Guarded(x) /\ Guarded(x) \subseteq Sessions
    BY DEF Guarded, TypeOK
  <2>2. /\ Cardinality(active[x] \ unguarded[x]) <= Cardinality(Guarded(x))
        /\ Cardinality(Guarded(x)) <= MaxSessions
    BY <2>1, GuardedFinite, FS_Subset DEF WithinLimit
  <2>3. Cardinality(active[x] \ unguarded[x]) \in Nat /\ Cardinality(Guarded(x)) \in Nat /\ MaxSessions \in Nat
    BY <2>1, GuardedFinite, ServerAssumption DEF ServerAssumption
  <2> QED
    BY <2>2, <2>3
<1> QED
  BY <1>1, <1>2, BaseInit, BaseStep, WithinLimitInit, PTL DEF Spec

-----------------------------------------------------------------------------
(* What an engine remembers *)

Made(e) == pc[e] \in {"run", "flush", "ended", "refused", "died"}

\* Engines in a pool or in use have been made, and a message that runs has one.
Engines ==
  /\ \A w \in Workers, s \in Sessions : held[w][s] # None => Made(held[w][s])
  /\ \A r \in Requests : eng[r] # None => Made(eng[r])
  /\ \A r \in Requests : pc[r] = "run" => eng[r] # None

\* Two requests of a session that wait at the same time have disturbed it.
Alone == \A r, t \in Requests :
  r # t /\ pc[r] \in Waiting /\ pc[t] \in Waiting /\ ses[r] = ses[t] => ses[r] \in disturbed

\* A message that has ended is in the transcript; one that has been answered is in it or in
\* the queue of the writer.
Written == \A m \in Requests : kind[m] = "message" =>
  /\ pc[m] = "ended" => m \in disk[ses[m]]
  /\ pc[m] = "flush" => m \in disk[ses[m]] \cup queued[on[m]][ses[m]]

\* A message of the session that has been answered.
Said(m, s) == kind[m] = "message" /\ ses[m] = s /\ pc[m] \in {"flush", "ended"}

\* What has been said in an undisturbed session is known to the engine in the pool, to the
\* transcript a request has loaded and to the engine a message runs on; an engine made
\* from nothing is made when nothing has been said.
PoolKnows == \A w \in Workers, s \in Sessions, m \in Requests :
  held[w][s] # None /\ Route[s] = {w} /\ s \notin disturbed /\ Said(m, s) => m \in known[held[w][s]]
CopyKnows == \A r, m \in Requests :
  pc[r] = "rehydrating" /\ ses[r] \notin disturbed /\ Said(m, ses[r]) => m \in copy[r]
FirstOf == \A r, m \in Requests :
  /\ pc[r] = "creating" \/ (kind[r] = "create" /\ pc[r] = "counting")
  /\ ses[r] \notin disturbed
  => ~Said(m, ses[r])
RunKnows == \A r, m \in Requests :
  /\ pc[r] = "run" /\ Route[ses[r]] = {on[r]} /\ ses[r] \notin disturbed
  => /\ held[on[r]][ses[r]] \in {None, eng[r]}
     /\ Said(m, ses[r]) => m \in known[eng[r]]

LEMMA DisturbedGrows ==
  ASSUME [Next]_vars
  PROVE  disturbed \subseteq disturbed'
<1> USE DEF past
<1>1. ASSUME NEW r \in Requests, NEW k \in Kinds, NEW s \in Sessions, NEW w \in Workers,
             Arrive(r, k, s, w)
      PROVE  disturbed \subseteq disturbed'
  BY <1>1 DEF Arrive
<1>2. ASSUME NEW r \in Requests, Step(r) PROVE disturbed \subseteq disturbed'
  <2>1. CASE Get(r) \/ Loaded(r) \/ NotFound(r) \/ LoadFails(r)
    BY <2>1 DEF Get, Loaded, NotFound, LoadFails
  <2>2. CASE Created(r) \/ CreateFails(r) \/ Answered(r) \/ RunFails(r) \/ Ends(r)
    BY <2>2 DEF Created, CreateFails, Answered, RunFails, Ends
  <2> QED
    BY <1>2, <2>1, <2>2 DEF Step
<1>3. ASSUME NEW w \in Workers, Deliver(w) \/ Shutdown(w) \/ Dies(w) PROVE disturbed \subseteq disturbed'
  BY <1>3 DEF Deliver, Shutdown, Dies
<1>4. ASSUME NEW w \in Workers, NEW s \in Sessions, Close(w, s) \/ Flush(w, s)
      PROVE  disturbed \subseteq disturbed'
  BY <1>4 DEF Close, Flush
<1>5. ASSUME UNCHANGED vars PROVE disturbed \subseteq disturbed'
  BY <1>5 DEF vars
<1> QED
  BY <1>1, <1>2, <1>3, <1>4, <1>5, NextCases

\* A request that waits after a step has waited before, or has just arrived.
LEMMA WaitingBefore ==
  ASSUME TypeOK, Placed, Awaited, [Next]_vars, NEW r \in Requests, pc'[r] \in Waiting,
         ~\E k \in Kinds, s \in Sessions, w \in Workers : Arrive(r, k, s, w)
  PROVE  pc[r] \in Waiting /\ ses'[r] = ses[r] /\ on'[r] = on[r] /\ kind'[r] = kind[r]
<1>1. Step(r) => pc[r] \in Waiting
  BY StepNotCounting
<1>2. ASSUME NEW w \in Workers, Deliver(w), Head(wire[w]).op = "count", Head(wire[w]).by = r
      PROVE  pc[r] \in Waiting
  BY <1>2, DeliveredCall DEF Waiting
<1>3. "died" \notin Waiting
  BY DEF Waiting
<1> QED
  BY <1>1, <1>2, <1>3, RequestCases

\* Where a step of its own takes a request that has an engine.
LEMMA StepMade ==
  ASSUME TypeOK, NEW r \in Requests, Step(r)
  PROVE  /\ pc[r] \in {"run", "flush"} => pc'[r] \in {"flush", "ended", "refused"}
         /\ pc[r] \in {"get", "loading", "rehydrating", "creating", "run", "flush"}
         /\ kind[r] = "message" /\ pc'[r] \in {"flush", "ended"} =>
              \/ Answered(r) /\ pc'[r] = "flush" /\ pc[r] = "run"
              \/ Ends(r) /\ pc'[r] = "ended" /\ pc[r] = "flush"
<1> USE DEF Goto, TypeOK
<1>1. CASE Get(r)
  BY <1>1 DEF Get, AfterGet
<1>2. CASE Loaded(r) \/ NotFound(r)
  BY <1>2 DEF Loaded, NotFound
<1>3. CASE LoadFails(r)
  BY <1>3 DEF LoadFails
<1>4. CASE Created(r)
  BY <1>4 DEF Created, AfterGet
<1>5. CASE CreateFails(r)
  BY <1>5 DEF CreateFails
<1>6. CASE Answered(r)
  BY <1>6 DEF Answered
<1>7. CASE RunFails(r)
  BY <1>7 DEF RunFails
<1>8. CASE Ends(r)
  BY <1>8 DEF Ends
<1> QED
  BY <1>1, <1>2, <1>3, <1>4, <1>5, <1>6, <1>7, <1>8 DEF Step

LEMMA MadeStays ==
  ASSUME TypeOK, Placed, Awaited, [Next]_vars, NEW e \in Requests, Made(e)
  PROVE  Made(e)'
<1>1. ~\E k \in Kinds, s \in Sessions, w \in Workers : Arrive(e, k, s, w)
  BY DEF Made, Arrive
<1>2. Step(e) => pc'[e] \in {"run", "flush", "ended", "refused", "died"}
  BY StepMade DEF Made
<1>3. ASSUME NEW w \in Workers, Deliver(w), Head(wire[w]).op = "count", Head(wire[w]).by = e
      PROVE  FALSE
  BY <1>3, DeliveredCall DEF Made
<1> QED
  BY <1>1, <1>2, <1>3, RequestCases DEF Made

\* What has been said was said before, or is the answer of this step.
LEMMA SaidBefore ==
  ASSUME TypeOK, Placed, Awaited, [Next]_vars, NEW m \in Requests, NEW s, Said(m, s)'
  PROVE  Said(m, s) \/ (Answered(m) /\ kind[m] = "message" /\ ses[m] = s)
<1>0. kind'[m] = "message" /\ ses'[m] = s /\ pc'[m] \in {"flush", "ended"}
  BY DEF Said
<1>1. ~\E k \in Kinds, u \in Sessions, w \in Workers : Arrive(m, k, u, w)
  <2> SUFFICES ASSUME NEW k \in Kinds, NEW u \in Sessions, NEW w \in Workers, Arrive(m, k, u, w)
               PROVE  FALSE
    OBVIOUS
  <2>1. pc'[m] \in {"counting", "creating", "get"}
    BY DEF Arrive, Goto, Admitted, TypeOK
  <2> QED
    BY <1>0, <2>1
<1>2. ASSUME NEW w \in Workers, Deliver(w), Head(wire[w]).op = "count", Head(wire[w]).by = m PROVE FALSE
  <2>1. pc'[m] \in {"creating", "get", "refused"}
    BY <1>2 DEF Deliver, Goto, Admitted, TypeOK
  <2> QED
    BY <1>0, <2>1
<1>3. ses'[m] = ses[m] /\ kind'[m] = kind[m]
  BY <1>1, RequestCases
<1>4. CASE Step(m)
  BY <1>0, <1>3, <1>4, StepMade DEF Said
<1>5. CASE pc'[m] = pc[m]
  BY <1>0, <1>3, <1>5 DEF Said
<1> QED
  BY <1>0, <1>1, <1>2, <1>4, <1>5, RequestCases

LEMMA KnownGrows ==
  ASSUME TypeOK, [Next]_vars, NEW e \in Requests, Made(e)
  PROVE  known[e] \subseteq known'[e]
<1> USE DEF pool
<1>1. ASSUME NEW r \in Requests, NEW k \in Kinds, NEW s \in Sessions, NEW w \in Workers,
             Arrive(r, k, s, w)
      PROVE  UNCHANGED known
  BY <1>1 DEF Arrive
<1>2. ASSUME NEW r \in Requests, Step(r) PROVE known[e] \subseteq known'[e]
  <2>1. CASE Get(r) \/ Loaded(r) \/ NotFound(r) \/ LoadFails(r) \/ CreateFails(r) \/ RunFails(r) \/ Ends(r)
    <3>1. UNCHANGED known
      BY <2>1 DEF Get, Loaded, NotFound, LoadFails, CreateFails, RunFails, Ends
    <3> QED
      BY <3>1
  <2>2. CASE Created(r)
    <3>1. r # e
      BY <2>2 DEF Created, Made
    <3> QED
      BY <2>2, <3>1 DEF Created, TypeOK
  <2>3. CASE Answered(r)
    BY <2>3 DEF Answered, TypeOK
  <2> QED
    BY <1>2, <2>1, <2>2, <2>3 DEF Step
<1>3. ASSUME NEW w \in Workers, Deliver(w) \/ Shutdown(w) \/ Dies(w) PROVE UNCHANGED known
  BY <1>3 DEF Deliver, Shutdown, Dies
<1>4. ASSUME NEW w \in Workers, NEW s \in Sessions, Close(w, s) \/ Flush(w, s) PROVE UNCHANGED known
  BY <1>4 DEF Close, Flush
<1>5. ASSUME UNCHANGED vars PROVE UNCHANGED known
  BY <1>5 DEF vars
<1> QED
  BY <1>1, <1>2, <1>3, <1>4, <1>5, NextCases

LEMMA HeldBefore ==
  ASSUME TypeOK, Placed, [Next]_vars, NEW w \in Workers, NEW s \in Sessions
  PROVE  \/ held'[w][s] \in {held[w][s], None}
         \/ \E r \in Requests : Created(r) /\ on[r] = w /\ ses[r] = s /\ held'[w][s] = r
<1>1. CASE UNCHANGED held
  BY <1>1
<1>2. ASSUME NEW r \in Requests, Created(r)
      PROVE  held'[w][s] = held[w][s] \/ (on[r] = w /\ ses[r] = s /\ held'[w][s] = r)
  <2>1. held' = [held EXCEPT ![on[r]][ses[r]] = r] /\ on[r] \in Workers /\ ses[r] \in Sessions
    BY <1>2, CreatedSends DEF Created
  <2>2. CASE on[r] = w /\ ses[r] = s
    BY <2>1, <2>2 DEF TypeOK
  <2>3. CASE ~(on[r] = w /\ ses[r] = s)
    BY <2>1, <2>3 DEF TypeOK
  <2> QED
    BY <2>2, <2>3
<1>3. ASSUME NEW v \in Workers, NEW u \in Sessions, Close(v, u) PROVE held'[w][s] \in {held[w][s], None}
  BY <1>3 DEF Close, TypeOK
<1>4. ASSUME NEW v \in Workers, Shutdown(v) \/ Dies(v) PROVE held'[w][s] \in {held[w][s], None}
  <2>1. held' = [held EXCEPT ![v] = [u \in Sessions |-> None]]
    BY <1>4 DEF Shutdown, Dies
  <2> QED
    BY <2>1 DEF TypeOK
<1>5. ASSUME NEW v \in Workers, Deliver(v) PROVE UNCHANGED held
  BY <1>5 DEF Deliver, pool
<1> QED
  BY <1>1, <1>2, <1>3, <1>4, <1>5, PoolCases

\* What is in a transcript stays there, and what is in a queue stays or is written, unless the
\* worker dies.
LEMMA TranscriptGrows ==
  ASSUME TypeOK, Placed, [Next]_vars, NEW s \in Sessions, NEW w \in Workers
  PROVE  /\ disk[s] \subseteq disk'[s]
         /\ Dies(w) \/ queued[w][s] \subseteq disk'[s] \cup queued'[w][s]
<1> USE DEF transcript
<1>f. ASSUME NEW v \in Workers, FlushSession(v)
      PROVE  /\ disk[s] \subseteq disk'[s] /\ queued[w][s] \subseteq disk'[s] \cup queued'[w][s]
  BY <1>f DEF FlushSession, TypeOK
<1>1. ASSUME NEW r \in Requests, NEW k \in Kinds, NEW u \in Sessions, NEW v \in Workers,
             Arrive(r, k, u, v)
      PROVE  UNCHANGED <<disk, queued>>
  BY <1>1 DEF Arrive
<1>2. ASSUME NEW r \in Requests, Step(r)
      PROVE  disk[s] \subseteq disk'[s] /\ queued[w][s] \subseteq disk'[s] \cup queued'[w][s]
  <2>1. CASE Get(r) \/ Loaded(r) \/ NotFound(r) \/ LoadFails(r) \/ CreateFails(r) \/ Created(r)
    <3>1. UNCHANGED <<disk, queued>>
      BY <2>1 DEF Get, Loaded, NotFound, LoadFails, CreateFails, Created
    <3> QED
      BY <3>1
  <2>2. CASE Answered(r)
    <3>1. UNCHANGED disk /\ queued' = [queued EXCEPT ![on[r]][ses[r]] = @ \cup {r}]
      BY <2>2 DEF Answered
    <3>2. queued[w][s] \subseteq queued'[w][s]
      BY <3>1 DEF TypeOK
    <3> QED
      BY <3>1, <3>2
  <2>3. CASE RunFails(r) \/ Ends(r)
    <3>1. on[r] \in Workers
      BY <2>3, PlacedOn DEF RunFails, Ends
    <3> QED
      BY <2>3, <3>1, <1>f DEF RunFails, Ends
  <2> QED
    BY <1>2, <2>1, <2>2, <2>3 DEF Step
<1>3. ASSUME NEW v \in Workers, Deliver(v) \/ Shutdown(v) PROVE UNCHANGED <<disk, queued>>
  BY <1>3 DEF Deliver, Shutdown
<1>4. ASSUME NEW v \in Workers, Dies(v)
      PROVE  disk[s] \subseteq disk'[s] /\ (v = w \/ queued[w][s] \subseteq disk'[s] \cup queued'[w][s])
  <2>1. UNCHANGED disk /\ queued' = [queued EXCEPT ![v] = [u \in Sessions |-> {}]]
    BY <1>4 DEF Dies
  <2> QED
    BY <2>1 DEF TypeOK
<1>5. ASSUME NEW v \in Workers, NEW u \in Sessions, Close(v, u) PROVE UNCHANGED <<disk, queued>>
  BY <1>5 DEF Close
<1>6. ASSUME NEW v \in Workers, NEW u \in Sessions, Flush(v, u)
      PROVE  disk[s] \subseteq disk'[s] /\ queued[w][s] \subseteq disk'[s] \cup queued'[w][s]
  <2>1. /\ disk' = [disk EXCEPT ![u] = @ \cup queued[v][u]]
        /\ queued' = [queued EXCEPT ![v][u] = {}]
    BY <1>6 DEF Flush
  <2>2. disk[s] \subseteq disk'[s]
    BY <2>1 DEF TypeOK
  <2>3. queued[w][s] \subseteq disk'[s] \cup queued'[w][s]
    <3>1. CASE v = w /\ u = s
      BY <2>1, <3>1 DEF TypeOK
    <3>2. CASE ~(v = w /\ u = s)
      <4>1. queued'[w][s] = queued[w][s]
        BY <2>1, <3>2 DEF TypeOK
      <4> QED
        BY <4>1
    <3> QED
      BY <3>1, <3>2
  <2> QED
    BY <2>2, <2>3
<1>7. ASSUME UNCHANGED vars PROVE UNCHANGED <<disk, queued>>
  BY <1>7 DEF vars
<1> QED
  BY <1>1, <1>2, <1>3, <1>4, <1>5, <1>6, <1>7, NextCases

LEMMA EnginesStep ==
  ASSUME TypeOK, Placed, Awaited, Engines, [Next]_vars
  PROVE  Engines'
<1>0. None \notin Requests
  BY ServerAssumption DEF ServerAssumption
<1>c. ASSUME NEW r \in Requests, Created(r)
      PROVE  Made(r)' /\ eng'[r] \in {r, None} /\ (pc'[r] = "run" => eng'[r] = r)
  BY <1>c DEF Created, Use, Goto, AfterGet, Made, TypeOK
<1>1. ASSUME NEW w \in Workers, NEW s \in Sessions, held'[w][s] # None PROVE pc'[held'[w][s]] \in {"run", "flush", "ended", "refused", "died"}
  <2>1. CASE held'[w][s] = held[w][s]
    <3>1. held[w][s] \in Requests /\ Made(held[w][s])
      BY <1>1, <2>1 DEF TypeOK, Engines
    <3>2. PICK e \in Requests : e = held[w][s]
      BY <3>1
    <3> QED
      BY <2>1, <3>1, <3>2, MadeStays DEF Made
  <2>2. ASSUME NEW r \in Requests, Created(r), held'[w][s] = r PROVE pc'[held'[w][s]] \in {"run", "flush", "ended", "refused", "died"}
    BY <2>2, <1>c DEF Made
  <2> QED
    BY <1>1, <2>1, <2>2, HeldBefore
<1>2. ASSUME NEW r \in Requests
      PROVE  (eng'[r] # None => pc'[eng'[r]] \in {"run", "flush", "ended", "refused", "died"}) /\ (pc'[r] = "run" => eng'[r] # None)
  <2>k. ASSUME NEW e \in Requests, Made(e), eng'[r] = e PROVE pc'[eng'[r]] \in {"run", "flush", "ended", "refused", "died"}
    BY <2>k, MadeStays DEF Made
  <2>o. eng[r] \in Requests \cup {None} /\ (eng[r] # None => Made(eng[r])) /\ (pc[r] = "run" => eng[r] # None)
    BY DEF Engines, TypeOK
  <2>1. CASE eng'[r] = eng[r] /\ (pc'[r] = "run" => pc[r] = "run")
    BY <2>1, <2>k, <2>o
  <2>2. CASE Get(r)
    <3>1. on[r] \in Workers /\ ses[r] \in Sessions
      BY <2>2, PlacedOn DEF Get
    <3>2. PICK e : e = held[on[r]][ses[r]]
      OBVIOUS
    <3>3. e \in Requests \cup {None} /\ (e # None => Made(e))
      BY <3>1, <3>2 DEF TypeOK, Engines
    <3>4. CASE e = None
      <4>1. eng'[r] = eng[r] /\ pc'[r] = "loading"
        BY <2>2, <3>2, <3>4 DEF Get, Goto, TypeOK
      <4> QED
        BY <4>1, <2>1
    <3>5. CASE e # None
      <4>1. /\ eng'[r] = IF kind[r] = "message" THEN e ELSE None
            /\ pc'[r] = AfterGet(kind[r])
        BY <2>2, <3>2, <3>5 DEF Get, Goto, Use, TypeOK
      <4>2. pc'[r] = "run" => kind[r] = "message"
        BY <4>1 DEF AfterGet
      <4>3. eng'[r] # None => pc'[eng'[r]] \in {"run", "flush", "ended", "refused", "died"}
        <5>1. CASE kind[r] = "message"
          BY <4>1, <5>1, <3>3, <3>5, <2>k
        <5>2. CASE kind[r] # "message"
          BY <4>1, <5>2
        <5> QED
          BY <5>1, <5>2
      <4> QED
        BY <4>1, <4>2, <4>3, <3>5
    <3> QED
      BY <3>4, <3>5
  <2>3. CASE Created(r)
    BY <2>3, <1>c, <1>0 DEF Made
  <2>4. CASE Loaded(r) \/ NotFound(r) \/ LoadFails(r) \/ CreateFails(r)
    <3>1. eng'[r] = eng[r] /\ pc'[r] # "run"
      BY <2>4 DEF Loaded, NotFound, LoadFails, CreateFails, Goto, TypeOK
    <3> QED
      BY <3>1, <2>1
  <2>5. CASE Answered(r) \/ RunFails(r)
    BY <2>5 DEF Answered, RunFails, Goto, TypeOK
  <2>6. CASE Ends(r)
    <3>1. eng'[r] = eng[r] /\ pc'[r] # "run"
      BY <2>6 DEF Ends, Goto, TypeOK
    <3> QED
      BY <3>1, <2>1
  <2>7. ASSUME NEW k \in Kinds, NEW s \in Sessions, NEW w \in Workers, Arrive(r, k, s, w)
        PROVE  eng'[r] = eng[r] /\ pc'[r] # "run"
    BY <2>7 DEF Arrive, Goto, Admitted, TypeOK
  <2>8. ASSUME NEW w \in Workers, Deliver(w), Head(wire[w]).op = "count", Head(wire[w]).by = r
        PROVE  pc'[r] # "run"
    BY <2>8 DEF Deliver, Goto, Admitted, TypeOK
  <2>9. ASSUME NEW w \in Workers, Dies(w), on[r] = w PROVE eng'[r] = None /\ pc'[r] # "run"
    BY <2>9 DEF Dies, TypeOK, Waiting
  <2> QED
    BY <2>1, <2>2, <2>3, <2>4, <2>5, <2>6, <2>7, <2>8, <2>9, RequestCases DEF Step
<1> QED
  BY <1>1, <1>2 DEF Engines, Made

LEMMA AloneStep ==
  ASSUME TypeOK, Placed, Awaited, Alone, [Next]_vars
  PROVE  Alone'
<1> SUFFICES ASSUME NEW r \in Requests, NEW t \in Requests, r # t,
                    pc'[r] \in Waiting, pc'[t] \in Waiting, ses'[r] = ses'[t]
             PROVE  ses'[r] \in disturbed'
  BY DEF Alone
<1>1. ASSUME NEW a \in Requests, NEW b \in Requests, a # b, pc'[b] \in Waiting, ses'[a] = ses'[b],
             NEW k \in Kinds, NEW s \in Sessions, NEW w \in Workers, Arrive(a, k, s, w)
      PROVE  ses'[a] \in disturbed'
  <2>1. ses'[a] = s /\ ses'[b] = ses[b] /\ pc'[b] = pc[b]
    BY <1>1 DEF Arrive, Goto, TypeOK
  <2> QED
    BY <1>1, <2>1 DEF Arrive
<1>2. CASE \E k \in Kinds, s \in Sessions, w \in Workers : Arrive(r, k, s, w)
  BY <1>1, <1>2
<1>3. CASE \E k \in Kinds, s \in Sessions, w \in Workers : Arrive(t, k, s, w)
  BY <1>1, <1>3
<1>4. CASE /\ ~\E k \in Kinds, s \in Sessions, w \in Workers : Arrive(r, k, s, w)
           /\ ~\E k \in Kinds, s \in Sessions, w \in Workers : Arrive(t, k, s, w)
  <2>1. pc[r] \in Waiting /\ pc[t] \in Waiting /\ ses'[r] = ses[r] /\ ses'[t] = ses[t]
    BY <1>4, WaitingBefore
  <2> QED
    BY <2>1, DisturbedGrows DEF Alone
<1> QED
  BY <1>2, <1>3, <1>4

LEMMA SaidPlaced ==
  ASSUME Placed, NEW m \in Requests, NEW s, Said(m, s)
  PROVE  s \in Sessions /\ on[m] \in Workers /\ on[m] \in Route[s]
BY PlacedOn DEF Placed, Said

LEMMA AnsweredFacts ==
  ASSUME TypeOK, Placed, NEW m \in Requests, Answered(m)
  PROVE  /\ pc[m] = "run" /\ pc[m] \in Waiting /\ pc'[m] = "flush"
         /\ on[m] \in Workers /\ ses[m] \in Sessions /\ on[m] \in Route[ses[m]]
         /\ m \in queued'[on[m]][ses[m]]
         /\ eng[m] \in Requests => m \in known'[eng[m]]
         /\ UNCHANGED <<held, request, disk>>
<1>1. pc[m] = "run" /\ pc[m] \in Waiting
  BY DEF Answered, Waiting
<1>2. on[m] \in Workers /\ ses[m] \in Sessions /\ on[m] \in Route[ses[m]]
  BY <1>1, PlacedOn DEF Placed
<1>3. queued' = [queued EXCEPT ![on[m]][ses[m]] = @ \cup {m}] /\ known' = [known EXCEPT ![eng[m]] = @ \cup {m}]
  BY DEF Answered
<1>4. m \in queued'[on[m]][ses[m]]
  BY <1>2, <1>3 DEF TypeOK
<1>5. eng[m] \in Requests => m \in known'[eng[m]]
  BY <1>3 DEF TypeOK
<1>6. pc'[m] = "flush" /\ UNCHANGED <<held, request, disk>>
  BY DEF Answered, Goto, TypeOK
<1> QED
  BY <1>1, <1>2, <1>4, <1>5, <1>6

LEMMA WrittenStep ==
  ASSUME TypeOK, Placed, Awaited, Written, [Next]_vars
  PROVE  Written'
<1> SUFFICES ASSUME NEW m \in Requests, kind'[m] = "message", pc'[m] \in {"flush", "ended"}
             PROVE  /\ pc'[m] = "ended" => m \in disk'[ses'[m]]
                    /\ pc'[m] = "flush" => m \in disk'[ses'[m]] \cup queued'[on'[m]][ses'[m]]
  BY DEF Written
<1>0. Said(m, ses[m])' /\ ses'[m] = ses[m] /\ on'[m] = on[m]
  <2>1. ~\E k \in Kinds, u \in Sessions, w \in Workers : Arrive(m, k, u, w)
    BY DEF Arrive, Goto, Admitted, TypeOK
  <2>2. ses'[m] = ses[m] /\ on'[m] = on[m]
    BY <2>1, RequestCases
  <2> QED
    BY <2>2 DEF Said
<1>1. Said(m, ses[m]) \/ (Answered(m) /\ kind[m] = "message")
  <2>1. PICK s : s = ses[m]
    OBVIOUS
  <2>2. Said(m, s)'
    BY <1>0, <2>1 DEF Said
  <2> QED
    BY <2>1, <2>2, SaidBefore
<1>2. CASE Answered(m)
  <2>1. pc'[m] = "flush" /\ m \in queued'[on[m]][ses[m]]
    BY <1>2, AnsweredFacts
  <2> QED
    BY <1>0, <2>1
<1>3. CASE Said(m, ses[m])
  <2>0. ses[m] \in Sessions /\ on[m] \in Workers
    BY <1>3, SaidPlaced
  <2>d. disk[ses[m]] \subseteq disk'[ses[m]]
    BY <2>0, TranscriptGrows
  <2>1. CASE pc[m] = "ended"
    <3>1. m \in disk'[ses[m]]
      BY <1>3, <2>1, <2>d DEF Written, Said
    <3> QED
      BY <1>0, <3>1
  <2>2. CASE pc[m] = "flush"
    <3>1. m \in disk[ses[m]] \cup queued[on[m]][ses[m]]
      BY <1>3, <2>2 DEF Written, Said
    <3>2. CASE pc'[m] = "flush"
      <4>1. ~Dies(on[m])
        BY <2>0, <2>2, <3>2 DEF Dies, Waiting, TypeOK
      <4>2. queued[on[m]][ses[m]] \subseteq disk'[ses[m]] \cup queued'[on[m]][ses[m]]
        BY <2>0, <4>1, TranscriptGrows
      <4> QED
        BY <1>0, <2>d, <3>1, <3>2, <4>2
    <3>3. CASE pc'[m] = "ended"
      <4>1. Step(m)
        <5>1. ~\E k \in Kinds, u \in Sessions, w \in Workers : Arrive(m, k, u, w)
          BY <2>2 DEF Arrive
        <5>2. ASSUME NEW w \in Workers, Deliver(w), Head(wire[w]).op = "count", Head(wire[w]).by = m
              PROVE  FALSE
          BY <2>2, <5>2, DeliveredCall
        <5> QED
          BY <2>2, <3>3, <5>1, <5>2, RequestCases
      <4>2. Ends(m)
        BY <1>3, <2>2, <3>3, <4>1, StepMade DEF Said
      <4>3. disk'[ses[m]] = disk[ses[m]] \cup queued[on[m]][ses[m]]
        BY <2>0, <4>2 DEF Ends, FlushSession
      <4> QED
        BY <1>0, <3>1, <3>3, <4>3
    <3> QED
      BY <3>2, <3>3
  <2> QED
    BY <1>3, <2>1, <2>2 DEF Said
<1> QED
  BY <1>1, <1>2, <1>3

\* While a request waits in an undisturbed session, nothing is said in it.
LEMMA Silent ==
  ASSUME TypeOK, Placed, Awaited, Alone, [Next]_vars, NEW r \in Requests, NEW m \in Requests, r # m,
         pc[r] \in Waiting, ses[r] \notin disturbed, NEW s, s = ses[r], Said(m, s)'
  PROVE  Said(m, s) /\ pc[m] = "ended"
<1>1. ~Answered(m) \/ ses[m] # s
  BY AnsweredFacts DEF Alone
<1>2. Said(m, s)
  BY <1>1, SaidBefore
<1>3. pc[m] # "flush"
  <2>1. "flush" \in Waiting
    BY DEF Waiting
  <2> QED
    BY <1>2, <2>1 DEF Said, Alone
<1> QED
  BY <1>2, <1>3 DEF Said

\* The engine a request makes knows what has been said in the session.
LEMMA CreatedKnows ==
  ASSUME TypeOK, Placed, Awaited, CopyKnows, FirstOf, NEW r \in Requests, NEW m \in Requests,
         NEW s, s = ses[r], s \notin disturbed, Created(r), Said(m, s)'
  PROVE  m \in known'[r]
<1>1. Said(m, s)
  <2>1. kind'[m] = kind[m] /\ ses'[m] = ses[m]
    BY DEF Created, request
  <2>2. CASE m = r
    <3>1. kind[r] = "message" => pc'[r] = "run"
      BY DEF Created, Goto, AfterGet, TypeOK
    <3> QED
      BY <2>1, <2>2, <3>1 DEF Said
  <2>3. CASE m # r
    <3>1. pc'[m] = pc[m]
      BY <2>3 DEF Created, Goto, TypeOK
    <3> QED
      BY <2>1, <3>1 DEF Said
  <2> QED
    BY <2>2, <2>3
<1>2. known'[r] = copy[r]
  BY DEF Created, TypeOK
<1>3. pc[r] = "rehydrating"
  <2>1. pc[r] # "creating"
    BY <1>1 DEF FirstOf
  <2> QED
    BY <2>1 DEF Created
<1> QED
  BY <1>1, <1>2, <1>3 DEF CopyKnows

LEMMA PoolKnowsStep ==
  ASSUME TypeOK, Placed, Awaited, Engines, Alone, PoolKnows, CopyKnows, FirstOf, RunKnows, [Next]_vars
  PROVE  PoolKnows'
<1> SUFFICES ASSUME NEW w \in Workers, NEW s \in Sessions, NEW m \in Requests,
                    held'[w][s] # None, Route[s] = {w}, s \notin disturbed', Said(m, s)'
             PROVE  m \in known'[held'[w][s]]
  BY DEF PoolKnows
<1>0. s \notin disturbed
  BY DisturbedGrows
<1>1. ASSUME NEW r \in Requests, Created(r), ses[r] = s, held'[w][s] = r PROVE m \in known'[r]
  BY <1>0, <1>1, CreatedKnows
<1>2. CASE held'[w][s] = held[w][s]
  <2>1. PICK e \in Requests : e = held[w][s] /\ Made(e)
    BY <1>2 DEF TypeOK, Engines
  <2>2. CASE Said(m, s)
    <3>1. m \in known[e]
      BY <1>0, <1>2, <2>1, <2>2 DEF PoolKnows
    <3> QED
      BY <1>2, <2>1, <3>1, KnownGrows
  <2>3. CASE Answered(m) /\ ses[m] = s
    <3>1. on[m] = w /\ pc[m] = "run"
      BY <2>3, AnsweredFacts
    <3>2. held[w][s] \in {None, eng[m]}
      BY <1>0, <2>3, <3>1 DEF RunKnows
    <3>3. e = eng[m]
      BY <1>2, <2>1, <3>2
    <3>4. m \in known'[eng[m]]
      BY <2>1, <2>3, <3>3, AnsweredFacts
    <3> QED
      BY <1>2, <2>1, <3>3, <3>4
  <2> QED
    BY <2>2, <2>3, SaidBefore
<1> QED
  BY <1>1, <1>2, HeldBefore

LEMMA CopyKnowsStep ==
  ASSUME TypeOK, Placed, Awaited, Alone, Written, CopyKnows, [Next]_vars
  PROVE  CopyKnows'
<1> SUFFICES ASSUME NEW r \in Requests, NEW m \in Requests, NEW s, s = ses'[r],
                    pc'[r] = "rehydrating", s \notin disturbed', Said(m, s)'
             PROVE  m \in copy'[r]
  BY DEF CopyKnows, Said
<1>1. ~\E k \in Kinds, u \in Sessions, w \in Workers : Arrive(r, k, u, w)
  BY DEF Arrive, Goto, Admitted, TypeOK
<1>2. pc[r] \in Waiting /\ ses[r] = s
  BY <1>1, WaitingBefore DEF Waiting
<1>3. s \notin disturbed
  BY DisturbedGrows
<1>4. r # m
  BY DEF Said
<1>5. Said(m, s) /\ pc[m] = "ended"
  BY <1>2, <1>3, <1>4, Silent
<1>6. CASE pc[r] = "rehydrating" /\ copy'[r] = copy[r]
  BY <1>2, <1>3, <1>5, <1>6 DEF CopyKnows
<1>7. CASE Step(r)
  <2>1. Loaded(r)
    <3>1. ~Get(r) /\ ~Created(r)
      BY DEF Get, Created, Goto, AfterGet, TypeOK
    <3>2. ~NotFound(r) /\ ~LoadFails(r) /\ ~CreateFails(r)
      BY DEF NotFound, LoadFails, CreateFails, Goto, TypeOK
    <3>3. ~Answered(r) /\ ~RunFails(r) /\ ~Ends(r)
      BY DEF Answered, RunFails, Ends, Goto, TypeOK
    <3> QED
      BY <1>7, <3>1, <3>2, <3>3 DEF Step
  <2>2. copy'[r] = disk[s]
    BY <1>2, <2>1 DEF Loaded, TypeOK
  <2> QED
    BY <1>5, <2>2 DEF Written, Said
<1>8. ASSUME NEW w \in Workers, Deliver(w), Head(wire[w]).op = "count", Head(wire[w]).by = r PROVE FALSE
  BY <1>8 DEF Deliver, Goto, Admitted, TypeOK
<1>9. ASSUME NEW w \in Workers, Dies(w), on[r] = w PROVE FALSE
  BY <1>9 DEF Dies, TypeOK, Waiting
<1> QED
  BY <1>1, <1>6, <1>7, <1>8, <1>9, RequestCases

\* No step of a request takes it to the quota: only its arrival does.
LEMMA StepNotToCounting ==
  ASSUME TypeOK, NEW r \in Requests, Step(r)
  PROVE  pc'[r] # "counting"
<1>1. ASSUME Get(r) PROVE pc'[r] # "counting"
  BY <1>1 DEF Get, Goto, AfterGet, TypeOK
<1>2. ASSUME Loaded(r) PROVE pc'[r] # "counting"
  BY <1>2 DEF Loaded, Goto, TypeOK
<1>3. ASSUME NotFound(r) PROVE pc'[r] # "counting"
  BY <1>3 DEF NotFound, Goto, TypeOK
<1>4. ASSUME LoadFails(r) PROVE pc'[r] # "counting"
  BY <1>4 DEF LoadFails, Goto, TypeOK
<1>5. ASSUME Created(r) PROVE pc'[r] # "counting"
  BY <1>5 DEF Created, Goto, AfterGet, TypeOK
<1>6. ASSUME CreateFails(r) PROVE pc'[r] # "counting"
  BY <1>6 DEF CreateFails, Goto, TypeOK
<1>7. ASSUME Answered(r) PROVE pc'[r] # "counting"
  BY <1>7 DEF Answered, Goto, TypeOK
<1>8. ASSUME RunFails(r) PROVE pc'[r] # "counting"
  BY <1>8 DEF RunFails, Goto, TypeOK
<1>9. ASSUME Ends(r) PROVE pc'[r] # "counting"
  BY <1>9 DEF Ends, Goto, TypeOK
<1> QED
  BY <1>1, <1>2, <1>3, <1>4, <1>5, <1>6, <1>7, <1>8, <1>9 DEF Step

LEMMA FirstOfStep ==
  ASSUME TypeOK, Placed, Awaited, Alone, Written, FirstOf, [Next]_vars
  PROVE  FirstOf'
<1> SUFFICES ASSUME NEW r \in Requests, NEW m \in Requests, NEW s, s = ses'[r],
                    pc'[r] = "creating" \/ (kind'[r] = "create" /\ pc'[r] = "counting"),
                    s \notin disturbed', Said(m, s)'
             PROVE  FALSE
  BY DEF FirstOf, Said
<1>1. r # m
  BY DEF Said
<1>2. s \notin disturbed
  BY DisturbedGrows
<1>3. ASSUME NEW k \in Kinds, NEW u \in Sessions, NEW w \in Workers, Arrive(r, k, u, w) PROVE FALSE
  <2>1. k = "create" /\ u = s
    BY <1>3 DEF Arrive, Goto, Admitted, TypeOK
  <2>2. ses[m] = s
    BY <1>1, <1>3 DEF Arrive, Said, TypeOK
  <2> QED
    BY <1>3, <2>1, <2>2 DEF Arrive
<1>4. CASE ~\E k \in Kinds, u \in Sessions, w \in Workers : Arrive(r, k, u, w)
  <2>1. pc[r] \in Waiting /\ ses[r] = s /\ kind'[r] = kind[r]
    BY <1>4, WaitingBefore DEF Waiting
  <2>2. Said(m, s) /\ pc[m] = "ended"
    BY <1>1, <1>2, <2>1, Silent
  <2>3. ~(pc[r] = "creating" \/ (kind[r] = "create" /\ pc[r] = "counting"))
    BY <1>2, <2>1, <2>2 DEF FirstOf
  <2>4. CASE Step(r)
    <3>1. pc'[r] = "creating"
      BY <2>4, StepNotToCounting
    <3>2. ~LoadFails(r)
      BY <1>2, <2>1 DEF LoadFails
    <3>3. NotFound(r)
      <4>1. ~Get(r) /\ ~Created(r)
        BY <3>1 DEF Get, Created, Goto, AfterGet, TypeOK
      <4>2. ~Loaded(r) /\ ~CreateFails(r)
        BY <3>1 DEF Loaded, CreateFails, Goto, TypeOK
      <4>3. ~Answered(r) /\ ~RunFails(r) /\ ~Ends(r)
        BY <3>1 DEF Answered, RunFails, Ends, Goto, TypeOK
      <4> QED
        BY <2>4, <3>2, <4>1, <4>2, <4>3 DEF Step
    <3>4. disk[s] = {}
      BY <2>1, <3>3 DEF NotFound
    <3> QED
      BY <2>2, <3>4 DEF Written, Said
  <2>5. ASSUME NEW w \in Workers, Deliver(w), Head(wire[w]).op = "count", Head(wire[w]).by = r PROVE FALSE
    <3>1. pc[r] = "counting"
      BY <2>5, DeliveredCall
    <3>2. pc'[r] = Admitted(kind[r]) \/ pc'[r] = "refused"
      BY <2>5 DEF Deliver, Goto, TypeOK
    <3>3. kind[r] = "create"
      BY <2>1, <3>2 DEF Admitted
    <3> QED
      BY <2>3, <3>1, <3>3
  <2>6. CASE pc'[r] = pc[r]
    BY <2>1, <2>3, <2>6
  <2> QED
    BY <1>4, <2>4, <2>5, <2>6, RequestCases
<1> QED
  BY <1>3, <1>4

LEMMA RunKnowsStep ==
  ASSUME TypeOK, Placed, Awaited, Engines, Alone, PoolKnows, CopyKnows, FirstOf, RunKnows, [Next]_vars
  PROVE  RunKnows'
<1> SUFFICES ASSUME NEW r \in Requests, NEW m \in Requests, NEW s, s = ses'[r],
                    pc'[r] = "run", Route[s] = {on'[r]}, s \notin disturbed'
             PROVE  /\ held'[on'[r]][s] \in {None, eng'[r]}
                    /\ Said(m, s)' => m \in known'[eng'[r]]
  BY DEF RunKnows, Said
<1>1. ~\E k \in Kinds, u \in Sessions, w \in Workers : Arrive(r, k, u, w)
  BY DEF Arrive, Goto, Admitted, TypeOK
<1>2. pc[r] \in Waiting /\ ses[r] = s /\ on'[r] = on[r] /\ kind'[r] = kind[r]
  BY <1>1, WaitingBefore DEF Waiting
<1>3. s \notin disturbed
  BY DisturbedGrows
<1>4. on[r] \in Workers /\ s \in Sessions
  BY <1>2, PlacedOn DEF Waiting
<1>5. Said(m, s)' => r # m /\ Said(m, s)
  <2>1. Said(m, s)' => r # m
    BY DEF Said
  <2> QED
    BY <1>2, <1>3, <2>1, Silent
<1>6. CASE Get(r)
  <2>1. PICK e : e = held[on[r]][s]
    OBVIOUS
  <2>2. e # None /\ eng'[r] = e
    BY <1>2, <1>6, <2>1 DEF Get, Goto, Use, AfterGet, TypeOK
  <2>3. UNCHANGED <<held, known>>
    BY <1>6 DEF Get, pool
  <2>4. Said(m, s) => m \in known[e]
    BY <1>2, <1>3, <1>4, <2>1, <2>2 DEF PoolKnows
  <2> QED
    BY <1>2, <1>5, <2>1, <2>2, <2>3, <2>4
<1>7. CASE Created(r)
  <2>1. kind[r] = "message"
    BY <1>7 DEF Created, Goto, AfterGet, TypeOK
  <2>2. eng'[r] = r
    BY <1>7, <2>1 DEF Created, Use, TypeOK
  <2>3. held'[on[r]][s] = r
    BY <1>2, <1>4, <1>7 DEF Created, TypeOK
  <2>4. Said(m, s)' => m \in known'[r]
    BY <1>2, <1>3, <1>7, CreatedKnows
  <2> QED
    BY <1>2, <2>2, <2>3, <2>4
<1>8. CASE pc[r] = "run" /\ eng'[r] = eng[r]
  <2>1. /\ held[on[r]][s] \in {None, eng[r]}
        /\ Said(m, s) => m \in known[eng[r]]
    BY <1>2, <1>3, <1>8 DEF RunKnows
  <2>2. held'[on[r]][s] \in {held[on[r]][s], None}
    <3>1. ASSUME NEW t \in Requests, Created(t), ses[t] = s PROVE FALSE
      <4>1. pc[t] \in Waiting /\ t # r
        BY <1>8, <3>1 DEF Created, Waiting
      <4> QED
        BY <1>2, <1>3, <3>1, <4>1 DEF Alone
    <3> QED
      BY <1>4, <3>1, HeldBefore
  <2>3. eng[r] \in Requests /\ Made(eng[r])
    BY <1>8 DEF Engines, TypeOK
  <2>4. known[eng[r]] \subseteq known'[eng[r]]
    BY <2>3, KnownGrows
  <2> QED
    BY <1>2, <1>5, <1>8, <2>1, <2>2, <2>4
<1>9. Step(r) => Get(r) \/ Created(r)
  <2>1. ~Loaded(r) /\ ~NotFound(r) /\ ~LoadFails(r) /\ ~CreateFails(r)
    BY DEF Loaded, NotFound, LoadFails, CreateFails, Goto, TypeOK
  <2>2. ~Answered(r) /\ ~RunFails(r) /\ ~Ends(r)
    BY DEF Answered, RunFails, Ends, Goto, TypeOK
  <2> QED
    BY <2>1, <2>2 DEF Step
<1>10. ASSUME NEW w \in Workers, Deliver(w), Head(wire[w]).op = "count", Head(wire[w]).by = r PROVE FALSE
  BY <1>10 DEF Deliver, Goto, Admitted, TypeOK
<1>11. ASSUME NEW w \in Workers, Dies(w), on[r] = w PROVE FALSE
  BY <1>11 DEF Dies, TypeOK, Waiting
<1> QED
  BY <1>1, <1>6, <1>7, <1>8, <1>9, <1>10, <1>11, RequestCases

Memory == Engines /\ Alone /\ Written /\ PoolKnows /\ CopyKnows /\ FirstOf /\ RunKnows

LEMMA MemoryInit == Init => Memory
<1> SUFFICES ASSUME Init PROVE Memory
  OBVIOUS
<1>1. \A r \in Requests : pc[r] = "new" /\ eng[r] = None
  BY DEF Init
<1>2. \A w \in Workers, s \in Sessions : held[w][s] = None
  BY DEF Init
<1>3. Engines /\ Alone /\ Written
  BY <1>1, <1>2 DEF Engines, Alone, Written, Waiting
<1>4. PoolKnows /\ CopyKnows /\ FirstOf /\ RunKnows
  BY <1>1, <1>2 DEF PoolKnows, CopyKnows, FirstOf, RunKnows
<1> QED
  BY <1>3, <1>4 DEF Memory

LEMMA MemoryStep == Base /\ Memory /\ [Next]_vars => Memory'
BY EnginesStep, AloneStep, WrittenStep, PoolKnowsStep, CopyKnowsStep, FirstOfStep, RunKnowsStep
   DEF Base, Memory

\* The engine a message runs on knows every message of the session that has ended, over
\* expiries, deletions, restarts and deaths of the worker, if the session's requests go to one
\* worker, do not overlap and do not create it again.
THEOREM HistoryRemembered == Spec => []Remembers
<1>1. Memory => Remembers
  <2> SUFFICES ASSUME Memory, NEW r \in Requests, NEW m \in Requests,
                      pc[r] = "run", kind[m] = "message", pc[m] = "ended", ses[m] = ses[r],
                      Route[ses[r]] = {on[r]}, ses[r] \notin disturbed
               PROVE  m \in known[eng[r]]
    BY DEF Remembers
  <2>1. Said(m, ses[r])
    BY DEF Said
  <2> QED
    BY <2>1 DEF Memory, RunKnows
<1> QED
  BY <1>1, BaseInit, BaseStep, MemoryInit, MemoryStep, PTL DEF Spec

=============================================================================
