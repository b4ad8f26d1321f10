---------------------------- MODULE BridgeProofs ----------------------------
(***************************************************************************)
(* Proofs about Bridge, for any number of items, environments, starts and  *)
(* restarts, any capacity and any number of retries.                       *)
(***************************************************************************)
EXTENDS Bridge, SequenceTheorems, TLAPS

\* No item stands twice in the queues.
Distinct ==
  \A e1, e2 \in Envs : \A i1 \in DOMAIN pending[e1], i2 \in DOMAIN pending[e2] :
     pending[e1][i1] = pending[e2][i2] => e1 = e2 /\ i1 = i2

\* Queues, handleWork and children do not share an item.
Apart ==
  \A w \in Work :
     /\ ~(Queued(w) /\ w \in acking)
     /\ child[w] # "none" => ~Queued(w) /\ w \notin acking

\* Whatever holds an item got it from a post: a new item is nowhere.
Known == \A w \in Work : Queued(w) \/ w \in acking \/ child[w] # "none" => w \in posted

IInv == TypeOK /\ Distinct /\ Apart /\ Known /\ SlotsCounted

-----------------------------------------------------------------------------
LEMMA OnePlaceParts == OnePlace <=> Distinct /\ Apart
  BY DEF OnePlace, Distinct, Apart

LEMMA InitIInv == Init => IInv
<1> SUFFICES ASSUME Init PROVE IInv
  OBVIOUS
<1>1. \A e \in Envs : pending[e] = <<>> /\ DOMAIN pending[e] = {}
  BY DEF Init
<1>2. \A w \in Work : ~Queued(w)
  BY <1>1 DEF Queued
<1>3. <<>> \in Seq(Work)
  BY EmptySeq
<1>4. TypeOK
  <2>1. erring \in BOOLEAN
    BY DEF Init
  <2>2. pending \in [Envs -> Seq(Work)] /\ child \in [Work -> Children]
    BY <1>3 DEF Init, Children
  <2>3. acking \subseteq Work /\ sessions \subseteq Work /\ posted \subseteq Work
    BY DEF Init
  <2> QED
    BY <2>1, <2>2, <2>3, BridgeAssumption DEF Init, TypeOK
<1> QED
  BY <1>1, <1>2, <1>4 DEF Init, IInv, Distinct, Apart, Known, SlotsCounted

-----------------------------------------------------------------------------
(* Types *)

LEMMA TypeStep == TypeOK /\ [Next]_vars => TypeOK'
<1> SUFFICES ASSUME TypeOK, [Next]_vars PROVE TypeOK'
  OBVIOUS
<1> USE BridgeAssumption DEF TypeOK, server, life, work
<1>a. ASSUME Shift, HasWork PROVE pending' \in [Envs -> Seq(Work)] /\ Head(pending[env]) \in Work
  <2>1. env \in Envs /\ pending[env] \in Seq(Work) /\ pending[env] # <<>>
    BY <1>a DEF HasWork
  <2>2. Tail(pending[env]) \in Seq(Work) /\ Head(pending[env]) \in Work
    BY <2>1, HeadTailProperties
  <2> QED
    BY <1>a, <2>1, <2>2 DEF Shift
<1>b. ASSUME AttemptLost PROVE pending' \in [Envs -> Seq(Work)]
  BY <1>b, <1>a DEF AttemptLost
<1>c. ASSUME ProcessEnds, pointer' \in {pointer, NoEnv} PROVE TypeOK'
  <2>1. child' \in [Work -> Children]
    BY <1>c DEF ProcessEnds, Children
  <2>2. erring' \in BOOLEAN
    BY <1>c DEF ProcessEnds
  <2>3. acking' \subseteq Work /\ sessions' \subseteq Work
    BY <1>c DEF ProcessEnds
  <2>4. UNCHANGED <<registered, issued, pending, posted, restarts, starts>>
    BY <1>c DEF ProcessEnds
  <2>5. /\ main' = "off" /\ down' = "no" /\ tries' = 0 /\ env' = NoEnv /\ reuse' = NoEnv
    BY <1>c DEF ProcessEnds
  <2> QED
    BY <1>c, <2>1, <2>2, <2>3, <2>4, <2>5
<1>1. ASSUME NEW e \in Envs, NEW w \in Work, PostWork(e, w) PROVE TypeOK'
  <2>1. Append(pending[e], w) \in Seq(Work)
    BY AppendProperties
  <2> QED
    BY <1>1, <2>1 DEF PostWork
<1>2. CASE ServerRestart
  <2>1. <<>> \in Seq(Work)
    BY EmptySeq
  <2> QED
    BY <1>2, <2>1 DEF ServerRestart
<1>3. CASE StartBridge
  BY <1>3 DEF StartBridge
<1>4. ASSUME NEW e \in Envs, Register(e) PROVE TypeOK'
  BY <1>4 DEF Register, DrawId
<1>5. CASE RegisterLost
  BY <1>5 DEF RegisterLost, DrawId
<1>6. CASE SavePointer
  BY <1>6 DEF SavePointer
<1>7. CASE LoopStep
  <2>1. CASE AskWork
    BY <2>1 DEF AskWork
  <2>2. CASE LoopEnds
    BY <2>2 DEF LoopEnds
  <2>3. CASE TakeWork
    BY <2>3, <1>a DEF TakeWork
  <2>4. CASE NoWork
    BY <2>4 DEF NoWork
  <2>5. CASE PollRetry
    BY <2>5, <1>b DEF PollRetry
  <2>6. CASE PollFails
    BY <2>6, <1>b DEF PollFails, PollThrows
  <2>7. CASE GiveUp
    BY <2>7, <1>b DEF GiveUp, PollThrows, BeginShutdown
  <2> QED
    BY <1>7, <2>1, <2>2, <2>3, <2>4, <2>5, <2>6, <2>7 DEF LoopStep
<1>8. CASE DownStep
  <2>1. CASE Deregister
    BY <2>1 DEF Deregister
  <2>2. CASE Exit
    BY <2>2, <1>c DEF Exit
  <2> QED
    BY <1>8, <2>1, <2>2 DEF DownStep
<1>9. CASE Signal
  BY <1>9 DEF Signal, BeginShutdown
<1>10. CASE Crash
  BY <1>10, <1>c DEF Crash
<1>11. ASSUME NEW w \in Work, ItemStep(w) PROVE TypeOK'
  BY <1>11 DEF ItemStep, AckFails, SpawnThrows, SpawnError, Spawn, Acked, ChildExit, Children
<1>12. ASSUME NEW w \in Work, OrphanExit(w) PROVE TypeOK'
  BY <1>12 DEF OrphanExit, Children
<1>13. CASE UNCHANGED vars
  BY <1>13 DEF vars
<1> QED
  BY <1>1, <1>2, <1>3, <1>4, <1>5, <1>6, <1>7, <1>8, <1>9, <1>10, <1>11, <1>12, <1>13 DEF Next

-----------------------------------------------------------------------------
(* What the three changes of the queues do to the items in them. *)

LEMMA Posted ==
  ASSUME TypeOK, Distinct, Known, NEW e \in Envs, NEW w \in Work, w \notin posted,
         pending' = [pending EXCEPT ![e] = Append(@, w)]
  PROVE  Distinct' /\ \A x \in Work : Queued(x)' <=> Queued(x) \/ x = w
<1> DEFINE q == pending[e]
<1>1. q \in Seq(Work) /\ pending \in [Envs -> Seq(Work)]
  BY DEF TypeOK
<1>2. /\ Len(q) \in Nat /\ DOMAIN q = 1..Len(q)
      /\ DOMAIN Append(q, w) = 1..(Len(q) + 1)
      /\ \A i \in 1..Len(q) : Append(q, w)[i] = q[i]
      /\ Append(q, w)[Len(q) + 1] = w
  BY <1>1, AppendProperties, LenProperties
<1>3. \A f \in Envs : f # e => pending'[f] = pending[f]
  BY <1>1
<1>4. pending'[e] = Append(q, w)
  BY <1>1
<1>5. \A f \in Envs : \A i \in DOMAIN pending[f] : pending[f][i] # w
  BY DEF Known, Queued
<1>6. \A f \in Envs : \A i \in DOMAIN pending'[f] :
         \/ i \in DOMAIN pending[f] /\ pending'[f][i] = pending[f][i]
         \/ f = e /\ i = Len(q) + 1 /\ pending'[f][i] = w
  <2> TAKE f \in Envs
  <2> TAKE i \in DOMAIN pending'[f]
  <2>1. CASE f # e
    BY <2>1, <1>3
  <2>2. CASE f = e
    <3>1. i \in 1..(Len(q) + 1)
      BY <2>2, <1>2, <1>4
    <3>2. CASE i = Len(q) + 1
      BY <2>2, <3>2, <1>2, <1>4
    <3>3. CASE i # Len(q) + 1
      <4>1. i \in 1..Len(q)
        BY <3>1, <3>3, <1>2
      <4> QED
        BY <2>2, <4>1, <1>2, <1>4
    <3> QED
      BY <3>2, <3>3
  <2> QED
    BY <2>1, <2>2
<1>7. \A f \in Envs : \A i \in DOMAIN pending[f] :
         i \in DOMAIN pending'[f] /\ pending'[f][i] = pending[f][i]
  BY <1>2, <1>3, <1>4
<1>8. Len(q) + 1 \in DOMAIN pending'[e] /\ pending'[e][Len(q) + 1] = w
  BY <1>2, <1>4
<1>9. Distinct'
  BY <1>5, <1>6 DEF Distinct
<1>10. \A x \in Work : Queued(x)' <=> Queued(x) \/ x = w
  BY <1>6, <1>7, <1>8 DEF Queued
<1> QED
  BY <1>9, <1>10

LEMMA Shifted ==
  ASSUME TypeOK, Distinct, HasWork, Shift
  PROVE  /\ Distinct'
         /\ Head(pending[env]) \in Work /\ Queued(Head(pending[env]))
         /\ \A x \in Work : Queued(x)' <=> Queued(x) /\ x # Head(pending[env])
<1> DEFINE q == pending[env]
<1>1. /\ env \in Envs /\ q \in Seq(Work) /\ q # <<>>
      /\ pending \in [Envs -> Seq(Work)]
  BY DEF TypeOK, HasWork
<1>2. /\ Len(q) \in Nat \ {0} /\ DOMAIN q = 1..Len(q)
      /\ Head(q) \in Work /\ Head(q) = q[1]
      /\ DOMAIN Tail(q) = 1..(Len(q) - 1)
      /\ \A i \in 1..(Len(q) - 1) : Tail(q)[i] = q[i + 1]
  <2>1. Len(q) \in Nat /\ DOMAIN q = 1..Len(q) /\ Len(q) # 0
    BY <1>1, LenProperties, EmptySeq
  <2>2. /\ Head(q) \in Work /\ Tail(q) \in Seq(Work) /\ Len(Tail(q)) = Len(q) - 1
        /\ \A i \in 1..Len(Tail(q)) : Tail(q)[i] = q[i + 1]
    BY <1>1, HeadTailProperties
  <2>3. DOMAIN Tail(q) = 1..Len(Tail(q))
    BY <2>2, LenProperties
  <2>4. Head(q) = q[1]
    BY <1>1
  <2> QED
    BY <2>1, <2>2, <2>3, <2>4
<1>3. \A f \in Envs : f # env => pending'[f] = pending[f]
  BY <1>1 DEF Shift
<1>4. pending'[env] = Tail(q)
  BY <1>1 DEF Shift
<1>5. \A f \in Envs : \A i \in DOMAIN pending'[f] :
         \/ f # env /\ i \in DOMAIN pending[f] /\ pending'[f][i] = pending[f][i]
         \/ f = env /\ i \in Nat /\ i + 1 \in DOMAIN q /\ i + 1 # 1 /\ pending'[f][i] = q[i + 1]
  <2> TAKE f \in Envs
  <2> TAKE i \in DOMAIN pending'[f]
  <2>1. CASE f # env
    BY <2>1, <1>3
  <2>2. CASE f = env
    <3>1. i \in 1..(Len(q) - 1)
      BY <2>2, <1>2, <1>4
    <3>2. i \in Nat /\ i + 1 \in 1..Len(q) /\ i + 1 # 1
      BY <3>1, <1>2
    <3> QED
      BY <2>2, <3>1, <3>2, <1>2, <1>4
  <2> QED
    BY <2>1, <2>2
<1>6. Head(q) = pending[env][1] /\ 1 \in DOMAIN pending[env]
  BY <1>2
<1>7. Distinct'
  <2> SUFFICES ASSUME NEW e1 \in Envs, NEW e2 \in Envs,
                      NEW i1 \in DOMAIN pending'[e1], NEW i2 \in DOMAIN pending'[e2],
                      pending'[e1][i1] = pending'[e2][i2]
               PROVE  e1 = e2 /\ i1 = i2
    BY DEF Distinct
  <2>1. CASE e1 # env /\ e2 # env
    BY <2>1, <1>5 DEF Distinct
  <2>2. CASE e1 = env /\ e2 = env
    <3>1. i1 + 1 = i2 + 1 /\ i1 \in Nat /\ i2 \in Nat
      BY <2>2, <1>5 DEF Distinct
    <3> QED
      BY <2>2, <3>1
  <2>3. CASE e1 = env /\ e2 # env
    BY <2>3, <1>1, <1>5 DEF Distinct
  <2>4. CASE e1 # env /\ e2 = env
    BY <2>4, <1>1, <1>5 DEF Distinct
  <2> QED
    BY <2>1, <2>2, <2>3, <2>4
<1>8. \A x \in Work : Queued(x)' => Queued(x) /\ x # Head(q)
  <2> SUFFICES ASSUME NEW x \in Work, NEW f \in Envs, NEW i \in DOMAIN pending'[f], pending'[f][i] = x
               PROVE  Queued(x) /\ x # Head(q)
    BY DEF Queued
  <2>1. CASE f # env
    BY <2>1, <1>1, <1>5, <1>6 DEF Distinct, Queued
  <2>2. CASE f = env
    BY <2>2, <1>1, <1>5, <1>6 DEF Distinct, Queued
  <2> QED
    BY <2>1, <2>2
<1>9. \A x \in Work : Queued(x) /\ x # Head(q) => Queued(x)'
  <2> SUFFICES ASSUME NEW x \in Work, NEW f \in Envs, NEW i \in DOMAIN pending[f], pending[f][i] = x,
                      x # Head(q)
               PROVE  \E g \in Envs : \E j \in DOMAIN pending'[g] : pending'[g][j] = x
    BY DEF Queued
  <2>1. CASE f # env
    BY <2>1, <1>3
  <2>2. CASE f = env
    <3>1. i \in 1..Len(q) /\ i # 1
      BY <2>2, <1>2
    <3>2. i - 1 \in 1..(Len(q) - 1) /\ (i - 1) + 1 = i
      BY <3>1, <1>2
    <3>3. i - 1 \in DOMAIN pending'[env] /\ pending'[env][i - 1] = x
      BY <2>2, <3>2, <1>2, <1>4
    <3> QED
      BY <3>3, <1>1
  <2> QED
    BY <2>1, <2>2
<1>10. Queued(Head(q))
  BY <1>1, <1>6 DEF Queued
<1> QED
  BY <1>2, <1>7, <1>8, <1>9, <1>10

LEMMA Emptied ==
  ASSUME pending' = [e \in Envs |-> <<>>]
  PROVE  Distinct' /\ \A x \in Work : ~Queued(x)'
<1>1. \A e \in Envs : DOMAIN pending'[e] = {}
  OBVIOUS
<1> QED
  BY <1>1 DEF Distinct, Queued

-----------------------------------------------------------------------------
(* Every step keeps the invariant and is a step of BridgeWork or none. *)

Safe == Distinct /\ Apart /\ Known /\ SlotsCounted

State == [w \in Work |-> ItemState(w)]

LEMMA OneMoves ==
  ASSUME NEW w \in Work, NEW from, NEW to, ItemState(w) = from, ItemState(w)' = to,
         \A x \in Work : x # w => ItemState(x)' = ItemState(x)
  PROVE  Promise!Move(w, from, to)
  BY DEF Promise!Move

LEMMA NoneMoves ==
  ASSUME \A x \in Work : ItemState(x)' = ItemState(x)
  PROVE  UNCHANGED State
  BY DEF State

\* Queues with the same items, and the rest of the items' state as it was.
LEMMA Still ==
  ASSUME IInv, Distinct', \A x \in Work : Queued(x)' <=> Queued(x),
         UNCHANGED <<posted, acking, sessions, child>>
  PROVE  Safe' /\ UNCHANGED State
<1>1. \A x \in Work : ItemState(x)' = ItemState(x)
  BY DEF ItemState
<1>2. Apart' /\ Known' /\ SlotsCounted'
  BY DEF IInv, Apart, Known, SlotsCounted
<1> QED
  BY <1>1, <1>2, NoneMoves DEF Safe

LEMMA SameQueues ==
  ASSUME Distinct, UNCHANGED pending
  PROVE  Distinct' /\ \A x \in Work : Queued(x)' <=> Queued(x)
  BY DEF Distinct, Queued

LEMMA Untouched ==
  ASSUME IInv, UNCHANGED <<pending, posted, work>>
  PROVE  Safe' /\ UNCHANGED State
  BY Still, SameQueues DEF IInv, work

\* An item leaves its queue and nobody has it.
LEMMA Lost ==
  ASSUME IInv, HasWork, Shift, UNCHANGED <<posted, work>>
  PROVE  Safe' /\ (Promise!Next \/ UNCHANGED State)
<1>0. PICK h \in Work : h = Head(pending[env])
  BY Shifted DEF IInv
<1>1. /\ Distinct' /\ h \in Work /\ Queued(h)
      /\ \A x \in Work : Queued(x)' <=> Queued(x) /\ x # h
  BY <1>0, Shifted DEF IInv
<1>2. h \notin acking /\ child[h] = "none" /\ h \in posted
  BY <1>1 DEF IInv, Apart, Known
<1>3. ItemState(h) = "waiting" /\ ItemState(h)' = "lost"
  BY <1>1, <1>2 DEF ItemState, work
<1>4. \A x \in Work : x # h => ItemState(x)' = ItemState(x)
  BY <1>1 DEF ItemState, work
<1>5. Safe'
  BY <1>1 DEF IInv, Safe, Apart, Known, SlotsCounted, work
<1>6. Promise!Lose({h})
  BY <1>1, <1>3, <1>4 DEF Promise!Lose
<1>7. {h} \in SUBSET Work
  BY <1>1
<1> QED
  BY <1>5, <1>6, <1>7 DEF Promise!Next

LEMMA AttemptKeeps ==
  ASSUME IInv, AttemptLost, UNCHANGED <<posted, work>>
  PROVE  Safe' /\ (Promise!Next \/ UNCHANGED State)
  BY Untouched, Lost DEF AttemptLost

LEMMA PostKeeps ==
  ASSUME IInv, NEW e \in Envs, NEW w \in Work, PostWork(e, w)
  PROVE  Safe' /\ Promise!Next
<1>1. Distinct' /\ \A x \in Work : Queued(x)' <=> Queued(x) \/ x = w
  BY Posted DEF IInv, PostWork
<1>2. posted' = posted \cup {w} /\ w \notin posted /\ UNCHANGED <<acking, sessions, child>>
  BY DEF PostWork, work
<1>3. w \notin acking /\ child[w] = "none" /\ ~Queued(w)
  BY <1>2 DEF IInv, Known
<1>4. ItemState(w) = "new" /\ ItemState(w)' = "waiting"
  BY <1>1, <1>2, <1>3 DEF ItemState
<1>5. \A x \in Work : x # w => ItemState(x)' = ItemState(x)
  BY <1>1, <1>2 DEF ItemState
<1>6. Apart'
  BY <1>1, <1>2, <1>3 DEF IInv, Apart
<1>7. Known'
  BY <1>1, <1>2 DEF IInv, Known
<1>8. SlotsCounted'
  BY <1>2 DEF IInv, SlotsCounted
<1>9. Promise!Post(w)
  BY <1>4, <1>5, OneMoves DEF Promise!Post
<1> QED
  BY <1>1, <1>6, <1>7, <1>8, <1>9 DEF Safe, Promise!Next

LEMMA TakeKeeps ==
  ASSUME IInv, TakeWork
  PROVE  Safe' /\ Promise!Next
<1>0. PICK h \in Work : h = Head(pending[env])
  BY Shifted DEF IInv, TakeWork
<1>1. /\ Distinct' /\ h \in Work /\ Queued(h)
      /\ \A x \in Work : Queued(x)' <=> Queued(x) /\ x # h
  BY <1>0, Shifted DEF IInv, TakeWork
<1>2. acking' = acking \cup {h} /\ UNCHANGED <<posted, sessions, child>>
  BY <1>0 DEF TakeWork
<1>3. h \notin acking /\ child[h] = "none" /\ h \in posted
  BY <1>1 DEF IInv, Apart, Known
<1>4. ItemState(h) = "waiting" /\ ItemState(h)' = "taken"
  BY <1>1, <1>2, <1>3 DEF ItemState
<1>5. \A x \in Work : x # h => ItemState(x)' = ItemState(x)
  BY <1>1, <1>2 DEF ItemState
<1>6. Apart' /\ Known'
  BY <1>1, <1>2, <1>3 DEF IInv, Apart, Known
<1>7. SlotsCounted'
  BY <1>2 DEF IInv, SlotsCounted
<1>8. Promise!Take(h)
  BY <1>1, <1>4, <1>5, OneMoves DEF Promise!Take
<1> QED
  BY <1>1, <1>6, <1>7, <1>8 DEF Safe, Promise!Next

LEMMA RestartKeeps ==
  ASSUME IInv, ServerRestart
  PROVE  Safe' /\ (Promise!Next \/ UNCHANGED State)
<1> DEFINE S == {w \in Work : Queued(w)}
<1>1. Distinct' /\ \A x \in Work : ~Queued(x)'
  BY Emptied DEF ServerRestart
<1>2. UNCHANGED <<posted, acking, sessions, child>>
  BY DEF ServerRestart, work
<1>3. \A x \in S : ItemState(x) = "waiting" /\ ItemState(x)' = "lost"
  BY <1>1, <1>2 DEF IInv, Apart, Known, ItemState
<1>4. \A x \in Work : x \notin S => ItemState(x)' = ItemState(x)
  BY <1>1, <1>2 DEF ItemState
<1>5. Apart' /\ Known' /\ SlotsCounted'
  BY <1>1, <1>2 DEF IInv, Apart, Known, SlotsCounted
<1>6. CASE S = {}
  BY <1>1, <1>4, <1>5, <1>6, NoneMoves DEF Safe
<1>7. CASE S # {}
  <2>1. Promise!Lose(S)
    BY <1>3, <1>4, <1>7 DEF Promise!Lose
  <2> QED
    BY <1>1, <1>5, <2>1 DEF Safe, Promise!Next
<1> QED
  BY <1>6, <1>7

\* handleWork ends without a child: the ack failed, or spawnForWork did.
LEMMA ItemDropped ==
  ASSUME IInv, NEW w \in acking, NEW c \in {"none", "failed"}, acking' = acking \ {w},
         child' = [child EXCEPT ![w] = c], UNCHANGED <<pending, posted>>,
         SlotsCounted'
  PROVE  Safe' /\ Promise!Next
<1>1. Distinct' /\ \A x \in Work : Queued(x)' <=> Queued(x)
  BY SameQueues DEF IInv
<1>2. w \in Work /\ child[w] = "none" /\ ~Queued(w) /\ w \in posted /\ child \in [Work -> Children]
  BY DEF IInv, TypeOK, Apart, Known
<1>3. child'[w] = c /\ \A x \in Work : x # w => child'[x] = child[x]
  BY <1>2
<1>4. ItemState(w) = "taken" /\ ItemState(w)' = "lost"
  BY <1>1, <1>2, <1>3 DEF ItemState
<1>5. \A x \in Work : x # w => ItemState(x)' = ItemState(x)
  BY <1>1, <1>3 DEF ItemState
<1>6. Apart' /\ Known'
  BY <1>1, <1>2, <1>3 DEF IInv, Apart, Known
<1>7. Promise!Lose({w})
  BY <1>2, <1>4, <1>5 DEF Promise!Lose
<1>8. {w} \in SUBSET Work
  BY <1>2
<1> QED
  BY <1>1, <1>6, <1>7, <1>8 DEF Safe, Promise!Next

LEMMA ItemKeeps ==
  ASSUME IInv, NEW w \in Work, ItemStep(w) \/ OrphanExit(w)
  PROVE  Safe' /\ Promise!Next
<1>1. child \in [Work -> Children] /\ Apart /\ Known /\ SlotsCounted
  BY DEF IInv, TypeOK
<1>2. CASE AckFails(w)
  <2>1. child' = [child EXCEPT ![w] = "none"]
    BY <1>1, <1>2 DEF AckFails, Apart
  <2> QED
    BY <1>1, <1>2, <2>1, ItemDropped DEF AckFails, server, SlotsCounted
<1>3. CASE SpawnThrows(w)
  <2>1. child' = [child EXCEPT ![w] = "none"]
    BY <1>1, <1>3 DEF SpawnThrows, Acked, Apart
  <2> QED
    BY <1>1, <1>3, <2>1, ItemDropped DEF SpawnThrows, Acked, server, SlotsCounted
<1>4. CASE SpawnError(w)
  BY <1>1, <1>4, ItemDropped DEF SpawnError, Acked, server, SlotsCounted
<1>5. CASE Spawn(w)
  <2>1. Distinct' /\ \A x \in Work : Queued(x)' <=> Queued(x)
    BY <1>5, SameQueues DEF IInv, Spawn, Acked, server
  <2>2. w \in acking /\ child[w] = "none" /\ ~Queued(w) /\ w \in posted
    BY <1>1, <1>5 DEF Spawn, Acked, Apart, Known
  <2>3. /\ child'[w] = "running" /\ \A x \in Work : x # w => child'[x] = child[x]
        /\ acking' = acking \ {w} /\ sessions' = sessions \cup {w} /\ posted' = posted
    BY <1>1, <1>5 DEF Spawn, Acked, server
  <2>4. ItemState(w) = "taken" /\ ItemState(w)' = "running"
    BY <2>2, <2>3 DEF ItemState
  <2>5. \A x \in Work : x # w => ItemState(x)' = ItemState(x)
    BY <2>1, <2>3 DEF ItemState
  <2>6. Apart' /\ Known'
    BY <1>1, <2>1, <2>2, <2>3 DEF Apart, Known
  <2>7. SlotsCounted'
    BY <1>1, <2>3 DEF SlotsCounted
  <2>8. Promise!Start(w)
    BY <2>4, <2>5, OneMoves DEF Promise!Start
  <2> QED
    BY <2>1, <2>6, <2>7, <2>8 DEF Safe, Promise!Next
<1>6. CASE ChildExit(w) \/ OrphanExit(w)
  <2>1. Distinct' /\ \A x \in Work : Queued(x)' <=> Queued(x)
    BY <1>6, SameQueues DEF IInv, ChildExit, OrphanExit, server
  <2>2. child[w] \in {"running", "orphaned"}
    BY <1>6 DEF ChildExit, OrphanExit
  <2>3. /\ child'[w] = "exited" /\ \A x \in Work : x # w => child'[x] = child[x]
        /\ acking' = acking /\ posted' = posted
    BY <1>1, <1>6 DEF ChildExit, OrphanExit, server
  <2>4. ItemState(w) = "running" /\ ItemState(w)' = "ended"
    BY <2>2, <2>3 DEF ItemState
  <2>5. \A x \in Work : x # w => ItemState(x)' = ItemState(x)
    BY <2>1, <2>3 DEF ItemState
  <2>6. Apart' /\ Known'
    BY <1>1, <2>1, <2>2, <2>3 DEF Apart, Known
  <2>7. SlotsCounted'
    BY <1>1, <1>6, <2>3 DEF ChildExit, OrphanExit, SlotsCounted
  <2>8. Promise!End(w)
    BY <2>4, <2>5, OneMoves DEF Promise!End
  <2> QED
    BY <2>1, <2>6, <2>7, <2>8 DEF Safe, Promise!Next
<1> QED
  BY <1>2, <1>3, <1>4, <1>5, <1>6 DEF ItemStep

LEMMA EndKeeps ==
  ASSUME IInv, ProcessEnds
  PROVE  Safe' /\ (Promise!Next \/ UNCHANGED State)
<1>1. Distinct' /\ \A x \in Work : Queued(x)' <=> Queued(x)
  BY SameQueues DEF IInv, ProcessEnds, server
<1>2. /\ acking' = {} /\ sessions' = {} /\ posted' = posted
      /\ \A x \in Work : child'[x] = CASE child[x] = "running" -> "orphaned"
                                        [] child[x] = "failed"  -> "none"
                                        [] OTHER                -> child[x]
  BY DEF ProcessEnds, server
<1>3. acking \subseteq Work /\ Apart /\ Known
  BY DEF IInv, TypeOK
<1>4. \A x \in acking : ItemState(x) = "taken" /\ ItemState(x)' = "lost"
  BY <1>1, <1>2, <1>3 DEF Apart, Known, ItemState
<1>5. \A x \in Work : x \notin acking => ItemState(x)' = ItemState(x)
  BY <1>1, <1>2, <1>3 DEF Apart, Known, ItemState
<1>6. Apart' /\ Known' /\ SlotsCounted'
  BY <1>1, <1>2, <1>3 DEF Apart, Known, SlotsCounted
<1>7. CASE acking = {}
  BY <1>1, <1>5, <1>6, <1>7, NoneMoves DEF Safe
<1>8. CASE acking # {}
  <2>1. Promise!Lose(acking)
    BY <1>3, <1>4, <1>5, <1>8 DEF Promise!Lose
  <2> QED
    BY <1>1, <1>3, <1>6, <2>1 DEF Safe, Promise!Next
<1> QED
  BY <1>7, <1>8

LEMMA Step ==
  ASSUME IInv, [Next]_vars
  PROVE  Safe' /\ (Promise!Next \/ UNCHANGED State)
<1>1. ASSUME NEW e \in Envs, NEW w \in Work, PostWork(e, w)
      PROVE  Safe' /\ (Promise!Next \/ UNCHANGED State)
  BY <1>1, PostKeeps
<1>2. CASE ServerRestart
  BY <1>2, RestartKeeps
<1>3. CASE StartBridge \/ (\E e \in Envs : Register(e)) \/ RegisterLost \/ SavePointer \/ Signal
  BY <1>3, Untouched DEF StartBridge, Register, RegisterLost, SavePointer, Signal, BeginShutdown, server, work
<1>4. CASE AskWork \/ LoopEnds \/ NoWork
  BY <1>4, Untouched DEF AskWork, LoopEnds, NoWork, server
<1>5. CASE TakeWork
  BY <1>5, TakeKeeps
<1>6. CASE PollRetry \/ PollFails \/ GiveUp
  BY <1>6, AttemptKeeps DEF PollRetry, PollFails, GiveUp, PollThrows, BeginShutdown, work
<1>7. CASE Deregister
  BY <1>7, Untouched DEF Deregister
<1>8. CASE Exit \/ Crash
  BY <1>8, EndKeeps DEF Exit, Crash
<1>9. ASSUME NEW w \in Work, ItemStep(w) \/ OrphanExit(w)
      PROVE  Safe' /\ (Promise!Next \/ UNCHANGED State)
  BY <1>9, ItemKeeps
<1>10. CASE UNCHANGED vars
  BY <1>10, Untouched DEF vars, server
<1> QED
  BY <1>1, <1>2, <1>3, <1>4, <1>5, <1>6, <1>7, <1>8, <1>9, <1>10 DEF Next, LoopStep, DownStep

LEMMA Inductive == IInv /\ [Next]_vars => IInv'
  BY Step, TypeStep DEF IInv, Safe

-----------------------------------------------------------------------------
(* The theorems. *)

(* Every variable of the server and the bridge keeps its type.             *)
THEOREM TypeCorrect == Spec => []TypeOK
<1>1. IInv => TypeOK
  BY DEF IInv
<1> QED
  BY <1>1, InitIInv, Inductive, PTL DEF Spec

(* An item is in one place at a time, whatever is lost and restarted.      *)
THEOREM InOnePlace == Spec => []OnePlace
<1>1. IInv => OnePlace
  BY OnePlaceParts DEF IInv
<1> QED
  BY <1>1, InitIInv, Inductive, PTL DEF Spec

(* The count of the capacity check is that of the children that run or     *)
(* failed to spawn.                                                        *)
THEOREM SlotsRight == Spec => []SlotsCounted
<1>1. IInv => SlotsCounted
  BY DEF IInv
<1> QED
  BY <1>1, InitIInv, Inductive, PTL DEF Spec

(* The bridge with its server implements BridgeWork: an item starts at     *)
(* most one session and never comes back.                                  *)
THEOREM PromiseKept == Spec => KeepsPromise
<1>1. Init => Promise!Init
  <2> SUFFICES ASSUME Init PROVE \A w \in Work : ItemState(w) = "new"
    BY DEF Promise!Init
  <2>1. \A e \in Envs : DOMAIN pending[e] = {}
    BY DEF Init
  <2> QED
    BY <2>1 DEF Init, ItemState, Queued
<1>2. IInv /\ [Next]_vars => [Promise!Next]_State
  BY Step
<1>3. Init /\ []IInv /\ [][Next]_vars => KeepsPromise
  BY <1>1, <1>2, PTL DEF KeepsPromise, Promise!Spec, State
<1> QED
  BY <1>3, InitIInv, Inductive, PTL DEF Spec
=============================================================================
