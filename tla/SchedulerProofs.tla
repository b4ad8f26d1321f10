---------------------------- MODULE SchedulerProofs --------------------------
(* Proofs about what the tick of the scheduler runs.  Timers: the types, when *)
(* a step may be dispatched twice, and in which order the steps are           *)
(* dispatched, for any number of workers, steps, columns and runs in flight   *)
(* and any delays.  Webhooks: the types, what makes a receiver get a delivery *)
(* twice, and how often one is attempted, for any number of events, hooks and *)
(* workers.                                                                   *)
EXTENDS Timers, Webhooks, SequenceTheorems, FiniteSetTheorems, TLAPS

\* A step that was dispatched for good has its tag, which is never taken away.
Tagged == \A f \in Steps : sent[f] = "once" => Tag(f) \in tags

\* The tick of w comes too late for the key of what it has found.
Holds(w) == w \in late /\ found[w] \in keys[Store(w)]

\* A tick that holds a step that was dispatched for good meanwhile finds its key.
Locked == \A w \in Workers : found[w] \in Steps /\ sent[found[w]] = "once" => Holds(w)

\* The steps that g comes after, and that they have their tags: they do when g is found,
\* whatever the tools do with the tags.
Before(g) ==
  {f \in Steps : \/ f \in Chases /\ g \in Chases /\ f[2] < g[2] /\ Delay(f) <= Delay(g)
                 \/ f \in Followups /\ g \in Followups /\ f[2] < g[2] /\ Delay(f) <= Delay(g)
                 \/ f \in Followups /\ g = Final /\ Delay(f) <= FinalDelay}
Ready(g) == \A f \in Before(g) : Tag(f) \in tags
InTurn == \A w \in Workers : Ready(found[w])
Sent == \A g \in Steps : sent[g] # "no" => Ready(g)

IInv == TypeOK /\ Tagged /\ Locked /\ InTurn /\ Sent /\ OncePerStep

-----------------------------------------------------------------------------
(* The steps, their delays and their order *)

\* Chase steps, follow-up steps, the farewell and the entry are different things.
LEMMA StepsApart ==
  /\ \A f \in Chases : f[1] = "chase" /\ f[2] \in 1..Len(ChaseDelay)
  /\ \A f \in Followups : f[1] = "followup" /\ f[2] \in 1..Len(FollowDelay)
  /\ Chases \cap Followups = {}
  /\ Final \notin Chases \cup Followups /\ Entry \notin Steps
  /\ None \notin Fires
<1>1. \A f \in Chases : f[1] = "chase" /\ f[2] \in 1..Len(ChaseDelay)
  BY DEF Chases
<1>2. \A f \in Followups : f[1] = "followup" /\ f[2] \in 1..Len(FollowDelay)
  BY DEF Followups
<1>3. Final[1] = "final" /\ Entry[1] = "entry"
  BY DEF Final, Entry
<1>4. "chase" # "followup" /\ "chase" # "final" /\ "followup" # "final"
      /\ "entry" # "chase" /\ "entry" # "followup" /\ "entry" # "final"
  OBVIOUS
<1> QED BY <1>1, <1>2, <1>3, <1>4, TimersAssumption DEF Steps

\* The delays are numbers, and so are the places in the lists.
LEMMA Delays ==
  /\ FinalDelay \in Nat
  /\ \A f \in Steps : Delay(f) \in Nat
  /\ \A f \in Chases \cup Followups : f[2] \in Nat
<1>1. \A i \in 1..Len(ChaseDelay) : ChaseDelay[i] \in Nat
  BY TimersAssumption, ElementOfSeq
<1>2. \A i \in 1..Len(FollowDelay) : FollowDelay[i] \in Nat
  BY TimersAssumption, ElementOfSeq
<1>3. Len(ChaseDelay) \in Nat /\ Len(FollowDelay) \in Nat
  BY TimersAssumption, LenProperties
<1>4. FinalDelay \in Nat
  <2>1. CASE FollowDelay = <<>>
    BY <2>1, TimersAssumption DEF FinalDelay
  <2>2. CASE FollowDelay # <<>>
    <3>1. Len(FollowDelay) \in 1..Len(FollowDelay)
      BY <1>3, <2>2, TimersAssumption, EmptySeq
    <3>2. FollowDelay[Len(FollowDelay)] \in Nat /\ Day \in Nat
      BY <1>2, <3>1, TimersAssumption
    <3> QED BY <2>2, <3>2 DEF FinalDelay
  <2> QED BY <2>1, <2>2
<1>5. \A f \in Steps : Delay(f) \in Nat
  BY <1>1, <1>2, <1>4, StepsApart DEF Delay
<1> QED BY <1>3, <1>4, <1>5, StepsApart

\* A step's tag is one of the tags, and nothing comes before the entry or nothing.
LEMMA TagsTyped ==
  /\ \A f \in Steps : Tag(f) \in Tags
  /\ Final \in Tags /\ Done \in Tags
  /\ Before(None) = {} /\ Before(Entry) = {}
<1>1. Tag(Final) = Final
  BY StepsApart DEF Tag
<1>2. Before(None) = {} /\ Before(Entry) = {}
  BY StepsApart DEF Before, Fires, Steps
<1> QED BY <1>1, <1>2 DEF Tags, Steps

\* What a query finds is a fire; a step it finds has no tag yet, and those before it have.
LEMMA Due ==
  ASSUME TypeOK, NEW g \in EntryDue \cup ChaseDue \cup FollowupDue
  PROVE  g \in Fires /\ (g \in Steps => Tag(g) \notin tags) /\ Ready(g)
<1>1. CASE g \in EntryDue
  <2>1. g = Entry
    BY <1>1 DEF EntryDue
  <2> QED BY <2>1, StepsApart, TagsTyped DEF Fires, Ready
<1>2. CASE g \in ChaseDue
  <2>1. g \in FirstOf(Unsent(Chases, silence))
    BY <1>2 DEF ChaseDue
  <2>2. g \in Chases /\ Tag(g) \notin tags /\ silence >= Delay(g)
        /\ \A f \in Chases : silence >= Delay(f) /\ Tag(f) \notin tags => g[2] <= f[2]
    BY <2>1 DEF FirstOf, Unsent
  <2>3. ASSUME NEW f \in Before(g) PROVE Tag(f) \in tags
    <3>1. f \in Chases /\ f[2] < g[2] /\ Delay(f) <= Delay(g)
      BY <2>2, <2>3, StepsApart DEF Before
    <3>2. f[2] \in Nat /\ g[2] \in Nat /\ silence \in Nat /\ Delay(f) \in Nat /\ Delay(g) \in Nat
      BY <2>2, <3>1, Delays DEF TypeOK, Steps
    <3>3. silence >= Delay(f) /\ ~(g[2] <= f[2])
      BY <2>2, <3>1, <3>2
    <3> QED BY <2>2, <3>1, <3>3
  <2> QED BY <2>2, <2>3 DEF Fires, Steps, Ready
<1>3. CASE g \in FollowupDue
  <2>1. CASE g \in FirstOf(Unsent(Followups, stay))
    <3>1. g \in Followups /\ Tag(g) \notin tags /\ stay >= Delay(g)
          /\ \A f \in Followups : stay >= Delay(f) /\ Tag(f) \notin tags => g[2] <= f[2]
      BY <2>1 DEF FirstOf, Unsent
    <3>2. ASSUME NEW f \in Before(g) PROVE Tag(f) \in tags
      <4>1. f \in Followups /\ f[2] < g[2] /\ Delay(f) <= Delay(g)
        BY <3>1, <3>2, StepsApart DEF Before
      <4>2. f[2] \in Nat /\ g[2] \in Nat /\ stay \in Nat /\ Delay(f) \in Nat /\ Delay(g) \in Nat
        BY <3>1, <4>1, Delays DEF TypeOK, Steps
      <4>3. stay >= Delay(f) /\ ~(g[2] <= f[2])
        BY <3>1, <4>1, <4>2
      <4> QED BY <3>1, <4>1, <4>3
    <3> QED BY <3>1, <3>2 DEF Fires, Steps, Ready
  <2>2. CASE Unsent(Followups, stay) = {} /\ g \in FinalDue
    <3>1. g = Final /\ stay >= FinalDelay /\ Final \notin tags
      BY <2>2 DEF FinalDue
    <3>2. \A f \in Followups : stay >= Delay(f) => Tag(f) \in tags
      BY <2>2 DEF Unsent
    <3>3. ASSUME NEW f \in Before(g) PROVE Tag(f) \in tags
      <4>1. f \in Followups /\ Delay(f) <= FinalDelay
        BY <3>1, <3>3, StepsApart DEF Before
      <4>2. Delay(f) \in Nat /\ FinalDelay \in Nat /\ stay \in Nat
        BY <4>1, Delays DEF TypeOK, Steps
      <4>3. stay >= Delay(f)
        BY <3>1, <4>1, <4>2
      <4> QED BY <3>2, <4>1, <4>3
    <3>4. Tag(Final) = Final
      BY StepsApart DEF Tag
    <3> QED BY <3>1, <3>3, <3>4 DEF Fires, Steps, Ready
  <2> QED BY <1>3, <2>1, <2>2 DEF FollowupDue
<1> QED BY <1>1, <1>2, <1>3

\* Tags are not taken away from what is ready.
LEMMA ReadyStays == ASSUME tags \subseteq tags', NEW g, Ready(g) PROVE Ready(g)'
BY DEF Ready

\* Where a tick goes on to: no category comes twice in one tick, and tags are only added.
LEMMA Onward ==
  ASSUME TypeOK, NEW w \in Workers, NEW f \in Fires \cup {None}, NEW newTags,
         GoesOn(w, f, newTags)
  PROVE  /\ \E g \in Fires \cup {None} :
              /\ found' = [found EXCEPT ![w] = g]
              /\ g \in Steps => g # f /\ Tag(g) \notin tags
              /\ Ready(g)
         /\ newTags \subseteq tags' /\ tags' \subseteq newTags \cup {Done}
         /\ deleted' \in BOOLEAN
<1>1. CASE /\ \E g \in Found(f) : found' = [found EXCEPT ![w] = g]
           /\ tags' = newTags /\ UNCHANGED deleted
  <2>1. PICK g \in Found(f) : found' = [found EXCEPT ![w] = g]
    BY <1>1
  <2>2. ChaseDue \subseteq Chases /\ EntryDue \subseteq {Entry}
    BY DEF ChaseDue, EntryDue, FirstOf, Unsent
  <2>3. FollowupDue \subseteq Followups \cup {Final}
    BY DEF FollowupDue, FirstOf, Unsent, FinalDue
  <2>4. \/ f = None /\ g \in EntryDue
        \/ f \in {None, Entry} /\ g \in ChaseDue
        \/ f \in {None, Entry} \cup Chases /\ g \in FollowupDue
    BY <2>1 DEF Found
  <2>5. g # f
    BY <2>2, <2>3, <2>4, StepsApart DEF Fires, Steps
  <2>6. g \in Fires /\ (g \in Steps => Tag(g) \notin tags) /\ Ready(g)
    BY <2>4, Due
  <2> QED BY <1>1, <2>1, <2>5, <2>6 DEF TypeOK
<1>2. CASE /\ Found(f) = {}
           /\ found' = [found EXCEPT ![w] = None] /\ ExecuteFinalDeletes(newTags)
  <2>1. Ready(None) /\ None \notin Steps
    BY TagsTyped, StepsApart DEF Ready, Fires
  <2> QED BY <1>2, <2>1 DEF ExecuteFinalDeletes, TypeOK
<1> QED BY <1>1, <1>2 DEF GoesOn

-----------------------------------------------------------------------------
(* The invariant *)

LEMMA InitIInv == Init => IInv
<1> SUFFICES ASSUME Init PROVE IInv
  OBVIOUS
<1>1. TypeOK
  <2>1. column \in Columns /\ 0 \in 0..MaxEvents
    BY TimersAssumption DEF Init
  <2> QED BY <2>1 DEF Init, TypeOK
<1>2. Ready(None)
  BY TagsTyped DEF Ready
<1>3. \A f \in Steps : sent[f] = "no"
  BY DEF Init
<1>4. \A w \in Workers : found[w] = None
  BY DEF Init
<1>5. Tagged /\ Sent /\ OncePerStep
  BY <1>3 DEF Tagged, Sent, OncePerStep
<1>6. Locked
  BY <1>3 DEF Locked
<1>7. InTurn
  BY <1>2, <1>4 DEF InTurn
<1> QED BY <1>1, <1>5, <1>6, <1>7 DEF IInv

\* Where a worker's keys are.
LEMMA StoreTyped ==
  ASSUME TypeOK, NEW w \in Workers
  PROVE  Store(w) \in Fallback \cup {None} /\ Store(w) \in {w, None}
BY DEF Store, TypeOK

\* Steps that dispatch nothing, find nothing, take no tag away and keep the keys that came
\* first to what has been found.
Quiet ==
  /\ sent' = sent /\ tags \subseteq tags'
  /\ \A w \in Workers : \/ found'[w] = found[w] /\ (Holds(w) => Holds(w)')
                        \/ found'[w] = None

LEMMA QuietKeeps == IInv /\ Quiet /\ TypeOK' => IInv'
<1> SUFFICES ASSUME IInv, Quiet, TypeOK' PROVE IInv'
  OBVIOUS
<1>1. None \notin Steps /\ Ready(None)'
  BY StepsApart, TagsTyped DEF Fires, Ready
<1>2. Tagged' /\ OncePerStep'
  BY DEF IInv, Quiet, Tagged, OncePerStep
<1>3. Sent'
  BY ReadyStays DEF IInv, Quiet, Sent
<1>4. Locked'
  <2> SUFFICES ASSUME NEW w \in Workers, found'[w] \in Steps, sent'[found'[w]] = "once"
               PROVE  Holds(w)'
    BY DEF Locked
  <2>1. found'[w] = found[w] /\ (Holds(w) => Holds(w)')
    BY <1>1 DEF Quiet
  <2> QED BY <2>1 DEF IInv, Quiet, Locked
<1>5. InTurn'
  <2> SUFFICES ASSUME NEW w \in Workers PROVE Ready(found[w])'
    BY DEF InTurn
  <2>1. CASE found'[w] = found[w]
    <3>1. PICK g : g = found[w]
      OBVIOUS
    <3>2. Ready(g) /\ tags \subseteq tags'
      BY <3>1 DEF IInv, Quiet, InTurn
    <3>3. Ready(g)'
      BY <3>2, ReadyStays
    <3> QED BY <2>1, <3>1, <3>3
  <2>2. CASE found'[w] = None
    BY <1>1, <2>2
  <2> QED BY <2>1, <2>2 DEF Quiet
<1> QED BY <1>2, <1>3, <1>4, <1>5 DEF IInv

\* A tick that finds its first row.
LEMMA StartKeeps == ASSUME IInv, NEW w \in Workers, TickStarts(w) PROVE IInv'
<1>1. TypeOK /\ GoesOn(w, None, tags)
  BY DEF IInv, TickStarts
<1>2. PICK g \in Fires \cup {None} :
        found' = [found EXCEPT ![w] = g] /\ (g \in Steps => Tag(g) \notin tags) /\ Ready(g)
  BY <1>1, Onward
<1>3. tags \subseteq tags' /\ tags' \subseteq tags \cup {Done} /\ deleted' \in BOOLEAN
  BY <1>1, Onward
<1>4. UNCHANGED <<column, last, spoke, silence, stay, timer, channel, own, keys, late, run,
                  pending, events, sent>>
  BY DEF TickStarts
<1>5. TypeOK'
  <2>1. found' \in [Workers -> Fires \cup {None}]
    BY <1>1, <1>2 DEF TypeOK
  <2>2. tags' \subseteq Tags
    BY <1>1, <1>3, TagsTyped DEF TypeOK
  <2> QED BY <1>1, <1>3, <1>4, <2>1, <2>2 DEF TypeOK
<1>6. \A v \in Workers : found'[v] = IF v = w THEN g ELSE found[v]
  BY <1>1, <1>2 DEF TypeOK
<1>7. Tagged' /\ OncePerStep'
  BY <1>3, <1>4 DEF IInv, Tagged, OncePerStep
<1>8. Sent'
  BY <1>3, <1>4, ReadyStays DEF IInv, Sent
<1>9. Locked'
  <2> SUFFICES ASSUME NEW v \in Workers, found'[v] \in Steps, sent'[found'[v]] = "once"
               PROVE  Holds(v)'
    BY DEF Locked
  <2>1. CASE v = w
    BY <2>1, <1>2, <1>4, <1>6 DEF IInv, Tagged
  <2>2. CASE v # w
    <3>1. found'[v] = found[v]
      BY <2>2, <1>6
    <3>2. Holds(v)
      BY <3>1, <1>4 DEF IInv, Locked
    <3> QED BY <3>1, <3>2, <1>4 DEF Holds, Store
  <2> QED BY <2>1, <2>2
<1>10. InTurn'
  <2> SUFFICES ASSUME NEW v \in Workers PROVE Ready(found[v])'
    BY DEF InTurn
  <2>1. PICK h : h = found'[v]
    OBVIOUS
  <2>2. Ready(h)
    BY <2>1, <1>2, <1>6 DEF IInv, InTurn
  <2>3. Ready(h)'
    BY <2>2, <1>3, ReadyStays
  <2> QED BY <2>1, <2>3
<1> QED BY <1>5, <1>7, <1>8, <1>9, <1>10 DEF IInv

\* The key goes to one tick; the others of its store that have found the same come too late.
LEMMA KeysStay ==
  ASSUME TypeOK, NEW w \in Workers, TakesKey(w), NEW v \in Workers, v # w,
         found'[v] = found[v],
         \/ Holds(v)
         \/ found[v] = found[w] /\ Store(v) = Store(w) /\ found[w] \notin keys[Store(w)]
  PROVE  Holds(v)'
<1>1. Store(v) \in Fallback \cup {None} /\ own' = own
  BY StoreTyped DEF TakesKey
<1>2. Wanted(w, Store(v), found[v])
  BY DEF Wanted
<1>3. found[v] \in IF Store(v) = Store(w) THEN keys[Store(v)] \cup {found[w]}
                   ELSE keys[Store(v)]
  BY DEF Holds
<1>4. found[v] \in keys'[Store(v)]
  BY <1>1, <1>2, <1>3 DEF TakesKey
<1>5. v \in late'
  BY DEF TakesKey, Holds
<1>6. Store(v)' = Store(v)
  BY <1>1 DEF Store
<1> QED BY <1>4, <1>5, <1>6 DEF Holds

\* A tick that comes to the key of what it has found, and sets the tag or cannot: it
\* dispatches a step for good only if nobody has.
LEMMA KeyKeeps ==
  ASSUME IInv, NEW w \in Workers, found[w] # None, TakesKey(w),
         events' \in 0..MaxEvents,
         UNCHANGED <<column, last, spoke, silence, stay, timer, channel, pending>>,
         NEW written \in BOOLEAN,
         \/ GoesOn(w, found[w], tags) /\ UNCHANGED <<run, sent>>
         \/ found[w] \notin keys[Store(w)] /\ Fire(w, found[w], written)
  PROVE  IInv'
<1>1. PICK f \in Fires : f = found[w]
  BY DEF IInv, TypeOK
<1>2. TypeOK /\ Ready(f)
  BY <1>1 DEF IInv, InTurn
<1>3. PICK newTags :
        /\ GoesOn(w, f, newTags)
        /\ newTags = tags \/ (f \in Steps /\ newTags = tags \cup {Tag(f)})
        /\ f \in Steps /\ sent'[f] = "once" /\ sent[f] # "once" => newTags = tags \cup {Tag(f)}
  <2>1. CASE GoesOn(w, f, tags) /\ UNCHANGED <<run, sent>>
    BY <2>1
  <2>2. CASE Fire(w, f, written)
    <3>1. f = Entry \/ f \in Steps
      BY DEF Fires
    <3>2. GoesOn(w, f, IF written /\ f # Entry THEN tags \cup {Tag(f)} ELSE tags)
      BY <2>2 DEF Fire
    <3>3. f \in Steps /\ sent'[f] = "once" /\ sent[f] # "once" => written /\ f # Entry
      BY <2>2, StepsApart DEF Fire
    <3> QED BY <3>1, <3>2, <3>3
  <2> QED BY <1>1, <2>1, <2>2
<1>4. /\ run' \in [Slots -> {"none", "llm"}]
      /\ sent' \in [Steps -> {"no", "once", "twice", "loose"}]
      /\ \A h \in Steps : h # f => sent'[h] = sent[h]
      /\ f \in Steps => sent'[f] # "twice"
      /\ f \in Steps /\ sent'[f] = "once" /\ sent[f] # "once" =>
           f \notin keys[Store(w)] /\ ~Apart(w, f)
  <2>1. CASE UNCHANGED <<run, sent>>
    BY <1>2, <2>1 DEF IInv, TypeOK, OncePerStep
  <2>2. CASE f \notin keys[Store(w)] /\ Fire(w, f, written)
    <3>1. run' \in [Slots -> {"none", "llm"}]
      BY <1>2, <2>2 DEF Fire, Starts, TypeOK
    <3>2. sent' = [g \in Steps |->
                    IF g # f \/ sent[g] = "loose" THEN sent[g]
                    ELSE IF sent[g] # "no" THEN "twice"
                    ELSE IF written /\ ~Apart(w, f) THEN "once" ELSE "loose"]
      BY <2>2 DEF Fire
    <3>3. f \in Steps => sent[f] \in {"no", "once", "loose"}
      BY <1>2 DEF IInv, TypeOK, OncePerStep
    <3>4. f \in Steps => sent[f] # "once"
      BY <1>1, <2>2 DEF IInv, Locked, Holds
    <3>5. sent' \in [Steps -> {"no", "once", "twice", "loose"}]
      BY <1>2, <3>2 DEF TypeOK
    <3> QED BY <2>2, <3>1, <3>2, <3>3, <3>4, <3>5
  <2> QED BY <1>1, <2>1, <2>2
<1>5. PICK g \in Fires \cup {None} :
        /\ found' = [found EXCEPT ![w] = g]
        /\ g \in Steps => g # f /\ Tag(g) \notin tags
        /\ Ready(g)
  BY <1>2, <1>3, Onward
<1>6. newTags \subseteq tags' /\ tags' \subseteq newTags \cup {Done} /\ deleted' \in BOOLEAN
  BY <1>2, <1>3, Onward
<1>7. tags \subseteq tags'
  BY <1>3, <1>6
<1>8. \A v \in Workers : found'[v] = IF v = w THEN g ELSE found[v]
  BY <1>2, <1>5 DEF TypeOK
<1>9. TypeOK'
  <2>1. found' \in [Workers -> Fires \cup {None}]
    BY <1>2, <1>5 DEF TypeOK
  <2>2. tags' \subseteq Tags
    BY <1>2, <1>3, <1>6, TagsTyped DEF TypeOK
  <2>3. keys' \in [Fallback \cup {None} -> SUBSET Fires]
    <3>1. \A t \in Fallback \cup {None} : keys'[t] \subseteq keys[t] \cup {f}
      BY <1>1 DEF TakesKey
    <3>2. keys' = [t \in Fallback \cup {None} |-> keys'[t]]
      BY DEF TakesKey
    <3> QED BY <1>2, <3>1, <3>2 DEF TypeOK
  <2>4. late' \subseteq Workers /\ own' = own
    BY <1>2 DEF TakesKey, TypeOK
  <2> QED BY <1>2, <1>4, <1>6, <2>1, <2>2, <2>3, <2>4 DEF TypeOK
<1>10. Tagged'
  BY <1>3, <1>4, <1>6, <1>7 DEF IInv, Tagged
<1>11. OncePerStep'
  BY <1>4 DEF IInv, OncePerStep
<1>12. Sent'
  BY <1>2, <1>4, <1>7, ReadyStays DEF IInv, Sent
<1>13. Locked'
  <2> SUFFICES ASSUME NEW v \in Workers, found'[v] \in Steps, sent'[found'[v]] = "once"
               PROVE  Holds(v)'
    BY DEF Locked
  <2>1. CASE v = w
    <3>1. g \in Steps /\ sent'[g] = "once" /\ g # f /\ Tag(g) \notin tags
      BY <2>1, <1>5, <1>8
    <3> QED BY <3>1, <1>4 DEF IInv, Tagged
  <2>2. CASE v # w
    <3>1. found'[v] = found[v]
      BY <2>2, <1>8
    <3>2. CASE sent[found[v]] = "once"
      <4>1. Holds(v)
        BY <3>1, <3>2 DEF IInv, Locked
      <4> QED BY <1>2, <2>2, <3>1, <4>1, KeysStay
    <3>3. CASE sent[found[v]] # "once"
      <4>1. found[v] = f /\ f \notin keys[Store(w)] /\ ~Apart(w, f)
        BY <3>1, <3>3, <1>4
      <4>2. Store(v) = Store(w)
        BY <2>2, <4>1 DEF Apart
      <4> QED BY <1>1, <1>2, <2>2, <3>1, <4>1, <4>2, KeysStay
    <3> QED BY <3>2, <3>3
  <2> QED BY <2>1, <2>2
<1>14. InTurn'
  <2> SUFFICES ASSUME NEW v \in Workers PROVE Ready(found[v])'
    BY DEF InTurn
  <2>1. PICK h : h = found'[v]
    OBVIOUS
  <2>2. Ready(h)
    BY <2>1, <1>5, <1>8 DEF IInv, InTurn
  <2>3. Ready(h)'
    BY <2>2, <1>7, ReadyStays
  <2> QED BY <2>1, <2>3
<1> QED BY <1>9, <1>10, <1>11, <1>12, <1>13, <1>14 DEF IInv

LEMMA DispatchKeeps ==
  ASSUME IInv, NEW w \in Workers, Dispatch(w) \/ DispatchUntagged(w)
  PROVE  IInv'
<1>1. CASE Dispatch(w)
  <2>1. /\ found[w] # None /\ TakesKey(w) /\ events' \in 0..MaxEvents
        /\ UNCHANGED <<column, last, spoke, silence, stay, timer, channel, pending>>
    BY <1>1 DEF Dispatch, IInv, TypeOK
  <2>2. \/ GoesOn(w, found[w], tags) /\ UNCHANGED <<run, sent>>
        \/ found[w] \notin keys[Store(w)] /\ Fire(w, found[w], TRUE)
    BY <1>1 DEF Dispatch
  <2> QED BY <2>1, <2>2, KeyKeeps
<1>2. CASE DispatchUntagged(w)
  <2>1. found[w] \in Steps
    BY <1>2 DEF DispatchUntagged
  <2>2. found[w] # None
    BY <2>1, StepsApart DEF Fires
  <2>3. /\ TakesKey(w) /\ Fire(w, found[w], FALSE)
        /\ UNCHANGED <<column, last, spoke, silence, stay, timer, channel, pending>>
        /\ events < MaxEvents /\ events' = events + 1
    BY <1>2 DEF DispatchUntagged, Event
  <2>4. found[w] \notin keys[Store(w)]
    BY <1>2 DEF DispatchUntagged
  <2>5. events' \in 0..MaxEvents
    BY <2>3, TimersAssumption DEF IInv, TypeOK
  <2> QED BY <2>2, <2>3, <2>4, <2>5, KeyKeeps
<1> QED BY <1>1, <1>2

\* A worker that dies takes only its own keys along.
LEMMA CrashQuiet == ASSUME TypeOK, NEW w \in Workers, Crash(w) PROVE Quiet /\ TypeOK'
<1>1. PICK alone \in SUBSET ({w} \cap Fallback) : own' = (own \ {w}) \cup alone
  BY DEF Crash
<1>2. /\ found' = [found EXCEPT ![w] = None] /\ late' = late \ {w}
      /\ keys' = [t \in Fallback \cup {None} |-> IF t = w THEN {} ELSE keys[t]]
      /\ events < MaxEvents /\ events' = events + 1
      /\ UNCHANGED <<column, deleted, last, spoke, silence, stay, tags, timer, channel,
                     pending, sent>>
  BY DEF Crash, Event, card
<1>3. run' \in [Slots -> {"none", "llm"}]
  BY DEF Crash, TypeOK
<1>4. keys' \in [Fallback \cup {None} -> SUBSET Fires]
  BY <1>2 DEF TypeOK
<1>5. TypeOK'
  BY <1>1, <1>2, <1>3, <1>4, TimersAssumption DEF TypeOK
<1>6. ASSUME NEW v \in Workers, v # w PROVE found'[v] = found[v] /\ (Holds(v) => Holds(v)')
  <2>1. found'[v] = found[v]
    BY <1>2, <1>6 DEF TypeOK
  <2>2. Store(v)' = Store(v)
    BY <1>1, <1>6 DEF Store
  <2>3. Store(v) \in Fallback \cup {None} /\ Store(v) # w
    BY <1>6, StoreTyped, TimersAssumption
  <2> QED BY <1>2, <1>6, <2>1, <2>2, <2>3 DEF Holds
<1>7. found'[w] = None
  BY <1>2 DEF TypeOK
<1> QED BY <1>2, <1>5, <1>6, <1>7 DEF Quiet

\* No key expires that a tick comes too late for.
LEMMA ExpiryQuiet ==
  ASSUME TypeOK, NEW t \in Fallback \cup {None}, NEW f \in Fires, KeyExpires(t, f)
  PROVE  Quiet /\ TypeOK'
<1>1. /\ keys' = [keys EXCEPT ![t] = @ \ {f}]
      /\ \A w \in late : ~(Store(w) = t /\ found[w] = f)
      /\ UNCHANGED <<column, deleted, last, spoke, silence, stay, tags, timer, channel, own,
                     found, late, run, pending, events, sent>>
  BY DEF KeyExpires, card
<1>2. TypeOK'
  BY <1>1 DEF TypeOK
<1>3. ASSUME NEW w \in Workers, Holds(w) PROVE Holds(w)'
  <2>1. Store(w) \in Fallback \cup {None} /\ Store(w)' = Store(w)
    BY <1>1, StoreTyped DEF Store
  <2>2. ~(Store(w) = t /\ found[w] = f)
    BY <1>1, <1>3 DEF Holds
  <2> QED BY <1>1, <1>3, <2>1, <2>2 DEF Holds, TypeOK
<1> QED BY <1>1, <1>2, <1>3 DEF Quiet

\* A step that leaves the ticks alone and takes no tag away is quiet.
LEMMA Aside ==
  ASSUME UNCHANGED ticks, UNCHANGED sent, tags \subseteq tags' PROVE Quiet
BY DEF Quiet, ticks, Holds, Store

\* Time, the runs of the agent, users and workers that die are quiet.
LEMMA OthersQuiet ==
  ASSUME IInv, Next,
         \A w \in Workers : ~TickStarts(w) /\ ~Dispatch(w) /\ ~DispatchUntagged(w)
  PROVE  Quiet /\ TypeOK'
<1> USE TimersAssumption
<1>0. TypeOK
  BY DEF IInv
<1>1. ASSUME NEW w \in Workers, DispatchFails(w) PROVE Quiet /\ TypeOK'
  <2>1. \A v \in Workers : found'[v] = IF v = w THEN None ELSE found[v]
    BY <1>0, <1>1 DEF DispatchFails, TypeOK
  <2>2. \A v \in Workers : v # w /\ Holds(v) => Holds(v)'
    BY <1>1, <2>1 DEF DispatchFails, Holds, Store
  <2>3. Quiet
    BY <1>1, <2>1, <2>2 DEF DispatchFails, Quiet
  <2>4. TypeOK'
    BY <1>0, <1>1 DEF DispatchFails, Event, TypeOK, card
  <2> QED BY <2>3, <2>4
<1>2. ASSUME NEW w \in Workers, Crash(w) PROVE Quiet /\ TypeOK'
  BY <1>0, <1>2, CrashQuiet
<1>3. CASE SilencePasses \/ StayPasses \/ TimerPasses
  <2>1. CASE SilencePasses
    BY <1>0, <2>1, Aside DEF SilencePasses, TypeOK, ticks
  <2>2. CASE StayPasses
    BY <1>0, <2>2, Aside DEF StayPasses, TypeOK, ticks
  <2>3. CASE TimerPasses
    BY <1>0, <2>3, Aside DEF TimerPasses, TypeOK, card, ticks
  <2> QED BY <1>3, <2>1, <2>2, <2>3
<1>4. ASSUME NEW t \in Fallback \cup {None}, NEW f \in Fires, KeyExpires(t, f)
      PROVE Quiet /\ TypeOK'
  BY <1>0, <1>4, ExpiryQuiet
<1>5. ASSUME NEW s \in Slots, Tool(s) PROVE Quiet /\ TypeOK'
  <2>1. /\ UNCHANGED <<channel, ticks, run, pending, events, sent>>
        /\ \/ Handover(FollowUp) \/ Handover(Human) \/ Promotion \/ BackToSeller
           \/ ScheduleDelete \/ ApplyTag
    BY <1>5 DEF Tool
  <2> DEFINE Typed ==
        /\ column' \in Columns /\ deleted' \in BOOLEAN
        /\ last' \in {"bot", "client"} /\ spoke' \in BOOLEAN
        /\ silence' \in Nat /\ stay' \in Nat
        /\ tags \subseteq tags' /\ tags' \subseteq Tags
        /\ timer' \in {"none", "armed", "due"}
  <2>2. Typed
    <3>1. Final \in Tags
      BY TagsTyped
    <3>2. ASSUME NEW c \in Columns, Handover(c) PROVE Typed
      BY <1>0, <3>2 DEF Handover, MovesTo, TypeOK
    <3>3. ASSUME Promotion PROVE Typed
      <4>1. PICK c \in Columns : MovesTo(c)
        BY <3>3 DEF Promotion
      <4>2. column' \in Columns /\ spoke' \in BOOLEAN /\ stay' \in Nat
        BY <1>0, <4>1 DEF MovesTo, TypeOK
      <4> QED BY <1>0, <3>3, <4>2 DEF Promotion, TypeOK
    <3>4. ASSUME BackToSeller PROVE Typed
      BY <1>0, <3>4 DEF BackToSeller, MovesTo, TypeOK
    <3>5. ASSUME ScheduleDelete PROVE Typed
      BY <1>0, <3>1, <3>5 DEF ScheduleDelete, TypeOK, card
    <3>6. ASSUME ApplyTag PROVE Typed
      BY <1>0, <3>6 DEF ApplyTag, TypeOK, card
    <3> QED BY <2>1, <3>2, <3>3, <3>4, <3>5, <3>6
  <2>3. TypeOK'
    BY <1>0, <2>1, <2>2 DEF TypeOK, ticks
  <2> QED BY <2>1, <2>2, <2>3, Aside
<1>6. ASSUME NEW s \in Slots, Answer(s) PROVE Quiet /\ TypeOK'
  <2>1. TypeOK'
    <3>1. run' \in [Slots -> {"none", "llm"}]
      BY <1>0, <1>6 DEF Answer, TypeOK
    <3>2. last' \in {"bot", "client"} /\ spoke' \in BOOLEAN /\ silence' \in Nat
      <4>1. CASE last' = "bot" /\ spoke' = (column \in EntryColumns) /\ silence' = 0
        BY <4>1
      <4>2. CASE UNCHANGED <<last, spoke, silence>>
        BY <1>0, <4>2 DEF TypeOK
      <4> QED BY <1>6, <4>1, <4>2 DEF Answer
    <3>3. UNCHANGED <<column, deleted, stay, tags, timer, channel, ticks, pending, events>>
      BY <1>6 DEF Answer
    <3>4. sent' = sent
      BY <1>6 DEF Answer
    <3> QED BY <1>0, <3>1, <3>2, <3>3, <3>4 DEF TypeOK, ticks
  <2>2. UNCHANGED <<ticks, sent, tags>>
    BY <1>6 DEF Answer
  <2> QED BY <2>1, <2>2, Aside
<1>7. ASSUME NEW s \in Slots, ClientRun(s) PROVE Quiet /\ TypeOK'
  <2>1. TypeOK'
    BY <1>0, <1>7 DEF ClientRun, Starts, TypeOK, card, ticks
  <2>2. UNCHANGED <<ticks, sent, tags>>
    BY <1>7 DEF ClientRun
  <2> QED BY <2>1, <2>2, Aside
<1>8. ASSUME NEW s \in Slots, InactivityFire(s) PROVE Quiet /\ TypeOK'
  <2>1. TypeOK'
    BY <1>0, <1>8 DEF InactivityFire, Event, Starts, TypeOK, card, ticks
  <2>2. UNCHANGED <<ticks, sent, tags>>
    BY <1>8 DEF InactivityFire
  <2> QED BY <2>1, <2>2, Aside
<1>9. CASE Users
  <2>1. UNCHANGED <<ticks, sent, tags>>
    BY <1>9 DEF Users, ClientWrites, UserMoves, UserDeletes, ChannelSwitched
  <2>2. ASSUME ClientWrites PROVE TypeOK'
    BY <1>0, <2>2 DEF ClientWrites, Event, TypeOK, ticks
  <2>3. ASSUME UserMoves PROVE TypeOK'
    <3>1. PICK c \in Columns : MovesTo(c)
      BY <2>3 DEF UserMoves
    <3>2. column' \in Columns /\ spoke' \in BOOLEAN /\ stay' \in Nat
      BY <1>0, <3>1 DEF MovesTo, TypeOK
    <3> QED BY <1>0, <2>3, <3>2 DEF UserMoves, Event, TypeOK, ticks
  <2>4. ASSUME UserDeletes PROVE TypeOK'
    BY <1>0, <2>4 DEF UserDeletes, Event, TypeOK, ticks
  <2>5. ASSUME ChannelSwitched PROVE TypeOK'
    BY <1>0, <2>5 DEF ChannelSwitched, Event, TypeOK, card, ticks
  <2>6. TypeOK'
    BY <1>9, <2>2, <2>3, <2>4, <2>5 DEF Users
  <2> QED BY <2>1, <2>6, Aside
<1> QED BY <1>1, <1>2, <1>3, <1>4, <1>5, <1>6, <1>7, <1>8, <1>9
        DEF Next, TimersStep, Time, RunStep

LEMMA Inductive == IInv /\ [Next]_vars => IInv'
<1> SUFFICES ASSUME IInv, [Next]_vars PROVE IInv'
  OBVIOUS
<1>1. CASE UNCHANGED vars
  <2>1. UNCHANGED <<ticks, sent, tags>>
    BY <1>1 DEF vars
  <2>2. TypeOK'
    BY <1>1 DEF vars, card, ticks, IInv, TypeOK
  <2> QED BY <2>1, <2>2, Aside, QuietKeeps
<1>2. CASE \E w \in Workers : TickStarts(w) \/ Dispatch(w) \/ DispatchUntagged(w)
  BY <1>2, StartKeeps, DispatchKeeps
<1>3. CASE Next /\ \A w \in Workers : ~TickStarts(w) /\ ~Dispatch(w) /\ ~DispatchUntagged(w)
  BY <1>3, OthersQuiet, QuietKeeps
<1> QED BY <1>1, <1>2, <1>3

\* The state always has its types: every worker has its keys in one place, and the tick finds
\* nothing but steps of the column's settings.
THEOREM TypeCorrect == Spec => []TypeOK
<1>1. Init => IInv
  BY InitIInv
<1>2. IInv /\ [Next]_vars => IInv'
  BY Inductive
<1>3. IInv => TypeOK
  BY DEF IInv
<1> QED BY <1>1, <1>2, <1>3, PTL DEF Spec

\* No step is dispatched a second time unless its tag was refused at the first, or a tick with
\* other keys had found it then: however many workers tick, whoever of them has its own keys,
\* whoever dies between the query, the key and the tag, and though the keys expire.  The tag,
\* which the tick sets before anybody runs, holds back whoever looks after it, and the key
\* whoever of the same store has looked before.
THEOREM OnceSafe == Spec => []OncePerStep
<1>1. Init => IInv
  BY InitIInv
<1>2. IInv /\ [Next]_vars => IInv'
  BY Inductive
<1>3. IInv => OncePerStep
  BY DEF IInv
<1> QED BY <1>1, <1>2, <1>3, PTL DEF Spec

\* The steps are dispatched in the order of the list as far as the delays allow, and the
\* farewell after all that are due by then, for any lists of delays, whatever moves the card
\* and its clocks between the query and the dispatch, and whether or not a tag is refused.
THEOREM OrderSafe == Spec => []StepsInOrder
<1>1. Init => IInv
  BY InitIInv
<1>2. IInv /\ [Next]_vars => IInv'
  BY Inductive
<1>3. IInv => StepsInOrder
  <2> SUFFICES ASSUME IInv PROVE StepsInOrder
    OBVIOUS
  <2>1. \A g \in Steps : sent[g] # "no" => \A f \in Before(g) : Tag(f) \in tags
    BY DEF IInv, Sent, Ready
  <2>2. ASSUME NEW f \in Chases, NEW g \in Chases,
               f[2] < g[2], Delay(f) <= Delay(g), sent[g] # "no"
        PROVE  Tag(f) \in tags
    BY <2>1, <2>2 DEF Before, Steps
  <2>3. ASSUME NEW f \in Followups, NEW g \in Followups,
               f[2] < g[2], Delay(f) <= Delay(g), sent[g] # "no"
        PROVE  Tag(f) \in tags
    BY <2>1, <2>3 DEF Before, Steps
  <2>4. ASSUME sent[Final] # "no", NEW f \in Followups, Delay(f) <= FinalDelay
        PROVE  Tag(f) \in tags
    BY <2>1, <2>4 DEF Before, Steps
  <2> QED BY <2>2, <2>3, <2>4 DEF StepsInOrder
<1> QED BY <1>1, <1>2, <1>3, PTL DEF Spec

-----------------------------------------------------------------------------
(* The outbound webhooks: lists of rows *)

\* No row is twice in q.
Distinct(q) == \A i, j \in DOMAIN q : q[i] = q[j] => i = j

\* What is left when rows are due no longer: everything but S.
LEMMA KeptRows ==
  ASSUME NEW A, NEW q \in Seq(A), NEW S, NEW at \in Kept(q, S), NEW r,
         r = [i \in DOMAIN at |-> q[at[i]]]
  PROVE  /\ r \in Seq(A) /\ ToSet(r) = ToSet(q) \ S
         /\ Distinct(q) => Distinct(r)
<1> DEFINE places == {i \in DOMAIN q : q[i] \notin S}
           n == Cardinality(places)
<1>1. DOMAIN q = 1..Len(q) /\ Len(q) \in Nat /\ \A i \in DOMAIN q : q[i] \in A
  BY LenProperties, ElementOfSeq
<1>2. n \in Nat /\ IsFiniteSet(places)
  <2>1. IsFiniteSet(1..Len(q))
    BY <1>1, FS_Interval
  <2>2. IsFiniteSet(places)
    BY <1>1, <2>1, FS_Subset
  <2> QED BY <2>2, FS_CardinalityType
<1>3. at \in [1..n -> places] /\ \A i, j \in 1..n : i < j => at[i] < at[j]
  BY DEF Kept
<1>4. n = Cardinality(places)
  OBVIOUS
<1> HIDE DEF n
<1>5. r = [i \in 1..n |-> q[at[i]]]
  BY <1>3
<1>6. \A i \in 1..n : at[i] \in DOMAIN q /\ q[at[i]] \notin S /\ at[i] \in Nat
  BY <1>1, <1>3
<1>7. r \in Seq(A)
  BY <1>1, <1>2, <1>5, <1>6, SeqDef
<1>8. \A i, j \in 1..n : at[i] = at[j] => i = j
  BY <1>2, <1>3, <1>6
<1>9. \A p \in places : \E i \in 1..n : at[i] = p
  <2>1. at \in Injection(1..n, places)
    BY <1>3, <1>8 DEF Injection, IsInjective
  <2>2. Cardinality(1..n) = Cardinality(places)
    BY <1>2, <1>4, FS_Interval
  <2>3. at \in Surjection(1..n, places)
    BY <1>2, <2>1, <2>2, FS_Injection
  <2> QED BY <2>3 DEF Surjection
<1>10. ToSet(r) = ToSet(q) \ S
  <2>1. ToSet(r) \subseteq ToSet(q) \ S
    BY <1>5, <1>6 DEF ToSet
  <2>2. ASSUME NEW d \in ToSet(q) \ S PROVE d \in ToSet(r)
    <3>1. PICK p \in places : q[p] = d
      BY <2>2 DEF ToSet
    <3>2. PICK i \in 1..n : at[i] = p
      BY <1>9, <3>1
    <3> QED BY <1>5, <3>1, <3>2 DEF ToSet
  <2> QED BY <2>1, <2>2
<1>11. ASSUME Distinct(q), NEW i \in DOMAIN r, NEW j \in DOMAIN r, r[i] = r[j] PROVE i = j
  <2>1. i \in 1..n /\ j \in 1..n /\ at[i] = at[j]
    BY <1>5, <1>6, <1>11 DEF Distinct
  <2> QED BY <1>8, <2>1
<1>12. Distinct(q) => Distinct(r)
  BY <1>11 DEF Distinct
<1> QED BY <1>7, <1>10, <1>12

LEMMA OneMoreRow ==
  ASSUME NEW A, NEW q \in Seq(A), NEW d \in A, d \notin ToSet(q), Distinct(q)
  PROVE  /\ Append(q, d) \in Seq(A) /\ ToSet(Append(q, d)) = ToSet(q) \cup {d}
         /\ Distinct(Append(q, d))
<1> DEFINE r == Append(q, d)
<1>1. /\ r \in Seq(A) /\ DOMAIN r = 1..Len(q) + 1 /\ DOMAIN q = 1..Len(q) /\ Len(q) \in Nat
      /\ (\A i \in 1..Len(q) : r[i] = q[i]) /\ r[Len(q) + 1] = d
  BY AppendProperties, LenProperties
<1> HIDE DEF r
<1>2. \A i \in DOMAIN r : i \in 1..Len(q) \/ i = Len(q) + 1
  BY <1>1
<1>3. ToSet(r) \subseteq ToSet(q) \cup {d}
  BY <1>1, <1>2 DEF ToSet
<1>4. ToSet(q) \cup {d} \subseteq ToSet(r)
  <2>1. \A i \in 1..Len(q) : i \in DOMAIN r /\ r[i] = q[i]
    BY <1>1
  <2>2. Len(q) + 1 \in DOMAIN r
    BY <1>1
  <2> QED BY <1>1, <2>1, <2>2 DEF ToSet
<1>5. ASSUME NEW i \in DOMAIN r, NEW j \in DOMAIN r, r[i] = r[j] PROVE i = j
  <2>1. \A k \in 1..Len(q) : q[k] # d
    BY <1>1 DEF ToSet
  <2>2. CASE i = Len(q) + 1 \/ j = Len(q) + 1
    BY <1>1, <1>2, <1>5, <2>1, <2>2
  <2>3. CASE i \in 1..Len(q) /\ j \in 1..Len(q)
    BY <1>1, <1>5, <2>3 DEF Distinct
  <2> QED BY <1>2, <2>2, <2>3
<1> QED BY <1>1, <1>3, <1>4, <1>5 DEF r, Distinct

LEMMA FirstRows ==
  ASSUME NEW A, NEW q \in Seq(A), Distinct(q), NEW n \in 0..Len(q)
  PROVE  /\ SubSeq(q, 1, n) \in Seq(A) /\ ToSet(SubSeq(q, 1, n)) \subseteq ToSet(q)
         /\ Distinct(SubSeq(q, 1, n))
<1> DEFINE r == SubSeq(q, 1, n)
<1>1. DOMAIN q = 1..Len(q) /\ Len(q) \in Nat /\ \A i \in DOMAIN q : q[i] \in A
  BY LenProperties, ElementOfSeq
<1>2. \A i \in 1..n : i \in DOMAIN q /\ q[i] \in A
  BY <1>1
<1>3. n \in Int /\ 1 \in Int /\ n \in Nat
  BY <1>1
<1>4. /\ r \in Seq(A) /\ Len(r) = (IF 1 <= n THEN n - 1 + 1 ELSE 0)
      /\ \A i \in 1..n - 1 + 1 : r[i] = q[1 + i - 1]
  BY <1>2, <1>3, SubSeqProperties
<1> HIDE DEF r
<1>5. DOMAIN r = 1..n
  BY <1>3, <1>4, LenProperties
<1>6. \A i \in 1..n : r[i] = q[i]
  <2> SUFFICES ASSUME NEW i \in 1..n PROVE r[i] = q[i]
    OBVIOUS
  <2>1. i \in 1..n - 1 + 1 /\ 1 + i - 1 = i
    BY <1>3
  <2> QED BY <1>4, <2>1
<1> QED BY <1>2, <1>4, <1>5, <1>6 DEF r, ToSet, Distinct

LEMMA NextRow ==
  ASSUME NEW A, NEW q \in Seq(A), q # <<>>, Distinct(q)
  PROVE  /\ Head(q) \in A /\ Head(q) \in ToSet(q) /\ Tail(q) \in Seq(A)
         /\ ToSet(Tail(q)) \subseteq ToSet(q) \ {Head(q)} /\ Distinct(Tail(q))
<1>1. /\ Head(q) \in A /\ Tail(q) \in Seq(A) /\ Head(q) = q[1]
      /\ \A i \in 1..Len(q) - 1 : Tail(q)[i] = q[i + 1]
      /\ Len(q) \in Nat /\ Len(q) >= 1 /\ DOMAIN q = 1..Len(q) /\ DOMAIN Tail(q) = 1..Len(q) - 1
  BY HeadTailProperties, EmptySeq, LenProperties
<1>2. \A i \in 1..Len(q) - 1 : i + 1 \in DOMAIN q /\ i + 1 # 1
  BY <1>1
<1>3. Head(q) \in ToSet(q)
  BY <1>1 DEF ToSet
<1>4. ASSUME NEW i \in DOMAIN Tail(q) PROVE Tail(q)[i] \in ToSet(q) /\ Tail(q)[i] # Head(q)
  <2>1. i + 1 \in DOMAIN q /\ Tail(q)[i] = q[i + 1] /\ i + 1 # 1 /\ 1 \in DOMAIN q
    BY <1>1, <1>2
  <2> QED BY <1>1, <2>1 DEF ToSet, Distinct
<1>5. ASSUME NEW i \in DOMAIN Tail(q), NEW j \in DOMAIN Tail(q), Tail(q)[i] = Tail(q)[j] PROVE i = j
  <2>1. i + 1 \in DOMAIN q /\ j + 1 \in DOMAIN q /\ q[i + 1] = q[j + 1] /\ i \in Nat /\ j \in Nat
    BY <1>1, <1>2, <1>5
  <2>2. i + 1 = j + 1
    BY <2>1 DEF Distinct
  <2> QED BY <2>1, <2>2
<1>6. ToSet(Tail(q)) \subseteq ToSet(q) \ {Head(q)}
  BY <1>4 DEF ToSet
<1> QED BY <1>1, <1>3, <1>5, <1>6 DEF Distinct

-----------------------------------------------------------------------------
(* The outbound webhooks: the invariant, of one delivery at a time *)

\* The attempt of its emit, and that of the tick, is in flight.
Sending(d) == job[d] = d
Retrying(d) == job[Scheduler] = d
Listed(d) == d \in ToSet(list)
Extra(d) == IF d \in raced THEN 1 ELSE 0
Now(d) == (IF Sending(d) THEN 1 ELSE 0) + (IF Retrying(d) THEN 1 ELSE 0)

\* Before its emit has come to it, nothing has happened to a delivery.
Unborn(d) ==
  /\ on[d[1]] = Nothing => row[d] = "none" /\ d[2] \notin todo[d[1]]
  /\ d[2] \in todo[d[1]] => row[d] = "none"
  /\ row[d] = "none" =>
       ~Sending(d) /\ ~Retrying(d) /\ ~Listed(d) /\ count[d] = 0 /\ ended[d] = 0 /\ d \notin taken

\* An emit's attempt is of its own delivery; what the receiver has handled is being attempted.
Owned(d) ==
  /\ job[d] \in {d, Nothing}
  /\ d \in took => Sending(d)

\* Only open rows are due, and the tick has taken from its list what it attempts.
Queued(d) ==
  /\ d \in ToSet(due) => row[d] = "open"
  /\ Retrying(d) => ~Listed(d)

\* Two attempts at once are the first two; what an emit attempts and the tick has selected
\* stays due until one of them ends.
Paired(d) ==
  /\ Sending(d) /\ Retrying(d) => d \in raced /\ ended[d] = 0
  /\ Sending(d) /\ d \in ToSet(due) => ended[d] = 0
  /\ Listed(d) /\ row[d] # "gone" => d \in ToSet(due) \/ (~Sending(d) /\ ended[d] <= 1)

\* What an attempt has read and will write is what has ended, but for the extra one.
Counted(d) ==
  /\ count[d] <= ended[d]
  /\ row[d] # "gone" => ended[d] <= count[d] + Extra(d)
  /\ row[d] = "open" => count[d] < MaxAttempts
  /\ row[d] = "over" /\ d \notin succeeded => count[d] >= MaxAttempts
  /\ Sending(d) => read[d] <= ended[d] /\ ended[d] <= read[d] + Extra(d)
  /\ Retrying(d) => read[Scheduler] <= ended[d] /\ ended[d] <= read[Scheduler] + Extra(d)
  /\ ended[d] + Now(d) <= MaxAttempts + Extra(d)

\* What was handled is still in its attempt, or that attempt has succeeded and was the last.
Answered(d) ==
  d \in taken /\ d \notin raced \cup unsure =>
    \/ Sending(d) /\ d \in took
    \/ Retrying(d) /\ Scheduler \in took
    \/ row[d] \in {"over", "gone"} /\ ~Sending(d) /\ ~Retrying(d)

Whole ==
  /\ \A e \in Events : \A h \in todo[e] : <<e, h>> \in Deliveries
  /\ Scheduler \in took => job[Scheduler] # Nothing
  /\ Distinct(due) /\ Distinct(list)
  /\ RepeatsExplained

WebhooksIInv ==
  /\ WebhooksTypeOK /\ Whole
  /\ \A d \in Deliveries :
       Unborn(d) /\ Owned(d) /\ Queued(d) /\ Paired(d) /\ Counted(d) /\ Answered(d)

\* What of the state the invariant says anything about d from.
Untouched(d) ==
  /\ row'[d] = row[d] /\ count'[d] = count[d] /\ ended'[d] = ended[d]
  /\ (d \in succeeded' <=> d \in succeeded) /\ (d \in taken' <=> d \in taken)
  /\ (d \in raced' <=> d \in raced) /\ (d \in unsure' <=> d \in unsure)
  /\ (on'[d[1]] = Nothing => on[d[1]] = Nothing)
  /\ (d[2] \in todo'[d[1]] => d[2] \in todo[d[1]] \/ (row[d] = "none" /\ on'[d[1]] # Nothing))
  /\ (d \in ToSet(due') <=> d \in ToSet(due)) /\ (Listed(d)' => Listed(d))
  /\ (Sending(d)' <=> Sending(d)) /\ (Retrying(d)' <=> Retrying(d)) /\ job'[d] \in {d, Nothing}
  /\ (Sending(d) => read'[d] = read[d] /\ (d \in took' <=> d \in took))
  /\ (Retrying(d) => read'[Scheduler] = read[Scheduler] /\ (Scheduler \in took' <=> Scheduler \in took))
  /\ (d \in took' => d \in took)

LEMMA Things ==
  /\ \A d \in Deliveries : d[1] \in Events /\ d[2] \in Hooks /\ d = <<d[1], d[2]>>
  /\ \A d \in Deliveries : d # Nothing /\ d # Scheduler /\ d \in Runners
  /\ \A e, h : <<e, h>>[1] = e /\ <<e, h>>[2] = h
  /\ Scheduler \in Runners /\ Scheduler # Nothing
  /\ \A x \in Runners : x = Scheduler \/ x \in Deliveries
  /\ MaxAttempts \in Nat /\ MaxAttempts >= 1 /\ Limit \in Nat /\ Limit >= 1
BY WebhooksAssumption DEF Runners, Deliveries

LEMMA UntouchedKeeps ==
  ASSUME WebhooksIInv, NEW d \in Deliveries, Untouched(d)
  PROVE  (Unborn(d) /\ Owned(d) /\ Queued(d) /\ Paired(d) /\ Counted(d) /\ Answered(d))'
<1>1. Unborn(d) /\ Owned(d) /\ Queued(d) /\ Paired(d) /\ Counted(d) /\ Answered(d)
  BY DEF WebhooksIInv
<1>2. Now(d)' = Now(d) /\ Extra(d)' = Extra(d)
  BY DEF Untouched, Now, Extra
<1>3. Unborn(d)'
  BY <1>1 DEF Untouched, Unborn
<1>4. Owned(d)'
  BY <1>1, Things DEF Untouched, Owned, Sending
<1>5. Queued(d)'
  BY <1>1 DEF Untouched, Queued
<1>6. Paired(d)'
  BY <1>1 DEF Untouched, Paired
<1>7. Counted(d)'
  BY <1>1, <1>2 DEF Untouched, Counted
<1>8. Answered(d)'
  BY <1>1 DEF Untouched, Answered
<1> QED BY <1>3, <1>4, <1>5, <1>6, <1>7, <1>8

LEMMA WebhooksInitIInv == WebhooksInit => WebhooksIInv
<1> SUFFICES ASSUME WebhooksInit PROVE WebhooksIInv
  OBVIOUS
<1>1. WebhooksTypeOK
  BY Things DEF WebhooksInit, WebhooksTypeOK
<1>2. ToSet(due) = {} /\ ToSet(list) = {} /\ Distinct(due) /\ Distinct(list)
  BY DEF WebhooksInit, ToSet, Distinct
<1>3. Whole
  BY <1>2 DEF WebhooksInit, Whole, RepeatsExplained
<1>4. ASSUME NEW d \in Deliveries
      PROVE Unborn(d) /\ Owned(d) /\ Queued(d) /\ Paired(d) /\ Counted(d) /\ Answered(d)
  <2>1. /\ row[d] = "none" /\ count[d] = 0 /\ ended[d] = 0 /\ job[d] = Nothing /\ job[Scheduler] = Nothing
        /\ d \notin taken /\ d \notin took /\ Scheduler \notin took /\ todo[d[1]] = {}
    BY Things DEF WebhooksInit
  <2>2. ~Sending(d) /\ ~Retrying(d) /\ ~Listed(d) /\ d \notin ToSet(due)
    BY <1>2, <2>1, Things DEF Sending, Retrying, Listed
  <2>3. Extra(d) \in {0, 1} /\ Now(d) = 0
    BY <2>2 DEF Extra, Now
  <2>4. Unborn(d) /\ Owned(d) /\ Queued(d) /\ Paired(d) /\ Answered(d)
    BY <2>1, <2>2 DEF Unborn, Owned, Queued, Paired, Answered
  <2>5. Counted(d)
    BY <2>1, <2>2, <2>3, Things DEF Counted
  <2> QED BY <2>4, <2>5
<1> QED BY <1>1, <1>3, <1>4 DEF WebhooksIInv

-----------------------------------------------------------------------------
(* The outbound webhooks: one step at a time *)

LEMMA EmitStep ==
  ASSUME WebhooksIInv, NEW e \in Events, NEW w \in Processes, Emit(e, w)
  PROVE  WebhooksIInv'
<1>1. /\ WebhooksTypeOK /\ Whole /\ w # Nothing /\ on[e] = Nothing
      /\ \A d \in Deliveries : Unborn(d) /\ Owned(d)
  BY WebhooksAssumption DEF WebhooksIInv, Emit
<1>2. /\ on' = [on EXCEPT ![e] = w]
      /\ todo' = [todo EXCEPT ![e] = {h \in Hooks : <<e, h>> \in Subscribed /\ Posts(h)}]
      /\ UNCHANGED <<enabled, removed, row, count, succeeded, due, job, read, took, list,
                     taken, repeated, unsure, raced, ended, edits, crashes>>
  BY DEF Emit, hooks, rows, attempts, past
<1>3. WebhooksTypeOK'
  BY <1>1, <1>2 DEF WebhooksTypeOK
<1>4. Whole'
  <2>1. ASSUME NEW f \in Events, NEW h \in todo'[f] PROVE <<f, h>> \in Deliveries
    BY <1>1, <1>2, <2>1 DEF Whole, WebhooksTypeOK, Deliveries
  <2>2. (Scheduler \in took => job[Scheduler] # Nothing) /\ Distinct(due) /\ Distinct(list)
        /\ repeated \subseteq raced \cup unsure
    BY <1>1 DEF Whole, RepeatsExplained
  <2> QED BY <1>2, <2>1, <2>2 DEF Whole, RepeatsExplained
<1>5. ASSUME NEW d \in Deliveries PROVE Untouched(d)
  <2>1. on'[d[1]] = Nothing => on[d[1]] = Nothing
    BY <1>1, <1>2, Things DEF WebhooksTypeOK
  <2>2. d[2] \in todo'[d[1]] => d[2] \in todo[d[1]] \/ (row[d] = "none" /\ on'[d[1]] # Nothing)
    BY <1>1, <1>2, Things DEF WebhooksTypeOK, Unborn
  <2> QED BY <1>1, <1>2, <2>1, <2>2 DEF Untouched, Sending, Retrying, Listed, Owned
<1> QED BY <1>3, <1>4, <1>5, UntouchedKeeps DEF WebhooksIInv

LEMMA InsertFailsStep ==
  ASSUME WebhooksIInv, NEW e \in Events, NEW h \in Hooks, InsertFails(e, h)
  PROVE  WebhooksIInv'
<1>1. WebhooksTypeOK /\ Whole /\ \A d \in Deliveries : Owned(d)
  BY DEF WebhooksIInv
<1>2. /\ todo' = [todo EXCEPT ![e] = {}]
      /\ UNCHANGED <<enabled, removed, row, count, succeeded, due, on, job, read, took, list,
                     taken, repeated, unsure, raced, ended, edits, crashes>>
  BY DEF InsertFails, hooks, rows, attempts, past
<1>3. WebhooksTypeOK'
  BY <1>1, <1>2 DEF WebhooksTypeOK
<1>4. \A f \in Events : todo'[f] \subseteq todo[f]
  BY <1>1, <1>2 DEF WebhooksTypeOK
<1>5. Whole'
  BY <1>1, <1>2, <1>4 DEF Whole, RepeatsExplained
<1>6. ASSUME NEW d \in Deliveries PROVE Untouched(d)
  BY <1>1, <1>2, <1>4, Things DEF Untouched, Sending, Retrying, Listed, Owned
<1> QED BY <1>3, <1>5, <1>6, UntouchedKeeps DEF WebhooksIInv

\* The row that an emit makes: it is the first thing that happens to the delivery.
LEMMA InsertStep ==
  ASSUME WebhooksIInv, NEW e \in Events, NEW h \in Hooks, Insert(e, h)
  PROVE  WebhooksIInv'
<1> DEFINE b == <<e, h>>
<1>1. /\ WebhooksTypeOK /\ Whole /\ b \in Deliveries /\ b[1] = e /\ b[2] = h /\ h \in todo[e]
      /\ \A d \in Deliveries : Unborn(d) /\ Owned(d) /\ Queued(d)
  BY Things DEF WebhooksIInv, Whole, Insert
<1> HIDE DEF b
<1>2. /\ row[b] = "none" /\ b \notin ToSet(due) /\ ~Sending(b) /\ ~Retrying(b) /\ ~Listed(b)
      /\ count[b] = 0 /\ ended[b] = 0 /\ b \notin taken
  BY <1>1 DEF Unborn, Queued
<1>begun. on[e] # Nothing
  BY <1>1 DEF Unborn
<1>3. job[b] = Nothing /\ b \notin took
  BY <1>1, <1>2 DEF Owned, Sending
<1>4. /\ todo' = [todo EXCEPT ![e] = @ \ {h}] /\ row' = [row EXCEPT ![b] = "open"]
      /\ due' = Append(due, b)
      /\ UNCHANGED <<enabled, removed, count, succeeded, on, took, list,
                     taken, repeated, unsure, raced, ended, edits, crashes>>
  BY DEF Insert, hooks, past, b
<1>posts. \/ StartAttempt(b, b, 0)
          \/ job' = job /\ read' = read
  <2>1. IF Posts(h) THEN StartAttempt(b, b, 0) ELSE UNCHANGED <<job, read>>
    BY DEF Insert, b
  <2>2. CASE Posts(h)
    BY <2>1, <2>2
  <2>3. CASE ~Posts(h)
    BY <2>1, <2>3
  <2> QED BY <2>2, <2>3
<1>5. due' \in Seq(Deliveries) /\ ToSet(due') = ToSet(due) \cup {b} /\ Distinct(due')
  BY <1>1, <1>2, <1>4, OneMoreRow DEF WebhooksTypeOK, Whole
<1>6. /\ job' \in [Runners -> Deliveries \cup {Nothing}] /\ read' \in [Runners -> Nat]
      /\ job'[b] \in {b, Nothing} /\ job'[Scheduler] = job[Scheduler]
      /\ job'[b] = b => read'[b] = 0
      /\ \A d \in Deliveries : d # b => job'[d] = job[d] /\ read'[d] = read[d]
      /\ read'[Scheduler] = read[Scheduler]
  <2>1. b \in Runners /\ b # Scheduler /\ \A d \in Deliveries : d \in Runners
    BY <1>1, Things
  <2>2. CASE StartAttempt(b, b, 0)
    BY <1>1, <2>1, <2>2, Things DEF WebhooksTypeOK, StartAttempt
  <2>3. CASE job' = job /\ read' = read
    BY <1>1, <1>3, <2>1, <2>3, Things DEF WebhooksTypeOK
  <2> QED BY <1>posts, <2>2, <2>3
<1>7. WebhooksTypeOK'
  BY <1>1, <1>4, <1>5, <1>6 DEF WebhooksTypeOK
<1>8. Whole'
  <2>1. \A f \in Events : todo'[f] \subseteq todo[f]
    BY <1>1, <1>4 DEF WebhooksTypeOK
  <2> QED BY <1>1, <1>4, <1>5, <1>6, <2>1 DEF Whole, RepeatsExplained
<1>9. ASSUME NEW d \in Deliveries, d # b PROVE Untouched(d)
  <2>1. row'[d] = row[d] /\ (d[2] \in todo'[d[1]] => d[2] \in todo[d[1]])
    BY <1>1, <1>4, <1>9, Things DEF WebhooksTypeOK
  <2> QED BY <1>1, <1>4, <1>5, <1>6, <1>9, <2>1 DEF Untouched, Sending, Retrying, Listed, Owned
<1>10. (Unborn(b) /\ Owned(b) /\ Queued(b) /\ Paired(b) /\ Counted(b) /\ Answered(b))'
  <2>1. /\ row'[b] = "open" /\ count'[b] = 0 /\ ended'[b] = 0 /\ b \notin taken' /\ b \notin took'
        /\ on'[e] # Nothing /\ h \notin todo'[e] /\ ~Retrying(b)' /\ ~Listed(b)' /\ b \in ToSet(due')
    <3>1. row'[b] = "open" /\ h \notin todo'[e]
      BY <1>1, <1>4 DEF WebhooksTypeOK
    <3> QED BY <1>begun, <1>2, <1>3, <1>4, <1>5, <1>6, <3>1 DEF Retrying, Listed
  <2>2. Now(b)' \in {0, 1} /\ Extra(b)' \in {0, 1} /\ (Sending(b)' => read'[b] = 0)
    BY <1>6, <2>1 DEF Now, Extra, Sending
  <2>3. Unborn(b)' /\ Queued(b)' /\ Paired(b)' /\ Answered(b)'
    BY <1>1, <2>1 DEF Unborn, Queued, Paired, Answered
  <2>4. Owned(b)'
    BY <1>6, <2>1 DEF Owned
  <2>5. Counted(b)'
    BY <2>1, <2>2, Things DEF Counted
  <2> QED BY <2>3, <2>4, <2>5
<1> QED BY <1>7, <1>8, <1>9, <1>10, UntouchedKeeps DEF WebhooksIInv

\* The tick selects rows that are due.
LEMMA SelectStep ==
  ASSUME WebhooksIInv, Select
  PROVE  WebhooksIInv'
<1>1. /\ WebhooksTypeOK /\ Whole /\ job[Scheduler] = Nothing
      /\ \A d \in Deliveries : Unborn(d) /\ Owned(d) /\ Queued(d) /\ Paired(d) /\ Counted(d) /\ Answered(d)
  BY DEF WebhooksIInv, Select
<1>2. PICK n \in 0..Len(due) : list' = SubSeq(due, 1, n)
  <2>1. Len(due) \in Nat
    BY <1>1, LenProperties DEF WebhooksTypeOK
  <2>2. (IF Len(due) < Limit THEN Len(due) ELSE Limit) \in 0..Len(due)
    BY <2>1, Things
  <2> QED BY <2>2 DEF Select
<1>3. UNCHANGED <<enabled, removed, row, count, succeeded, due, on, todo, job, read, took,
                  taken, repeated, unsure, raced, ended, edits, crashes>>
  BY DEF Select, hooks, rows, emits, attempts, past
<1>4. list' \in Seq(Deliveries) /\ ToSet(list') \subseteq ToSet(due) /\ Distinct(list')
  BY <1>1, <1>2, FirstRows DEF WebhooksTypeOK, Whole
<1>5. WebhooksTypeOK' /\ Whole'
  BY <1>1, <1>3, <1>4 DEF WebhooksTypeOK, Whole, RepeatsExplained
<1>6. ASSUME NEW d \in Deliveries
      PROVE (Unborn(d) /\ Owned(d) /\ Queued(d) /\ Paired(d) /\ Counted(d) /\ Answered(d))'
  <2>1. /\ Listed(d)' => d \in ToSet(due) /\ row[d] = "open"
        /\ ~Retrying(d)' /\ (Sending(d)' <=> Sending(d)) /\ ~Retrying(d)
        /\ Now(d)' = Now(d) /\ Extra(d)' = Extra(d)
    BY <1>1, <1>3, <1>4, Things DEF Listed, Retrying, Sending, Queued, Now, Extra
  <2>2. Unborn(d)' /\ Queued(d)' /\ Paired(d)'
    BY <1>1, <1>3, <2>1 DEF Unborn, Queued, Paired
  <2>3. Owned(d)' /\ Counted(d)' /\ Answered(d)'
    BY <1>1, <1>3, <2>1 DEF Owned, Counted, Answered
  <2> QED BY <2>2, <2>3
<1> QED BY <1>5, <1>6 DEF WebhooksIInv

\* The tick comes to a row of its list, which the emit may be attempting, or have attempted.
LEMMA RetryStep ==
  ASSUME WebhooksIInv, Retry
  PROVE  WebhooksIInv'
<1>1. /\ WebhooksTypeOK /\ Whole /\ job[Scheduler] = Nothing /\ list # <<>>
      /\ \A d \in Deliveries : Unborn(d) /\ Owned(d) /\ Queued(d) /\ Paired(d) /\ Counted(d) /\ Answered(d)
  BY DEF WebhooksIInv, Retry
<1>2. PICK b \in Deliveries :
      /\ b = Head(list) /\ b \in ToSet(list) /\ list' \in Seq(Deliveries)
      /\ ToSet(list') \subseteq ToSet(list) \ {b} /\ Distinct(list')
  BY <1>1, NextRow DEF Retry, WebhooksTypeOK, Whole
<1>3. UNCHANGED <<enabled, removed, row, count, succeeded, due, on, todo, took,
                  taken, repeated, unsure, ended, edits, crashes>>
  BY DEF Retry, hooks, rows, emits
<1>4. \/ /\ row[b] # "gone" /\ StartAttempt(Scheduler, b, count[b])
         /\ raced' = IF InFlight(b) \/ b \notin ToSet(due) THEN raced \cup {b} ELSE raced
      \/ job' = job /\ read' = read /\ raced' = raced
  <2>1. IF row[b] # "gone" /\ Posts(HookOf(b))
        THEN /\ StartAttempt(Scheduler, b, count[b])
             /\ raced' = IF InFlight(b) \/ b \notin ToSet(due) THEN raced \cup {b} ELSE raced
        ELSE UNCHANGED <<job, read, raced>>
    BY <1>2 DEF Retry
  <2> QED BY <2>1
<1>5. CASE job' = job /\ read' = read /\ raced' = raced
  <2>1. WebhooksTypeOK' /\ Whole'
    BY <1>1, <1>2, <1>3, <1>5 DEF WebhooksTypeOK, Whole, RepeatsExplained
  <2>2. ASSUME NEW d \in Deliveries PROVE Untouched(d)
    BY <1>1, <1>2, <1>3, <1>5 DEF Untouched, Sending, Retrying, Listed, Owned
  <2> QED BY <2>1, <2>2, UntouchedKeeps DEF WebhooksIInv
<1>6. CASE /\ row[b] # "gone" /\ StartAttempt(Scheduler, b, count[b])
           /\ raced' = IF InFlight(b) \/ b \notin ToSet(due) THEN raced \cup {b} ELSE raced
  <2>1. /\ job' = [job EXCEPT ![Scheduler] = b] /\ read' = [read EXCEPT ![Scheduler] = count[b]]
        /\ raced \subseteq raced' /\ raced' \subseteq raced \cup {b}
    BY <1>6 DEF StartAttempt
  <2>2. /\ job'[Scheduler] = b /\ read'[Scheduler] = count[b]
        /\ \A d \in Deliveries : job'[d] = job[d] /\ read'[d] = read[d]
    BY <1>1, <2>1, Things DEF WebhooksTypeOK
  <2>3. WebhooksTypeOK'
    BY <1>1, <1>2, <1>3, <2>1, Things DEF WebhooksTypeOK
  <2>4. Whole'
    BY <1>1, <1>2, <1>3, <2>1, <2>2, Things DEF Whole, RepeatsExplained
  <2>5. ASSUME NEW d \in Deliveries, d # b PROVE Untouched(d)
    BY <1>1, <1>2, <1>3, <2>1, <2>2, <2>5, Things DEF Untouched, Sending, Retrying, Listed, Owned
  <2>6. /\ ~Retrying(b) /\ Retrying(b)' /\ (Sending(b)' <=> Sending(b)) /\ Listed(b) /\ ~Listed(b)'
        /\ row[b] # "none"
    BY <1>1, <1>2, <2>2, Things DEF Sending, Retrying, Listed, Unborn
  <2>7. /\ Sending(b) => b \in ToSet(due) /\ ended[b] = 0
        /\ b \notin ToSet(due) => ended[b] <= 1 /\ ~Sending(b)
    BY <1>1, <1>2, <1>6, <2>6 DEF Paired
  <2>8. Sending(b) \/ b \notin ToSet(due) => b \in raced'
    BY <1>2, <1>6, Things DEF InFlight, Sending
  <2>9. Unborn(b)' /\ Owned(b)' /\ Queued(b)' /\ Paired(b)'
    BY <1>1, <1>2, <1>3, <2>2, <2>6, <2>7, <2>8 DEF Unborn, Owned, Queued, Paired
  <2>10. Counted(b)'
    <3>1. /\ count[b] \in Nat /\ ended[b] \in Nat /\ read[b] \in Nat
          /\ count[b] <= ended[b] /\ ended[b] <= count[b] + Extra(b)
          /\ row[b] = "open" => count[b] < MaxAttempts
          /\ row[b] = "over" /\ b \notin succeeded => count[b] >= MaxAttempts
          /\ Sending(b) => read[b] <= ended[b] /\ ended[b] <= read[b] + Extra(b)
      BY <1>1, <1>2, <1>6, Things DEF WebhooksTypeOK, Counted
    <3>2. /\ Extra(b) \in {0, 1} /\ Extra(b)' \in {0, 1} /\ Extra(b) <= Extra(b)'
          /\ Sending(b) \/ b \notin ToSet(due) => Extra(b)' = 1
      BY <2>1, <2>8 DEF Extra
    <3>3. Now(b)' = (IF Sending(b) THEN 2 ELSE 1)
      BY <2>6 DEF Now
    <3>4. ended[b] + Now(b)' <= MaxAttempts + Extra(b)'
      <4>1. CASE Sending(b)
        BY <2>7, <3>2, <3>3, <4>1, Things
      <4>2. CASE b \notin ToSet(due)
        BY <2>7, <3>1, <3>2, <3>3, <4>2, Things
      <4>3. CASE ~Sending(b) /\ b \in ToSet(due)
        <5>1. count[b] < MaxAttempts
          BY <1>1, <1>2, <3>1, <4>3 DEF Queued
        <5> QED BY <3>1, <3>2, <3>3, <4>3, <5>1, Things
      <4> QED BY <4>1, <4>2, <4>3
    <3>5. /\ ended[b] <= count[b] + Extra(b)'
          /\ Sending(b) => ended[b] <= read[b] + Extra(b)'
      BY <3>1, <3>2
    <3> QED BY <1>2, <1>3, <2>2, <2>6, <3>1, <3>4, <3>5 DEF Counted
  <2>11. Answered(b)'
    <3> SUFFICES ASSUME b \in taken, b \notin raced', b \notin unsure PROVE FALSE
      BY <1>3 DEF Answered
    <3>1. b \notin raced /\ ~Sending(b) /\ b \in ToSet(due)
      BY <2>1, <2>8
    <3>2. row[b] = "open"
      BY <1>1, <1>2, <3>1 DEF Queued
    <3> QED BY <1>1, <1>2, <2>6, <3>1, <3>2 DEF Answered
  <2> QED BY <2>3, <2>4, <2>5, <2>9, <2>10, <2>11, UntouchedKeeps DEF WebhooksIInv
<1> QED BY <1>4, <1>5, <1>6

\* A row becomes due only while nobody attempts it.
LEMMA BackoffStep ==
  ASSUME WebhooksIInv, NEW b \in Deliveries, BackoffPasses(b)
  PROVE  WebhooksIInv'
<1>1. /\ WebhooksTypeOK /\ Whole /\ row[b] = "open" /\ b \notin ToSet(due)
      /\ \A d \in Deliveries : Unborn(d) /\ Owned(d) /\ Queued(d) /\ Paired(d) /\ Counted(d) /\ Answered(d)
  BY DEF WebhooksIInv, BackoffPasses
<1>2. ~Sending(b) /\ ~Retrying(b)
  BY Things DEF BackoffPasses, InFlight, Sending, Retrying
<1>3. /\ due' = Append(due, b)
      /\ UNCHANGED <<enabled, removed, row, count, succeeded, on, todo, job, read, took, list,
                     taken, repeated, unsure, raced, ended, edits, crashes>>
  BY DEF BackoffPasses, hooks, emits, attempts, past
<1>4. due' \in Seq(Deliveries) /\ ToSet(due') = ToSet(due) \cup {b} /\ Distinct(due')
  BY <1>1, <1>3, OneMoreRow DEF WebhooksTypeOK, Whole
<1>5. WebhooksTypeOK' /\ Whole'
  BY <1>1, <1>3, <1>4 DEF WebhooksTypeOK, Whole, RepeatsExplained
<1>6. ASSUME NEW d \in Deliveries, d # b PROVE Untouched(d)
  BY <1>1, <1>3, <1>4, <1>6 DEF Untouched, Sending, Retrying, Listed, Owned
<1>7. ~Sending(b)' /\ ~Retrying(b)' /\ (Listed(b)' <=> Listed(b)) /\ Now(b)' = Now(b) /\ Extra(b)' = Extra(b)
  BY <1>2, <1>3 DEF Sending, Retrying, Listed, Now, Extra
<1>8. Unborn(b)' /\ Owned(b)' /\ Queued(b)' /\ Paired(b)'
  BY <1>1, <1>3, <1>4, <1>2, <1>7 DEF Unborn, Owned, Queued, Paired
<1>9. Counted(b)' /\ Answered(b)'
  BY <1>1, <1>2, <1>3, <1>7 DEF Counted, Answered
<1> QED BY <1>5, <1>6, <1>8, <1>9, UntouchedKeeps DEF WebhooksIInv

\* The receiver handles a request: if it has handled the delivery before, without doubt, then in
\* another attempt that is in flight too.
LEMMA HandledStep ==
  ASSUME WebhooksIInv, NEW x \in Runners, Handled(x)
  PROVE  WebhooksIInv'
<1>1. /\ WebhooksTypeOK /\ Whole /\ job[x] # Nothing /\ job[x] \in Deliveries /\ x \notin took
      /\ \A d \in Deliveries : Unborn(d) /\ Owned(d) /\ Queued(d) /\ Paired(d) /\ Counted(d) /\ Answered(d)
  BY DEF WebhooksIInv, Handled, WebhooksTypeOK
<1>which. PICK b \in Deliveries : b = job[x]
  BY <1>1
<1>2. /\ took' = took \cup {x} /\ taken' = taken \cup {b}
      /\ repeated' \subseteq repeated \cup {b} /\ (b \notin taken => repeated' = repeated)
      /\ UNCHANGED <<enabled, removed, row, count, succeeded, due, on, todo, job, read, list,
                     unsure, raced, ended, edits, crashes>>
  BY <1>which DEF Handled, hooks, rows, emits
<1>3. (x = b /\ Sending(b)) \/ (x = Scheduler /\ Retrying(b))
  BY <1>1, <1>which, Things DEF Owned, Sending, Retrying
<1>4. WebhooksTypeOK'
  BY <1>1, <1>2 DEF WebhooksTypeOK
<1>5. b \in taken => b \in raced \cup unsure
  <2> SUFFICES ASSUME b \in taken, b \notin raced \cup unsure PROVE FALSE
    OBVIOUS
  <2>1. ~(Sending(b) /\ Retrying(b))
    BY <1>1 DEF Paired
  <2>2. \/ Sending(b) /\ b \in took
        \/ Retrying(b) /\ Scheduler \in took
    BY <1>1, <1>3 DEF Answered
  <2> QED BY <1>1, <1>3, <2>1, <2>2
<1>6. Whole'
  BY <1>1, <1>2, <1>3, <1>5, Things DEF Whole, RepeatsExplained, Retrying
<1>7. ASSUME NEW d \in Deliveries, d # b PROVE Untouched(d)
  <2>1. x # d /\ (x = Scheduler => ~Retrying(d))
    BY <1>3, <1>7, Things DEF Retrying
  <2> QED BY <1>1, <1>2, <1>7, <2>1 DEF Untouched, Sending, Retrying, Listed, Owned
<1>8. /\ (Sending(b)' <=> Sending(b)) /\ (Retrying(b)' <=> Retrying(b)) /\ (Listed(b)' <=> Listed(b))
      /\ Now(b)' = Now(b) /\ Extra(b)' = Extra(b) /\ row[b] # "none"
  BY <1>1, <1>2, <1>3 DEF Sending, Retrying, Listed, Now, Extra, Unborn
<1>9. Unborn(b)' /\ Queued(b)' /\ Paired(b)' /\ Counted(b)'
  BY <1>1, <1>2, <1>8 DEF Unborn, Queued, Paired, Counted
<1>10. Owned(b)' /\ Answered(b)'
  BY <1>1, <1>2, <1>3, <1>8, Things DEF Owned, Answered, Sending
<1> QED BY <1>4, <1>6, <1>7, <1>9, <1>10, UntouchedKeeps DEF WebhooksIInv

\* What the end of an attempt writes: nothing if the row is gone, and otherwise what it has read
\* plus one; the row is not due, and no other row is touched.
LEMMA Written ==
  ASSUME WebhooksTypeOK, Distinct(due), NEW b \in Deliveries, NEW n \in Nat, NEW ok \in BOOLEAN,
         b \in ToSet(due) => row[b] = "open", Write(b, n, ok)
  PROVE  /\ row' \in [Deliveries -> {"none", "open", "over", "gone"}] /\ count' \in [Deliveries -> Nat]
         /\ succeeded' \subseteq Deliveries /\ due' \in Seq(Deliveries)
         /\ Distinct(due') /\ ToSet(due') = ToSet(due) \ {b}
         /\ \A d \in Deliveries : d # b => /\ row'[d] = row[d] /\ count'[d] = count[d]
                                           /\ (d \in succeeded' <=> d \in succeeded)
         /\ row[b] = "gone" => row'[b] = "gone" /\ count'[b] = count[b]
         /\ row[b] # "gone" =>
              /\ count'[b] = n
              /\ row'[b] = (IF ok \/ n >= MaxAttempts THEN "over" ELSE "open")
              /\ (b \in succeeded' <=> ok)
<1>1. CASE row[b] = "gone"
  <2>1. row' = row /\ count' = count /\ succeeded' = succeeded /\ due' = due
    BY <1>1 DEF Write, rows
  <2>2. b \notin ToSet(due)
    BY <1>1
  <2> QED BY <1>1, <2>1, <2>2 DEF WebhooksTypeOK
<1>2. CASE row[b] # "gone"
  <2>1. /\ count' = [count EXCEPT ![b] = n]
        /\ row' = [row EXCEPT ![b] = IF ok \/ n >= MaxAttempts THEN "over" ELSE "open"]
        /\ succeeded' = (IF ok THEN succeeded \cup {b} ELSE succeeded \ {b})
        /\ NotDue({b})
    BY <1>2 DEF Write
  <2>2. PICK at \in Kept(due, {b}) : due' = [i \in DOMAIN at |-> due[at[i]]]
    BY <2>1 DEF NotDue
  <2>3. due' \in Seq(Deliveries) /\ Distinct(due') /\ ToSet(due') = ToSet(due) \ {b}
    <3>1. due \in Seq(Deliveries)
      BY DEF WebhooksTypeOK
    <3>2. PICK r : r = due'
      OBVIOUS
    <3>3. r = [i \in DOMAIN at |-> due[at[i]]]
      BY <2>2, <3>2
    <3>4. r \in Seq(Deliveries) /\ ToSet(r) = ToSet(due) \ {b} /\ (Distinct(due) => Distinct(r))
      BY <3>1, <3>3, KeptRows
    <3> QED BY <3>2, <3>4
  <2>4. /\ row' \in [Deliveries -> {"none", "open", "over", "gone"}] /\ count' \in [Deliveries -> Nat]
        /\ count'[b] = n /\ row'[b] = (IF ok \/ n >= MaxAttempts THEN "over" ELSE "open")
        /\ \A d \in Deliveries : d # b => row'[d] = row[d] /\ count'[d] = count[d]
    BY <2>1 DEF WebhooksTypeOK
  <2>5. /\ succeeded' \subseteq Deliveries /\ (b \in succeeded' <=> ok)
        /\ \A d \in Deliveries : d # b => (d \in succeeded' <=> d \in succeeded)
    BY <2>1 DEF WebhooksTypeOK
  <2> QED BY <1>2, <2>3, <2>4, <2>5
<1> QED BY <1>1, <1>2

\* An attempt ends.
LEMMA EndsStep ==
  ASSUME WebhooksIInv, NEW x \in Runners, NEW ok \in BOOLEAN, Ends(x, ok)
  PROVE  WebhooksIInv'
<1>1. /\ WebhooksTypeOK /\ Whole /\ job[x] # Nothing /\ job[x] \in Deliveries /\ (ok => x \in took)
      /\ read[x] \in Nat
      /\ \A d \in Deliveries : Unborn(d) /\ Owned(d) /\ Queued(d) /\ Paired(d) /\ Counted(d) /\ Answered(d)
  BY DEF WebhooksIInv, Ends, WebhooksTypeOK
<1>2. PICK b \in Deliveries : b = job[x]
  BY <1>1
<1>3. PICK n \in Nat : n = read[x] + 1
  BY <1>1
<1>4. /\ Write(b, n, ok)
      /\ job' = [job EXCEPT ![x] = Nothing] /\ read' = [read EXCEPT ![x] = 0] /\ took' = took \ {x}
      /\ unsure' = (IF ~ok /\ x \in took THEN unsure \cup {b} ELSE unsure)
      /\ ended' = [ended EXCEPT ![b] = @ + 1]
      /\ UNCHANGED <<enabled, removed, on, todo, list, taken, repeated, raced, edits, crashes>>
  BY <1>2, <1>3 DEF Ends, Free, hooks, emits
<1>5. (x = b /\ Sending(b)) \/ (x = Scheduler /\ Retrying(b))
  BY <1>1, <1>2, Things DEF Owned, Sending, Retrying
<1>6. /\ row' \in [Deliveries -> {"none", "open", "over", "gone"}] /\ count' \in [Deliveries -> Nat]
      /\ succeeded' \subseteq Deliveries /\ due' \in Seq(Deliveries)
      /\ Distinct(due') /\ ToSet(due') = ToSet(due) \ {b}
      /\ \A d \in Deliveries : d # b => /\ row'[d] = row[d] /\ count'[d] = count[d]
                                        /\ (d \in succeeded' <=> d \in succeeded)
      /\ row[b] = "gone" => row'[b] = "gone" /\ count'[b] = count[b]
      /\ row[b] # "gone" =>
           /\ count'[b] = n
           /\ row'[b] = (IF ok \/ n >= MaxAttempts THEN "over" ELSE "open")
           /\ (b \in succeeded' <=> ok)
  <2>1. b \in ToSet(due) => row[b] = "open"
    BY <1>1 DEF Queued
  <2>2. Distinct(due)
    BY <1>1 DEF Whole
  <2> QED BY <1>1, <1>4, <2>1, <2>2, Written
<1>7. /\ job'[x] = Nothing /\ ended'[b] = ended[b] + 1
      /\ \A y \in Runners : y # x => job'[y] = job[y] /\ read'[y] = read[y]
      /\ \A d \in Deliveries : d # b => ended'[d] = ended[d]
  BY <1>1, <1>4 DEF WebhooksTypeOK
<1>8. WebhooksTypeOK'
  <2>1. /\ job' \in [Runners -> Deliveries \cup {Nothing}] /\ read' \in [Runners -> Nat]
        /\ took' \subseteq Runners /\ unsure' \subseteq Deliveries /\ ended' \in [Deliveries -> Nat]
    BY <1>1, <1>4 DEF WebhooksTypeOK
  <2> QED BY <1>1, <1>4, <1>6, <2>1 DEF WebhooksTypeOK
<1>9. Whole'
  BY <1>1, <1>4, <1>6, <1>7, Things DEF Whole, RepeatsExplained
<1>10. ASSUME NEW d \in Deliveries, d # b PROVE Untouched(d)
  <2>1. /\ (Sending(d)' <=> Sending(d)) /\ (Retrying(d)' <=> Retrying(d)) /\ job'[d] \in {d, Nothing}
        /\ (Sending(d) => x # d) /\ (Retrying(d) => x # Scheduler)
    BY <1>1, <1>2, <1>5, <1>7, <1>10, Things DEF Sending, Retrying, Owned
  <2>2. /\ d \in taken' <=> d \in taken
        /\ d \in raced' <=> d \in raced
        /\ d \in unsure' <=> d \in unsure
    BY <1>4, <1>10
  <2>3. /\ (Sending(d) => read'[d] = read[d] /\ (d \in took' <=> d \in took))
        /\ (Retrying(d) => read'[Scheduler] = read[Scheduler] /\ (Scheduler \in took' <=> Scheduler \in took))
        /\ (d \in took' => d \in took)
    BY <1>4, <1>7, <2>1, Things
  <2> QED BY <1>4, <1>6, <1>7, <1>10, <2>1, <2>2, <2>3 DEF Untouched, Listed
<1>11. /\ x = b => Sending(b) /\ ~Sending(b)' /\ (Retrying(b)' <=> Retrying(b))
       /\ x # b => x = Scheduler /\ Retrying(b) /\ ~Retrying(b)' /\ (Sending(b)' <=> Sending(b))
       /\ (Listed(b)' <=> Listed(b)) /\ Extra(b)' = Extra(b) /\ row[b] # "none" /\ b \notin ToSet(due')
  <2>1. x = b => Sending(b) /\ ~Sending(b)' /\ (Retrying(b)' <=> Retrying(b))
    BY <1>5, <1>7, Things DEF Sending, Retrying
  <2>2. x # b => x = Scheduler /\ Retrying(b) /\ ~Retrying(b)' /\ (Sending(b)' <=> Sending(b))
    BY <1>5, <1>7, Things DEF Sending, Retrying
  <2>3. (Listed(b)' <=> Listed(b)) /\ Extra(b)' = Extra(b) /\ row[b] # "none" /\ b \notin ToSet(due')
    BY <1>1, <1>4, <1>5, <1>6 DEF Listed, Extra, Unborn
  <2> QED BY <2>1, <2>2, <2>3
<1>12. row'[b] # "none" /\ (row[b] = "gone" <=> row'[b] = "gone")
  BY <1>6, <1>11
<1>13. Unborn(b)' /\ Owned(b)' /\ Queued(b)'
  <2>1. Unborn(b)'
    BY <1>1, <1>4, <1>11, <1>12 DEF Unborn
  <2>2. Owned(b)'
    BY <1>1, <1>4, <1>7, <1>11, Things DEF Owned
  <2>3. Queued(b)'
    BY <1>1, <1>11 DEF Queued
  <2> QED BY <2>1, <2>2, <2>3
<1>14. Paired(b)'
  <2>1. ~(Sending(b)' /\ Retrying(b)')
    BY <1>11
  <2>2. ASSUME Listed(b)', row'[b] # "gone" PROVE ~Sending(b)' /\ ended'[b] <= 1
    <3>1. Listed(b) /\ row[b] # "gone" /\ x = b /\ Sending(b) /\ ~Sending(b)'
      BY <1>1, <1>11, <1>12, <2>2 DEF Queued
    <3>2. ended[b] = 0
      BY <1>1, <3>1 DEF Paired
    <3> QED BY <1>7, <3>1, <3>2
  <2> QED BY <1>11, <2>1, <2>2 DEF Paired
<1>15. Counted(b)'
  <2>1. /\ count[b] \in Nat /\ ended[b] \in Nat /\ n = read[x] + 1 /\ read[x] \in Nat
        /\ read[x] <= ended[b] /\ ended[b] <= read[x] + Extra(b) /\ Extra(b) \in {0, 1}
        /\ count[b] <= ended[b]
        /\ ended[b] + Now(b) <= MaxAttempts + Extra(b)
    BY <1>1, <1>3, <1>5 DEF WebhooksTypeOK, Counted, Extra
  <2>2. Now(b)' = Now(b) - 1 /\ Now(b) \in {1, 2}
    BY <1>11 DEF Now
  <2>3. /\ count'[b] <= ended'[b]
        /\ row'[b] # "gone" => ended'[b] <= count'[b] + Extra(b)'
        /\ ended'[b] + Now(b)' <= MaxAttempts + Extra(b)'
    <3>1. row[b] = "gone" \/ count'[b] = n
      BY <1>6
    <3>2. ended'[b] + Now(b)' <= MaxAttempts + Extra(b)'
      BY <1>7, <1>11, <2>1, <2>2, Things
    <3> QED BY <1>6, <1>7, <1>11, <1>12, <2>1, <3>1, <3>2
  <2>4. /\ row'[b] = "open" => count'[b] < MaxAttempts
        /\ row'[b] = "over" /\ b \notin succeeded' => count'[b] >= MaxAttempts
    BY <1>6, <2>1, Things
  <2>5. ASSUME Sending(b)' PROVE read'[b] <= ended'[b] /\ ended'[b] <= read'[b] + Extra(b)'
    <3>1. x = Scheduler /\ x # b /\ Retrying(b) /\ Sending(b)
      BY <1>11, <2>5
    <3>2. b \in raced /\ ended[b] = 0 /\ read[b] \in Nat /\ read[b] <= 0 /\ read'[b] = read[b]
      BY <1>1, <1>7, <3>1, Things DEF Paired, Counted, WebhooksTypeOK
    <3>3. Extra(b)' = 1
      BY <1>11, <3>2 DEF Extra
    <3> QED BY <1>7, <3>2, <3>3
  <2>6. ASSUME Retrying(b)' PROVE read'[Scheduler] <= ended'[b] /\ ended'[b] <= read'[Scheduler] + Extra(b)'
    <3>1. x = b /\ x # Scheduler /\ Retrying(b) /\ Sending(b)
      BY <1>11, <2>6, Things
    <3>2. /\ b \in raced /\ ended[b] = 0 /\ read[Scheduler] \in Nat /\ read[Scheduler] <= 0
          /\ read'[Scheduler] = read[Scheduler]
      BY <1>1, <1>7, <3>1, Things DEF Paired, Counted, WebhooksTypeOK
    <3>3. Extra(b)' = 1
      BY <1>11, <3>2 DEF Extra
    <3> QED BY <1>7, <3>2, <3>3
  <2> QED BY <2>3, <2>4, <2>5, <2>6 DEF Counted
<1>16. Answered(b)'
  <2> SUFFICES ASSUME b \in taken, b \notin raced, b \notin unsure, ~(~ok /\ x \in took)
               PROVE Answered(b)'
    BY <1>4 DEF Answered
  <2>1. ~(Sending(b) /\ Retrying(b))
    BY <1>1 DEF Paired
  <2>2. x \in took /\ ok
    BY <1>1, <1>5, <2>1 DEF Answered
  <2>3. ~Sending(b)' /\ ~Retrying(b)'
    BY <1>11, <2>1
  <2>4. row'[b] \in {"over", "gone"}
    BY <1>6, <2>2
  <2> QED BY <2>3, <2>4 DEF Answered
<1> QED BY <1>8, <1>9, <1>10, <1>13, <1>14, <1>15, <1>16, UntouchedKeeps DEF WebhooksIInv

\* The rows of a hook go with it.
LEMMA DeleteStep ==
  ASSUME WebhooksIInv, NEW h \in Hooks, Delete(h)
  PROVE  WebhooksIInv'
<1> DEFINE S == {d \in Deliveries : HookOf(d) = h}
<1>1. /\ WebhooksTypeOK /\ Whole
      /\ \A d \in Deliveries : Unborn(d) /\ Owned(d) /\ Queued(d) /\ Paired(d) /\ Counted(d) /\ Answered(d)
  BY DEF WebhooksIInv
<1>2. /\ removed' = removed \cup {h} /\ edits' = edits + 1
      /\ row' = [d \in Deliveries |-> IF HookOf(d) = h /\ row[d] # "none" THEN "gone" ELSE row[d]]
      /\ NotDue(S)
      /\ UNCHANGED <<enabled, count, succeeded, on, todo, job, read, took, list,
                     taken, repeated, unsure, raced, ended, crashes>>
  BY DEF Delete, emits, attempts
<1>3. due' \in Seq(Deliveries) /\ Distinct(due') /\ ToSet(due') = ToSet(due) \ S
  <2>1. PICK at \in Kept(due, S) : due' = [i \in DOMAIN at |-> due[at[i]]]
    BY <1>2 DEF NotDue
  <2>2. due \in Seq(Deliveries) /\ Distinct(due)
    BY <1>1 DEF WebhooksTypeOK, Whole
  <2>3. PICK r : r = due'
    OBVIOUS
  <2>4. r = [i \in DOMAIN at |-> due[at[i]]]
    BY <2>1, <2>3
  <2> HIDE DEF S
  <2>5. r \in Seq(Deliveries) /\ ToSet(r) = ToSet(due) \ S /\ (Distinct(due) => Distinct(r))
    BY <2>2, <2>4, KeptRows
  <2> QED BY <2>2, <2>3, <2>5
<1>4. /\ \A d \in Deliveries : d \notin S => row'[d] = row[d]
      /\ \A d \in S : row'[d] = (IF row[d] = "none" THEN "none" ELSE "gone")
  BY <1>2
<1> HIDE DEF S
<1>5. WebhooksTypeOK'
  <2>1. row' \in [Deliveries -> {"none", "open", "over", "gone"}]
    BY <1>1, <1>2 DEF WebhooksTypeOK
  <2> QED BY <1>1, <1>2, <1>3, <2>1 DEF WebhooksTypeOK
<1>6. Whole'
  BY <1>1, <1>2, <1>3 DEF Whole, RepeatsExplained
<1>7. ASSUME NEW d \in Deliveries, d \notin S PROVE Untouched(d)
  BY <1>1, <1>2, <1>3, <1>4, <1>7 DEF Untouched, Sending, Retrying, Listed, Owned
<1>8. ASSUME NEW d \in Deliveries, d \in S, row[d] = "none" PROVE Untouched(d)
  BY <1>1, <1>2, <1>3, <1>4, <1>8 DEF Untouched, Sending, Retrying, Listed, Owned, Queued
<1>9. ASSUME NEW d \in Deliveries, d \in S, row[d] # "none"
      PROVE (Unborn(d) /\ Owned(d) /\ Queued(d) /\ Paired(d) /\ Counted(d) /\ Answered(d))'
  <2>1. row'[d] = "gone" /\ d \notin ToSet(due')
    BY <1>3, <1>4, <1>9
  <2>2. /\ (Sending(d)' <=> Sending(d)) /\ (Retrying(d)' <=> Retrying(d)) /\ (Listed(d)' <=> Listed(d))
        /\ Now(d)' = Now(d) /\ Extra(d)' = Extra(d)
    BY <1>2 DEF Sending, Retrying, Listed, Now, Extra
  <2>3. Unborn(d)' /\ Owned(d)' /\ Queued(d)' /\ Paired(d)'
    BY <1>1, <1>2, <1>9, <2>1, <2>2 DEF Unborn, Owned, Queued, Paired
  <2>4. Counted(d)' /\ Answered(d)'
    BY <1>1, <1>2, <2>1, <2>2 DEF Counted, Answered
  <2> QED BY <2>3, <2>4
<1> QED BY <1>5, <1>6, <1>7, <1>8, <1>9, UntouchedKeeps DEF WebhooksIInv

LEMMA ToggleStep ==
  ASSUME WebhooksIInv, NEW h \in Hooks, Toggle(h)
  PROVE  WebhooksIInv'
<1>1. WebhooksTypeOK /\ Whole /\ \A d \in Deliveries : Owned(d)
  BY DEF WebhooksIInv
<1>2. /\ edits' = edits + 1
      /\ enabled' = (IF h \in enabled THEN enabled \ {h} ELSE enabled \cup {h})
      /\ UNCHANGED <<removed, row, count, succeeded, due, on, todo, job, read, took, list,
                     taken, repeated, unsure, raced, ended, crashes>>
  BY DEF Toggle, rows, emits, attempts
<1>3. WebhooksTypeOK'
  BY <1>1, <1>2 DEF WebhooksTypeOK
<1>4. Whole'
  BY <1>1, <1>2 DEF Whole, RepeatsExplained
<1>5. ASSUME NEW d \in Deliveries PROVE Untouched(d)
  BY <1>1, <1>2 DEF Untouched, Sending, Retrying, Listed, Owned
<1> QED BY <1>3, <1>4, <1>5, UntouchedKeeps DEF WebhooksIInv

\* A worker dies with some of the attempts, perhaps the tick's.
LEMMA DiesStep ==
  ASSUME WebhooksIInv, NEW w \in Processes, Dies(w)
  PROVE  WebhooksIInv'
<1> DEFINE M == {x \in Runners : WorkerOf(x) = w}
<1>1. /\ WebhooksTypeOK /\ Whole
      /\ \A d \in Deliveries : Unborn(d) /\ Owned(d) /\ Queued(d) /\ Paired(d) /\ Counted(d) /\ Answered(d)
  BY DEF WebhooksIInv
<1>2. PICK mine \in SUBSET Runners : mine = M
  OBVIOUS
<1>3. /\ crashes' = crashes + 1
      /\ todo' = [e \in Events |-> IF on[e] = w THEN {} ELSE todo[e]]
      /\ job' = [x \in Runners |-> IF x \in mine THEN Nothing ELSE job[x]]
      /\ read' = [x \in Runners |-> IF x \in mine THEN 0 ELSE read[x]]
      /\ took' = took \ mine
      /\ unsure' = unsure \cup {job[x] : x \in took \cap mine}
      /\ list' = (IF w = Scheduler THEN <<>> ELSE list)
      /\ UNCHANGED <<enabled, removed, row, count, succeeded, due, on, taken, repeated, raced, ended, edits>>
  BY <1>2 DEF Dies, hooks, rows
<1> HIDE DEF M
<1>4. list' \in Seq(Deliveries) /\ ToSet(list') \subseteq ToSet(list) /\ Distinct(list')
  <2>1. CASE list' = list
    BY <1>1, <2>1 DEF WebhooksTypeOK, Whole
  <2>2. CASE list' = <<>>
    BY <2>2 DEF ToSet, Distinct
  <2> QED BY <1>3, <2>1, <2>2
<1>5. \A x \in took : job[x] \in Deliveries
  <2> SUFFICES ASSUME NEW x \in took PROVE job[x] # Nothing
    BY <1>1 DEF WebhooksTypeOK
  <2>1. x = Scheduler \/ x \in Deliveries
    BY <1>1, Things DEF WebhooksTypeOK
  <2> QED BY <1>1, <2>1, Things DEF Whole, Owned, Sending
<1>6. WebhooksTypeOK'
  <2>1. /\ todo' \in [Events -> SUBSET Hooks] /\ job' \in [Runners -> Deliveries \cup {Nothing}]
        /\ read' \in [Runners -> Nat]
    BY <1>1, <1>3 DEF WebhooksTypeOK
  <2>2. took' \subseteq Runners /\ unsure' \subseteq Deliveries
    BY <1>1, <1>3, <1>5 DEF WebhooksTypeOK
  <2> QED BY <1>1, <1>3, <1>4, <2>1, <2>2 DEF WebhooksTypeOK
<1>7. Whole'
  <2>1. \A e \in Events : todo'[e] \subseteq todo[e]
    BY <1>3
  <2>2. Scheduler \in took' => job'[Scheduler] # Nothing
    BY <1>1, <1>3, Things DEF Whole
  <2>3. repeated' \subseteq raced' \cup unsure'
    BY <1>1, <1>3 DEF Whole, RepeatsExplained
  <2> QED BY <1>1, <1>3, <1>4, <2>1, <2>2, <2>3 DEF Whole, RepeatsExplained
<1>8. ASSUME NEW d \in Deliveries
      PROVE (Unborn(d) /\ Owned(d) /\ Queued(d) /\ Paired(d) /\ Counted(d) /\ Answered(d))'
  <2>1. /\ Sending(d)' => Sending(d) /\ d \notin mine /\ read'[d] = read[d]
        /\ Retrying(d)' => Retrying(d) /\ Scheduler \notin mine /\ read'[Scheduler] = read[Scheduler]
        /\ Listed(d)' => Listed(d)
        /\ Sending(d) /\ ~Sending(d)' => d \in mine
        /\ Retrying(d) /\ ~Retrying(d)' => Scheduler \in mine
    BY <1>3, <1>4, Things DEF Sending, Retrying, Listed
  <2>2. /\ Extra(d)' = Extra(d) /\ Now(d) \in {0, 1, 2} /\ Now(d)' \in {0, 1, 2} /\ Now(d)' <= Now(d)
    BY <1>3, <2>1 DEF Extra, Now
  <2>3. d[2] \in todo'[d[1]] => d[2] \in todo[d[1]]
    BY <1>3, Things
  <2>4. Unborn(d)'
    BY <1>1, <1>3, <2>1, <2>3 DEF Unborn
  <2>5. Owned(d)'
    BY <1>1, <1>3, Things DEF Owned, Sending
  <2>6. Queued(d)' /\ Paired(d)'
    BY <1>1, <1>3, <2>1 DEF Queued, Paired
  <2>7. Counted(d)'
    <3>1. ended[d] + Now(d)' <= MaxAttempts + Extra(d)
      <4>1. ended[d] \in Nat /\ Extra(d) \in {0, 1} /\ ended[d] + Now(d) <= MaxAttempts + Extra(d)
        BY <1>1 DEF WebhooksTypeOK, Extra, Counted
      <4> QED BY <2>2, <4>1, Things
    <3> QED BY <1>1, <1>3, <2>1, <2>2, <3>1 DEF Counted
  <2>8. Answered(d)'
    <3> SUFFICES ASSUME d \in taken, d \notin raced, d \notin unsure' PROVE Answered(d)'
      BY <1>3 DEF Answered
    <3>1. \A x \in took \cap mine : job[x] # d
      BY <1>3
    <3>2. CASE Sending(d) /\ d \in took
      BY <1>3, <2>1, <3>1, <3>2 DEF Sending, Answered
    <3>3. CASE Retrying(d) /\ Scheduler \in took
      BY <1>3, <2>1, <3>1, <3>3 DEF Retrying, Answered
    <3>4. CASE row[d] \in {"over", "gone"} /\ ~Sending(d) /\ ~Retrying(d)
      BY <1>3, <2>1, <3>4 DEF Answered
    <3> QED BY <1>1, <1>3, <3>2, <3>3, <3>4 DEF Answered
  <2> QED BY <2>4, <2>5, <2>6, <2>7, <2>8
<1> QED BY <1>6, <1>7, <1>8 DEF WebhooksIInv

LEMMA WebhooksInductive == WebhooksIInv /\ [WebhooksNext]_webhookVars => WebhooksIInv'
<1> SUFFICES ASSUME WebhooksIInv, [WebhooksNext]_webhookVars PROVE WebhooksIInv'
  OBVIOUS
<1>1. CASE UNCHANGED webhookVars
  <2>1. UNCHANGED <<enabled, removed, row, count, succeeded, due, on, todo, job, read, took, list,
                    taken, repeated, unsure, raced, ended, edits, crashes>>
    BY <1>1 DEF webhookVars, hooks, rows, emits, attempts, past
  <2>2. WebhooksTypeOK' /\ Whole' /\ \A d \in Deliveries : Owned(d)
    BY <2>1 DEF WebhooksIInv, WebhooksTypeOK, Whole, RepeatsExplained
  <2>3. ASSUME NEW d \in Deliveries PROVE Untouched(d)
    BY <2>1, <2>2 DEF Untouched, Sending, Retrying, Listed, Owned
  <2> QED BY <2>2, <2>3, UntouchedKeeps DEF WebhooksIInv
<1>2. ASSUME NEW e \in Events, NEW w \in Processes, Emit(e, w) PROVE WebhooksIInv'
  BY <1>2, EmitStep
<1>3. ASSUME NEW e \in Events, NEW h \in Hooks, Insert(e, h) PROVE WebhooksIInv'
  BY <1>3, InsertStep
<1>4. ASSUME NEW e \in Events, NEW h \in Hooks, InsertFails(e, h) PROVE WebhooksIInv'
  BY <1>4, InsertFailsStep
<1>5. CASE Select
  BY <1>5, SelectStep
<1>6. CASE Retry
  BY <1>6, RetryStep
<1>7. ASSUME NEW d \in Deliveries, BackoffPasses(d) PROVE WebhooksIInv'
  BY <1>7, BackoffStep
<1>8. ASSUME NEW x \in Runners, Attempt(x) PROVE WebhooksIInv'
  BY <1>8, HandledStep, EndsStep DEF Attempt
<1>9. ASSUME NEW h \in Hooks, Toggle(h) PROVE WebhooksIInv'
  BY <1>9, ToggleStep
<1>10. ASSUME NEW h \in Hooks, Delete(h) PROVE WebhooksIInv'
  BY <1>10, DeleteStep
<1>11. ASSUME NEW w \in Processes, Dies(w) PROVE WebhooksIInv'
  BY <1>11, DiesStep
<1> QED BY <1>1, <1>2, <1>3, <1>4, <1>5, <1>6, <1>7, <1>8, <1>9, <1>10, <1>11 DEF WebhooksNext

-----------------------------------------------------------------------------
(* The outbound webhooks: the theorems *)

\* Every variable keeps its type, for any number of events, hooks, workers and crashes.
THEOREM WebhooksTypeCorrect == WebhooksSpec => []WebhooksTypeOK
<1>1. WebhooksInit => WebhooksIInv
  BY WebhooksInitIInv
<1>2. WebhooksIInv /\ [WebhooksNext]_webhookVars => WebhooksIInv'
  BY WebhooksInductive
<1>3. WebhooksIInv => WebhooksTypeOK
  BY DEF WebhooksIInv
<1> QED BY <1>1, <1>2, <1>3, PTL DEF WebhooksSpec

\* The receiver handles a delivery twice only if an attempt that it had handled failed or died,
\* or the tick took the row up from under the emit's attempt.
THEOREM RepeatsSafe == WebhooksSpec => []RepeatsExplained
<1>1. WebhooksInit => WebhooksIInv
  BY WebhooksInitIInv
<1>2. WebhooksIInv /\ [WebhooksNext]_webhookVars => WebhooksIInv'
  BY WebhooksInductive
<1>3. WebhooksIInv => RepeatsExplained
  BY DEF WebhooksIInv, Whole
<1> QED BY <1>1, <1>2, <1>3, PTL DEF WebhooksSpec

\* A delivery that is given up has failed as often as the limit says, and none is attempted more
\* often, but once where the tick has raced the emit.
THEOREM AttemptsSafe == WebhooksSpec => []AttemptsBounded
<1>1. WebhooksInit => WebhooksIInv
  BY WebhooksInitIInv
<1>2. WebhooksIInv /\ [WebhooksNext]_webhookVars => WebhooksIInv'
  BY WebhooksInductive
<1>3. WebhooksIInv => AttemptsBounded
  <2> SUFFICES ASSUME WebhooksIInv, NEW d \in Deliveries
               PROVE  /\ row[d] = "over" /\ d \notin succeeded => ended[d] >= MaxAttempts
                      /\ ended[d] <= MaxAttempts + Extra(d)
    BY DEF AttemptsBounded, Extra
  <2>1. /\ ended[d] \in Nat /\ count[d] \in Nat /\ Now(d) \in {0, 1, 2} /\ Extra(d) \in {0, 1}
        /\ Counted(d)
    BY DEF WebhooksIInv, WebhooksTypeOK, Now, Extra
  <2> QED BY <2>1, Things DEF Counted
<1> QED BY <1>1, <1>2, <1>3, PTL DEF WebhooksSpec
=============================================================================
