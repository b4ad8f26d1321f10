---------------------------- MODULE EngineProofs ----------------------------
(***************************************************************************)
(* Proofs about Engine: types for any number of submissions and limits,    *)
(* and the overshoot of the budget.                                        *)
(***************************************************************************)
EXTENDS Engine, FiniteSetTheorems, TLAPS

Labels == {"new"} \cup Running \cup Ended

Basic ==
  /\ turns \in Nat /\ spent \in Nat /\ paid \in Nat
  /\ pc \in [Submits -> Labels]

-----------------------------------------------------------------------------
(* The budget *)

\* From the look at the budget to the end of the turn.
Flight == {"call", "answered", "tools", "tool", "net"}

Calling == {s \in Submits : pc[s] = "call"}
Flying  == {s \in Submits : pc[s] \in Flight}

\* Each call under way is charged once, each turn under way is counted once.
Charged == paid + Cardinality(Calling) < MaxBudget + Cardinality(Submits)
Counted == turns + Cardinality(Flying) < MaxTurns + Cardinality(Submits)

BInv == Basic /\ Charged /\ Counted

\* What a step of s does to the budget.
Moves(s, l) ==
  /\ pc' = [pc EXCEPT ![s] = l]
  /\ spent' \in Nat
  /\ \/ paid' = paid /\ (l = "call" => paid < MaxBudget)
     \/ paid' = paid + 1 /\ pc[s] = "call" /\ l # "call"
  /\ \/ turns' = turns /\ (l \in Flight /\ pc[s] \notin Flight => turns < MaxTurns)
     \/ turns' = turns + 1 /\ pc[s] \in Flight /\ l \notin Flight

LEMMA StepMoves ==
  ASSUME Basic, NEW s \in Submits, Step(s)
  PROVE  \E l \in Labels : Moves(s, l)
<1> USE EngineAssumption DEF Basic, Labels, Running, Ended, At, Keep, Await, End, Moves, Flight, budget
<1>1. CASE Prompt(s)
  BY <1>1 DEF Prompt
<1>2. CASE RoundsUsedUp(s)
  BY <1>2 DEF RoundsUsedUp
<1>3. CASE AutoCompact(s)
  BY <1>3 DEF AutoCompact
<1>4. CASE NoCompact(s)
  BY <1>4 DEF NoCompact
<1>5. ASSUME NEW keep \in 2..4, NEW files \in 0..MaxFiles, CompactEnds(s, keep, files)
      PROVE  \E l \in Labels : Moves(s, l)
  BY <1>5 DEF CompactEnds
<1>6. CASE CompactFails(s)
  BY <1>6 DEF CompactFails
<1>7. CASE BudgetStop(s)
  BY <1>7 DEF BudgetStop
<1>8. CASE CallModel(s)
  BY <1>8 DEF CallModel, OverBudget
<1>9. ASSUME NEW n \in 0..MaxCalls, NEW why \in {"stop", "length"}, Answers(s, n, why)
      PROVE  \E l \in Labels : Moves(s, l)
  BY <1>9 DEF Answers, Charge
<1>10. CASE Overflow(s)
  BY <1>10 DEF Overflow
<1>11. CASE Recompact(s)
  BY <1>11 DEF Recompact
<1>12. CASE CallFails(s)
  BY <1>12 DEF CallFails
<1>13. CASE Continue(s)
  BY <1>13 DEF Continue
<1>14. CASE Done(s)
  BY <1>14 DEF Done
<1>15. CASE UseTools(s)
  BY <1>15 DEF UseTools
<1>16. CASE Invalid(s)
  BY <1>16 DEF Invalid, Pending, Resolve
<1>17. ASSUME NEW r \in Reads, Reread(s, r)
       PROVE  \E l \in Labels : Moves(s, l)
  BY <1>17 DEF Reread, Pending, Resolve
<1>18. ASSUME NEW new \in {{}} \cup {{r} : r \in Reads}, RunTool(s, new)
       PROVE  \E l \in Labels : Moves(s, l)
  BY <1>18 DEF RunTool, Pending
<1>19. CASE ToolEnds(s)
  BY <1>19 DEF ToolEnds
<1>20. CASE Deferred(s)
  BY <1>20 DEF Deferred
<1>21. CASE NoneDeferred(s)
  BY <1>21 DEF NoneDeferred
<1>22. CASE RoundEnds(s)
  BY <1>22 DEF RoundEnds
<1>23. CASE Breaks(s)
  BY <1>23 DEF Breaks
<1> HIDE DEF Basic, Labels, Running, Ended, At, Keep, Await, End, Moves, Flight, budget
<1> QED BY <1>1, <1>2, <1>3, <1>4, <1>5, <1>6, <1>7, <1>8, <1>9, <1>10, <1>11, <1>12, <1>13, <1>14,
           <1>15, <1>16, <1>17, <1>18, <1>19, <1>20, <1>21, <1>22, <1>23
  DEF Step

\* One member may have entered or left a set of submissions.
LEMMA OneMore ==
  ASSUME NEW S \in SUBSET Submits, NEW s \in Submits
  PROVE  /\ Cardinality(S) \in Nat /\ Cardinality(Submits) \in Nat
         /\ Cardinality(S) <= Cardinality(Submits)
         /\ IsFiniteSet(S)
         /\ s \in S => Cardinality(S \ {s}) = Cardinality(S) - 1
         /\ s \notin S => Cardinality(S \cup {s}) = Cardinality(S) + 1
<1>1. IsFiniteSet(Submits)
  BY EngineAssumption
<1>2. IsFiniteSet(S) /\ Cardinality(S) <= Cardinality(Submits)
  BY <1>1, FS_Subset
<1>3. Cardinality(S) \in Nat /\ Cardinality(Submits) \in Nat
  BY <1>1, <1>2, FS_CardinalityType
<1>4. s \in S => Cardinality(S \ {s}) = Cardinality(S) - 1
  BY <1>2, FS_RemoveElement
<1>5. s \notin S => Cardinality(S \cup {s}) = Cardinality(S) + 1
  BY <1>2, FS_AddElement
<1> QED BY <1>1, <1>2, <1>3, <1>4, <1>5

LEMMA ChargedKept ==
  ASSUME BInv, NEW s \in Submits, NEW l \in Labels, Moves(s, l)
  PROVE  Charged'
<1>1. pc' = [pc EXCEPT ![s] = l] /\ pc \in [Submits -> Labels] /\ paid \in Nat
  BY DEF BInv, Basic, Moves
<1>2. Calling \subseteq Submits /\ Calling' \subseteq Submits
  BY DEF Calling
<1>3. Calling' = IF l = "call" THEN Calling \cup {s} ELSE Calling \ {s}
  BY <1>1 DEF Calling
<1>4. /\ Cardinality(Calling) \in Nat /\ Cardinality(Calling') \in Nat /\ Cardinality(Submits) \in Nat
      /\ Cardinality(Calling') <= Cardinality(Submits)
  BY <1>2, OneMore
<1>5. CASE paid' = paid + 1 /\ pc[s] = "call" /\ l # "call"
  <2>1. Calling' = Calling \ {s} /\ s \in Calling
    BY <1>3, <1>5 DEF Calling
  <2>2. Cardinality(Calling') = Cardinality(Calling) - 1
    BY <1>2, <2>1, OneMore
  <2> QED BY <1>1, <1>4, <1>5, <2>2, EngineAssumption DEF BInv, Charged
<1>6. CASE paid' = paid /\ l = "call"
  BY <1>1, <1>4, <1>6, EngineAssumption DEF BInv, Charged, Moves
<1>7. CASE paid' = paid /\ l # "call"
  <2>1. Calling' = Calling \ {s}
    BY <1>3, <1>7
  <2>2. Cardinality(Calling') <= Cardinality(Calling)
    <3>1. CASE s \in Calling
      BY <1>2, <1>4, <2>1, <3>1, OneMore
    <3>2. CASE s \notin Calling
      BY <1>4, <2>1, <3>2
    <3> QED BY <3>1, <3>2
  <2> QED BY <1>1, <1>4, <1>7, <2>2, EngineAssumption DEF BInv, Charged
<1> QED BY <1>5, <1>6, <1>7 DEF Moves

LEMMA CountedKept ==
  ASSUME BInv, NEW s \in Submits, NEW l \in Labels, Moves(s, l)
  PROVE  Counted'
<1>1. pc' = [pc EXCEPT ![s] = l] /\ pc \in [Submits -> Labels] /\ turns \in Nat
  BY DEF BInv, Basic, Moves
<1>2. Flying \subseteq Submits /\ Flying' \subseteq Submits
  BY DEF Flying
<1>3. Flying' = IF l \in Flight THEN Flying \cup {s} ELSE Flying \ {s}
  BY <1>1 DEF Flying
<1>4. /\ Cardinality(Flying) \in Nat /\ Cardinality(Flying') \in Nat /\ Cardinality(Submits) \in Nat
      /\ Cardinality(Flying') <= Cardinality(Submits)
  BY <1>2, OneMore
<1>5. CASE turns' = turns + 1 /\ pc[s] \in Flight /\ l \notin Flight
  <2>1. Flying' = Flying \ {s} /\ s \in Flying
    BY <1>3, <1>5 DEF Flying
  <2>2. Cardinality(Flying') = Cardinality(Flying) - 1
    BY <1>2, <2>1, OneMore
  <2> QED BY <1>1, <1>4, <1>5, <2>2, EngineAssumption DEF BInv, Counted
<1>6. CASE turns' = turns /\ l \in Flight /\ pc[s] \notin Flight
  <2>1. turns < MaxTurns
    BY <1>1, <1>6 DEF Moves
  <2> QED BY <1>1, <1>4, <1>6, <2>1, EngineAssumption DEF Counted
<1>7. CASE turns' = turns /\ l \in Flight /\ pc[s] \in Flight
  <2>1. Flying' = Flying
    BY <1>3, <1>7 DEF Flying
  <2> QED BY <1>7, <2>1 DEF BInv, Counted
<1>8. CASE turns' = turns /\ l \notin Flight
  <2>1. Flying' = Flying \ {s}
    BY <1>3, <1>8
  <2>2. Cardinality(Flying') <= Cardinality(Flying)
    <3>1. CASE s \in Flying
      BY <1>2, <1>4, <2>1, <3>1, OneMore
    <3>2. CASE s \notin Flying
      BY <1>4, <2>1, <3>2
    <3> QED BY <3>1, <3>2
  <2> QED BY <1>1, <1>4, <1>8, <2>2, EngineAssumption DEF BInv, Counted
<1> QED BY <1>5, <1>6, <1>7, <1>8 DEF Moves

LEMMA InitBInv == Init => BInv
<1> SUFFICES ASSUME Init PROVE BInv
  OBVIOUS
<1>1. Basic /\ Calling = {} /\ Flying = {}
  BY DEF Init, Basic, Labels, Calling, Flying, Flight
<1>2. Cardinality({}) = 0 /\ Cardinality(Submits) \in Nat
  BY EngineAssumption, FS_EmptySet, FS_CardinalityType
<1> QED BY <1>1, <1>2, EngineAssumption DEF Init, BInv, Charged, Counted

LEMMA BInvInductive == BInv /\ [Next]_vars => BInv'
<1> SUFFICES ASSUME BInv, [Next]_vars PROVE BInv'
  OBVIOUS
<1> USE EngineAssumption
<1>1. ASSUME NEW s \in Submits, Step(s) PROVE BInv'
  <2>1. PICK l \in Labels : Moves(s, l)
    BY <1>1, StepMoves DEF BInv
  <2>2. Basic'
    BY <2>1 DEF BInv, Basic, Moves
  <2> QED BY <2>1, <2>2, ChargedKept, CountedKept DEF BInv
<1>2. ASSUME NEW s \in Submits, Begin(s) PROVE BInv'
  <2>1. /\ pc' = [pc EXCEPT ![s] = "prompt"] /\ pc[s] = "new"
        /\ UNCHANGED <<spent, turns, paid>>
    BY <1>2 DEF Begin, At, Await, budget
  <2>2. Calling' = Calling /\ Flying' = Flying
    BY <2>1 DEF Calling, Flying, Flight, BInv, Basic
  <2> QED BY <2>1, <2>2 DEF BInv, Basic, Charged, Counted, Labels, Running
<1>3. CASE Clear
  <2>1. spent' = 0 /\ turns' = 0 /\ paid' = paid /\ pc' = pc
    BY <1>3 DEF Clear
  <2>2. Calling' = Calling /\ Flying' = Flying
    BY <2>1 DEF Calling, Flying
  <2>3. Cardinality(Calling) \in Nat /\ Cardinality(Flying) \in Nat /\ Cardinality(Submits) \in Nat
    BY FS_Subset, FS_CardinalityType DEF Calling, Flying
  <2> QED BY <2>1, <2>2, <2>3 DEF BInv, Basic, Charged, Counted
<1>4. CASE UNCHANGED vars
  BY <1>4 DEF vars, budget, BInv, Basic, Charged, Counted, Calling, Flying
<1> QED BY <1>1, <1>2, <1>3, <1>4 DEF Next

\* The budget and the limit on turns are exceeded by no more than the calls under way together.
THEOREM SpentSafe == Spec => []SpentBounded
<1>1. BInv => SpentBounded
  <2> SUFFICES ASSUME BInv PROVE SpentBounded
    OBVIOUS
  <2>1. Cardinality(Calling) \in Nat /\ Cardinality(Flying) \in Nat /\ Cardinality(Submits) \in Nat
    BY EngineAssumption, FS_Subset, FS_CardinalityType DEF Calling, Flying
  <2> QED BY <2>1, EngineAssumption DEF BInv, Basic, Charged, Counted, SpentBounded
<1> QED BY <1>1, InitBInv, BInvInductive, PTL DEF Spec

-----------------------------------------------------------------------------
(* Types *)

History == /\ history \in Seq(Messages)
           /\ copy \in [Submits -> Seq(Messages)]

Locals ==
  /\ seen \subseteq Reads /\ blocked \in Nat /\ noTools \in BOOLEAN
  /\ loop \in Submits \cup {NoSubmit}
  /\ rounds \in [Submits -> Nat] /\ retries \in [Submits -> Nat]
  /\ asked \in [Submits -> Nat] /\ next \in [Submits -> Nat]
  /\ stop \in [Submits -> {"stop", "length"}]
  /\ turnBlocked \in [Submits -> Nat]
  /\ offered \in [Submits -> BOOLEAN]
  /\ overlapped \in BOOLEAN /\ severed \in BOOLEAN /\ stale \in BOOLEAN

LEMMA Parts == TypeOK <=> Basic /\ History /\ Locals
  BY DEF TypeOK, Basic, History, Locals, Labels

LEMMA MessagesTyped ==
  /\ User \in Messages /\ Note \in Messages
  /\ \A c \in CallIds : Result(c) \in Messages
  /\ \A k \in Kinds, calls \in SUBSET CallIds : Message(k, calls) \in Messages
  /\ \A m \in Messages : Restored(m) \in Messages
  BY DEF User, Note, Result, Message, Messages, Kinds, Restored

LEMMA CallTyped ==
  ASSUME NEW s \in Submits, NEW n \in Nat, NEW i \in Nat
  PROVE  Call(s, n, i) \in CallIds
  BY DEF Call, CallIds

LEMMA NowTyped ==
  ASSUME Locals, NEW s \in Submits
  PROVE  Result(Now(s)) \in Messages
<1>1. rounds[s] \in Nat /\ next[s] \in Nat
  BY DEF Locals
<1> QED BY <1>1, CallTyped, MessagesTyped DEF Now

LEMMA NotesTyped == Notes \subseteq Seq(Messages)
<1>1. <<>> \in Seq(Messages) /\ <<Note>> \in Seq(Messages)
  BY MessagesTyped
<1> QED BY <1>1 DEF Notes

\* The boundary, the restored files and the tail of a history.
LEMMA CompactedTyped ==
  ASSUME NEW h \in Seq(Messages), NEW split \in Nat, split <= Len(h), NEW files \in Nat
  PROVE  Compacted(h, split, files) \in Seq(Messages)
<1>1. [i \in 1..1 + files |-> User] \in Seq(Messages)
  BY MessagesTyped
<1>2. \A i \in 1..Len(h) - split : h[split + i] \in Messages
  OBVIOUS
<1>3. \A i \in 1..Len(h) - split : Restored(h[split + i]) \in Messages
  BY <1>2, MessagesTyped
<1>4. Len(h) - split \in Nat
  OBVIOUS
<1>5. [i \in 1..Len(h) - split |-> Restored(h[split + i])] \in Seq(Messages)
  BY <1>3, <1>4
<1> QED BY <1>1, <1>5 DEF Compacted

LEMMA SplitTyped ==
  ASSUME NEW h \in Seq(Messages), Len(h) >= 6, NEW p \in Nat, p <= Len(h), NEW k \in 0..p
  PROVE  Split(h, k) \in Nat /\ Split(h, k) <= Len(h)
  BY DEF Split, LessOf

LEMMA HistoryStep ==
  ASSUME TypeOK, NEW s \in Submits, Step(s)
  PROVE  History'
<1> USE EngineAssumption DEF locals, answer, Push
<1>a. History /\ Locals
  BY Parts
<1>b. /\ history \in Seq(Messages) /\ copy \in [Submits -> Seq(Messages)]
      /\ <<>> \in Seq(Messages)
  BY <1>a DEF History
<1>c. End(s, "ended") \/ End(s, "aborted") \/ End(s, "broken") => copy' \in [Submits -> Seq(Messages)]
  BY <1>b DEF End
<1>1. CASE Prompt(s)
  <2>1. PICK notes \in Notes : history' = history \o notes \o <<User>>
    BY <1>1 DEF Prompt
  <2>2. notes \in Seq(Messages) /\ <<User>> \in Seq(Messages)
    BY NotesTyped, MessagesTyped
  <2>3. history' \in Seq(Messages)
    BY <1>b, <2>1, <2>2
  <2> QED BY <1>1, <1>b, <2>3 DEF Prompt, History
<1>2. CASE RoundsUsedUp(s) \/ BudgetStop(s) \/ CallFails(s) \/ Done(s) \/ Breaks(s)
  BY <1>2, <1>b, <1>c DEF RoundsUsedUp, BudgetStop, CallFails, Done, Breaks, History
<1>3. CASE AutoCompact(s) \/ Recompact(s)
  BY <1>3, <1>b DEF AutoCompact, Recompact, History
<1>4. CASE NoCompact(s) \/ CallModel(s) \/ Overflow(s) \/ UseTools(s) \/ NoneDeferred(s)
  BY <1>4, <1>b DEF NoCompact, CallModel, Overflow, UseTools, NoneDeferred, History
<1>5. ASSUME NEW keep \in 2..4, NEW files \in 0..MaxFiles, CompactEnds(s, keep, files)
      PROVE  History'
  <2> DEFINE h == copy[s]
  <2>1. h \in Seq(Messages) /\ Len(h) >= 6 /\ Len(h) \in Nat
    BY <1>5, <1>b DEF CompactEnds
  <2>2. PICK k \in 0..Len(h) - keep : history' = Compacted(h, Split(h, k), files)
    BY <1>5 DEF CompactEnds
  <2>3. Len(h) - keep \in Nat /\ Len(h) - keep <= Len(h)
    BY <2>1
  <2> HIDE DEF h
  <2>4. Split(h, k) \in Nat /\ Split(h, k) <= Len(h)
    BY <2>1, <2>3, SplitTyped
  <2>5. history' \in Seq(Messages)
    BY <2>1, <2>2, <2>4, CompactedTyped
  <2>6. copy' = [copy EXCEPT ![s] = <<>>]
    BY <1>5 DEF CompactEnds
  <2> QED BY <1>b, <2>5, <2>6 DEF History
<1>6. CASE CompactFails(s)
  BY <1>6, <1>b, <1>c DEF CompactFails, History
<1>7. ASSUME NEW n \in 0..MaxCalls, NEW why \in {"stop", "length"}, Answers(s, n, why)
      PROVE  History'
  <2>1. \A i \in 1..n : Call(s, rounds[s], i) \in CallIds
    <3>1. rounds[s] \in Nat
      BY <1>a DEF Locals
    <3> QED BY <3>1, CallTyped
  <2>2. Message("assistant", {Call(s, rounds[s], i) : i \in 1..n}) \in Messages
    BY <2>1, MessagesTyped DEF Kinds
  <2>3. Message("cut", {}) \in Messages
    BY MessagesTyped DEF Kinds
  <2>4. PICK m \in Messages : history' = Append(history, m)
    BY <1>7, <2>2, <2>3 DEF Answers
  <2> QED BY <1>7, <1>b, <2>4 DEF Answers, History
<1>8. CASE Continue(s) \/ Deferred(s)
  <2>1. history' = Append(history, User) \/ history' = Append(history, Note)
    BY <1>8 DEF Continue, Deferred
  <2>2. copy' = copy
    BY <1>8 DEF Continue, Deferred
  <2>3. history' \in Seq(Messages)
    <3>1. CASE history' = Append(history, User)
      BY <1>b, <3>1, MessagesTyped
    <3>2. CASE history' = Append(history, Note)
      BY <1>b, <3>2, MessagesTyped
    <3> QED BY <2>1, <3>1, <3>2
  <2> QED BY <1>b, <2>2, <2>3 DEF History
<1>9. CASE Invalid(s)
  BY <1>9, <1>a, <1>b, NowTyped DEF Invalid, Resolve, Proceed, History
<1>10. ASSUME NEW r \in Reads, Reread(s, r)
       PROVE  History'
  <2>1. copy' \in [Submits -> Seq(Messages)]
    BY <1>10, <1>b, <1>c DEF Reread, Proceed
  <2> QED BY <1>10, <1>a, <1>b, <2>1, NowTyped DEF Reread, Resolve, History
<1>11. ASSUME NEW new \in {{}} \cup {{r} : r \in Reads}, RunTool(s, new)
       PROVE  History'
  BY <1>11, <1>b DEF RunTool, History
<1>12. CASE ToolEnds(s)
  <2>1. PICK notes \in Notes : history' = history \o notes \o <<Result(Now(s))>>
    BY <1>12 DEF ToolEnds
  <2>2. notes \in Seq(Messages) /\ <<Result(Now(s))>> \in Seq(Messages)
    BY <1>a, NotesTyped, NowTyped
  <2>3. history' \in Seq(Messages)
    BY <1>b, <2>1, <2>2
  <2> QED BY <1>12, <1>b, <2>3 DEF ToolEnds, Proceed, History
<1>13. CASE RoundEnds(s)
  <2>1. asked[s] \in Nat /\ rounds[s] \in Nat
    BY <1>a DEF Locals
  <2>2. Unresolved(s) \subseteq CallIds
    BY <2>1, CallTyped DEF Unresolved, Asked
  <2>7. PICK n \in 0..asked[s] : \E order \in [1..n -> Unresolved(s)] :
          history' = history \o [i \in 1..n |-> Result(order[i])]
    BY <1>13 DEF RoundEnds
  <2>3. PICK order \in [1..n -> Unresolved(s)] :
          history' = history \o [i \in 1..n |-> Result(order[i])]
    BY <2>7
  <2>4. \A i \in 1..n : Result(order[i]) \in Messages
    BY <2>2, <2>3, MessagesTyped
  <2>5. [i \in 1..n |-> Result(order[i])] \in Seq(Messages)
    BY <2>1, <2>4
  <2>6. history' \in Seq(Messages)
    BY <1>b, <2>3, <2>5
  <2> QED BY <1>13, <1>b, <2>6 DEF RoundEnds, History
<1> QED BY <1>1, <1>2, <1>3, <1>4, <1>5, <1>6, <1>7, <1>8, <1>9, <1>10, <1>11, <1>12, <1>13
  DEF Step

\* What returns leaves its own locals typed.
LEMMA EndTyped ==
  ASSUME Locals, NEW s \in Submits, NEW l \in Ended, End(s, l)
  PROVE  /\ loop' \in Submits \cup {NoSubmit}
         /\ rounds' \in [Submits -> Nat] /\ retries' \in [Submits -> Nat]
         /\ asked' \in [Submits -> Nat] /\ next' \in [Submits -> Nat]
         /\ stop' \in [Submits -> {"stop", "length"}]
         /\ turnBlocked' \in [Submits -> Nat]
         /\ offered' \in [Submits -> BOOLEAN]
<1>1. loop' = NoSubmit
  BY DEF End, Await
<1>2. rounds' \in [Submits -> Nat] /\ asked' \in [Submits -> Nat]
  <2>1. rounds \in [Submits -> Nat] /\ asked \in [Submits -> Nat]
    BY DEF Locals
  <2>2. CASE l = "ended"
    <3>1. rounds' = [rounds EXCEPT ![s] = 0] /\ asked' = [asked EXCEPT ![s] = 0]
      BY <2>2 DEF End
    <3> QED BY <2>1, <3>1
  <2>3. CASE l # "ended"
    <3>1. rounds' = rounds /\ asked' = asked
      BY <2>3 DEF End
    <3> QED BY <2>1, <3>1
  <2> QED BY <2>2, <2>3
<1>3. retries' \in [Submits -> Nat] /\ next' \in [Submits -> Nat] /\ turnBlocked' \in [Submits -> Nat]
  BY DEF Locals, End
<1>4. stop' \in [Submits -> {"stop", "length"}]
  BY DEF Locals, End
<1>5. offered' \in [Submits -> BOOLEAN]
  <2>1. offered' = [offered EXCEPT ![s] = TRUE] /\ offered \in [Submits -> BOOLEAN]
    BY DEF Locals, End
  <2> QED BY <2>1
<1> QED BY <1>1, <1>2, <1>3, <1>4, <1>5

LEMMA LocalsStep ==
  ASSUME TypeOK, NEW s \in Submits, Step(s)
  PROVE  Locals'
<1> USE EngineAssumption DEF Locals, locals, answer, guard, past, Keep, Await, Proceed, Resolve
<1>a. Locals /\ History
  BY Parts
<1>b. "ended" \in Ended /\ "aborted" \in Ended /\ "broken" \in Ended
  BY DEF Ended
<1>1. CASE Prompt(s) \/ RoundsUsedUp(s) \/ AutoCompact(s) \/ NoCompact(s) \/ CompactFails(s)
  <2>1. CASE Prompt(s)
    BY <2>1, <1>a DEF Prompt
  <2>2. CASE RoundsUsedUp(s)
    BY <2>2, <1>a, <1>b, EndTyped DEF RoundsUsedUp
  <2>3. CASE AutoCompact(s)
    BY <2>3, <1>a DEF AutoCompact
  <2>4. CASE NoCompact(s)
    BY <2>4, <1>a DEF NoCompact
  <2>5. CASE CompactFails(s)
    <3>1. CASE End(s, "ended")
      BY <2>5, <3>1, <1>a, <1>b, EndTyped DEF CompactFails
    <3>2. CASE Await(s, "budget") /\ UNCHANGED <<rounds, retries, answer, turnBlocked, offered>>
      BY <2>5, <3>2, <1>a DEF CompactFails
    <3> QED BY <2>5, <3>1, <3>2 DEF CompactFails
  <2> QED BY <1>1, <2>1, <2>2, <2>3, <2>4, <2>5
<1>2. ASSUME NEW keep \in 2..4, NEW files \in 0..MaxFiles, CompactEnds(s, keep, files)
      PROVE  Locals'
  <2>1. loop' \in Submits \cup {NoSubmit} /\ severed' \in BOOLEAN /\ stale' \in BOOLEAN
    BY <1>2, <1>a DEF CompactEnds
  <2> QED BY <1>2, <1>a, <2>1 DEF CompactEnds
<1>3. CASE BudgetStop(s) \/ CallModel(s) \/ Overflow(s) \/ Recompact(s) \/ CallFails(s)
  <2>1. CASE BudgetStop(s)
    BY <2>1, <1>a, <1>b, EndTyped DEF BudgetStop
  <2>2. CASE CallModel(s)
    BY <2>2, <1>a DEF CallModel
  <2>3. CASE Overflow(s)
    BY <2>3, <1>a DEF Overflow
  <2>4. CASE Recompact(s)
    BY <2>4, <1>a DEF Recompact
  <2>5. CASE CallFails(s)
    BY <2>5, <1>a, <1>b, EndTyped DEF CallFails
  <2> QED BY <1>3, <2>1, <2>2, <2>3, <2>4, <2>5
<1>4. ASSUME NEW n \in 0..MaxCalls, NEW why \in {"stop", "length"}, Answers(s, n, why)
      PROVE  Locals'
  <2>1. n \in Nat
    OBVIOUS
  <2> QED BY <1>4, <1>a, <2>1 DEF Answers
<1>5. CASE Continue(s)
  BY <1>5, <1>a DEF Continue
<1>6. CASE Done(s) \/ UseTools(s)
  <2>1. CASE Done(s)
    BY <2>1, <1>a, <1>b, EndTyped DEF Done
  <2>2. CASE UseTools(s)
    BY <2>2, <1>a DEF UseTools
  <2> QED BY <1>6, <2>1, <2>2
<1>7. CASE Invalid(s)
  BY <1>7, <1>a DEF Invalid
<1>8. ASSUME NEW r \in Reads, Reread(s, r)
      PROVE  Locals'
  <2>1. noTools' \in BOOLEAN /\ blocked' \in Nat /\ seen' \subseteq Reads /\ UNCHANGED past
    BY <1>8, <1>a DEF Reread
  <2>2. CASE End(s, "aborted")
    BY <2>1, <2>2, <1>a, <1>b, EndTyped
  <2>3. CASE Keep(s, "tools") /\ Proceed(s) /\ turnBlocked' = [turnBlocked EXCEPT ![s] = @ + 1]
    BY <2>1, <2>3, <1>a
  <2> QED BY <1>8, <2>2, <2>3 DEF Reread
<1>9. ASSUME NEW new \in {{}} \cup {{r} : r \in Reads}, RunTool(s, new)
      PROVE  Locals'
  BY <1>9, <1>a DEF RunTool
<1>10. CASE ToolEnds(s) \/ Deferred(s) \/ NoneDeferred(s)
  <2>1. CASE ToolEnds(s)
    BY <2>1, <1>a DEF ToolEnds
  <2>2. CASE Deferred(s)
    BY <2>2, <1>a DEF Deferred
  <2>3. CASE NoneDeferred(s)
    BY <2>3, <1>a DEF NoneDeferred
  <2> QED BY <1>10, <2>1, <2>2, <2>3
<1>11. CASE RoundEnds(s)
  <2>1. NextRound(s) \in Nat
    BY <1>a DEF NextRound
  <2> QED BY <1>11, <1>a, <2>1 DEF RoundEnds
<1>12. CASE Breaks(s)
  BY <1>12, <1>a, <1>b, EndTyped DEF Breaks
<1> QED BY <1>1, <1>2, <1>3, <1>4, <1>5, <1>6, <1>7, <1>8, <1>9, <1>10, <1>11, <1>12
  DEF Step

\* Every variable of the engine keeps its type in every reachable state.
THEOREM TypeCorrect == Spec => []TypeOK
<1>1. Init => TypeOK
  <2> SUFFICES ASSUME Init PROVE TypeOK
    OBVIOUS
  <2>1. <<>> \in Seq(Messages) /\ history \in Seq(Messages)
    <3>1. User \in Messages /\ Message("assistant", {}) \in Messages
      BY MessagesTyped DEF Kinds
    <3>2. history \in Seq({User, Message("assistant", {})})
      BY TranscriptAssumption DEF Init
    <3> QED BY <3>1, <3>2
  <2> QED BY <2>1 DEF Init, TypeOK
<1>2. TypeOK /\ BInv /\ [Next]_vars => TypeOK'
  <2> SUFFICES ASSUME TypeOK, BInv, [Next]_vars PROVE TypeOK'
    OBVIOUS
  <2>a. Basic'
    BY BInvInductive DEF BInv
  <2>1. ASSUME NEW s \in Submits, Step(s) PROVE History' /\ Locals'
    BY <2>1, HistoryStep, LocalsStep
  <2>2. ASSUME NEW s \in Submits, Begin(s) PROVE History' /\ Locals'
    <3>1. overlapped' \in BOOLEAN
      BY <2>2 DEF Begin, TypeOK
    <3> QED BY <2>2, <3>1 DEF Begin, Await, TypeOK, History, Locals, guard, locals, answer
  <2>3. ASSUME Clear PROVE History' /\ Locals'
    BY <2>3 DEF Clear, TypeOK, History, Locals, guard, locals, answer, past
  <2>4. ASSUME UNCHANGED vars PROVE History' /\ Locals'
    BY <2>4 DEF vars, TypeOK, History, Locals, guard, locals, answer, past
  <2>5. History' /\ Locals'
    BY <2>1, <2>2, <2>3, <2>4 DEF Next
  <2> QED BY <2>a, <2>5 DEF TypeOK, Basic, History, Locals, Labels
<1> QED BY <1>1, <1>2, InitBInv, BInvInductive, PTL DEF Spec

-----------------------------------------------------------------------------
(* Calls and results *)

\* A submission works on an answer, or has left it in the middle.
Working == {"answered", "tools", "tool", "net"}
Left == {"aborted", "broken"}

\* Where a submission stands in its answer.
Placed ==
  \A s \in Submits :
    /\ pc[s] \notin Working \cup Left => asked[s] = 0
    /\ next[s] >= 1
    /\ pc[s] = "tool" => next[s] <= asked[s]
    /\ pc[s] = "net" => next[s] > asked[s]

\* The calls a submission has still to make have no result.
Fresh ==
  ~stale => \A s \in Submits : pc[s] \notin Ended =>
    \A n, i \in Nat : Call(s, n, i) \in ResultsOf(history) =>
      n < rounds[s] \/ (n = rounds[s] /\ i \in 1..asked[s])

\* A result stands behind its call.
InOrder(h) ==
  \A i, j \in DOMAIN h :
    h[i].kind = "assistant" /\ h[j].kind = "result" /\ h[i].calls \cap h[j].calls # {} => i < j

UInv == Placed /\ Fresh /\ (~stale => InOrder(history)) /\ UnansweredExplained

LEMMA InCalls ==
  ASSUME NEW h, NEW c
  PROVE  c \in CallsOf(h) <=> \E i \in DOMAIN h : h[i].kind = "assistant" /\ c \in h[i].calls
  BY DEF CallsOf

LEMMA InResults ==
  ASSUME NEW h, NEW c
  PROVE  c \in ResultsOf(h) <=> \E i \in DOMAIN h : h[i].kind = "result" /\ c \in h[i].calls
  BY DEF ResultsOf

LEMMA ConcatParts ==
  ASSUME NEW h \in Seq(Messages), NEW q \in Seq(Messages)
  PROVE  /\ CallsOf(h \o q) = CallsOf(h) \cup CallsOf(q)
         /\ ResultsOf(h \o q) = ResultsOf(h) \cup ResultsOf(q)
<1> DEFINE g == h \o q
<1>1. \A i \in DOMAIN h : i \in DOMAIN g /\ g[i] = h[i]
  OBVIOUS
<1>2. \A i \in DOMAIN q : Len(h) + i \in DOMAIN g /\ g[Len(h) + i] = q[i]
  OBVIOUS
<1>3. \A j \in DOMAIN g : (j \in DOMAIN h /\ g[j] = h[j]) \/ \E i \in DOMAIN q : g[j] = q[i]
  <2> SUFFICES ASSUME NEW j \in DOMAIN g, j \notin DOMAIN h PROVE \E i \in DOMAIN q : g[j] = q[i]
    OBVIOUS
  <2>1. j - Len(h) \in DOMAIN q /\ g[j] = q[j - Len(h)]
    OBVIOUS
  <2> QED BY <2>1
<1> HIDE DEF g
<1>4. ASSUME NEW c PROVE c \in CallsOf(g) <=> c \in CallsOf(h) \cup CallsOf(q)
  BY <1>1, <1>2, <1>3, InCalls
<1>5. ASSUME NEW c PROVE c \in ResultsOf(g) <=> c \in ResultsOf(h) \cup ResultsOf(q)
  BY <1>1, <1>2, <1>3, InResults
<1>6. CallsOf(g) = CallsOf(h) \cup CallsOf(q) /\ ResultsOf(g) = ResultsOf(h) \cup ResultsOf(q)
  BY <1>4, <1>5
<1> QED BY <1>6 DEF g

\* What has no calls may be added behind a history.
LEMMA ConcatInOrder ==
  ASSUME NEW h \in Seq(Messages), NEW q \in Seq(Messages), InOrder(h), CallsOf(q) = {}
  PROVE  InOrder(h \o q)
<1> DEFINE g == h \o q
<1> SUFFICES ASSUME NEW i \in DOMAIN g, NEW j \in DOMAIN g, g[i].kind = "assistant", g[j].kind = "result",
                    NEW c \in g[i].calls \cap g[j].calls
             PROVE  i < j
  BY DEF InOrder
<1>1. i \in DOMAIN h /\ g[i] = h[i]
  <2> SUFFICES ASSUME i \notin DOMAIN h PROVE FALSE
    OBVIOUS
  <2>1. i - Len(h) \in DOMAIN q /\ g[i] = q[i - Len(h)]
    OBVIOUS
  <2> QED BY <2>1, InCalls
<1>2. CASE j \in DOMAIN h
  <2>1. g[j] = h[j]
    BY <1>2
  <2> QED BY <1>1, <1>2, <2>1 DEF InOrder
<1>3. CASE j \notin DOMAIN h
  BY <1>1, <1>3
<1> QED BY <1>2, <1>3

LEMMA EmptyParts == CallsOf(<<>>) = {} /\ ResultsOf(<<>>) = {}
  BY DEF CallsOf, ResultsOf

LEMMA OneParts ==
  ASSUME NEW m \in Messages
  PROVE  /\ CallsOf(<<m>>) = IF m.kind = "assistant" THEN m.calls ELSE {}
         /\ ResultsOf(<<m>>) = IF m.kind = "result" THEN m.calls ELSE {}
<1>1. DOMAIN <<m>> = {1} /\ <<m>>[1] = m
  OBVIOUS
<1> HIDE DEF CallsOf
<1>2. ASSUME NEW c PROVE c \in CallsOf(<<m>>) <=> m.kind = "assistant" /\ c \in m.calls
  BY <1>1, InCalls
<1>3. ASSUME NEW c PROVE c \in ResultsOf(<<m>>) <=> m.kind = "result" /\ c \in m.calls
  BY <1>1, InResults
<1> QED BY <1>2, <1>3

LEMMA PlacedEnd ==
  ASSUME TypeOK, Placed, NEW s \in Submits, NEW l \in Ended, End(s, l)
  PROVE  Placed'
<1>1. /\ pc' = [pc EXCEPT ![s] = l] /\ next' = [next EXCEPT ![s] = 1]
      /\ l = "ended" => asked' = [asked EXCEPT ![s] = 0]
      /\ l # "ended" => asked' = asked
  BY DEF End, Await
<1>2. CASE l = "ended"
  <2>1. asked' = [asked EXCEPT ![s] = 0]
    BY <1>1, <1>2
  <2> QED BY <1>1, <1>2, <2>1 DEF TypeOK, Placed, Working, Left
<1>3. CASE l \in {"aborted", "broken"}
  <2>1. asked' = asked
    BY <1>1, <1>3
  <2> QED BY <1>1, <1>3, <2>1 DEF TypeOK, Placed, Working, Left
<1> QED BY <1>2, <1>3 DEF Ended

LEMMA PlacedStep ==
  ASSUME TypeOK, Placed, NEW s \in Submits, Step(s)
  PROVE  Placed'
<1> USE EngineAssumption DEF answer
<1>0. "ended" \in Ended /\ "aborted" \in Ended /\ "broken" \in Ended
  BY DEF Ended
<1>1. CASE RoundsUsedUp(s) \/ BudgetStop(s) \/ CallFails(s) \/ Done(s) \/ Breaks(s)
  BY <1>0, <1>1, PlacedEnd DEF RoundsUsedUp, BudgetStop, CallFails, Done, Breaks
<1>2. CASE Prompt(s) \/ AutoCompact(s) \/ NoCompact(s)
  BY <1>2 DEF Prompt, AutoCompact, NoCompact, At, Keep, Await, locals, TypeOK, Placed, Working, Left
<1>3. ASSUME NEW keep \in 2..4, NEW files \in 0..MaxFiles, CompactEnds(s, keep, files)
      PROVE  Placed'
  <2>1. /\ pc[s] \in {"compact", "recompact"} /\ UNCHANGED <<asked, next>>
        /\ pc' = [pc EXCEPT ![s] = "budget"] \/ pc' = [pc EXCEPT ![s] = "top"]
    BY <1>3 DEF CompactEnds, At, Await
  <2> QED BY <2>1 DEF TypeOK, Placed, Working, Left
<1>4. CASE CompactFails(s)
  <2>1. CASE End(s, "ended")
    BY <1>0, <2>1, PlacedEnd
  <2>2. CASE At(s, "compact") /\ Await(s, "budget") /\ UNCHANGED answer
    BY <2>2 DEF At, Await, TypeOK, Placed, Working, Left
  <2> QED BY <1>4, <2>1, <2>2 DEF CompactFails
<1>5. CASE CallModel(s) \/ Overflow(s) \/ Recompact(s)
  BY <1>5 DEF CallModel, Overflow, Recompact, At, Await, locals, TypeOK, Placed, Working, Left
<1>6. ASSUME NEW n \in 0..MaxCalls, NEW why \in {"stop", "length"}, Answers(s, n, why)
      PROVE  Placed'
  BY <1>6 DEF Answers, At, Await, TypeOK, Placed, Working, Left
<1>7. CASE Continue(s) \/ UseTools(s) \/ NoneDeferred(s) \/ Deferred(s)
  BY <1>7 DEF Continue, UseTools, NoneDeferred, Deferred, At, Keep, Await, locals, TypeOK, Placed, Working, Left
<1>8. CASE Invalid(s)
  BY <1>8 DEF Invalid, Pending, Proceed, At, Keep, TypeOK, Placed, Working, Left
<1>9. ASSUME NEW r \in Reads, Reread(s, r)
      PROVE  Placed'
  <2>1. CASE End(s, "aborted")
    BY <1>0, <2>1, PlacedEnd
  <2>2. CASE Pending(s) /\ Keep(s, "tools") /\ Proceed(s)
    BY <2>2 DEF Pending, Proceed, At, Keep, TypeOK, Placed, Working, Left
  <2> QED BY <1>9, <2>1, <2>2 DEF Reread
<1>10. ASSUME NEW new \in {{}} \cup {{r} : r \in Reads}, RunTool(s, new)
       PROVE  Placed'
  BY <1>10 DEF RunTool, Pending, At, Await, locals, TypeOK, Placed, Working, Left
<1>11. CASE ToolEnds(s)
  BY <1>11 DEF ToolEnds, Proceed, At, Await, TypeOK, Placed, Working, Left
<1>12. CASE RoundEnds(s)
  BY <1>12 DEF RoundEnds, At, Keep, TypeOK, Placed, Working, Left
<1> QED BY <1>1, <1>2, <1>3, <1>4, <1>5, <1>6, <1>7, <1>8, <1>9, <1>10, <1>11, <1>12
  DEF Step

\* A step of s adds q to the history, in which no calls are made and only calls of s answered;
\* the round goes on, the submission ends, or the next round begins.
Extends(s, q) ==
  /\ q \in Seq(Messages) /\ history' = history \o q
  /\ CallsOf(q) = {} /\ ResultsOf(q) \subseteq Asked(s)
  /\ stale' = stale /\ pc[s] \in Running
  /\ \/ /\ UNCHANGED <<rounds, asked>>
        /\ \E l \in Running \cup Left : pc' = [pc EXCEPT ![s] = l]
     \/ /\ asked[s] = 0 /\ pc' = [pc EXCEPT ![s] = "ended"]
        /\ rounds' = [rounds EXCEPT ![s] = 0] /\ asked' = [asked EXCEPT ![s] = 0]
     \/ /\ Asked(s) \subseteq ResultsOf(history \o q) /\ pc' = [pc EXCEPT ![s] = "top"]
        /\ rounds' = [rounds EXCEPT ![s] = @ + 1] /\ asked' = [asked EXCEPT ![s] = 0]

LEMMA ExtendsKeeps ==
  ASSUME TypeOK, UInv, NEW s \in Submits, NEW q, Extends(s, q)
  PROVE  Fresh' /\ (~stale' => InOrder(history)') /\ UnansweredExplained'
<1> SUFFICES ASSUME ~stale
             PROVE  Fresh' /\ InOrder(history)' /\ UnansweredExplained'
  BY DEF Extends, Fresh, UnansweredExplained
<1>1. /\ history \in Seq(Messages) /\ q \in Seq(Messages) /\ history' = history \o q
      /\ CallsOf(q) = {} /\ ResultsOf(q) \subseteq Asked(s)
      /\ pc[s] \in Running
      /\ pc \in [Submits -> Labels] /\ rounds \in [Submits -> Nat] /\ asked \in [Submits -> Nat]
  BY DEF Extends, TypeOK, Labels
<1>2. CallsOf(history') = CallsOf(history) /\ ResultsOf(history') = ResultsOf(history) \cup ResultsOf(q)
  <2>1. /\ CallsOf(history \o q) = CallsOf(history) \cup CallsOf(q)
        /\ ResultsOf(history \o q) = ResultsOf(history) \cup ResultsOf(q)
    BY <1>1, ConcatParts, Zenon
  <2> QED BY <1>1, <2>1, Zenon
<1>3. InOrder(history)'
  <2>1. InOrder(history)
    BY DEF UInv
  <2>2. InOrder(history \o q)
    BY <1>1, <2>1, ConcatInOrder
  <2> QED BY <1>1, <2>2 DEF InOrder
<1>4. \A t \in Submits \ {s} : pc'[t] = pc[t] /\ rounds'[t] = rounds[t] /\ asked'[t] = asked[t]
  BY <1>1 DEF Extends
<1>5. Fresh'
  <2> SUFFICES ASSUME NEW t \in Submits, pc'[t] \notin Ended, NEW n \in Nat, NEW i \in Nat,
                      Call(t, n, i) \in ResultsOf(history')
               PROVE  n < rounds'[t] \/ (n = rounds'[t] /\ i \in 1..asked'[t])
    BY DEF Fresh
  <2>1. pc[t] \notin Ended
    BY <1>1, <1>4 DEF Running, Ended
  <2>2. n < rounds[t] \/ (n = rounds[t] /\ i \in 1..asked[t])
    <3>1. CASE Call(t, n, i) \in ResultsOf(history)
      BY <2>1, <3>1 DEF UInv, Fresh
    <3>2. CASE Call(t, n, i) \in Asked(s)
      BY <3>2 DEF Asked, Call
    <3> QED BY <1>1, <1>2, <3>1, <3>2
  <2>3. CASE t # s
    BY <1>4, <2>2, <2>3
  <2>4. CASE t = s
    <3>1. CASE UNCHANGED <<rounds, asked>>
      BY <2>2, <3>1
    <3>2. CASE pc' = [pc EXCEPT ![s] = "ended"]
      BY <1>1, <2>4, <3>2 DEF Ended
    <3>3. CASE rounds' = [rounds EXCEPT ![s] = @ + 1]
      BY <1>1, <2>2, <2>4, <3>3
    <3> QED BY <3>1, <3>2, <3>3 DEF Extends
  <2> QED BY <2>3, <2>4
<1>6. UnansweredExplained'
  <2> SUFFICES ASSUME NEW c \in CallsOf(history') \ ResultsOf(history')
               PROVE  \E t \in Submits : Open(t)' /\ c \in Asked(t)'
    BY DEF UnansweredExplained
  <2>1. c \in CallsOf(history) \ ResultsOf(history)
    BY <1>2
  <2>2. PICK t \in Submits : Open(t) /\ c \in Asked(t)
    BY <2>1 DEF UInv, UnansweredExplained
  <2>3. CASE t # s
    BY <1>4, <2>2, <2>3 DEF Open, Asked
  <2>4. CASE t = s
    <3>1. CASE /\ UNCHANGED <<rounds, asked>>
               /\ \E l \in Running \cup Left : pc' = [pc EXCEPT ![s] = l]
      <4>1. Open(s)'
        BY <1>1, <3>1 DEF Open, Left
      <4>2. c \in Asked(s)'
        BY <2>2, <2>4, <3>1 DEF Asked
      <4> QED BY <4>1, <4>2
    <3>2. CASE asked[s] = 0
      BY <2>2, <2>4, <3>2 DEF Asked
    <3>3. CASE Asked(s) \subseteq ResultsOf(history \o q)
      BY <1>1, <2>2, <2>4, <3>3
    <3> QED BY <3>1, <3>2, <3>3 DEF Extends
  <2> QED BY <2>3, <2>4
<1> QED BY <1>3, <1>5, <1>6

LEMMA NotesParts ==
  ASSUME NEW notes \in Notes
  PROVE  notes \in Seq(Messages) /\ CallsOf(notes) = {} /\ ResultsOf(notes) = {}
<1>1. Note \in Messages /\ Note.kind = "note"
  BY MessagesTyped DEF Note, Message
<1> QED BY <1>1, NotesTyped, OneParts, EmptyParts DEF Notes

LEMMA ResultParts ==
  ASSUME NEW c \in CallIds
  PROVE  /\ <<Result(c)>> \in Seq(Messages)
         /\ CallsOf(<<Result(c)>>) = {} /\ ResultsOf(<<Result(c)>>) = {c}
<1>1. Result(c) \in Messages /\ Result(c).kind = "result" /\ Result(c).calls = {c}
  BY MessagesTyped DEF Result, Message
<1> QED BY <1>1, OneParts

LEMMA NoteAndUserParts ==
  /\ <<User>> \in Seq(Messages) /\ CallsOf(<<User>>) = {} /\ ResultsOf(<<User>>) = {}
  /\ <<Note>> \in Seq(Messages) /\ CallsOf(<<Note>>) = {} /\ ResultsOf(<<Note>>) = {}
<1>1. User \in Messages /\ Note \in Messages /\ User.kind = "user" /\ Note.kind = "note"
  BY MessagesTyped DEF Message, User, Note
<1> QED BY <1>1, OneParts

\* The call a submission is at is one that its answer makes.
LEMMA NowAsked ==
  ASSUME TypeOK, Placed, NEW s \in Submits, next[s] <= asked[s]
  PROVE  Now(s) \in Asked(s) /\ Now(s) \in CallIds
<1>1. next[s] \in 1..asked[s] /\ rounds[s] \in Nat /\ next[s] \in Nat
  BY DEF TypeOK, Placed
<1> QED BY <1>1, CallTyped DEF Now, Asked

\* The end of a round adds a result for every call that has none behind the last user message.
LEMMA NetParts ==
  ASSUME TypeOK, NEW s \in Submits, RoundEnds(s)
  PROVE  \E q \in Seq(Messages) :
           /\ history' = history \o q /\ CallsOf(q) = {}
           /\ ResultsOf(q) \subseteq Asked(s)
           /\ Asked(s) \subseteq ResultsOf(history \o q)
<1>1. PICK n \in 0..asked[s] : \E order \in [1..n -> Unresolved(s)] :
        /\ {order[i] : i \in 1..n} = Unresolved(s)
        /\ history' = history \o [i \in 1..n |-> Result(order[i])]
  BY DEF RoundEnds
<1>2. PICK order \in [1..n -> Unresolved(s)] :
        /\ {order[i] : i \in 1..n} = Unresolved(s)
        /\ history' = history \o [i \in 1..n |-> Result(order[i])]
  BY <1>1
<1> DEFINE q == [i \in 1..n |-> Result(order[i])]
<1>3. n \in Nat /\ asked[s] \in Nat /\ rounds[s] \in Nat /\ history \in Seq(Messages)
  BY DEF TypeOK
<1>4. Unresolved(s) \subseteq CallIds /\ Unresolved(s) \subseteq Asked(s)
  BY <1>3, CallTyped DEF Unresolved, Asked
<1>5. \A i \in 1..n : q[i] \in Messages /\ q[i].kind = "result" /\ q[i].calls = {order[i]}
  <2>1. \A c \in CallIds : Result(c) \in Messages /\ Result(c).kind = "result" /\ Result(c).calls = {c}
    BY MessagesTyped DEF Result, Message
  <2> QED BY <1>2, <1>4, <2>1
<1>6. q \in Seq(Messages) /\ DOMAIN q = 1..n /\ history' = history \o q
  <2>1. \A i \in 1..n : Result(order[i]) \in Messages
    BY <1>5
  <2>2. q \in Seq(Messages)
    BY <1>3, <2>1
  <2> QED BY <1>2, <2>2
<1> HIDE DEF q
<1>7. CallsOf(q) = {}
  BY <1>5, <1>6 DEF CallsOf
<1>8. ASSUME NEW c PROVE c \in ResultsOf(q) <=> \E i \in 1..n : c = order[i]
  <2>1. ASSUME NEW i \in 1..n, c = order[i] PROVE c \in ResultsOf(q)
    <3>1. i \in DOMAIN q /\ q[i].kind = "result" /\ c \in q[i].calls
      BY <1>5, <1>6, <2>1
    <3> QED BY <3>1, InResults
  <2>2. ASSUME c \in ResultsOf(q) PROVE \E i \in 1..n : c = order[i]
    <3>1. PICK i \in DOMAIN q : c \in q[i].calls
      BY <2>2, InResults
    <3>2. i \in 1..n /\ q[i].calls = {order[i]}
      BY <1>5, <1>6
    <3> QED BY <3>1, <3>2
  <2> QED BY <2>1, <2>2
<1>9. ResultsOf(q) = Unresolved(s)
  BY <1>2, <1>8
<1>10. Resolved(history) \subseteq ResultsOf(history)
  BY DEF Resolved, ResultsOf
<1>11. ResultsOf(history \o q) = ResultsOf(history) \cup Unresolved(s)
  BY <1>3, <1>6, <1>9, ConcatParts
<1>12. Asked(s) \subseteq ResultsOf(history \o q)
  BY <1>10, <1>11 DEF Unresolved
<1> QED BY <1>4, <1>6, <1>7, <1>9, <1>12

\* Every step but an answer and the end of a compaction extends the history.
LEMMA StepExtends ==
  ASSUME TypeOK, Placed, NEW s \in Submits, Step(s),
         \A n \in 0..MaxCalls, why \in {"stop", "length"} : ~Answers(s, n, why),
         \A keep \in 2..4, files \in 0..MaxFiles : ~CompactEnds(s, keep, files)
  PROVE  \E q : Extends(s, q)
<1> USE DEF past, answer, locals
<1>a. /\ history \in Seq(Messages) /\ history \o <<>> = history /\ <<>> \in Seq(Messages)
      /\ CallsOf(<<>>) = {} /\ ResultsOf(<<>>) = {}
  BY EmptyParts DEF TypeOK
<1>b. \A m \in Messages : Append(history, m) = history \o <<m>>
  BY <1>a
<1>1. CASE RoundsUsedUp(s) \/ BudgetStop(s) \/ CallFails(s) \/ Done(s) \/ (CompactFails(s) /\ End(s, "ended"))
  <2>1. /\ End(s, "ended") /\ history' = history /\ stale' = stale /\ pc[s] \in Running /\ asked[s] = 0
    <3>1. CASE RoundsUsedUp(s)
      BY <3>1 DEF RoundsUsedUp, At, Running, Placed, Working, Left
    <3>2. CASE BudgetStop(s)
      BY <3>2 DEF BudgetStop, At, Running, Placed, Working, Left
    <3>3. CASE CallFails(s)
      BY <3>3 DEF CallFails, At, Running, Placed, Working, Left
    <3>4. CASE Done(s)
      BY <3>4 DEF Done, At, Running
    <3>5. CASE CompactFails(s) /\ End(s, "ended")
      BY <3>5 DEF CompactFails, At, Running, Placed, Working, Left
    <3> QED BY <1>1, <3>1, <3>2, <3>3, <3>4, <3>5
  <2>2. /\ pc' = [pc EXCEPT ![s] = "ended"]
        /\ rounds' = [rounds EXCEPT ![s] = 0] /\ asked' = [asked EXCEPT ![s] = 0]
    BY <2>1 DEF End, Await
  <2>3. Extends(s, <<>>)
    BY <1>a, <2>1, <2>2 DEF Extends
  <2> QED BY <2>3
<1>2. CASE Prompt(s)
  <2>1. PICK notes \in Notes : history' = history \o notes \o <<User>>
    BY <1>2 DEF Prompt
  <2>2. notes \in Seq(Messages) /\ CallsOf(notes) = {} /\ ResultsOf(notes) = {}
    BY NotesParts
  <2>3. <<User>> \in Seq(Messages) /\ CallsOf(<<User>>) = {} /\ ResultsOf(<<User>>) = {}
    BY NoteAndUserParts
  <2> DEFINE q == notes \o <<User>>
  <2>4. q \in Seq(Messages) /\ history' = history \o q
    BY <1>a, <2>1, <2>2, <2>3
  <2>5. CallsOf(q) = {} /\ ResultsOf(q) = {}
    BY <2>2, <2>3, ConcatParts
  <2> HIDE DEF q
  <2>6. pc[s] \in Running /\ pc' = [pc EXCEPT ![s] = "top"] /\ stale' = stale /\ UNCHANGED <<rounds, asked>>
    BY <1>2 DEF Prompt, At, Await, Running
  <2>7. Extends(s, q)
    BY <2>4, <2>5, <2>6 DEF Extends, Running
  <2> QED BY <2>7
<1>3. CASE \/ AutoCompact(s) \/ NoCompact(s) \/ (CompactFails(s) /\ Await(s, "budget") /\ UNCHANGED <<rounds, answer>>)
           \/ CallModel(s) \/ Overflow(s) \/ Recompact(s) \/ UseTools(s) \/ NoneDeferred(s) \/ Breaks(s)
  <2>1. /\ history' = history /\ stale' = stale /\ UNCHANGED <<rounds, asked>> /\ pc[s] \in Running
        /\ \E l \in Running \cup Left : pc' = [pc EXCEPT ![s] = l]
    <3>1. CASE AutoCompact(s) \/ NoCompact(s) \/ CallModel(s) \/ Overflow(s) \/ Recompact(s)
      BY <3>1 DEF AutoCompact, NoCompact, CallModel, Overflow, Recompact, At, Keep, Await, Running, Left
    <3>2. CASE CompactFails(s) /\ Await(s, "budget") /\ UNCHANGED <<rounds, answer>>
      BY <3>2 DEF CompactFails, At, Await, Running, Left
    <3>3. CASE UseTools(s) \/ NoneDeferred(s)
      BY <3>3 DEF UseTools, NoneDeferred, At, Keep, Running, Left
    <3>4. CASE Breaks(s)
      <4>1. pc' = [pc EXCEPT ![s] = "broken"] /\ UNCHANGED <<rounds, asked>>
        BY <3>4 DEF Breaks, End, Await
      <4> QED BY <3>4, <4>1 DEF Breaks, Running, Left
    <3> QED BY <1>3, <3>1, <3>2, <3>3, <3>4
  <2>2. Extends(s, <<>>)
    BY <1>a, <2>1 DEF Extends
  <2> QED BY <2>2
<1>4. CASE Continue(s) \/ Deferred(s)
  <2>1. /\ stale' = stale /\ UNCHANGED <<rounds, asked>> /\ pc[s] \in Running
        /\ \E l \in Running \cup Left : pc' = [pc EXCEPT ![s] = l]
        /\ history' = Append(history, User) \/ history' = Append(history, Note)
    BY <1>4 DEF Continue, Deferred, Push, At, Keep, Await, Running, Left
  <2>2. history' = history \o <<User>> \/ history' = history \o <<Note>>
    BY <1>b, <2>1, MessagesTyped
  <2>3. Extends(s, <<User>>) \/ Extends(s, <<Note>>)
    BY <2>1, <2>2, NoteAndUserParts DEF Extends
  <2> QED BY <2>3
<1>5. ASSUME NEW notes \in Notes, history' = history \o notes \o <<Result(Now(s))>>, next[s] <= asked[s],
             stale' = stale, UNCHANGED <<rounds, asked>>, pc[s] \in Running,
             NEW l \in Running \cup Left, pc' = [pc EXCEPT ![s] = l]
      PROVE  \E q : Extends(s, q)
  <2>1. Now(s) \in Asked(s) /\ Now(s) \in CallIds
    BY <1>5, NowAsked
  <2>2. notes \in Seq(Messages) /\ CallsOf(notes) = {} /\ ResultsOf(notes) = {}
    BY NotesParts
  <2> DEFINE r == <<Result(Now(s))>>
  <2>3. r \in Seq(Messages) /\ CallsOf(r) = {} /\ ResultsOf(r) = {Now(s)}
    BY <2>1, ResultParts
  <2>4. history' = history \o notes \o r
    BY <1>5
  <2> HIDE DEF r
  <2> DEFINE q == notes \o r
  <2>5. q \in Seq(Messages) /\ history' = history \o q
    BY <1>a, <2>2, <2>3, <2>4
  <2>6. CallsOf(q) = {} /\ ResultsOf(q) = {Now(s)}
    BY <2>2, <2>3, ConcatParts
  <2> HIDE DEF q
  <2>7. Extends(s, q)
    BY <1>5, <2>1, <2>5, <2>6 DEF Extends
  <2> QED BY <2>7
<1>6. CASE Invalid(s) \/ \E r \in Reads : Reread(s, r)
  <2>1. history' = Append(history, Result(Now(s))) /\ next[s] <= asked[s] /\ stale' = stale /\ pc[s] \in Running
    BY <1>6 DEF Invalid, Reread, Pending, Resolve, Push, At, Running
  <2>2. <<>> \in Notes /\ history' = history \o <<>> \o <<Result(Now(s))>>
    <3>1. Result(Now(s)) \in Messages
      BY NowTyped, Parts
    <3> QED BY <1>a, <1>b, <2>1, <3>1 DEF Notes
  <2>3. UNCHANGED <<rounds, asked>> /\ \E l \in Running \cup Left : pc' = [pc EXCEPT ![s] = l]
    <3>1. CASE Keep(s, "tools") /\ Proceed(s)
      BY <3>1 DEF Keep, Proceed, Running
    <3>2. CASE End(s, "aborted")
      BY <3>2 DEF End, Await, Left
    <3> QED BY <1>6, <3>1, <3>2 DEF Invalid, Reread
  <2> QED BY <1>5, <2>1, <2>2, <2>3
<1>7. CASE ToolEnds(s)
  <2>1. PICK notes \in Notes : history' = history \o notes \o <<Result(Now(s))>>
    BY <1>7 DEF ToolEnds
  <2>2. next[s] <= asked[s] /\ pc[s] \in Running
    BY <1>7 DEF ToolEnds, At, Placed, Running
  <2>3. UNCHANGED <<rounds, asked>> /\ stale' = stale /\ pc' = [pc EXCEPT ![s] = "tools"] /\ "tools" \in Running
    BY <1>7 DEF ToolEnds, Proceed, Await, Running
  <2> QED BY <1>5, <2>1, <2>2, <2>3
<1>8. ASSUME NEW new, RunTool(s, new) PROVE \E q : Extends(s, q)
  <2>1. /\ history' = history /\ stale' = stale /\ UNCHANGED <<rounds, asked>> /\ pc[s] \in Running
        /\ pc' = [pc EXCEPT ![s] = "tool"] /\ "tool" \in Running
    BY <1>8 DEF RunTool, Pending, At, Await, Running
  <2>2. Extends(s, <<>>)
    BY <1>a, <2>1 DEF Extends
  <2> QED BY <2>2
<1>9. CASE RoundEnds(s)
  <2>1. PICK q \in Seq(Messages) : /\ history' = history \o q /\ CallsOf(q) = {}
                                   /\ ResultsOf(q) \subseteq Asked(s)
                                   /\ Asked(s) \subseteq ResultsOf(history \o q)
    BY <1>9, NetParts
  <2>2. /\ stale' = stale /\ pc[s] \in Running /\ pc' = [pc EXCEPT ![s] = "top"]
        /\ rounds' = [rounds EXCEPT ![s] = @ + 1] /\ asked' = [asked EXCEPT ![s] = 0]
    BY <1>9 DEF RoundEnds, NextRound, At, Keep, Running, TypeOK
  <2>3. Extends(s, q)
    BY <2>1, <2>2 DEF Extends
  <2> QED BY <2>3
<1>10. CASE CompactFails(s)
  BY <1>1, <1>3, <1>10 DEF CompactFails
<1> QED BY <1>1, <1>2, <1>3, <1>4, <1>6, <1>7, <1>8, <1>9, <1>10 DEF Step

\* An answer makes calls that have no result yet.
LEMMA AnswerFresh ==
  ASSUME TypeOK, Placed, Fresh, ~stale, NEW s \in Submits, NEW n \in 0..MaxCalls, pc[s] = "call"
  PROVE  /\ asked[s] = 0
         /\ {Call(s, rounds[s], i) : i \in 1..n} \cap ResultsOf(history) = {}
<1>1. asked[s] = 0 /\ rounds[s] \in Nat /\ pc[s] \notin Ended
  BY DEF TypeOK, Placed, Working, Left, Ended
<1>2. ASSUME NEW i \in 1..n, Call(s, rounds[s], i) \in ResultsOf(history) PROVE FALSE
  <2>1. i \in Nat /\ i \notin 1..asked[s]
    BY <1>1, EngineAssumption
  <2> QED BY <1>1, <1>2, <2>1 DEF Fresh
<1> QED BY <1>1, <1>2

LEMMA AnswerParts ==
  ASSUME TypeOK, NEW s \in Submits, NEW n \in 0..MaxCalls, NEW why \in {"stop", "length"}, Answers(s, n, why)
  PROVE  \E m \in Messages :
           /\ m = IF why = "length" THEN Message("cut", {})
                  ELSE Message("assistant", {Call(s, rounds[s], i) : i \in 1..n})
           /\ history' = history \o <<m>>
<1> DEFINE m == IF why = "length" THEN Message("cut", {})
                ELSE Message("assistant", {Call(s, rounds[s], i) : i \in 1..n})
<1>1. \A i \in 1..n : Call(s, rounds[s], i) \in CallIds
  <2>1. rounds[s] \in Nat
    BY DEF TypeOK
  <2> QED BY <2>1, CallTyped, EngineAssumption
<1>2. m \in Messages
  <2>1. Message("assistant", {Call(s, rounds[s], i) : i \in 1..n}) \in Messages
    BY <1>1, MessagesTyped DEF Kinds
  <2>2. Message("cut", {}) \in Messages
    BY MessagesTyped DEF Kinds
  <2> QED BY <2>1, <2>2
<1>3. history' = Append(history, m)
  BY DEF Answers, Push
<1> HIDE DEF m
<1>4. history' = history \o <<m>>
  BY <1>2, <1>3 DEF TypeOK
<1> QED BY <1>2, <1>4 DEF m

LEMMA AnswersKeeps ==
  ASSUME TypeOK, UInv, NEW s \in Submits,
         NEW n \in 0..MaxCalls, NEW why \in {"stop", "length"}, Answers(s, n, why)
  PROVE  Fresh' /\ (~stale' => InOrder(history)') /\ UnansweredExplained'
<1>1. /\ pc[s] = "call" /\ pc' = [pc EXCEPT ![s] = "answered"] /\ rounds' = rounds
      /\ asked' = [asked EXCEPT ![s] = n] /\ stale' = stale /\ (n > 0 => why = "stop")
      /\ pc \in [Submits -> Labels] /\ asked \in [Submits -> Nat] /\ history \in Seq(Messages)
      /\ n \in Nat
  BY EngineAssumption DEF Answers, At, Await, past, TypeOK, Labels
<1> SUFFICES ASSUME ~stale
             PROVE  Fresh' /\ InOrder(history)' /\ UnansweredExplained'
  BY <1>1 DEF Fresh, UnansweredExplained
<1> DEFINE C == {Call(s, rounds[s], i) : i \in 1..n}
<1>2. asked[s] = 0 /\ C \cap ResultsOf(history) = {}
  BY <1>1, AnswerFresh DEF UInv
<1>3. PICK m \in Messages :
        /\ m = IF why = "length" THEN Message("cut", {}) ELSE Message("assistant", C)
        /\ history' = history \o <<m>>
  BY AnswerParts
<1>4. C = Asked(s)'
  BY <1>1 DEF Asked
<1>5. n = 0 => C = {}
  OBVIOUS
<1> HIDE DEF C
<1>6. ResultsOf(<<m>>) = {} /\ CallsOf(<<m>>) \subseteq C /\ <<m>> \in Seq(Messages) /\ m.kind # "result"
      /\ (m.kind = "assistant" => m.calls = C)
  <2>1. m.kind # "result" /\ (m.kind = "assistant" => m.calls = C)
    BY <1>3 DEF Message
  <2> QED BY <2>1, OneParts
<1>7. /\ CallsOf(history \o <<m>>) = CallsOf(history) \cup CallsOf(<<m>>)
      /\ ResultsOf(history \o <<m>>) = ResultsOf(history) \cup ResultsOf(<<m>>)
  BY <1>1, <1>6, ConcatParts, Zenon
<1>8. CallsOf(history') \subseteq CallsOf(history) \cup C /\ ResultsOf(history') = ResultsOf(history)
  BY <1>3, <1>6, <1>7, Zenon
<1>9. Fresh'
  <2> SUFFICES ASSUME NEW t \in Submits, pc'[t] \notin Ended, NEW k \in Nat, NEW i \in Nat,
                      Call(t, k, i) \in ResultsOf(history')
               PROVE  k < rounds'[t] \/ (k = rounds'[t] /\ i \in 1..asked'[t])
    BY DEF Fresh
  <2>1. pc[t] \notin Ended
    BY <1>1 DEF Ended
  <2>2. k < rounds[t] \/ (k = rounds[t] /\ i \in 1..asked[t])
    BY <1>8, <2>1 DEF UInv, Fresh
  <2> QED BY <1>1, <1>2, <2>2
<1>10. InOrder(history)'
  <2> DEFINE g == history \o <<m>>
  <2> SUFFICES ASSUME NEW i \in DOMAIN g, NEW j \in DOMAIN g, g[i].kind = "assistant", g[j].kind = "result",
                      NEW c \in g[i].calls \cap g[j].calls
               PROVE  i < j
    BY <1>3 DEF InOrder
  <2>1. j \in DOMAIN history /\ g[j] = history[j]
    BY <1>1, <1>6
  <2>2. CASE i \in DOMAIN history
    <3>1. g[i] = history[i]
      BY <1>1, <2>2
    <3> QED BY <2>1, <2>2, <3>1 DEF UInv, InOrder
  <2>3. CASE i \notin DOMAIN history
    <3>1. g[i] = m
      BY <1>1, <2>3
    <3>2. c \in C
      BY <1>6, <3>1
    <3>3. c \in ResultsOf(history)
      BY <2>1, InResults
    <3> QED BY <1>2, <3>2, <3>3
  <2> QED BY <2>2, <2>3
<1>11. UnansweredExplained'
  <2> SUFFICES ASSUME NEW c \in CallsOf(history') \ ResultsOf(history')
               PROVE  \E t \in Submits : Open(t)' /\ c \in Asked(t)'
    BY DEF UnansweredExplained
  <2>1. CASE c \in C
    <3>1. Open(s)'
      BY <1>1 DEF Open, Running
    <3> QED BY <1>4, <2>1, <3>1
  <2>2. CASE c \notin C
    <3>1. PICK t \in Submits : Open(t) /\ c \in Asked(t)
      BY <1>8, <2>2 DEF UInv, UnansweredExplained
    <3>2. t # s
      BY <1>2, <3>1 DEF Asked
    <3>3. Open(t)' /\ Asked(t)' = Asked(t)
      BY <1>1, <3>1, <3>2 DEF Open, Asked
    <3> QED BY <3>1, <3>3
  <2> QED BY <2>1, <2>2
<1> QED BY <1>9, <1>10, <1>11

\* Where the messages of the tail stand in a compacted history g.
Shifted(h, split, files, g, d) ==
  /\ d \in Int /\ DOMAIN g = 1..Len(h) + d
  /\ \A j \in 1..1 + files : g[j] = User
  /\ \A i \in split + 1..Len(h) : i + d \in DOMAIN g /\ g[i + d] = Restored(h[i])
  /\ \A j \in DOMAIN g : j > 1 + files => j - d \in split + 1..Len(h) /\ g[j] = Restored(h[j - d])

LEMMA CompactedAt ==
  ASSUME NEW h \in Seq(Messages), NEW split \in Nat, split <= Len(h), NEW files \in Nat,
         NEW g, g = Compacted(h, split, files), NEW d, d = 1 + files - split
  PROVE  Shifted(h, split, files, g, d)
<1> DEFINE a == [i \in 1..1 + files |-> User]
           b == [i \in 1..Len(h) - split |-> Restored(h[split + i])]
<1>1. a \in Seq(Messages) /\ Len(a) = 1 + files
  BY MessagesTyped
<1>2. b \in Seq(Messages) /\ Len(b) = Len(h) - split
  <2>1. \A i \in 1..Len(h) - split : h[split + i] \in Messages
    OBVIOUS
  <2>2. \A i \in 1..Len(h) - split : Restored(h[split + i]) \in Messages
    BY <2>1, MessagesTyped
  <2> QED BY <2>2
<1>3. \A i \in 1..1 + files : a[i] = User
  OBVIOUS
<1>4. \A i \in 1..Len(h) - split : b[i] = Restored(h[split + i])
  OBVIOUS
<1>5. g = a \o b
  BY DEF Compacted
<1> HIDE DEF a, b
<1>6. DOMAIN g = 1..1 + files + (Len(h) - split)
  BY <1>1, <1>2, <1>5
<1>7. \A j \in 1..1 + files : g[j] = User
  BY <1>1, <1>2, <1>3, <1>5
<1>8. \A i \in 1..Len(h) - split : g[1 + files + i] = Restored(h[split + i])
  <2> SUFFICES ASSUME NEW i \in 1..Len(h) - split PROVE g[1 + files + i] = b[i]
    BY <1>4
  <2> QED BY <1>1, <1>2, <1>5
<1>9. ASSUME NEW i \in split + 1..Len(h) PROVE i + d \in DOMAIN g /\ g[i + d] = Restored(h[i])
  <2>1. i - split \in 1..Len(h) - split /\ 1 + files + (i - split) = i + d /\ split + (i - split) = i
    OBVIOUS
  <2>2. g[1 + files + (i - split)] = Restored(h[split + (i - split)])
    BY <1>8, <2>1
  <2>3. g[i + d] = Restored(h[i])
    BY <2>1, <2>2
  <2>4. i + d \in DOMAIN g
    BY <1>6
  <2> QED BY <2>3, <2>4
<1>10. ASSUME NEW j \in DOMAIN g, j > 1 + files PROVE j - d \in split + 1..Len(h) /\ g[j] = Restored(h[j - d])
  <2>1. j \in Int /\ j <= 1 + files + (Len(h) - split)
    BY <1>6
  <2>2. j - d \in split + 1..Len(h) /\ (j - d) + d = j
    BY <1>10, <2>1
  <2> QED BY <1>9, <2>2
<1>11. d \in Int /\ DOMAIN g = 1..Len(h) + d
  BY <1>6
<1> QED BY <1>7, <1>9, <1>10, <1>11 DEF Shifted

\* A result, and a message that makes calls, is kept as it is.
LEMMA RestoredKept ==
  ASSUME NEW m \in Messages
  PROVE  /\ m.kind = "result" <=> Restored(m).kind = "result"
         /\ m.kind \in {"result", "assistant"} => Restored(m) = m
         /\ Restored(m).kind = "assistant" => (m.kind = "assistant" \/ (m.kind = "cut" /\ Restored(m).calls = {}))
  BY DEF Restored, Message, User, Messages, Kinds

\* Compaction takes no result from its call if results stand behind their calls.
LEMMA CompactedOrder ==
  ASSUME NEW h \in Seq(Messages), NEW split \in Nat, split <= Len(h), NEW files \in Nat, InOrder(h)
  PROVE  /\ InOrder(Compacted(h, split, files))
         /\ ResultsOf(Compacted(h, split, files)) \subseteq ResultsOf(h)
         /\ CallsOf(Compacted(h, split, files)) \ ResultsOf(Compacted(h, split, files))
              \subseteq CallsOf(h) \ ResultsOf(h)
<1>a. PICK g : g = Compacted(h, split, files)
  OBVIOUS
<1>b. PICK d : d = 1 + files - split
  OBVIOUS
<1>1. /\ d \in Int /\ DOMAIN g = 1..Len(h) + d
      /\ \A j \in 1..1 + files : g[j] = User
      /\ \A i \in split + 1..Len(h) : i + d \in DOMAIN g /\ g[i + d] = Restored(h[i])
      /\ \A j \in DOMAIN g : j > 1 + files => j - d \in split + 1..Len(h) /\ g[j] = Restored(h[j - d])
  <2>1. Shifted(h, split, files, g, d)
    BY <1>a, <1>b, CompactedAt
  <2> QED BY <2>1 DEF Shifted
<1>2. User.kind = "user" /\ \A i \in DOMAIN h : h[i] \in Messages
  BY DEF User, Message
<1>3. ASSUME NEW j \in DOMAIN g, g[j].kind = "result"
      PROVE  j - d \in DOMAIN h /\ j - d > split /\ g[j] = h[j - d]
  <2>1. j > 1 + files
    BY <1>1, <1>2, <1>3
  <2>2. j - d \in split + 1..Len(h) /\ g[j] = Restored(h[j - d])
    BY <1>1, <2>1
  <2>3. j - d \in DOMAIN h
    BY <2>2
  <2>4. h[j - d].kind = "result"
    BY <1>2, <1>3, <2>2, <2>3, RestoredKept
  <2> QED BY <1>2, <2>2, <2>3, <2>4, RestoredKept
<1>4. ASSUME NEW i \in DOMAIN g, g[i].kind = "assistant", NEW c \in g[i].calls
      PROVE  i - d \in DOMAIN h /\ i - d > split /\ h[i - d].kind = "assistant" /\ c \in h[i - d].calls
  <2>1. i > 1 + files
    BY <1>1, <1>2, <1>4
  <2>2. i - d \in split + 1..Len(h) /\ g[i] = Restored(h[i - d])
    BY <1>1, <2>1
  <2>3. i - d \in DOMAIN h
    BY <2>2
  <2>4. h[i - d].kind = "assistant"
    BY <1>2, <1>4, <2>2, <2>3, RestoredKept
  <2>5. Restored(h[i - d]) = h[i - d]
    BY <1>2, <2>3, <2>4, RestoredKept
  <2> QED BY <1>4, <2>2, <2>3, <2>4, <2>5
<1>5. InOrder(g)
  <2> SUFFICES ASSUME NEW i \in DOMAIN g, NEW j \in DOMAIN g, g[i].kind = "assistant", g[j].kind = "result",
                      NEW c \in g[i].calls \cap g[j].calls
               PROVE  i < j
    BY DEF InOrder
  <2>1. i - d \in DOMAIN h /\ h[i - d].kind = "assistant" /\ c \in h[i - d].calls
    BY <1>4
  <2>2. j - d \in DOMAIN h /\ g[j] = h[j - d]
    BY <1>3
  <2>3. i - d < j - d
    BY <2>1, <2>2 DEF InOrder
  <2> QED BY <1>1, <2>3
<1>6. ASSUME NEW c \in ResultsOf(g) PROVE c \in ResultsOf(h)
  <2>1. PICK j \in DOMAIN g : g[j].kind = "result" /\ c \in g[j].calls
    BY InResults
  <2>2. j - d \in DOMAIN h /\ g[j] = h[j - d]
    BY <1>3, <2>1
  <2>3. h[j - d].kind = "result" /\ c \in h[j - d].calls
    BY <2>1, <2>2
  <2> QED BY <2>2, <2>3, InResults
<1>7. ASSUME NEW c \in CallsOf(g), c \notin ResultsOf(g) PROVE c \in CallsOf(h) \ ResultsOf(h)
  <2>1. PICK i \in DOMAIN g : g[i].kind = "assistant" /\ c \in g[i].calls
    BY InCalls
  <2>2. i - d \in DOMAIN h /\ i - d > split /\ h[i - d].kind = "assistant" /\ c \in h[i - d].calls
    BY <1>4, <2>1
  <2>3. c \in CallsOf(h)
    BY <2>2, InCalls
  <2>4. ASSUME c \in ResultsOf(h) PROVE FALSE
    <3>1. PICK j \in DOMAIN h : h[j].kind = "result" /\ c \in h[j].calls
      BY <2>4, InResults
    <3>2. i - d < j
      BY <2>2, <3>1 DEF InOrder
    <3>3. j \in split + 1..Len(h)
      BY <2>2, <3>2
    <3>4. j + d \in DOMAIN g /\ g[j + d] = Restored(h[j])
      BY <1>1, <3>3
    <3>5. Restored(h[j]) = h[j]
      BY <1>2, <3>1, RestoredKept
    <3>6. c \in ResultsOf(g)
      BY <3>1, <3>4, <3>5, InResults
    <3> QED BY <1>7, <3>6
  <2> QED BY <2>3, <2>4
<1> QED BY <1>a, <1>5, <1>6, <1>7

LEMMA CompactKeeps ==
  ASSUME TypeOK, UInv, NEW s \in Submits, NEW keep \in 2..4, NEW files \in 0..MaxFiles, CompactEnds(s, keep, files)
  PROVE  Fresh' /\ (~stale' => InOrder(history)') /\ UnansweredExplained'
<1>1. /\ UNCHANGED <<rounds, asked>> /\ pc[s] \in Running
      /\ \E l \in Running : pc' = [pc EXCEPT ![s] = l]
      /\ pc \in [Submits -> Labels]
  BY DEF CompactEnds, At, Await, answer, Running, TypeOK, Labels
<1>2. /\ stale' = (stale \/ history # copy[s]) /\ Len(copy[s]) >= 6 /\ copy[s] \in Seq(Messages)
      /\ stale \in BOOLEAN
  BY DEF CompactEnds, TypeOK
<1> SUFFICES ASSUME ~stale, history = copy[s]
             PROVE  Fresh' /\ InOrder(history)' /\ UnansweredExplained'
  BY <1>2 DEF Fresh, UnansweredExplained
<1> DEFINE h == copy[s]
<1>3. PICK k \in 0..Len(h) - keep : history' = Compacted(h, Split(h, k), files)
  BY DEF CompactEnds
<1>4. h \in Seq(Messages) /\ Len(h) \in Nat /\ Len(h) >= 6 /\ h = history
  BY <1>2
<1> HIDE DEF h
<1>5. Split(h, k) \in Nat /\ Split(h, k) <= Len(h) /\ files \in Nat
  <2>1. Len(h) - keep \in Nat /\ Len(h) - keep <= Len(h)
    BY <1>4
  <2>2. Split(h, k) \in Nat /\ Split(h, k) <= Len(h)
    BY <1>4, <2>1, SplitTyped
  <2>3. files \in Nat
    BY EngineAssumption
  <2> QED BY <2>2, <2>3
<1>6. InOrder(h)
  BY <1>4 DEF UInv
<1> DEFINE g == Compacted(h, Split(h, k), files)
<1>7. InOrder(g) /\ ResultsOf(g) \subseteq ResultsOf(h) /\ CallsOf(g) \ ResultsOf(g) \subseteq CallsOf(h) \ ResultsOf(h)
  BY <1>4, <1>5, <1>6, CompactedOrder
<1>8. history' = g
  BY <1>3
<1> HIDE DEF g
<1>9. InOrder(history)'
  BY <1>7, <1>8 DEF InOrder
<1>10. Fresh'
  <2> SUFFICES ASSUME NEW t \in Submits, pc'[t] \notin Ended, NEW n \in Nat, NEW i \in Nat,
                      Call(t, n, i) \in ResultsOf(history')
               PROVE  n < rounds'[t] \/ (n = rounds'[t] /\ i \in 1..asked'[t])
    BY DEF Fresh
  <2>1. Call(t, n, i) \in ResultsOf(history)
    BY <1>4, <1>7, <1>8, Zenon
  <2>2. pc[t] \notin Ended
    BY <1>1 DEF Running, Ended
  <2>3. n < rounds[t] \/ (n = rounds[t] /\ i \in 1..asked[t])
    BY <2>1, <2>2 DEF UInv, Fresh
  <2> QED BY <1>1, <2>3
<1>11. UnansweredExplained'
  <2> SUFFICES ASSUME NEW c \in CallsOf(history') \ ResultsOf(history')
               PROVE  \E t \in Submits : Open(t)' /\ c \in Asked(t)'
    BY DEF UnansweredExplained
  <2>1. c \in CallsOf(history) \ ResultsOf(history)
    BY <1>4, <1>7, <1>8, Zenon
  <2>2. PICK t \in Submits : Open(t) /\ c \in Asked(t)
    BY <2>1 DEF UInv, UnansweredExplained
  <2>3. Open(t)' /\ Asked(t)' = Asked(t)
    BY <1>1, <2>2 DEF Open, Asked, Running
  <2> QED BY <2>2, <2>3
<1> QED BY <1>9, <1>10, <1>11

LEMMA UInvInductive == TypeOK /\ UInv /\ [Next]_vars => UInv'
<1> SUFFICES ASSUME TypeOK, UInv, [Next]_vars PROVE UInv'
  OBVIOUS
<1>1. ASSUME NEW s \in Submits, Step(s) PROVE UInv'
  <2>1. Placed'
    BY <1>1, PlacedStep DEF UInv
  <2>2. CASE \E n \in 0..MaxCalls, why \in {"stop", "length"} : Answers(s, n, why)
    BY <2>1, <2>2, AnswersKeeps DEF UInv
  <2>3. CASE \E keep \in 2..4, files \in 0..MaxFiles : CompactEnds(s, keep, files)
    BY <2>1, <2>3, CompactKeeps DEF UInv
  <2>4. CASE /\ \A n \in 0..MaxCalls, why \in {"stop", "length"} : ~Answers(s, n, why)
             /\ \A keep \in 2..4, files \in 0..MaxFiles : ~CompactEnds(s, keep, files)
    <3>1. PICK q : Extends(s, q)
      BY <1>1, <2>4, StepExtends DEF UInv
    <3> QED BY <2>1, <3>1, ExtendsKeeps DEF UInv
  <2> QED BY <2>2, <2>3, <2>4
<1>2. ASSUME NEW s \in Submits, Begin(s) PROVE UInv'
  <2>1. /\ pc[s] = "new" /\ pc' = [pc EXCEPT ![s] = "prompt"] /\ pc \in [Submits -> Labels]
        /\ UNCHANGED <<history, rounds, asked, next, stale>>
    BY <1>2 DEF Begin, At, Await, locals, answer, TypeOK, Labels
  <2>2. Placed'
    BY <2>1 DEF UInv, Placed, Working, Left
  <2>3. Fresh'
    BY <2>1 DEF UInv, Fresh, Ended
  <2>4. (~stale' => InOrder(history)')
    BY <2>1 DEF UInv, InOrder
  <2>5. UnansweredExplained'
    <3> SUFFICES ASSUME ~stale, NEW c \in CallsOf(history) \ ResultsOf(history)
                 PROVE  \E t \in Submits : Open(t)' /\ c \in Asked(t)'
      BY <2>1 DEF UnansweredExplained
    <3>1. PICK t \in Submits : Open(t) /\ c \in Asked(t)
      BY DEF UInv, UnansweredExplained
    <3>2. Open(t)' /\ Asked(t)' = Asked(t)
      BY <2>1, <3>1 DEF Open, Asked, Running
    <3> QED BY <3>1, <3>2
  <2> QED BY <2>2, <2>3, <2>4, <2>5 DEF UInv
<1>3. CASE Clear
  <2>1. history' = <<>> /\ UNCHANGED <<pc, rounds, asked, next, stale>>
    BY <1>3 DEF Clear, locals, answer, past
  <2>2. Placed'
    BY <2>1 DEF UInv, Placed
  <2>3. Fresh' /\ UnansweredExplained'
    BY <2>1, EmptyParts DEF Fresh, UnansweredExplained
  <2>4. InOrder(history)'
    BY <2>1 DEF InOrder
  <2> QED BY <2>2, <2>3, <2>4 DEF UInv
<1>4. CASE UNCHANGED vars
  <2>1. UNCHANGED <<history, pc, rounds, asked, next, stale>>
    BY <1>4 DEF vars, locals, answer, past
  <2> QED BY <2>1 DEF UInv, Placed, Fresh, InOrder, UnansweredExplained, Open, Asked
<1> QED BY <1>1, <1>2, <1>3, <1>4 DEF Next

\* A transcript holds no calls and no results.
LEMMA InitTexts ==
  ASSUME Init
  PROVE  /\ history \in Seq(Messages) /\ CallsOf(history) = {} /\ ResultsOf(history) = {}
         /\ \A i \in DOMAIN history : history[i].kind # "result" /\ history[i].calls = {}
<1>1. history \in Seq({User, Message("assistant", {})})
  BY TranscriptAssumption DEF Init
<1>2. User \in Messages /\ Message("assistant", {}) \in Messages
  BY MessagesTyped DEF Kinds
<1>3. \A i \in DOMAIN history : history[i].kind # "result" /\ history[i].calls = {}
  BY <1>1 DEF User, Message
<1>4. CallsOf(history) = {} /\ ResultsOf(history) = {}
  BY <1>3, InCalls, InResults
<1> QED BY <1>1, <1>2, <1>3, <1>4

LEMMA InitUInv == Init => UInv
<1> SUFFICES ASSUME Init PROVE UInv
  OBVIOUS
<1>1. Placed
  BY DEF Init, Placed, Working, Left
<1>2. Fresh /\ UnansweredExplained /\ InOrder(history)
  BY InitTexts DEF Fresh, UnansweredExplained, InOrder
<1> QED BY <1>1, <1>2 DEF UInv

\* A call without a result is one that a submission works on or has left: no interleaving of
\* submissions, and no compaction of a history that did not grow meanwhile, leaves another.
THEOREM UnansweredSafe == Spec => []UnansweredExplained
<1>1. UInv => UnansweredExplained
  BY DEF UInv
<1> QED BY <1>1, TypeCorrect, InitUInv, UInvInductive, PTL DEF Spec

-----------------------------------------------------------------------------
(* Pairs *)

\* The one result of a call of message i.
OneResult(h, i, c) ==
  \E j \in DOMAIN h : j > i /\ h[j] = Result(c) /\ \A k \in DOMAIN h : h[k] = Result(c) => k = j

\* A result answers one call.
Plain(h) == \A j \in DOMAIN h : h[j].kind = "result" => \E c \in CallIds : h[j] = Result(c)

\* A result belongs to a call of the assistant message nearest before it.
Belongs(h, i, j) ==
  /\ i < j /\ h[i].kind = "assistant" /\ h[j].calls \subseteq h[i].calls
  /\ \A m \in DOMAIN h : i < m /\ m < j => h[m].kind \notin {"assistant", "cut"}
Behind(h) == \A j \in DOMAIN h : h[j].kind = "result" => \E i \in DOMAIN h : Belongs(h, i, j)

\* Every call but those of T has its result; those have none.
Served(h, T) == \A i \in DOMAIN h : h[i].kind = "assistant" => \A c \in h[i].calls \ T : OneResult(h, i, c)
Unmade(h, T) == T \cap ResultsOf(h) = {}

PairedBut(h, T) == Plain(h) /\ Behind(h) /\ Served(h, T) /\ Unmade(h, T)

\* The newest answer makes the calls of C.
Newest(h, C) ==
  \E a \in DOMAIN h : /\ h[a] = Message("assistant", C)
                      /\ \A k \in DOMAIN h : k > a => h[k].kind \in {"note", "result"}

\* The calls of an answer that have not been come to.
Todo(s) == {Call(s, rounds[s], i) : i \in next[s]..asked[s]}

PairedAt(s) == PairedBut(history, Todo(s)) /\ (asked[s] > 0 => Newest(history, Asked(s)))

AtMostOne == \A s, t \in Submits : pc[s] \in Running /\ pc[t] \in Running => s = t

Idle == \A s \in Submits : pc[s] \notin Running

\* One submission at a time is at work on a history in which only the calls it has still to
\* come to have no result; between two submissions every call has one.
PInv ==
  Undisturbed =>
    /\ AtMostOne
    /\ \A s \in Submits : pc[s] \in Running => PairedAt(s)
    /\ Idle => PairedBut(history, {})

\* A message behind a history.
Added(h, g, m) ==
  /\ DOMAIN g = 1..Len(h) + 1 /\ g[Len(h) + 1] = m
  /\ \A i \in DOMAIN h : i \in DOMAIN g /\ i <= Len(h) /\ g[i] = h[i]
  /\ \A i \in DOMAIN g : i \in DOMAIN h \/ i = Len(h) + 1
  /\ DOMAIN h \subseteq Int /\ DOMAIN g \subseteq Int /\ Len(h) \in Int

LEMMA AddedAt ==
  ASSUME NEW h \in Seq(Messages), NEW m \in Messages
  PROVE  Added(h, Append(h, m), m)
  BY DEF Added

LEMMA ResultShape ==
  /\ \A c : Result(c).kind = "result" /\ Result(c).calls = {c}
  /\ \A c, e : Result(c) = Result(e) => c = e
<1>1. \A c : Result(c).kind = "result" /\ Result(c).calls = {c}
  BY DEF Result, Message
<1> QED BY <1>1

\* What is no result leaves every result where it is.
LEMMA AddedKeepsOthers ==
  ASSUME NEW h, NEW g, NEW m, Added(h, g, m), m.kind # "result"
  PROVE  /\ Plain(h) => Plain(g)
         /\ Behind(h) => Behind(g)
         /\ \A i \in DOMAIN h : \A c : OneResult(h, i, c) => OneResult(g, i, c)
         /\ ResultsOf(g) = ResultsOf(h)
<1>1. ASSUME NEW j \in DOMAIN g, g[j].kind = "result" PROVE j \in DOMAIN h /\ g[j] = h[j]
  BY <1>1 DEF Added
<1>2. ASSUME Plain(h) PROVE Plain(g)
  BY <1>1, <1>2 DEF Plain
<1>3. ASSUME Behind(h) PROVE Behind(g)
  <2> SUFFICES ASSUME NEW j \in DOMAIN g, g[j].kind = "result" PROVE \E i \in DOMAIN g : Belongs(g, i, j)
    BY DEF Behind
  <2>1. j \in DOMAIN h /\ g[j] = h[j]
    BY <1>1
  <2>2. PICK i \in DOMAIN h : Belongs(h, i, j)
    BY <1>3, <2>1 DEF Behind
  <2>3. i \in DOMAIN g /\ g[i] = h[i]
    BY DEF Added
  <2>4. ASSUME NEW k \in DOMAIN g, i < k, k < j PROVE g[k].kind \notin {"assistant", "cut"}
    <3>1. k \in DOMAIN h /\ g[k] = h[k]
      BY <2>1, <2>4 DEF Added
    <3> QED BY <2>2, <2>4, <3>1 DEF Belongs
  <2>5. Belongs(g, i, j)
    BY <2>1, <2>2, <2>3, <2>4 DEF Belongs
  <2> QED BY <2>3, <2>5
<1>4. ASSUME NEW i \in DOMAIN h, NEW c, OneResult(h, i, c) PROVE OneResult(g, i, c)
  <2>1. PICK j \in DOMAIN h : j > i /\ h[j] = Result(c) /\ \A k \in DOMAIN h : h[k] = Result(c) => k = j
    BY <1>4 DEF OneResult
  <2>2. j \in DOMAIN g /\ g[j] = Result(c)
    BY <2>1 DEF Added
  <2>3. ASSUME NEW k \in DOMAIN g, g[k] = Result(c) PROVE k = j
    <3>1. g[k].kind = "result"
      BY <2>3, ResultShape
    <3> QED BY <1>1, <2>1, <2>3, <3>1
  <2> QED BY <2>1, <2>2, <2>3 DEF OneResult
<1>5. ASSUME NEW c PROVE c \in ResultsOf(g) <=> c \in ResultsOf(h)
  <2>1. ASSUME c \in ResultsOf(g) PROVE c \in ResultsOf(h)
    <3>1. PICK j \in DOMAIN g : g[j].kind = "result" /\ c \in g[j].calls
      BY <2>1, InResults
    <3>2. j \in DOMAIN h /\ g[j] = h[j]
      BY <1>1, <3>1
    <3> QED BY <3>1, <3>2, InResults
  <2>2. ASSUME c \in ResultsOf(h) PROVE c \in ResultsOf(g)
    <3>1. PICK j \in DOMAIN h : h[j].kind = "result" /\ c \in h[j].calls
      BY <2>2, InResults
    <3>2. j \in DOMAIN g /\ g[j] = h[j]
      BY DEF Added
    <3> QED BY <3>1, <3>2, InResults
  <2> QED BY <2>1, <2>2
<1>6. ResultsOf(g) = ResultsOf(h)
  BY <1>5
<1> QED BY <1>2, <1>3, <1>4, <1>6

\* A text, of a user or a hook.
LEMMA TextKeeps ==
  ASSUME NEW h \in Seq(Messages), NEW T, PairedBut(h, T), NEW m \in {User, Note}
  PROVE  /\ Append(h, m) \in Seq(Messages)
         /\ PairedBut(Append(h, m), T)
         /\ \A C : Newest(h, C) /\ m = Note => Newest(Append(h, m), C)
<1>0. m \in Messages /\ m.kind \in {"user", "note"} /\ (m = Note => m.kind = "note")
  <2>1. User.kind = "user" /\ Note.kind = "note"
    BY DEF User, Note, Message
  <2> QED BY <2>1, MessagesTyped
<1>a. PICK g : g = Append(h, m)
  OBVIOUS
<1>1. g \in Seq(Messages)
  BY <1>0, <1>a
<1>2. Added(h, g, m)
  BY <1>0, <1>a, AddedAt
<1>3. Plain(g) /\ Behind(g) /\ ResultsOf(g) = ResultsOf(h)
  BY <1>0, <1>2, AddedKeepsOthers DEF PairedBut
<1>4. Served(g, T)
  <2> SUFFICES ASSUME NEW i \in DOMAIN g, g[i].kind = "assistant", NEW c \in g[i].calls \ T PROVE OneResult(g, i, c)
    BY DEF Served
  <2>1. i \in DOMAIN h /\ g[i] = h[i]
    BY <1>0, <1>2 DEF Added
  <2>2. OneResult(h, i, c)
    BY <2>1 DEF PairedBut, Served
  <2> QED BY <1>0, <1>2, <2>1, <2>2, AddedKeepsOthers
<1>5. PairedBut(g, T)
  BY <1>3, <1>4, Zenon DEF PairedBut, Unmade
<1>6. ASSUME NEW C, Newest(h, C), m = Note PROVE Newest(g, C)
  <2>1. PICK a \in DOMAIN h : /\ h[a] = Message("assistant", C)
                              /\ \A k \in DOMAIN h : k > a => h[k].kind \in {"note", "result"}
    BY <1>6 DEF Newest
  <2>2. a \in DOMAIN g /\ g[a] = Message("assistant", C)
    BY <1>2, <2>1 DEF Added
  <2>3. ASSUME NEW k \in DOMAIN g, k > a PROVE g[k].kind \in {"note", "result"}
    BY <1>0, <1>2, <1>6, <2>1, <2>3 DEF Added
  <2> QED BY <2>2, <2>3 DEF Newest
<1> QED BY <1>1, <1>5, <1>6, <1>a

\* The result of a call that had none.
LEMMA ResultKeeps ==
  ASSUME NEW h \in Seq(Messages), NEW T, PairedBut(h, T), NEW C, Newest(h, C), NEW c \in C \cap T, c \in CallIds
  PROVE  /\ Append(h, Result(c)) \in Seq(Messages)
         /\ PairedBut(Append(h, Result(c)), T \ {c})
         /\ Newest(Append(h, Result(c)), C)
<1>0. Result(c) \in Messages /\ Result(c).kind = "result" /\ Result(c).calls = {c}
  BY MessagesTyped, ResultShape
<1>a. PICK m : m = Result(c)
  OBVIOUS
<1>b. PICK g : g = Append(h, m)
  OBVIOUS
<1>1. g \in Seq(Messages)
  BY <1>0, <1>a, <1>b
<1>2. Added(h, g, m)
  BY <1>0, <1>a, <1>b, AddedAt
<1>3. PICK a \in DOMAIN h : /\ h[a] = Message("assistant", C)
                            /\ \A k \in DOMAIN h : k > a => h[k].kind \in {"note", "result"}
  BY DEF Newest
<1>4. a \in DOMAIN g /\ g[a] = h[a] /\ a < Len(h) + 1 /\ h[a].kind = "assistant" /\ h[a].calls = C
  BY <1>2, <1>3 DEF Added, Message
<1>5. \A k \in DOMAIN g : k > a => g[k].kind \in {"note", "result"}
  BY <1>0, <1>2, <1>3, <1>a DEF Added
<1>6. Newest(g, C)
  BY <1>3, <1>4, <1>5 DEF Newest
<1>7. Plain(g)
  BY <1>2, <1>a DEF Plain, PairedBut, Added
<1>8. Behind(g)
  <2> SUFFICES ASSUME NEW j \in DOMAIN g, g[j].kind = "result" PROVE \E i \in DOMAIN g : Belongs(g, i, j)
    BY DEF Behind
  <2>1. CASE j \in DOMAIN h
    <3>1. g[j] = h[j] /\ j <= Len(h)
      BY <1>2, <2>1 DEF Added
    <3>2. PICK i \in DOMAIN h : Belongs(h, i, j)
      BY <2>1, <3>1 DEF PairedBut, Behind
    <3>3. i \in DOMAIN g /\ g[i] = h[i]
      BY <1>2 DEF Added
    <3>4. ASSUME NEW k \in DOMAIN g, i < k, k < j PROVE g[k].kind \notin {"assistant", "cut"}
      <4>1. k \in DOMAIN h /\ g[k] = h[k]
        BY <1>2, <2>1, <3>1, <3>4 DEF Added
      <4> QED BY <3>2, <3>4, <4>1 DEF Belongs
    <3>5. Belongs(g, i, j)
      BY <3>1, <3>2, <3>3, <3>4 DEF Belongs
    <3> QED BY <3>3, <3>5
  <2>2. CASE j = Len(h) + 1
    <3>1. g[j].calls = {c}
      BY <1>0, <1>2, <1>a, <2>2 DEF Added
    <3>2. Belongs(g, a, j)
      BY <1>4, <1>5, <2>2, <3>1 DEF Belongs
    <3> QED BY <1>4, <3>2
  <2> QED BY <1>2, <2>1, <2>2 DEF Added
<1>9. \A k \in DOMAIN h : h[k] # Result(c)
  <2> SUFFICES ASSUME NEW k \in DOMAIN h, h[k] = Result(c) PROVE FALSE
    OBVIOUS
  <2>1. c \in ResultsOf(h)
    BY <1>0, InResults
  <2> QED BY <2>1 DEF PairedBut, Unmade
<1>10. Served(g, T \ {c})
  <2> SUFFICES ASSUME NEW i \in DOMAIN g, g[i].kind = "assistant", NEW e \in g[i].calls \ (T \ {c}) PROVE OneResult(g, i, e)
    BY DEF Served
  <2>1. i \in DOMAIN h /\ g[i] = h[i] /\ i < Len(h) + 1
    BY <1>0, <1>2, <1>a DEF Added
  <2>2. CASE e = c
    <3>1. Len(h) + 1 \in DOMAIN g /\ g[Len(h) + 1] = Result(c)
      BY <1>2, <1>a DEF Added
    <3>2. \A k \in DOMAIN g : g[k] = Result(c) => k = Len(h) + 1
      BY <1>2, <1>9 DEF Added
    <3> QED BY <2>1, <2>2, <3>1, <3>2 DEF OneResult
  <2>3. CASE e # c
    <3>1. OneResult(h, i, e)
      BY <2>1, <2>3 DEF PairedBut, Served
    <3>2. PICK j \in DOMAIN h : j > i /\ h[j] = Result(e) /\ \A k \in DOMAIN h : h[k] = Result(e) => k = j
      BY <3>1 DEF OneResult
    <3>3. j \in DOMAIN g /\ g[j] = Result(e)
      BY <1>2, <3>2 DEF Added
    <3>4. m # Result(e)
      BY <1>a, <2>3, ResultShape
    <3>5. \A k \in DOMAIN g : g[k] = Result(e) => k = j
      BY <1>2, <3>2, <3>4 DEF Added
    <3> QED BY <3>2, <3>3, <3>5 DEF OneResult
  <2> QED BY <2>2, <2>3
<1>11. Unmade(g, T \ {c})
  <2> SUFFICES ASSUME NEW e \in T \ {c}, e \in ResultsOf(g) PROVE FALSE
    BY DEF Unmade
  <2>1. PICK j \in DOMAIN g : g[j].kind = "result" /\ e \in g[j].calls
    BY InResults
  <2>2. j \in DOMAIN h /\ g[j] = h[j]
    BY <1>0, <1>2, <1>a, <2>1 DEF Added
  <2>3. e \in ResultsOf(h)
    BY <2>1, <2>2, InResults
  <2> QED BY <2>3 DEF PairedBut, Unmade
<1>12. PairedBut(g, T \ {c})
  BY <1>7, <1>8, <1>10, <1>11 DEF PairedBut
<1> QED BY <1>1, <1>6, <1>12, <1>a, <1>b

\* An answer, whose calls have no results.
LEMMA AnswerKeeps ==
  ASSUME NEW h \in Seq(Messages), PairedBut(h, {}), NEW C, NEW m \in Messages, C \cap ResultsOf(h) = {},
         m.kind # "result", m.kind = "assistant" => m.calls = C
  PROVE  PairedBut(Append(h, m), C)
<1>b. PICK g : g = Append(h, m)
  OBVIOUS
<1>2. Added(h, g, m)
  BY <1>b, AddedAt
<1>3. Plain(g) /\ Behind(g) /\ ResultsOf(g) = ResultsOf(h)
  BY <1>2, AddedKeepsOthers DEF PairedBut
<1>4. Served(g, C)
  <2> SUFFICES ASSUME NEW i \in DOMAIN g, g[i].kind = "assistant", NEW c \in g[i].calls \ C PROVE OneResult(g, i, c)
    BY DEF Served
  <2>1. i \in DOMAIN h /\ g[i] = h[i]
    BY <1>2 DEF Added
  <2>2. OneResult(h, i, c)
    BY <2>1 DEF PairedBut, Served
  <2> QED BY <1>2, <2>1, <2>2, AddedKeepsOthers
<1>5. PairedBut(g, C)
  BY <1>3, <1>4, Zenon DEF PairedBut, Unmade
<1> QED BY <1>5, <1>b

LEMMA AnswerNewest ==
  ASSUME NEW h \in Seq(Messages), NEW C, NEW m \in Messages, m = Message("assistant", C)
  PROVE  Newest(Append(h, m), C)
<1>1. Added(h, Append(h, m), m)
  BY AddedAt
<1>2. PICK g : g = Append(h, m)
  OBVIOUS
<1>3. Added(h, g, m)
  BY <1>1, <1>2
<1>4. Newest(g, C)
  BY <1>3 DEF Newest, Added
<1> QED BY <1>2, <1>4

\* What compaction keeps is paired if it did not sever a result from its call.
LEMMA CompactedPaired ==
  ASSUME NEW h \in Seq(Messages), PairedBut(h, {}), NEW files \in Nat, NEW p \in Nat, p < Len(h),
         NEW k \in 0..p, WalksTo(h, p, k), ~Severs(h, k), Split(h, k) \in Nat, Split(h, k) <= Len(h)
  PROVE  PairedBut(Compacted(h, Split(h, k), files), {})
<1>s. PICK split : split = Split(h, k)
  OBVIOUS
<1>a. PICK g : g = Compacted(h, split, files)
  OBVIOUS
<1>b. PICK d : d = 1 + files - split
  OBVIOUS
<1>0. split \in Nat /\ split <= Len(h)
  BY <1>s
<1>c. DOMAIN h = 1..Len(h) /\ Len(h) \in Nat
  OBVIOUS
<1>1. /\ d \in Int /\ DOMAIN g = 1..Len(h) + d
      /\ \A j \in 1..1 + files : g[j] = User
      /\ \A i \in split + 1..Len(h) : i + d \in DOMAIN g /\ g[i + d] = Restored(h[i])
      /\ \A j \in DOMAIN g : j > 1 + files => j - d \in split + 1..Len(h) /\ g[j] = Restored(h[j - d])
  <2>1. Shifted(h, split, files, g, d)
    BY <1>0, <1>a, <1>b, CompactedAt
  <2> QED BY <2>1 DEF Shifted
<1>2. User.kind = "user" /\ \A i \in DOMAIN h : h[i] \in Messages
  BY DEF User, Message
<1>3. ASSUME NEW j \in DOMAIN g, g[j].kind \in {"result", "assistant"}
      PROVE  /\ j - d \in DOMAIN h /\ j - d > split /\ (j - d) + d = j
             /\ g[j] = Restored(h[j - d])
  <2>1. j > 1 + files
    BY <1>1, <1>2, <1>3
  <2>2. j - d \in split + 1..Len(h) /\ g[j] = Restored(h[j - d])
    BY <1>1, <2>1
  <2>3. j \in Int
    BY <1>1
  <2> QED BY <1>0, <1>1, <1>c, <2>2, <2>3
<1>4. ASSUME NEW j \in DOMAIN g, g[j].kind = "result" PROVE g[j] = h[j - d]
  BY <1>2, <1>3, <1>4, RestoredKept
<1>5. Plain(g)
  BY <1>3, <1>4 DEF PairedBut, Plain
<1>6. ASSUME NEW i \in DOMAIN h, NEW j \in DOMAIN h, Belongs(h, i, j), h[j].kind = "result", j > split PROVE i > split
  <2> SUFFICES ASSUME i <= split PROVE FALSE
    BY <1>0, <1>c
  <2>1. PICK c \in CallIds : h[j] = Result(c)
    BY <1>6 DEF PairedBut, Plain
  <2>2. c \in h[i].calls \cap h[j].calls
    BY <1>6, <2>1, ResultShape DEF Belongs
  <2>3. i \in 1..split /\ j \in split + 1..Len(h)
    BY <1>0, <1>6
  <2>4. ~(k <= 2) /\ h[k + 1].kind \notin {"note", "user"}
    BY <1>s, <2>2, <2>3 DEF Severs
  <2>5. split = k /\ k > 0
    BY <1>s, <2>4 DEF Split
  <2>6. h[k + 1].kind # "result"
    BY <2>5 DEF WalksTo, StopsAt
  <2>7. k + 1 \in DOMAIN h
    OBVIOUS
  <2>8. h[k + 1].kind \in {"assistant", "cut"}
    BY <1>2, <2>4, <2>6, <2>7 DEF Messages, Kinds
  <2>9. i < k + 1 /\ k + 1 < j
    BY <1>6, <2>3, <2>5, <2>6
  <2> QED BY <1>6, <2>7, <2>8, <2>9 DEF Belongs
<1>7. Behind(g)
  <2> SUFFICES ASSUME NEW j \in DOMAIN g, g[j].kind = "result" PROVE \E i \in DOMAIN g : Belongs(g, i, j)
    BY DEF Behind
  <2>1. j - d \in DOMAIN h /\ j - d > split /\ g[j] = h[j - d]
    BY <1>3, <1>4
  <2>2. PICK i \in DOMAIN h : Belongs(h, i, j - d)
    BY <2>1 DEF PairedBut, Behind
  <2>3. i > split
    BY <1>6, <2>1, <2>2
  <2>4. i + d \in DOMAIN g /\ g[i + d] = Restored(h[i])
    BY <1>0, <1>1, <2>3
  <2>5. g[i + d] = h[i]
    BY <1>2, <2>2, <2>4, RestoredKept DEF Belongs
  <2>6. ASSUME NEW e \in DOMAIN g, i + d < e, e < j PROVE g[e].kind \notin {"assistant", "cut"}
    <3>1. e > 1 + files
      <4>1. e \in Int /\ i \in Int
        BY <1>1, <1>c
      <4> QED BY <1>0, <1>b, <2>3, <2>6, <4>1
    <3>2. e - d \in DOMAIN h /\ g[e] = Restored(h[e - d])
      BY <1>0, <1>1, <3>1
    <3>3. i < e - d /\ e - d < j - d
      BY <1>1, <2>6
    <3>4. h[e - d].kind \notin {"assistant", "cut"}
      BY <2>2, <3>2, <3>3 DEF Belongs
    <3>5. Restored(h[e - d]).kind \notin {"assistant", "cut"}
      BY <3>4 DEF Restored, User, Message
    <3> QED BY <3>2, <3>5
  <2>7. Belongs(g, i + d, j)
    BY <1>1, <2>1, <2>2, <2>4, <2>5, <2>6 DEF Belongs
  <2> QED BY <2>4, <2>7
<1>8. Served(g, {})
  <2> SUFFICES ASSUME NEW i \in DOMAIN g, g[i].kind = "assistant", NEW c \in g[i].calls PROVE OneResult(g, i, c)
    BY DEF Served
  <2>1. i - d \in DOMAIN h /\ i - d > split /\ g[i] = Restored(h[i - d])
    BY <1>3
  <2>2. h[i - d].kind = "assistant"
    BY <1>2, <2>1, RestoredKept
  <2>3. g[i] = h[i - d]
    BY <1>2, <2>1, <2>2, RestoredKept
  <2>4. OneResult(h, i - d, c)
    BY <2>1, <2>2, <2>3 DEF PairedBut, Served
  <2>5. PICK j \in DOMAIN h : j > i - d /\ h[j] = Result(c) /\ \A e \in DOMAIN h : h[e] = Result(c) => e = j
    BY <2>4 DEF OneResult
  <2>6. j \in split + 1..Len(h)
    <3>1. i - d \in Int /\ j \in Int /\ j <= Len(h)
      BY <1>c, <2>1
    <3> QED BY <1>0, <2>1, <2>5, <3>1
  <2>7. h[j].kind = "result"
    BY <2>5, ResultShape
  <2>8. j + d \in DOMAIN g /\ g[j + d] = h[j]
    BY <1>1, <1>2, <2>6, <2>7, RestoredKept
  <2>9. ASSUME NEW e \in DOMAIN g, g[e] = Result(c) PROVE e = j + d
    <3>1. g[e].kind = "result"
      BY <2>9, ResultShape
    <3>2. e - d \in DOMAIN h /\ g[e] = h[e - d]
      BY <1>3, <1>4, <3>1
    <3>3. e - d = j
      BY <2>5, <2>9, <3>2
    <3> QED BY <1>1, <3>3
  <2>10. j + d > i
    BY <1>1, <2>5
  <2> QED BY <2>5, <2>8, <2>9, <2>10 DEF OneResult
<1>9. PairedBut(g, {})
  BY <1>5, <1>7, <1>8 DEF PairedBut, Unmade
<1> QED BY <1>9, <1>a, <1>s

\* What a step of s does to what disturbs.
Flags(s) ==
  /\ pc[s] \in Running /\ overlapped' = overlapped
  /\ (severed => severed') /\ (stale => stale')
  /\ \E l \in Running \cup Ended : pc' = [pc EXCEPT ![s] = l]
  /\ \A t \in Submits \ {s} : asked'[t] = asked[t]

LEMMA EndAsked ==
  ASSUME TypeOK, NEW s \in Submits, NEW l \in Ended, End(s, l)
  PROVE  /\ pc' = [pc EXCEPT ![s] = l]
         /\ \A t \in Submits \ {s} : asked'[t] = asked[t]
<1>1. CASE l = "ended"
  BY <1>1 DEF End, Await, TypeOK
<1>2. CASE l # "ended"
  BY <1>2 DEF End, Await
<1> QED BY <1>1, <1>2

LEMMA StepFlags ==
  ASSUME TypeOK, NEW s \in Submits, Step(s)
  PROVE  Flags(s)
<1> USE DEF Flags, past, answer, locals
<1>0. "ended" \in Ended /\ "aborted" \in Ended /\ "broken" \in Ended
  BY DEF Ended
<1>1. CASE RoundsUsedUp(s) \/ BudgetStop(s) \/ CallFails(s) \/ Done(s)
  BY <1>0, <1>1, EndAsked DEF RoundsUsedUp, BudgetStop, CallFails, Done, At, Running
<1>2. CASE Breaks(s)
  BY <1>0, <1>2, EndAsked DEF Breaks, Running
<1>3. CASE Prompt(s) \/ AutoCompact(s) \/ NoCompact(s)
  BY <1>3 DEF Prompt, AutoCompact, NoCompact, At, Keep, Await, Running
<1>4. ASSUME NEW keep \in 2..4, NEW files \in 0..MaxFiles, CompactEnds(s, keep, files) PROVE Flags(s)
  <2>1. /\ pc[s] \in {"compact", "recompact"} /\ asked' = asked /\ overlapped' = overlapped
        /\ pc' = [pc EXCEPT ![s] = "budget"] \/ pc' = [pc EXCEPT ![s] = "top"]
    BY <1>4 DEF CompactEnds, At, Await
  <2>2. (severed => severed') /\ (stale => stale')
    BY <1>4 DEF CompactEnds
  <2> QED BY <2>1, <2>2 DEF Running
<1>5. CASE CompactFails(s)
  <2>1. CASE End(s, "ended")
    BY <1>0, <1>5, <2>1, EndAsked DEF CompactFails, At, Running
  <2>2. CASE Await(s, "budget") /\ UNCHANGED answer
    BY <1>5, <2>2 DEF CompactFails, At, Await, Running
  <2> QED BY <1>5, <2>1, <2>2 DEF CompactFails
<1>6. CASE CallModel(s) \/ Overflow(s) \/ Recompact(s)
  BY <1>6 DEF CallModel, Overflow, Recompact, At, Await, Running
<1>7. ASSUME NEW n \in 0..MaxCalls, NEW why \in {"stop", "length"}, Answers(s, n, why) PROVE Flags(s)
  BY <1>7 DEF Answers, At, Await, Running, TypeOK
<1>8. CASE Continue(s) \/ UseTools(s) \/ NoneDeferred(s) \/ Deferred(s)
  BY <1>8 DEF Continue, UseTools, NoneDeferred, Deferred, At, Keep, Await, Running
<1>9. CASE Invalid(s)
  BY <1>9 DEF Invalid, Pending, Resolve, Proceed, At, Keep, Running
<1>10. ASSUME NEW r \in Reads, Reread(s, r) PROVE Flags(s)
  <2>1. pc[s] \in Running /\ UNCHANGED past
    BY <1>10 DEF Reread, Pending, Resolve, At, Running
  <2>2. CASE End(s, "aborted")
    BY <1>0, <2>1, <2>2, EndAsked
  <2>3. CASE Keep(s, "tools") /\ Proceed(s)
    BY <2>1, <2>3 DEF Proceed, Keep, Running
  <2> QED BY <1>10, <2>2, <2>3 DEF Reread
<1>11. ASSUME NEW new, RunTool(s, new) PROVE Flags(s)
  BY <1>11 DEF RunTool, Pending, At, Await, Running
<1>12. CASE ToolEnds(s)
  BY <1>12 DEF ToolEnds, Proceed, At, Await, Running
<1>13. CASE RoundEnds(s)
  BY <1>13 DEF RoundEnds, At, Keep, Running, TypeOK
<1> HIDE DEF Flags
<1> QED BY <1>1, <1>2, <1>3, <1>4, <1>5, <1>6, <1>7, <1>8, <1>9, <1>10, <1>11, <1>12, <1>13
  DEF Step

LEMMA NoTodo ==
  ASSUME TypeOK, Placed, NEW s \in Submits, asked[s] < next[s]
  PROVE  Todo(s) = {}
<1>1. asked[s] \in Nat /\ next[s] \in Nat
  BY DEF TypeOK
<1> QED BY <1>1 DEF Todo

\* The net finds every call answered behind the newest user message.
LEMMA NetIdle ==
  ASSUME TypeOK, Placed, NEW s \in Submits, RoundEnds(s), PairedAt(s)
  PROVE  history' = history
<1>1. pc[s] = "net" /\ next[s] > asked[s] /\ asked[s] \in Nat /\ next[s] \in Nat /\ history \in Seq(Messages)
  BY DEF RoundEnds, At, Placed, TypeOK
<1>2. Todo(s) = {}
  BY <1>1, NoTodo
<1>3. ASSUME NEW c \in Asked(s) PROVE c \in Resolved(history)
  <2>1. asked[s] > 0
    BY <1>1, <1>3 DEF Asked
  <2>2. PICK a \in DOMAIN history :
          /\ history[a] = Message("assistant", Asked(s))
          /\ \A k \in DOMAIN history : k > a => history[k].kind \in {"note", "result"}
    BY <2>1 DEF PairedAt, Newest
  <2>3. history[a].kind = "assistant" /\ history[a].calls = Asked(s)
    BY <2>2 DEF Message
  <2>4. OneResult(history, a, c)
    BY <1>2, <2>2, <2>3 DEF PairedAt, PairedBut, Served
  <2>5. PICK j \in DOMAIN history : j > a /\ history[j] = Result(c)
    BY <2>4 DEF OneResult
  <2>6. history[j].kind = "result" /\ c \in history[j].calls
    BY <2>5, ResultShape
  <2>7. \A k \in DOMAIN history : k > j => history[k].kind # "user"
    <3> SUFFICES ASSUME NEW k \in DOMAIN history, k > j PROVE history[k].kind # "user"
      OBVIOUS
    <3>1. k > a
      BY <1>1, <2>5
    <3> QED BY <2>2, <3>1
  <2> QED BY <2>6, <2>7 DEF Resolved
<1>4. Unresolved(s) = {}
  BY <1>3 DEF Unresolved
<1>5. PICK n \in 0..asked[s] : \E order \in [1..n -> Unresolved(s)] :
        history' = history \o [i \in 1..n |-> Result(order[i])]
  BY DEF RoundEnds
<1>6. PICK order \in [1..n -> Unresolved(s)] : history' = history \o [i \in 1..n |-> Result(order[i])]
  BY <1>5
<1>7. n = 0
  <2>1. \A i \in 1..n : order[i] \in {}
    BY <1>4
  <2> QED BY <1>1, <2>1
<1>8. history' = history \o <<>>
  <2>1. [i \in 1..n |-> Result(order[i])] = <<>>
    BY <1>7
  <2> QED BY <1>6, <2>1
<1> QED BY <1>1, <1>8

\* A step of s keeps the history paired but for what s has still to do.
LEMMA PairedStep ==
  ASSUME TypeOK, Placed, Placed', Fresh, Undisturbed, Undisturbed', NEW s \in Submits, Step(s), PairedAt(s)
  PROVE  PairedAt(s)'
<1> USE DEF answer, locals, past
<1>a. /\ history \in Seq(Messages) /\ PairedBut(history, Todo(s)) /\ ~stale /\ ~stale' /\ ~severed'
      /\ pc \in [Submits -> Labels] /\ asked \in [Submits -> Nat] /\ next \in [Submits -> Nat]
      /\ rounds \in [Submits -> Nat] /\ asked[s] \in Nat /\ next[s] \in Nat /\ next[s] >= 1
      /\ (asked[s] > 0 => Newest(history, Asked(s)))
  BY DEF TypeOK, PairedAt, Undisturbed, Labels, Placed
<1>b. ASSUME asked[s] = 0 PROVE PairedBut(history, {}) /\ Todo(s) = {}
  <2>1. asked[s] < next[s]
    BY <1>a, <1>b
  <2>2. Todo(s) = {}
    BY <2>1, NoTodo
  <2> QED BY <1>a, <2>2, Zenon
<1>g. history \in Seq(Messages)
  BY <1>a
<1>c. ASSUME history' = history, UNCHANGED <<rounds, asked, next>> PROVE PairedAt(s)'
  <2>1. Todo(s)' = Todo(s) /\ Asked(s)' = Asked(s)
    BY <1>c DEF Todo, Asked
  <2> QED BY <1>a, <1>c, <2>1, Zenon DEF PairedAt
<1>d. ASSUME PairedBut(history', {}), asked'[s] = 0, next'[s] >= 1, next'[s] \in Nat PROVE PairedAt(s)'
  <2>1. Todo(s)' = {}
    BY <1>d DEF Todo
  <2>2. ~(asked'[s] > 0)
    BY <1>d
  <2> QED BY <1>d, <2>1, <2>2 DEF PairedAt
<1>e. ASSUME NEW l \in Left, End(s, l) PROVE FALSE
  BY <1>a, <1>e DEF End, Await, Undisturbed, Left, Labels
<1>f. ASSUME End(s, "ended"), asked[s] = 0, history' = history PROVE PairedAt(s)'
  <2>1. asked' = [asked EXCEPT ![s] = 0] /\ next' = [next EXCEPT ![s] = 1]
    BY <1>f DEF End
  <2>2. PairedBut(history', {})
    BY <1>b, <1>f
  <2> QED BY <1>a, <1>d, <2>1, <2>2
<1>1. CASE AutoCompact(s) \/ NoCompact(s) \/ CallModel(s) \/ Overflow(s) \/ Recompact(s) \/ UseTools(s) \/ NoneDeferred(s)
  <2>1. history' = history /\ UNCHANGED <<rounds, asked, next>>
    BY <1>1 DEF AutoCompact, NoCompact, CallModel, Overflow, Recompact, UseTools, NoneDeferred
  <2> QED BY <1>c, <2>1
<1>2. ASSUME NEW new, RunTool(s, new) PROVE PairedAt(s)'
  <2>1. history' = history /\ UNCHANGED <<rounds, asked, next>>
    BY <1>2 DEF RunTool
  <2> QED BY <1>c, <2>1
<1>3. CASE RoundsUsedUp(s) \/ BudgetStop(s) \/ CallFails(s) \/ Done(s)
  <2>1. End(s, "ended") /\ history' = history
    BY <1>3 DEF RoundsUsedUp, BudgetStop, CallFails, Done
  <2>2. asked[s] = 0
    BY <1>3 DEF RoundsUsedUp, BudgetStop, CallFails, Done, At, Placed, Working, Left
  <2> QED BY <1>f, <2>1, <2>2
<1>4. CASE CompactFails(s)
  <2>1. asked[s] = 0 /\ history' = history
    BY <1>4 DEF CompactFails, At, Placed, Working, Left
  <2>2. CASE End(s, "ended")
    BY <1>f, <2>1, <2>2
  <2>3. CASE UNCHANGED <<rounds, answer>>
    BY <1>c, <2>1, <2>3
  <2> QED BY <1>4, <2>2, <2>3 DEF CompactFails
<1>5. CASE Breaks(s)
  BY <1>5, <1>e DEF Breaks, Left
<1>6. CASE Prompt(s)
  <2>1. asked[s] = 0 /\ UNCHANGED <<rounds, asked, next>>
    BY <1>6 DEF Prompt, At, Placed, Working, Left
  <2>2. PICK notes \in Notes : history' = history \o notes \o <<User>>
    BY <1>6 DEF Prompt
  <2>3. notes = <<>> \/ notes = <<Note>>
    BY DEF Notes
  <2>4. Note \in Messages /\ User \in Messages
    BY MessagesTyped
  <2>5. history' = Append(history, User) \/ history' = Append(Append(history, Note), User)
    <3>1. CASE notes = <<>>
      <4>1. history' = history \o <<>> \o <<User>>
        BY <2>2, <3>1
      <4>2. history \o <<>> = history
        BY <1>g
      <4>3. history' = history \o <<User>>
        BY <4>1, <4>2
      <4> QED BY <1>g, <2>4, <4>3
    <3>2. CASE notes = <<Note>>
      <4>1. history' = (history \o <<Note>>) \o <<User>>
        BY <2>2, <3>2
      <4>2. history \o <<Note>> = Append(history, Note)
        BY <1>g, <2>4
      <4>3. Append(history, Note) \in Seq(Messages)
        BY <1>g, <2>4
      <4>4. Append(history, Note) \o <<User>> = Append(Append(history, Note), User)
        BY <2>4, <4>3
      <4> QED BY <4>1, <4>2, <4>4
    <3> QED BY <2>3, <3>1, <3>2
  <2>6. PairedBut(Append(history, User), {}) /\ PairedBut(Append(history, Note), {})
        /\ Append(history, Note) \in Seq(Messages)
    BY <1>a, <1>b, <2>1, TextKeeps
  <2>7. PairedBut(Append(Append(history, Note), User), {})
    BY <2>6, TextKeeps
  <2>8. PairedBut(history', {})
    BY <2>5, <2>6, <2>7, Zenon
  <2> QED BY <1>a, <1>d, <2>1, <2>8
<1>7. CASE Continue(s)
  <2>1. asked[s] = 0 /\ UNCHANGED <<rounds, asked, next>> /\ history' = Append(history, User)
    BY <1>7 DEF Continue, Push
  <2>2. PairedBut(Append(history, User), {})
    BY <1>a, <1>b, <2>1, TextKeeps
  <2>3. PairedBut(history', {})
    BY <2>1, <2>2, Zenon
  <2> QED BY <1>a, <1>d, <2>1, <2>3
<1>8. CASE Deferred(s)
  <2>1. UNCHANGED <<rounds, asked, next>> /\ history' = Append(history, Note)
    BY <1>8 DEF Deferred, Push
  <2>2. Todo(s)' = Todo(s) /\ Asked(s)' = Asked(s)
    BY <2>1 DEF Todo, Asked
  <2>3. PairedBut(Append(history, Note), Todo(s))
    BY <1>a, TextKeeps
  <2>4. asked[s] > 0 => Newest(Append(history, Note), Asked(s))
    BY <1>a, TextKeeps
  <2> QED BY <2>1, <2>2, <2>3, <2>4, Zenon DEF PairedAt
<1>9. ASSUME NEW h \in Seq(Messages), PairedBut(h, Todo(s)), Newest(h, Asked(s)), history' = Append(h, Result(Now(s))),
             next[s] <= asked[s], Proceed(s)
      PROVE  PairedAt(s)'
  <2>1. rounds' = rounds /\ asked' = asked /\ next' = [next EXCEPT ![s] = @ + 1]
    BY <1>9 DEF Proceed
  <2>2. Asked(s)' = Asked(s)
    BY <2>1 DEF Asked
  <2>3. Todo(s)' = Todo(s) \ {Now(s)} /\ Now(s) \in Todo(s)
    <3>1. next'[s] = next[s] + 1
      BY <1>a, <2>1
    <3> QED BY <1>9, <1>a, <2>1, <3>1 DEF Todo, Now, Call
  <2>4. Now(s) \in Asked(s) /\ Now(s) \in CallIds
    BY <1>9, NowAsked
  <2>5. /\ PairedBut(Append(h, Result(Now(s))), Todo(s) \ {Now(s)})
        /\ Newest(Append(h, Result(Now(s))), Asked(s))
    BY <1>9, <2>3, <2>4, ResultKeeps
  <2> QED BY <1>9, <2>2, <2>3, <2>5, Zenon DEF PairedAt
<1>10. CASE Invalid(s) \/ \E r \in Reads : Reread(s, r)
  <2>1. history' = Append(history, Result(Now(s))) /\ next[s] <= asked[s]
    BY <1>10 DEF Invalid, Reread, Pending, Resolve, Push
  <2>2. Proceed(s)
    BY <1>10, <1>e DEF Invalid, Reread, Left
  <2>3. asked[s] > 0
    BY <1>a, <2>1
  <2> QED BY <1>9, <1>a, <2>1, <2>2, <2>3
<1>11. CASE ToolEnds(s)
  <2>1. next[s] <= asked[s] /\ Proceed(s) /\ asked[s] > 0
    BY <1>11, <1>a DEF ToolEnds, At, Placed
  <2>2. PICK notes \in Notes : history' = history \o notes \o <<Result(Now(s))>>
    BY <1>11 DEF ToolEnds
  <2>3. Note \in Messages /\ Result(Now(s)) \in Messages
    BY <2>1, NowAsked, MessagesTyped
  <2>4. CASE notes = <<>>
    <3>1. history' = Append(history, Result(Now(s)))
      BY <1>a, <2>2, <2>3, <2>4
    <3> QED BY <1>9, <1>a, <2>1, <3>1
  <2>5. CASE notes = <<Note>>
    <3>1. history' = Append(Append(history, Note), Result(Now(s)))
      BY <1>a, <2>2, <2>3, <2>5
    <3>2. /\ PairedBut(Append(history, Note), Todo(s)) /\ Append(history, Note) \in Seq(Messages)
          /\ Newest(Append(history, Note), Asked(s))
      BY <1>a, <2>1, TextKeeps
    <3> QED BY <1>9, <2>1, <3>1, <3>2
  <2> QED BY <2>4, <2>5 DEF Notes
<1>12. CASE RoundEnds(s)
  <2>1. history' = history
    BY <1>12, NetIdle
  <2>2. asked' = [asked EXCEPT ![s] = 0] /\ next' = [next EXCEPT ![s] = 1] /\ pc[s] = "net"
    BY <1>12 DEF RoundEnds, At
  <2>3. Todo(s) = {}
    BY <1>a, <2>2, NoTodo DEF Placed
  <2>4. PairedBut(history', {})
    BY <1>a, <2>1, <2>3
  <2> QED BY <1>a, <1>d, <2>2, <2>4
<1>13. ASSUME NEW n \in 0..MaxCalls, NEW why \in {"stop", "length"}, Answers(s, n, why) PROVE PairedAt(s)'
  <2>1. /\ pc[s] = "call" /\ rounds' = rounds /\ asked' = [asked EXCEPT ![s] = n] /\ next' = [next EXCEPT ![s] = 1]
        /\ (n > 0 => why = "stop") /\ n \in Nat
    BY <1>13, EngineAssumption DEF Answers, At
  <2> DEFINE C == {Call(s, rounds[s], i) : i \in 1..n}
  <2>2. asked[s] = 0 /\ C \cap ResultsOf(history) = {}
    BY <1>a, <2>1, AnswerFresh
  <2>3. Asked(s)' = C /\ Todo(s)' = C
    BY <1>a, <2>1 DEF Asked, Todo
  <2>4. PICK m \in Messages :
          /\ m = IF why = "length" THEN Message("cut", {}) ELSE Message("assistant", C)
          /\ history' = history \o <<m>>
    BY <1>13, AnswerParts
  <2> HIDE DEF C
  <2>5. history' = Append(history, m) /\ m.kind # "result" /\ (m.kind = "assistant" => m.calls = C)
    BY <1>a, <2>4 DEF Message
  <2>6. PairedBut(Append(history, m), C)
    BY <1>a, <1>b, <2>2, <2>5, AnswerKeeps
  <2>7. n > 0 => Newest(Append(history, m), C)
    BY <1>a, <2>1, <2>4, AnswerNewest
  <2>8. asked'[s] = n
    BY <1>a, <2>1
  <2> QED BY <2>3, <2>5, <2>6, <2>7, <2>8, Zenon DEF PairedAt
<1>14. ASSUME NEW keep \in 2..4, NEW files \in 0..MaxFiles, CompactEnds(s, keep, files) PROVE PairedAt(s)'
  <2>1. asked[s] = 0 /\ UNCHANGED <<rounds, asked, next>> /\ history = copy[s] /\ Len(copy[s]) >= 6
    BY <1>14, <1>a DEF CompactEnds, At, Placed, Working, Left
  <2>2. PICK k \in 0..Len(copy[s]) - keep :
          /\ WalksTo(copy[s], Len(copy[s]) - keep, k)
          /\ history' = Compacted(copy[s], Split(copy[s], k), files)
          /\ severed' = (severed \/ Severs(copy[s], k))
    BY <1>14 DEF CompactEnds
  <2>3. /\ WalksTo(history, Len(history) - keep, k)
        /\ history' = Compacted(history, Split(history, k), files)
        /\ ~Severs(history, k)
    BY <1>a, <2>1, <2>2
  <2>4. /\ Len(history) - keep \in Nat /\ Len(history) - keep < Len(history) /\ k \in 0..Len(history) - keep
        /\ Len(history) - keep <= Len(history) /\ Len(history) >= 6
    BY <1>a, <2>1, <2>2
  <2>5. Split(history, k) \in Nat /\ Split(history, k) <= Len(history)
    BY <1>a, <2>4, SplitTyped
  <2>6. files \in Nat
    BY EngineAssumption
  <2>7. PairedBut(Compacted(history, Split(history, k), files), {})
    BY <1>a, <1>b, <2>1, <2>3, <2>4, <2>5, <2>6, CompactedPaired
  <2>8. PairedBut(history', {})
    BY <2>3, <2>7, Zenon
  <2> QED BY <1>a, <1>d, <2>1, <2>8
<1> QED BY <1>1, <1>2, <1>3, <1>4, <1>5, <1>6, <1>7, <1>8, <1>10, <1>11, <1>12, <1>13, <1>14
  DEF Step

\* A submission that works on no answer finds, and leaves, every call answered.
LEMMA PairedAtRest ==
  ASSUME TypeOK, Placed, NEW s \in Submits, pc[s] \notin Working \cup Left
  PROVE  PairedAt(s) <=> PairedBut(history, {})
<1>1. asked[s] = 0 /\ next[s] \in Nat /\ next[s] >= 1
  BY DEF Placed, TypeOK
<1>2. Todo(s) = {} /\ ~(asked[s] > 0)
  BY <1>1, NoTodo
<1> QED BY <1>2, Zenon DEF PairedAt

LEMMA StepKeepsPairs ==
  ASSUME TypeOK, TypeOK', Placed, Placed', Fresh, PInv, NEW s \in Submits, Step(s)
  PROVE  PInv'
<1> SUFFICES ASSUME Undisturbed'
             PROVE  /\ AtMostOne'
                    /\ \A t \in Submits : pc'[t] \in Running => PairedAt(t)'
                    /\ Idle' => PairedBut(history', {})
  BY DEF PInv
<1>1. Flags(s)
  BY StepFlags
<1>2. PICK l \in Running \cup Ended : pc' = [pc EXCEPT ![s] = l]
  BY <1>1 DEF Flags
<1>3. pc \in [Submits -> Labels]
  BY DEF TypeOK, Labels
<1>4. pc[s] \in Running /\ pc[s] \notin {"aborted", "broken"}
  BY <1>1 DEF Flags, Running
<1>5. Undisturbed
  BY <1>1, <1>2, <1>3, <1>4 DEF Flags, Undisturbed
<1>6. AtMostOne /\ PairedAt(s)
  BY <1>4, <1>5 DEF PInv
<1>7. PairedAt(s)'
  BY <1>5, <1>6, PairedStep
<1>8. ASSUME NEW t \in Submits, pc'[t] \in Running PROVE t = s
  BY <1>2, <1>3, <1>4, <1>6, <1>8 DEF AtMostOne
<1>9. AtMostOne'
  BY <1>8 DEF AtMostOne
<1>10. \A t \in Submits : pc'[t] \in Running => PairedAt(t)'
  BY <1>7, <1>8
<1>11. ASSUME Idle' PROVE PairedBut(history', {})
  <2>1. l \in Ended /\ pc'[s] = l /\ l \notin {"aborted", "broken"}
    BY <1>2, <1>3, <1>11 DEF Idle, Undisturbed
  <2>2. asked'[s] = 0 /\ next'[s] \in Nat /\ next'[s] >= 1
    BY <2>1 DEF Placed, Working, Left, Ended, TypeOK
  <2>3. Todo(s)' = {}
    BY <2>2 DEF Todo
  <2> QED BY <1>7, <2>3, Zenon DEF PairedAt
<1> QED BY <1>9, <1>10, <1>11

LEMMA PInvInductive == TypeOK /\ TypeOK' /\ Placed /\ Placed' /\ Fresh /\ PInv /\ [Next]_vars => PInv'
<1> SUFFICES ASSUME TypeOK, TypeOK', Placed, Placed', Fresh, PInv, [Next]_vars PROVE PInv'
  OBVIOUS
<1>a. pc \in [Submits -> Labels]
  BY DEF TypeOK, Labels
<1>1. ASSUME NEW s \in Submits, Step(s) PROVE PInv'
  BY <1>1, StepKeepsPairs
<1>2. ASSUME NEW s \in Submits, Begin(s) PROVE PInv'
  <2> SUFFICES ASSUME Undisturbed'
               PROVE  /\ AtMostOne'
                      /\ \A t \in Submits : pc'[t] \in Running => PairedAt(t)'
                      /\ Idle' => PairedBut(history', {})
    BY DEF PInv
  <2>1. /\ pc[s] = "new" /\ pc' = [pc EXCEPT ![s] = "prompt"]
        /\ UNCHANGED <<history, rounds, asked, next, severed, stale>>
        /\ overlapped' = (overlapped \/ \E t \in Submits : pc[t] \in Running)
    BY <1>2 DEF Begin, At, Await, locals, answer
  <2>2. Idle /\ ~overlapped
    BY <2>1 DEF Undisturbed, Idle
  <2>3. Undisturbed
    BY <1>a, <2>1, <2>2 DEF Undisturbed
  <2>4. PairedBut(history, {})
    BY <2>2, <2>3 DEF PInv
  <2>5. pc[s] \notin Working \cup Left
    BY <2>1 DEF Working, Left
  <2>6. PairedAt(s)
    BY <2>4, <2>5, PairedAtRest
  <2>7. PairedAt(s)'
    BY <2>1, <2>6 DEF PairedAt, Todo, Asked
  <2>8. ASSUME NEW t \in Submits, pc'[t] \in Running PROVE t = s
    BY <1>a, <2>1, <2>2, <2>8 DEF Idle
  <2>9. AtMostOne'
    BY <2>8 DEF AtMostOne
  <2>10. ~Idle'
    BY <1>a, <2>1 DEF Idle, Running
  <2> QED BY <2>7, <2>8, <2>9, <2>10
<1>3. CASE Clear
  <2>1. Idle /\ history' = <<>> /\ pc' = pc
    BY <1>3 DEF Clear, Idle
  <2>2. PairedBut(<<>>, {})
    BY DEF PairedBut, Plain, Behind, Served, Unmade
  <2>3. AtMostOne' /\ Idle'
    BY <2>1 DEF AtMostOne, Idle
  <2> QED BY <2>1, <2>2, <2>3, Zenon DEF PInv, Idle
<1>4. CASE UNCHANGED vars
  <2>1. UNCHANGED <<history, pc, rounds, asked, next, past>>
    BY <1>4 DEF vars, locals, answer
  <2> QED BY <2>1 DEF PInv, Undisturbed, AtMostOne, Idle, PairedAt, Todo, Asked, past
<1> QED BY <1>1, <1>2, <1>3, <1>4 DEF Next

LEMMA InitPInv == Init => PInv
<1> SUFFICES ASSUME Init PROVE PInv
  OBVIOUS
<1>1. Idle /\ AtMostOne
  BY DEF Init, Idle, AtMostOne, Running
<1>2. \A i \in DOMAIN history : history[i].kind # "result" /\ history[i].calls = {}
  BY InitTexts
<1>3. PairedBut(history, {})
  BY <1>2 DEF PairedBut, Plain, Behind, Served, Unmade
<1> QED BY <1>1, <1>3 DEF PInv, Idle

LEMMA CallPaired == TypeOK /\ Placed /\ PInv => PairedUndisturbed
<1> SUFFICES ASSUME TypeOK, Placed, PInv, Undisturbed, NEW s \in Submits, pc[s] = "call"
             PROVE  Paired(history)
  BY DEF PairedUndisturbed
<1>1. pc[s] \in Running /\ pc[s] \notin Working \cup Left
  BY DEF Running, Working, Left
<1>2. PairedAt(s)
  BY <1>1 DEF PInv
<1>3. PairedBut(history, {})
  BY <1>1, <1>2, PairedAtRest
<1>4. ASSUME NEW i \in DOMAIN history, history[i].kind = "assistant", NEW c \in history[i].calls
      PROVE  OneResult(history, i, c)
  BY <1>3, <1>4 DEF PairedBut, Served
<1>5. ASSUME NEW j \in DOMAIN history, history[j].kind = "result"
      PROVE  \E i \in DOMAIN history : i < j /\ history[i].kind = "assistant" /\ history[j].calls \subseteq history[i].calls
  BY <1>3, <1>5 DEF PairedBut, Behind, Belongs
<1> QED BY <1>4, <1>5 DEF Paired, OneResult

\* What goes to the model is paired, call by call, whatever is asked, compacted, refused or
\* cleared before, as long as no two submissions ran at the same time, none was left in the
\* middle of an answer and no compaction separated a call from its result.
THEOREM PairedSafe == Spec => []PairedUndisturbed
<1>1. TypeOK /\ UInv /\ PInv => PairedUndisturbed
  BY CallPaired DEF UInv
<1>2. TypeOK /\ TypeOK' /\ UInv /\ UInv' /\ PInv /\ [Next]_vars => PInv'
  BY PInvInductive DEF UInv
<1>3. Spec => []UInv
  BY TypeCorrect, InitUInv, UInvInductive, PTL DEF Spec
<1> QED BY <1>1, <1>2, <1>3, TypeCorrect, InitPInv, PTL DEF Spec
=============================================================================
