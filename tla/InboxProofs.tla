---------------------------- MODULE InboxProofs ----------------------------
(***************************************************************************)
(* Proofs about Inbox, for any number of entries, sends, workers, contacts,*)
(* cards, boards and columns, and any number of edits.                     *)
(***************************************************************************)
EXTENDS Inbox, TLAPS

\* The labels an operation reaches only with a contact in hand.
WithContact == {"find_card", "choose_column", "await_import", "insert_card", "log_card",
                "await_media", "await_log", "tag_check", "tag_apply", "log_send"}

\* The labels of an entry before it has looked for a card.
BeforeCard == {"idle", "find_contact", "create_contact", "find_card"}

\* The labels after the message row was inserted.
AfterLog == {"tag_check", "tag_apply", "done", "error", "lost"}

\* Where the local contact comes from: a row that was inserted, and may be gone by now.
ContactKnown ==
  \A o \in Ops :
    /\ pc[o] \in WithContact => contactOf[o] # NoContact
    /\ contactOf[o] # NoContact => contactPhone[contactOf[o]] # NoPhone

\* The other rows an operation holds on to were inserted too, and may be gone by now.
RowsKnown ==
  /\ \A o \in Ops : cardOf[o] # NoCard => cardColumn[cardOf[o]] # NoColumn
  /\ \A e \in Entries :
       /\ target[e][1] # NoBoard => boardRow[target[e][1]] # "none"
       /\ target[e][2] # NoColumn => columnRow[target[e][2]] # "none"
       /\ pc[e] \in {"await_import", "insert_card"} => target[e] \in Boards \X Columns
  /\ \A col \in Columns : columnRow[col] # "none" => boardRow[BoardOf[col]] # "none"
  /\ InboxBoard # NoBoard => boardRow[InboxBoard] # "none"
  /\ InboxColumn # NoColumn => columnRow[InboxColumn] # "none"

\* A row is inserted once by its operation, and "before" only remembers inserted rows.
InsertedOnce ==
  /\ logged \subseteq ever
  /\ \A o \in ever : pc[o] \in AfterLog
  /\ \A o \in Ops : before[o] \subseteq ever

\* What the duplicate check established stays true during the whole run.
CheckHolds ==
  \A e \in Entries, o \in logged :
    pc[e] \notin {"idle", "skipped"} /\ o # e /\ Mid[o] = Mid[e] => o \notin before[e]

\* An entry that created a card, or is about to, found none it could use among those that
\* were there, and its own card is on its contact.
Looked ==
  \A e \in Entries :
    /\ pc[e] \in BeforeCard => seen[e] = {} /\ cardOf[e] = NoCard
    /\ pc[e] \in {"choose_column", "await_import", "insert_card"} => cardOf[e] = NoCard
    /\ \A l \in seen[e] : cardColumn[l] # NoColumn
    /\ seen[e] # {} => contactOf[e] \in Contacts
    /\ cardOf[e] \notin seen[e] => seen[e] \cap Reusable(contactOf[e]) = {}
    /\ seen[e] # {} /\ cardOf[e] \in Cards \ seen[e] =>
         cardContact[cardOf[e]] \in {contactOf[e], NoContact}

IInv == /\ TypeOK /\ ContactKnown /\ RowsKnown /\ InsertedOnce /\ CheckHolds
        /\ Accounted /\ Looked

-----------------------------------------------------------------------------
(* The inductive invariant holds initially and implies the properties. *)

LEMMA InitIInv == Init => IInv
<1> SUFFICES ASSUME Init PROVE IInv
  OBVIOUS
<1> USE InboxAssumption DEF Init, Ops
<1>1. TypeOK
  BY DEF TypeOK, RowState, Running, Finished
<1>2. ContactKnown /\ InsertedOnce /\ CheckHolds /\ Accounted
  BY DEF ContactKnown, InsertedOnce, CheckHolds, Accounted, WithContact, AfterLog
<1>3. RowsKnown
  BY DEF RowsKnown
<1>4. Looked
  BY DEF Looked, BeforeCard
<1> QED BY <1>1, <1>2, <1>3, <1>4 DEF IInv

LEMMA IInvNoOverlap == IInv => OnlyOverlapsDuplicate
  BY DEF IInv, CheckHolds, InsertedOnce, AfterLog, OnlyOverlapsDuplicate, TypeOK, Ops

LEMMA IInvOneCard == IInv => SecondCardOverlaps
  BY InboxAssumption DEF IInv, Looked, SecondCardOverlaps

-----------------------------------------------------------------------------
(* Types *)

LEMMA ControlType ==
  ASSUME TypeOK, NEW o \in Ops, NEW label \in {"idle"} \cup Running \cup Finished,
         Keep(o, label) \/ Await(o, label)
  PROVE  /\ pc' \in [Ops -> {"idle"} \cup Running \cup Finished]
         /\ worker' \in [Ops -> Workers \cup {NoWorker}]
         /\ loop' \in [Workers -> Ops \cup {NoOp}]
  BY DEF TypeOK, Keep, Await, Goto

LEMMA CardColumnsType ==
  ASSUME TypeOK, NEW b \in Boards
  PROVE  /\ ColumnsOn(b) \subseteq Columns /\ FirstColumns(ColumnsOn(b)) \subseteq Columns
  BY DEF ColumnsOn, FirstColumns, LiveColumns

LEMMA EditType ==
  ASSUME TypeOK, Edit PROVE TypeOK'
<1> USE DEF Ops, TypeOK, cards, lists
<1>1. /\ UNCHANGED <<control, locals, accepted, ever, before>> /\ edits' \in Nat
  BY DEF Edit
<1>2. ASSUME NEW ks, seen' = seen \/ Touch(ks) PROVE seen' \in [Entries -> SUBSET Cards]
  BY <1>2 DEF Touch
<1>3. ASSUME NEW c \in Contacts, DeleteContact(c) \/ ForgetContact(c) PROVE TypeOK'
  BY <1>1, <1>3 DEF DeleteContact, ForgetContact, CardsGo, control, locals
<1>4. ASSUME NEW c \in Contacts, NEW d \in Contacts, MergeContacts(c, d) PROVE TypeOK'
  <2>1. seen' \in [Entries -> SUBSET Cards]
    BY <1>2, <1>4 DEF MergeContacts
  <2> QED BY <1>1, <1>4, <2>1 DEF MergeContacts, control, locals, LiveContacts
<1>5. ASSUME NEW k \in Cards, DeleteCard(k) \/ RestoreCard(k) \/ PurgeCard(k) PROVE TypeOK'
  <2>1. seen' \in [Entries -> SUBSET Cards]
    BY <1>2, <1>5 DEF DeleteCard, RestoreCard, PurgeCard, CardsGo
  <2> QED BY <1>1, <1>5, <2>1 DEF DeleteCard, RestoreCard, PurgeCard, CardsGo, control, locals
<1>6. ASSUME NEW o \in Ops, PurgeActivity(o) PROVE TypeOK'
  BY <1>1, <1>6 DEF PurgeActivity, control, locals
<1>7. ASSUME NEW k \in Cards, NEW b \in Boards, NEW col \in Columns, MoveCard(k, b, col) PROVE TypeOK'
  <2>1. seen' \in [Entries -> SUBSET Cards]
    BY <1>2, <1>7 DEF MoveCard
  <2> QED BY <1>1, <1>7, <2>1 DEF MoveCard, control, locals
<1>8. ASSUME NEW k \in Cards, NEW c \in Contacts, RelinkCard(k, c) PROVE TypeOK'
  <2>1. seen' \in [Entries -> SUBSET Cards]
    BY <1>2, <1>8 DEF RelinkCard
  <2> QED BY <1>1, <1>8, <2>1 DEF RelinkCard, control, locals
<1>9. ASSUME NEW col \in Columns, DeleteColumn(col) PROVE TypeOK'
  BY <1>1, <1>9 DEF DeleteColumn, CardsGo, RowState, control, locals
<1>10. ASSUME NEW b \in Boards, DeleteBoard(b) PROVE TypeOK'
  BY <1>1, <1>10 DEF DeleteBoard, CardsGo, RowState, control, locals
<1> QED BY <1>3, <1>4, <1>5, <1>6, <1>7, <1>8, <1>9, <1>10 DEF Edit

LEMMA TypeStep == TypeOK /\ [Next]_vars => TypeOK'
<1> SUFFICES ASSUME TypeOK, [Next]_vars PROVE TypeOK'
  OBVIOUS
<1> USE DEF Ops, cards, lists
<1>1. ASSUME NEW e \in Entries, NEW w \in Workers, Deliver(e, w) PROVE TypeOK'
  BY <1>1 DEF TypeOK, Deliver, Enter, Goto, tables, locals, Running, Finished
<1>2. ASSUME NEW s \in Sends, NEW w \in Workers, StartSend(s, w) PROVE TypeOK'
  BY <1>2 DEF TypeOK, StartSend, Enter, Goto, tables, history, LiveCards, CardRows, LiveContacts,
     Running, Finished
<1>3. ASSUME NEW e \in Entries, Ingest(e) PROVE TypeOK'
  <2>1. CASE FindContact(e)
    BY <2>1, ControlType DEF TypeOK, FindContact, WithPhone, tables, history, Running
  <2>2. CASE CreateContact(e)
    BY <2>2, ControlType, InboxAssumption DEF TypeOK, CreateContact, InsertContact, history, Running
  <2>3. CASE FindCard(e)
    BY <2>3, ControlType
    DEF TypeOK, FindCard, AwaitCard, Reusable, CardsOf, LiveCards, CardRows, tables, Running
  <2>4. CASE ChooseColumn(e)
    <3>1. /\ pc' \in [Ops -> {"idle"} \cup Running \cup Finished]
          /\ worker' \in [Ops -> Workers \cup {NoWorker}]
          /\ loop' \in [Workers -> Ops \cup {NoOp}]
      BY <2>4, ControlType DEF ChooseColumn, Aim, AwaitCard, Running
    <3>2. boardRow' \in [Boards -> RowState] /\ columnRow' \in [Columns -> RowState]
      BY <2>4 DEF TypeOK, ChooseColumn, SeedBoard, RowState
    <3>3. target' \in [Entries -> (Boards \cup {NoBoard}) \X (Columns \cup {NoColumn})]
      <4>1. ASSUME NEW b \in Boards, NEW col \in Columns, Aim(e, b, col)
            PROVE  target' \in [Entries -> (Boards \cup {NoBoard}) \X (Columns \cup {NoColumn})]
        BY <4>1 DEF TypeOK, Aim
      <4>2. LiveBoards \subseteq Boards
        BY DEF LiveBoards
      <4> QED BY <2>4, <4>1, <4>2, CardColumnsType, InboxAssumption DEF TypeOK, ChooseColumn
    <3> QED BY <2>4, <3>1, <3>2, <3>3 DEF TypeOK, ChooseColumn, history
  <2>5. CASE FindBoard(e)
    BY <2>5, ControlType DEF TypeOK, FindBoard, AwaitCard, tables, locals, history, Running
  <2>6. CASE CreateCard(e)
    <3>1. /\ pc' \in [Ops -> {"idle"} \cup Running \cup Finished]
          /\ worker' \in [Ops -> Workers \cup {NoWorker}]
          /\ loop' \in [Workers -> Ops \cup {NoOp}]
      BY <2>6, ControlType DEF CreateCard, Running, Finished
    <3>2. UNCHANGED <<lists, contactPhone, logged, actContact, contactOf, target, accepted, edits, history>>
      BY <2>6 DEF CreateCard
    <3>3. ASSUME CardKeysOk(contactOf[e], target[e]), NEW k \in Cards, MakeCard(e, k)
          PROVE  /\ cardColumn' \in [Cards -> Columns \cup {NoColumn, Gone}]
                 /\ cardBoard' \in [Cards -> Boards \cup {NoBoard}]
                 /\ cardContact' \in [Cards -> Contacts \cup {NoContact}]
                 /\ cardOf' \in [Ops -> Cards \cup {NoCard}]
                 /\ UNCHANGED <<cardDeleted, cardTags>>
      <4>1. target[e][1] \in Boards /\ target[e][2] \in Columns /\ contactOf[e] \in Contacts \cup {NoContact}
        BY <3>3 DEF TypeOK, CardKeysOk, LiveBoards, LiveColumns
      <4> QED BY <3>3, <4>1 DEF TypeOK, MakeCard
    <3>4. CASE UNCHANGED <<cards, cardOf>>
      BY <3>1, <3>2, <3>4 DEF TypeOK, history
    <3>5. CASE CardKeysOk(contactOf[e], target[e]) /\ \E k \in Cards : MakeCard(e, k)
      BY <3>1, <3>2, <3>3, <3>5 DEF TypeOK, history
    <3> QED BY <2>6, <3>4, <3>5 DEF CreateCard
  <2>7. CASE LogCard(e)
    BY <2>7, ControlType DEF TypeOK, LogCard, AwaitCard, tables, locals, history, Running, Finished
  <2>8. CASE Download(e)
    BY <2>8, ControlType DEF TypeOK, Download, tables, locals, history, Running
  <2>9. CASE LogInbound(e)
    BY <2>9, ControlType
    DEF TypeOK, LogInbound, InsertActivity, RefuseActivity, tables, locals, Running, Finished
  <2>10. CASE CheckTag(e)
    BY <2>10, ControlType DEF TypeOK, CheckTag, tables, locals, history, Running, Finished
  <2>11. CASE ApplyTag(e)
    BY <2>11, ControlType DEF TypeOK, ApplyTag, LeadTag, LeadTags, locals, history, Finished
  <2> QED BY <1>3, <2>1, <2>2, <2>3, <2>4, <2>5, <2>6, <2>7, <2>8, <2>9, <2>10, <2>11 DEF Ingest
<1>4. ASSUME NEW s \in Sends, Send(s) PROVE TypeOK'
  <2>1. CASE ProviderAccepts(s)
    BY <2>1 DEF TypeOK, ProviderAccepts, tables, control, locals, history
  <2>2. CASE SendFails(s)
    BY <2>2, ControlType DEF TypeOK, SendFails, tables, locals, history, Finished
  <2>3. CASE ResolveContact(s)
    BY <2>3, ControlType DEF TypeOK, ResolveContact, WithPhone, tables, history, Running
  <2>4. CASE CreateRecipient(s)
    BY <2>4, ControlType, InboxAssumption DEF TypeOK, CreateRecipient, InsertContact, history, Running
  <2>5. CASE LogOutbound(s)
    BY <2>5, ControlType
    DEF TypeOK, LogOutbound, InsertActivity, RefuseActivity, tables, locals, Finished
  <2> QED BY <1>4, <2>1, <2>2, <2>3, <2>4, <2>5 DEF Send
<1>5. CASE Edit
  BY <1>5, EditType
<1>6. ASSUME NEW w \in Workers, Crash(w) PROVE TypeOK'
  BY <1>6 DEF TypeOK, Crash, tables, locals, history, Finished
<1>7. ASSUME NEW o \in Ops, Throws(o) PROVE TypeOK'
  BY <1>7, ControlType DEF TypeOK, Throws, tables, locals, history, Finished
<1>8. CASE UNCHANGED vars
  BY <1>8 DEF TypeOK, vars, tables, control, locals, history
<1> QED BY <1>1, <1>2, <1>3, <1>4, <1>5, <1>6, <1>7, <1>8 DEF Next, Start, Step, Fault

-----------------------------------------------------------------------------
(* What a step does to the tables, as seen by every property *)

\* Rows keep what they are: a drawn row stays drawn, and what is gone stays gone.
RowsStay ==
  /\ \A c \in Contacts : /\ contactPhone[c] # NoPhone => contactPhone'[c] # NoPhone
                         /\ contactPhone[c] = Gone => contactPhone'[c] = Gone
  /\ \A k \in Cards : /\ cardColumn[k] # NoColumn => cardColumn'[k] # NoColumn
                      /\ cardColumn[k] = Gone => cardColumn'[k] = Gone
  /\ \A b \in Boards : /\ boardRow[b] # "none" => boardRow'[b] # "none"
                       /\ boardRow[b] = "gone" => boardRow'[b] = "gone"
  /\ \A col \in Columns : /\ columnRow[col] # "none" => columnRow'[col] # "none"
                          /\ columnRow[col] = "gone" => columnRow'[col] = "gone"

\* The columns of a board that is not drawn yet are not drawn either.
LEMMA ColumnsUndrawn ==
  ASSUME RowsKnown, NEW b \in Boards, SeedBoard(b)
  PROVE  \A col \in Columns : BoardOf[col] = b => columnRow[col] = "none"
  BY DEF RowsKnown, SeedBoard

LEMMA RowsStayEdit == ASSUME TypeOK, Edit PROVE RowsStay
<1> USE InboxAssumption DEF Ops, RowsStay, cards, lists, TypeOK
<1>1. ASSUME NEW c \in Contacts, DeleteContact(c) \/ ForgetContact(c) PROVE RowsStay
  BY <1>1 DEF DeleteContact, ForgetContact, CardsGo
<1>2. ASSUME NEW c \in Contacts, NEW d \in Contacts, MergeContacts(c, d) PROVE RowsStay
  BY <1>2 DEF MergeContacts
<1>3. ASSUME NEW k \in Cards, DeleteCard(k) \/ RestoreCard(k) \/ PurgeCard(k) PROVE RowsStay
  BY <1>3 DEF DeleteCard, RestoreCard, PurgeCard, CardsGo
<1>4. ASSUME NEW o \in Ops, PurgeActivity(o) PROVE RowsStay
  BY <1>4 DEF PurgeActivity
<1>5. ASSUME NEW k \in Cards, NEW b \in Boards, NEW col \in Columns, MoveCard(k, b, col) PROVE RowsStay
  BY <1>5 DEF MoveCard, LiveCards, CardRows
<1>6. ASSUME NEW k \in Cards, NEW c \in Contacts, RelinkCard(k, c) PROVE RowsStay
  BY <1>6 DEF RelinkCard
<1>7. ASSUME NEW col \in Columns, DeleteColumn(col) PROVE RowsStay
  BY <1>7 DEF DeleteColumn, CardsGo
<1>8. ASSUME NEW b \in Boards, DeleteBoard(b) PROVE RowsStay
  BY <1>8 DEF DeleteBoard, CardsGo, LiveBoards
<1> QED BY <1>1, <1>2, <1>3, <1>4, <1>5, <1>6, <1>7, <1>8 DEF Edit

LEMMA RowsStayStep == TypeOK /\ RowsKnown /\ [Next]_vars => RowsStay
<1> SUFFICES ASSUME TypeOK, RowsKnown, [Next]_vars PROVE RowsStay
  OBVIOUS
<1> USE InboxAssumption DEF Ops, cards, lists
<1>1. CASE UNCHANGED tables
  BY <1>1 DEF RowsStay, tables
<1>2. ASSUME NEW o \in Ops, NEW c \in Contacts, InsertContact(o, c) PROVE RowsStay
  BY <1>2 DEF RowsStay, TypeOK, InsertContact
<1>3. ASSUME NEW e \in Entries, Ingest(e) PROVE RowsStay
  <2>1. CASE CreateContact(e)
    BY <2>1, <1>2 DEF CreateContact
  <2>2. CASE ChooseColumn(e)
    <3>0. contactPhone' = contactPhone /\ cardColumn' = cardColumn
      BY <2>2 DEF ChooseColumn
    <3>1. ASSUME NEW b \in Boards, SeedBoard(b) PROVE RowsStay
      <4>1. \A x \in Boards : boardRow'[x] = IF x = b THEN "live" ELSE boardRow[x]
        BY <3>1 DEF TypeOK, SeedBoard
      <4>2. \A col \in Columns : columnRow'[col] = IF BoardOf[col] = b THEN "live" ELSE columnRow[col]
        BY <3>1 DEF SeedBoard
      <4>3. boardRow[b] = "none" /\ \A col \in Columns : BoardOf[col] = b => columnRow[col] = "none"
        BY <3>1, ColumnsUndrawn DEF SeedBoard
      <4> QED BY <3>0, <4>1, <4>2, <4>3 DEF RowsStay
    <3>2. CASE UNCHANGED lists
      BY <3>0, <3>2 DEF RowsStay
    <3> QED BY <2>2, <3>1, <3>2 DEF ChooseColumn
  <2>3. CASE CreateCard(e)
    BY <2>3 DEF RowsStay, TypeOK, CreateCard, CardKeysOk, MakeCard, LiveColumns
  <2>4. CASE LogInbound(e)
    BY <2>4 DEF RowsStay, LogInbound, InsertActivity, RefuseActivity, tables
  <2>5. CASE ApplyTag(e)
    BY <2>5 DEF RowsStay, ApplyTag
  <2> QED BY <1>1, <1>3, <2>1, <2>2, <2>3, <2>4, <2>5
          DEF Ingest, FindContact, FindCard, FindBoard, LogCard, Download, CheckTag
<1>4. ASSUME NEW s \in Sends, Send(s) PROVE RowsStay
  <2>1. CASE CreateRecipient(s)
    BY <2>1, <1>2 DEF CreateRecipient
  <2>2. CASE LogOutbound(s)
    BY <2>2 DEF RowsStay, LogOutbound, InsertActivity, RefuseActivity, tables
  <2> QED BY <1>1, <1>4, <2>1, <2>2 DEF Send, ProviderAccepts, SendFails, ResolveContact
<1>5. CASE Edit
  BY <1>5, RowsStayEdit
<1> QED BY <1>1, <1>3, <1>4, <1>5 DEF Next, Start, Step, Fault, Deliver, StartSend, Crash, Throws, vars

LEMMA ContactKnownStep == TypeOK /\ RowsKnown /\ ContactKnown /\ [Next]_vars => ContactKnown'
<1> SUFFICES ASSUME TypeOK, RowsKnown, ContactKnown, [Next]_vars PROVE ContactKnown'
  OBVIOUS
<1>0. RowsStay
  BY RowsStayStep
<1> USE InboxAssumption DEF Ops, TypeOK, ContactKnown, WithContact, lists, cards
<1>1. ASSUME NEW e \in Entries, NEW w \in Workers, Deliver(e, w) PROVE ContactKnown'
  BY <1>1 DEF Deliver, Enter, Goto, tables, locals
<1>2. ASSUME NEW s \in Sends, NEW w \in Workers, StartSend(s, w) PROVE ContactKnown'
  BY <1>2 DEF StartSend, Enter, Goto, tables, LiveContacts
<1>3. ASSUME NEW e \in Entries, Ingest(e) PROVE ContactKnown'
  <2>1. CASE FindContact(e)
    BY <2>1 DEF FindContact, WithPhone, tables, Keep, Goto
  <2>2. CASE CreateContact(e)
    BY <2>2 DEF CreateContact, InsertContact, Keep, Goto
  <2>3. CASE FindCard(e)
    BY <2>3 DEF FindCard, AwaitCard, tables, Keep, Await, Goto
  <2>4. CASE ChooseColumn(e)
    BY <2>4 DEF ChooseColumn, AwaitCard, Aim, Await, Goto
  <2>5. CASE FindBoard(e) \/ LogCard(e)
    BY <2>5 DEF FindBoard, LogCard, AwaitCard, tables, locals, Keep, Await, Goto
  <2>6. CASE CreateCard(e)
    BY <2>6 DEF CreateCard, MakeCard, Keep, Await, Goto
  <2>7. CASE Download(e)
    BY <2>7 DEF Download, tables, locals, Await, Goto
  <2>8. CASE LogInbound(e)
    BY <2>8 DEF LogInbound, InsertActivity, RefuseActivity, tables, locals, Keep, Await, Goto
  <2>9. CASE CheckTag(e)
    BY <2>9 DEF CheckTag, tables, locals, Keep, Await, Goto
  <2>10. CASE ApplyTag(e)
    BY <2>10 DEF ApplyTag, locals, Await, Goto
  <2> QED BY <1>3, <2>1, <2>2, <2>3, <2>4, <2>5, <2>6, <2>7, <2>8, <2>9, <2>10 DEF Ingest
<1>4. ASSUME NEW s \in Sends, Send(s) PROVE ContactKnown'
  <2>1. CASE ProviderAccepts(s)
    BY <2>1 DEF ProviderAccepts, tables, control, locals
  <2>2. CASE SendFails(s)
    BY <2>2 DEF SendFails, tables, locals, Await, Goto
  <2>3. CASE ResolveContact(s)
    BY <2>3 DEF ResolveContact, WithPhone, tables, Keep, Goto
  <2>4. CASE CreateRecipient(s)
    BY <2>4 DEF CreateRecipient, InsertContact, Keep, Goto
  <2>5. CASE LogOutbound(s)
    BY <2>5 DEF LogOutbound, InsertActivity, RefuseActivity, tables, locals, Keep, Await, Goto
  <2> QED BY <1>4, <2>1, <2>2, <2>3, <2>4, <2>5 DEF Send
<1>5. CASE Edit
  <2>1. contactOf' = contactOf /\ pc' = pc
    BY <1>5 DEF Edit, control, locals
  <2> QED BY <1>0, <2>1 DEF RowsStay
<1>6. ASSUME NEW w \in Workers, Crash(w) PROVE ContactKnown'
  BY <1>6 DEF Crash, tables, locals
<1>7. ASSUME NEW o \in Ops, Throws(o) PROVE ContactKnown'
  BY <1>7 DEF Throws, Await, Goto, tables, locals
<1>8. CASE UNCHANGED vars
  BY <1>8 DEF vars, tables, control, locals
<1> QED BY <1>1, <1>2, <1>3, <1>4, <1>5, <1>6, <1>7, <1>8 DEF Next, Start, Step, Fault

\* What holds of the rows an operation holds on to, whatever else the step does to them.
LEMMA RowsKnownKept ==
  ASSUME TypeOK, TypeOK', RowsKnown, RowsStay, UNCHANGED <<cardOf, target>>,
         \A col \in Columns : columnRow'[col] # "none" =>
             columnRow[col] # "none" \/ boardRow'[BoardOf[col]] # "none",
         \A e \in Entries : pc'[e] \in {"await_import", "insert_card"} =>
             pc[e] \in {"await_import", "insert_card"}
  PROVE  RowsKnown'
  BY InboxAssumption DEF RowsKnown, RowsStay, TypeOK, Ops

LEMMA RowsKnownEdit == ASSUME TypeOK, TypeOK', RowsKnown, RowsStay, Edit PROVE RowsKnown'
<1>1. UNCHANGED <<cardOf, target, pc>>
  BY DEF Edit, locals, control
<1>2. \A x \in Columns : columnRow'[x] # "none" => columnRow[x] # "none" \/ boardRow'[BoardOf[x]] # "none"
  <2>1. CASE columnRow' = columnRow
    BY <2>1
  <2>2. ASSUME NEW col \in Columns, DeleteColumn(col)
        PROVE  \A x \in Columns : columnRow'[x] # "none" => columnRow[x] # "none"
    BY <2>2 DEF DeleteColumn, LiveColumns, TypeOK
  <2>3. ASSUME NEW b \in Boards, DeleteBoard(b)
        PROVE  \A x \in Columns : columnRow'[x] # "none" =>
                  columnRow[x] # "none" \/ boardRow'[BoardOf[x]] # "none"
    BY <2>3 DEF DeleteBoard, TypeOK
  <2> QED BY <2>1, <2>2, <2>3 DEF Edit, lists, DeleteContact, ForgetContact, MergeContacts, DeleteCard,
             RestoreCard, PurgeCard, PurgeActivity, MoveCard, RelinkCard
<1> QED BY <1>1, <1>2, RowsKnownKept

LEMMA RowsKnownStep == TypeOK /\ TypeOK' /\ RowsKnown /\ [Next]_vars => RowsKnown'
<1> SUFFICES ASSUME TypeOK, TypeOK', RowsKnown, [Next]_vars PROVE RowsKnown'
  OBVIOUS
<1>0. RowsStay
  BY RowsStayStep
<1> DEFINE Creating == {"await_import", "insert_card"}
<1>k. ASSUME UNCHANGED <<cardOf, target, columnRow>>,
             \A e \in Entries : pc'[e] \in Creating => pc[e] \in Creating
      PROVE  RowsKnown'
  BY <1>0, <1>k, RowsKnownKept
<1> USE InboxAssumption DEF Ops
<1>1. ASSUME NEW e \in Entries, NEW w \in Workers, Deliver(e, w) PROVE RowsKnown'
  BY <1>1, <1>k DEF TypeOK, Deliver, Enter, Goto, tables, lists, locals
<1>2. ASSUME NEW s \in Sends, NEW w \in Workers, StartSend(s, w) PROVE RowsKnown'
  BY <1>2 DEF TypeOK, RowsKnown, StartSend, Enter, Goto, tables, lists, cards, LiveCards, CardRows
<1>3. ASSUME NEW e \in Entries, Ingest(e) PROVE RowsKnown'
  <2>1. CASE FindContact(e) \/ CreateContact(e)
    BY <2>1, <1>k DEF TypeOK, FindContact, CreateContact, InsertContact, Keep, Goto, tables, lists
  <2>2. CASE FindCard(e)
    <3>1. \A o \in Ops : cardOf'[o] # NoCard => cardColumn[cardOf'[o]] # NoColumn
      BY <2>2 DEF TypeOK, RowsKnown, FindCard, Reusable, CardsOf, LiveCards, CardRows
    <3>2. \A f \in Entries : pc'[f] \in Creating => pc[f] \in Creating
      BY <2>2 DEF TypeOK, FindCard, AwaitCard, Keep, Await, Goto
    <3> QED BY <2>2, <3>1, <3>2 DEF RowsKnown, FindCard, tables, lists, cards
  <2>3. CASE ChooseColumn(e)
    <3>0. cardOf' = cardOf /\ cardColumn' = cardColumn
      BY <2>3 DEF ChooseColumn, cards
    <3>1. \A f \in Entries : pc'[f] \in Creating => pc[f] \in Creating \/ f = e
      BY <2>3 DEF TypeOK, ChooseColumn, Aim, AwaitCard, Await, Goto
    <3>2. ASSUME NEW b \in Boards, NEW col \in Columns, Aim(e, b, col), RowsKnown,
                 boardRow'[b] # "none", columnRow'[col] # "none",
                 \A x \in Columns : columnRow'[x] # "none" => boardRow'[BoardOf[x]] # "none"
          PROVE  RowsKnown'
      <4>1. \A f \in Entries : target'[f] = IF f = e THEN <<b, col>> ELSE target[f]
        BY <3>2 DEF TypeOK, Aim
      <4>2. target'[e] \in Boards \X Columns /\ target'[e][1] = b /\ target'[e][2] = col
        BY <4>1
      <4>3. \A o \in Ops : cardOf'[o] # NoCard => cardColumn'[cardOf'[o]] # NoColumn
        BY <3>0, <3>2 DEF RowsKnown
      <4>4. ASSUME NEW f \in Entries, f # e
            PROVE  /\ target'[f][1] # NoBoard => boardRow'[target'[f][1]] # "none"
                   /\ target'[f][2] # NoColumn => columnRow'[target'[f][2]] # "none"
                   /\ pc'[f] \in Creating => target'[f] \in Boards \X Columns
        <5>1. target'[f] = target[f] /\ (pc'[f] \in Creating => pc[f] \in Creating)
          BY <3>1, <4>1, <4>4
        <5>2. target[f][1] \in Boards \cup {NoBoard} /\ target[f][2] \in Columns \cup {NoColumn}
          BY DEF TypeOK
        <5> QED BY <1>0, <3>2, <5>1, <5>2 DEF RowsKnown, RowsStay
      <4>5. /\ InboxBoard # NoBoard => boardRow'[InboxBoard] # "none"
            /\ InboxColumn # NoColumn => columnRow'[InboxColumn] # "none"
        BY <1>0, <3>2 DEF RowsKnown, RowsStay
      <4> QED BY <3>2, <4>2, <4>3, <4>4, <4>5 DEF RowsKnown
    <3>3. CASE InboxBoard # NoBoard /\ InboxColumn # NoColumn /\ Aim(e, InboxBoard, InboxColumn)
               /\ UNCHANGED lists
      BY <3>2, <3>3 DEF RowsKnown, lists
    <3>4. ASSUME NEW b \in LiveBoards, NEW col \in FirstColumns(ColumnsOn(b)), Aim(e, b, col),
                 UNCHANGED lists
          PROVE  RowsKnown'
      <4>1. /\ b \in Boards /\ boardRow[b] = "live"
            /\ col \in Columns /\ columnRow[col] = "live"
        BY <3>4 DEF FirstColumns, ColumnsOn, LiveBoards, LiveColumns
      <4> QED BY <3>2, <3>4, <4>1 DEF RowsKnown, lists
    <3>5. CASE AwaitCard(e) /\ UNCHANGED <<lists, target>>
      <4>1. \A f \in Entries : pc'[f] \in Creating => pc[f] \in Creating
        BY <3>5 DEF TypeOK, AwaitCard, Await, Goto
      <4> QED BY <1>k, <3>0, <3>5, <4>1 DEF lists
    <3>6. ASSUME NEW b \in Boards, NEW col \in Columns, SeedBoard(b), BoardOf[col] = b, Aim(e, b, col)
          PROVE  RowsKnown'
      <4>1. boardRow'[b] = "live" /\ columnRow'[col] = "live"
        BY <3>6 DEF SeedBoard, TypeOK
      <4>2. \A x \in Columns : columnRow'[x] # "none" => boardRow'[BoardOf[x]] # "none"
        BY <3>6 DEF SeedBoard, TypeOK, RowsKnown
      <4> QED BY <3>2, <3>6, <4>1, <4>2
    <3> QED BY <2>3, <3>3, <3>4, <3>5, <3>6 DEF ChooseColumn
  <2>4. CASE CreateCard(e)
    <3>1. \A f \in Entries : pc'[f] \in Creating => pc[f] \in Creating
      BY <2>4 DEF TypeOK, CreateCard, Keep, Await, Goto
    <3>2. ASSUME NEW k \in Cards, MakeCard(e, k), CardKeysOk(contactOf[e], target[e])
          PROVE  \A o \in Ops : cardOf'[o] # NoCard => cardColumn'[cardOf'[o]] # NoColumn
      <4>1. cardColumn'[k] # NoColumn
        BY <3>2 DEF TypeOK, MakeCard, CardKeysOk, LiveColumns
      <4> QED BY <3>2, <4>1 DEF TypeOK, RowsKnown, MakeCard
    <3> QED BY <2>4, <3>1, <3>2 DEF RowsKnown, CreateCard, lists, cards
  <2>5. CASE FindBoard(e) \/ LogCard(e) \/ Download(e) \/ CheckTag(e)
    BY <2>5, <1>k DEF TypeOK, FindBoard, LogCard, Download, CheckTag, AwaitCard, Keep, Await, Goto,
       tables, lists, locals
  <2>6. CASE LogInbound(e)
    BY <2>6, <1>k DEF TypeOK, LogInbound, InsertActivity, RefuseActivity, Keep, Await, Goto,
       tables, lists, locals
  <2>7. CASE ApplyTag(e)
    BY <2>7, <1>k DEF TypeOK, ApplyTag, Await, Goto, lists, locals
  <2> QED BY <1>3, <2>1, <2>2, <2>3, <2>4, <2>5, <2>6, <2>7 DEF Ingest
<1>4. ASSUME NEW s \in Sends, Send(s) PROVE RowsKnown'
  BY <1>4, <1>k DEF TypeOK, Send, ProviderAccepts, SendFails, ResolveContact, CreateRecipient, InsertContact,
     LogOutbound, InsertActivity, RefuseActivity, Keep, Await, Goto, tables, lists, control, locals
<1>5. CASE Edit
  BY <1>0, <1>5, RowsKnownEdit
<1>6. ASSUME NEW w \in Workers, Crash(w) PROVE RowsKnown'
  BY <1>6, <1>k DEF TypeOK, Crash, tables, lists, locals
<1>7. ASSUME NEW o \in Ops, Throws(o) PROVE RowsKnown'
  BY <1>7, <1>k DEF TypeOK, Throws, Await, Goto, tables, lists, locals
<1>8. CASE UNCHANGED vars
  BY <1>8, <1>k DEF vars, tables, lists, control, locals
<1> QED BY <1>1, <1>2, <1>3, <1>4, <1>5, <1>6, <1>7, <1>8 DEF Next, Start, Step, Fault

-----------------------------------------------------------------------------
(* What a step does to the log: nothing is added, an entry is checked, or one row is added. *)

NothingLogged ==
  /\ logged' \subseteq logged /\ ever' = ever /\ before' = before
  /\ \A o \in Ops : pc[o] \in AfterLog => pc'[o] \in AfterLog
  /\ \A e \in Entries :
       /\ pc'[e] \notin {"idle", "skipped"} => pc[e] \notin {"idle", "skipped"}
       /\ pc'[e] \in {"done", "skipped", "tag_check", "tag_apply"} =>
            pc[e] \in {"done", "skipped", "tag_check", "tag_apply"}

EntryChecked == \E e \in Entries, w \in Workers : Deliver(e, w)

RowAdded ==
  \E o \in Ops, label \in AfterLog :
    /\ pc[o] \in {"await_log", "log_send"} /\ pc' = [pc EXCEPT ![o] = label]
    /\ logged' = logged \cup {o} /\ ever' = ever \cup {o} /\ before' = before

\* No edit adds a row to the log.
LEMMA EditLog == ASSUME Edit PROVE logged' \subseteq logged
  BY DEF Edit, DeleteContact, ForgetContact, MergeContacts, DeleteCard, RestoreCard, PurgeCard,
     PurgeActivity, MoveCard, RelinkCard, DeleteColumn, DeleteBoard, CardsGo, cards

LEMMA LogEffect == TypeOK /\ [Next]_vars => NothingLogged \/ EntryChecked \/ RowAdded
<1> SUFFICES ASSUME TypeOK, [Next]_vars PROVE NothingLogged \/ EntryChecked \/ RowAdded
  OBVIOUS
<1> USE InboxAssumption DEF Ops, TypeOK, AfterLog
<1>1. ASSUME NEW s \in Sends, NEW w \in Workers, StartSend(s, w) PROVE NothingLogged
  BY <1>1 DEF NothingLogged, StartSend, Enter, Goto, tables, history
<1>2. ASSUME NEW e \in Entries, Ingest(e) PROVE NothingLogged \/ RowAdded
  <2>1. CASE FindContact(e) \/ CreateContact(e) \/ FindCard(e)
    BY <2>1 DEF NothingLogged, FindContact, CreateContact, InsertContact, FindCard,
       AwaitCard, Keep, Await, Goto, tables, history
  <2>2. CASE ChooseColumn(e) \/ FindBoard(e) \/ CreateCard(e) \/ LogCard(e) \/ Download(e)
    BY <2>2 DEF NothingLogged, ChooseColumn, Aim, FindBoard, CreateCard, LogCard, Download,
       AwaitCard, Keep, Await, Goto, tables, history
  <2>3. CASE pc[e] = "await_log" /\ InsertActivity(e) /\ LogInbound(e)
    <3>1. PICK label \in {"tag_check", "done"} : pc' = [pc EXCEPT ![e] = label]
      BY <2>3 DEF LogInbound, InsertActivity, RefuseActivity, Keep, Await, Goto
    <3> QED BY <2>3, <3>1 DEF RowAdded, InsertActivity, LogInbound
  <2>4. CASE RefuseActivity(e) /\ LogInbound(e)
    BY <2>4 DEF NothingLogged, LogInbound, RefuseActivity, Await, Goto, tables
  <2>5. CASE CheckTag(e) \/ ApplyTag(e)
    BY <2>5 DEF NothingLogged, CheckTag, ApplyTag, Keep, Await, Goto, tables, history
  <2> QED BY <1>2, <2>1, <2>2, <2>3, <2>4, <2>5 DEF Ingest, LogInbound
<1>3. ASSUME NEW s \in Sends, Send(s) PROVE NothingLogged \/ RowAdded
  <2>1. CASE ProviderAccepts(s) \/ SendFails(s) \/ ResolveContact(s) \/ CreateRecipient(s)
    BY <2>1 DEF NothingLogged, ProviderAccepts, SendFails, ResolveContact, CreateRecipient, InsertContact,
       Keep, Await, Goto, tables, history, control
  <2>2. CASE LogOutbound(s) /\ InsertActivity(s) /\ Await(s, "done")
    BY <2>2 DEF RowAdded, LogOutbound, InsertActivity, Await, Goto
  <2>3. CASE RefuseActivity(s) /\ LogOutbound(s)
    BY <2>3 DEF NothingLogged, LogOutbound, RefuseActivity, Await, Goto, tables
  <2> QED BY <1>3, <2>1, <2>2, <2>3 DEF Send, LogOutbound
<1>4. CASE Edit
  <2>1. pc' = pc /\ ever' = ever /\ before' = before
    BY <1>4 DEF Edit, control
  <2>2. logged' \subseteq logged
    BY <1>4, EditLog
  <2> QED BY <2>1, <2>2 DEF NothingLogged
<1>5. ASSUME NEW w \in Workers, Crash(w) PROVE NothingLogged
  BY <1>5 DEF NothingLogged, Crash, Running, tables, history
<1>6. ASSUME NEW o \in Ops, Throws(o) PROVE NothingLogged
  BY <1>6 DEF NothingLogged, Throws, Running, Await, Goto, tables, history
<1>7. CASE UNCHANGED vars
  BY <1>7 DEF NothingLogged, vars, tables, control, history
<1> QED BY <1>1, <1>2, <1>3, <1>4, <1>5, <1>6, <1>7 DEF Next, Start, Step, Fault, EntryChecked

LEMMA InsertedOnceStep == TypeOK /\ InsertedOnce /\ [Next]_vars => InsertedOnce'
<1> SUFFICES ASSUME TypeOK, InsertedOnce, [Next]_vars PROVE InsertedOnce'
  OBVIOUS
<1> USE DEF InsertedOnce
<1>1. CASE NothingLogged
  BY <1>1 DEF NothingLogged, TypeOK
<1>2. ASSUME NEW e \in Entries, NEW w \in Workers, Deliver(e, w) PROVE InsertedOnce'
  BY <1>2 DEF Deliver, Enter, Goto, tables, TypeOK, AfterLog, Ops
<1>3. CASE RowAdded
  BY <1>3 DEF RowAdded, TypeOK
<1> QED BY <1>1, <1>2, <1>3, LogEffect DEF EntryChecked

LEMMA CheckHoldsStep == TypeOK /\ InsertedOnce /\ CheckHolds /\ [Next]_vars => CheckHolds'
<1> SUFFICES ASSUME TypeOK, InsertedOnce, CheckHolds, [Next]_vars PROVE CheckHolds'
  OBVIOUS
<1> USE DEF CheckHolds
<1>1. CASE NothingLogged
  BY <1>1 DEF NothingLogged
<1>2. ASSUME NEW e \in Entries, NEW w \in Workers, Deliver(e, w) PROVE CheckHolds'
  BY <1>2 DEF Deliver, Enter, Goto, AlreadyLogged, tables, TypeOK, Ops
<1>3. CASE RowAdded
  BY <1>3 DEF RowAdded, TypeOK, InsertedOnce, AfterLog, Ops
<1> QED BY <1>1, <1>2, <1>3, LogEffect DEF EntryChecked

\* What an operation lost to a refused INSERT does not come back.
LEMMA VanishedStays ==
  ASSUME RowsStay, TypeOK, NEW e \in Entries, Vanished(e), contactOf'[e] = contactOf[e],
         cardOf'[e] = cardOf[e], target'[e] = target[e]
  PROVE  Vanished(e)'
  BY DEF RowsStay, TypeOK, Vanished, GoneContacts, GoneCards, Ops

\* The locals of an entry do not change when it has ended, nor by another's step.
LEMMA LocalsKept ==
  ASSUME TypeOK, [Next]_vars, NEW e \in Entries, pc'[e] = "failed", ~Ingest(e)
  PROVE  pc[e] = "failed" /\ contactOf'[e] = contactOf[e] /\ cardOf'[e] = cardOf[e] /\ target'[e] = target[e]
<1> USE InboxAssumption DEF Ops, TypeOK
<1>1. ASSUME NEW f \in Entries, f # e, Ingest(f)
      PROVE  pc[e] = "failed" /\ contactOf'[e] = contactOf[e] /\ cardOf'[e] = cardOf[e] /\ target'[e] = target[e]
  BY <1>1 DEF Ingest, FindContact, CreateContact, InsertContact, FindCard, ChooseColumn, Aim, FindBoard,
     CreateCard, MakeCard, LogCard, Download, AwaitCard, LogInbound, RefuseActivity, CheckTag, ApplyTag,
     Keep, Await, Goto, locals
<1>2. ASSUME NEW f \in Entries, NEW w \in Workers, Deliver(f, w)
      PROVE  pc[e] = "failed" /\ contactOf'[e] = contactOf[e] /\ cardOf'[e] = cardOf[e] /\ target'[e] = target[e]
  BY <1>2 DEF Deliver, Enter, Goto, locals
<1>3. ASSUME NEW s \in Sends, NEW w \in Workers, StartSend(s, w)
      PROVE  pc[e] = "failed" /\ contactOf'[e] = contactOf[e] /\ cardOf'[e] = cardOf[e] /\ target'[e] = target[e]
  BY <1>3 DEF StartSend, Enter, Goto
<1>4. ASSUME NEW s \in Sends, Send(s)
      PROVE  pc[e] = "failed" /\ contactOf'[e] = contactOf[e] /\ cardOf'[e] = cardOf[e] /\ target'[e] = target[e]
  BY <1>4 DEF Send, ProviderAccepts, SendFails, ResolveContact, CreateRecipient, InsertContact,
     LogOutbound, RefuseActivity, Keep, Await, Goto, control, locals
<1>5. CASE Edit \/ UNCHANGED vars
  BY <1>5 DEF Edit, vars, control, locals
<1>6. ASSUME NEW w \in Workers, Crash(w)
      PROVE  pc[e] = "failed" /\ contactOf'[e] = contactOf[e] /\ cardOf'[e] = cardOf[e] /\ target'[e] = target[e]
  BY <1>6 DEF Crash, locals
<1>7. ASSUME NEW o \in Ops, Throws(o)
      PROVE  pc[e] = "failed" /\ contactOf'[e] = contactOf[e] /\ cardOf'[e] = cardOf[e] /\ target'[e] = target[e]
  BY <1>7 DEF Throws, Await, Goto, locals
<1> QED BY <1>1, <1>2, <1>3, <1>4, <1>5, <1>6, <1>7 DEF Next, Start, Step, Fault

\* The step in which an entry fails is a refused INSERT.
LEMMA Refused ==
  ASSUME TypeOK, ContactKnown, RowsKnown, NEW e \in Entries, Ingest(e), pc'[e] = "failed"
  PROVE  Vanished(e)'
<1> USE InboxAssumption DEF Ops, TypeOK
<1>1. \/ CreateCard(e) /\ ~CardKeysOk(contactOf[e], target[e])
      \/ LogCard(e) /\ ~ForeignKeysOk(contactOf[e], cardOf[e])
      \/ LogInbound(e) /\ RefuseActivity(e)
  BY DEF Ingest, FindContact, CreateContact, FindCard, ChooseColumn, Aim, FindBoard, CreateCard, LogCard,
     Download, AwaitCard, LogInbound, CheckTag, ApplyTag, Keep, Await, Goto
<1>2. ~ForeignKeysOk(contactOf[e], cardOf[e]) =>
        contactOf[e] \in GoneContacts \/ cardOf[e] \in GoneCards
  BY DEF ForeignKeysOk, LiveContacts, GoneContacts, CardRows, GoneCards, ContactKnown, RowsKnown
<1>3. CreateCard(e) /\ ~CardKeysOk(contactOf[e], target[e]) => Vanished(e)
  BY DEF CreateCard, CardKeysOk, LiveContacts, GoneContacts, LiveBoards, LiveColumns, ContactKnown,
     RowsKnown, RowState, Vanished
<1>4. Vanished(e)
  BY <1>1, <1>2, <1>3 DEF Vanished, LogInbound, RefuseActivity
<1>5. UNCHANGED <<tables, locals>>
  BY <1>1 DEF CreateCard, LogCard, LogInbound, RefuseActivity, tables, locals
<1> QED BY <1>4, <1>5 DEF Vanished, GoneContacts, GoneCards, tables, lists, cards, locals

LEMMA AccountedStep ==
  TypeOK /\ ContactKnown /\ RowsKnown /\ InsertedOnce /\ Accounted /\ [Next]_vars => Accounted'
<1> SUFFICES ASSUME TypeOK, ContactKnown, RowsKnown, InsertedOnce, Accounted, [Next]_vars
             PROVE  Accounted'
  OBVIOUS
<1> DEFINE Ended == {"done", "skipped", "tag_check", "tag_apply"}
<1>1. \A e \in Entries : pc'[e] \in Ended => \E o \in ever' : Mid[o] = Mid[e]
  <2> USE InboxAssumption DEF Ops
  <2>1. CASE NothingLogged
    BY <2>1 DEF NothingLogged, Accounted
  <2>2. ASSUME NEW e \in Entries, NEW w \in Workers, Deliver(e, w)
        PROVE  \A f \in Entries : pc'[f] \in Ended => \E o \in ever' : Mid[o] = Mid[f]
    BY <2>2 DEF Deliver, Enter, Goto, AlreadyLogged, InsertedOnce, Accounted, TypeOK
  <2>3. CASE RowAdded
    BY <2>3 DEF RowAdded, Accounted, TypeOK
  <2> QED BY <2>1, <2>2, <2>3, LogEffect DEF EntryChecked
<1>2. ASSUME NEW e \in Entries, pc'[e] = "failed" PROVE Vanished(e)'
  <2>1. CASE Ingest(e)
    BY <1>2, <2>1, Refused
  <2>2. CASE ~Ingest(e)
    BY <1>2, <2>2, LocalsKept, RowsStayStep, VanishedStays DEF Accounted
  <2> QED BY <2>1, <2>2
<1> QED BY <1>1, <1>2 DEF Accounted

\* A card an entry may use is a row on its contact.
LEMMA ReusableRows ==
  ASSUME NEW c PROVE Reusable(c) \subseteq {k \in CardRows : cardContact[k] = c}
  BY DEF Reusable, CardsOf, LiveCards

\* The parts of Looked for one entry.
LookedAt(e) ==
  /\ pc[e] \in BeforeCard => seen[e] = {} /\ cardOf[e] = NoCard
  /\ pc[e] \in {"choose_column", "await_import", "insert_card"} => cardOf[e] = NoCard
  /\ \A l \in seen[e] : cardColumn[l] # NoColumn
  /\ seen[e] # {} => contactOf[e] \in Contacts
  /\ cardOf[e] \notin seen[e] => seen[e] \cap Reusable(contactOf[e]) = {}
  /\ seen[e] # {} /\ cardOf[e] \in Cards \ seen[e] =>
       cardContact[cardOf[e]] \in {contactOf[e], NoContact}

\* A step that keeps the cards, the entry's locals and what it saw, and sends it onwards.
LEMMA LookedKept ==
  ASSUME TypeOK, NEW e \in Entries, LookedAt(e), UNCHANGED cards,
         seen'[e] = seen[e], cardOf'[e] = cardOf[e], contactOf'[e] = contactOf[e],
         pc'[e] \in BeforeCard => pc[e] \in BeforeCard,
         pc'[e] \in {"choose_column", "await_import", "insert_card"} =>
           pc[e] \in {"find_card", "choose_column", "await_import", "insert_card"}
  PROVE  LookedAt(e)'
  BY DEF LookedAt, BeforeCard, cards, Reusable, CardsOf, LiveCards, CardRows

\* An edit: cards that change their contact or their place, or come back, are no longer seen.
LEMMA LookedEdited ==
  ASSUME TypeOK, TypeOK', RowsStay, NEW e \in Entries, LookedAt(e), UNCHANGED <<pc, cardOf, contactOf>>,
         NEW ks \in SUBSET Cards, seen'[e] = IF cardOf[e] \in ks THEN {} ELSE seen[e] \ ks,
         \A k \in Cards \ ks :
           /\ cardContact'[k] \in {cardContact[k], NoContact}
           /\ k \in LiveCards' => /\ k \in LiveCards
                                  /\ cardColumn'[k] = cardColumn[k] /\ cardBoard'[k] = cardBoard[k]
  PROVE  LookedAt(e)'
<1> USE InboxAssumption DEF Ops
<1>1. CASE cardOf[e] \in ks
  BY <1>1 DEF LookedAt
<1>2. CASE cardOf[e] \notin ks
  <2>1. seen'[e] = seen[e] \ ks
    BY <1>2
  <2>2. \A l \in seen'[e] : cardColumn'[l] # NoColumn
    BY <2>1 DEF LookedAt, RowsStay, TypeOK
  <2>3. seen'[e] # {} => contactOf[e] \in Contacts
    BY <2>1 DEF LookedAt
  <2>4. ASSUME seen'[e] # {}, NEW l \in Cards \ ks, l \in Reusable(contactOf[e])' PROVE l \in Reusable(contactOf[e])
    <3>1. contactOf'[e] = contactOf[e] /\ contactOf[e] # NoContact
      BY <2>3, <2>4
    <3>2. l \in LiveCards' /\ cardContact'[l] = contactOf[e]
      BY <2>4, <3>1 DEF Reusable, CardsOf
    <3>3. l \in LiveCards /\ cardContact[l] = contactOf[e]
      BY <2>4, <3>1, <3>2
    <3> QED BY <2>4, <3>1, <3>2, <3>3 DEF Reusable, CardsOf
  <2>5. cardOf[e] \notin seen'[e] => seen'[e] \cap (Reusable(contactOf[e]))' = {}
    BY <1>2, <2>1, <2>4 DEF LookedAt, TypeOK
  <2>6. seen'[e] # {} /\ cardOf[e] \in Cards \ seen'[e] =>
          cardContact'[cardOf[e]] \in {contactOf[e], NoContact}
    BY <1>2, <2>1 DEF LookedAt, TypeOK
  <2> QED BY <2>1, <2>2, <2>3, <2>5, <2>6 DEF LookedAt
<1> QED BY <1>1, <1>2

LEMMA LookedEdit ==
  ASSUME TypeOK, TypeOK', RowsStay, Edit, NEW e \in Entries, LookedAt(e)
  PROVE  LookedAt(e)'
<1> USE InboxAssumption DEF cards, lists, LiveCards, CardRows
<1>0. UNCHANGED <<pc, cardOf, contactOf>>
  BY DEF Edit, control, locals
<1>1. ASSUME NEW ks \in SUBSET Cards, Touch(ks)
      PROVE  seen'[e] = IF cardOf[e] \in ks THEN {} ELSE seen[e] \ ks
  BY <1>1 DEF Touch
<1>2. ASSUME seen' = seen,
             \A k \in Cards :
               /\ cardContact'[k] \in {cardContact[k], NoContact}
               /\ k \in LiveCards' => /\ k \in LiveCards
                                      /\ cardColumn'[k] = cardColumn[k] /\ cardBoard'[k] = cardBoard[k]
      PROVE  LookedAt(e)'
  <2>1. seen'[e] = IF cardOf[e] \in {} THEN {} ELSE seen[e] \ {}
    BY <1>2
  <2> HIDE DEF LiveCards, CardRows
  <2> QED BY <1>0, <1>2, <2>1, LookedEdited
<1>3. ASSUME NEW c \in Contacts, DeleteContact(c) \/ ForgetContact(c) PROVE LookedAt(e)'
  BY <1>2, <1>3 DEF DeleteContact, ForgetContact, CardsGo, TypeOK
<1>4. ASSUME NEW c \in Contacts, NEW d \in Contacts, MergeContacts(c, d) PROVE LookedAt(e)'
  <2> DEFINE ks == {k \in Cards : cardContact[k] = d}
  <2>1. PICK js \in SUBSET Cards : js = ks
    OBVIOUS
  <2>2. seen'[e] = IF cardOf[e] \in js THEN {} ELSE seen[e] \ js
    BY <1>1, <1>4, <2>1 DEF MergeContacts
  <2>3. \A k \in Cards \ js :
          /\ cardContact'[k] \in {cardContact[k], NoContact}
          /\ k \in LiveCards' => /\ k \in LiveCards
                                 /\ cardColumn'[k] = cardColumn[k] /\ cardBoard'[k] = cardBoard[k]
    BY <1>4, <2>1 DEF MergeContacts, TypeOK
  <2> HIDE DEF LiveCards, CardRows
  <2> QED BY <1>0, <2>2, <2>3, LookedEdited
<1>5. ASSUME NEW k \in Cards, DeleteCard(k) \/ PurgeCard(k) PROVE LookedAt(e)'
  BY <1>2, <1>5 DEF DeleteCard, PurgeCard, CardsGo, TypeOK
<1>6. ASSUME NEW o \in Ops, PurgeActivity(o) PROVE LookedAt(e)'
  BY <1>2, <1>6 DEF PurgeActivity
<1>7. ASSUME NEW k \in Cards, Touch({k}),
             \A j \in Cards \ {k} :
               /\ cardContact'[j] = cardContact[j] /\ cardColumn'[j] = cardColumn[j]
               /\ cardBoard'[j] = cardBoard[j] /\ (j \in cardDeleted <=> j \in cardDeleted')
      PROVE  LookedAt(e)'
  <2>1. seen'[e] = IF cardOf[e] \in {k} THEN {} ELSE seen[e] \ {k}
    BY <1>1, <1>7
  <2>2. \A j \in Cards \ {k} :
          /\ cardContact'[j] \in {cardContact[j], NoContact}
          /\ j \in LiveCards' => /\ j \in LiveCards
                                 /\ cardColumn'[j] = cardColumn[j] /\ cardBoard'[j] = cardBoard[j]
    BY <1>7
  <2> HIDE DEF LiveCards, CardRows
  <2> QED BY <1>0, <2>1, <2>2, LookedEdited
<1>8. ASSUME NEW k \in Cards, RestoreCard(k) PROVE LookedAt(e)'
  BY <1>7, <1>8 DEF RestoreCard
<1>9. ASSUME NEW k \in Cards, NEW b \in Boards, NEW col \in Columns, MoveCard(k, b, col) PROVE LookedAt(e)'
  BY <1>7, <1>9 DEF MoveCard, TypeOK
<1>10. ASSUME NEW k \in Cards, NEW c \in Contacts, RelinkCard(k, c) PROVE LookedAt(e)'
  BY <1>7, <1>10 DEF RelinkCard, TypeOK
<1>11. ASSUME NEW col \in Columns, DeleteColumn(col) PROVE LookedAt(e)'
  BY <1>2, <1>11 DEF DeleteColumn, CardsGo, TypeOK
<1>12. ASSUME NEW b \in Boards, DeleteBoard(b) PROVE LookedAt(e)'
  BY <1>2, <1>12 DEF DeleteBoard, CardsGo, TypeOK
<1> QED BY <1>3, <1>4, <1>5, <1>6, <1>8, <1>9, <1>10, <1>11, <1>12 DEF Edit

\* The entry's own steps that look for a card and create one.
LEMMA LookedFind ==
  ASSUME TypeOK, ContactKnown, NEW e \in Entries, LookedAt(e), FindCard(e)
  PROVE  LookedAt(e)'
<1> USE InboxAssumption DEF Ops, TypeOK
<1>1. /\ seen'[e] = CardRows /\ CardRows \subseteq Cards /\ contactOf' = contactOf
      /\ UNCHANGED cards /\ contactOf[e] \in Contacts
  BY DEF FindCard, CardRows, tables, ContactKnown, WithContact
<1>2. CardRows' = CardRows /\ Reusable(contactOf[e])' = Reusable(contactOf[e])
  BY <1>1 DEF cards, Reusable, CardsOf, LiveCards, CardRows
<1>3. pc'[e] \notin BeforeCard
  BY DEF FindCard, AwaitCard, Keep, Await, Goto, BeforeCard
<1>4. CASE Reusable(contactOf[e]) = {} /\ cardOf' = cardOf
  BY <1>1, <1>2, <1>3, <1>4 DEF LookedAt, FindCard, BeforeCard, cards, CardRows
<1>5. ASSUME NEW k \in Reusable(contactOf[e]), cardOf' = [cardOf EXCEPT ![e] = k], AwaitCard(e)
      PROVE  LookedAt(e)'
  <2>1. cardOf'[e] \in seen'[e]
    BY <1>1, <1>5, ReusableRows
  <2>2. pc'[e] \in {"await_media", "await_log"}
    BY <1>5 DEF AwaitCard, Await, Goto
  <2> QED BY <1>1, <1>3, <2>1, <2>2 DEF LookedAt, cards, CardRows
<1> QED BY <1>4, <1>5 DEF FindCard

LEMMA LookedCreate ==
  ASSUME TypeOK, RowsKnown, NEW e \in Entries, NEW f \in Entries, LookedAt(f), CreateCard(e)
  PROVE  LookedAt(f)'
<1> USE InboxAssumption DEF Ops, TypeOK
<1>1. CASE UNCHANGED <<cards, cardOf>>
  <2>1. seen' = seen /\ contactOf' = contactOf /\ pc[e] = "insert_card"
    BY DEF CreateCard, history
  <2>2. pc'[f] = pc[f] \/ pc'[f] \in {"log_card", "failed"}
    BY DEF CreateCard, Keep, Await, Goto
  <2> QED BY <1>1, <2>1, <2>2, LookedKept DEF BeforeCard
<1>2. ASSUME NEW k \in Cards, MakeCard(e, k), Keep(e, "log_card") PROVE LookedAt(f)'
  <2>1. k \notin seen[f] /\ k \notin CardRows
    BY <1>2 DEF LookedAt, MakeCard, CardRows
  <2>2. seen' = seen /\ contactOf' = contactOf
    BY DEF CreateCard, history
  <2>3. \A l \in seen[f] : /\ cardColumn'[l] = cardColumn[l] /\ cardBoard'[l] = cardBoard[l]
                           /\ cardContact'[l] = cardContact[l] /\ cardDeleted' = cardDeleted
    BY <1>2, <2>1 DEF MakeCard
  <2>4. seen[f] \cap Reusable(contactOf[f])' = seen[f] \cap Reusable(contactOf[f])
    BY <2>2, <2>3 DEF Reusable, CardsOf, LiveCards, CardRows
  <2>5. CASE f = e
    <3>1. cardOf[e] = NoCard /\ cardOf'[e] = k /\ cardContact'[k] = contactOf[e] /\ pc'[e] = "log_card"
      BY <1>2, <2>5 DEF LookedAt, CreateCard, MakeCard, Keep, Goto
    <3> QED BY <2>1, <2>2, <2>3, <2>4, <2>5, <3>1 DEF LookedAt, BeforeCard
  <2>6. CASE f # e
    <3>1. cardOf'[f] = cardOf[f] /\ pc'[f] = pc[f] /\ cardOf[f] # k
      BY <1>2, <2>6 DEF MakeCard, Keep, Goto, RowsKnown
    <3>2. cardOf[f] \in Cards => cardContact'[cardOf[f]] = cardContact[cardOf[f]]
      BY <1>2, <3>1 DEF MakeCard
    <3> QED BY <2>2, <2>3, <2>4, <3>1, <3>2 DEF LookedAt
  <2> QED BY <2>5, <2>6
<1> QED BY <1>1, <1>2 DEF CreateCard

LEMMA LookedStep ==
  TypeOK /\ TypeOK' /\ ContactKnown /\ RowsKnown /\ Looked /\ [Next]_vars => Looked'
<1> SUFFICES ASSUME TypeOK, TypeOK', ContactKnown, RowsKnown, [Next]_vars, NEW f \in Entries, LookedAt(f)
             PROVE  LookedAt(f)'
  BY DEF Looked, LookedAt
<1> USE InboxAssumption DEF Ops
<1>1. ASSUME NEW e \in Entries, NEW w \in Workers, Deliver(e, w) PROVE LookedAt(f)'
  BY <1>1, LookedKept DEF TypeOK, Deliver, Enter, Goto, BeforeCard, tables, locals
<1>2. ASSUME NEW s \in Sends, NEW w \in Workers, StartSend(s, w) PROVE LookedAt(f)'
  BY <1>2, LookedKept DEF TypeOK, StartSend, Enter, Goto, tables, history
<1>3. ASSUME NEW e \in Entries, Ingest(e) PROVE LookedAt(f)'
  <2>1. CASE FindContact(e) \/ CreateContact(e)
    <3>1. CASE f = e
      <4>1. /\ pc[e] \in BeforeCard /\ pc'[e] \in BeforeCard /\ pc'[e] \notin {"choose_column"}
            /\ UNCHANGED <<cards, seen, cardOf>>
        BY <2>1 DEF TypeOK, FindContact, CreateContact, InsertContact, Keep, Goto, BeforeCard, tables, history
      <4> QED BY <3>1, <4>1 DEF LookedAt, BeforeCard
    <3>2. CASE f # e
      BY <2>1, <3>2, LookedKept DEF TypeOK, FindContact, CreateContact, InsertContact, Keep, Goto, tables, history
    <3> QED BY <3>1, <3>2
  <2>2. CASE FindCard(e)
    <3>1. CASE f = e
      BY <2>2, <3>1, LookedFind
    <3>2. CASE f # e
      BY <2>2, <3>2, LookedKept DEF TypeOK, FindCard, AwaitCard, Keep, Await, Goto, tables
    <3> QED BY <3>1, <3>2
  <2>3. CASE ChooseColumn(e) \/ FindBoard(e)
    <3>1. UNCHANGED <<cards, seen, cardOf, contactOf>> /\ pc[e] \in {"choose_column", "await_import"}
      BY <2>3 DEF ChooseColumn, FindBoard, tables, locals, history
    <3>2. PICK label \in {"await_import", "insert_card", "await_media", "await_log"} : Goto(e, label)
      BY <2>3 DEF ChooseColumn, Aim, FindBoard, AwaitCard, Keep, Await
    <3>3. pc'[f] = IF f = e THEN label ELSE pc[f]
      BY <3>2 DEF TypeOK, Goto
    <3> QED BY <3>1, <3>3, LookedKept DEF BeforeCard
  <2>4. CASE CreateCard(e)
    BY <2>4, LookedCreate
  <2>5. CASE LogCard(e) \/ Download(e) \/ CheckTag(e)
    <3>1. UNCHANGED <<cards, seen, cardOf, contactOf>>
      BY <2>5 DEF LogCard, Download, CheckTag, tables, locals, history
    <3>2. PICK label \in {"await_media", "await_log", "failed", "tag_apply", "done"} : Goto(e, label)
      BY <2>5 DEF LogCard, Download, CheckTag, AwaitCard, Keep, Await
    <3>3. pc'[f] = IF f = e THEN label ELSE pc[f]
      BY <3>2 DEF TypeOK, Goto
    <3> QED BY <3>1, <3>3, LookedKept DEF BeforeCard
  <2>6. CASE LogInbound(e)
    <3>1. UNCHANGED <<cards, seen, cardOf, contactOf>>
      BY <2>6 DEF LogInbound, InsertActivity, RefuseActivity, tables, locals
    <3>2. PICK label \in {"tag_check", "done", "failed"} : Goto(e, label)
      BY <2>6 DEF LogInbound, RefuseActivity, Keep, Await
    <3>3. pc'[f] = IF f = e THEN label ELSE pc[f]
      BY <3>2 DEF TypeOK, Goto
    <3> QED BY <3>1, <3>3, LookedKept DEF BeforeCard
  <2>7. CASE ApplyTag(e)
    <3>1. /\ UNCHANGED <<seen, cardOf, contactOf, cardColumn, cardBoard, cardContact, cardDeleted>>
          /\ pc'[f] = pc[f] \/ pc'[f] = "done"
      BY <2>7 DEF TypeOK, ApplyTag, Await, Goto, locals, history
    <3> QED BY <3>1 DEF LookedAt, BeforeCard, Reusable, CardsOf, LiveCards, CardRows
  <2> QED BY <1>3, <2>1, <2>2, <2>3, <2>4, <2>5, <2>6, <2>7 DEF Ingest
<1>4. ASSUME NEW s \in Sends, Send(s) PROVE LookedAt(f)'
  BY <1>4, LookedKept DEF TypeOK, Send, ProviderAccepts, SendFails, ResolveContact, CreateRecipient,
     InsertContact, LogOutbound, InsertActivity, RefuseActivity, Keep, Await, Goto, tables, control, locals, history
<1>5. CASE Edit
  BY <1>5, LookedEdit, RowsStayEdit
<1>6. ASSUME NEW w \in Workers, Crash(w) PROVE LookedAt(f)'
  BY <1>6, LookedKept DEF TypeOK, Crash, BeforeCard, tables, locals, history
<1>7. ASSUME NEW o \in Ops, Throws(o) PROVE LookedAt(f)'
  BY <1>7, LookedKept DEF TypeOK, Throws, Await, Goto, BeforeCard, tables, locals, history
<1>8. CASE UNCHANGED vars
  BY <1>8, LookedKept DEF vars, tables, control, locals, history
<1> QED BY <1>1, <1>2, <1>3, <1>4, <1>5, <1>6, <1>7, <1>8 DEF Next, Start, Step, Fault

LEMMA IInvStep == IInv /\ [Next]_vars => IInv'
  BY TypeStep, ContactKnownStep, RowsKnownStep, InsertedOnceStep, CheckHoldsStep, AccountedStep,
     LookedStep DEF IInv

-----------------------------------------------------------------------------
(* The theorems *)

\* The invariant is inductive, so it holds in every reachable state.
LEMMA Inductive == Spec => []IInv
  BY InitIInv, IInvStep, PTL DEF Spec

\* Every variable keeps its type in every behaviour of the inbox (inbox.ts).
THEOREM TypeCorrect == Spec => []TypeOK
  BY Inductive, PTL DEF IInv

\* A logged message is never logged again by an entry checked after that, with any number of
\* workers, redeliveries, merges and crashes: duplicates come only from overlapping runs.
THEOREM OverlapOnly == Spec => []OnlyOverlapsDuplicate
  BY Inductive, IInvNoOverlap, PTL

\* A finished or skipped entry has its message in the log at that time; a run whose INSERT was
\* refused had its contact, its card, or its card's board or column taken away meanwhile.
THEOREM NothingDroppedSilently == Spec => []Accounted
  BY Inductive, PTL DEF IInv

\* A second open card of a client comes only from runs that overlapped or from an edit, with
\* any number of workers, clients and columns, on channels with and without their own column.
THEOREM OneCardUnlessRaced == Spec => []SecondCardOverlaps
  BY Inductive, IInvOneCard, PTL

-----------------------------------------------------------------------------
(* One run at a time (SerialSpec): a message is logged once. *)

\* Labels before the message row is inserted.
BeforeLog == {"find_contact", "create_contact", "find_card", "choose_column", "await_import",
              "insert_card", "log_card", "await_media", "await_log"}
Sending   == {"idle", "await_send", "create_to", "log_send"}

Alone == \A o, p \in Ops : pc[o] \in Running /\ pc[p] \in Running => o = p

EntriesRun == \A e \in Entries : /\ pc[e] \in Running => pc[e] \in BeforeLog \cup {"tag_check", "tag_apply"}
                                 /\ pc[e] \in BeforeLog => ~AlreadyLogged(e) /\ Deliverable(e)

SendsFresh == \A s \in Sends : /\ pc[s] = "idle" => s \notin accepted
                               /\ pc[s] \in Running => pc[s] \in Sending
                               /\ pc[s] # "lost"
                               /\ pc[s] \in Sending => \A o \in logged : Mid[o] # Mid[s]

SInv == TypeOK /\ Alone /\ EntriesRun /\ SendsFresh /\ LoggedOnce

LEMMA SerialIsNext == [SerialNext]_vars => [Next]_vars
  BY DEF SerialNext, Next, Fault

LEMMA InitSInv == Init => SInv
  BY InitIInv DEF IInv, Init, SInv, Alone, EntriesRun, SendsFresh, LoggedOnce, Running, Sending, BeforeLog, Ops

LEMMA AloneStep == TypeOK /\ Alone /\ [SerialNext]_vars => Alone'
<1> SUFFICES ASSUME TypeOK, Alone, [SerialNext]_vars PROVE Alone'
  OBVIOUS
<1> USE DEF TypeOK, Alone, Ops, Running
<1>1. CASE Quiet /\ Start
  BY <1>1 DEF Quiet, Start, Deliver, StartSend, Enter, Goto
<1>2. CASE Edit
  BY <1>2 DEF Edit, control
<1>3. ASSUME NEW e \in Entries, Ingest(e) PROVE Alone'
  BY <1>3 DEF Ingest, FindContact, CreateContact, FindCard, ChooseColumn, Aim, FindBoard, CreateCard, LogCard,
     Download, AwaitCard, LogInbound, RefuseActivity, CheckTag, ApplyTag, Keep, Await, Goto
<1>4. ASSUME NEW s \in Sends, Send(s) PROVE Alone'
  BY <1>4 DEF Send, ProviderAccepts, SendFails, ResolveContact, CreateRecipient, LogOutbound,
     RefuseActivity, Keep, Await, Goto, control
<1>5. ASSUME NEW o \in Ops, Throws(o) PROVE Alone'
  BY <1>5 DEF Throws, Await, Goto
<1>6. CASE UNCHANGED vars
  BY <1>6 DEF vars, control
<1> QED BY <1>1, <1>2, <1>3, <1>4, <1>5, <1>6 DEF SerialNext, Step

LEMMA LoggedOnceStep == SInv /\ [SerialNext]_vars => (EntriesRun /\ SendsFresh /\ LoggedOnce)'
<1> SUFFICES ASSUME SInv, [SerialNext]_vars PROVE (EntriesRun /\ SendsFresh /\ LoggedOnce)'
  OBVIOUS
<1> USE InboxAssumption DEF SInv, TypeOK, Ops, EntriesRun, SendsFresh, LoggedOnce, AlreadyLogged,
        Deliverable, Running, Sending, BeforeLog
<1>1. ASSUME NEW e \in Entries, NEW w \in Workers, Quiet, Deliver(e, w)
      PROVE  (EntriesRun /\ SendsFresh /\ LoggedOnce)'
  BY <1>1 DEF Quiet, Deliver, Enter, Goto, tables
<1>2. ASSUME NEW s \in Sends, NEW w \in Workers, Quiet, StartSend(s, w)
      PROVE  (EntriesRun /\ SendsFresh /\ LoggedOnce)'
  BY <1>2 DEF Quiet, StartSend, Enter, Goto, tables
<1>3. CASE Edit
  <2>1. pc' = pc /\ accepted' = accepted
    BY <1>3 DEF Edit, control
  <2>2. logged' \subseteq logged
    BY <1>3, EditLog
  <2> QED BY <2>1, <2>2
<1>4. ASSUME NEW e \in Entries, Ingest(e) PROVE (EntriesRun /\ SendsFresh /\ LoggedOnce)'
  <2>0. ASSUME pc[e] \in BeforeLog, UNCHANGED <<logged, accepted>>,
               NEW label \in BeforeLog \cup {"failed"}, Goto(e, label)
        PROVE  (EntriesRun /\ SendsFresh /\ LoggedOnce)'
    <3>1. \A o \in Ops : pc'[o] = IF o = e THEN label ELSE pc[o]
      BY <2>0 DEF Goto
    <3> QED BY <2>0, <3>1
  <2>1. CASE FindContact(e) \/ CreateContact(e) \/ FindCard(e)
    <3>1. UNCHANGED <<logged, accepted>> /\ pc[e] \in BeforeLog
      BY <2>1 DEF FindContact, CreateContact, InsertContact, FindCard, tables
    <3>2. \E label \in BeforeLog : Goto(e, label)
      BY <2>1 DEF FindContact, CreateContact, FindCard, AwaitCard, Keep, Await
    <3> QED BY <2>0, <3>1, <3>2
  <2>4. CASE ChooseColumn(e) \/ FindBoard(e) \/ CreateCard(e)
    <3>1. UNCHANGED <<logged, accepted>> /\ pc[e] \in BeforeLog
      BY <2>4 DEF ChooseColumn, FindBoard, CreateCard, tables
    <3>2. \E label \in BeforeLog \cup {"failed"} : Goto(e, label)
      BY <2>4 DEF ChooseColumn, Aim, FindBoard, CreateCard, AwaitCard, Keep, Await
    <3> QED BY <2>0, <3>1, <3>2
  <2>5. CASE LogCard(e) \/ Download(e)
    <3>1. UNCHANGED <<logged, accepted>> /\ pc[e] \in BeforeLog
      BY <2>5 DEF LogCard, Download, tables
    <3>2. \E label \in BeforeLog \cup {"failed"} : Goto(e, label)
      BY <2>5 DEF LogCard, Download, AwaitCard, Keep, Await
    <3> QED BY <2>0, <3>1, <3>2
  <2>2. CASE LogInbound(e)
    <3>1. \A o \in Ops : o # e => pc[o] \notin Running
      BY <2>2 DEF LogInbound, Alone
    <3>2. \A s \in Sends : Mid[s] = Mid[e] => pc[s] \notin Sending
      BY <2>2, <3>1 DEF LogInbound
    <3>3. CASE InsertActivity(e) /\ (Keep(e, "tag_check") \/ Await(e, "done"))
      <4>1. PICK label \in {"tag_check", "done"} : Goto(e, label)
        BY <3>3 DEF Keep, Await
      <4>2. \A o \in Ops : pc'[o] = IF o = e THEN label ELSE pc[o]
        BY <4>1 DEF Goto
      <4>3. logged' = logged \cup {e} /\ accepted' = accepted
        BY <2>2, <3>3 DEF LogInbound, InsertActivity
      <4>4. \A o \in logged : Mid[o] # Mid[e]
        BY <2>2 DEF LogInbound
      <4>5. EntriesRun'
        BY <3>1, <4>2, <4>3
      <4>6. SendsFresh'
        BY <3>2, <4>2, <4>3
      <4>7. LoggedOnce'
        BY <4>3, <4>4
      <4> QED BY <4>5, <4>6, <4>7
    <3>4. CASE RefuseActivity(e)
      BY <2>2, <3>4 DEF LogInbound, RefuseActivity, Await, Goto, tables
    <3> QED BY <2>2, <3>3, <3>4 DEF LogInbound
  <2>3. CASE CheckTag(e) \/ ApplyTag(e)
    BY <2>3 DEF CheckTag, ApplyTag, Keep, Await, Goto, tables
  <2> QED BY <1>4, <2>1, <2>2, <2>3, <2>4, <2>5 DEF Ingest
<1>5. ASSUME NEW s \in Sends, Send(s) PROVE (EntriesRun /\ SendsFresh /\ LoggedOnce)'
  <2>1. CASE ProviderAccepts(s)
    BY <2>1 DEF ProviderAccepts, tables, control
  <2>2. CASE SendFails(s) \/ ResolveContact(s) \/ CreateRecipient(s)
    BY <2>2 DEF SendFails, ResolveContact, CreateRecipient, InsertContact, Keep, Await, Goto, tables
  <2>3. CASE LogOutbound(s)
    <3>1. \A o \in Ops : o # s => pc[o] \notin Running
      BY <2>3 DEF LogOutbound, Alone
    <3>2. CASE InsertActivity(s) /\ Await(s, "done")
      BY <2>3, <3>1, <3>2 DEF LogOutbound, InsertActivity, Await, Goto
    <3>3. CASE RefuseActivity(s)
      BY <2>3, <3>1, <3>3 DEF LogOutbound, RefuseActivity, Await, Goto, tables
    <3> QED BY <2>3, <3>2, <3>3 DEF LogOutbound
  <2> QED BY <1>5, <2>1, <2>2, <2>3 DEF Send
<1>6. ASSUME NEW o \in Ops, Throws(o) PROVE (EntriesRun /\ SendsFresh /\ LoggedOnce)'
  BY <1>6 DEF Throws, Await, Goto, tables
<1>7. CASE UNCHANGED vars
  BY <1>7 DEF vars, tables, control
<1> QED BY <1>1, <1>2, <1>3, <1>4, <1>5, <1>6, <1>7 DEF SerialNext, Step, Start

LEMMA SInvStep == SInv /\ [SerialNext]_vars => SInv'
  BY SerialIsNext, TypeStep, AloneStep, LoggedOnceStep DEF SInv

\* The comment of ingestInbound, for runs that do not overlap: a message and its
\* redeliveries and echoes leave one row.
THEOREM SerialLoggedOnce == SerialSpec => []LoggedOnce
  BY InitSInv, SInvStep, PTL DEF SerialSpec, SInv
=============================================================================
