------------------------------- MODULE Inbox -------------------------------
(***************************************************************************)
(* The CRM inbox (src/crm/inbox.ts): ingestInbound turns a WhatsApp        *)
(* webhook entry into a contact, a card and an activity row, sendOutbound  *)
(* sends through the provider and logs what was sent.                      *)
(*                                                                         *)
(* Every worker of the PM2 cluster has its own event loop and its own      *)
(* connection to one SQLite database.  A step below is one SQL statement   *)
(* (or one run of statements no other worker can tell apart); a worker     *)
(* keeps its loop from one step to the next unless the code awaits in      *)
(* between, so two runs on one worker interleave only at an await and two  *)
(* runs on different workers at every statement.                           *)
(*                                                                         *)
(* An entry is one delivery of a message by the provider: redeliveries and *)
(* the echo of a message the CRM itself sent are entries with the same     *)
(* provider message id.                                                    *)
(*                                                                         *)
(* Row ids are drawn once (nid), so a row has one life: it is drawn, lives *)
(* and may be gone.  The tables are tied by foreign keys (001_initial_     *)
(* schema.sql, foreign_keys = ON): an INSERT that names a row that is gone *)
(* is refused and throws, a DELETE cascades or sets NULL.                  *)
(***************************************************************************)
EXTENDS Naturals, FiniteSets

CONSTANTS Entries,      \* webhook entries the provider delivers
          Sends,        \* calls of sendOutbound
          Mids,         \* provider message ids
          Mid,          \* the message id of an entry or of a send
          Phones, Phone,
          FromMe,       \* the entries with fromMe = true
          Media,        \* the entries that carry media to download
          Paid,         \* the entries whose text is the click-to-chat text
          Workers,
          Contacts, Cards,          \* row ids, drawn once (nid)
          Boards, InitBoards,       \* board ids, and the boards there are at first
          Columns, BoardOf,         \* column ids and crm_columns.board_id
          Terminal, LeadColumns,    \* is_terminal; the columns whose name is a lead's
          InboxBoard, InboxColumn,  \* channel.inboxBoardId and inboxColumnId, if set
          AutoCreate,   \* channel.autoCreateCards
          MaxEdits,     \* bound: what users edit meanwhile
          NoWorker, NoOp, NoContact, NoCard, NoBoard, NoColumn, NoPhone, Gone

Ops == Entries \cup Sends

ASSUME InboxAssumption ==
  /\ Entries \cap Sends = {}
  /\ \A s, t \in Sends : Mid[s] = Mid[t] => s = t    \* the provider draws a new id
  /\ Mid \in [Ops -> Mids] /\ Phone \in [Ops -> Phones]
  /\ FromMe \subseteq Entries /\ Media \subseteq Entries /\ Paid \subseteq Entries
  /\ InitBoards \subseteq Boards /\ BoardOf \in [Columns -> Boards]
  /\ Terminal \subseteq Columns /\ LeadColumns \subseteq Columns
  /\ NoColumn \notin Columns /\ NoBoard \notin Boards
  /\ InboxBoard \in InitBoards \cup {NoBoard}      \* set when there was such a row
  /\ InboxColumn \in {col \in Columns : BoardOf[col] \in InitBoards} \cup {NoColumn}
  /\ AutoCreate \in BOOLEAN /\ MaxEdits \in Nat
  /\ NoWorker \notin Workers /\ NoOp \notin Ops
  /\ NoContact \notin Contacts /\ NoCard \notin Cards
  /\ NoPhone \notin Phones /\ Gone \notin Phones /\ Gone # NoPhone
  /\ Gone \notin Columns /\ Gone # NoColumn

VARIABLES
  boardRow,      \* crm_boards: a row is "none" before INSERT, "live", or "gone"
  columnRow,     \* crm_columns, likewise
  contactPhone,  \* crm_contacts: the phone of a row, NoPhone before INSERT, Gone after DELETE
  cardColumn,    \* crm_cards: the column of a row, NoColumn before INSERT, Gone after DELETE
  cardBoard,     \* crm_cards.board_id
  cardContact,   \* crm_cards.contact_id
  cardDeleted,   \* cards with deleted_at set
  cardTags,      \* crm_card_tags, of the two lead tags
  logged,        \* crm_activities: the operations whose message row exists
  actContact,    \* contact_id of that row; its card_id is the operation's card
  pc,            \* where each operation is
  worker,        \* the worker running it
  loop,          \* the operation inside a synchronous block of a worker's event loop
  contactOf,     \* local contact.id / contactId
  cardOf,        \* local card?.id / opts.cardId
  target,        \* locals boardId and columnId of the card to create
  accepted,      \* sends the provider has accepted
  edits,         \* how often users have edited
  ever,          \* history: operations whose row was inserted at some time
  before,        \* history: "ever" at the duplicate check of an entry
  seen           \* history: the cards there were when an entry looked for one, without those
                 \* edited since; none once the entry's own card is edited

cards   == <<cardColumn, cardBoard, cardContact, cardDeleted, cardTags>>
lists   == <<boardRow, columnRow>>
tables  == <<lists, contactPhone, cards, logged, actContact>>
control == <<pc, worker, loop>>
locals  == <<contactOf, cardOf, target>>
history == <<ever, before, seen>>
vars    == <<tables, control, locals, accepted, edits, history>>

LeadTags == {"lead_pago", "lead_aleatorio"}

Running  == {"find_contact", "create_contact", "find_card", "choose_column", "await_import",
             "insert_card", "log_card", "await_media", "await_log", "tag_check", "tag_apply",
             "await_send", "create_to", "log_send"}
Finished == {"done", "skipped", "failed", "error", "lost"}
RowState == {"none", "live", "gone"}

LiveContacts == {c \in Contacts : contactPhone[c] \in Phones}
GoneContacts == {c \in Contacts : contactPhone[c] = Gone}
GoneCards    == {k \in Cards : cardColumn[k] = Gone}
CardRows     == {k \in Cards : cardColumn[k] \in Columns}
LiveCards    == CardRows \ cardDeleted
LiveBoards   == {b \in Boards : boardRow[b] = "live"}
LiveColumns  == {col \in Columns : columnRow[col] = "live"}

\* The foreign keys of crm_activities: contact_id and card_id.  A card with deleted_at set
\* is still a row.
ForeignKeysOk(c, k) ==
  /\ c = NoContact \/ c \in LiveContacts
  /\ k = NoCard \/ k \in CardRows

\* Those of crm_cards: contact_id, board_id and column_id.
CardKeysOk(c, t) ==
  /\ c = NoContact \/ c \in LiveContacts
  /\ t[1] \in LiveBoards /\ t[2] \in LiveColumns

Init ==
  /\ boardRow = [b \in Boards |-> IF b \in InitBoards THEN "live" ELSE "none"]
  /\ columnRow = [col \in Columns |-> IF BoardOf[col] \in InitBoards THEN "live" ELSE "none"]
  /\ contactPhone = [c \in Contacts |-> NoPhone]
  /\ cardColumn = [k \in Cards |-> NoColumn]
  /\ cardBoard = [k \in Cards |-> NoBoard]
  /\ cardContact = [k \in Cards |-> NoContact]
  /\ cardDeleted = {}
  /\ cardTags = [k \in Cards |-> {}]
  /\ logged = {}
  /\ actContact = [o \in Ops |-> NoContact]
  /\ pc = [o \in Ops |-> "idle"]
  /\ worker = [o \in Ops |-> NoWorker]
  /\ loop = [w \in Workers |-> NoOp]
  /\ contactOf = [o \in Ops |-> NoContact]
  /\ cardOf = [o \in Ops |-> NoCard]
  /\ target = [e \in Entries |-> <<NoBoard, NoColumn>>]
  /\ accepted = {}
  /\ edits = 0
  /\ ever = {}
  /\ before = [o \in Ops |-> {}]
  /\ seen = [e \in Entries |-> {}]

(***************************************************************************)
(* The event loop.  MayRun(o): o can take a step, either because it is     *)
(* inside its synchronous block or because its worker's loop is free.      *)
(* Keep and Await say whether the block goes on after the step.            *)
(***************************************************************************)
MayRun(o) == loop[worker[o]] \in {NoOp, o}

Goto(o, label) == pc' = [pc EXCEPT ![o] = label]

Keep(o, label) ==
  /\ Goto(o, label)
  /\ loop' = [loop EXCEPT ![worker[o]] = o]
  /\ UNCHANGED worker

Await(o, label) ==
  /\ Goto(o, label)
  /\ loop' = [loop EXCEPT ![worker[o]] = NoOp]
  /\ UNCHANGED worker

AwaitCard(o) == Await(o, IF o \in Media THEN "await_media" ELSE "await_log")

\* A run enters its worker's loop.
Enter(o, w, label) ==
  /\ pc[o] = "idle" /\ loop[w] = NoOp
  /\ Goto(o, label)
  /\ worker' = [worker EXCEPT ![o] = w]
  /\ loop' = [loop EXCEPT ![w] = IF label \in {"skipped", "await_send"} THEN NoOp ELSE o]

-----------------------------------------------------------------------------
(* ingestInbound *)

\* The provider echoes a send only after it has accepted it.
Deliverable(e) == \A s \in Sends : Mid[s] = Mid[e] => s \in accepted

\* Mutant: the check scoped to a contact that is not looked up yet.
AlreadyLoggedForContact(e) == \E o \in logged : Mid[o] = Mid[e] /\ actContact[o] = contactOf[e]

AlreadyLogged(e) == \E o \in logged : Mid[o] = Mid[e]

\* Step 1, wasAlreadyLogged / checkProviderId.
Deliver(e, w) ==
  /\ Deliverable(e)
  /\ Enter(e, w, IF AlreadyLogged(e) THEN "skipped" ELSE "find_contact")
  /\ before' = [before EXCEPT ![e] = ever]
  /\ UNCHANGED <<tables, locals, accepted, edits, ever, seen>>

\* Step 2, upsertContactByPhone: SELECT ... LIMIT 1, then createContact if there is none.
\* The lookup does not filter deleted_at; a deleted contact is a row that is gone.
WithPhone(p) == {c \in Contacts : contactPhone[c] = p}

FindContact(e) ==
  /\ pc[e] = "find_contact" /\ MayRun(e)
  /\ \/ /\ WithPhone(Phone[e]) = {}
        /\ Keep(e, "create_contact") /\ UNCHANGED contactOf
     \/ \E c \in WithPhone(Phone[e]) :
          /\ contactOf' = [contactOf EXCEPT ![e] = c]
          /\ Keep(e, "find_card")
  /\ UNCHANGED <<tables, cardOf, target, accepted, edits, history>>

InsertContact(o, c) ==
  /\ contactPhone[c] = NoPhone
  /\ contactPhone' = [contactPhone EXCEPT ![c] = Phone[o]]
  /\ contactOf' = [contactOf EXCEPT ![o] = c]
  /\ UNCHANGED <<lists, cards, logged, actContact>>

CreateContact(e) ==
  /\ pc[e] = "create_contact" /\ MayRun(e)
  /\ \E c \in Contacts : InsertContact(e, c)
  /\ Keep(e, "find_card")
  /\ UNCHANGED <<cardOf, target, accepted, edits, history>>

\* Step 3, findOrCreateOpenCardForContact: the contact's cards that may be reused.  Without an
\* inbox column those whose column, looked up on the card's own board, is not terminal.
CardsOf(c) == {k \in LiveCards : cardContact[k] = c}

Reusable(c) ==
  IF InboxColumn # NoColumn
  THEN {k \in CardsOf(c) : cardColumn[k] = InboxColumn}
  ELSE {k \in CardsOf(c) : cardColumn[k] \notin Terminal /\ BoardOf[cardColumn[k]] = cardBoard[k]}

\* Mutant: a card is created without looking for one.
FindCardUnchecked(e) ==
  /\ pc[e] = "find_card" /\ MayRun(e)
  /\ seen' = [seen EXCEPT ![e] = CardRows]
  /\ Keep(e, "choose_column")
  /\ UNCHANGED <<tables, locals, accepted, edits, ever, before>>

FindCard(e) ==
  /\ pc[e] = "find_card" /\ MayRun(e)
  /\ seen' = [seen EXCEPT ![e] = CardRows]
  /\ \/ \E k \in Reusable(contactOf[e]) :
          /\ cardOf' = [cardOf EXCEPT ![e] = k]
          /\ AwaitCard(e)
     \/ /\ Reusable(contactOf[e]) = {} /\ ~AutoCreate
        /\ AwaitCard(e) /\ UNCHANGED cardOf
     \/ /\ Reusable(contactOf[e]) = {} /\ AutoCreate
        /\ Keep(e, "choose_column") /\ UNCHANGED cardOf
  /\ UNCHANGED <<tables, contactOf, target, accepted, edits, ever, before>>

\* Where the new card goes.  The channel's board and column are taken as they are, whether
\* or not the rows are there; they have no foreign key.  If either is not set both are looked
\* up: the tenant's first sales board or first board, which users order and type as they
\* like, and on it a lead column, else one that is not terminal, else any.
ColumnsOn(b) == {col \in LiveColumns : BoardOf[col] = b}

FirstColumns(cols) ==
  IF cols \cap LeadColumns # {} THEN cols \cap LeadColumns
  ELSE IF cols \ Terminal # {} THEN cols \ Terminal
  ELSE cols

Aim(e, b, col) ==
  /\ target' = [target EXCEPT ![e] = <<b, col>>]
  /\ Await(e, "await_import")

\* seedDefaultBoards, for a tenant that has no board: new rows.
SeedBoard(b) ==
  /\ boardRow[b] = "none"
  /\ boardRow' = [boardRow EXCEPT ![b] = "live"]
  /\ columnRow' = [col \in Columns |-> IF BoardOf[col] = b THEN "live" ELSE columnRow[col]]

ChooseColumn(e) ==
  /\ pc[e] = "choose_column" /\ MayRun(e)
  /\ \/ /\ InboxBoard # NoBoard /\ InboxColumn # NoColumn
        /\ Aim(e, InboxBoard, InboxColumn) /\ UNCHANGED lists
     \/ /\ InboxBoard = NoBoard \/ InboxColumn = NoColumn
        /\ \E b \in LiveBoards :
             \/ \E col \in FirstColumns(ColumnsOn(b)) : Aim(e, b, col)
             \/ ColumnsOn(b) = {} /\ AwaitCard(e) /\ UNCHANGED target
        /\ UNCHANGED lists
     \/ /\ InboxBoard = NoBoard \/ InboxColumn = NoColumn
        /\ LiveBoards = {}
        /\ \E b \in Boards, col \in LeadColumns :
             SeedBoard(b) /\ BoardOf[col] = b /\ Aim(e, b, col)
  /\ UNCHANGED <<contactPhone, cards, logged, actContact, contactOf, cardOf, accepted, edits, history>>

\* After `await import('./schema.js')`: createCard finds the board, or returns null.
FindBoard(e) ==
  /\ pc[e] = "await_import" /\ MayRun(e)
  /\ IF target[e][1] \in LiveBoards THEN Keep(e, "insert_card") ELSE AwaitCard(e)
  /\ UNCHANGED <<tables, locals, accepted, edits, history>>

MakeCard(e, k) ==
  /\ cardColumn[k] = NoColumn
  /\ cardColumn' = [cardColumn EXCEPT ![k] = target[e][2]]
  /\ cardBoard' = [cardBoard EXCEPT ![k] = target[e][1]]
  /\ cardContact' = [cardContact EXCEPT ![k] = contactOf[e]]
  /\ cardOf' = [cardOf EXCEPT ![e] = k]
  /\ UNCHANGED <<cardDeleted, cardTags>>

\* Mutant: a refused INSERT is caught and the creation retried.
CreateCardRetrying(e) ==
  /\ pc[e] = "insert_card" /\ MayRun(e)
  /\ CardKeysOk(contactOf[e], target[e])
  /\ \E k \in Cards : MakeCard(e, k)
  /\ Keep(e, "log_card")
  /\ UNCHANGED <<lists, contactPhone, logged, actContact, contactOf, target, accepted, edits, history>>

\* Its INSERT is refused when the contact, the board or the column is gone, and the run throws.
CreateCard(e) ==
  /\ pc[e] = "insert_card" /\ MayRun(e)
  /\ \/ /\ CardKeysOk(contactOf[e], target[e])
        /\ \E k \in Cards : MakeCard(e, k)
        /\ Keep(e, "log_card")
     \/ /\ ~CardKeysOk(contactOf[e], target[e])
        /\ Await(e, "failed")
        /\ UNCHANGED <<cards, cardOf>>
  /\ UNCHANGED <<lists, contactPhone, logged, actContact, contactOf, target, accepted, edits, history>>

\* createCard's own activity ("Card criado"), which has the card and the contact too.
LogCard(e) ==
  /\ pc[e] = "log_card" /\ MayRun(e)
  /\ IF ForeignKeysOk(contactOf[e], cardOf[e]) THEN AwaitCard(e) ELSE Await(e, "failed")
  /\ UNCHANGED <<tables, locals, accepted, edits, history>>

\* Step 4, downloadAndSave: a failed download returns null and the run goes on.
Download(e) ==
  /\ pc[e] = "await_media" /\ MayRun(e)
  /\ Await(e, "await_log")
  /\ UNCHANGED <<tables, locals, accepted, edits, history>>

\* logActivity: one INSERT, refused when its contact or its card is gone.
InsertActivity(o) ==
  /\ ForeignKeysOk(contactOf[o], cardOf[o])
  /\ logged' = logged \cup {o}
  /\ ever' = ever \cup {o}
  /\ actContact' = [actContact EXCEPT ![o] = contactOf[o]]
  /\ UNCHANGED <<lists, contactPhone, cards>>

\* Mutant: the failed INSERT is swallowed.
RefuseSilently(o) ==
  /\ ~ForeignKeysOk(contactOf[o], cardOf[o])
  /\ Await(o, "done")
  /\ UNCHANGED <<tables, ever>>

RefuseActivity(o) ==
  /\ ~ForeignKeysOk(contactOf[o], cardOf[o])
  /\ Await(o, "failed")
  /\ UNCHANGED <<tables, ever>>

\* Step 6; step 6.1 follows for an inbound text on a card.
Classified(e) == cardOf[e] # NoCard /\ e \notin FromMe /\ e \notin Media

LogInbound(e) ==
  /\ pc[e] = "await_log" /\ MayRun(e)
  /\ \/ /\ InsertActivity(e)
        /\ IF Classified(e) THEN Keep(e, "tag_check") ELSE Await(e, "done")
     \/ RefuseActivity(e)
  /\ UNCHANGED <<locals, accepted, edits, before, seen>>

\* Step 6.1, cardHasTag of each lead tag, then applyTagSystem.
CheckTag(e) ==
  /\ pc[e] = "tag_check" /\ MayRun(e)
  /\ IF cardTags[cardOf[e]] = {} THEN Keep(e, "tag_apply") ELSE Await(e, "done")
  /\ UNCHANGED <<tables, locals, accepted, edits, history>>

LeadTag(e) == IF e \in Paid THEN "lead_pago" ELSE "lead_aleatorio"

\* applyTagSystem swallows what its INSERT throws, as it does when the card is gone.
ApplyTag(e) ==
  /\ pc[e] = "tag_apply" /\ MayRun(e)
  /\ cardTags' = IF cardOf[e] \in CardRows
                 THEN [cardTags EXCEPT ![cardOf[e]] = @ \cup {LeadTag(e)}] ELSE cardTags
  /\ Await(e, "done")
  /\ UNCHANGED <<lists, contactPhone, cardColumn, cardBoard, cardContact, cardDeleted, logged,
                 actContact, locals, accepted, edits, history>>

-----------------------------------------------------------------------------
(* sendOutbound.  The caller may name a card and a contact. *)

StartSend(s, w) ==
  /\ Enter(s, w, "await_send")
  /\ \E k \in LiveCards \cup {NoCard} : cardOf' = [cardOf EXCEPT ![s] = k]
  /\ \E c \in LiveContacts \cup {NoContact} : contactOf' = [contactOf EXCEPT ![s] = c]
  /\ UNCHANGED <<tables, target, accepted, edits, history>>

\* The provider answers on its own: it accepts the message while the call is awaited.
ProviderAccepts(s) ==
  /\ pc[s] \in {"await_send", "lost"} /\ worker[s] \in Workers /\ s \notin accepted
  /\ accepted' = accepted \cup {s}
  /\ UNCHANGED <<tables, control, locals, edits, history>>

\* `if (!result.ok) return`: the call failed before the provider accepted it.
SendFails(s) ==
  /\ pc[s] = "await_send" /\ MayRun(s) /\ s \notin accepted
  /\ Await(s, "failed")
  /\ UNCHANGED <<tables, locals, accepted, edits, history>>

\* The answer arrives: contact given, found by phone, or to be created.
ResolveContact(s) ==
  /\ pc[s] = "await_send" /\ MayRun(s) /\ s \in accepted
  /\ \/ /\ contactOf[s] # NoContact
        /\ Keep(s, "log_send") /\ UNCHANGED contactOf
     \/ /\ contactOf[s] = NoContact /\ WithPhone(Phone[s]) = {}
        /\ Keep(s, "create_to") /\ UNCHANGED contactOf
     \/ /\ contactOf[s] = NoContact
        /\ \E c \in WithPhone(Phone[s]) : contactOf' = [contactOf EXCEPT ![s] = c]
        /\ Keep(s, "log_send")
  /\ UNCHANGED <<tables, cardOf, target, accepted, edits, history>>

CreateRecipient(s) ==
  /\ pc[s] = "create_to" /\ MayRun(s)
  /\ \E c \in Contacts : InsertContact(s, c)
  /\ Keep(s, "log_send")
  /\ UNCHANGED <<cardOf, target, accepted, edits, history>>

LogOutbound(s) ==
  /\ pc[s] = "log_send" /\ MayRun(s)
  /\ \/ InsertActivity(s) /\ Await(s, "done")
     \/ RefuseActivity(s)
  /\ UNCHANGED <<locals, accepted, edits, before, seen>>

-----------------------------------------------------------------------------
(* What users do meanwhile (routes/contacts.ts, cards.ts, boards.ts), and how a run ends. *)

\* Cards that users change or that change hands.
Touch(ks) == seen' = [e \in Entries |-> IF cardOf[e] \in ks THEN {} ELSE seen[e] \ ks]

\* deleteContact: activities CASCADE, cards SET NULL.
DeleteContact(c) ==
  /\ c \in LiveContacts
  /\ contactPhone' = [contactPhone EXCEPT ![c] = Gone]
  /\ cardContact' = [k \in Cards |-> IF cardContact[k] = c THEN NoContact ELSE cardContact[k]]
  /\ logged' = {o \in logged : actContact[o] # c}
  /\ UNCHANGED <<lists, cardColumn, cardBoard, cardDeleted, cardTags, actContact, seen>>

\* mergeContacts: one transaction moves cards and activities, then deletes the merged row.
MergeContacts(keep, merge) ==
  /\ keep \in LiveContacts /\ merge \in LiveContacts /\ keep # merge
  /\ contactPhone' = [contactPhone EXCEPT ![merge] = Gone]
  /\ cardContact' = [k \in Cards |-> IF cardContact[k] = merge THEN keep ELSE cardContact[k]]
  /\ actContact' = [o \in Ops |-> IF o \in logged /\ actContact[o] = merge
                                  THEN keep ELSE actContact[o]]
  /\ Touch({k \in Cards : cardContact[k] = merge})
  /\ UNCHANGED <<lists, cardColumn, cardBoard, cardDeleted, cardTags, logged>>

\* moveCard and updateCard (PATCH /cards/:id passes board, column and contact through).
MoveCard(k, b, col) ==
  /\ k \in LiveCards /\ b \in LiveBoards /\ col \in LiveColumns
  /\ <<cardBoard[k], cardColumn[k]>> # <<b, col>>
  /\ cardColumn' = [cardColumn EXCEPT ![k] = col]
  /\ cardBoard' = [cardBoard EXCEPT ![k] = b]
  /\ Touch({k})
  /\ UNCHANGED <<lists, contactPhone, cardContact, cardDeleted, cardTags, logged, actContact>>

RelinkCard(k, c) ==
  /\ k \in LiveCards /\ c \in LiveContacts /\ cardContact[k] # c
  /\ cardContact' = [cardContact EXCEPT ![k] = c]
  /\ Touch({k})
  /\ UNCHANGED <<lists, contactPhone, cardColumn, cardBoard, cardDeleted, cardTags, logged, actContact>>

\* deleteCard sets deleted_at.
DeleteCard(k) ==
  /\ k \in LiveCards
  /\ cardDeleted' = cardDeleted \cup {k}
  /\ UNCHANGED <<lists, contactPhone, cardColumn, cardBoard, cardContact, cardTags, logged,
                 actContact, seen>>

\* restore (routes/agents.ts, the trash) clears deleted_at.
RestoreCard(k) ==
  /\ k \in CardRows \cap cardDeleted
  /\ cardDeleted' = cardDeleted \ {k}
  /\ Touch({k})
  /\ UNCHANGED <<lists, contactPhone, cardColumn, cardBoard, cardContact, cardTags, logged, actContact>>

\* Rows of crm_cards that are deleted take their tags and their activities along (CASCADE).
CardsGo(ks, others) ==
  /\ cardColumn' = [k \in Cards |-> IF k \in ks THEN Gone ELSE cardColumn[k]]
  /\ cardTags' = [k \in Cards |-> IF k \in ks THEN {} ELSE cardTags[k]]
  /\ logged' = {o \in logged : cardOf[o] \notin ks} \ others
  /\ UNCHANGED <<cardBoard, cardDeleted, actContact, seen>>

\* purge and autoPurge delete a row for good; purge does not ask for deleted_at.
PurgeCard(k) ==
  /\ k \in CardRows
  /\ CardsGo({k}, {})
  /\ UNCHANGED <<lists, contactPhone, cardContact>>

\* Likewise an activity, which the retention of lgpd.ts deletes too.
PurgeActivity(o) ==
  /\ o \in logged
  /\ logged' = logged \ {o}
  /\ UNCHANGED <<lists, contactPhone, cards, actContact, seen>>

\* deleteColumn: its cards CASCADE.
DeleteColumn(col) ==
  /\ col \in LiveColumns
  /\ columnRow' = [columnRow EXCEPT ![col] = "gone"]
  /\ CardsGo({k \in Cards : cardColumn[k] = col}, {})
  /\ UNCHANGED <<boardRow, contactPhone, cardContact>>

\* deleteBoard: its columns, their cards and its cards CASCADE.
DeleteBoard(b) ==
  /\ b \in LiveBoards
  /\ boardRow' = [boardRow EXCEPT ![b] = "gone"]
  /\ columnRow' = [col \in Columns |-> IF BoardOf[col] = b THEN "gone" ELSE columnRow[col]]
  /\ CardsGo({k \in CardRows : cardBoard[k] = b \/ BoardOf[cardColumn[k]] = b}, {})
  /\ UNCHANGED <<contactPhone, cardContact>>

\* forgetContact with mode "delete", one transaction: activities, cards, the contact.
ForgetContact(c) ==
  /\ c \in LiveContacts
  /\ contactPhone' = [contactPhone EXCEPT ![c] = Gone]
  /\ CardsGo({k \in CardRows : cardContact[k] = c}, {o \in logged : actContact[o] = c})
  /\ UNCHANGED <<lists, cardContact>>

\* A statement or a write to disk throws: the database stayed locked for busy_timeout, or
\* saveMedia found no room.  The run's promise is rejected and nobody takes it up.
Throws(o) ==
  /\ pc[o] \in Running \ {"await_send"} /\ MayRun(o)
  /\ Await(o, "error")
  /\ UNCHANGED <<tables, locals, accepted, edits, history>>

\* A worker dies and PM2 restarts it: its runs are gone, the database stays.
Crash(w) ==
  /\ \E o \in Ops : worker[o] = w /\ pc[o] \in Running
  /\ pc' = [o \in Ops |-> IF worker[o] = w /\ pc[o] \in Running THEN "lost" ELSE pc[o]]
  /\ loop' = [loop EXCEPT ![w] = NoOp]
  /\ UNCHANGED <<tables, worker, locals, accepted, edits, history>>

Ingest(e) ==
  \/ FindContact(e) \/ CreateContact(e) \/ FindCard(e) \/ ChooseColumn(e) \/ FindBoard(e)
  \/ CreateCard(e) \/ LogCard(e) \/ Download(e) \/ LogInbound(e) \/ CheckTag(e) \/ ApplyTag(e)

Send(s) ==
  \/ ProviderAccepts(s) \/ SendFails(s) \/ ResolveContact(s)
  \/ CreateRecipient(s) \/ LogOutbound(s)

Edit ==
  /\ edits < MaxEdits /\ edits' = edits + 1
  /\ \/ \E c \in Contacts : DeleteContact(c) \/ ForgetContact(c)
     \/ \E c, d \in Contacts : MergeContacts(c, d)
     \/ \E k \in Cards : DeleteCard(k) \/ RestoreCard(k) \/ PurgeCard(k)
     \/ \E o \in Ops : PurgeActivity(o)
     \/ \E k \in Cards, b \in Boards, col \in Columns : MoveCard(k, b, col)
     \/ \E k \in Cards, c \in Contacts : RelinkCard(k, c)
     \/ \E col \in Columns : DeleteColumn(col)
     \/ \E b \in Boards : DeleteBoard(b)
  /\ UNCHANGED <<control, locals, accepted, ever, before>>

Start == \/ \E e \in Entries, w \in Workers : Deliver(e, w)
         \/ \E s \in Sends, w \in Workers : StartSend(s, w)

Step == (\E e \in Entries : Ingest(e)) \/ (\E s \in Sends : Send(s))

Fault == (\E o \in Ops : Throws(o)) \/ (\E w \in Workers : Crash(w))

Next == Start \/ Step \/ Edit \/ Fault

Spec == Init /\ [][Next]_vars

\* Every run the event loop can resume is resumed, and a provider call settles: it is
\* accepted (and answered) or it fails.
Resume(s) == SendFails(s) \/ ResolveContact(s) \/ CreateRecipient(s) \/ LogOutbound(s)

Fairness == /\ \A e \in Entries : WF_vars(Ingest(e))
            /\ \A s \in Sends : WF_vars(Resume(s))

FairSpec == Spec /\ Fairness

\* The provider delivers, the CRM sends and users edit only while no run is under way.
Quiet == \A o \in Ops : pc[o] \notin Running

SerialNext == (Quiet /\ (Start \/ Edit)) \/ Step \/ \E o \in Ops : Throws(o)

SerialSpec == Init /\ [][SerialNext]_vars

-----------------------------------------------------------------------------
(* Properties *)

TypeOK ==
  /\ boardRow \in [Boards -> RowState] /\ columnRow \in [Columns -> RowState]
  /\ contactPhone \in [Contacts -> Phones \cup {NoPhone, Gone}]
  /\ cardColumn \in [Cards -> Columns \cup {NoColumn, Gone}]
  /\ cardBoard \in [Cards -> Boards \cup {NoBoard}]
  /\ cardContact \in [Cards -> Contacts \cup {NoContact}]
  /\ cardDeleted \subseteq Cards
  /\ cardTags \in [Cards -> SUBSET LeadTags]
  /\ logged \subseteq Ops /\ ever \subseteq Ops /\ accepted \subseteq Sends
  /\ actContact \in [Ops -> Contacts \cup {NoContact}]
  /\ pc \in [Ops -> {"idle"} \cup Running \cup Finished]
  /\ worker \in [Ops -> Workers \cup {NoWorker}]
  /\ loop \in [Workers -> Ops \cup {NoOp}]
  /\ contactOf \in [Ops -> Contacts \cup {NoContact}]
  /\ cardOf \in [Ops -> Cards \cup {NoCard}]
  /\ target \in [Entries -> (Boards \cup {NoBoard}) \X (Columns \cup {NoColumn})]
  /\ edits \in Nat
  /\ before \in [Ops -> SUBSET Ops] /\ seen \in [Entries -> SUBSET Cards]

\* What an entry can add twice: a message that is logged when an entry is checked is not
\* logged again by it, however long the run takes and whatever the contact is merged into;
\* duplicates come only from runs that overlap.
OnlyOverlapsDuplicate ==
  \A o \in logged, e \in logged \cap Entries :
    o # e /\ Mid[o] = Mid[e] => o \notin before[e]

\* No message is dropped silently: a run that ended well or was skipped as a duplicate has
\* its message in the log (at that time), and a run whose INSERT was refused had a row taken
\* away that it held on to across its awaits: its contact, its card, or the board or column
\* its card was to be created in (inbox.ts:123, 248; the keys of 001_initial_schema.sql).
Vanished(e) ==
  \/ contactOf[e] \in GoneContacts
  \/ cardOf[e] \in GoneCards
  \/ target[e][1] \in Boards /\ boardRow[target[e][1]] = "gone"
  \/ target[e][2] \in Columns /\ columnRow[target[e][2]] = "gone"

Accounted ==
  \A e \in Entries :
    /\ pc[e] \in {"done", "skipped", "tag_check", "tag_apply"} =>
         \E o \in ever : Mid[o] = Mid[e]
    /\ pc[e] = "failed" => Vanished(e)

\* A client has one open card: the card an entry creates is a second one, beside one that
\* the next message could use too, only if that one was created by a run that overlapped, or
\* a user edited either.  The lookup and the INSERT have an await between them and no
\* transaction around them (inbox.ts:210-251).
SecondCardOverlaps ==
  \A e \in Entries :
    LET k == cardOf[e] IN
    k \in Cards \ seen[e] /\ cardContact[k] \in Contacts =>
      seen[e] \cap Reusable(cardContact[k]) = {}

\* Inside a synchronous block the worker belongs to that run only.
OneBlockPerWorker ==
  \A w \in Workers : loop[w] # NoOp => worker[loop[w]] = w /\ pc[loop[w]] \in Running

\* "Idempotent on providerMessageId": a message is logged once.
LoggedOnce == \A o, p \in logged : o # p => Mid[o] # Mid[p]

\* Every entry the webhook took is finished: logged, skipped, refused by the database, or
\* lost with its worker.
EveryEntrySettles == \A e \in Entries : pc[e] # "idle" ~> pc[e] \in Finished
=============================================================================
