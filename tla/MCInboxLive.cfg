\* A send, its echo and a message of the client: every entry settles.
SPECIFICATION FairSpec
CONSTANTS
  e1 = e1
  e2 = e2
  s1 = s1
  m1 = m1
  m2 = m2
  p1 = p1
  b1 = b1
  b2 = b2
  lead = lead
  fresh = fresh
  won = won
  Mids = {m1, m2}
  Phones = {p1}
  Phone <- OneContactPhone
  NoWorker = NoWorker
  NoOp = NoOp
  NoContact = NoContact
  NoCard = NoCard
  NoColumn = NoColumn
  NoBoard = NoBoard
  NoPhone = NoPhone
  Gone = Gone
  Boards = {b1, b2}
  InitBoards = {b1}
  Columns = {lead, won, fresh}
  BoardOf <- SeededBoard
  Terminal = {won}
  LeadColumns = {lead, fresh}
  Entries = {e1, e2}
  Sends = {s1}
  Mid <- EchoAndMessage
  Workers = {w1}
  FromMe = {e1}
  Media = {}
  Paid = {}
  Contacts = {c1, c2, c3}
  Cards = {k1, k2}
  InboxColumn = NoColumn
  InboxBoard = NoBoard
  AutoCreate = TRUE
  MaxEdits = 1
PROPERTIES
  EveryEntrySettles
CHECK_DEADLOCK FALSE
