\* Two deliveries of one message and a send on two workers, with edits and crashes.
SPECIFICATION Spec
CONSTANTS
  e1 = e1
  e2 = e2
  s1 = s1
  m1 = m1
  m2 = m2
  p1 = p1
  b1 = b1
  b2 = b2
  lead = lead
  fresh = fresh
  won = won
  Mids = {m1, m2}
  Phones = {p1}
  Phone <- OneContactPhone
  NoWorker = NoWorker
  NoOp = NoOp
  NoContact = NoContact
  NoCard = NoCard
  NoColumn = NoColumn
  NoBoard = NoBoard
  NoPhone = NoPhone
  Gone = Gone
  Boards = {b1}
  InitBoards = {b1}
  Columns = {lead, won}
  BoardOf <- OneBoard
  Terminal = {won}
  LeadColumns = {lead}
  Entries = {e1, e2}
  Sends = {s1}
  Mid <- DeliveriesAndSend
  Workers = {w1, w2}
  FromMe = {}
  Media = {e1, e2}
  Paid = {}
  Contacts = {c1, c2}
  Cards = {k1, k2}
  InboxColumn = lead
  InboxBoard = b1
  AutoCreate = TRUE
  MaxEdits = 2
SYMMETRY Symmetry
INVARIANTS
  OnlyOverlapsDuplicate
  Accounted
  SecondCardOverlaps
CHECK_DEADLOCK FALSE
