\* One card in two columns, a chase step and three follow-up steps that are not in order, ticks
\* of two workers of which one may have its own keys; the seller's column also stands for the
\* human's.
SPECIFICATION FairSpec
CONSTANTS
  Workers = {w1, w2}
  Fallback = {w2}
  Slots = {s1}
  Columns = {lead, follow}
  FollowUp = follow
  Seller = lead
  Human = lead
  StartColumn = lead
  AgentColumns = {lead, follow}
  EntryColumns = {}
  ChaseColumns = {lead}
  EntryDelay = 1
  Day = 1
  ChaseDelay <- OneChase
  FollowDelay <- Unordered
  MaxEvents = 1
  LLMTags <- FarewellTag
  None = None
INVARIANTS
  OncePerStep
  StepsInOrder
PROPERTIES
  FollowUpEnds
  Doomed
CHECK_DEADLOCK FALSE
