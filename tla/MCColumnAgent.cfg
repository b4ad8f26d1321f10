\* Two clients' runs on two workers, with every tool that moves the card and an agent that is switched off and on.
SPECIFICATION Spec
CONSTANTS
  c1 = c1
  c2 = c2
  f1 = f1
  w0 = w0
  w1 = w1
  lead = lead
  closer = closer
  NoColumn = NoColumn
  NoRun = NoRun
  NoMsg = NoMsg
  Clients = {c1, c2}
  Fires = {}
  Workers = {w0, w1}
  WorkerOf <- TwoWorkers
  Columns = {lead, closer}
  Switchable = {closer}
  AgentOn = {lead}
  StartColumn = lead
  PromoteTo <- LeadPromotes
  HumanColumn = closer
  SaleColumn = closer
  LostColumn = closer
  FollowUpColumn = closer
  SellerColumn = lead
  MaxTurns = 1
  MaxIterations = 1
  MaxCalls = 1
  Msgs = {m1}
CONSTRAINT NotRaced
INVARIANTS
  TurnsBounded
CHECK_DEADLOCK FALSE
