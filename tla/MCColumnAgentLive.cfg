\* A client's run and fires of the timer on two workers: runs end, a silent client is left alone.
SPECIFICATION FairSpec
CONSTANTS
  c1 = c1
  c2 = c2
  f1 = f1
  w0 = w0
  w1 = w1
  lead = lead
  closer = closer
  NoColumn = NoColumn
  NoRun = NoRun
  NoMsg = NoMsg
  Clients = {c1}
  Fires = {f1}
  Workers = {w0, w1}
  WorkerOf <- TwoWorkers
  Columns = {lead}
  Switchable = {lead}
  AgentOn = {lead}
  StartColumn = lead
  PromoteTo <- NobodyPromotes
  HumanColumn = NoColumn
  SaleColumn = NoColumn
  LostColumn = NoColumn
  FollowUpColumn = NoColumn
  SellerColumn = NoColumn
  MaxTurns = 1
  MaxIterations = 1
  MaxCalls = 1
  Msgs = {m1}
INVARIANTS
  NudgesBounded
PROPERTIES
  RunsEnd
  SilenceEnds
CHECK_DEADLOCK FALSE
