\* Two items, two starts of the bridge, a restart of the server.
SPECIFICATION FairSpec
CONSTANTS
  w1 = w1
  w2 = w2
  e1 = e1
  e2 = e2
  NoEnv = NoEnv
  Work = {w1, w2}
  Envs = {e1, e2}
  Capacity = 1
  MaxRetries = 1
  MaxStarts = 2
  MaxServerRestarts = 1
INVARIANTS
  OnePlace
  SlotsCounted
PROPERTIES
  KeepsPromise
  WorkIsFetched
  LostBridgeEnds
  ShutdownEnds
CHECK_DEADLOCK FALSE
