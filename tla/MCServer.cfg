\* Two requests of any kind on two sessions, one of them bound to a worker, and one stop of a worker.
SPECIFICATION Spec
CONSTANTS
  w1 = w1
  w2 = w2
  s1 = s1
  s2 = s2
  r1 = r1
  r2 = r2
  Workers = {w1, w2}
  Sessions = {s1, s2}
  Requests = {r1, r2}
  Redis = Redis
  None = None
  Route <- Routing
  MaxSessions = 1
  MaxStops = 1
  MaxWire = 3
INVARIANTS
  NoLeak
  Accounted
  Remembers
  LimitKept
SYMMETRY Symmetry
CHECK_DEADLOCK FALSE
