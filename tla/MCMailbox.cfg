\* Three sends of two teammates, a poll and a wait for a reply, a crash and a stall.
SPECIFICATION Spec
CONSTANTS
  s1 = s1
  s2 = s2
  s3 = s3
  poll = poll
  wait = wait
  agent = agent
  mate1 = mate1
  mate2 = mate2
  Sends = {s1, s2, s3}
  Polls = {poll}
  Waits = {wait}
  Reply <- ReplyOf
  Procs = {agent, mate1, mate2}
  Proc <- ProcOf
  None = None
  Retries = 1
  Capacity = 2
  MaxCrashes = 1
  MaxStalls = 1
INVARIANTS
  Exclusive
  Kept
  AloneSucceeds
PROPERTIES
  KeepsQueue
CHECK_DEADLOCK FALSE
SYMMETRY Symmetry
