\* One event for two hooks, two changes of a hook, one crash; one place in the selection.
SPECIFICATION WebhooksFairSpec
CONSTANTS
  e1 = e1
  h1 = h1
  h2 = h2
  Events = {e1}
  Hooks = {h1, h2}
  Subscribed <- Wanted
  Processes = {w1, w2}
  Scheduler = w1
  Nothing = Nothing
  MaxAttempts = 2
  Limit = 1
  MaxEdits = 2
  MaxCrashes = 1
INVARIANTS
  RepeatsExplained
  AttemptsBounded
PROPERTIES
  DeliveriesEnd
CHECK_DEADLOCK FALSE
