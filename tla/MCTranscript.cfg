\* Three entries and two flushes, a failed write and an outage.
SPECIFICATION TranscriptFairSpec
CONSTANTS
  Entries = {e1, e2, e3}
  Flushers = {f1, f2}
  Nobody = Nobody
  Cut = Cut
  MaxQueue = 2
  MaxOutages = 1
  MaxErrors = 1
INVARIANTS
  Flushed
PROPERTIES
  FlushDrains
  KeepsLog
CHECK_DEADLOCK FALSE
