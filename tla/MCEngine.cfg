\* Two messages to an engine, one after the other or at the same time, on a history rehydrated from a transcript and compacted.
SPECIFICATION Spec
CONSTANTS
  s1 = s1
  s2 = s2
  r1 = r1
  Submits = {s1, s2}
  NoSubmit = NoSubmit
  Reads = {r1}
  Transcripts <- Short
  MaxTurns = 2
  MaxBudget = 3
  MaxRounds = 1
  MaxRetries = 1
  MaxCalls = 2
  MaxFiles = 0
  MaxNotes = 1
  Large = 6
  TurnBlocks = 1
  SessionBlocks = 2
INVARIANTS
  PairedUndisturbed
  UnansweredExplained
  SpentBounded
SYMMETRY Symmetry
CHECK_DEADLOCK FALSE
