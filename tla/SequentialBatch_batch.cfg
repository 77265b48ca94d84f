SPECIFICATION Spec
CONSTANTS
  NumCalls = 3
  MaxDeltas = 2
INVARIANTS
  BracketsNest
  LoggedBeforeReported
PROPERTIES
  BreakStopsBatch
  ImplementsToolBatch
