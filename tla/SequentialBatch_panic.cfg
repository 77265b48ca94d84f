SPECIFICATION Spec
CONSTANTS
  NumCalls = 2
  MaxDeltas = 2
INVARIANTS
  BreakNeverPanics
