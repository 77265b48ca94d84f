SPECIFICATION Spec
CONSTANTS
  NumCalls = 2
  DeltaBuf = 1
  MaxDeltas = 1
INVARIANTS
  DeltasBeforeEnd
