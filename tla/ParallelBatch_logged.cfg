SPECIFICATION Spec
CONSTANTS
  NumCalls = 2
  DeltaBuf = 1
  MaxDeltas = 0
INVARIANTS
  EveryHandlerLogged
