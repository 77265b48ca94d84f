SPECIFICATION FairSpec
CONSTANTS
  NumCalls = 2
  DeltaBuf = 1
  MaxDeltas = 2
INVARIANTS
  TypeOK
  OneOutcomePerCall
  SendNeverBlocks
  CollectNeverWedges
  NoHandlerOutlivesBatch
  ReturnedComplete
  DeltasShown
PROPERTIES
  ImplementsToolBatch
  BatchEnds
  CancelEndsBatch
