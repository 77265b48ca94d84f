SPECIFICATION Spec
CONSTANTS
  Below = 1
  MaxBlock = 1
  MaxEvents = 5
INVARIANTS
  OnlyBelowZeroPanics
  OwnEventsOnly
  MessageComplete
