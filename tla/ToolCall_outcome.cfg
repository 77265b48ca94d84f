SPECIFICATION Spec
CONSTANTS
  DefaultMax = 2
  MaxLen = 3
INVARIANTS
  TerminateNeedsConsent
  HintFollowsPayload
  OverBudgetNeverShown
  FailureIsError
