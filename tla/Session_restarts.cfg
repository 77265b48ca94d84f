SPECIFICATION SessionSpec
CONSTANTS
  r1 = r1
  r2 = r2
  s1 = s1
  s2 = s2
  NoSteer = NoSteer
  NoRun = NoRun
  NoUsage = NoUsage
  NoSnapshot = NoSnapshot
  Runs = {r1, r2}
  Steers = {s1}
  BufSize = 1
  MaxIterations = 1
  MaxCalls = 1
  MaxResets = 1
  MaxSets = 1
  MaxSnapshots = 1
  MaxRestarts = 1
SYMMETRY Symmetry
VIEW Relevant
INVARIANTS
  FieldsAgree
  NudgeUnderItsPrompt
  SteeredOnce
  UnansweredOnlyByAbort
