SPECIFICATION FairBatchesSpec
CONSTANTS
  r1 = r1
  r2 = r2
  s1 = s1
  s2 = s2
  NoSteer = NoSteer
  NoRun = NoRun
  Plain = Plain
  Alone = Alone
  Runs = {r1}
  Steers = {s1, s2}
  BufSize = 1
  MaxIterations = 2
  MaxCalls = 2
  MaxResets = 1
INVARIANTS
  NeverBesideSequential
PROPERTIES
  ImplementsAgentLoop
  RunsEndOrWait
