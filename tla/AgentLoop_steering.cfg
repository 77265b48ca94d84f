SPECIFICATION Spec
CONSTANTS
  r1 = r1
  r2 = r2
  s1 = s1
  s2 = s2
  s3 = s3
  NoSteer = NoSteer
  NoRun = NoRun
  Runs = {r1, r2}
  Steers = {s1, s2, s3}
  BufSize = 2
  MaxIterations = 2
  MaxCalls = 1
  MaxResets = 1
SYMMETRY Symmetry
INVARIANTS
  SteeringOnTime
  SteeringInOrder
  SteeringConserved
