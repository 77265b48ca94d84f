SPECIFICATION FairSpec
CONSTANTS
  r1 = r1
  r2 = r2
  s1 = s1
  s2 = s2
  s3 = s3
  NoSteer = NoSteer
  NoRun = NoRun
  Runs = {r1, r2}
  Steers = {s1}
  BufSize = 1
  MaxIterations = 2
  MaxCalls = 2
  MaxResets = 1
INVARIANTS
  TypeOK
  RunExclusion
  IterationsBounded
  ReplyFollowsItsRequest
  ResultsFollowCalls
  UnansweredOnlyByAbort
  LogMatchesTranscript
PROPERTIES
  RunsEnd
