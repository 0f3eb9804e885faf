CONSTANTS
  MaxGen = 2
  MaxStops = 2
  MaxReq = 2
SPECIFICATION FairSpec
INVARIANTS
  ResumeMatchesStop
  FramesOfCurrentRun
  StopIsReal
  AnswerFromAskedStop
PROPERTIES
  WorkersGoOn
