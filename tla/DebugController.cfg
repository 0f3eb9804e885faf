CONSTANTS
  p1 = p1
  p2 = p2
  q1 = q1
  f1 = f1
  f2 = f2
  fn = fn
  None = None
  Place <- MCPlace
  File <- MCFile
  FileOf <- MCFileOf
  Focus = f1
  Fn <- MCFn
  Val = {0, 1}
  Sessions <- MCSessions
  MaxHits = 2
SPECIFICATION FairSpec
INVARIANTS
  StepAsAsked
  ErrorPausesOnce
PROPERTIES
  
  LeavingUnwinds
CHECK_DEADLOCK FALSE
