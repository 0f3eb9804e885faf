SPECIFICATION Spec
CONSTANTS
  Grammars <- AppendGrammars
  Scenarios <- AppendScenarios
  MaxSteps = 2000
  MaxDepth = 60
  ExactLimit = 2
CHECK_DEADLOCK FALSE
INVARIANTS
  ParseIsMeaning
