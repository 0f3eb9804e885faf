SPECIFICATION Spec
CONSTANTS
  Grammars <- MCGrammars
  Scenarios <- MCScenarios
  MaxSteps = 2000
  MaxDepth = 60
  ExactLimit = 2
CHECK_DEADLOCK FALSE
INVARIANTS
  
  CacheSound
  ComponentsExact
PROPERTIES
  ImplementsCache
