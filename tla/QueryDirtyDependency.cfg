SPECIFICATION Spec
CONSTANTS
  None = None
  s1 = s1
  s2 = s2
  pA = pA
  pB = pB
  pC = pC
  u1 = u1
  u2 = u2
  Stage = {s1, s2}
  Provider = {pA, pB, pC}
  UnitId = {u1, u2}
  Phase = {"compile"}
  Pipelines <- MCDirtyDependency
INVARIANTS
  DependenciesFresh
