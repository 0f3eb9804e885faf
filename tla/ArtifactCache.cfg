CONSTANTS
  k1 = k1
  k2 = k2
  k3 = k3
  l1 = l1
  None = None
  Key <- MCKey
  Node <- MCKey
  Lineage <- MCLineage
  Kind <- MCKind
  KindOf <- MCKindOf
  LineageOf <- MCLineageOf
  MaxGen = 3
  SnapshotGen = 3
SPECIFICATION MCSpec
INVARIANTS
  DependentsInverse
  SupersededIsDirty
  SnapshotsRestore
  MarksExplained
PROPERTIES
  OverflowChangesNothing
  ImplementsFreshness
  Terminates
