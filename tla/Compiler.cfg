SPECIFICATION MCSpec
CONSTANTS
  N = 3
  DataKeys = {"d"}
  Domains = {"ir"}
  Inputs <- MCInputs
  MaxId = 4
  Specs <- MCSpecs
  FormLists <- MCFormLists
  Forms <- MCForms
  TombstoneLimit = 2
  MaxUnitVersion = 4
  LastBegin = 1
  Subject = {"a", "b"}
  Predicate = {"p"}
  Value = {"v", "w"}
  Name = {"n", "m"}
  Id = {"i"}
  MaxGen = 4
  NoValue = NoValue
INVARIANTS
  CyclesExact
  ScheduleIsSafe
  
PROPERTIES
  
  FailedEditLeavesUnit
  
  HistoryKept
