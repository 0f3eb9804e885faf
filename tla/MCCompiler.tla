------------------------------ MODULE MCCompiler ------------------------------
(***************************************************************************)
(* The order of the providers of a stage, and what they write to: the unit *)
(* and its semantic graph.  A behaviour is of one of them, and the others  *)
(* stay as they are.  The two halves of the semantic graph, which share    *)
(* only counters, are apart too.                                           *)
(***************************************************************************)
EXTENDS ProviderSchedule, UnitState, SemanticGraph

Declared(requires, data) ==
  [requires : [Providers -> requires], reads : [Providers -> SUBSET Domains],
   writes : [Providers -> SUBSET Domains], requires_data : [Providers -> SUBSET data],
   provides_data : [Providers -> SUBSET data], available_data : SUBSET data]

\* Every requirement without data keys, and data keys only.
MCInputs == Declared(SUBSET Providers, {}) \cup Declared({{}, {N + 1}}, DataKeys)

NameSpec == <<[label |-> "x", parent |-> 0, span |-> TRUE]>>
CallSpec == <<[label |-> "f", parent |-> 0, span |-> FALSE],
              [label |-> "x", parent |-> 1, span |-> TRUE]>>

MCSpecs == {NameSpec, CallSpec}

\* The unit begins with a call.
MCForms == {<<CallSpec>>}

\* No form, the first one alone, twice, and before the next node that is inserted.
MCFormLists == {<<>>, <<0>>, <<0, 0>>, <<0, 2>>}

VARIABLE part

Unscheduled ==
  /\ input = [requires |-> [p \in Providers |-> {N + 1}], reads |-> [p \in Providers |-> {}],
              writes |-> [p \in Providers |-> {}], requires_data |-> [p \in Providers |-> {}],
              provides_data |-> [p \in Providers |-> {}], available_data |-> {}]
  /\ outgoing = [p \in Providers |-> {}] /\ incoming_count = [p \in Providers |-> 0]
  /\ pair = <<1, 2>> /\ ready = {} /\ visited = {} /\ groups = <<>> /\ pc = "missing"

MCInit ==
  /\ UnitInit /\ SemanticInit
  /\ \/ part = "schedule" /\ ScheduleInit
     \/ part \in {"unit", "names", "facts"} /\ Unscheduled

MCNext ==
  /\ UNCHANGED part
  /\ \/ part = "schedule" /\ ScheduleNext /\ UNCHANGED <<unit_vars, semantic_vars>>
     \/ part = "unit" /\ UnitNext /\ UNCHANGED <<schedule_vars, semantic_vars>>
     \/ part = "names" /\ NamesNext /\ UNCHANGED <<schedule_vars, unit_vars>>
     \/ part = "facts" /\ FactsNext /\ UNCHANGED <<schedule_vars, unit_vars>>

MCSpec == MCInit /\ [][MCNext]_<<part, schedule_vars, unit_vars, semantic_vars>>
===============================================================================
