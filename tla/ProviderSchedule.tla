--------------------------- MODULE ProviderSchedule ---------------------------
(***************************************************************************)
(* How the providers of one stage are put in an order                       *)
(* (caap/src/compiler/query_provider_registry.rs): edges for what they      *)
(* require of each other, for the data they need and, in registration       *)
(* order, for conflicting reads and writes; then groups of providers whose  *)
(* predecessors are all in earlier groups.  The conflict edges are added    *)
(* pair by pair, each after asking what is reachable so far, and the groups *)
(* are cut from counters of the edges still to come.                        *)
(*                                                                          *)
(* Providers are numbered in registration order, the order in which the     *)
(* code keeps the names of a group: a group is a set.  ScheduleInit chooses *)
(* the inputs: the requirements (static and observed), the data keys        *)
(* needed, provided and already available, and the domains read and written. *)
(***************************************************************************)
EXTENDS Naturals, Sequences, FiniteSets

CONSTANTS
  N,             \* the number of providers of the stage
  Inputs,        \* what the providers of the stage declare (see Input)
  DataKeys,      \* data keys
  Domains        \* the storage domains providers read and write

Providers == 1..N

\* Requirements (N + 1 is a provider of another stage), effects and data keys.
Input ==
  [requires : [Providers -> SUBSET (1..(N + 1))], reads : [Providers -> SUBSET Domains],
   writes : [Providers -> SUBSET Domains], requires_data : [Providers -> SUBSET DataKeys],
   provides_data : [Providers -> SUBSET DataKeys], available_data : SUBSET DataKeys]

ASSUME ScheduleConstants == N \in Nat /\ \A i \in Inputs : i \in Input

VARIABLES
  input,           \* the contracts of the providers and the data available
  outgoing,        \* edges, from each provider
  incoming_count,  \* edges into each provider not yet passed
  pair,            \* the pair that is looked at next for a conflict
  ready, visited,
  groups,
  pc               \* "edges", "conflicts", "batches", "done", "missing", "cycle"

schedule_vars == <<input, outgoing, incoming_count, pair, ready, visited, groups, pc>>

-----------------------------------------------------------------------------
(* The graph *)

ScheduleInit ==
  /\ input \in Inputs
  /\ outgoing = [p \in Providers |-> {}]
  /\ incoming_count = [p \in Providers |-> 0]
  /\ pair = <<1, 2>>
  /\ ready = {} /\ visited = {} /\ groups = <<>>
  /\ pc = "edges"

\* add_provider_schedule_edge, for a set of edges: no self-edges, none twice.
WithEdges(edges) ==
  LET new == {e \in edges : e[1] # e[2] /\ e[2] \notin outgoing[e[1]]} IN
  /\ outgoing' = [p \in Providers |-> outgoing[p] \cup {q \in Providers : <<p, q>> \in new}]
  /\ incoming_count' = [p \in Providers |->
                          incoming_count[p] + Cardinality({q \in Providers : <<q, p>> \in new})]

Suppliers(p, key) == {s \in Providers \ {p} : key \in input.provides_data[s]}

\* The data keys p must get from a provider of its own stage.
Needed(p) == input.requires_data[p] \ input.available_data

Missing ==
  \E p \in Providers : \/ ~(input.requires[p] \subseteq Providers)
                       \/ \E key \in Needed(p) : Suppliers(p, key) = {}

RequiredEdges ==
  {e \in Providers \X Providers :
     \/ e[1] \in input.requires[e[2]]
     \/ \E key \in Needed(e[2]) : e[1] \in Suppliers(e[2], key)}

\* add_provider_data_edges and the requirements before it.
AddRequired ==
  /\ pc = "edges"
  /\ IF Missing THEN pc' = "missing" /\ UNCHANGED <<outgoing, incoming_count>>
                ELSE pc' = "conflicts" /\ WithEdges(RequiredEdges)
  /\ UNCHANGED <<input, pair, ready, visited, groups>>

provider_effects_conflict(p, q) ==
  \/ input.reads[p] \cap input.writes[q] # {}
  \/ input.writes[p] \cap input.reads[q] # {}
  \/ input.writes[p] \cap input.writes[q] # {}

DirectlyReachable(p) == outgoing[p]

\* provider_schedule_reachability: what can be reached from p over the edges so far is
\* in every set that has the targets of p and of its own members.
Reachable(p) ==
  {r \in Providers : \A S \in SUBSET Providers :
     outgoing[p] \subseteq S /\ (\A s \in S : outgoing[s] \subseteq S) => r \in S}

\* The pair after this one in the two loops over the providers.
NextPair == IF pair[2] < N THEN <<pair[1], pair[2] + 1>> ELSE <<pair[1] + 1, pair[1] + 2>>

\* add_provider_effect_conflict_edges, one pair.
AddConflict ==
  /\ pc = "conflicts" /\ pair[2] <= N
  /\ IF provider_effects_conflict(pair[1], pair[2]) /\ pair[1] \notin Reachable(pair[2])
     THEN WithEdges({pair})
     ELSE UNCHANGED <<outgoing, incoming_count>>
  /\ pair' = NextPair
  /\ UNCHANGED <<input, ready, visited, groups, pc>>

-----------------------------------------------------------------------------
(* The groups *)

StartBatches ==
  /\ pc = "conflicts" /\ pair[2] > N
  /\ ready' = {p \in Providers : incoming_count[p] = 0}
  /\ pc' = "batches"
  /\ UNCHANGED <<input, outgoing, incoming_count, pair, visited, groups>>

\* The edges a batch passes into each provider.
Passed(batch) == [p \in Providers |-> Cardinality({q \in batch : p \in outgoing[q]})]

PassedByAny(batch) == {p \in Providers : Passed(batch)[p] > 0}

\* The providers whose last edges the batch passes.
NextReady(batch) ==
  {p \in Providers : Passed(batch)[p] > 0 /\ incoming_count[p] <= Passed(batch)[p]}

\* One turn of the loop: the ready providers are a group.
TakeBatch ==
  LET batch == ready \ visited IN
  /\ pc = "batches" /\ ready # {}
  /\ visited' = visited \cup batch
  /\ groups' = IF batch = {} THEN groups ELSE Append(groups, batch)
  /\ incoming_count' = [p \in Providers |->
       IF Passed(batch)[p] > incoming_count[p] THEN 0 ELSE incoming_count[p] - Passed(batch)[p]]
  /\ ready' = NextReady(batch)
  /\ UNCHANGED <<input, outgoing, pair, pc>>

Finish ==
  /\ pc = "batches" /\ ready = {}
  /\ pc' = IF visited = Providers THEN "done" ELSE "cycle"
  /\ UNCHANGED <<input, outgoing, incoming_count, pair, ready, visited, groups>>

ScheduleDone == pc \in {"done", "missing", "cycle"} /\ UNCHANGED schedule_vars

ScheduleNext == AddRequired \/ AddConflict \/ StartBatches \/ TakeBatch \/ Finish \/ ScheduleDone

ScheduleSpec == ScheduleInit /\ [][ScheduleNext]_schedule_vars

-----------------------------------------------------------------------------
(* Properties *)

\* The providers of S require each other in a circle, or in several.
RequireInCycle(S) == S # {} /\ \A p \in S : \E q \in S : q # p /\ <<q, p>> \in RequiredEdges

\* A stage is refused exactly if its providers require each other in a cycle: the edges
\* for conflicting reads and writes never make one, whatever the order they come in, and
\* a cycle among the requirements is never scheduled.
CyclesExact ==
  /\ pc = "cycle" => \E S \in SUBSET Providers : RequireInCycle(S)
  /\ pc = "done" => \A S \in SUBSET Providers : ~RequireInCycle(S)

\* In a schedule every provider is in one group, after those of the providers it requires,
\* and in another one than every provider it conflicts with.
ScheduleIsSafe ==
  pc = "done" =>
    /\ UNION {groups[g] : g \in DOMAIN groups} = Providers
    /\ \A g, h \in DOMAIN groups : g # h => groups[g] \cap groups[h] = {}
    /\ \A g, h \in DOMAIN groups : \A p \in groups[g], q \in groups[h] :
         /\ p # q /\ <<p, q>> \in RequiredEdges => g < h
         /\ p # q /\ provider_effects_conflict(p, q) => g # h
=============================================================================
