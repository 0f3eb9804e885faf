--------------------------- MODULE CompilerProofs ---------------------------
(***************************************************************************)
(* Two parts of a compilation.  The order of the providers of a stage is   *)
(* safe, and a stage is refused for a cycle exactly if its requirements    *)
(* have one, for any number of providers and whatever they declare.        *)
(* Writes to the semantic graph are seen and stamped, and the history of   *)
(* its facts is kept, for any subjects, names and values and for counters  *)
(* of any width.                                                           *)
(***************************************************************************)
EXTENDS ProviderSchedule, SemanticGraph, FiniteSetTheorems, WellFoundedInduction, TLAPS

-----------------------------------------------------------------------------
(* The schedule: its invariant *)

\* The providers with an edge to p that have not been passed.
Before(p) == {q \in Providers \ visited : p \in outgoing[q]}

\* Every provider of S comes after another one of S.
Circular(S) == S # {} /\ \A p \in S : \E q \in S : p \in outgoing[q]

ScheduleTypeOK ==
  /\ outgoing \in [Providers -> SUBSET Providers]
  /\ incoming_count \in [Providers -> Nat]
  /\ pair \in Nat \X Nat
  /\ ready \subseteq Providers /\ visited \subseteq Providers
  /\ groups \in Seq(SUBSET Providers)
  /\ pc \in {"edges", "conflicts", "batches", "done", "missing", "cycle"}

\* Edges lead from one provider to another, and the requirements are among them.
EdgesInv ==
  /\ \A p \in Providers : p \notin outgoing[p]
  /\ pc = "edges" => \A p \in Providers : outgoing[p] = {}
  /\ pc \notin {"edges", "missing"} =>
       \A e \in RequiredEdges : e[1] # e[2] => e[2] \in outgoing[e[1]]

\* The counters are those of the edges that are not passed.
CountInv == \A p \in Providers : incoming_count[p] = Cardinality(Before(p))

\* The conflict edges have made no circle.
AcyclicInv ==
  (\E S \in SUBSET Providers : Circular(S)) => \E S \in SUBSET Providers : RequireInCycle(S)

\* A conflict is settled by an edge one way or by a path the other way.
Settled(p, q) == provider_effects_conflict(p, q) => q \in outgoing[p] \/ p \in Reachable(q)

\* The loops have settled the pairs before the one they are at.
PairInv ==
  /\ 1 <= pair[1] /\ pair[1] < pair[2]
  /\ pair[2] > N => pair[1] >= N
  /\ \A p, q \in Providers :
       p < q /\ (p < pair[1] \/ (p = pair[1] /\ q < pair[2])) => Settled(p, q)

\* Once batches are taken, what is ready or visited is what has only visited providers
\* before it.
BatchInv ==
  /\ pc \in {"edges", "conflicts", "missing"} => visited = {} /\ groups = <<>>
  /\ pc \in {"batches", "done", "cycle"} =>
       /\ pair[2] > N
       /\ ready \cap visited = {}
       /\ \A p \in Providers : p \in ready \cup visited <=> Before(p) = {}
  /\ pc \in {"done", "cycle"} => ready = {} /\ (pc = "done" <=> visited = Providers)

\* No provider of a circle is visited.
CircleInv == \A S \in SUBSET Providers : Circular(S) => S \cap visited = {}

\* The groups are disjoint, hold what is visited, and edges lead to later ones.
GroupInv ==
  /\ \A p \in Providers : p \in visited <=> \E g \in DOMAIN groups : p \in groups[g]
  /\ \A g, h \in DOMAIN groups : g # h => groups[g] \cap groups[h] = {}
  /\ \A g, h \in DOMAIN groups : \A p \in groups[g], q \in groups[h] : q \in outgoing[p] => g < h

GraphInv == ScheduleTypeOK /\ EdgesInv /\ CountInv /\ AcyclicInv /\ PairInv

ScheduleInv == GraphInv /\ BatchInv /\ CircleInv /\ GroupInv

-----------------------------------------------------------------------------
(* The schedule: counting *)

LEMMA ProvidersFinite ==
  IsFiniteSet(Providers) /\ \A S \in SUBSET Providers : IsFiniteSet(S) /\ Cardinality(S) \in Nat
<1>1. IsFiniteSet(Providers)
  BY FS_Interval, ScheduleConstants DEF Providers
<1>2. \A S \in SUBSET Providers : IsFiniteSet(S)
  BY <1>1, FS_Subset, Zenon
<1> QED BY <1>1, <1>2, FS_CardinalityType, Zenon

\* The members of a set are those in a part of it and the others.
LEMMA CountOfParts ==
  ASSUME NEW S \in SUBSET Providers, NEW T \in SUBSET S
  PROVE  /\ Cardinality(S \ T) = Cardinality(S) - Cardinality(T)
         /\ Cardinality(T) <= Cardinality(S)
         /\ Cardinality(S) = 0 <=> S = {}
<1>1. IsFiniteSet(S) /\ IsFiniteSet(T) /\ S \cap T = T
  BY ProvidersFinite, Zenon
<1>2. Cardinality(S \ T) = Cardinality(S) - Cardinality(T)
  BY <1>1, FS_Difference
<1>3. Cardinality(T) <= Cardinality(S)
  BY <1>1, FS_Subset, Zenon
<1>4. Cardinality(S) = 0 <=> S = {}
  BY <1>1, FS_EmptySet, Zenon
<1> QED BY <1>2, <1>3, <1>4, Zenon

\* Two sets with nothing in common have as many members as both together.
LEMMA CountOfBoth ==
  ASSUME NEW S \in SUBSET Providers, NEW T \in SUBSET Providers, S \cap T = {}
  PROVE  Cardinality(S \cup T) = Cardinality(S) + Cardinality(T)
<1>1. /\ IsFiniteSet(S) /\ IsFiniteSet(T)
      /\ Cardinality(S) \in Nat /\ Cardinality(T) \in Nat /\ Cardinality({}) = 0
  BY ProvidersFinite, FS_EmptySet, Zenon
<1>2. Cardinality(S \cup T) = Cardinality(S) + Cardinality(T) - Cardinality(S \cap T)
  BY <1>1, FS_Union, Zenon
<1>3. Cardinality(S \cap T) = 0
  BY <1>1, Zenon
<1> QED BY <1>1, <1>2, <1>3

-----------------------------------------------------------------------------
(* The schedule: edges *)

\* More edges reach what was reached before.
LEMMA ReachesMore ==
  ASSUME \A p \in Providers : outgoing[p] \subseteq outgoing'[p],
         NEW q \in Providers
  PROVE  Reachable(q) \subseteq Reachable(q)'
<1> SUFFICES ASSUME NEW r \in Reachable(q), NEW S \in SUBSET Providers,
                    outgoing'[q] \subseteq S, \A s \in S : outgoing'[s] \subseteq S
             PROVE  r \in S
  BY Zenon DEF Reachable
<1>1. outgoing[q] \subseteq S /\ \A s \in S : outgoing[s] \subseteq S
  BY Zenon
<1> QED BY <1>1, Zenon DEF Reachable

\* add_provider_schedule_edge keeps the counters right while nothing is visited.
LEMMA WithEdgesCounts ==
  ASSUME ScheduleTypeOK, CountInv, EdgesInv, visited = {}, visited' = {},
         NEW edges \in SUBSET (Providers \X Providers), WithEdges(edges)
  PROVE  /\ outgoing' \in [Providers -> SUBSET Providers]
         /\ incoming_count' \in [Providers -> Nat]
         /\ CountInv'
         /\ \A p, q \in Providers :
              q \in outgoing'[p] <=> q \in outgoing[p] \/ (p # q /\ <<p, q>> \in edges)
<1> DEFINE new == {e \in edges : e[1] # e[2] /\ e[2] \notin outgoing[e[1]]}
           Added(p) == {q \in Providers : <<q, p>> \in new}
<1>1. /\ outgoing' = [p \in Providers |-> outgoing[p] \cup {q \in Providers : <<p, q>> \in new}]
      /\ incoming_count' = [p \in Providers |-> incoming_count[p] + Cardinality(Added(p))]
  BY Zenon DEF WithEdges
<1>2. \A p, q \in Providers :
        <<p, q>> \in new <=> <<p, q>> \in edges /\ p # q /\ q \notin outgoing[p]
  BY Zenon
<1> HIDE DEF new
<1>3. outgoing' \in [Providers -> SUBSET Providers]
  BY <1>1, Zenon DEF ScheduleTypeOK
<1>4. \A p, q \in Providers :
        q \in outgoing'[p] <=> q \in outgoing[p] \/ (p # q /\ <<p, q>> \in edges)
  BY <1>1, <1>2, Zenon
<1>5. ASSUME NEW p \in Providers
      PROVE  incoming_count'[p] = Cardinality(Before(p)') /\ incoming_count'[p] \in Nat
  <2>1. Before(p) = {q \in Providers : p \in outgoing[q]}
    BY Zenon DEF Before
  <2>2. Before(p)' = {q \in Providers : p \in outgoing'[q]}
    BY Zenon DEF Before
  <2>3. Before(p)' = Before(p) \cup Added(p) /\ Before(p) \cap Added(p) = {}
    BY <1>2, <1>4, <2>1, <2>2, Zenon
  <2>4. Before(p) \in SUBSET Providers /\ Added(p) \in SUBSET Providers
    BY <2>1, Zenon
  <2>5. Cardinality(Before(p)') = Cardinality(Before(p)) + Cardinality(Added(p))
    BY <2>3, <2>4, CountOfBoth, Zenon
  <2>6. incoming_count'[p] = Cardinality(Before(p)) + Cardinality(Added(p))
    BY <1>1, Zenon DEF CountInv
  <2>7. Cardinality(Before(p)) \in Nat /\ Cardinality(Added(p)) \in Nat
    BY <2>4, ProvidersFinite, Zenon
  <2> QED BY <2>5, <2>6, <2>7
<1>6. incoming_count' \in [Providers -> Nat]
  BY <1>1, <1>5, Zenon
<1>7. CountInv'
  BY <1>5, Zenon DEF CountInv
<1> QED BY <1>3, <1>4, <1>6, <1>7, Zenon

\* An edge to what does not lead back makes no circle: the members of a circle that the
\* end of the edge does not lead to are a circle without it, and so are the others.
LEMMA EdgeMakesNoCircle ==
  ASSUME ScheduleTypeOK, NEW a \in Providers, NEW b \in Providers,
         a # b, a \notin Reachable(b),
         \A p, q \in Providers : q \in outgoing'[p] => q \in outgoing[p] \/ (p = a /\ q = b),
         NEW S \in SUBSET Providers, Circular(S)'
  PROVE  \E T \in SUBSET Providers : Circular(T)
<1> DEFINE R == {b} \cup Reachable(b)
<1>1. \A s \in R : outgoing[s] \subseteq R
  <2> SUFFICES ASSUME NEW s \in R, NEW t \in outgoing[s] PROVE t \in Reachable(b)
    BY Zenon
  <2>1. s \in Providers /\ t \in Providers
    BY Zenon DEF ScheduleTypeOK, Reachable
  <2>2. ASSUME NEW U \in SUBSET Providers, outgoing[b] \subseteq U,
               \A u \in U : outgoing[u] \subseteq U
        PROVE  t \in U
    BY <2>2, Zenon DEF Reachable
  <2> QED BY <2>1, <2>2, Zenon DEF Reachable
<1>2. a \notin R
  BY Zenon
<1> HIDE DEF R
<1>3. b \in R
  BY Zenon DEF R
<1>4. CASE S \subseteq R
  <2>1. Circular(S)
    BY <1>2, <1>4 DEF Circular
  <2> QED BY <2>1, Zenon
<1>5. CASE ~(S \subseteq R)
  <2>1. Circular(S \ R)
    BY <1>1, <1>3, <1>5, Zenon DEF Circular
  <2> QED BY <2>1, Zenon
<1> QED BY <1>4, <1>5, Zenon

-----------------------------------------------------------------------------
(* The schedule: the steps *)

LEMMA InitScheduleInv == ScheduleInit => ScheduleInv
<1> SUFFICES ASSUME ScheduleInit PROVE ScheduleInv
  BY Zenon
<1> USE DEF ScheduleInit
<1>0. N \in Nat
  BY ScheduleConstants, Zenon
<1>1. ScheduleTypeOK
  BY DEF ScheduleTypeOK
<1>2. EdgesInv
  BY Zenon DEF EdgesInv
<1>3. CountInv
  BY FS_EmptySet, Zenon DEF CountInv, Before
<1>4. AcyclicInv
  BY Zenon DEF AcyclicInv, Circular
<1>5. PairInv
  BY <1>0 DEF PairInv, Providers
<1>6. BatchInv
  BY Zenon DEF BatchInv
<1>7. CircleInv /\ GroupInv
  BY DEF CircleInv, GroupInv
<1> QED BY <1>1, <1>2, <1>3, <1>4, <1>5, <1>6, <1>7, Zenon DEF ScheduleInv, GraphInv

LEMMA AddRequiredStep == ScheduleInv /\ AddRequired => ScheduleInv'
<1> SUFFICES ASSUME ScheduleInv, AddRequired PROVE ScheduleInv'
  BY Zenon
<1> USE DEF ScheduleInv, GraphInv
<1>1. /\ pc = "edges" /\ visited = {} /\ groups = <<>>
      /\ UNCHANGED <<input, pair, ready, visited, groups>>
      /\ \A p \in Providers : outgoing[p] = {}
  BY Zenon DEF AddRequired, BatchInv, EdgesInv
<1>2. BatchInv'
  BY <1>1, Zenon DEF AddRequired, BatchInv
<1>3. CircleInv' /\ GroupInv'
  BY <1>1 DEF CircleInv, GroupInv
<1>4. CASE Missing
  <2>1. pc' = "missing" /\ UNCHANGED <<outgoing, incoming_count>>
    BY <1>4, Zenon DEF AddRequired
  <2>2. ScheduleTypeOK' /\ EdgesInv' /\ CountInv' /\ AcyclicInv'
    BY <1>1, <2>1 DEF ScheduleTypeOK, EdgesInv, CountInv, Before, AcyclicInv, Circular,
                      RequireInCycle, RequiredEdges, Needed, Suppliers
  <2>3. PairInv'
    BY <1>1, <2>1 DEF PairInv, Settled, Reachable, provider_effects_conflict
  <2> QED BY <1>2, <1>3, <2>2, <2>3, Zenon
<1>5. CASE ~Missing
  <2>1. pc' = "conflicts" /\ WithEdges(RequiredEdges)
    BY <1>5, Zenon DEF AddRequired
  <2>2. RequiredEdges \in SUBSET (Providers \X Providers) /\ RequiredEdges' = RequiredEdges
    BY <1>1, Zenon DEF RequiredEdges, Needed, Suppliers
  <2>3. /\ outgoing' \in [Providers -> SUBSET Providers]
        /\ incoming_count' \in [Providers -> Nat]
        /\ CountInv'
        /\ \A p, q \in Providers :
             q \in outgoing'[p] <=> q \in outgoing[p] \/ (p # q /\ <<p, q>> \in RequiredEdges)
    BY <1>1, <2>1, <2>2, WithEdgesCounts, Zenon
  <2>4. ScheduleTypeOK'
    BY <1>1, <2>1, <2>3, Zenon DEF ScheduleTypeOK
  <2>5. EdgesInv'
    <3>1. ASSUME NEW e \in RequiredEdges, e[1] # e[2] PROVE e[2] \in outgoing'[e[1]]
      <4>1. e[1] \in Providers /\ e[2] \in Providers /\ <<e[1], e[2]>> \in RequiredEdges
        BY <2>2
      <4> QED BY <2>3, <3>1, <4>1, Zenon
    <3>2. \A p \in Providers : p \notin outgoing'[p]
      BY <1>1, <2>3, Zenon
    <3> QED BY <2>1, <2>2, <3>1, <3>2, Zenon DEF EdgesInv
  <2>6. AcyclicInv'
    <3> SUFFICES ASSUME NEW S \in SUBSET Providers, Circular(S)'
                 PROVE  RequireInCycle(S)'
      BY Zenon DEF AcyclicInv
    <3> QED BY <1>1, <2>2, <2>3, Zenon DEF Circular, RequireInCycle
  <2>7. PairInv'
    <3>1. \A p \in Providers : outgoing[p] \subseteq outgoing'[p]
      BY <1>1, Zenon
    <3>2. ASSUME NEW p \in Providers, NEW q \in Providers, Settled(p, q)
          PROVE  Settled(p, q)'
      BY <1>1, <3>1, <3>2, ReachesMore, Zenon DEF Settled, provider_effects_conflict
    <3> QED BY <1>1, <3>2, Zenon DEF PairInv
  <2> QED BY <1>2, <1>3, <2>3, <2>4, <2>5, <2>6, <2>7, Zenon
<1> QED BY <1>4, <1>5, Zenon

LEMMA AddConflictStep == ScheduleInv /\ AddConflict => ScheduleInv'
<1> SUFFICES ASSUME ScheduleInv, AddConflict PROVE ScheduleInv'
  OBVIOUS
<1> USE DEF ScheduleInv, GraphInv
<1>1. /\ pc = "conflicts" /\ pc' = "conflicts" /\ visited = {} /\ groups = <<>>
      /\ UNCHANGED <<input, ready, visited, groups>>
      /\ pair' = NextPair /\ pair[2] <= N
  BY Zenon DEF AddConflict, BatchInv
<1>a. PICK a \in Nat, b \in Nat : pair = <<a, b>>
  BY DEF ScheduleTypeOK
<1>2. N \in Nat /\ a \in Providers /\ b \in Providers /\ a < b /\ pair[1] = a /\ pair[2] = b
  BY <1>1, <1>a, ScheduleConstants DEF PairInv, Providers
<1>3. BatchInv' /\ CircleInv' /\ GroupInv'
  BY <1>1 DEF BatchInv, CircleInv, GroupInv
<1>4. RequiredEdges' = RequiredEdges
      /\ \A p, q : provider_effects_conflict(p, q)' <=> provider_effects_conflict(p, q)
  BY <1>1, Zenon DEF RequiredEdges, Needed, Suppliers, provider_effects_conflict
<1> DEFINE adds == provider_effects_conflict(a, b) /\ a \notin Reachable(b)
<1>5. /\ outgoing' \in [Providers -> SUBSET Providers]
      /\ incoming_count' \in [Providers -> Nat]
      /\ CountInv'
      /\ \A p, q \in Providers :
           q \in outgoing'[p] <=> q \in outgoing[p] \/ (adds /\ p = a /\ q = b)
  <2>1. CASE adds
    <3>1. WithEdges({pair})
      BY <1>2, <2>1, Zenon DEF AddConflict
    <3>2. {pair} \in SUBSET (Providers \X Providers)
      BY <1>a, <1>2, Zenon
    <3>3. \A p, q : <<p, q>> \in {pair} <=> p = a /\ q = b
      BY <1>a, Zenon
    <3>4. /\ outgoing' \in [Providers -> SUBSET Providers]
          /\ incoming_count' \in [Providers -> Nat]
          /\ CountInv'
          /\ \A p, q \in Providers :
               q \in outgoing'[p] <=> q \in outgoing[p] \/ (p # q /\ <<p, q>> \in {pair})
      BY <1>1, <3>1, <3>2, WithEdgesCounts, Zenon
    <3>5. a # b
      BY <1>2
    <3> QED BY <2>1, <3>3, <3>4, <3>5, Zenon
  <2>2. CASE ~adds
    <3>1. UNCHANGED <<outgoing, incoming_count>>
      BY <1>2, <2>2, Zenon DEF AddConflict
    <3> QED BY <1>1, <2>2, <3>1, Zenon DEF ScheduleTypeOK, CountInv, Before
  <2> QED BY <2>1, <2>2, Zenon
<1>6. ScheduleTypeOK'
  BY <1>1, <1>2, <1>5, SMTT(30) DEF ScheduleTypeOK, NextPair
<1>7. EdgesInv'
  <2>1. \A e \in RequiredEdges : e[1] \in Providers /\ e[2] \in Providers
    BY Zenon DEF RequiredEdges
  <2>2. a # b
    BY <1>2
  <2> QED BY <1>1, <1>4, <1>5, <2>1, <2>2 DEF EdgesInv
<1>8. AcyclicInv'
  <2> SUFFICES ASSUME NEW S \in SUBSET Providers, Circular(S)'
               PROVE  \E T \in SUBSET Providers : RequireInCycle(T)'
    BY Zenon DEF AcyclicInv
  <2>1. \E T \in SUBSET Providers : Circular(T)
    <3>1. CASE adds
      <4>1. a # b
        BY <1>2
      <4>2. \A p, q \in Providers : q \in outgoing'[p] => q \in outgoing[p] \/ (p = a /\ q = b)
        BY <1>5, Zenon
      <4> QED BY <1>2, <3>1, <4>1, <4>2, EdgeMakesNoCircle, Zenon
    <3>2. CASE ~adds
      BY <1>5, <3>2, Zenon DEF Circular
    <3> QED BY <3>1, <3>2, Zenon
  <2> QED BY <1>4, <2>1, Zenon DEF AcyclicInv, RequireInCycle
<1>9. PairInv'
  <2>1. \A p \in Providers : outgoing[p] \subseteq outgoing'[p]
    BY <1>5, Zenon DEF ScheduleTypeOK
  <2>2. ASSUME NEW p \in Providers, NEW q \in Providers, Settled(p, q)
        PROVE  Settled(p, q)'
    BY <1>4, <2>1, <2>2, ReachesMore, Zenon DEF Settled
  <2>3. Settled(a, b)'
    <3>1. Reachable(b) \subseteq Reachable(b)'
      BY <1>2, <2>1, ReachesMore, Zenon
    <3>2. provider_effects_conflict(a, b) => a \in Reachable(b) \/ b \in outgoing'[a]
      BY <1>2, <1>5, Zenon
    <3> QED BY <1>4, <3>1, <3>2, Zenon DEF Settled
  <2>4. pair'[1] \in Nat /\ pair'[2] \in Nat /\ 1 <= pair'[1] /\ pair'[1] < pair'[2]
    BY <1>1, <1>2 DEF NextPair, PairInv
  <2>5. pair'[2] > N => pair'[1] >= N
    BY <1>1, <1>2 DEF NextPair
  <2>6. ASSUME NEW p \in Providers, NEW q \in Providers,
               p < q, p < pair'[1] \/ (p = pair'[1] /\ q < pair'[2])
        PROVE  Settled(p, q)'
    <3>1. p \in Nat /\ q \in Nat /\ q <= N
      BY <1>2 DEF Providers
    <3>2. p < a \/ (p = a /\ q < b) \/ (p = a /\ q = b)
      BY <1>1, <1>2, <2>6, <3>1 DEF NextPair
    <3> QED BY <1>2, <2>2, <2>3, <2>6, <3>2, Zenon DEF PairInv
  <2> QED BY <2>4, <2>5, <2>6, Zenon DEF PairInv
<1> QED BY <1>3, <1>5, <1>6, <1>7, <1>8, <1>9, Zenon

\* What is known of the graph stays true while no edge is added.
LEMMA GraphStays ==
  ASSUME ScheduleInv, UNCHANGED <<input, outgoing, pair>>,
         pc' = pc \/ (pc \notin {"edges", "missing"} /\ pc' \notin {"edges", "missing"})
  PROVE  /\ EdgesInv' /\ AcyclicInv' /\ PairInv'
         /\ \A S : Circular(S)' <=> Circular(S)
<1> USE DEF ScheduleInv, GraphInv
<1>1. EdgesInv'
  BY Zenon DEF EdgesInv, RequiredEdges, Needed, Suppliers
<1>2. PairInv'
  BY DEF PairInv, Settled, Reachable, provider_effects_conflict
<1>3. \A S : Circular(S)' <=> Circular(S)
  BY Zenon DEF Circular
<1>4. RequiredEdges' = RequiredEdges
  BY Zenon DEF RequiredEdges, Needed, Suppliers
<1>5. \A S : RequireInCycle(S)' <=> RequireInCycle(S)
  BY <1>4, Zenon DEF RequireInCycle
<1>6. AcyclicInv'
  BY <1>3, <1>5, Zenon DEF AcyclicInv
<1> QED BY <1>1, <1>2, <1>3, <1>6, Zenon

LEMMA StartBatchesStep == ScheduleInv /\ StartBatches => ScheduleInv'
<1> SUFFICES ASSUME ScheduleInv, StartBatches PROVE ScheduleInv'
  OBVIOUS
<1> USE DEF ScheduleInv, GraphInv
<1>1. /\ pc = "conflicts" /\ pc' = "batches" /\ pair[2] > N /\ visited = {} /\ groups = <<>>
      /\ ready' = {p \in Providers : incoming_count[p] = 0}
      /\ UNCHANGED <<input, outgoing, incoming_count, pair, visited, groups>>
  BY Zenon DEF StartBatches, BatchInv
<1>2. ScheduleTypeOK' /\ CountInv' /\ GroupInv'
  BY <1>1 DEF ScheduleTypeOK, CountInv, Before, GroupInv
<1>3. EdgesInv' /\ AcyclicInv' /\ PairInv' /\ CircleInv'
  BY <1>1, GraphStays, Zenon DEF CircleInv
<1>4. ASSUME NEW p \in Providers PROVE p \in ready' \cup visited' <=> Before(p)' = {}
  <2>1. Before(p)' = Before(p) /\ Before(p) \in SUBSET Providers
    BY <1>1, Zenon DEF Before
  <2>2. incoming_count[p] = 0 <=> Before(p) = {}
    BY <2>1, CountOfParts, Zenon DEF CountInv
  <2> QED BY <1>1, <2>1, <2>2, Zenon
<1>5. BatchInv'
  BY <1>1, <1>4, Zenon DEF BatchInv
<1> QED BY <1>2, <1>3, <1>5, Zenon

LEMMA TakeBatchStep == ScheduleInv /\ TakeBatch => ScheduleInv'
<1> SUFFICES ASSUME ScheduleInv, TakeBatch PROVE ScheduleInv'
  OBVIOUS
<1> USE DEF ScheduleInv, GraphInv
<1>1. /\ pc = "batches" /\ pc' = "batches" /\ ready # {} /\ ready \cap visited = {}
      /\ UNCHANGED <<input, outgoing, pair>>
      /\ \A p \in Providers : p \in ready \cup visited <=> Before(p) = {}
  BY Zenon DEF TakeBatch, BatchInv
<1>2. ready \ visited = ready /\ ready \subseteq Providers /\ visited \subseteq Providers
  BY <1>1, Zenon DEF ScheduleTypeOK
<1>3. /\ visited' = visited \cup ready
      /\ groups' = Append(groups, ready)
      /\ incoming_count' = [p \in Providers |->
           IF Passed(ready)[p] > incoming_count[p] THEN 0 ELSE incoming_count[p] - Passed(ready)[p]]
      /\ ready' = NextReady(ready)
  BY <1>1, <1>2, Zenon DEF TakeBatch
<1> DEFINE Gone(p) == {q \in ready : p \in outgoing[q]}
<1>4. ASSUME NEW p \in Providers
      PROVE  /\ Before(p) \in SUBSET Providers /\ Gone(p) \in SUBSET Before(p)
             /\ Before(p)' = Before(p) \ Gone(p)
             /\ Passed(ready)[p] = Cardinality(Gone(p))
  <2>1. Before(p) \in SUBSET Providers /\ Gone(p) \in SUBSET Before(p)
    BY <1>1, <1>2, Zenon DEF Before
  <2>2. Before(p)' = Before(p) \ Gone(p)
    BY <1>1, <1>2, <1>3 DEF Before
  <2>3. Passed(ready)[p] = Cardinality(Gone(p))
    BY Zenon DEF Passed
  <2> QED BY <2>1, <2>2, <2>3, Zenon
<1>5. ASSUME NEW p \in Providers
      PROVE  /\ incoming_count'[p] = Cardinality(Before(p)') /\ incoming_count'[p] \in Nat
             /\ p \in ready' <=> Gone(p) # {} /\ Before(p)' = {}
  <2> DEFINE b == Cardinality(Before(p))
             n == Cardinality(Gone(p))
  <2>1. /\ b \in Nat /\ n \in Nat /\ n <= b
        /\ Cardinality(Before(p)') = b - n
    BY <1>4, ProvidersFinite, CountOfParts, ZenonT(60)
  <2>2. n = 0 <=> Gone(p) = {}
    BY <1>4, CountOfParts, Zenon
  <2>3. b - n = 0 <=> Before(p)' = {}
    <3>1. Before(p)' \in SUBSET Providers
      BY <1>4, Zenon
    <3>2. Cardinality(Before(p)') = 0 <=> Before(p)' = {}
      BY <3>1, CountOfParts, Zenon
    <3> QED BY <2>1, <3>2, Zenon
  <2>4. incoming_count[p] = b /\ Passed(ready)[p] = n
    BY <1>4, Zenon DEF CountInv
  <2> HIDE DEF b, n
  <2>5. incoming_count'[p] = b - n
    BY <1>3, <2>1, <2>4
  <2>6. p \in ready' <=> n > 0 /\ b <= n
    BY <1>3, <2>4, Zenon DEF NextReady
  <2> QED BY <2>1, <2>2, <2>3, <2>5, <2>6
<1>6. CountInv'
  BY <1>5, Zenon DEF CountInv
<1>7. ScheduleTypeOK'
  <2>1. incoming_count' \in [Providers -> Nat]
    BY <1>3, <1>5, Zenon
  <2>2. ready' \subseteq Providers
    BY <1>3, Zenon DEF NextReady
  <2>3. groups' \in Seq(SUBSET Providers)
    BY <1>2, <1>3 DEF ScheduleTypeOK
  <2> QED BY <1>1, <1>2, <1>3, <2>1, <2>2, <2>3, Zenon DEF ScheduleTypeOK
<1>8. EdgesInv' /\ AcyclicInv' /\ PairInv'
  BY <1>1, GraphStays, Zenon
<1>9. BatchInv'
  <2>1. pair'[2] > N
    BY <1>1, Zenon DEF BatchInv
  <2>2. ASSUME NEW p \in ready' PROVE p \notin visited'
    <3>1. p \in Providers
      BY <1>3, <2>2, Zenon DEF NextReady
    <3>2. Before(p) # {}
      BY <1>4, <1>5, <2>2, <3>1, Zenon
    <3> QED BY <1>1, <1>3, <3>1, <3>2, Zenon
  <2>3. ASSUME NEW p \in Providers PROVE p \in ready' \cup visited' <=> Before(p)' = {}
    <3>1. CASE Before(p) = {}
      <4>1. p \in visited' /\ Before(p)' = {}
        BY <1>1, <1>3, <1>4, <3>1, Zenon
      <4> QED BY <4>1, Zenon
    <3>2. CASE Before(p) # {}
      <4>1. p \notin visited'
        BY <1>1, <1>3, <3>2, Zenon
      <4>2. Before(p)' = {} => Gone(p) # {}
        BY <1>4, <3>2, Zenon
      <4>3. p \in ready' <=> Gone(p) # {} /\ Before(p)' = {}
        BY <1>5, Zenon
      <4> QED BY <4>1, <4>2, <4>3, Zenon
    <3> QED BY <3>1, <3>2, Zenon
  <2> QED BY <1>1, <2>1, <2>2, <2>3, Zenon DEF BatchInv
<1>10. \A p \in ready \cup visited, q \in Providers : p \in outgoing[q] => q \in visited
  BY <1>1, <1>2, Zenon DEF Before
<1>11. CircleInv'
  <2> SUFFICES ASSUME NEW S \in SUBSET Providers, Circular(S), NEW p \in S, p \in visited'
               PROVE  FALSE
    BY <1>1, GraphStays, Zenon DEF CircleInv
  <2>1. PICK q \in S : p \in outgoing[q]
    BY Zenon DEF Circular
  <2>2. q \in visited
    BY <1>3, <1>10, <2>1, Zenon
  <2> QED BY <2>2, Zenon DEF CircleInv
<1>12. GroupInv'
  <2>1. /\ DOMAIN groups = 1..Len(groups) /\ Len(groups) \in Nat
        /\ DOMAIN groups' = 1..(Len(groups) + 1)
        /\ \A g \in DOMAIN groups : groups'[g] = groups[g]
        /\ groups'[Len(groups) + 1] = ready
    BY <1>3, <1>2 DEF ScheduleTypeOK
  <2>2. \A g \in DOMAIN groups : groups[g] \subseteq visited
    BY DEF GroupInv, ScheduleTypeOK
  <2>3. ASSUME NEW p \in Providers
        PROVE  p \in visited' <=> \E g \in DOMAIN groups' : p \in groups'[g]
    <3>1. p \in visited' <=> p \in ready \/ \E g \in DOMAIN groups : p \in groups[g]
      BY <1>3, Zenon DEF GroupInv
    <3> QED BY <2>1, <3>1
  <2>4. ASSUME NEW g \in DOMAIN groups', NEW h \in DOMAIN groups', g # h
        PROVE  groups'[g] \cap groups'[h] = {}
    BY <1>1, <2>1, <2>2, <2>4 DEF GroupInv
  <2>5. ASSUME NEW g \in DOMAIN groups', NEW h \in DOMAIN groups',
               NEW p \in groups'[g], NEW q \in groups'[h], q \in outgoing'[p]
        PROVE  g < h
    <3>1. q \in ready \cup visited
      BY <2>1, <2>2
    <3>2. p \in ready \cup visited /\ p \in Providers
      BY <1>2, <2>1, <2>2
    <3>3. p \in visited
      BY <1>1, <1>10, <2>5, <3>1, <3>2, Zenon
    <3>4. g \in DOMAIN groups
      BY <1>1, <2>1, <3>3
    <3>5. CASE h \in DOMAIN groups
      BY <1>1, <2>1, <2>5, <3>4, <3>5, Zenon DEF GroupInv
    <3>6. CASE h = Len(groups) + 1
      BY <2>1, <3>4, <3>6
    <3> QED BY <2>1, <3>5, <3>6
  <2> QED BY <2>3, <2>4, <2>5, Zenon DEF GroupInv
<1> QED BY <1>6, <1>7, <1>8, <1>9, <1>11, <1>12, Zenon

LEMMA FinishStep == ScheduleInv /\ Finish => ScheduleInv'
<1> SUFFICES ASSUME ScheduleInv, Finish PROVE ScheduleInv'
  OBVIOUS
<1> USE DEF ScheduleInv, GraphInv
<1>1. /\ pc = "batches" /\ ready = {} /\ pc' = IF visited = Providers THEN "done" ELSE "cycle"
      /\ UNCHANGED <<input, outgoing, incoming_count, pair, ready, visited, groups>>
  BY Zenon DEF Finish
<1>2. ScheduleTypeOK' /\ CountInv' /\ GroupInv'
  BY <1>1 DEF ScheduleTypeOK, CountInv, Before, GroupInv
<1>3. EdgesInv' /\ AcyclicInv' /\ PairInv' /\ CircleInv'
  BY <1>1, GraphStays, Zenon DEF CircleInv
<1>4. BatchInv'
  BY <1>1, Zenon DEF BatchInv, Before
<1> QED BY <1>2, <1>3, <1>4

LEMMA StutterStep == ScheduleInv /\ UNCHANGED schedule_vars => ScheduleInv'
<1> SUFFICES ASSUME ScheduleInv, UNCHANGED schedule_vars PROVE ScheduleInv'
  BY Zenon
<1> USE DEF ScheduleInv, GraphInv, schedule_vars
<1>1. ScheduleTypeOK' /\ CountInv' /\ BatchInv' /\ GroupInv'
  BY DEF ScheduleTypeOK, CountInv, Before, BatchInv, GroupInv
<1>2. EdgesInv' /\ AcyclicInv' /\ PairInv' /\ CircleInv'
  BY GraphStays, Zenon DEF CircleInv
<1> QED BY <1>1, <1>2, Zenon

-----------------------------------------------------------------------------
(* The schedule: the theorems *)

\* The invariant of provider_schedule_batches: the counters are those of the edges not yet
\* passed, the conflict edges make no circle, and the groups follow the edges.
THEOREM ScheduleInvariant == ScheduleSpec => []ScheduleInv
<1>1. ScheduleInv /\ [ScheduleNext]_schedule_vars => ScheduleInv'
  BY AddRequiredStep, AddConflictStep, StartBatchesStep, TakeBatchStep, FinishStep, StutterStep, Zenon
     DEF ScheduleNext, ScheduleDone
<1> QED BY <1>1, InitScheduleInv, PTL DEF ScheduleSpec

\* A stage is refused for a cycle exactly if its providers require each other in one, for
\* any number of providers: adding an edge for a conflict only where the later provider
\* does not lead back to the earlier one makes no new cycle
\* (query_provider_registry.rs:849-872), and the batches stop short only at one.
THEOREM CyclesAreExact == ScheduleSpec => []CyclesExact
<1>1. ScheduleInv => CyclesExact
  <2> SUFFICES ASSUME ScheduleInv PROVE CyclesExact
    BY Zenon
  <2> USE DEF ScheduleInv, GraphInv
  <2>1. ASSUME pc = "cycle" PROVE \E S \in SUBSET Providers : RequireInCycle(S)
    <3> DEFINE S == Providers \ visited
    <3>1. S # {} /\ ready = {}
      BY <2>1, Zenon DEF BatchInv, ScheduleTypeOK
    <3>2. \A p \in S : Before(p) # {}
      BY <2>1, <3>1, Zenon DEF BatchInv
    <3>3. Circular(S)
      BY <3>1, <3>2, Zenon DEF Circular, Before
    <3> QED BY <3>3, Zenon DEF AcyclicInv
  <2>2. ASSUME pc = "done", NEW S \in SUBSET Providers, RequireInCycle(S) PROVE FALSE
    <3>1. Circular(S)
      <4> SUFFICES ASSUME NEW p \in S PROVE \E q \in S : p \in outgoing[q]
        BY <2>2, Zenon DEF Circular, RequireInCycle
      <4>1. PICK q \in S : q # p /\ <<q, p>> \in RequiredEdges
        BY <2>2, Zenon DEF RequireInCycle
      <4>2. <<q, p>>[1] = q /\ <<q, p>>[2] = p
        BY Zenon
      <4> QED BY <2>2, <4>1, <4>2, Zenon DEF EdgesInv
    <3>2. visited = Providers
      BY <2>2, Zenon DEF BatchInv
    <3> QED BY <2>2, <3>1, <3>2, Zenon DEF CircleInv, RequireInCycle
  <2> QED BY <2>1, <2>2, Zenon DEF CyclesExact
<1> QED BY <1>1, ScheduleInvariant, PTL

\* Every schedule puts every provider in one group, after what it requires and apart from
\* what it conflicts with, for any number of providers: a conflict without an edge of its
\* own has a path the other way, and groups grow along it.
THEOREM SchedulesAreSafe == ScheduleSpec => []ScheduleIsSafe
<1>1. ScheduleInv => ScheduleIsSafe
  <2> SUFFICES ASSUME ScheduleInv, pc = "done"
               PROVE  /\ UNION {groups[g] : g \in DOMAIN groups} = Providers
                      /\ \A g, h \in DOMAIN groups : g # h => groups[g] \cap groups[h] = {}
                      /\ \A g, h \in DOMAIN groups : \A p \in groups[g], q \in groups[h] :
                           /\ p # q /\ <<p, q>> \in RequiredEdges => g < h
                           /\ p # q /\ provider_effects_conflict(p, q) => g # h
    BY Zenon DEF ScheduleIsSafe
  <2> USE DEF ScheduleInv, GraphInv
  <2>1. visited = Providers /\ pair[2] > N
    BY Zenon DEF BatchInv
  <2>2. /\ \A g \in DOMAIN groups : groups[g] \subseteq Providers
        /\ DOMAIN groups \subseteq Nat
    BY DEF ScheduleTypeOK
  <2>3. UNION {groups[g] : g \in DOMAIN groups} = Providers
    BY <2>1, <2>2 DEF GroupInv
  <2>4. \A g, h \in DOMAIN groups : g # h => groups[g] \cap groups[h] = {}
    BY Zenon DEF GroupInv
  <2>5. ASSUME NEW g \in DOMAIN groups, NEW h \in DOMAIN groups,
               NEW p \in groups[g], NEW q \in groups[h], p # q, <<p, q>> \in RequiredEdges
        PROVE  g < h
    <3>1. <<p, q>>[1] = p /\ <<p, q>>[2] = q
      BY Zenon
    <3>2. q \in outgoing[p]
      BY <2>5, <3>1, Zenon DEF EdgesInv
    <3> QED BY <3>2, Zenon DEF GroupInv
  <2>6. ASSUME NEW g \in DOMAIN groups, NEW h \in DOMAIN groups,
               NEW p \in groups[g], NEW q \in groups[h], p < q, provider_effects_conflict(p, q)
        PROVE  g # h
    <3>1. /\ p \in Providers /\ q \in Providers /\ N \in Nat
          /\ p \in Nat /\ q \in Nat /\ p <= N /\ q <= N
      BY <2>2, ScheduleConstants DEF Providers
    <3>2. pair[1] \in Nat /\ pair[2] \in Nat /\ pair[1] >= N
      BY <2>1, Zenon DEF PairInv, ScheduleTypeOK
    <3>3. Settled(p, q)
      <4>1. p < pair[1]
        BY <2>6, <3>1, <3>2
      <4> QED BY <2>6, <3>1, <4>1, Zenon DEF PairInv
    <3>4. CASE q \in outgoing[p]
      <4>1. g < h
        BY <3>4, Zenon DEF GroupInv
      <4> QED BY <2>2, <4>1
    <3>5. CASE p \in Reachable(q)
      <4> DEFINE S == {x \in Providers : \E k \in DOMAIN groups : x \in groups[k] /\ k > h}
      <4>1. \A x, y \in Providers : \A k \in DOMAIN groups :
              x \in groups[k] /\ y \in outgoing[x] => \E m \in DOMAIN groups : y \in groups[m] /\ k < m
        BY <2>1, Zenon DEF GroupInv
      <4>2. outgoing[q] \subseteq S
        BY <2>2, <3>1, <4>1, Zenon DEF ScheduleTypeOK
      <4>3. \A s \in S : outgoing[s] \subseteq S
        <5> SUFFICES ASSUME NEW s \in S, NEW t \in outgoing[s] PROVE t \in S
          BY Zenon
        <5>1. t \in Providers
          BY Zenon DEF ScheduleTypeOK
        <5>2. PICK k \in DOMAIN groups : s \in groups[k] /\ k > h
          BY Zenon
        <5>3. PICK m \in DOMAIN groups : t \in groups[m] /\ k < m
          BY <4>1, <5>1, <5>2, Zenon
        <5>4. m > h
          BY <2>2, <5>2, <5>3
        <5> QED BY <5>1, <5>3, <5>4, Zenon
      <4>4. p \in S
        BY <3>5, <4>2, <4>3, Zenon DEF Reachable
      <4>5. PICK k \in DOMAIN groups : p \in groups[k] /\ k > h
        BY <4>4, Zenon
      <4>6. k = g
        BY <2>4, <4>5, Zenon
      <4> QED BY <2>2, <4>5, <4>6
    <3> QED BY <2>6, <3>3, <3>4, <3>5, Zenon DEF Settled
  <2>7. ASSUME NEW g \in DOMAIN groups, NEW h \in DOMAIN groups,
               NEW p \in groups[g], NEW q \in groups[h], p # q, provider_effects_conflict(p, q)
        PROVE  g # h
    <3>1. p \in Nat /\ q \in Nat
      BY <2>2 DEF Providers
    <3>2. provider_effects_conflict(q, p)
      BY <2>7, Zenon DEF provider_effects_conflict
    <3>3. p < q \/ q < p
      BY <2>7, <3>1
    <3> QED BY <2>6, <2>7, <3>2, <3>3, Zenon
  <2> QED BY <2>3, <2>4, <2>5, <2>7, Zenon
<1> QED BY <1>1, ScheduleInvariant, PTL

-----------------------------------------------------------------------------
(* The semantic graph: its invariant *)

Entry == [version : Nat, value : Value]

GraphType ==
  [symbols : [Name -> (SUBSET Id) \cup {NoValue}], semantics : [Name -> Id \cup {NoValue}],
   stable_ids : [Name -> Id \cup {NoValue}],
   facts : [Fact -> Seq(Entry)], retractions : [Fact -> SUBSET Nat], current_version : Nat,
   cells : [Cell -> Nat], next_cell : Nat, version : Nat, names : Nat, generation : Nat]

\* No cell has the generation that is given next, and nothing was set or retracted in a
\* version to come.
Good(g) ==
  /\ g \in GraphType
  /\ \A c \in Cell : g.cells[c] < g.next_cell
  /\ \A f \in Fact : \A i \in DOMAIN g.facts[f] : g.facts[f][i].version <= g.current_version
  /\ \A f \in Fact : \A r \in g.retractions[f] : r <= g.current_version

SemanticInv == Good(graph) /\ (graph_snapshot # NoValue => Good(graph_snapshot))

-----------------------------------------------------------------------------
(* The semantic graph: reading *)

\* Where the entries up to a version end: there is such a place, and one only.
LEMMA PartitionPoint ==
  ASSUME NEW h \in Seq(Entry), NEW v \in Nat
  PROVE  /\ partition_point(h, v) \in 0..Len(h)
         /\ partition_point(h, v) # 0 => h[partition_point(h, v)].version <= v
         /\ \A j \in (partition_point(h, v) + 1)..Len(h) : h[j].version > v
         /\ \A i \in 0..Len(h) :
              (i # 0 => h[i].version <= v) /\ (\A j \in (i + 1)..Len(h) : h[j].version > v)
                => partition_point(h, v) = i
<1> DEFINE Ends(i) == (i # 0 => h[i].version <= v) /\ \A j \in (i + 1)..Len(h) : h[j].version > v
           T == {i \in 0..Len(h) : \A j \in (i + 1)..Len(h) : h[j].version > v}
<1>1. Len(h) \in Nat /\ \A i \in 1..Len(h) : h[i].version \in Nat
  <2>1. \A i \in 1..Len(h) : h[i] \in Entry
    OBVIOUS
  <2> QED BY <2>1 DEF Entry
<1>2. T \subseteq Nat /\ Len(h) \in T
  BY <1>1
<1>3. PICK n \in T : \A m \in T : <<m, n>> \notin OpToRel(<, Nat)
  BY <1>2, NatLessThanWellFounded, WFMin, Zenon
<1>4. n \in 0..Len(h) /\ Ends(n)
  <2>1. n \in 0..Len(h) /\ \A j \in (n + 1)..Len(h) : h[j].version > v
    BY Zenon
  <2>2. ASSUME n # 0, ~(h[n].version <= v) PROVE FALSE
    <3>1. n - 1 \in T
      <4>1. n - 1 \in 0..Len(h)
        BY <1>1, <2>1, <2>2
      <4>2. ASSUME NEW j \in ((n - 1) + 1)..Len(h) PROVE h[j].version > v
        BY <1>1, <2>1, <2>2
      <4> QED BY <4>1, <4>2, Zenon
    <3>2. n \in Nat /\ n - 1 \in Nat /\ n - 1 < n
      BY <1>2, <2>2, <3>1
    <3>3. <<n - 1, n>> \in OpToRel(<, Nat)
      BY <3>2, Zenon DEF OpToRel
    <3> QED BY <1>3, <3>1, <3>3, Zenon
  <2> QED BY <2>1, <2>2, Zenon
<1>5. ASSUME NEW i \in 0..Len(h), NEW k \in 0..Len(h), Ends(i), Ends(k), i < k PROVE FALSE
  <2>1. k # 0 /\ k \in (i + 1)..Len(h) /\ k \in 1..Len(h)
    BY <1>1, <1>5
  <2>2. h[k].version <= v /\ h[k].version > v
    BY <1>5, <2>1, Zenon
  <2> QED BY <1>1, <2>1, <2>2
<1>6. partition_point(h, v) = CHOOSE i \in 0..Len(h) : Ends(i)
  BY Zenon DEF partition_point
<1> HIDE DEF Ends, T
<1>7. partition_point(h, v) \in 0..Len(h) /\ Ends(partition_point(h, v))
  BY <1>4, <1>6, Zenon
<1>8. \A i \in 0..Len(h) : Ends(i) => partition_point(h, v) = i
  <2> SUFFICES ASSUME NEW i \in 0..Len(h), Ends(i), partition_point(h, v) # i PROVE FALSE
    BY Zenon
  <2>1. i < partition_point(h, v) \/ partition_point(h, v) < i
    BY <1>1, <1>7
  <2> QED BY <1>5, <1>7, <2>1, Zenon
<1> QED BY <1>7, <1>8, Zenon DEF Ends

\* A fact is read from its history and its retractions up to the version.
LEMMA ReadsUpTo ==
  ASSUME NEW g, NEW x, Good(g), Good(x), NEW f \in Fact, NEW v \in Nat,
         \/ x.facts[f] = g.facts[f]
         \/ \E e \in Entry : x.facts[f] = Append(g.facts[f], e) /\ e.version > v,
         \A r \in Nat : r <= v => (r \in x.retractions[f] <=> r \in g.retractions[f])
  PROVE  get_fact(x, f, v) = get_fact(g, f, v)
<1> DEFINE h == g.facts[f]
           k == x.facts[f]
           n == partition_point(h, v)
<1>1. h \in Seq(Entry) /\ k \in Seq(Entry) /\ Len(h) \in Nat
  BY DEF Good, GraphType
<1>2. n \in 0..Len(h) /\ (n # 0 => h[n].version <= v) /\ \A j \in (n + 1)..Len(h) : h[j].version > v
  BY <1>1, PartitionPoint, Zenon
<1>3. partition_point(k, v) = n /\ (n # 0 => k[n] = h[n])
  <2>1. CASE k = h
    BY <2>1, Zenon
  <2>2. CASE \E e \in Entry : k = Append(h, e) /\ e.version > v
    <3>1. PICK e \in Entry : k = Append(h, e) /\ e.version > v
      BY <2>2, Zenon
    <3>2. Len(k) = Len(h) + 1 /\ k[Len(h) + 1] = e /\ \A i \in 1..Len(h) : k[i] = h[i]
      BY <1>1, <3>1
    <3>3. n \in 0..Len(k) /\ (n # 0 => k[n] = h[n])
      BY <1>1, <1>2, <3>2
    <3>4. ASSUME NEW j \in (n + 1)..Len(k) PROVE k[j].version > v
      <4>1. CASE j = Len(h) + 1
        BY <3>1, <3>2, <4>1, Zenon
      <4>2. CASE j # Len(h) + 1
        <5>1. j \in (n + 1)..Len(h) /\ j \in 1..Len(h)
          BY <1>1, <1>2, <3>2, <4>2, SMTT(30)
        <5> QED BY <1>2, <3>2, <5>1, ZenonT(60)
      <4> QED BY <4>1, <4>2, Zenon
    <3> HIDE DEF n, h, k
    <3> QED BY <1>1, <1>2, <3>3, <3>4, PartitionPoint, Zenon
  <2> QED BY <2>1, <2>2, Zenon
<1>4. ASSUME n # 0
      PROVE  (\E r \in x.retractions[f] : h[n].version <= r /\ r <= v)
               <=> (\E r \in g.retractions[f] : h[n].version <= r /\ r <= v)
  BY Zenon DEF Good, GraphType
<1> QED BY <1>3, <1>4, Zenon DEF get_fact

-----------------------------------------------------------------------------
(* The semantic graph: writing *)

\* What was read at the versions before the current one is read there still.
KeepsHistory(g, x) ==
  \A f \in Fact, v \in Nat : v < g.current_version => get_fact(x, f, v) = get_fact(g, f, v)

\* What every write promises: it says whether readers see a change, what they see changed
\* has a generation above all others, a failure changes nothing, and history is kept.
WriteOK(g, r) ==
  /\ Good(r.graph) /\ r.is \in {"changed", "same", "error"}
  /\ r.is = "changed" <=> \E c \in Cell : Reads(r.graph, c) # Reads(g, c)
  /\ \A c \in Cell : Reads(r.graph, c) # Reads(g, c) =>
       \A d \in Cell : r.graph.cells[c] > g.cells[d]
  /\ r.is = "error" => r.graph = g
  /\ KeepsHistory(g, r.graph)

LEMMA NoChangeOK ==
  ASSUME NEW g, Good(g)
  PROVE  WriteOK(g, Same(g)) /\ WriteOK(g, Refused(g))
BY Zenon DEF WriteOK, Same, Refused, KeepsHistory

\* What is read of a cell depends on the names and the facts only.
LEMMA ReadsSame ==
  ASSUME NEW x, NEW b, NEW c \in Cell,
         b.symbols = x.symbols, b.semantics = x.semantics, b.stable_ids = x.stable_ids,
         b.facts = x.facts, b.retractions = x.retractions, b.current_version = x.current_version
  PROVE  Reads(b, c) = Reads(x, c)
BY Zenon DEF Reads, get_fact

\* bump_cell_prepared: one cell gets the next generation.
LEMMA BumpedFields ==
  ASSUME NEW x, Good(x), NEW cell \in Cell, NEW counter
  PROVE  /\ Bumped(x, cell, counter).symbols = x.symbols
         /\ Bumped(x, cell, counter).semantics = x.semantics
         /\ Bumped(x, cell, counter).stable_ids = x.stable_ids
         /\ Bumped(x, cell, counter).facts = x.facts
         /\ Bumped(x, cell, counter).retractions = x.retractions
         /\ Bumped(x, cell, counter).current_version = x.current_version
         /\ Bumped(x, cell, counter).cells = [x.cells EXCEPT ![cell] = x.next_cell]
         /\ Good(Bumped(x, cell, counter))
<1> DEFINE b == Bumped(x, cell, counter)
<1>1. /\ b.symbols = x.symbols /\ b.semantics = x.semantics /\ b.stable_ids = x.stable_ids
      /\ b.facts = x.facts /\ b.retractions = x.retractions
      /\ b.current_version = x.current_version
      /\ b.cells = [x.cells EXCEPT ![cell] = x.next_cell]
      /\ b.next_cell = x.next_cell + 1
  BY Zenon DEF Good, GraphType, Bumped
<1>2. b \in GraphType
  <2> DEFINE cells == [x.cells EXCEPT ![cell] = x.next_cell]
             names == IF counter = "names" THEN x.names + 1 ELSE x.names
             generation == IF counter = "generation" THEN x.generation + 1 ELSE x.generation
  <2>1. /\ x \in GraphType
        /\ x.cells \in [Cell -> Nat] /\ x.next_cell \in Nat /\ x.version \in Nat
        /\ x.names \in Nat /\ x.generation \in Nat
    BY Zenon DEF Good, GraphType
  <2>2. /\ cells \in [Cell -> Nat] /\ names \in Nat /\ generation \in Nat
        /\ x.next_cell + 1 \in Nat /\ x.version + 1 \in Nat
    BY <2>1
  <2>3. b = [x EXCEPT !.cells = cells, !.next_cell = x.next_cell + 1, !.version = x.version + 1,
                      !.names = names, !.generation = generation]
    BY Zenon DEF Bumped
  <2> HIDE DEF b, cells, names, generation
  <2> QED BY <2>1, <2>2, <2>3, Zenon DEF GraphType
<1>3. \A c \in Cell : b.cells[c] < b.next_cell
  <2>1. x.next_cell \in Nat /\ x.cells \in [Cell -> Nat] /\ \A c \in Cell : x.cells[c] < x.next_cell
    BY Zenon DEF Good, GraphType
  <2>2. \A c \in Cell : b.cells[c] = IF c = cell THEN x.next_cell ELSE x.cells[c]
    BY <1>1, <2>1, Zenon
  <2> HIDE DEF b
  <2> QED BY <1>1, <2>1, <2>2
<1> HIDE DEF b
<1>4. Good(b)
  BY <1>1, <1>2, <1>3, Zenon DEF Good
<1> QED BY <1>1, <1>4, Zenon DEF b

\* A change of one cell, after the counters were found to have room.
LEMMA AdvanceOK ==
  ASSUME NEW g, Good(g), NEW x, Good(x), NEW cell \in Cell, NEW counter,
         NEW is \in {"changed", "same"},
         x.cells = g.cells, x.next_cell = g.next_cell,
         \A c \in Cell \ {cell} : Reads(x, c) = Reads(g, c),
         is = "changed" <=> Reads(x, cell) # Reads(g, cell),
         KeepsHistory(g, x)
  PROVE  WriteOK(g, Advance(g, cell, counter, [is |-> is, graph |-> x]))
<1> DEFINE b == Bumped(x, cell, counter)
           r == Advance(g, cell, counter, [is |-> is, graph |-> x])
<1> SUFFICES WriteOK(g, r)
  BY Zenon
<1>1. r = Refused(g) \/ r = [is |-> is, graph |-> b]
  BY Zenon DEF Advance
<1> HIDE DEF r
<1>2. CASE r = Refused(g)
  BY <1>2, NoChangeOK, Zenon
<1>3. CASE r = [is |-> is, graph |-> b]
  <2>1. /\ b.symbols = x.symbols /\ b.semantics = x.semantics /\ b.stable_ids = x.stable_ids
        /\ b.facts = x.facts /\ b.retractions = x.retractions
        /\ b.current_version = x.current_version
        /\ b.cells = [x.cells EXCEPT ![cell] = x.next_cell] /\ Good(b)
    BY BumpedFields
  <2>2. r.graph = b /\ r.is = is
    BY <1>3, Zenon
  <2> HIDE DEF b
  <2>3. \A c \in Cell : Reads(b, c) = Reads(x, c)
    BY <2>1, ReadsSame, Zenon
  <2>4. ASSUME NEW c \in Cell, Reads(b, c) # Reads(g, c), NEW d \in Cell
        PROVE  b.cells[c] > g.cells[d]
    <3>1. c = cell
      BY <2>3, <2>4, Zenon
    <3>2. /\ g.next_cell \in Nat /\ g.cells \in [Cell -> Nat] /\ g.cells[d] < g.next_cell
      BY Zenon DEF Good, GraphType
    <3>3. b.cells[c] = g.next_cell
      BY <2>1, <3>1, <3>2, ZenonT(60)
    <3> QED BY <3>2, <3>3, Zenon
  <2>5. KeepsHistory(g, b)
    BY <2>1 DEF KeepsHistory, get_fact
  <2> QED BY <2>1, <2>2, <2>3, <2>4, <2>5, ZenonT(60) DEF WriteOK
<1> QED BY <1>1, <1>2, <1>3, Zenon

\* A cell is a kind and what it is of.
LEMMA Cells ==
  /\ \A f \in Fact : <<"fact", f>> \in Cell
  /\ \A n \in Name : /\ <<"symbol.entry", n>> \in Cell /\ <<"semantic.entry", n>> \in Cell
                     /\ <<"stable_id", n>> \in Cell
  /\ \A s \in Subject : <<"_rollback", s>> \in Cell
  /\ \A c \in Cell : /\ c = <<c[1], c[2]>>
                     /\ \/ c[1] = "fact" /\ c[2] \in Fact
                        \/ c[1] \in {"symbol.entry", "semantic.entry", "stable_id"} /\ c[2] \in Name
                        \/ c[1] = "_rollback" /\ c[2] \in Subject
BY DEF Cell

LEMMA DefineSymbolOK ==
  ASSUME NEW g, Good(g), NEW name \in Name, NEW public_names \in (SUBSET Id) \cup {NoValue}
  PROVE  g.symbols[name] # public_names =>
           WriteOK(g, Advance(g, <<"symbol.entry", name>>, "names",
                              Changed([g EXCEPT !.symbols[name] = public_names])))
<1> DEFINE x == [g EXCEPT !.symbols[name] = public_names]
           cell == <<"symbol.entry", name>>
<1> SUFFICES ASSUME g.symbols[name] # public_names
             PROVE  WriteOK(g, Advance(g, cell, "names", [is |-> "changed", graph |-> x]))
  BY Zenon DEF Changed
<1>1. /\ g \in GraphType /\ g.symbols \in [Name -> (SUBSET Id) \cup {NoValue}]
  BY Zenon DEF Good, GraphType
<1>2. /\ x.symbols = [g.symbols EXCEPT ![name] = public_names]
      /\ x.semantics = g.semantics /\ x.stable_ids = g.stable_ids
      /\ x.facts = g.facts /\ x.retractions = g.retractions /\ x.cells = g.cells
      /\ x.current_version = g.current_version /\ x.next_cell = g.next_cell
  BY <1>1, Zenon DEF GraphType
<1>3. x \in GraphType
  <2> DEFINE symbols == [g.symbols EXCEPT ![name] = public_names]
  <2>1. symbols \in [Name -> (SUBSET Id) \cup {NoValue}]
    BY <1>1, Zenon
  <2>2. x = [g EXCEPT !.symbols = symbols]
    BY Zenon
  <2> HIDE DEF x, symbols
  <2> QED BY <1>1, <2>1, <2>2, Zenon DEF GraphType
<1> HIDE DEF x
<1>4. Good(x) /\ KeepsHistory(g, x)
  BY <1>2, <1>3, Zenon DEF Good, KeepsHistory, get_fact
<1>5. cell \in Cell /\ Reads(x, cell) = public_names /\ Reads(g, cell) = g.symbols[name]
  BY <1>1, <1>2, Cells, Zenon DEF Reads
<1>6. ASSUME NEW c \in Cell \ {cell} PROVE Reads(x, c) = Reads(g, c)
  <2>1. c[1] = "symbol.entry" => c[2] # name
    BY Cells, Zenon
  <2> QED BY <1>1, <1>2, <2>1, Cells DEF Reads, get_fact
<1> HIDE DEF cell
<1> QED BY <1>2, <1>4, <1>5, <1>6, AdvanceOK, Zenon

LEMMA DefineSemanticOK ==
  ASSUME NEW g, Good(g), NEW name \in Name, NEW id \in Id
  PROVE  g.semantics[name] # id =>
           WriteOK(g, Advance(g, <<"semantic.entry", name>>, "names",
                              Changed([g EXCEPT !.semantics[name] = id])))
<1> DEFINE x == [g EXCEPT !.semantics[name] = id]
           cell == <<"semantic.entry", name>>
<1> SUFFICES ASSUME g.semantics[name] # id
             PROVE  WriteOK(g, Advance(g, cell, "names", [is |-> "changed", graph |-> x]))
  BY Zenon DEF Changed
<1>1. /\ g \in GraphType /\ g.semantics \in [Name -> Id \cup {NoValue}]
  BY Zenon DEF Good, GraphType
<1>2. /\ x.semantics = [g.semantics EXCEPT ![name] = id]
      /\ x.stable_ids = g.stable_ids
      /\ x.symbols = g.symbols /\ x.facts = g.facts /\ x.retractions = g.retractions /\ x.cells = g.cells
      /\ x.current_version = g.current_version /\ x.next_cell = g.next_cell
  BY <1>1, Zenon DEF GraphType
<1>3. x \in GraphType
  <2> DEFINE semantics == [g.semantics EXCEPT ![name] = id]
  <2>1. semantics \in [Name -> Id \cup {NoValue}]
    BY <1>1, Zenon
  <2>2. x = [g EXCEPT !.semantics = semantics]
    BY Zenon
  <2> HIDE DEF x, semantics
  <2> QED BY <1>1, <2>1, <2>2, Zenon DEF GraphType
<1> HIDE DEF x
<1>4. Good(x) /\ KeepsHistory(g, x)
  BY <1>2, <1>3 DEF Good, KeepsHistory, get_fact
<1>5. cell \in Cell /\ Reads(x, cell) = id /\ Reads(g, cell) = g.semantics[name]
  BY <1>1, <1>2, Cells, Zenon DEF Reads
<1>6. ASSUME NEW c \in Cell \ {cell} PROVE Reads(x, c) = Reads(g, c)
  <2>1. c[1] = "semantic.entry" => c[2] # name
    BY Cells, Zenon
  <2> QED BY <1>1, <1>2, <2>1, Cells, Zenon DEF Reads, get_fact
<1> HIDE DEF cell
<1> QED BY <1>2, <1>4, <1>5, <1>6, AdvanceOK, Zenon

LEMMA RecordStableIdOK ==
  ASSUME NEW g, Good(g), NEW name \in Name, NEW id \in Id
  PROVE  g.stable_ids[name] # id =>
           WriteOK(g, Advance(g, <<"stable_id", name>>, "none",
                              Changed([g EXCEPT !.stable_ids[name] = id])))
<1> DEFINE x == [g EXCEPT !.stable_ids[name] = id]
           cell == <<"stable_id", name>>
<1> SUFFICES ASSUME g.stable_ids[name] # id
             PROVE  WriteOK(g, Advance(g, cell, "none", [is |-> "changed", graph |-> x]))
  BY Zenon DEF Changed
<1>1. /\ g \in GraphType /\ g.stable_ids \in [Name -> Id \cup {NoValue}]
  BY Zenon DEF Good, GraphType
<1>2. /\ x.stable_ids = [g.stable_ids EXCEPT ![name] = id]
      /\ x.semantics = g.semantics
      /\ x.symbols = g.symbols /\ x.facts = g.facts /\ x.retractions = g.retractions /\ x.cells = g.cells
      /\ x.current_version = g.current_version /\ x.next_cell = g.next_cell
  BY <1>1, Zenon DEF GraphType
<1>3. x \in GraphType
  <2> DEFINE stable_ids == [g.stable_ids EXCEPT ![name] = id]
  <2>1. stable_ids \in [Name -> Id \cup {NoValue}]
    BY <1>1, Zenon
  <2>2. x = [g EXCEPT !.stable_ids = stable_ids]
    BY Zenon
  <2> HIDE DEF x, stable_ids
  <2> QED BY <1>1, <2>1, <2>2, Zenon DEF GraphType
<1> HIDE DEF x
<1>4. Good(x) /\ KeepsHistory(g, x)
  BY <1>2, <1>3 DEF Good, KeepsHistory, get_fact
<1>5. cell \in Cell /\ Reads(x, cell) = id /\ Reads(g, cell) = g.stable_ids[name]
  BY <1>1, <1>2, Cells, Zenon DEF Reads
<1>6. ASSUME NEW c \in Cell \ {cell} PROVE Reads(x, c) = Reads(g, c)
  <2>1. c[1] = "stable_id" => c[2] # name
    BY Cells, Zenon
  <2> QED BY <1>1, <1>2, <2>1, Cells, Zenon DEF Reads, get_fact
<1> HIDE DEF cell
<1> QED BY <1>2, <1>4, <1>5, <1>6, AdvanceOK, Zenon

\* The entry that is added is read at the current version, and nowhere else.
LEMMA SetFactOK ==
  ASSUME NEW g, Good(g), NEW f \in Fact, NEW value \in Value
  PROVE  WriteOK(g, set_fact(g, f, value))
<1> DEFINE cv == g.current_version
           e == [version |-> cv, value |-> value]
           cell == <<"fact", f>>
<1>1. /\ g \in GraphType /\ cv \in Nat /\ g.facts \in [Fact -> Seq(Entry)]
      /\ g.retractions \in [Fact -> SUBSET Nat] /\ e \in Entry /\ e.version = cv /\ e.value = value
  BY Zenon DEF Good, GraphType, Entry
<1>2. cell \in Cell /\ \A y : Reads(y, cell) = get_fact(y, f, y.current_version)
  BY Cells, Zenon DEF Reads
<1>3. CASE get_fact(g, f, cv) = value
  BY <1>3, NoChangeOK, Zenon DEF set_fact
<1>4. CASE get_fact(g, f, cv) # value /\ add_fact(g, f, value) = Same(g)
  <2>1. set_fact(g, f, value) = Advance(g, cell, "generation", [is |-> "same", graph |-> g])
    BY <1>4 DEF set_fact, Same
  <2>2. KeepsHistory(g, g)
    BY DEF KeepsHistory
  <2> HIDE DEF cell
  <2> QED BY <1>2, <2>1, <2>2, AdvanceOK, Zenon
<1>5. CASE get_fact(g, f, cv) # value /\ add_fact(g, f, value) # Same(g)
  <2> DEFINE facts == [g.facts EXCEPT ![f] = Append(g.facts[f], e)]
             retractions == [g.retractions EXCEPT ![f] = g.retractions[f] \ {cv}]
             x == [g EXCEPT !.facts = facts, !.retractions = retractions]
  <2>1. set_fact(g, f, value) = Advance(g, cell, "generation", [is |-> "changed", graph |-> x])
    <3>1. add_fact(g, f, value) = Changed([g EXCEPT !.facts[f] = Append(@, e),
                                                    !.retractions[f] = @ \ {g.current_version}])
      BY <1>5, Zenon DEF add_fact
    <3>2. [g EXCEPT !.facts[f] = Append(@, e), !.retractions[f] = @ \ {g.current_version}] = x
      BY Zenon
    <3> QED BY <1>5, <3>1, <3>2, Zenon DEF set_fact, Changed
  <2>2. /\ x.symbols = g.symbols /\ x.semantics = g.semantics /\ x.stable_ids = g.stable_ids
        /\ x.facts = facts /\ x.retractions = retractions
        /\ x.current_version = cv /\ x.cells = g.cells /\ x.next_cell = g.next_cell
    BY <1>1, Zenon DEF GraphType
  <2>3. facts \in [Fact -> Seq(Entry)] /\ retractions \in [Fact -> SUBSET Nat]
    BY <1>1
  <2>4. /\ facts[f] = Append(g.facts[f], e) /\ \A k \in Fact \ {f} : facts[k] = g.facts[k]
        /\ retractions[f] = g.retractions[f] \ {cv}
        /\ \A k \in Fact \ {f} : retractions[k] = g.retractions[k]
    BY <1>1, Zenon
  <2>5. x \in GraphType
    <3> HIDE DEF facts, retractions
    <3> QED BY <1>1, <2>3, Zenon DEF GraphType
  <2> HIDE DEF x, facts, retractions, e
  <2>6. Good(x)
    <3>1. ASSUME NEW k \in Fact, NEW i \in DOMAIN x.facts[k] PROVE x.facts[k][i].version <= cv
      <4>1. CASE k # f
        BY <2>2, <2>4, <3>1, <4>1 DEF Good
      <4>2. CASE k = f
        <5>1. /\ g.facts[f] \in Seq(Entry) /\ x.facts[k] = Append(g.facts[f], e)
              /\ DOMAIN x.facts[k] = 1..(Len(g.facts[f]) + 1) /\ Len(g.facts[f]) \in Nat
          BY <1>1, <2>2, <2>4, <4>2
        <5>2. CASE i = Len(g.facts[f]) + 1
          BY <1>1, <5>1, <5>2
        <5>3. CASE i \in 1..Len(g.facts[f])
          BY <5>1, <5>3 DEF Good
        <5> QED BY <3>1, <5>1, <5>2, <5>3
      <4> QED BY <4>1, <4>2, Zenon
    <3>2. \A k \in Fact : \A r \in x.retractions[k] : r <= cv
      BY <2>2, <2>4, Zenon DEF Good
    <3> QED BY <2>2, <2>5, <3>1, <3>2, Zenon DEF Good
  <2>7. get_fact(x, f, cv) = value
    <3> DEFINE h == x.facts[f]
               n == Len(g.facts[f]) + 1
    <3>1. h \in Seq(Entry) /\ Len(h) = n /\ h[n] = e /\ n \in Nat /\ n # 0
      BY <1>1, <2>2, <2>3, <2>4
    <3>2. partition_point(h, cv) = n
      <4>1. n \in 0..Len(h) /\ \A j \in (n + 1)..Len(h) : h[j].version > cv
        BY <3>1
      <4>2. h[n].version <= cv
        BY <1>1, <3>1
      <4> HIDE DEF h, n
      <4> QED BY <1>1, <3>1, <4>1, <4>2, PartitionPoint, Zenon
    <3>3. ~\E r \in x.retractions[f] : cv <= r /\ r <= cv
      BY <1>1, <2>2, <2>4
    <3> QED BY <1>1, <3>1, <3>2, <3>3, Zenon DEF get_fact
  <2>8. ASSUME NEW k \in Fact, NEW v \in Nat, v < cv \/ k # f
        PROVE  get_fact(x, k, v) = get_fact(g, k, v)
    <3>1. \/ x.facts[k] = g.facts[k]
          \/ \E y \in Entry : x.facts[k] = Append(g.facts[k], y) /\ y.version > v
      BY <1>1, <2>2, <2>4, <2>8, Zenon
    <3>2. \A r \in Nat : r <= v => (r \in x.retractions[k] <=> r \in g.retractions[k])
      BY <1>1, <2>2, <2>4, <2>8
    <3> QED BY <2>6, <3>1, <3>2, ReadsUpTo
  <2>9. KeepsHistory(g, x)
    BY <2>8, Zenon DEF KeepsHistory
  <2>10. ASSUME NEW c \in Cell \ {cell} PROVE Reads(x, c) = Reads(g, c)
    <3>1. c[1] = "fact" => c[2] \in Fact /\ c[2] # f
      BY Cells, Zenon
    <3>2. c[1] = "fact" => get_fact(x, c[2], cv) = get_fact(g, c[2], cv)
      BY <1>1, <2>8, <3>1, Zenon
    <3> QED BY <2>2, <3>2, Cells, Zenon DEF Reads
  <2>11. Reads(x, cell) # Reads(g, cell)
    BY <1>2, <1>5, <2>2, <2>7, Zenon
  <2> HIDE DEF cell
  <2> QED BY <1>2, <2>1, <2>2, <2>6, <2>9, <2>10, <2>11, AdvanceOK, ZenonT(60)
<1> QED BY <1>3, <1>4, <1>5, Zenon

\* The retraction hides what was read at the current version, and nothing else.
LEMMA RemoveFactOK ==
  ASSUME NEW g, Good(g), NEW f \in Fact
  PROVE  WriteOK(g, remove_fact(g, f))
<1> DEFINE cv == g.current_version
           cell == <<"fact", f>>
           retractions == [g.retractions EXCEPT ![f] = g.retractions[f] \cup {cv}]
           x == [g EXCEPT !.retractions = retractions]
<1>1. /\ g \in GraphType /\ cv \in Nat /\ g.facts \in [Fact -> Seq(Entry)]
      /\ g.retractions \in [Fact -> SUBSET Nat]
  BY Zenon DEF Good, GraphType
<1>2. cell \in Cell /\ \A y : Reads(y, cell) = get_fact(y, f, y.current_version)
  BY Cells, Zenon DEF Reads
<1>3. CASE get_fact(g, f, cv) = NoValue
  BY <1>3, NoChangeOK, Zenon DEF remove_fact
<1>4. CASE get_fact(g, f, cv) # NoValue
  <2>1. remove_fact(g, f) = Advance(g, cell, "generation", [is |-> "changed", graph |-> x])
    BY <1>4, Zenon DEF remove_fact, Changed
  <2>2. /\ x.symbols = g.symbols /\ x.semantics = g.semantics /\ x.stable_ids = g.stable_ids
        /\ x.facts = g.facts /\ x.retractions = retractions
        /\ x.current_version = cv /\ x.cells = g.cells /\ x.next_cell = g.next_cell
    BY <1>1, Zenon DEF GraphType
  <2>3. retractions \in [Fact -> SUBSET Nat]
    BY <1>1, Zenon
  <2>4. /\ retractions[f] = g.retractions[f] \cup {cv}
        /\ \A k \in Fact \ {f} : retractions[k] = g.retractions[k]
    BY <1>1, Zenon
  <2>5. x \in GraphType
    <3> HIDE DEF retractions
    <3> QED BY <1>1, <2>3, Zenon DEF GraphType
  <2> HIDE DEF x, retractions
  <2>6. Good(x)
    <3>1. \A k \in Fact : \A r \in x.retractions[k] : r <= cv
      BY <1>1, <2>2, <2>4, SMTT(30) DEF Good
    <3> QED BY <2>2, <2>5, <3>1 DEF Good
  <2>7. get_fact(x, f, cv) = NoValue
    <3> DEFINE h == g.facts[f]
               n == partition_point(h, cv)
    <3>1. h \in Seq(Entry)
      BY <1>1, Zenon
    <3>2. n # 0 => h[n].version <= cv
      BY <1>1, <3>1, PartitionPoint, Zenon
    <3>3. n # 0 => \E r \in x.retractions[f] : h[n].version <= r /\ r <= cv
      BY <1>1, <2>2, <2>4, <3>2
    <3> QED BY <2>2, <3>3, Zenon DEF get_fact
  <2>8. ASSUME NEW k \in Fact, NEW v \in Nat, v < cv \/ k # f
        PROVE  get_fact(x, k, v) = get_fact(g, k, v)
    <3>1. \A r \in Nat : r <= v => (r \in x.retractions[k] <=> r \in g.retractions[k])
      BY <1>1, <2>2, <2>4, <2>8
    <3> QED BY <2>2, <2>6, <3>1, ReadsUpTo
  <2>9. KeepsHistory(g, x)
    BY <2>8, Zenon DEF KeepsHistory
  <2>10. ASSUME NEW c \in Cell \ {cell} PROVE Reads(x, c) = Reads(g, c)
    <3>1. c[1] = "fact" => c[2] \in Fact /\ c[2] # f
      BY Cells, Zenon
    <3>2. c[1] = "fact" => get_fact(x, c[2], cv) = get_fact(g, c[2], cv)
      BY <1>1, <2>8, <3>1, Zenon
    <3> QED BY <2>2, <3>2, Cells, Zenon DEF Reads
  <2>11. Reads(x, cell) # Reads(g, cell)
    BY <1>2, <1>4, <2>2, <2>7, Zenon
  <2> HIDE DEF cell
  <2> QED BY <1>2, <2>1, <2>2, <2>6, <2>9, <2>10, <2>11, AdvanceOK, Zenon
<1> QED BY <1>3, <1>4, Zenon

\* Every write keeps its promise.
LEMMA WritesOK ==
  ASSUME Good(graph), WriteName \/ WriteFact
  PROVE  \E r : WriteOK(graph, r) /\ AnswersWith("write", r) /\ UNCHANGED graph_snapshot
<1>1. ASSUME NEW name \in Name, NEW public_names \in SUBSET Id
      PROVE  WriteOK(graph, define_symbol(graph, name, public_names))
  BY NoChangeOK, DefineSymbolOK, Zenon DEF define_symbol
<1>2. ASSUME NEW name \in Name PROVE WriteOK(graph, remove_symbol(graph, name))
  BY NoChangeOK, DefineSymbolOK, Zenon DEF remove_symbol
<1>3. ASSUME NEW name \in Name, NEW id \in Id
      PROVE  /\ WriteOK(graph, define_semantic(graph, name, id))
             /\ WriteOK(graph, record_stable_id(graph, name, id))
  BY NoChangeOK, DefineSemanticOK, RecordStableIdOK, Zenon DEF define_semantic, record_stable_id
<1>4. CASE WriteName
  BY <1>1, <1>2, <1>3, <1>4 DEF WriteName
<1>5. CASE WriteFact
  BY <1>5, SetFactOK, RemoveFactOK, Zenon DEF WriteFact
<1> QED BY <1>4, <1>5, Zenon

-----------------------------------------------------------------------------
(* The semantic graph: versions, rollbacks and transactions *)

\* What is not a write keeps the invariant, and but for the rollback of a subject it keeps
\* the history.
KeepsGood(g, x) == Good(x) /\ \A f \in Fact, v \in Nat : get_fact(x, f, v) = get_fact(g, f, v)

LEMMA CommitOK ==
  ASSUME NEW g, Good(g)
  PROVE  /\ KeepsGood(g, commit_facts(g).graph)
         /\ KeepsGood(g, [g EXCEPT !.version = @ + 1])
<1>1. /\ g \in GraphType /\ g.current_version \in Nat /\ g.version \in Nat
      /\ g.current_version + 1 \in Nat /\ g.version + 1 \in Nat
  BY DEF Good, GraphType
<1> DEFINE x == [g EXCEPT !.current_version = g.current_version + 1, !.version = g.version + 1]
           y == [g EXCEPT !.version = g.version + 1]
<1>2. commit_facts(g).graph \in {g, x}
  BY Zenon DEF commit_facts, Refused, Changed
<1>3. /\ x.facts = g.facts /\ x.retractions = g.retractions /\ x.cells = g.cells
      /\ x.next_cell = g.next_cell /\ x.current_version = g.current_version + 1
      /\ y.facts = g.facts /\ y.retractions = g.retractions /\ y.cells = g.cells
      /\ y.next_cell = g.next_cell /\ y.current_version = g.current_version
  BY <1>1, Zenon DEF GraphType
<1>4. x \in GraphType /\ y \in GraphType
  BY <1>1, Zenon DEF GraphType
<1>5. \A f \in Fact : /\ \A i \in DOMAIN g.facts[f] : g.facts[f][i].version \in Nat
                      /\ g.retractions[f] \subseteq Nat
  <2>1. \A f \in Fact : g.facts[f] \in Seq(Entry) /\ g.retractions[f] \subseteq Nat
    BY <1>1, Zenon DEF GraphType
  <2>2. \A f \in Fact : \A i \in DOMAIN g.facts[f] : g.facts[f][i] \in Entry
    BY <2>1
  <2> QED BY <2>1, <2>2, Zenon DEF Entry
<1> HIDE DEF x, y
<1>6. Good(x)
  <2>1. \A n \in Nat : n <= g.current_version => n <= g.current_version + 1
    BY <1>1
  <2> QED BY <1>3, <1>4, <1>5, <2>1, Zenon DEF Good
<1>7. Good(y)
  BY <1>3, <1>4, ZenonT(60) DEF Good
<1>8. \A f \in Fact, v \in Nat : /\ get_fact(x, f, v) = get_fact(g, f, v)
                                 /\ get_fact(y, f, v) = get_fact(g, f, v)
  BY <1>3 DEF get_fact
<1> QED BY <1>2, <1>6, <1>7, <1>8, Zenon DEF KeepsGood, y

LEMMA RollbackFactsOK ==
  ASSUME NEW g, Good(g), NEW s \in Subject
  PROVE  Good(rollback_facts_for_subject(g, s).graph)
<1> DEFINE facts == [f \in Fact |-> IF f[1] = s THEN <<>> ELSE g.facts[f]]
           x == [g EXCEPT !.facts = facts]
           cell == <<"_rollback", s>>
<1>1. g \in GraphType /\ g.facts \in [Fact -> Seq(Entry)]
  BY Zenon DEF Good, GraphType
<1>2. facts \in [Fact -> Seq(Entry)]
  BY <1>1
<1>3. /\ x.facts = facts /\ x.retractions = g.retractions /\ x.cells = g.cells
      /\ x.next_cell = g.next_cell /\ x.current_version = g.current_version
  BY <1>1, Zenon DEF GraphType
<1>4. x \in GraphType
  <2> HIDE DEF facts
  <2> QED BY <1>1, <1>2, Zenon DEF GraphType
<1>5. rollback_facts_for_subject(g, s).graph \in {g, Bumped(x, cell, "generation")}
  BY Zenon DEF rollback_facts_for_subject, Same, Refused, Changed, Advance
<1> HIDE DEF x
<1>6. Good(x)
  BY <1>3, <1>4 DEF Good
<1>7. cell \in Cell
  BY Cells, Zenon
<1> HIDE DEF cell
<1>8. Good(Bumped(x, cell, "generation"))
  BY <1>6, <1>7, BumpedFields, Zenon
<1> QED BY <1>5, <1>8, Zenon

LEMMA RestoreOK ==
  ASSUME NEW g, Good(g), NEW snapshot, Good(snapshot)
  PROVE  LET r == restore_graph(g, snapshot) IN
         r = Refused(g) \/ (r.is = "changed" /\ KeepsGood(snapshot, r.graph))
<1> DEFINE x == [snapshot EXCEPT !.version = snapshot.version + 1, !.names = snapshot.names + 1,
                                 !.generation = snapshot.generation + 1]
<1>1. /\ snapshot \in GraphType /\ snapshot.version + 1 \in Nat /\ snapshot.names + 1 \in Nat
      /\ snapshot.generation + 1 \in Nat
  <2>1. snapshot \in GraphType
    BY Zenon DEF Good
  <2>2. snapshot.version \in Nat /\ snapshot.names \in Nat /\ snapshot.generation \in Nat
    BY <2>1, Zenon DEF GraphType
  <2> QED BY <2>1, <2>2
<1>2. /\ x.facts = snapshot.facts /\ x.retractions = snapshot.retractions
      /\ x.cells = snapshot.cells /\ x.next_cell = snapshot.next_cell
      /\ x.current_version = snapshot.current_version /\ x \in GraphType
  BY <1>1, Zenon DEF GraphType
<1>3. restore_graph(g, snapshot) \in {Refused(g), [is |-> "changed", graph |-> x]}
  BY Zenon DEF restore_graph, Changed
<1> HIDE DEF x
<1>4. KeepsGood(snapshot, x)
  BY <1>2, Zenon DEF KeepsGood, Good, get_fact
<1> QED BY <1>3, <1>4

-----------------------------------------------------------------------------
(* The semantic graph: the theorems *)

LEMMA EmptyGood == SemanticInit => SemanticInv
<1>1. EmptyGraph \in GraphType
  BY DEF EmptyGraph, GraphType
<1>2. /\ EmptyGraph.cells = [c \in Cell |-> 0] /\ EmptyGraph.next_cell = 1
      /\ EmptyGraph.facts = [f \in Fact |-> <<>>] /\ EmptyGraph.retractions = [f \in Fact |-> {}]
  BY Zenon DEF EmptyGraph
<1>3. Good(EmptyGraph)
  BY <1>1, <1>2 DEF Good
<1> QED BY <1>3, Zenon DEF SemanticInit, SemanticInv

\* The operations that read back a fact as it was: only commits and transactions.
LEMMA TransactionOK ==
  ASSUME SemanticInv, CommitFacts \/ SemanticTransaction
  PROVE  /\ SemanticInv' /\ graph_answer'.op # "write"
         /\ \/ KeepsGood(graph, graph') /\ ~(graph_answer'.op = "rollback" /\ graph_answer'.is = "changed")
            \/ /\ graph_answer'.op = "rollback" /\ graph_answer'.is = "changed"
               /\ KeepsGood(graph_snapshot, graph')
<1>1. CASE CommitFacts
  BY <1>1, CommitOK, Zenon DEF CommitFacts, SemanticInv, AnswersWith, KeepsGood
<1>2. CASE BeginSemantic
  BY <1>2, Zenon DEF BeginSemantic, SemanticInv, AnswersWith, Same, KeepsGood
<1>3. CASE RollbackSemantic
  <2>1. /\ Good(graph) /\ Good(graph_snapshot) /\ graph_snapshot' = NoValue
        /\ graph' = restore_graph(graph, graph_snapshot).graph
        /\ graph_answer' = [op |-> "rollback", is |-> restore_graph(graph, graph_snapshot).is]
    BY <1>3, Zenon DEF RollbackSemantic, SemanticInv, AnswersWith
  <2>2. CASE restore_graph(graph, graph_snapshot) = Refused(graph)
    BY <2>1, <2>2 DEF Refused, KeepsGood, SemanticInv
  <2>3. CASE /\ restore_graph(graph, graph_snapshot).is = "changed"
             /\ KeepsGood(graph_snapshot, restore_graph(graph, graph_snapshot).graph)
    BY <2>1, <2>3 DEF KeepsGood, SemanticInv
  <2> QED BY <2>1, <2>2, <2>3, RestoreOK
<1>4. CASE CommitSemantic
  BY <1>4, CommitOK DEF CommitSemantic, SemanticInv, AnswersWith, KeepsGood, Refused, Changed
<1> QED BY <1>1, <1>2, <1>3, <1>4 DEF SemanticTransaction

LEMMA ForgetOK ==
  ASSUME SemanticInv, RollbackFacts
  PROVE  SemanticInv' /\ graph_answer'.op = "forget"
BY RollbackFactsOK DEF RollbackFacts, SemanticInv, AnswersWith

LEMMA SemanticStep ==
  ASSUME SemanticInv, [SemanticNext]_semantic_vars
  PROVE  SemanticInv'
<1>1. CASE WriteName \/ WriteFact
  BY <1>1, WritesOK, Zenon DEF SemanticInv, WriteOK, AnswersWith
<1>2. CASE UNCHANGED semantic_vars
  BY <1>2, Zenon DEF semantic_vars, SemanticInv
<1> QED BY <1>1, <1>2, TransactionOK, ForgetOK, Zenon
        DEF SemanticNext, NamesNext, FactsNext

\* No generation is given twice in a graph and nothing of a fact lies in a version to come,
\* in the graph and in the snapshot of the open transaction (graph.rs:203-249, 850-865).
THEOREM SemanticInvariant == SemanticSpec => []SemanticInv
BY EmptyGood, SemanticStep, PTL DEF SemanticSpec

\* Every write of a symbol, an entry, a stable id or a fact says truly whether a reader sees
\* a change, and stamps what is seen to change with a generation no cell has had; a write
\* refused for want of room in a counter changes nothing (graph.rs:529-713).
THEOREM WritesStaySeen == SemanticSpec => WritesAreSeen
<1> DEFINE Seen == graph_answer'.op = "write" =>
             LET seen == {c \in Cell : Reads(graph', c) # Reads(graph, c)} IN
             /\ (graph_answer'.is = "changed") <=> (seen # {})
             /\ \A c \in seen, d \in Cell : graph'.cells[c] > graph.cells[d]
             /\ graph_answer'.is = "error" => graph' = graph
<1>1. SemanticInv /\ [SemanticNext]_semantic_vars => [Seen]_semantic_vars
  <2> SUFFICES ASSUME SemanticInv, SemanticNext, graph_answer'.op = "write" PROVE Seen
    BY Zenon
  <2>1. WriteName \/ WriteFact
    BY TransactionOK, ForgetOK, Zenon DEF SemanticNext, NamesNext, FactsNext
  <2>2. PICK r : WriteOK(graph, r) /\ AnswersWith("write", r)
    BY <2>1, WritesOK, Zenon DEF SemanticInv
  <2>3. graph' = r.graph /\ graph_answer'.is = r.is
    BY <2>2, Zenon DEF AnswersWith
  <2> QED BY <2>2, <2>3, Zenon DEF WriteOK
<1> QED BY <1>1, SemanticInvariant, PTL DEF SemanticSpec, WritesAreSeen

\* What was read of a fact at an earlier version is read there for good, through writes,
\* retractions, commits and transactions, and a rollback restores what every version read
\* (graph.rs:203-316, 818-848); only the rollback of a subject's facts forgets.
THEOREM HistoryStays == SemanticSpec => HistoryKept
<1> DEFINE Kept ==
      graph_answer'.op # "forget" =>
        LET restored == graph_answer'.op = "rollback" /\ graph_answer'.is = "changed"
            before == IF restored THEN graph_snapshot ELSE graph
            last == IF restored THEN before.current_version + 1 ELSE before.current_version IN
        \A f \in Fact, version \in 0..MaxGen :
          version < last => get_fact(graph', f, version) = get_fact(before, f, version)
<1>1. SemanticInv /\ [SemanticNext]_semantic_vars => [Kept]_semantic_vars
  <2> SUFFICES ASSUME SemanticInv, SemanticNext, graph_answer'.op # "forget" PROVE Kept
    BY Zenon
  <2>1. 0..MaxGen \subseteq Nat
    BY SemanticConstants
  <2>2. CASE WriteName \/ WriteFact
    <3>1. PICK r : WriteOK(graph, r) /\ AnswersWith("write", r)
      BY <2>2, WritesOK, Zenon DEF SemanticInv
    <3>2. graph' = r.graph /\ graph_answer'.op = "write"
      BY <3>1, Zenon DEF AnswersWith
    <3> QED BY <2>1, <3>1, <3>2, Zenon DEF WriteOK, KeepsHistory
  <2>3. CASE CommitFacts \/ SemanticTransaction
    BY <2>1, <2>3, TransactionOK, Zenon DEF KeepsGood
  <2> QED BY <2>2, <2>3, ForgetOK, Zenon DEF SemanticNext, NamesNext, FactsNext
<1> QED BY <1>1, SemanticInvariant, PTL DEF SemanticSpec, HistoryKept

=============================================================================
