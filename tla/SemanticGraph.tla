---------------------------- MODULE SemanticGraph ----------------------------
(***************************************************************************)
(* The semantic state of a unit (caap/src/semantic/graph.rs): symbols and  *)
(* the public names they own, semantic entries and stable ids, and facts   *)
(* with their history, retractions and versions.  Every change gives its   *)
(* cell a fresh generation and advances the counters, which are checked    *)
(* for overflow before anything is changed.                                *)
(*                                                                         *)
(* A symbol is its public names, a semantic entry its stable id.  A fact   *)
(* is a subject and a predicate.  Names are not empty and values valid:    *)
(* others are refused before anything is read.  debug_assert! is compiled  *)
(* out.                                                                    *)
(***************************************************************************)
EXTENDS Naturals, Sequences

CONSTANTS
  Subject, Predicate, Value,  \* of facts
  Name,                       \* names of symbols and of semantic entries, keys of stable ids
  Id,                         \* public names and stable ids
  MaxGen,                     \* u64::MAX of the counters
  NoValue                     \* no fact, entry or generation

ASSUME SemanticConstants == MaxGen \in Nat \ {0} /\ NoValue \notin Value \cup Id

VARIABLES
  graph,           \* the UnifiedSemanticGraph
  graph_snapshot,  \* the snapshot of the open transaction, or NoValue
  graph_answer     \* the last operation, and whether it changed something or failed

semantic_vars == <<graph, graph_snapshot, graph_answer>>

Fact == Subject \X Predicate
Cell == ({"fact"} \X Fact) \cup ({"symbol.entry", "semantic.entry", "stable_id"} \X Name)
          \cup ({"_rollback"} \X Subject)

EmptyGraph ==
  [symbols |-> [n \in Name |-> NoValue], semantics |-> [n \in Name |-> NoValue],
   stable_ids |-> [n \in Name |-> NoValue],
   facts |-> [f \in Fact |-> <<>>], retractions |-> [f \in Fact |-> {}], current_version |-> 0,
   cells |-> [c \in Cell |-> 0], next_cell |-> 1, version |-> 0, names |-> 0, generation |-> 0]

Changed(g) == [is |-> "changed", graph |-> g]
Same(g) == [is |-> "same", graph |-> g]
Refused(g) == [is |-> "error", graph |-> g]

-----------------------------------------------------------------------------
(* Facts *)

\* partition_point: where the entries up to the version end, in a history.
partition_point(history, version) ==
  CHOOSE i \in 0..Len(history) :
    /\ i # 0 => history[i].version <= version
    /\ \A j \in (i + 1)..Len(history) : history[j].version > version

\* get_fact: the last entry up to the version, unless it was retracted since.
get_fact(g, f, version) ==
  LET history == g.facts[f]
      idx == partition_point(history, version) IN
  IF idx = 0 \/ \E r \in g.retractions[f] : history[idx].version <= r /\ r <= version THEN NoValue
  ELSE history[idx].value

Repeats(history, value) == history # <<>> /\ history[Len(history)].value = value

AddedUnretracted(g, f, value) ==
  LET entry == [version |-> g.current_version, value |-> value] IN
  IF g.retractions[f] = {} /\ Repeats(g.facts[f], value) THEN Same(g)
  ELSE Changed([g EXCEPT !.facts[f] = Append(@, entry), !.retractions[f] = {}])

\* add_fact: a value equal to the last entry is not added, unless the fact was retracted
\* in this very version; that retraction is taken back.
add_fact(g, f, value) ==
  LET retracted_now == g.current_version \in g.retractions[f]
      entry == [version |-> g.current_version, value |-> value] IN
  IF ~retracted_now /\ Repeats(g.facts[f], value) THEN Same(g)
  ELSE Changed([g EXCEPT !.facts[f] = Append(@, entry), !.retractions[f] = @ \ {g.current_version}])

-----------------------------------------------------------------------------
(* The counters *)

BumpedInPlace(g, cell, counter) ==
  [g EXCEPT !.cells[cell] = g.next_cell, !.version = @ + 1,
            !.names = IF counter = "names" THEN @ + 1 ELSE @,
            !.generation = IF counter = "generation" THEN @ + 1 ELSE @]

\* bump_cell_prepared, and the counters of names or of facts, if any, and of the graph.
Bumped(g, cell, counter) ==
  [g EXCEPT !.cells[cell] = g.next_cell, !.next_cell = @ + 1, !.version = @ + 1,
            !.names = IF counter = "names" THEN @ + 1 ELSE @,
            !.generation = IF counter = "generation" THEN @ + 1 ELSE @]

\* The counters the change needs are checked, then all is changed.
Advance(g, cell, counter, changed) ==
  IF \/ g.next_cell = MaxGen \/ g.version = MaxGen
     \/ counter = "names" /\ g.names = MaxGen
     \/ counter = "generation" /\ g.generation = MaxGen
  THEN Refused(g)
  ELSE [changed EXCEPT !.graph = Bumped(@, cell, counter)]

-----------------------------------------------------------------------------
(* Operations *)

define_symbol(g, name, public_names) ==
  IF \E other \in Name \ {name} :
       g.symbols[other] # NoValue /\ g.symbols[other] \cap public_names # {} THEN Refused(g)
  ELSE IF g.symbols[name] = public_names THEN Same(g)
  ELSE Advance(g, <<"symbol.entry", name>>, "names", Changed([g EXCEPT !.symbols[name] = public_names]))

remove_symbol(g, name) ==
  IF g.symbols[name] = NoValue THEN Same(g)
  ELSE Advance(g, <<"symbol.entry", name>>, "names", Changed([g EXCEPT !.symbols[name] = NoValue]))

\* The registry refuses the stable id of another entry, after the counters were checked
\* and before they are changed.
define_semantic(g, name, id) ==
  IF g.semantics[name] = id THEN Same(g)
  ELSE IF \E other \in Name \ {name} : g.semantics[other] = id THEN Refused(g)
  ELSE Advance(g, <<"semantic.entry", name>>, "names", Changed([g EXCEPT !.semantics[name] = id]))

record_stable_id(g, key, id) ==
  IF \E other \in Name \ {key} : g.stable_ids[other] = id THEN Refused(g)
  ELSE IF g.stable_ids[key] = id THEN Same(g)
  ELSE Advance(g, <<"stable_id", key>>, "none", Changed([g EXCEPT !.stable_ids[key] = id]))

set_fact(g, f, value) ==
  IF get_fact(g, f, g.current_version) = value THEN Same(g)
  ELSE Advance(g, <<"fact", f>>, "generation", add_fact(g, f, value))

remove_fact(g, f) ==
  IF get_fact(g, f, g.current_version) = NoValue THEN Same(g)
  ELSE Advance(g, <<"fact", f>>, "generation",
               Changed([g EXCEPT !.retractions[f] = @ \cup {g.current_version}]))

commit_facts(g) ==
  IF g.version = MaxGen \/ g.current_version = MaxGen THEN Refused(g)
  ELSE Changed([g EXCEPT !.current_version = @ + 1, !.version = @ + 1])

\* The retractions of the subject stay.
rollback_facts_for_subject(g, s) ==
  IF \A p \in Predicate : g.facts[<<s, p>>] = <<>> THEN Same(g)
  ELSE Advance(g, <<"_rollback", s>>, "generation",
               Changed([g EXCEPT !.facts = [f \in Fact |-> IF f[1] = s THEN <<>> ELSE @[f]]]))

\* restore_snapshot, of a snapshot of a graph: its checks of names and versions hold.
restore_graph(g, snapshot) ==
  IF \E counter \in {snapshot.version, snapshot.names, snapshot.generation} : counter = MaxGen
  THEN Refused(g)
  ELSE Changed([snapshot EXCEPT !.version = @ + 1, !.names = @ + 1, !.generation = @ + 1])

-----------------------------------------------------------------------------
(* Actions *)

AnswersWith(op, result) == graph' = result.graph /\ graph_answer' = [op |-> op, is |-> result.is]

WriteName ==
  /\ \/ \E name \in Name, public_names \in SUBSET Id :
          AnswersWith("write", define_symbol(graph, name, public_names))
     \/ \E name \in Name : AnswersWith("write", remove_symbol(graph, name))
     \/ \E name \in Name, id \in Id : AnswersWith("write", define_semantic(graph, name, id))
     \/ \E name \in Name, id \in Id : AnswersWith("write", record_stable_id(graph, name, id))
  /\ UNCHANGED graph_snapshot

WriteFact ==
  /\ \/ \E f \in Fact, value \in Value : AnswersWith("write", set_fact(graph, f, value))
     \/ \E f \in Fact : AnswersWith("write", remove_fact(graph, f))
  /\ UNCHANGED graph_snapshot

CommitFacts == AnswersWith("commit", commit_facts(graph)) /\ UNCHANGED graph_snapshot

RollbackFacts ==
  /\ \E s \in Subject : AnswersWith("forget", rollback_facts_for_subject(graph, s))
  /\ UNCHANGED graph_snapshot

BeginSemantic ==
  /\ graph_snapshot = NoValue /\ graph_snapshot' = graph
  /\ AnswersWith("commit", Same(graph))

RollbackSemantic ==
  /\ graph_snapshot # NoValue /\ graph_snapshot' = NoValue
  /\ AnswersWith("rollback", restore_graph(graph, graph_snapshot))

CommitSemantic ==
  /\ graph_snapshot # NoValue /\ graph_snapshot' = NoValue
  /\ AnswersWith("commit", IF graph.version = MaxGen THEN Refused(graph)
                           ELSE Changed([graph EXCEPT !.version = @ + 1]))

SemanticInit ==
  graph = EmptyGraph /\ graph_snapshot = NoValue /\ graph_answer = [op |-> "commit", is |-> "same"]

SemanticTransaction == BeginSemantic \/ RollbackSemantic \/ CommitSemantic

NamesNext == WriteName \/ SemanticTransaction
FactsNext == WriteFact \/ CommitFacts \/ RollbackFacts \/ SemanticTransaction

SemanticNext == NamesNext \/ FactsNext

SemanticSpec == SemanticInit /\ [][SemanticNext]_semantic_vars

-----------------------------------------------------------------------------
(* Properties *)

\* What is read of a cell now.
Reads(g, c) ==
  CASE c[1] = "fact" -> get_fact(g, c[2], g.current_version)
    [] c[1] = "symbol.entry" -> g.symbols[c[2]]
    [] c[1] = "semantic.entry" -> g.semantics[c[2]]
    [] c[1] = "stable_id" -> g.stable_ids[c[2]]
    [] c[1] = "_rollback" -> NoValue

\* A write says that it changed something exactly if a reader sees it, and what it
\* changed has a generation no cell has had in this graph; a write that fails changes
\* nothing ("same cell bump and generation discipline, so dependency tracking sees the
\* write", graph.rs:685-686).
WritesAreSeen ==
  [][graph_answer'.op = "write" =>
       LET seen == {c \in Cell : Reads(graph', c) # Reads(graph, c)} IN
       /\ (graph_answer'.is = "changed") <=> (seen # {})
       /\ \A c \in seen, d \in Cell : graph'.cells[c] > graph.cells[d]
       /\ graph_answer'.is = "error" => graph' = graph]_semantic_vars

\* What was read of a fact at a committed version is read of it at that version ever
\* after, whatever is set, retracted and set again; and after a rollback every version
\* reads as it did when the transaction began ("History stays append-only", graph.rs:180).
HistoryKept ==
  [][graph_answer'.op # "forget" =>
       LET restored == graph_answer'.op = "rollback" /\ graph_answer'.is = "changed"
           before == IF restored THEN graph_snapshot ELSE graph
           last == IF restored THEN before.current_version + 1 ELSE before.current_version IN
       \A f \in Fact, version \in 0..MaxGen :
         version < last => get_fact(graph', f, version) = get_fact(before, f, version)]_semantic_vars

=============================================================================
