------------------------------ MODULE UnitState ------------------------------
(***************************************************************************)
(* A compilation unit (caap/src/unit/core.rs) under the edits compile-time *)
(* code makes to it: expressions replaced, appended and erased, the forms  *)
(* and the root chosen, rewrites recorded as facts of the new nodes and    *)
(* erased nodes as tombstones, and a transaction that ends in a commit or  *)
(* a rollback.  Every edit works on the unit in place and, when it fails,  *)
(* puts back the snapshot it took first, which must then be valid.         *)
(*                                                                         *)
(* An edit may name a node that is gone.                                   *)
(* Of the semantic graph only the rewrite facts are here (SemanticGraph    *)
(* has the rest).  Attributes, link bindings and syntax state, which no    *)
(* edit here reads, and lifecycle events, a log, are left out.             *)
(***************************************************************************)
EXTENDS IRGraph

CONSTANTS
  Specs,           \* the expressions that are inserted
  FormLists,       \* the lists of forms that are set
  Forms,           \* the forms the unit begins with
  TombstoneLimit,  \* DEFAULT_REWRITE_TOMBSTONE_LIMIT
  MaxUnitVersion,  \* u64::MAX of the unit's version
  LastBegin        \* bound: the last version a transaction begins at

ASSUME UnitConstants == TombstoneLimit \in Nat \ {0} /\ MaxUnitVersion \in Nat

VARIABLES
  unit,         \* the unit
  transaction,  \* the snapshot of the open transaction, or NoTransaction
  answer        \* what the last edit was and whether it succeeded

unit_vars == <<unit, transaction, answer>>

NoTransaction == [ir |-> EmptyIR, version |-> MaxUnitVersion + 1]

Succeeded(u) == [ok |-> TRUE, unit |-> u]
Failed(u) == [ok |-> FALSE, unit |-> u]

\* The graph of a source with the given forms.
RECURSIVE Built(_)
Built(forms) ==
  IF forms = <<>> THEN EmptyIR
  ELSE LET g == Built(Front(forms)) IN
       add_top_level_form(insert_expr_spec(g, Last(forms)).graph, g.next_id).graph

FromGraph(g) ==
  [ir |-> g, provenance |-> <<>>, tombstones |-> <<>>, generation |-> 0,
   version |-> 0]

-----------------------------------------------------------------------------
(* Snapshots *)

RestoredWithoutFacts(u, snapshot) ==
  IF validate_integrity(snapshot.ir) THEN Succeeded([snapshot EXCEPT !.provenance = u.provenance])
  ELSE Failed(u)

\* restore_snapshot, of a snapshot taken of this unit: what can be invalid of it is
\* its graph.
restore_snapshot(u, snapshot) ==
  IF validate_integrity(snapshot.ir) THEN Succeeded(snapshot) ELSE Failed(u)

restore_after_error(u, snapshot) == Failed(restore_snapshot(u, snapshot).unit)

\* next_version, at the end of an edit that began with the snapshot.
Versioned(u, snapshot) ==
  IF u.version = MaxUnitVersion THEN restore_after_error(u, snapshot)
  ELSE Succeeded([u EXCEPT !.version = @ + 1])

\* ... of an edit that has changed nothing yet.
Edited(u, edited) ==
  IF u.version = MaxUnitVersion THEN Failed(u) ELSE Succeeded([edited EXCEPT !.version = u.version + 1])

KeptAsItIs(u, result) ==
  IF result.ok THEN Versioned([u EXCEPT !.ir = result.graph], u)
  ELSE Failed([u EXCEPT !.ir = result.graph])

\* The result of an edit of the graph made on behalf of u.
Kept(u, result) ==
  IF result.ok THEN Versioned([u EXCEPT !.ir = result.graph], u)
  ELSE restore_after_error([u EXCEPT !.ir = result.graph], u)

-----------------------------------------------------------------------------
(* Edits of the graph *)

replace_ir_subtree_with_spec(u, target, spec) ==
  LET inserted == insert_expr_spec(u.ir, spec) IN
  Kept(u, IF inserted.ok THEN replace_subtree(inserted.graph, target, u.ir.next_id) ELSE inserted)

append_ir_top_level_with_spec(u, spec) ==
  LET inserted == insert_expr_spec(u.ir, spec) IN
  Kept(u, IF inserted.ok THEN add_top_level_form(inserted.graph, u.ir.next_id) ELSE inserted)

set_ir_top_level_form_ids(u, ids) == Kept(u, set_top_level_form_ids(u.ir, ids))

set_ir_root_id(u, id) ==
  IF id \notin Nodes(u.ir) THEN Failed(u)
  ELSE IF u.ir.root = id THEN Succeeded(u)
  ELSE Edited(u, [u EXCEPT !.ir.root = id])

\* A refused erasure has changed nothing.
erase_ir_subtree(u, target) ==
  LET erased == erase_detached_subtree(u.ir, target) IN
  IF erased.ok THEN Versioned([u EXCEPT !.ir = erased.graph], u) ELSE Failed(u)

-----------------------------------------------------------------------------
(* Provenance *)

Record(operation, source, generation) ==
  [operation |-> operation, source |-> source, generation |-> generation]

\* The fact of the node says what it was made from.  The provider builtins give it one
\* node and one source.
record_rewrite_provenance(u, node, source) ==
  IF node \notin Nodes(u.ir) THEN Failed(u)
  ELSE Edited(u, [u EXCEPT !.generation = @ + 1,
                           !.provenance = (node :> Record("replace", source, u.generation + 1)) @@ @])

\* The records met from a node over its source, the source of that, and so on.
RECURSIVE ChainFrom(_, _, _)
ChainFrom(u, id, seen) ==
  IF id \notin DOMAIN u.provenance THEN <<>>
  ELSE LET record == u.provenance[id] IN
       <<record>> \o (IF record.source \in seen THEN <<>>
                      ELSE ChainFrom(u, record.source, seen \cup {record.source}))

live_rewrite_chain(u, id) == ChainFrom(u, id, {})

RECURSIVE node_structural_fingerprint(_, _)
node_structural_fingerprint(g, id) ==
  <<g.nodes[id].label,
    [i \in DOMAIN g.nodes[id].children |-> node_structural_fingerprint(g, g.nodes[id].children[i])]>>

\* A node is named by its shape and by how many nodes of that shape have lesser ids.
node_stable_id(g, id) ==
  LET shape == node_structural_fingerprint(g, id) IN
  <<shape, Cardinality({n \in Nodes(g) : n < id /\ node_structural_fingerprint(g, n) = shape})>>

\* prune_erased_rewrite_tombstones: the oldest go; those of one erasure in the order of
\* their ids, which is any order that is always the same.
RECURSIVE Pruned(_, _)
Pruned(tombstones, limit) ==
  IF Cardinality(DOMAIN tombstones) <= limit THEN tombstones
  ELSE LET oldest == CHOOSE id \in DOMAIN tombstones : \A other \in DOMAIN tombstones :
                       tombstones[id].generation <= tombstones[other].generation
       IN Pruned([id \in DOMAIN tombstones \ {oldest} |-> tombstones[id]], limit)

\* A tombstone for every node of the subtree: the erasure, then what the node was made
\* from.  The version is the one before any pruning, plus one.
record_erase_rewrite_tombstones(u, target) ==
  LET generation == u.generation + 1
      subtree == subtree_ids(u.ir, target)
      tombstone(id) == [generation |-> generation,
                        chain |-> <<Record("erase", id, generation)>> \o live_rewrite_chain(u, id)]
      new == [s \in {node_stable_id(u.ir, id) : id \in subtree} |->
                tombstone(CHOOSE id \in subtree : node_stable_id(u.ir, id) = s)]
  IN IF target \notin Nodes(u.ir) THEN Failed(u)
     ELSE Edited(u, [u EXCEPT !.generation = generation,
                              !.tombstones = Pruned(new @@ @, TombstoneLimit)])

-----------------------------------------------------------------------------
(* Actions: the builtins *)

Answers(op, result) == unit' = result.unit /\ answer' = [op |-> op, ok |-> result.ok]

\* The nodes there are or were.  (The builtins also take an id that is still to be
\* given; a replacement of one is found in the expression it has just inserted.)
Handle == 0..(unit.ir.next_id - 1)

\* The second edit is made if the first succeeds, and its failure undoes nothing.
Then(first, second) == IF first.ok THEN second ELSE first

\* ctfe_provider_node_replace and ctfe_provider_node_rewrite.
provider_node_replace(target, spec) ==
  LET replaced == replace_ir_subtree_with_spec(unit, target, spec) IN
  /\ Answers("provider",
             Then(replaced, record_rewrite_provenance(replaced.unit, unit.ir.next_id, target)))
  /\ UNCHANGED transaction

\* ctfe_provider_node_erase.
provider_node_erase(target) ==
  LET recorded == record_erase_rewrite_tombstones(unit, target) IN
  /\ Answers("provider", Then(recorded, erase_ir_subtree(recorded.unit, target)))
  /\ UNCHANGED transaction

\* Edits that are one call of the unit: the replacement of a folded call by its value,
\* ctfe_unit_append_top_level!, ctfe_unit_erase_detached! and ctfe_unit_set_root!.
unit_edit ==
  /\ \/ \E id \in Handle, spec \in Specs :
          Answers("edit", replace_ir_subtree_with_spec(unit, id, spec))
     \/ \E spec \in Specs :
          Answers("edit", append_ir_top_level_with_spec(unit, spec))
     \/ \E id \in Handle : Answers("edit", erase_ir_subtree(unit, id))
     \/ \E id \in Handle : Answers("edit", set_ir_root_id(unit, id))
  /\ UNCHANGED transaction

set_top_level_forms(ids) ==
  Answers("forms", set_ir_top_level_form_ids(unit, ids)) /\ UNCHANGED transaction

\* The unit is written to a template and read back, as the caches do: an invalid
\* template is refused, and a valid one is the unit.
reload ==
  Answers("edit", IF validate_integrity(unit.ir) THEN Succeeded(unit) ELSE Failed(unit))
  /\ UNCHANGED transaction

begin_transaction ==
  /\ transaction = NoTransaction /\ unit.version <= LastBegin
  /\ transaction' = unit
  /\ Answers("edit", Succeeded(unit))

rollback_transaction ==
  /\ transaction # NoTransaction
  /\ Answers("rollback", restore_snapshot(unit, transaction))
  /\ transaction' = NoTransaction

commit_transaction ==
  /\ transaction # NoTransaction
  /\ Answers("edit", Edited(unit, unit))
  /\ transaction' = NoTransaction

UnitInit ==
  /\ unit \in {FromGraph(Built(forms)) : forms \in Forms}
  /\ transaction = NoTransaction
  /\ answer = [op |-> "edit", ok |-> TRUE]

UnitNext ==
  \/ \E id \in Handle, spec \in Specs : provider_node_replace(id, spec)
  \/ \E id \in Handle : provider_node_erase(id)
  \/ unit_edit
  \/ \E ids \in FormLists : set_top_level_forms(ids)
  \/ reload \/ begin_transaction \/ rollback_transaction \/ commit_transaction

-----------------------------------------------------------------------------
(* Properties *)

Intact(g) == validate_integrity(g) /\ (Nodes(g) # {} => g.forms # <<>>)

\* A unit whose graph is valid and has forms keeps a valid graph under every edit,
\* failed or not, but for the one that sets the list of its forms: no order of
\* replacements, erasures and rollbacks leaves a child without its parent, a span of a
\* lost node or a root that is gone (graph.rs:437-527).
GraphStaysValid ==
  [][Intact(unit.ir) /\ answer'.op # "forms" => validate_integrity(unit'.ir)]_unit_vars

\* An edit of a unit with a valid graph that fails half way, for want of an id or of a
\* version or because its target is gone, leaves the unit as it was (core.rs:93-182).
FailedEditLeavesUnit ==
  [][~answer'.ok /\ validate_integrity(unit.ir)
       /\ answer'.op # "provider" => unit' = unit]_unit_vars

\* What is told of a node, live or erased, goes back in time: each record is of an earlier
\* rewrite than the one before it, whatever was rolled back in between (core.rs:242-428).
ProvenanceRunsBack ==
  LET Descends(chain) == \A i, j \in DOMAIN chain : i < j => chain[i].generation > chain[j].generation IN
  /\ \A id \in Nodes(unit.ir) : Descends(live_rewrite_chain(unit, id))
  /\ \A s \in DOMAIN unit.tombstones : Descends(unit.tombstones[s].chain)
=============================================================================
