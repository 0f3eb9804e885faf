------------------------------- MODULE IRGraph -------------------------------
(***************************************************************************)
(* The node graph of a compilation unit (caap/src/graph.rs): its fields as *)
(* a record, its edits as operators that give the graph they leave and     *)
(* whether they succeeded.  A failed edit may leave the graph changed: the *)
(* unit that owns it puts it back.                                         *)
(*                                                                         *)
(* A node is a label and its children; a call has at least one child, its  *)
(* callee, and names and literals have none.  Of a source span only its    *)
(* presence is kept, and markers of internal names are left out.  An       *)
(* expression to insert is its nodes in the order they get their ids, each *)
(* with its label, whether it has a span, and the position of its parent,  *)
(* 0 for the root.                                                         *)
(***************************************************************************)
EXTENDS Naturals, Sequences, SequencesExt

CONSTANT MaxId     \* u32::MAX: the ids are 0..(MaxId - 1)

ASSUME IdBound == MaxId \in Nat

NoNode == MaxId    \* Option::None, where an id may be

EmptyIR ==
  [root |-> 0, nodes |-> <<>>, parents |-> <<>>, spans |-> {}, forms |-> <<>>,
   form_set |-> {}, next_id |-> 0]

Nodes(g) == DOMAIN g.nodes
Children(g, id) == IF id \in Nodes(g) THEN Range(g.nodes[id].children) ELSE {}
Parent(g, id) == IF id \in DOMAIN g.parents THEN g.parents[id] ELSE NoNode

Succeeds(g) == [ok |-> TRUE, graph |-> g]
Fails(g) == [ok |-> FALSE, graph |-> g]

-----------------------------------------------------------------------------
(* Insertion *)

\* The positions of each node of an expression and of the nodes above it.
Above(spec) ==
  LET above[i \in 0..Len(spec)] == IF i = 0 THEN {} ELSE {i} \cup above[spec[i].parent]
  IN above

\* insert_expr_spec_into: ids are given in order, before the children of a call are
\* inserted, and a call is set after them.  Without an id for the node at position
\* given + 1 the calls above it are not set, and the rest of what was set stays.
insert_expr_spec(g, spec) ==
  LET given == Min({Len(spec), MaxId - g.next_id})
      complete == given = Len(spec)
      set == (1..given) \ (IF complete THEN {} ELSE Above(spec)[given + 1])
      id(i) == g.next_id + i - 1
      at(n) == n - g.next_id + 1
      ids == {id(i) : i \in set}
      below(i) == SelectSeq([j \in DOMAIN spec |-> j], LAMBDA j : spec[j].parent = i)
      node(i) == [label |-> spec[i].label, children |-> [k \in DOMAIN below(i) |-> id(below(i)[k])]]
      parent(i) == IF spec[i].parent = 0 THEN NoNode ELSE id(spec[i].parent)
      inserted == [g EXCEPT !.nodes = @ @@ [n \in ids |-> node(at(n))],
                            !.parents = @ @@ [n \in ids |-> parent(at(n))],
                            !.spans = @ \cup {n \in ids : spec[at(n)].span},
                            !.next_id = @ + given]
  IN IF complete THEN Succeeds(inserted) ELSE Fails(inserted)

-----------------------------------------------------------------------------
(* Removal *)

RECURSIVE subtree_ids(_, _)
subtree_ids(g, id) == {id} \cup UNION {subtree_ids(g, child) : child \in Children(g, id)}

\* The root of a graph that has lost it: the first form, or the least node, or 0.
NewRoot(g) ==
  IF g.forms # <<>> THEN Head(g.forms)
  ELSE IF Nodes(g) # {} THEN Min(Nodes(g)) ELSE 0

RemoveKeepingSpans(g, id) ==
  LET gone == subtree_ids(g, id)
      left == [g EXCEPT !.nodes = [n \in Nodes(g) \ gone |-> g.nodes[n]],
                        !.parents = [n \in DOMAIN @ \ gone |-> @[n]],
                        !.forms = SelectSeq(@, LAMBDA n : n \notin gone),
                        !.form_set = @ \ gone]
  IN IF g.root \in gone THEN [left EXCEPT !.root = NewRoot(left)] ELSE left

\* remove_subtree_storage
RemoveSubtree(g, id) ==
  LET gone == subtree_ids(g, id)
      left == [g EXCEPT !.nodes = [n \in Nodes(g) \ gone |-> g.nodes[n]],
                        !.parents = [n \in DOMAIN @ \ gone |-> @[n]],
                        !.spans = @ \ gone,
                        !.forms = SelectSeq(@, LAMBDA n : n \notin gone),
                        !.form_set = @ \ gone]
  IN IF g.root \in gone THEN [left EXCEPT !.root = NewRoot(left)] ELSE left

-----------------------------------------------------------------------------
(* Forms *)

\* require_detached_top_level_form
Detached(g, id) == id \in Nodes(g) /\ Parent(g, id) = NoNode

erase_detached_subtree(g, id) ==
  IF Detached(g, id) THEN Succeeds(RemoveSubtree(g, id)) ELSE Fails(g)

add_top_level_form(g, id) ==
  IF ~Detached(g, id) THEN Fails(g)
  ELSE IF id \in g.form_set THEN Succeeds(g)
  ELSE Succeeds([g EXCEPT !.form_set = @ \cup {id}, !.forms = Append(@, id),
                          !.root = IF g.forms = <<>> THEN id ELSE @])

set_top_level_form_ids(g, ids) ==
  IF (\A i \in DOMAIN ids : Detached(g, ids[i])) /\ IsInjective(ids)
  THEN Succeeds([g EXCEPT !.forms = ids, !.form_set = Range(ids)])
  ELSE Fails(g)

-----------------------------------------------------------------------------
(* Replacement *)

Substituted(s, old, new) == [i \in DOMAIN s |-> IF s[i] = old THEN new ELSE s[i]]

\* A form is replaced in its place, and as the root.
ReplaceForm(g, old, new) ==
  Succeeds(RemoveSubtree([g EXCEPT !.forms = Substituted(@, old, new),
                                   !.form_set = (@ \ {old}) \cup {new},
                                   !.root = IF @ = old THEN new ELSE @], old))

\* validate_node_children, of a call with these children
ChildrenValid(g, id, children) ==
  /\ IsInjective(children)
  /\ \A i \in DOMAIN children : children[i] \in Nodes(g) /\ Parent(g, children[i]) = id

\* Any other node is replaced among the children of its parent.
ReplaceChild(g, old, new) ==
  LET parent == Parent(g, old)
      adopted == [g EXCEPT !.parents = (new :> parent) @@ @]
      children == Substituted(g.nodes[parent].children, old, new) IN
  IF parent = NoNode \/ parent \notin Nodes(g) \/ old \notin Children(g, parent) THEN Fails(g)
  ELSE IF ~ChildrenValid(adopted, parent, children) THEN Fails(adopted)
  ELSE Succeeds(RemoveSubtree([adopted EXCEPT !.nodes[parent].children = children], old))

replace_subtree(g, old, new) ==
  IF old \notin Nodes(g) THEN Fails(g)
  ELSE IF old = new THEN Succeeds(g)
  ELSE IF ~Detached(g, new) \/ new \in g.form_set THEN Fails(g)
  ELSE IF old \in g.form_set THEN ReplaceForm(g, old, new)
  ELSE ReplaceChild(g, old, new)

-----------------------------------------------------------------------------
(* Validity *)

\* No node is its own ancestor.
Acyclic(g) ==
  \A S \in (SUBSET Nodes(g)) \ {{}} : \E id \in S : Parent(g, id) \notin S

validate_integrity(g) ==
  IF Nodes(g) = {} THEN g.parents = <<>> /\ g.forms = <<>> /\ g.form_set = {} /\ g.spans = {}
  ELSE /\ g.root \in Nodes(g)
       /\ \A id \in Nodes(g) : IsInjective(g.nodes[id].children) /\ Children(g, id) \subseteq Nodes(g)
       /\ DOMAIN g.parents = Nodes(g) /\ Range(g.parents) \subseteq Nodes(g) \cup {NoNode}
       /\ Range(g.forms) \subseteq Nodes(g) /\ IsInjective(g.forms)
       /\ Range(g.forms) = g.form_set
       /\ {id \in Nodes(g) : Parent(g, id) = NoNode} =
            IF g.forms = <<>> THEN {g.root} ELSE g.form_set
       /\ \A id \in Nodes(g) : Parent(g, id) # NoNode => id \in Children(g, Parent(g, id))
       /\ Acyclic(g)
       /\ \A id \in Nodes(g) : \A child \in Children(g, id) : Parent(g, child) = id
       /\ g.spans \subseteq Nodes(g)
       /\ g.next_id > Max(Nodes(g))

=============================================================================
