-------------------------- MODULE DirtyPropagation ---------------------------
(***************************************************************************)
(* The worklist of mark_dependents_dirty (caap/src/artifacts/cache.rs:428) *)
(* one iteration at a time: a stack of (key, upstream) pairs, the keys     *)
(* seen so far, and the upstream key each dirty record names.  The order   *)
(* in which the dependents of a key are pushed is the order of the keys,   *)
(* which is not modelled: any order may be taken.                          *)
(***************************************************************************)
EXTENDS Naturals, Sequences, FiniteSets

CONSTANT Node  \* artifact keys

VARIABLES
  graph,       \* dependents, the reverse index; not changed by the loop
  root,        \* the key that was invalidated
  stack,       \* (key, upstream) pairs still to visit
  seen,        \* keys already marked
  upstream     \* the upstream key in each mark's record

worklist == <<graph, root, stack, seen, upstream>>

\* The pairs that visiting the dependents of k pushes, in some order.
Pushes(k) ==
  LET n == Cardinality(graph[k])
  IN {s \in [1..n -> graph[k] \X {k}] :
        \A d \in graph[k] : \E i \in 1..n : s[i] = <<d, k>>}

WorklistTypeOK ==
  /\ graph \in [Node -> SUBSET Node] /\ \A k \in Node : IsFiniteSet(graph[k])
  /\ root \in Node
  /\ stack \in Seq(Node \X Node)
  /\ seen \in SUBSET Node
  /\ upstream \in [Node -> Node]

WorklistInit ==
  /\ graph \in [Node -> SUBSET Node] /\ \A k \in Node : IsFiniteSet(graph[k])
  /\ root \in Node
  /\ stack \in Pushes(root)
  /\ seen = {}
  /\ upstream = [k \in Node |-> k]

Top == stack[Len(stack)]
Rest == SubSeq(stack, 1, Len(stack) - 1)

\* The loop forgets that a key was visited when it meets it again.
VisitAgainPushing ==
  /\ stack # <<>>
  /\ Top[1] \in seen
  /\ \E pushed \in Pushes(Top[1]) : stack' = Rest \o pushed
  /\ UNCHANGED <<graph, root, seen, upstream>>

VisitSeenAgain ==
  /\ stack # <<>>
  /\ Top[1] \in seen
  /\ stack' = Rest
  /\ UNCHANGED <<graph, root, seen, upstream>>

\* A record that names the key itself.
VisitRecordingSelf ==
  /\ stack # <<>>
  /\ Top[1] \notin seen
  /\ seen' = seen \cup {Top[1]}
  /\ upstream' = [upstream EXCEPT ![Top[1]] = Top[1]]
  /\ \E pushed \in Pushes(Top[1]) : stack' = Rest \o pushed
  /\ UNCHANGED <<graph, root>>

VisitNew ==
  /\ stack # <<>>
  /\ Top[1] \notin seen
  /\ seen' = seen \cup {Top[1]}
  /\ upstream' = [upstream EXCEPT ![Top[1]] = Top[2]]
  /\ \E pushed \in Pushes(Top[1]) : stack' = Rest \o pushed
  /\ UNCHANGED <<graph, root>>

Done == stack = <<>> /\ UNCHANGED worklist

WorklistNext == VisitSeenAgain \/ VisitNew \/ Done

\* The loop runs to its end once it has been entered: it is sequential code.
WorklistSpec ==
  /\ WorklistInit /\ [][WorklistNext]_worklist
  /\ WF_worklist(VisitSeenAgain \/ VisitNew)

-----------------------------------------------------------------------------
\* What the loop is to mark: the keys reached from the root by one or more edges.
ReachedFromRoot ==
  {k \in Node : \A S \in SUBSET Node :
     (\A r \in {root} \cup S : graph[r] \subseteq S) => k \in S}

\* When the worklist is empty exactly the keys that depend on the root have been
\* marked, whatever cycles the graph has (cache.rs:437-455).
MarksExactlyReached == stack = <<>> => seen = ReachedFromRoot

\* Every record names an upstream that the key depends on and that was itself
\* invalidated, and following the upstreams leads back to the root: no set of
\* marked keys explains itself (cache.rs:440-448).
UpstreamExplains ==
  /\ \A k \in seen : k \in graph[upstream[k]] /\ upstream[k] \in seen \cup {root}
  /\ \A S \in (SUBSET seen) \ {{}} : \E k \in S : upstream[k] = root \/ upstream[k] \notin S

\* The records of a run of the loop are exact: who is marked, and because of whom
\* (mark_dependents_dirty, cache.rs:428-455).
MarksExplained == MarksExactlyReached /\ UpstreamExplains

\* mark_dependents_dirty ends on every graph, cyclic ones included (cache.rs:428-455).
Terminates == <>(stack = <<>>)

=============================================================================
