--------------------------- MODULE MCArtifactCache ---------------------------
(***************************************************************************)
(* The cache with three keys: k1 and k2 share a lineage, k3 has none and   *)
(* another kind.  Beside it, started on every graph of the three keys, the *)
(* worklist that mark_dependents_dirty walks, which the cache's own        *)
(* actions take as one step.                                               *)
(***************************************************************************)
EXTENDS ArtifactCache, DirtyPropagation

CONSTANTS k1, k2, k3, l1

MCKey == {k1, k2, k3}
MCLineage == {l1}
MCKind == {"template", "stage"}
MCKindOf == [k \in Key |-> IF k = k3 THEN "stage" ELSE "template"]
MCLineageOf == [k \in Key |-> IF k = k3 THEN None ELSE l1]

VARIABLE part

MCInit ==
  /\ Init
  /\ \/ /\ part = "cache"
        /\ graph = [k \in Node |-> {}] /\ root = k1 /\ stack = <<>> /\ seen = {}
        /\ upstream = [k \in Node |-> k]
     \/ part = "worklist" /\ WorklistInit

MCNext ==
  \/ part = "cache" /\ Next /\ UNCHANGED <<part, worklist>>
  \/ part = "worklist" /\ WorklistNext /\ UNCHANGED <<part, vars>>

\* The loop is sequential code and runs to its end; nobody need call the cache.
MCSpec ==
  /\ MCInit /\ [][MCNext]_<<part, vars, worklist>>
  /\ WF_worklist(VisitSeenAgain \/ VisitNew)

=============================================================================
