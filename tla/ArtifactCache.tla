---------------------------- MODULE ArtifactCache ----------------------------
(***************************************************************************)
(* The artifact cache (caap/src/artifacts/cache.rs): entries with declared *)
(* dependencies, a reverse index of dependents that invalidation follows,  *)
(* lineages (a chain of keys of which only the head is current), dirty     *)
(* marks, a checked u64 generation, snapshots and their validated restore. *)
(* Values, invalidation records and hit counters are data the properties   *)
(* do not tell apart: an entry is its key, a mark is a member of a set.    *)
(***************************************************************************)
EXTENDS Naturals, FiniteSets

CONSTANTS
  Key,        \* artifact keys
  Lineage,    \* lineage ids
  Kind,       \* artifact kinds
  KindOf,     \* the kind of each key
  LineageOf,  \* the lineage a key is stored under, or None (source_template.rs:53)
  MaxGen,     \* the largest generation (u64::MAX in the code)
  SnapshotGen,\* bound: snapshots are taken up to this generation
  None        \* absence of a value

ASSUME ConstantsAssumption ==
  /\ IsFiniteSet(Key)
  /\ KindOf \in [Key -> Kind]
  /\ LineageOf \in [Key -> Lineage \cup {None}]
  /\ Key \cap Lineage = {}
  /\ None \notin Key \cup Lineage
  /\ MaxGen \in Nat /\ SnapshotGen \in Nat

\* The keys of one lineage are of one kind (defs.rs:259-284).
ASSUME LineageKinds ==
  \A j, k \in Key : LineageOf[j] = LineageOf[k] /\ LineageOf[j] # None => KindOf[j] = KindOf[k]

VARIABLES
  entries,         \* keys with a stored value
  dependencies,    \* what each entry was built from
  dependents,      \* reverse index of dependencies
  lineage_heads,   \* current key of each lineage, or None
  lineages,        \* lineage of each key, or None
  dirty,           \* keys marked dirty
  dirty_lineages,  \* lineages marked dirty
  generation,      \* bumped by every successful change
  saved,           \* the snapshot a caller holds, or None
  status           \* what the last operation returned

cache == <<entries, dependencies, dependents, lineage_heads, lineages,
           dirty, dirty_lineages, generation>>
vars == <<cache, saved, status>>

Status == {"ok", "overflow", "self_dependency", "invalid_snapshot"}

\* The fields of ArtifactCacheSnapshot; dependents is not among them.
SnapshotType ==
  [entries : SUBSET Key,
   dependencies : [Key -> SUBSET Key],
   lineage_heads : [Lineage -> Key \cup {None}],
   lineages : [Key -> Lineage \cup {None}],
   dirty : SUBSET Key,
   dirty_lineages : SUBSET Lineage,
   generation : 0..MaxGen]

ASSUME NoneAssumption ==
  /\ None \notin SnapshotType
  /\ None \notin [deps : [Key -> SUBSET Key], fresh : SUBSET Key, clock : Nat]

Snapshot ==
  [entries |-> entries, dependencies |-> dependencies,
   lineage_heads |-> lineage_heads, lineages |-> lineages,
   dirty |-> dirty, dirty_lineages |-> dirty_lineages,
   generation |-> generation]

\* Every variable has its type.
TypeOK ==
  /\ Snapshot \in SnapshotType
  /\ dependents \in [Key -> SUBSET Key]
  /\ saved \in SnapshotType \cup {None}
  /\ status \in Status

Init ==
  /\ entries = {}
  /\ dependencies = [k \in Key |-> {}]
  /\ dependents = [k \in Key |-> {}]
  /\ lineage_heads = [l \in Lineage |-> None]
  /\ lineages = [k \in Key |-> None]
  /\ dirty = {}
  /\ dirty_lineages = {}
  /\ generation = 0
  /\ saved = None
  /\ status = "ok"

-----------------------------------------------------------------------------
(* Queries *)

is_dirty(k) == k \in dirty \/ lineages[k] \in dirty_lineages

\* get and peek return the value of exactly these keys.
Served == {k \in entries : ~is_dirty(k)}

generation_after(n) == generation + n <= MaxGen

-----------------------------------------------------------------------------
(* Invalidation *)

DirectDependents(roots) == UNION {dependents[r] : r \in roots}

\* The keys mark_dependents_dirty visits: those reached from a root by one or
\* more edges of the reverse index.
Reached(roots) ==
  {k \in Key : \A S \in SUBSET Key :
     (\A r \in roots \cup S : dependents[r] \subseteq S) => k \in S}

\* dirty after the roots are marked and propagated.
DirtyAfter(roots) == dirty \cup roots \cup Reached(roots)

\* record_invalidation: a root dirties the lineage its record names, a reached
\* key the lineage it belongs to.
DirtyLineagesAfter(roots, named) ==
  dirty_lineages \cup (named \ {None}) \cup ({lineages[k] : k \in Reached(roots)} \ {None})

reject(reason) ==
  /\ status' = reason
  /\ UNCHANGED <<cache, saved>>

\* mark_dirty for one record, mark_dirty_batch for several (the generation
\* advances by the number of records, checked before anything is marked).
mark_dirty_batch(roots, named) ==
  IF generation_after(Cardinality(roots))
  THEN /\ dirty' = DirtyAfter(roots)
       /\ dirty_lineages' = DirtyLineagesAfter(roots, named)
       /\ generation' = generation + Cardinality(roots)
       /\ status' = "ok"
       /\ UNCHANGED <<entries, dependencies, dependents, lineage_heads, lineages, saved>>
  ELSE reject("overflow")

mark_dirty(k, named) == mark_dirty_batch({k}, {named})

invalidate_all == mark_dirty_batch(entries, {})

-----------------------------------------------------------------------------
(* Stores *)

LinkedOnly(k, D) == [d \in Key |-> dependents[d] \cup (IF d \in D THEN {k} ELSE {})]

\* The reverse index once k is unlinked from its old dependencies and linked to D.
Relinked(k, D) ==
  [d \in Key |->
     (IF d \in dependencies[k] THEN dependents[d] \ {k} ELSE dependents[d])
       \cup (IF d \in D THEN {k} ELSE {})]

\* The entry part of store_internal, past its checks.
Insert(k, D) ==
  /\ dependents' = Relinked(k, D)
  /\ dependencies' = [dependencies EXCEPT ![k] = D]
  /\ entries' = entries \cup {k}
  /\ status' = "ok"

store(k, D) ==
  CASE k \in D -> reject("self_dependency")
    [] k \notin D /\ ~generation_after(1) -> reject("overflow")
    [] OTHER -> /\ Insert(k, D)
                /\ dirty' = dirty \ {k}
                /\ generation' = generation + 1
                /\ UNCHANGED <<lineage_heads, lineages, dirty_lineages, saved>>

NeverSuperseded(k, l) == {}

\* The key this store supersedes: the lineage's head, if it is another key.
Superseded(k, l) == {lineage_heads[l]} \ {k, None}

\* The lineage part of store_with_lineage: the superseded head is invalidated
\* (one generation) and the new key becomes head of a clean lineage.
Promote(k, l) ==
  /\ lineage_heads' = [lineage_heads EXCEPT ![l] = k]
  /\ lineages' = [lineages EXCEPT ![k] = l]
  /\ dirty_lineages' = DirtyLineagesAfter(Superseded(k, l), {l}) \ {l}

\* store_with_lineage past its generation checks.  A self dependency is found by
\* store_internal only after the lineage has been changed, so that rejection is
\* not a no-op.
CommitLineage(k, D, l) ==
  LET n == Cardinality(Superseded(k, l)) IN
  /\ Promote(k, l)
  /\ UNCHANGED saved
  /\ IF k \in D
     THEN /\ dirty' = DirtyAfter(Superseded(k, l))
          /\ generation' = generation + n
          /\ status' = "self_dependency"
          /\ UNCHANGED <<entries, dependencies, dependents>>
     ELSE /\ dirty' = DirtyAfter(Superseded(k, l)) \ {k}
          /\ generation' = generation + n + 1
          /\ Insert(k, D)

\* Without the reservation of two generations (cache.rs:246) the old head is
\* invalidated before the store is found to overflow.
StoreWithoutReservation(k, D, l) ==
  LET n == Cardinality(Superseded(k, l)) IN
  CASE ~generation_after(n) -> reject("overflow")
    [] generation_after(n + 1) -> CommitLineage(k, D, l)
    [] OTHER -> /\ dirty' = DirtyAfter(Superseded(k, l))
                /\ dirty_lineages' = DirtyLineagesAfter(Superseded(k, l), {l})
                /\ generation' = generation + n
                /\ status' = "overflow"
                /\ UNCHANGED <<entries, dependencies, dependents, lineage_heads,
                               lineages, saved>>

store_with_lineage(k, D, l) ==
  IF generation_after(Cardinality(Superseded(k, l)) + 1)
  THEN CommitLineage(k, D, l)
  ELSE reject("overflow")

-----------------------------------------------------------------------------
(* Snapshots *)

\* The dependency checks of restore_snapshot.
DependenciesValid(s) ==
  \A k \in Key : /\ s.dependencies[k] # {} => k \in s.entries
                 /\ s.dependencies[k] \subseteq s.entries \ {k}

\* validate_snapshot_lineage_graph: heads and back-references agree, every key
\* of a lineage is an entry, and following lineages never cycles (no set of
\* keys is closed under it).
LineageGraphValid(s) ==
  /\ \A l \in Lineage : s.lineage_heads[l] # None =>
       /\ s.lineage_heads[l] \in s.entries
       /\ s.lineages[s.lineage_heads[l]] = l
  /\ \A k \in Key : s.lineages[k] # None =>
       /\ k \in s.entries
       /\ s.lineage_heads[s.lineages[k]] # None
  /\ \A S \in (SUBSET Key) \ {{}} : \E k \in S : s.lineages[k] \notin S

Restorable(s) == DependenciesValid(s) /\ LineageGraphValid(s)

\* The reverse index restore_snapshot rebuilds.
RebuiltDependents(s) == [d \in Key |-> {k \in Key : d \in s.dependencies[k]}]

snapshot ==
  /\ generation <= SnapshotGen
  /\ saved' = Snapshot
  /\ status' = "ok"
  /\ UNCHANGED cache

\* A projection that keeps dependencies that lead out.
ProjectionUncut(kind) ==
  LET keys == {k \in entries : KindOf[k] = kind}
  IN [Snapshot EXCEPT !.entries = keys,
        !.dependencies = [k \in Key |-> IF k \in keys THEN @[k] ELSE {}],
        !.lineages = [k \in Key |-> IF k \in keys THEN @[k] ELSE None],
        !.lineage_heads = [l \in Lineage |-> IF @[l] \in keys THEN @[l] ELSE None],
        !.dirty = @ \cap keys]

\* The part of the cache whose keys have the given kind.
Projection(kind) ==
  LET keys == {k \in entries : KindOf[k] = kind}
      projected == {lineages[k] : k \in keys} \ {None}
  IN [entries |-> keys,
      dependencies |-> [k \in Key |-> IF k \in keys THEN dependencies[k] \cap keys ELSE {}],
      lineage_heads |-> [l \in Lineage |->
        IF l \in projected /\ lineage_heads[l] \in keys THEN lineage_heads[l] ELSE None],
      lineages |-> [k \in Key |-> IF k \in keys THEN lineages[k] ELSE None],
      dirty |-> dirty \cap keys,
      dirty_lineages |-> dirty_lineages \cap projected,
      generation |-> generation]

project_snapshot_by_kind(kind) ==
  /\ generation <= SnapshotGen
  /\ saved' = Projection(kind)
  /\ status' = "ok"
  /\ UNCHANGED cache

\* restore_snapshot: everything is validated before anything is assigned.
restore_snapshot ==
  /\ saved # None
  /\ IF Restorable(saved)
     THEN /\ entries' = saved.entries
          /\ dependencies' = saved.dependencies
          /\ dependents' = RebuiltDependents(saved)
          /\ lineage_heads' = saved.lineage_heads
          /\ lineages' = saved.lineages
          /\ dirty' = saved.dirty
          /\ dirty_lineages' = saved.dirty_lineages
          /\ generation' = saved.generation
          /\ status' = "ok"
          /\ UNCHANGED saved
     ELSE reject("invalid_snapshot")

-----------------------------------------------------------------------------
\* A key is stored under its own lineage, as SourceTemplateCache.load does, or
\* without one, as the query service does.
Store(k, D) ==
  IF LineageOf[k] = None THEN store(k, D) ELSE store_with_lineage(k, D, LineageOf[k])

Next ==
  \/ \E k \in Key, D \in SUBSET Key : Store(k, D)
  \/ \E k \in Key, named \in Lineage \cup {None} : mark_dirty(k, named)
  \/ \E roots \in SUBSET Key, named \in SUBSET Lineage : mark_dirty_batch(roots, named)
  \/ invalidate_all
  \/ snapshot
  \/ \E kind \in Kind : project_snapshot_by_kind(kind)
  \/ restore_snapshot

Spec == Init /\ [][Next]_vars

-----------------------------------------------------------------------------
(* Properties *)

\* The reverse index invalidation follows is exactly the inverse of the declared
\* dependencies, whatever was stored again, rejected, or restored in between
\* (cache.rs:271-289, 709).
DependentsInverse ==
  \A k, d \in Key : k \in dependents[d] <=> d \in dependencies[k]

\* In a lineage every key but the head is dirty, so at most one key of a lineage
\* is ever served (cache.rs:240-256).
SupersededIsDirty ==
  \A k \in Key : lineages[k] # None /\ lineage_heads[lineages[k]] # k => k \in dirty

\* A snapshot of the cache can be refused by restore_snapshot for two reasons
\* only: an entry depends on a key that was never stored, or a lineage's key was
\* never stored because its store was rejected as a self dependency.  Without
\* these a rollback always succeeds, and rebuilds the reverse index as it was.
SnapshotRestores ==
  (/\ \A k \in Key : dependencies[k] \subseteq entries
   /\ \A k \in Key : lineages[k] # None => k \in entries)
  => Restorable(Snapshot) /\ RebuiltDependents(Snapshot) = dependents

\* A projection by kind of a restorable cache is itself restorable: dependencies
\* that lead out of the kind are cut and a lineage keeps its head
\* (project_snapshot_by_kind, cache.rs:543).
ProjectionRestores ==
  Restorable(Snapshot) => \A kind \in Kind : Restorable(Projection(kind))

\* Whole or projected, what the cache writes down it can read back
\* (snapshot, project_snapshot_by_kind and restore_snapshot, cache.rs:497-781).
SnapshotsRestore == SnapshotRestores /\ ProjectionRestores

\* An operation refused because the generation would overflow has changed
\* nothing: store_with_lineage reserves both generations it may use before it
\* invalidates the old head (cache.rs:246).
OverflowChangesNothing == [][status' = "overflow" => UNCHANGED cache]_vars

\* The cache keeps the promise of ArtifactFreshness: following the reverse index
\* marks exactly what is built, directly or not, from an invalidated key; only a
\* store of its own, or a restore, makes a key fresh again; get serves fresh keys
\* only (Served leaves out those of a dirty lineage too).
Freshness ==
  INSTANCE ArtifactFreshness WITH
    deps <- dependencies,
    fresh <- entries \ dirty,
    clock <- generation,
    backup <- IF saved = None THEN None
              ELSE [deps |-> saved.dependencies, fresh |-> saved.entries \ saved.dirty,
                    clock |-> saved.generation]

ImplementsFreshness == Freshness!Spec

=============================================================================
