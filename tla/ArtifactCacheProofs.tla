------------------------ MODULE ArtifactCacheProofs -------------------------
(***************************************************************************)
(* The inductive invariant of ArtifactCache, for every set of keys,        *)
(* lineages and kinds, every assignment of lineages to keys and every      *)
(* generation limit, and what it implies: the invariants, when a snapshot  *)
(* or a projection can be restored, that an overflow changes nothing, and  *)
(* that the cache implements ArtifactFreshness.                            *)
(***************************************************************************)
EXTENDS ArtifactCache, FiniteSetTheorems, TLAPS

\* What holds of the live cache and of every snapshot taken of it.
SnapshotInv(s) ==
  /\ \A k \in Key : s.lineages[k] \in {None, LineageOf[k]}
  /\ \A k \in Key : s.lineages[k] # None /\ s.lineage_heads[s.lineages[k]] # k
                      => k \in s.dirty
  /\ \A l \in Lineage : s.lineage_heads[l] # None => s.lineages[s.lineage_heads[l]] = l
  /\ \A k \in Key : s.dependencies[k] # {} => k \in s.entries
  /\ \A k \in Key : k \notin s.dependencies[k]

\* The type invariant field by field, without the record of a snapshot.
Parts ==
  /\ entries \in SUBSET Key /\ dependencies \in [Key -> SUBSET Key]
  /\ lineage_heads \in [Lineage -> Key \cup {None}]
  /\ lineages \in [Key -> Lineage \cup {None}]
  /\ dirty \in SUBSET Key /\ dirty_lineages \in SUBSET Lineage
  /\ generation \in 0..MaxGen
  /\ dependents \in [Key -> SUBSET Key]
  /\ saved \in SnapshotType \cup {None}
  /\ status \in Status

\* What SnapshotInv says of the live cache.
InvParts ==
  /\ \A k \in Key : lineages[k] \in {None, LineageOf[k]}
  /\ \A k \in Key : lineages[k] # None /\ lineage_heads[lineages[k]] # k => k \in dirty
  /\ \A l \in Lineage : lineage_heads[l] # None => lineages[lineage_heads[l]] = l
  /\ \A k \in Key : dependencies[k] # {} => k \in entries
  /\ \A k \in Key : k \notin dependencies[k]

\* A lineage with keys has a head.  Projections lack this: their head may be of
\* another kind, and restore_snapshot refuses them.
LineagesHaveHeads ==
  \A k \in Key : lineages[k] # None => lineage_heads[lineages[k]] # None

\* The inductive invariant.
CacheInv ==
  /\ TypeOK
  /\ DependentsInverse
  /\ LineagesHaveHeads
  /\ SnapshotInv(Snapshot)
  /\ saved # None => SnapshotInv(saved)

-----------------------------------------------------------------------------
LEMMA TypedParts == TypeOK <=> Parts
  BY SMTT(30) DEF TypeOK, Parts, Snapshot, SnapshotType

LEMMA TypedPartsNext == TypeOK' <=> Parts'
  BY SMTT(30) DEF TypeOK, Parts, Snapshot, SnapshotType

LEMMA InvariantParts == SnapshotInv(Snapshot) <=> InvParts
  BY Zenon DEF SnapshotInv, Snapshot, InvParts

LEMMA InvariantPartsNext == SnapshotInv(Snapshot)' <=> InvParts'
  BY Zenon DEF SnapshotInv, Snapshot, InvParts

\* A set of keys is finite, so counting it gives a natural number.
LEMMA KeySubsetsFinite ==
  ASSUME NEW roots \in SUBSET Key
  PROVE  Cardinality(roots) \in Nat
  BY ConstantsAssumption, FS_Subset, FS_CardinalityType, Zenon DEF ConstantsAssumption

\* At most one key is superseded by a store.
LEMMA SupersededCount ==
  ASSUME TypeOK, NEW k \in Key, NEW l \in Lineage
  PROVE  /\ Superseded(k, l) \in SUBSET Key
         /\ Cardinality(Superseded(k, l)) \in Nat
<1>1. Superseded(k, l) \in SUBSET Key
  BY Zenon DEF TypeOK, Superseded, Snapshot, SnapshotType
<1> QED BY <1>1, KeySubsetsFinite, Zenon

\* Propagation only reaches keys, and only dirties lineages.
LEMMA InvalidationTyped ==
  ASSUME TypeOK, NEW roots \in SUBSET Key, NEW named, named \subseteq Lineage \cup {None}
  PROVE  /\ Reached(roots) \in SUBSET Key
         /\ DirtyAfter(roots) \in SUBSET Key
         /\ DirtyLineagesAfter(roots, named) \in SUBSET Lineage
<1>1. Reached(roots) \in SUBSET Key
  BY Zenon DEF Reached
<1>2. \A k \in Key : lineages[k] \in Lineage \cup {None}
  BY Zenon DEF TypeOK, Snapshot, SnapshotType
<1>3. dirty \subseteq Key /\ dirty_lineages \subseteq Lineage
  BY Zenon DEF TypeOK, Snapshot, SnapshotType
<1> QED BY <1>1, <1>2, <1>3, Zenon DEF DirtyAfter, DirtyLineagesAfter

-----------------------------------------------------------------------------
(* The steps, one lemma per operation *)

LEMMA InitCacheInv == Init => CacheInv
<1> SUFFICES ASSUME Init PROVE CacheInv
  BY Zenon
<1>1. TypeOK
  BY ConstantsAssumption
  DEF Init, TypeOK, Snapshot, SnapshotType, Status, ConstantsAssumption
<1> QED BY <1>1, Zenon DEF Init, CacheInv, DependentsInverse, LineagesHaveHeads, SnapshotInv, Snapshot

\* A refused operation changes nothing but the status.
LEMMA RejectCacheInv ==
  ASSUME CacheInv, NEW reason \in Status, reject(reason)
  PROVE  CacheInv'
<1>1. UNCHANGED <<entries, dependencies, dependents, lineage_heads, lineages,
                  dirty, dirty_lineages, generation, saved>>
  BY Zenon DEF reject, cache
<1>2. Snapshot' = Snapshot
  BY <1>1, Zenon DEF Snapshot
<1>3. TypeOK'
  BY <1>1, <1>2, Zenon DEF CacheInv, TypeOK, reject
<1> QED BY <1>1, <1>2, <1>3, Zenon DEF CacheInv, DependentsInverse, LineagesHaveHeads, SnapshotInv

LEMMA MarkCacheInv ==
  ASSUME CacheInv, NEW roots \in SUBSET Key, NEW named, named \subseteq Lineage \cup {None},
         mark_dirty_batch(roots, named)
  PROVE  CacheInv'
<1>1. CASE ~generation_after(Cardinality(roots))
  BY <1>1, RejectCacheInv, SMTT(30) DEF mark_dirty_batch, Status
<1>2. CASE generation_after(Cardinality(roots))
  <2>1. /\ dirty' = DirtyAfter(roots)
        /\ dirty_lineages' = DirtyLineagesAfter(roots, named)
        /\ generation' = generation + Cardinality(roots)
        /\ status' = "ok"
        /\ UNCHANGED <<entries, dependencies, dependents, lineage_heads, lineages, saved>>
    BY <1>2, Zenon DEF mark_dirty_batch
  <2>2. generation' \in 0..MaxGen
    BY <1>2, <2>1, KeySubsetsFinite, ConstantsAssumption
    DEF generation_after, CacheInv, TypeOK, Snapshot, SnapshotType, ConstantsAssumption
  <2>3. dirty' \in SUBSET Key /\ dirty_lineages' \in SUBSET Lineage /\ dirty \subseteq dirty'
    BY <2>1, InvalidationTyped, SMTT(30) DEF CacheInv, DirtyAfter
  <2>4. TypeOK'
    BY <2>1, <2>2, <2>3, Zenon DEF CacheInv, TypeOK, Snapshot, SnapshotType, Status
  <2> QED BY <2>1, <2>3, <2>4, Zenon
          DEF CacheInv, DependentsInverse, LineagesHaveHeads, SnapshotInv, Snapshot
<1> QED BY <1>1, <1>2, Zenon

\* Linking and unlinking keep the reverse index the inverse of dependencies.
LEMMA InsertInverse ==
  ASSUME CacheInv, NEW k \in Key, NEW D \in SUBSET Key, Insert(k, D)
  PROVE  /\ dependencies' \in [Key -> SUBSET Key]
         /\ dependents' \in [Key -> SUBSET Key]
         /\ entries' \in SUBSET Key
         /\ DependentsInverse'
<1> USE DEF Insert, Relinked
<1>1. dependencies \in [Key -> SUBSET Key] /\ dependents \in [Key -> SUBSET Key]
      /\ entries \in SUBSET Key
  BY Zenon DEF CacheInv, TypeOK, Snapshot, SnapshotType
<1>2. dependencies' \in [Key -> SUBSET Key] /\ entries' \in SUBSET Key
  BY <1>1, Zenon
<1>3. dependents' \in [Key -> SUBSET Key]
  BY <1>1, Zenon
<1>4. ASSUME NEW j \in Key, NEW d \in Key
      PROVE  j \in dependents'[d] <=> d \in dependencies'[j]
  <2>1. j \in dependents[d] <=> d \in dependencies[j]
    BY Zenon DEF CacheInv, DependentsInverse
  <2> QED BY <1>1, <2>1, Zenon
<1> QED BY <1>2, <1>3, <1>4, Zenon DEF DependentsInverse

LEMMA StoreCacheInv ==
  ASSUME CacheInv, NEW k \in Key, NEW D \in SUBSET Key, LineageOf[k] = None, store(k, D)
  PROVE  CacheInv'
<1>1. CASE k \in D
  BY <1>1, RejectCacheInv, Zenon DEF store, Status
<1>2. CASE k \notin D /\ ~generation_after(1)
  BY <1>2, RejectCacheInv, SMTT(30) DEF store, Status
<1>3. CASE k \notin D /\ generation_after(1)
  <2>1. /\ Insert(k, D)
        /\ dirty' = dirty \ {k}
        /\ generation' = generation + 1
        /\ UNCHANGED <<lineage_heads, lineages, dirty_lineages, saved>>
    BY <1>3, Zenon DEF store
  <2>2. generation' \in 0..MaxGen
    BY <1>3, <2>1, ConstantsAssumption
    DEF generation_after, CacheInv, TypeOK, Snapshot, SnapshotType, ConstantsAssumption
  <2>p. Parts /\ InvParts
    BY TypedParts, InvariantParts, Zenon DEF CacheInv
  <2>3. TypeOK'
    <3>1. dirty' \in SUBSET Key /\ status' \in Status
      BY <2>1, <2>p, Zenon DEF Parts, Insert, Status
    <3>2. Parts'
      BY <2>1, <2>2, <2>p, <3>1, InsertInverse, Zenon DEF Parts
    <3> QED BY <3>2, TypedPartsNext, Zenon
  <2>4. lineages[k] = None
    BY <2>p, Zenon DEF InvParts
  <2>5. SnapshotInv(Snapshot)'
    <3>1. \A j \in Key : dependencies'[j] = IF j = k THEN D ELSE dependencies[j]
      BY <2>1, <2>p, Zenon DEF Parts, Insert
    <3>2. entries' = entries \cup {k}
      BY <2>1, Zenon DEF Insert
    <3>3. InvParts'
      BY <1>3, <2>1, <2>4, <2>p, <3>1, <3>2, Zenon DEF InvParts
    <3> QED BY <3>3, InvariantPartsNext, Zenon
  <2> QED BY <2>1, <2>3, <2>5, InsertInverse, Zenon DEF CacheInv, LineagesHaveHeads, SnapshotInv
<1> QED BY <1>1, <1>2, <1>3, Zenon

\* The lineage part of store_with_lineage: the old head is marked before the new
\* one takes its place, so every key that is not the head stays dirty.
LEMMA PromoteLineages ==
  ASSUME CacheInv, NEW k \in Key, NEW l \in Lineage, LineageOf[k] = l,
         Promote(k, l), DirtyAfter(Superseded(k, l)) \ {k} \subseteq dirty'
  PROVE  /\ lineage_heads' \in [Lineage -> Key \cup {None}]
         /\ lineages' \in [Key -> Lineage \cup {None}]
         /\ dirty_lineages' \in SUBSET Lineage
         /\ LineagesHaveHeads'
         /\ \A j \in Key : lineages'[j] \in {None, LineageOf[j]}
         /\ \A j \in Key : lineages'[j] # None /\ lineage_heads'[lineages'[j]] # j
                             => j \in dirty'
         /\ \A m \in Lineage : lineage_heads'[m] # None => lineages'[lineage_heads'[m]] = m
<1> USE ConstantsAssumption DEF ConstantsAssumption
<1>1. /\ lineage_heads \in [Lineage -> Key \cup {None}]
      /\ lineages \in [Key -> Lineage \cup {None}]
  BY TypedParts, Zenon DEF CacheInv, Parts
<1>2. /\ \A j \in Key : lineages[j] \in {None, LineageOf[j]}
      /\ \A j \in Key : lineages[j] # None /\ lineage_heads[lineages[j]] # j => j \in dirty
      /\ \A m \in Lineage : lineage_heads[m] # None => lineages[lineage_heads[m]] = m
      /\ \A j \in Key : lineages[j] # None => lineage_heads[lineages[j]] # None
  BY InvariantParts, Zenon DEF CacheInv, InvParts, LineagesHaveHeads
<1>3. /\ lineage_heads' = [lineage_heads EXCEPT ![l] = k]
      /\ lineages' = [lineages EXCEPT ![k] = l]
  BY Zenon DEF Promote
<1>4. dirty_lineages' \in SUBSET Lineage
  BY SupersededCount, InvalidationTyped, ZenonT(60) DEF Promote, CacheInv
<1>5. (dirty \cup {lineage_heads[l]}) \ {k, None} \subseteq dirty'
  BY Zenon DEF DirtyAfter, Superseded
<1>6. /\ \A j \in Key : lineages'[j] = IF j = k THEN l ELSE lineages[j]
      /\ \A m \in Lineage : lineage_heads'[m] = IF m = l THEN k ELSE lineage_heads[m]
  BY <1>1, <1>3, Zenon
<1>7. \A j \in Key : lineages'[j] # None /\ lineage_heads'[lineages'[j]] # j => j \in dirty'
  <2> SUFFICES ASSUME NEW j \in Key, lineages'[j] # None, lineage_heads'[lineages'[j]] # j
               PROVE  j \in dirty'
    BY Zenon
  <2>1. j # k /\ lineages[j] # None /\ lineages[j] \in Lineage
    BY <1>1, <1>6, Zenon
  <2>2. CASE lineages[j] = l
    BY <1>2, <1>5, <2>1, <2>2, Zenon
  <2>3. CASE lineages[j] # l
    BY <1>2, <1>5, <1>6, <2>1, <2>3
  <2> QED BY <2>2, <2>3, Zenon
<1>8. \A m \in Lineage : lineage_heads'[m] # None => lineages'[lineage_heads'[m]] = m
  <2> SUFFICES ASSUME NEW m \in Lineage, lineage_heads'[m] # None
               PROVE  lineages'[lineage_heads'[m]] = m
    BY Zenon
  <2>1. CASE m = l
    BY <1>6, <2>1, Zenon
  <2>2. CASE m # l
    <3>1. lineage_heads'[m] = lineage_heads[m] /\ lineage_heads[m] \in Key
      BY <1>1, <1>6, <2>2, SMTT(30)
    <3>2. lineages[lineage_heads[m]] = m
      BY <1>2, <3>1, Zenon
    <3>3. lineage_heads[m] # k
      BY <1>2, <2>2, <3>1, <3>2, SMTT(30)
    <3> QED BY <1>6, <3>1, <3>2, <3>3, SMTT(30)
  <2> QED BY <2>1, <2>2, Zenon
<1>9. LineagesHaveHeads'
  BY <1>1, <1>2, <1>6 DEF LineagesHaveHeads
<1> QED BY <1>1, <1>2, <1>3, <1>4, <1>6, <1>7, <1>8, <1>9

LEMMA StoreWithLineageCacheInv ==
  ASSUME CacheInv, NEW k \in Key, NEW D \in SUBSET Key, NEW l \in Lineage,
         LineageOf[k] = l, store_with_lineage(k, D, l)
  PROVE  CacheInv'
<1> DEFINE n == Cardinality(Superseded(k, l))
<1>1. n \in Nat /\ generation \in Nat
  BY SupersededCount, ConstantsAssumption
  DEF CacheInv, TypeOK, Snapshot, SnapshotType, ConstantsAssumption
<1>2. CASE ~generation_after(n + 1)
  BY <1>2, RejectCacheInv, Zenon DEF store_with_lineage, Status
<1>3. CASE generation_after(n + 1)
  <2>1. Promote(k, l) /\ saved' = saved
    BY <1>3, Zenon DEF store_with_lineage, CommitLineage
  <2>2. DirtyAfter(Superseded(k, l)) \in SUBSET Key
    BY SupersededCount, InvalidationTyped, SMTT(30) DEF CacheInv
  <2>p. Parts /\ InvParts
    BY TypedParts, InvariantParts, Zenon DEF CacheInv
  <2>3. CASE k \in D
    <3>1. /\ dirty' = DirtyAfter(Superseded(k, l))
          /\ generation' = generation + n
          /\ status' = "self_dependency"
          /\ UNCHANGED <<entries, dependencies, dependents>>
      BY <1>3, <2>3, Zenon DEF store_with_lineage, CommitLineage
    <3>2. generation' \in 0..MaxGen
      BY <1>1, <1>3, <3>1, ConstantsAssumption DEF generation_after, ConstantsAssumption
    <3>3. DirtyAfter(Superseded(k, l)) \ {k} \subseteq dirty'
      BY <3>1, SMTT(30)
    <3>4. TypeOK'
      <4>1. Parts'
        BY <2>1, <2>2, <2>p, <3>1, <3>2, <3>3, PromoteLineages, Zenon DEF Parts, Status
      <4> QED BY <4>1, TypedPartsNext, Zenon
    <3>5. SnapshotInv(Snapshot)'
      <4>1. InvParts'
        BY <2>1, <2>p, <3>1, <3>3, PromoteLineages, Zenon DEF InvParts
      <4> QED BY <4>1, InvariantPartsNext, Zenon
    <3>6. DependentsInverse' /\ LineagesHaveHeads'
      BY <2>1, <3>1, <3>3, PromoteLineages, Zenon DEF CacheInv, DependentsInverse
    <3> QED BY <2>1, <3>4, <3>5, <3>6, Zenon DEF CacheInv, SnapshotInv
  <2>4. CASE k \notin D
    <3>1. /\ dirty' = DirtyAfter(Superseded(k, l)) \ {k}
          /\ generation' = generation + n + 1
          /\ Insert(k, D)
      BY <1>3, <2>4, Zenon DEF store_with_lineage, CommitLineage
    <3>2. generation' \in 0..MaxGen
      BY <1>1, <1>3, <3>1, ConstantsAssumption DEF generation_after, ConstantsAssumption
    <3>3. DirtyAfter(Superseded(k, l)) \ {k} \subseteq dirty'
      BY <3>1, Zenon
    <3>4. TypeOK'
      <4>1. dirty' \in SUBSET Key /\ status' \in Status
        BY <2>2, <3>1, Zenon DEF Insert, Status
      <4>2. Parts'
        BY <2>1, <2>p, <3>1, <3>2, <3>3, <4>1, PromoteLineages, InsertInverse, Zenon DEF Parts
      <4> QED BY <4>2, TypedPartsNext, Zenon
    <3>5. SnapshotInv(Snapshot)'
      <4>1. \A j \in Key : dependencies'[j] = IF j = k THEN D ELSE dependencies[j]
        BY <2>p, <3>1, Zenon DEF Parts, Insert
      <4>2. entries' = entries \cup {k}
        BY <3>1, Zenon DEF Insert
      <4>3. \A j \in Key : dependencies'[j] # {} => j \in entries'
        BY <2>p, <4>1, <4>2, Zenon DEF InvParts
      <4>4. \A j \in Key : j \notin dependencies'[j]
        BY <2>p, <2>4, <4>1, Zenon DEF InvParts
      <4>5. InvParts'
        BY <2>1, <3>3, <4>3, <4>4, PromoteLineages, Zenon DEF InvParts
      <4> QED BY <4>5, InvariantPartsNext, Zenon
    <3>6. DependentsInverse' /\ LineagesHaveHeads'
      BY <2>1, <3>1, <3>3, PromoteLineages, InsertInverse, Zenon
    <3> QED BY <2>1, <3>4, <3>5, <3>6 DEF CacheInv, SnapshotInv
  <2> QED BY <2>3, <2>4, Zenon
<1> QED BY <1>2, <1>3, Zenon

\* A projection by kind keeps what holds of snapshots.
LEMMA ProjectionInv ==
  ASSUME CacheInv, NEW kind \in Kind
  PROVE  Projection(kind) \in SnapshotType /\ SnapshotInv(Projection(kind))
<1>k. PICK keys : keys = {k \in entries : KindOf[k] = kind}
  BY Zenon
<1>j. PICK projected : projected = {lineages[k] : k \in keys} \ {None}
  BY Zenon
<1>p. PICK p : p = Projection(kind)
  BY Zenon
<1>n. None \notin Key /\ None \notin Lineage
  BY ConstantsAssumption, Zenon DEF ConstantsAssumption
<1>1. /\ entries \in SUBSET Key /\ dependencies \in [Key -> SUBSET Key]
      /\ lineage_heads \in [Lineage -> Key \cup {None}]
      /\ lineages \in [Key -> Lineage \cup {None}]
      /\ dirty \in SUBSET Key /\ dirty_lineages \in SUBSET Lineage
      /\ generation \in 0..MaxGen
  BY TypedParts, Zenon DEF CacheInv, Parts
<1>2. p = [entries |-> keys,
           dependencies |-> [k \in Key |-> IF k \in keys THEN dependencies[k] \cap keys ELSE {}],
           lineage_heads |-> [l \in Lineage |->
             IF l \in projected /\ lineage_heads[l] \in keys THEN lineage_heads[l] ELSE None],
           lineages |-> [k \in Key |-> IF k \in keys THEN lineages[k] ELSE None],
           dirty |-> dirty \cap keys,
           dirty_lineages |-> dirty_lineages \cap projected,
           generation |-> generation]
  BY <1>k, <1>j, <1>p, ZenonT(60) DEF Projection
<1>3. p \in SnapshotType
  <2>1. keys \in SUBSET Key
    BY <1>1, <1>k, Zenon
  <2>2. [k \in Key |-> IF k \in keys THEN dependencies[k] \cap keys ELSE {}] \in [Key -> SUBSET Key]
    BY <1>1, <2>1, Zenon
  <2>3. [l \in Lineage |-> IF l \in projected /\ lineage_heads[l] \in keys
                          THEN lineage_heads[l] ELSE None] \in [Lineage -> Key \cup {None}]
    BY <1>1, <2>1, Zenon
  <2>4. [k \in Key |-> IF k \in keys THEN lineages[k] ELSE None] \in [Key -> Lineage \cup {None}]
    BY <1>1, Zenon
  <2>5. dirty \cap keys \in SUBSET Key /\ dirty_lineages \cap projected \in SUBSET Lineage
    BY <1>1, Zenon
  <2> QED BY <1>1, <1>2, <2>1, <2>2, <2>3, <2>4, <2>5, ZenonT(60) DEF SnapshotType
<1>4. /\ \A k \in Key : lineages[k] \in {None, LineageOf[k]}
      /\ \A k \in Key : lineages[k] # None /\ lineage_heads[lineages[k]] # k => k \in dirty
      /\ \A l \in Lineage : lineage_heads[l] # None => lineages[lineage_heads[l]] = l
      /\ \A k \in Key : k \notin dependencies[k]
  BY InvariantParts, Zenon DEF CacheInv, InvParts
<1>5. /\ p.entries = keys /\ p.dirty = dirty \cap keys
      /\ \A k \in Key : p.dependencies[k] = IF k \in keys THEN dependencies[k] \cap keys ELSE {}
      /\ \A l \in Lineage : p.lineage_heads[l] =
           IF l \in projected /\ lineage_heads[l] \in keys THEN lineage_heads[l] ELSE None
      /\ \A k \in Key : p.lineages[k] = IF k \in keys THEN lineages[k] ELSE None
  BY <1>2, ZenonT(60)
<1>6. ASSUME NEW k \in Key
      PROVE  /\ p.lineages[k] \in {None, LineageOf[k]}
             /\ p.dependencies[k] # {} => k \in p.entries
             /\ k \notin p.dependencies[k]
  BY <1>4, <1>5, ZenonT(60)
<1>7. ASSUME NEW k \in Key, p.lineages[k] # None, p.lineage_heads[p.lineages[k]] # k
      PROVE  k \in p.dirty
  <2>1. k \in keys /\ p.lineages[k] = lineages[k]
    BY <1>5, <1>7, Zenon
  <2>2. lineages[k] \in projected /\ lineages[k] \in Lineage
    BY <1>1, <1>j, <1>7, <2>1
  <2>3. lineage_heads[lineages[k]] # k
    BY <1>5, <1>7, <2>1, <2>2
  <2>4. k \in dirty
    BY <1>4, <1>7, <2>1, <2>3, Zenon
  <2> QED BY <1>5, <2>1, <2>4, Zenon
<1>8. ASSUME NEW l \in Lineage, p.lineage_heads[l] # None
      PROVE  p.lineages[p.lineage_heads[l]] = l
  <2>1. p.lineage_heads[l] = lineage_heads[l] /\ lineage_heads[l] \in keys /\ lineage_heads[l] # None
    BY <1>5, <1>8, Zenon
  <2>2. lineage_heads[l] \in Key /\ lineages[lineage_heads[l]] = l
    BY <1>1, <1>4, <2>1, Zenon
  <2> QED BY <1>5, <2>1, <2>2, Zenon
<1>9. SnapshotInv(p)
  BY <1>6, <1>7, <1>8, Zenon DEF SnapshotInv
<1> QED BY <1>p, <1>3, <1>9, Zenon

LEMMA SaveCacheInv ==
  ASSUME CacheInv, NEW s \in SnapshotType, SnapshotInv(s), saved' = s, status' = "ok",
         UNCHANGED cache
  PROVE  CacheInv'
<1>1. UNCHANGED <<entries, dependencies, dependents, lineage_heads, lineages,
                  dirty, dirty_lineages, generation>>
  BY SMTT(30) DEF cache
<1>2. Snapshot' = Snapshot
  BY <1>1, Zenon DEF Snapshot
<1>3. TypeOK'
  BY <1>1, <1>2 DEF CacheInv, TypeOK, Status
<1> QED BY <1>1, <1>2, <1>3, ZenonT(60) DEF CacheInv, DependentsInverse, LineagesHaveHeads, SnapshotInv

LEMMA RestoreCacheInv ==
  ASSUME CacheInv, restore_snapshot
  PROVE  CacheInv'
<1>1. CASE ~Restorable(saved)
  BY <1>1, RejectCacheInv, Zenon DEF restore_snapshot, Status
<1>2. CASE Restorable(saved)
  <2>1. saved \in SnapshotType /\ SnapshotInv(saved)
    BY Zenon DEF restore_snapshot, CacheInv, TypeOK
  <2>2. /\ entries' = saved.entries
        /\ dependencies' = saved.dependencies
        /\ dependents' = RebuiltDependents(saved)
        /\ lineage_heads' = saved.lineage_heads
        /\ lineages' = saved.lineages
        /\ dirty' = saved.dirty
        /\ dirty_lineages' = saved.dirty_lineages
        /\ generation' = saved.generation
        /\ status' = "ok"
        /\ saved' = saved
    BY <1>2, SMTT(30) DEF restore_snapshot
  <2>3. Snapshot' = saved
    BY <2>1, <2>2, SMTT(30) DEF Snapshot, SnapshotType
  <2>4. TypeOK'
    BY <2>1, <2>2, <2>3, SMTT(30) DEF TypeOK, RebuiltDependents, Status
  <2>5. DependentsInverse'
    BY <2>1, <2>2, SMTT(30) DEF DependentsInverse, RebuiltDependents
  <2>6. LineagesHaveHeads'
    BY <1>2, <2>2, SMTT(30) DEF LineagesHaveHeads, Restorable, LineageGraphValid
  <2>7. SnapshotInv(Snapshot)' /\ SnapshotInv(saved)'
    BY <2>1, <2>2, <2>3, SMTT(30) DEF SnapshotInv
  <2> QED BY <2>4, <2>5, <2>6, <2>7, SMTT(30) DEF CacheInv
<1> QED BY <1>1, <1>2, Zenon

LEMMA NextCacheInv == CacheInv /\ [Next]_vars => CacheInv'
<1> SUFFICES ASSUME CacheInv, [Next]_vars PROVE CacheInv'
  OBVIOUS
<1>1. ASSUME NEW k \in Key, NEW D \in SUBSET Key, Store(k, D) PROVE CacheInv'
  <2>1. CASE LineageOf[k] = None
    BY <1>1, <2>1, StoreCacheInv, SMTT(30) DEF Store
  <2>2. CASE LineageOf[k] # None
    <3>1. LineageOf[k] \in Lineage
      BY <2>2, ConstantsAssumption, Zenon DEF ConstantsAssumption
    <3> QED BY <1>1, <2>2, <3>1, StoreWithLineageCacheInv DEF Store
  <2> QED BY <2>1, <2>2, Zenon
<1>2. ASSUME NEW k \in Key, NEW named \in Lineage \cup {None}, mark_dirty(k, named)
      PROVE  CacheInv'
  BY <1>2, MarkCacheInv, Zenon DEF mark_dirty
<1>3. ASSUME NEW roots \in SUBSET Key, NEW named \in SUBSET Lineage,
             mark_dirty_batch(roots, named)
      PROVE  CacheInv'
  BY <1>3, MarkCacheInv
<1>4. CASE invalidate_all
  <2>1. entries \in SUBSET Key
    BY SMTT(30) DEF CacheInv, TypeOK, Snapshot, SnapshotType
  <2> QED BY <1>4, <2>1, MarkCacheInv, SMTT(30) DEF invalidate_all
<1>5. CASE snapshot
  BY <1>5, SaveCacheInv DEF snapshot, CacheInv, TypeOK
<1>6. ASSUME NEW kind \in Kind, project_snapshot_by_kind(kind) PROVE CacheInv'
  BY <1>6, ProjectionInv, SaveCacheInv DEF project_snapshot_by_kind
<1>7. CASE restore_snapshot
  BY <1>7, RestoreCacheInv, SMTT(30)
<1>8. CASE UNCHANGED vars
  <2>1. UNCHANGED <<entries, dependencies, dependents, lineage_heads, lineages,
                    dirty, dirty_lineages, generation, saved, status>>
    BY <1>8, SMTT(30) DEF vars, cache
  <2>2. Snapshot' = Snapshot
    BY <2>1, Zenon DEF Snapshot
  <2> QED BY <2>1, <2>2, ZenonT(60)
          DEF CacheInv, TypeOK, DependentsInverse, LineagesHaveHeads, SnapshotInv
<1> QED BY <1>1, <1>2, <1>3, <1>4, <1>5, <1>6, <1>7, <1>8 DEF Next

-----------------------------------------------------------------------------
(* The theorems *)

THEOREM CacheInvariant == Spec => []CacheInv
  BY InitCacheInv, NextCacheInv, PTL DEF Spec

\* The reverse index stays the inverse of the declared dependencies through
\* stores, rejections and restores (store_internal, restore_snapshot).
THEOREM DependentsStayInverse == Spec => [](TypeOK /\ DependentsInverse)
<1>1. CacheInv => TypeOK /\ DependentsInverse
  BY Zenon DEF CacheInv
<1> QED BY <1>1, CacheInvariant, PTL

\* Every key of a lineage but its head is dirty (store_with_lineage).
THEOREM SupersededStaysDirty == Spec => []SupersededIsDirty
<1>1. CacheInv => SupersededIsDirty
  BY InvariantParts, Zenon DEF CacheInv, InvParts, SupersededIsDirty
<1> QED BY <1>1, CacheInvariant, PTL

-----------------------------------------------------------------------------
(* Snapshots, projections and a generation overflow *)

\* Only a dependency never stored, or a lineage key whose store was rejected, can
\* make restore_snapshot refuse a snapshot of the cache.
THEOREM SnapshotAlwaysRestores == Spec => []SnapshotRestores
<1>1. CacheInv => SnapshotRestores
  <2> SUFFICES ASSUME CacheInv,
                      \A k \in Key : dependencies[k] \subseteq entries,
                      \A k \in Key : lineages[k] # None => k \in entries
               PROVE  Restorable(Snapshot) /\ RebuiltDependents(Snapshot) = dependents
    BY Zenon DEF SnapshotRestores
  <2>1. DependenciesValid(Snapshot)
    BY DEF CacheInv, SnapshotInv, Snapshot, DependenciesValid
  <2>2. LineageGraphValid(Snapshot)
    <3>1. /\ lineage_heads \in [Lineage -> Key \cup {None}]
          /\ lineages \in [Key -> Lineage \cup {None}]
      BY TypedParts, Zenon DEF CacheInv, Parts
    <3>2. \A S \in (SUBSET Key) \ {{}} : \E k \in S : lineages[k] \notin S
      BY <3>1, ConstantsAssumption DEF ConstantsAssumption
    <3>3. \A l \in Lineage : lineage_heads[l] # None =>
            lineage_heads[l] \in entries /\ lineages[lineage_heads[l]] = l
      <4>1. \A l \in Lineage : lineage_heads[l] # None => lineages[lineage_heads[l]] = l
        BY Zenon DEF CacheInv, SnapshotInv, Snapshot
      <4>2. \A l \in Lineage : l # None
        BY ConstantsAssumption, Zenon DEF ConstantsAssumption
      <4> QED BY <3>1, <4>1, <4>2, Zenon
    <3>4. \A k \in Key : lineages[k] # None => lineage_heads[lineages[k]] # None
      BY Zenon DEF CacheInv, LineagesHaveHeads
    <3> QED BY <3>2, <3>3, <3>4, Zenon DEF LineageGraphValid, Snapshot
  <2>3. RebuiltDependents(Snapshot) = dependents
    <3>1. /\ dependencies \in [Key -> SUBSET Key]
          /\ dependents \in [Key -> SUBSET Key]
      BY TypedParts, Zenon DEF CacheInv, Parts
    <3>2. \A d \in Key : {k \in Key : d \in dependencies[k]} = dependents[d]
      BY <3>1, Zenon DEF CacheInv, DependentsInverse
    <3>3. dependents = [d \in Key |-> dependents[d]]
      BY <3>1, Zenon
    <3>4. Snapshot.dependencies = dependencies
      BY DEF Snapshot
    <3>5. RebuiltDependents(Snapshot) = [d \in Key |-> {k \in Key : d \in dependencies[k]}]
      BY <3>4 DEF RebuiltDependents
    <3> QED BY <3>2, <3>3, <3>5, Zenon
  <2> QED BY <2>1, <2>2, <2>3, Zenon DEF Restorable
<1> QED BY <1>1, CacheInvariant, PTL

\* A projection of a restorable cache is restorable: the head of a lineage has the
\* kind of its keys, so it is projected with them.
THEOREM ProjectionAlwaysRestores == Spec => []ProjectionRestores
<1>1. CacheInv => ProjectionRestores
  <2> SUFFICES ASSUME CacheInv, Restorable(Snapshot), NEW kind \in Kind
               PROVE  Restorable(Projection(kind))
    BY SMTT(30) DEF ProjectionRestores
  <2>k. PICK keys : keys = {k \in entries : KindOf[k] = kind}
    BY Zenon
  <2>j. PICK projected : projected = {lineages[k] : k \in keys} \ {None}
    BY Zenon
  <2>p. PICK p : p = Projection(kind)
    BY Zenon
  <2>1. /\ entries \in SUBSET Key
        /\ lineage_heads \in [Lineage -> Key \cup {None}]
        /\ lineages \in [Key -> Lineage \cup {None}]
    BY TypedParts, Zenon DEF CacheInv, Parts
  <2>i. InvParts
    BY InvariantParts, Zenon DEF CacheInv
  <2>2. /\ p.entries = keys
        /\ \A k \in Key : p.dependencies[k] = IF k \in keys THEN dependencies[k] \cap keys ELSE {}
        /\ \A l \in Lineage : p.lineage_heads[l] =
             IF l \in projected /\ lineage_heads[l] \in keys THEN lineage_heads[l] ELSE None
        /\ \A k \in Key : p.lineages[k] = IF k \in keys THEN lineages[k] ELSE None
    BY <2>k, <2>j, <2>p, ZenonT(60) DEF Projection
  <2>3. DependenciesValid(p)
    <3>1. \A k \in Key : k \notin dependencies[k]
      BY <2>i, Zenon DEF InvParts
    <3> QED BY <2>2, <3>1, ZenonT(60) DEF DependenciesValid
  <2>4. LineageGraphValid(p)
    <3>1. /\ \A l \in Lineage : lineage_heads[l] # None =>
               lineage_heads[l] \in entries /\ lineages[lineage_heads[l]] = l
          /\ \A k \in Key : lineages[k] # None => lineage_heads[lineages[k]] # None
          /\ \A k \in Key : lineages[k] \in {None, LineageOf[k]}
      <4>1. LineageGraphValid(Snapshot)
        BY Zenon DEF Restorable
      <4>2. /\ Snapshot.lineage_heads = lineage_heads /\ Snapshot.lineages = lineages
            /\ Snapshot.entries = entries
        BY Zenon DEF Snapshot
      <4> QED BY <2>i, <4>1, <4>2, Zenon DEF LineageGraphValid, InvParts
    <3>2. \A l \in Lineage : p.lineage_heads[l] # None =>
            p.lineage_heads[l] \in p.entries /\ p.lineages[p.lineage_heads[l]] = l
      BY <2>1, <2>2, <2>k, <3>1, SMTT(30)
    <3>3. \A k \in Key : p.lineages[k] # None =>
            k \in p.entries /\ p.lineage_heads[p.lineages[k]] # None
      <4> SUFFICES ASSUME NEW k \in keys, lineages[k] # None
                   PROVE  p.lineage_heads[lineages[k]] # None
        BY <2>1, <2>2, <2>k, Zenon
      <4>h. PICK h : h = lineage_heads[lineages[k]]
        BY Zenon
      <4>1. k \in Key /\ lineages[k] \in Lineage
        BY <2>1, <2>k
      <4>2. h \in Key /\ h \in entries /\ lineages[h] = lineages[k]
        BY <2>1, <3>1, <4>1, <4>h, Zenon
      <4>3. LineageOf[h] = LineageOf[k] /\ LineageOf[k] # None
        BY <3>1, <4>1, <4>2, SMTT(30)
      <4>4. h \in keys
        BY <2>k, <4>1, <4>2, <4>3, LineageKinds
      <4>5. lineages[k] \in projected
        BY <2>j, Zenon
      <4>6. h # None
        BY <4>2, ConstantsAssumption, Zenon DEF ConstantsAssumption
      <4> QED BY <2>2, <4>1, <4>h, <4>4, <4>5, <4>6
    <3>4. \A S \in (SUBSET Key) \ {{}} : \E k \in S : p.lineages[k] \notin S
      BY <2>1, <2>2, ConstantsAssumption DEF ConstantsAssumption
    <3> QED BY <3>2, <3>3, <3>4, SMTT(30) DEF LineageGraphValid
  <2> QED BY <2>p, <2>3, <2>4, Zenon DEF Restorable
<1> QED BY <1>1, CacheInvariant, PTL

\* Whole or projected, a snapshot of the cache is refused by restore_snapshot only
\* for a dependency never stored or a lineage key whose store was rejected.
THEOREM SnapshotsAlwaysRestore == Spec => []SnapshotsRestore
  BY SnapshotAlwaysRestores, ProjectionAlwaysRestores, PTL DEF SnapshotsRestore

\* A generation overflow is found before anything is changed: store_with_lineage
\* reserves the generation its invalidation uses.
THEOREM OverflowNeverChanges == Spec => OverflowChangesNothing
<1>1. ASSUME [Next]_vars, status' = "overflow" PROVE UNCHANGED cache \/ UNCHANGED vars
  <2>1. ASSUME NEW k \in Key, NEW D \in SUBSET Key, Store(k, D) PROVE UNCHANGED cache
    BY <1>1, <2>1, Zenon
    DEF Store, store, store_with_lineage, CommitLineage, Insert, reject
  <2>2. ASSUME NEW roots, NEW named, mark_dirty_batch(roots, named) PROVE UNCHANGED cache
    BY <1>1, <2>2, Zenon DEF mark_dirty_batch, reject
  <2>3. CASE snapshot \/ restore_snapshot \/ \E kind \in Kind : project_snapshot_by_kind(kind)
    BY <1>1, <2>3, Zenon DEF snapshot, restore_snapshot, project_snapshot_by_kind, reject
  <2> QED BY <1>1, <2>1, <2>2, <2>3, Zenon DEF Next, mark_dirty, invalidate_all
<1>2. [Next]_vars => [status' = "overflow" => UNCHANGED cache]_vars
  BY <1>1, Zenon
<1> QED BY <1>2, PTL DEF Spec, OverflowChangesNothing

-----------------------------------------------------------------------------
(* The cache implements ArtifactFreshness *)

\* Following the reverse index from the roots finds what the abstract
\* specification calls affected: everything built from them.
LEMMA ReachedIsAffected ==
  ASSUME CacheInv, NEW roots \in SUBSET Key
  PROVE  roots \cup Reached(roots) = Freshness!Affected(roots)
<1> DEFINE Up(S) == \A r \in roots \cup S : dependents[r] \subseteq S
           Closed(S) == roots \subseteq S
                        /\ \A j \in Key : dependencies[j] \cap S # {} => j \in S
           reach == roots \cup Reached(roots)
<1>1. /\ dependencies \in [Key -> SUBSET Key] /\ dependents \in [Key -> SUBSET Key]
      /\ \A j, d \in Key : j \in dependents[d] <=> d \in dependencies[j]
  BY Zenon DEF CacheInv, TypeOK, Snapshot, SnapshotType, DependentsInverse
<1>2. Reached(roots) = {k \in Key : \A S \in SUBSET Key : Up(S) => k \in S}
  BY Zenon DEF Reached
<1>3. Freshness!Affected(roots) = {k \in Key : \A S \in SUBSET Key : Closed(S) => k \in S}
  BY DEF Freshness!Affected
<1>4. ASSUME NEW S \in SUBSET Key, Closed(S) PROVE Up(S)
  BY <1>1, <1>4, Zenon
<1>5. Closed(reach)
  <2> SUFFICES ASSUME NEW j \in Key, NEW d \in dependencies[j] \cap reach
               PROVE  j \in Reached(roots)
    OBVIOUS
  <2>1. d \in Key /\ j \in dependents[d]
    BY <1>1, Zenon
  <2>2. ASSUME NEW S \in SUBSET Key, Up(S) PROVE j \in S
    <3>1. d \in roots \cup S
      BY <1>2, <2>2
    <3> QED BY <2>1, <2>2, <3>1, Zenon
  <2> QED BY <1>2, <2>2, Zenon
<1>6. reach \in SUBSET Key
  BY <1>2, Zenon
<1>7. Freshness!Affected(roots) \subseteq reach
  BY <1>3, <1>5, <1>6, Zenon
<1>8. reach \subseteq Freshness!Affected(roots)
  <2> HIDE DEF Up
  <2> QED BY <1>2, <1>3, <1>4
<1> QED BY <1>7, <1>8, Zenon

LEMMA InvalidateRefines ==
  ASSUME CacheInv, NEW roots \in SUBSET Key, dirty' = DirtyAfter(roots),
         generation' = generation + Cardinality(roots),
         UNCHANGED <<entries, dependencies, saved>>
  PROVE  Freshness!Next
<1>1. entries' \ dirty' = (entries \ dirty) \ Freshness!Affected(roots)
  BY ReachedIsAffected, Zenon DEF DirtyAfter
<1>2. Freshness!Invalidate(roots)
  BY <1>1 DEF Freshness!Invalidate, Freshness!Cardinality, Cardinality
<1> QED BY <1>2, Zenon DEF Freshness!Next

LEMMA PutRefines ==
  ASSUME CacheInv, NEW k \in Key, NEW D \in SUBSET Key, NEW roots \in SUBSET Key,
         roots = {} \/ \E r \in Key : roots = {r},
         dependencies' = [dependencies EXCEPT ![k] = D],
         entries' = entries \cup {k},
         dirty' = DirtyAfter(roots) \ {k},
         generation' = generation + Cardinality(roots) + 1,
         saved' = saved
  PROVE  Freshness!Next
<1>1. entries' \ dirty' = ((entries \ dirty) \ Freshness!Affected(roots)) \cup {k}
  BY ReachedIsAffected, Zenon DEF DirtyAfter
<1>2. Freshness!Put(k, D, roots)
  BY <1>1 DEF Freshness!Put, Freshness!Cardinality, Cardinality
<1> QED BY <1>2, Zenon DEF Freshness!Next

\* Marking nothing leaves dirty as it is.
LEMMA DirtyAfterNothing ==
  ASSUME CacheInv
  PROVE  DirtyAfter({}) = dirty
<1>1. ASSUME NEW k \in Reached({}) PROVE FALSE
  <2>1. {} \in SUBSET Key /\ \A r \in {} \cup {} : dependents[r] \subseteq {}
    BY Zenon
  <2>2. k \in {}
    BY <2>1, Zenon DEF Reached
  <2> QED BY <2>2, Zenon
<1> QED BY <1>1, Zenon DEF DirtyAfter

LEMMA MarkRefines ==
  ASSUME CacheInv, NEW roots \in SUBSET Key, NEW named, mark_dirty_batch(roots, named)
  PROVE  [Freshness!Next]_(Freshness!vars)
<1>1. CASE generation_after(Cardinality(roots))
  BY <1>1, InvalidateRefines DEF mark_dirty_batch
<1>2. CASE ~generation_after(Cardinality(roots))
  BY <1>2, Zenon DEF mark_dirty_batch, reject, cache, Freshness!vars
<1> QED BY <1>1, <1>2, Zenon

LEMMA StoreRefines ==
  ASSUME CacheInv, NEW k \in Key, NEW D \in SUBSET Key, Store(k, D)
  PROVE  [Freshness!Next]_(Freshness!vars)
<1>1. CASE UNCHANGED <<cache, saved>>
  BY <1>1 DEF cache, Freshness!vars
<1>2. CASE LineageOf[k] = None /\ ~UNCHANGED <<cache, saved>>
  <2>1. /\ Insert(k, D) /\ dirty' = dirty \ {k} /\ saved' = saved
        /\ generation' = generation + 1
    BY <1>2, Zenon DEF Store, store, reject
  <2>2. dirty' = DirtyAfter({}) \ {k}
    BY <2>1, DirtyAfterNothing
  <2> DEFINE roots == {}
  <2>3. roots \in SUBSET Key /\ (roots = {} \/ \E r \in Key : roots = {r})
    BY Zenon
  <2>4. /\ dependencies' = [dependencies EXCEPT ![k] = D]
        /\ entries' = entries \cup {k}
        /\ dirty' = DirtyAfter(roots) \ {k}
    BY <2>1, <2>2, Zenon DEF Insert
  <2>5. generation' = generation + Cardinality(roots) + 1
    <3>1. Cardinality(roots) = 0
      BY FS_EmptySet, Zenon
    <3>2. generation \in Nat
      BY ConstantsAssumption DEF ConstantsAssumption, CacheInv, TypeOK, Snapshot, SnapshotType
    <3> HIDE DEF roots
    <3> QED BY <2>1, <3>1, <3>2
  <2> HIDE DEF roots
  <2> QED BY <2>1, <2>3, <2>4, <2>5, PutRefines, Zenon
<1>3. CASE LineageOf[k] # None /\ ~UNCHANGED <<cache, saved>>
  <2> DEFINE l == LineageOf[k]
             roots == Superseded(k, l)
  <2>1. l \in Lineage
    BY <1>3, ConstantsAssumption DEF ConstantsAssumption
  <2>2. store_with_lineage(k, D, l) /\ generation_after(Cardinality(roots) + 1)
    BY <1>3, Zenon DEF Store, store_with_lineage, reject
  <2>3. roots \in SUBSET Key /\ (roots = {} \/ \E r \in Key : roots = {r})
    BY <2>1 DEF CacheInv, TypeOK, Snapshot, SnapshotType, Superseded
  <2>4. CASE k \in D
    BY <2>2, <2>3, <2>4, InvalidateRefines, ZenonT(60) DEF store_with_lineage, CommitLineage
  <2>5. CASE k \notin D
    BY <2>2, <2>3, <2>5, PutRefines, SMTT(30) DEF store_with_lineage, CommitLineage, Insert
  <2> QED BY <2>4, <2>5, Zenon
<1> QED BY <1>1, <1>2, <1>3, Zenon

LEMMA SnapshotRefines ==
  ASSUME CacheInv, snapshot
  PROVE  Freshness!Next
<1>1. saved' = Snapshot /\ UNCHANGED <<entries, dependencies, dirty, generation>>
  BY Zenon DEF snapshot, cache
<1>2. Snapshot # None
  BY NoneAssumption DEF CacheInv, TypeOK
<1> QED BY <1>1, <1>2, Zenon DEF Snapshot, Freshness!SaveAll, Freshness!Next

LEMMA RestoreRefines ==
  ASSUME CacheInv, restore_snapshot
  PROVE  [Freshness!Next]_(Freshness!vars)
<1>1. CASE Restorable(saved)
  <2>b. PICK b : b = [deps |-> saved.dependencies, fresh |-> saved.entries \ saved.dirty,
                      clock |-> saved.generation]
    BY Zenon
  <2>1. saved # None /\ saved \in SnapshotType
    BY DEF restore_snapshot, CacheInv, TypeOK
  <2>2. b # None
    BY <2>b, <2>1, NoneAssumption, SMTT(30) DEF SnapshotType
  <2>3. /\ dependencies' = b.deps
        /\ entries' \ dirty' = b.fresh
        /\ generation' = b.clock
        /\ saved' = saved
    <3>1. /\ dependencies' = saved.dependencies /\ entries' = saved.entries
          /\ dirty' = saved.dirty /\ generation' = saved.generation /\ saved' = saved
      BY <1>1, Zenon DEF restore_snapshot
    <3>2. /\ b.deps = saved.dependencies /\ b.fresh = saved.entries \ saved.dirty
          /\ b.clock = saved.generation
      BY <2>b, Zenon
    <3> QED BY <3>1, <3>2, Zenon
  <2>4. Freshness!Restore
    BY <2>b, <2>1, <2>2, <2>3, ZenonT(60) DEF Freshness!Restore
  <2> QED BY <2>4, Zenon DEF Freshness!Next
<1>2. CASE ~Restorable(saved)
  BY <1>2, ZenonT(60) DEF restore_snapshot, reject, cache, Freshness!vars
<1> QED BY <1>1, <1>2, Zenon

LEMMA ProjectionRefines ==
  ASSUME CacheInv, NEW kind \in Kind, project_snapshot_by_kind(kind)
  PROVE  Freshness!Next
<1> DEFINE keys == {k \in entries : KindOf[k] = kind}
           p == Projection(kind)
<1>1. saved' = p /\ UNCHANGED <<entries, dependencies, dirty, generation>>
  BY SMTT(30) DEF project_snapshot_by_kind, cache
<1>2. p \in SnapshotType
  BY ProjectionInv, SMTT(30)
<1>3. p # None
  BY <1>2, NoneAssumption, SMTT(30)
<1>4. /\ p.dependencies = [k \in Key |-> IF k \in keys THEN dependencies[k] \cap keys ELSE {}]
      /\ p.entries \ p.dirty = (entries \ dirty) \cap keys
      /\ p.generation = generation
  BY ZenonT(60) DEF Projection
<1>5. keys \in SUBSET Key
  BY ZenonT(60) DEF CacheInv, TypeOK, Snapshot, SnapshotType
<1> HIDE DEF keys, p
<1>6. Freshness!Save(keys)
  BY <1>1, <1>3, <1>4, Zenon DEF Freshness!Save
<1> QED BY <1>5, <1>6, SMTT(30) DEF Freshness!Next

\* The cache implements ArtifactFreshness: invalidation marks exactly what is
\* built from the invalidated keys, and only a key's own store or a restore makes
\* it fresh again.
THEOREM CacheImplementsFreshness == Spec => ImplementsFreshness
<1>1. Init => Freshness!Init
  BY ZenonT(60) DEF Init, Freshness!Init
<1>2. CacheInv /\ [Next]_vars => [Freshness!Next]_(Freshness!vars)
  <2> SUFFICES ASSUME CacheInv, [Next]_vars
               PROVE  [Freshness!Next]_(Freshness!vars)
    BY SMTT(30)
  <2>1. CASE \E k \in Key, D \in SUBSET Key : Store(k, D)
    BY <2>1, StoreRefines, SMTT(30)
  <2>2. CASE \E k \in Key, named \in Lineage \cup {None} : mark_dirty(k, named)
    BY <2>2, MarkRefines, SMTT(30) DEF mark_dirty
  <2>3. CASE \E roots \in SUBSET Key, named \in SUBSET Lineage :
               mark_dirty_batch(roots, named)
    BY <2>3, MarkRefines, SMTT(30)
  <2>4. CASE invalidate_all
    <3>1. entries \in SUBSET Key
      BY Zenon DEF CacheInv, TypeOK, Snapshot, SnapshotType
    <3> QED BY <2>4, <3>1, MarkRefines, SMTT(30) DEF invalidate_all
  <2>5. CASE snapshot
    BY <2>5, SnapshotRefines, SMTT(30)
  <2>6. CASE \E kind \in Kind : project_snapshot_by_kind(kind)
    BY <2>6, ProjectionRefines, Zenon
  <2>7. CASE restore_snapshot
    BY <2>7, RestoreRefines, SMTT(30)
  <2>8. CASE UNCHANGED vars
    BY <2>8, Zenon DEF vars, cache, Freshness!vars
  <2> QED BY <2>1, <2>2, <2>3, <2>4, <2>5, <2>6, <2>7, <2>8, ZenonT(60) DEF Next
<1> QED BY <1>1, <1>2, CacheInvariant, PTL DEF Spec, ImplementsFreshness, Freshness!Spec

=============================================================================
