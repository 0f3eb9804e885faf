-------------------------- MODULE ArtifactFreshness --------------------------
(***************************************************************************)
(* What the artifact cache promises, without saying how: an artifact is    *)
(* fresh from the moment it is stored until something it was built from is *)
(* invalidated.  "Built from" is the transitive closure of the declared    *)
(* dependencies; no index of dependents, lineage or record appears here.   *)
(* The clock counts invalidated roots and stores, so that a step cannot    *)
(* pass for another.  ArtifactCache implements this specification.         *)
(***************************************************************************)
EXTENDS Naturals, FiniteSets

CONSTANTS
  Key,      \* artifact keys
  None      \* absence of a value

VARIABLES
  deps,     \* the dependencies each artifact was stored with
  fresh,    \* the artifacts that may be served
  clock,    \* advanced by one for every root invalidated and every store
  backup    \* the last snapshot taken, or None

vars == <<deps, fresh, clock, backup>>

TypeOK ==
  /\ deps \in [Key -> SUBSET Key]
  /\ fresh \subseteq Key
  /\ clock \in Nat
  /\ backup = None \/ backup \in [deps : [Key -> SUBSET Key], fresh : SUBSET Key, clock : Nat]

\* The artifacts built, directly or not, from one of the roots; roots included.
Affected(roots) ==
  {k \in Key : \A S \in SUBSET Key :
     (roots \subseteq S /\ \A j \in Key : deps[j] \cap S # {} => j \in S) => k \in S}

Init ==
  /\ deps = [k \in Key |-> {}]
  /\ fresh = {}
  /\ clock = 0
  /\ backup = None

\* The artifact k is stored; the artifact it replaces, if any, is invalidated first.
Put(k, D, roots) ==
  /\ UNCHANGED backup
  /\ clock' = clock + Cardinality(roots) + 1
  /\ deps' = [deps EXCEPT ![k] = D]
  /\ fresh' = (fresh \ Affected(roots)) \cup {k}

Invalidate(roots) ==
  /\ UNCHANGED <<deps, backup>>
  /\ clock' = clock + Cardinality(roots)
  /\ fresh' = fresh \ Affected(roots)

\* A snapshot of the artifacts in P; dependencies that lead out of P are cut.
Save(P) ==
  /\ backup' = [deps |-> [k \in Key |-> IF k \in P THEN deps[k] \cap P ELSE {}],
                fresh |-> fresh \cap P, clock |-> clock]
  /\ UNCHANGED <<deps, fresh, clock>>

SaveAll ==
  /\ backup' = [deps |-> deps, fresh |-> fresh, clock |-> clock]
  /\ UNCHANGED <<deps, fresh, clock>>

Restore ==
  /\ backup # None
  /\ deps' = backup.deps
  /\ fresh' = backup.fresh
  /\ clock' = backup.clock
  /\ UNCHANGED backup

Next ==
  \/ \E roots \in SUBSET Key : Invalidate(roots)
  \/ \E k \in Key, D \in SUBSET Key :
       Put(k, D, {}) \/ \E replaced \in Key : Put(k, D, {replaced})
  \/ \E P \in SUBSET Key : Save(P)
  \/ SaveAll
  \/ Restore

Spec == Init /\ [][Next]_vars

=============================================================================
