-------------------------- MODULE InvalidationProofs -------------------------
(***************************************************************************)
(* What is cached and what a change makes stale, in two places.  The       *)
(* worklist of the artifact cache marks exactly what depends on an entry,  *)
(* for every graph on every finite set of keys; its termination is checked *)
(* by TLC only.  In the position cache of the PEG library the changed      *)
(* region found between two texts is a region outside which they agree, so *)
(* what is moved with its text keeps its bytes.                            *)
(***************************************************************************)
EXTENDS DirtyPropagation, PegCache, FiniteSetTheorems, SequenceTheorems, WellFoundedInduction, TLAPS

-----------------------------------------------------------------------------
(* The worklist of mark_dependents_dirty *)

\* Where a key waits to be visited.
OnStack(d) == \E i \in 1..Len(stack) : stack[i][1] = d

\* The inductive invariant: nothing unreached is marked or waits, nothing that a
\* marked key leads to is forgotten, and the upstreams lead back to the root.
LoopInv ==
  /\ WorklistTypeOK
  /\ seen \subseteq ReachedFromRoot
  /\ \A i \in 1..Len(stack) : /\ stack[i][1] \in graph[stack[i][2]]
                              /\ stack[i][2] \in seen \cup {root}
  /\ \A r \in seen \cup {root} : \A d \in graph[r] : d \in seen \/ OnStack(d)
  /\ UpstreamExplains

\* A sequence of pushes holds a pair for every dependent, and nothing else.
LEMMA PushesPairs ==
  ASSUME WorklistTypeOK, NEW k \in Node, NEW s \in Pushes(k)
  PROVE  /\ s \in Seq(Node \X Node)
         /\ \A i \in 1..Len(s) : s[i][1] \in graph[k] /\ s[i][2] = k
         /\ \A d \in graph[k] : \E i \in 1..Len(s) : s[i][1] = d
<1> DEFINE n == Cardinality(graph[k])
<1>1. /\ s \in [1..n -> graph[k] \X {k}]
      /\ \A d \in graph[k] : \E i \in 1..n : s[i] = <<d, k>>
  BY DEF Pushes
<1>2. graph[k] \subseteq Node
  BY DEF WorklistTypeOK
<1>3. n \in Nat
  BY FS_CardinalityType DEF WorklistTypeOK
<1> HIDE DEF n
<1>4. s \in Seq(Node \X Node) /\ Len(s) = n
  BY <1>1, <1>2, <1>3
<1>5. \A i \in 1..n : s[i] \in graph[k] \X {k}
  BY <1>1
<1>6. \A i \in 1..n : s[i][1] \in graph[k] /\ s[i][2] = k
  BY <1>5
<1>7. \A d \in graph[k] : \E i \in 1..n : s[i][1] = d
  BY <1>1
<1> QED BY <1>4, <1>6, <1>7

\* The dependents of a reached key, or of the root, are reached.
LEMMA ReachedClosed ==
  ASSUME WorklistTypeOK, NEW r \in ReachedFromRoot \cup {root}, NEW d \in graph[r]
  PROVE  d \in ReachedFromRoot
<1>1. r \in Node /\ d \in Node
  BY DEF WorklistTypeOK, ReachedFromRoot
<1>2. ASSUME NEW S \in SUBSET Node, \A q \in {root} \cup S : graph[q] \subseteq S
      PROVE  d \in S
  <2>1. r \in {root} \cup S
    BY <1>2 DEF ReachedFromRoot
  <2> QED BY <1>2, <2>1
<1> QED BY <1>1, <1>2 DEF ReachedFromRoot

LEMMA InitLoopInv == WorklistInit => LoopInv
<1> SUFFICES ASSUME WorklistInit PROVE LoopInv
  OBVIOUS
<1>1. /\ graph \in [Node -> SUBSET Node] /\ \A k \in Node : IsFiniteSet(graph[k])
      /\ root \in Node /\ seen = {}
      /\ upstream \in [Node -> Node] /\ stack \in Pushes(root)
  BY DEF WorklistInit
<1> DEFINE n == Cardinality(graph[root])
<1>2. stack \in [1..n -> graph[root] \X {root}]
  BY <1>1 DEF Pushes
<1>3. n \in Nat
  BY <1>1, FS_CardinalityType DEF WorklistInit
<1> HIDE DEF n
<1>4. stack \in Seq(Node \X Node)
  BY <1>1, <1>2, <1>3
<1>5. WorklistTypeOK
  BY <1>1, <1>4 DEF WorklistTypeOK
<1>6. UpstreamExplains
  BY <1>1 DEF UpstreamExplains
<1> QED BY <1>1, <1>5, <1>6, PushesPairs DEF LoopInv, OnStack

\* Popping removes one pair and keeps the others.
LEMMA PopKeepsRest ==
  ASSUME WorklistTypeOK, stack # <<>>
  PROVE  /\ Len(stack) \in Nat \ {0}
         /\ Top \in Node \X Node
         /\ Rest \in Seq(Node \X Node)
         /\ Len(Rest) = Len(stack) - 1
         /\ \A i \in 1..Len(stack) - 1 : Rest[i] = stack[i]
<1>1. stack \in Seq(Node \X Node)
  BY DEF WorklistTypeOK
<1>2. Len(stack) \in Nat \ {0}
  BY <1>1, EmptySeq
<1>3. Top \in Node \X Node
  BY <1>1, <1>2, ElementOfSeq DEF Top
<1> DEFINE n == Len(stack) - 1
<1>4. n \in Nat /\ \A i \in 1..n : stack[i] \in Node \X Node
  BY <1>1, <1>2, ElementOfSeq
<1> HIDE DEF n
<1>5. /\ SubSeq(stack, 1, n) \in Seq(Node \X Node)
      /\ Len(SubSeq(stack, 1, n)) = IF 1 <= n THEN n - 1 + 1 ELSE 0
      /\ \A i \in 1..n - 1 + 1 : SubSeq(stack, 1, n)[i] = stack[1 + i - 1]
  BY <1>4, SubSeqProperties
<1>6. /\ Rest \in Seq(Node \X Node)
      /\ Len(Rest) = n
      /\ \A i \in 1..n : Rest[i] = stack[i]
  <2>1. Rest = SubSeq(stack, 1, n)
    BY DEF Rest, n
  <2>2. (IF 1 <= n THEN n - 1 + 1 ELSE 0) = n /\ n - 1 + 1 = n /\ \A i \in 1..n : 1 + i - 1 = i
    BY <1>4
  <2> QED BY <1>5, <2>1, <2>2
<1> QED BY <1>2, <1>3, <1>6 DEF n

LEMMA SeenAgainLoopInv ==
  ASSUME LoopInv, VisitSeenAgain
  PROVE  LoopInv'
<1>1. /\ WorklistTypeOK /\ stack # <<>> /\ Top[1] \in seen /\ stack' = Rest
      /\ UNCHANGED <<graph, root, seen, upstream>>
  BY DEF LoopInv, VisitSeenAgain
<1>2. WorklistTypeOK'
  BY <1>1, PopKeepsRest DEF WorklistTypeOK
<1>3. ReachedFromRoot' = ReachedFromRoot
  BY <1>1 DEF ReachedFromRoot
<1>4. \A i \in 1..Len(stack') : stack'[i] = stack[i] /\ i \in 1..Len(stack)
  BY <1>1, PopKeepsRest
<1>5. \A i \in 1..Len(stack') : /\ stack'[i][1] \in graph[stack'[i][2]]
                                /\ stack'[i][2] \in seen \cup {root}
  BY <1>4 DEF LoopInv
<1>6. ASSUME NEW r \in seen \cup {root}, NEW d \in graph[r]
      PROVE  d \in seen \/ \E i \in 1..Len(stack') : stack'[i][1] = d
  <2>1. CASE d \in seen
    BY <2>1
  <2>2. CASE d \notin seen
    <3>1. PICK i \in 1..Len(stack) : stack[i][1] = d
      BY <2>2 DEF LoopInv, OnStack
    <3>2. i # Len(stack)
      BY <1>1, <2>2, <3>1 DEF Top
    <3>3. i \in 1..Len(stack') /\ stack'[i] = stack[i]
      BY <1>1, <3>1, <3>2, PopKeepsRest
    <3> QED BY <3>1, <3>3
  <2> QED BY <2>1, <2>2
<1>7. UpstreamExplains'
  BY <1>1 DEF LoopInv, UpstreamExplains
<1> QED BY <1>1, <1>2, <1>3, <1>5, <1>6, <1>7 DEF LoopInv, OnStack

\* Marking a new key keeps the chain of upstreams: no marked key names the new
\* one yet, unless it is the root.
LEMMA NewKeyExplained ==
  ASSUME WorklistTypeOK, UpstreamExplains, NEW k \in Node, k \notin seen,
         NEW u \in seen \cup {root}, k \in graph[u],
         seen' = seen \cup {k}, upstream' = [upstream EXCEPT ![k] = u],
         UNCHANGED <<graph, root>>
  PROVE  UpstreamExplains'
<1>1. \A j \in Node : upstream'[j] = IF j = k THEN u ELSE upstream[j]
  BY DEF WorklistTypeOK
<1>2. seen \subseteq Node /\ \A j \in seen : j # k
  BY DEF WorklistTypeOK
<1>3. \A j \in seen' : j \in graph'[upstream'[j]] /\ upstream'[j] \in seen' \cup {root'}
  BY <1>1, <1>2 DEF UpstreamExplains
<1>4. ASSUME NEW S \in (SUBSET seen') \ {{}}
      PROVE  \E j \in S : upstream'[j] = root \/ upstream'[j] \notin S
  <2>1. CASE S = {k}
    BY <1>1, <2>1
  <2>2. CASE S # {k}
    <3> DEFINE R == S \ {k}
    <3>1. R \in (SUBSET seen) \ {{}}
      BY <2>2
    <3>2. PICK j \in R : upstream[j] = root \/ upstream[j] \notin R
      BY <3>1, Zenon DEF UpstreamExplains
    <3>3. j \in seen /\ upstream'[j] = upstream[j] /\ upstream[j] \in seen \cup {root}
      BY <1>1, <1>2, <3>1, <3>2 DEF UpstreamExplains
    <3>4. upstream[j] = root \/ upstream[j] \notin S
      BY <3>2, <3>3
    <3> QED BY <3>2, <3>3, <3>4
  <2> QED BY <2>1, <2>2
<1> QED BY <1>3, <1>4 DEF UpstreamExplains

LEMMA NewLoopInv ==
  ASSUME LoopInv, VisitNew
  PROVE  LoopInv'
<1> DEFINE k == Top[1]
           u == Top[2]
<1>1. /\ WorklistTypeOK /\ stack # <<>> /\ k \notin seen
      /\ seen' = seen \cup {k}
      /\ upstream' = [upstream EXCEPT ![k] = u]
      /\ UNCHANGED <<graph, root>>
  BY DEF LoopInv, VisitNew
<1>2. PICK pushed \in Pushes(k) : stack' = Rest \o pushed
  BY Zenon DEF VisitNew
<1>3. k \in Node /\ u \in Node
  BY <1>1, PopKeepsRest
<1>4. k \in graph[u] /\ u \in seen \cup {root}
  BY <1>1, PopKeepsRest DEF LoopInv, Top
<1>5. /\ pushed \in Seq(Node \X Node)
      /\ \A i \in 1..Len(pushed) : pushed[i][1] \in graph[k] /\ pushed[i][2] = k
      /\ \A d \in graph[k] : \E i \in 1..Len(pushed) : pushed[i][1] = d
  BY <1>1, <1>3, PushesPairs
<1> HIDE DEF k, u
<1> DEFINE m == Len(Rest)
<1>6. /\ Rest \in Seq(Node \X Node) /\ m = Len(stack) - 1 /\ m \in Nat
      /\ \A i \in 1..m : Rest[i] = stack[i] /\ i \in 1..Len(stack)
  BY <1>1, PopKeepsRest
<1>7. /\ stack' \in Seq(Node \X Node)
      /\ Len(stack') = m + Len(pushed)
      /\ \A i \in 1..m + Len(pushed) :
           stack'[i] = IF i <= m THEN Rest[i] ELSE pushed[i - m]
  <2>1. /\ Rest \o pushed \in Seq(Node \X Node)
        /\ Len(Rest \o pushed) = Len(Rest) + Len(pushed)
        /\ \A i \in 1..Len(Rest) + Len(pushed) : (Rest \o pushed)[i] =
             IF i <= Len(Rest) THEN Rest[i] ELSE pushed[i - Len(Rest)]
    BY <1>5, <1>6, ConcatProperties, ZenonT(60)
  <2> QED BY <1>2, <2>1
<1>8. Len(pushed) \in Nat
  BY <1>5, LenProperties
<1> HIDE DEF m
<1>9. WorklistTypeOK'
  BY <1>1, <1>3, <1>7 DEF WorklistTypeOK
<1>10. ReachedFromRoot' = ReachedFromRoot /\ k \in ReachedFromRoot
  <2>1. ReachedFromRoot' = ReachedFromRoot
    BY <1>1 DEF ReachedFromRoot
  <2>2. u \in ReachedFromRoot \cup {root}
    BY <1>4 DEF LoopInv
  <2> QED BY <1>1, <1>4, <2>1, <2>2, ReachedClosed
<1>11. ASSUME NEW i \in 1..Len(stack')
       PROVE  stack'[i][1] \in graph[stack'[i][2]] /\ stack'[i][2] \in seen' \cup {root}
  <2>1. CASE i <= m
    BY <1>1, <1>6, <1>7, <1>8, <2>1 DEF LoopInv
  <2>2. CASE i > m
    <3>1. i \in 1..m + Len(pushed) /\ i - m \in 1..Len(pushed) /\ ~(i <= m)
      BY <1>6, <1>7, <1>8, <2>2
    <3>2. stack'[i] = pushed[i - m]
      BY <1>7, <3>1
    <3> QED BY <1>1, <1>5, <3>1, <3>2
  <2> QED BY <1>6, <1>7, <1>8, <2>1, <2>2
<1>12. ASSUME NEW r \in seen' \cup {root}, NEW d \in graph[r]
       PROVE  d \in seen' \/ \E i \in 1..Len(stack') : stack'[i][1] = d
  <2>1. CASE r = k
    <3>1. PICK j \in 1..Len(pushed) : pushed[j][1] = d
      BY <1>5, <2>1
    <3> DEFINE i == j + m
    <3>2. i \in 1..m + Len(pushed) /\ ~(i <= m) /\ i - m = j
      BY <1>6, <1>8
    <3> HIDE DEF i
    <3>3. i \in 1..Len(stack') /\ stack'[i] = pushed[j]
      BY <1>7, <3>2
    <3> QED BY <3>1, <3>3
  <2>2. CASE r # k /\ d \notin seen'
    <3>1. PICK i \in 1..Len(stack) : stack[i][1] = d
      BY <1>1, <2>2 DEF LoopInv, OnStack
    <3>2. i # Len(stack)
      BY <1>1, <2>2, <3>1 DEF k, Top
    <3>3. i \in 1..Len(stack') /\ stack'[i] = stack[i]
      BY <1>6, <1>7, <1>8, <3>1, <3>2
    <3> QED BY <3>1, <3>3
  <2> QED BY <2>1, <2>2
<1>13. UpstreamExplains'
  BY <1>1, <1>3, <1>4, NewKeyExplained, Zenon DEF LoopInv
<1> QED BY <1>1, <1>9, <1>10, <1>11, <1>12, <1>13 DEF LoopInv, OnStack

LEMMA NextLoopInv == LoopInv /\ [WorklistNext]_worklist => LoopInv'
<1> SUFFICES ASSUME LoopInv, [WorklistNext]_worklist PROVE LoopInv'
  OBVIOUS
<1>1. CASE VisitSeenAgain
  BY <1>1, SeenAgainLoopInv
<1>2. CASE VisitNew
  BY <1>2, NewLoopInv
<1>3. CASE UNCHANGED worklist
  BY <1>3, Zenon DEF worklist, LoopInv, WorklistTypeOK, ReachedFromRoot, OnStack, UpstreamExplains
<1> QED BY <1>1, <1>2, <1>3 DEF WorklistNext, Done

THEOREM LoopInvariant == WorklistSpec => []LoopInv
  BY InitLoopInv, NextLoopInv, PTL DEF WorklistSpec

\* When mark_dependents_dirty returns, exactly the keys that depend on the root,
\* directly or not, are marked: on every graph, cyclic or not.
THEOREM PropagationIsExact == WorklistSpec => []MarksExactlyReached
<1>1. LoopInv => MarksExactlyReached
  <2> SUFFICES ASSUME LoopInv, stack = <<>> PROVE seen = ReachedFromRoot
    BY DEF MarksExactlyReached
  <2>1. \A d : ~OnStack(d)
    BY EmptySeq DEF OnStack
  <2>2. \A r \in {root} \cup seen : graph[r] \subseteq seen
    BY <2>1 DEF LoopInv
  <2>3. ReachedFromRoot \subseteq seen
    BY <2>2 DEF ReachedFromRoot, LoopInv, WorklistTypeOK
  <2> QED BY <2>3 DEF LoopInv
<1> QED BY <1>1, LoopInvariant, PTL

\* Every dirty record names an invalidated key its own key depends on, and the
\* upstreams lead back to the root.
THEOREM UpstreamsExplain == WorklistSpec => []UpstreamExplains
<1>1. LoopInv => UpstreamExplains
  BY DEF LoopInv
<1> QED BY <1>1, LoopInvariant, PTL

\* The marks of mark_dependents_dirty and the reasons it records are both exact.
THEOREM MarksAreExplained == WorklistSpec => []MarksExplained
  BY PropagationIsExact, UpstreamsExplain, PTL DEF MarksExplained

-----------------------------------------------------------------------------
(* The changed region *)

\* A set of numbers that is not empty has a least member, which Least picks.
LEMMA LeastExists ==
  ASSUME NEW S \in SUBSET Nat, S # {}
  PROVE  Least(S) \in S /\ \A m \in S : Least(S) <= m
PROOF
  <1>1. PICK n \in S : \A m \in S : <<m, n>> \notin OpToRel(<, Nat)
    BY NatLessThanWellFounded, WFMin, Zenon
  <1>2. \A m \in S : n <= m
    <2>1. TAKE m \in S
    <2>2. m \in Nat /\ n \in Nat
      OBVIOUS
    <2>3. <<m, n>> \in Nat \X Nat
      BY <2>2
    <2>4. ~(m < n)
      BY <1>1, <2>3 DEF OpToRel
    <2> QED
      BY <2>2, <2>4
  <1> QED
    BY <1>1, <1>2, Zenon DEF Least

\* A prefix that stops at the first difference agrees before it.
LEMMA PrefixAgrees ==
  ASSUME NEW C, NEW old \in Seq(C), NEW new \in Seq(C), NEW p, p = Least(PrefixStops(old, new))
  PROVE  /\ p \in Nat /\ p <= Len(old) /\ p <= Len(new)
         /\ \A i \in 1..p : old[i] = new[i]
PROOF
  <1> DEFINE most == Smaller(Len(old), Len(new))
  <1>1. most \in Nat /\ most <= Len(old) /\ most <= Len(new)
    BY DEF Smaller
  <1>2. PrefixStops(old, new) \in SUBSET Nat
    BY <1>1 DEF PrefixStops
  <1>3. most \in PrefixStops(old, new)
    BY <1>1 DEF PrefixStops
  <1>4. p \in PrefixStops(old, new) /\ \A m \in PrefixStops(old, new) : p <= m
    BY <1>2, <1>3, LeastExists
  <1>5. p \in Nat /\ p <= most
    BY <1>1, <1>4 DEF PrefixStops
  <1>6. ASSUME NEW i \in 1..p PROVE old[i] = new[i]
    <2>1. i - 1 \in 0..most /\ i - 1 < p
      BY <1>1, <1>5
    <2>2. i - 1 \notin PrefixStops(old, new)
      BY <1>4, <1>5, <2>1
    <2>3. ~(old[(i - 1) + 1] # new[(i - 1) + 1])
      BY <2>1, <2>2 DEF PrefixStops
    <2> QED
      BY <2>3
  <1> QED
    BY <1>1, <1>5, <1>6

\* A suffix that stops at the first difference from the back agrees behind it.
LEMMA SuffixAgrees ==
  ASSUME NEW C, NEW old \in Seq(C), NEW new \in Seq(C),
         NEW p \in Nat, p <= Len(old), p <= Len(new),
         NEW s, s = Least(SuffixStops(old, new, p))
  PROVE  /\ s \in Nat /\ p + s <= Len(old) /\ p + s <= Len(new)
         /\ \A i \in 1..Len(old) : i > Len(old) - s => new[i + (Len(new) - Len(old))] = old[i]
PROOF
  <1> DEFINE most == Smaller(Len(old), Len(new)) - p
  <1>1. most \in Nat /\ most <= Len(old) - p /\ most <= Len(new) - p
    BY DEF Smaller
  <1>2. SuffixStops(old, new, p) \in SUBSET Nat
    BY <1>1 DEF SuffixStops
  <1>3. most \in SuffixStops(old, new, p)
    BY <1>1 DEF SuffixStops
  <1>4. s \in SuffixStops(old, new, p) /\ \A m \in SuffixStops(old, new, p) : s <= m
    BY <1>2, <1>3, LeastExists
  <1>5. s \in Nat /\ s <= most
    BY <1>1, <1>4 DEF SuffixStops
  <1>6. ASSUME NEW i \in 1..Len(old), i > Len(old) - s
        PROVE  new[i + (Len(new) - Len(old))] = old[i]
    <2> DEFINE n == Len(old) - i
    <2>1. n \in 0..most /\ n < s
      BY <1>1, <1>5, <1>6
    <2>2. n \notin SuffixStops(old, new, p)
      BY <1>4, <1>5, <2>1
    <2>3. ~(old[Len(old) - n] # new[Len(new) - n])
      BY <2>1, <2>2 DEF SuffixStops
    <2>4. Len(old) - n = i /\ Len(new) - n = i + (Len(new) - Len(old))
      OBVIOUS
    <2> QED
      BY <2>3, <2>4
  <1> QED
    BY <1>1, <1>5, <1>6

\* The plan: outside the changed region the old text and the new one agree, the part
\* after it moved by delta.
LEMMA PlanAgrees ==
  ASSUME NEW C, NEW old \in Seq(C), NEW new \in Seq(C), NEW plan, plan = boundary_plan(old, new)
  PROVE  /\ plan.prefix \in Nat /\ plan.old_edit_end \in Nat /\ plan.delta = Len(new) - Len(old)
         /\ plan.prefix <= plan.old_edit_end /\ plan.old_edit_end <= Len(old)
         /\ plan.prefix <= Len(new) /\ plan.old_edit_end + plan.delta >= plan.prefix
         /\ \A i \in 1..plan.prefix : new[i] = old[i]
         /\ \A i \in 1..Len(old) : i > plan.old_edit_end => new[i + plan.delta] = old[i]
PROOF
  <1> DEFINE p == Least(PrefixStops(old, new))
             s == Least(SuffixStops(old, new, p))
  <1>1. /\ p \in Nat /\ p <= Len(old) /\ p <= Len(new)
        /\ \A i \in 1..p : old[i] = new[i]
    BY PrefixAgrees
  <1>2. /\ s \in Nat /\ p + s <= Len(old) /\ p + s <= Len(new)
        /\ \A i \in 1..Len(old) : i > Len(old) - s => new[i + (Len(new) - Len(old))] = old[i]
    BY <1>1, SuffixAgrees
  <1>3. plan.prefix = p /\ plan.old_edit_end = Len(old) - s /\ plan.delta = Len(new) - Len(old)
    BY DEF boundary_plan
  <1>4. Len(old) \in Nat /\ Len(new) \in Nat
    OBVIOUS
  <1> HIDE DEF p, s
  <1> QED
    BY <1>1, <1>2, <1>3, <1>4

\* Two pieces with the same bytes are the same.
LEMMA SamePiece ==
  ASSUME NEW old \in Seq(Chars), NEW new \in Seq(Chars),
         NEW lo \in Nat, NEW hi \in Nat, lo <= hi, hi <= Len(old),
         NEW d \in Int, lo + d >= 0, hi + d <= Len(new),
         \A i \in (lo + 1)..hi : new[i + d] = old[i]
  PROVE  Piece(new, lo + d, hi + d) = Piece(old, lo, hi)
PROOF
  <1> DEFINE a == Piece(new, lo + d, hi + d)
             b == Piece(old, lo, hi)
  <1>1. a = [i \in 1..(hi - lo) |-> new[i + lo + d]]
    BY SMTT(30) DEF Piece
  <1>2. b = [i \in 1..(hi - lo) |-> old[i + lo]]
    BY SMTT(30) DEF Piece
  <1>3. ASSUME NEW i \in 1..(hi - lo) PROVE new[i + lo + d] = old[i + lo]
    <2>1. i + lo \in (lo + 1)..hi
      OBVIOUS
    <2>2. new[(i + lo) + d] = old[i + lo]
      BY <2>1
    <2> QED
      BY <2>2
  <1> QED
    BY <1>1, <1>2, <1>3, Zenon

\* Moving an interval of positions by d keeps every position of it a natural number.
LEMMA ShiftedPositions ==
  ASSUME NEW lo \in Nat, NEW start \in Nat, NEW end \in Nat, NEW hi \in Nat,
         lo <= start, start <= end, end <= hi, NEW d \in Int, lo + d >= 0
  PROVE  /\ lo + d \in Nat /\ start + d \in Nat /\ end + d \in Nat /\ hi + d \in Nat
         /\ lo + d <= start + d /\ start + d <= end + d /\ end + d <= hi + d
PROOF
  OBVIOUS

\* What lies after the edit lies inside the old text, and its new place inside the new one.
LEMMA TailPositions ==
  ASSUME NEW lo \in Nat, NEW hi \in Nat, NEW edit_end \in Nat, NEW prefix \in Nat,
         NEW old_len \in Nat, NEW new_len \in Nat, NEW d \in Int,
         lo >= edit_end, hi <= old_len, d = new_len - old_len, edit_end + d >= prefix
  PROVE  /\ lo + d >= 0 /\ hi + d <= new_len
         /\ \A i \in (lo + 1)..hi : i \in 1..old_len /\ i > edit_end
PROOF
  OBVIOUS

\* One entry: if it examined nothing that changed, what it examined is where it moves to.
LEMMA MovedIntact ==
  ASSUME NEW old \in Seq(Chars), NEW new \in Seq(Chars), NEW e, Recorded(e, old),
         NEW plan, plan = boundary_plan(old, new), ZoneOf(e, plan) # "none"
  PROVE  Recorded(Moved(e, Shift(ZoneOf(e, plan), plan.delta)), new)
PROOF
  <1>0. /\ plan.prefix \in Nat /\ plan.old_edit_end \in Nat /\ plan.delta = Len(new) - Len(old)
        /\ plan.prefix <= plan.old_edit_end /\ plan.old_edit_end <= Len(old)
        /\ plan.prefix <= Len(new) /\ plan.old_edit_end + plan.delta >= plan.prefix
        /\ \A i \in 1..plan.prefix : new[i] = old[i]
        /\ \A i \in 1..Len(old) : i > plan.old_edit_end => new[i + plan.delta] = old[i]
    BY PlanAgrees, SMTT(30)
  <1>p. PICK prefix \in Nat, edit_end \in Nat, delta \in Int :
          prefix = plan.prefix /\ edit_end = plan.old_edit_end /\ delta = plan.delta
    <2>1. plan.prefix \in Nat /\ plan.old_edit_end \in Nat
      BY <1>0
    <2>2. Len(new) - Len(old) \in Int
      OBVIOUS
    <2>3. plan.delta \in Int
      BY <1>0, <2>2
    <2> QED
      BY <2>1, <2>3, Zenon
  <1>l. PICK old_len \in Nat, new_len \in Nat : old_len = Len(old) /\ new_len = Len(new)
    OBVIOUS
  <1>a. delta = new_len - old_len /\ prefix <= new_len /\ edit_end + delta >= prefix
    BY <1>0, <1>p, <1>l
  <1>b. \A i \in 1..prefix : new[i] = old[i]
    BY <1>0, <1>p
  <1>c. \A i \in 1..old_len : i > edit_end => new[i + delta] = old[i]
    BY <1>0, <1>p, <1>l
  <1>1. e \in Entry /\ e.seen = Piece(old, e.lo, e.hi)
    BY DEF Recorded, Inside
  <1>e. PICK lo \in Nat, hi \in Nat, start \in Nat, end \in Nat :
          lo = e.lo /\ hi = e.hi /\ start = e.start /\ end = e.end
    BY <1>1 DEF Entry
  <1>2. lo <= start /\ start <= end /\ end <= hi /\ hi <= old_len
    BY <1>e, <1>l DEF Recorded, Inside
  <1>3. lo <= hi
    BY <1>2
  <1>d. PICK d : d = Shift(ZoneOf(e, plan), plan.delta)
    OBVIOUS
  <1>4. (hi <= prefix /\ d = 0) \/ (lo >= edit_end /\ d = delta)
    BY <1>d, <1>p, <1>e DEF ZoneOf, cache_interval_zone, Shift
  <1>5. /\ d \in Int /\ lo + d >= 0 /\ hi + d <= new_len
        /\ \A i \in (lo + 1)..hi : new[i + d] = old[i]
    <2>1. CASE hi <= prefix /\ d = 0
      <3>1. d \in Int /\ lo + d >= 0 /\ hi + d <= new_len
        BY <1>a, <2>1
      <3>2. \A i \in (lo + 1)..hi : i \in 1..prefix /\ i + d = i
        BY <2>1
      <3> QED
        BY <1>b, <3>1, <3>2
    <2>2. CASE lo >= edit_end /\ d = delta
      <3>1. /\ lo + delta >= 0 /\ hi + delta <= new_len
            /\ \A i \in (lo + 1)..hi : i \in 1..old_len /\ i > edit_end
        BY <1>a, <1>2, <2>2, TailPositions
      <3> QED
        BY <1>c, <2>2, <3>1
    <2> QED
      BY <1>4, <2>1, <2>2, SMTT(30)
  <1>6. Piece(new, lo + d, hi + d) = Piece(old, lo, hi)
    <2>1. hi <= Len(old) /\ hi + d <= Len(new)
      BY <1>l, <1>2, <1>5
    <2>2. d \in Int /\ lo + d >= 0 /\ \A i \in (lo + 1)..hi : new[i + d] = old[i]
      BY <1>5
    <2> QED
      BY <1>3, <2>1, <2>2, SamePiece
  <1>7. /\ lo + d \in Nat /\ start + d \in Nat /\ end + d \in Nat /\ hi + d \in Nat
        /\ lo + d <= start + d /\ start + d <= end + d /\ end + d <= hi + d
    BY <1>2, <1>5, ShiftedPositions
  <1>m. PICK m : m = Moved(e, d)
    OBVIOUS
  <1>8. /\ m.lo = lo + d /\ m.start = start + d /\ m.end = end + d /\ m.hi = hi + d
        /\ m.seen = e.seen
    BY <1>1, <1>e, <1>m DEF Moved, Entry
  <1>9. m \in Entry
    BY <1>1, <1>e, <1>m, <1>7, Zenon DEF Moved, Entry
  <1>10. Inside(m, new)
    BY <1>5, <1>7, <1>8, <1>9, <1>l DEF Inside
  <1>11. Recorded(m, new)
    BY <1>1, <1>e, <1>6, <1>8, <1>10 DEF Recorded
  <1> QED
    BY <1>d, <1>m, <1>11

\* The position cache never keeps an entry whose examined bytes have changed, and never
\* one outside the text: what cache_transforms.rs moves after any number of edits is
\* still what the parser read.
THEOREM CacheKeepsIntact == Spec => []EntriesIntact
PROOF
  <1> DEFINE Inv == cached_text \in Seq(Chars) /\ EntriesIntact
  <1>1. Init => Inv
    BY DEF Init, EntriesIntact
  <1>2. Inv /\ [Next]_cacheVars => Inv'
    <2> SUFFICES ASSUME Inv, [Next]_cacheVars PROVE Inv'
      OBVIOUS
    <2>1. CASE UNCHANGED cacheVars
      BY <2>1 DEF cacheVars, EntriesIntact
    <2>2. CASE Next
      <3> DEFINE plan == boundary_plan(cached_text, cached_text')
      <3>1. cached_text' \in Seq(Chars)
        BY <2>2 DEF Next
      <3>2. ASSUME NEW e \in entries' PROVE Recorded(e, cached_text')
        <4>1. CASE Recorded(e, cached_text')
          BY <4>1
        <4>2. CASE e \in Rebased(cached_text, cached_text', entries)
          <5>1. PICK f \in entries : /\ ZoneOf(f, plan) # "none"
                                     /\ e = Moved(f, Shift(ZoneOf(f, plan), plan.delta))
            BY <4>2 DEF Rebased
          <5>2. Recorded(f, cached_text)
            BY <5>1 DEF EntriesIntact
          <5> HIDE DEF plan
          <5>3. Recorded(Moved(f, Shift(ZoneOf(f, plan), plan.delta)), cached_text')
            BY <3>1, <5>1, <5>2, MovedIntact DEF plan
          <5> QED
            BY <5>1, <5>3
        <4> QED
          BY <2>2, <4>1, <4>2 DEF Next
      <3> QED
        BY <3>1, <3>2 DEF EntriesIntact
    <2> QED
      BY <2>1, <2>2
  <1>3. Inv => EntriesIntact
    OBVIOUS
  <1> QED
    BY <1>1, <1>2, <1>3, PTL DEF Spec

=============================================================================
