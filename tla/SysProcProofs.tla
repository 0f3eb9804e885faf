---------------------------- MODULE SysProcProofs ----------------------------
(***************************************************************************)
(* The children of a session, for every size of the table, of the pipes    *)
(* and of the calls: who holds a child that is not waited for, and where   *)
(* the units it wrote are.                                                 *)
(***************************************************************************)
EXTENDS SysProc, WellFoundedInduction, TLAPS

\* The units a child wrote are in its pipes or were taken by a call.
Balanced(r) == r.taken + r.pipe["stdout"] + r.pipe["stderr"] = r.written

Lives(r) == r.life \in {"running", "zombie"}

\* What a completed call leaves: the child is waited for and its pipes are empty.
CompletedIsEmpty ==
  result.is = "completed" =>
    /\ result.of \in Child /\ children[result.of].life = "reaped"
    /\ \A s \in Stream : children[result.of].pipe[s] = 0

\* A call in progress works on a handle of an open session, or waits for a child that
\* is not waited for yet and that no handle names any more.
CallIsBacked ==
  /\ call # NoChild => session = "open"
  /\ \A h \in Handle : Reading(h) \/ Writing(h) => handles[h] # NoChild
  /\ \A c \in Child : Waiting(c) => Alive(c) /\ \A h \in Handle : handles[h] # c

ProcInv ==
  /\ ProcTypeOK
  /\ ChildrenAccounted
  /\ CallIsBacked
  /\ \A c \in Child : Balanced(children[c])
  /\ CompletedIsEmpty

-----------------------------------------------------------------------------
(* What a step does to the record of a child *)

\* The child is as much alive as it was, and nothing it wrote is lost.
Stays(r, s) ==
  /\ s \in ChildType /\ s.dropped = r.dropped
  /\ Lives(s) <=> Lives(r)
  /\ Balanced(r) => Balanced(s)

\* The child is waited for.
Ends(r, s) ==
  /\ s \in ChildType /\ s.dropped = r.dropped
  /\ s.life = "reaped"
  /\ Balanced(r) => Balanced(s)

LEMMA UnbornType == Unborn \in ChildType /\ Balanced(Unborn)
<1>1. [s \in Stream |-> 0] \in [Stream -> 0..PipeCap]
  BY ProcAssumption
<1>2. 0 \in 0..PipeCap
  BY ProcAssumption
<1> QED BY <1>1, <1>2 DEF Unborn, ChildType, Balanced, Stream

LEMMA SameStays == ASSUME NEW r \in ChildType PROVE Stays(r, r)
  BY Zenon DEF Stays

LEMMA ClosedStays ==
  ASSUME NEW r \in ChildType
  PROVE  Stays(r, [r EXCEPT !.stdin = "closed"])
  BY Zenon DEF Stays, ChildType, Lives, Balanced

LEMMA KilledStays ==
  ASSUME NEW r \in ChildType
  PROVE  Stays(r, [r EXCEPT !.killed = TRUE])
  BY Zenon DEF Stays, ChildType, Lives, Balanced

LEMMA ElapsedStays ==
  ASSUME NEW r \in ChildType
  PROVE  Stays(r, [r EXCEPT !.deadline = "elapsed"])
  BY Zenon DEF Stays, ChildType, Lives, Balanced

LEMMA ExitStays ==
  ASSUME NEW r \in ChildType, r.life = "running"
  PROVE  Stays(r, [r EXCEPT !.life = "zombie"])
  BY Zenon DEF Stays, ChildType, Lives, Balanced

LEMMA FedStays ==
  ASSUME NEW r \in ChildType, NEW n \in 0..PipeCap
  PROVE  Stays(r, [r EXCEPT !.stdin_pipe = n])
  BY Zenon DEF Stays, ChildType, Lives, Balanced

LEMMA AdvancedStays ==
  ASSUME NEW r \in ChildType, r.program # <<>>
  PROVE  Stays(r, [r EXCEPT !.program = Tail(@)])
<1>1. Tail(r.program) \in Seq({"stdin", "stdout", "stderr"})
  BY DEF ChildType
<1>2. PICK t : t = Tail(r.program)
  BY Zenon
<1> QED BY <1>1, <1>2, Zenon DEF Stays, ChildType, Lives, Balanced

Sum(p) == p["stdout"] + p["stderr"]

\* One unit less, or one more, in one of the pipes.
LEMMA OneLess ==
  ASSUME NEW p \in [Stream -> 0..PipeCap], NEW s \in Stream, p[s] > 0
  PROVE  /\ [p EXCEPT ![s] = @ - 1] \in [Stream -> 0..PipeCap]
         /\ Sum([p EXCEPT ![s] = @ - 1]) = Sum(p) - 1
  BY ProcAssumption DEF Stream, Sum

LEMMA OneMore ==
  ASSUME NEW p \in [Stream -> 0..PipeCap], NEW s \in Stream, p[s] < PipeCap
  PROVE  /\ [p EXCEPT ![s] = @ + 1] \in [Stream -> 0..PipeCap]
         /\ Sum([p EXCEPT ![s] = @ + 1]) = Sum(p) + 1
  BY ProcAssumption DEF Stream, Sum

LEMMA SumType ==
  ASSUME NEW p \in [Stream -> 0..PipeCap]
  PROVE  Sum(p) \in Nat /\ p["stdout"] \in Nat /\ p["stderr"] \in Nat
  BY ProcAssumption DEF Stream, Sum

LEMMA BalancedSum ==
  ASSUME NEW r \in ChildType
  PROVE  Balanced(r) <=> r.taken + Sum(r.pipe) = r.written
<1>1. r.pipe \in [Stream -> 0..PipeCap] /\ r.taken \in Nat /\ r.written \in Nat
  BY Zenon DEF ChildType
<1>2. r.pipe["stdout"] \in Nat /\ r.pipe["stderr"] \in Nat
  BY <1>1, SumType, Zenon
<1> QED BY <1>1, <1>2 DEF Balanced, Sum

LEMMA TakenStays ==
  ASSUME NEW r \in ChildType, NEW s \in Stream, r.pipe[s] > 0
  PROVE  Stays(r, [r EXCEPT !.pipe[s] = @ - 1, !.taken = @ + 1])
<1>1. r.pipe \in [Stream -> 0..PipeCap] /\ r.taken \in Nat /\ r.written \in Nat
  BY Zenon DEF ChildType
<1>2. PICK p : p = [r.pipe EXCEPT ![s] = @ - 1]
  BY Zenon
<1>3. p \in [Stream -> 0..PipeCap] /\ Sum(p) = Sum(r.pipe) - 1
  BY <1>1, <1>2, OneLess, Zenon
<1>4. PICK n : n = r.taken + 1
  BY Zenon
<1>5. PICK q : q = [r EXCEPT !.pipe = p, !.taken = n]
  BY Zenon
<1>6. n \in Nat
  BY <1>1, <1>4
<1>7. /\ q \in ChildType /\ q.life = r.life /\ q.dropped = r.dropped
      /\ q.pipe = p /\ q.taken = n /\ q.written = r.written
  <2>1. p \in [Stream -> 0..PipeCap]
    BY <1>3, Zenon
  <2> QED BY <1>5, <1>6, <2>1, Zenon DEF ChildType
<1>8. Balanced(r) => Balanced(q)
  <2>1. Sum(r.pipe) \in Nat
    BY <1>1, SumType, Zenon
  <2>2. n + Sum(p) = r.taken + Sum(r.pipe)
    BY <1>1, <1>3, <1>4, <2>1
  <2> QED BY <1>7, <2>2, BalancedSum, Zenon
<1>9. q = [r EXCEPT !.pipe[s] = @ - 1, !.taken = @ + 1]
  <2>1. q = [r EXCEPT !.pipe = p, !.taken = @ + 1]
    BY <1>4, <1>5, Zenon
  <2>2. [r EXCEPT !.pipe[s] = @ - 1, !.taken = @ + 1] = [r EXCEPT !.pipe = p, !.taken = @ + 1]
    BY <1>2, Zenon DEF ChildType
  <2> QED BY <2>1, <2>2, Zenon
<1> QED BY <1>7, <1>8, <1>9, Zenon DEF Stays, Lives

LEMMA WrittenStays ==
  ASSUME NEW r \in ChildType, NEW s \in Stream, r.pipe[s] < PipeCap, r.program # <<>>
  PROVE  Stays(r, [r EXCEPT !.program = Tail(@), !.pipe[s] = @ + 1, !.written = @ + 1])
<1>1. r.pipe \in [Stream -> 0..PipeCap] /\ r.taken \in Nat /\ r.written \in Nat
  BY Zenon DEF ChildType
<1>2. PICK p : p = [r.pipe EXCEPT ![s] = @ + 1]
  BY Zenon
<1>3. p \in [Stream -> 0..PipeCap] /\ Sum(p) = Sum(r.pipe) + 1
  BY <1>1, <1>2, OneMore, Zenon
<1>4. PICK m : m = r.written + 1
  BY Zenon
<1>5. PICK t : t = Tail(r.program)
  BY Zenon
<1>6. PICK q : q = [r EXCEPT !.program = t, !.pipe = p, !.written = m]
  BY Zenon
<1>7. m \in Nat
  BY <1>1, <1>4
<1>8. Tail(r.program) \in Seq({"stdin", "stdout", "stderr"})
  BY DEF ChildType
<1>9. /\ q \in ChildType /\ q.life = r.life /\ q.dropped = r.dropped
      /\ q.pipe = p /\ q.taken = r.taken /\ q.written = m
  <2>1. p \in [Stream -> 0..PipeCap]
    BY <1>3, Zenon
  <2>2. t \in Seq({"stdin", "stdout", "stderr"})
    BY <1>5, <1>8, Zenon
  <2> QED BY <1>6, <1>7, <2>1, <2>2, Zenon DEF ChildType
<1>10. Balanced(r) => Balanced(q)
  <2>1. Sum(r.pipe) \in Nat
    BY <1>1, SumType, Zenon
  <2>2. r.taken + Sum(r.pipe) = r.written => r.taken + Sum(p) = m
    BY <1>1, <1>3, <1>4, <2>1
  <2> QED BY <1>9, <2>2, BalancedSum, Zenon
<1>11. q = [r EXCEPT !.program = Tail(@), !.pipe[s] = @ + 1, !.written = @ + 1]
  <2>1. q = [r EXCEPT !.program = Tail(@), !.pipe = p, !.written = @ + 1]
    BY <1>4, <1>5, <1>6, Zenon
  <2>2. [r EXCEPT !.program = Tail(@), !.pipe[s] = @ + 1, !.written = @ + 1]
          = [r EXCEPT !.program = Tail(@), !.pipe = p, !.written = @ + 1]
    BY <1>2, Zenon DEF ChildType
  <2> QED BY <2>1, <2>2, Zenon
<1> QED BY <1>9, <1>10, <1>11, Zenon DEF Stays, Lives

LEMMA KilledEnds ==
  ASSUME NEW r \in ChildType
  PROVE  Ends(r, [r EXCEPT !.life = "reaped", !.killed = TRUE])
  BY Zenon DEF Ends, ChildType, Balanced

LEMMA CollectedEnds ==
  ASSUME NEW r \in ChildType,
         NEW q, q = [r EXCEPT !.life = "reaped",
                              !.taken = @ + (r.pipe["stdout"] + r.pipe["stderr"]),
                              !.pipe = [t \in Stream |-> 0]]
  PROVE  Ends(r, q) /\ \A t \in Stream : q.pipe[t] = 0
<1>1. r.pipe \in [Stream -> 0..PipeCap] /\ r.taken \in Nat /\ r.written \in Nat
  BY Zenon DEF ChildType
<1>2. PICK p : p = [t \in Stream |-> 0]
  BY Zenon
<1>3. p \in [Stream -> 0..PipeCap] /\ Sum(p) = 0 /\ \A t \in Stream : p[t] = 0
  BY <1>2, ProcAssumption DEF Stream, Sum
<1>4. PICK n : n = r.taken + Sum(r.pipe)
  BY Zenon
<1>5. n \in Nat
  BY <1>1, <1>4, SumType
<1>6. q = [r EXCEPT !.life = "reaped", !.taken = n, !.pipe = p]
  BY <1>2, <1>4, Zenon DEF Sum
<1>7. /\ q \in ChildType /\ q.life = "reaped" /\ q.dropped = r.dropped
      /\ q.pipe = p /\ q.taken = n /\ q.written = r.written
  <2>1. p \in [Stream -> 0..PipeCap]
    BY <1>3, Zenon
  <2> QED BY <1>5, <1>6, <2>1, ZenonT(60) DEF ChildType
<1>8. n + Sum(p) = n
  BY <1>3, <1>5
<1>9. Balanced(r) => Balanced(q)
  BY <1>4, <1>7, <1>8, BalancedSum, Zenon
<1> QED BY <1>3, <1>7, <1>9, Zenon DEF Ends

-----------------------------------------------------------------------------
(* What a step does to the children *)

AllStay ==
  /\ children' \in [Child -> ChildType]
  /\ \A c \in Child : Stays(children[c], children'[c])

OneEnds(c) ==
  /\ children' \in [Child -> ChildType]
  /\ Ends(children[c], children'[c])
  /\ \A d \in Child \ {c} : children'[d] = children[d]

LEMMA ChildrenType ==
  ASSUME ProcTypeOK, NEW c \in Child
  PROVE  children[c] \in ChildType
  BY Zenon DEF ProcTypeOK

LEMMA SetStays ==
  ASSUME ProcTypeOK, NEW c \in Child, NEW r, Stays(children[c], r),
         children' = [children EXCEPT ![c] = r]
  PROVE  AllStay /\ \A d \in Child \ {c} : children'[d] = children[d]
<1>1. r \in ChildType /\ children \in [Child -> ChildType]
  BY Zenon DEF Stays, ProcTypeOK
<1>2. /\ children' \in [Child -> ChildType] /\ children'[c] = r
      /\ \A d \in Child \ {c} : children'[d] = children[d]
  BY <1>1, Zenon
<1> QED BY <1>1, <1>2, SameStays, Zenon DEF AllStay

LEMMA SetEnds ==
  ASSUME ProcTypeOK, NEW c \in Child, NEW r, Ends(children[c], r),
         children' = [children EXCEPT ![c] = r]
  PROVE  OneEnds(c) /\ children'[c] = r
<1>1. r \in ChildType /\ children \in [Child -> ChildType]
  BY Zenon DEF Ends, ProcTypeOK
<1> QED BY <1>1, Zenon DEF OneEnds

LEMMA UnchangedStays ==
  ASSUME ProcTypeOK, UNCHANGED children
  PROVE  AllStay
  BY SameStays, Zenon DEF AllStay, ProcTypeOK

LEMMA KilledAndWaitedEnds ==
  ASSUME ProcTypeOK, NEW c \in Child, children' = KilledAndWaited(c)
  PROVE  OneEnds(c)
<1>1. PICK r : r = [children[c] EXCEPT !.life = "reaped", !.killed = TRUE]
  BY Zenon
<1>2. Ends(children[c], r)
  BY <1>1, ChildrenType, KilledEnds, Zenon
<1>3. children' = [children EXCEPT ![c] = r]
  BY <1>1, Zenon DEF KilledAndWaited, ProcTypeOK
<1> QED BY <1>2, <1>3, SetEnds, Zenon

LEMMA CollectedIsEnd ==
  ASSUME ProcTypeOK, NEW c \in Child, children' = Collected(c)
  PROVE  OneEnds(c) /\ \A s \in Stream : children'[c].pipe[s] = 0
<1>1. PICK r : r = [children[c] EXCEPT !.life = "reaped",
                      !.taken = @ + (children[c].pipe["stdout"] + children[c].pipe["stderr"]),
                      !.pipe = [t \in Stream |-> 0]]
  BY Zenon
<1>2. Ends(children[c], r) /\ \A t \in Stream : r.pipe[t] = 0
  BY <1>1, ChildrenType, CollectedEnds, Zenon
<1>3. children' = [children EXCEPT ![c] = r]
  BY <1>1, Zenon DEF Collected, InPipes, ProcTypeOK
<1> QED BY <1>2, <1>3, SetEnds, ZenonT(60)

LEMMA TakenIsStay ==
  ASSUME ProcTypeOK, NEW c \in Child, NEW s \in Stream, children[c].pipe[s] > 0,
         children' = Taken(c, s)
  PROVE  AllStay
<1>1. PICK r : r = [children[c] EXCEPT !.pipe[s] = @ - 1, !.taken = @ + 1]
  BY SMTT(30)
<1>2. Stays(children[c], r)
  BY <1>1, ChildrenType, TakenStays, Zenon
<1>3. children' = [children EXCEPT ![c] = r]
  BY <1>1, Zenon DEF Taken, ProcTypeOK
<1> QED BY <1>2, <1>3, SetStays, Zenon

-----------------------------------------------------------------------------
(* What keeps the invariant *)

ResultType == [of : Child \cup {NoChild}, is : ProcResults]

\* A step that leaves every child and every handle where it is.
LEMMA StayInv ==
  ASSUME ProcInv, AllStay, UNCHANGED <<handles, session>>,
         call' \in ProcCalls \cup {NoChild}, result' \in ResultType,
         \A c \in Child : Waiting(c)' <=> Waiting(c),
         \A h \in Handle : (Reading(h) \/ Writing(h))' => handles[h] # NoChild,
         call' # NoChild => session = "open",
         CompletedIsEmpty'
  PROVE  ProcInv'
<1>1. ProcTypeOK'
  BY Zenon DEF ProcInv, ProcTypeOK, AllStay, ResultType
<1>2. \A c \in Child : /\ Alive(c)' <=> Alive(c)
                       /\ children'[c].dropped = children[c].dropped
                       /\ Balanced(children'[c])
  BY Zenon DEF ProcInv, AllStay, Stays, Lives, Alive
<1>3. \A c \in Child : Holds(c)' <=> Holds(c)
  BY Zenon DEF Holds
<1>4. ChildrenAccounted'
  <2>1. \A c \in Child : Alive(c)' => Holds(c)' \/ children'[c].dropped
    BY <1>2, <1>3, Zenon DEF ProcInv, ChildrenAccounted
  <2>2. ASSUME session = "open", NEW h \in Open
        PROVE  Alive(handles[h])' /\ \A g \in Open : handles[g] = handles[h] => g = h
    <3>1. Alive(handles[h]) /\ \A g \in Open : handles[g] = handles[h] => g = h
      BY <2>2, Zenon DEF ProcInv, ChildrenAccounted
    <3>2. handles[h] \in Child
      BY Zenon DEF ProcInv, ProcTypeOK, Open
    <3> QED BY <1>2, <3>1, <3>2, Zenon DEF Alive
  <2> QED BY <2>1, <2>2, Zenon DEF ChildrenAccounted, Open
<1>5. CallIsBacked'
  BY <1>2, Zenon DEF ProcInv, CallIsBacked
<1> QED BY <1>1, <1>2, <1>4, <1>5, Zenon DEF ProcInv

\* A handle goes, and its child is waited for.
LEMMA EndHandleInv ==
  ASSUME ProcInv, NEW h \in Open, session = "open", \A c \in Child : ~Waiting(c),
         OneEnds(handles[h]), handles' = Free(h), call' = NoChild, session' = session,
         result' \in ResultType, CompletedIsEmpty'
  PROVE  ProcInv'
<1>0. PICK k : k = handles[h]
  BY Zenon
<1>1. h \in Handle /\ k \in Child /\ k # NoChild /\ handles \in [Handle -> Child \cup {NoChild}]
  BY <1>0, Zenon DEF ProcInv, ProcTypeOK, Open
<1>2. /\ handles' \in [Handle -> Child \cup {NoChild}]
      /\ handles'[h] = NoChild /\ \A g \in Handle \ {h} : handles'[g] = handles[g]
  BY <1>1, Zenon DEF Free
<1>3. ProcTypeOK'
  BY <1>2, Zenon DEF ProcInv, ProcTypeOK, OneEnds, ResultType
<1>4. ~Alive(k)' /\ Balanced(children'[k])
  BY <1>0, <1>1, Zenon DEF ProcInv, OneEnds, Ends, Alive
<1>5. \A c \in Child \ {k} : children'[c] = children[c]
  BY <1>0, Zenon DEF OneEnds
<1>6. \A g \in Open : handles[g] = k => g = h
  BY <1>0, Zenon DEF ProcInv, ChildrenAccounted
<1>7. Open' = Open \ {h} /\ \A g \in Open \ {h} : handles'[g] = handles[g] /\ handles[g] # k /\ handles[g] \in Child
  <2>1. \A g \in Handle : handles[g] # NoChild => handles[g] \in Child
    BY <1>1, Zenon
  <2>2. Open' = Open \ {h}
    BY <1>1, <1>2, Zenon DEF Open
  <2>3. \A g \in Open \ {h} : handles'[g] = handles[g] /\ handles[g] \in Child
    BY <1>2, <2>1, Zenon DEF Open
  <2>4. \A g \in Open \ {h} : handles[g] # k
    BY <1>6, Zenon
  <2> QED BY <2>2, <2>3, <2>4, Zenon
<1>8. ChildrenAccounted'
  <2>1. ASSUME NEW c \in Child, Alive(c)' PROVE Holds(c)' \/ children'[c].dropped
    <3>1. c # k /\ children'[c] = children[c]
      BY <1>4, <1>5, <2>1, Zenon
    <3>2. CASE children[c].dropped
      BY <3>1, <3>2, Zenon
    <3>3. CASE Holds(c)
      <4>1. PICK g \in Handle : handles[g] = c
        BY <3>3, Zenon DEF Holds
      <4>2. g # h
        BY <1>0, <3>1, <4>1, Zenon
      <4> QED BY <1>2, <4>1, <4>2, Zenon DEF Holds
    <3> QED BY <2>1, <3>1, <3>2, <3>3, Zenon DEF ProcInv, ChildrenAccounted, Alive
  <2>2. ASSUME NEW f \in Open'
        PROVE  Alive(handles[f])' /\ \A g \in Open' : handles'[g] = handles'[f] => g = f
    <3>1. Alive(handles[f]) /\ \A g \in Open : handles[g] = handles[f] => g = f
      BY <1>7, <2>2, Zenon DEF ProcInv, ChildrenAccounted
    <3>2. handles'[f] = handles[f] /\ children'[handles[f]] = children[handles[f]]
      BY <1>5, <1>7, <2>2, Zenon
    <3> QED BY <1>7, <3>1, <3>2, Zenon DEF Alive
  <2> QED BY <2>1, <2>2, Zenon DEF ChildrenAccounted
<1>9. CallIsBacked'
  BY Zenon DEF CallIsBacked, Reading, Writing, Waiting
<1>10. \A c \in Child : Balanced(children'[c])
  BY <1>4, <1>5, Zenon DEF ProcInv
<1> QED BY <1>3, <1>8, <1>9, <1>10, Zenon DEF ProcInv

\* The child a call waits for is waited for.
LEMMA EndWaitInv ==
  ASSUME ProcInv, NEW c \in Child, Waiting(c), OneEnds(c),
         UNCHANGED <<handles, session>>, call' = NoChild,
         result' \in ResultType, CompletedIsEmpty'
  PROVE  ProcInv'
<1>1. session = "open" /\ Alive(c) /\ \A h \in Handle : handles[h] # c
  BY Zenon DEF ProcInv, CallIsBacked, Waiting
<1>2. ProcTypeOK'
  BY Zenon DEF ProcInv, ProcTypeOK, OneEnds, ResultType
<1>3. ~Alive(c)' /\ Balanced(children'[c]) /\ \A d \in Child \ {c} : children'[d] = children[d]
  BY Zenon DEF ProcInv, OneEnds, Ends, Alive
<1>4. \A d \in Child \ {c} : ~Waiting(d)
  BY Zenon DEF Waiting
<1>5. ChildrenAccounted'
  <2>1. ASSUME NEW d \in Child, Alive(d)' PROVE Holds(d)' \/ children'[d].dropped
    <3>1. d # c /\ children'[d] = children[d]
      BY <1>3, <2>1, Zenon
    <3>2. Holds(d) \/ children[d].dropped
      BY <2>1, <3>1, Zenon DEF ProcInv, ChildrenAccounted, Alive
    <3> QED BY <1>4, <3>1, <3>2, Zenon DEF Holds
  <2>2. ASSUME NEW f \in Open
        PROVE  Alive(handles[f])' /\ \A g \in Open : handles[g] = handles[f] => g = f
    <3>1. Alive(handles[f]) /\ \A g \in Open : handles[g] = handles[f] => g = f
      BY <1>1, <2>2, Zenon DEF ProcInv, ChildrenAccounted
    <3>2. handles[f] \in Child \ {c}
      BY <1>1, Zenon DEF ProcInv, ProcTypeOK, Open
    <3> QED BY <1>3, <3>1, <3>2, Zenon DEF Alive
  <2> QED BY <2>1, <2>2, Zenon DEF ChildrenAccounted, Open
<1>6. CallIsBacked'
  BY Zenon DEF CallIsBacked, Reading, Writing, Waiting
<1>7. \A d \in Child : Balanced(children'[d])
  BY <1>3, Zenon DEF ProcInv
<1> QED BY <1>2, <1>5, <1>6, <1>7, Zenon DEF ProcInv

LEMMA ProcInitInv == ProcInit => ProcInv
<1> SUFFICES ASSUME ProcInit PROVE ProcInv
  BY Zenon
<1>1. \A c \in Child : children[c] = Unborn
  BY Zenon DEF ProcInit
<1>2. \A c \in Child : children[c].life = "unborn" /\ Balanced(children[c])
  BY <1>1, UnbornType DEF Unborn
<1>3. ProcTypeOK
  BY UnbornType, Zenon DEF ProcInit, ProcTypeOK, ProcResults
<1>4. ChildrenAccounted /\ CallIsBacked /\ CompletedIsEmpty
  BY <1>2, Zenon DEF ProcInit, ChildrenAccounted, Alive, Open, CallIsBacked, Reading, Writing, Waiting,
              CompletedIsEmpty
<1> QED BY <1>2, <1>3, <1>4, Zenon DEF ProcInv

LEMMA NoneIsNoCall == NoChild \notin ProcCalls /\ NoChild \notin Child /\ NoChild \notin Handle
<1>1. NoChild \notin Int
  BY ProcAssumption, Zenon
<1>2. Child \subseteq Int /\ Handle \subseteq Int
  BY ProcAssumption DEF Child, Handle
<1> QED BY <1>1, <1>2, NoCallAssumption, Zenon

\* A call returns and the children and handles stay as they are.
LEMMA ReturnInv ==
  ASSUME ProcInv, AllStay, UNCHANGED handles, \A c \in Child : ~Waiting(c),
         NEW of \in Child \cup {NoChild}, NEW is \in ProcResults \ {"completed"},
         ProcReturns(of, is)
  PROVE  ProcInv'
<1>1. /\ call' = NoChild /\ result' \in ResultType /\ result'.is # "completed"
      /\ session' = session
  BY Zenon DEF ProcReturns, ResultType
<1>2. CompletedIsEmpty'
  BY <1>1, Zenon DEF CompletedIsEmpty
<1>3. \A c \in Child : Waiting(c)' <=> Waiting(c)
  BY <1>1, Zenon DEF Waiting
<1>4. \A h \in Handle : (Reading(h) \/ Writing(h))' => handles[h] # NoChild
  BY <1>1, Zenon DEF Reading, Writing
<1> QED BY <1>1, <1>2, <1>3, <1>4, StayInv, Zenon

\* reject_elapsed_deadline, from an idle session or between two reads.
LEMMA RejectedInv ==
  ASSUME ProcInv, NEW h \in Open, session = "open", \A c \in Child : ~Waiting(c), Rejected(h)
  PROVE  ProcInv'
<1>1. handles[h] \in Child /\ ProcTypeOK
  BY Zenon DEF ProcInv, ProcTypeOK, Open
<1>2. OneEnds(handles[h])
  BY <1>1, KilledAndWaitedEnds, Zenon DEF Rejected
<1>3. /\ call' = NoChild /\ session' = session /\ result'.is = "timed_out"
      /\ result' \in ResultType
  BY <1>1, Zenon DEF Rejected, ProcReturns, ResultType, ProcResults
<1>4. CompletedIsEmpty'
  BY <1>3, Zenon DEF CompletedIsEmpty
<1> QED BY <1>2, <1>3, <1>4, EndHandleInv, Zenon DEF Rejected

\* A call on a handle begins or goes on.
LEMMA OnHandleInv ==
  ASSUME ProcInv, AllStay, UNCHANGED handles, session = "open", \A c \in Child : ~Waiting(c),
         NEW h \in Open, NEW next \in ProcCalls, next.op \in {"read", "write"}, next.handle = h,
         ProcBlocks(next)
  PROVE  ProcInv'
<1>1. /\ call' = next /\ result' \in ResultType /\ result'.is # "completed"
      /\ session' = session
  BY Zenon DEF ProcBlocks, ResultType, ProcResults
<1>2. CompletedIsEmpty'
  BY <1>1, Zenon DEF CompletedIsEmpty
<1>3. \A c \in Child : Waiting(c)' <=> Waiting(c)
  BY <1>1, Zenon DEF Waiting
<1>4. \A g \in Handle : (Reading(g) \/ Writing(g))' => handles[g] # NoChild
  BY <1>1, Zenon DEF Reading, Writing, Open
<1> QED BY <1>1, <1>2, <1>3, <1>4, StayInv, Zenon

\* A wait goes on.
LEMMA OnWaitInv ==
  ASSUME ProcInv, AllStay, UNCHANGED handles, NEW c \in Child, Waiting(c),
         NEW next \in ProcCalls, next.op = "wait", next.child = c,
         ProcBlocks(next)
  PROVE  ProcInv'
<1>1. /\ call' = next /\ result' \in ResultType /\ result'.is # "completed"
      /\ session' = session
  BY Zenon DEF ProcBlocks, ResultType, ProcResults
<1>2. CompletedIsEmpty'
  BY <1>1, Zenon DEF CompletedIsEmpty
<1>3. session = "open" /\ next # NoChild
  BY NoneIsNoCall, Zenon DEF ProcInv, CallIsBacked, Waiting
<1>4. \A d \in Child : Waiting(d)' <=> Waiting(d)
  BY <1>1, <1>3, Zenon DEF Waiting
<1>5. \A g \in Handle : (Reading(g) \/ Writing(g))' => handles[g] # NoChild
  BY <1>1, Zenon DEF Reading, Writing
<1> QED BY <1>1, <1>2, <1>3, <1>4, <1>5, StayInv, Zenon

-----------------------------------------------------------------------------
(* The steps *)

LEMMA IdleFacts ==
  ASSUME ProcInv, ProcIdle
  PROVE  session = "open" /\ \A c \in Child : ~Waiting(c)
  BY Zenon DEF ProcIdle, Waiting

LEMMA LiveFacts ==
  ASSUME ProcInv, NEW h \in Handle, Live(h)
  PROVE  /\ session = "open" /\ \A c \in Child : ~Waiting(c)
         /\ h \in Open /\ handles[h] \in Child /\ ProcTypeOK
  BY Zenon DEF ProcInv, ProcTypeOK, Live, ProcIdle, Waiting, Open

LEMMA BusyFacts ==
  ASSUME ProcInv, NEW h \in Handle, Reading(h) \/ Writing(h)
  PROVE  /\ session = "open" /\ \A c \in Child : ~Waiting(c)
         /\ h \in Open /\ handles[h] \in Child /\ ProcTypeOK
  BY Zenon DEF ProcInv, ProcTypeOK, CallIsBacked, Reading, Writing, Waiting, Open

LEMMA WaitFacts ==
  ASSUME ProcInv, NEW c \in Child, Waiting(c)
  PROVE  /\ ProcTypeOK
         /\ call \in [op : {"wait"}, child : Child, polled : BOOLEAN, got : Nat]
         /\ call.child = c
<1>1. call \in ProcCalls /\ call.op = "wait" /\ call.child = c
  BY Zenon DEF ProcInv, ProcTypeOK, Waiting
<1> QED BY <1>1, Zenon DEF ProcCalls, ProcInv

LEMMA ReadFacts ==
  ASSUME ProcInv, NEW h \in Handle, Reading(h)
  PROVE  call \in [op : {"read"}, handle : Handle, stream : Stream, got : Nat] /\ call.handle = h
<1>1. call \in ProcCalls /\ call.op = "read" /\ call.handle = h
  BY Zenon DEF ProcInv, ProcTypeOK, Reading
<1> QED BY <1>1, Zenon DEF ProcCalls

LEMMA WriteFacts ==
  ASSUME ProcInv, NEW h \in Handle, Writing(h)
  PROVE  call \in [op : {"write"}, handle : Handle, left : 0..MaxWrite] /\ call.handle = h
<1>1. call \in ProcCalls /\ call.op = "write" /\ call.handle = h
  BY Zenon DEF ProcInv, ProcTypeOK, Writing
<1> QED BY <1>1, Zenon DEF ProcCalls

LEMMA DecodedType ==
  ASSUME NEW c, NEW got, NEW is \in ProcResults
  PROVE  Decoded(c, got, is) \in ProcResults
  BY Zenon DEF Decoded, ProcResults

LEMMA CompletedInv ==
  ASSUME NEW c \in Child, OneEnds(c), \A s \in Stream : children'[c].pipe[s] = 0,
         NEW is \in ProcResults, ProcReturns(c, is)
  PROVE  CompletedIsEmpty' /\ result' \in ResultType /\ call' = NoChild /\ session' = session
  BY Zenon DEF CompletedIsEmpty, ProcReturns, ResultType, OneEnds, Ends

LEMMA WaitStep ==
  ASSUME ProcInv, NEW c \in Child,
         \/ WaitCompletes(c) \/ WaitPolls(c) \/ WaitSleeps(c) \/ WaitTimesOut(c)
         \/ \E s \in Stream : WaitDrains(c, s)
  PROVE  ProcInv'
<1>1. Waiting(c)
  BY Zenon DEF WaitCompletes, WaitPolls, WaitSleeps, WaitTimesOut, WaitDrains
<1>2. /\ ProcTypeOK /\ call.child = c /\ call.op = "wait"
      /\ call \in [op : {"wait"}, child : Child, polled : BOOLEAN, got : Nat]
  BY <1>1, WaitFacts, Zenon DEF Waiting
<1>3. CASE WaitCompletes(c)
  <2>1. OneEnds(c) /\ \A s \in Stream : children'[c].pipe[s] = 0
    BY <1>2, <1>3, CollectedIsEnd, Zenon DEF WaitCompletes
  <2>2. PICK is : is = Decoded(c, call.got + InPipes(c), "completed")
    BY Zenon
  <2>3. is \in ProcResults
    BY <2>2, DecodedType DEF ProcResults
  <2>4. ProcReturns(c, is) /\ UNCHANGED handles
    BY <1>3, <2>2, Zenon DEF WaitCompletes
  <2> QED BY <1>1, <2>1, <2>3, <2>4, CompletedInv, EndWaitInv
<1>4. CASE WaitTimesOut(c)
  <2>1. OneEnds(c)
    BY <1>2, <1>4, KilledAndWaitedEnds, Zenon DEF WaitTimesOut
  <2>2. /\ call' = NoChild /\ session' = session /\ result'.is = "timed_out"
        /\ result' \in ResultType /\ UNCHANGED handles
    BY <1>4, Zenon DEF WaitTimesOut, ProcReturns, ResultType, ProcResults
  <2>3. CompletedIsEmpty'
    BY <2>2, Zenon DEF CompletedIsEmpty
  <2> QED BY <1>1, <2>1, <2>2, <2>3, EndWaitInv, Zenon
<1>5. ASSUME NEW b \in BOOLEAN, ProcBlocks([call EXCEPT !.polled = b]), UNCHANGED <<children, handles>>
      PROVE  ProcInv'
  <2>1. PICK next : next = [call EXCEPT !.polled = b]
    BY Zenon
  <2>2. /\ next \in [op : {"wait"}, child : Child, polled : BOOLEAN, got : Nat]
        /\ next.child = c /\ next.op = "wait"
    BY <1>2, <2>1, Zenon
  <2>3. next \in ProcCalls
    BY <2>2, Zenon DEF ProcCalls
  <2>4. AllStay
    BY <1>2, <1>5, UnchangedStays, Zenon
  <2> QED BY <1>1, <1>5, <2>1, <2>2, <2>3, <2>4, OnWaitInv, Zenon
<1>6. ASSUME NEW s \in Stream, WaitDrains(c, s) PROVE ProcInv'
  <2>1. PICK next : next = [call EXCEPT !.got = @ + 1]
    BY Zenon
  <2>2. /\ next \in [op : {"wait"}, child : Child, polled : BOOLEAN, got : Nat]
        /\ next.child = c /\ next.op = "wait"
    BY <1>2, <2>1
  <2>3. next \in ProcCalls
    BY <2>2, Zenon DEF ProcCalls
  <2>4. AllStay
    BY <1>2, <1>6, TakenIsStay, Zenon DEF WaitDrains
  <2>5. ProcBlocks(next) /\ UNCHANGED handles
    BY <1>6, <2>1, Zenon DEF WaitDrains
  <2> QED BY <1>1, <2>2, <2>3, <2>4, <2>5, OnWaitInv, Zenon
<1>7. CASE WaitPolls(c)
  BY <1>5, <1>7, Zenon DEF WaitPolls
<1>8. CASE WaitSleeps(c)
  BY <1>5, <1>8, Zenon DEF WaitSleeps
<1> QED BY <1>3, <1>4, <1>6, <1>7, <1>8, Zenon

LEMMA ReadWriteStep ==
  ASSUME ProcInv, NEW h \in Handle,
         WriteSome(h) \/ WriteEnds(h) \/ ReadSome(h) \/ ReadEnds(h) \/ ReadTimesOut(h)
  PROVE  ProcInv'
<1>1. Reading(h) \/ Writing(h)
  BY Zenon DEF WriteSome, WriteEnds, ReadSome, ReadEnds, ReadTimesOut
<1>2. /\ session = "open" /\ \A c \in Child : ~Waiting(c)
      /\ h \in Open /\ handles[h] \in Child /\ ProcTypeOK
  BY <1>1, BusyFacts, Zenon
<1>3. PICK c \in Child : c = handles[h]
  BY <1>2, Zenon
<1>4. CASE WriteSome(h)
  <2>1. call \in [op : {"write"}, handle : Handle, left : 0..MaxWrite] /\ call.handle = h
    BY <1>4, WriteFacts, Zenon DEF WriteSome
  <2>2. PICK next : next = [call EXCEPT !.left = @ - 1]
    BY Zenon
  <2>3. call.left > 0 /\ MaxWrite \in Nat
    BY <1>4, ProcAssumption, Zenon DEF WriteSome
  <2>4. /\ next \in [op : {"write"}, handle : Handle, left : 0..MaxWrite]
        /\ next.handle = h /\ next.op = "write"
    BY <2>1, <2>2, <2>3
  <2>5. next \in ProcCalls
    BY <2>4, Zenon DEF ProcCalls
  <2>6. AllStay
    <3>1. PICK n : n = children[c].stdin_pipe + 1
      BY Zenon
    <3>2. children[c].stdin_pipe \in 0..PipeCap /\ children[c].stdin_pipe < PipeCap /\ PipeCap \in Nat
      BY <1>2, <1>3, <1>4, ChildrenType, ProcAssumption, Zenon DEF WriteSome, ChildType
    <3>3. n \in 0..PipeCap
      BY <3>1, <3>2
    <3>4. PICK r : r = [children[c] EXCEPT !.stdin_pipe = n]
      BY Zenon
    <3>5. Stays(children[c], r)
      BY <1>2, <3>3, <3>4, ChildrenType, FedStays, Zenon
    <3>6. children' = [children EXCEPT ![c] = r]
      BY <1>3, <1>4, <3>1, <3>4, Zenon DEF WriteSome
    <3> QED BY <1>2, <3>5, <3>6, SetStays, Zenon
  <2>7. ProcBlocks(next) /\ UNCHANGED handles
    BY <1>4, <2>2, Zenon DEF WriteSome
  <2> QED BY <1>2, <2>4, <2>5, <2>6, <2>7, OnHandleInv, Zenon
<1>5. CASE WriteEnds(h)
  <2>1. AllStay /\ UNCHANGED handles
    BY <1>2, <1>5, UnchangedStays, Zenon DEF WriteEnds
  <2>2. ProcReturns(c, "done") \/ ProcReturns(c, "broken_pipe")
    BY <1>3, <1>5, Zenon DEF WriteEnds
  <2>3. {"done", "broken_pipe"} \subseteq ProcResults \ {"completed"}
    BY Zenon DEF ProcResults
  <2> QED BY <1>2, <2>1, <2>2, <2>3, ReturnInv, Zenon
<1>6. CASE ReadSome(h)
  <2>1. call \in [op : {"read"}, handle : Handle, stream : Stream, got : Nat] /\ call.handle = h
    BY <1>6, ReadFacts, Zenon DEF ReadSome
  <2>2. PICK next : next = [call EXCEPT !.got = @ + 1]
    BY Zenon
  <2>3. /\ next \in [op : {"read"}, handle : Handle, stream : Stream, got : Nat]
        /\ next.handle = h /\ next.op = "read"
    BY <2>1, <2>2
  <2>4. next \in ProcCalls
    BY <2>3, Zenon DEF ProcCalls
  <2>5. PICK s \in Stream : s = call.stream
    BY <2>1, Zenon
  <2>6. AllStay
    BY <1>2, <1>3, <1>6, <2>5, TakenIsStay, Zenon DEF ReadSome
  <2>7. ProcBlocks(next) /\ UNCHANGED handles
    BY <1>6, <2>2, Zenon DEF ReadSome
  <2> QED BY <1>2, <2>3, <2>4, <2>6, <2>7, OnHandleInv, Zenon
<1>7. CASE ReadEnds(h)
  <2>1. AllStay /\ UNCHANGED handles
    BY <1>2, <1>7, UnchangedStays, Zenon DEF ReadEnds
  <2>2. PICK is : is = Decoded(handles[h], call.got, "text")
    BY Zenon
  <2>3. is \in ProcResults \ {"completed"}
    BY <2>2, Zenon DEF Decoded, ProcResults
  <2>4. ProcReturns(c, is)
    BY <1>3, <1>7, <2>2, Zenon DEF ReadEnds
  <2> QED BY <1>2, <2>1, <2>3, <2>4, ReturnInv, Zenon
<1>8. CASE ReadTimesOut(h)
  BY <1>2, <1>8, RejectedInv, Zenon DEF ReadTimesOut
<1> QED BY <1>4, <1>5, <1>6, <1>7, <1>8, Zenon

LEMMA HandleCallStep ==
  ASSUME ProcInv, NEW h \in Handle, Live(h),
         \/ proc_wait_result(h) \/ proc_kill(h) \/ proc_close_stdin(h)
         \/ \E n \in 1..MaxWrite : proc_write_stdin(h, n)
         \/ \E s \in Stream : proc_read(h, s)
  PROVE  ProcInv'
<1>2. /\ session = "open" /\ \A c \in Child : ~Waiting(c)
      /\ h \in Open /\ handles[h] \in Child /\ ProcTypeOK
  BY LiveFacts, Zenon
<1>3. PICK c \in Child : c = handles[h]
  BY <1>2, Zenon
<1>4. CASE Rejected(h)
  BY <1>2, <1>4, RejectedInv, Zenon
<1>5. ASSUME NEW is \in ProcResults \ {"completed"}, ProcReturns(c, is), AllStay, UNCHANGED handles
      PROVE  ProcInv'
  BY <1>2, <1>5, ReturnInv, Zenon
<1>6. {"null", "done", "not_captured"} \subseteq ProcResults \ {"completed"}
  BY Zenon DEF ProcResults
<1>7. UNCHANGED children => AllStay
  BY <1>2, UnchangedStays
<1>8. ASSUME /\ children' = Collected(handles[h])
             /\ handles' = Free(h)
             /\ ProcReturns(handles[h], Decoded(handles[h], InPipes(handles[h]), "completed"))
      PROVE  ProcInv'
  <2>1. OneEnds(c) /\ \A s \in Stream : children'[c].pipe[s] = 0
    BY <1>2, <1>3, <1>8, CollectedIsEnd, Zenon
  <2>2. PICK is : is = Decoded(handles[h], InPipes(handles[h]), "completed")
    OBVIOUS
  <2>3. is \in ProcResults
    BY <2>2, DecodedType, Zenon DEF ProcResults
  <2>4. CompletedIsEmpty' /\ result' \in ResultType /\ call' = NoChild /\ session' = session
    BY <1>3, <1>8, <2>1, <2>2, <2>3, CompletedInv, SMTT(30)
  <2> QED BY <1>2, <1>3, <1>8, <2>1, <2>4, EndHandleInv, SMTT(30)
<1>9. CASE proc_wait_result(h)
  BY <1>3, <1>4, <1>5, <1>6, <1>7, <1>8, <1>9 DEF proc_wait_result
<1>10. CASE proc_kill(h)
  <2>1. PICK r : r = [children[c] EXCEPT !.killed = TRUE]
    BY Zenon
  <2>2. children' = [children EXCEPT ![c] = r]
    BY <1>3, <1>10, <2>1 DEF proc_kill
  <2>3. AllStay
    BY <1>2, <2>1, <2>2, ChildrenType, KilledStays, SetStays, Zenon
  <2> QED BY <1>3, <1>5, <1>6, <1>10, <2>3, Zenon DEF proc_kill
<1>11. CASE proc_close_stdin(h)
  <2>1. CASE ProcReturns(c, "done") /\ UNCHANGED handles
             /\ children' = [children EXCEPT ![handles[h]].stdin = "closed"]
    <3>1. PICK r : r = [children[c] EXCEPT !.stdin = "closed"]
      BY Zenon
    <3>2. children' = [children EXCEPT ![c] = r]
      BY <1>3, <2>1, <3>1, Zenon
    <3>3. AllStay
      BY <1>2, <3>1, <3>2, ChildrenType, ClosedStays, SetStays, ZenonT(60)
    <3> QED BY <1>5, <1>6, <2>1, <3>3
  <2> QED BY <1>3, <1>4, <1>11, <2>1, Zenon DEF proc_close_stdin
<1>12. ASSUME NEW n \in 1..MaxWrite, proc_write_stdin(h, n) PROVE ProcInv'
  <2>1. CASE /\ ProcBlocks([op |-> "write", handle |-> h, left |-> n])
             /\ UNCHANGED <<children, handles>>
    <3>1. PICK next : next = [op |-> "write", handle |-> h, left |-> n]
      BY ZenonT(60)
    <3>2. next \in ProcCalls /\ next.op = "write" /\ next.handle = h
      BY <3>1, ProcAssumption DEF ProcCalls
    <3> QED BY <1>2, <1>7, <2>1, <3>1, <3>2, OnHandleInv, Zenon
  <2> QED BY <1>3, <1>4, <1>5, <1>6, <1>7, <1>12, <2>1 DEF proc_write_stdin
<1>13. ASSUME NEW s \in Stream, proc_read(h, s) PROVE ProcInv'
  <2>1. CASE /\ ProcBlocks([op |-> "read", handle |-> h, stream |-> s, got |-> 0])
             /\ UNCHANGED <<children, handles>>
    <3>1. PICK next : next = [op |-> "read", handle |-> h, stream |-> s, got |-> 0]
      BY Zenon
    <3>2. next \in ProcCalls /\ next.op = "read" /\ next.handle = h
      BY <3>1, Zenon DEF ProcCalls
    <3> QED BY <1>2, <1>7, <2>1, <3>1, <3>2, OnHandleInv, Zenon
  <2> QED BY <1>3, <1>4, <1>5, <1>6, <1>7, <1>13, <2>1, Zenon DEF proc_read
<1> QED BY <1>9, <1>10, <1>11, <1>12, <1>13, Zenon

\* A set of natural numbers has a lowest one.
LEMMA LowestExists ==
  ASSUME NEW S \in SUBSET Nat, S # {}
  PROVE  \E x \in S : \A y \in S : x <= y
<1>1. PICK x \in S : \A y \in S : ~(<<y, x>> \in OpToRel(<, Nat))
  BY NatLessThanWellFounded, WFMin, Zenon
<1>2. \A y \in S : ~(y < x)
  BY <1>1, Zenon DEF OpToRel
<1> QED BY <1>2

LEMMA AllocIsFree ==
  ASSUME Open # Handle
  PROVE  alloc \in Handle \ Open
<1>1. Handle \ Open # {} /\ Handle \ Open \in SUBSET Nat
  BY ProcAssumption DEF Open, Handle
<1>2. \E h \in Handle \ Open : \A o \in Handle \ Open : h <= o
  BY <1>1, LowestExists, ZenonT(60)
<1> QED BY <1>2, Zenon DEF alloc

LEMMA NextChildIsUnborn ==
  ASSUME CanStart
  PROVE  NextChild \in Child /\ children[NextChild].life = "unborn"
<1> DEFINE S == {c \in Child : children[c].life = "unborn"}
<1>1. S # {} /\ S \in SUBSET Nat
  BY ProcAssumption DEF CanStart, Child
<1> HIDE DEF S
<1>2. PICK x \in S : \A y \in S : x <= y
  BY <1>1, LowestExists, Zenon
<1>3. \A d \in Child : d < x => children[d].life # "unborn"
  <2> SUFFICES ASSUME NEW d \in Child, d < x, children[d].life = "unborn" PROVE FALSE
    BY Zenon
  <2>1. d \in S
    BY Zenon DEF S
  <2>2. x <= d /\ x \in Nat /\ d \in Nat
    BY <1>1, <1>2, <2>1, Zenon
  <2> QED BY <2>2
<1>4. \E c \in Child : /\ children[c].life = "unborn"
                       /\ \A d \in Child : d < c => children[d].life # "unborn"
  BY <1>2, <1>3, Zenon DEF S
<1> QED BY <1>4, Zenon DEF NextChild

\* The record of a child that is started.
LEMMA StartedType ==
  ASSUME ProcTypeOK, NEW c \in Child, NEW spec \in Specs, NEW capture \in BOOLEAN, NEW pipe \in BOOLEAN
  PROVE  \E r \in ChildType : /\ Started(c, spec, capture, pipe) = [children EXCEPT ![c] = r]
                              /\ r.life = "running" /\ ~r.dropped /\ Balanced(r)
<1>1. spec \in ProcSpec
  BY ProcAssumption, Zenon
<1> DEFINE d == IF spec.timeout_ms THEN "pending" ELSE "none"
           i == IF ~spec.inherit_stdin /\ pipe THEN "piped" ELSE "closed"
           z == {s \in Stream : \/ spec.capture[s] = "yes"
                                \/ spec.capture[s] = "default" /\ capture}
<1>2. /\ d \in {"none", "pending", "elapsed"} /\ i \in {"piped", "closed"} /\ z \in SUBSET Stream
  BY Zenon
<1>3. spec.program \in Seq({"stdin", "stdout", "stderr"}) /\ spec.utf8 \in BOOLEAN
  BY <1>1, Zenon DEF ProcSpec, Stream
<1> DEFINE r == [Unborn EXCEPT !.life = "running", !.program = spec.program, !.utf8 = spec.utf8,
                   !.deadline = d, !.captured = z, !.stdin = i]
<1>4. Started(c, spec, capture, pipe) = [children EXCEPT ![c] = r]
  BY Zenon DEF Started
<1> HIDE DEF d, i, z
<1>5. Unborn \in ChildType
  BY UnbornType, Zenon
<1>6. /\ r \in ChildType /\ r.life = "running" /\ r.dropped = Unborn.dropped
      /\ r.taken = Unborn.taken /\ r.written = Unborn.written /\ r.pipe = Unborn.pipe
  BY <1>2, <1>3, <1>5, Zenon DEF ChildType
<1>7. ~r.dropped /\ Balanced(r)
  BY <1>6, UnbornType DEF Balanced, Unborn
<1> HIDE DEF r
<1> QED BY <1>4, <1>6, <1>7, Zenon

\* A child is started: nobody holds it, a free handle does, or the call itself.
LEMMA StartInv ==
  ASSUME ProcInv, ProcIdle, NEW c \in Child, children[c].life = "unborn",
         NEW r \in ChildType, r.life = "running", Balanced(r),
         children' = [children EXCEPT ![c] = r], session' = session,
         result' \in ResultType, result'.is # "completed",
         \/ UNCHANGED handles /\ r.dropped /\ call' = NoChild
         \/ (\E h \in Handle \ Open : handles' = [handles EXCEPT ![h] = c]) /\ call' = NoChild
         \/ UNCHANGED handles /\ call' = WaitFor(c)
  PROVE  ProcInv'
<1>1. /\ children \in [Child -> ChildType] /\ handles \in [Handle -> Child \cup {NoChild}]
      /\ session = "open" /\ NoChild \notin Child /\ \A d \in Child : ~Waiting(d)
  BY NoneIsNoCall, Zenon DEF ProcInv, ProcTypeOK, ProcIdle, Waiting
<1>2. /\ children' \in [Child -> ChildType] /\ children'[c] = r
      /\ \A d \in Child \ {c} : children'[d] = children[d]
  BY <1>1, Zenon
<1>3. \A h \in Open : handles[h] \in Child /\ handles[h] # c
  BY <1>1, Zenon DEF ProcInv, ChildrenAccounted, Alive, Open
<1>4. \A h \in Handle : handles[h] # c
  BY <1>1, <1>3, Zenon DEF Open
<1>5. WaitFor(c) \in ProcCalls /\ WaitFor(c) # NoChild
  <2>1. WaitFor(c) \in ProcCalls
    BY Zenon DEF WaitFor, ProcCalls
  <2> QED BY <2>1, NoneIsNoCall, Zenon
<1>6. handles' \in [Handle -> Child \cup {NoChild}]
  BY <1>1, Zenon
<1>7. ProcTypeOK'
  BY <1>1, <1>2, <1>5, <1>6 DEF ProcInv, ProcTypeOK, ResultType
<1>8. \A h \in Handle : handles[h] # NoChild => handles'[h] = handles[h]
  BY <1>1, Zenon DEF Open
<1>9. \A d \in Child \ {c} : Alive(d)' => Holds(d)' \/ children'[d].dropped
  <2> SUFFICES ASSUME NEW d \in Child \ {c}, Alive(d)' PROVE Holds(d)' \/ children'[d].dropped
    BY Zenon
  <2>1. children'[d] = children[d]
    BY <1>2, Zenon
  <2>2. Holds(d) \/ children[d].dropped
    BY <2>1, Zenon DEF ProcInv, ChildrenAccounted, Alive
  <2>3. CASE Holds(d)
    <3>1. PICK h \in Handle : handles[h] = d
      BY <1>1, <2>3, Zenon DEF Holds
    <3>2. handles'[h] = d
      BY <1>1, <1>8, <3>1, Zenon
    <3> QED BY <1>1, <3>2, Zenon DEF Holds
  <2> QED BY <2>1, <2>2, <2>3, Zenon
<1>10. Holds(c)' \/ r.dropped
  <2>1. CASE call' = WaitFor(c)
    BY <1>5, <2>1, Zenon DEF Holds, Waiting, WaitFor
  <2>2. CASE \E h \in Handle \ Open : handles' = [handles EXCEPT ![h] = c]
    BY <1>1, <2>2, Zenon DEF Holds
  <2> QED BY <2>1, <2>2, Zenon
<1>11. \A h \in Open' : \/ h \in Open /\ handles'[h] = handles[h]
                        \/ /\ h \notin Open /\ handles'[h] = c
                           /\ \A g \in Handle \ {h} : handles'[g] = handles[g]
  BY <1>1 DEF Open
<1>12. ASSUME NEW h \in Open'
       PROVE  Alive(handles[h])' /\ \A g \in Open' : handles'[g] = handles'[h] => g = h
  <2>1. CASE h \in Open /\ handles'[h] = handles[h]
    <3>1. Alive(handles[h]) /\ \A g \in Open : handles[g] = handles[h] => g = h
      BY <1>1, <2>1 DEF ProcInv, ChildrenAccounted
    <3>2. Alive(handles[h])'
      BY <1>2, <1>3, <2>1, <3>1, Zenon DEF Alive
    <3>3. \A g \in Open' : handles'[g] = handles'[h] => g = h
      BY <1>3, <1>11, <2>1, <3>1, Zenon
    <3> QED BY <3>2, <3>3, Zenon
  <2>2. CASE /\ h \notin Open /\ handles'[h] = c
             /\ \A g \in Handle \ {h} : handles'[g] = handles[g]
    <3>1. Alive(handles[h])'
      BY <1>2, <2>2, Zenon DEF Alive
    <3>2. \A g \in Open' : handles'[g] = c => g = h
      BY <1>4, <2>2, Zenon DEF Open
    <3> QED BY <2>2, <3>1, <3>2, Zenon
  <2> QED BY <1>11, <1>12, <2>1, <2>2, Zenon
<1>13. ChildrenAccounted'
  BY <1>2, <1>9, <1>10, <1>12, Zenon DEF ChildrenAccounted
<1>14. CallIsBacked'
  <2>1. CASE call' = NoChild
    BY <2>1, Zenon DEF CallIsBacked, Reading, Writing, Waiting
  <2>2. CASE UNCHANGED handles /\ call' = WaitFor(c)
    <3>1. \A d \in Child : Waiting(d)' => d = c
      BY <2>2, Zenon DEF Waiting, WaitFor
    <3>2. \A h \in Handle : ~(Reading(h) \/ Writing(h))'
      BY <2>2, Zenon DEF Reading, Writing, WaitFor
    <3>3. Alive(c)'
      BY <1>2, Zenon DEF Alive
    <3> QED BY <1>1, <1>4, <2>2, <3>1, <3>2, <3>3 DEF CallIsBacked
  <2> QED BY <2>1, <2>2, Zenon
<1>15. \A d \in Child : Balanced(children'[d])
  BY <1>2, Zenon DEF ProcInv
<1>16. CompletedIsEmpty'
  BY Zenon DEF CompletedIsEmpty
<1> QED BY <1>7, <1>13, <1>14, <1>15, <1>16, Zenon DEF ProcInv

LEMMA StartStep ==
  ASSUME ProcInv, ProcStarts
  PROVE  ProcInv'
<1>1. ProcIdle /\ CanStart /\ ProcTypeOK
  BY Zenon DEF ProcStarts, StartFails, proc_spawn, proc_run, CanStart, ProcInv
<1>2. PICK c \in Child : c = NextChild /\ children[c].life = "unborn"
  BY <1>1, NextChildIsUnborn, Zenon
<1>3. CASE StartFails
  <2>1. AllStay /\ UNCHANGED handles /\ ProcReturns(NoChild, "failed")
    BY <1>1, <1>3, UnchangedStays, Zenon DEF StartFails
  <2>2. "failed" \in ProcResults \ {"completed"}
    BY Zenon DEF ProcResults
  <2> QED BY <1>1, <2>1, <2>2, IdleFacts, ReturnInv, Zenon
<1>4. ASSUME NEW spec \in Specs, proc_spawn(spec) PROVE ProcInv'
  <2>1. PICK r \in ChildType : /\ Started(c, spec, FALSE, TRUE) = [children EXCEPT ![c] = r]
                               /\ r.life = "running" /\ ~r.dropped /\ Balanced(r)
    BY <1>1, StartedType, Zenon
  <2>2. CASE Open = Handle
    <3>1. PICK q : q = [r EXCEPT !.dropped = TRUE]
      BY Zenon
    <3>2. q \in ChildType /\ q.life = "running" /\ q.dropped /\ Balanced(q)
      BY <2>1, <3>1, Zenon DEF ChildType, Balanced
    <3>3. /\ children' = [[children EXCEPT ![c] = r] EXCEPT ![c].dropped = TRUE]
          /\ UNCHANGED handles /\ ProcReturns(c, "refused")
      BY <1>2, <1>4, <2>1, <2>2, Zenon DEF proc_spawn
    <3>4. children' = [children EXCEPT ![c] = q]
      BY <1>1, <3>1, <3>3, Zenon DEF ProcTypeOK
    <3>5. /\ session' = session /\ result' \in ResultType /\ result'.is # "completed"
          /\ call' = NoChild
      BY <3>3, Zenon DEF ProcReturns, ResultType, ProcResults
    <3> QED BY <1>1, <1>2, <3>2, <3>3, <3>4, <3>5, StartInv, Zenon
  <2>3. CASE Open # Handle
    <3>1. /\ children' = [children EXCEPT ![c] = r] /\ handles' = [handles EXCEPT ![alloc] = c]
          /\ ProcReturns(c, "handle")
      BY <1>2, <1>4, <2>1, <2>3, Zenon DEF proc_spawn
    <3>2. \E h \in Handle \ Open : handles' = [handles EXCEPT ![h] = c]
      BY <2>3, <3>1, AllocIsFree, Zenon
    <3>3. /\ session' = session /\ result' \in ResultType /\ result'.is # "completed"
          /\ call' = NoChild
      BY <3>1, Zenon DEF ProcReturns, ResultType, ProcResults
    <3> QED BY <1>1, <1>2, <2>1, <3>1, <3>2, <3>3, StartInv, Zenon
  <2> QED BY <2>2, <2>3, Zenon
<1>5. ASSUME NEW spec \in Specs, proc_run(spec) PROVE ProcInv'
  <2>1. PICK r \in ChildType : /\ Started(c, spec, TRUE, FALSE) = [children EXCEPT ![c] = r]
                               /\ r.life = "running" /\ ~r.dropped /\ Balanced(r)
    BY <1>1, StartedType, Zenon
  <2>2. /\ children' = [children EXCEPT ![c] = r] /\ UNCHANGED handles
        /\ ProcBlocks(WaitFor(c))
    BY <1>2, <1>5, <2>1, Zenon DEF proc_run
  <2>3. /\ session' = session /\ result' \in ResultType /\ result'.is # "completed"
        /\ call' = WaitFor(c)
    BY <2>2, Zenon DEF ProcBlocks, ResultType, ProcResults
  <2> QED BY <1>1, <1>2, <2>1, <2>2, <2>3, StartInv, Zenon
<1> QED BY <1>3, <1>4, <1>5, Zenon DEF ProcStarts

\* proc_wait: the call takes the child over from its handle.
LEMMA ProcWaitStep ==
  ASSUME ProcInv, NEW h \in Handle, proc_wait(h)
  PROVE  ProcInv'
<1>1. /\ ProcIdle /\ session = "open" /\ \A c \in Child : ~Waiting(c)
      /\ h \in Open /\ ProcTypeOK /\ handles[h] \in Child
      /\ handles \in [Handle -> Child \cup {NoChild}] /\ NoChild \notin Child
  BY NoneIsNoCall, Zenon DEF proc_wait, ProcIdle, Waiting, Open, ProcInv, ProcTypeOK
<1>2. PICK c \in Child : c = handles[h]
  BY <1>1, Zenon
<1>3. AllStay
  <2>1. CASE children' = children
    BY <1>1, <2>1, UnchangedStays, Zenon
  <2>2. CASE children' = [children EXCEPT ![handles[h]].stdin = "closed"]
    <3>1. PICK r : r = [children[c] EXCEPT !.stdin = "closed"]
      BY Zenon
    <3>2. children' = [children EXCEPT ![c] = r]
      BY <1>2, <2>2, <3>1, Zenon
    <3> QED BY <1>1, <3>1, <3>2, ChildrenType, ClosedStays, SetStays, Zenon
  <2> QED BY <2>1, <2>2, Zenon DEF proc_wait
<1>4. \A d \in Child : /\ Alive(d)' <=> Alive(d)
                       /\ children'[d].dropped = children[d].dropped
                       /\ Balanced(children'[d])
  BY <1>3, Zenon DEF ProcInv, AllStay, Stays, Lives, Alive
<1>5. /\ call' = WaitFor(c) /\ session' = session
      /\ result' \in ResultType /\ result'.is # "completed"
  BY <1>2, Zenon DEF proc_wait, ProcBlocks, ResultType, ProcResults
<1>6. WaitFor(c) \in ProcCalls /\ WaitFor(c) # NoChild
  <2>1. WaitFor(c) \in ProcCalls
    BY Zenon DEF WaitFor, ProcCalls
  <2> QED BY <2>1, NoneIsNoCall, Zenon
<1>7. /\ handles' \in [Handle -> Child \cup {NoChild}]
      /\ handles'[h] = NoChild /\ \A g \in Handle \ {h} : handles'[g] = handles[g]
  BY <1>1, Zenon DEF proc_wait, Free
<1>8. ProcTypeOK'
  BY <1>3, <1>5, <1>6, <1>7, Zenon DEF ProcInv, ProcTypeOK, AllStay, ResultType
<1>9. Alive(c) /\ \A g \in Open : handles[g] = c => g = h
  BY <1>1, <1>2, Zenon DEF ProcInv, ChildrenAccounted
<1>10. \A g \in Handle : handles'[g] # c
  BY <1>1, <1>7, <1>9, Zenon DEF Open
<1>11. ChildrenAccounted'
  <2>1. ASSUME NEW d \in Child, Alive(d)' PROVE Holds(d)' \/ children'[d].dropped
    <3>1. CASE d = c
      BY <1>5, <1>6, <3>1, Zenon DEF Holds, Waiting, WaitFor
    <3>2. CASE d # c /\ Holds(d)
      <4>1. PICK g \in Handle : handles[g] = d
        BY <1>1, <3>2 DEF Holds
      <4>2. handles'[g] = d
        BY <1>2, <1>7, <3>2, <4>1, Zenon
      <4> QED BY <1>1, <1>5, <4>2, Zenon DEF Holds
    <3> QED BY <1>4, <2>1, <3>1, <3>2 DEF ProcInv, ChildrenAccounted
  <2>2. ASSUME NEW f \in Open'
        PROVE  Alive(handles[f])' /\ \A g \in Open' : handles'[g] = handles'[f] => g = f
    <3>1. f \in Open /\ f # h /\ handles'[f] = handles[f] /\ handles[f] \in Child
      BY <1>1, <1>7, <2>2, Zenon DEF Open
    <3>2. Alive(handles[f]) /\ \A g \in Open : handles[g] = handles[f] => g = f
      BY <1>1, <3>1, Zenon DEF ProcInv, ChildrenAccounted
    <3>3. \A g \in Open' : g \in Open /\ handles'[g] = handles[g]
      BY <1>7, Zenon DEF Open
    <3>4. Alive(handles[f])'
      BY <1>4, <3>1, <3>2 DEF Alive
    <3> QED BY <3>1, <3>2, <3>3, <3>4, Zenon
  <2> QED BY <2>1, <2>2, Zenon DEF ChildrenAccounted
<1>12. CallIsBacked'
  <2>1. \A d \in Child : Waiting(d)' => d = c
    BY <1>5, Zenon DEF Waiting, WaitFor
  <2>2. \A g \in Handle : ~(Reading(g) \/ Writing(g))'
    BY <1>5, Zenon DEF Reading, Writing, WaitFor
  <2> QED BY <1>1, <1>4, <1>5, <1>9, <1>10, <2>1, <2>2, Zenon DEF CallIsBacked
<1>13. CompletedIsEmpty'
  BY <1>5, Zenon DEF CompletedIsEmpty
<1> QED BY <1>4, <1>8, <1>11, <1>12, <1>13, Zenon DEF ProcInv

\* Drop for ProcState: whatever a handle names is killed and waited for.
LEMMA DropStep ==
  ASSUME ProcInv, drop
  PROVE  ProcInv'
<1>1. /\ session = "open" /\ call = NoChild /\ session' = "closed"
      /\ UNCHANGED <<handles, call, result>> /\ children \in [Child -> ChildType] /\ ProcTypeOK
  BY Zenon DEF drop, ProcIdle, ProcInv, ProcTypeOK
<1>2. ASSUME NEW c \in Child
      PROVE  /\ children'[c] \in ChildType /\ Balanced(children'[c])
             /\ children'[c].dropped = children[c].dropped
             /\ (\E h \in Handle : handles[h] = c) => children'[c].life = "reaped"
             /\ ~(\E h \in Handle : handles[h] = c) => children'[c] = children[c]
  <2>1. CASE \E h \in Handle : handles[h] = c
    <3>1. PICK r : r = [children[c] EXCEPT !.life = "reaped", !.killed = TRUE]
      BY SMTT(30)
    <3>2. Ends(children[c], r)
      BY <1>1, <3>1, ChildrenType, KilledEnds, Zenon
    <3>3. KilledAndWaited(c)[c] = r
      BY <1>1, <3>1, Zenon DEF KilledAndWaited
    <3>4. children'[c] = r
      BY <2>1, <3>3, Zenon DEF drop
    <3> QED BY <2>1, <3>2, <3>4, Zenon DEF Ends, ProcInv
  <2>2. CASE ~(\E h \in Handle : handles[h] = c)
    <3>1. children'[c] = children[c]
      BY <2>2, Zenon DEF drop
    <3> QED BY <1>1, <2>2, <3>1, Zenon DEF ProcInv
  <2> QED BY <2>1, <2>2, Zenon
<1>3. children' \in [Child -> ChildType]
  <2>1. children' = [c \in Child |-> children'[c]]
    BY Zenon DEF drop
  <2>2. \A c \in Child : children'[c] \in ChildType
    BY <1>2, Zenon
  <2> QED BY <2>1, <2>2, Zenon
<1>4. ProcTypeOK'
  BY <1>1, <1>3, Zenon DEF ProcTypeOK
<1>5. ChildrenAccounted'
  <2>1. ASSUME NEW c \in Child, Alive(c)' PROVE children'[c].dropped
    <3>1. ~(\E h \in Handle : handles[h] = c) /\ children'[c] = children[c]
      BY <1>2, <2>1, Zenon DEF Alive
    <3>2. ~Holds(c)
      BY <1>1, <3>1, Zenon DEF Holds, Waiting
    <3> QED BY <2>1, <3>1, <3>2, Zenon DEF ProcInv, ChildrenAccounted, Alive
  <2> QED BY <1>1, <2>1, Zenon DEF ChildrenAccounted
<1>6. CallIsBacked'
  BY <1>1, Zenon DEF CallIsBacked, Reading, Writing, Waiting
<1>7. CompletedIsEmpty'
  <2> SUFFICES ASSUME result.is = "completed"
               PROVE  /\ result.of \in Child /\ children'[result.of].life = "reaped"
                      /\ \A s \in Stream : children'[result.of].pipe[s] = 0
    BY <1>1, Zenon DEF CompletedIsEmpty
  <2>1. /\ result.of \in Child /\ children[result.of].life = "reaped"
        /\ \A s \in Stream : children[result.of].pipe[s] = 0
    BY Zenon DEF ProcInv, CompletedIsEmpty
  <2>2. \A h \in Handle : handles[h] # result.of
    <3> SUFFICES ASSUME NEW h \in Handle, handles[h] = result.of PROVE FALSE
      BY Zenon
    <3>1. h \in Open
      BY <2>1, NoneIsNoCall, Zenon DEF Open
    <3>2. Alive(handles[h])
      BY <1>1, <3>1, Zenon DEF ProcInv, ChildrenAccounted
    <3> QED BY <2>1, <3>2, Zenon DEF Alive
  <2>3. children'[result.of] = children[result.of]
    BY <1>2, <2>1, <2>2, Zenon
  <2> QED BY <2>1, <2>3, Zenon
<1> QED BY <1>2, <1>4, <1>5, <1>6, <1>7, Zenon DEF ProcInv

\* A child, or time, takes a step beside the host.
LEMMA ChildChangeInv ==
  ASSUME ProcInv, NEW c \in Child, children[c].life # "reaped", NEW r, Stays(children[c], r),
         children' = [children EXCEPT ![c] = r], UNCHANGED <<handles, call, result, session>>
  PROVE  ProcInv'
<1>1. AllStay /\ \A d \in Child \ {c} : children'[d] = children[d]
  BY SetStays, Zenon DEF ProcInv
<1>2. CompletedIsEmpty'
  BY <1>1, Zenon DEF ProcInv, CompletedIsEmpty
<1>3. /\ call' \in ProcCalls \cup {NoChild} /\ result' \in ResultType
      /\ call' # NoChild => session = "open"
      /\ \A d \in Child : Waiting(d)' <=> Waiting(d)
      /\ \A h \in Handle : (Reading(h) \/ Writing(h))' => handles[h] # NoChild
  BY Zenon DEF ProcInv, ProcTypeOK, ResultType, CallIsBacked, Waiting, Reading, Writing
<1> QED BY <1>1, <1>2, <1>3, StayInv, Zenon

LEMMA ChildStep ==
  ASSUME ProcInv, NEW c \in Child, ChildSteps(c) \/ DeadlinePasses(c)
  PROVE  ProcInv'
<1>1. children[c] \in ChildType /\ ProcTypeOK
  BY ChildrenType, Zenon DEF ProcInv
<1>2. UNCHANGED <<handles, call, result, session>> /\ children[c].life # "reaped"
  BY Zenon DEF ChildSteps, ChildReads, ChildExits, ChildWrites, DeadlinePasses, Acts
<1>3. CASE DeadlinePasses(c)
  <2>1. PICK r : r = [children[c] EXCEPT !.deadline = "elapsed"]
    BY ZenonT(60)
  <2>2. children' = [children EXCEPT ![c] = r]
    BY <1>3, <2>1, Zenon DEF DeadlinePasses
  <2>3. Stays(children[c], r)
    BY <1>1, <2>1, ElapsedStays
  <2> QED BY <1>2, <2>2, <2>3, ChildChangeInv, Zenon
<1>4. ASSUME children' = [children EXCEPT ![c].life = "zombie"], children[c].life = "running"
      PROVE  ProcInv'
  <2>1. PICK r : r = [children[c] EXCEPT !.life = "zombie"]
    BY Zenon
  <2>2. children' = [children EXCEPT ![c] = r]
    BY <1>4, <2>1, Zenon
  <2>3. Stays(children[c], r)
    BY <1>1, <1>4, <2>1, ExitStays
  <2> QED BY <1>2, <2>2, <2>3, ChildChangeInv, Zenon
<1>5. ASSUME children' = [children EXCEPT ![c].program = Tail(@)], children[c].program # <<>>
      PROVE  ProcInv'
  <2>1. PICK r : r = [children[c] EXCEPT !.program = Tail(@)]
    BY Zenon
  <2>2. children' = [children EXCEPT ![c] = r]
    BY <1>5, <2>1, Zenon
  <2>3. Stays(children[c], r)
    BY <1>1, <1>5, <2>1, AdvancedStays
  <2> QED BY <1>2, <2>2, <2>3, ChildChangeInv, Zenon
<1>6. CASE ChildExits(c)
  BY <1>4, <1>6, Zenon DEF ChildExits
<1>7. CASE ChildReads(c)
  <2>1. CASE children[c].stdin_pipe > 0 /\ children' = [children EXCEPT ![c].stdin_pipe = @ - 1]
    <3>1. PICK n : n = children[c].stdin_pipe - 1
      BY Zenon
    <3>2. children[c].stdin_pipe \in 0..PipeCap /\ PipeCap \in Nat
      BY <1>1, ProcAssumption, Zenon DEF ChildType
    <3>3. n \in 0..PipeCap
      BY <2>1, <3>1, <3>2
    <3>4. PICK r : r = [children[c] EXCEPT !.stdin_pipe = n]
      BY ZenonT(60)
    <3>5. children' = [children EXCEPT ![c] = r]
      BY <2>1, <3>1, <3>4, Zenon
    <3>6. Stays(children[c], r)
      BY <1>1, <3>3, <3>4, FedStays
    <3> QED BY <1>2, <3>5, <3>6, ChildChangeInv, Zenon
  <2> QED BY <1>5, <1>7, <2>1, Zenon DEF ChildReads, Acts
<1>8. ASSUME NEW s \in Stream, ChildWrites(c, s) PROVE ProcInv'
  <2>1. CASE /\ children[c].pipe[s] < PipeCap /\ children[c].program # <<>>
             /\ children' = [children EXCEPT ![c].program = Tail(@), ![c].pipe[s] = @ + 1,
                                             ![c].written = @ + 1]
    <3>1. PICK r : r = [children[c] EXCEPT !.program = Tail(@), !.pipe[s] = @ + 1, !.written = @ + 1]
      OBVIOUS
    <3>2. children' = [children EXCEPT ![c] = r]
      BY <1>1, <2>1, <3>1, ZenonT(60) DEF ProcTypeOK
    <3>3. Stays(children[c], r)
      BY <1>1, <2>1, <3>1, WrittenStays, Zenon
    <3> QED BY <1>2, <3>2, <3>3, ChildChangeInv, Zenon
  <2> QED BY <1>4, <1>5, <1>8, <2>1, Zenon DEF ChildWrites, Acts
<1> QED BY <1>3, <1>6, <1>7, <1>8, Zenon DEF ChildSteps

LEMMA UnknownStep ==
  ASSUME ProcInv, NEW h \in Handle, ProcUnknown(h)
  PROVE  ProcInv'
<1>1. AllStay /\ UNCHANGED handles /\ ProcReturns(NoChild, "unknown") /\ ProcIdle
  BY UnchangedStays, Zenon DEF ProcUnknown, ProcInv
<1>2. "unknown" \in ProcResults \ {"completed"}
  BY Zenon DEF ProcResults
<1> QED BY <1>1, <1>2, IdleFacts, ReturnInv, Zenon

LEMMA ProcStep ==
  ASSUME ProcInv, ProcNext \/ UNCHANGED procVars
  PROVE  ProcInv'
<1>1. CASE UNCHANGED procVars
  <2>1. /\ call' \in ProcCalls \cup {NoChild} /\ result' \in ResultType
        /\ call' # NoChild => session = "open"
        /\ \A d \in Child : Waiting(d)' <=> Waiting(d)
        /\ \A h \in Handle : (Reading(h) \/ Writing(h))' => handles[h] # NoChild
        /\ CompletedIsEmpty'
    BY <1>1, Zenon DEF procVars, ProcInv, ProcTypeOK, ResultType, CallIsBacked, Waiting, Reading, Writing,
                CompletedIsEmpty
  <2>2. AllStay /\ UNCHANGED <<handles, session>>
    BY <1>1, UnchangedStays, Zenon DEF procVars, ProcInv
  <2> QED BY <2>1, <2>2, StayInv, Zenon
<1>2. ASSUME NEW h \in Handle, ProcCallsOn(h) PROVE ProcInv'
  <2>1. CASE proc_wait_result(h) \/ proc_kill(h) \/ proc_close_stdin(h)
             \/ (\E n \in 1..MaxWrite : proc_write_stdin(h, n))
             \/ (\E s \in Stream : proc_read(h, s))
    <3>1. Live(h)
      BY <2>1, ZenonT(60) DEF proc_wait_result, proc_kill, proc_close_stdin, proc_write_stdin, proc_read
    <3> QED BY <2>1, <3>1, HandleCallStep, Zenon
  <2> QED BY <1>2, <2>1, UnknownStep, ProcWaitStep DEF ProcCallsOn
<1>3. CASE ProcContinues
  BY <1>3, WaitStep, ReadWriteStep, Zenon DEF ProcContinues
<1> QED BY <1>1, <1>2, <1>3, StartStep, DropStep, ChildStep, Zenon DEF ProcNext

\* What the invariant says of completed calls: all the child wrote was taken.
LEMMA CompletedTookAll ==
  ASSUME ProcInv
  PROVE  OutputIsComplete
<1> SUFFICES ASSUME result.is = "completed"
             PROVE  children[result.of].taken = children[result.of].written
  BY Zenon DEF OutputIsComplete
<1>1. PICK c \in Child : c = result.of
  BY Zenon DEF ProcInv, CompletedIsEmpty
<1>2. children[c].pipe["stdout"] = 0 /\ children[c].pipe["stderr"] = 0
  BY <1>1, Zenon DEF ProcInv, CompletedIsEmpty, Stream
<1>3. children[c].taken \in Nat /\ Balanced(children[c])
  BY <1>1, ChildrenType, Zenon DEF ProcInv, ChildType
<1>4. children[c].taken = children[c].written
  BY <1>2, <1>3 DEF Balanced
<1> QED BY <1>1, <1>4, Zenon

=============================================================================
