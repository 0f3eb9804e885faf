----------------------------- MODULE QueryService -----------------------------
(***************************************************************************)
(* The query service (caap/src/compiler/query_service): a query walks the   *)
(* stages of its route, and each stage runs its providers over a unit.      *)
(* Stages are replayed from the artifact cache and providers from the CTFE  *)
(* cache; a provider that changes the unit may restart the route; a         *)
(* provider that fails is rolled back; a query may be atomic; a callback    *)
(* may itself query.                                                        *)
(*                                                                          *)
(* A unit is one counter per storage domain and a version.  What a callback *)
(* does is any function of what it may depend on, chosen when it is first   *)
(* called (memo).  The order of a stage's providers is ProviderSchedule's   *)
(* subject.  A query that cannot be planned, or whose effects are not       *)
(* allowed, fails before it changes anything and is left out.               *)
(***************************************************************************)
EXTENDS Naturals, Sequences, FiniteSets, TLC

CONSTANTS
  Stage, Provider, UnitId, Phase,
  Pipelines,     \* the pipelines and the queries made of them (see below)
  None

VARIABLES
  pipeline, \* the pipeline, its providers and its queries
  session,  \* what the compiler session holds
  frames,   \* the queries in progress, innermost last
  held,     \* the unit the host holds
  made,     \* queries the host has made
  memo,     \* what each callback did on each unit
  results   \* the queries of the host that have ended

vars == <<pipeline, session, frames, held, made, memo, results>>

Routes       == pipeline.routes        \* the routes queries take: sequences of distinct stages
ProvidersOf  == pipeline.providersOf   \* the scheduled providers of each stage
RestartStage == pipeline.restartStage  \* the explicit restart stage of each stage, or None
Contract     == pipeline.contract      \* what each provider declares
Outcomes     == pipeline.outcomes      \* what each provider's callback may do
RestartLimit == pipeline.restartLimit  \* QueryExecutionOptions.restart_limit
Units        == pipeline.units         \* the units queried
Binding      == pipeline.bindings      \* initial bindings; None: without an identity token
Deadlines    == pipeline.deadlines     \* whether queries may have a deadline
Atomic       == pipeline.atomic        \* whether queries may be atomic
MaxQueries   == pipeline.maxQueries    \* bound: queries made by the host
MaxVersion   == pipeline.maxVersion    \* bound: versions of a unit
MaxRegistry  == pipeline.maxRegistry   \* bound: registrations
MaxNest      == pipeline.maxNest       \* bound: queries in progress at once

ASSUME QueryConstants ==
  /\ \A p \in Pipelines : /\ p.providersOf \in [Stage -> Seq(Provider)]
                          /\ p.restartStage \in [Stage -> Stage \cup {None}]
                          /\ p.units \subseteq UnitId
  /\ None \notin Stage \cup Provider

Domain == {"ir", "facts", "attributes"}
Unit   == [id : UnitId, content : [Domain -> 0..MaxVersion], version : 0..MaxVersion]

\* What the cache keys of a stage and of a provider are made of.
Key == [of : Stage \cup Provider, phase : Phase, unit : Unit, registry : 0..MaxRegistry,
        binding : Binding]

Template(id) == [id |-> id, content |-> [d \in Domain |-> 0], version |-> 0]

Init ==
  /\ pipeline \in Pipelines
  /\ session = [stages |-> <<>>, ctfe_cache |-> <<>>, pending_restart |-> None,
                active_context |-> None, registered |-> {}, diagnostics |-> <<>>,
                registry |-> 0]
  /\ frames = <<>>
  /\ held \in {Template(id) : id \in Units}
  /\ made = 0 /\ memo = <<>> /\ results = {}

-----------------------------------------------------------------------------
(* Queries and their end *)

Top == frames[Len(frames)]

NoStage == [key |-> None, left |-> <<>>, stopped |-> FALSE, asked |-> FALSE, deps |-> {}]

\* A query on u.  Its frame remembers the session it may have to go back to.
Frame(route, phase, binding, u, atomic, deadline) ==
  [route |-> route, phase |-> phase, binding |-> binding, start |-> u, unit |-> u,
   atomic |-> atomic, deadline |-> deadline, saved |-> session, todo |-> route,
   budget |-> RestartLimit, pc |-> "route", stage |-> NoStage, call |-> None,
   artifact |-> {}]

\* The diagnostics of session s from the given length on.
Since(before, s) == SubSeq(s.diagnostics, before + 1, Len(s.diagnostics))

\* The outer callback goes on: a nested query that succeeded makes its artifact, and
\* what that depends on, a dependency of the provider; one that failed makes it fail.
Resumed(outer, ok, artifact) ==
  [outer EXCEPT ![Len(outer)].call =
    IF ok THEN [@ EXCEPT !.nest = None, !.deps = @ \cup artifact]
          ELSE [@ EXCEPT !.nest = None, !.did.result = "error"]]

\* The innermost query ends with unit u and session s.  A nested query runs on a
\* copy of the session that is committed if it succeeds and dropped if it fails.
Return(status, u, s, artifact) ==
  LET outer == SubSeq(frames, 1, Len(frames) - 1)
      ok == status \in {"ok", "stopped"} IN
  /\ frames' = IF outer = <<>> THEN <<>> ELSE Resumed(outer, ok, artifact)
  /\ session' = IF outer # <<>> /\ ~ok THEN Top.saved ELSE s
  /\ IF outer = <<>>
     THEN /\ held' = u
          /\ results' = results \cup
               {[route |-> Top.route, phase |-> Top.phase, binding |-> Top.binding, atomic |-> Top.atomic,
                 start |-> Top.start, registry |-> s.registry, unit |-> u, status |-> status,
                 diagnostics |-> Since(Len(Top.saved.diagnostics), s)]}
     ELSE UNCHANGED <<held, results>>
  /\ UNCHANGED <<made, memo>>

RollBackKeepingCtfe(s) == [s EXCEPT !.stages = Top.saved.stages,
                                    !.pending_restart = Top.saved.pending_restart,
                                    !.active_context = Top.saved.active_context]

\* query_with_options_from_origin on an error: an atomic query restores the unit,
\* both caches and the dispatch state, but not the diagnostics or the catalog.
RollBack(s) == [s EXCEPT !.stages = Top.saved.stages, !.ctfe_cache = Top.saved.ctfe_cache,
                         !.pending_restart = Top.saved.pending_restart,
                         !.active_context = Top.saved.active_context]

Fail(status, u, s) ==
  IF Top.atomic THEN Return(status, Top.start, RollBack(s), {}) ELSE Return(status, u, s, {})

\* The host queries the unit it holds, or one it has just loaded.
Query(route, phase, binding, u, atomic, deadline) ==
  /\ frames = <<>> /\ made < MaxQueries
  /\ frames' = <<Frame(route, phase, binding, u, atomic, deadline)>>
  /\ made' = made + 1
  /\ UNCHANGED <<session, held, memo, results>>

\* The route is at its end: the unit is registered in the catalog.
FinishQuery ==
  /\ frames # <<>> /\ Top.pc = "route" /\ Top.todo = <<>>
  /\ Return("ok", Top.unit, [session EXCEPT !.registered = @ \cup {Top.unit}], Top.artifact)

-----------------------------------------------------------------------------
(* Stages *)

query_stage_cache_key(f, of) ==
  IF f.binding = None THEN None
  ELSE [of |-> of, phase |-> f.phase, unit |-> f.unit, registry |-> session.registry,
        binding |-> f.binding]

SetTop(f) == frames' = [frames EXCEPT ![Len(frames)] = f]

ReplayWithoutAdvance ==
  LET key == query_stage_cache_key(Top, Head(Top.todo)) IN
  /\ frames # <<>> /\ Top.pc = "route" /\ Top.todo # <<>>
  /\ key \in DOMAIN session.stages /\ ~session.stages[key].stopped
  /\ SetTop([Top EXCEPT !.unit = session.stages[key].unit])
  /\ UNCHANGED <<session, held, made, memo, results>>

\* The next stage is replayed from the artifact cache: the unit becomes the one
\* the stage ended with.
ReplayStage ==
  LET key == query_stage_cache_key(Top, Head(Top.todo)) IN
  /\ frames # <<>> /\ Top.pc = "route" /\ Top.todo # <<>>
  /\ key \in DOMAIN session.stages /\ ~session.stages[key].stopped
  /\ SetTop([Top EXCEPT !.unit = session.stages[key].unit, !.todo = Tail(@),
                        !.artifact = {key} \cup session.stages[key].deps])
  /\ UNCHANGED <<session, held, made, memo, results>>

\* The next stage is run: nothing is cached for it, or what is was stopped by an error.
EnterStage ==
  LET key == query_stage_cache_key(Top, Head(Top.todo)) IN
  /\ frames # <<>> /\ Top.pc = "route" /\ Top.todo # <<>>
  /\ key \in DOMAIN session.stages => session.stages[key].stopped
  /\ SetTop([Top EXCEPT !.pc = "stage",
                        !.stage = [NoStage EXCEPT !.key = key, !.left = ProvidersOf[Head(Top.todo)]]])
  /\ UNCHANGED <<session, held, made, memo, results>>

\* The steps of the route from the restart stage on, before what was left to do.
Restarted(stage) ==
  LET at == CHOOSE i \in DOMAIN Top.route : Top.route[i] = stage IN
  SubSeq(Top.route, at, Len(Top.route)) \o Tail(Top.todo)

\* There is budget for another restart, and the stage is in the route.
MayRestart(stage) == Top.budget > 0 /\ \E i \in DOMAIN Top.route : Top.route[i] = stage

\* The stage's providers have run or one has stopped it: the stage's artifact is
\* stored, the pending restart taken, and the route goes on, restarts or ends.
FinishStage ==
  LET restart_target == session.pending_restart
      artifact == IF Top.stage.key = None THEN {} ELSE {Top.stage.key} \cup Top.stage.deps
      f == [Top EXCEPT !.pc = "route", !.stage = NoStage, !.artifact = artifact]
      s == [session EXCEPT
              !.pending_restart = None,
              !.stages = IF Top.stage.key = None THEN @
                         ELSE (Top.stage.key :> [unit |-> Top.unit, stopped |-> Top.stage.stopped,
                                                 deps |-> Top.stage.deps]) @@ @]
  IN
  /\ frames # <<>> /\ Top.pc = "stage"
  /\ Top.stage.left = <<>> \/ Top.stage.stopped
  /\ \/ /\ Top.stage.stopped
        /\ Return("stopped", Top.unit, [s EXCEPT !.registered = @ \cup {Top.unit}],
                  IF Len(Top.todo) = 1 THEN artifact ELSE {})
     \/ /\ ~Top.stage.stopped /\ restart_target = None
        /\ SetTop([f EXCEPT !.todo = Tail(@)])
        /\ session' = s /\ UNCHANGED <<held, made, memo, results>>
     \/ /\ ~Top.stage.stopped /\ restart_target # None /\ MayRestart(restart_target)
        /\ SetTop([f EXCEPT !.todo = Restarted(restart_target), !.budget = @ - 1])
        /\ session' = s /\ UNCHANGED <<held, made, memo, results>>
     \/ /\ ~Top.stage.stopped /\ restart_target # None /\ ~MayRestart(restart_target)
        /\ Fail("restart", Top.unit, s)
-----------------------------------------------------------------------------
(* Providers *)

provider_transaction_mode(p) ==
  LET writes == Contract[p].writes IN
  CASE writes = {} -> "none"
    [] writes = {"facts"} -> "semantic"
    [] writes = {"attributes"} -> "attributes"
    [] OTHER -> "unit"

\* The unit u after a rollback of what provider p made of before: a semantic rollback
\* is one more edit, an attribute rollback restores the version too and adds one.
restore_provider_rollback_snapshot(p, before, u) ==
  CASE provider_transaction_mode(p) = "semantic" ->
         [u EXCEPT !.content["facts"] = before.content["facts"], !.version = @ + 1]
    [] provider_transaction_mode(p) = "attributes" ->
         [u EXCEPT !.content["attributes"] = before.content["attributes"],
                   !.version = before.version + 1]
    [] provider_transaction_mode(p) = "unit" -> before
    [] OTHER -> u

\* Every edit of the unit advances its version.
Written(u, writes) ==
  [u EXCEPT !.content = [d \in Domain |-> IF d \in writes THEN @[d] + 1 ELSE @[d]],
            !.version = @ + Cardinality(writes)]

Running == frames # <<>> /\ Top.pc = "stage" /\ Top.stage.left # <<>> /\ ~Top.stage.stopped

\* The key of the CTFE cache, or None for a provider that is not cacheable.
provider_cache_key(p) ==
  IF Contract[p].cacheable THEN query_stage_cache_key(Top, p) ELSE None

\* A provider of another phase, or one reached after the deadline, fails the query.
RefuseProvider ==
  /\ Running
  /\ Top.phase \notin Contract[Head(Top.stage.left)].phases \/ Top.deadline
  /\ Fail("refused", Top.unit, session)

\* A provider is replayed from the CTFE cache.
ReplayProvider ==
  LET p == Head(Top.stage.left)
      entry == session.ctfe_cache[provider_cache_key(p)] IN
  /\ Running /\ Top.phase \in Contract[p].phases
  /\ provider_cache_key(p) \in DOMAIN session.ctfe_cache
  /\ SetTop([Top EXCEPT
       !.unit = IF entry.snapshot = None THEN @ ELSE entry.snapshot,
       !.stage = [@ EXCEPT !.left = Tail(@), !.deps = @ \cup entry.deps,
                           !.asked = @ \/ entry.restart_stage # None]])
  /\ session' = [session EXCEPT
       !.diagnostics = @ \o entry.diagnostics,
       !.pending_restart = IF entry.restart_stage # None THEN entry.restart_stage ELSE @]
  /\ UNCHANGED <<held, made, memo, results>>

\* What the callback does is a function of its unit, phase, bindings and registries.
Behaviour(p) ==
  LET k == [of |-> p, phase |-> Top.phase, unit |-> Top.unit, registry |-> session.registry,
            binding |-> Top.binding] IN
  IF k \in DOMAIN memo THEN {k :> memo[k]}
  ELSE {k :> o : o \in {o \in Outcomes[p] : Top.unit.version + Cardinality(o.writes) < MaxVersion}}

\* The callback is entered, with the provider as the active context.
InvokeProvider ==
  LET p == Head(Top.stage.left) IN
  /\ Running /\ Top.phase \in Contract[p].phases
  /\ provider_cache_key(p) \notin DOMAIN session.ctfe_cache
  /\ \E b \in Behaviour(p) :
       /\ memo' = b @@ memo
       /\ \E k \in DOMAIN b :
            SetTop([Top EXCEPT !.pc = "call",
                               !.call = [did |-> b[k], nest |-> b[k].nest, deps |-> {},
                                         previous |-> session.active_context,
                                         before |-> Len(session.diagnostics)]])
  /\ session' = [session EXCEPT !.active_context = p]
  /\ UNCHANGED <<held, made, results>>

\* The callback queries a unit it loads, on a copy of the session.
NestedQuery ==
  /\ frames # <<>> /\ Top.pc = "call" /\ Top.call.nest # None /\ Len(frames) < MaxNest
  /\ frames' = Append(frames, Frame(Top.call.nest.route, Top.phase, Top.binding,
                                    Template(Top.call.nest.unit), FALSE, FALSE))
  /\ UNCHANGED <<session, held, made, memo, results>>

RestartIfResumable(p, pending, committed_change) ==
  IF ~Contract[p].resume THEN None
  ELSE IF pending # None THEN pending
  ELSE IF committed_change THEN RestartStage[Head(Top.todo)]
  ELSE None

\* The restart stage a successful provider leaves pending.
provider_restart_stage(p, pending, committed_change) ==
  IF pending # None THEN pending
  ELSE IF committed_change /\ Contract[p].resume THEN RestartStage[Head(Top.todo)]
  ELSE None

\* A write or a diagnostic without its effect tag.
provider_effect_policy_violation(p, writes, emitted) ==
  /\ Contract[p].enforce
  /\ \/ ~(writes \subseteq Contract[p].effects)
     \/ emitted # <<>> /\ "diagnostics" \notin Contract[p].effects

EntryWithoutSnapshot(p, u, changed, emitted, restart_stage) ==
  [snapshot |-> None, diagnostics |-> emitted, restart_stage |-> restart_stage, deps |-> Top.call.deps]

\* What a successful provider leaves in the CTFE cache: its unit only if it changed it
\* and declares what it writes.
provider_cache_entry(p, u, changed, emitted, restart_stage) ==
  [snapshot |-> IF changed /\ provider_transaction_mode(p) # "none" THEN u ELSE None,
   diagnostics |-> emitted, restart_stage |-> restart_stage, deps |-> Top.call.deps]

\* The callback has returned without breaking its contract: its result is recorded.
Succeed(p, u, s, pending) ==
  LET did == Top.call.did
      changed == u.version # Top.unit.version \/ did.reports
      emitted == Since(Top.call.before, s)
      restart_stage == provider_restart_stage(p, pending, changed)
      key == provider_cache_key(p) IN
  /\ SetTop([Top EXCEPT !.pc = "stage", !.call = None, !.unit = u,
                        !.stage = [@ EXCEPT !.left = Tail(@), !.deps = @ \cup Top.call.deps,
                                            !.asked = @ \/ restart_stage # None]])
  /\ session' = [s EXCEPT !.pending_restart = restart_stage,
                          !.ctfe_cache = IF key = None THEN @
                            ELSE (key :> provider_cache_entry(p, u, changed, emitted, restart_stage)) @@ @]
  /\ UNCHANGED <<held, made, memo, results>>

\* The callback has emitted an error diagnostic: it is rolled back and stops the query.
StopByDiagnostic(p, u, s) ==
  /\ SetTop([Top EXCEPT !.pc = "stage", !.call = None,
                        !.unit = restore_provider_rollback_snapshot(p, Top.unit, u),
                        !.stage = [@ EXCEPT !.stopped = TRUE, !.deps = @ \cup Top.call.deps]])
  /\ session' = [s EXCEPT !.pending_restart = None]
  /\ UNCHANGED <<held, made, memo, results>>

AfterCallbackWithoutContext(did) ==
  [session EXCEPT !.active_context = None, !.diagnostics = @ \o did.diagnostics]

\* The session when the callback has returned: the previous context is active again.
AfterCallback(did) ==
  [session EXCEPT !.active_context = Top.call.previous, !.diagnostics = @ \o did.diagnostics]

\* The callback has returned and its effects are judged.  The diagnostics of the
\* queries it made count as its own.
CompleteProvider ==
  LET p == Head(Top.stage.left)
      did == Top.call.did
      u == Written(Top.unit, did.writes)
      pending == IF did.restart # None THEN did.restart ELSE session.pending_restart
      s == AfterCallback(did)
      emitted == Since(Top.call.before, s)
      stopped_by_diagnostic == \E i \in DOMAIN emitted : emitted[i] = "error"
      refuted == did.result = "badfact" \/ provider_effect_policy_violation(p, did.writes, emitted)
  IN
  /\ frames # <<>> /\ Top.pc = "call"
  /\ Top.call.nest = None \/ Len(frames) >= MaxNest
  /\ \/ /\ refuted
        /\ Fail("violation", Top.unit,
                [s EXCEPT !.diagnostics = SubSeq(@, 1, Top.call.before), !.pending_restart = None])
     \/ /\ ~refuted /\ did.result = "error"
        /\ Fail("error", restore_provider_rollback_snapshot(p, Top.unit, u),
                [s EXCEPT !.pending_restart = None])
     \/ ~refuted /\ did.result = "ok" /\ stopped_by_diagnostic /\ StopByDiagnostic(p, u, s)
     \/ ~refuted /\ did.result = "ok" /\ ~stopped_by_diagnostic /\ Succeed(p, u, s, pending)

-----------------------------------------------------------------------------
(* Around queries *)

\* A stage, provider or host service is registered.
Register ==
  /\ frames = <<>> /\ session.registry < MaxRegistry
  /\ session' = [session EXCEPT !.registry = @ + 1]
  /\ UNCHANGED <<frames, held, made, memo, results>>

InvalidateAlone(key) ==
  /\ frames = <<>> /\ key \in DOMAIN session.stages
  /\ session' = [session EXCEPT !.stages = [k \in DOMAIN @ \ {key} |-> @[k]]]
  /\ UNCHANGED <<frames, held, made, memo, results>>

\* mark_dirty on a stage's artifact: it and what depends on it are not served again.
Invalidate(key) ==
  /\ frames = <<>> /\ key \in DOMAIN session.stages
  /\ session' = [session EXCEPT !.stages =
       [k \in {k \in DOMAIN @ : k # key /\ key \notin @[k].deps} |-> @[k]]]
  /\ UNCHANGED <<frames, held, made, memo, results>>

\* The host makes no more queries.
Idle == /\ frames = <<>> /\ made = MaxQueries
        /\ UNCHANGED <<session, frames, held, made, memo, results>>

Step == \/ FinishQuery \/ ReplayStage \/ EnterStage \/ FinishStage
        \/ RefuseProvider \/ ReplayProvider \/ InvokeProvider \/ NestedQuery \/ CompleteProvider

Act ==
  \/ \E route \in Routes, phase \in Phase, binding \in Binding,
        u \in {held} \cup {Template(id) : id \in Units}, atomic \in Atomic, deadline \in Deadlines :
       Query(route, phase, binding, u, atomic, deadline)
  \/ Step
  \/ Register
  \/ \E key \in DOMAIN session.stages : Invalidate(key)
  \/ Idle

Next == Act /\ UNCHANGED pipeline

Spec == Init /\ [][Next]_vars

\* Callbacks return: a query in progress takes its next step.
FairSpec == Spec /\ WF_vars(Step /\ UNCHANGED pipeline)

-----------------------------------------------------------------------------
(* Properties *)

\* Every variable has its type.
TypeOK ==
  /\ DOMAIN session.stages \subseteq Key /\ DOMAIN session.ctfe_cache \subseteq Key
  /\ \A k \in DOMAIN session.stages : session.stages[k].unit \in Unit
  /\ \A k \in DOMAIN session.ctfe_cache : session.ctfe_cache[k].snapshot \in Unit \cup {None}
  /\ session.pending_restart \in Stage \cup {None}
  /\ session.active_context \in Provider \cup {None}
  /\ session.registered \subseteq Unit
  /\ session.registry \in 0..MaxRegistry /\ session.diagnostics \in Seq({"warning", "error"})
  /\ Len(frames) <= MaxNest
  /\ \A i \in DOMAIN frames : /\ frames[i].unit \in Unit /\ frames[i].budget \in 0..RestartLimit
                              /\ frames[i].pc \in {"route", "stage", "call"}
  /\ held \in Unit /\ made \in 0..MaxQueries

SameInput(r, q) ==
  /\ r.route = q.route /\ r.phase = q.phase /\ r.binding = q.binding /\ r.atomic = q.atomic
  /\ r.start = q.start /\ r.registry = q.registry

\* "The same input plus the same bootstrap must produce the same result"
\* (docs/principles.md:122): two queries of the host for the same target, from the
\* same unit under the same registries, end alike and with the same unit, whatever
\* the caches held, were invalidated or lost in between.
SameUnit ==
  \A r, q \in results :
    SameInput(r, q) => r.unit = q.unit /\ r.status = q.status

\* ... at least where nothing restarts the route or runs out of time.
SameUnitWithoutRestart ==
  (\A st \in Stage : RestartStage[st] = None) /\ Deadlines = {FALSE} => SameUnit

\* A restart a provider has asked for is still pending when its stage ends, whatever
\* the providers after it did, unless one of them stopped or failed the query.
RestartKept ==
  frames # <<>> /\ Top.pc = "stage" /\ Top.stage.asked /\ ~Top.stage.stopped
    => session.pending_restart # None

\* No stage is served from the cache whose dependencies are not: "When source changes,
\* dependent artifacts become dirty and the query engine recomputes only what is
\* needed" (docs/architecture.md:505).
DependenciesFresh ==
  \A k \in DOMAIN session.stages : session.stages[k].deps \subseteq DOMAIN session.stages

\* ... at least where no provider is replayed from the CTFE cache.
DependenciesFreshUncached == (\A p \in Provider : ~Contract[p].cacheable) => DependenciesFresh

\* The active context is the provider whose callback is running, innermost first.
ContextIsInnermost ==
  LET calling == {i \in DOMAIN frames : frames[i].pc = "call"} IN
  session.active_context =
    IF calling = {} THEN None
    ELSE Head(frames[CHOOSE i \in calling : \A j \in calling : j <= i].stage.left)

\* A failed atomic query leaves the unit, the caches and the dispatch state as they
\* were, whatever its callbacks queried.  (What their queries registered stays
\* registered, and what they reported stays reported.)
AtomicLeavesNothing ==
  [][Len(frames) = 1 /\ frames' = <<>> /\ Top.atomic
       /\ (\E r \in results' \ results : r.status \notin {"ok", "stopped"})
       => /\ held' = Top.start
          /\ session' = [Top.saved EXCEPT !.diagnostics = session'.diagnostics,
                                          !.registered = session'.registered]]_vars

\* Every query ends.
QueryEnds == frames # <<>> ~> frames = <<>>

=============================================================================
