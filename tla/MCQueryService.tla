---------------------------- MODULE MCQueryService ----------------------------
(* QueryService on small pipelines: the providers, what they declare and do. *)
EXTENDS QueryService

CONSTANTS s1, s2, pA, pB, pC, u1, u2

MCRoutes == {<<s1, s2>>, <<s1>>}

\* pA changes the unit, pB analyses it in the second stage.
MCProvidersOf == (s1 :> <<pA>>) @@ (s2 :> <<pB>>)
\* pA then pC in the first stage, pB in the second.
MCThreeProviders == (s1 :> <<pA, pC>>) @@ (s2 :> <<pB>>)

NoRestart == [s \in Stage |-> None]
\* A change made in s2 restarts the pipeline at s1.
RestartAtFirst == (s1 :> None) @@ (s2 :> s1)

Declares(writes, effects, resume) ==
  [writes |-> writes, effects |-> effects, enforce |-> TRUE, cacheable |-> TRUE,
   resume |-> resume, phases |-> Phase]

\* Declared writes and effects agree.
MCContract ==
  (pA :> Declares({"facts"}, {"facts", "diagnostics"}, TRUE)) @@
  (pB :> [Declares({"attributes"}, {"attributes"}, TRUE) EXCEPT !.cacheable = FALSE]) @@
  (pC :> Declares({"ir", "facts"}, {"ir", "facts"}, FALSE))

MCUncached ==
  [x \in Provider |-> [MCContract[x] EXCEPT !.cacheable = FALSE, !.effects = @ \cup {"diagnostics"}]]
MCCached ==
  [x \in Provider |-> [MCContract[x] EXCEPT !.cacheable = TRUE, !.effects = @ \cup {"diagnostics"}]]

Quiet == [writes |-> {}, result |-> "ok", diagnostics |-> <<>>, reports |-> FALSE,
          restart |-> None, nest |-> None]
Writes(d) == [Quiet EXCEPT !.writes = {d}]
Breaks(d) == [Writes(d) EXCEPT !.result = "error"]
Says(severity) == [Quiet EXCEPT !.diagnostics = <<severity>>]
Nests == [Quiet EXCEPT !.nest = [route |-> <<s1>>, unit |-> u2]]

MCReplayOutcomes ==
  (pA :> {Quiet, Writes("facts"), Breaks("facts"), Says("warning"),
         [Says("error") EXCEPT !.writes = {"facts"}]}) @@
  (pB :> {Quiet, Writes("attributes"), Writes("facts")}) @@
  (pC :> {Quiet})

\* Restarts asked for by the callback and by change.
MCRestartOutcomes ==
  (pA :> {Quiet, Writes("facts"), [Quiet EXCEPT !.restart = s1]}) @@
  (pC :> {Quiet, Breaks("ir"), [Writes("facts") EXCEPT !.result = "badfact"], Writes("attributes")}) @@
  (pB :> {Quiet, Writes("attributes"), [Quiet EXCEPT !.reports = TRUE]})

\* Callbacks that query another unit, fail, or break their contract.
MCNestOutcomes ==
  (pA :> {Quiet, Nests, [Nests EXCEPT !.writes = {"facts"}], Says("error")}) @@
  (pC :> {Quiet, Breaks("ir"), Says("warning")}) @@
  (pB :> {Quiet, Nests, [Nests EXCEPT !.result = "error", !.writes = {"attributes"}]})

\* Callbacks that may change the unit and always succeed.
MCChangeOutcomes ==
  (pA :> {Quiet, Writes("facts")}) @@ (pB :> {Quiet, Writes("attributes")}) @@ (pC :> {Quiet})

Plain ==
  [routes |-> MCRoutes, providersOf |-> MCProvidersOf, restartStage |-> NoRestart,
   contract |-> MCContract, outcomes |-> MCReplayOutcomes, restartLimit |-> 1, units |-> {u1},
   bindings |-> {"none"}, deadlines |-> {FALSE}, atomic |-> {FALSE}, maxQueries |-> 2,
   maxVersion |-> 6, maxRegistry |-> 0, maxNest |-> 1]

\* Two queries replay what the first left in the caches.
Replay == [Plain EXCEPT !.bindings = {"none", None}, !.atomic = BOOLEAN, !.maxRegistry = 1]

\* Restarts by request and by change, with and without a deadline.
Restarts ==
  [Plain EXCEPT !.providersOf = MCThreeProviders, !.restartStage = RestartAtFirst,
                !.outcomes = MCRestartOutcomes, !.deadlines = BOOLEAN, !.maxVersion = 5]

\* Callbacks that query, three deep.
Nesting ==
  [Plain EXCEPT !.providersOf = MCThreeProviders, !.contract = MCUncached,
                !.outcomes = MCNestOutcomes, !.units = {u1, u2}, !.atomic = {TRUE},
                !.maxVersion = 5, !.maxNest = 3]

MCPipelines == {Replay, Restarts, Nesting}

\* A restart from a cached stage.
MCRestartReplay ==
  {[Plain EXCEPT !.restartStage = RestartAtFirst, !.outcomes = MCChangeOutcomes, !.restartLimit = 2]}

\* A cached provider that queried another unit.
MCDirtyDependency ==
  {[Plain EXCEPT !.contract = MCCached, !.outcomes = MCNestOutcomes, !.units = {u1, u2},
                 !.maxNest = 2]}

===============================================================================
