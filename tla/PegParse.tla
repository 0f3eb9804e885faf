-------------------------------- MODULE PegParse -------------------------------
(***************************************************************************)
(* Parsing a text again and again while it is edited                        *)
(* (PegParser::parse_incremental_many in peg/src/parser_engine/mod.rs, and  *)
(* ParseCache in types.rs).  A call is one action: it answers from the      *)
(* whole results kept, or runs the evaluator with the entries of the last   *)
(* run that survive the edit and keeps what this run adds.  run_full_parse, *)
(* which has no cache, is another.                                          *)
(*                                                                          *)
(* A scenario, chosen in Init, is what one caller does with one cache: the  *)
(* grammars, texts and options it uses, the number of calls and the limit   *)
(* on entries.  Texts stand for their hashes, and a grammar with the option *)
(* for its signatures.                                                      *)
(***************************************************************************)
EXTENDS PegMeaning, PegEdits

CONSTANTS
  Grammars,      \* grammars by name
  Scenarios,     \* scenarios by name
  MaxSteps, MaxDepth,           \* the budgets of ParserConfig
  ExactLimit                    \* EXACT_PARSE_CACHE_ENTRY_LIMIT

VARIABLES
  scenario,
  signature,     \* of the grammar and options the position cache is for
  cached_text,   \* PositionCache.text
  memo,          \* PositionCache.memo, a set of entries
  exact,         \* ParseCache.entries
  calls,         \* calls made
  result         \* of the last call

vars == <<scenario, signature, cached_text, memo, exact, calls, result>>

MAX_FIXPOINT_PASSES == 64

Compiled == [name \in DOMAIN Grammars |-> compile(Grammars[name], MAX_FIXPOINT_PASSES)]

-----------------------------------------------------------------------------
(* Entries after an edit *)

RECURSIVE project(_, _, _)
\* PayloadProjection::project: the spans in a value move with the text.
project(v, from, delta) ==
  LET shift_pos(p) == IF p >= from THEN p + delta ELSE p
  IN [v EXCEPT !.span = [i \in DOMAIN @ |-> shift_pos(@[i])],
               !.kids = [i \in DOMAIN @ |-> project(@[i], from, delta)]]

shifted_entry_unread(e, plan) ==
  [e EXCEPT !.start = @ + plan.delta, !.end = @ + plan.delta,
            !.value = project(@, plan.old_edit_end, plan.delta)]

\* shifted_entry, with project_shifted_value
shifted_entry(e, plan) ==
  [e EXCEPT !.start = @ + plan.delta, !.end = @ + plan.delta,
            !.lo = @ + plan.delta, !.hi = @ + plan.delta,
            !.value = project(@, plan.old_edit_end, plan.delta)]

transplant_by_span(S, old, new) ==
  LET plan == boundary_plan(old, new)
      zone(e) == cache_interval_zone(e.start, e.end, plan.prefix, plan.old_edit_end)
  IN {e \in S : zone(e) = "prefix"} \cup {shifted_entry(e, plan) : e \in {e \in S : zone(e) = "suffix"}}

\* build_transformed_rule_cache_fast: by what an entry examined, not by what it matched.
transplant(S, old, new) ==
  LET plan == boundary_plan(old, new)
      zone(e) == cache_interval_zone(e.lo, e.hi, plan.prefix, plan.old_edit_end)
  IN {e \in S : zone(e) = "prefix"} \cup {shifted_entry(e, plan) : e \in {e \in S : zone(e) = "suffix"}}

\* resolve_incremental_cache_tables, without explicit edits.
build_parse_cache_seed(text, sig) == IF signature = sig THEN transplant(memo, cached_text, text) ELSE {}

-----------------------------------------------------------------------------
(* A run of the evaluator *)

\* Entries by rule and position, as the evaluator looks them up.
ByPosition(S) ==
  [key \in {<<e.rule, e.start>> : e \in S} |-> CHOOSE e \in S : <<e.rule, e.start>> = key]

\* PegEvaluator, what a run of it gives, and a run from the start rule.
Evaluator(name, text, seed, use_memo, limit) ==
  [g |-> Compiled[name], text |-> text, seed |-> ByPosition(seed),
   config |-> [memo |-> use_memo, limit |-> limit, max_steps |-> MaxSteps, max_depth |-> MaxDepth]]

RunOutcome(cx, r) ==
  [ok |-> Ok(r) /\ TriviaEnd(cx, r.st, r.pos) = Len(cx.text), value |-> r.value, exported |-> export_memo(r.st)]

RunFrom(cx, rule) == RunOutcome(cx, parse_rule_inner(cx, StartState, rule, 0))

Evaluate(name, text, seed, use_memo, limit) ==
  RunFrom(Evaluator(name, text, seed, use_memo, limit), Compiled[name].start)

\* absorb_with_limit before the limit: exported entries replace the ones of their
\* positions.  An entry carries the bytes it examined when it was first recorded.
Absorbed(seed, exported, text) ==
  LET at == ByPosition(seed)
      entry(key) == [rule |-> key[1], start |-> key[2], seen |-> Piece(text, exported[key].lo, exported[key].hi)]
                    @@ exported[key]
      kept(key) == IF key \in DOMAIN at /\ [entry(key) EXCEPT !.seen = at[key].seen] = at[key]
                   THEN at[key] ELSE entry(key)
  IN {e \in seed : <<e.rule, e.start>> \notin DOMAIN exported} \cup {kept(key) : key \in DOMAIN exported}

\* enforce_global_limit: any entries above the limit are dropped.
Limited(S, limit) == IF Cardinality(S) <= limit THEN {S} ELSE kSubset(limit, S)

maybe_span(value, end, spans) == IF spans THEN SpannedValue(value, 0, end) ELSE value

Answer(name, text, spans, ok, value) ==
  [grammar |-> name, text |-> text, spans |-> spans, ok |-> ok, value |-> value]
NoAnswer == Answer("", <<>>, FALSE, FALSE, Nil)

-----------------------------------------------------------------------------
(* The calls *)

Init ==
  /\ scenario \in DOMAIN Scenarios
  /\ signature = <<>> /\ cached_text = <<>> /\ memo = {} /\ exact = <<>>
  /\ calls = 0 /\ result = NoAnswer

ExactHits(text, sig) == {i \in DOMAIN exact : exact[i].text = text /\ exact[i].signature = sig}

\* insert_exact_result: the oldest make room.
insert_exact_result(entry) ==
  LET all == Append(exact, entry)
  IN SubSeq(all, Max({1, Len(all) - ExactLimit + 1}), Len(all))

\* A whole result is kept for this text.
ParseExact(name, text, spans) ==
  LET hits == ExactHits(text, <<name, spans>>) IN
  /\ hits # {}
  /\ result' = Answer(name, text, spans, TRUE, exact[Min(hits)].output)
  /\ UNCHANGED <<signature, cached_text, memo, exact>>

\* What a successful run leaves in the cache (a failed one leaves it as it is).
KeepRun(name, text, spans, seed, run) ==
  LET sig == <<name, spans>>
      output == maybe_span(run.value, Len(text), spans)
  IN IF run.ok
     THEN /\ signature' = sig /\ cached_text' = text
          /\ memo' \in Limited(Absorbed(seed, run.exported, text), Scenarios[scenario].limit)
          /\ exact' = insert_exact_result([text |-> text, signature |-> sig, output |-> output])
          /\ result' = Answer(name, text, spans, TRUE, output)
     ELSE /\ result' = Answer(name, text, spans, FALSE, Nil)
          /\ UNCHANGED <<signature, cached_text, memo, exact>>

\* There is none.
ParseSeeded(name, text, spans) ==
  LET seed == build_parse_cache_seed(text, <<name, spans>>)
  IN /\ ExactHits(text, <<name, spans>>) = {}
     /\ KeepRun(name, text, spans, seed,
                                 Evaluate(name, text, seed, TRUE, Scenarios[scenario].limit))

parse_incremental_many(name, text, spans) ==
  /\ calls < Scenarios[scenario].calls /\ calls' = calls + 1
  /\ ParseExact(name, text, spans) \/ ParseSeeded(name, text, spans)
  /\ UNCHANGED scenario

\* ensure_memo_allowed_for_left_recursion
ensure_memo_allowed(name, use_memo) == use_memo \/ Compiled[name].left_recursive = {}

\* run_full_parse, which never touches the cache (and so is tried before the cache is
\* used); what it refuses changes nothing.
run_full_parse(name, text, spans, use_memo) ==
  LET answer(run) == Answer(name, text, spans, run.ok, IF run.ok THEN maybe_span(run.value, Len(text), spans) ELSE Nil)
  IN /\ calls = 0 /\ result = NoAnswer
     /\ Len(text) <= MaxSteps /\ ensure_memo_allowed(name, use_memo)
     /\ result' = answer(Evaluate(name, text, {}, use_memo, Scenarios[scenario].limit))
     /\ UNCHANGED <<scenario, signature, cached_text, memo, exact, calls>>

Next ==
  \E name \in Scenarios[scenario].grammars, text \in Scenarios[scenario].texts,
     spans \in Scenarios[scenario].spans :
    \/ parse_incremental_many(name, text, spans)
    \/ \E use_memo \in BOOLEAN : run_full_parse(name, text, spans, use_memo)

Spec == Init /\ [][Next]_vars

-----------------------------------------------------------------------------
(* Properties *)

Bare(e) == [rule |-> e.rule, start |-> e.start, end |-> e.end, lo |-> e.lo, hi |-> e.hi, seen |-> e.seen]

\* Entries match inside what they examined, and there is one at most for a rule and a
\* position; the limits on entries and on whole results hold.
TypeOK ==
  /\ \A e \in memo : /\ 0 <= e.lo /\ e.lo <= e.start /\ e.start <= e.end
                     /\ e.end <= e.hi /\ e.hi <= Len(cached_text)
  /\ \A e, f \in memo : e.rule = f.rule /\ e.start = f.start => e = f
  /\ Cardinality(memo) <= Scenarios[scenario].limit
  /\ Len(exact) <= ExactLimit

\* Whatever was parsed before and however the text was edited, a call answers what the
\* grammar means for the text: memo, growth of left recursion, dispatch, entries moved
\* from earlier runs and whole results never show in an answer.
ParseIsMeaning ==
  result # NoAnswer =>
    LET meant == Parsed(Compiled[result.grammar], result.text)
    IN result = Answer(result.grammar, result.text, result.spans, meant.ok,
                       IF meant.ok THEN maybe_span(meant.value, Len(result.text), result.spans) ELSE Nil)

\* Entries that depend on more than rule and position: a rule with parameters says not for
\* which arguments, and a rule that is left recursive through others not on what the others
\* had grown to.
Contextual(g, rule) ==
  g.params[rule] # <<>> \/ (rule \in g.left_recursive /\ Cardinality(g.rule_scc[rule]) > 1)

\* Every entry of the position cache is what its rule means at its place in the text the
\* cache is for, so that it does not matter when it was recorded, which run finds it and
\* how often it was moved.
CacheSound ==
  \A e \in memo :
    LET g == Compiled[signature[1]]
        r == Meaning(g, cached_text, e.rule, e.start)
    IN Contextual(g, e.rule) \/ (Ok(r) /\ r.pos = e.end /\ r.value = e.value /\ r.cut = e.cut)

Cache == INSTANCE PegCache WITH
  Chars <- UNION {UNION {Range(t) : t \in s.texts} : s \in Range(Scenarios)},
  RuleNames <- UNION {DOMAIN g.rules : g \in Range(Grammars)},
  entries <- {Bare(e) : e \in memo}

\* The position cache keeps the promise of PegCache: after an edit an entry is where its
\* bytes are, or is gone.
ImplementsCache == Cache!Spec

\* Tarjan's algorithm, as written, finds the rules on cycles and their components, on
\* every graph of three rules.
ComponentsExact ==
  calls = 0 /\ result = NoAnswer =>
    \A graph \in [1..3 -> SUBSET (1..3)] :
      LET step(S) == S \cup UNION {graph[r] : r \in S}
          reach(r) == step(step(graph[r]))
      IN left_recursive_sccs(graph, <<1, 2, 3>>) =
           {{s \in 1..3 : s \in reach(r) /\ r \in reach(s)} : r \in {r \in 1..3 : r \in reach(r)}}
=============================================================================
