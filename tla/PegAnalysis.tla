------------------------------ MODULE PegAnalysis ------------------------------
(***************************************************************************)
(* Grammars of the PEG library and what is computed from them before a      *)
(* parse: which rules can match the empty string, which are left recursive  *)
(* and in which component (graph_ops.rs, Tarjan's algorithm), how far one   *)
(* step of growth is sure to advance, and which alternatives of a choice    *)
(* can start with which character (peg/src/parser_analysis.rs, analysis.rs, *)
(* parser_compile.rs).                                                      *)
(*                                                                          *)
(* A text is a sequence of characters.  An expression is a record with its  *)
(* form in op and its subexpressions in kids.                               *)
(***************************************************************************)
EXTENDS Integers, Sequences, FiniteSets, SequencesExt, FiniteSetsExt

-----------------------------------------------------------------------------
(* PegExpr *)

Lit(text) == [op |-> "Literal", text |-> text, kids |-> <<>>]
Keyword(text) == [op |-> "HardKeyword", text |-> text, kids |-> <<>>]
Dot == [op |-> "Dot", kids |-> <<>>]
CharClass(chars, negated) == [op |-> "CharClass", chars |-> chars, negated |-> negated, kids |-> <<>>]
Recover(syncs) == [op |-> "Recover", syncs |-> syncs, kids |-> <<>>]
Island(open, close) == [op |-> "Island", open |-> open, close |-> close, kids |-> <<>>]   \* delimiters excluded
RawBlock(open, close) == [op |-> "RawBlock", open |-> open, close |-> close, kids |-> <<>>]
Commit == [op |-> "Cut", kids |-> <<>>]
Ref(name) == [op |-> "Ref", name |-> name, kids |-> <<>>]
Call(name, args) == [op |-> "Call", name |-> name, args |-> args, kids |-> <<>>]
Parameter(name) == [op |-> "Parameter", name |-> name, kids |-> <<>>]
Backref(name) == [op |-> "Backref", name |-> name, kids |-> <<>>]
Many(op, es) == [op |-> op, kids |-> es]            \* Sequence, Choice, separated lists
One(op, e) == [op |-> op, kids |-> <<e>>]           \* the forms with one subexpression
Named(name, e) == [op |-> "Named", name |-> name, kids |-> <<e>>]
LookBehind(e, negative) == [op |-> "LookBehind", negative |-> negative, kids |-> <<e>>]
Repeat(e, min, max) == [op |-> "Repeat", min |-> min, max |-> max, kids |-> <<e>>]
Precedence(e, levels) == [op |-> "Precedence", levels |-> levels, kids |-> <<e>>]

\* Forms whose first subexpression stands at their left edge.
Wrappers == {"Named", "Capture", "NoTrivia", "Eager", "And", "OneOrMore", "SepOneOrMore",
             "Interspersed", "Precedence"}

-----------------------------------------------------------------------------
(* Fixed points over the rules *)

RECURSIVE Nullable(_, _)
\* is_expr_nullable_with_rules_impl
Nullable(e, rules) ==
  CASE e.op \in {"Optional", "ZeroOrMore", "Cut", "Not"} -> TRUE
    [] e.op \in Wrappers -> Nullable(e.kids[1], rules)
    [] e.op = "Repeat" -> e.min = 0 \/ Nullable(e.kids[1], rules)
    [] e.op = "Sequence" -> \A i \in DOMAIN e.kids : Nullable(e.kids[i], rules)
    [] e.op = "Choice" -> \E i \in DOMAIN e.kids : Nullable(e.kids[i], rules)
    [] e.op = "Ref" -> e.name \in rules
    [] e.op \in {"Literal", "HardKeyword"} -> e.text = <<>>
    [] OTHER -> FALSE

\* One turn of the loop of analyze_grammar: the rules in their order, each seeing the
\* ones found before it in the same turn.
NullablePass(g, found) ==
  FoldLeft(LAMBDA acc, r : IF Nullable(g.rules[r], acc) THEN acc \cup {r} ELSE acc, found, g.order)

RECURSIVE NullableFrom(_, _, _)
NullableFrom(g, found, turns) ==
  IF turns = 0 \/ NullablePass(g, found) = found THEN found
  ELSE NullableFrom(g, NullablePass(g, found), turns - 1)

\* The rules analyze_grammar takes to match the empty string, after at most that many turns.
nullable_rules(g, turns) == NullableFrom(g, {}, turns)

RECURSIVE LeftRefs(_, _)
\* The items of a sequence up to the first that is not nullable.
LeftItems(items, nullable) ==
  {i \in DOMAIN items : \A j \in 1..(i - 1) : Nullable(items[j], nullable)}

\* collect_left_refs_impl: rules that may be entered before anything is consumed.
LeftRefs(e, nullable) ==
  CASE e.op = "Ref" -> {e.name}
    [] e.op = "Sequence" -> UNION {LeftRefs(e.kids[i], nullable) : i \in LeftItems(e.kids, nullable)}
    [] e.op = "Choice" -> UNION {LeftRefs(e.kids[i], nullable) : i \in DOMAIN e.kids}
    [] e.op \in Wrappers \cup {"Not", "LookBehind", "Optional", "ZeroOrMore", "Repeat"} ->
         LeftRefs(e.kids[1], nullable)
    [] OTHER -> {}

left_refs(g, nullable) == [r \in DOMAIN g.rules |-> LeftRefs(g.rules[r], nullable) \cap DOMAIN g.rules]

-----------------------------------------------------------------------------
(* Components *)

\* TarjanCtx
TarjanStart == [counter |-> 0, index |-> <<>>, low |-> <<>>, stack |-> <<>>, components |-> {}]

\* A function with one more or one changed value.
With(f, x, v) == [y \in DOMAIN f \cup {x} |-> IF y = x THEN v ELSE f[y]]

RECURSIVE StrongConnect(_, _, _, _)
VisitAnyNeighbours(t, node, graph, order) ==
  FoldLeft(LAMBDA c, dep :
             IF dep \notin DOMAIN c.index
             THEN LET d == StrongConnect(c, dep, graph, order)
                  IN [d EXCEPT !.low[node] = Min({@, d.low[dep]})]
             ELSE [c EXCEPT !.low[node] = Min({@, c.index[dep]})],
           t, SelectSeq(order, LAMBDA r : r \in graph[node]))

\* The neighbours of a node, in order, and what each does to the node's low link.
VisitNeighbours(t, node, graph, order) ==
  FoldLeft(LAMBDA c, dep :
             IF dep \notin DOMAIN c.index
             THEN LET d == StrongConnect(c, dep, graph, order)
                  IN [d EXCEPT !.low[node] = Min({@, d.low[dep]})]
             ELSE IF dep \in Range(c.stack) THEN [c EXCEPT !.low[node] = Min({@, c.index[dep]})]
             ELSE c,
           t, SelectSeq(order, LAMBDA r : r \in graph[node]))

\* What stands above a node on the stack is its component.
PopComponent(t, node) ==
  LET i == CHOOSE i \in DOMAIN t.stack : t.stack[i] = node
  IN [t EXCEPT !.stack = SubSeq(t.stack, 1, i - 1),
               !.components = @ \cup {Range(SubSeq(t.stack, i, Len(t.stack)))}]

\* strongconnect
StrongConnect(t, node, graph, order) ==
  LET entered == [t EXCEPT !.index = With(t.index, node, t.counter),
                           !.low = With(t.low, node, t.counter),
                           !.counter = @ + 1, !.stack = Append(@, node)]
      left == VisitNeighbours(entered, node, graph, order)
  IN IF left.low[node] = left.index[node] THEN PopComponent(left, node) ELSE left

strongly_connected_components(graph, order) ==
  FoldLeft(LAMBDA t, r : IF r \in DOMAIN t.index THEN t ELSE StrongConnect(t, r, graph, order),
           TarjanStart, order).components

\* find_left_recursive_sccs: the components with a cycle.
left_recursive_sccs(graph, order) ==
  {c \in strongly_connected_components(graph, order) :
     Cardinality(c) > 1 \/ \E r \in c : r \in graph[r]}

-----------------------------------------------------------------------------
(* Growth steps and dispatch on the first character *)

RECURSIVE StepsIn(_, _)
\* sequence_lr_min_step_impl: a recursive reference and the literal after it.
StepsIn(e, scc) ==
  IF e.op = "Choice" THEN UNION {StepsIn(e.kids[i], scc) : i \in DOMAIN e.kids}
  ELSE IF e.op = "Sequence" /\ Len(e.kids) >= 2 /\ e.kids[1].op = "Ref"
          /\ e.kids[1].name \in scc /\ e.kids[2].op = "Literal"
  THEN {Max({Len(e.kids[2].text), 1})}
  ELSE {}

\* compute_lr_min_step_from_expr: the largest of them, and at least one.
lr_min_step(e, scc) == Max(StepsIn(e, scc) \cup {1})

NoFirst == [open |-> TRUE, chars |-> {}]
FirstOf(chars) == [open |-> FALSE, chars |-> chars]

RECURSIVE FirstChars(_)
FirstOfAll(firsts) ==
  [open |-> \E f \in firsts : f.open, chars |-> UNION {f.chars : f \in firsts}]

\* expr_first_chars_impl, with nothing known of other rules: the characters an expression
\* can start with, or that they are not known.
FirstChars(e) ==
  CASE e.op \in {"Literal", "HardKeyword"} -> FirstOf(IF e.text = <<>> THEN {} ELSE {Head(e.text)})
    [] e.op = "CharClass" -> IF e.negated THEN NoFirst ELSE FirstOf(e.chars)
    [] e.op = "Sequence" -> FirstOfAll({FirstChars(e.kids[i]) : i \in LeftItems(e.kids, {})})
    [] e.op = "Choice" -> FirstOfAll({FirstChars(e.kids[i]) : i \in DOMAIN e.kids})
    [] e.op \in {"Named", "Capture", "And", "Eager", "OneOrMore", "ZeroOrMore", "Repeat",
                 "Optional", "SepOneOrMore", "Interspersed"} -> FirstChars(e.kids[1])
    [] OTHER -> NoFirst

\* compute_dispatch_from_choice_expr: the alternatives for each character, and the ones
\* tried whatever comes.
dispatch_of(alts) ==
  LET first == [i \in DOMAIN alts |-> FirstChars(alts[i])]
      default == {i \in DOMAIN alts : \/ Nullable(alts[i], {})
                                      \/ first[i].open \/ first[i].chars = {}}
      chars == UNION {first[i].chars : i \in DOMAIN alts \ default}
  IN [chars |-> [c \in chars |-> {i \in DOMAIN alts \ default : c \in first[i].chars}],
      defaults |-> default]

\* CompiledGrammar::compile, for at most that many turns of the fixed points.
compile(g, turns) ==
  LET nullable == nullable_rules(g, turns)
      sccs == left_recursive_sccs(left_refs(g, nullable), g.order)
      lr == UNION sccs
      scc_of == [r \in lr |-> CHOOSE c \in sccs : r \in c]
  IN [start |-> g.start, rules |-> g.rules, params |-> g.params, trivia |-> g.trivia,
      left_recursive |-> lr, rule_scc |-> scc_of,
      min_step |-> [r \in lr |-> lr_min_step(g.rules[r], scc_of[r])],
      dispatch |-> [r \in {r \in DOMAIN g.rules : /\ g.rules[r].op = "Choice"
                                                  /\ dispatch_of(g.rules[r].kids).chars # <<>>} |->
                      dispatch_of(g.rules[r].kids)]]
=============================================================================
