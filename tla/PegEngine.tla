------------------------------- MODULE PegEngine -------------------------------
(***************************************************************************)
(* The packrat evaluator (peg/src/parser_engine).  Evaluation threads a     *)
(* state: the memo of rule outcomes by position, the interval of input each *)
(* of them examined, the rules being grown, captures and parameters, and    *)
(* the budgets.  Every matcher takes a context cx (compiled grammar, text,  *)
(* entries of earlier runs, configuration), a state and a position, and     *)
(* returns an outcome with the state after it.                              *)
(*                                                                          *)
(* Positions count characters from 0.  Left out: regular expressions,       *)
(* layout, drivers and semantic hooks, imports, tokens, error labels.       *)
(***************************************************************************)
EXTENDS PegAnalysis

-----------------------------------------------------------------------------
(* Values, outcomes, state *)

\* ParseValue
Text(s) == [tag |-> "text", name |-> "", text |-> s, span |-> <<>>, kids |-> <<>>]
Node(tag, kids) == [tag |-> tag, name |-> "", text |-> <<>>, span |-> <<>>, kids |-> kids]
Nil == Node("nil", <<>>)
NamedValue(name, v) == [Node("named", <<v>>) EXCEPT !.name = name]
SpannedValue(v, start, end) == [Node("spanned", <<v>>) EXCEPT !.span = <<start, end>>]

sequence_value(values) ==
  CASE Len(values) = 0 -> Nil [] Len(values) = 1 -> values[1] [] OTHER -> Node("sequence", values)

\* ParseOutcome, or the error that ends the parse.
Succeed(st, pos, value) == [k |-> "success", pos |-> pos, value |-> value, cut |-> FALSE, st |-> st]
Fail(st, pos) == [k |-> "failure", pos |-> pos, value |-> Nil, cut |-> FALSE, st |-> st]
Raise(st, pos) == [k |-> "error", pos |-> pos, value |-> Nil, cut |-> FALSE, st |-> st]
Ok(r) == r.k = "success"

\* What to do with a success and with a failure; an error ends it.
Handle(r, Success(_), Failure(_)) ==
  CASE r.k = "error" -> r [] Ok(r) -> Success(r) [] r.k = "failure" -> Failure(r)
Same(r) == r
IfOk(r, Success(_)) == Handle(r, Success, Same)
UnlessError(r, Rest(_)) == IF r.k = "error" THEN r ELSE Rest(r)

\* What is kept of an outcome in the memo.
Outcome(r) == [k |-> r.k, pos |-> r.pos, value |-> r.value, cut |-> r.cut]
Replayed(st, o) == [k |-> o.k, pos |-> o.pos, value |-> o.value, cut |-> o.cut, st |-> st]

StartState ==
  [memo |-> <<>>, read_memo |-> <<>>, read_stack |-> <<>>, last_read |-> [lo |-> 0, hi |-> 0],
   growing |-> {}, active |-> {}, trivia_on |-> TRUE, captures |-> <<>>, params |-> <<>>,
   steps |-> 0, depth |-> 0]

\* spec_rollback: a branch not taken leaves no captures.
Rollback(st, before) == [st EXCEPT !.captures = before.captures]

-----------------------------------------------------------------------------
(* What was examined *)

\* ReadExtent::merge
Merge(a, b) == [lo |-> Min({a.lo, b.lo}), hi |-> Max({a.hi, b.hi})]

merge_read(st, extent) ==
  IF st.read_stack = <<>> THEN st
  ELSE [st EXCEPT !.read_stack[Len(st.read_stack)] = Merge(@, extent)]

note_read(st, lo, hi) == merge_read(st, [lo |-> lo, hi |-> hi])

push_read_frame(st, pos) == [st EXCEPT !.read_stack = Append(@, [lo |-> pos, hi |-> pos])]

pop_read_frame(st) ==
  LET frame == Last(st.read_stack)
  IN merge_read([st EXCEPT !.read_stack = Front(@), !.last_read = frame], frame)

-----------------------------------------------------------------------------
(* Terminals *)

AtEnd(cx, pos) == pos >= Len(cx.text)
CharAt(cx, pos) == cx.text[pos + 1]
Slice(cx, lo, hi) == SubSeq(cx.text, lo + 1, hi)
StartsWith(cx, pos, s) == pos + Len(s) <= Len(cx.text) /\ Slice(cx, pos, pos + Len(s)) = s

\* str::find from a position: the places where s begins.
Finds(cx, pos, s) == {i \in pos..Len(cx.text) : StartsWith(cx, i, s)}

TriviaEnd(cx, st, pos) ==
  IF ~st.trivia_on THEN pos
  ELSE Min({p \in pos..Len(cx.text) : AtEnd(cx, p) \/ CharAt(cx, p) \notin cx.g.trivia})

\* skip_trivia: the state after it; TriviaEnd is the position.
skip_trivia(cx, st, pos) ==
  IF st.trivia_on /\ cx.g.trivia # {} THEN note_read(st, pos, TriviaEnd(cx, st, pos)) ELSE st

match_literal(cx, st, pos, text) ==
  LET p == TriviaEnd(cx, st, pos)
      s == note_read(skip_trivia(cx, st, pos), p, Min({p + Len(text), Len(cx.text)}))
  IN IF StartsWith(cx, p, text) THEN Succeed(s, p + Len(text), Text(text)) ELSE Fail(s, p)

\* One character of a set, or outside it; match_dot is the one outside no character.
match_char_class(cx, st, pos, chars, negated) ==
  LET p == TriviaEnd(cx, st, pos)
      s == skip_trivia(cx, st, pos)
  IN IF AtEnd(cx, p) THEN Fail(s, p)
     ELSE IF (CharAt(cx, p) \in chars) # negated
     THEN Succeed(note_read(s, p, p + 1), p + 1, Text(<<CharAt(cx, p)>>))
     ELSE Fail(note_read(s, p, p + 1), p)

match_recover(cx, st, pos, syncs) ==
  LET ends == {Min(Finds(cx, pos, s)) + Len(s) : s \in {s \in syncs \ {<<>>} : Finds(cx, pos, s) # {}}}
      end == IF ends = {} THEN Len(cx.text) ELSE Min(ends)
  IN IF AtEnd(cx, pos) THEN Fail(note_read(st, pos, pos), pos)
     ELSE Succeed(note_read(st, pos, end), end, Node("<recovered>", <<Text(Slice(cx, pos, end))>>))

\* char::is_alphanumeric and the underscore, in the alphabet of the models.
WordChars == {"a", "b", "c", "x", "_"}

\* match_hard_keyword: not followed by a letter, a digit or an underscore.
match_hard_keyword(cx, st, pos, kw) ==
  LET p == TriviaEnd(cx, st, pos)
      s == skip_trivia(cx, st, pos)
      end == p + Len(kw)
      peeked == note_read(s, p, IF AtEnd(cx, end) THEN end ELSE end + 1)
  IN IF ~StartsWith(cx, p, kw) THEN Fail(note_read(s, p, Min({end, Len(cx.text)})), p)
     ELSE IF ~AtEnd(cx, end) /\ CharAt(cx, end) \in WordChars THEN Fail(peeked, p)
     ELSE Succeed(peeked, end, Text(kw))

match_island(cx, st, pos, open, close) ==
  LET p == TriviaEnd(cx, st, pos)
      s == skip_trivia(cx, st, pos)
      content == p + Len(open)
      closes == Finds(cx, content, close)
  IN IF ~StartsWith(cx, p, open) THEN Fail(note_read(s, p, Min({content, Len(cx.text)})), p)
     ELSE IF closes = {} THEN Fail(note_read(s, p, Len(cx.text)), content)
     ELSE Succeed(note_read(s, p, Min(closes) + Len(close)), Min(closes) + Len(close),
                  Text(Slice(cx, content, Min(closes))))

RECURSIVE BlockEnd(_, _, _, _, _)
\* The start of the delimiter that closes a block open to that depth, or -1.
BlockEnd(cx, scan, depth, open, close) ==
  LET opens == Finds(cx, scan, open)
      closes == Finds(cx, scan, close)
  IN IF closes = {} THEN -1
     ELSE IF opens # {} /\ Min(opens) < Min(closes)
     THEN BlockEnd(cx, Min(opens) + Len(open), depth + 1, open, close)
     ELSE IF depth = 1 THEN Min(closes)
     ELSE BlockEnd(cx, Min(closes) + Len(close), depth - 1, open, close)

match_raw_block(cx, st, pos, open, close) ==
  LET p == TriviaEnd(cx, st, pos)
      s == skip_trivia(cx, st, pos)
      content == p + Len(open)
      end == BlockEnd(cx, content, 1, open, close)
  IN IF open = close THEN Raise(st, pos)
     ELSE IF ~StartsWith(cx, p, open) THEN Fail(note_read(s, p, Min({content, Len(cx.text)})), p)
     ELSE IF end = -1 THEN Raise(s, p)
     ELSE Succeed(note_read(s, p, Len(cx.text)), end + Len(close), Text(Slice(cx, content, end)))

match_backref(cx, st, pos, name) ==
  LET p == TriviaEnd(cx, st, pos)
      s == skip_trivia(cx, st, pos)
  IN IF name \notin DOMAIN st.captures THEN Fail(s, p)
     ELSE LET expected == st.captures[name]
              noted == note_read(s, p, Min({p + Len(expected), Len(cx.text)}))
          IN IF expected # <<>> /\ StartsWith(cx, p, expected)
             THEN Succeed(noted, p + Len(expected), Text(expected)) ELSE Fail(noted, p)

-----------------------------------------------------------------------------
(* Combinators *)

RECURSIVE parse_expr(_, _, _, _)

match_and(cx, st, e, pos) ==
  Handle(parse_expr(cx, st, e, pos),
         LAMBDA r : Succeed(Rollback(r.st, st), pos, Nil),
         LAMBDA r : Fail(Rollback(r.st, st), pos))

match_not(cx, st, e, pos) ==
  Handle(parse_expr(cx, st, e, pos),
         LAMBDA r : Fail(Rollback(r.st, st), pos),
         LAMBDA r : Succeed(Rollback(r.st, st), pos, Nil))

RECURSIVE MatchItems(_, _, _, _, _, _)
\* match_sequence, the items still to match: a commit leaves no value, and makes a later
\* failure one that commits.
MatchItems(cx, st, items, pos, values, cut) ==
  IF items = <<>> THEN Succeed(st, pos, sequence_value(values))
  ELSE Handle(parse_expr(cx, st, Head(items), pos),
              LAMBDA r : MatchItems(cx, r.st, Tail(items), r.pos,
                                    IF r.cut THEN values ELSE Append(values, r.value), cut \/ r.cut),
              LAMBDA r : [r EXCEPT !.cut = cut])

match_sequence(cx, st, items, pos) == MatchItems(cx, st, items, pos, <<>>, FALSE)

RECURSIVE run_choice(_, _, _, _, _)
run_choice(cx, st, alts, pos, furthest) ==
  IF alts = <<>> THEN Fail(st, furthest)
  ELSE Handle(parse_expr(cx, st, Head(alts), pos), Same,
              LAMBDA r : IF r.cut THEN [r EXCEPT !.st = Rollback(@, st)]
                         ELSE run_choice(cx, Rollback(r.st, st), Tail(alts), pos, Max({furthest, r.pos})))

match_choice(cx, st, alts, pos) == run_choice(cx, st, alts, pos, pos)

\* Some of the alternatives, in their order.
Candidates(alts, S) ==
  LET picked == SelectSeq([i \in DOMAIN alts |-> i], LAMBDA i : i \in S)
  IN [i \in DOMAIN picked |-> alts[picked[i]]]

\* The alternatives to try at a position, and what looking at the character there examines.
Dispatched(cx, p, alts, dispatch) ==
  IF AtEnd(cx, p) THEN Candidates(alts, dispatch.defaults)
  ELSE IF CharAt(cx, p) \notin DOMAIN dispatch.chars THEN alts
  ELSE Candidates(alts, dispatch.chars[CharAt(cx, p)] \cup dispatch.defaults)

match_choice_dispatched(cx, st, alts, pos, dispatch) ==
  LET p == TriviaEnd(cx, st, pos)
      s == skip_trivia(cx, st, pos)
  IN match_choice(cx, IF AtEnd(cx, p) THEN s ELSE note_read(s, p, p + 1),
                  Dispatched(cx, p, alts, dispatch), pos)

match_optional(cx, st, e, pos) ==
  Handle(parse_expr(cx, st, e, pos),
         LAMBDA r : Succeed(r.st, r.pos, r.value),
         LAMBDA r : Succeed(Rollback(r.st, st), pos, Nil))

RECURSIVE Repetitions(_, _, _, _, _, _)
\* Matches that advance, at most so many, and their values.
Repetitions(cx, st, e, pos, values, most) ==
  IF Len(values) = most THEN Succeed(st, pos, values)
  ELSE Handle(parse_expr(cx, st, e, pos),
              LAMBDA r : IF r.pos > pos THEN Repetitions(cx, r.st, e, r.pos, Append(values, r.value), most)
                         ELSE Succeed(Rollback(r.st, st), pos, values),
              LAMBDA r : Succeed(Rollback(r.st, st), pos, values))

\* repeat_value, and a failure of a repetition with too few matches.
Repeated(matches, tag, least) ==
  IfOk(matches, LAMBDA r : IF Len(r.value) < least THEN Fail(r.st, r.pos)
                           ELSE Succeed(r.st, r.pos, Node(tag, r.value)))

\* Longer than any sequence of matches that advance.
Unbounded(cx) == Len(cx.text) + 2

match_zero_or_more(cx, st, e, pos) ==
  Repeated(Repetitions(cx, st, e, pos, <<>>, Unbounded(cx)), "zero_or_more", 0)

match_repeat(cx, st, e, pos) ==
  Repeated(Repetitions(cx, st, e.kids[1], pos, <<>>, IF e.max = -1 THEN Unbounded(cx) ELSE e.max),
           "repeat", e.min)

\* The first element of a list, which alone may be empty, and Rest of the list after it.
AfterFirst(cx, st, e, pos, Rest(_)) ==
  Handle(parse_expr(cx, st, e, pos), Rest, LAMBDA r : [r EXCEPT !.st = Rollback(@, st)])

match_one_or_more(cx, st, e, pos) ==
  AfterFirst(cx, st, e, pos,
    LAMBDA r : Repeated(Repetitions(cx, r.st, e, r.pos, <<r.value>>, Unbounded(cx)), "one_or_more", 0))

RECURSIVE SeparatedTail(_, _, _, _, _)
\* Separator and element, again and again; keep says what becomes of the separator.
SeparatedTail(cx, st, e, pos, values) ==
  Handle(parse_expr(cx, st, e.kids[2], pos),
         LAMBDA sep : Handle(parse_expr(cx, sep.st, e.kids[1], sep.pos),
           LAMBDA r : SeparatedTail(cx, r.st, e, r.pos,
                        values \o IF e.op = "Interspersed" THEN <<sep.value, r.value>> ELSE <<r.value>>),
           LAMBDA r : Succeed(Rollback(r.st, st), pos, values)),
         LAMBDA r : Succeed(Rollback(r.st, st), pos, values))

\* match_sep_one_or_more and match_interspersed
match_separated(cx, st, e, pos) ==
  AfterFirst(cx, st, e.kids[1], pos,
    LAMBDA r : Repeated(SeparatedTail(cx, r.st, e, r.pos, <<r.value>>),
                        IF e.op = "Interspersed" THEN "interspersed" ELSE "sep_one_or_more", 0))

RECURSIVE FirstOperator(_, _, _, _)
\* The first of a list of operators that matches; trying them leaves no captures.
FirstOperator(cx, st, ops, pos) ==
  IF ops = <<>> THEN Fail(st, pos)
  ELSE Handle(parse_expr(cx, st, Head(ops).expr, pos),
              LAMBDA r : Succeed(Rollback(r.st, st), r.pos, r.value) @@ [op |-> Head(ops)],
              LAMBDA r : FirstOperator(cx, Rollback(r.st, st), Tail(ops), pos))

\* peek_prec_op: the operators of the levels with such a fixity, lowest level first (of a
\* ternary level only its first).
peek_prec_op(cx, st, levels, pos, want) ==
  LET ops(l) == [i \in 1..(IF levels[l].fixity = "Ternary" THEN 1 ELSE Len(levels[l].operators)) |->
                   [expr |-> levels[l].operators[i], prec |-> l, fixity |-> levels[l].fixity]]
      wanted == SelectSeq([l \in DOMAIN levels |-> l], LAMBDA l : levels[l].fixity \in want)
  IN FirstOperator(cx, st, FlattenSeq([i \in DOMAIN wanted |-> ops(wanted[i])]), pos)

RECURSIVE parse_precedence_bp(_, _, _, _, _)
RECURSIVE Operators(_, _, _, _, _, _)
\* A prefix operator and its operand, or an operand.
PrefixOrOperand(cx, st, e, pos) ==
  Handle(peek_prec_op(cx, st, e.levels, pos, {"Prefix"}),
         LAMBDA op : Handle(parse_precedence_bp(cx, op.st, e, op.pos, op.op.prec),
           LAMBDA r : Succeed(r.st, r.pos, Node("unary_prefix", <<op.value, r.value>>)),
           LAMBDA r : Fail(r.st, op.pos)),
         LAMBDA op : parse_expr(cx, op.st, e.kids[1], pos))

\* A second operator of a level that does not associate is a failure.
NotAgain(cx, done, e, prec) ==
  Handle(peek_prec_op(cx, done.st, e.levels, done.pos, {"InfixNon"}),
         LAMBDA again : IF again.op.prec = prec THEN Fail(again.st, done.pos) ELSE [done EXCEPT !.st = again.st],
         LAMBDA again : [done EXCEPT !.st = again.st])

\* An infix operator: the operand to its right binds tighter, or as tight when it is
\* right-associative.
InfixRight(cx, op, e, lhs) ==
  Handle(parse_precedence_bp(cx, op.st, e, op.pos,
                             IF op.op.fixity = "InfixRight" THEN op.op.prec ELSE op.op.prec + 1),
         LAMBDA rhs : LET done == Succeed(rhs.st, rhs.pos, Node("binop", <<lhs, op.value, rhs.value>>))
                      IN IF op.op.fixity = "InfixNon" THEN NotAgain(cx, done, e, op.op.prec) ELSE done,
         LAMBDA rhs : Fail(rhs.st, op.pos))

\* The next part of an operator; without it the operator fails where the part would start.
Part(r, pos, Rest(_)) == Handle(r, Rest, LAMBDA f : Fail(f.st, pos))

\* The two branches of a ternary operator.
TernaryRight(cx, op, e, lhs) ==
  Part(parse_precedence_bp(cx, op.st, e, op.pos, 1), op.pos, LAMBDA then :
    Part(parse_expr(cx, then.st, e.levels[op.op.prec].operators[2], then.pos), then.pos, LAMBDA close :
      Part(parse_precedence_bp(cx, close.st, e, close.pos, op.op.prec), close.pos, LAMBDA else :
        Succeed(else.st, else.pos, Node("ternary", <<lhs, then.value, else.value>>)))))

\* An operator applied to the operand before it.
Apply(cx, op, e, lhs) ==
  CASE op.op.fixity = "Postfix" -> Succeed(op.st, op.pos, Node("unary_postfix", <<lhs, op.value>>))
    [] op.op.fixity = "Ternary" -> TernaryRight(cx, op, e, lhs)
    [] OTHER -> InfixRight(cx, op, e, lhs)

\* The operators after an operand, as long as they bind tight enough.
Operators(cx, st, e, pos, lhs, min_bp) ==
  Handle(peek_prec_op(cx, st, e.levels, pos, {"InfixLeft", "InfixRight", "InfixNon", "Postfix", "Ternary"}),
         LAMBDA op : IF op.op.prec < min_bp THEN Succeed(op.st, pos, lhs)
                     ELSE IfOk(Apply(cx, op, e, lhs),
                               LAMBDA r : Operators(cx, r.st, e, r.pos, r.value, min_bp)),
         LAMBDA op : Succeed(op.st, pos, lhs))

\* Levels are numbered from 1 here and from 0 in the code.
parse_precedence_bp(cx, st, e, pos, min_bp) ==
  IfOk(PrefixOrOperand(cx, st, e, pos), LAMBDA r : Operators(cx, r.st, e, r.pos, r.value, min_bp))

RECURSIVE Inner(_)
\* ParseValue::inner
Inner(v) == IF v.tag = "spanned" THEN Inner(v.kids[1]) ELSE v

\* A named value that is text can be referred to.
Captured(captures, name, v) == IF v.tag = "text" THEN With(captures, name, v.text) ELSE captures

match_named(cx, st, e, pos) ==
  IfOk(parse_expr(cx, st, e.kids[1], pos),
       LAMBDA r : [r EXCEPT !.value = NamedValue(e.name, r.value),
                            !.st.captures = Captured(@, e.name, Inner(r.value))])

match_no_trivia(cx, st, e, pos) ==
  [parse_expr(cx, [st EXCEPT !.trivia_on = FALSE], e, pos) EXCEPT !.st.trivia_on = st.trivia_on]

match_capture(cx, st, e, pos) ==
  IfOk(parse_expr(cx, st, e, pos), LAMBDA r : [r EXCEPT !.value = SpannedValue(@, pos, r.pos)])

match_eager(cx, st, e, pos) ==
  Handle(parse_expr(cx, st, e, pos), Same, LAMBDA r : Raise(r.st, r.pos))

LOOKBEHIND_MAX == 256

RECURSIVE LookBack(_, _, _, _, _)
\* Whether a match from a start at or before there ends at pos, and the state after trying.
LookBack(cx, st, e, pos, start) ==
  LET further(r) == IF start = 0 \/ start <= pos - LOOKBEHIND_MAX THEN Fail(r.st, pos)
                    ELSE LookBack(cx, r.st, e, pos, start - 1)
  IN Handle(parse_expr(cx, st, e, start),
            LAMBDA r : IF r.pos = pos THEN Succeed(r.st, pos, Nil) ELSE further(r), further)

match_look_behind(cx, st, e, pos) ==
  LET answer(r) == IF Ok(r) # e.negative THEN Succeed(Rollback(r.st, st), pos, Nil)
                   ELSE Fail(Rollback(r.st, st), pos)
  IN UnlessError(LookBack(cx, st, e.kids[1], pos, pos), answer)

-----------------------------------------------------------------------------
(* Rules *)

\* memo_insert: the outcome is kept unless the memo is full of others.
memo_insert(cx, r, key) ==
  IF key \in DOMAIN r.st.memo \/ Cardinality(DOMAIN r.st.memo) < cx.config.limit
  THEN [r EXCEPT !.st.memo = With(@, key, Outcome(r))]
  ELSE Raise(r.st, key[2])

\* The interval a rule examined is kept for those that will find it in the memo.
Examined(st, key, extent) == [st EXCEPT !.read_memo = With(@, key, extent)]

\* The body itself: a choice at its top may be dispatched.
Body(cx, st, rule, e, pos) ==
  IF rule \in DOMAIN cx.g.dispatch THEN match_choice_dispatched(cx, st, e.kids, pos, cx.g.dispatch[rule])
  ELSE IF e.op = "Choice" THEN match_choice(cx, st, e.kids, pos)
  ELSE parse_expr(cx, st, e, pos)

parse_rule_body(cx, st, rule, pos) ==
  LET left(r) == [r EXCEPT !.st = pop_read_frame([@ EXCEPT !.active = @ \ {<<rule, pos>>}])]
  IN UnlessError(Body(cx, push_read_frame([st EXCEPT !.active = @ \cup {<<rule, pos>>}], pos),
                      rule, cx.g.rules[rule], pos), left)

keep_peers(cx, st, rule, pos) == st

\* prune_left_recursive_peer_memos
prune_peers(cx, st, rule, pos) ==
  [st EXCEPT !.memo = Restrict(@, DOMAIN @ \ {<<peer, pos>> : peer \in cx.g.left_recursive \ {rule}})]

RECURSIVE Grow(_, _, _, _, _, _)
\* grow_left_recursive: the body again and again, each time on the best outcome so far,
\* until it gets no further.
Grow(cx, best, rule, pos, union, turns) ==
  LET key == <<rule, pos>>
      ended(r) == memo_insert(cx, [best EXCEPT !.st = Examined(r.st, key, Merge(union, r.st.last_read))], key)
      longer(r) == Grow(cx, r, rule, pos, Merge(union, r.st.last_read), turns - 1)
  IN IF turns = 0 THEN Raise(best.st, pos)
     ELSE Handle(parse_rule_body(cx, prune_peers(cx, best.st, rule, pos), rule, pos),
                 LAMBDA r : IF r.pos <= best.pos THEN ended(r) ELSE UnlessError(memo_insert(cx, r, key), longer),
                 ended)

GrowthTurns(cx, rule, pos) == (Len(cx.text) - pos) \div cx.g.min_step[rule] + 2

run_left_recursive_growth(cx, st, rule, pos) ==
  LET mark == <<cx.g.rule_scc[rule], pos>>
      grown(seed) == [Grow(cx, seed, rule, pos, [lo |-> pos, hi |-> pos], GrowthTurns(cx, rule, pos))
                        EXCEPT !.st.growing = @ \ {mark}]
  IN UnlessError(memo_insert(cx, Fail([st EXCEPT !.growing = @ \cup {mark}], pos), <<rule, pos>>), grown)

\* An entry of an earlier run is an outcome of this one.
FromSeed(cx, st, key) ==
  LET entry == cx.seed[key]
      extent == [lo |-> entry.lo, hi |-> entry.hi]
      r == [k |-> "success", pos |-> entry.end, value |-> entry.value, cut |-> entry.cut,
            st |-> Examined(merge_read(st, extent), key, extent)]
  IN memo_insert(cx, r, key)

FromMemo(st, key) ==
  Replayed(IF key \in DOMAIN st.read_memo THEN merge_read(st, st.read_memo[key]) ELSE st, st.memo[key])

\* What parse_rule_inner does with a rule at a position: a parameter of the innermost call
\* hides a rule of the same name; a rule entered again at its own position fails.
Route(cx, st, rule, pos) ==
  LET key == <<rule, pos>>
      recursive == rule \in cx.g.left_recursive
  IN IF st.params # <<>> /\ rule \in DOMAIN Last(st.params) THEN "argument"
     ELSE IF rule \notin DOMAIN cx.g.rules \/ (recursive /\ ~cx.config.memo) THEN "error"
     ELSE IF cx.config.memo /\ key \in DOMAIN st.memo THEN "memo"
     ELSE IF cx.config.memo /\ key \in DOMAIN cx.seed THEN "seed"
     ELSE IF key \in st.active THEN "reentered"
     ELSE IF recursive /\ <<cx.g.rule_scc[rule], pos>> \notin st.growing THEN "grow"
     ELSE "body"

parse_rule_inner(cx, st, rule, pos) ==
  LET route == Route(cx, st, rule, pos)
      key == <<rule, pos>>
      kept(r) == IF cx.config.memo THEN memo_insert(cx, r, key) ELSE r
      examined(r) == IF cx.config.memo THEN [r EXCEPT !.st = Examined(@, key, @.last_read)] ELSE r
  IN CASE route = "argument" -> parse_expr(cx, st, Last(st.params)[rule], pos)
       [] route = "error" -> Raise(st, pos)
       [] route = "memo" -> FromMemo(st, key)
       [] route = "seed" -> FromSeed(cx, st, key)
       [] route = "reentered" -> kept(Fail(st, pos))
       [] route = "grow" -> run_left_recursive_growth(cx, st, rule, pos)
       [] route = "body" -> UnlessError(parse_rule_body(cx, st, rule, pos), LAMBDA r : kept(examined(r)))

\* The frames that bind a parameter, innermost last.
Binding(st, name) == {i \in DOMAIN st.params : name \in DOMAIN st.params[i]}

match_parameter(cx, st, name, pos) ==
  IF Binding(st, name) = {} THEN Raise(st, pos)
  ELSE parse_expr(cx, st, st.params[Max(Binding(st, name))][name], pos)

\* An argument that is a parameter of the caller stands for what it is bound to.
resolve_arg_param(st, arg) ==
  IF arg.op = "Parameter" /\ Binding(st, arg.name) # {}
  THEN st.params[Max(Binding(st, arg.name))][arg.name] ELSE arg

match_call(cx, st, e, pos) ==
  LET names == cx.g.params[e.name]
      bound == 1..Min({Len(names), Len(e.args)})
      frame == [n \in {names[i] : i \in bound} |->
                  resolve_arg_param(st, e.args[CHOOSE i \in bound : names[i] = n])]
      r == parse_rule_inner(cx, [st EXCEPT !.params = Append(@, frame)], e.name, pos)
  IN [r EXCEPT !.st.params = st.params]

parse_expr_dispatch(cx, st, e, pos) ==
  CASE e.op = "Literal" -> match_literal(cx, st, pos, e.text)
    [] e.op = "Dot" -> match_char_class(cx, st, pos, {}, TRUE)
    [] e.op = "CharClass" -> match_char_class(cx, st, pos, e.chars, e.negated)
    [] e.op = "Recover" -> match_recover(cx, st, pos, e.syncs)
    [] e.op = "And" -> match_and(cx, st, e.kids[1], pos)
    [] e.op = "Not" -> match_not(cx, st, e.kids[1], pos)
    [] e.op = "Cut" -> [Succeed(st, pos, Nil) EXCEPT !.cut = TRUE]
    [] e.op = "Ref" -> parse_rule_inner(cx, st, e.name, pos)
    [] e.op = "Sequence" -> match_sequence(cx, st, e.kids, pos)
    [] e.op = "Choice" -> match_choice(cx, st, e.kids, pos)
    [] e.op = "Optional" -> match_optional(cx, st, e.kids[1], pos)
    [] e.op = "OneOrMore" -> match_one_or_more(cx, st, e.kids[1], pos)
    [] e.op = "ZeroOrMore" -> match_zero_or_more(cx, st, e.kids[1], pos)
    [] e.op = "Repeat" -> match_repeat(cx, st, e, pos)
    [] e.op = "Precedence" -> parse_precedence_bp(cx, st, e, pos, 1)
    [] e.op \in {"SepOneOrMore", "Interspersed"} -> match_separated(cx, st, e, pos)
    [] e.op = "Named" -> match_named(cx, st, e, pos)
    [] e.op = "NoTrivia" -> match_no_trivia(cx, st, e.kids[1], pos)
    [] e.op = "Capture" -> match_capture(cx, st, e.kids[1], pos)
    [] e.op = "Island" -> match_island(cx, st, pos, e.open, e.close)
    [] e.op = "RawBlock" -> match_raw_block(cx, st, pos, e.open, e.close)
    [] e.op = "Eager" -> match_eager(cx, st, e.kids[1], pos)
    [] e.op = "LookBehind" -> match_look_behind(cx, st, e, pos)
    [] e.op = "Backref" -> match_backref(cx, st, pos, e.name)
    [] e.op = "Parameter" -> match_parameter(cx, st, e.name, pos)
    [] e.op = "Call" -> match_call(cx, st, e, pos)
    [] e.op = "HardKeyword" -> match_hard_keyword(cx, st, pos, e.text)

\* Budgets of depth and of steps are spent on every expression.
parse_expr(cx, st, e, pos) ==
  IF st.depth >= cx.config.max_depth \/ st.steps >= cx.config.max_steps THEN Raise(st, pos)
  ELSE [parse_expr_dispatch(cx, [st EXCEPT !.depth = @ + 1, !.steps = @ + 1], e, pos) EXCEPT !.st.depth = @ - 1]

\* export_memo: the successes, with what they examined.
export_memo(st) ==
  [key \in {key \in DOMAIN st.memo : st.memo[key].k = "success"} |->
     LET o == st.memo[key]
         read == IF key \in DOMAIN st.read_memo THEN st.read_memo[key] ELSE [lo |-> key[2], hi |-> o.pos]
     IN [end |-> o.pos, value |-> o.value, cut |-> o.cut,
         lo |-> Min({read.lo, key[2]}), hi |-> Max({read.hi, o.pos})]]
=============================================================================
