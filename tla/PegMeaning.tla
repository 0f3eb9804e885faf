------------------------------- MODULE PegMeaning ------------------------------
(***************************************************************************)
(* What a grammar means, apart from how it is evaluated: the operational    *)
(* semantics of docs/peg/SPECIFICATION.md (sections 5.1, 6, 9 and 10), with *)
(* no memo, no dispatch, no budgets and nothing kept from earlier runs.     *)
(* A left-recursive rule means the last of its growing matches.             *)
(*                                                                          *)
(* An environment holds the trivia in force, the named texts, the argument  *)
(* bound to each parameter and the outcomes of the rules being grown.       *)
(***************************************************************************)
EXTENDS PegEngine

Matched(pos, value) == [k |-> "success", pos |-> pos, value |-> value, cut |-> FALSE, names |-> <<>>]
NoMatch == [k |-> "failure", pos |-> 0, value |-> Nil, cut |-> FALSE, names |-> <<>>]
HardError == [k |-> "error", pos |-> 0, value |-> Nil, cut |-> FALSE, names |-> <<>>]

RECURSIVE Means(_, _, _, _)

\* The first position at or after pos that is not trivia.
SkipTo(cx, env, pos) == Min({p \in pos..Len(cx.text) : AtEnd(cx, p) \/ CharAt(cx, p) \notin env.trivia})

Literally(cx, p, s) == IF StartsWith(cx, p, s) THEN Matched(p + Len(s), Text(s)) ELSE NoMatch

\* The environment after a match: what it named is named.
Then(env, r) == [env EXCEPT !.names = r.names @@ env.names]
\* A match of which an earlier one is a part.
After(earlier, r) == [r EXCEPT !.names = r.names @@ earlier.names]
Ends(r, pos) == Ok(r) /\ r.pos = pos
Uncut(r) == [r EXCEPT !.cut = FALSE]

RECURSIVE MeansAll(_, _, _, _, _)
MeansAll(cx, env, items, pos, values) ==
  LET followed(r, rest) == IF rest.k = "failure" THEN [rest EXCEPT !.cut = @ \/ r.cut] ELSE After(r, rest)
      first(r) == followed(r, MeansAll(cx, Then(env, r), Tail(items), r.pos,
                                       IF r.cut THEN values ELSE Append(values, r.value)))
  IN IF items = <<>> THEN Matched(pos, sequence_value(values))
     ELSE Handle(Means(cx, env, Head(items), pos), first, Uncut)

RECURSIVE MeansFirst(_, _, _, _)
MeansFirst(cx, env, alts, pos) ==
  IF alts = <<>> THEN NoMatch
  ELSE Handle(Means(cx, env, Head(alts), pos), Same,
              LAMBDA r : IF r.cut THEN r ELSE MeansFirst(cx, env, Tail(alts), pos))

RECURSIVE MeansMany(_, _, _, _, _, _)
\* Turn after turn of e that advances, at most so many; the values are those of the turns.
MeansMany(cx, env, e, pos, values, most) ==
  IF Len(values) = most THEN Matched(pos, values)
  ELSE Handle(Means(cx, env, e, pos),
              LAMBDA r : IF r.pos = pos THEN Matched(pos, values)
                         ELSE After(r, MeansMany(cx, Then(env, r), e, r.pos, Append(values, r.value), most)),
              LAMBDA r : Matched(pos, values))

Listed(turns, tag, least) ==
  IfOk(turns, LAMBDA r : IF Len(r.value) < least THEN NoMatch ELSE [r EXCEPT !.value = Node(tag, @)])

RECURSIVE MeansSeparated(_, _, _, _, _)
MeansSeparated(cx, env, e, pos, values) ==
  LET pair == Many("Sequence", <<One("Capture", e.kids[2]), One("Capture", e.kids[1])>>)
      kept(v) == IF e.op = "Interspersed" THEN <<v.kids[1].kids[1], v.kids[2].kids[1]>> ELSE <<v.kids[2].kids[1]>>
  IN Handle(Means(cx, env, pair, pos),
            LAMBDA r : After(r, MeansSeparated(cx, Then(env, r), e, r.pos, values \o kept(r.value))),
            LAMBDA r : Matched(pos, values))

\* A rule that is being grown here already means what it has grown to; its peers mean
\* their bodies.  Otherwise it is grown for as long as it gets longer.
RECURSIVE MeansGrown(_, _, _, _, _)
MeansGrown(cx, env, rule, pos, best) ==
  Handle(Means(cx, [env EXCEPT !.grown = With(@, <<rule, pos>>, best)], cx.g.rules[rule], pos),
         LAMBDA r : IF best.k = "failure" \/ r.pos > best.pos THEN MeansGrown(cx, env, rule, pos, r) ELSE best,
         LAMBDA r : best)

MeansRule(cx, env, rule, pos) ==
  IF <<rule, pos>> \in DOMAIN env.grown THEN env.grown[<<rule, pos>>]
  ELSE IF rule \in cx.g.left_recursive
          /\ \A peer \in cx.g.rule_scc[rule] : <<peer, pos>> \notin DOMAIN env.grown
  THEN MeansGrown(cx, env, rule, pos, NoMatch)
  ELSE Means(cx, env, cx.g.rules[rule], pos)

MeansCall(cx, env, e, pos) ==
  LET names == cx.g.params[e.name]
      value(arg) == IF arg.op = "Parameter" THEN env.params[arg.name] ELSE arg
      frame == [n \in Range(names) |-> value(e.args[CHOOSE i \in DOMAIN names : names[i] = n])]
  IN MeansRule(cx, [env EXCEPT !.params = frame @@ @], e.name, pos)

\* The text between an opening delimiter and the first of the places where it may close.
Enclosed(cx, p, e, closes) ==
  IF ~StartsWith(cx, p, e.open) \/ closes = {} THEN NoMatch
  ELSE Matched(Min(closes) + Len(e.close), Text(Slice(cx, p + Len(e.open), Min(closes))))

\* Where a delimiter closes as many blocks as have been opened since (for delimiters of
\* one character each).
Balanced(cx, from, e) ==
  {i \in Finds(cx, from, e.close) :
     Cardinality({j \in Finds(cx, from, e.open) : j < i}) = Cardinality({j \in Finds(cx, from, e.close) : j < i})}

RECURSIVE MeansLayer(_, _, _, _, _)
RECURSIVE MeansChain(_, _, _, _, _, _)
\* One of the operators of a level.
OperatorOf(cx, env, e, l, pos) == MeansFirst(cx, env, e.levels[l].operators, pos)

\* Operands of the next level, chained by the operators of this one from left to right.
MeansChain(cx, env, e, l, pos, lhs) ==
  LET binop(op, rhs) == Node("binop", <<lhs, op.value, rhs.value>>)
      right(op, rhs) ==
        IF e.levels[l].fixity = "InfixLeft" THEN MeansChain(cx, env, e, l, rhs.pos, binop(op, rhs))
        ELSE Handle(OperatorOf(cx, env, e, l, rhs.pos), LAMBDA again : NoMatch,     \* InfixNon
                    LAMBDA none : Matched(rhs.pos, binop(op, rhs)))
  IN Handle(OperatorOf(cx, env, e, l, pos),
            LAMBDA op : IF e.levels[l].fixity = "Postfix"
                        THEN MeansChain(cx, env, e, l, op.pos, Node("unary_postfix", <<lhs, op.value>>))
                        ELSE IfOk(MeansLayer(cx, env, e, l + 1, op.pos), LAMBDA rhs : right(op, rhs)),
            LAMBDA none : Matched(pos, lhs))

\* Precedence as a grammar with one rule for each level, loosest first (each operator of
\* one level only, prefix operators tightest).
MeansLayer(cx, env, e, l, pos) ==
  LET level == e.levels[l]
      operand == MeansLayer(cx, env, e, l + 1, pos)
      prefixed(op) == IfOk(MeansLayer(cx, env, e, l, op.pos), LAMBDA own :
                        Matched(own.pos, Node("unary_prefix", <<op.value, own.value>>)))
      infix(first, op) == IfOk(MeansLayer(cx, env, e, l, op.pos), LAMBDA own :
                            Matched(own.pos, Node("binop", <<first.value, op.value, own.value>>)))
      ternary(first, op) ==
        IfOk(MeansLayer(cx, env, e, 1, op.pos), LAMBDA then :
          IfOk(Means(cx, env, level.operators[2], then.pos), LAMBDA close :
            IfOk(MeansLayer(cx, env, e, l, close.pos), LAMBDA else :
              Matched(else.pos, Node("ternary", <<first.value, then.value, else.value>>)))))
      continued(first) ==
        CASE level.fixity = "InfixRight" ->
               Handle(OperatorOf(cx, env, e, l, first.pos), LAMBDA op : infix(first, op), LAMBDA none : first)
          [] level.fixity = "Ternary" ->
               Handle(Means(cx, env, level.operators[1], first.pos), LAMBDA op : ternary(first, op),
                      LAMBDA none : first)
          [] OTHER -> MeansChain(cx, env, e, l, first.pos, first.value)
  IN IF l > Len(e.levels) THEN Means(cx, env, e.kids[1], pos)
     ELSE IF level.fixity = "Prefix" THEN Handle(OperatorOf(cx, env, e, l, pos), prefixed, LAMBDA none : operand)
     ELSE IfOk(operand, continued)

\* Forms that match no other expression.
MeansTerminal(cx, env, e, p) ==
  CASE e.op = "Literal" -> Literally(cx, p, e.text)
    [] e.op = "HardKeyword" ->
         IF ~AtEnd(cx, p + Len(e.text)) /\ CharAt(cx, p + Len(e.text)) \in WordChars THEN NoMatch
         ELSE Literally(cx, p, e.text)
    [] e.op = "Dot" -> IF AtEnd(cx, p) THEN NoMatch ELSE Matched(p + 1, Text(<<CharAt(cx, p)>>))
    [] e.op = "CharClass" ->
         IF AtEnd(cx, p) \/ (CharAt(cx, p) \in e.chars) = e.negated THEN NoMatch
         ELSE Matched(p + 1, Text(<<CharAt(cx, p)>>))
    [] e.op = "Backref" -> IF e.name \in DOMAIN env.names THEN Literally(cx, p, env.names[e.name]) ELSE NoMatch
    [] e.op = "Island" -> Enclosed(cx, p, e, Finds(cx, p + Len(e.open), e.close))
    [] e.op = "RawBlock" ->
         LET r == Enclosed(cx, p, e, Balanced(cx, p + Len(e.open), e))
         IN IF StartsWith(cx, p, e.open) /\ ~Ok(r) THEN HardError ELSE r

Terminals == {"Literal", "HardKeyword", "Dot", "CharClass", "Backref", "Island", "RawBlock"}

MeansRecover(cx, e, pos) ==
  LET ends == UNION {{i + Len(s) : i \in Finds(cx, pos, s)} : s \in e.syncs}
      end == Min(ends \cup {Len(cx.text)})
  IN IF AtEnd(cx, pos) THEN NoMatch
     ELSE Matched(end, Node("<recovered>", <<Text(Slice(cx, pos, end))>>))

\* One match, and the turns after it.
MeansSome(first, tag, More(_)) == IfOk(first, LAMBDA r : After(r, Listed(More(r), tag, 1)))

Means(cx, env, e, pos) ==
  LET child == Means(cx, env, e.kids[1], pos)
  IN CASE e.op \in Terminals -> MeansTerminal(cx, env, e, SkipTo(cx, env, pos))
       [] e.op = "Recover" -> MeansRecover(cx, e, pos)
       [] e.op = "Precedence" -> MeansLayer(cx, env, e, 1, pos)
       [] e.op = "Cut" -> [Matched(pos, Nil) EXCEPT !.cut = TRUE]
       [] e.op = "Sequence" -> MeansAll(cx, env, e.kids, pos, <<>>)
       [] e.op = "Choice" -> MeansFirst(cx, env, e.kids, pos)
       [] e.op = "Optional" -> Handle(child, Uncut, LAMBDA r : Matched(pos, Nil))
       [] e.op = "ZeroOrMore" -> Listed(MeansMany(cx, env, e.kids[1], pos, <<>>, Unbounded(cx)), "zero_or_more", 0)
       [] e.op = "OneOrMore" ->
            MeansSome(child, "one_or_more", LAMBDA r :
              MeansMany(cx, Then(env, r), e.kids[1], r.pos, <<r.value>>, Unbounded(cx)))
       [] e.op = "Repeat" ->
            Listed(MeansMany(cx, env, e.kids[1], pos, <<>>, IF e.max = -1 THEN Unbounded(cx) ELSE e.max),
                   "repeat", e.min)
       [] e.op \in {"SepOneOrMore", "Interspersed"} ->
            MeansSome(child, IF e.op = "Interspersed" THEN "interspersed" ELSE "sep_one_or_more", LAMBDA r :
              MeansSeparated(cx, Then(env, r), e, r.pos, <<r.value>>))
       [] e.op = "And" -> Handle(child, LAMBDA r : Matched(pos, Nil), Uncut)
       [] e.op = "Not" -> Handle(child, LAMBDA r : NoMatch, LAMBDA r : Matched(pos, Nil))
       [] e.op = "LookBehind" ->
            IF (\E s \in 0..pos : Ends(Means(cx, env, e.kids[1], s), pos)) # e.negative
            THEN Matched(pos, Nil) ELSE NoMatch
       [] e.op = "Eager" -> Handle(child, Same, LAMBDA r : HardError)
       [] e.op = "NoTrivia" -> Means(cx, [env EXCEPT !.trivia = {}], e.kids[1], pos)
       [] e.op = "Capture" -> IfOk(child, LAMBDA r : [r EXCEPT !.value = SpannedValue(@, pos, r.pos)])
       [] e.op = "Named" ->
            IfOk(child, LAMBDA r : [r EXCEPT !.value = NamedValue(e.name, @),
                                             !.names = Captured(@, e.name, Inner(r.value))])
       [] e.op = "Ref" -> IF e.name \in DOMAIN env.params THEN Means(cx, env, env.params[e.name], pos)
                          ELSE MeansRule(cx, env, e.name, pos)
       [] e.op = "Parameter" -> Means(cx, env, env.params[e.name], pos)
       [] e.op = "Call" -> MeansCall(cx, env, e, pos)

\* What a rule means at a position of a text, outside any call.
Meaning(g, text, rule, pos) ==
  MeansRule([g |-> g, text |-> text],
            [trivia |-> g.trivia, names |-> <<>>, params |-> <<>>, grown |-> <<>>], rule, pos)

\* The value a text parses to, or that it does not parse.
Parsed(g, text) ==
  LET trailing(p) == \E q \in p..(Len(text) - 1) : text[q + 1] \notin g.trivia
      read(r) == IF Ok(r) /\ ~trailing(r.pos) THEN [ok |-> TRUE, value |-> r.value] ELSE [ok |-> FALSE, value |-> Nil]
  IN read(Meaning(g, text, g.start, 0))
=============================================================================
