--------------------------------- MODULE MCPeg ---------------------------------
(***************************************************************************)
(* Small grammars and short texts for PegParse.  Between them the grammars  *)
(* use every form of expression.  A text ends with "$", which is part of    *)
(* its grammar, so that no rule but the start rule meets the end of input.  *)
(***************************************************************************)
EXTENDS PegParse

Char(c) == Lit(<<c>>)
Sq(es) == Many("Sequence", es)
Ch(es) == Many("Choice", es)

\* A grammar whose rules have no parameters.
Plain(rules, order, trivia) ==
  [start |-> "S", rules |-> rules, order |-> order, params |-> [r \in DOMAIN rules |-> <<>>], trivia |-> trivia]

List == Plain(
  [S |-> Sq(<<Many("SepOneOrMore", <<Ref("Item"), Char(",")>>), Char("$")>>),
   Item |-> One("Capture", Ch(<<Named("l", Char("a")), Char("b")>>))],
  <<"S", "Item">>, {" "})

Words == Plain(
  [S |-> Sq(<<One("OneOrMore", Ref("W")), Char("$")>>),
   W |-> Ch(<<Ref("K"), One("Capture", Ref("I"))>>),
   K |-> Keyword(<<"a", "b">>),
   I |-> One("NoTrivia", Sq(<<One("Not", Ref("K")), One("OneOrMore", CharClass({"a", "b"}, FALSE))>>))],
  <<"S", "W", "K", "I">>, {})

Sums == Plain(
  [S |-> Sq(<<Ref("E"), Char("$")>>),
   E |-> Ch(<<Sq(<<Ref("E"), Char("+"), Ref("T")>>), Ref("T")>>),
   T |-> Ch(<<Sq(<<Char("("), Ref("E"), Char(")")>>), One("Capture", Char("a"))>>)],
  <<"S", "E", "T">>, {})

\* Two rules that are left recursive through each other.
Mutual == Plain(
  [S |-> Sq(<<Ref("A"), Char("$")>>),
   A |-> Ch(<<Sq(<<Ref("B"), Char("x")>>), Char("a")>>),
   B |-> Ch(<<Sq(<<Ref("A"), Char("y")>>), Char("b")>>)],
  <<"S", "A", "B">>, {})

Quotes == Plain(
  [S |-> Sq(<<One("OneOrMore", Ref("Q")), Char("$")>>),
   Q |-> Ch(<<Sq(<<Named("q", CharClass({"a", "b"}, FALSE)), One("ZeroOrMore", Char("x")), Backref("q")>>),
              Sq(<<Named("q", Dot), Char("b"), Backref("q")>>)>>)],
  <<"S", "Q">>, {})

Level(fixity, ops) == [fixity |-> fixity, operators |-> ops]
Operations == Plain(
  [S |-> Sq(<<Precedence(Char("a"),
                 <<Level("Ternary", <<Char("?"), Char(":")>>), Level("InfixRight", <<Char("=")>>),
                   Level("InfixNon", <<Char("<")>>), Level("InfixLeft", <<Char("+"), Char("*")>>),
                   Level("Postfix", <<Char("!")>>), Level("Prefix", <<Char("-")>>)>>), Char("$")>>)],
  <<"S">>, {})

\* A statement commits after its keyword; what is not one is skipped to the next mark.
Statements == Plain(
  [S |-> Sq(<<One("ZeroOrMore", Ch(<<Ref("D"), Ref("R")>>)), Char("$")>>),
   D |-> Ch(<<Sq(<<Char("x"), Commit, Ref("V"), Char(";")>>), Sq(<<Char("x"), Char("c"), Char(";")>>),
              Sq(<<Ref("V"), One("Eager", Char(";"))>>)>>),
   V |-> Repeat(CharClass({"a", "b"}, FALSE), 1, 2),
   R |-> Sq(<<One("Not", Char("$")), Recover({<<";">>})>>)],
  <<"S", "D", "V", "R">>, {})

\* Blocks, what stands before them, and lists that keep their separators.
Blocks == Plain(
  [S |-> Sq(<<Many("Interspersed", <<Ref("P"), Char(",")>>), Ref("Z"), Char("$")>>),
   P |-> Ch(<<Ref("N"), Island(<<"(">>, <<")">>), RawBlock(<<"{">>, <<"}">>), Ref("V")>>),
   N |-> Sq(<<One("And", Char("{")), LookBehind(Char(","), FALSE), RawBlock(<<"{">>, <<"}">>)>>),
   V |-> Sq(<<CharClass({"$", ",", "(", "{", "!"}, TRUE), LookBehind(Char("b"), TRUE)>>),
   Z |-> One("Optional", Sq(<<LookBehind(Char("}"), FALSE), Char("!")>>))],
  <<"S", "P", "N", "V", "Z">>, {})

\* A rule with a parameter, called at different places only.
Pairs == [
  start |-> "S", order |-> <<"S", "P", "X">>, trivia |-> {" "},
  rules |-> [S |-> Sq(<<Call("P", <<Char("a")>>), Call("P", <<Ref("X")>>), Char("$")>>),
             P |-> Sq(<<Char("("), Ch(<<Sq(<<Parameter("p"), Call("P", <<Parameter("p")>>)>>), Ref("p")>>), Char(")")>>),
             X |-> Ch(<<Char("a"), Char("b")>>)],
  params |-> [S |-> <<>>, P |-> <<"p">>, X |-> <<>>]]

MCGrammars ==
  [List |-> List, Words |-> Words, Sums |-> Sums, Mutual |-> Mutual, Quotes |-> Quotes,
   Operations |-> Operations, Statements |-> Statements, Blocks |-> Blocks, Pairs |-> Pairs]

\* A caller of one grammar.
Caller(name, calls_made, texts) ==
  [grammars |-> {name}, texts |-> texts, spans |-> {FALSE}, calls |-> calls_made, limit |-> 64]

\* Every text of at most n characters.
Over(chars, n) == {Append(t, "$") : t \in UNION {[1..k -> chars] : k \in 0..n}}

ListTexts ==
  {<<"a", "$">>, <<"a", ",", "b", "$">>, <<"b", ",", " ", "b", "$">>, <<"a", ",", "a", ",", "b", "$">>,
   <<"a", ",", ",", "b", "$">>}
SumTexts ==
  {<<"a", "$">>, <<"a", "+", "a", "$">>, <<"a", "+", "a", "+", "a", "$">>, <<"(", "a", ")", "+", "a", "$">>,
   <<"a", "+", "(", "a", ")", "$">>, <<"a", "+", "$">>}

MCScenarios ==
  [list |-> Caller("List", 3, ListTexts),
   words |-> Caller("Words", 2, Over({"a", "b"}, 4)),
   sums |-> Caller("Sums", 3, SumTexts),
   mutual |-> Caller("Mutual", 1, Over({"a", "b", "x", "y"}, 3)),
   chains |-> Caller("Mutual", 3,
     {<<"a", "$">>, <<"b", "x", "$">>, <<"a", "y", "x", "$">>, <<"b", "x", "y", "x", "$">>, <<"a", "y", "x", "y", "$">>,
      <<"a", "y", "x", "y", "x", "$">>, <<"a", "y", "x", "y", "x", "y", "x", "$">>}),
   quotes |-> Caller("Quotes", 2, Over({"a", "b", "x"}, 3)),
   operations |-> Caller("Operations", 1,
     {<<"a", "+", "a", "*", "a", "$">>, <<"a", "=", "a", "=", "a", "$">>, <<"a", "<", "a", "$">>,
      <<"a", "<", "a", "<", "a", "$">>, <<"-", "a", "!", "+", "a", "$">>, <<"a", "?", "a", ":", "a", "$">>,
      <<"a", "<", "a", "+", "a", "=", "a", "$">>, <<"a", "?", "a", "$">>, <<"a", "+", "$">>}),
   statements |-> Caller("Statements", 3,
     {<<"x", "a", ";", "$">>, <<"x", "c", ";", "$">>, <<"a", "b", ";", "x", "b", ";", "$">>,
      <<"a", "b", "a", ";", "$">>, <<"x", "c", ";", "b", ";", "$">>, <<"c", "c", ";", "$">>, <<"c", ";", "a", ";", "$">>}),
   blocks |-> Caller("Blocks", 3,
     {<<"{", "a", "}", "$">>, <<"{", "{", "a", "}", "}", "!", "$">>, <<"a", ",", "{", "a", "}", "!", "$">>,
      <<"(", "a", ")", ",", "a", "$">>, <<"b", ",", "a", "$">>, <<"{", "a", "$">>}),
   pairs |-> Caller("Pairs", 3,
     {<<"(", "a", ")", "(", "b", ")", "$">>, <<"(", "a", ")", " ", "(", "a", ")", "$">>,
      <<"(", "a", "(", "a", ")", ")", "(", "b", ")", "$">>, <<"(", "b", ")", "(", "b", ")", "$">>}),
   \* one cache for two grammars and both settings of return_spans
   shared |-> [Caller("List", 3, {<<"a", "$">>, <<"b", ",", "b", "$">>})
                 EXCEPT !.grammars = {"List", "Sums"}, !.spans = BOOLEAN],
   \* room for hardly more entries than one run makes
   small |-> [Caller("List", 3, {<<"a", ",", "b", "$">>, <<"a", ",", "b", ",", "a", "$">>, <<"b", ",", "a", "$">>})
                EXCEPT !.limit = 4]]

\* A text grows at its end, with no "$" to close it.
Letters == Plain([S |-> One("OneOrMore", CharClass({"a", "b"}, FALSE))], <<"S">>, {})

AppendGrammars == [Letters |-> Letters]
AppendScenarios == [append |-> Caller("Letters", 2, {<<"a">>, <<"a", "b">>, <<"b", "b">>})]
=============================================================================
