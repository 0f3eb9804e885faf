-------------------------- MODULE MCDebugController --------------------------
(* Instances of DebugController: two lines of the focus file and one of a library. *)
EXTENDS DebugController

CONSTANTS p1, p2, q1, f1, f2, fn

MCPlace == {p1, p2, q1}
MCFile == {f1, f2}
MCFileOf == [p \in MCPlace |-> IF p = q1 THEN f2 ELSE f1]
MCFn == {fn}

Moves == {[c |-> "move", move |-> m] : m \in Move}
Plain == [log |-> FALSE, hit |-> "any", n |-> 0, conditional |-> FALSE]
Second == [log |-> FALSE, hit |-> "eq", n |-> 2, conditional |-> TRUE]
Log == [log |-> TRUE, hit |-> "any", n |-> 0, conditional |-> FALSE]

\* Stepping, among line and function breakpoints.
SteppingCommands ==
  Moves \cup
  {[c |-> "setBreakpoints", file |-> f1,
    specs |-> [p \in MCPlace |-> IF p = p1 THEN b ELSE None]] : b \in {Plain, Second, Log}} \cup
  {[c |-> "setFunctionBreakpoints", names |-> {fn}]}

\* Exceptions, data breakpoints and edits.
WatchCommands ==
  {[c |-> "move", move |-> m] : m \in {"continue", "stepIn"}} \cup
  {[c |-> "setExceptionBreak", on |-> b] : b \in BOOLEAN} \cup
  {[c |-> "setDataBreakpoints", on |-> b] : b \in BOOLEAN} \cup
  {[c |-> "setVariable", value |-> v] : v \in Val} \cup
  {[c |-> "disconnect"]}

\* Leaving, at a stop or while the program runs.
LeavingCommands ==
  {[c |-> "move", move |-> m] : m \in {"continue", "stepIn"}} \cup
  {[c |-> "setExceptionBreak", on |-> TRUE], [c |-> "disconnect"]}

Session(commands, entry, values, vanishes, depth, queue) ==
  [commands |-> commands, stopOnEntry |-> entry, values |-> values, vanishes |-> vanishes,
   depth |-> depth, queue |-> queue]

MCSessions == {Session(SteppingCommands, TRUE, {0}, FALSE, 2, 1),
               Session(WatchCommands, FALSE, {0, 1}, FALSE, 0, 1),
               Session(LeavingCommands, FALSE, {0}, TRUE, 0, 2)}

=============================================================================
