--------------------------- MODULE DebugController ---------------------------
(***************************************************************************)
(* The debug controller (caap-dap/src/controller/mod.rs): the hook the     *)
(* evaluator calls before each node, around each call and on each error.   *)
(* It decides where to pause, and while paused takes the client's          *)
(* commands.  The program is any sequence of nodes, calls, errors and      *)
(* writes to one watched variable that the evaluator can produce.          *)
(* A place is a file and line; conditions are whatever the program makes   *)
(* them.  Commands are those the client may send in a given instance.      *)
(***************************************************************************)
EXTENDS Naturals, Sequences, SequencesExt

CONSTANTS
  Place,        \* source lines
  File,         \* source files
  FileOf,       \* the file of each line, or None (a span without a path)
  Focus,        \* the user's program file, or None (bootstrap mode)
  Fn,           \* function names
  Val,          \* values of the watched variable
  Sessions,     \* the debugging sessions (see Session)
  MaxHits,      \* bound: hits counted per line
  None          \* absence of a value

ASSUME ControllerConstants ==
  /\ FileOf \in [Place -> File \cup {None}]
  /\ Focus \in File \cup {None}
  /\ MaxHits \in Nat
  /\ None \notin Place \cup File \cup Fn \cup Val

VARIABLES
  session,             \* which session this is
  pc,                  \* "running", "paused", "unwound" or "finished"
  config,              \* what the client's commands set (see Config)
  mode,                \* step mode and its target depth
  frames,              \* number of call frames
  prev_line,           \* line of the previous node, or None
  stopped_once,        \* whether a node has paused
  error_paused,        \* whether the error in flight has paused
  break_at_next_node,  \* armed by entering a function breakpoint
  from_dap,            \* the command channel
  connected,           \* whether its sender is alive
  value,               \* the watched variable
  error,               \* whether an error is propagating
  reason,              \* why the last pause happened, or None
  asked,               \* the last movement command and the depth it was given at
  wrote,               \* whether the program wrote since the last baseline
  errorPauses          \* pauses for the error in flight

evaluator == <<value, error, wrote>>
vars == <<session, pc, config, mode, frames, prev_line, stopped_once, error_paused,
          break_at_next_node, from_dap, connected, evaluator, reason, asked, errorPauses>>

Reason == {"data", "function", "breakpoint", "entry", "step", "exception", "none"}
Move   == {"continue", "stepIn", "next", "stepOut"}
Bp     == [log : BOOLEAN, hit : {"any", "eq", "gt", "ge", "mod", "never"}, n : 0..MaxHits,
           conditional : BOOLEAN]

\* The controller's settings, and what it has counted or observed under them.
Config ==
  [breakpoints : [Place -> Bp \cup {None}], hit_counts : [Place -> 0..MaxHits],
   exception_break : BOOLEAN, fn_breakpoints : SUBSET Fn,
   watching : BOOLEAN, watch_value : Val \cup {None}, aborted : BOOLEAN]

\* A session: the commands its client may send, the launch argument
\* stopOnEntry, the values its program writes, whether the client may vanish,
\* and two bounds, on nested calls and on commands waiting in the channel.
Commands    == session.commands
StopOnEntry == session.stopOnEntry
Values      == session.values
MaxDepth    == session.depth
MaxQueue    == session.queue

\* Every variable has its type.
TypeOK ==
  /\ session \in Sessions
  /\ pc \in {"running", "paused", "unwound", "finished"}
  /\ config \in Config
  /\ mode \in [kind : Move, target : Nat]
  /\ frames \in 1..(MaxDepth + 1)
  /\ prev_line \in Place \cup {None}
  /\ {stopped_once, error_paused, break_at_next_node, connected, error, wrote} \subseteq BOOLEAN
  /\ from_dap \in Seq(Commands)
  /\ value \in Val
  /\ reason \in Reason
  /\ asked \in [move : Move, depth : Nat]
  /\ errorPauses \in Nat

Init ==
  /\ session \in Sessions
  /\ pc = "running"
  /\ config = [breakpoints |-> [p \in Place |-> None], hit_counts |-> [p \in Place |-> 0],
               exception_break |-> FALSE, fn_breakpoints |-> {},
               watching |-> FALSE, watch_value |-> None, aborted |-> FALSE]
  /\ mode = [kind |-> IF StopOnEntry THEN "stepIn" ELSE "continue", target |-> 0]
  /\ frames = 1
  /\ prev_line = None
  /\ stopped_once = FALSE /\ error_paused = FALSE /\ break_at_next_node = FALSE
  /\ from_dap = <<>> /\ connected = TRUE
  /\ value \in Values /\ error = FALSE /\ wrote = FALSE
  /\ reason = "none"
  /\ asked = [move |-> mode.kind, depth |-> 0]
  /\ errorPauses = 0

-----------------------------------------------------------------------------
(* The client *)

Send ==
  /\ connected /\ Len(from_dap) < MaxQueue /\ pc \in {"running", "paused"}
  /\ \E command \in Commands : from_dap' = Append(from_dap, command)
  /\ UNCHANGED <<pc, config, mode, frames, prev_line, stopped_once, error_paused,
                 break_at_next_node, connected, evaluator, reason, asked, errorPauses>>

\* The loop drops its sender (a second launch).
HangUp ==
  /\ session.vanishes /\ connected /\ pc \in {"running", "paused"}
  /\ connected' = FALSE
  /\ UNCHANGED <<pc, config, mode, frames, prev_line, stopped_once, error_paused,
                 break_at_next_node, from_dap, evaluator, reason, asked, errorPauses>>

-----------------------------------------------------------------------------
(* Settings *)

\* A file's breakpoints are replaced as a whole and their hits forgotten.
set_breakpoints(c, file, specs) ==
  [c EXCEPT !.breakpoints = [p \in Place |-> IF FileOf[p] = file THEN specs[p] ELSE @[p]],
            !.hit_counts = [p \in Place |-> IF FileOf[p] = file THEN 0 ELSE @[p]]]

set_data_breakpoints(c, on) == [c EXCEPT !.watching = on, !.watch_value = None]

\* What a command does to the settings.  Movement and inspection do nothing to
\* them; set_variable is in the pause loop only.
Apply(c, command) ==
  CASE command.c = "setBreakpoints" -> set_breakpoints(c, command.file, command.specs)
    [] command.c = "setExceptionBreak" -> [c EXCEPT !.exception_break = command.on]
    [] command.c = "setFunctionBreakpoints" -> [c EXCEPT !.fn_breakpoints = command.names]
    [] command.c = "setDataBreakpoints" -> set_data_breakpoints(c, command.on)
    [] command.c = "disconnect" -> [c EXCEPT !.aborted = TRUE]
    [] OTHER -> c

\* drain_commands: every queued command is taken; movement and inspection are lost.
drain_commands(c) == FoldLeft(Apply, c, from_dap)

-----------------------------------------------------------------------------
(* The decision to pause *)

\* The forms of a hit condition; "never" is a comparison with no number.
hit_condition_met(bp, count) ==
  CASE bp.hit = "any" -> TRUE
    [] bp.hit = "eq"  -> count = bp.n
    [] bp.hit = "gt"  -> count > bp.n
    [] bp.hit = "ge"  -> count >= bp.n
    [] bp.hit = "mod" -> count % (IF bp.n = 0 THEN 1 ELSE bp.n) = 0
    [] OTHER -> FALSE

\* A logpoint never stops and is not counted; a hit is counted before its
\* conditions are looked at.
breakpoint_should_stop(bp, count, truth) ==
  /\ ~bp.log
  /\ hit_condition_met(bp, count)
  /\ bp.conditional => truth

entered_new_line(p) ==
  IF FileOf[p] = None THEN prev_line = None ELSE prev_line # p

in_focus(p) == FileOf[p] # None /\ Focus \in {None, FileOf[p]}

\* The step mode asks for a stop at the current depth.
StepWanted ==
  CASE mode.kind = "stepIn"  -> TRUE
    [] mode.kind = "next"    -> frames <= mode.target
    [] mode.kind = "stepOut" -> frames < mode.target
    [] OTHER -> FALSE

\* pause clears the references of the previous stop, reports the stop and blocks.
pause(why) == pc' = "paused" /\ reason' = why

Unwind == pc' = "unwound" /\ UNCHANGED reason

\* on_node.  truth is the value of the breakpoint's condition here, visible
\* whether the watched expression can be evaluated here.
on_node(p, truth, visible) ==
  LET c == drain_commands(config)
      bp == IF entered_new_line(p) /\ FileOf[p] # None THEN c.breakpoints[p] ELSE None
      count == c.hit_counts[p] + 1
      counted == bp # None /\ ~bp.log
      bp_stop == bp # None /\ breakpoint_should_stop(bp, count, truth)
      data_stop == c.watching /\ visible /\ c.watch_value \notin {None, value}
      step_stop == entered_new_line(p) /\ in_focus(p) /\ StepWanted
      fn_stop == break_at_next_node
      observed == [c EXCEPT !.watch_value = IF c.watching /\ visible THEN value ELSE @,
                            !.hit_counts[p] = IF counted THEN count ELSE @]
  IN
  /\ pc = "running" /\ ~error
  /\ from_dap' = <<>>
  /\ IF c.aborted
     THEN /\ Unwind
          /\ config' = c
          /\ UNCHANGED <<mode, frames, prev_line, stopped_once, error_paused,
                         break_at_next_node, evaluator, asked, errorPauses>>
     ELSE /\ counted => count <= MaxHits
          /\ config' = observed
          /\ error_paused' = FALSE
          /\ prev_line' = IF FileOf[p] = None THEN prev_line ELSE p
          /\ break_at_next_node' = FALSE
          /\ wrote' = (wrote /\ ~(c.watching /\ visible))
          /\ IF data_stop \/ fn_stop \/ bp_stop \/ step_stop
             THEN /\ stopped_once' = TRUE
                  /\ pause(CASE data_stop -> "data"
                             [] ~data_stop /\ fn_stop -> "function"
                             [] ~data_stop /\ ~fn_stop /\ bp_stop -> "breakpoint"
                             [] OTHER -> IF stopped_once THEN "step" ELSE "entry")
             ELSE UNCHANGED <<pc, reason, stopped_once>>
          /\ UNCHANGED <<mode, frames, value, error, asked, errorPauses>>
  /\ UNCHANGED connected

\* A node without a span: the queue is drained and the error is past.
on_node_without_span ==
  LET c == drain_commands(config) IN
  /\ pc = "running" /\ ~error
  /\ from_dap' = <<>> /\ config' = c
  /\ IF c.aborted
     THEN Unwind /\ UNCHANGED error_paused
     ELSE error_paused' = FALSE /\ UNCHANGED <<pc, reason>>
  /\ UNCHANGED <<mode, frames, prev_line, stopped_once, break_at_next_node, connected,
                 evaluator, asked, errorPauses>>

-----------------------------------------------------------------------------
(* Calls and errors *)

on_call_enter(f) ==
  /\ pc = "running" /\ ~error /\ frames <= MaxDepth
  /\ break_at_next_node' = (break_at_next_node \/ f \in config.fn_breakpoints)
  /\ frames' = frames + 1
  /\ UNCHANGED <<pc, config, mode, prev_line, stopped_once, error_paused, from_dap,
                 connected, evaluator, reason, asked, errorPauses>>

\* A call is left, with a result or an error.
on_call_exit ==
  /\ pc = "running" /\ frames > 1
  /\ frames' = frames - 1
  /\ UNCHANGED <<pc, config, mode, prev_line, stopped_once, error_paused,
                 break_at_next_node, from_dap, connected, evaluator, reason, asked,
                 errorPauses>>

PauseAtEveryReport ==
  IF config.exception_break
  THEN pause("exception") /\ UNCHANGED error_paused
  ELSE UNCHANGED <<pc, reason, error_paused>>
\* Only the first report of an error pauses, and only if the client asked for it.
\* Nothing is drained.
Report ==
  IF config.exception_break /\ ~error_paused
  THEN pause("exception") /\ error_paused' = TRUE
  ELSE UNCHANGED <<pc, reason, error_paused>>

\* A node fails, or a node that was evaluating a failed one does.
on_error ==
  /\ pc = "running"
  /\ Report
  /\ error' = TRUE
  /\ errorPauses' = (IF error THEN errorPauses ELSE 0) + (IF pc' = "paused" THEN 1 ELSE 0)
  /\ UNCHANGED <<config, mode, frames, prev_line, stopped_once, break_at_next_node, from_dap,
                 connected, value, wrote, asked>>

\* The program handles the error.
Catch ==
  /\ pc = "running" /\ error
  /\ error' = FALSE
  /\ UNCHANGED <<pc, config, mode, frames, prev_line, stopped_once, error_paused,
                 break_at_next_node, from_dap, connected, value, wrote, reason, asked,
                 errorPauses>>

\* The watched expression takes another value: the program assigned it.
Write ==
  /\ pc = "running" /\ ~error
  /\ value' \in Values \ {value} /\ wrote' = TRUE
  /\ UNCHANGED <<pc, config, mode, frames, prev_line, stopped_once, error_paused,
                 break_at_next_node, from_dap, connected, error, reason, asked, errorPauses>>

Finish ==
  /\ pc = "running"
  /\ pc' = "finished"
  /\ UNCHANGED <<config, mode, frames, prev_line, stopped_once, error_paused,
                 break_at_next_node, from_dap, connected, evaluator, reason, asked,
                 errorPauses>>

-----------------------------------------------------------------------------
(* The pause loop *)

ContinueKeepingMode(move) == IF move = "continue" THEN mode ELSE [kind |-> move, target |-> frames]
\* The mode a movement command resumes in; next and stepOut remember the depth.
StepMode(move) == [kind |-> move, target |-> frames]

Resume(move) ==
  /\ pc' = "running"
  /\ mode' = StepMode(move)
  /\ asked' = [move |-> move, depth |-> frames]
  /\ UNCHANGED <<config, value>>

EditKeepingBaseline(v) == value' = v /\ UNCHANGED config
\* A successful set_variable forgets the observed value.
set_variable(v) == value' = v /\ config' = [config EXCEPT !.watch_value = None]

PauseLoop ==
  /\ pc = "paused" /\ from_dap # <<>>
  /\ from_dap' = Tail(from_dap)
  /\ LET command == Head(from_dap) IN
     CASE command.c = "move" -> Resume(command.move)
       [] command.c = "setVariable" -> set_variable(command.value) /\ UNCHANGED <<pc, mode, asked>>
       [] OTHER -> /\ config' = Apply(config, command)
                   /\ pc' = IF command.c = "disconnect" THEN "unwound" ELSE pc
                   /\ UNCHANGED <<mode, value, asked>>
  /\ UNCHANGED <<frames, prev_line, stopped_once, error_paused, break_at_next_node,
                 connected, error, wrote, reason, errorPauses>>

IgnoreHangUp == pc = "paused" /\ from_dap = <<>> /\ ~connected /\ UNCHANGED vars
\* The sender is gone: recv fails once the queue is empty.
PauseHungUp ==
  /\ pc = "paused" /\ from_dap = <<>> /\ ~connected
  /\ config' = [config EXCEPT !.aborted = TRUE]
  /\ Unwind
  /\ UNCHANGED <<mode, frames, prev_line, stopped_once, error_paused, break_at_next_node,
                 from_dap, connected, evaluator, asked, errorPauses>>

-----------------------------------------------------------------------------
Hook == \/ \E p \in Place, truth, visible \in BOOLEAN : on_node(p, truth, visible)
        \/ on_node_without_span

Next == /\ \/ Send \/ HangUp
           \/ Hook
           \/ \E f \in Fn \cup {None} : on_call_enter(f)
           \/ on_call_exit
           \/ on_error \/ Catch \/ Write \/ Finish
           \/ PauseLoop \/ PauseHungUp
        /\ UNCHANGED session

Spec == Init /\ [][Next]_vars

\* Evaluation keeps reaching nodes (errors are raised by nodes and do not
\* propagate forever), and the pause loop takes what is in its channel.
FairSpec == /\ Spec
            /\ SF_vars(Hook /\ UNCHANGED session)
            /\ WF_vars(Catch /\ UNCHANGED session)
            /\ WF_vars(PauseLoop /\ UNCHANGED session)
            /\ WF_vars(PauseHungUp /\ UNCHANGED session)

-----------------------------------------------------------------------------
(* Properties *)

\* An error that propagates through many frames pauses at most once (on_error,
\* "only at the innermost report").
ErrorPausesOnce == errorPauses <= 1

\* A step stop is one the client asked for: its last movement command was a step,
\* and the stack is no deeper than that command allows, whatever breakpoints,
\* data stops, calls and errors came in between (StepMode, on_node).
StepAsAsked ==
  pc = "paused" /\ reason \in {"step", "entry"} =>
    CASE asked.move = "stepIn"  -> TRUE
      [] asked.move = "next"    -> frames <= asked.depth
      [] asked.move = "stepOut" -> frames < asked.depth
      [] OTHER -> FALSE

\* A data breakpoint stops only for a change the program made: neither setting
\* the data breakpoints anew nor the client's own edit of the variable triggers
\* it (set_data_breakpoints, assigned_reply).
DataStopIsProgramWrite ==
  [][pc = "running" /\ pc' = "paused" /\ reason' = "data" => wrote]_vars

\* A client that leaves releases the evaluation: a disconnect that has been sent unwinds
\* it, paused or running, with commands queued ahead or not, and a worker whose client
\* has hung up does not stay paused.
LeavingUnwinds ==
  /\ (\E i \in DOMAIN from_dap : from_dap[i].c = "disconnect") ~> pc \in {"unwound", "finished"}
  /\ (~connected /\ pc = "paused") ~> pc # "paused"

=============================================================================
