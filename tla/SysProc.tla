------------------------------ MODULE SysProc -------------------------------
(***************************************************************************)
(* The child processes of a runtime session (caap-sys-runtime/src/proc.rs):*)
(* the handle table, the blocking calls on it, their deadlines, and the    *)
(* children, which run beside the host and share pipes with it.            *)
(*                                                                         *)
(* A child runs a program, a sequence of "stdout" and "stderr" (write one  *)
(* unit) and "stdin" (read to end of file), and then exits.  A unit is     *)
(* what a pipe holds PipeCap of; a text is its number of units.            *)
(***************************************************************************)
EXTENDS Integers, Sequences, FiniteSets

CONSTANTS MaxChild,      \* children started in a session
          MaxHandles,    \* MAX_PROC_HANDLES
          PipeCap,       \* units a pipe holds
          Specs,         \* what a caller may ask to start
          MaxWrite,      \* units one write_stdin may send
          NoChild

Stream == {"stdout", "stderr"}

\* A parsed specification, and the program it starts.  inherit_stdout and
\* inherit_stderr are a capture of "no".
ProcSpec ==
  [program : Seq(Stream \cup {"stdin"}), utf8 : BOOLEAN, timeout_ms : BOOLEAN,
   inherit_stdin : BOOLEAN, capture : [Stream -> {"default", "yes", "no"}]]

ASSUME ProcAssumption ==
  /\ MaxChild \in Nat /\ MaxHandles \in Nat \ {0} /\ PipeCap \in Nat \ {0} /\ MaxWrite \in Nat
  /\ Specs \subseteq ProcSpec
  /\ NoChild \notin Int

VARIABLES children,   \* every child ever started
          handles,    \* ProcState.handles
          call,       \* the host's call in progress, or NoChild
          result,     \* what the last call returned: [of, is]
          session     \* "open", or "closed" once ProcState is dropped

procVars == <<children, handles, call, result, session>>

Child == 1..MaxChild
Handle == 1..MaxHandles

\* life: a zombie has exited and is not waited for.  stdin: the host's end.
\* pipe and stdin_pipe: units in the pipes; captured: streams that are pipes.
\* written and taken: units the child wrote to captured streams, and units
\* calls of the host have taken out of them.  utf8: its output is valid text.
\* dropped: the host let go of it without a signal or a wait.
ChildType ==
  [life : {"unborn", "running", "zombie", "reaped"}, program : Seq({"stdin", "stdout", "stderr"}),
   killed : BOOLEAN, deadline : {"none", "pending", "elapsed"},
   captured : SUBSET Stream, pipe : [Stream -> 0..PipeCap],
   stdin : {"piped", "closed"}, stdin_pipe : 0..PipeCap,
   utf8 : BOOLEAN, written : Nat, taken : Nat, dropped : BOOLEAN]

Unborn ==
  [life |-> "unborn", program |-> <<>>, killed |-> FALSE, deadline |-> "none",
   captured |-> {}, pipe |-> [s \in Stream |-> 0], stdin |-> "closed", stdin_pipe |-> 0,
   utf8 |-> TRUE, written |-> 0, taken |-> 0, dropped |-> FALSE]

\* polled: try_wait has found the child running and the clock is read next.
\* got: units this call has taken.
ProcCalls ==
  [op : {"wait"}, child : Child, polled : BOOLEAN, got : Nat]
    \cup [op : {"read"}, handle : Handle, stream : Stream, got : Nat]
    \cup [op : {"write"}, handle : Handle, left : 0..MaxWrite]

ASSUME NoCallAssumption == NoChild \notin ProcCalls

ProcResults == {"none", "failed", "handle", "refused", "unknown", "done", "null", "text", "completed",
            "timed_out", "not_captured", "broken_pipe", "not_utf8"}

\* Every variable has its type.
ProcTypeOK ==
  /\ children \in [Child -> ChildType]
  /\ handles \in [Handle -> Child \cup {NoChild}]
  /\ call \in ProcCalls \cup {NoChild}
  /\ result \in [of : Child \cup {NoChild}, is : ProcResults]
  /\ session \in {"open", "closed"}

ProcInit ==
  /\ children = [c \in Child |-> Unborn]
  /\ handles = [h \in Handle |-> NoChild]
  /\ call = NoChild
  /\ result = [of |-> NoChild, is |-> "none"]
  /\ session = "open"

-----------------------------------------------------------------------------
(* The host's calls *)

ProcIdle == session = "open" /\ call = NoChild

\* A call that has returned.
ProcReturns(c, is) == call' = NoChild /\ result' = [of |-> c, is |-> is] /\ UNCHANGED session

\* A call that goes on, beside the children.
ProcBlocks(next) == call' = next /\ result' = [of |-> NoChild, is |-> "none"] /\ UNCHANGED session

Open == {h \in Handle : handles[h] # NoChild}

Elapsed(c) == children[c].deadline = "elapsed"

\* Kill, then wait: whatever the child was doing, it is over and waited for.
KilledAndWaited(c) == [children EXCEPT ![c].life = "reaped", ![c].killed = TRUE]

Free(h) == [handles EXCEPT ![h] = NoChild]

\* The lowest id that is not in the table.
alloc == CHOOSE h \in Handle \ Open : \A o \in Handle \ Open : h <= o

\* configure_stdio, process_timeout_deadline and Command::spawn.  A standard input
\* that is not a pipe is at its end.
Started(c, spec, default_capture, pipe_stdin) ==
  [children EXCEPT ![c] =
     [Unborn EXCEPT !.life = "running", !.program = spec.program, !.utf8 = spec.utf8,
        !.deadline = IF spec.timeout_ms THEN "pending" ELSE "none",
        !.captured = {s \in Stream : \/ spec.capture[s] = "yes"
                                     \/ spec.capture[s] = "default" /\ default_capture},
        !.stdin = IF ~spec.inherit_stdin /\ pipe_stdin THEN "piped" ELSE "closed"]]

NextChild == CHOOSE c \in Child : /\ children[c].life = "unborn"
                                   /\ \A d \in Child : d < c => children[d].life # "unborn"

CanStart == ProcIdle /\ \E c \in Child : children[c].life = "unborn"

\* proc_spawn: the child is started before the table is asked for a handle.  When
\* there is none the Child is dropped, which neither kills nor waits.
proc_spawn(spec) ==
  /\ CanStart
  /\ LET started == Started(NextChild, spec, FALSE, TRUE)
     IN IF Open = Handle
        THEN /\ children' = [started EXCEPT ![NextChild].dropped = TRUE]
             /\ UNCHANGED handles /\ ProcReturns(NextChild, "refused")
        ELSE /\ children' = started
             /\ handles' = [handles EXCEPT ![alloc] = NextChild]
             /\ ProcReturns(NextChild, "handle")

\* A specification parse_spec refuses, or a program Command::spawn cannot start.
StartFails == CanStart /\ ProcReturns(NoChild, "failed") /\ UNCHANGED <<children, handles>>

WaitFor(c) == [op |-> "wait", child |-> c, polled |-> FALSE, got |-> 0]

\* proc_run: no handle; standard input is empty.
proc_run(spec) ==
  /\ CanStart
  /\ children' = Started(NextChild, spec, TRUE, FALSE)
  /\ ProcBlocks(WaitFor(NextChild))
  /\ UNCHANGED handles

ProcUnknown(h) ==
  /\ ProcIdle /\ handles[h] = NoChild
  /\ ProcReturns(NoChild, "unknown")
  /\ UNCHANGED <<children, handles>>

\* The host keeps its end of the standard input while it waits.
WaitKeepingStdin(h) ==
  /\ ProcIdle /\ handles[h] # NoChild
  /\ handles' = Free(h)
  /\ ProcBlocks(WaitFor(handles[h]))
  /\ UNCHANGED children

\* proc_wait: the handle is gone at once; without a deadline wait_with_output
\* closes the child's standard input before it waits.
proc_wait(h) ==
  /\ ProcIdle /\ handles[h] # NoChild
  /\ handles' = Free(h)
  /\ children' = IF children[handles[h]].deadline = "none"
                 THEN [children EXCEPT ![handles[h]].stdin = "closed"]
                 ELSE children
  /\ ProcBlocks(WaitFor(handles[h]))

InPipes(c) == children[c].pipe["stdout"] + children[c].pipe["stderr"]

\* Only the standard output is read.
CollectedStdoutOnly(c) ==
  [children EXCEPT ![c].life = "reaped",
     ![c].taken = @ + children[c].pipe["stdout"], ![c].pipe["stdout"] = 0]

\* What is left in the pipes of an exited child is read to the end of file.
Collected(c) ==
  [children EXCEPT ![c].life = "reaped",
     ![c].taken = @ + InPipes(c), ![c].pipe = [s \in Stream |-> 0]]

\* decode_process_output of the units a call got.
Decoded(c, got, is) == IF got > 0 /\ ~children[c].utf8 THEN "not_utf8" ELSE is

Waiting(c) == call # NoChild /\ call.op = "wait" /\ call.child = c

\* wait_child_value_until: try_wait, or the end of wait_with_output, finds that the
\* child has exited; its pipes are read.
WaitCompletes(c) ==
  /\ Waiting(c) /\ ~call.polled /\ children[c].life = "zombie"
  /\ children' = Collected(c)
  /\ ProcReturns(c, Decoded(c, call.got + InPipes(c), "completed"))
  /\ UNCHANGED handles

WaitPolls(c) ==
  /\ Waiting(c) /\ ~call.polled /\ children[c].deadline # "none" /\ children[c].life = "running"
  /\ ProcBlocks([call EXCEPT !.polled = TRUE])
  /\ UNCHANGED <<children, handles>>

\* The clock is read after try_wait: before the deadline, sleep and try again.
WaitSleeps(c) ==
  /\ Waiting(c) /\ call.polled /\ ~Elapsed(c)
  /\ ProcBlocks([call EXCEPT !.polled = FALSE])
  /\ UNCHANGED <<children, handles>>

WaitTimesOut(c) ==
  /\ Waiting(c) /\ call.polled /\ Elapsed(c)
  /\ children' = KilledAndWaited(c)
  /\ ProcReturns(c, "timed_out")
  /\ UNCHANGED handles

Taken(c, stream) == [children EXCEPT ![c].pipe[stream] = @ - 1, ![c].taken = @ + 1]

\* Only wait_with_output takes what the child writes while it waits.
WaitDrains(c, stream) ==
  /\ Waiting(c) /\ children[c].deadline = "none"
  /\ children[c].pipe[stream] > 0
  /\ children' = Taken(c, stream)
  /\ ProcBlocks([call EXCEPT !.got = @ + 1])
  /\ UNCHANGED handles

\* The child is ended and its handle stays in the table.
RejectedKeepingHandle(h) ==
  /\ children' = KilledAndWaited(handles[h])
  /\ ProcReturns(handles[h], "timed_out")
  /\ UNCHANGED handles

\* reject_elapsed_deadline, the first thing the other calls on a handle do.
Rejected(h) ==
  /\ children' = KilledAndWaited(handles[h])
  /\ handles' = Free(h)
  /\ ProcReturns(handles[h], "timed_out")

Live(h) == ProcIdle /\ handles[h] # NoChild

proc_wait_result(h) ==
  /\ Live(h)
  /\ \/ Elapsed(handles[h]) /\ Rejected(h)
     \/ /\ ~Elapsed(handles[h]) /\ children[handles[h]].life = "running"
        /\ ProcReturns(handles[h], "null") /\ UNCHANGED <<children, handles>>
     \/ /\ ~Elapsed(handles[h]) /\ children[handles[h]].life = "zombie"
        /\ children' = Collected(handles[h])
        /\ handles' = Free(h)
        /\ ProcReturns(handles[h], Decoded(handles[h], InPipes(handles[h]), "completed"))

\* proc_kill sends the signal and keeps the handle.
proc_kill(h) ==
  /\ Live(h)
  /\ children' = [children EXCEPT ![handles[h]].killed = TRUE]
  /\ ProcReturns(handles[h], "done")
  /\ UNCHANGED handles

proc_close_stdin(h) ==
  /\ Live(h)
  /\ \/ Elapsed(handles[h]) /\ Rejected(h)
     \/ /\ ~Elapsed(handles[h])
        /\ children' = [children EXCEPT ![handles[h]].stdin = "closed"]
        /\ ProcReturns(handles[h], "done") /\ UNCHANGED handles

proc_write_stdin(h, units) ==
  /\ Live(h)
  /\ \/ Elapsed(handles[h]) /\ Rejected(h)
     \/ /\ ~Elapsed(handles[h]) /\ children[handles[h]].stdin = "closed"
        /\ ProcReturns(handles[h], "not_captured") /\ UNCHANGED <<children, handles>>
     \/ /\ ~Elapsed(handles[h]) /\ children[handles[h]].stdin = "piped"
        /\ ProcBlocks([op |-> "write", handle |-> h, left |-> units])
        /\ UNCHANGED <<children, handles>>

Writing(h) == call # NoChild /\ call.op = "write" /\ call.handle = h

\* write_all: as much as the pipe takes, again and again, whatever the deadline.
WriteSome(h) ==
  /\ Writing(h) /\ call.left > 0
  /\ children[handles[h]].life = "running" /\ children[handles[h]].stdin_pipe < PipeCap
  /\ children' = [children EXCEPT ![handles[h]].stdin_pipe = @ + 1]
  /\ ProcBlocks([call EXCEPT !.left = @ - 1])
  /\ UNCHANGED handles

WriteEnds(h) ==
  /\ Writing(h)
  /\ \/ call.left = 0 /\ ProcReturns(handles[h], "done")
     \/ /\ call.left > 0 /\ children[handles[h]].life = "zombie"
        /\ ProcReturns(handles[h], "broken_pipe")
  /\ UNCHANGED <<children, handles>>

\* read_pipe of a handle: read_stdout and read_stderr.
proc_read(h, stream) ==
  /\ Live(h)
  /\ \/ Elapsed(handles[h]) /\ Rejected(h)
     \/ /\ ~Elapsed(handles[h]) /\ stream \notin children[handles[h]].captured
        /\ ProcReturns(handles[h], "not_captured") /\ UNCHANGED <<children, handles>>
     \/ /\ ~Elapsed(handles[h]) /\ stream \in children[handles[h]].captured
        /\ ProcBlocks([op |-> "read", handle |-> h, stream |-> stream, got |-> 0])
        /\ UNCHANGED <<children, handles>>

Reading(h) == call # NoChild /\ call.op = "read" /\ call.handle = h

ReadSome(h) ==
  /\ Reading(h) /\ children[handles[h]].pipe[call.stream] > 0
  /\ children' = Taken(handles[h], call.stream)
  /\ ProcBlocks([call EXCEPT !.got = @ + 1])
  /\ UNCHANGED handles

\* End of file: the pipe is empty and the child, which held its other end, is gone.
ReadEnds(h) ==
  /\ Reading(h) /\ children[handles[h]].pipe[call.stream] = 0
  /\ children[handles[h]].life = "zombie"
  /\ ProcReturns(handles[h], Decoded(handles[h], call.got, "text"))
  /\ UNCHANGED <<children, handles>>

\* Between two reads of a child with a deadline.
ReadTimesOut(h) == Reading(h) /\ Elapsed(handles[h]) /\ Rejected(h)

\* Drop for ProcState.
drop ==
  /\ ProcIdle
  /\ children' = [c \in Child |-> IF \E h \in Handle : handles[h] = c
                                  THEN KilledAndWaited(c)[c] ELSE children[c]]
  /\ session' = "closed"
  /\ UNCHANGED <<handles, call, result>>

-----------------------------------------------------------------------------
(* The children, and time *)

Holds(c) == \/ \E h \in Handle : handles[h] = c /\ session = "open"
            \/ Waiting(c)

Acts(c, step) ==
  /\ children[c].life = "running" /\ ~children[c].killed
  /\ children[c].program # <<>> /\ Head(children[c].program) = step

\* A write to a full pipe waits; a write nobody can read any more ends the child.
ChildWrites(c, stream) ==
  /\ Acts(c, stream)
  /\ \/ /\ stream \notin children[c].captured
        /\ children' = [children EXCEPT ![c].program = Tail(@)]
     \/ /\ stream \in children[c].captured /\ Holds(c) /\ children[c].pipe[stream] < PipeCap
        /\ children' = [children EXCEPT ![c].program = Tail(@), ![c].pipe[stream] = @ + 1,
                                        ![c].written = @ + 1]
     \/ /\ stream \in children[c].captured /\ ~Holds(c)
        /\ children' = [children EXCEPT ![c].life = "zombie"]
  /\ UNCHANGED <<handles, call, result, session>>

\* Read standard input to its end, which comes once the host has closed its end.
ChildReads(c) ==
  /\ Acts(c, "stdin")
  /\ \/ /\ children[c].stdin_pipe > 0
        /\ children' = [children EXCEPT ![c].stdin_pipe = @ - 1]
     \/ /\ children[c].stdin_pipe = 0 /\ (children[c].stdin = "closed" \/ ~Holds(c))
        /\ children' = [children EXCEPT ![c].program = Tail(@)]
  /\ UNCHANGED <<handles, call, result, session>>

ChildExits(c) ==
  /\ children[c].life = "running"
  /\ children[c].killed \/ children[c].program = <<>>
  /\ children' = [children EXCEPT ![c].life = "zombie"]
  /\ UNCHANGED <<handles, call, result, session>>

DeadlinePasses(c) ==
  /\ children[c].deadline = "pending" /\ children[c].life # "reaped"
  /\ children' = [children EXCEPT ![c].deadline = "elapsed"]
  /\ UNCHANGED <<handles, call, result, session>>

-----------------------------------------------------------------------------
ProcStarts ==
  \/ StartFails
  \/ \E spec \in Specs : proc_spawn(spec) \/ proc_run(spec)

ProcCallsOn(h) ==
  \/ ProcUnknown(h) \/ proc_wait(h) \/ proc_wait_result(h) \/ proc_kill(h) \/ proc_close_stdin(h)
  \/ \E n \in 1..MaxWrite : proc_write_stdin(h, n)
  \/ \E s \in Stream : proc_read(h, s)

ProcContinues ==
  \/ \E c \in Child : WaitCompletes(c) \/ WaitPolls(c) \/ WaitSleeps(c) \/ WaitTimesOut(c)
                  \/ \E s \in Stream : WaitDrains(c, s)
  \/ \E h \in Handle : WriteSome(h) \/ WriteEnds(h) \/ ReadSome(h) \/ ReadEnds(h) \/ ReadTimesOut(h)

ChildSteps(c) == ChildReads(c) \/ ChildExits(c) \/ \E s \in Stream : ChildWrites(c, s)

ProcNext ==
  \/ ProcStarts
  \/ \E h \in Handle : ProcCallsOn(h)
  \/ ProcContinues
  \/ drop
  \/ \E c \in Child : ChildSteps(c) \/ DeadlinePasses(c)

\* The host runs whatever call it is in, and time passes.
HostFairness == WF_procVars(ProcContinues)
TimeFairness == \A c \in Child : WF_procVars(DeadlinePasses(c))
ChildFairness == \A c \in Child : WF_procVars(ChildSteps(c))

-----------------------------------------------------------------------------
(* Properties *)

Alive(c) == children[c].life \in {"running", "zombie"}

\* Every child that has not been waited for is held by a handle or by the call that
\* waits for it, and an open session's handles name different children that have not
\* been waited for.  So no timeout, failed read or end of session leaves a zombie
\* behind, and ProcState never signals or waits for a process id the system may have
\* given to somebody else.  The exception is the child of a spawn refused for want of
\* a handle (reject_elapsed_deadline, read_pipe, wait_child_value_until, Drop).
ChildrenAccounted ==
  /\ \A c \in Child : Alive(c) => Holds(c) \/ children[c].dropped
  /\ session = "open" =>
       \A h \in Open : /\ Alive(handles[h])
                       /\ \A g \in Open : handles[g] = handles[h] => g = h

\* What the completed call returns, with what earlier reads of the same child took,
\* is all that the child wrote to its captured streams (wait_child_value_until,
\* wait_result).
OutputIsComplete ==
  result.is = "completed" => children[result.of].taken = children[result.of].written

TimedProcCall ==
  \E c \in Child : /\ children[c].deadline # "none"
                   /\ Waiting(c) \/ \E h \in Handle : handles[h] = c /\ Reading(h)

\* A run or wait without a timeout returns when the child gets to run: its standard
\* input is closed and both its pipes are drained, so it is never stuck on the host.
UntimedWaitReturns ==
  ChildFairness => ((\E c \in Child : Waiting(c)) ~> ~(\E c \in Child : Waiting(c)))

=============================================================================
