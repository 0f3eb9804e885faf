---------------------------- MODULE DebugSession ----------------------------
(***************************************************************************)
(* The debug adapter (caap-dap): the protocol loop on the main thread, one *)
(* evaluation worker per launch or restart, and the channels between them. *)
(* A worker is a generation; the loop keeps the command sender of the      *)
(* newest, the start sender of the last one launched and not configured,   *)
(* and the frames of the last stop.  The client is a debugger front end    *)
(* that resumes only a stop it has been shown and ignores what it receives *)
(* between a restart request and its response.                             *)
(* What a pause shows and which nodes pause is DebugController's subject.  *)
(***************************************************************************)
EXTENDS Naturals, Sequences

CONSTANTS
  MaxGen,      \* bound: workers launched in the session
  MaxStops,    \* bound: pauses of the first worker; each later one has one fewer
  MaxReq       \* bound: inspection requests of the client

ASSUME BoundsAssumption == MaxGen \in Nat /\ MaxStops \in Nat /\ MaxReq \in Nat

Gen == 1..MaxGen
Req == 1..MaxReq
Stop == Gen \X (1..MaxStops)
NoStop == <<0, 0>>
Closed == <<0, 1>>    \* a reply sender dropped without a reply

VARIABLES
  server,       \* "loop", "await" (blocked on a reply) or "exited"
  current_gen,  \* newest generation
  cmd_tx,       \* generation whose command sender the loop holds, or 0
  start_tx,     \* generation whose start sender the loop holds, or 0
  frames,       \* the stop whose frames answer stackTrace, or NoStop
  awaiting,     \* the request the loop is blocked on, or 0
  worker,       \* state of each worker thread
  started,      \* workers that were sent the start signal
  stops,        \* pauses of each worker
  resumed,      \* the last stop resumed, and the stop its command was meant for
  commands,     \* command channel of each worker
  events,       \* event channel of each worker, forwarded to the loop
  replies,      \* reply channel of each request: NoStop while empty
  answered,     \* the stop each request's answer was computed at
  requests,     \* what the client sent and the loop has not handled
  shown,        \* what the loop sent and the client has not read
  view,         \* what the client believes
  configured,   \* whether the client has sent configurationDone
  viewed,       \* the last stop shown to the client
  asked         \* the stop each request was made at, in the order made

serverVars == <<server, current_gen, cmd_tx, start_tx, frames, awaiting>>
workerVars == <<worker, stops, resumed>>
clientVars == <<view, configured, viewed, asked>>
vars == <<serverVars, workerVars, clientVars, started, commands, events, replies,
          answered, requests, shown>>

Command == [c : {"move"}, stop : Stop] \cup [c : {"inspect"}, id : Req] \cup [c : {"disconnect"}]
Event   == [e : {"stopped"}, stop : Stop] \cup [e : {"terminated"}]
Request == Command \cup [c : {"launch", "configurationDone", "restart", "eof"}]

\* Every variable has its type.
TypeOK ==
  /\ server \in {"loop", "await", "exited"}
  /\ current_gen \in 0..MaxGen /\ cmd_tx \in 0..MaxGen /\ start_tx \in 0..MaxGen
  /\ frames \in Stop \cup {NoStop} /\ viewed \in Stop \cup {NoStop}
  /\ awaiting \in 0..MaxReq
  /\ worker \in [Gen -> {"none", "loading", "waiting", "running", "paused", "done"}]
  /\ started \subseteq Gen
  /\ stops \in [Gen -> 0..MaxStops]
  /\ resumed \in (Stop \cup {NoStop}) \X (Stop \cup {NoStop})
  /\ commands \in [Gen -> Seq(Command)]
  /\ events \in [Gen -> Seq(Event)]
  /\ replies \in [Req -> Stop \cup {NoStop, Closed}]
  /\ answered \in [Req -> Stop \cup {NoStop, Closed}]
  /\ requests \in Seq(Request)
  /\ shown \in Seq(Event \cup [e : {"restarted"}])
  /\ view \in {"idle", "running", "stopped", "restarting", "ended", "gone"}
  /\ configured \in BOOLEAN
  /\ asked \in Seq(Stop \cup {NoStop}) /\ Len(asked) <= MaxReq

Init ==
  /\ server = "loop" /\ current_gen = 0 /\ cmd_tx = 0 /\ start_tx = 0
  /\ frames = NoStop /\ awaiting = 0
  /\ worker = [g \in Gen |-> "none"] /\ started = {} /\ stops = [g \in Gen |-> 0]
  /\ resumed = <<NoStop, NoStop>>
  /\ commands = [g \in Gen |-> <<>>] /\ events = [g \in Gen |-> <<>>]
  /\ replies = [r \in Req |-> NoStop] /\ answered = [r \in Req |-> NoStop]
  /\ requests = <<>> /\ shown = <<>>
  /\ view = "idle" /\ configured = FALSE /\ viewed = NoStop /\ asked = <<>>

-----------------------------------------------------------------------------
(* The client *)

\* The client sends a request and believes v from then on.
ClientSends(request, v) ==
  /\ server # "exited"
  /\ requests' = Append(requests, request)
  /\ view' = v
  /\ UNCHANGED <<serverVars, workerVars, viewed, started, commands, events, replies,
                 answered, shown>>

Pending(c) == \E i \in DOMAIN requests : requests[i].c = c

ClientLaunch ==
  /\ view = "idle"
  /\ ClientSends([c |-> "launch"], "running")
  /\ UNCHANGED <<configured, asked>>

\* DAP lets the client configure before it launches, and restart before it configures.
ClientConfigurationDone ==
  /\ view # "gone" /\ ~configured
  /\ configured' = TRUE
  /\ ClientSends([c |-> "configurationDone"], view)
  /\ UNCHANGED asked

ClientRestart ==
  /\ view \in {"running", "stopped"}
  /\ ~Pending("launch") /\ current_gen < MaxGen
  /\ ClientSends([c |-> "restart"], "restarting")
  /\ UNCHANGED <<configured, asked>>

\* continue, next, stepIn or stepOut
ClientMoves ==
  /\ view = "stopped"
  /\ ClientSends([c |-> "move", stop |-> viewed], "running")
  /\ UNCHANGED <<configured, asked>>

\* scopes, variables, evaluate, setVariable, completions or dataBreakpointInfo,
\* at a stop or while the program runs
ClientInspects ==
  /\ view \in {"running", "stopped"} /\ Len(asked) < MaxReq
  /\ asked' = Append(asked, IF view = "stopped" THEN viewed ELSE NoStop)
  /\ ClientSends([c |-> "inspect", id |-> Len(asked) + 1], view)
  /\ UNCHANGED configured

ClientLeaves ==
  /\ view # "gone"
  /\ \E c \in {"disconnect", "eof"} : ClientSends([c |-> c], "gone")
  /\ UNCHANGED <<configured, asked>>

\* The client reads what the loop wrote.  From a restart request to its response
\* it ignores events: they are of the worker it asked to replace.
ClientReads ==
  /\ server # "exited" /\ shown # <<>>
  /\ LET m == Head(shown) IN
     CASE m.e = "restarted" /\ view = "restarting" ->
            view' = "running" /\ UNCHANGED viewed
       [] m.e = "stopped" /\ view \in {"running", "stopped"} ->
            view' = "stopped" /\ viewed' = m.stop
       [] m.e = "terminated" /\ view \in {"running", "stopped"} ->
            view' = "ended" /\ UNCHANGED viewed
       [] OTHER -> UNCHANGED <<view, viewed>>
  /\ shown' = Tail(shown)
  /\ UNCHANGED <<serverVars, workerVars, configured, asked, started, commands, events,
                 replies, answered, requests>>

-----------------------------------------------------------------------------
(* The protocol loop *)

\* The loop takes the next request; handle_request's arms are the actions below.
Takes(c) ==
  /\ server = "loop" /\ requests # <<>> /\ Head(requests).c = c
  /\ requests' = Tail(requests)
  /\ UNCHANGED <<clientVars, stops, resumed, replies>>

\* The command channel of the worker whose sender the loop holds; a send to a
\* worker that is done fails and is ignored.
send_command(command) ==
  IF cmd_tx = 0 \/ worker[cmd_tx] = "done"
  THEN commands
  ELSE [commands EXCEPT ![cmd_tx] = Append(@, command)]

\* start_worker: the new worker is the next generation.  With auto_start its start
\* signal is sent at once and the loop keeps whatever start sender it held;
\* otherwise the loop keeps the new one.  If the thread cannot be spawned the
\* loop is sent a terminated event for it.
start_worker(auto_start) ==
  LET gen == current_gen + 1 IN
  /\ gen <= MaxGen
  /\ current_gen' = gen /\ cmd_tx' = gen
  /\ IF auto_start
     THEN started' = started \cup {gen} /\ UNCHANGED start_tx
     ELSE start_tx' = gen /\ UNCHANGED started
  /\ \/ worker' = [worker EXCEPT ![gen] = "loading"] /\ UNCHANGED events
     \/ /\ worker' = [worker EXCEPT ![gen] = "done"]
        /\ events' = [events EXCEPT ![gen] = <<[e |-> "terminated"]>>]

launch ==
  /\ Takes("launch")
  /\ start_worker(FALSE)
  /\ UNCHANGED <<server, frames, awaiting, commands, answered, shown>>

configurationDone ==
  /\ Takes("configurationDone")
  /\ started' = started \cup ({start_tx} \ {0})
  /\ start_tx' = 0
  /\ UNCHANGED <<server, current_gen, cmd_tx, frames, awaiting, worker, commands, events,
                 answered, shown>>

RestartWithoutDisconnect ==
  /\ Takes("restart")
  /\ frames' = NoStop
  /\ start_worker(TRUE)
  /\ shown' = Append(shown, [e |-> "restarted"])
  /\ UNCHANGED <<server, awaiting, commands, answered>>
RestartKeepingFrames ==
  /\ Takes("restart")
  /\ commands' = send_command([c |-> "disconnect"])
  /\ start_worker(TRUE)
  /\ shown' = Append(shown, [e |-> "restarted"])
  /\ UNCHANGED <<server, frames, awaiting, answered>>
\* restart: the old worker is told to disconnect, a new one is started.
restart ==
  /\ Takes("restart")
  /\ commands' = send_command([c |-> "disconnect"])
  /\ frames' = NoStop
  /\ start_worker(TRUE)
  /\ shown' = Append(shown, [e |-> "restarted"])
  /\ UNCHANGED <<server, awaiting, answered>>

\* continue, next, stepIn and stepOut only send their command.
Movement ==
  /\ Takes("move")
  /\ commands' = send_command(Head(requests))
  /\ UNCHANGED <<serverVars, worker, started, events, answered, shown>>

\* The request_ functions send the command with a reply channel of its own and
\* block on it, unless the send fails.
Inspection ==
  /\ Takes("inspect")
  /\ commands' = send_command(Head(requests))
  /\ IF cmd_tx # 0 /\ worker[cmd_tx] # "done"
     THEN server' = "await" /\ awaiting' = Head(requests).id /\ UNCHANGED answered
     ELSE /\ answered' = [answered EXCEPT ![Head(requests).id] = Closed]
          /\ UNCHANGED <<server, awaiting>>
  /\ UNCHANGED <<current_gen, cmd_tx, start_tx, frames, worker, started, events, shown>>

\* The awaited request is answered and the loop goes on.
Answer(reply) ==
  /\ server = "await"
  /\ answered' = [answered EXCEPT ![awaiting] = reply]
  /\ server' = "loop" /\ awaiting' = 0
  /\ UNCHANGED <<current_gen, cmd_tx, start_tx, frames, workerVars, clientVars, started,
                 commands, events, replies, requests, shown>>

ReceiveOnOneChannel ==
  \E r \in Req : /\ r <= awaiting /\ replies[r] # NoStop /\ answered[r] # replies[r]
                 /\ Answer(replies[r])
ReceiveReply == awaiting # 0 /\ replies[awaiting] # NoStop /\ Answer(replies[awaiting])

\* recv_timeout: the request is answered with a default, whatever the worker does
\* with the command later.
Timeout == Answer(Closed)

\* disconnect and terminate, or the end of the client's input
Leave ==
  /\ Takes("disconnect") \/ Takes("eof")
  /\ commands' = send_command([c |-> "disconnect"])
  /\ server' = "exited"
  /\ UNCHANGED <<current_gen, cmd_tx, start_tx, frames, awaiting, worker, started, events,
                 answered, shown>>

HandleAnyGeneration(g) ==
  LET evt == Head(events[g]) IN
  /\ server = "loop" /\ events[g] # <<>>
  /\ events' = [events EXCEPT ![g] = Tail(@)]
  /\ frames' = IF evt.e = "stopped" THEN evt.stop ELSE frames
  /\ shown' = Append(shown, evt)
  /\ UNCHANGED <<server, current_gen, cmd_tx, start_tx, awaiting, workerVars, clientVars,
                 started, commands, replies, answered, requests>>
\* The loop receives the next event of worker g: dropped if g is not the current
\* generation; a stop replaces the frames; the client is told.
handle_worker_event(g) ==
  LET evt == Head(events[g]) IN
  /\ server = "loop" /\ events[g] # <<>>
  /\ events' = [events EXCEPT ![g] = Tail(@)]
  /\ IF g = current_gen
     THEN /\ frames' = IF evt.e = "stopped" THEN evt.stop ELSE frames
          /\ shown' = Append(shown, evt)
     ELSE UNCHANGED <<frames, shown>>
  /\ UNCHANGED <<server, current_gen, cmd_tx, start_tx, awaiting, workerVars, clientVars,
                 started, commands, replies, answered, requests>>

-----------------------------------------------------------------------------
(* The evaluation workers *)

LocalToWorker ==
  UNCHANGED <<serverVars, clientVars, started, answered, requests, shown>>

\* The replies of the inspections in a command queue that is dropped.
Dropped(queue) ==
  [r \in Req |-> IF \E i \in DOMAIN queue : queue[i] = [c |-> "inspect", id |-> r]
                 THEN Closed ELSE replies[r]]

\* The thread ends: its last event is terminated, its receivers are dropped.
Terminate(g) ==
  /\ worker' = [worker EXCEPT ![g] = "done"]
  /\ events' = [events EXCEPT ![g] = Append(@, [e |-> "terminated"])]
  /\ replies' = Dropped(commands[g])
  /\ commands' = [commands EXCEPT ![g] = <<>>]
  /\ UNCHANGED <<stops, resumed>>

\* The session is built and the stdlib loaded before the hook is installed; it may fail.
Load(g) ==
  /\ server # "exited" /\ worker[g] = "loading"
  /\ \/ /\ worker' = [worker EXCEPT ![g] = "waiting"]
        /\ UNCHANGED <<stops, resumed, commands, events, replies>>
     \/ Terminate(g)
  /\ LocalToWorker

\* start.recv() returns on the start signal, or when its sender is gone.
Start(g) ==
  /\ server # "exited" /\ worker[g] = "waiting"
  /\ g \in started \/ start_tx # g
  /\ worker' = [worker EXCEPT ![g] = "running"]
  /\ UNCHANGED <<stops, resumed, commands, events, replies>>
  /\ LocalToWorker

pause(g) ==
  /\ stops[g] < MaxStops + 1 - g
  /\ worker' = [worker EXCEPT ![g] = "paused"]
  /\ stops' = [stops EXCEPT ![g] = @ + 1]
  /\ events' = [events EXCEPT ![g] = Append(@, [e |-> "stopped", stop |-> <<g, stops[g] + 1>>])]
  /\ UNCHANGED resumed

\* A node is about to be evaluated: the queued commands are drained (movement is
\* ignored, inspections are dropped unanswered), then the node may pause.
on_node(g) ==
  /\ server # "exited" /\ worker[g] = "running"
  /\ IF \E i \in DOMAIN commands[g] : commands[g][i].c = "disconnect"
     THEN Terminate(g)
     ELSE /\ replies' = Dropped(commands[g])
          /\ commands' = [commands EXCEPT ![g] = <<>>]
          /\ pause(g) \/ UNCHANGED <<worker, stops, events, resumed>>
  /\ LocalToWorker

\* An error pauses without draining the queue.
on_error(g) ==
  /\ server # "exited" /\ worker[g] = "running"
  /\ pause(g)
  /\ UNCHANGED <<commands, replies>>
  /\ LocalToWorker

\* The pause loop takes the next command: movement resumes, an inspection is
\* answered, a disconnect or a dropped sender unwinds the evaluation.
PauseLoop(g) ==
  /\ server # "exited" /\ worker[g] = "paused"
  /\ IF commands[g] = <<>>
     THEN cmd_tx # g /\ Terminate(g)
     ELSE LET command == Head(commands[g])
              rest == [commands EXCEPT ![g] = Tail(@)]
              here == <<g, stops[g]>> IN
          CASE command.c = "move" ->
                 /\ worker' = [worker EXCEPT ![g] = "running"]
                 /\ resumed' = <<here, command.stop>>
                 /\ commands' = rest
                 /\ UNCHANGED <<stops, events, replies>>
            [] command.c = "inspect" ->
                 /\ replies' = [replies EXCEPT ![command.id] = here]
                 /\ commands' = rest
                 /\ UNCHANGED <<worker, stops, resumed, events>>
            [] OTHER -> Terminate(g)
  /\ LocalToWorker

\* The program ends, or fails.
Finish(g) ==
  /\ server # "exited" /\ worker[g] = "running"
  /\ Terminate(g)
  /\ LocalToWorker

-----------------------------------------------------------------------------
Client == \/ ClientLaunch \/ ClientConfigurationDone \/ ClientRestart \/ ClientMoves
          \/ ClientInspects \/ ClientLeaves \/ ClientReads
Loop   == \/ launch \/ configurationDone \/ restart \/ Movement \/ Inspection \/ Leave
          \/ ReceiveReply \/ Timeout
          \/ \E g \in Gen : handle_worker_event(g)
Worker(g) == Load(g) \/ Start(g) \/ on_node(g) \/ on_error(g) \/ PauseLoop(g) \/ Finish(g)

\* The process is gone.
Exited == server = "exited" /\ UNCHANGED vars

Next == Client \/ Loop \/ (\E g \in Gen : Worker(g)) \/ Exited

Spec == Init /\ [][Next]_vars

\* The loop and the workers are threads the scheduler runs; evaluation keeps
\* reaching nodes.  Nothing is assumed of the client.
FairSpec ==
  /\ Spec
  /\ WF_vars(Loop)
  /\ \A g \in Gen : WF_vars(Load(g) \/ Start(g) \/ PauseLoop(g)) /\ WF_vars(on_node(g))

-----------------------------------------------------------------------------
(* Properties *)

\* A paused worker is resumed only by a command the client sent upon that very
\* stop: no command meant for an earlier stop, or for a worker since replaced,
\* reaches a later pause (main.rs:143, controller/mod.rs:153, 408).
ResumeMatchesStop == resumed[1] = resumed[2]

\* stackTrace never answers with the frames of a superseded worker (main.rs:668,
\* main.rs:143).
FramesOfCurrentRun == frames # NoStop => frames[1] = current_gen

\* What the client is shown as stopped is the pause the current worker is in,
\* until the client itself moves on.
StopIsReal ==
  view = "stopped" /\ ~Pending("disconnect") /\ ~Pending("eof")
    => worker[viewed[1]] = "paused" /\ stops[viewed[1]] = viewed[2]

\* An inspection made at a stop is answered from that stop or with a default: a
\* reply that comes after its time-out is never taken for the answer to a later
\* request (each request has a reply channel of its own, main.rs:744-898).
AnswerFromAskedStop ==
  \A r \in DOMAIN asked :
    asked[r] # NoStop /\ answered[r] \notin {NoStop, Closed} => answered[r] = asked[r]

\* A worker that is launched when the client says it is configured starts, and one
\* that restart has started does not wait for a second configurationDone
\* (main.rs:265, main.rs:614-636).
ConfiguredRuns ==
  \A g \in Gen : (worker[g] # "none" /\ (Pending("configurationDone") \/ g \in started))
                    ~> (worker[g] \in {"running", "paused", "done"} \/ server = "exited")

\* "A superseded worker (after `restart`) is told to disconnect and unwinds on its
\* own" (main.rs:45-46).
SupersededUnwinds ==
  \A g \in Gen : (g < current_gen) ~> (worker[g] = "done" \/ server = "exited")

\* A worker that restart supersedes after its start signal unwinds, whatever it was
\* doing: running, paused, or with movement and inspection commands queued before the
\* disconnect (restart, main.rs:45-46).
StartedUnwinds ==
  \A g \in Gen : (g < current_gen /\ start_tx # g) ~> (worker[g] = "done" \/ server = "exited")

\* No worker that was given its start signal is left waiting: configured it runs,
\* superseded it unwinds (configurationDone and restart, main.rs:42-57, 137-143).
WorkersGoOn == ConfiguredRuns /\ StartedUnwinds

=============================================================================
