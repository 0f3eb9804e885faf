-------------------------- MODULE DebugSessionProofs --------------------------
(***************************************************************************)
(* Proofs about DebugSession, for every number of workers, stops and       *)
(* requests: the type invariant; that stackTrace never shows the frames of *)
(* a superseded worker; and that a movement, an inspection and the         *)
(* client's view all belong to the stop the current worker is at.          *)
(***************************************************************************)
EXTENDS DebugSession, TLAPS

\* The type invariant, with what makes it inductive: a client that believes the
\* program is stopped has been shown a stop.
TypeInv == TypeOK /\ (view = "stopped" => viewed \in Stop)

\* Appending an element of S to a sequence over S.
LEMMA AppendTyped ==
  ASSUME NEW S, NEW q \in Seq(S), NEW x \in S
  PROVE  Append(q, x) \in Seq(S)
OBVIOUS

\* The elements of the tail of a sequence.
LEMMA TailElement ==
  ASSUME NEW S, NEW q \in Seq(S), q # <<>>, NEW i \in 1..Len(Tail(q))
  PROVE  i + 1 \in 1..Len(q) /\ Tail(q)[i] = q[i + 1]
OBVIOUS

\* A step that appends a request keeps the type.
LEMMA SendTyped ==
  ASSUME TypeInv, NEW request \in Request, NEW v \in {"running", "stopped", "restarting", "gone", "idle", "ended"},
         v = "stopped" => view = "stopped", ClientSends(request, v),
         configured' \in BOOLEAN, asked' \in Seq(Stop \cup {NoStop}), Len(asked') <= MaxReq
  PROVE  TypeInv'
BY DEF TypeInv, TypeOK, ClientSends, serverVars, workerVars

\* The client's steps keep the type.
LEMMA ClientTyped == TypeInv /\ Client => TypeInv'
<1> SUFFICES ASSUME TypeInv, Client PROVE TypeInv'
  BY Zenon
<1>t. /\ view \in {"idle", "running", "stopped", "restarting", "ended", "gone"}
      /\ configured \in BOOLEAN /\ asked \in Seq(Stop \cup {NoStop}) /\ Len(asked) <= MaxReq
      /\ view = "stopped" => viewed \in Stop
  BY Zenon DEF TypeInv, TypeOK
<1>1. CASE ClientLaunch
  <2>1. [c |-> "launch"] \in Request
    BY Zenon DEF Request
  <2> QED BY <1>1, <1>t, <2>1, SendTyped, Zenon DEF ClientLaunch
<1>2. CASE ClientConfigurationDone
  <2>1. [c |-> "configurationDone"] \in Request
    BY Zenon DEF Request
  <2> QED BY <1>2, <1>t, <2>1, SendTyped, Zenon DEF ClientConfigurationDone
<1>3. CASE ClientRestart
  <2>1. [c |-> "restart"] \in Request
    BY Zenon DEF Request
  <2> QED BY <1>3, <1>t, <2>1, SendTyped, Zenon DEF ClientRestart
<1>4. CASE ClientMoves
  <2>1. [c |-> "move", stop |-> viewed] \in Request
    BY <1>4, <1>t, Zenon DEF Request, Command, ClientMoves
  <2> QED BY <1>4, <1>t, <2>1, SendTyped, Zenon DEF ClientMoves
<1>5. CASE ClientInspects
  <2>1. Len(asked) + 1 \in Req
    BY <1>5, <1>t, BoundsAssumption DEF Req, ClientInspects
  <2>2. [c |-> "inspect", id |-> Len(asked) + 1] \in Request
    BY <2>1, Zenon DEF Request, Command
  <2>3. asked' \in Seq(Stop \cup {NoStop}) /\ Len(asked') <= MaxReq
    BY <1>5, <1>t, BoundsAssumption DEF ClientInspects
  <2> QED BY <1>5, <1>t, <2>2, <2>3, SendTyped, Zenon DEF ClientInspects
<1>6. CASE ClientLeaves
  <2> PICK c \in {"disconnect", "eof"} : ClientSends([c |-> c], "gone")
    BY <1>6, Zenon DEF ClientLeaves
  <2>1. [c |-> c] \in Request
    BY Zenon DEF Request, Command
  <2> QED BY <1>6, <1>t, <2>1, SendTyped, Zenon DEF ClientLeaves
<1>7. CASE ClientReads
  <2>1. Head(shown) \in Event \cup [e : {"restarted"}] /\ Tail(shown) \in Seq(Event \cup [e : {"restarted"}])
    BY <1>7 DEF ClientReads, TypeInv, TypeOK
  <2>2. Head(shown).e = "stopped" => Head(shown).stop \in Stop
    BY <2>1, Zenon DEF Event
  <2>3. /\ view' \in {"idle", "running", "stopped", "restarting", "ended", "gone"}
        /\ viewed' \in Stop \cup {NoStop}
        /\ view' = "stopped" => viewed' \in Stop
    BY <1>7, <1>t, <2>2, Zenon DEF ClientReads, TypeInv, TypeOK
  <2> QED BY <1>7, <1>t, <2>1, <2>3, SMTT(30) DEF ClientReads, TypeInv, TypeOK, serverVars, workerVars
<1> QED BY <1>1, <1>2, <1>3, <1>4, <1>5, <1>6, <1>7, Zenon DEF Client

\* What taking a request leaves in the queue, and what it is.
LEMMA TakesTyped ==
  ASSUME TypeInv, NEW c, Takes(c)
  PROVE  /\ Head(requests) \in Request /\ Head(requests).c = c
         /\ requests' \in Seq(Request)
BY DEF TypeInv, TypeOK, Takes

\* Sending a command keeps the command channels' type.
LEMMA SendCommandTyped ==
  ASSUME TypeInv, NEW command \in Command
  PROVE  send_command(command) \in [Gen -> Seq(Command)]
BY BoundsAssumption DEF TypeInv, TypeOK, send_command, Gen

\* Starting a worker keeps the type of what it changes.
LEMMA StartTyped ==
  ASSUME TypeInv, NEW auto_start \in BOOLEAN, start_worker(auto_start)
  PROVE  /\ current_gen' \in 0..MaxGen /\ cmd_tx' \in 0..MaxGen /\ start_tx' \in 0..MaxGen
         /\ started' \subseteq Gen
         /\ worker' \in [Gen -> {"none", "loading", "waiting", "running", "paused", "done"}]
         /\ events' \in [Gen -> Seq(Event)]
<1>1. current_gen + 1 \in Gen
  BY BoundsAssumption DEF TypeInv, TypeOK, Gen, start_worker
<1>2. [e |-> "terminated"] \in Event
  BY Zenon DEF Event
<1>3. <<[e |-> "terminated"]>> \in Seq(Event)
  BY <1>2
<1>4. /\ current_gen' = current_gen + 1 /\ cmd_tx' = current_gen + 1
      /\ \/ started' = started \cup {current_gen + 1} /\ start_tx' = start_tx
         \/ started' = started /\ start_tx' = current_gen + 1
  BY Zenon DEF start_worker
<1>a. Gen \subseteq 0..MaxGen
  BY BoundsAssumption DEF Gen
<1>b. current_gen' \in 0..MaxGen /\ cmd_tx' \in 0..MaxGen /\ start_tx' \in 0..MaxGen
  BY <1>1, <1>4, <1>a, SMTT(30) DEF TypeInv, TypeOK
<1>c. started' \subseteq Gen
  BY <1>1, <1>4, Zenon DEF TypeInv, TypeOK
<1>5. worker' \in [Gen -> {"none", "loading", "waiting", "running", "paused", "done"}]
  BY <1>1, Zenon DEF TypeInv, TypeOK, start_worker
<1>6. events' \in [Gen -> Seq(Event)]
  BY <1>1, <1>3, ZenonT(60) DEF TypeInv, TypeOK, start_worker
<1> QED BY <1>b, <1>c, <1>5, <1>6, Zenon

\* The loop's steps keep the type.
LEMMA LoopTyped == TypeInv /\ Loop => TypeInv'
<1> SUFFICES ASSUME TypeInv, Loop PROVE TypeInv'
  OBVIOUS
<1>d. [c |-> "disconnect"] \in Command
  BY Zenon DEF Command
<1>1. CASE launch
  <2>1. Takes("launch") /\ start_worker(FALSE)
    BY <1>1, Zenon DEF launch
  <2> QED BY <1>1, <2>1, TakesTyped, StartTyped, Zenon DEF launch, Takes, TypeInv, TypeOK, clientVars
<1>2. CASE configurationDone
  <2>1. Takes("configurationDone")
    BY <1>2, Zenon DEF configurationDone
  <2>2. started' \subseteq Gen /\ start_tx' \in 0..MaxGen
    BY <1>2, BoundsAssumption DEF configurationDone, TypeInv, TypeOK, Gen
  <2> QED BY <1>2, <2>1, <2>2, TakesTyped, SMTT(30) DEF configurationDone, Takes, TypeInv, TypeOK, clientVars
<1>3. CASE restart
  <2>1. Takes("restart") /\ start_worker(TRUE)
    BY <1>3, ZenonT(60) DEF restart
  <2>2. commands' \in [Gen -> Seq(Command)]
    BY <1>3, <1>d, SendCommandTyped, Zenon DEF restart
  <2>3. shown' \in Seq(Event \cup [e : {"restarted"}])
    BY <1>3 DEF restart, TypeInv, TypeOK
  <2> QED BY <1>3, <2>1, <2>2, <2>3, TakesTyped, StartTyped, Zenon DEF restart, Takes, TypeInv, TypeOK, clientVars
<1>4. CASE Movement
  <2>1. Takes("move")
    BY <1>4, Zenon DEF Movement
  <2>2. Head(requests) \in Command
    BY <2>1, TakesTyped DEF Request
  <2>3. commands' \in [Gen -> Seq(Command)]
    BY <1>4, <2>2, SendCommandTyped, Zenon DEF Movement
  <2> QED BY <1>4, <2>1, <2>3, TakesTyped, SMTT(30) DEF Movement, Takes, TypeInv, TypeOK, serverVars, clientVars
<1>5. CASE Inspection
  <2>1. Takes("inspect")
    BY <1>5, Zenon DEF Inspection
  <2>2. Head(requests) \in Command /\ Head(requests).id \in Req
    BY <2>1, TakesTyped DEF Request, Command
  <2>3. commands' \in [Gen -> Seq(Command)]
    BY <1>5, <2>2, SendCommandTyped, Zenon DEF Inspection
  <2>4. \/ server' = "await" /\ awaiting' = Head(requests).id /\ answered' = answered
        \/ /\ answered' = [answered EXCEPT ![Head(requests).id] = Closed]
           /\ server' = server /\ awaiting' = awaiting
    BY <1>5, Zenon DEF Inspection
  <2>5. server' \in {"loop", "await", "exited"} /\ awaiting' \in 0..MaxReq
    BY <2>2, <2>4, BoundsAssumption DEF TypeInv, TypeOK, Req
  <2>6. answered' \in [Req -> Stop \cup {NoStop, Closed}]
    BY <2>2, <2>4, Zenon DEF TypeInv, TypeOK
  <2> QED BY <1>5, <2>1, <2>3, <2>5, <2>6, TakesTyped, SMTT(30) DEF Inspection, Takes, TypeInv, TypeOK, clientVars
<1>6. CASE Leave
  <2>1. requests' \in Seq(Request) /\ UNCHANGED <<clientVars, stops, resumed, replies>>
    <3>1. PICK c : Takes(c)
      BY <1>6, Zenon DEF Leave
    <3> QED BY <3>1, TakesTyped, Zenon DEF Takes
  <2>2. commands' \in [Gen -> Seq(Command)]
    BY <1>6, <1>d, SendCommandTyped, Zenon DEF Leave
  <2> QED BY <1>6, <2>1, <2>2, Zenon DEF Leave, TypeInv, TypeOK, clientVars
<1>7. ASSUME NEW reply \in Stop \cup {NoStop, Closed}, Answer(reply) PROVE TypeInv'
  <2>1. awaiting' \in 0..MaxReq
    BY <1>7, BoundsAssumption DEF Answer
  <2> QED BY <1>7, <2>1, Zenon DEF Answer, TypeInv, TypeOK, workerVars, clientVars
<1>8. CASE ReceiveReply
  <2>1. replies[awaiting] \in Stop \cup {NoStop, Closed}
    BY <1>8, BoundsAssumption DEF ReceiveReply, TypeInv, TypeOK, Req
  <2> QED BY <1>7, <1>8, <2>1, Zenon DEF ReceiveReply
<1>9. CASE Timeout
  BY <1>7, <1>9, Zenon DEF Timeout
<1>10. ASSUME NEW g \in Gen, handle_worker_event(g) PROVE TypeInv'
  <2>1. Head(events[g]) \in Event /\ Tail(events[g]) \in Seq(Event)
    BY <1>10 DEF handle_worker_event, TypeInv, TypeOK
  <2>2. frames' \in Stop \cup {NoStop}
    BY <1>10, <2>1, SMTT(30) DEF handle_worker_event, TypeInv, TypeOK, Event
  <2>3. shown' \in Seq(Event \cup [e : {"restarted"}])
    <3>1. shown' = shown \/ shown' = Append(shown, Head(events[g]))
      BY <1>10, Zenon DEF handle_worker_event
    <3>2. shown \in Seq(Event \cup [e : {"restarted"}])
      BY Zenon DEF TypeInv, TypeOK
    <3>3. Head(events[g]) \in Event \cup [e : {"restarted"}]
      BY <2>1, Zenon
    <3> QED BY <3>1, <3>2, <3>3, AppendTyped
  <2>4. events' \in [Gen -> Seq(Event)]
    BY <1>10, <2>1, Zenon DEF handle_worker_event, TypeInv, TypeOK
  <2> QED BY <1>10, <2>2, <2>3, <2>4, SMTT(30) DEF handle_worker_event, TypeInv, TypeOK, workerVars, clientVars
<1> QED BY <1>1, <1>2, <1>3, <1>4, <1>5, <1>6, <1>8, <1>9, <1>10, Zenon DEF Loop

\* Dropping a command queue only closes reply channels.
LEMMA DroppedTyped ==
  ASSUME TypeInv, NEW queue
  PROVE  Dropped(queue) \in [Req -> Stop \cup {NoStop, Closed}]
BY Zenon DEF TypeInv, TypeOK, Dropped

\* The end of a worker keeps the type.
LEMMA TerminateTyped ==
  ASSUME TypeInv, NEW g \in Gen, Terminate(g), LocalToWorker
  PROVE  TypeInv'
<1>1. [e |-> "terminated"] \in Event /\ events[g] \in Seq(Event)
  BY Zenon DEF Event, TypeInv, TypeOK
<1>2. Append(events[g], [e |-> "terminated"]) \in Seq(Event)
  BY <1>1, AppendTyped, Zenon
<1>3. events' \in [Gen -> Seq(Event)]
  BY <1>2, Zenon DEF Terminate, TypeInv, TypeOK
<1>4. commands' \in [Gen -> Seq(Command)]
  BY DEF Terminate, TypeInv, TypeOK
<1>5. replies' \in [Req -> Stop \cup {NoStop, Closed}]
  BY DroppedTyped, Zenon DEF Terminate
<1>6. worker' \in [Gen -> {"none", "loading", "waiting", "running", "paused", "done"}]
  BY Zenon DEF Terminate, TypeInv, TypeOK
<1> QED BY <1>3, <1>4, <1>5, <1>6, SMTT(30) DEF Terminate, LocalToWorker, TypeInv, TypeOK, serverVars, clientVars

\* A pause keeps the type of what it changes.
LEMMA PauseTyped ==
  ASSUME TypeInv, NEW g \in Gen, pause(g)
  PROVE  /\ worker' \in [Gen -> {"none", "loading", "waiting", "running", "paused", "done"}]
         /\ stops' \in [Gen -> 0..MaxStops]
         /\ events' \in [Gen -> Seq(Event)]
         /\ resumed' = resumed
<1>1. stops[g] + 1 \in 1..MaxStops
  BY BoundsAssumption, SMTT(30) DEF pause, TypeInv, TypeOK, Gen
<1>2. [e |-> "stopped", stop |-> <<g, stops[g] + 1>>] \in Event
  BY <1>1, Zenon DEF Event, Stop
<1>3. Append(events[g], [e |-> "stopped", stop |-> <<g, stops[g] + 1>>]) \in Seq(Event)
  BY <1>2, AppendTyped, Zenon DEF TypeInv, TypeOK
<1>4. events' \in [Gen -> Seq(Event)]
  BY <1>3, Zenon DEF pause, TypeInv, TypeOK
<1>5. stops' \in [Gen -> 0..MaxStops]
  BY <1>1, BoundsAssumption DEF pause, TypeInv, TypeOK
<1>6. worker' \in [Gen -> {"none", "loading", "waiting", "running", "paused", "done"}]
  BY Zenon DEF pause, TypeInv, TypeOK
<1> QED BY <1>4, <1>5, <1>6, Zenon DEF pause

\* A worker that is paused has counted the pause.
PausesCounted == \A g \in Gen : worker[g] = "paused" => stops[g] # 0

\* The workers' steps keep the type.
LEMMA WorkerTyped == ASSUME NEW g \in Gen PROVE TypeInv /\ PausesCounted /\ Worker(g) => TypeInv'
<1> SUFFICES ASSUME TypeInv, PausesCounted, Worker(g) PROVE TypeInv'
  BY Zenon
<1> USE DEF LocalToWorker
<1>1. CASE Load(g)
  <2>1. CASE Terminate(g)
    BY <1>1, <2>1, TerminateTyped, Zenon DEF Load
  <2>2. CASE /\ worker' = [worker EXCEPT ![g] = "waiting"]
             /\ UNCHANGED <<stops, resumed, commands, events, replies>>
    BY <1>1, <2>2, Zenon DEF Load, TypeInv, TypeOK, serverVars, clientVars
  <2> QED BY <1>1, <2>1, <2>2, Zenon DEF Load
<1>2. CASE Start(g)
  BY <1>2, SMTT(30) DEF Start, TypeInv, TypeOK, serverVars, clientVars
<1>3. CASE on_node(g)
  <2>1. CASE Terminate(g)
    BY <1>3, <2>1, TerminateTyped, Zenon DEF on_node
  <2>2. CASE /\ replies' = Dropped(commands[g])
             /\ commands' = [commands EXCEPT ![g] = <<>>]
             /\ pause(g) \/ UNCHANGED <<worker, stops, events, resumed>>
    <3>1. commands' \in [Gen -> Seq(Command)]
      BY <2>2 DEF TypeInv, TypeOK
    <3>2. replies' \in [Req -> Stop \cup {NoStop, Closed}]
      BY <2>2, DroppedTyped, SMTT(30)
    <3>3. CASE pause(g)
      BY <1>3, <3>1, <3>2, <3>3, PauseTyped, SMTT(30) DEF on_node, TypeInv, TypeOK, serverVars, clientVars
    <3>4. CASE UNCHANGED <<worker, stops, events, resumed>>
      BY <1>3, <3>1, <3>2, <3>4, SMTT(30) DEF on_node, TypeInv, TypeOK, serverVars, clientVars
    <3> QED BY <2>2, <3>3, <3>4, Zenon
  <2> QED BY <1>3, <2>1, <2>2, Zenon DEF on_node
<1>4. CASE on_error(g)
  BY <1>4, PauseTyped, SMTT(30) DEF on_error, TypeInv, TypeOK, serverVars, clientVars
<1>5. CASE PauseLoop(g)
  <2>1. CASE Terminate(g)
    BY <1>5, <2>1, TerminateTyped, Zenon DEF PauseLoop
  <2>2. CASE commands[g] # <<>> /\ ~Terminate(g)
    <3> DEFINE command == Head(commands[g])
               here == <<g, stops[g]>>
    <3>1. command \in Command /\ Tail(commands[g]) \in Seq(Command)
      BY <2>2 DEF TypeInv, TypeOK
    <3>2. here \in Stop
      BY <1>5, BoundsAssumption, SMTT(30) DEF PauseLoop, PausesCounted, TypeInv, TypeOK, Stop
    <3>3. commands' = [commands EXCEPT ![g] = Tail(@)]
      BY <1>5, <2>2, Zenon DEF PauseLoop
    <3>4. commands' \in [Gen -> Seq(Command)]
      BY <3>1, <3>3, Zenon DEF TypeInv, TypeOK
    <3>5. CASE command.c = "move"
      <4>1. command.stop \in Stop
        BY <3>1, <3>5, Zenon DEF Command
      <4>2. /\ worker' = [worker EXCEPT ![g] = "running"]
            /\ resumed' = <<here, command.stop>>
            /\ UNCHANGED <<stops, events, replies>>
        BY <1>5, <2>2, <3>5, Zenon DEF PauseLoop
      <4>3. resumed' \in (Stop \cup {NoStop}) \X (Stop \cup {NoStop})
        BY <3>2, <4>1, <4>2, Zenon
      <4>4. worker' \in [Gen -> {"none", "loading", "waiting", "running", "paused", "done"}]
        BY <4>2, Zenon DEF TypeInv, TypeOK
      <4> QED BY <1>5, <3>4, <4>2, <4>3, <4>4, SMTT(30) DEF PauseLoop, TypeInv, TypeOK, serverVars, clientVars
    <3>6. CASE command.c = "inspect"
      <4>1. command.id \in Req
        BY <3>1, <3>6, Zenon DEF Command
      <4>2. /\ replies' = [replies EXCEPT ![command.id] = here]
            /\ UNCHANGED <<worker, stops, resumed, events>>
        BY <1>5, <2>2, <3>6, Zenon DEF PauseLoop
      <4>3. replies' \in [Req -> Stop \cup {NoStop, Closed}]
        BY <3>2, <4>1, <4>2, Zenon DEF TypeInv, TypeOK
      <4> QED BY <1>5, <3>4, <4>2, <4>3, SMTT(30) DEF PauseLoop, TypeInv, TypeOK, serverVars, clientVars
    <3> QED BY <1>5, <2>2, <3>5, <3>6, Zenon DEF PauseLoop
  <2> QED BY <1>5, <2>1, <2>2, Zenon DEF PauseLoop
<1>6. CASE Finish(g)
  BY <1>6, TerminateTyped, Zenon DEF Finish
<1> QED BY <1>1, <1>2, <1>3, <1>4, <1>5, <1>6, Zenon DEF Worker

\* Every step keeps the count of pauses.
LEMMA CountedStep == TypeInv /\ PausesCounted /\ Next => PausesCounted'
<1> SUFFICES ASSUME TypeInv, PausesCounted, Next PROVE PausesCounted'
  BY Zenon
<1>t. /\ worker \in [Gen -> {"none", "loading", "waiting", "running", "paused", "done"}]
      /\ stops \in [Gen -> 0..MaxStops]
  BY Zenon DEF TypeInv, TypeOK
<1>1. CASE UNCHANGED <<worker, stops>>
  BY <1>1, Zenon DEF PausesCounted
<1>2. ASSUME NEW g, NEW s, s # "paused", worker' = [worker EXCEPT ![g] = s], stops' = stops
      PROVE  PausesCounted'
  BY <1>t, <1>2, Zenon DEF PausesCounted
<1>3. ASSUME NEW g \in Gen, pause(g) PROVE PausesCounted'
  BY <1>t, <1>3, BoundsAssumption DEF pause, PausesCounted
<1>4. CASE Client
  BY <1>1, <1>4, Zenon DEF Client, ClientLaunch, ClientConfigurationDone, ClientRestart, ClientMoves,
     ClientInspects, ClientLeaves, ClientReads, ClientSends, workerVars
<1>5. CASE launch \/ restart
  <2>1. PICK a \in BOOLEAN : start_worker(a)
    BY <1>5, Zenon DEF launch, restart
  <2>2. stops' = stops
    BY <1>5, Zenon DEF launch, restart, Takes
  <2> QED BY <1>2, <2>1, <2>2, Zenon DEF start_worker
<1>6. CASE Loop /\ ~launch /\ ~restart
  BY <1>1, <1>6, Zenon DEF Loop, configurationDone, Movement, Inspection, Leave, Takes, ReceiveReply,
     Timeout, Answer, handle_worker_event, workerVars
<1>7. ASSUME NEW g \in Gen, Worker(g) PROVE PausesCounted'
  <2>1. CASE pause(g)
    BY <1>3, <2>1, Zenon
  <2>2. CASE Terminate(g)
    BY <1>2, <2>2, Zenon DEF Terminate
  <2>3. CASE ~pause(g) /\ ~Terminate(g)
    <3>1. \/ UNCHANGED <<worker, stops>>
          \/ \E s \in {"waiting", "running"} : worker' = [worker EXCEPT ![g] = s] /\ stops' = stops
      BY <1>7, <2>3, Zenon DEF Worker, Load, Start, on_node, on_error, PauseLoop, Finish
    <3> QED BY <3>1, <1>1, <1>2, Zenon
  <2> QED BY <2>1, <2>2, <2>3, Zenon
<1>8. CASE Exited
  BY <1>1, <1>8, Zenon DEF Exited, vars, workerVars
<1> QED BY <1>4, <1>5, <1>6, <1>7, <1>8, Zenon DEF Next, Loop

\* The inductive invariant of the types.
LEMMA TypedAndCounted == Spec => [](TypeInv /\ PausesCounted)
<1>1. Init => TypeInv /\ PausesCounted
  <2> SUFFICES ASSUME Init PROVE TypeInv /\ PausesCounted
    BY Zenon
  <2>1. /\ current_gen \in 0..MaxGen /\ cmd_tx \in 0..MaxGen /\ start_tx \in 0..MaxGen
        /\ awaiting \in 0..MaxReq /\ stops \in [Gen -> 0..MaxStops]
    BY BoundsAssumption DEF Init
  <2>2. resumed \in (Stop \cup {NoStop}) \X (Stop \cup {NoStop})
    BY Zenon DEF Init
  <2>3. /\ requests \in Seq(Request) /\ shown \in Seq(Event \cup [e : {"restarted"}])
        /\ asked \in Seq(Stop \cup {NoStop}) /\ Len(asked) <= MaxReq
    BY BoundsAssumption DEF Init
  <2>4. commands \in [Gen -> Seq(Command)] /\ events \in [Gen -> Seq(Event)]
    BY DEF Init
  <2>5. TypeOK
    BY <2>1, <2>2, <2>3, <2>4, Zenon DEF Init, TypeOK
  <2> QED BY <2>5, Zenon DEF Init, TypeInv, PausesCounted
<1>2. TypeInv /\ PausesCounted /\ [Next]_vars => TypeInv'
  <2> SUFFICES ASSUME TypeInv, PausesCounted, [Next]_vars PROVE TypeInv'
    BY Zenon
  <2>1. CASE vars' = vars
    BY <2>1, Zenon DEF vars, serverVars, workerVars, clientVars, TypeInv, TypeOK
  <2>2. CASE Exited
    BY <2>2, Zenon DEF Exited, vars, serverVars, workerVars, clientVars, TypeInv, TypeOK
  <2> QED BY <2>1, <2>2, ClientTyped, LoopTyped, WorkerTyped, Zenon DEF Next
<1>3. TypeInv /\ PausesCounted /\ [Next]_vars => PausesCounted'
  BY CountedStep, Zenon DEF vars, workerVars, PausesCounted
<1> QED BY <1>1, <1>2, <1>3, PTL DEF Spec

\* Every variable of DebugSession keeps its type, whatever the bounds.
THEOREM TypeCorrect == Spec => []TypeOK
BY TypedAndCounted, PTL DEF TypeInv

\* A stop in a worker's event channel is a stop of that worker.
EventsOwned ==
  \A g \in Gen : \A i \in 1..Len(events[g]) :
    events[g][i].e = "stopped" => events[g][i].stop[1] = g

\* The client launches once, before anything is started: a launch in the queue
\* finds no worker, and no restart is queued with it.
LaunchFirst ==
  /\ current_gen = 0 => frames = NoStop
  /\ view = "idle" => /\ current_gen = 0
                      /\ \A i \in 1..Len(requests) : requests[i].c \notin {"launch", "restart"}
  /\ \A i \in 1..Len(requests) : requests[i].c = "launch" =>
       /\ current_gen = 0
       /\ \A j \in 1..Len(requests) : j # i => requests[j].c \notin {"launch", "restart"}

\* Every step keeps stops in the channel of their worker.
LEMMA OwnedStep == TypeInv /\ EventsOwned /\ Next => EventsOwned'
<1> SUFFICES ASSUME TypeInv, EventsOwned, Next PROVE EventsOwned'
  OBVIOUS
<1>t. events \in [Gen -> Seq(Event)]
  BY Zenon DEF TypeInv, TypeOK
<1>1. CASE UNCHANGED events
  BY <1>1, Zenon DEF EventsOwned
<1>2. ASSUME NEW g \in Gen, NEW x \in Event, x.e = "stopped" => x.stop[1] = g,
             events' = [events EXCEPT ![g] = Append(@, x)]
      PROVE  EventsOwned'
  BY <1>t, <1>2 DEF EventsOwned
<1>3. ASSUME NEW g \in Gen, Terminate(g) PROVE EventsOwned'
  <2>1. [e |-> "terminated"] \in Event
    BY Zenon DEF Event
  <2> QED BY <1>2, <1>3, <2>1, Zenon DEF Terminate
<1>4. ASSUME NEW g \in Gen, pause(g) PROVE EventsOwned'
  <2>1. stops[g] + 1 \in 1..MaxStops
    BY <1>4, BoundsAssumption, SMTT(30) DEF pause, TypeInv, TypeOK, Gen
  <2>2. [e |-> "stopped", stop |-> <<g, stops[g] + 1>>] \in Event
    BY <2>1, Zenon DEF Event, Stop
  <2> QED BY <1>2, <1>4, <2>2, Zenon DEF pause
<1>5. ASSUME NEW g \in Gen, handle_worker_event(g) PROVE EventsOwned'
  <2>1. events[g] # <<>> /\ events' = [events EXCEPT ![g] = Tail(@)]
    BY <1>5, Zenon DEF handle_worker_event
  <2>2. ASSUME NEW h \in Gen, NEW i \in 1..Len(events'[h]), events'[h][i].e = "stopped"
        PROVE  events'[h][i].stop[1] = h
    <3>1. CASE h # g
      BY <1>t, <2>1, <2>2, <3>1, Zenon DEF EventsOwned
    <3>2. CASE h = g
      <4>1. events[g] \in Seq(Event) /\ events'[g] = Tail(events[g])
        BY <1>t, <2>1, Zenon
      <4>2. i + 1 \in 1..Len(events[g]) /\ events'[g][i] = events[g][i + 1]
        BY <2>1, <2>2, <3>2, <4>1, TailElement, Zenon
      <4> QED BY <2>2, <3>2, <4>2 DEF EventsOwned
    <3> QED BY <3>1, <3>2, Zenon
  <2> QED BY <2>2, Zenon DEF EventsOwned
<1>6. ASSUME NEW a, start_worker(a) PROVE EventsOwned'
  <2>1. CASE events' = [events EXCEPT ![current_gen + 1] = <<[e |-> "terminated"]>>]
    BY <1>t, <2>1 DEF EventsOwned
  <2> QED BY <1>1, <1>6, <2>1, Zenon DEF start_worker
<1>7. CASE Client
  BY <1>1, <1>7, Zenon DEF Client, ClientLaunch, ClientConfigurationDone, ClientRestart, ClientMoves,
     ClientInspects, ClientLeaves, ClientReads, ClientSends
<1>8. CASE Loop
  BY <1>1, <1>5, <1>6, <1>8, Zenon DEF Loop, launch, restart, configurationDone, Movement, Inspection,
     Leave, ReceiveReply, Timeout, Answer
<1>9. ASSUME NEW g \in Gen, Worker(g) PROVE EventsOwned'
  <2>1. CASE ~pause(g) /\ ~Terminate(g)
    <3>1. UNCHANGED events
      BY <1>9, <2>1, Zenon DEF Worker, Load, Start, on_node, on_error, PauseLoop, Finish
    <3> QED BY <3>1, <1>1, Zenon
  <2> QED BY <1>3, <1>4, <2>1, Zenon
<1>10. CASE Exited
  BY <1>1, <1>10, Zenon DEF Exited, vars
<1> QED BY <1>7, <1>8, <1>9, <1>10, Zenon DEF Next

\* What a step of the queue does to LaunchFirst: a request that is neither launch
\* nor restart is added, or the first is taken.
LEMMA LaunchFirstTaken ==
  ASSUME TypeInv, LaunchFirst, NEW c, Takes(c),
         current_gen' = current_gen \/ c \in {"launch", "restart"},
         current_gen' # 0 \/ frames' = NoStop
  PROVE  LaunchFirst'
<1>1. /\ requests \in Seq(Request) /\ requests # <<>> /\ requests' = Tail(requests)
      /\ requests[1].c = c /\ view' = view
  BY DEF Takes, TypeInv, TypeOK, clientVars
<1>2. \A i \in 1..Len(requests') : i + 1 \in 1..Len(requests) /\ requests'[i] = requests[i + 1]
  BY <1>1, TailElement, Zenon
<1>3. 1 \in 1..Len(requests)
  BY <1>1
<1>4. CASE c \in {"launch", "restart"}
  <2>1. view' # "idle"
    BY <1>1, <1>3, <1>4, Zenon DEF LaunchFirst
  <2>2. \A i \in 1..Len(requests') : requests'[i].c # "launch"
    <3> SUFFICES ASSUME NEW i \in 1..Len(requests'), requests'[i].c = "launch" PROVE FALSE
      BY Zenon
    <3>1. i + 1 \in 1..Len(requests) /\ requests[i + 1].c = "launch" /\ i + 1 # 1
      BY <1>2
    <3> QED BY <1>1, <1>3, <1>4, <3>1, Zenon DEF LaunchFirst
  <2> QED BY <2>1, <2>2, Zenon DEF LaunchFirst
<1>5. CASE current_gen' = current_gen
  <2>1. view' = "idle" => \A i \in 1..Len(requests') : requests'[i].c \notin {"launch", "restart"}
    BY <1>1, <1>2, Zenon DEF LaunchFirst
  <2>2. ASSUME NEW i \in 1..Len(requests'), requests'[i].c = "launch",
               NEW j \in 1..Len(requests'), j # i
        PROVE  requests'[j].c \notin {"launch", "restart"}
    BY <1>2, <2>2 DEF LaunchFirst
  <2>3. ASSUME NEW i \in 1..Len(requests'), requests'[i].c = "launch" PROVE current_gen' = 0
    BY <1>2, <1>5, <2>3, Zenon DEF LaunchFirst
  <2>4. view' = "idle" => current_gen' = 0
    BY <1>1, <1>5, Zenon DEF LaunchFirst
  <2> QED BY <2>1, <2>2, <2>3, <2>4, Zenon DEF LaunchFirst
<1> QED BY <1>4, <1>5, Zenon

\* Every step keeps LaunchFirst.
LEMMA LaunchFirstStep == TypeInv /\ LaunchFirst /\ Next => LaunchFirst'
<1> SUFFICES ASSUME TypeInv, LaunchFirst, Next PROVE LaunchFirst'
  OBVIOUS
<1>t. requests \in Seq(Request) /\ current_gen \in Nat
  BY BoundsAssumption, SMTT(30) DEF TypeInv, TypeOK
<1>1. ASSUME UNCHANGED <<current_gen, frames, requests>>, view' = "idle" => view = "idle"
      PROVE  LaunchFirst'
  BY <1>1, Zenon DEF LaunchFirst
<1>2. ASSUME NEW r \in Request, NEW v, ClientSends(r, v), r.c \notin {"launch", "restart"},
             v = "idle" => view = "idle"
      PROVE  LaunchFirst'
  <2>1. /\ current_gen' = current_gen /\ frames' = frames /\ view' = v
        /\ Len(requests') = Len(requests) + 1 /\ requests'[Len(requests) + 1] = r
        /\ \A i \in 1..Len(requests) : requests'[i] = requests[i]
    BY <1>t, <1>2 DEF ClientSends, serverVars
  <2>2. \A i \in 1..Len(requests') : i \in 1..Len(requests) \/ i = Len(requests) + 1
    BY <1>t, <2>1
  <2> QED BY <1>2, <2>1, <2>2, Zenon DEF LaunchFirst
<1>3. CASE ClientLaunch
  <2>1. /\ current_gen' = current_gen /\ frames' = frames /\ view' = "running" /\ view = "idle"
        /\ Len(requests') = Len(requests) + 1
        /\ \A i \in 1..Len(requests) : requests'[i] = requests[i]
    BY <1>t, <1>3 DEF ClientLaunch, ClientSends, serverVars
  <2>2. \A i \in 1..Len(requests') : i \in 1..Len(requests) \/ i = Len(requests) + 1
    BY <1>t, <2>1
  <2>3. ASSUME NEW i \in 1..Len(requests'), requests'[i].c = "launch",
               NEW j \in 1..Len(requests'), j # i
        PROVE  requests'[j].c \notin {"launch", "restart"}
    BY <2>1, <2>2, <2>3, Zenon DEF LaunchFirst
  <2> QED BY <2>1, <2>3, Zenon DEF LaunchFirst
<1>4. CASE ClientRestart
  <2>1. /\ current_gen' = current_gen /\ frames' = frames /\ view' = "restarting"
        /\ \A i \in 1..Len(requests) : requests[i].c # "launch"
        /\ Len(requests') = Len(requests) + 1 /\ requests'[Len(requests) + 1].c = "restart"
        /\ \A i \in 1..Len(requests) : requests'[i] = requests[i]
    BY <1>t, <1>4 DEF ClientRestart, ClientSends, serverVars, Pending
  <2>2. \A i \in 1..Len(requests') : requests'[i].c # "launch"
    <3>1. \A i \in 1..Len(requests') : i \in 1..Len(requests) \/ i = Len(requests) + 1
      BY <1>t, <2>1
    <3> QED BY <2>1, <3>1, Zenon
  <2> QED BY <2>1, <2>2, Zenon DEF LaunchFirst
<1>5. CASE ClientConfigurationDone
  <2>1. [c |-> "configurationDone"] \in Request
    BY Zenon DEF Request
  <2> QED BY <1>2, <1>5, <2>1, Zenon DEF ClientConfigurationDone
<1>6. CASE ClientMoves
  <2>1. [c |-> "move", stop |-> viewed] \in Request
    BY <1>6, Zenon DEF Request, Command, ClientMoves, TypeInv
  <2> QED BY <1>2, <1>6, <2>1 DEF ClientMoves
<1>7. CASE ClientInspects
  <2>1. Len(asked) + 1 \in Req
    BY <1>7, BoundsAssumption DEF Req, ClientInspects, TypeInv, TypeOK
  <2>2. [c |-> "inspect", id |-> Len(asked) + 1] \in Request
    BY <2>1, Zenon DEF Request, Command
  <2> QED BY <1>2, <1>7, <2>2, Zenon DEF ClientInspects
<1>8. CASE ClientLeaves
  <2> PICK c \in {"disconnect", "eof"} : ClientSends([c |-> c], "gone")
    BY <1>8, Zenon DEF ClientLeaves
  <2>1. [c |-> c] \in Request
    BY Zenon DEF Request, Command
  <2> QED BY <1>2, <2>1, Zenon
<1>9. CASE ClientReads
  BY <1>1, <1>9, Zenon DEF ClientReads, serverVars
<1>10. CASE launch \/ restart
  <2>1. PICK c \in {"launch", "restart"} : Takes(c)
    BY <1>10, Zenon DEF launch, restart
  <2>2. current_gen' = current_gen + 1
    BY <1>10, Zenon DEF launch, restart, start_worker
  <2>3. current_gen' # 0
    BY <1>t, <2>2
  <2> QED BY <2>1, <2>3, LaunchFirstTaken, Zenon
<1>11. CASE configurationDone \/ Movement \/ Inspection \/ Leave
  <2>1. PICK c : Takes(c)
    BY <1>11, Zenon DEF configurationDone, Movement, Inspection, Leave
  <2>2. current_gen' = current_gen /\ frames' = frames
    BY <1>11, Zenon DEF configurationDone, Movement, Inspection, Leave, serverVars
  <2> QED BY <2>1, <2>2, LaunchFirstTaken, Zenon DEF LaunchFirst
<1>12. CASE ReceiveReply \/ Timeout
  BY <1>1, <1>12, Zenon DEF ReceiveReply, Timeout, Answer, clientVars
<1>13. ASSUME NEW g \in Gen, handle_worker_event(g) PROVE LaunchFirst'
  <2>1. current_gen' = current_gen /\ requests' = requests /\ view' = view
    BY <1>13, Zenon DEF handle_worker_event, clientVars
  <2>2. current_gen = 0 => frames' = frames
    BY <1>13, BoundsAssumption DEF handle_worker_event, Gen
  <2> QED BY <2>1, <2>2, Zenon DEF LaunchFirst
<1>14. ASSUME NEW g \in Gen, Worker(g) PROVE LaunchFirst'
  BY <1>1, <1>14, Zenon DEF Worker, Load, Start, on_node, on_error, PauseLoop, Finish, LocalToWorker,
     serverVars, clientVars
<1>15. CASE Exited
  BY <1>1, <1>15, Zenon DEF Exited, vars, serverVars, clientVars
<1> QED BY <1>3, <1>4, <1>5, <1>6, <1>7, <1>8, <1>9, <1>10, <1>11, <1>12, <1>13, <1>14, <1>15, Zenon
         DEF Next, Client, Loop

\* FramesOfCurrentRun is kept by every step: only restart and launch change the
\* generation, restart clears the frames and launch finds none, and an event is
\* taken from the current worker only.
LEMMA FramesStep ==
  TypeInv /\ EventsOwned /\ LaunchFirst /\ FramesOfCurrentRun /\ Next => FramesOfCurrentRun'
<1> SUFFICES ASSUME TypeInv, EventsOwned, LaunchFirst, FramesOfCurrentRun, Next
             PROVE  FramesOfCurrentRun'
  BY Zenon
<1>1. CASE UNCHANGED <<current_gen, frames>>
  BY <1>1, Zenon DEF FramesOfCurrentRun
<1>2. CASE launch
  <2>1. requests # <<>> /\ requests[1].c = "launch" /\ requests \in Seq(Request) /\ frames' = frames
    BY <1>2 DEF launch, Takes, TypeInv, TypeOK
  <2>2. frames = NoStop
    BY <2>1 DEF LaunchFirst
  <2> QED BY <2>1, <2>2, Zenon DEF FramesOfCurrentRun
<1>3. CASE restart
  BY <1>3, Zenon DEF restart, FramesOfCurrentRun
<1>4. ASSUME NEW g \in Gen, handle_worker_event(g), ~UNCHANGED <<current_gen, frames>>
      PROVE  FramesOfCurrentRun'
  <2>1. /\ events[g] # <<>> /\ g = current_gen /\ current_gen' = current_gen
        /\ Head(events[g]).e = "stopped" /\ frames' = Head(events[g]).stop
    BY <1>4, Zenon DEF handle_worker_event
  <2>2. Head(events[g]) = events[g][1] /\ 1 \in 1..Len(events[g])
    BY <2>1 DEF TypeInv, TypeOK
  <2> QED BY <2>1, <2>2, Zenon DEF EventsOwned, FramesOfCurrentRun
<1>5. CASE ~launch /\ ~restart /\ ~(\E g \in Gen : handle_worker_event(g))
  <2>1. CASE Client
    BY <2>1, <1>1, SMTT(30) DEF Client, ClientLaunch, ClientConfigurationDone, ClientRestart, ClientMoves,
       ClientInspects, ClientLeaves, ClientReads, ClientSends, serverVars
  <2>2. CASE Loop
    BY <2>2, <1>1, <1>5, Zenon DEF Loop, configurationDone, Movement, Inspection, Leave, ReceiveReply,
       Timeout, Answer, serverVars
  <2>3. ASSUME NEW g \in Gen, Worker(g) PROVE UNCHANGED <<current_gen, frames>>
    BY <2>3, Zenon DEF Worker, Load, Start, on_node, on_error, PauseLoop, Finish, LocalToWorker, serverVars
  <2>4. CASE Exited
    BY <2>4, <1>1, Zenon DEF Exited, vars, serverVars
  <2> QED BY <1>1, <2>1, <2>2, <2>3, <2>4, Zenon DEF Next
<1> QED BY <1>1, <1>2, <1>3, <1>4, <1>5, Zenon

\* stackTrace never answers with the frames of a superseded worker, for any number
\* of workers, stops and requests (main.rs:143, main.rs:664-672).
THEOREM FramesAreCurrent == Spec => []FramesOfCurrentRun
<1> DEFINE IInv == TypeInv /\ PausesCounted /\ EventsOwned /\ LaunchFirst /\ FramesOfCurrentRun
<1>1. Init => EventsOwned /\ LaunchFirst /\ FramesOfCurrentRun
  BY DEF Init, EventsOwned, LaunchFirst, FramesOfCurrentRun
<1>2. IInv /\ [Next]_vars => (EventsOwned /\ LaunchFirst /\ FramesOfCurrentRun)'
  <2> SUFFICES ASSUME IInv, [Next]_vars
               PROVE  (EventsOwned /\ LaunchFirst /\ FramesOfCurrentRun)'
    BY SMTT(30)
  <2>1. CASE vars' = vars
    BY <2>1, Zenon DEF vars, serverVars, clientVars, EventsOwned, LaunchFirst, FramesOfCurrentRun
  <2> QED BY <2>1, OwnedStep, LaunchFirstStep, FramesStep, Zenon
<1>3. Spec => [](TypeInv /\ PausesCounted)
  BY TypedAndCounted, Zenon
<1> QED BY <1>1, <1>2, <1>3, PTL DEF Spec

-----------------------------------------------------------------------------
(* A stop and what is asked and moved upon it *)

\* The stop the client had been shown when it made a request.
UponIn(stopOf, m) ==
  IF m.c = "move" THEN m.stop ELSE IF m.c = "inspect" THEN stopOf[m.id] ELSE NoStop
Upon(m) == UponIn(asked, m)

NoMove(q) == \A i \in 1..Len(q) : q[i].c # "move"

\* What was requested upon a stop finds its worker at that stop, before any movement.
Timely(q, g) ==
  \A i \in 1..Len(q) : Upon(q[i]) # NoStop =>
    /\ worker[g] = "paused" /\ Upon(q[i]) = <<g, stops[g]>>
    /\ \A j \in 1..Len(q) : j < i => q[j].c # "move"

\* The current worker is paused there and no movement is under way.
Rests(s) ==
  /\ s = <<current_gen, stops[current_gen]>> /\ worker[current_gen] = "paused"
  /\ NoMove(requests) /\ NoMove(commands[current_gen])

\* The loop sends to the newest worker; generations to come are blank; a current worker is
\* not told to disconnect while the loop lives.
SenderInv ==
  /\ cmd_tx = current_gen
  /\ \A g \in Gen : g > current_gen => worker[g] = "none" /\ commands[g] = <<>> /\ events[g] = <<>>
  /\ \A g \in Gen : g = current_gen /\ server # "exited" =>
       \A i \in 1..Len(commands[g]) : commands[g][i].c # "disconnect"

\* Request numbers are those given, and no answer comes before its request.
AnswerInv ==
  /\ \A i \in 1..Len(requests) : requests[i].c = "inspect" => requests[i].id <= Len(asked)
  /\ \A g \in Gen : \A i \in 1..Len(commands[g]) :
       commands[g][i].c = "inspect" => commands[g][i].id <= Len(asked)
  /\ awaiting <= Len(asked)
  /\ \A r \in Req : r > Len(asked) => replies[r] = NoStop /\ answered[r] = NoStop
  /\ \A r \in Req : r <= Len(asked) /\ asked[r] # NoStop =>
       replies[r] \in {NoStop, Closed, asked[r]} /\ answered[r] \in {NoStop, Closed, asked[r]}

\* From its restart request to the response, of which there is one at most, the client is
\* restarting and asks nothing; stops of earlier workers are shown before the response.
RestartAsked ==
  \A i \in 1..Len(requests) : requests[i].c = "restart" =>
    /\ view \in {"restarting", "gone"}
    /\ \A j \in 1..Len(shown) : shown[j].e # "restarted"
    /\ \A j \in 1..Len(requests) : j > i => requests[j].c # "restart" /\ Upon(requests[j]) = NoStop
RestartTold ==
  \A i \in 1..Len(shown) : shown[i].e = "restarted" =>
    /\ view \in {"restarting", "gone"}
    /\ \A j \in 1..Len(shown) : shown[j].e = "restarted" => j = i
StopsToldBefore ==
  \A i \in 1..Len(shown) : shown[i].e = "stopped" =>
    /\ shown[i].stop[1] <= current_gen
    /\ shown[i].stop[1] # current_gen =>
         \E j \in 1..Len(shown) : j > i /\ shown[j].e = "restarted"

RestartInv == RestartAsked /\ RestartTold /\ StopsToldBefore

\* The stop of the current worker is in one place: its event channel, what is shown, the
\* client's view, or a movement on its way back.
StopViewed == view = "stopped" => Rests(viewed)
StopShown ==
  \A i \in 1..Len(shown) : shown[i].e = "stopped" /\ shown[i].stop[1] = current_gen =>
    /\ Rests(shown[i].stop) /\ view # "stopped"
    /\ \A j \in 1..Len(shown) : shown[j].e = "stopped" /\ shown[j].stop[1] = current_gen => j = i
StopSent ==
  \A g \in Gen : \A i \in 1..Len(events[g]) : g = current_gen /\ events[g][i].e = "stopped" =>
    /\ Rests(events[g][i].stop) /\ view # "stopped"
    /\ \A j \in 1..Len(shown) : shown[j].e = "stopped" => shown[j].stop[1] # g
    /\ \A j \in 1..Len(events[g]) : events[g][j].e = "stopped" => j = i
RequestsTimely ==
  /\ Timely(requests, current_gen)
  /\ \A i \in 1..Len(requests) : Upon(requests[i]) # NoStop => NoMove(commands[current_gen])
CommandsTimely == \A g \in Gen : Timely(commands[g], g)

TokenInv == StopViewed /\ StopShown /\ StopSent /\ RequestsTimely /\ CommandsTimely

SessionInv ==
  /\ TypeInv /\ PausesCounted /\ EventsOwned /\ LaunchFirst
  /\ SenderInv /\ AnswerInv /\ RestartInv /\ TokenInv /\ ResumeMatchesStop

LEMMA AppendElement ==
  ASSUME NEW S, NEW q \in Seq(S), NEW x \in S
  PROVE  /\ Append(q, x) \in Seq(S) /\ Len(q) \in Nat /\ Len(Append(q, x)) = Len(q) + 1
         /\ Append(q, x)[Len(q) + 1] = x /\ \A i \in 1..Len(q) : Append(q, x)[i] = q[i]
         /\ \A i \in 1..(Len(q) + 1) : i \in 1..Len(q) \/ i = Len(q) + 1
OBVIOUS

LEMMA HeadElement ==
  ASSUME NEW S, NEW q \in Seq(S), q # <<>>
  PROVE  Head(q) = q[1] /\ 1 \in 1..Len(q) /\ Head(q) \in S /\ Tail(q) \in Seq(S)
OBVIOUS

\* The types used below, without the rest.
LEMMA Typed ==
  TypeInv => /\ requests \in Seq(Request) /\ shown \in Seq(Event \cup [e : {"restarted"}])
             /\ commands \in [Gen -> Seq(Command)] /\ events \in [Gen -> Seq(Event)]
             /\ worker \in [Gen -> {"none", "loading", "waiting", "running", "paused", "done"}]
             /\ stops \in [Gen -> 0..MaxStops] /\ current_gen \in 0..MaxGen /\ cmd_tx \in 0..MaxGen
             /\ replies \in [Req -> Stop \cup {NoStop, Closed}]
             /\ answered \in [Req -> Stop \cup {NoStop, Closed}]
             /\ asked \in Seq(Stop \cup {NoStop}) /\ Len(asked) <= MaxReq /\ awaiting \in 0..MaxReq
             /\ current_gen \in Nat /\ Len(asked) \in Nat /\ Gen \subseteq Nat
<1> SUFFICES ASSUME TypeInv PROVE current_gen \in Nat /\ Len(asked) \in Nat /\ Gen \subseteq Nat
  BY Zenon DEF TypeInv, TypeOK
<1>1. current_gen \in 0..MaxGen /\ asked \in Seq(Stop \cup {NoStop})
  BY Zenon DEF TypeInv, TypeOK
<1> QED BY <1>1, BoundsAssumption DEF Gen

\* send_command reaches the newest worker only.
LEMMA SentTo ==
  ASSUME TypeInv, NEW command \in Command, NEW g \in Gen
  PROVE  send_command(command)[g] = IF g = cmd_tx /\ worker[g] # "done"
                                    THEN Append(commands[g], command) ELSE commands[g]
<1>1. commands \in [Gen -> Seq(Command)]
  BY Typed, Zenon
<1>2. g # 0
  BY BoundsAssumption DEF Gen
<1> QED BY <1>1, <1>2, Zenon DEF send_command

-----------------------------------------------------------------------------
(* The steps, by what they do *)

\* A request is added: it is m, and the client believes v from then on.
Adds(m, v) ==
  /\ requests' = Append(requests, m) /\ view' = v
  /\ UNCHANGED <<server, current_gen, cmd_tx, awaiting, worker, stops, resumed, viewed, commands,
                 events, replies, answered, shown>>

LEMMA ClientCases ==
  ASSUME TypeInv, Client
  PROVE  \/ /\ asked' = asked
            /\ \E m \in Request : \E v \in {"running", "restarting", "gone", view} :
                 /\ Adds(m, v) /\ m.c \notin {"move", "inspect"}
                 /\ m.c = "restart" => v = "restarting" /\ view \in {"running", "stopped"}
                 /\ view \in {"restarting", "gone"} => v \in {"restarting", "gone"}
         \/ /\ asked' = asked /\ view = "stopped" /\ viewed \in Stop
            /\ Adds([c |-> "move", stop |-> viewed], "running")
         \/ /\ view \in {"running", "stopped"} /\ Len(asked) + 1 \in Req
            /\ asked' = Append(asked, IF view = "stopped" THEN viewed ELSE NoStop)
            /\ Adds([c |-> "inspect", id |-> Len(asked) + 1], view)
         \/ ClientReads
<1>t. /\ view = "stopped" => viewed \in Stop
      /\ asked \in Seq(Stop \cup {NoStop}) /\ Len(asked) <= MaxReq
  BY Zenon DEF TypeInv, TypeOK
<1>1. ASSUME NEW m, NEW v, ClientSends(m, v) PROVE Adds(m, v)
  BY <1>1, Zenon DEF ClientSends, Adds, serverVars, workerVars
<1>2. /\ [c |-> "launch"] \in Request /\ [c |-> "configurationDone"] \in Request
      /\ [c |-> "restart"] \in Request /\ [c |-> "disconnect"] \in Request /\ [c |-> "eof"] \in Request
  BY Zenon DEF Request, Command
<1>3. CASE ClientLaunch
  BY <1>1, <1>2, <1>3, Zenon DEF ClientLaunch
<1>4. CASE ClientConfigurationDone
  BY <1>1, <1>2, <1>4, Zenon DEF ClientConfigurationDone
<1>5. CASE ClientRestart
  BY <1>1, <1>2, <1>5, Zenon DEF ClientRestart
<1>6. CASE ClientMoves
  BY <1>t, <1>1, <1>6, Zenon DEF ClientMoves
<1>7. CASE ClientInspects
  <2>1. Len(asked) + 1 \in Req
    BY <1>t, <1>7, BoundsAssumption DEF Req, ClientInspects
  <2> QED BY <1>1, <1>7, <2>1, Zenon DEF ClientInspects
<1>8. CASE ClientLeaves
  BY <1>1, <1>2, <1>8, Zenon DEF ClientLeaves
<1> QED BY <1>3, <1>4, <1>5, <1>6, <1>7, <1>8, Zenon DEF Client

\* A worker moves on to evaluation.
Begins(g) ==
  /\ worker[g] \in {"loading", "waiting"}
  /\ \E s \in {"waiting", "running"} : worker' = [worker EXCEPT ![g] = s]
  /\ UNCHANGED <<stops, resumed, commands, events, replies>>
\* It ends; it was at a stop only if it was told to disconnect or is superseded.
Ends(g) ==
  /\ worker[g] \in {"loading", "running", "paused"} /\ Terminate(g)
  /\ worker[g] = "paused" => \/ cmd_tx # g
                             \/ commands[g] # <<>> /\ Head(commands[g]).c \notin {"move", "inspect"}
Drains(g) == replies' = Dropped(commands[g]) /\ commands' = [commands EXCEPT ![g] = <<>>]
\* It drains its commands, it pauses, or both.
Passes(g) == worker[g] = "running" /\ Drains(g) /\ UNCHANGED <<worker, stops, resumed, events>>
Pauses(g) == worker[g] = "running" /\ pause(g) /\ (Drains(g) \/ UNCHANGED <<commands, replies>>)
\* At a stop it takes a command.
Resumes(g) ==
  /\ worker[g] = "paused" /\ commands[g] # <<>> /\ Head(commands[g]).c = "move"
  /\ worker' = [worker EXCEPT ![g] = "running"]
  /\ resumed' = <<<<g, stops[g]>>, Head(commands[g]).stop>>
  /\ commands' = [commands EXCEPT ![g] = Tail(@)]
  /\ UNCHANGED <<stops, events, replies>>
Replies(g) ==
  /\ worker[g] = "paused" /\ commands[g] # <<>> /\ Head(commands[g]).c = "inspect"
  /\ replies' = [replies EXCEPT ![Head(commands[g]).id] = <<g, stops[g]>>]
  /\ commands' = [commands EXCEPT ![g] = Tail(@)]
  /\ UNCHANGED <<worker, stops, resumed, events>>

LEMMA WorkerCases ==
  ASSUME NEW g \in Gen, Worker(g)
  PROVE  /\ server # "exited"
         /\ UNCHANGED <<server, current_gen, cmd_tx, awaiting, view, viewed, asked, answered,
                        requests, shown>>
         /\ Begins(g) \/ Ends(g) \/ Passes(g) \/ Pauses(g) \/ Resumes(g) \/ Replies(g)
<1>1. /\ server # "exited"
      /\ UNCHANGED <<server, current_gen, cmd_tx, awaiting, view, viewed, asked, answered,
                     requests, shown>>
  BY Zenon DEF Worker, Load, Start, on_node, on_error, PauseLoop, Finish, LocalToWorker, serverVars, clientVars
<1> SUFFICES Begins(g) \/ Ends(g) \/ Passes(g) \/ Pauses(g) \/ Resumes(g) \/ Replies(g)
  BY <1>1, Zenon
<1>2. CASE Load(g)
  BY <1>2, Zenon DEF Load, Begins, Ends
<1>3. CASE Start(g)
  BY <1>3, Zenon DEF Start, Begins
<1>4. CASE on_node(g)
  BY <1>4, Zenon DEF on_node, Ends, Passes, Pauses, Drains
<1>5. CASE on_error(g)
  BY <1>5, Zenon DEF on_error, Pauses
<1>6. CASE PauseLoop(g)
  <2>1. CASE commands[g] = <<>>
    BY <1>6, <2>1, Zenon DEF PauseLoop, Ends
  <2>2. CASE commands[g] # <<>> /\ Head(commands[g]).c = "move"
    BY <1>6, <2>2, Zenon DEF PauseLoop, Resumes
  <2>3. CASE commands[g] # <<>> /\ Head(commands[g]).c = "inspect"
    BY <1>6, <2>3, Zenon DEF PauseLoop, Replies
  <2>4. CASE commands[g] # <<>> /\ Head(commands[g]).c \notin {"move", "inspect"}
    BY <1>6, <2>4, Zenon DEF PauseLoop, Ends
  <2> QED BY <2>1, <2>2, <2>3, <2>4, Zenon
<1>7. CASE Finish(g)
  BY <1>7, ZenonT(60) DEF Finish, Ends
<1> QED BY <1>2, <1>3, <1>4, <1>5, <1>6, <1>7, Zenon DEF Worker

\* The loop takes a request.
Took ==
  /\ server = "loop" /\ requests # <<>> /\ requests' = Tail(requests)
  /\ UNCHANGED <<stops, resumed, replies, view, viewed, asked>>
\* It has a new worker.
Launches ==
  /\ current_gen' = current_gen + 1 /\ cmd_tx' = current_gen + 1 /\ current_gen + 1 \in Gen
  /\ \/ worker' = [worker EXCEPT ![current_gen + 1] = "loading"] /\ events' = events
     \/ /\ worker' = [worker EXCEPT ![current_gen + 1] = "done"]
        /\ events' = [events EXCEPT ![current_gen + 1] = <<[e |-> "terminated"]>>]
  /\ UNCHANGED <<server, awaiting, answered>>
\* It sends a command on, or tells the worker to disconnect as it leaves.
Forwards(command) ==
  /\ commands' = send_command(command)
  /\ UNCHANGED <<current_gen, cmd_tx, worker, events, shown>>

LEMMA LoopCases ==
  ASSUME TypeInv, Loop
  PROVE  \/ Took /\ Head(requests).c = "launch" /\ Launches /\ commands' = commands /\ shown' = shown
         \/ /\ Took /\ Head(requests).c = "restart" /\ Launches
            /\ commands' = send_command([c |-> "disconnect"])
            /\ shown' = Append(shown, [e |-> "restarted"])
         \/ /\ Took /\ Head(requests).c = "configurationDone"
            /\ UNCHANGED <<server, current_gen, cmd_tx, awaiting, worker, commands, events,
                           answered, shown>>
         \/ /\ Took /\ Head(requests).c = "move" /\ Forwards(Head(requests))
            /\ UNCHANGED <<server, awaiting, answered>>
         \/ /\ Took /\ Head(requests).c = "inspect" /\ Forwards(Head(requests)) /\ server' # "exited"
            /\ \/ awaiting' = Head(requests).id /\ answered' = answered
               \/ /\ awaiting' = awaiting
                  /\ answered' = [answered EXCEPT ![Head(requests).id] = Closed]
         \/ /\ Took /\ Head(requests).c \in {"disconnect", "eof"} /\ Forwards([c |-> "disconnect"])
            /\ server' = "exited" /\ UNCHANGED <<awaiting, answered>>
         \/ \E reply : Answer(reply) /\ (reply = Closed \/ (awaiting # 0 /\ reply = replies[awaiting]))
         \/ \E g \in Gen : handle_worker_event(g)
<1>1. ASSUME NEW c, Takes(c) PROVE Took /\ Head(requests).c = c
  BY <1>1, Zenon DEF Takes, Took, clientVars
<1>2. ASSUME NEW a, start_worker(a), UNCHANGED <<server, awaiting, answered>> PROVE Launches
  <2>1. current_gen + 1 \in Gen
    BY <1>2, BoundsAssumption DEF TypeInv, TypeOK, Gen, start_worker
  <2> QED BY <1>2, <2>1, Zenon DEF start_worker, Launches
<1>3. CASE launch
  BY <1>1, <1>2, <1>3, Zenon DEF launch
<1>4. CASE restart
  BY <1>1, <1>2, <1>4, Zenon DEF restart
<1>5. CASE configurationDone
  BY <1>1, <1>5, Zenon DEF configurationDone
<1>6. CASE Movement
  BY <1>1, <1>6, Zenon DEF Movement, Forwards, serverVars
<1>7. CASE Inspection
  <2>1. Took /\ Head(requests).c = "inspect"
    BY <1>1, <1>7, Zenon DEF Inspection
  <2>2. Forwards(Head(requests))
    BY <1>7, Zenon DEF Inspection, Forwards
  <2>3. /\ server' \in {"await", server}
        /\ \/ awaiting' = Head(requests).id /\ answered' = answered
           \/ /\ awaiting' = awaiting
              /\ answered' = [answered EXCEPT ![Head(requests).id] = Closed]
    BY <1>7, Zenon DEF Inspection
  <2> QED BY <2>1, <2>2, <2>3, Zenon DEF Took
<1>8. CASE Leave
  <2>1. Took /\ Head(requests).c \in {"disconnect", "eof"}
    BY <1>1, <1>8, Zenon DEF Leave
  <2> QED BY <1>8, <2>1, Zenon DEF Leave, Forwards
<1>9. CASE ReceiveReply \/ Timeout
  BY <1>9, Zenon DEF ReceiveReply, Timeout
<1> QED BY <1>3, <1>4, <1>5, <1>6, <1>7, <1>8, <1>9 DEF Loop

\* A worker's step is its own, and leaves of its commands all, none or all but the first.
LEMMA WorkerOwn ==
  ASSUME TypeInv, NEW g \in Gen, Worker(g)
  PROVE  /\ worker[g] # "none"
         /\ \A h \in Gen \ {g} : /\ worker'[h] = worker[h] /\ stops'[h] = stops[h]
                                 /\ commands'[h] = commands[h] /\ events'[h] = events[h]
         /\ \/ commands'[g] = commands[g] \/ commands'[g] = <<>>
            \/ commands[g] # <<>> /\ commands'[g] = Tail(commands[g])
<1>1. /\ worker \in [Gen -> {"none", "loading", "waiting", "running", "paused", "done"}]
      /\ stops \in [Gen -> 0..MaxStops]
      /\ commands \in [Gen -> Seq(Command)] /\ events \in [Gen -> Seq(Event)]
  BY Typed, Zenon
<1>2. CASE Begins(g)
  BY <1>1, <1>2, Zenon DEF Begins
<1>3. CASE Ends(g)
  BY <1>1, <1>3, Zenon DEF Ends, Terminate
<1>4. CASE Passes(g)
  BY <1>1, <1>4, Zenon DEF Passes, Drains
<1>5. CASE Pauses(g)
  BY <1>1, <1>5, Zenon DEF Pauses, Drains, pause
<1>6. CASE Resumes(g)
  BY <1>1, <1>6, Zenon DEF Resumes
<1>7. CASE Replies(g)
  BY <1>1, <1>7, Zenon DEF Replies
<1> QED BY <1>2, <1>3, <1>4, <1>5, <1>6, <1>7, WorkerCases, Zenon

LEMMA RequestForwarded ==
  ASSUME TypeInv, requests # <<>>, Head(requests).c \in {"move", "inspect"}
  PROVE  Head(requests) \in Command /\ Head(requests) = requests[1] /\ 1 \in 1..Len(requests)
<1>1. requests \in Seq(Request)
  BY Typed, Zenon
<1>2. Head(requests) \in Request /\ Head(requests) = requests[1] /\ 1 \in 1..Len(requests)
  BY <1>1, HeadElement, Zenon
<1> QED BY <1>2, Zenon DEF Request

LEMMA SenderStep == TypeInv /\ SenderInv /\ Next => SenderInv'
<1> SUFFICES ASSUME TypeInv, SenderInv, Next PROVE SenderInv'
  OBVIOUS
<1>t. /\ worker \in [Gen -> {"none", "loading", "waiting", "running", "paused", "done"}]
      /\ commands \in [Gen -> Seq(Command)] /\ events \in [Gen -> Seq(Event)]
      /\ current_gen \in Nat /\ Gen \subseteq Nat /\ cmd_tx = current_gen
  BY Typed, Zenon DEF SenderInv
<1>d. [c |-> "disconnect"] \in Command
  BY Zenon DEF Command
<1>1. ASSUME UNCHANGED <<cmd_tx, current_gen>>, server' # "exited" => server # "exited",
             \A g \in Gen : g > current_gen => /\ worker'[g] = worker[g] /\ events'[g] = events[g]
                                               /\ commands'[g] = commands[g],
             \A g \in Gen : g = current_gen /\ server' # "exited" =>
               \A i \in 1..Len(commands'[g]) : commands'[g][i].c # "disconnect"
      PROVE  SenderInv'
  BY <1>1, Zenon DEF SenderInv
<1>2. ASSUME UNCHANGED <<cmd_tx, current_gen, worker, events, commands>>,
             server' # "exited" => server # "exited"
      PROVE  SenderInv'
  BY <1>2, Zenon DEF SenderInv
<1>3. CASE Client
  BY <1>2, <1>3, ClientCases DEF Adds, ClientReads, serverVars, workerVars
<1>4. ASSUME Launches, commands' = commands \/ commands' = send_command([c |-> "disconnect"])
      PROVE  SenderInv'
  <2>1. \A g \in Gen : g > current_gen => commands'[g] = commands[g] /\ commands[g] = <<>>
    BY <1>4, <1>d, <1>t, SentTo DEF SenderInv
  <2>2. /\ current_gen' = current_gen + 1 /\ cmd_tx' = current_gen + 1
        /\ \A g \in Gen : g > current_gen + 1 => worker'[g] = worker[g] /\ events'[g] = events[g]
    BY <1>4, <1>t DEF Launches
  <2>3. \A g \in Gen : g > current_gen + 1 => g > current_gen
    BY <1>t
  <2>4. \A g \in Gen : g = current_gen + 1 => commands'[g] = <<>>
    BY <1>t, <2>1
  <2> QED BY <2>1, <2>2, <2>3, <2>4 DEF SenderInv
<1>5. ASSUME NEW command \in Command, Forwards(command),
             command.c = "disconnect" => server' = "exited", server' # "exited" => server # "exited"
      PROVE  SenderInv'
  <2>1. \A g \in Gen : commands'[g] = IF g = cmd_tx /\ worker[g] # "done"
                                      THEN Append(commands[g], command) ELSE commands[g]
    BY <1>5, SentTo, Zenon DEF Forwards
  <2>2. ASSUME NEW g \in Gen, g = current_gen, server' # "exited",
               NEW i \in 1..Len(commands'[g])
        PROVE  commands'[g][i].c # "disconnect"
    <3>1. \A j \in 1..Len(commands[g]) : commands[g][j].c # "disconnect"
      BY <1>5, <2>2, Zenon DEF SenderInv
    <3>2. CASE commands'[g] = commands[g]
      BY <2>2, <3>1, <3>2, Zenon
    <3>3. CASE commands'[g] = Append(commands[g], command)
      BY <1>t, <1>5, <2>2, <3>1, <3>3, AppendElement
    <3> QED BY <2>1, <3>2, <3>3, Zenon
  <2> QED BY <1>1, <1>5, <1>t, <2>1, <2>2 DEF Forwards
<1>6. ASSUME NEW g \in Gen, handle_worker_event(g) PROVE SenderInv'
  <2>1. /\ UNCHANGED <<server, cmd_tx, current_gen, worker, commands>>
        /\ events[g] # <<>> /\ events' = [events EXCEPT ![g] = Tail(@)]
    BY <1>6, Zenon DEF handle_worker_event, workerVars
  <2>2. \A h \in Gen : h > current_gen => events'[h] = events[h]
    BY <1>t, <2>1, Zenon DEF SenderInv
  <2> QED BY <1>1, <2>1, <2>2, Zenon DEF SenderInv
<1>7. CASE Loop
  <2>1. ASSUME Took, Head(requests).c \in {"move", "inspect"}, Forwards(Head(requests))
        PROVE  SenderInv'
    BY <1>5, <2>1, RequestForwarded, Zenon DEF Took
  <2>2. ASSUME NEW reply, Answer(reply) PROVE SenderInv'
    BY <1>2, <2>2, Zenon DEF Answer, workerVars
  <2> QED BY <1>2, <1>4, <1>5, <1>6, <1>7, <1>d, <2>1, <2>2, LoopCases, Zenon DEF Took
<1>8. ASSUME NEW g \in Gen, Worker(g) PROVE SenderInv'
  <2>1. UNCHANGED <<server, cmd_tx, current_gen>>
    BY <1>8, WorkerCases, Zenon
  <2>2. ~(g > current_gen)
    BY <1>8, WorkerOwn, Zenon DEF SenderInv
  <2>3. ASSUME NEW h \in Gen, h = current_gen, server' # "exited", NEW i \in 1..Len(commands'[h])
        PROVE  commands'[h][i].c # "disconnect"
    <3>1. \A j \in 1..Len(commands[h]) : commands[h][j].c # "disconnect"
      BY <2>1, <2>3, Zenon DEF SenderInv
    <3>2. \/ commands'[h] = commands[h] \/ commands'[h] = <<>>
          \/ commands[h] # <<>> /\ commands'[h] = Tail(commands[h])
      BY <1>8, WorkerOwn, Zenon
    <3>3. CASE commands[h] # <<>> /\ commands'[h] = Tail(commands[h])
      <4>1. i + 1 \in 1..Len(commands[h]) /\ commands'[h][i] = commands[h][i + 1]
        BY <1>t, <2>3, <3>3, TailElement
      <4> QED BY <3>1, <4>1, Zenon
    <3> QED BY <2>3, <3>1, <3>2, <3>3
  <2> QED BY <1>1, <1>8, <2>1, <2>2, <2>3, WorkerOwn
<1>9. CASE Exited
  BY <1>2, <1>9, Zenon DEF Exited, vars, serverVars, workerVars
<1> QED BY <1>3, <1>7, <1>8, <1>9 DEF Next

\* What is left of the requests, and what is new among the commands.
LEMMA TookRest ==
  ASSUME TypeInv, Took
  PROVE  \A i \in 1..Len(requests') : i + 1 \in 1..Len(requests) /\ requests'[i] = requests[i + 1]
<1>1. requests \in Seq(Request) /\ requests # <<>> /\ requests' = Tail(requests)
  BY Typed, Zenon DEF Took
<1> QED BY <1>1, TailElement, Zenon

LEMMA SentElement ==
  ASSUME TypeInv, NEW command \in Command, NEW g \in Gen,
         NEW i \in 1..Len(send_command(command)[g])
  PROVE  \/ i \in 1..Len(commands[g]) /\ send_command(command)[g][i] = commands[g][i]
         \/ /\ g = cmd_tx /\ worker[g] # "done" /\ i = Len(commands[g]) + 1
            /\ send_command(command)[g][i] = command
<1>1. commands[g] \in Seq(Command)
  BY Typed, Zenon
<1>2. CASE send_command(command)[g] = commands[g]
  BY <1>2, Zenon
<1>3. CASE g = cmd_tx /\ worker[g] # "done" /\ send_command(command)[g] = Append(commands[g], command)
  BY <1>1, <1>3, AppendElement
<1> QED BY <1>2, <1>3, SentTo, Zenon

LEMMA WorkerRest ==
  ASSUME TypeInv, NEW g \in Gen, Worker(g), NEW h \in Gen, NEW i \in 1..Len(commands'[h])
  PROVE  \E j \in 1..Len(commands[h]) : commands'[h][i] = commands[h][j]
<1>1. commands[h] \in Seq(Command)
  BY Typed, Zenon
<1>2. \/ commands'[h] = commands[h] \/ commands'[h] = <<>>
      \/ commands[h] # <<>> /\ commands'[h] = Tail(commands[h])
  BY WorkerOwn, Zenon
<1>3. CASE commands[h] # <<>> /\ commands'[h] = Tail(commands[h])
  <2>1. i + 1 \in 1..Len(commands[h]) /\ commands'[h][i] = commands[h][i + 1]
    BY <1>1, <1>3, TailElement, Zenon
  <2> QED BY <2>1, Zenon
<1> QED BY <1>2, <1>3

LEMMA AnswerStep == TypeInv /\ PausesCounted /\ AnswerInv /\ CommandsTimely /\ Next => AnswerInv'
<1> SUFFICES ASSUME TypeInv, PausesCounted, AnswerInv, CommandsTimely, Next PROVE AnswerInv'
  BY Zenon
<1>t. /\ requests \in Seq(Request) /\ commands \in [Gen -> Seq(Command)]
      /\ replies \in [Req -> Stop \cup {NoStop, Closed}]
      /\ answered \in [Req -> Stop \cup {NoStop, Closed}]
      /\ asked \in Seq(Stop \cup {NoStop}) /\ Len(asked) \in Nat /\ Req \subseteq Nat
  BY Typed, BoundsAssumption DEF Req
<1>d. [c |-> "disconnect"] \in Command
  BY Zenon DEF Command
<1>1. ASSUME NEW m \in Request, m.c # "inspect", NEW v, Adds(m, v), asked' = asked PROVE AnswerInv'
  <2>1. \A i \in 1..Len(requests') : \/ i \in 1..Len(requests) /\ requests'[i] = requests[i]
                                     \/ requests'[i] = m
    BY <1>t, <1>1, AppendElement DEF Adds
  <2> QED BY <1>1, <2>1, Zenon DEF Adds, AnswerInv
<1>2. ASSUME Len(asked) + 1 \in Req, NEW s \in Stop \cup {NoStop}, asked' = Append(asked, s),
             NEW v, Adds([c |-> "inspect", id |-> Len(asked) + 1], v)
      PROVE  AnswerInv'
  <2> DEFINE m == [c |-> "inspect", id |-> Len(asked) + 1]
  <2>1. m \in Request /\ m.id = Len(asked) + 1
    BY <1>2, Zenon DEF Request, Command
  <2>2. /\ Len(asked') = Len(asked) + 1 /\ \A r \in 1..Len(asked) : asked'[r] = asked[r]
    BY <1>t, <1>2, AppendElement
  <2>3. \A i \in 1..Len(requests') : \/ i \in 1..Len(requests) /\ requests'[i] = requests[i]
                                     \/ requests'[i] = m
    <3> HIDE DEF m
    <3>1. requests' = Append(requests, m)
      BY <1>2, Zenon DEF Adds, m
    <3> QED BY <1>t, <2>1, <3>1, AppendElement
  <2>4. UNCHANGED <<commands, awaiting, replies, answered>>
    BY <1>2, Zenon DEF Adds
  <2>5. ASSUME NEW i \in 1..Len(requests'), requests'[i].c = "inspect"
        PROVE  requests'[i].id <= Len(asked')
    <3>1. CASE requests'[i] = m
      BY <1>t, <2>1, <2>2, <3>1
    <3>2. CASE i \in 1..Len(requests) /\ requests'[i] = requests[i]
      <4>1. requests[i] \in Request /\ requests[i].c = "inspect" /\ requests[i].id <= Len(asked)
        BY <1>t, <2>5, <3>2 DEF AnswerInv
      <4>2. requests[i].id \in Nat
        BY <1>t, <4>1, Zenon DEF Request, Command
      <4> QED BY <1>t, <2>2, <3>2, <4>1, <4>2
    <3> QED BY <2>3, <3>1, <3>2, Zenon
  <2>6. ASSUME NEW g \in Gen, NEW i \in 1..Len(commands'[g]), commands'[g][i].c = "inspect"
        PROVE  commands'[g][i].id <= Len(asked')
    <3>1. commands[g][i] \in Command /\ commands[g][i].id <= Len(asked)
      BY <1>t, <2>4, <2>6 DEF AnswerInv
    <3>2. commands[g][i].id \in Nat
      BY <1>t, <2>4, <2>6, <3>1, ZenonT(60) DEF Command
    <3> QED BY <1>t, <2>2, <2>4, <3>1, <3>2
  <2>7. awaiting' <= Len(asked')
    BY <1>t, <2>2, <2>4, Typed DEF AnswerInv
  <2>8. ASSUME NEW r \in Req, r > Len(asked') PROVE replies'[r] = NoStop /\ answered'[r] = NoStop
    BY <1>t, <2>2, <2>4, <2>8 DEF AnswerInv
  <2>9. ASSUME NEW r \in Req, r <= Len(asked'), asked'[r] # NoStop
        PROVE  replies'[r] \in {NoStop, Closed, asked'[r]} /\ answered'[r] \in {NoStop, Closed, asked'[r]}
    <3>1. CASE r = Len(asked) + 1
      BY <1>t, <2>4, <3>1 DEF AnswerInv
    <3>2. CASE r # Len(asked) + 1
      <4>1. r \in 1..Len(asked)
        BY <1>t, <2>2, <2>9, <3>2 DEF Req
      <4> QED BY <1>t, <2>2, <2>4, <2>9, <4>1 DEF AnswerInv
    <3> QED BY <3>1, <3>2, Zenon
  <2> QED BY <2>5, <2>6, <2>7, <2>8, <2>9, Zenon DEF AnswerInv
<1>3. CASE Client
  <2>1. /\ view = "stopped" => viewed \in Stop
    BY Zenon DEF TypeInv
  <2>2. viewed \in Stop => [c |-> "move", stop |-> viewed] \in Request
    BY Zenon DEF Request, Command
  <2>3. CASE ClientReads
    BY <2>3, Zenon DEF ClientReads, serverVars, AnswerInv
  <2>4. ASSUME view \in {"running", "stopped"}, Len(asked) + 1 \in Req,
               asked' = Append(asked, IF view = "stopped" THEN viewed ELSE NoStop),
               Adds([c |-> "inspect", id |-> Len(asked) + 1], view)
        PROVE  AnswerInv'
    BY <1>2, <2>1, <2>4, Zenon
  <2> QED BY <1>1, <1>3, <2>2, <2>3, <2>4, ClientCases, Zenon
<1>4. ASSUME asked' = asked,
             \A i \in 1..Len(requests') : \E j \in 1..Len(requests) : requests'[i] = requests[j],
             \A g \in Gen : \A i \in 1..Len(commands'[g]) :
               \/ \E j \in 1..Len(commands[g]) : commands'[g][i] = commands[g][j]
               \/ \E j \in 1..Len(requests) : commands'[g][i] = requests[j]
               \/ commands'[g][i].c = "disconnect",
             \/ awaiting' = awaiting \/ awaiting' = 0
             \/ \E j \in 1..Len(requests) : requests[j].c = "inspect" /\ awaiting' = requests[j].id,
             \A r \in Req : replies'[r] # replies[r] =>
               r <= Len(asked) /\ (asked[r] # NoStop => replies'[r] \in {Closed, asked[r]}),
             \A r \in Req : answered'[r] # answered[r] =>
               r <= Len(asked) /\ answered'[r] \in {Closed, replies[r]}
      PROVE  AnswerInv'
  <2>1. \A i \in 1..Len(requests') : requests'[i].c = "inspect" => requests'[i].id <= Len(asked')
    BY <1>4 DEF AnswerInv
  <2>2. \A g \in Gen : \A i \in 1..Len(commands'[g]) :
          commands'[g][i].c = "inspect" => commands'[g][i].id <= Len(asked')
    <3> SUFFICES ASSUME NEW g \in Gen, NEW i \in 1..Len(commands'[g]), commands'[g][i].c = "inspect"
                 PROVE  commands'[g][i].id <= Len(asked)
      BY <1>4, Zenon
    <3>1. CASE \E j \in 1..Len(commands[g]) : commands'[g][i] = commands[g][j]
      BY <3>1, Zenon DEF AnswerInv
    <3>2. CASE \E j \in 1..Len(requests) : commands'[g][i] = requests[j]
      BY <3>2, Zenon DEF AnswerInv
    <3>3. CASE commands'[g][i].c = "disconnect"
      BY <3>3, Zenon
    <3> QED BY <1>4, <3>1, <3>2, <3>3, Zenon
  <2>3. awaiting' <= Len(asked')
    <3>1. CASE awaiting' = awaiting
      BY <1>4, <3>1, Zenon DEF AnswerInv
    <3>2. CASE awaiting' = 0
      <4>1. 0 <= Len(asked)
        BY <1>t
      <4> QED BY <1>4, <3>2, <4>1, Zenon
    <3>3. CASE \E j \in 1..Len(requests) : requests[j].c = "inspect" /\ awaiting' = requests[j].id
      BY <1>4, <3>3, ZenonT(60) DEF AnswerInv
    <3> QED BY <1>4, <3>1, <3>2, <3>3, Zenon
  <2>4. \A r \in Req : r > Len(asked') => replies'[r] = NoStop /\ answered'[r] = NoStop
    BY <1>t, <1>4 DEF AnswerInv
  <2>5. ASSUME NEW r \in Req, r <= Len(asked'), asked'[r] # NoStop
        PROVE  replies'[r] \in {NoStop, Closed, asked'[r]} /\ answered'[r] \in {NoStop, Closed, asked'[r]}
    BY <1>4, <2>5, Zenon DEF AnswerInv
  <2> QED BY <2>1, <2>2, <2>3, <2>4, <2>5, Zenon DEF AnswerInv
<1>5. CASE Loop
  <2>1. ASSUME Took
        PROVE  /\ asked' = asked /\ replies' = replies
               /\ \A i \in 1..Len(requests') : \E j \in 1..Len(requests) : requests'[i] = requests[j]
               /\ Head(requests) = requests[1] /\ 1 \in 1..Len(requests)
    BY <1>t, <2>1, TookRest, HeadElement, Zenon DEF Took
  <2>2. ASSUME NEW command \in Command, commands' = send_command(command),
               command.c = "disconnect" \/ \E j \in 1..Len(requests) : command = requests[j]
        PROVE  \A g \in Gen : \A i \in 1..Len(commands'[g]) :
                 \/ \E j \in 1..Len(commands[g]) : commands'[g][i] = commands[g][j]
                 \/ \E j \in 1..Len(requests) : commands'[g][i] = requests[j]
                 \/ commands'[g][i].c = "disconnect"
    BY <2>2, SentElement
  <2>3. ASSUME Took, Launches, commands' = commands \/ commands' = send_command([c |-> "disconnect"])
        PROVE  AnswerInv'
    BY <1>4, <1>d, <2>1, <2>2, <2>3, Zenon DEF Launches
  <2>4. ASSUME Took, UNCHANGED <<awaiting, commands, answered>> PROVE AnswerInv'
    BY <1>4, <2>1, <2>4, Zenon
  <2>5. ASSUME Took, Forwards([c |-> "disconnect"]), UNCHANGED <<awaiting, answered>> PROVE AnswerInv'
    BY <1>4, <1>d, <2>1, <2>2, <2>5, ZenonT(60) DEF Forwards
  <2>6. ASSUME Took, Head(requests).c = "move", Forwards(Head(requests)), UNCHANGED <<awaiting, answered>>
        PROVE  AnswerInv'
    BY <1>4, <2>1, <2>2, <2>6, RequestForwarded DEF Forwards, Took
  <2>7. ASSUME Took, Head(requests).c = "inspect", Forwards(Head(requests)),
               \/ awaiting' = Head(requests).id /\ answered' = answered
               \/ /\ awaiting' = awaiting
                  /\ answered' = [answered EXCEPT ![Head(requests).id] = Closed]
        PROVE  AnswerInv'
    <3>1. /\ Head(requests) \in Command /\ Head(requests) = requests[1] /\ 1 \in 1..Len(requests)
          /\ requests[1].id <= Len(asked)
      BY <2>7, RequestForwarded, Zenon DEF Took, AnswerInv
    <3>2. \A r \in Req : answered'[r] # answered[r] =>
               r <= Len(asked) /\ answered'[r] \in {Closed, replies[r]}
      BY <1>t, <2>7, <3>1, Zenon
    <3> QED BY <1>4, <2>1, <2>2, <2>7, <3>1, <3>2, Zenon DEF Forwards
  <2>8. ASSUME NEW reply, Answer(reply), reply = Closed \/ (awaiting # 0 /\ reply = replies[awaiting])
        PROVE  AnswerInv'
    <3>1. /\ UNCHANGED <<asked, requests, commands, replies>> /\ awaiting' = 0
          /\ answered' = [answered EXCEPT ![awaiting] = reply]
      BY <2>8, Zenon DEF Answer, clientVars
    <3>2. \A r \in Req : answered'[r] # answered[r] =>
               r <= Len(asked) /\ answered'[r] \in {Closed, replies[r]}
      BY <1>t, <2>8, <3>1, Zenon DEF AnswerInv
    <3> QED BY <1>4, <3>1, <3>2, Zenon
  <2>9. ASSUME NEW g \in Gen, handle_worker_event(g) PROVE AnswerInv'
    BY <2>9, Zenon DEF handle_worker_event, clientVars, AnswerInv
  <2> QED BY <1>5, <2>3, <2>4, <2>5, <2>6, <2>7, <2>8, <2>9, LoopCases, Zenon
<1>6. ASSUME NEW g \in Gen, Worker(g) PROVE AnswerInv'
  <2>1. UNCHANGED <<asked, requests, awaiting, answered>>
    BY <1>6, WorkerCases, Zenon
  <2>2. \A h \in Gen : \A i \in 1..Len(commands'[h]) :
          \E j \in 1..Len(commands[h]) : commands'[h][i] = commands[h][j]
    BY <1>6, WorkerRest, Zenon
  <2>3. ASSUME replies' = Dropped(commands[g]), NEW r \in Req, replies'[r] # replies[r]
        PROVE  r <= Len(asked) /\ (asked[r] # NoStop => replies'[r] \in {Closed, asked[r]})
    <3>1. replies'[r] = Closed /\ \E i \in DOMAIN commands[g] : commands[g][i] = [c |-> "inspect", id |-> r]
      BY <2>3, Zenon DEF Dropped
    <3>2. DOMAIN commands[g] = 1..Len(commands[g])
      BY <1>t
    <3>3. PICK i \in 1..Len(commands[g]) : commands[g][i] = [c |-> "inspect", id |-> r]
      BY <3>1, <3>2, Zenon
    <3>4. commands[g][i].c = "inspect" /\ commands[g][i].id = r
      BY <3>3
    <3> QED BY <3>1, <3>4, Zenon DEF AnswerInv
  <2>4. ASSUME Replies(g), NEW r \in Req, replies'[r] # replies[r]
        PROVE  r <= Len(asked) /\ (asked[r] # NoStop => replies'[r] \in {Closed, asked[r]})
    <3>1. /\ commands[g] # <<>> /\ Head(commands[g]).c = "inspect"
          /\ replies' = [replies EXCEPT ![Head(commands[g]).id] = <<g, stops[g]>>]
      BY <2>4, Zenon DEF Replies
    <3>2. Head(commands[g]) = commands[g][1] /\ 1 \in 1..Len(commands[g])
      BY <1>t, <3>1, HeadElement, Zenon
    <3>3. r = commands[g][1].id /\ replies'[r] = <<g, stops[g]>>
      BY <1>t, <2>4, <3>1, <3>2, Zenon
    <3>4. r <= Len(asked)
      BY <3>1, <3>2, <3>3, Zenon DEF AnswerInv
    <3>5. Upon(commands[g][1]) = asked[r]
      BY <3>1, <3>2, <3>3, Zenon DEF Upon, UponIn
    <3> QED BY <3>2, <3>3, <3>4, <3>5, Zenon DEF CommandsTimely, Timely
  <2>5. replies' = replies \/ replies' = Dropped(commands[g]) \/ Replies(g)
    BY <1>6, WorkerCases, Zenon DEF Begins, Ends, Terminate, Passes, Pauses, Drains, Resumes
  <2> QED BY <1>4, <2>1, <2>2, <2>3, <2>4, <2>5, Zenon
<1>7. CASE Exited
  BY <1>7, Zenon DEF Exited, vars, serverVars, clientVars, AnswerInv
<1> QED BY <1>3, <1>5, <1>6, <1>7, Zenon DEF Next

=============================================================================
