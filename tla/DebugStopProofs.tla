--------------------------- MODULE DebugStopProofs ---------------------------
(***************************************************************************)
(* A movement, an inspection and the client's view all belong to the stop  *)
(* the current worker is at, for every number of workers, stops and        *)
(* requests.                                                               *)
(***************************************************************************)
EXTENDS DebugSessionProofs

-----------------------------------------------------------------------------
\* What was asked stays asked upon the same stop.
LEMMA UponStays ==
  ASSUME TypeInv, NEW m, m.c = "inspect" => m.id \in 1..Len(asked),
         asked' = asked \/ \E s \in Stop \cup {NoStop} : asked' = Append(asked, s)
  PROVE  UponIn(asked', m) = Upon(m)
<1>1. asked \in Seq(Stop \cup {NoStop})
  BY Typed, Zenon
<1>2. m.c = "inspect" => asked'[m.id] = asked[m.id]
  BY <1>1, AppendElement
<1> QED BY <1>2, Zenon DEF Upon, UponIn

\* The numbers in the queues are those of requests made.
LEMMA Numbers ==
  ASSUME TypeInv, AnswerInv
  PROVE  /\ \A i \in 1..Len(requests) : requests[i].c = "inspect" => requests[i].id \in 1..Len(asked)
         /\ \A g \in Gen : \A i \in 1..Len(commands[g]) :
              commands[g][i].c = "inspect" => commands[g][i].id \in 1..Len(asked)
<1>1. requests \in Seq(Request) /\ commands \in [Gen -> Seq(Command)] /\ Len(asked) \in Nat
  BY Typed, Zenon
<1>2. ASSUME NEW m \in Request, m.c = "inspect" PROVE m.id \in Req
  BY <1>2, Zenon DEF Request, Command
<1>3. Command \subseteq Request
  BY Zenon DEF Request
<1>4. \A r \in Req : r <= Len(asked) => r \in 1..Len(asked)
  BY <1>1, BoundsAssumption DEF Req
<1>5. /\ \A i \in 1..Len(requests) : requests[i] \in Request
      /\ \A g \in Gen : \A i \in 1..Len(commands[g]) : commands[g][i] \in Request
  BY <1>1, <1>3
<1> QED BY <1>2, <1>4, <1>5, Zenon DEF AnswerInv

\* What a request the client adds does to the order of restarts.
LEMMA RestartAdds ==
  ASSUME TypeInv, AnswerInv, RestartInv, NEW m \in Request, NEW v, Adds(m, v),
         asked' = asked \/ \E s \in Stop \cup {NoStop} : asked' = Append(asked, s),
         view \in {"restarting", "gone"} =>
           v \in {"restarting", "gone"} /\ m.c # "restart" /\ UponIn(asked', m) = NoStop,
         m.c = "restart" => v = "restarting"
  PROVE  RestartInv'
<1>1. /\ Len(requests') = Len(requests) + 1 /\ Len(requests) \in Nat
      /\ requests'[Len(requests) + 1] = m /\ \A i \in 1..Len(requests) : requests'[i] = requests[i]
      /\ \A i \in 1..(Len(requests) + 1) : i \in 1..Len(requests) \/ i = Len(requests) + 1
  BY Typed, AppendElement DEF Adds
<1>2. view' = v /\ UNCHANGED <<shown, current_gen>>
  BY Zenon DEF Adds
<1>3. \A i \in 1..Len(requests) : UponIn(asked', requests[i]) = Upon(requests[i])
  BY Numbers, UponStays, Zenon
<1>4. RestartAsked'
  <2> SUFFICES ASSUME NEW i \in 1..Len(requests'), requests'[i].c = "restart"
               PROVE  /\ view' \in {"restarting", "gone"}
                      /\ \A j \in 1..Len(shown) : shown[j].e # "restarted"
                      /\ \A j \in 1..Len(requests') : j > i =>
                           requests'[j].c # "restart" /\ UponIn(asked', requests'[j]) = NoStop
    BY <1>2, Zenon DEF RestartAsked, Upon
  <2>1. CASE i \in 1..Len(requests)
    <3>1. /\ requests[i].c = "restart" /\ view \in {"restarting", "gone"}
          /\ \A j \in 1..Len(shown) : shown[j].e # "restarted"
          /\ \A j \in 1..Len(requests) : j > i => requests[j].c # "restart" /\ Upon(requests[j]) = NoStop
      BY <1>1, <2>1, Zenon DEF RestartInv, RestartAsked
    <3> QED BY <1>1, <1>2, <1>3, <3>1, Zenon
  <2>2. CASE i = Len(requests) + 1
    <3>1. m.c = "restart" /\ view \notin {"restarting", "gone"}
      BY <1>1, <2>2, Zenon
    <3>2. \A j \in 1..Len(shown) : shown[j].e # "restarted"
      BY <3>1, Zenon DEF RestartInv, RestartTold
    <3>3. \A j \in 1..Len(requests') : ~(j > i)
      BY <1>1, <2>2
    <3> QED BY <1>2, <3>1, <3>2, <3>3, Zenon
  <2> QED BY <1>1, <2>1, <2>2, Zenon
<1>5. RestartTold'
  BY <1>2, Zenon DEF RestartInv, RestartTold
<1>6. StopsToldBefore'
  BY <1>2, Zenon DEF RestartInv, StopsToldBefore
<1> QED BY <1>4, <1>5, <1>6, Zenon DEF RestartInv

\* Taking a request that is neither launch nor restart keeps the order.
LEMMA RestartTook ==
  ASSUME TypeInv, RestartInv, Took
  PROVE  /\ \A i \in 1..Len(requests') : requests'[i].c = "restart" =>
              /\ view' \in {"restarting", "gone"} /\ Head(requests).c # "restart"
              /\ \A j \in 1..Len(shown) : shown[j].e # "restarted"
              /\ \A j \in 1..Len(requests') : j > i =>
                   requests'[j].c # "restart" /\ UponIn(asked', requests'[j]) = NoStop
         /\ Head(requests).c = "restart" => /\ view' \in {"restarting", "gone"}
                                            /\ \A j \in 1..Len(shown) : shown[j].e # "restarted"
                                            /\ \A j \in 1..Len(requests') : Upon(requests'[j]) = NoStop
<1>1. \A i \in 1..Len(requests') : i + 1 \in 1..Len(requests) /\ requests'[i] = requests[i + 1]
  BY TookRest, Zenon
<1>2. view' = view /\ asked' = asked /\ Head(requests) = requests[1] /\ 1 \in 1..Len(requests)
  BY Typed, HeadElement, Zenon DEF Took
<1>3. \A i \in 1..Len(requests) : requests[i].c = "restart" =>
        /\ view \in {"restarting", "gone"}
        /\ \A j \in 1..Len(shown) : shown[j].e # "restarted"
        /\ \A j \in 1..Len(requests) : j > i => requests[j].c # "restart" /\ Upon(requests[j]) = NoStop
  BY Zenon DEF RestartInv, RestartAsked
<1>4. \A i \in 1..Len(requests') : i + 1 > 1 /\ \A j \in 1..Len(requests') : j > i => j + 1 > i + 1
  OBVIOUS
<1>5. ASSUME NEW i \in 1..Len(requests'), requests'[i].c = "restart"
      PROVE  /\ view' \in {"restarting", "gone"} /\ Head(requests).c # "restart"
             /\ \A j \in 1..Len(shown) : shown[j].e # "restarted"
             /\ \A j \in 1..Len(requests') : j > i =>
                  requests'[j].c # "restart" /\ UponIn(asked', requests'[j]) = NoStop
  <2>1. requests[i + 1].c = "restart" /\ i + 1 \in 1..Len(requests)
    BY <1>1, <1>5, Zenon
  <2>2. Head(requests).c # "restart"
    BY <1>2, <1>3, <1>4, <2>1, Zenon
  <2>3. ASSUME NEW j \in 1..Len(requests'), j > i
        PROVE  requests'[j].c # "restart" /\ UponIn(asked', requests'[j]) = NoStop
    <3>1. j + 1 \in 1..Len(requests) /\ requests'[j] = requests[j + 1] /\ j + 1 > i + 1
      BY <1>1, <1>4, <2>3, Zenon
    <3>2. requests[j + 1].c # "restart" /\ Upon(requests[j + 1]) = NoStop
      BY <1>3, <2>1, <3>1, Zenon
    <3> QED BY <1>2, <3>1, <3>2, Zenon DEF Upon
  <2> QED BY <1>2, <1>3, <2>1, <2>2, <2>3, Zenon
<1>6. ASSUME Head(requests).c = "restart"
      PROVE  /\ view' \in {"restarting", "gone"}
             /\ \A j \in 1..Len(shown) : shown[j].e # "restarted"
             /\ \A j \in 1..Len(requests') : Upon(requests'[j]) = NoStop
  BY <1>1, <1>2, <1>3, <1>4, <1>6, Zenon
<1> QED BY <1>5, <1>6, Zenon

LEMMA RestartStep ==
  TypeInv /\ EventsOwned /\ LaunchFirst /\ AnswerInv /\ RestartInv /\ Next => RestartInv'
<1> SUFFICES ASSUME TypeInv, EventsOwned, LaunchFirst, AnswerInv, RestartInv, Next PROVE RestartInv'
  BY Zenon
<1>t. /\ requests \in Seq(Request) /\ shown \in Seq(Event \cup [e : {"restarted"}])
      /\ events \in [Gen -> Seq(Event)] /\ current_gen \in Nat /\ Gen \subseteq Nat
  BY Typed, Zenon
<1>s. \A i \in 1..Len(shown) : shown[i].e = "stopped" => shown[i].stop[1] \in Gen
  <2>1. ASSUME NEW x \in Event \cup [e : {"restarted"}], x.e = "stopped" PROVE x.stop[1] \in Gen
    BY <2>1, Zenon DEF Event, Stop
  <2> QED BY <1>t, <2>1
<1>1. CASE UNCHANGED <<requests, shown, view, asked, current_gen>>
  BY <1>1, Zenon DEF RestartInv, RestartAsked, RestartTold, StopsToldBefore, Upon
<1>2. CASE ClientReads
  <2>1. /\ shown # <<>> /\ shown' = Tail(shown) /\ UNCHANGED <<requests, asked, current_gen>>
    BY <1>2, Zenon DEF ClientReads, serverVars
  <2>2. Head(shown) = shown[1] /\ 1 \in 1..Len(shown)
    BY <1>t, <2>1, HeadElement, Zenon
  <2>3. \A i \in 1..Len(shown') : i + 1 \in 1..Len(shown) /\ shown'[i] = shown[i + 1] /\ i + 1 > 1
    BY <1>t, <2>1, TailElement
  <2>4. \/ shown[1].e = "restarted"
        \/ view' = view
        \/ view \in {"running", "stopped"}
    BY <1>2, <2>2, Zenon DEF ClientReads
  <2>5. (\E i \in 1..Len(requests) : requests[i].c = "restart")
          \/ (\E i \in 1..Len(shown') : shown'[i].e = "restarted")
        => view' = view /\ shown[1].e # "restarted"
    <3>1. shown[1].e = "restarted" => \A i \in 1..Len(shown') : shown'[i].e # "restarted"
      BY <2>2, <2>3 DEF RestartInv, RestartTold
    <3>2. shown[1].e = "restarted" => \A i \in 1..Len(requests) : requests[i].c # "restart"
      BY <2>2, Zenon DEF RestartInv, RestartAsked
    <3>3. view \in {"running", "stopped"} =>
            /\ \A i \in 1..Len(requests) : requests[i].c # "restart"
            /\ \A i \in 1..Len(shown) : shown[i].e # "restarted"
      BY Zenon DEF RestartInv, RestartAsked, RestartTold
    <3> QED BY <2>3, <2>4, <3>1, <3>2, <3>3, Zenon
  <2>6. RestartAsked'
    BY <2>1, <2>3, <2>5, Zenon DEF RestartInv, RestartAsked, Upon
  <2>7. RestartTold'
    <3> SUFFICES ASSUME NEW i \in 1..Len(shown'), shown'[i].e = "restarted"
                 PROVE  /\ view' \in {"restarting", "gone"}
                        /\ \A j \in 1..Len(shown') : shown'[j].e = "restarted" => j = i
      BY Zenon DEF RestartTold
    <3>1. shown[i + 1].e = "restarted" /\ i + 1 \in 1..Len(shown)
      BY <2>3, Zenon
    <3>2. view \in {"restarting", "gone"} /\ \A j \in 1..Len(shown) : shown[j].e = "restarted" => j = i + 1
      BY <3>1, Zenon DEF RestartInv, RestartTold
    <3>3. \A j \in 1..Len(shown') : j + 1 = i + 1 => j = i
      OBVIOUS
    <3> QED BY <2>3, <2>5, <3>2, <3>3, Zenon
  <2>8. StopsToldBefore'
    <3> SUFFICES ASSUME NEW i \in 1..Len(shown'), shown'[i].e = "stopped"
                 PROVE  /\ shown'[i].stop[1] <= current_gen
                        /\ shown'[i].stop[1] # current_gen =>
                             \E j \in 1..Len(shown') : j > i /\ shown'[j].e = "restarted"
      BY <2>1, Zenon DEF StopsToldBefore
    <3>1. i + 1 \in 1..Len(shown) /\ shown'[i] = shown[i + 1]
      BY <2>3, Zenon
    <3>2. /\ shown[i + 1].stop[1] <= current_gen
          /\ shown[i + 1].stop[1] # current_gen =>
               \E j \in 1..Len(shown) : j > i + 1 /\ shown[j].e = "restarted"
      BY <3>1, Zenon DEF RestartInv, StopsToldBefore
    <3>3. \A j \in 1..Len(shown) : j > i + 1 => j - 1 \in 1..Len(shown') /\ j - 1 > i /\ shown'[j - 1] = shown[j]
      BY <1>t, <2>1
    <3> QED BY <3>1, <3>2, <3>3, Zenon
  <2> QED BY <2>6, <2>7, <2>8, Zenon DEF RestartInv
<1>3. CASE Client
  <2>1. ASSUME asked' = asked, NEW m \in Request, NEW v \in {"running", "restarting", "gone", view},
               Adds(m, v), m.c \notin {"move", "inspect"},
               m.c = "restart" => v = "restarting" /\ view \in {"running", "stopped"},
               view \in {"restarting", "gone"} => v \in {"restarting", "gone"}
        PROVE  RestartInv'
    <3>1. UponIn(asked', m) = NoStop
      BY <2>1, Zenon DEF UponIn
    <3> QED BY <2>1, <3>1, RestartAdds, Zenon
  <2>2. ASSUME asked' = asked, view = "stopped", viewed \in Stop,
               Adds([c |-> "move", stop |-> viewed], "running")
        PROVE  RestartInv'
    <3>1. [c |-> "move", stop |-> viewed] \in Request
      BY <2>2, Zenon DEF Request, Command
    <3> QED BY <2>2, <3>1, RestartAdds, Zenon
  <2>3. ASSUME view \in {"running", "stopped"}, Len(asked) + 1 \in Req,
               asked' = Append(asked, IF view = "stopped" THEN viewed ELSE NoStop),
               Adds([c |-> "inspect", id |-> Len(asked) + 1], view)
        PROVE  RestartInv'
    <3>1. [c |-> "inspect", id |-> Len(asked) + 1] \in Request
      BY <2>3, Zenon DEF Request, Command
    <3>2. \E s \in Stop \cup {NoStop} : asked' = Append(asked, s)
      BY <2>3, Zenon DEF TypeInv
    <3> QED BY <2>3, <3>1, <3>2, RestartAdds, Zenon
  <2> QED BY <1>2, <1>3, <2>1, <2>2, <2>3, ClientCases, Zenon
<1>4. ASSUME Took, UNCHANGED <<shown, current_gen>> PROVE RestartInv'
  <2>1. view' = view
    BY <1>4, Zenon DEF Took
  <2>2. RestartAsked'
    BY <1>4, RestartTook, Zenon DEF RestartAsked, Upon
  <2> QED BY <1>4, <2>1, <2>2, Zenon DEF RestartInv, RestartTold, StopsToldBefore
<1>5. ASSUME Took, Head(requests).c = "launch", Launches, shown' = shown PROVE RestartInv'
  <2>1. view' = view /\ Head(requests) = requests[1] /\ 1 \in 1..Len(requests)
    BY <1>t, <1>5, HeadElement, Zenon DEF Took
  <2>2. current_gen = 0
    BY <1>5, <2>1, Zenon DEF LaunchFirst
  <2>3. \A i \in 1..Len(shown) : shown[i].e # "stopped"
    BY <1>s, <2>2, BoundsAssumption DEF RestartInv, StopsToldBefore, Gen
  <2>4. RestartAsked'
    BY <1>5, RestartTook, Zenon DEF RestartAsked, Upon
  <2> QED BY <1>5, <2>1, <2>3, <2>4, Zenon DEF RestartInv, RestartTold, StopsToldBefore
<1>6. ASSUME Took, Head(requests).c = "restart", Launches, shown' = Append(shown, [e |-> "restarted"])
      PROVE  RestartInv'
  <2>1. /\ \A i \in 1..Len(requests') : requests'[i].c # "restart"
        /\ view' \in {"restarting", "gone"} /\ \A j \in 1..Len(shown) : shown[j].e # "restarted"
    BY <1>6, RestartTook, Zenon
  <2>2. /\ Len(shown') = Len(shown) + 1 /\ Len(shown) \in Nat
        /\ shown'[Len(shown) + 1].e = "restarted" /\ \A i \in 1..Len(shown) : shown'[i] = shown[i]
        /\ \A i \in 1..(Len(shown) + 1) : i \in 1..Len(shown) \/ i = Len(shown) + 1
    BY <1>t, <1>6, AppendElement
  <2>3. RestartAsked' /\ RestartTold'
    BY <2>1, <2>2, Zenon DEF RestartAsked, RestartTold
  <2>4. StopsToldBefore'
    <3> SUFFICES ASSUME NEW i \in 1..Len(shown'), shown'[i].e = "stopped"
                 PROVE  /\ shown'[i].stop[1] <= current_gen'
                        /\ \E j \in 1..Len(shown') : j > i /\ shown'[j].e = "restarted"
      BY Zenon DEF StopsToldBefore
    <3>1. i \in 1..Len(shown) /\ shown'[i] = shown[i]
      BY <2>2, Zenon
    <3>2. shown[i].stop[1] \in Gen /\ shown[i].stop[1] <= current_gen /\ current_gen' = current_gen + 1
      BY <1>6, <1>s, <3>1, Zenon DEF Launches, RestartInv, StopsToldBefore
    <3>3. shown'[i].stop[1] <= current_gen'
      <4>1. \A n \in Gen : n <= current_gen => n <= current_gen + 1
        <5>1. \A n, k \in Nat : n <= k => n <= k + 1
          OBVIOUS
        <5> QED BY <1>t, <5>1, Zenon
      <4> QED BY <3>1, <3>2, <4>1, Zenon
    <3>4. Len(shown) + 1 \in 1..Len(shown') /\ Len(shown) + 1 > i
      BY <2>2, <3>1
    <3> QED BY <2>2, <3>3, <3>4, Zenon
  <2> QED BY <2>3, <2>4, Zenon DEF RestartInv
<1>7. ASSUME NEW g \in Gen, handle_worker_event(g) PROVE RestartInv'
  <2>1. /\ UNCHANGED <<requests, view, asked, current_gen>> /\ events[g] # <<>>
        /\ \/ shown' = shown
           \/ g = current_gen /\ shown' = Append(shown, Head(events[g]))
    BY <1>7, Zenon DEF handle_worker_event, clientVars
  <2>2. CASE shown' = shown
    BY <1>1, <2>1, <2>2, Zenon
  <2>3. CASE g = current_gen /\ shown' = Append(shown, Head(events[g]))
    <3> DEFINE x == Head(events[g])
    <3>1. x \in Event /\ (x.e = "stopped" => x.stop[1] = g)
      BY <1>t, <2>1, HeadElement DEF EventsOwned
    <3>2. x.e # "restarted"
      BY <3>1, Zenon DEF Event
    <3>3. x \in Event \cup [e : {"restarted"}] /\ shown' = Append(shown, x)
      BY <2>3, <3>1, Zenon
    <3> HIDE DEF x
    <3>4. /\ Len(shown') = Len(shown) + 1 /\ Len(shown) \in Nat
          /\ shown'[Len(shown) + 1] = x /\ \A i \in 1..Len(shown) : shown'[i] = shown[i]
          /\ \A i \in 1..(Len(shown) + 1) : i \in 1..Len(shown) \/ i = Len(shown) + 1
      BY <1>t, <3>3, AppendElement
    <3>5. \A j \in 1..Len(shown') : shown'[j].e = "restarted" => j \in 1..Len(shown) /\ shown[j].e = "restarted"
      BY <3>2, <3>4, Zenon
    <3>6. RestartAsked'
      BY <2>1, <3>5, Zenon DEF RestartInv, RestartAsked, Upon
    <3>7. RestartTold'
      BY <2>1, <3>5, Zenon DEF RestartInv, RestartTold
    <3>8. StopsToldBefore'
      <4> SUFFICES ASSUME NEW i \in 1..Len(shown'), shown'[i].e = "stopped"
                   PROVE  /\ shown'[i].stop[1] <= current_gen
                          /\ shown'[i].stop[1] # current_gen =>
                               \E j \in 1..Len(shown') : j > i /\ shown'[j].e = "restarted"
        BY <2>1, Zenon DEF StopsToldBefore
      <4>1. CASE i = Len(shown) + 1
        BY <1>t, <2>3, <3>1, <3>4, <4>1
      <4>2. CASE i \in 1..Len(shown)
        <5>1. /\ shown[i].stop[1] <= current_gen
              /\ shown[i].stop[1] # current_gen =>
                   \E j \in 1..Len(shown) : j > i /\ shown[j].e = "restarted"
          BY <3>4, <4>2, Zenon DEF RestartInv, StopsToldBefore
        <5>2. \A j \in 1..Len(shown) : j \in 1..Len(shown')
          BY <3>4
        <5> QED BY <3>4, <4>2, <5>1, <5>2, Zenon
      <4> QED BY <3>4, <4>1, <4>2, Zenon
    <3> QED BY <3>6, <3>7, <3>8, Zenon DEF RestartInv
  <2> QED BY <2>1, <2>2, <2>3, Zenon
<1>8. CASE Loop
  <2>1. ASSUME NEW reply, Answer(reply) PROVE RestartInv'
    BY <1>1, <2>1, Zenon DEF Answer, clientVars
  <2> QED BY <1>4, <1>5, <1>6, <1>7, <1>8, <2>1, LoopCases, Zenon DEF Forwards
<1>9. ASSUME NEW g \in Gen, Worker(g) PROVE RestartInv'
  BY <1>1, <1>9, WorkerCases, Zenon
<1>10. CASE Exited
  BY <1>1, <1>10, Zenon DEF Exited, vars, serverVars, clientVars
<1> QED BY <1>3, <1>8, <1>9, <1>10, Zenon DEF Next

-----------------------------------------------------------------------------
(* One stop at a time *)

Unbound(q) == \A i \in 1..Len(q) : Upon(q[i]) = NoStop

\* Nothing is on its way from or to worker g, if it is the current one.
Quiet(g) ==
  g = current_gen => /\ view # "stopped" /\ Unbound(requests)
                     /\ \A i \in 1..Len(shown) : shown[i].e = "stopped" => shown[i].stop[1] # g
                     /\ \A i \in 1..Len(events[g]) : events[g][i].e # "stopped"

LEMMA StopsAreReal == NoStop \notin Stop /\ \A n : <<0, n>> \notin Stop
BY BoundsAssumption DEF NoStop, Stop, Gen

LEMMA MovesAreBound ==
  ASSUME NEW m \in Request, m.c = "move"
  PROVE  m.stop \in Stop /\ Upon(m) = m.stop /\ Upon(m) # NoStop /\ \A a : UponIn(a, m) # NoStop
<1>1. m.stop \in Stop
  BY Zenon DEF Request, Command
<1> QED BY <1>1, StopsAreReal, Zenon DEF Upon, UponIn

LEMMA UnboundMoves ==
  ASSUME NEW q \in Seq(Request), Unbound(q)
  PROVE  NoMove(q)
<1>1. \A i \in 1..Len(q) : q[i] \in Request
  OBVIOUS
<1> QED BY <1>1, MovesAreBound, Zenon DEF Unbound, NoMove

LEMMA Queues ==
  TypeInv => requests \in Seq(Request) /\ \A g \in Gen : commands[g] \in Seq(Request)
<1>1. Command \subseteq Request
  BY Zenon DEF Request
<1>2. ASSUME NEW q \in Seq(Command) PROVE q \in Seq(Request)
  BY <1>1, <1>2
<1> QED BY <1>2, Typed, Zenon

\* A worker that is not at a stop is quiet, and so is one on its way from a stop.
LEMMA RunningIsQuiet ==
  ASSUME TypeInv, TokenInv, NEW g \in Gen, worker[g] # "paused"
  PROVE  Quiet(g) /\ Unbound(commands[g])
<1>1. Unbound(commands[g])
  BY Zenon DEF TokenInv, CommandsTimely, Timely, Unbound
<1>2. ASSUME g = current_gen PROVE Quiet(g)
  <2>1. \A s : ~Rests(s)
    BY <1>2, Zenon DEF Rests
  <2>2. view # "stopped" /\ Unbound(requests)
    BY <1>2, <2>1, Zenon DEF TokenInv, StopViewed, RequestsTimely, Timely, Unbound
  <2>3. \A i \in 1..Len(shown) : shown[i].e = "stopped" => shown[i].stop[1] # g
    BY <1>2, <2>1, Zenon DEF TokenInv, StopShown
  <2>4. \A i \in 1..Len(events[g]) : events[g][i].e # "stopped"
    BY <1>2, <2>1, Zenon DEF TokenInv, StopSent
  <2> QED BY <2>2, <2>3, <2>4, Zenon DEF Quiet
<1> QED BY <1>1, <1>2, Zenon DEF Quiet

LEMMA MovingIsQuiet ==
  ASSUME TypeInv, TokenInv, NEW g \in Gen, commands[g] # <<>>, Head(commands[g]).c = "move"
  PROVE  /\ Quiet(g) /\ Head(commands[g]).stop = <<g, stops[g]>>
         /\ \A i \in 1..Len(Tail(commands[g])) : Upon(Tail(commands[g])[i]) = NoStop
<1>1. commands[g] \in Seq(Request) /\ commands[g][1].c = "move" /\ 1 \in 1..Len(commands[g])
      /\ commands[g][1] \in Request /\ Head(commands[g]) = commands[g][1]
  BY Queues, HeadElement, Zenon
<1>2. Timely(commands[g], g)
  BY Zenon DEF TokenInv, CommandsTimely
<1>3. ASSUME NEW i \in 1..Len(Tail(commands[g])) PROVE Upon(Tail(commands[g])[i]) = NoStop
  <2>1. i + 1 \in 1..Len(commands[g]) /\ Tail(commands[g])[i] = commands[g][i + 1] /\ 1 < i + 1
    BY <1>1, TailElement
  <2> QED BY <1>1, <1>2, <2>1, Zenon DEF Timely
<1>4. Head(commands[g]).stop = <<g, stops[g]>>
  BY <1>1, <1>2, MovesAreBound, Zenon DEF Timely
<1>5. ASSUME g = current_gen PROVE Quiet(g)
  <2>1. ~NoMove(commands[g]) /\ \A s : ~Rests(s)
    BY <1>1, <1>5, Zenon DEF Rests, NoMove
  <2>2. view # "stopped" /\ Unbound(requests)
    BY <1>5, <2>1, Zenon DEF TokenInv, StopViewed, RequestsTimely, Unbound
  <2>3. \A i \in 1..Len(shown) : shown[i].e = "stopped" => shown[i].stop[1] # g
    BY <1>5, <2>1, Zenon DEF TokenInv, StopShown
  <2>4. \A i \in 1..Len(events[g]) : events[g][i].e # "stopped"
    BY <1>5, <2>1, Zenon DEF TokenInv, StopSent
  <2> QED BY <2>2, <2>3, <2>4, Zenon DEF Quiet
<1> QED BY <1>3, <1>4, <1>5, Zenon DEF Quiet

\* Before the launch there is no stop.
LEMMA BeforeLaunch ==
  ASSUME TypeInv, TokenInv, AnswerInv, current_gen = 0
  PROVE  /\ view # "stopped" /\ Unbound(requests)
         /\ \A i \in 1..Len(shown) : shown[i].e = "stopped" => shown[i].stop[1] # current_gen
<1>1. \A n : <<current_gen, n>> \notin Stop
  BY StopsAreReal, Zenon
<1>2. view # "stopped"
  BY <1>1, Zenon DEF TokenInv, StopViewed, Rests, TypeInv
<1>3. ASSUME NEW i \in 1..Len(requests) PROVE Upon(requests[i]) = NoStop
  <2>1. requests[i] \in Request /\ asked \in Seq(Stop \cup {NoStop})
    BY Typed
  <2>2. Upon(requests[i]) \in Stop \cup {NoStop}
    <3>1. CASE requests[i].c = "move"
      BY <2>1, <3>1, MovesAreBound, Zenon
    <3>2. CASE requests[i].c = "inspect"
      BY <2>1, <3>2, Numbers DEF Upon, UponIn
    <3>3. CASE requests[i].c \notin {"move", "inspect"}
      BY <3>3, Zenon DEF Upon, UponIn
    <3> QED BY <3>1, <3>2, <3>3, Zenon
  <2> QED BY <1>1, <2>2, Zenon DEF TokenInv, RequestsTimely, Timely
<1>4. ASSUME NEW i \in 1..Len(shown), shown[i].e = "stopped" PROVE shown[i].stop[1] # current_gen
  <2>1. ASSUME NEW x \in Event \cup [e : {"restarted"}], x.e = "stopped" PROVE x.stop[1] # 0
    BY <2>1, BoundsAssumption DEF Event, Stop, Gen
  <2>2. shown[i] \in Event \cup [e : {"restarted"}]
    BY Typed
  <2> QED BY <1>4, <2>1, <2>2, Zenon
<1> QED BY <1>2, <1>3, <1>4, Zenon DEF Unbound

\* Only what the current worker does matters to the stop, and a quiet one has none.
LEMMA QuietStep ==
  ASSUME TypeInv, TokenInv, AnswerInv, NEW g \in Gen, Quiet(g),
         UNCHANGED <<current_gen, view, viewed, asked, requests, shown>>,
         \A h \in Gen \ {g} : /\ worker'[h] = worker[h] /\ stops'[h] = stops[h]
                              /\ commands'[h] = commands[h] /\ events'[h] = events[h],
         Timely(commands[g], g)',
         g = current_gen => \A i \in 1..Len(events'[g]) : events'[g][i].e # "stopped"
  PROVE  TokenInv'
<1>t. current_gen \in Nat /\ (current_gen = 0 \/ current_gen \in Gen)
  BY Typed, BoundsAssumption DEF Gen
<1>1. CommandsTimely'
  <2> SUFFICES ASSUME NEW h \in Gen PROVE Timely(commands[h], h)'
    BY Zenon DEF CommandsTimely
  <2>1. CASE h # g
    BY <2>1 DEF TokenInv, CommandsTimely, Timely, Upon
  <2> QED BY <2>1, Zenon
<1>2. CASE g = current_gen
  <2>1. StopViewed' /\ StopShown' /\ RequestsTimely'
    BY <1>2, Zenon DEF Quiet, StopViewed, StopShown, RequestsTimely, Timely, Unbound, Upon
  <2>2. StopSent'
    BY <1>2, Zenon DEF StopSent
  <2> QED BY <1>1, <2>1, <2>2, Zenon DEF TokenInv
<1>3. CASE g # current_gen /\ current_gen \in Gen
  <2>1. /\ worker'[current_gen] = worker[current_gen] /\ stops'[current_gen] = stops[current_gen]
        /\ commands'[current_gen] = commands[current_gen] /\ events'[current_gen] = events[current_gen]
    BY <1>3, Zenon
  <2>2. StopViewed' /\ StopShown' /\ RequestsTimely'
    BY <2>1 DEF TokenInv, StopViewed, StopShown, RequestsTimely, Timely, Upon, Rests
  <2>3. StopSent'
    BY <2>1 DEF TokenInv, StopSent, Rests
  <2> QED BY <1>1, <2>2, <2>3 DEF TokenInv
<1>4. CASE current_gen = 0
  <2>1. /\ view # "stopped" /\ Unbound(requests)
        /\ \A i \in 1..Len(shown) : shown[i].e = "stopped" => shown[i].stop[1] # current_gen
    BY <1>4, BeforeLaunch, Zenon
  <2>2. StopViewed' /\ StopShown' /\ RequestsTimely'
    BY <2>1, Zenon DEF StopViewed, StopShown, RequestsTimely, Timely, Unbound, Upon
  <2>3. StopSent'
    BY <1>4, BoundsAssumption DEF StopSent, Gen
  <2> QED BY <1>1, <2>2, <2>3 DEF TokenInv
<1> QED BY <1>t, <1>2, <1>3, <1>4, Zenon

\* A stop stays where it is while no movement is added.
LEMMA StopsKept ==
  ASSUME TokenInv, UNCHANGED <<current_gen, viewed, shown, events, worker, stops>>,
         view' = "stopped" => view = "stopped",
         NoMove(requests) => NoMove(requests)',
         NoMove(commands[current_gen]) => NoMove(commands[current_gen])'
  PROVE  (StopViewed /\ StopShown /\ StopSent)'
<1>1. StopViewed'
  BY Zenon DEF TokenInv, StopViewed, Rests
<1>2. StopShown'
  BY Zenon DEF TokenInv, StopShown, Rests
<1>3. StopSent'
  BY DEF TokenInv, StopSent, Rests
<1> QED BY <1>1, <1>2, <1>3, Zenon

LEMMA UnboundTimely ==
  ASSUME NEW g, asked' = asked, \A i \in 1..Len(commands'[g]) : Upon(commands'[g][i]) = NoStop
  PROVE  Timely(commands[g], g)'
BY Zenon DEF Timely, Upon

\* A worker's step.
LEMMA TokenWorker ==
  ASSUME TypeInv, SenderInv, AnswerInv, TokenInv, NEW g \in Gen, Worker(g)
  PROVE  TokenInv' /\ (ResumeMatchesStop => ResumeMatchesStop')
<1>t. /\ worker \in [Gen -> {"none", "loading", "waiting", "running", "paused", "done"}]
      /\ stops \in [Gen -> 0..MaxStops]
      /\ commands \in [Gen -> Seq(Command)] /\ events \in [Gen -> Seq(Event)]
      /\ commands[g] \in Seq(Request)
  BY Typed, Queues, Zenon
<1>1. /\ UNCHANGED <<current_gen, view, viewed, asked, requests, shown>> /\ server # "exited"
      /\ \A h \in Gen \ {g} : /\ worker'[h] = worker[h] /\ stops'[h] = stops[h]
                              /\ commands'[h] = commands[h] /\ events'[h] = events[h]
  BY WorkerCases, WorkerOwn, Zenon
<1>2. CASE Begins(g) \/ Passes(g)
  <2>1. /\ worker[g] # "paused" /\ events' = events /\ resumed' = resumed
        /\ commands'[g] = commands[g] \/ commands'[g] = <<>>
    BY <1>2, <1>t, Zenon DEF Begins, Passes, Drains
  <2>2. Quiet(g) /\ Unbound(commands[g])
    BY <2>1, RunningIsQuiet, Zenon
  <2>3. Timely(commands[g], g)'
    BY <1>1, <2>1, <2>2, UnboundTimely DEF Unbound
  <2>4. TokenInv'
    BY <1>1, <2>1, <2>2, <2>3, QuietStep, Zenon DEF Quiet
  <2> QED BY <2>1, <2>4, Zenon DEF ResumeMatchesStop
<1>3. CASE Ends(g)
  <2>1. /\ commands'[g] = <<>> /\ resumed' = resumed
        /\ events'[g] = Append(events[g], [e |-> "terminated"])
    BY <1>3, <1>t, Zenon DEF Ends, Terminate
  <2>2. g = current_gen => worker[g] # "paused"
    <3> SUFFICES ASSUME g = current_gen, worker[g] = "paused" PROVE FALSE
      BY Zenon
    <3>1. commands[g] # <<>> /\ Head(commands[g]).c \notin {"move", "inspect"}
      BY <1>3, Zenon DEF Ends, SenderInv
    <3>2. Head(commands[g]) \in Command /\ Head(commands[g]) = commands[g][1] /\ 1 \in 1..Len(commands[g])
      BY <1>t, <3>1, HeadElement, Zenon
    <3>3. commands[g][1].c = "disconnect"
      BY <3>1, <3>2, Zenon DEF Command
    <3> QED BY <1>1, <3>2, <3>3, Zenon DEF SenderInv
  <2>3. Quiet(g)
    BY <2>2, RunningIsQuiet, Zenon DEF Quiet
  <2>4. Timely(commands[g], g)'
    BY <1>1, <2>1, UnboundTimely
  <2>5. g = current_gen => \A i \in 1..Len(events'[g]) : events'[g][i].e # "stopped"
    <3>1. [e |-> "terminated"] \in Event /\ events[g] \in Seq(Event)
      BY <1>t, Zenon DEF Event
    <3> QED BY <2>1, <2>3, <3>1, AppendElement DEF Quiet
  <2>6. TokenInv'
    BY <1>1, <2>3, <2>4, <2>5, QuietStep, Zenon
  <2> QED BY <2>1, <2>6, Zenon DEF ResumeMatchesStop
<1>4. CASE Resumes(g)
  <2>1. /\ commands[g] # <<>> /\ Head(commands[g]).c = "move"
        /\ commands'[g] = Tail(commands[g]) /\ events' = events
        /\ resumed' = <<<<g, stops[g]>>, Head(commands[g]).stop>>
    BY <1>4, <1>t, Zenon DEF Resumes
  <2>2. /\ Quiet(g) /\ Head(commands[g]).stop = <<g, stops[g]>>
        /\ \A i \in 1..Len(Tail(commands[g])) : Upon(Tail(commands[g])[i]) = NoStop
    BY <2>1, MovingIsQuiet, Zenon
  <2>3. Timely(commands[g], g)'
    BY <1>1, <2>1, <2>2, UnboundTimely, ZenonT(60)
  <2>4. TokenInv'
    BY <1>1, <2>1, <2>2, <2>3, QuietStep, Zenon DEF Quiet
  <2>5. ResumeMatchesStop'
    BY <2>1, <2>2, Zenon DEF ResumeMatchesStop
  <2> QED BY <2>4, <2>5, Zenon
<1>5. CASE Replies(g)
  <2>1. /\ commands[g] # <<>> /\ commands'[g] = Tail(commands[g]) /\ Head(commands[g]).c = "inspect"
        /\ UNCHANGED <<worker, stops, events, resumed>>
    BY <1>5, <1>t, Zenon DEF Replies
  <2>2. \A i \in 1..Len(commands'[g]) : i + 1 \in 1..Len(commands[g]) /\ commands'[g][i] = commands[g][i + 1]
    BY <1>t, <2>1, TailElement, Zenon
  <2>3. Timely(commands[g], g)'
    <3> SUFFICES ASSUME NEW i \in 1..Len(commands'[g]), UponIn(asked', commands'[g][i]) # NoStop
                 PROVE  /\ worker'[g] = "paused" /\ UponIn(asked', commands'[g][i]) = <<g, stops'[g]>>
                        /\ \A j \in 1..Len(commands'[g]) : j < i => commands'[g][j].c # "move"
      BY Zenon DEF Timely, Upon
    <3>1. /\ worker[g] = "paused" /\ Upon(commands[g][i + 1]) = <<g, stops[g]>>
          /\ \A j \in 1..Len(commands[g]) : j < i + 1 => commands[g][j].c # "move"
      BY <1>1, <2>2 DEF TokenInv, CommandsTimely, Timely, Upon
    <3>2. \A j \in 1..Len(commands'[g]) : j < i => j + 1 < i + 1
      OBVIOUS
    <3> QED BY <1>1, <2>1, <2>2, <3>1, <3>2, Zenon DEF Upon
  <2>4. CASE g # current_gen
    BY <1>1, <2>1, <2>3, <2>4, QuietStep, Zenon DEF Quiet, ResumeMatchesStop
  <2>5. CASE g = current_gen
    <3>1. NoMove(commands[current_gen]) => NoMove(commands[current_gen])'
      BY <1>1, <2>2, <2>5 DEF NoMove
    <3>2. (StopViewed /\ StopShown /\ StopSent)'
      BY <1>1, <2>1, <3>1, StopsKept, Zenon
    <3>3. RequestsTimely'
      BY <1>1, <2>1, <3>1, Zenon DEF TokenInv, RequestsTimely, Timely, Upon, NoMove
    <3>4. CommandsTimely'
      <4> SUFFICES ASSUME NEW h \in Gen PROVE Timely(commands[h], h)'
        BY Zenon DEF CommandsTimely
      <4>1. CASE h # g
        BY <1>1, <4>1 DEF TokenInv, CommandsTimely, Timely, Upon
      <4> QED BY <2>3, <4>1, Zenon
    <3> QED BY <2>1, <3>2, <3>3, <3>4, Zenon DEF TokenInv, ResumeMatchesStop
  <2> QED BY <2>4, <2>5, Zenon
<1>6. CASE Pauses(g)
  <2> DEFINE x == [e |-> "stopped", stop |-> <<g, stops[g] + 1>>]
  <2>1. /\ worker[g] # "paused" /\ worker'[g] = "paused" /\ stops'[g] = stops[g] + 1
        /\ resumed' = resumed
        /\ commands'[g] = commands[g] \/ commands'[g] = <<>>
        /\ events'[g] = Append(events[g], x)
    BY <1>6, <1>t, Zenon DEF Pauses, Drains, pause
  <2>2. Quiet(g) /\ Unbound(commands[g])
    BY <2>1, RunningIsQuiet, Zenon
  <2>3. Timely(commands[g], g)'
    BY <1>1, <2>1, <2>2, UnboundTimely DEF Unbound
  <2>4. CASE g # current_gen
    <3>1. TokenInv'
      BY <1>1, <2>2, <2>3, <2>4, QuietStep, Zenon
    <3> QED BY <2>1, <3>1, Zenon DEF ResumeMatchesStop
  <2>5. CASE g = current_gen
    <3>1. /\ view # "stopped" /\ Unbound(requests)
          /\ \A i \in 1..Len(shown) : shown[i].e = "stopped" => shown[i].stop[1] # g
          /\ \A i \in 1..Len(events[g]) : events[g][i].e # "stopped"
      BY <2>2, <2>5, Zenon DEF Quiet
    <3>2. StopViewed' /\ StopShown' /\ RequestsTimely'
      BY <1>1, <2>5, <3>1, Zenon DEF StopViewed, StopShown, RequestsTimely, Timely, Unbound, Upon
    <3>3. CommandsTimely'
      <4> SUFFICES ASSUME NEW h \in Gen PROVE Timely(commands[h], h)'
        BY DEF CommandsTimely
      <4>1. CASE h # g
        BY <1>1, <4>1 DEF TokenInv, CommandsTimely, Timely, Upon
      <4> QED BY <2>3, <4>1
    <3>4. NoMove(requests) /\ NoMove(commands[g])
      BY <1>t, <2>2, <3>1, Queues, UnboundMoves, Zenon
    <3>5. /\ requests' = requests /\ current_gen' = g
          /\ \A i \in 1..Len(commands'[g]) : commands'[g][i].c # "move"
      BY <1>1, <2>1, <2>5, <3>4 DEF NoMove
    <3>6. /\ Len(events'[g]) = Len(events[g]) + 1 /\ Len(events[g]) \in Nat
          /\ events'[g][Len(events[g]) + 1] = x
          /\ \A i \in 1..Len(events[g]) : events'[g][i] = events[g][i]
          /\ \A i \in 1..(Len(events[g]) + 1) : i \in 1..Len(events[g]) \/ i = Len(events[g]) + 1
      <4>1. stops[g] + 1 \in 1..MaxStops
        BY <1>6, BoundsAssumption, SMTT(30) DEF Pauses, pause, TypeInv, TypeOK, Gen
      <4>2. x \in Event
        BY <4>1, Zenon DEF Event, Stop
      <4>3. events[g] \in Seq(Event)
        BY <1>t, Zenon
      <4> HIDE DEF x
      <4> QED BY <2>1, <4>2, <4>3, AppendElement
    <3>7. StopSent'
      <4> SUFFICES ASSUME NEW i \in 1..Len(events'[g]), events'[g][i].e = "stopped"
                   PROVE  /\ Rests(events[g][i].stop)' /\ view' # "stopped"
                          /\ \A j \in 1..Len(shown') : shown'[j].e = "stopped" => shown'[j].stop[1] # g
                          /\ \A j \in 1..Len(events'[g]) : events'[g][j].e = "stopped" => j = i
        BY <3>5, Zenon DEF StopSent
      <4>1. \A j \in 1..Len(events'[g]) : events'[g][j].e = "stopped" => j = Len(events[g]) + 1
        BY <3>1, <3>6, Zenon
      <4>2. events'[g][i].stop = <<g, stops'[g]>>
        BY <2>1, <3>6, <4>1
      <4>3. Rests(events[g][i].stop)'
        BY <2>1, <3>4, <3>5, <4>2, Zenon DEF Rests, NoMove
      <4> QED BY <1>1, <3>1, <4>1, <4>3, Zenon
    <3>8. TokenInv'
      BY <3>2, <3>3, <3>7, Zenon DEF TokenInv
    <3> QED BY <2>1, <3>8 DEF ResumeMatchesStop
  <2> QED BY <2>4, <2>5
<1> QED BY <1>2, <1>3, <1>4, <1>5, <1>6, WorkerCases, Zenon

\* A request the client adds: a movement or an inspection is upon the stop in view.
LEMMA TokenAdds ==
  ASSUME TypeInv, AnswerInv, TokenInv, NEW m \in Request, NEW v, Adds(m, v),
         asked' = asked \/ \E s \in Stop \cup {NoStop} : asked' = Append(asked, s),
         v = "stopped" => view = "stopped" /\ m.c # "move",
         UponIn(asked', m) # NoStop => view = "stopped" /\ UponIn(asked', m) = viewed
  PROVE  TokenInv'
<1>1. /\ Len(requests') = Len(requests) + 1 /\ Len(requests) \in Nat
      /\ requests'[Len(requests) + 1] = m /\ \A i \in 1..Len(requests) : requests'[i] = requests[i]
      /\ \A i \in 1..(Len(requests) + 1) : i \in 1..Len(requests) \/ i = Len(requests) + 1
  BY Typed, AppendElement DEF Adds
<1>2. view' = v /\ UNCHANGED <<shown, current_gen, viewed, worker, stops, commands, events>>
  BY Zenon DEF Adds
<1>3. /\ \A i \in 1..Len(requests) : UponIn(asked', requests[i]) = Upon(requests[i])
      /\ \A g \in Gen : \A i \in 1..Len(commands[g]) : UponIn(asked', commands[g][i]) = Upon(commands[g][i])
  BY Numbers, UponStays, Zenon
<1>4. CommandsTimely'
  BY <1>2, <1>3 DEF TokenInv, CommandsTimely, Timely, Upon
<1>5. UponIn(asked', m) # NoStop => /\ Rests(viewed) /\ UponIn(asked', m) = viewed
  BY Zenon DEF TokenInv, StopViewed
<1>6. RequestsTimely'
  <2> SUFFICES ASSUME NEW i \in 1..Len(requests'), UponIn(asked', requests'[i]) # NoStop
               PROVE  /\ worker[current_gen] = "paused"
                      /\ UponIn(asked', requests'[i]) = <<current_gen, stops[current_gen]>>
                      /\ \A j \in 1..Len(requests') : j < i => requests'[j].c # "move"
                      /\ NoMove(commands[current_gen])
    BY <1>2, Zenon DEF RequestsTimely, Timely, Upon, NoMove
  <2>1. CASE i \in 1..Len(requests)
    <3>1. Upon(requests[i]) # NoStop /\ requests'[i] = requests[i]
      BY <1>1, <1>3, <2>1, Zenon
    <3>2. /\ worker[current_gen] = "paused" /\ Upon(requests[i]) = <<current_gen, stops[current_gen]>>
          /\ \A j \in 1..Len(requests) : j < i => requests[j].c # "move"
          /\ NoMove(commands[current_gen])
      BY <2>1, <3>1, Zenon DEF TokenInv, RequestsTimely, Timely
    <3>3. \A j \in 1..Len(requests') : j < i => j \in 1..Len(requests)
      BY <1>1, <2>1
    <3> QED BY <1>1, <1>3, <2>1, <3>1, <3>2, <3>3, Zenon
  <2>2. CASE i = Len(requests) + 1
    <3>1. Rests(viewed) /\ UponIn(asked', m) = viewed
      BY <1>1, <1>5, <2>2, Zenon
    <3>2. \A j \in 1..Len(requests') : j < i => j \in 1..Len(requests)
      BY <1>1, <2>2
    <3> QED BY <1>1, <2>2, <3>1, <3>2, Zenon DEF Rests, NoMove
  <2> QED BY <1>1, <2>1, <2>2, Zenon
<1>7. CASE m.c # "move"
  <2>1. NoMove(requests) => NoMove(requests)'
    BY <1>1, <1>7, Zenon DEF NoMove
  <2>2. NoMove(commands[current_gen]) => NoMove(commands[current_gen])'
    BY <1>2, Zenon DEF NoMove
  <2>3. (StopViewed /\ StopShown /\ StopSent)'
    BY <1>2, <2>1, <2>2, StopsKept
  <2> QED BY <1>4, <1>6, <2>3, Zenon DEF TokenInv
<1>8. CASE m.c = "move"
  <2>1. view = "stopped" /\ view' # "stopped"
    BY <1>2, <1>8, MovesAreBound, Zenon
  <2>2. (StopViewed /\ StopShown /\ StopSent)'
    BY <1>2, <2>1, Zenon DEF TokenInv, StopViewed, StopShown, StopSent
  <2> QED BY <1>4, <1>6, <2>2 DEF TokenInv
<1> QED BY <1>7, <1>8, Zenon

\* The client reads: a stop it comes to see is the one the current worker is at.
LEMMA TokenReads ==
  ASSUME TypeInv, RestartInv, TokenInv, ClientReads
  PROVE  TokenInv'
<1>1. /\ shown # <<>> /\ shown' = Tail(shown)
      /\ UNCHANGED <<current_gen, worker, stops, asked, commands, events, requests>>
  BY Zenon DEF ClientReads, serverVars, workerVars
<1>2. Head(shown) = shown[1] /\ 1 \in 1..Len(shown) /\ shown \in Seq(Event \cup [e : {"restarted"}])
  BY <1>1, Typed, HeadElement, Zenon
<1>3. \A i \in 1..Len(shown') : i + 1 \in 1..Len(shown) /\ shown'[i] = shown[i + 1] /\ i + 1 # 1
  BY <1>1, <1>2, TailElement
<1>4. CommandsTimely' /\ RequestsTimely'
  BY <1>1, Zenon DEF TokenInv, CommandsTimely, RequestsTimely, Timely, Upon, NoMove
<1>5. \/ viewed' = viewed /\ (view' = "stopped" => view = "stopped")
      \/ /\ shown[1].e = "stopped" /\ view \in {"running", "stopped"}
         /\ view' = "stopped" /\ viewed' = shown[1].stop
  BY <1>2, Zenon DEF ClientReads
<1>6. CASE viewed' = viewed /\ (view' = "stopped" => view = "stopped")
  <2>1. StopViewed'
    BY <1>1, <1>6 DEF TokenInv, StopViewed, Rests, NoMove
  <2>2. StopShown'
    <3> SUFFICES ASSUME NEW i \in 1..Len(shown'), shown'[i].e = "stopped", shown'[i].stop[1] = current_gen'
                 PROVE  /\ Rests(shown[i].stop)' /\ view' # "stopped"
                        /\ \A j \in 1..Len(shown') :
                             shown'[j].e = "stopped" /\ shown'[j].stop[1] = current_gen' => j = i
      BY Zenon DEF StopShown
    <3>1. i + 1 \in 1..Len(shown) /\ shown'[i] = shown[i + 1]
      BY <1>3, Zenon
    <3>2. /\ Rests(shown[i + 1].stop) /\ view # "stopped"
          /\ \A j \in 1..Len(shown) :
               shown[j].e = "stopped" /\ shown[j].stop[1] = current_gen => j = i + 1
      BY <1>1, <3>1, Zenon DEF TokenInv, StopShown
    <3>3. \A j \in 1..Len(shown') : j + 1 = i + 1 => j = i
      OBVIOUS
    <3>4. Rests(shown[i].stop)'
      BY <1>1, <3>1, <3>2, ZenonT(60) DEF Rests, NoMove
    <3> QED BY <1>1, <1>3, <1>6, <3>2, <3>3, <3>4, Zenon
  <2>3. StopSent'
    BY <1>1, <1>3, <1>6 DEF TokenInv, StopSent, Rests, NoMove
  <2> QED BY <1>4, <2>1, <2>2, <2>3, Zenon DEF TokenInv
<1>7. CASE /\ shown[1].e = "stopped" /\ view \in {"running", "stopped"}
           /\ view' = "stopped" /\ viewed' = shown[1].stop
  <2>1. shown[1].stop[1] = current_gen
    BY <1>2, <1>7, Zenon DEF RestartInv, RestartTold, StopsToldBefore
  <2>2. /\ Rests(shown[1].stop)
        /\ \A j \in 1..Len(shown) : shown[j].e = "stopped" /\ shown[j].stop[1] = current_gen => j = 1
    BY <1>2, <1>7, <2>1, Zenon DEF TokenInv, StopShown
  <2>3. StopViewed'
    BY <1>1, <1>7, <2>2, Zenon DEF StopViewed, Rests, NoMove
  <2>4. StopShown'
    BY <1>1, <1>3, <2>2 DEF StopShown
  <2>5. StopSent'
    BY <1>1, <1>2, <1>7, <2>1, Zenon DEF TokenInv, StopSent
  <2> QED BY <1>4, <2>3, <2>4, <2>5 DEF TokenInv
<1> QED BY <1>5, <1>6, <1>7, Zenon

\* The loop takes a request that does not move: the worker gets an inspection, a
\* disconnect or nothing.
LEMMA TokenTook ==
  ASSUME TypeInv, SenderInv, TokenInv, Took, UNCHANGED <<current_gen, worker, events, shown>>,
         NEW command \in Command, command.c # "move",
         commands' = commands \/ commands' = send_command(command),
         command = Head(requests) \/ Upon(command) = NoStop
  PROVE  TokenInv'
<1>1. \A i \in 1..Len(requests') : i + 1 \in 1..Len(requests) /\ requests'[i] = requests[i + 1]
  BY TookRest, Zenon
<1>2. Head(requests) = requests[1] /\ 1 \in 1..Len(requests) /\ UNCHANGED <<view, viewed, asked, stops>>
  BY Typed, HeadElement, Zenon DEF Took
<1>3. \A g \in Gen : \A i \in 1..Len(commands'[g]) :
        \/ i \in 1..Len(commands[g]) /\ commands'[g][i] = commands[g][i]
        \/ g = cmd_tx /\ i = Len(commands[g]) + 1 /\ commands'[g][i] = command
  BY SentElement
<1>4. NoMove(requests) => NoMove(requests)'
  BY <1>1, Zenon DEF NoMove
<1>5. NoMove(commands[current_gen]) => NoMove(commands[current_gen])'
  <2>1. CASE current_gen \in Gen
    BY <1>3, <2>1, Zenon DEF NoMove
  <2>2. CASE current_gen \notin Gen
    <3>1. commands'[current_gen] = commands[current_gen]
      BY <2>2, Typed, BoundsAssumption DEF send_command, SenderInv, Gen
    <3> QED BY <3>1, Zenon DEF NoMove
  <2> QED BY <2>1, <2>2, Zenon
<1>6. (StopViewed /\ StopShown /\ StopSent)'
  BY <1>2, <1>4, <1>5, StopsKept, Zenon
<1>7. RequestsTimely'
  <2> SUFFICES ASSUME NEW i \in 1..Len(requests'), Upon(requests'[i]) # NoStop
               PROVE  /\ worker[current_gen] = "paused"
                      /\ Upon(requests'[i]) = <<current_gen, stops[current_gen]>>
                      /\ \A j \in 1..Len(requests') : j < i => requests'[j].c # "move"
                      /\ NoMove(commands[current_gen])
    BY <1>2, <1>5, Zenon DEF RequestsTimely, Timely, Upon
  <2>1. /\ worker[current_gen] = "paused" /\ Upon(requests[i + 1]) = <<current_gen, stops[current_gen]>>
        /\ \A j \in 1..Len(requests) : j < i + 1 => requests[j].c # "move"
        /\ NoMove(commands[current_gen])
    BY <1>1, Zenon DEF TokenInv, RequestsTimely, Timely
  <2>2. \A j \in 1..Len(requests') : j < i => j + 1 < i + 1
    OBVIOUS
  <2> QED BY <1>1, <2>1, <2>2, Zenon
<1>8. CommandsTimely'
  <2> SUFFICES ASSUME NEW g \in Gen, NEW i \in 1..Len(commands'[g]), Upon(commands'[g][i]) # NoStop
               PROVE  /\ worker[g] = "paused" /\ Upon(commands'[g][i]) = <<g, stops[g]>>
                      /\ \A j \in 1..Len(commands'[g]) : j < i => commands'[g][j].c # "move"
    BY <1>2, Zenon DEF CommandsTimely, Timely, Upon
  <2>c. commands[g] \in Seq(Command)
    BY Typed, Zenon
  <2>1. CASE i \in 1..Len(commands[g]) /\ commands'[g][i] = commands[g][i]
    <3>1. /\ worker[g] = "paused" /\ Upon(commands[g][i]) = <<g, stops[g]>>
          /\ \A j \in 1..Len(commands[g]) : j < i => commands[g][j].c # "move"
      BY <2>1, Zenon DEF TokenInv, CommandsTimely, Timely
    <3>2. \A j \in 1..Len(commands'[g]) : j < i => commands'[g][j].c # "move"
      BY <1>3, <3>1, Zenon
    <3> QED BY <2>1, <3>1, <3>2, Zenon
  <2>2. CASE g = cmd_tx /\ i = Len(commands[g]) + 1 /\ commands'[g][i] = command
    <3>1. g = current_gen /\ command = requests[1]
      BY <1>2, <2>2, Zenon DEF SenderInv
    <3>2. /\ worker[g] = "paused" /\ Upon(command) = <<g, stops[g]>> /\ NoMove(commands[g])
      BY <1>2, <2>2, <3>1, Zenon DEF TokenInv, RequestsTimely, Timely
    <3>3. \A j \in 1..Len(commands'[g]) : commands'[g][j].c # "move"
      BY <1>3, <3>2, Zenon DEF NoMove
    <3> QED BY <2>2, <3>2, <3>3, Zenon
  <2> QED BY <1>3, <2>1, <2>2, Zenon
<1> QED BY <1>6, <1>7, <1>8, Zenon DEF TokenInv

\* The loop takes a movement: nothing upon the stop is left behind it.
LEMMA TokenMoved ==
  ASSUME TypeInv, SenderInv, TokenInv, Took, UNCHANGED <<current_gen, worker, events, shown>>,
         Head(requests).c = "move", commands' = send_command(Head(requests))
  PROVE  TokenInv'
<1>1. \A i \in 1..Len(requests') : i + 1 \in 1..Len(requests) /\ requests'[i] = requests[i + 1] /\ 1 < i + 1
  BY TookRest
<1>2. /\ Head(requests) = requests[1] /\ 1 \in 1..Len(requests) /\ requests[1] \in Request
      /\ UNCHANGED <<view, viewed, asked, stops>>
  BY Typed, HeadElement DEF Took
<1>3. Head(requests) \in Command
  BY RequestForwarded, Zenon DEF Took
<1>4. /\ worker[current_gen] = "paused" /\ Upon(requests[1]) = <<current_gen, stops[current_gen]>>
      /\ NoMove(commands[current_gen])
  BY <1>2, MovesAreBound, Zenon DEF TokenInv, RequestsTimely, Timely
<1>5. \A s : ~Rests(s)
  BY <1>2, Zenon DEF Rests, NoMove
<1>6. (StopViewed /\ StopShown /\ StopSent)'
  BY <1>2, <1>5, Zenon DEF TokenInv, StopViewed, StopShown, StopSent
<1>7. RequestsTimely'
  <2>1. \A i \in 1..Len(requests') : Upon(requests'[i]) = NoStop
    BY <1>1, <1>2, Zenon DEF TokenInv, RequestsTimely, Timely
  <2> QED BY <1>2, <2>1, Zenon DEF RequestsTimely, Timely, Upon
<1>8. CommandsTimely'
  <2> SUFFICES ASSUME NEW g \in Gen, NEW i \in 1..Len(commands'[g]), Upon(commands'[g][i]) # NoStop
               PROVE  /\ worker[g] = "paused" /\ Upon(commands'[g][i]) = <<g, stops[g]>>
                      /\ \A j \in 1..Len(commands'[g]) : j < i => commands'[g][j].c # "move"
    BY <1>2, Zenon DEF CommandsTimely, Timely, Upon
  <2>c. commands[g] \in Seq(Command)
    BY Typed, Zenon
  <2>s. \A k \in 1..Len(commands'[g]) :
          \/ k \in 1..Len(commands[g]) /\ commands'[g][k] = commands[g][k]
          \/ g = cmd_tx /\ k = Len(commands[g]) + 1 /\ commands'[g][k] = Head(requests)
    BY <1>3, SentElement
  <2>1. CASE i \in 1..Len(commands[g]) /\ commands'[g][i] = commands[g][i]
    <3>1. /\ worker[g] = "paused" /\ Upon(commands[g][i]) = <<g, stops[g]>>
          /\ \A j \in 1..Len(commands[g]) : j < i => commands[g][j].c # "move"
      BY <2>1, Zenon DEF TokenInv, CommandsTimely, Timely
    <3>2. \A j \in 1..Len(commands'[g]) : j < i => j \in 1..Len(commands[g]) /\ commands'[g][j] = commands[g][j]
      BY <2>1, <2>c, <2>s
    <3> QED BY <2>1, <3>1, <3>2, Zenon
  <2>2. CASE g = cmd_tx /\ i = Len(commands[g]) + 1 /\ commands'[g][i] = Head(requests)
    <3>1. g = current_gen
      BY <2>2, Zenon DEF SenderInv
    <3>2. \A j \in 1..Len(commands'[g]) : j < i => j \in 1..Len(commands[g]) /\ commands'[g][j] = commands[g][j]
      BY <2>2, <2>c, <2>s
    <3> QED BY <1>2, <1>4, <2>2, <3>1, <3>2 DEF NoMove
  <2> QED BY <2>1, <2>2, <2>s, Zenon
<1> QED BY <1>6, <1>7, <1>8, Zenon DEF TokenInv

\* A new worker has no stop, and nothing asked of the one before is left for it.
LEMMA TokenLaunch ==
  ASSUME TypeInv, LaunchFirst, SenderInv, AnswerInv, RestartInv, TokenInv, Took, Launches,
         Head(requests).c \in {"launch", "restart"},
         commands' = commands \/ commands' = send_command([c |-> "disconnect"]),
         shown' = shown \/ shown' = Append(shown, [e |-> "restarted"])
  PROVE  TokenInv'
<1>t. /\ current_gen \in Nat /\ Gen \subseteq Nat /\ current_gen' = current_gen + 1
      /\ current_gen + 1 \in Gen /\ current_gen + 1 > current_gen
      /\ worker \in [Gen -> {"none", "loading", "waiting", "running", "paused", "done"}]
      /\ events \in [Gen -> Seq(Event)] /\ shown \in Seq(Event \cup [e : {"restarted"}])
  BY Typed, SMTT(30) DEF Launches
<1>1. \A i \in 1..Len(requests') : i + 1 \in 1..Len(requests) /\ requests'[i] = requests[i + 1]
  BY TookRest, Zenon
<1>2. /\ Head(requests) = requests[1] /\ 1 \in 1..Len(requests)
      /\ UNCHANGED <<view, viewed, asked, stops>>
  BY Typed, HeadElement, Zenon DEF Took
<1>3. view # "stopped" /\ \A i \in 1..Len(requests') : Upon(requests'[i]) = NoStop
  <2>1. CASE Head(requests).c = "launch"
    <3>1. current_gen = 0
      BY <1>2, <2>1, Zenon DEF LaunchFirst
    <3> QED BY <1>1, <3>1, BeforeLaunch, Zenon DEF Unbound
  <2>2. CASE Head(requests).c = "restart"
    BY <1>2, <2>2, RestartTook, Zenon
  <2> QED BY <2>1, <2>2, Zenon
<1>4. StopViewed' /\ RequestsTimely'
  BY <1>2, <1>3, Zenon DEF StopViewed, RequestsTimely, Timely, Upon
<1>5. StopShown'
  <2>1. \A i \in 1..Len(shown) : shown[i].e = "stopped" => shown[i].stop[1] # current_gen + 1
    <3>1. ASSUME NEW n, n <= current_gen, n = current_gen + 1 PROVE FALSE
      BY <1>t, <3>1
    <3> QED BY <3>1, Zenon DEF RestartInv, StopsToldBefore
  <2>2. \A i \in 1..Len(shown') : shown'[i].e = "stopped" => i \in 1..Len(shown) /\ shown'[i] = shown[i]
    <3>1. CASE shown' = shown
      BY <3>1, Zenon
    <3>2. CASE shown' = Append(shown, [e |-> "restarted"])
      BY <1>t, <3>2, AppendElement
    <3> QED BY <3>1, <3>2, Zenon
  <2> QED BY <1>t, <2>1, <2>2, Zenon DEF StopShown
<1>6. StopSent'
  <2>1. \A i \in 1..Len(events'[current_gen + 1]) : events'[current_gen + 1][i].e # "stopped"
    <3>1. events[current_gen + 1] = <<>>
      BY <1>t, Zenon DEF SenderInv
    <3>2. events'[current_gen + 1] = <<>> \/ events'[current_gen + 1] = <<[e |-> "terminated"]>>
      BY <1>t, <3>1, Zenon DEF Launches
    <3> QED BY <3>2
  <2> QED BY <1>t, <2>1, Zenon DEF StopSent
<1>7. CommandsTimely'
  <2> SUFFICES ASSUME NEW g \in Gen, NEW i \in 1..Len(commands'[g]), Upon(commands'[g][i]) # NoStop
               PROVE  /\ worker'[g] = "paused" /\ Upon(commands'[g][i]) = <<g, stops[g]>>
                      /\ \A j \in 1..Len(commands'[g]) : j < i => commands'[g][j].c # "move"
    BY <1>2, Zenon DEF CommandsTimely, Timely, Upon
  <2>1. [c |-> "disconnect"] \in Command /\ Upon([c |-> "disconnect"]) = NoStop
    BY Zenon DEF Command, Upon, UponIn
  <2>2. \A k \in 1..Len(commands'[g]) :
          \/ k \in 1..Len(commands[g]) /\ commands'[g][k] = commands[g][k]
          \/ commands'[g][k] = [c |-> "disconnect"]
    BY <2>1, SentElement
  <2>3. i \in 1..Len(commands[g]) /\ commands'[g][i] = commands[g][i]
    BY <2>1, <2>2, Zenon
  <2>4. /\ worker[g] = "paused" /\ Upon(commands[g][i]) = <<g, stops[g]>>
        /\ \A j \in 1..Len(commands[g]) : j < i => commands[g][j].c # "move"
    BY <2>3, Zenon DEF TokenInv, CommandsTimely, Timely
  <2>5. worker'[g] = worker[g]
    BY <1>t, <2>4, Zenon DEF Launches, SenderInv
  <2>6. \A j \in 1..Len(commands'[g]) : j < i => commands'[g][j].c # "move"
    BY <2>2, <2>4
  <2> QED BY <2>3, <2>4, <2>5, <2>6, Zenon
<1> QED BY <1>4, <1>5, <1>6, <1>7, Zenon DEF TokenInv

\* An event of the current worker is shown; others are dropped.
LEMMA TokenEvent ==
  ASSUME TypeInv, EventsOwned, TokenInv, NEW g \in Gen, handle_worker_event(g)
  PROVE  TokenInv'
<1>1. /\ events[g] # <<>> /\ events' = [events EXCEPT ![g] = Tail(events[g])]
      /\ UNCHANGED <<current_gen, worker, stops, asked, commands, requests, view, viewed>>
      /\ shown' = IF g = current_gen THEN Append(shown, Head(events[g])) ELSE shown
  BY Zenon DEF handle_worker_event, workerVars, clientVars
<1>2. /\ events \in [Gen -> Seq(Event)] /\ events[g] \in Seq(Event)
      /\ shown \in Seq(Event \cup [e : {"restarted"}])
  BY Typed, Zenon
<1>3. Head(events[g]) = events[g][1] /\ 1 \in 1..Len(events[g]) /\ Head(events[g]) \in Event
  BY <1>1, <1>2, HeadElement, Zenon
<1>4. \A i \in 1..Len(events'[g]) :
        i + 1 \in 1..Len(events[g]) /\ events'[g][i] = events[g][i + 1] /\ i + 1 # 1
  <2>1. events'[g] = Tail(events[g])
    BY <1>1, <1>2, Zenon
  <2> QED BY <1>1, <1>2, <2>1, TailElement
<1>5. \A h \in Gen : h # g => events'[h] = events[h]
  BY <1>1, <1>2, Zenon
<1>6. (StopViewed /\ CommandsTimely /\ RequestsTimely)'
  BY <1>1, Zenon DEF TokenInv, StopViewed, CommandsTimely, RequestsTimely, Timely, Upon, Rests, NoMove
<1>7. \A s : Rests(s) => Rests(s)'
  BY <1>1, Zenon DEF Rests, NoMove
<1>8. CASE g # current_gen
  <2>1. StopShown'
    BY <1>1, <1>7, <1>8, ZenonT(60) DEF TokenInv, StopShown, Rests, NoMove
  <2>2. StopSent'
    BY <1>1, <1>5, <1>7, <1>8 DEF TokenInv, StopSent, Rests, NoMove
  <2> QED BY <1>6, <2>1, <2>2, Zenon DEF TokenInv
<1>9. CASE g = current_gen
  <2>1. /\ Len(shown') = Len(shown) + 1 /\ Len(shown) \in Nat
        /\ shown'[Len(shown) + 1] = events[g][1] /\ \A i \in 1..Len(shown) : shown'[i] = shown[i]
        /\ \A i \in 1..(Len(shown) + 1) : i \in 1..Len(shown) \/ i = Len(shown) + 1
    BY <1>1, <1>2, <1>3, <1>9, AppendElement
  <2>2. CASE events[g][1].e = "stopped"
    <3>1. /\ Rests(events[g][1].stop) /\ view # "stopped"
          /\ \A j \in 1..Len(shown) : shown[j].e = "stopped" => shown[j].stop[1] # g
          /\ \A j \in 1..Len(events[g]) : events[g][j].e = "stopped" => j = 1
      BY <1>3, <1>9, <2>2, Zenon DEF TokenInv, StopSent
    <3>2. \A i \in 1..Len(shown') : shown'[i].e = "stopped" /\ shown'[i].stop[1] = current_gen
            => i = Len(shown) + 1
      BY <1>9, <2>1, <3>1, Zenon
    <3>4. StopShown'
      <4> SUFFICES ASSUME NEW i \in 1..Len(shown'), shown'[i].e = "stopped",
                          shown'[i].stop[1] = current_gen
                   PROVE  Rests(shown[i].stop)'
        BY <1>1, <3>1, <3>2, Zenon DEF StopShown
      <4>1. shown'[i] = events[g][1]
        BY <2>1, <3>2, Zenon
      <4> QED BY <1>1, <3>1, <4>1, Zenon DEF Rests, NoMove
    <3>5. StopSent'
      <4>1. \A i \in 1..Len(events'[g]) : events'[g][i].e # "stopped"
        BY <1>4, <3>1
      <4>2. \A h \in Gen : \A i \in 1..Len(events'[h]) : ~(h = current_gen' /\ events'[h][i].e = "stopped")
        BY <1>1, <1>9, <4>1
      <4> QED BY <4>2, Zenon DEF StopSent
    <3> QED BY <1>6, <3>4, <3>5 DEF TokenInv
  <2>3. CASE events[g][1].e # "stopped"
    <3>1. \A i \in 1..Len(shown') : shown'[i].e = "stopped" => i \in 1..Len(shown) /\ shown'[i] = shown[i]
      BY <2>1, <2>3, ZenonT(60)
    <3>2. StopShown'
      BY <1>1, <3>1 DEF TokenInv, StopShown, Rests, NoMove
    <3>3. StopSent'
      <4> SUFFICES ASSUME NEW i \in 1..Len(events'[g]), events'[g][i].e = "stopped"
                   PROVE  /\ Rests(events[g][i].stop)' /\ view # "stopped"
                          /\ \A j \in 1..Len(shown') : shown'[j].e = "stopped" => shown'[j].stop[1] # g
                          /\ \A j \in 1..Len(events'[g]) : events'[g][j].e = "stopped" => j = i
        BY <1>1, <1>9, ZenonT(60) DEF StopSent
      <4>1. /\ Rests(events[g][i + 1].stop) /\ view # "stopped"
            /\ \A j \in 1..Len(shown) : shown[j].e = "stopped" => shown[j].stop[1] # g
            /\ \A j \in 1..Len(events[g]) : events[g][j].e = "stopped" => j = i + 1
        BY <1>4, <1>9 DEF TokenInv, StopSent
      <4>2. Rests(events[g][i].stop)'
        BY <1>1, <1>4, <4>1, Zenon DEF Rests, NoMove
      <4>3. \A j \in 1..Len(events'[g]) : j + 1 = i + 1 => j = i
        OBVIOUS
      <4> QED BY <1>4, <3>1, <4>1, <4>2, <4>3, Zenon
    <3> QED BY <1>6, <3>2, <3>3 DEF TokenInv
  <2> QED BY <2>2, <2>3, Zenon
<1> QED BY <1>8, <1>9, Zenon

\* The steps of the client and of the loop.
LEMMA TokenClient == ASSUME TypeInv, AnswerInv, RestartInv, TokenInv, Client PROVE TokenInv'
<1>1. ASSUME NEW m \in Request, NEW v \in {"running", "restarting", "gone", view}, Adds(m, v),
             asked' = asked, m.c \notin {"move", "inspect"}
      PROVE  TokenInv'
  <2>1. UponIn(asked', m) = NoStop
    BY <1>1, Zenon DEF UponIn
  <2> QED BY <1>1, <2>1, TokenAdds, Zenon
<1>2. CASE /\ asked' = asked /\ view = "stopped" /\ viewed \in Stop
           /\ Adds([c |-> "move", stop |-> viewed], "running")
  <2>1. [c |-> "move", stop |-> viewed] \in Request
    BY <1>2 DEF Request, Command
  <2>2. UponIn(asked', [c |-> "move", stop |-> viewed]) = viewed
    BY Zenon DEF UponIn
  <2> QED BY <1>2, <2>1, <2>2, TokenAdds, Zenon
<1>3. CASE /\ view \in {"running", "stopped"} /\ Len(asked) + 1 \in Req
           /\ asked' = Append(asked, IF view = "stopped" THEN viewed ELSE NoStop)
           /\ Adds([c |-> "inspect", id |-> Len(asked) + 1], view)
  <2> DEFINE m == [c |-> "inspect", id |-> Len(asked) + 1]
             s == IF view = "stopped" THEN viewed ELSE NoStop
  <2>1. m \in Request /\ m.c = "inspect" /\ m.id = Len(asked) + 1
    BY <1>3, Zenon DEF Request, Command
  <2>2. s \in Stop \cup {NoStop}
    BY Zenon DEF TypeInv
  <2>3. asked'[Len(asked) + 1] = s
    BY <1>3, <2>2, Typed, AppendElement
  <2>4. UponIn(asked', m) = s
    BY <2>1, <2>3, Zenon DEF UponIn
  <2> HIDE DEF m
  <2>5. \E x \in Stop \cup {NoStop} : asked' = Append(asked, x)
    BY <1>3, <2>2, Zenon
  <2>6. Adds(m, view)
    BY <1>3 DEF m
  <2> QED BY <2>1, <2>4, <2>5, <2>6, TokenAdds, Zenon
<1> QED BY <1>1, <1>2, <1>3, TokenReads, ClientCases, Zenon

LEMMA TokenLoop ==
  ASSUME TypeInv, EventsOwned, LaunchFirst, SenderInv, AnswerInv, RestartInv, TokenInv, Loop
  PROVE  TokenInv'
<1>d. [c |-> "disconnect"] \in Command /\ Upon([c |-> "disconnect"]) = NoStop
  BY Zenon DEF Command, Upon, UponIn
<1>1. ASSUME Took, Head(requests).c \in {"launch", "restart"}, Launches,
             commands' = commands \/ commands' = send_command([c |-> "disconnect"]),
             shown' = shown \/ shown' = Append(shown, [e |-> "restarted"])
      PROVE  TokenInv'
  BY <1>1, TokenLaunch, Zenon
<1>2. ASSUME Took, Head(requests).c = "configurationDone",
             UNCHANGED <<server, current_gen, cmd_tx, awaiting, worker, commands, events, answered, shown>>
      PROVE  TokenInv'
  <2>1. [c |-> "disconnect"].c # "move"
    BY Zenon
  <2> QED BY <1>d, <1>2, <2>1, TokenTook, Zenon
<1>3. ASSUME Took, Head(requests).c = "move", Forwards(Head(requests)) PROVE TokenInv'
  BY <1>3, TokenMoved, Zenon DEF Forwards
<1>4. ASSUME Took, Head(requests).c = "inspect", Forwards(Head(requests)) PROVE TokenInv'
  <2>1. Head(requests) \in Command
    BY <1>4, RequestForwarded DEF Took
  <2> QED BY <1>4, <2>1, TokenTook, Zenon DEF Forwards
<1>5. ASSUME Took, Forwards([c |-> "disconnect"]) PROVE TokenInv'
  <2>1. [c |-> "disconnect"].c # "move"
    BY SMTT(30)
  <2> QED BY <1>d, <1>5, <2>1, TokenTook DEF Forwards
<1>6. ASSUME NEW reply, Answer(reply) PROVE TokenInv'
  <2>1. UNCHANGED <<current_gen, worker, stops, view, viewed, asked, commands, events, requests, shown>>
    BY <1>6, Zenon DEF Answer, workerVars, clientVars
  <2> QED BY <2>1 DEF TokenInv, StopViewed, StopShown, StopSent, CommandsTimely, RequestsTimely,
             Timely, Upon, Rests, NoMove
<1> QED BY <1>1, <1>2, <1>3, <1>4, <1>5, <1>6, TokenEvent, LoopCases, Zenon

\* The client and the loop resume nothing.
LEMMA ResumedKept == ASSUME TypeInv, Client \/ Loop PROVE resumed' = resumed
<1>1. CASE Client
  <2>1. ClientReads => resumed' = resumed
    BY Zenon DEF ClientReads, workerVars
  <2> QED BY <1>1, <2>1, ClientCases, Zenon DEF Adds
<1>2. CASE Loop
  <2>1. ASSUME NEW reply, Answer(reply) PROVE resumed' = resumed
    BY <2>1, Zenon DEF Answer, workerVars
  <2>2. ASSUME NEW g \in Gen, handle_worker_event(g) PROVE resumed' = resumed
    BY <2>2, Zenon DEF handle_worker_event, workerVars
  <2> QED BY <1>2, <2>1, <2>2, LoopCases, Zenon DEF Took
<1> QED BY <1>1, <1>2, Zenon

\* Every step keeps the session's invariant.
LEMMA SessionStep == SessionInv /\ [Next]_vars => SessionInv'
<1> SUFFICES ASSUME SessionInv, [Next]_vars PROVE SessionInv'
  BY Zenon
<1>i. /\ TypeInv /\ PausesCounted /\ EventsOwned /\ LaunchFirst
      /\ SenderInv /\ AnswerInv /\ RestartInv /\ TokenInv /\ ResumeMatchesStop
  BY DEF SessionInv
<1>1. CASE UNCHANGED vars
  <2>1. TypeInv' /\ PausesCounted' /\ EventsOwned' /\ LaunchFirst'
    BY <1>i, <1>1, ZenonT(60) DEF vars, serverVars, workerVars, clientVars, TypeInv, TypeOK, PausesCounted,
       EventsOwned, LaunchFirst
  <2>2. SenderInv' /\ AnswerInv'
    BY <1>i, <1>1, Zenon DEF vars, serverVars, workerVars, clientVars, SenderInv, AnswerInv
  <2>3. RestartInv'
    BY <1>i, <1>1, Zenon DEF vars, serverVars, workerVars, clientVars, RestartInv, RestartAsked,
       RestartTold, StopsToldBefore, Upon
  <2>4. TokenInv' /\ ResumeMatchesStop'
    BY <1>i, <1>1 DEF vars, serverVars, workerVars, clientVars, TokenInv, StopViewed, StopShown,
       StopSent, CommandsTimely, RequestsTimely, Timely, Upon, Rests, NoMove, ResumeMatchesStop
  <2> QED BY <2>1, <2>2, <2>3, <2>4, ZenonT(60) DEF SessionInv
<1>2. CASE Next
  <2>1. CASE Exited
    BY <1>1, <2>1, Zenon DEF Exited
  <2>2. CASE ~Exited
    <3>1. TypeInv'
      BY <1>i, <1>2, <2>2, ClientTyped, LoopTyped, WorkerTyped, Zenon DEF Next
    <3>2. PausesCounted' /\ EventsOwned' /\ LaunchFirst'
      BY <1>i, <1>2, CountedStep, OwnedStep, LaunchFirstStep, Zenon
    <3>3. SenderInv' /\ RestartInv'
      BY <1>i, <1>2, SenderStep, RestartStep, Zenon
    <3>4. AnswerInv'
      <4>1. CommandsTimely
        BY <1>i, Zenon DEF TokenInv
      <4> QED BY <1>i, <1>2, <4>1, AnswerStep, Zenon
    <3>5. TokenInv' /\ ResumeMatchesStop'
      <4>1. CASE Client \/ Loop
        <5>1. ResumeMatchesStop'
          BY <1>i, <4>1, ResumedKept, Zenon DEF ResumeMatchesStop
        <5>2. TokenInv'
          BY <1>i, <4>1, TokenClient, TokenLoop, Zenon
        <5> QED BY <5>1, <5>2, Zenon
      <4>2. ASSUME NEW g \in Gen, Worker(g) PROVE TokenInv' /\ ResumeMatchesStop'
        BY <1>i, <4>2, TokenWorker, Zenon
      <4> QED BY <1>2, <2>2, <4>1, <4>2, Zenon DEF Next
    <3> QED BY <3>1, <3>2, <3>3, <3>4, <3>5, Zenon DEF SessionInv
  <2> QED BY <2>1, <2>2, Zenon
<1> QED BY <1>1, <1>2, Zenon

\* The session's invariant: each stop of the current worker is in one place (its event
\* channel, what is shown, the client's view, or the movement on its way back), and what
\* the client asked upon a stop finds the worker there (main.rs, controller/mod.rs).
THEOREM SessionInvariant == Spec => []SessionInv
<1>1. Init => EventsOwned /\ LaunchFirst /\ SenderInv /\ AnswerInv /\ RestartInv /\ TokenInv
              /\ ResumeMatchesStop
  <2> SUFFICES ASSUME Init
               PROVE  EventsOwned /\ LaunchFirst /\ SenderInv /\ AnswerInv /\ RestartInv /\ TokenInv
                      /\ ResumeMatchesStop
    BY ZenonT(60)
  <2>1. EventsOwned /\ LaunchFirst /\ SenderInv /\ ResumeMatchesStop
    BY DEF Init, EventsOwned, LaunchFirst, SenderInv, ResumeMatchesStop
  <2>2. AnswerInv
    BY BoundsAssumption DEF Init, AnswerInv, Req
  <2>3. RestartInv
    BY DEF Init, RestartInv, RestartAsked, RestartTold, StopsToldBefore
  <2>4. TokenInv
    BY DEF Init, TokenInv, StopViewed, StopShown, StopSent, CommandsTimely, RequestsTimely, Timely
  <2> QED BY <2>1, <2>2, <2>3, <2>4, Zenon
<1>2. Spec => [](TypeInv /\ PausesCounted)
  BY TypedAndCounted
<1>3. Init /\ TypeInv /\ PausesCounted => SessionInv
  BY <1>1, Zenon DEF SessionInv
<1> QED BY <1>2, <1>3, SessionStep, PTL DEF Spec

\* A paused worker is resumed only by a command sent upon that very stop, for any number
\* of workers, stops and requests (main.rs:143, controller/mod.rs:153, 408).
THEOREM ResumesMatch == Spec => []ResumeMatchesStop
<1>1. SessionInv => ResumeMatchesStop
  BY Zenon DEF SessionInv
<1> QED BY <1>1, SessionInvariant, PTL

\* What the client believes to be the stop is the pause the current worker is in
\* (main.rs:664-672, controller/mod.rs:408).
THEOREM ShownStopsAreReal == Spec => []StopIsReal
<1>1. SessionInv => StopIsReal
  BY DEF SessionInv, TokenInv, StopViewed, Rests, StopIsReal
<1> QED BY <1>1, SessionInvariant, PTL

\* An inspection made at a stop is answered from that stop or with a default
\* (main.rs:744-898).
THEOREM AnswersMatch == Spec => []AnswerFromAskedStop
<1>1. SessionInv => AnswerFromAskedStop
  <2> SUFFICES ASSUME SessionInv, NEW r \in DOMAIN asked, asked[r] # NoStop,
                      answered[r] \notin {NoStop, Closed}
               PROVE  answered[r] = asked[r]
    BY Zenon DEF AnswerFromAskedStop
  <2>1. asked \in Seq(Stop \cup {NoStop}) /\ Len(asked) <= MaxReq
    BY Typed, Zenon DEF SessionInv
  <2>2. r \in Req /\ r <= Len(asked)
    BY <2>1, BoundsAssumption DEF Req
  <2> QED BY <2>2, Zenon DEF SessionInv, AnswerInv
<1> QED BY <1>1, SessionInvariant, PTL

=============================================================================
