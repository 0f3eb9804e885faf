------------------------------ MODULE SysNet -------------------------------
(***************************************************************************)
(* The listeners, connections and UDP sockets of a runtime session         *)
(* (caap-sys-runtime/src/net.rs), its blocking calls and their timeouts,   *)
(* and the peers at the other end.                                         *)
(*                                                                         *)
(* A peer sends characters of two bytes, so that a read may cut one in     *)
(* two; what the host sends is a number of units, of which the send buffer *)
(* holds SendCap.                                                          *)
(***************************************************************************)
EXTENDS Integers, Sequences, FiniteSets

CONSTANTS MaxNetHandles,   \* MAX_NET_HANDLES
          HandleSpacing,   \* from one table's first id to the next one's
          SendCap,         \* units a send buffer holds
          MaxSend,         \* units one write may send
          MaxAddresses,    \* addresses a host name may resolve to
          PollSets,        \* sets of handles a caller may poll
          NoSocket

ASSUME NetAssumption ==
  /\ MaxNetHandles \in Nat \ {0} /\ HandleSpacing \in Nat \ {0} /\ SendCap \in Nat \ {0}
  /\ MaxSend \in Nat \ {0} /\ MaxAddresses \in Nat \ {0}

\* base + 1 ..= base + MAX_NET_HANDLES, for each of the three bases.
ListenerId == (HandleSpacing + 1)..(HandleSpacing + MaxNetHandles)
SocketId == (2 * HandleSpacing + 1)..(2 * HandleSpacing + MaxNetHandles)
UdpId == (3 * HandleSpacing + 1)..(3 * HandleSpacing + MaxNetHandles)
NetId == ListenerId \cup SocketId \cup UdpId

Timeout == {"none", "zero", "some"}

\* A call in progress: what it waits on, the timeout it was given, the timeout the socket
\* had before, and whether the time is up.
NetCallType ==
  [op : {"accept"}, on : ListenerId, timeout : Timeout, elapsed : BOOLEAN]
  \cup [op : {"connect"}, left : Int, timeout : Timeout, elapsed : BOOLEAN]
  \cup [op : {"read"}, on : SocketId, max : Nat, text : BOOLEAN, timeout : Timeout,
        previous : BOOLEAN, elapsed : BOOLEAN]
  \cup [op : {"write"}, on : SocketId, left : Int, timeout : Timeout, previous : BOOLEAN,
        elapsed : BOOLEAN]
  \cup [op : {"recv"}, on : UdpId, max : Nat, timeout : Timeout, previous : BOOLEAN,
        elapsed : BOOLEAN]
  \cup [op : {"poll"}, on : PollSets, timeout : Timeout, elapsed : BOOLEAN]

ASSUME NoSocketAssumption == NoSocket \notin NetCallType

VARIABLES listeners,     \* connections waiting to be accepted, by id
          sockets,       \* connections by id
          udp_sockets,   \* UDP sockets by id
          net_call,      \* the call in progress, or NoSocket
          net_result     \* what the last call returned, and if it asked for a timeout

tables == <<listeners, sockets, udp_sockets>>
netVars == <<tables, net_call, net_result>>

Character == <<"lead", "tail">>

\* A connection: bytes received and not yet read, units sent and not yet taken by the
\* peer, the peer (open, closed, or the connection reset), directions shut down, and
\* whether a timeout is set on the socket.
NewSocket == [in |-> <<>>, out |-> 0, peer |-> "open", shut |-> {},
              read_timeout |-> FALSE, write_timeout |-> FALSE]
NewUdp == [in |-> <<>>, read_timeout |-> FALSE]

NetInit ==
  /\ listeners = [h \in ListenerId |-> NoSocket]
  /\ sockets = [h \in SocketId |-> NoSocket]
  /\ udp_sockets = [h \in UdpId |-> NoSocket]
  /\ net_call = NoSocket
  /\ net_result = [is |-> "none", asked |-> FALSE]

-----------------------------------------------------------------------------
Listening(h) == h \in ListenerId /\ listeners[h] # NoSocket
Connected(h) == h \in SocketId /\ sockets[h] # NoSocket
Bound(h) == h \in UdpId /\ udp_sockets[h] # NoSocket

NetIdle == net_call = NoSocket

NetReturns(is) ==
  /\ net_call' = NoSocket
  /\ net_result' = [is |-> is, asked |-> net_call # NoSocket /\ net_call.timeout # "none"]

NetBlocks(call) == net_call' = call /\ net_result' = [is |-> "none", asked |-> FALSE]

FreeIds(table) == {h \in DOMAIN table : table[h] = NoSocket}

\* allocate_net_handle: the lowest id of the table's range that is free.
allocate_net_handle(table) == CHOOSE h \in FreeIds(table) : \A g \in FreeIds(table) : h <= g

\* store_socket; without a free id the connection is dropped.
store_socket ==
  IF FreeIds(sockets) = {} THEN UNCHANGED sockets /\ NetReturns("exhausted")
  ELSE sockets' = [sockets EXCEPT ![allocate_net_handle(sockets)] = NewSocket] /\ NetReturns("handle")

\* The socket is bound, and listens, before a handle is looked for.
net_listen ==
  /\ NetIdle
  /\ \/ UNCHANGED listeners /\ NetReturns("failed")
     \/ FreeIds(listeners) = {} /\ UNCHANGED listeners /\ NetReturns("exhausted")
     \/ /\ FreeIds(listeners) # {}
        /\ listeners' = [listeners EXCEPT ![allocate_net_handle(listeners)] = 0]
        /\ NetReturns("handle")
  /\ UNCHANGED <<sockets, udp_sockets>>

net_udp_bind ==
  /\ NetIdle
  /\ \/ UNCHANGED udp_sockets /\ NetReturns("failed")
     \/ FreeIds(udp_sockets) = {} /\ UNCHANGED udp_sockets /\ NetReturns("exhausted")
     \/ /\ FreeIds(udp_sockets) # {}
        /\ udp_sockets' = [udp_sockets EXCEPT ![allocate_net_handle(udp_sockets)] = NewUdp]
        /\ NetReturns("handle")
  /\ UNCHANGED <<listeners, sockets>>

\* A handle that is not in the table a call looks in, an argument it refuses or a name
\* that does not resolve; also the queries, which change nothing.
NetRefused == NetIdle /\ NetReturns("failed") /\ UNCHANGED tables

net_accept(h, timeout) ==
  /\ NetIdle /\ Listening(h)
  /\ NetBlocks([op |-> "accept", on |-> h, timeout |-> timeout, elapsed |-> timeout = "zero"])
  /\ UNCHANGED tables

Accepting(h) == net_call # NoSocket /\ net_call.op = "accept" /\ net_call.on = h

\* poll(2) has found the listener ready; accept may still fail, for want of a descriptor.
AcceptTakes(h) ==
  /\ Accepting(h) /\ listeners[h] > 0
  /\ \/ listeners' = [listeners EXCEPT ![h] = @ - 1] /\ store_socket
     \/ NetReturns("failed") /\ UNCHANGED <<listeners, sockets>>
  /\ UNCHANGED udp_sockets

\* The deadline is looked at before poll(2) and after it found nothing.
AcceptTimesOut(h) ==
  Accepting(h) /\ net_call.elapsed /\ NetReturns("timed_out") /\ UNCHANGED tables

\* connect_timeout refuses a timeout of zero.
net_connect(addresses, timeout) ==
  /\ NetIdle
  /\ IF timeout = "zero" THEN NetReturns("failed")
     ELSE NetBlocks([op |-> "connect", left |-> addresses, timeout |-> timeout, elapsed |-> FALSE])
  /\ UNCHANGED tables

\* One address after the other: the first that answers is taken, the error of the last
\* is returned.
ConnectTries ==
  /\ net_call # NoSocket /\ net_call.op = "connect"
  /\ \/ store_socket
     \/ net_call.left = 1 /\ NetReturns("failed") /\ UNCHANGED sockets
     \/ net_call.left > 1 /\ NetBlocks([net_call EXCEPT !.left = @ - 1]) /\ UNCHANGED sockets
  /\ UNCHANGED <<listeners, udp_sockets>>

\* read_with_timeout, to the point where it blocks: setting a timeout of zero is an
\* error, and what was set before is kept to be restored.
net_read(h, max_bytes, text, timeout) ==
  /\ NetIdle /\ Connected(h)
  /\ IF timeout = "zero" THEN NetReturns("failed") /\ UNCHANGED tables
     ELSE /\ sockets' = [sockets EXCEPT ![h].read_timeout = @ \/ timeout = "some"]
          /\ NetBlocks([op |-> "read", on |-> h, max |-> max_bytes, text |-> text, timeout |-> timeout,
                        previous |-> sockets[h].read_timeout, elapsed |-> FALSE])
          /\ UNCHANGED <<listeners, udp_sockets>>

ReadingFrom(h) == net_call # NoSocket /\ net_call.op = "read" /\ net_call.on = h

\* String::from_utf8
ValidText(bytes) == \E n \in 0..Len(bytes) : bytes = [i \in 1..(2 * n) |-> Character[2 - (i % 2)]]

Shorter(n, m) == IF n < m THEN n ELSE m

\* The timeout is left on the socket when the read fails.
SocketReadTimesOutKeeping(h) ==
  /\ ReadingFrom(h) /\ net_call.elapsed
  /\ NetReturns("timed_out")
  /\ UNCHANGED tables

\* Data, the end of what the peer sent, or the error of a reset, which follows the
\* data.  The timeout is restored first; bytes that turn out to be no text are gone.
ReadReturns(h) ==
  /\ ReadingFrom(h)
  /\ \/ sockets[h].in # <<>> \/ sockets[h].peer # "open" \/ "read" \in sockets[h].shut
  /\ LET n == Shorter(net_call.max, Len(sockets[h].in))
         bytes == SubSeq(sockets[h].in, 1, n)
     IN /\ sockets' = [sockets EXCEPT ![h].read_timeout = net_call.previous,
                                      ![h].in = SubSeq(@, n + 1, Len(@))]
        /\ \/ NetReturns(IF net_call.text /\ ~ValidText(bytes) THEN "invalid" ELSE "data")
           \/ n = 0 /\ sockets[h].peer = "reset" /\ NetReturns("failed")
  /\ UNCHANGED <<listeners, udp_sockets>>

\* The timeout that counts is the one set on the socket.
SocketReadTimesOut(h) ==
  /\ ReadingFrom(h) /\ net_call.elapsed
  /\ sockets' = [sockets EXCEPT ![h].read_timeout = net_call.previous]
  /\ NetReturns("timed_out")
  /\ UNCHANGED <<listeners, udp_sockets>>

\* net_write and net_write_bytes: write_all_with_timeout
net_write(h, units, timeout) ==
  /\ NetIdle /\ Connected(h)
  /\ IF timeout = "zero" THEN NetReturns("failed") /\ UNCHANGED tables
     ELSE /\ sockets' = [sockets EXCEPT ![h].write_timeout = @ \/ timeout = "some"]
          /\ NetBlocks([op |-> "write", on |-> h, left |-> units, timeout |-> timeout,
                        previous |-> sockets[h].write_timeout, elapsed |-> FALSE])
          /\ UNCHANGED <<listeners, udp_sockets>>

WritingTo(h) == net_call # NoSocket /\ net_call.op = "write" /\ net_call.on = h

\* A peer that has closed is still sent to, until its reset arrives.
CanSend(h) == sockets[h].peer # "reset" /\ "write" \notin sockets[h].shut

\* One write of write_all; the next one has the whole timeout again.
WriteSends(h) ==
  /\ WritingTo(h) /\ net_call.left > 0 /\ CanSend(h) /\ sockets[h].out < SendCap
  /\ sockets' = [sockets EXCEPT ![h].out = @ + 1]
  /\ NetBlocks([net_call EXCEPT !.left = @ - 1, !.elapsed = FALSE])
  /\ UNCHANGED <<listeners, udp_sockets>>

WriteReturns(h) ==
  /\ WritingTo(h)
  /\ sockets' = [sockets EXCEPT ![h].write_timeout = net_call.previous]
  /\ \/ net_call.left = 0 /\ NetReturns("done")
     \/ net_call.left > 0 /\ ~CanSend(h) /\ NetReturns("failed")
     \/ net_call.left > 0 /\ net_call.elapsed /\ NetReturns("timed_out")
  /\ UNCHANGED <<listeners, udp_sockets>>

net_udp_recv_from(h, max_bytes, timeout) ==
  /\ NetIdle /\ Bound(h)
  /\ IF timeout = "zero" THEN NetReturns("failed") /\ UNCHANGED tables
     ELSE /\ udp_sockets' = [udp_sockets EXCEPT ![h].read_timeout = @ \/ timeout = "some"]
          /\ NetBlocks([op |-> "recv", on |-> h, max |-> max_bytes, timeout |-> timeout,
                        previous |-> udp_sockets[h].read_timeout, elapsed |-> FALSE])
          /\ UNCHANGED <<listeners, sockets>>

ReceivingFrom(h) == net_call # NoSocket /\ net_call.op = "recv" /\ net_call.on = h

\* A datagram, cut to the size of the buffer, or the timeout.
RecvReturns(h) ==
  /\ ReceivingFrom(h)
  /\ \/ /\ udp_sockets[h].in # <<>>
        /\ udp_sockets' = [udp_sockets EXCEPT ![h] = [in |-> <<>>, read_timeout |-> net_call.previous]]
        /\ NetReturns(IF ValidText(SubSeq(udp_sockets[h].in, 1, Shorter(net_call.max, Len(udp_sockets[h].in))))
                      THEN "data" ELSE "invalid")
     \/ /\ net_call.elapsed
        /\ udp_sockets' = [udp_sockets EXCEPT ![h].read_timeout = net_call.previous]
        /\ NetReturns("timed_out")
  /\ UNCHANGED <<listeners, sockets>>

net_udp_send_to(h) == NetIdle /\ Bound(h) /\ (NetReturns("done") \/ NetReturns("failed")) /\ UNCHANGED tables

\* net_shutdown; the system refuses it once the connection is reset.
net_shutdown(h, how) ==
  /\ NetIdle /\ Connected(h)
  /\ IF sockets[h].peer # "reset"
     THEN sockets' = [sockets EXCEPT ![h].shut = @ \cup how] /\ NetReturns("done")
     ELSE UNCHANGED sockets /\ NetReturns("failed")
  /\ UNCHANGED <<listeners, udp_sockets>>

\* The first table that has the handle loses it.
net_close(h) ==
  /\ NetIdle
  /\ \/ /\ Listening(h)
        /\ listeners' = [listeners EXCEPT ![h] = NoSocket] /\ UNCHANGED <<sockets, udp_sockets>>
     \/ /\ ~Listening(h) /\ Connected(h)
        /\ sockets' = [sockets EXCEPT ![h] = NoSocket] /\ UNCHANGED <<listeners, udp_sockets>>
     \/ /\ ~Listening(h) /\ ~Connected(h) /\ Bound(h)
        /\ udp_sockets' = [udp_sockets EXCEPT ![h] = NoSocket] /\ UNCHANGED <<listeners, sockets>>
  /\ NetReturns("done")

\* net_poll of some handles, none of them unknown.
net_poll(polled, timeout) ==
  /\ NetIdle /\ \A h \in polled : Listening(h) \/ Connected(h) \/ Bound(h)
  /\ NetBlocks([op |-> "poll", on |-> polled, timeout |-> timeout, elapsed |-> timeout = "zero"])
  /\ UNCHANGED tables

\* What poll(2) looks for; a UDP socket can always be written to.
Ready(h) ==
  IF Listening(h) THEN listeners[h] > 0
  ELSE IF Connected(h)
       THEN sockets[h].in # <<>> \/ sockets[h].peer # "open" \/ sockets[h].shut # {} \/ sockets[h].out < SendCap
  ELSE Bound(h)

PollReturns ==
  /\ net_call # NoSocket /\ net_call.op = "poll"
  /\ net_call.elapsed \/ \E h \in net_call.on : Ready(h)
  /\ NetReturns("done")
  /\ UNCHANGED tables

-----------------------------------------------------------------------------
(* Peers and time *)

PeerConnects(h) == /\ Listening(h) /\ listeners[h] = 0
                   /\ listeners' = [listeners EXCEPT ![h] = 1]
                   /\ UNCHANGED <<sockets, udp_sockets, net_call, net_result>>

PeerActs(h) ==
  /\ Connected(h)
  /\ \/ /\ sockets[h].peer = "open" /\ sockets[h].in = <<>>
        /\ sockets' = [sockets EXCEPT ![h].in = Character]
     \/ /\ sockets[h].peer = "open" /\ sockets[h].out > 0
        /\ sockets' = [sockets EXCEPT ![h].out = @ - 1]
     \/ /\ sockets[h].peer = "open"
        /\ sockets' = [sockets EXCEPT ![h].peer = "closed"]
     \/ /\ sockets[h].peer # "reset"
        /\ sockets' = [sockets EXCEPT ![h].peer = "reset"]
  /\ UNCHANGED <<listeners, udp_sockets, net_call, net_result>>

DatagramArrives(h) == /\ Bound(h) /\ udp_sockets[h].in = <<>>
                      /\ udp_sockets' = [udp_sockets EXCEPT ![h].in = Character]
                      /\ UNCHANGED <<listeners, sockets, net_call, net_result>>

\* accept and poll keep a deadline; the others rely on what is set on the socket.
TimesOut ==
  CASE net_call.op \in {"accept", "poll"} -> net_call.timeout # "none"
    [] net_call.op = "connect" -> FALSE
    [] net_call.op = "read" -> sockets[net_call.on].read_timeout
    [] net_call.op = "write" -> sockets[net_call.on].write_timeout
    [] net_call.op = "recv" -> udp_sockets[net_call.on].read_timeout

TimePasses ==
  /\ net_call # NoSocket /\ ~net_call.elapsed /\ TimesOut
  /\ net_call' = [net_call EXCEPT !.elapsed = TRUE]
  /\ UNCHANGED <<tables, net_result>>

-----------------------------------------------------------------------------
NetStarts ==
  \/ net_listen \/ net_udp_bind \/ NetRefused
  \/ \E n \in 1..MaxAddresses, timeout \in Timeout : net_connect(n, timeout)
  \/ \E polled \in PollSets, timeout \in {"zero", "some"} : net_poll(polled, timeout)

NetCallsOn(h) ==
  \/ net_close(h) \/ net_udp_send_to(h)
  \/ \E how \in (SUBSET {"read", "write"}) \ {{}} : net_shutdown(h, how)
  \/ \E timeout \in Timeout :
       \/ net_accept(h, timeout)
       \/ \E n \in 1..2, text \in BOOLEAN : net_read(h, n, text, timeout)
       \/ \E n \in 1..2 : net_udp_recv_from(h, n, timeout)
       \/ \E n \in 1..MaxSend : net_write(h, n, timeout)

NetContinues ==
  \/ ConnectTries \/ PollReturns
  \/ \E h \in NetId : \/ AcceptTakes(h) \/ AcceptTimesOut(h) \/ ReadReturns(h) \/ SocketReadTimesOut(h)
                      \/ WriteSends(h) \/ WriteReturns(h) \/ RecvReturns(h)

Peers == \E h \in NetId : PeerConnects(h) \/ PeerActs(h) \/ DatagramArrives(h)

NetNext ==
  \/ NetStarts
  \/ \E h \in NetId : NetCallsOn(h)
  \/ NetContinues
  \/ Peers
  \/ TimePasses

\* A call that can go on does, and time passes; peers need do nothing.
NetFairness == WF_netVars(NetContinues) /\ WF_netVars(TimePasses)

NetSpec == NetInit /\ [][NetNext]_netVars /\ NetFairness

-----------------------------------------------------------------------------
(* Properties *)

\* A call that was given no timeout does not time out, whatever calls came before it
\* and however they ended: none leaves its own timeout on the socket
\* (read_with_timeout, write_all_with_timeout, net_udp_recv_from).
OnlyAskedTimeouts == net_result.is = "timed_out" => net_result.asked

TimedNetCall == net_call # NoSocket /\ net_call.timeout # "none"

\* A handle is in one table at most ("Fixed disjoint ranges", net.rs:18).
DisjointTables ==
  \A h \in NetId : Cardinality({t \in 1..3 : <<Listening(h), Connected(h), Bound(h)>>[t]}) <= 1
=============================================================================
