---------------------------- MODULE SysNetProofs -----------------------------
(***************************************************************************)
(* The timeouts of the net library, for every size of the tables and of    *)
(* the send buffers: a socket has a timeout set exactly while a call that  *)
(* asked for one waits on it.                                              *)
(***************************************************************************)
EXTENDS SysNet, WellFoundedInduction, SequenceTheorems, TLAPS

NetByte == {"lead", "tail"}
SocketType == [in : Seq(NetByte), out : Int, peer : {"open", "closed", "reset"},
               shut : SUBSET {"read", "write"}, read_timeout : BOOLEAN, write_timeout : BOOLEAN]
UdpType == [in : Seq(NetByte), read_timeout : BOOLEAN]

\* A socket has a timeout set exactly while a call that asked for one waits on it.
SocketInv ==
  /\ sockets \in [SocketId -> SocketType \cup {NoSocket}]
  /\ \A h \in SocketId : ReadingFrom(h) \/ WritingTo(h) \/ Connected(h) =>
       /\ sockets[h] \in SocketType
       /\ sockets[h].read_timeout <=> ReadingFrom(h) /\ net_call.timeout = "some"
       /\ sockets[h].write_timeout <=> WritingTo(h) /\ net_call.timeout = "some"
UdpInv ==
  /\ udp_sockets \in [UdpId -> UdpType \cup {NoSocket}]
  /\ \A h \in UdpId : ReceivingFrom(h) \/ Bound(h) =>
       /\ udp_sockets[h] \in UdpType
       /\ udp_sockets[h].read_timeout <=> ReceivingFrom(h) /\ net_call.timeout = "some"
CallInv ==
  net_call # NoSocket =>
    /\ net_call \in NetCallType
    /\ net_call.elapsed => net_call.timeout # "none"
    /\ net_call.op \in {"read", "write", "recv"} => ~net_call.previous

NetInv == SocketInv /\ UdpInv /\ CallInv /\ OnlyAskedTimeouts

\* A step that leaves the sockets and the call in progress alone.
LEMMA SocketsAlone ==
  ASSUME SocketInv, UNCHANGED <<sockets, net_call>>
  PROVE  SocketInv'
  BY Zenon DEF SocketInv, ReadingFrom, WritingTo, Connected
LEMMA UdpAlone ==
  ASSUME UdpInv, UNCHANGED <<udp_sockets, net_call>>
  PROVE  UdpInv'
  BY Zenon DEF UdpInv, ReceivingFrom, Bound

\* A call that neither reads nor writes, on sockets without a timeout.
LEMMA SocketsRest ==
  ASSUME SocketInv, UNCHANGED sockets,
         net_call # NoSocket => net_call.op \notin {"read", "write"},
         net_call' # NoSocket => net_call'.op \notin {"read", "write"}
  PROVE  SocketInv'
  BY Zenon DEF SocketInv, ReadingFrom, WritingTo, Connected
LEMMA UdpRest ==
  ASSUME UdpInv, UNCHANGED udp_sockets,
         net_call # NoSocket => net_call.op # "recv",
         net_call' # NoSocket => net_call'.op # "recv"
  PROVE  UdpInv'
  BY Zenon DEF UdpInv, ReceivingFrom, Bound

\* A step that gives socket h another record with the same timeouts, and leaves the call.
LEMMA SocketChanged ==
  ASSUME SocketInv, NEW h \in SocketId, NEW s \in SocketType, sockets' = [sockets EXCEPT ![h] = s],
         s.read_timeout = sockets[h].read_timeout, s.write_timeout = sockets[h].write_timeout,
         Connected(h), UNCHANGED net_call
  PROVE  SocketInv'
<1>1. sockets' \in [SocketId -> SocketType \cup {NoSocket}]
  BY Zenon DEF SocketInv
<1>2. \A g \in SocketId : sockets'[g] = IF g = h THEN s ELSE sockets[g]
  BY Zenon DEF SocketInv
<1> QED BY <1>1, <1>2, Zenon DEF SocketInv, ReadingFrom, WritingTo, Connected

\* A socket that is new, has returned to rest or is closed, and no call on any.
LEMMA SocketSettled ==
  ASSUME SocketInv, NEW h \in SocketId, NEW s \in SocketType \cup {NoSocket},
         sockets' = [sockets EXCEPT ![h] = s],
         s # NoSocket => ~s.read_timeout /\ ~s.write_timeout,
         net_call # NoSocket /\ net_call.op \in {"read", "write"} => net_call.on = h,
         net_call' = NoSocket
  PROVE  SocketInv'
<1>1. sockets' \in [SocketId -> SocketType \cup {NoSocket}]
  BY Zenon DEF SocketInv
<1>2. \A g \in SocketId : sockets'[g] = IF g = h THEN s ELSE sockets[g]
  BY Zenon DEF SocketInv
<1> QED BY <1>1, <1>2 DEF SocketInv, ReadingFrom, WritingTo, Connected

LEMMA CallReturns ==
  ASSUME NEW is, NetReturns(is),
         is = "timed_out" => net_call # NoSocket /\ net_call.timeout # "none"
  PROVE  CallInv' /\ OnlyAskedTimeouts' /\ net_call' = NoSocket
  BY Zenon DEF CallInv, OnlyAskedTimeouts, NetReturns

LEMMA CallBlocks ==
  ASSUME NEW c \in NetCallType, c.elapsed => c.timeout # "none", NetBlocks(c),
         c.op \in {"read", "write", "recv"} => ~c.previous
  PROVE  CallInv' /\ OnlyAskedTimeouts' /\ net_call' = c
  BY Zenon DEF CallInv, OnlyAskedTimeouts, NetBlocks

\* The id a table gives is one of its own.
LEMMA FreeIdGiven ==
  ASSUME NEW table, NEW S \in SUBSET Nat, DOMAIN table = S, FreeIds(table) # {}
  PROVE  allocate_net_handle(table) \in S
<1>1. FreeIds(table) \in SUBSET Nat
  BY Zenon DEF FreeIds
<1>2. \E h \in FreeIds(table) : \A g \in FreeIds(table) : h <= g
  <2>1. PICK h \in FreeIds(table) : \A g \in FreeIds(table) : ~(<<g, h>> \in OpToRel(<, Nat))
    BY <1>1, NatLessThanWellFounded, WFMin, Zenon
  <2>2. \A g \in FreeIds(table) : ~(g < h)
    BY <1>1, <2>1, Zenon DEF OpToRel
  <2> QED BY <1>1, <2>2
<1>3. allocate_net_handle(table) \in FreeIds(table)
  BY <1>2, Zenon DEF allocate_net_handle
<1> QED BY <1>3, Zenon DEF FreeIds

LEMMA UdpSettled ==
  ASSUME UdpInv, NEW h \in UdpId, NEW s \in UdpType \cup {NoSocket},
         udp_sockets' = [udp_sockets EXCEPT ![h] = s],
         s # NoSocket => ~s.read_timeout,
         net_call # NoSocket /\ net_call.op = "recv" => net_call.on = h,
         net_call' = NoSocket
  PROVE  UdpInv'
<1>1. udp_sockets' \in [UdpId -> UdpType \cup {NoSocket}]
  BY Zenon DEF UdpInv
<1>2. \A g \in UdpId : udp_sockets'[g] = IF g = h THEN s ELSE udp_sockets[g]
  BY Zenon DEF UdpInv
<1> QED BY <1>1, <1>2, Zenon DEF UdpInv, ReceivingFrom, Bound

LEMMA NetIds == ListenerId \in SUBSET Nat /\ SocketId \in SUBSET Nat /\ UdpId \in SUBSET Nat
  BY NetAssumption DEF ListenerId, SocketId, UdpId

\* store_socket ends an accept or a connect.
LEMMA SocketStored ==
  ASSUME SocketInv, store_socket, net_call # NoSocket => net_call.op \notin {"read", "write"}
  PROVE  SocketInv' /\ CallInv' /\ OnlyAskedTimeouts' /\ net_call' = NoSocket
<1>1. PICK is \in {"exhausted", "handle"} : NetReturns(is)
  BY Zenon DEF store_socket
<1>2. CallInv' /\ OnlyAskedTimeouts' /\ net_call' = NoSocket
  BY <1>1, CallReturns, Zenon
<1>3. CASE FreeIds(sockets) = {}
  BY <1>2, <1>3, SocketsRest, Zenon DEF store_socket
<1>4. CASE FreeIds(sockets) # {}
  <2>1. DOMAIN sockets = SocketId
    BY Zenon DEF SocketInv
  <2>2. allocate_net_handle(sockets) \in SocketId
    BY <1>4, <2>1, NetIds, FreeIdGiven, Zenon
  <2>3. NewSocket \in SocketType /\ ~NewSocket.read_timeout /\ ~NewSocket.write_timeout
    BY DEF NewSocket, SocketType
  <2>4. sockets' = [sockets EXCEPT ![allocate_net_handle(sockets)] = NewSocket]
    BY <1>4, Zenon DEF store_socket
  <2> QED BY <1>2, <2>2, <2>3, <2>4, SocketSettled, Zenon
<1> QED BY <1>3, <1>4, Zenon

LEMMA StartsStep == ASSUME NetInv, NetStarts PROVE NetInv'
<1>i. SocketInv /\ UdpInv
  BY Zenon DEF NetInv
<1>1. CASE net_listen \/ NetRefused
  <2>1. PICK is \in {"failed", "exhausted", "handle"} : NetReturns(is)
    BY <1>1, Zenon DEF net_listen, NetRefused
  <2>2. CallInv' /\ OnlyAskedTimeouts' /\ net_call' = NoSocket
    BY <2>1, CallReturns, Zenon
  <2>3. net_call = NoSocket /\ UNCHANGED <<sockets, udp_sockets>>
    BY <1>1, Zenon DEF net_listen, NetRefused, NetIdle, tables
  <2> QED BY <1>i, <2>2, <2>3, SocketsRest, UdpRest, Zenon DEF NetInv
<1>2. CASE net_udp_bind
  <2>1. PICK is \in {"failed", "exhausted", "handle"} : NetReturns(is)
    BY <1>2, Zenon DEF net_udp_bind
  <2>2. CallInv' /\ OnlyAskedTimeouts' /\ net_call' = NoSocket /\ net_call = NoSocket
    BY <1>2, <2>1, CallReturns, Zenon DEF net_udp_bind, NetIdle
  <2>3. SocketInv'
    BY <1>2, <1>i, <2>2, SocketsRest DEF net_udp_bind
  <2>4. CASE UNCHANGED udp_sockets
    BY <1>i, <2>2, <2>3, <2>4, UdpRest, Zenon DEF NetInv
  <2>5. CASE ~UNCHANGED udp_sockets
    <3>1. /\ FreeIds(udp_sockets) # {}
          /\ udp_sockets' = [udp_sockets EXCEPT ![allocate_net_handle(udp_sockets)] = NewUdp]
      BY <1>2, <2>5, Zenon DEF net_udp_bind
    <3>2. DOMAIN udp_sockets = UdpId
      BY <1>i, Zenon DEF UdpInv
    <3>3. allocate_net_handle(udp_sockets) \in UdpId
      BY <3>1, <3>2, NetIds, FreeIdGiven, Zenon
    <3>4. NewUdp \in UdpType /\ ~NewUdp.read_timeout
      BY DEF NewUdp, UdpType
    <3>5. UdpInv'
      BY <1>i, <2>2, <3>1, <3>3, <3>4, UdpSettled, Zenon
    <3> QED BY <2>2, <2>3, <3>5, Zenon DEF NetInv
  <2> QED BY <2>4, <2>5, Zenon
<1>3. ASSUME NEW c \in NetCallType, c.op \in {"connect", "poll"}, c.elapsed => c.timeout # "none",
             NetIdle, NetReturns("failed") \/ NetBlocks(c), UNCHANGED tables
      PROVE  NetInv'
  <2>1. CallInv' /\ OnlyAskedTimeouts' /\ net_call' \in {NoSocket, c}
    BY <1>3, CallReturns, CallBlocks, Zenon
  <2> QED BY <1>i, <1>3, <2>1, SocketsRest, UdpRest, Zenon DEF NetInv, NetIdle, tables
<1>4. ASSUME NEW n \in 1..MaxAddresses, NEW timeout \in Timeout, net_connect(n, timeout) PROVE NetInv'
  <2> DEFINE c == [op |-> "connect", left |-> n, timeout |-> timeout, elapsed |-> FALSE]
  <2>1. c \in NetCallType /\ c.op = "connect" /\ ~c.elapsed
    BY NetAssumption DEF NetCallType
  <2>2. NetIdle /\ (NetReturns("failed") \/ NetBlocks(c)) /\ UNCHANGED tables
    BY <1>4, Zenon DEF net_connect
  <2> HIDE DEF c
  <2> QED BY <1>3, <2>1, <2>2, Zenon
<1>5. ASSUME NEW polled \in PollSets, NEW timeout \in {"zero", "some"}, net_poll(polled, timeout) PROVE NetInv'
  <2> DEFINE c == [op |-> "poll", on |-> polled, timeout |-> timeout, elapsed |-> timeout = "zero"]
  <2>1. c \in NetCallType /\ c.op = "poll" /\ c.timeout # "none"
    BY Zenon DEF NetCallType, Timeout
  <2>2. NetIdle /\ NetBlocks(c) /\ UNCHANGED tables
    BY <1>5, Zenon DEF net_poll
  <2> HIDE DEF c
  <2> QED BY <1>3, <2>1, <2>2, Zenon
<1> QED BY <1>1, <1>2, <1>4, <1>5, Zenon DEF NetStarts

\* A call begins to wait on a socket, with its timeout set there.
LEMMA SocketWaits ==
  ASSUME SocketInv, net_call = NoSocket, NEW h \in SocketId, Connected(h),
         NEW c \in NetCallType, net_call' = c, c.on = h,
         \/ /\ c.op = "read"
            /\ sockets' = [sockets EXCEPT ![h].read_timeout = @ \/ c.timeout = "some"]
         \/ /\ c.op = "write"
            /\ sockets' = [sockets EXCEPT ![h].write_timeout = @ \/ c.timeout = "some"]
  PROVE  SocketInv'
<1>1. /\ sockets[h] \in SocketType /\ ~sockets[h].read_timeout /\ ~sockets[h].write_timeout
      /\ sockets \in [SocketId -> SocketType \cup {NoSocket}]
  BY Zenon DEF SocketInv, ReadingFrom, WritingTo
<1>2. PICK s \in SocketType : /\ sockets' = [sockets EXCEPT ![h] = s]
                              /\ s.read_timeout <=> c.op = "read" /\ c.timeout = "some"
                              /\ s.write_timeout <=> c.op = "write" /\ c.timeout = "some"
  <2>1. CASE c.op = "read"
    <3>1. [sockets[h] EXCEPT !.read_timeout = @ \/ c.timeout = "some"] \in SocketType
      BY <1>1, Zenon DEF SocketType
    <3> QED BY <1>1, <2>1, <3>1, Zenon DEF SocketType
  <2>2. CASE c.op = "write"
    <3>1. [sockets[h] EXCEPT !.write_timeout = @ \/ c.timeout = "some"] \in SocketType
      BY <1>1, Zenon DEF SocketType
    <3> QED BY <1>1, <2>2, <3>1, Zenon DEF SocketType
  <2> QED BY <2>1, <2>2, Zenon
<1>3. sockets' \in [SocketId -> SocketType \cup {NoSocket}]
  BY <1>1, <1>2, Zenon
<1>4. \A g \in SocketId : sockets'[g] = IF g = h THEN s ELSE sockets[g]
  BY <1>1, <1>2, Zenon
<1> QED BY <1>2, <1>3, <1>4, NoSocketAssumption, Zenon DEF SocketInv, ReadingFrom, WritingTo, Connected

LEMMA UdpWaits ==
  ASSUME UdpInv, net_call = NoSocket, NEW h \in UdpId, Bound(h),
         NEW c \in NetCallType, net_call' = c, c.on = h, c.op = "recv",
         udp_sockets' = [udp_sockets EXCEPT ![h].read_timeout = @ \/ c.timeout = "some"]
  PROVE  UdpInv'
<1>1. /\ udp_sockets[h] \in UdpType /\ ~udp_sockets[h].read_timeout
      /\ udp_sockets \in [UdpId -> UdpType \cup {NoSocket}]
  BY Zenon DEF UdpInv, ReceivingFrom
<1>2. PICK s \in UdpType : /\ udp_sockets' = [udp_sockets EXCEPT ![h] = s]
                           /\ s.read_timeout <=> c.timeout = "some"
  <2>1. [udp_sockets[h] EXCEPT !.read_timeout = @ \/ c.timeout = "some"] \in UdpType
    BY <1>1, Zenon DEF UdpType
  <2> QED BY <1>1, <2>1, Zenon DEF UdpType
<1>3. udp_sockets' \in [UdpId -> UdpType \cup {NoSocket}]
  BY <1>1, <1>2
<1>4. \A g \in UdpId : udp_sockets'[g] = IF g = h THEN s ELSE udp_sockets[g]
  BY <1>1, <1>2, Zenon
<1> QED BY <1>2, <1>3, <1>4, NoSocketAssumption, ZenonT(60) DEF UdpInv, ReceivingFrom, Bound

\* A call made on an open handle: it returns at once, or waits.
LEMMA CallsOnStep == ASSUME NetInv, NEW h \in NetId, NetCallsOn(h) PROVE NetInv'
<1>i. SocketInv /\ UdpInv /\ CallInv
  BY Zenon DEF NetInv
<1>1. ASSUME NetIdle, NEW is, NetReturns(is), is # "timed_out"
      PROVE  CallInv' /\ OnlyAskedTimeouts' /\ net_call' = NoSocket /\ net_call = NoSocket
  BY <1>1, CallReturns, Zenon DEF NetIdle
<1>2. ASSUME NetIdle, NEW is, NetReturns(is), is # "timed_out", UNCHANGED <<sockets, udp_sockets>>
      PROVE  NetInv'
  BY <1>i, <1>1, <1>2, SocketsRest, UdpRest, Zenon DEF NetInv
<1>3. CASE net_close(h)
  <2>1. CallInv' /\ OnlyAskedTimeouts' /\ net_call' = NoSocket /\ net_call = NoSocket
    BY <1>1, <1>3, Zenon DEF net_close
  <2>2. SocketInv'
    <3>1. CASE UNCHANGED sockets
      BY <1>i, <2>1, <3>1, SocketsRest, Zenon
    <3>2. CASE h \in SocketId /\ sockets' = [sockets EXCEPT ![h] = NoSocket]
      BY <1>i, <2>1, <3>2, SocketSettled, Zenon
    <3> QED BY <1>3, <3>1, <3>2, Zenon DEF net_close, Connected
  <2>3. UdpInv'
    <3>1. CASE UNCHANGED udp_sockets
      BY <1>i, <2>1, <3>1, UdpRest, Zenon
    <3>2. CASE h \in UdpId /\ udp_sockets' = [udp_sockets EXCEPT ![h] = NoSocket]
      BY <1>i, <2>1, <3>2, UdpSettled, Zenon
    <3> QED BY <1>3, <3>1, <3>2, Zenon DEF net_close, Bound
  <2> QED BY <2>1, <2>2, <2>3, Zenon DEF NetInv
<1>4. CASE net_udp_send_to(h)
  BY <1>2, <1>4, Zenon DEF net_udp_send_to, tables
<1>5. ASSUME NEW how \in (SUBSET {"read", "write"}) \ {{}}, net_shutdown(h, how) PROVE NetInv'
  <2>1. CallInv' /\ OnlyAskedTimeouts' /\ net_call' = NoSocket /\ net_call = NoSocket
    BY <1>1, <1>5, Zenon DEF net_shutdown
  <2>2. UdpInv'
    BY <1>i, <1>5, <2>1, UdpRest, Zenon DEF net_shutdown
  <2>3. CASE UNCHANGED sockets
    BY <1>i, <2>1, <2>2, <2>3, SocketsRest, Zenon DEF NetInv
  <2>4. CASE sockets' = [sockets EXCEPT ![h].shut = @ \cup how]
    <3>1. /\ h \in SocketId /\ sockets[h] \in SocketType
          /\ ~sockets[h].read_timeout /\ ~sockets[h].write_timeout
      BY <1>i, <1>5, <2>1, Zenon DEF net_shutdown, Connected, SocketInv, ReadingFrom, WritingTo
    <3> DEFINE s == [sockets[h] EXCEPT !.shut = @ \cup how]
    <3>2. s \in SocketType /\ ~s.read_timeout /\ ~s.write_timeout
      BY <3>1, Zenon DEF SocketType
    <3>3. sockets' = [sockets EXCEPT ![h] = s]
      BY <2>4, Zenon
    <3> HIDE DEF s
    <3>4. SocketInv'
      BY <1>i, <2>1, <3>1, <3>2, <3>3, SocketSettled, Zenon
    <3> QED BY <2>1, <2>2, <3>4, Zenon DEF NetInv
  <2> QED BY <1>5, <2>3, <2>4, Zenon DEF net_shutdown
<1>6. ASSUME NEW timeout \in Timeout, net_accept(h, timeout) PROVE NetInv'
  <2> DEFINE c == [op |-> "accept", on |-> h, timeout |-> timeout, elapsed |-> timeout = "zero"]
  <2>1. c \in NetCallType /\ c.op = "accept" /\ (c.elapsed => c.timeout # "none")
    BY <1>6, Zenon DEF NetCallType, Timeout, net_accept, Listening
  <2>2. NetIdle /\ NetBlocks(c) /\ UNCHANGED <<sockets, udp_sockets>>
    BY <1>6, Zenon DEF net_accept, tables
  <2> HIDE DEF c
  <2>3. CallInv' /\ OnlyAskedTimeouts' /\ net_call' = c
    BY <2>1, <2>2, CallBlocks, Zenon
  <2> QED BY <1>i, <2>1, <2>2, <2>3, SocketsRest, UdpRest, Zenon DEF NetInv, NetIdle
<1>7. ASSUME NEW n \in 1..2, NEW text \in BOOLEAN, NEW timeout \in Timeout, net_read(h, n, text, timeout)
      PROVE  NetInv'
  <2>1. CASE timeout = "zero"
    BY <1>2, <1>7, <2>1, Zenon DEF net_read, tables
  <2>2. CASE timeout # "zero"
    <3>1. NetIdle /\ h \in SocketId /\ Connected(h) /\ ~sockets[h].read_timeout /\ sockets[h] \in SocketType
      BY <1>i, <1>7, Zenon DEF net_read, Connected, NetIdle, SocketInv, ReadingFrom
    <3> DEFINE c == [op |-> "read", on |-> h, max |-> n, text |-> text, timeout |-> timeout,
                     previous |-> sockets[h].read_timeout, elapsed |-> FALSE]
    <3>2. c \in NetCallType /\ c.op = "read" /\ c.on = h /\ c.timeout = timeout /\ ~c.previous /\ ~c.elapsed
      <4>1. sockets[h].read_timeout \in BOOLEAN
        BY <3>1, Zenon DEF SocketType
      <4>2. c \in [op : {"read"}, on : SocketId, max : Nat, text : BOOLEAN, timeout : Timeout,
                       previous : BOOLEAN, elapsed : BOOLEAN]
        BY <3>1, <4>1
      <4>3. c.op = "read" /\ c.on = h /\ c.timeout = timeout /\ ~c.previous /\ ~c.elapsed
        BY <3>1, Zenon
      <4> HIDE DEF c
      <4> QED BY <4>2, <4>3, Zenon DEF NetCallType
    <3>3. /\ NetBlocks(c) /\ UNCHANGED udp_sockets
          /\ sockets' = [sockets EXCEPT ![h].read_timeout = @ \/ timeout = "some"]
      BY <1>7, <2>2, Zenon DEF net_read
    <3> HIDE DEF c
    <3>4. CallInv' /\ OnlyAskedTimeouts' /\ net_call' = c
      BY <3>2, <3>3, CallBlocks, Zenon
    <3>5. SocketInv'
      BY <1>i, <3>1, <3>2, <3>3, <3>4, SocketWaits, Zenon DEF NetIdle
    <3> QED BY <1>i, <3>1, <3>2, <3>3, <3>4, <3>5, UdpRest, Zenon DEF NetInv, NetIdle
  <2> QED BY <2>1, <2>2, Zenon
<1>8. ASSUME NEW n \in 1..MaxSend, NEW timeout \in Timeout, net_write(h, n, timeout) PROVE NetInv'
  <2>1. CASE timeout = "zero"
    BY <1>2, <1>8, <2>1, Zenon DEF net_write, tables
  <2>2. CASE timeout # "zero"
    <3>1. NetIdle /\ h \in SocketId /\ Connected(h) /\ ~sockets[h].write_timeout /\ sockets[h] \in SocketType
      BY <1>i, <1>8, Zenon DEF net_write, Connected, NetIdle, SocketInv, WritingTo
    <3> DEFINE c == [op |-> "write", on |-> h, left |-> n, timeout |-> timeout,
                     previous |-> sockets[h].write_timeout, elapsed |-> FALSE]
    <3>2. c \in NetCallType /\ c.op = "write" /\ c.on = h /\ c.timeout = timeout /\ ~c.previous /\ ~c.elapsed
      <4>1. sockets[h].write_timeout \in BOOLEAN
        BY <3>1, Zenon DEF SocketType
      <4>2. c \in [op : {"write"}, on : SocketId, left : Int, timeout : Timeout,
                       previous : BOOLEAN, elapsed : BOOLEAN]
        BY <3>1, NetAssumption, <4>1
      <4>3. c.op = "write" /\ c.on = h /\ c.timeout = timeout /\ ~c.previous /\ ~c.elapsed
        BY <3>1, Zenon
      <4> HIDE DEF c
      <4> QED BY <4>2, <4>3, Zenon DEF NetCallType
    <3>3. /\ NetBlocks(c) /\ UNCHANGED udp_sockets
          /\ sockets' = [sockets EXCEPT ![h].write_timeout = @ \/ timeout = "some"]
      BY <1>8, <2>2, Zenon DEF net_write
    <3> HIDE DEF c
    <3>4. CallInv' /\ OnlyAskedTimeouts' /\ net_call' = c
      BY <3>2, <3>3, CallBlocks, Zenon
    <3>5. SocketInv'
      BY <1>i, <3>1, <3>2, <3>3, <3>4, SocketWaits, Zenon DEF NetIdle
    <3> QED BY <1>i, <3>1, <3>2, <3>3, <3>4, <3>5, UdpRest, Zenon DEF NetInv, NetIdle
  <2> QED BY <2>1, <2>2, Zenon
<1>9. ASSUME NEW n \in 1..2, NEW timeout \in Timeout, net_udp_recv_from(h, n, timeout) PROVE NetInv'
  <2>1. CASE timeout = "zero"
    BY <1>2, <1>9, <2>1, Zenon DEF net_udp_recv_from, tables
  <2>2. CASE timeout # "zero"
    <3>1. NetIdle /\ h \in UdpId /\ Bound(h) /\ ~udp_sockets[h].read_timeout /\ udp_sockets[h] \in UdpType
      BY <1>i, <1>9, Zenon DEF net_udp_recv_from, Bound, NetIdle, UdpInv, ReceivingFrom
    <3> DEFINE c == [op |-> "recv", on |-> h, max |-> n, timeout |-> timeout,
                     previous |-> udp_sockets[h].read_timeout, elapsed |-> FALSE]
    <3>2. c \in NetCallType /\ c.op = "recv" /\ c.on = h /\ c.timeout = timeout /\ ~c.previous /\ ~c.elapsed
      <4>1. udp_sockets[h].read_timeout \in BOOLEAN
        BY <3>1, Zenon DEF UdpType
      <4>2. c \in [op : {"recv"}, on : UdpId, max : Nat, timeout : Timeout, previous : BOOLEAN,
                       elapsed : BOOLEAN]
        BY <3>1, <4>1
      <4>3. c.op = "recv" /\ c.on = h /\ c.timeout = timeout /\ ~c.previous /\ ~c.elapsed
        BY <3>1, Zenon
      <4> HIDE DEF c
      <4> QED BY <4>2, <4>3, Zenon DEF NetCallType
    <3>3. /\ NetBlocks(c) /\ UNCHANGED sockets
          /\ udp_sockets' = [udp_sockets EXCEPT ![h].read_timeout = @ \/ timeout = "some"]
      BY <1>9, <2>2, Zenon DEF net_udp_recv_from
    <3> HIDE DEF c
    <3>4. CallInv' /\ OnlyAskedTimeouts' /\ net_call' = c
      BY <3>2, <3>3, CallBlocks, Zenon
    <3>5. UdpInv'
      BY <1>i, <3>1, <3>2, <3>3, <3>4, UdpWaits, Zenon DEF NetIdle
    <3> QED BY <1>i, <3>1, <3>2, <3>3, <3>4, <3>5, SocketsRest, Zenon DEF NetInv, NetIdle
  <2> QED BY <2>1, <2>2, Zenon
<1> QED BY <1>3, <1>4, <1>5, <1>6, <1>7, <1>8, <1>9, Zenon DEF NetCallsOn

\* What is known of a call in progress.
LEMMA CallFacts ==
  ASSUME CallInv, net_call # NoSocket
  PROVE  /\ net_call.op \in {"read", "write"} => net_call.on \in SocketId /\ ~net_call.previous
         /\ net_call.op = "recv" => net_call.on \in UdpId /\ ~net_call.previous
         /\ net_call.elapsed \in BOOLEAN /\ (net_call.elapsed => net_call.timeout # "none")
         /\ net_call.op \in {"accept", "connect", "read", "write", "recv", "poll"}
  BY Zenon DEF CallInv, NetCallType

\* A call without a socket of its own goes on.
LEMMA OtherCallStep ==
  ASSUME NetInv,
         \/ ConnectTries \/ PollReturns
         \/ \E h \in NetId : AcceptTakes(h) \/ AcceptTimesOut(h)
  PROVE  NetInv'
<1>i. SocketInv /\ UdpInv /\ CallInv
  BY Zenon DEF NetInv
<1>1. net_call # NoSocket /\ net_call.op \in {"connect", "poll", "accept"} /\ UNCHANGED udp_sockets
  BY Zenon DEF ConnectTries, PollReturns, AcceptTakes, AcceptTimesOut, Accepting, tables
<1>2. CASE store_socket
  <2>1. SocketInv' /\ CallInv' /\ OnlyAskedTimeouts' /\ net_call' = NoSocket
    BY <1>i, <1>1, <1>2, SocketStored, Zenon
  <2> QED BY <1>i, <1>1, <2>1, UdpRest, Zenon DEF NetInv
<1>3. ASSUME NEW is, NetReturns(is), is = "timed_out" => net_call.elapsed, UNCHANGED sockets PROVE NetInv'
  <2>1. CallInv' /\ OnlyAskedTimeouts' /\ net_call' = NoSocket
    BY <1>i, <1>1, <1>3, CallFacts, CallReturns, Zenon
  <2> QED BY <1>i, <1>1, <1>3, <2>1, SocketsRest, UdpRest DEF NetInv
<1>4. ASSUME net_call.op = "connect", NetBlocks([net_call EXCEPT !.left = @ - 1]), UNCHANGED sockets
      PROVE  NetInv'
  <2> DEFINE c == [net_call EXCEPT !.left = @ - 1]
  <2>1. net_call \in [op : {"connect"}, left : Int, timeout : Timeout, elapsed : BOOLEAN]
    BY <1>i, <1>1, <1>4, Zenon DEF CallInv, NetCallType
  <2>2. /\ c \in NetCallType /\ c.op = "connect" /\ c.elapsed = net_call.elapsed
        /\ c.timeout = net_call.timeout
    BY <2>1 DEF NetCallType
  <2>3. c.elapsed => c.timeout # "none"
    BY <1>i, <1>1, <2>2, CallFacts, Zenon
  <2>4. NetBlocks(c)
    BY <1>4, Zenon
  <2> HIDE DEF c
  <2>5. CallInv' /\ OnlyAskedTimeouts' /\ net_call' = c
    BY <2>2, <2>3, <2>4, CallBlocks, Zenon
  <2> QED BY <1>i, <1>1, <1>4, <2>2, <2>5, SocketsRest, UdpRest, Zenon DEF NetInv
<1>5. ConnectTries => NetInv'
  BY <1>2, <1>3, <1>4, Zenon DEF ConnectTries
<1>6. PollReturns => NetInv'
  BY <1>3, Zenon DEF PollReturns, tables
<1>7. ASSUME NEW h \in NetId, AcceptTakes(h) PROVE NetInv'
  BY <1>2, <1>3, <1>7, Zenon DEF AcceptTakes
<1>8. ASSUME NEW h \in NetId, AcceptTimesOut(h) PROVE NetInv'
  BY <1>3, <1>8, Zenon DEF AcceptTimesOut, tables
<1> QED BY <1>5, <1>6, <1>7, <1>8, Zenon

\* A read returns or times out: the timeout that was there before is restored.
LEMMA ReadStep ==
  ASSUME NetInv, NEW h \in NetId, ReadReturns(h) \/ SocketReadTimesOut(h)
  PROVE  NetInv'
<1>i. SocketInv /\ UdpInv /\ CallInv
  BY Zenon DEF NetInv
<1>1. net_call # NoSocket /\ net_call.op = "read" /\ net_call.on = h /\ UNCHANGED udp_sockets /\ ReadingFrom(h)
  BY Zenon DEF ReadReturns, SocketReadTimesOut, ReadingFrom
<1>2. h \in SocketId /\ net_call.previous = FALSE /\ net_call \in NetCallType
  <2>1. net_call.previous \in BOOLEAN
    BY <1>i, <1>1, Zenon DEF CallInv, NetCallType
  <2> QED BY <1>i, <1>1, <2>1, CallFacts, Zenon DEF CallInv
<1>3. PICK is : NetReturns(is) /\ (is = "timed_out" => net_call.elapsed)
  BY DEF ReadReturns, SocketReadTimesOut
<1>4. CallInv' /\ OnlyAskedTimeouts' /\ net_call' = NoSocket
  BY <1>i, <1>1, <1>3, CallFacts, CallReturns, Zenon
<1>5. /\ sockets[h] \in SocketType /\ ~sockets[h].write_timeout
      /\ sockets \in [SocketId -> SocketType \cup {NoSocket}]
  BY <1>i, <1>1, <1>2, Zenon DEF SocketInv, WritingTo
<1>6. PICK s \in SocketType : /\ sockets' = [sockets EXCEPT ![h] = s]
                              /\ ~s.read_timeout /\ ~s.write_timeout
  <2>1. CASE SocketReadTimesOut(h)
    <3> DEFINE r == [sockets[h] EXCEPT !.read_timeout = FALSE]
    <3>1. r \in SocketType /\ ~r.read_timeout /\ ~r.write_timeout
      BY <1>5, Zenon DEF SocketType
    <3>2. sockets' = [sockets EXCEPT ![h] = r]
      BY <1>2, <2>1, Zenon DEF SocketReadTimesOut
    <3> QED BY <3>1, <3>2, Zenon
  <2>2. CASE ReadReturns(h)
    <3> DEFINE n == Shorter(net_call.max, Len(sockets[h].in))
               rest == SubSeq(sockets[h].in, n + 1, Len(sockets[h].in))
               r == [sockets[h] EXCEPT !.read_timeout = FALSE, !.in = rest]
    <3>1. sockets[h].in \in Seq(NetByte) /\ net_call.max \in Nat
      BY <1>1, <1>2, <1>5, Zenon DEF SocketType, NetCallType
    <3>2. rest \in Seq(NetByte)
      <4>1. n \in 0..Len(sockets[h].in) /\ Len(sockets[h].in) \in Nat
        BY <3>1 DEF Shorter
      <4> HIDE DEF n
      <4>2. n + 1 \in 1..(Len(sockets[h].in) + 1) /\ Len(sockets[h].in) \in n..Len(sockets[h].in)
        BY <4>1
      <4> QED BY <3>1, <4>1, <4>2, SubSeqProperties
    <3>3. sockets' = [sockets EXCEPT ![h].read_timeout = net_call.previous, ![h].in = SubSeq(@, n + 1, Len(@))]
      BY <2>2, Zenon DEF ReadReturns
    <3> HIDE DEF n
    <3>4. sockets' = [sockets EXCEPT ![h].read_timeout = FALSE, ![h].in = rest]
      BY <1>2, <1>5, <3>3, Zenon DEF SocketType
    <3>5. sockets' = [sockets EXCEPT ![h] = r]
      BY <1>2, <1>5, <3>4, Zenon
    <3> HIDE DEF rest
    <3>6. r \in SocketType /\ ~r.read_timeout /\ ~r.write_timeout
      BY <1>5, <3>2, Zenon DEF SocketType
    <3> QED BY <3>5, <3>6, Zenon
  <2> QED BY <2>1, <2>2, Zenon
<1>7. SocketInv'
  BY <1>i, <1>1, <1>2, <1>4, <1>6, SocketSettled, Zenon
<1> QED BY <1>i, <1>1, <1>4, <1>7, UdpRest, Zenon DEF NetInv

LEMMA WriteReturnsStep ==
  ASSUME NetInv, NEW h \in NetId, WriteReturns(h)
  PROVE  NetInv'
<1>i. SocketInv /\ UdpInv /\ CallInv
  BY DEF NetInv
<1>1. net_call # NoSocket /\ net_call.op = "write" /\ net_call.on = h /\ UNCHANGED udp_sockets /\ WritingTo(h)
  BY Zenon DEF WriteReturns, WritingTo
<1>2. h \in SocketId /\ net_call.previous = FALSE
  <2>1. net_call.previous \in BOOLEAN
    BY <1>i, <1>1, Zenon DEF CallInv, NetCallType
  <2> QED BY <1>i, <1>1, <2>1, CallFacts, Zenon
<1>3. PICK is : NetReturns(is) /\ (is = "timed_out" => net_call.elapsed)
  BY DEF WriteReturns
<1>4. CallInv' /\ OnlyAskedTimeouts' /\ net_call' = NoSocket
  BY <1>i, <1>1, <1>3, CallFacts, CallReturns, Zenon
<1>5. sockets[h] \in SocketType /\ ~sockets[h].read_timeout
  BY <1>i, <1>1, <1>2, Zenon DEF SocketInv, ReadingFrom
<1> DEFINE s == [sockets[h] EXCEPT !.write_timeout = FALSE]
<1>6. s \in SocketType /\ ~s.read_timeout /\ ~s.write_timeout
  BY <1>5, Zenon DEF SocketType
<1>7. sockets' = [sockets EXCEPT ![h] = s]
  BY <1>2, Zenon DEF WriteReturns
<1> HIDE DEF s
<1>8. SocketInv'
  BY <1>i, <1>1, <1>2, <1>4, <1>6, <1>7, SocketSettled, Zenon
<1> QED BY <1>i, <1>1, <1>4, <1>8, UdpRest, Zenon DEF NetInv

\* One write of write_all: the call goes on with its timeout as it was.
LEMMA WriteSendsStep ==
  ASSUME NetInv, NEW h \in NetId, WriteSends(h)
  PROVE  NetInv'
<1>i. SocketInv /\ UdpInv /\ CallInv
  BY DEF NetInv
<1>1. net_call # NoSocket /\ net_call.op = "write" /\ net_call.on = h /\ UNCHANGED udp_sockets /\ WritingTo(h)
  BY Zenon DEF WriteSends, WritingTo
<1>2. /\ net_call \in [op : {"write"}, on : SocketId, left : Int, timeout : Timeout,
                       previous : BOOLEAN, elapsed : BOOLEAN]
      /\ h \in SocketId /\ ~net_call.previous
  BY <1>i, <1>1, CallFacts, Zenon DEF CallInv, NetCallType
<1> DEFINE c == [net_call EXCEPT !.left = @ - 1, !.elapsed = FALSE]
<1>3. /\ c \in NetCallType /\ c.op = "write" /\ c.on = h /\ c.timeout = net_call.timeout
      /\ ~c.elapsed /\ ~c.previous /\ c # NoSocket
  <2>1. /\ c \in [op : {"write"}, on : SocketId, left : Int, timeout : Timeout,
                  previous : BOOLEAN, elapsed : BOOLEAN]
        /\ c.op = "write" /\ c.on = h /\ c.timeout = net_call.timeout /\ ~c.elapsed /\ ~c.previous
    <3> DEFINE b == [net_call EXCEPT !.left = @ - 1]
    <3>1. /\ b \in [op : {"write"}, on : SocketId, left : Int, timeout : Timeout,
                    previous : BOOLEAN, elapsed : BOOLEAN]
          /\ b.on = h /\ b.timeout = net_call.timeout /\ ~b.previous
      BY <1>1, <1>2
    <3>2. c = [b EXCEPT !.elapsed = FALSE]
      BY <1>2, Zenon
    <3> HIDE DEF b, c
    <3> QED BY <3>1, <3>2, Zenon
  <2> HIDE DEF c
  <2>2. c \in NetCallType
    BY <2>1, Zenon DEF NetCallType
  <2> QED BY <2>1, <2>2, NoSocketAssumption, Zenon
<1>4. NetBlocks(c)
  BY Zenon DEF WriteSends
<1> HIDE DEF c
<1>5. CallInv' /\ OnlyAskedTimeouts' /\ net_call' = c
  BY <1>3, <1>4, CallBlocks, Zenon
<1>6. /\ sockets[h] \in SocketType /\ ~sockets[h].read_timeout
      /\ sockets[h].write_timeout <=> net_call.timeout = "some"
      /\ sockets \in [SocketId -> SocketType \cup {NoSocket}]
  BY <1>i, <1>1, <1>2, Zenon DEF SocketInv, ReadingFrom
<1>7. PICK s \in SocketType : /\ sockets' = [sockets EXCEPT ![h] = s]
                              /\ ~s.read_timeout /\ (s.write_timeout <=> net_call.timeout = "some")
  <2> DEFINE r == [sockets[h] EXCEPT !.out = @ + 1]
  <2>1. r \in SocketType /\ ~r.read_timeout /\ (r.write_timeout <=> net_call.timeout = "some")
    BY <1>6 DEF SocketType
  <2>2. sockets' = [sockets EXCEPT ![h] = r]
    BY Zenon DEF WriteSends
  <2> QED BY <2>1, <2>2, Zenon
<1>8. SocketInv'
  <2>1. sockets' \in [SocketId -> SocketType \cup {NoSocket}]
    BY <1>6, <1>7, Zenon
  <2>2. \A g \in SocketId : sockets'[g] = IF g = h THEN s ELSE sockets[g]
    BY <1>6, <1>7, Zenon
  <2>3. \A g \in SocketId : /\ WritingTo(g)' <=> g = h
                            /\ WritingTo(g) <=> g = h
                            /\ ~ReadingFrom(g) /\ ~ReadingFrom(g)'
    BY <1>1, <1>3, <1>5, Zenon DEF WritingTo, ReadingFrom
  <2>4. \A g \in SocketId : Connected(g)' => g = h \/ Connected(g)
    BY <2>2, Zenon DEF Connected
  <2>5. net_call'.timeout = net_call.timeout
    BY <1>3, <1>5, Zenon
  <2>6. ASSUME NEW g \in SocketId, ReadingFrom(g)' \/ WritingTo(g)' \/ Connected(g)'
        PROVE  /\ sockets'[g] \in SocketType
               /\ sockets'[g].read_timeout <=> ReadingFrom(g)' /\ net_call'.timeout = "some"
               /\ sockets'[g].write_timeout <=> WritingTo(g)' /\ net_call'.timeout = "some"
    <3>1. CASE g = h
      BY <1>7, <2>2, <2>3, <2>5, <3>1, Zenon
    <3>2. CASE g # h
      <4>1. /\ sockets[g] \in SocketType
            /\ sockets[g].read_timeout <=> ReadingFrom(g) /\ net_call.timeout = "some"
            /\ sockets[g].write_timeout <=> WritingTo(g) /\ net_call.timeout = "some"
        BY <1>i, <2>3, <2>4, <2>6, <3>2 DEF SocketInv
      <4> QED BY <2>2, <2>3, <3>2, <4>1
    <3> QED BY <3>1, <3>2, Zenon
  <2> QED BY <2>1, <2>6, Zenon DEF SocketInv
<1> QED BY <1>i, <1>1, <1>3, <1>5, <1>8, UdpRest DEF NetInv

LEMMA RecvStep ==
  ASSUME NetInv, NEW h \in NetId, RecvReturns(h)
  PROVE  NetInv'
<1>i. SocketInv /\ UdpInv /\ CallInv
  BY DEF NetInv
<1>1. net_call # NoSocket /\ net_call.op = "recv" /\ net_call.on = h /\ UNCHANGED sockets /\ ReceivingFrom(h)
  BY Zenon DEF RecvReturns, ReceivingFrom
<1>2. h \in UdpId /\ net_call.previous = FALSE
  <2>1. net_call.previous \in BOOLEAN
    BY <1>i, <1>1, Zenon DEF CallInv, NetCallType
  <2> QED BY <1>i, <1>1, <2>1, CallFacts, Zenon
<1>3. PICK is : NetReturns(is) /\ (is = "timed_out" => net_call.elapsed)
  BY DEF RecvReturns
<1>4. CallInv' /\ OnlyAskedTimeouts' /\ net_call' = NoSocket
  BY <1>i, <1>1, <1>3, CallFacts, CallReturns, Zenon
<1>5. udp_sockets[h] \in UdpType
  BY <1>i, <1>1, <1>2, Zenon DEF UdpInv
<1>6. PICK s \in UdpType : udp_sockets' = [udp_sockets EXCEPT ![h] = s] /\ ~s.read_timeout
  <2> DEFINE r == [udp_sockets[h] EXCEPT !.read_timeout = FALSE]
             t == [in |-> <<>>, read_timeout |-> FALSE]
  <2>1. r \in UdpType /\ ~r.read_timeout
    BY <1>5, Zenon DEF UdpType
  <2>2. t \in UdpType /\ ~t.read_timeout
    BY DEF UdpType
  <2>3. udp_sockets' = [udp_sockets EXCEPT ![h] = r] \/ udp_sockets' = [udp_sockets EXCEPT ![h] = t]
    BY <1>2, Zenon DEF RecvReturns
  <2> HIDE DEF r, t
  <2> QED BY <2>1, <2>2, <2>3, Zenon
<1>7. UdpInv'
  BY <1>i, <1>1, <1>2, <1>4, <1>6, UdpSettled, Zenon
<1> QED BY <1>i, <1>1, <1>4, <1>7, SocketsRest, Zenon DEF NetInv

LEMMA CharacterTyped == Character \in Seq(NetByte)
  BY DEF Character, NetByte

\* A peer changes what has arrived, what it has taken or whether it is there.
LEMMA PeersStep == ASSUME NetInv, Peers PROVE NetInv'
<1>i. SocketInv /\ UdpInv /\ CallInv
  BY Zenon DEF NetInv
<1>1. UNCHANGED <<net_call, net_result>>
  BY Zenon DEF Peers, PeerConnects, PeerActs, DatagramArrives
<1>2. CallInv' /\ OnlyAskedTimeouts'
  BY <1>1 DEF NetInv, CallInv, OnlyAskedTimeouts
<1>3. ASSUME NEW h \in NetId, PeerConnects(h) PROVE NetInv'
  BY <1>i, <1>1, <1>2, <1>3, SocketsAlone, UdpAlone, Zenon DEF NetInv, PeerConnects
<1>4. ASSUME NEW h \in NetId, PeerActs(h) PROVE NetInv'
  <2>1. h \in SocketId /\ Connected(h) /\ sockets[h] \in SocketType /\ UNCHANGED udp_sockets
    BY <1>i, <1>4 DEF PeerActs, Connected, SocketInv
  <2>2. ASSUME NEW s \in SocketType, sockets' = [sockets EXCEPT ![h] = s],
               s.read_timeout = sockets[h].read_timeout, s.write_timeout = sockets[h].write_timeout
        PROVE  NetInv'
    <3>1. SocketInv'
      BY <1>i, <1>1, <2>1, <2>2, SocketChanged, Zenon
    <3> QED BY <1>i, <1>1, <1>2, <2>1, <3>1, UdpAlone, Zenon DEF NetInv
  <2>3. CASE sockets' = [sockets EXCEPT ![h].in = Character]
    <3> DEFINE s == [sockets[h] EXCEPT !.in = Character]
    <3>2. s \in SocketType /\ s.read_timeout = sockets[h].read_timeout /\ s.write_timeout = sockets[h].write_timeout
      BY <2>1, CharacterTyped, Zenon DEF SocketType
    <3>3. sockets' = [sockets EXCEPT ![h] = s]
      BY <2>3, Zenon
    <3> HIDE DEF s
    <3> QED BY <2>2, <3>2, <3>3, Zenon
  <2>4. CASE sockets' = [sockets EXCEPT ![h].out = @ - 1]
    <3> DEFINE s == [sockets[h] EXCEPT !.out = @ - 1]
    <3>2. s \in SocketType /\ s.read_timeout = sockets[h].read_timeout /\ s.write_timeout = sockets[h].write_timeout
      BY <2>1 DEF SocketType
    <3>3. sockets' = [sockets EXCEPT ![h] = s]
      BY <2>4, Zenon
    <3> HIDE DEF s
    <3> QED BY <2>2, <3>2, <3>3, Zenon
  <2>5. ASSUME NEW peer \in {"closed", "reset"}, sockets' = [sockets EXCEPT ![h].peer = peer] PROVE NetInv'
    <3> DEFINE s == [sockets[h] EXCEPT !.peer = peer]
    <3>2. s \in SocketType /\ s.read_timeout = sockets[h].read_timeout /\ s.write_timeout = sockets[h].write_timeout
      BY <2>1, Zenon DEF SocketType
    <3>3. sockets' = [sockets EXCEPT ![h] = s]
      BY <2>5, Zenon
    <3> HIDE DEF s
    <3> QED BY <2>2, <3>2, <3>3, Zenon
  <2> QED BY <1>4, <2>3, <2>4, <2>5, Zenon DEF PeerActs
<1>5. ASSUME NEW h \in NetId, DatagramArrives(h) PROVE NetInv'
  <2>1. /\ h \in UdpId /\ udp_sockets[h] \in UdpType /\ UNCHANGED sockets /\ Bound(h)
        /\ udp_sockets \in [UdpId -> UdpType \cup {NoSocket}]
    BY <1>i, <1>5, Zenon DEF DatagramArrives, Bound, UdpInv
  <2> DEFINE s == [udp_sockets[h] EXCEPT !.in = Character]
  <2>3. s \in UdpType /\ s.read_timeout = udp_sockets[h].read_timeout
    BY <2>1, CharacterTyped, Zenon DEF UdpType
  <2>4. udp_sockets' = [udp_sockets EXCEPT ![h] = s]
    BY <1>5, Zenon DEF DatagramArrives
  <2> HIDE DEF s
  <2>5. udp_sockets' \in [UdpId -> UdpType \cup {NoSocket}]
    BY <2>1, <2>3, <2>4, Zenon
  <2>6. \A g \in UdpId : udp_sockets'[g] = IF g = h THEN s ELSE udp_sockets[g]
    BY <2>1, <2>4, Zenon
  <2>7. UdpInv'
    BY <1>i, <1>1, <2>1, <2>3, <2>5, <2>6 DEF UdpInv, ReceivingFrom, Bound
  <2> QED BY <1>i, <1>1, <1>2, <2>1, <2>7, SocketsAlone, Zenon DEF NetInv
<1> QED BY <1>3, <1>4, <1>5, Zenon DEF Peers

\* Time is up only for a call that was given a timeout.
LEMMA TimePassesStep == ASSUME NetInv, TimePasses PROVE NetInv'
<1>i. SocketInv /\ UdpInv /\ CallInv
  BY DEF NetInv
<1>1. /\ net_call # NoSocket /\ TimesOut /\ net_call' = [net_call EXCEPT !.elapsed = TRUE]
      /\ UNCHANGED <<sockets, udp_sockets, net_result>>
  BY Zenon DEF TimePasses, tables
<1>2. net_call.timeout # "none"
  <2>1. CASE net_call.op \in {"accept", "poll"}
    BY <1>1, <2>1, Zenon DEF TimesOut
  <2>2. CASE net_call.op = "connect"
    BY <1>1, <2>2 DEF TimesOut
  <2>3. CASE net_call.op = "read"
    <3>1. net_call.on \in SocketId /\ ReadingFrom(net_call.on)
      BY <1>i, <1>1, <2>3, CallFacts, Zenon DEF ReadingFrom
    <3> QED BY <1>i, <1>1, <2>3, <3>1, Zenon DEF TimesOut, SocketInv
  <2>4. CASE net_call.op = "write"
    <3>1. net_call.on \in SocketId /\ WritingTo(net_call.on)
      BY <1>i, <1>1, <2>4, CallFacts, Zenon DEF WritingTo
    <3> QED BY <1>i, <1>1, <2>4, <3>1 DEF TimesOut, SocketInv
  <2>5. CASE net_call.op = "recv"
    <3>1. net_call.on \in UdpId /\ ReceivingFrom(net_call.on)
      BY <1>i, <1>1, <2>5, CallFacts DEF ReceivingFrom
    <3> QED BY <1>i, <1>1, <2>5, <3>1, Zenon DEF TimesOut, UdpInv
  <2> QED BY <1>i, <1>1, <2>1, <2>2, <2>3, <2>4, <2>5, CallFacts, Zenon
<1>3. /\ net_call' \in NetCallType /\ net_call'.op = net_call.op /\ net_call'.timeout = net_call.timeout
      /\ net_call.op \in {"read", "write", "recv"} =>
           net_call'.on = net_call.on /\ net_call'.previous = net_call.previous
  <2>1. CASE net_call.op = "accept"
    BY <1>i, <1>1, <2>1, Zenon DEF CallInv, NetCallType
  <2>2. CASE net_call.op = "connect"
    BY <1>i, <1>1, <2>2, Zenon DEF CallInv, NetCallType
  <2>3. CASE net_call.op = "read"
    BY <1>i, <1>1, <2>3, Zenon DEF CallInv, NetCallType
  <2>4. CASE net_call.op = "write"
    BY <1>i, <1>1, <2>4, Zenon DEF CallInv, NetCallType
  <2>5. CASE net_call.op = "recv"
    BY <1>i, <1>1, <2>5, Zenon DEF CallInv, NetCallType
  <2>6. CASE net_call.op = "poll"
    BY <1>i, <1>1, <2>6, Zenon DEF CallInv, NetCallType
  <2> QED BY <1>i, <1>1, <2>1, <2>2, <2>3, <2>4, <2>5, <2>6, CallFacts
<1>4. net_call' # NoSocket
  BY <1>3, NoSocketAssumption, Zenon
<1>5. \A h : /\ ReadingFrom(h)' <=> ReadingFrom(h)
             /\ WritingTo(h)' <=> WritingTo(h)
             /\ ReceivingFrom(h)' <=> ReceivingFrom(h)
  BY <1>1, <1>3, <1>4, Zenon DEF ReadingFrom, WritingTo, ReceivingFrom
<1>6. \A h : (Connected(h)' <=> Connected(h)) /\ (Bound(h)' <=> Bound(h))
  BY <1>1, Zenon DEF Connected, Bound
<1>7. SocketInv'
  BY <1>i, <1>1, <1>3, <1>5, <1>6, Zenon DEF SocketInv
<1>8. UdpInv'
  BY <1>i, <1>1, <1>3, <1>5, <1>6, Zenon DEF UdpInv
<1>9. CallInv' /\ OnlyAskedTimeouts'
  BY <1>i, <1>1, <1>2, <1>3, Zenon DEF NetInv, CallInv, OnlyAskedTimeouts
<1> QED BY <1>7, <1>8, <1>9, Zenon DEF NetInv

=============================================================================
