---------------------------- MODULE ClientPutProofs ----------------------------
(***************************************************************************)
(* Proofs that the client's side of an upload keeps its safety properties  *)
(* for every server, every file, every set of datagrams that reach it,     *)
(* block size, retry limit and width of the block numbers.                 *)
(*                                                                         *)
(* The inductive invariant IInv says, beyond the properties, how the       *)
(* position in the file and the number sent last agree, and that no block  *)
(* was sent, or is ready to be, before a server was accepted.  As in       *)
(* DownloadProofs it speaks only of the client's own datagrams.            *)
(***************************************************************************)
EXTENDS ClientPut, CommonProofs

\* Until the server's address is known there is nothing for a handler to do
\* but the resolver's.
BeforeAddress ==
    resolver # "done" => Quiet(io) /\ ~m_request_complete /\ m_reader # "failed"

\* What is left of the retry budget.
Budget ==
    /\ tries <= DEFAULT_RETRY_COUNTER
    /\ m_retry_counter > 0 => tries + m_retry_counter = DEFAULT_RETRY_COUNTER + 1

\* What is received comes from a peer.
Incoming == io.received # << >> => m_in.src \in Peers

\* The position in the file, the number of the last block and
\* m_last_packet_sent agree.
Position ==
    /\ pos <= Blocks
    /\ m_reader # "failed" => m_last_sent_packet_id = pos % BlockModulus
    /\ ~m_last_packet_sent => pos < Blocks

\* If p carries a block, it is one of the file that was read, under its
\* number, and a server was accepted.
OfFile(p) ==
    p.op = "DATA" =>
        /\ m_request_complete
        /\ p.data \in 1 .. pos
        /\ p.num = p.data % BlockModulus
        /\ DataSize(p) = SizeOf(p.data)

\* If d carries a block, it is on its way to the server that was accepted.
ToServer(d) == d.pkt.op = "DATA" => d.dst = m_server_endpoint

IInv ==
    /\ StateOK
    /\ BeforeAddress
    /\ NeverAbandoned
    /\ Budget
    /\ Incoming
    /\ Position
    /\ OfFile(m_out)
    /\ \A d \in net : d.src = Self => OfFile(d.pkt) /\ ToServer(d)

\* What was sent of the file stays so: the file is read on, and the server
\* that was accepted is kept.
GoesOn ==
    /\ pos' \in Nat /\ pos <= pos'
    /\ m_request_complete =>
          m_request_complete' = TRUE /\ m_server_endpoint' = m_server_endpoint

\* A packet that carries a block of the file still does when more is read.
LEMMA OfFileStays ==
    ASSUME IInv, GoesOn, NEW p, OfFile(p)
    PROVE  OfFile(p)'
  BY DEF IInv, StateOK, GoesOn, OfFile, SizeOf

\* The same of the client's datagrams, and their server stays accepted.
LEMMA ToServerStays ==
    ASSUME IInv, GoesOn, NEW d \in net, d.src = Self
    PROVE  OfFile(d.pkt)' /\ ToServer(d)'
  <1>1. OfFile(d.pkt) /\ ToServer(d)
    BY DEF IInv
  <1>2. OfFile(d.pkt)'
    BY <1>1, OfFileStays
  <1>3. ToServer(d)'
    BY <1>1 DEF OfFile, ToServer, GoesOn
  <1> QED
    BY <1>2, <1>3
-----------------------------------------------------------------------------
\* What goes on the wire.

\* What handing a packet to ASIO does to the endpoint and the wire.
LEMMA SendPrepared ==
    ASSUME NEW p, NEW dst, NEW s \in Endpoint, send_prepared_packet(p, dst, s)
    PROVE  /\ io' \in Endpoint /\ io'.open = s.open /\ Driven(io')
           /\ io'.received = s.received
           /\ \A d \in net' : d \in net \/ d = [src |-> Self, dst |-> dst, pkt |-> p]
  <1>1. PICK accepted \in BOOLEAN :
            /\ io' = async_send_to(s, accepted)
            /\ net' = IF s.open /\ accepted
                      THEN net \cup {[src |-> Self, dst |-> dst, pkt |-> p]}
                      ELSE net
    BY DEF send_prepared_packet
  <1>2. /\ io' \in Endpoint /\ io'.open = s.open /\ Driven(io')
        /\ io'.received = s.received
    BY <1>1, CallsKeepEndpoint, SocketStaysOpen, WhatDrives, WhatReceives
  <1> QED
    BY <1>1, <1>2

\* Whatever a handler puts on the wire is m_out_packet_data, on its way to
\* m_server_endpoint.
LEMMA WhatIsSent ==
    ASSUME Next
    PROVE  \A d \in net' :
               d \in net \/ d = [src |-> Self, dst |-> m_server_endpoint', pkt |-> m_out']
  <1>1. ASSUME NEW p, NEW dst, NEW s, send_prepared_packet(p, dst, s),
               p = m_out', dst = m_server_endpoint'
        PROVE  \A d \in net' :
                   d \in net \/ d = [src |-> Self, dst |-> m_server_endpoint', pkt |-> m_out']
    BY <1>1 DEF send_prepared_packet
  <1>2. CASE on_resolve_query
    BY <1>1, <1>2 DEF on_resolve_query, send_packet
  <1>3. CASE on_send_timeout
    <2>1. m_out' = m_out /\ m_server_endpoint' = m_server_endpoint
      BY <1>3 DEF on_send_timeout, readerVars
    <2> QED
      BY <1>1, <1>3, <2>1 DEF on_send_timeout
  <1>4. CASE ReadBlock \/ ReadFails
    <2>1. PICK p, s : m_out' = p /\ send_prepared_packet(p, m_server_endpoint', s)
      BY <1>4 DEF ReadBlock, ReadFails, send_packet
    <2> QED
      BY <1>1, <2>1
  <1>5. CASE UNCHANGED net
    BY <1>5
  <1> QED
    BY <1>2, <1>3, <1>4, <1>5
       DEF Next, Start, RunHandler, AwaitResponse, FinishSending, SendFailed,
           ReceiveFailed, LastAcknowledged, process_error_received, PacketIgnored,
           Kernel, TimerExpires, ReceiveBreaks, Receive
-----------------------------------------------------------------------------
\* Kinds of steps.

\* A step that only moves completions keeps the invariant if it opens no
\* socket and leaves something to drive the client.
LEMMA FrameStep ==
    ASSUME IInv, resolver = "done",
           UNCHANGED <<resolver, readerVars, sendVars>>,
           \A d \in net' : d.src = Self => d \in net,
           m_in'.pkt \in Packet, Incoming',
           io' \in Endpoint, io'.open = io.open, Driven(io) => Driven(io')
    PROVE  IInv'
  <1>1. StateOK'
    BY DEF IInv, StateOK, readerVars, sendVars
  <1>2. BeforeAddress' /\ NeverAbandoned'
    BY DEF IInv, BeforeAddress, NeverAbandoned
  <1>3. Budget' /\ Position'
    BY DEF IInv, Budget, Position, readerVars, sendVars
  <1>4. GoesOn /\ m_out' = m_out
    BY DEF IInv, StateOK, GoesOn, readerVars, sendVars
  <1>5. OfFile(m_out)' /\ \A d \in net' : d.src = Self => OfFile(d.pkt)' /\ ToServer(d)'
    BY <1>4, OfFileStays, ToServerStays DEF IInv
  <1> QED
    BY <1>1, <1>2, <1>3, <1>5 DEF IInv

\* A handler that terminates keeps the invariant, from any endpoint "s" it
\* has left so far, also if it accepted the server first.
LEMMA EndStep ==
    ASSUME IInv, resolver = "done",
           NEW s \in Endpoint, terminate(s),
           s.received # << >> => io.received # << >>,
           UNCHANGED <<resolver, m_reader, pos, m_last_packet_sent,
                       m_last_sent_packet_id, m_response_expected, m_out, tries,
                       m_in, net>>,
           m_request_complete' \in BOOLEAN, m_server_endpoint' \in Peers \cup {Server},
           GoesOn,
           m_retry_counter' \in Int,
           m_retry_counter' = m_retry_counter \/ m_retry_counter' <= 0
    PROVE  IInv'
  <1>1. io' \in Endpoint /\ ~io'.open /\ io'.received = s.received
    <2>c. PICK c : c = cancel_timer(s)
      OBVIOUS
    <2>1. c \in Endpoint /\ c.received = s.received /\ io' = close_socket(c)
      BY <2>c, CallsKeepEndpoint, WhatReceives DEF terminate
    <2> QED
      BY <2>1, CallsKeepEndpoint, SocketStaysOpen, WhatReceives
  <1>2. StateOK'
    BY <1>1 DEF IInv, StateOK
  <1>3. BeforeAddress' /\ NeverAbandoned'
    BY <1>1 DEF BeforeAddress, NeverAbandoned
  <1>4. Budget' /\ Position'
    BY DEF IInv, StateOK, Budget, Position
  <1>5. Incoming'
    BY <1>1 DEF IInv, Incoming
  <1>6. OfFile(m_out)' /\ \A d \in net' : d.src = Self => OfFile(d.pkt)' /\ ToServer(d)'
    BY OfFileStays, ToServerStays DEF IInv
  <1> QED
    BY <1>2, <1>3, <1>4, <1>5, <1>6 DEF IInv

\* A handler that sends a request, a block of the file or an ERROR keeps the
\* invariant.
LEMMA SendStep ==
    ASSUME IInv, resolver' = "done",
           NEW s \in Endpoint, s.received # << >> => io.received # << >>,
           NEW p \in Packet, NEW response_expected \in BOOLEAN,
           NEW retry_counter \in {0, DEFAULT_RETRY_COUNTER},
           send_packet(p, response_expected, retry_counter, m_server_endpoint', s),
           m_server_endpoint' \in Peers \cup {Server},
           m_request_complete' \in BOOLEAN, GoesOn,
           m_reader' \in {"unset", "null", "closed", "open", "failed"},
           m_last_packet_sent' \in BOOLEAN,
           m_last_sent_packet_id' \in 0 .. BlockModulus - 1,
           Position', OfFile(p)', m_in' = m_in
    PROVE  IInv'
  <1>1. /\ m_out' = p /\ tries' = 1 /\ m_retry_counter' = retry_counter
        /\ m_response_expected' = response_expected
        /\ send_prepared_packet(p, m_server_endpoint', s)
    BY DEF send_packet
  <1>2. /\ io' \in Endpoint /\ Driven(io') /\ io'.received = s.received
        /\ \A d \in net' :
              d \in net \/ d = [src |-> Self, dst |-> m_server_endpoint', pkt |-> p]
    BY <1>1, SendPrepared
  <1>3. StateOK'
    <2>1. m_retry_counter' \in Int
      BY <1>1, TftpAssumption
    <2> QED
      BY <1>1, <1>2, <2>1 DEF IInv, StateOK, GoesOn
  <1>4. BeforeAddress' /\ NeverAbandoned'
    BY <1>2 DEF BeforeAddress, NeverAbandoned
  <1>5. Budget'
    BY <1>1, TftpAssumption DEF Budget
  <1>6. Incoming'
    BY <1>2 DEF IInv, Incoming
  <1>7. ASSUME NEW d \in net', d.src = Self PROVE OfFile(d.pkt)' /\ ToServer(d)'
    <2>1. CASE d \in net
      BY <1>7, <2>1, ToServerStays
    <2>2. CASE d = [src |-> Self, dst |-> m_server_endpoint', pkt |-> p]
      <3>1. d.pkt = p /\ d.dst = m_server_endpoint'
        BY <2>2
      <3> QED
        BY <3>1 DEF OfFile, ToServer
    <2> QED
      BY <1>2, <2>1, <2>2
  <1>8. OfFile(m_out)'
    BY <1>1 DEF OfFile
  <1> QED
    BY <1>3, <1>4, <1>5, <1>6, <1>7, <1>8 DEF IInv

\* A handler that terminates and has not looked at a packet, or one that
\* changes nothing but the retry counter before it does.
LEMMA EndInPlace ==
    ASSUME IInv, resolver = "done",
           NEW s \in Endpoint, terminate(s),
           s.received # << >> => io.received # << >>,
           UNCHANGED <<resolver, readerVars, m_response_expected, m_out, tries, m_in, net>>,
           m_retry_counter' \in Int,
           m_retry_counter' = m_retry_counter \/ m_retry_counter' <= 0
    PROVE  IInv'
  <1>1. /\ m_request_complete' \in BOOLEAN /\ m_server_endpoint' \in Peers \cup {Server}
        /\ GoesOn
    BY DEF IInv, StateOK, GoesOn, readerVars
  <1> QED
    BY <1>1, EndStep DEF readerVars
-----------------------------------------------------------------------------
\* The invariant holds at first, and every step keeps it: one lemma per group
\* of handlers.

\* The invariant holds of a client that was just constructed.
LEMMA InitInv ==
    ASSUME Init, \A d \in net : d.src # Self
    PROVE  IInv
  <1>1. StateOK
    <2>1. io \in Endpoint /\ m_out \in Packet /\ m_in.pkt \in Packet
      BY UnopenedEndpoint, PacketTypes DEF Init
    <2>2. m_last_sent_packet_id \in 0 .. BlockModulus - 1
      BY TftpAssumption DEF Init
    <2>3. 0 \in Nat /\ 0 \in Int
      OBVIOUS
    <2> QED
      BY <2>1, <2>2, <2>3, Zenon DEF Init, StateOK
  <1>2. BeforeAddress /\ NeverAbandoned /\ Budget
    BY UnopenedEndpoint, TftpAssumption DEF Init, BeforeAddress, NeverAbandoned, Budget
  <1>3. Incoming
    BY DEF Init, Incoming, Unopened
  <1>4. Position
    BY ZeroIsZero, ClientPutAssumption DEF Init, Position
  <1>5. OfFile(m_out) /\ \A d \in net : d.src = Self => OfFile(d.pkt) /\ ToServer(d)
    BY DEF Init, OfFile, InvalidPacket
  <1> QED
    BY <1>1, <1>2, <1>3, <1>4, <1>5 DEF IInv

\* A completion to handle, a wait or a pending receive is there only once the
\* request was sent.
LEMMA BusyMeansResolved ==
    ASSUME IInv, ~Quiet(io)
    PROVE  resolver = "done"
  BY DEF IInv, BeforeAddress

\* start() keeps the invariant.
LEMMA StartInv == IInv /\ Start => IInv'
  <1> SUFFICES ASSUME IInv, Start PROVE IInv'
    OBVIOUS
  <1>1. /\ resolver' \in {"pending", "failed"} /\ resolver = "idle"
        /\ m_reader' \in {"null", "closed", "open"}
        /\ UNCHANGED <<m_server_endpoint, m_request_complete, pos, m_last_packet_sent,
                       m_last_sent_packet_id, sendVars, m_in, net>>
        /\ io' = io \/ io' = open_socket(io) \/ io' = close_socket(cancel_timer(io))
    BY DEF Start, terminate
  <1>2. io \in Endpoint /\ Quiet(io) /\ io.received = << >>
    BY <1>1 DEF IInv, StateOK, BeforeAddress, Quiet
  <1>3. io' \in Endpoint /\ Quiet(io') /\ io'.received = << >>
    <2>1. CASE io' = open_socket(io)
      <3>1. io' \in Endpoint /\ io'.received = << >>
        BY <1>2, <2>1, CallsKeepEndpoint, WhatReceives
      <3>2. Quiet(io')
        BY <1>2, <2>1 DEF Quiet, open_socket, Endpoint
      <3> QED
        BY <3>1, <3>2
    <2>2. CASE io' = close_socket(cancel_timer(io))
      <3>c. PICK c : c = cancel_timer(io)
        OBVIOUS
      <3>1. c \in Endpoint /\ c.received = << >>
        BY <1>2, <3>c, CallsKeepEndpoint, WhatReceives
      <3>2. Quiet(c)
        BY <1>2, <3>c DEF Quiet, cancel_timer, Endpoint
      <3>3. io' \in Endpoint /\ io'.received = << >>
        BY <2>2, <3>c, <3>1, CallsKeepEndpoint, WhatReceives
      <3>4. Quiet(io')
        BY <2>2, <3>c, <3>1, <3>2 DEF Quiet, close_socket, Endpoint
      <3> QED
        BY <3>3, <3>4
    <2> QED
      BY <1>1, <1>2, <2>1, <2>2
  <1>4. StateOK'
    BY <1>1, <1>3 DEF IInv, StateOK, sendVars
  <1>5. BeforeAddress' /\ NeverAbandoned'
    BY <1>1, <1>3 DEF IInv, BeforeAddress, NeverAbandoned
  <1>6. Budget' /\ Incoming'
    BY <1>1, <1>3 DEF IInv, Budget, Incoming, sendVars
  <1>7. Position'
    BY <1>1 DEF IInv, BeforeAddress, Position
  <1>8. GoesOn /\ m_out' = m_out
    BY <1>1 DEF IInv, StateOK, GoesOn, sendVars
  <1>9. OfFile(m_out)' /\ \A d \in net' : d.src = Self => OfFile(d.pkt)' /\ ToServer(d)'
    BY <1>1, <1>8, OfFileStays, ToServerStays DEF IInv
  <1> QED
    BY <1>4, <1>5, <1>6, <1>7, <1>9 DEF IInv

\* on_resolve_query keeps the invariant: it sends the request, or gives up.
LEMMA OnResolveQueryInv == IInv /\ on_resolve_query => IInv'
  <1> SUFFICES ASSUME IInv, on_resolve_query PROVE IInv'
    OBVIOUS
  <1>1. /\ resolver = "pending" /\ io \in Endpoint
        /\ UNCHANGED <<m_request_complete, m_reader, pos, m_last_packet_sent,
                       m_last_sent_packet_id, m_in>>
    BY DEF on_resolve_query, IInv, StateOK
  <1>2. GoesOn
    BY <1>1 DEF IInv, StateOK, BeforeAddress, GoesOn
  <1>3. Position'
    BY <1>1 DEF IInv, Position
  <1>5. CASE /\ resolver' = "done"
             /\ m_server_endpoint' = Server
             /\ send_packet(RequestPacket("WRQ"), TRUE, DEFAULT_RETRY_COUNTER, Server, io)
    <2>p. PICK p : p = RequestPacket("WRQ")
      OBVIOUS
    <2>1. p \in Packet /\ OfFile(p)'
      BY <2>p, PacketTypes DEF OfFile, RequestPacket
    <2>2. /\ m_server_endpoint' \in Peers \cup {Server}
          /\ m_request_complete' \in BOOLEAN
          /\ m_reader' \in {"unset", "null", "closed", "open", "failed"}
          /\ m_last_packet_sent' \in BOOLEAN
          /\ m_last_sent_packet_id' \in 0 .. BlockModulus - 1
      BY <1>1, <1>5 DEF IInv, StateOK
    <2>3. send_packet(p, TRUE, DEFAULT_RETRY_COUNTER, m_server_endpoint', io)
      BY <1>5, <2>p
    <2> QED
      BY <1>1, <1>2, <1>3, <1>5, <2>1, <2>2, <2>3, SendStep
  <1>6. CASE resolver' = "failed" /\ UNCHANGED <<m_server_endpoint, sendVars, io, net>>
    <2>1. StateOK'
      BY <1>1, <1>6 DEF IInv, StateOK, sendVars
    <2>2. BeforeAddress' /\ NeverAbandoned' /\ Budget' /\ Incoming'
      BY <1>1, <1>6
         DEF IInv, BeforeAddress, NeverAbandoned, Budget, Incoming, Quiet, sendVars
    <2>3. OfFile(m_out)' /\ \A d \in net' : d.src = Self => OfFile(d.pkt)' /\ ToServer(d)'
      BY <1>2, <1>6, OfFileStays, ToServerStays DEF IInv, sendVars
    <2> QED
      BY <1>3, <2>1, <2>2, <2>3 DEF IInv
  <1> QED
    BY <1>5, <1>6 DEF on_resolve_query

\* on_packet_sent keeps the invariant.
LEMMA OnPacketSentInv ==
    IInv /\ (AwaitResponse \/ FinishSending \/ SendFailed) => IInv'
  <1> SUFFICES ASSUME IInv, AwaitResponse \/ FinishSending \/ SendFailed
               PROVE  IInv'
    OBVIOUS
  <1>1. io \in Endpoint /\ m_in.pkt \in Packet /\ m_retry_counter \in Int
    BY DEF IInv, StateOK
  <1>2. resolver = "done"
    BY <1>1, BusyMeansResolved
       DEF AwaitResponse, FinishSending, SendFailed, Quiet, Endpoint
  <1>3. CASE AwaitResponse
    <2>t. PICK t : t = take_sent(io)
      OBVIOUS
    <2>1. t \in Endpoint /\ t.open = io.open /\ t.received = io.received
      BY <1>1, <1>3, <2>t, HandlersKeepEndpoint, SocketStaysOpen, WhatReceives
         DEF AwaitResponse
    <2>u. PICK u : u = restart_timer(t)
      OBVIOUS
    <2>2. u \in Endpoint /\ u.open = io.open /\ u.received = io.received
      BY <2>1, <2>u, CallsKeepEndpoint, SocketStaysOpen, WhatReceives
    <2>3. io' = async_receive_from(u) /\ UNCHANGED <<resolver, readerVars, sendVars, m_in, net>>
      BY <1>3, <2>t, <2>u DEF AwaitResponse
    <2>4. io' \in Endpoint /\ io'.open = io.open /\ io'.received = io.received
      BY <2>2, <2>3, CallsKeepEndpoint, SocketStaysOpen, WhatReceives
    <2>5. Driven(io')
      BY <2>1, <2>u, <2>3, WhatDrives
    <2>6. Incoming'
      BY <2>3, <2>4 DEF IInv, Incoming
    <2> QED
      BY <1>1, <1>2, <2>3, <2>4, <2>5, <2>6, FrameStep
  <1>4. CASE FinishSending \/ SendFailed
    <2>1. PICK t \in Endpoint : t.received = io.received /\ terminate(t)
      BY <1>1, <1>4, HandlersKeepEndpoint, WhatReceives DEF FinishSending, SendFailed
    <2> QED
      BY <1>1, <1>2, <1>4, <2>1, EndInPlace DEF FinishSending, SendFailed, sendVars
  <1> QED
    BY <1>3, <1>4

\* on_send_timeout keeps the invariant: the packet sent again is the one that
\* was sent before, and one try of the budget is used.
LEMMA OnSendTimeoutInv == IInv /\ on_send_timeout => IInv'
  <1> SUFFICES ASSUME IInv, on_send_timeout PROVE IInv'
    OBVIOUS
  <1>1. io \in Endpoint /\ m_retry_counter \in Int /\ m_out \in Packet /\ tries \in Nat
    BY DEF IInv, StateOK
  <1>2. /\ io.expired > 0 /\ m_retry_counter' = m_retry_counter - 1
        /\ UNCHANGED <<resolver, readerVars, m_response_expected, m_out, m_in>>
    BY DEF on_send_timeout
  <1>3. resolver = "done"
    BY <1>1, <1>2, BusyMeansResolved DEF Quiet, Endpoint
  <1>t. PICK t : t = take_expired(io)
    OBVIOUS
  <1>4. t \in Endpoint /\ t.open = io.open /\ t.received = io.received
    BY <1>1, <1>2, <1>t, HandlersKeepEndpoint, SocketStaysOpen, WhatReceives
  <1>5. CASE /\ m_retry_counter' > 0
             /\ tries' = tries + 1
             /\ send_prepared_packet(m_out, m_server_endpoint, t)
    <2>1. /\ io' \in Endpoint /\ Driven(io') /\ io'.received = io.received
          /\ \A d \in net' :
                d \in net \/ d = [src |-> Self, dst |-> m_server_endpoint, pkt |-> m_out]
      BY <1>4, <1>5, SendPrepared
    <2>2. StateOK'
      BY <1>1, <1>2, <1>5, <2>1 DEF IInv, StateOK, readerVars
    <2>3. BeforeAddress' /\ NeverAbandoned' /\ Incoming'
      BY <1>2, <1>3, <2>1 DEF IInv, BeforeAddress, NeverAbandoned, Incoming
    <2>4. Budget' /\ Position'
      BY <1>1, <1>2, <1>5, TftpAssumption DEF IInv, Budget, Position, readerVars
    <2>5. GoesOn
      BY <1>2 DEF IInv, StateOK, GoesOn, readerVars
    <2>6. OfFile(m_out)'
      BY <1>2, <2>5, OfFileStays DEF IInv
    <2>7. ASSUME NEW d \in net', d.src = Self PROVE OfFile(d.pkt)' /\ ToServer(d)'
      <3>1. CASE d \in net
        BY <2>5, <2>7, <3>1, ToServerStays
      <3>2. CASE d = [src |-> Self, dst |-> m_server_endpoint, pkt |-> m_out]
        <4>1. d.pkt = m_out /\ d.dst = m_server_endpoint
          BY <3>2
        <4>2. OfFile(d.pkt)'
          BY <2>5, <4>1, OfFileStays DEF IInv
        <4> QED
          BY <1>2, <4>1, <4>2 DEF ToServer, readerVars
      <3> QED
        BY <2>1, <2>7, <3>1, <3>2
    <2> QED
      BY <2>2, <2>3, <2>4, <2>6, <2>7 DEF IInv
  <1>6. CASE /\ m_retry_counter' <= 0
             /\ terminate(t)
             /\ UNCHANGED <<tries, net>>
    BY <1>1, <1>2, <1>3, <1>4, <1>6, EndInPlace
  <1> QED
    BY <1>t, <1>5, <1>6 DEF on_send_timeout

\* What on_packet_received finds in its buffer is a packet, from the server
\* once there is one.
LEMMA WhatIsReceived ==
    ASSUME IInv, io.received # << >>, Received.op = "ACK"
    PROVE  /\ m_in.src \in Peers
           /\ m_request_complete => m_in.src = m_server_endpoint
           /\ m_in.pkt = Received
  <1>1. io.received \in Seq(Nat) /\ m_in.pkt \in Packet
    BY DEF IInv, StateOK, Endpoint
  <1>2. Head(io.received) \in Nat
    BY <1>1, HeadTailProperties
  <1>3. ~(m_request_complete /\ m_in.src # m_server_endpoint)
    BY DEF Received, InvalidPacket
  <1>4. Received = parse_packet(m_in.pkt, Head(io.received))
    BY <1>3 DEF Received
  <1>5. m_in.pkt = Received
    BY <1>1, <1>2, <1>4, ParsedAsReceived DEF Opcode
  <1> QED
    BY <1>3, <1>5 DEF IInv, Incoming

\* What the handler of an expected ACK starts from.
LEMMA ExpectedAckFacts ==
    ASSUME IInv, ExpectedAck, AcceptServer(m_in.src)
    PROVE  /\ resolver = "done" /\ take_received(io) \in Endpoint
           /\ m_request_complete' = TRUE
           /\ m_server_endpoint' \in Peers \cup {Server}
           /\ m_request_complete => m_server_endpoint' = m_server_endpoint
  <1>1. io \in Endpoint /\ io.received # << >>
    BY DEF IInv, StateOK, ExpectedAck
  <1>2. resolver = "done"
    BY <1>1, BusyMeansResolved DEF Quiet
  <1>3. take_received(io) \in Endpoint
    BY <1>1, HandlersKeepEndpoint
  <1>4. m_in.src \in Peers
    BY <1>1, WhatIsReceived DEF ExpectedAck
  <1> QED
    BY <1>2, <1>3, <1>4 DEF AcceptServer, IInv, StateOK

\* The end of the upload keeps the invariant.
LEMMA LastAcknowledgedInv == IInv /\ LastAcknowledged => IInv'
  <1> SUFFICES ASSUME IInv, LastAcknowledged PROVE IInv'
    OBVIOUS
  <1>1. /\ ExpectedAck /\ AcceptServer(m_in.src) /\ terminate(take_received(io))
        /\ UNCHANGED <<resolver, m_reader, pos, m_last_packet_sent,
                       m_last_sent_packet_id, sendVars, m_in, net>>
    BY DEF LastAcknowledged
  <1>2. /\ resolver = "done" /\ take_received(io) \in Endpoint
        /\ m_request_complete' = TRUE
        /\ m_server_endpoint' \in Peers \cup {Server}
        /\ m_request_complete => m_server_endpoint' = m_server_endpoint
        /\ io.received # << >>
    BY <1>1, ExpectedAckFacts DEF ExpectedAck
  <1>3. GoesOn /\ m_retry_counter' \in Int
    BY <1>1, <1>2 DEF IInv, StateOK, GoesOn, sendVars
  <1> QED
    BY <1>1, <1>2, <1>3, EndStep DEF sendVars

\* Sending the next block keeps the invariant: it is the block after the last
\* one, under the next number, and only the last one is short.
LEMMA ReadBlockInv == IInv /\ ReadBlock => IInv'
  <1> SUFFICES ASSUME IInv, ReadBlock PROVE IInv'
    OBVIOUS
  <1>1. /\ ExpectedAck /\ AcceptServer(m_in.src) /\ ~m_last_packet_sent
        /\ m_reader # "failed" /\ pos' = pos + 1
        /\ m_last_sent_packet_id' = NextBlock(m_last_sent_packet_id)
        /\ UNCHANGED <<resolver, m_reader, m_in>>
    BY DEF ReadBlock
  <1>2. /\ m_last_packet_sent' \in BOOLEAN
        /\ m_last_packet_sent' <=> SizeOf(pos + 1) < DEFAULT_DATA_SIZE
    <2>1. PICK short \in BOOLEAN : short <=> SizeOf(pos + 1) < DEFAULT_DATA_SIZE
      BY Zenon
    <2>2. m_last_packet_sent' = short
      BY <2>1 DEF ReadBlock
    <2> QED
      BY <2>1, <2>2, Zenon
  <1>3. /\ resolver = "done" /\ take_received(io) \in Endpoint
        /\ m_request_complete' = TRUE
        /\ m_server_endpoint' \in Peers \cup {Server}
        /\ m_request_complete => m_server_endpoint' = m_server_endpoint
        /\ io.received # << >>
    BY <1>1, ExpectedAckFacts DEF ExpectedAck
  <1>4. /\ pos \in Nat /\ pos < Blocks
        /\ m_reader \in {"unset", "null", "closed", "open", "failed"}
        /\ m_last_sent_packet_id \in 0 .. BlockModulus - 1
    BY <1>1 DEF IInv, StateOK, Position
  <1>5. GoesOn
    BY <1>1, <1>3, <1>4 DEF GoesOn
  <1>6. m_last_sent_packet_id' \in 0 .. BlockModulus - 1
    BY <1>1, <1>4, NextBlockType
  <1>7. m_last_sent_packet_id' = pos' % BlockModulus
    BY <1>1, <1>4, NextBlockCongruent DEF IInv, Position
  <1>8. SizeOf(pos + 1) \in Nat /\ (pos + 1 = Blocks => SizeOf(pos + 1) < DEFAULT_DATA_SIZE)
    BY <1>4, TftpAssumption, ClientPutAssumption DEF SizeOf
  <1>9. Position'
    BY <1>1, <1>2, <1>4, <1>7, <1>8, ClientPutAssumption DEF Position
  <1>p. PICK p : p = DataPacket(NextBlock(m_last_sent_packet_id), pos + 1, SizeOf(pos + 1))
    OBVIOUS
  <1>10. p \in Packet
    <2>1. NextBlock(m_last_sent_packet_id) \in Nat /\ pos + 1 \in Int
      BY <1>1, <1>4, <1>6, TftpAssumption
    <2> QED
      BY <1>p, <1>8, <2>1, PacketTypes
  <1>11. OfFile(p)'
    <2>1. p.data = pos + 1 /\ p.num = NextBlock(m_last_sent_packet_id)
      BY <1>p DEF DataPacket
    <2>2. DataSize(p) = SizeOf(p.data)
      BY <1>p, <1>8, <2>1 DEF DataPacket, DataSize, HeaderSize
    <2>3. p.data \in 1 .. pos'
      BY <1>1, <1>4, <2>1
    <2>4. p.num = p.data % BlockModulus
      BY <1>1, <1>7, <2>1, Zenon
    <2> QED
      BY <1>3, <2>2, <2>3, <2>4, Zenon DEF OfFile
  <1>12. send_packet(p, TRUE, DEFAULT_RETRY_COUNTER, m_server_endpoint', take_received(io))
    BY <1>p, Zenon DEF ReadBlock
  <1> QED
    BY <1>1, <1>2, <1>3, <1>4, <1>5, <1>6, <1>9, <1>10, <1>11, <1>12, SendStep

\* So does a read that fails.
LEMMA ReadFailsInv == IInv /\ ReadFails => IInv'
  <1> SUFFICES ASSUME IInv, ReadFails PROVE IInv'
    OBVIOUS
  <1>1. /\ ExpectedAck /\ AcceptServer(m_in.src) /\ ~m_last_packet_sent
        /\ m_reader' = "failed"
        /\ m_last_sent_packet_id' = NextBlock(m_last_sent_packet_id)
        /\ UNCHANGED <<resolver, pos, m_last_packet_sent, m_in>>
    BY DEF ReadFails
  <1>2. /\ resolver = "done" /\ take_received(io) \in Endpoint
        /\ m_request_complete' = TRUE
        /\ m_server_endpoint' \in Peers \cup {Server}
        /\ m_request_complete => m_server_endpoint' = m_server_endpoint
        /\ io.received # << >>
    BY <1>1, ExpectedAckFacts DEF ExpectedAck
  <1>3. GoesOn /\ m_last_packet_sent' \in BOOLEAN
    BY <1>1, <1>2 DEF IInv, StateOK, GoesOn
  <1>4. m_last_sent_packet_id' \in 0 .. BlockModulus - 1
    BY <1>1, NextBlockType DEF IInv, StateOK
  <1>5. Position'
    BY <1>1 DEF IInv, Position
  <1>p. PICK p : p = ErrorPacket(ERRCODE_UNDEFINED)
    OBVIOUS
  <1>6. p \in Packet /\ OfFile(p)'
    BY <1>p, PacketTypes DEF ERRCODE_UNDEFINED, OfFile, ErrorPacket
  <1>7. send_packet(p, FALSE, 0, m_server_endpoint', take_received(io))
    BY <1>p DEF ReadFails
  <1> QED
    BY <1>1, <1>2, <1>3, <1>4, <1>5, <1>6, <1>7, SendStep

\* on_packet_received for everything else.
LEMMA OnPacketReceivedInv ==
    IInv /\ (ReceiveFailed \/ process_error_received \/ PacketIgnored) => IInv'
  <1> SUFFICES ASSUME IInv, ReceiveFailed \/ process_error_received \/ PacketIgnored
               PROVE  IInv'
    OBVIOUS
  <1>1. io \in Endpoint /\ m_in.pkt \in Packet /\ m_retry_counter \in Int
    BY DEF IInv, StateOK
  <1>2. io.broken > 0 \/ io.received # << >>
    BY DEF ReceiveFailed, process_error_received, PacketIgnored
  <1>3. resolver = "done"
    BY <1>1, <1>2, BusyMeansResolved DEF Quiet, Endpoint
  <1>4. CASE ReceiveFailed
    <2>1. PICK t \in Endpoint : t.received = io.received /\ terminate(t)
      BY <1>1, <1>4, HandlersKeepEndpoint, WhatReceives DEF ReceiveFailed
    <2> QED
      BY <1>1, <1>3, <1>4, <2>1, EndInPlace DEF ReceiveFailed, sendVars
  <1>5. CASE process_error_received
    <2>1. io.received # << >> /\ \E t \in Endpoint : terminate(t)
      BY <1>1, <1>5, HandlersKeepEndpoint DEF process_error_received
    <2> QED
      BY <1>1, <1>3, <1>5, <2>1, EndInPlace DEF process_error_received, sendVars
  <1>6. CASE PacketIgnored
    <2>1. /\ io' \in Endpoint /\ io'.open = io.open /\ Driven(io') = Driven(io)
          /\ UNCHANGED <<resolver, readerVars, sendVars, m_in, net>>
      BY <1>1, <1>6, HandlersKeepEndpoint, SocketStaysOpen, WhatDrives
         DEF PacketIgnored
    <2>2. Incoming'
      BY <1>6, <2>1 DEF IInv, Incoming, PacketIgnored
    <2> QED
      BY <1>1, <1>3, <2>1, <2>2, FrameStep
  <1> QED
    BY <1>4, <1>5, <1>6

\* The kernel's steps keep the invariant.
LEMMA KernelInv == IInv /\ Kernel => IInv'
  <1> SUFFICES ASSUME IInv, Kernel PROVE IInv'
    OBVIOUS
  <1>1. io \in Endpoint /\ m_in.pkt \in Packet
    BY DEF IInv, StateOK
  <1>2. resolver = "done"
    BY <1>1, BusyMeansResolved DEF Kernel, TimerExpires, ReceiveBreaks, Quiet, Endpoint
  <1>3. /\ io' \in Endpoint /\ io'.open = io.open /\ (Driven(io) => Driven(io'))
        /\ io'.received = io.received
        /\ UNCHANGED <<resolver, readerVars, sendVars, m_in, net>>
    BY <1>1, KernelKeepsEndpoint, SocketStaysOpen, WhatDrives, WhatReceives
       DEF Kernel, TimerExpires, ReceiveBreaks
  <1>4. Incoming'
    BY <1>3 DEF IInv, Incoming
  <1> QED
    BY <1>1, <1>2, <1>3, <1>4, FrameStep

\* So does a datagram that reaches the client, from any peer.
LEMMA ReceiveInv ==
    ASSUME IInv, NEW d, Receive(d), d.src \in Peers, d.pkt \in Packet
    PROVE  IInv'
  <1>1. io \in Endpoint /\ d.pkt.len \in Nat
    BY DEF IInv, StateOK, Packet
  <1>2. /\ io' = complete_receive(io, d.pkt.len) /\ io.receives > 0
        /\ m_in' = [src |-> d.src, pkt |-> d.pkt]
        /\ UNCHANGED <<resolver, readerVars, sendVars, net>>
    BY DEF Receive
  <1>3. resolver = "done"
    BY <1>1, <1>2, BusyMeansResolved DEF Quiet, Endpoint
  <1>4. io' \in Endpoint /\ io'.open = io.open /\ Driven(io') = Driven(io)
    BY <1>1, <1>2, KernelKeepsEndpoint, SocketStaysOpen, WhatDrives
  <1>5. Incoming'
    BY <1>2 DEF Incoming
  <1> QED
    BY <1>2, <1>3, <1>4, <1>5, FrameStep

\* The client's own steps, whatever else is on the network.
LEMMA OwnStepInv == IInv /\ (Start \/ RunHandler \/ Kernel) => IInv'
  BY StartInv, OnResolveQueryInv, OnPacketSentInv, OnSendTimeoutInv, LastAcknowledgedInv,
     ReadBlockInv, ReadFailsInv, OnPacketReceivedInv, KernelInv
     DEF RunHandler

\* A step of others keeps the invariant: it puts no datagram of this client on
\* the network.
LEMMA StepOfOthersInv ==
    ASSUME IInv, UNCHANGED <<resolver, readerVars, sendVars, m_in, io>>,
           \A d \in net' : d.src = Self => d \in net
    PROVE  IInv'
  <1>1. GoesOn /\ m_out' = m_out
    BY DEF IInv, StateOK, GoesOn, readerVars, sendVars
  <1>2. OfFile(m_out)' /\ \A d \in net' : d.src = Self => OfFile(d.pkt)' /\ ToServer(d)'
    BY <1>1, OfFileStays, ToServerStays DEF IInv
  <1>3. StateOK' /\ BeforeAddress' /\ NeverAbandoned'
    BY DEF IInv, StateOK, BeforeAddress, NeverAbandoned, readerVars, sendVars
  <1>4. Budget' /\ Incoming' /\ Position'
    BY DEF IInv, Budget, Incoming, Position, readerVars, sendVars
  <1> QED
    BY <1>2, <1>3, <1>4 DEF IInv

\* The invariant is inductive.
LEMMA NextInv == IInv /\ [Next]_vars => IInv'
  <1> SUFFICES ASSUME IInv, [Next]_vars PROVE IInv'
    OBVIOUS
  <1>1. CASE UNCHANGED vars
    BY <1>1, StepOfOthersInv DEF vars
  <1>2. ASSUME NEW d \in Arrivals, Receive(d) PROVE IInv'
    BY <1>2, ReceiveInv, ClientPutAssumption
  <1> QED
    BY <1>1, <1>2, OwnStepInv DEF Next

\* All that is on the wire of a client alone are its own datagrams.
LEMMA WireInv == IInv' /\ net \subseteq Datagram /\ [Next]_vars => (net \subseteq Datagram)'
  <1> SUFFICES ASSUME IInv', net \subseteq Datagram, Next PROVE net' \subseteq Datagram
    BY DEF vars
  <1>1. [src |-> Self, dst |-> m_server_endpoint', pkt |-> m_out'] \in Datagram
    BY DEF IInv, StateOK, Datagram
  <1> QED
    BY <1>1, WhatIsSent
-----------------------------------------------------------------------------
\* The theorems.

\* The inductive invariant holds in every reachable state.
THEOREM Invariance == Spec => [](IInv /\ net \subseteq Datagram)
  <1>1. Init => IInv /\ net \subseteq Datagram
    <2> SUFFICES ASSUME Init PROVE IInv /\ net \subseteq Datagram
      OBVIOUS
    <2>1. net = {}
      BY DEF Init
    <2> QED
      BY <2>1, InitInv
  <1>2. (IInv /\ net \subseteq Datagram) /\ [Next]_vars => (IInv /\ net \subseteq Datagram)'
    BY NextInv, WireInv
  <1> QED
    BY <1>1, <1>2, PTL DEF Spec

\* Type correctness of the client and of what it puts on the wire.
THEOREM TypeCorrect == Spec => []TypeOK
  <1>1. IInv /\ net \subseteq Datagram => TypeOK
    BY DEF IInv, TypeOK
  <1> QED
    BY <1>1, Invariance, PTL

\* Whatever arrives or is lost, a client whose request went out and whose
\* socket is open has something that will run one of its handlers.
THEOREM ClientIsNeverAbandoned == Spec => []NeverAbandoned
  <1>1. IInv => NeverAbandoned
    BY DEF IInv
  <1> QED
    BY <1>1, Invariance, PTL

\* No packet is handed to the network more than DEFAULT_RETRY_COUNTER times.
THEOREM RetriesAreBounded == Spec => []RetryBudget
  <1>1. IInv => RetryBudget
    BY DEF IInv, Budget, RetryBudget
  <1> QED
    BY <1>1, Invariance, PTL

\* The DATA packets on the wire are the blocks of the file under their numbers,
\* and nothing is read past the end of the file.
THEOREM WireCarriesTheFile == Spec => []WireMatchesFile
  <1>1. IInv /\ net \subseteq Datagram => WireMatchesFile
    BY DEF IInv, Position, OfFile, Datagram, WireMatchesFile
  <1> QED
    BY <1>1, Invariance, PTL

\* All of the file goes to one endpoint, the one that was accepted.
THEOREM FileGoesToOneServer == Spec => []OneServer
  <1>1. IInv /\ net \subseteq Datagram => OneServer
    BY DEF IInv, ToServer, Datagram, OneServer
  <1> QED
    BY <1>1, Invariance, PTL
=============================================================================
