--------------------------- MODULE DownloadProofs ---------------------------
(***************************************************************************)
(* Proofs about the client of a download, and about a whole download.      *)
(*                                                                         *)
(* The first part is about ClientGet: that the client's side keeps its     *)
(* safety properties for every server, every set of datagrams that reach   *)
(* it, block size, retry limit and width of the block numbers.  It rests   *)
(* on the assumptions of ClientGet and Tftp only; what DownloadAssumption  *)
(* says of the constants that a download adds is never cited there.        *)
(*                                                                         *)
(* The inductive invariant IInv says, beyond the properties, what the      *)
(* number acknowledged last is in terms of the file, and that a client     *)
(* that has accepted no server has no writer and no file.  Of the network  *)
(* it speaks only of the client's own datagrams, so that it is one of a    *)
(* download too, where the network is shared.                              *)
(*                                                                         *)
(* The second part is about Download: that a download implements Transfer, *)
(* and that the client knows the end of the file but for a block that a    *)
(* burst cut short, for every file that is shorter than the block numbers  *)
(* wrap, every block size, retry limit, number of timeouts and number of   *)
(* datagrams that are received before a handler runs.                      *)
(*                                                                         *)
(* The inductive invariant DInv has the client's IInv, which holds here    *)
(* too since it speaks of the client's own datagrams only, and what ties   *)
(* the two sides together: what is on the wire and in the buffers of each  *)
(* is of the other's file.                                                 *)
(***************************************************************************)
EXTENDS Download, CommonProofs

\* Until the server's address is known there is nothing for a handler to do
\* but the resolver's.
BeforeAddress ==
    resolver # "done" => Quiet(io) /\ ~m_request_complete

\* What is left of the retry budget.
Budget ==
    /\ tries <= DEFAULT_RETRY_COUNTER
    /\ m_retry_counter > 0 => tries + m_retry_counter = DEFAULT_RETRY_COUNTER + 1

\* What is received comes from a peer, with a number of the wire's width.
Incoming ==
    /\ io.received # << >> => m_in.src \in Peers
    /\ m_in.pkt.op = "DATA" => m_in.pkt.num < BlockModulus

\* The file is opened with the first block, and without one nothing is written.
Writer ==
    /\ m_writer = "unset" <=> ~m_request_complete
    /\ m_writer \in {"unset", "closed"} => file = << >>

\* The next number to acknowledge is the one that must follow the file.
Owed == m_last_acked_packet_id + 1 = NumberAfter(Len(file))

\* While no write failed, the number acknowledged last counts the blocks.
Counted == m_writer # "failed" => m_last_acked_packet_id = Len(file)

\* If p acknowledges a block, that block is in the file.
Acked(p) ==
    p.op = "ACK" =>
        \E i \in DOMAIN file : file[i].num = p.num /\ file[i].whole

IInv ==
    /\ StateOK
    /\ BeforeAddress
    /\ NeverAbandoned
    /\ Budget
    /\ Incoming
    /\ Writer
    /\ Owed /\ Counted /\ InOrderOnce
    /\ OneServer
    /\ Acked(m_out)
    /\ \A d \in net : d.src = Self => Acked(d.pkt)

\* The file only grows at its end.
FileGrows ==
    /\ DOMAIN file \subseteq DOMAIN file'
    /\ \A i \in DOMAIN file : file'[i] = file[i]

\* What the file and the writer must satisfy.
FileInv == Writer /\ Owed /\ Counted /\ InOrderOnce /\ OneServer

\* A block that was acknowledged stays in a file that grows.
LEMMA AckedStays ==
    ASSUME FileGrows, NEW p, Acked(p)
    PROVE  Acked(p)'
  BY DEF FileGrows, Acked

\* What holds of the file stands as long as the file does.
LEMMA FileStays ==
    ASSUME UNCHANGED writerVars, FileInv
    PROVE  FileInv' /\ FileGrows
  <1>1. \A i : NumberAfter(i)' = NumberAfter(i)
    BY DEF NumberAfter, writerVars
  <1>2. Owed' /\ InOrderOnce'
    BY <1>1 DEF FileInv, Owed, InOrderOnce, writerVars
  <1>3. Writer' /\ Counted' /\ OneServer' /\ FileGrows
    BY DEF FileInv, Writer, Counted, OneServer, FileGrows, writerVars
  <1> QED
    BY <1>2, <1>3 DEF FileInv
-----------------------------------------------------------------------------
\* What goes on the wire.

\* What handing a packet to ASIO does to the endpoint and the wire.
LEMMA SendPrepared ==
    ASSUME NEW p, NEW dst, NEW s \in Endpoint, send_prepared_packet(p, dst, s)
    PROVE  /\ io' \in Endpoint /\ io'.open = s.open /\ Driven(io')
           /\ io'.received = s.received
           /\ \A d \in net' : d \in net \/ d = [src |-> Self, dst |-> dst, pkt |-> p]
  <1>1. PICK accepted \in BOOLEAN :
            /\ io' = async_send_to(s, accepted)
            /\ net' = IF s.open /\ accepted
                      THEN net \cup {[src |-> Self, dst |-> dst, pkt |-> p]}
                      ELSE net
    BY DEF send_prepared_packet
  <1>2. /\ io' \in Endpoint /\ io'.open = s.open /\ Driven(io')
        /\ io'.received = s.received
    BY <1>1, CallsKeepEndpoint, SocketStaysOpen, WhatDrives, WhatReceives
  <1> QED
    BY <1>1, <1>2

\* Whatever a handler puts on the wire is m_out_packet_data, on its way to
\* m_server_endpoint.
LEMMA WhatIsSent ==
    ASSUME Next
    PROVE  \A d \in net' :
               d \in net \/ d = [src |-> Self, dst |-> m_server_endpoint', pkt |-> m_out']
  <1>1. ASSUME NEW p, NEW dst, NEW s, send_prepared_packet(p, dst, s),
               p = m_out', dst = m_server_endpoint'
        PROVE  \A d \in net' :
                   d \in net \/ d = [src |-> Self, dst |-> m_server_endpoint', pkt |-> m_out']
    BY <1>1 DEF send_prepared_packet
  <1>2. CASE on_resolve_query
    BY <1>1, <1>2 DEF on_resolve_query, send_packet
  <1>3. CASE on_send_timeout
    <2>1. m_out' = m_out /\ m_server_endpoint' = m_server_endpoint
      BY <1>3 DEF on_send_timeout, writerVars
    <2> QED
      BY <1>1, <1>3, <2>1 DEF on_send_timeout
  <1>4. CASE CannotOpen \/ StoreAndAck \/ RefuseData
    <2>1. PICK p, s : m_out' = p /\ send_prepared_packet(p, m_server_endpoint', s)
      BY <1>4 DEF CannotOpen, StoreAndAck, RefuseData, send_packet
    <2> QED
      BY <1>1, <2>1
  <1>5. CASE UNCHANGED net
    BY <1>5
  <1> QED
    BY <1>2, <1>3, <1>4, <1>5
       DEF Next, Start, RunHandler, AwaitResponse, FinishSending, SendFailed,
           ReceiveFailed, process_error_received, PacketIgnored, Kernel,
           TimerExpires, ReceiveBreaks, Receive
-----------------------------------------------------------------------------
\* Kinds of steps.

\* A step that only moves completions keeps the invariant if it opens no
\* socket and leaves something to drive the client.
LEMMA FrameStep ==
    ASSUME IInv, resolver = "done",
           UNCHANGED <<resolver, writerVars, sendVars>>,
           \A d \in net' : d.src = Self => d \in net,
           m_in'.pkt \in Packet, Incoming',
           io' \in Endpoint, io'.open = io.open, Driven(io) => Driven(io')
    PROVE  IInv'
  <1>1. StateOK'
    BY DEF IInv, StateOK, writerVars, sendVars
  <1>2. BeforeAddress' /\ NeverAbandoned'
    BY DEF IInv, BeforeAddress, NeverAbandoned
  <1>3. Budget'
    BY DEF IInv, Budget, sendVars
  <1>4. FileInv' /\ FileGrows
    BY FileStays DEF IInv, FileInv
  <1>5. m_out' = m_out
    BY DEF sendVars
  <1>6. Acked(m_out)' /\ \A d \in net' : d.src = Self => Acked(d.pkt)'
    BY <1>4, <1>5, AckedStays DEF IInv
  <1> QED
    BY <1>1, <1>2, <1>3, <1>4, <1>6 DEF IInv, FileInv

\* A handler that terminates keeps the invariant, from any endpoint "s" it
\* has left so far.
LEMMA EndStep ==
    ASSUME IInv, resolver = "done",
           NEW s \in Endpoint, terminate(s),
           s.received # << >> => io.received # << >>,
           UNCHANGED <<resolver, writerVars, m_response_expected, m_out, tries, m_in, net>>,
           m_retry_counter' \in Int,
           m_retry_counter' = m_retry_counter \/ m_retry_counter' <= 0
    PROVE  IInv'
  <1>1. io' \in Endpoint /\ ~io'.open /\ io'.received = s.received
    <2>c. PICK c : c = cancel_timer(s)
      OBVIOUS
    <2>1. c \in Endpoint /\ c.received = s.received /\ io' = close_socket(c)
      BY <2>c, CallsKeepEndpoint, WhatReceives DEF terminate
    <2> QED
      BY <2>1, CallsKeepEndpoint, SocketStaysOpen, WhatReceives
  <1>2. StateOK'
    BY <1>1 DEF IInv, StateOK, writerVars
  <1>3. BeforeAddress' /\ NeverAbandoned'
    BY <1>1 DEF BeforeAddress, NeverAbandoned
  <1>4. Budget'
    BY DEF IInv, StateOK, Budget
  <1>5. Incoming'
    BY <1>1 DEF IInv, Incoming
  <1>6. FileInv' /\ FileGrows
    BY FileStays DEF IInv, FileInv
  <1>7. Acked(m_out)' /\ \A d \in net' : d.src = Self => Acked(d.pkt)'
    BY <1>6, AckedStays DEF IInv
  <1> QED
    BY <1>2, <1>3, <1>4, <1>5, <1>6, <1>7 DEF IInv, FileInv

\* A handler that sends a request, an ERROR, or an ACK for a block that is in
\* the file, keeps the invariant if the file only grows.
LEMMA SendStep ==
    ASSUME IInv, resolver' = "done",
           NEW s \in Endpoint, s.received # << >> => io.received # << >>,
           NEW p \in Packet, NEW response_expected \in BOOLEAN,
           NEW retry_counter \in {0, DEFAULT_RETRY_COUNTER}, NEW dst,
           send_packet(p, response_expected, retry_counter, dst, s),
           m_server_endpoint' \in Peers \cup {Server},
           m_request_complete' \in BOOLEAN,
           m_writer' \in {"unset", "closed", "open", "failed"},
           file' \in Seq(Block), FileGrows,
           m_last_acked_packet_id' \in 0 .. BlockModulus - 1,
           FileInv', Acked(p)', m_in' = m_in
    PROVE  IInv'
  <1>1. /\ m_out' = p /\ tries' = 1 /\ m_retry_counter' = retry_counter
        /\ m_response_expected' = response_expected
        /\ send_prepared_packet(p, dst, s)
    BY DEF send_packet
  <1>2. /\ io' \in Endpoint /\ Driven(io') /\ io'.received = s.received
        /\ \A d \in net' : d \in net \/ d = [src |-> Self, dst |-> dst, pkt |-> p]
    BY <1>1, SendPrepared
  <1>3. StateOK'
    <2>1. m_retry_counter' \in Int
      BY <1>1, TftpAssumption
    <2> QED
      BY <1>1, <1>2, <2>1 DEF IInv, StateOK
  <1>4. BeforeAddress' /\ NeverAbandoned'
    BY <1>2 DEF BeforeAddress, NeverAbandoned
  <1>5. Budget'
    BY <1>1, TftpAssumption DEF Budget
  <1>6. Incoming'
    BY <1>2 DEF IInv, Incoming
  <1>7. Acked(m_out)' /\ \A d \in net' : d.src = Self => Acked(d.pkt)'
    <2>1. ASSUME NEW d \in net', d.src = Self PROVE Acked(d.pkt)'
      <3>1. CASE d \in net
        BY <2>1, <3>1, AckedStays DEF IInv
      <3>2. CASE d = [src |-> Self, dst |-> dst, pkt |-> p]
        BY <3>2 DEF Acked
      <3> QED
        BY <1>2, <3>1, <3>2
    <2> QED
      BY <1>1, <2>1
  <1> QED
    BY <1>3, <1>4, <1>5, <1>6, <1>7 DEF IInv, FileInv
-----------------------------------------------------------------------------
\* The invariant holds at first, and every step keeps it: one lemma per group
\* of handlers.

\* The invariant holds of a client that was just constructed.
LEMMA InitInv ==
    ASSUME Init, \A d \in net : d.src # Self
    PROVE  IInv
  <1>1. StateOK
    <2>1. io \in Endpoint /\ m_out \in Packet /\ m_in.pkt \in Packet
      BY UnopenedEndpoint, PacketTypes DEF Init
    <2>2. m_last_acked_packet_id \in 0 .. BlockModulus - 1
      BY TftpAssumption DEF Init
    <2>3. 0 \in Nat /\ 0 \in Int /\ << >> \in Seq(Block)
      BY EmptySeq
    <2> QED
      BY <2>1, <2>2, <2>3, Zenon DEF Init, StateOK
  <1>2. BeforeAddress /\ NeverAbandoned /\ Budget
    BY UnopenedEndpoint, TftpAssumption DEF Init, BeforeAddress, NeverAbandoned, Budget
  <1>3. Incoming
    BY DEF Init, Incoming, Unopened, InvalidPacket
  <1>4. FileInv
    BY DEF Init, FileInv, Writer, Owed, Counted, InOrderOnce, OneServer, NumberAfter
  <1>5. Acked(m_out) /\ \A d \in net : d.src = Self => Acked(d.pkt)
    BY DEF Init, Acked, InvalidPacket
  <1> QED
    BY <1>1, <1>2, <1>3, <1>4, <1>5 DEF IInv, FileInv

\* A completion to handle, a wait or a pending receive is there only once the
\* request was sent.
LEMMA BusyMeansResolved ==
    ASSUME IInv, ~Quiet(io)
    PROVE  resolver = "done"
  BY DEF IInv, BeforeAddress

\* start() keeps the invariant.
LEMMA StartInv == IInv /\ Start => IInv'
  <1> SUFFICES ASSUME IInv, Start PROVE IInv'
    OBVIOUS
  <1>1. /\ resolver' \in {"pending", "failed"} /\ resolver = "idle"
        /\ UNCHANGED <<writerVars, sendVars, m_in, net>>
        /\ io' = io \/ io' = open_socket(io)
    BY DEF Start
  <1>2. io \in Endpoint /\ Quiet(io) /\ io.received = << >>
    BY <1>1 DEF IInv, StateOK, BeforeAddress, Quiet
  <1>3. io' \in Endpoint /\ Quiet(io') /\ io'.received = << >>
    <2>1. CASE io' = open_socket(io)
      <3>1. io' \in Endpoint /\ io'.received = << >>
        BY <1>2, <2>1, CallsKeepEndpoint, WhatReceives
      <3>2. Quiet(io')
        BY <1>2, <2>1 DEF Quiet, open_socket, Endpoint
      <3> QED
        BY <3>1, <3>2
    <2> QED
      BY <1>1, <1>2, <2>1
  <1>4. StateOK'
    BY <1>1, <1>3 DEF IInv, StateOK, writerVars, sendVars
  <1>5. BeforeAddress' /\ NeverAbandoned' /\ Budget'
    BY <1>1, <1>3
       DEF IInv, BeforeAddress, NeverAbandoned, Budget, writerVars, sendVars
  <1>6. Incoming'
    BY <1>1, <1>3 DEF IInv, Incoming
  <1>7. FileInv' /\ FileGrows
    BY <1>1, FileStays DEF IInv, FileInv
  <1>8. Acked(m_out)' /\ \A d \in net' : d.src = Self => Acked(d.pkt)'
    BY <1>1, <1>7, AckedStays DEF IInv, sendVars
  <1> QED
    BY <1>4, <1>5, <1>6, <1>7, <1>8 DEF IInv, FileInv

\* on_resolve_query keeps the invariant: it sends the request, or gives up.
LEMMA OnResolveQueryInv == IInv /\ on_resolve_query => IInv'
  <1> SUFFICES ASSUME IInv, on_resolve_query PROVE IInv'
    OBVIOUS
  <1>1. /\ resolver = "pending" /\ io \in Endpoint
        /\ UNCHANGED <<m_request_complete, m_writer, file, m_last_acked_packet_id, m_in>>
    BY DEF on_resolve_query, IInv, StateOK
  <1>2. ~m_request_complete /\ file = << >>
    BY <1>1 DEF IInv, BeforeAddress, Writer
  <1>3. \A i : NumberAfter(i)' = NumberAfter(i)
    BY <1>1 DEF NumberAfter
  <1>4. FileInv' /\ FileGrows
    <2>1. Owed' /\ InOrderOnce'
      BY <1>1, <1>3 DEF IInv, Owed, InOrderOnce
    <2>2. Writer' /\ Counted' /\ OneServer' /\ FileGrows
      BY <1>1, <1>2 DEF IInv, Writer, Counted, OneServer, FileGrows
    <2> QED
      BY <2>1, <2>2 DEF FileInv
  <1>5. CASE /\ resolver' = "done"
             /\ m_server_endpoint' = Server
             /\ send_packet(RequestPacket("RRQ"), TRUE, DEFAULT_RETRY_COUNTER, Server, io)
    <2>p. PICK p : p = RequestPacket("RRQ")
      OBVIOUS
    <2>1. p \in Packet /\ Acked(p)'
      BY <2>p, PacketTypes DEF Acked, RequestPacket
    <2>2. /\ m_server_endpoint' \in Peers \cup {Server}
          /\ m_request_complete' \in BOOLEAN
          /\ m_writer' \in {"unset", "closed", "open", "failed"}
          /\ file' \in Seq(Block)
          /\ m_last_acked_packet_id' \in 0 .. BlockModulus - 1
      BY <1>1, <1>5 DEF IInv, StateOK
    <2>3. send_packet(p, TRUE, DEFAULT_RETRY_COUNTER, Server, io)
      BY <1>5, <2>p
    <2> QED
      BY <1>1, <1>4, <1>5, <2>1, <2>2, <2>3, SendStep
  <1>6. CASE resolver' = "failed" /\ UNCHANGED <<m_server_endpoint, sendVars, io, net>>
    <2>1. StateOK'
      BY <1>1, <1>6 DEF IInv, StateOK, sendVars
    <2>2. BeforeAddress' /\ NeverAbandoned' /\ Budget' /\ Incoming'
      BY <1>1, <1>6
         DEF IInv, BeforeAddress, NeverAbandoned, Budget, Incoming, Quiet, sendVars
    <2>3. Acked(m_out)' /\ \A d \in net' : d.src = Self => Acked(d.pkt)'
      BY <1>4, <1>6, AckedStays DEF IInv, sendVars
    <2> QED
      BY <1>4, <2>1, <2>2, <2>3 DEF IInv, FileInv
  <1> QED
    BY <1>5, <1>6 DEF on_resolve_query

\* on_packet_sent keeps the invariant.
LEMMA OnPacketSentInv ==
    IInv /\ (AwaitResponse \/ FinishSending \/ SendFailed) => IInv'
  <1> SUFFICES ASSUME IInv, AwaitResponse \/ FinishSending \/ SendFailed
               PROVE  IInv'
    OBVIOUS
  <1>1. io \in Endpoint /\ m_in.pkt \in Packet /\ m_retry_counter \in Int
    BY DEF IInv, StateOK
  <1>2. resolver = "done"
    BY <1>1, BusyMeansResolved
       DEF AwaitResponse, FinishSending, SendFailed, Quiet, Endpoint
  <1>3. CASE AwaitResponse
    <2>t. PICK t : t = take_sent(io)
      OBVIOUS
    <2>1. t \in Endpoint /\ t.open = io.open /\ t.received = io.received
      BY <1>1, <1>3, <2>t, HandlersKeepEndpoint, SocketStaysOpen, WhatReceives
         DEF AwaitResponse
    <2>u. PICK u : u = restart_timer(t)
      OBVIOUS
    <2>2. u \in Endpoint /\ u.open = io.open /\ u.received = io.received
      BY <2>1, <2>u, CallsKeepEndpoint, SocketStaysOpen, WhatReceives
    <2>3. io' = async_receive_from(u) /\ UNCHANGED <<resolver, writerVars, sendVars, m_in, net>>
      BY <1>3, <2>t, <2>u DEF AwaitResponse
    <2>4. io' \in Endpoint /\ io'.open = io.open /\ io'.received = io.received
      BY <2>2, <2>3, CallsKeepEndpoint, SocketStaysOpen, WhatReceives
    <2>5. Driven(io')
      BY <2>1, <2>u, <2>3, WhatDrives
    <2>6. Incoming'
      BY <2>3, <2>4 DEF IInv, Incoming
    <2> QED
      BY <1>1, <1>2, <2>3, <2>4, <2>5, <2>6, FrameStep
  <1>4. CASE FinishSending \/ SendFailed
    <2>1. PICK t \in Endpoint : t.received = io.received /\ terminate(t)
      BY <1>1, <1>4, HandlersKeepEndpoint, WhatReceives DEF FinishSending, SendFailed
    <2> QED
      BY <1>1, <1>2, <1>4, <2>1, EndStep DEF FinishSending, SendFailed, sendVars
  <1> QED
    BY <1>3, <1>4

\* on_send_timeout keeps the invariant: the packet sent again is the one that
\* was sent before, and one try of the budget is used.
LEMMA OnSendTimeoutInv == IInv /\ on_send_timeout => IInv'
  <1> SUFFICES ASSUME IInv, on_send_timeout PROVE IInv'
    OBVIOUS
  <1>1. io \in Endpoint /\ m_retry_counter \in Int /\ m_out \in Packet /\ tries \in Nat
    BY DEF IInv, StateOK
  <1>2. /\ io.expired > 0 /\ m_retry_counter' = m_retry_counter - 1
        /\ UNCHANGED <<resolver, writerVars, m_response_expected, m_out, m_in>>
    BY DEF on_send_timeout
  <1>3. resolver = "done"
    BY <1>1, <1>2, BusyMeansResolved DEF Quiet, Endpoint
  <1>t. PICK t : t = take_expired(io)
    OBVIOUS
  <1>4. t \in Endpoint /\ t.open = io.open /\ t.received = io.received
    BY <1>1, <1>2, <1>t, HandlersKeepEndpoint, SocketStaysOpen, WhatReceives
  <1>5. CASE /\ m_retry_counter' > 0
             /\ tries' = tries + 1
             /\ send_prepared_packet(m_out, m_server_endpoint, t)
    <2>1. /\ io' \in Endpoint /\ Driven(io') /\ io'.received = io.received
          /\ \A d \in net' :
                d \in net \/ d = [src |-> Self, dst |-> m_server_endpoint, pkt |-> m_out]
      BY <1>4, <1>5, SendPrepared
    <2>2. StateOK'
      BY <1>1, <1>2, <1>5, <2>1 DEF IInv, StateOK, writerVars
    <2>3. BeforeAddress' /\ NeverAbandoned' /\ Incoming'
      BY <1>2, <1>3, <2>1 DEF IInv, BeforeAddress, NeverAbandoned, Incoming
    <2>4. Budget'
      BY <1>1, <1>2, <1>5, TftpAssumption DEF IInv, Budget
    <2>5. FileInv' /\ FileGrows
      BY <1>2, FileStays DEF IInv, FileInv
    <2>6. Acked(m_out)'
      BY <1>2, <2>5, AckedStays DEF IInv
    <2>7. ASSUME NEW d \in net', d.src = Self PROVE Acked(d.pkt)'
      BY <1>2, <2>1, <2>5, <2>6, <2>7, AckedStays DEF IInv
    <2> QED
      BY <2>2, <2>3, <2>4, <2>5, <2>6, <2>7 DEF IInv, FileInv
  <1>6. CASE /\ m_retry_counter' <= 0
             /\ terminate(t)
             /\ UNCHANGED <<tries, net>>
    BY <1>1, <1>2, <1>3, <1>4, <1>6, EndStep
  <1> QED
    BY <1>t, <1>5, <1>6 DEF on_send_timeout

\* What on_packet_received finds in its buffer: a packet, and a DATA packet
\* only from a peer, from the server once there is one, and with a number of
\* the wire's width.
LEMMA WhatIsReceived ==
    ASSUME IInv, io.received # << >>
    PROVE  /\ Received \in Packet
           /\ Received.op = "DATA" =>
                 /\ m_in.src \in Peers
                 /\ m_request_complete => m_in.src = m_server_endpoint
                 /\ m_in.pkt.op = "DATA" /\ Received.num = m_in.pkt.num
                 /\ Received.num < BlockModulus
                 /\ Received.len = Head(io.received)
                 /\ \/ Received.data = Garbled
                    \/ /\ Head(io.received) = m_in.pkt.len
                       /\ Received.data = m_in.pkt.data
  <1>1. io.received \in Seq(Nat) /\ m_in.pkt \in Packet
    BY DEF IInv, StateOK, Endpoint
  <1>2. Head(io.received) \in Nat
    BY <1>1, HeadTailProperties
  <1>3. CASE m_request_complete /\ m_in.src # m_server_endpoint
    BY <1>3, PacketTypes DEF Received, InvalidPacket
  <1>4. CASE ~(m_request_complete /\ m_in.src # m_server_endpoint)
    <2>q. PICK q : q = parse_packet(m_in.pkt, Head(io.received))
      OBVIOUS
    <2>1. Received = q
      BY <1>4, <2>q DEF Received
    <2>2. q \in Packet
      BY <1>1, <1>2, <2>q, ParsedPacket
    <2>3. q.op = "DATA" =>
             /\ m_in.pkt.op = "DATA" /\ q.num = m_in.pkt.num /\ q.len = Head(io.received)
             /\ \/ q.data = Garbled
                \/ Head(io.received) = m_in.pkt.len /\ q.data = m_in.pkt.data
      BY <1>1, <1>2, <2>q, ParsedAsReceived
    <2> QED
      BY <1>4, <2>1, <2>2, <2>3 DEF IInv, Incoming
  <1> QED
    BY <1>3, <1>4

\* The file after a block was written, whole or in part, has the block at its
\* end and is otherwise unchanged.
LEMMA BlockWritten ==
    ASSUME IInv, NEW p \in Packet, NEW whole \in BOOLEAN, m_in.src \in Peers,
           file' = Append(file, BlockOf(p, whole))
    PROVE  /\ file' \in Seq(Block) /\ FileGrows
           /\ Len(file) \in Nat /\ Len(file') = Len(file) + 1
           /\ DOMAIN file = 1 .. Len(file) /\ DOMAIN file' = 1 .. Len(file) + 1
           /\ file'[Len(file) + 1] = BlockOf(p, whole)
  <1>1. file \in Seq(Block)
    BY DEF IInv, StateOK
  <1>2. BlockOf(p, whole) \in Block
    BY DEF BlockOf, Block, Packet, DataSize, HeaderSize
  <1>3. /\ file' \in Seq(Block) /\ Len(file') = Len(file) + 1
        /\ \A i \in 1 .. Len(file) : file'[i] = file[i]
        /\ file'[Len(file) + 1] = BlockOf(p, whole)
    BY <1>1, <1>2, AppendProperties
  <1>4. DOMAIN file = 1 .. Len(file) /\ DOMAIN file' = 1 .. Len(file') /\ Len(file) \in Nat
    BY <1>1, <1>3, LenProperties
  <1>5. FileGrows
    BY <1>3, <1>4 DEF FileGrows
  <1> QED
    BY <1>3, <1>4, <1>5

\* The block expected is in order at the end of the file, whole or in part,
\* and comes from the server like those before it, but for stale bytes at its
\* end.
LEMMA BlockInOrder ==
    ASSUME IInv, NEW p \in Packet, NEW whole \in BOOLEAN, m_in.src \in Peers,
           p.num = m_last_acked_packet_id + 1,
           AcceptServer(m_in.src), m_request_complete => m_in.src = m_server_endpoint,
           file' = Append(file, BlockOf(p, whole))
    PROVE  /\ \A i \in DOMAIN file' : file'[i].num = NumberAfter(i - 1)'
           /\ NumberAfter(Len(file))' = IF whole THEN p.num + 1 ELSE p.num
           /\ OneServer'
  <1>1. /\ file' \in Seq(Block) /\ FileGrows
        /\ Len(file) \in Nat /\ Len(file') = Len(file) + 1
        /\ DOMAIN file = 1 .. Len(file) /\ DOMAIN file' = 1 .. Len(file) + 1
        /\ file'[Len(file) + 1] = BlockOf(p, whole)
    BY BlockWritten
  <1>2. ASSUME NEW i \in 0 .. Len(file) PROVE NumberAfter(i)' = NumberAfter(i)
    BY <1>1 DEF FileGrows, NumberAfter
  <1>3. NumberAfter(Len(file))' = IF whole THEN p.num + 1 ELSE p.num
    BY <1>1 DEF NumberAfter, BlockOf
  <1>4. p.num = NumberAfter(Len(file))
    BY DEF IInv, Owed
  <1>5. ASSUME NEW i \in 1 .. Len(file) + 1 PROVE file'[i].num = NumberAfter(i - 1)'
    <2>1. NumberAfter(i - 1)' = NumberAfter(i - 1)
      BY <1>1, <1>2
    <2>2. CASE i \in 1 .. Len(file)
      BY <1>1, <2>1, <2>2 DEF IInv, InOrderOnce, FileGrows
    <2>3. CASE i = Len(file) + 1
      <3>1. i - 1 = Len(file)
        BY <1>1, <2>3
      <3> QED
        BY <1>1, <1>4, <2>1, <2>3, <3>1 DEF BlockOf
    <2> QED
      BY <1>1, <2>2, <2>3
  <1>6. ASSUME NEW i \in 1 .. Len(file) + 1 PROVE file'[i].src \in {m_server_endpoint', Garbled}
    <2>1. m_server_endpoint' = m_in.src
      BY DEF AcceptServer
    <2>2. CASE i = Len(file) + 1
      BY <1>1, <2>1, <2>2 DEF BlockOf
    <2>3. CASE i \in 1 .. Len(file)
      <3>1. file # << >>
        BY <1>1, <2>3
      <3>2. m_request_complete
        BY <3>1 DEF IInv, Writer
      <3> QED
        BY <1>1, <2>1, <2>3, <3>2 DEF IInv, OneServer, FileGrows
    <2> QED
      BY <1>1, <2>2, <2>3
  <1> QED
    BY <1>1, <1>3, <1>5, <1>6 DEF OneServer

\* What the handler of an expected block starts from.
LEMMA ExpectedDataFacts ==
    ASSUME IInv, ExpectedData, AcceptServer(m_in.src), NEW p, p = Received
    PROVE  /\ resolver = "done" /\ io \in Endpoint
           /\ take_received(io) \in Endpoint
           /\ p \in Packet /\ p.num = m_last_acked_packet_id + 1
           /\ p.num \in 0 .. BlockModulus - 1
           /\ m_in.src \in Peers
           /\ m_request_complete => m_in.src = m_server_endpoint
           /\ m_request_complete' = TRUE
           /\ m_server_endpoint' = m_in.src
  <1>1. io \in Endpoint /\ io.received # << >> /\ m_last_acked_packet_id \in 0 .. BlockModulus - 1
    BY DEF IInv, StateOK, ExpectedData
  <1>2. resolver = "done"
    BY <1>1, BusyMeansResolved DEF Quiet
  <1>3. take_received(io) \in Endpoint
    BY <1>1, HandlersKeepEndpoint
  <1>4. /\ p \in Packet /\ p.num = m_last_acked_packet_id + 1 /\ p.num < BlockModulus
        /\ m_in.src \in Peers
        /\ m_request_complete => m_in.src = m_server_endpoint
    BY <1>1, WhatIsReceived DEF ExpectedData
  <1>5. p.num \in 0 .. BlockModulus - 1
    BY <1>1, <1>4, TftpAssumption
  <1>6. m_request_complete' = TRUE /\ m_server_endpoint' = m_in.src
    BY <1>4 DEF AcceptServer
  <1> QED
    BY <1>1, <1>2, <1>3, <1>4, <1>5, <1>6

\* The answer to an expected block keeps the invariant.
LEMMA AnswerInv ==
    ASSUME IInv, ExpectedData, AcceptServer(m_in.src),
           NEW p \in Packet, NEW response_expected \in BOOLEAN,
           NEW retry_counter \in {0, DEFAULT_RETRY_COUNTER},
           send_packet(p, response_expected, retry_counter, m_server_endpoint',
                       take_received(io)),
           m_writer' \in {"closed", "open", "failed"},
           file' \in Seq(Block), FileGrows,
           m_last_acked_packet_id' \in 0 .. BlockModulus - 1,
           FileInv', Acked(p)', UNCHANGED <<resolver, m_in>>
    PROVE  IInv'
  <1>1. /\ resolver = "done" /\ take_received(io) \in Endpoint
        /\ m_request_complete' = TRUE
        /\ m_server_endpoint' \in Peers \cup {Server}
    BY ExpectedDataFacts
  <1>2. io.received # << >>
    BY DEF ExpectedData
  <1> QED
    BY <1>1, <1>2, SendStep

\* A client that cannot open its file keeps the invariant.
LEMMA CannotOpenInv == IInv /\ CannotOpen => IInv'
  <1> SUFFICES ASSUME IInv, CannotOpen PROVE IInv'
    OBVIOUS
  <1>1. /\ ExpectedData /\ AcceptServer(m_in.src) /\ m_writer' = "closed"
        /\ UNCHANGED <<resolver, file, m_last_acked_packet_id, m_in>>
        /\ ~m_request_complete
    BY DEF CannotOpen
  <1>2. /\ file = << >> /\ file \in Seq(Block)
        /\ m_last_acked_packet_id \in 0 .. BlockModulus - 1
    BY <1>1 DEF IInv, StateOK, Writer
  <1>3. m_request_complete' = TRUE
    BY <1>1 DEF AcceptServer
  <1>4. \A i : NumberAfter(i)' = NumberAfter(i)
    BY <1>1 DEF NumberAfter
  <1>5. FileInv' /\ FileGrows
    <2>1. Owed' /\ InOrderOnce'
      BY <1>1, <1>2, <1>4 DEF IInv, Owed, InOrderOnce
    <2>2. Writer' /\ OneServer' /\ FileGrows
      BY <1>1, <1>2, <1>3 DEF Writer, OneServer, FileGrows
    <2>3. m_writer # "failed"
      BY <1>1 DEF IInv, Writer
    <2>4. Counted'
      BY <1>1, <2>3 DEF IInv, Counted
    <2> QED
      BY <2>1, <2>2, <2>4 DEF FileInv
  <1>p. PICK p : p = ErrorPacket(ERRCODE_ACCESS_VIOLATION)
    OBVIOUS
  <1>6. p \in Packet /\ Acked(p)'
    BY <1>p, PacketTypes DEF ERRCODE_ACCESS_VIOLATION, Acked, ErrorPacket
  <1>7. send_packet(p, FALSE, 0, m_server_endpoint', take_received(io))
    BY <1>p DEF CannotOpen
  <1> QED
    BY <1>1, <1>2, <1>5, <1>6, <1>7, AnswerInv

\* Storing the expected block and acknowledging it keeps the invariant.
LEMMA StoreAndAckInv == IInv /\ StoreAndAck => IInv'
  <1> SUFFICES ASSUME IInv, StoreAndAck PROVE IInv'
    OBVIOUS
  <1>p. PICK p : p = Received
    OBVIOUS
  <1>1. /\ ExpectedData /\ AcceptServer(m_in.src) /\ UNCHANGED <<resolver, m_in>>
        /\ m_writer' \in {"open", "failed"} /\ WriterOpened(m_writer')
        /\ file' = Append(file, BlockOf(p, TRUE))
        /\ m_last_acked_packet_id' = p.num
    BY <1>p DEF StoreAndAck
  <1>2. /\ p \in Packet /\ p.num = m_last_acked_packet_id + 1
        /\ p.num \in 0 .. BlockModulus - 1
        /\ m_in.src \in Peers
        /\ m_request_complete => m_in.src = m_server_endpoint
        /\ m_request_complete' = TRUE
    BY <1>1, <1>p, ExpectedDataFacts
  <1>3. /\ file' \in Seq(Block) /\ FileGrows
        /\ Len(file) \in Nat /\ Len(file') = Len(file) + 1
        /\ DOMAIN file = 1 .. Len(file) /\ DOMAIN file' = 1 .. Len(file) + 1
        /\ file'[Len(file) + 1] = BlockOf(p, TRUE)
    BY <1>1, <1>2, BlockWritten
  <1>4. /\ \A i \in DOMAIN file' : file'[i].num = NumberAfter(i - 1)'
        /\ NumberAfter(Len(file))' = p.num + 1
        /\ OneServer'
    BY <1>1, <1>2, BlockInOrder
  <1>5. m_writer' # "failed" => m_writer # "failed"
    BY <1>1 DEF WriterOpened, IInv, Writer
  <1>6. Writer' /\ Owed' /\ Counted'
    <2>1. Writer'
      BY <1>1, <1>2 DEF Writer
    <2>2. Owed'
      BY <1>1, <1>4 DEF Owed
    <2>3. Counted'
      BY <1>1, <1>2, <1>3, <1>5 DEF IInv, Counted
    <2> QED
      BY <2>1, <2>2, <2>3
  <1>7. InOrderOnce'
    <2>1. ASSUME m_writer' # "failed", NEW i \in DOMAIN file' PROVE file'[i].num = i
      <3>1. m_writer # "failed" /\ p.num = Len(file) + 1
        BY <1>2, <1>5, <2>1 DEF IInv, Counted
      <3>2. CASE i \in 1 .. Len(file)
        BY <1>3, <3>1, <3>2 DEF IInv, InOrderOnce, FileGrows
      <3>3. CASE i = Len(file) + 1
        BY <1>3, <3>1, <3>3 DEF BlockOf
      <3> QED
        BY <1>3, <2>1, <3>2, <3>3
    <2> QED
      BY <1>4, <2>1 DEF InOrderOnce
  <1>a. PICK a, expected : a = AckPacket(p.num) /\ expected = (DataSize(p) >= DEFAULT_DATA_SIZE)
    OBVIOUS
  <1>8. a \in Packet /\ expected \in BOOLEAN /\ Acked(a)'
    <2>1. p.num \in Nat /\ Len(file) + 1 \in DOMAIN file'
      BY <1>2, <1>3, TftpAssumption
    <2>2. file'[Len(file) + 1].num = p.num /\ file'[Len(file) + 1].whole = TRUE
      BY <1>3 DEF BlockOf
    <2>3. Acked(a)'
      BY <1>a, <2>1, <2>2 DEF Acked, AckPacket
    <2>4. a \in Packet
      BY <1>a, <2>1, PacketTypes
    <2> QED
      BY <1>a, <2>3, <2>4
  <1>9. send_packet(a, expected, DEFAULT_RETRY_COUNTER, m_server_endpoint', take_received(io))
    BY <1>p, <1>a, Zenon DEF StoreAndAck
  <1> QED
    BY <1>1, <1>2, <1>3, <1>4, <1>6, <1>7, <1>8, <1>9, AnswerInv DEF FileInv

\* A block that is refused keeps the invariant, also if part of it was
\* written.
LEMMA RefuseDataInv == IInv /\ RefuseData => IInv'
  <1> SUFFICES ASSUME IInv, RefuseData PROVE IInv'
    OBVIOUS
  <1>p. PICK p : p = Received
    OBVIOUS
  <1>1. /\ ExpectedData /\ AcceptServer(m_in.src)
        /\ UNCHANGED <<resolver, m_last_acked_packet_id, m_in>>
        /\ \/ m_request_complete /\ m_writer = "closed" /\ UNCHANGED <<m_writer, file>>
           \/ /\ m_writer' = "failed" /\ file' \in {file, Append(file, BlockOf(p, FALSE))}
              /\ WriterOpened("open") \/ WriterOpened("failed")
    BY <1>p DEF RefuseData
  <1>2. /\ p \in Packet /\ p.num = m_last_acked_packet_id + 1
        /\ m_in.src \in Peers
        /\ m_request_complete => m_in.src = m_server_endpoint
        /\ m_request_complete' = TRUE /\ m_server_endpoint' = m_in.src
    BY <1>1, <1>p, ExpectedDataFacts
  <1>3. file \in Seq(Block) /\ m_last_acked_packet_id' \in 0 .. BlockModulus - 1
    BY <1>1 DEF IInv, StateOK
  <1>4. m_writer' \in {"closed", "failed"} /\ Writer'
    BY <1>1, <1>2 DEF IInv, Writer
  <1>5. Counted'
    BY <1>1 DEF IInv, Counted
  <1>6. /\ file' \in Seq(Block) /\ FileGrows
        /\ Owed' /\ InOrderOnce' /\ OneServer'
    <2>1. CASE file' = file
      <3>1. \A i : NumberAfter(i)' = NumberAfter(i)
        BY <2>1 DEF NumberAfter
      <3>2. Owed' /\ file' \in Seq(Block) /\ FileGrows
        BY <1>1, <1>3, <2>1, <3>1 DEF IInv, Owed, FileGrows
      <3>3. InOrderOnce'
        BY <1>1, <2>1, <3>1 DEF IInv, InOrderOnce
      <3>4. OneServer'
        BY <1>2, <2>1 DEF IInv, OneServer, Writer
      <3> QED
        BY <3>2, <3>3, <3>4
    <2>2. CASE file' = Append(file, BlockOf(p, FALSE)) /\ m_writer' = "failed"
      <3>1. /\ file' \in Seq(Block) /\ FileGrows
            /\ Len(file) \in Nat /\ Len(file') = Len(file) + 1
        BY <1>2, <2>2, BlockWritten
      <3>2. /\ \A i \in DOMAIN file' : file'[i].num = NumberAfter(i - 1)'
            /\ NumberAfter(Len(file))' = p.num
            /\ OneServer'
        BY <1>1, <1>2, <2>2, BlockInOrder
      <3>3. Owed' /\ InOrderOnce'
        BY <1>1, <1>2, <2>2, <3>2 DEF Owed, InOrderOnce
      <3> QED
        BY <3>1, <3>2, <3>3
    <2> QED
      BY <1>1, <2>1, <2>2
  <1>a. PICK a : a = ErrorPacket(ERRCODE_DISK_FULL)
    OBVIOUS
  <1>7. a \in Packet /\ Acked(a)'
    BY <1>a, PacketTypes DEF ERRCODE_DISK_FULL, Acked, ErrorPacket
  <1>8. send_packet(a, FALSE, 0, m_server_endpoint', take_received(io))
    BY <1>a DEF RefuseData
  <1> QED
    BY <1>1, <1>3, <1>4, <1>5, <1>6, <1>7, <1>8, AnswerInv DEF FileInv

\* on_packet_received for everything else.
LEMMA OnPacketReceivedInv ==
    IInv /\ (ReceiveFailed \/ process_error_received \/ PacketIgnored) => IInv'
  <1> SUFFICES ASSUME IInv, ReceiveFailed \/ process_error_received \/ PacketIgnored
               PROVE  IInv'
    OBVIOUS
  <1>1. io \in Endpoint /\ m_in.pkt \in Packet /\ m_retry_counter \in Int
    BY DEF IInv, StateOK
  <1>2. io.broken > 0 \/ io.received # << >>
    BY DEF ReceiveFailed, process_error_received, PacketIgnored
  <1>3. resolver = "done"
    BY <1>1, <1>2, BusyMeansResolved DEF Quiet, Endpoint
  <1>4. CASE ReceiveFailed
    <2>1. PICK t \in Endpoint : t.received = io.received /\ terminate(t)
      BY <1>1, <1>4, HandlersKeepEndpoint, WhatReceives DEF ReceiveFailed
    <2> QED
      BY <1>1, <1>3, <1>4, <2>1, EndStep DEF ReceiveFailed, sendVars
  <1>5. CASE process_error_received
    <2>1. io.received # << >> /\ \E t \in Endpoint : terminate(t)
      BY <1>1, <1>5, HandlersKeepEndpoint DEF process_error_received
    <2> QED
      BY <1>1, <1>3, <1>5, <2>1, EndStep DEF process_error_received, sendVars
  <1>6. CASE PacketIgnored
    <2>1. /\ io' \in Endpoint /\ io'.open = io.open /\ Driven(io') = Driven(io)
          /\ UNCHANGED <<resolver, writerVars, sendVars, m_in, net>>
      BY <1>1, <1>6, HandlersKeepEndpoint, SocketStaysOpen, WhatDrives
         DEF PacketIgnored
    <2>2. Incoming'
      BY <1>6, <2>1 DEF IInv, Incoming, PacketIgnored
    <2> QED
      BY <1>1, <1>3, <2>1, <2>2, FrameStep
  <1> QED
    BY <1>4, <1>5, <1>6

\* The kernel's steps keep the invariant.
LEMMA KernelInv == IInv /\ Kernel => IInv'
  <1> SUFFICES ASSUME IInv, Kernel PROVE IInv'
    OBVIOUS
  <1>1. io \in Endpoint /\ m_in.pkt \in Packet
    BY DEF IInv, StateOK
  <1>2. resolver = "done"
    BY <1>1, BusyMeansResolved DEF Kernel, TimerExpires, ReceiveBreaks, Quiet, Endpoint
  <1>3. /\ io' \in Endpoint /\ io'.open = io.open /\ (Driven(io) => Driven(io'))
        /\ io'.received = io.received
        /\ UNCHANGED <<resolver, writerVars, sendVars, m_in, net>>
    BY <1>1, KernelKeepsEndpoint, SocketStaysOpen, WhatDrives, WhatReceives
       DEF Kernel, TimerExpires, ReceiveBreaks
  <1>4. Incoming'
    BY <1>3 DEF IInv, Incoming
  <1> QED
    BY <1>1, <1>2, <1>3, <1>4, FrameStep

\* So does a datagram that reaches the client, from any peer.
LEMMA ReceiveInv ==
    ASSUME IInv, NEW d, Receive(d), d.src \in Peers, d.pkt \in Packet,
           d.pkt.op = "DATA" => d.pkt.num < BlockModulus
    PROVE  IInv'
  <1>1. io \in Endpoint /\ d.pkt.len \in Nat
    BY DEF IInv, StateOK, Packet
  <1>2. /\ io' = complete_receive(io, d.pkt.len) /\ io.receives > 0
        /\ m_in' = [src |-> d.src, pkt |-> d.pkt]
        /\ UNCHANGED <<resolver, writerVars, sendVars, net>>
    BY DEF Receive
  <1>3. resolver = "done"
    BY <1>1, <1>2, BusyMeansResolved DEF Quiet, Endpoint
  <1>4. io' \in Endpoint /\ io'.open = io.open /\ Driven(io') = Driven(io)
    BY <1>1, <1>2, KernelKeepsEndpoint, SocketStaysOpen, WhatDrives
  <1>5. Incoming'
    BY <1>2 DEF Incoming
  <1> QED
    BY <1>2, <1>3, <1>4, <1>5, FrameStep

\* The client's own steps, whatever else is on the network.
LEMMA OwnStepInv == IInv /\ (Start \/ RunHandler \/ Kernel) => IInv'
  BY StartInv, OnResolveQueryInv, OnPacketSentInv, OnSendTimeoutInv, CannotOpenInv,
     StoreAndAckInv, RefuseDataInv, OnPacketReceivedInv, KernelInv
     DEF RunHandler

\* A step of others keeps the invariant: it puts no datagram of this client on
\* the network.
LEMMA StepOfOthersInv ==
    ASSUME IInv, UNCHANGED <<resolver, writerVars, sendVars, m_in, io>>,
           \A d \in net' : d.src = Self => d \in net
    PROVE  IInv'
  <1>1. FileInv' /\ FileGrows
    BY FileStays DEF IInv, FileInv
  <1>2. Acked(m_out)' /\ \A d \in net' : d.src = Self => Acked(d.pkt)'
    BY <1>1, AckedStays DEF IInv, sendVars
  <1>3. StateOK' /\ BeforeAddress' /\ NeverAbandoned' /\ Budget' /\ Incoming'
    BY DEF IInv, StateOK, BeforeAddress, NeverAbandoned, Budget, Incoming,
           writerVars, sendVars
  <1> QED
    BY <1>1, <1>2, <1>3 DEF IInv, FileInv

\* The invariant is inductive.
LEMMA NextInv == IInv /\ [Next]_vars => IInv'
  <1> SUFFICES ASSUME IInv, [Next]_vars PROVE IInv'
    OBVIOUS
  <1>1. CASE UNCHANGED vars
    BY <1>1, StepOfOthersInv DEF vars
  <1>2. ASSUME NEW d \in Arrivals, Receive(d) PROVE IInv'
    BY <1>2, ReceiveInv, ClientGetAssumption
  <1> QED
    BY <1>1, <1>2, OwnStepInv DEF Next

\* All that is on the wire of a client alone are its own datagrams.
LEMMA WireInv == IInv' /\ net \subseteq Datagram /\ [Next]_vars => (net \subseteq Datagram)'
  <1> SUFFICES ASSUME IInv', net \subseteq Datagram, Next PROVE net' \subseteq Datagram
    BY DEF vars
  <1>1. [src |-> Self, dst |-> m_server_endpoint', pkt |-> m_out'] \in Datagram
    BY DEF IInv, StateOK, Datagram
  <1> QED
    BY <1>1, WhatIsSent
-----------------------------------------------------------------------------
\* The theorems.

\* The inductive invariant holds in every reachable state.
THEOREM Invariance == Spec => [](IInv /\ net \subseteq Datagram)
  <1>1. Init => IInv /\ net \subseteq Datagram
    <2> SUFFICES ASSUME Init PROVE IInv /\ net \subseteq Datagram
      OBVIOUS
    <2>1. net = {}
      BY DEF Init
    <2> QED
      BY <2>1, InitInv
  <1>2. (IInv /\ net \subseteq Datagram) /\ [Next]_vars => (IInv /\ net \subseteq Datagram)'
    BY NextInv, WireInv
  <1> QED
    BY <1>1, <1>2, PTL DEF Spec

\* Type correctness of the client and of what it puts on the wire.
THEOREM TypeCorrect == Spec => []TypeOK
  <1>1. IInv /\ net \subseteq Datagram => TypeOK
    BY DEF IInv, TypeOK
  <1> QED
    BY <1>1, Invariance, PTL

\* Whatever arrives or is lost, a client whose request went out and whose
\* socket is open has something that will run one of its handlers.
THEOREM ClientIsNeverAbandoned == Spec => []NeverAbandoned
  <1>1. IInv => NeverAbandoned
    BY DEF IInv
  <1> QED
    BY <1>1, Invariance, PTL

\* No packet is handed to the network more than DEFAULT_RETRY_COUNTER times.
THEOREM RetriesAreBounded == Spec => []RetryBudget
  <1>1. IInv => RetryBudget
    BY DEF IInv, Budget, RetryBudget
  <1> QED
    BY <1>1, Invariance, PTL

\* The local file is the blocks 1, 2, 3, ... in order, each once, with the
\* failed block written again after a write that failed.
THEOREM FileIsInOrder == Spec => []InOrderOnce
  <1>1. IInv => InOrderOnce
    BY DEF IInv
  <1> QED
    BY <1>1, Invariance, PTL

\* Every block of the local file comes from one endpoint; only what a burst
\* left at the end of a block may be another's.
THEOREM FileIsOfOneServer == Spec => []OneServer
  <1>1. IInv => OneServer
    BY DEF IInv
  <1> QED
    BY <1>1, Invariance, PTL

\* What was acknowledged was written, whole as the parser gave it.
THEOREM AcknowledgedIsWritten == Spec => []AckedIsWritten
  <1>1. IInv /\ net \subseteq Datagram => AckedIsWritten
    BY DEF IInv, Datagram, AckedIsWritten, Acked
  <1> QED
    BY <1>1, Invariance, PTL

-----------------------------------------------------------------------------
\* A download.

\* If p carries a block, it is one the connection has read, under its number.
OfFile(p) ==
    p.op = "DATA" =>
        p.num \in 1 .. s_pos /\ p.data = p.num /\ DataSize(p) = S!SizeOf(p.num)

\* If p acknowledges a block, the client has stored it.
Earned(p) == p.op = "ACK" => p.num <= m_last_acked_packet_id

\* The client's datagrams are earned, and those it receives are of the file.
Sound(d) ==
    /\ d.pkt \in Packet
    /\ \/ d.src = Self /\ d.dst # Self /\ Earned(d.pkt)
       \/ d.src = Conn /\ d.dst = Self /\ OfFile(d.pkt)

\* The connection: its block number is the position in the file, which never
\* wraps here.
Sender ==
    /\ s_pos \in 0 .. Blocks
    /\ s_last_packet_sent \in BOOLEAN
    /\ s_last_packet_sent \/ s_pos < Blocks
    /\ s_last_sent_packet_id \in 0 .. BlockModulus - 1
    /\ s_reader # "failed" => s_last_sent_packet_id = s_pos
    /\ s_reader = "unset" => s_pos = 0
    /\ s_out \in Packet /\ OfFile(s_out)
    /\ s_in.pkt \in Packet /\ Earned(s_in.pkt)

\* The client: what its buffer begins with is a block of Conn, or it is from
\* Other and there is a server already.
Buffer ==
    m_in.pkt.op = "DATA" =>
        \/ m_in.src = Conn /\ OfFile(m_in.pkt)
        \/ m_in.src = Other /\ m_request_complete

\* What the client has stored as the i-th block is block i, or block i with
\* its end cut off or lengthened by a burst.
StoredInPlace == \A i \in DOMAIN stored : stored[i] \in {i, Garbled}

\* What the client has stored is what it acknowledged.
Receiver ==
    /\ m_request_complete => m_server_endpoint = Conn
    /\ Earned(m_out)
    /\ Len(stored) = m_last_acked_packet_id
    /\ StoredInPlace
    /\ EndsWithTheFile

\* The connection is at most one block ahead.
InStep ==
    /\ m_last_acked_packet_id <= s_pos
    /\ s_pos <= m_last_acked_packet_id + 1

DInv ==
    /\ IInv
    /\ \A d \in net : Sound(d)
    /\ Sender
    /\ Buffer
    /\ Receiver
    /\ InStep

-----------------------------------------------------------------------------
\* The client's steps.

\* The endpoints differ, and the file is shorter than the numbers.
LEMMA Constants ==
    /\ Self \notin Peers \cup {Server} /\ Conn \in Peers /\ Other \in Peers
    /\ Conn # Self /\ Other # Self /\ Conn # Other
    /\ Blocks \in Nat \ {0} /\ BlockModulus \in Nat \ {0} /\ Blocks < BlockModulus
    /\ LastSize \in Nat /\ LastSize < DEFAULT_DATA_SIZE
    /\ DEFAULT_DATA_SIZE \in Nat
  BY DownloadAssumption, TftpAssumption

\* Only a datagram that arrives changes the buffer.
LEMMA HandlersKeepBuffer ==
    ASSUME Start \/ RunHandler \/ Kernel
    PROVE  m_in' = m_in
  BY DEF Start, RunHandler, Kernel, on_resolve_query, AwaitResponse, FinishSending,
         SendFailed, on_send_timeout, ReceiveFailed, CannotOpen, StoreAndAck,
         RefuseData, process_error_received, PacketIgnored, TimerExpires, ReceiveBreaks

\* A step of the client stores nothing, acknowledges nothing and accepts no
\* server, or it is one of its three answers to an expected block.
Idle ==
    /\ UNCHANGED <<m_request_complete, file, m_last_acked_packet_id>>
    /\ m_request_complete => m_server_endpoint' = m_server_endpoint
    /\ \/ UNCHANGED <<m_out, m_response_expected>>
       \/ m_out'.op # "ACK"

LEMMA ClientIsIdle ==
    ASSUME IInv, Start \/ RunHandler \/ Kernel
    PROVE  Idle \/ CannotOpen \/ StoreAndAck \/ RefuseData
  <1>1. CASE on_resolve_query
    <2>1. ~m_request_complete
      BY <1>1 DEF on_resolve_query, IInv, BeforeAddress
    <2> QED
      BY <1>1, <2>1 DEF on_resolve_query, send_packet, RequestPacket, Idle, sendVars
  <1>2. CASE \/ Start \/ AwaitResponse \/ FinishSending \/ SendFailed \/ on_send_timeout
             \/ ReceiveFailed \/ process_error_received \/ PacketIgnored \/ Kernel
    BY <1>2 DEF Start, AwaitResponse, FinishSending, SendFailed, on_send_timeout,
                ReceiveFailed, process_error_received, PacketIgnored, Kernel,
                TimerExpires, ReceiveBreaks, Idle, writerVars, sendVars
  <1> QED
    BY <1>1, <1>2 DEF RunHandler

\* The block the client expects is the one the connection sent last, with its
\* size unless a burst has mixed up its bytes.
LEMMA ExpectedIsNext ==
    ASSUME DInv, ExpectedData, NEW p, p = Received
    PROVE  /\ p \in Packet /\ m_in.src = Conn
           /\ p.num = s_pos
           /\ \/ p.data = Garbled
              \/ p.data = s_pos /\ DataSize(p) = S!SizeOf(s_pos)
           /\ s_pos = m_last_acked_packet_id + 1
  <1>1. /\ p \in Packet /\ p.num = m_last_acked_packet_id + 1
        /\ m_request_complete => m_in.src = m_server_endpoint
        /\ m_in.pkt.op = "DATA" /\ p.num = m_in.pkt.num
        /\ p.len = Head(io.received)
        /\ \/ p.data = Garbled
           \/ Head(io.received) = m_in.pkt.len /\ p.data = m_in.pkt.data
    BY WhatIsReceived DEF DInv, ExpectedData
  <1>3. m_in.src = Conn /\ OfFile(m_in.pkt)
    BY <1>1, Constants DEF DInv, Buffer, Receiver
  <1>4. /\ p.num \in 1 .. s_pos
        /\ \/ p.data = Garbled
           \/ p.data = p.num /\ DataSize(p) = S!SizeOf(p.num)
    BY <1>1, <1>3 DEF OfFile, DataSize
  <1>5. p.num = s_pos /\ s_pos = m_last_acked_packet_id + 1
    <2>1. s_pos \in Nat /\ m_last_acked_packet_id \in Nat
      BY Constants DEF DInv, Sender, IInv, StateOK
    <2> QED
      BY <1>1, <1>4, <2>1 DEF DInv, InStep
  <1> QED
    BY <1>1, <1>3, <1>4, <1>5

\* The client stores the block the connection sent last, and acknowledges it.
LEMMA StoringStep ==
    ASSUME DInv, StoreAndAck
    PROVE  /\ Len(stored) < s_pos
           /\ \E b \in {s_pos, Garbled} : stored' = Append(stored, b)
           /\ Len(stored') = s_pos /\ StoredInPlace'
           /\ m_last_acked_packet_id' = s_pos
           /\ m_out' = AckPacket(s_pos)
           /\ \/ stored'[s_pos] = Garbled
              \/ m_response_expected' <=> S!SizeOf(s_pos) >= DEFAULT_DATA_SIZE
           /\ m_request_complete' = TRUE /\ m_server_endpoint' = Conn
  <1>p. PICK p : p = Received
    OBVIOUS
  <1>1. /\ ExpectedData /\ AcceptServer(m_in.src)
        /\ file' = Append(file, BlockOf(p, TRUE))
        /\ m_last_acked_packet_id' = p.num
    BY <1>p DEF StoreAndAck
  <1>2. /\ p \in Packet /\ m_in.src = Conn
        /\ p.num = s_pos /\ p.data \in {s_pos, Garbled}
        /\ p.data = Garbled \/ DataSize(p) = S!SizeOf(s_pos)
        /\ s_pos = m_last_acked_packet_id + 1
    BY <1>1, <1>p, ExpectedIsNext
  <1>3. m_request_complete' = TRUE /\ m_server_endpoint' = Conn
    BY <1>1, <1>2, <1>p, ExpectedDataFacts DEF DInv
  <1>4. /\ m_out' = AckPacket(s_pos)
        /\ \/ p.data = Garbled
           \/ m_response_expected' <=> S!SizeOf(s_pos) >= DEFAULT_DATA_SIZE
    <2>1. m_out' = AckPacket(p.num)
      BY <1>p DEF StoreAndAck, send_packet
    <2>2. m_response_expected' = (DataSize(p) >= DEFAULT_DATA_SIZE)
      BY <1>p, Zenon DEF StoreAndAck, send_packet
    <2>3. PICK more \in BOOLEAN : more <=> DataSize(p) >= DEFAULT_DATA_SIZE
      OBVIOUS
    <2>4. m_response_expected' = more
      <3>1. PICK full : full = DEFAULT_DATA_SIZE /\ m_response_expected' = (DataSize(p) >= full)
        BY <2>2
      <3> QED
        BY <2>3, <3>1
    <2> QED
      BY <1>2, <2>1, <2>3, <2>4
  <1>5. m_last_acked_packet_id \in Nat /\ Len(stored) = m_last_acked_packet_id
    BY Constants DEF DInv, Receiver, IInv, StateOK
  <1>6. /\ stored' = Append(stored, p.data)
        /\ Len(stored') = Len(stored) + 1
        /\ stored'[Len(stored) + 1] = p.data
        /\ StoredInPlace'
    <2>b. PICK b : b = BlockOf(p, TRUE)
      OBVIOUS
    <2>1. b \in Block /\ b.whole = TRUE /\ b.data = p.data
      <3>1. m_in.src \in Peers
        BY <1>2, Constants
      <3> QED
        BY <1>2, <2>b, <3>1 DEF BlockOf, Block, Packet, DataSize, HeaderSize
    <2>2. file \in Seq(Block)
      BY DEF DInv, IInv, StateOK
    <2>3. /\ WholeBlocks(Append(file, b)) = Append(WholeBlocks(file), b.data)
          /\ Len(WholeBlocks(Append(file, b))) = Len(WholeBlocks(file)) + 1
          /\ GrowsBy(WholeBlocks(file), WholeBlocks(Append(file, b)), b.data)
      BY <2>1, <2>2, WholeIsStored
    <2>4. file' = Append(file, b)
      BY <1>1, <2>b
    <2>5. ASSUME NEW i \in DOMAIN stored' PROVE stored'[i] \in {i, Garbled}
      <3>1. \/ i \in DOMAIN stored /\ stored'[i] = stored[i]
            \/ i = Len(stored) + 1 /\ stored'[i] = p.data
        BY <2>1, <2>3, <2>4 DEF stored, GrowsBy
      <3> QED
        BY <1>2, <1>5, <3>1 DEF DInv, Receiver, StoredInPlace
    <2> QED
      BY <2>1, <2>3, <2>4, <2>5 DEF stored, StoredInPlace, GrowsBy
  <1> QED
    BY <1>1, <1>2, <1>3, <1>4, <1>5, <1>6

\* A block that is refused is not stored, and answered with an ERROR.
LEMMA RefusingStep ==
    ASSUME DInv, CannotOpen \/ RefuseData
    PROVE  /\ stored' = stored
           /\ m_last_acked_packet_id' = m_last_acked_packet_id
           /\ m_out'.op # "ACK"
           /\ m_request_complete' = TRUE /\ m_server_endpoint' = Conn
  <1>1. /\ ExpectedData /\ AcceptServer(m_in.src)
        /\ m_last_acked_packet_id' = m_last_acked_packet_id
        /\ file' = file \/ file' = Append(file, BlockOf(Received, FALSE))
    BY DEF CannotOpen, RefuseData
  <1>2. Received \in Packet /\ m_in.src = Conn
    BY <1>1, ExpectedIsNext
  <1>3. m_request_complete' = TRUE /\ m_server_endpoint' = Conn
    BY <1>1, <1>2, ExpectedDataFacts DEF DInv
  <1>4. m_out'.op # "ACK"
    <2>1. CASE CannotOpen
      <3>1. m_out' = ErrorPacket(ERRCODE_ACCESS_VIOLATION)
        BY <2>1 DEF CannotOpen, send_packet
      <3> QED
        BY <3>1 DEF ErrorPacket
    <2>2. CASE RefuseData
      <3>1. m_out' = ErrorPacket(ERRCODE_DISK_FULL)
        BY <2>2 DEF RefuseData, send_packet
      <3> QED
        BY <3>1 DEF ErrorPacket
    <2> QED
      BY <2>1, <2>2
  <1>5. stored' = stored
    <2>b. PICK b : b = BlockOf(Received, FALSE)
      OBVIOUS
    <2>1. b \in Block /\ b.whole = FALSE
      <3>1. m_in.src \in Peers
        BY <1>2, Constants
      <3> QED
        BY <1>2, <2>b, <3>1 DEF BlockOf, Block, Packet, DataSize, HeaderSize
    <2>2. file \in Seq(Block)
      BY DEF DInv, IInv, StateOK
    <2>3. WholeBlocks(Append(file, b)) = WholeBlocks(file)
      BY <2>1, <2>2, PartIsNotStored
    <2> QED
      BY <1>1, <2>b, <2>3 DEF stored
  <1> QED
    BY <1>1, <1>3, <1>4, <1>5

\* What a step of the client does for the transfer.
LEMMA ClientStep ==
    ASSUME DInv, Start \/ RunHandler \/ Kernel, UNCHANGED connVars
    PROVE  /\ Receiver' /\ InStep'
           /\ m_last_acked_packet_id <= m_last_acked_packet_id'
           /\ m_request_complete => m_request_complete' = TRUE
           /\ \/ stored' = stored
              \/ /\ Len(stored) < s_pos
                 /\ \E b \in {s_pos, Garbled} : stored' = Append(stored, b)
  <1>1. /\ m_last_acked_packet_id \in Nat /\ s_pos \in 0 .. Blocks /\ s_pos' = s_pos
        /\ m_request_complete \in BOOLEAN
    BY Constants DEF DInv, IInv, StateOK, Sender, connVars
  <1>2. CASE Idle
    <2>1. stored' = stored /\ m_last_acked_packet_id' = m_last_acked_packet_id
      BY <1>2 DEF Idle, stored
    <2>2. m_request_complete' => m_server_endpoint' = Conn
      BY <1>2 DEF Idle, DInv, Receiver
    <2>3. Earned(m_out)'
      BY <1>2, <2>1 DEF Idle, DInv, Receiver, Earned
    <2>4. EndsWithTheFile'
      BY <1>2, <2>1 DEF Idle, DInv, Receiver, EndsWithTheFile
    <2>5. StoredInPlace'
      BY <2>1 DEF DInv, Receiver, StoredInPlace
    <2> QED
      BY <1>1, <1>2, <2>1, <2>2, <2>3, <2>4, <2>5 DEF DInv, Receiver, InStep, Idle
  <1>3. CASE StoreAndAck
    <2>1. /\ Len(stored) < s_pos
          /\ \E b \in {s_pos, Garbled} : stored' = Append(stored, b)
          /\ Len(stored') = s_pos /\ StoredInPlace'
          /\ m_last_acked_packet_id' = s_pos
          /\ m_out' = AckPacket(s_pos)
          /\ \/ stored'[s_pos] = Garbled
             \/ m_response_expected' <=> S!SizeOf(s_pos) >= DEFAULT_DATA_SIZE
          /\ m_request_complete' = TRUE /\ m_server_endpoint' = Conn
      BY <1>3, StoringStep
    <2>2. EndsWithTheFile'
      <3>1. s_pos < Blocks => S!SizeOf(s_pos) >= DEFAULT_DATA_SIZE
        BY Constants DEF S!SizeOf
      <3> QED
        BY <1>1, <2>1, <3>1, Constants DEF EndsWithTheFile
    <2>3. Earned(m_out)'
      BY <1>1, <2>1 DEF Earned, AckPacket
    <2> QED
      BY <1>1, <2>1, <2>2, <2>3 DEF DInv, Receiver, InStep
  <1>4. CASE CannotOpen \/ RefuseData
    <2>1. /\ stored' = stored
          /\ m_last_acked_packet_id' = m_last_acked_packet_id
          /\ m_out'.op # "ACK"
          /\ m_request_complete' = TRUE /\ m_server_endpoint' = Conn
      BY <1>4, RefusingStep
    <2> QED
      BY <1>1, <2>1 DEF DInv, Receiver, InStep, Earned, EndsWithTheFile, StoredInPlace
  <1> QED
    BY <1>2, <1>3, <1>4, ClientIsIdle DEF DInv

\* What the client acknowledged stays stored.
LEMMA EarnedStays ==
    ASSUME NEW p \in Packet, Earned(p),
           m_last_acked_packet_id \in Nat, m_last_acked_packet_id' \in Nat,
           m_last_acked_packet_id <= m_last_acked_packet_id'
    PROVE  Earned(p)'
  BY DEF Earned, Packet

\* A step of the client keeps the invariant, and stores the next block if any.
LEMMA ClientSide ==
    ASSUME DInv, Start \/ RunHandler \/ Kernel, UNCHANGED connVars
    PROVE  /\ DInv'
           /\ \/ stored' = stored
              \/ /\ Len(stored) < s_pos
                 /\ \E b \in {s_pos, Garbled} : stored' = Append(stored, b)
  <1>1. /\ Receiver' /\ InStep'
        /\ m_last_acked_packet_id <= m_last_acked_packet_id'
        /\ m_request_complete => m_request_complete' = TRUE
        /\ \/ stored' = stored
           \/ /\ Len(stored) < s_pos
              /\ \E b \in {s_pos, Garbled} : stored' = Append(stored, b)
    BY ClientStep
  <1>2. IInv'
    BY OwnStepInv DEF DInv
  <1>3. m_last_acked_packet_id \in Nat /\ m_last_acked_packet_id' \in Nat
    BY <1>2, Constants DEF DInv, IInv, StateOK
  <1>4. ASSUME NEW d \in net' PROVE Sound(d)'
    <2>1. d \in net \/ d = [src |-> Self, dst |-> m_server_endpoint', pkt |-> m_out']
      BY WhatIsSent DEF Next
    <2>2. CASE d \in net
      <3>1. Sound(d)
        BY <2>2 DEF DInv
      <3>2. d.src = Self /\ Earned(d.pkt) => Earned(d.pkt)'
        BY <1>1, <1>3, <3>1, EarnedStays DEF Sound
      <3>3. OfFile(d.pkt) => OfFile(d.pkt)'
        BY DEF OfFile, connVars
      <3> QED
        BY <3>1, <3>2, <3>3, Constants DEF Sound
    <2>3. CASE d = [src |-> Self, dst |-> m_server_endpoint', pkt |-> m_out']
      <3>1. m_server_endpoint' \in Peers \cup {Server} /\ m_out' \in Packet
        BY <1>2 DEF IInv, StateOK
      <3>2. Earned(m_out)'
        BY <1>1 DEF Receiver
      <3>3. d.src = Self /\ d.dst # Self /\ d.pkt = m_out'
        BY <2>3, <3>1, Constants
      <3> QED
        BY <3>1, <3>2, <3>3 DEF Sound, Earned
    <2> QED
      BY <2>1, <2>2, <2>3
  <1>5. Sender'
    <2>1. s_in.pkt \in Packet /\ Earned(s_in.pkt)
      BY DEF DInv, Sender
    <2>2. Earned(s_in.pkt)'
      <3>1. PICK p : p = s_in.pkt
        OBVIOUS
      <3>2. Earned(p)'
        BY <1>1, <1>3, <2>1, <3>1, EarnedStays
      <3>3. s_in'.pkt = p
        BY <3>1 DEF connVars
      <3> QED
        BY <3>2, <3>3 DEF Earned
    <2>3. OfFile(s_out)'
      BY DEF DInv, Sender, OfFile, connVars
    <2> QED
      BY <2>2, <2>3 DEF DInv, Sender, connVars
  <1>6. Buffer'
    <2>1. m_in' = m_in
      BY HandlersKeepBuffer
    <2>2. OfFile(m_in.pkt) => OfFile(m_in.pkt)'
      BY <2>1 DEF OfFile, connVars
    <2>3. m_in'.pkt.op = "DATA" =>
             \/ m_in'.src = Conn /\ OfFile(m_in.pkt)'
             \/ m_in'.src = Other /\ m_request_complete'
      BY <1>1, <2>1, <2>2 DEF DInv, Buffer
    <2> QED
      BY <2>3 DEF Buffer
  <1> QED
    BY <1>1, <1>2, <1>4, <1>5, <1>6 DEF DInv

-----------------------------------------------------------------------------
\* The connection's steps.

\* A packet of the file stays one when the connection reads on.
LEMMA OfFileStays ==
    ASSUME NEW p, OfFile(p), s_pos \in Nat, s_pos' \in Nat, s_pos <= s_pos'
    PROVE  OfFile(p)'
  BY DEF OfFile

\* The connection puts on the wire what it sends.
LEMMA WhatConnectionSends ==
    ASSUME NEW p, NEW s, S!send_prepared_packet(p, s)
    PROVE  \A d \in net' : d \in net \/ d = [src |-> Conn, dst |-> Self, pkt |-> p]
  BY DEF S!send_prepared_packet

\* The parser finds an ACK only where one was received.
LEMMA AckAsReceived ==
    ASSUME NEW p, NEW bytes, S!parse_packet(p, bytes).op = "ACK"
    PROVE  S!parse_packet(p, bytes) = p
  <1>1. CASE p.op = "DATA" /\ bytes >= HeaderSize
    <2>1. S!parse_packet(p, bytes).op = "DATA"
      BY <1>1 DEF S!parse_packet, S!Opcode, S!HeaderSize, S!DataPacket, HeaderSize
    <2> QED
      BY <2>1
  <1>2. CASE p.op \in Opcode \ {"DATA"} /\ bytes = p.len
    BY <1>2 DEF S!parse_packet, S!Opcode, Opcode
  <1>3. CASE /\ ~(p.op = "DATA" /\ bytes >= HeaderSize)
             /\ ~(p.op \in Opcode \ {"DATA"} /\ bytes = p.len)
    <2>1. S!parse_packet(p, bytes).op = "INVALID"
      BY <1>3 DEF S!parse_packet, S!Opcode, S!HeaderSize, S!InvalidPacket, HeaderSize, Opcode
    <2> QED
      BY <2>1
  <1> QED
    BY <1>1, <1>2, <1>3

\* A step of the connection: it goes on to the next block only when the client
\* has stored the one before, and what it puts on the wire is its m_out.
ReadsOn ==
    \/ s_pos' = s_pos
    \/ s_pos = m_last_acked_packet_id /\ s_pos < Blocks /\ s_pos' = s_pos + 1

Sends ==
    /\ \A d \in net' : d \in net \/ d = [src |-> Conn, dst |-> Self, pkt |-> s_out']
    /\ s_out' \in Packet /\ OfFile(s_out)'

\* The variables of Sender but s_in.
Position ==
    /\ s_pos \in 0 .. Blocks
    /\ s_last_packet_sent \in BOOLEAN
    /\ s_last_packet_sent \/ s_pos < Blocks
    /\ s_last_sent_packet_id \in 0 .. BlockModulus - 1
    /\ s_reader # "failed" => s_last_sent_packet_id = s_pos
    /\ s_reader = "unset" => s_pos = 0

\* Sending an ERROR.
LEMMA ErrorIsSent ==
    ASSUME NEW code \in Nat, NEW more, NEW budget, NEW s,
           S!send_packet(S!ErrorPacket(code), more, budget, s)
    PROVE  Sends
  <1>1. s_out' = ErrorPacket(code)
    BY DEF S!send_packet, S!ErrorPacket, ErrorPacket
  <1>2. s_out' \in Packet /\ s_out'.op # "DATA"
    BY <1>1, PacketTypes DEF ErrorPacket
  <1>3. \A d \in net' : d \in net \/ d = [src |-> Conn, dst |-> Self, pkt |-> s_out']
    BY WhatConnectionSends DEF S!send_packet
  <1> QED
    BY <1>2, <1>3 DEF Sends, OfFile

\* The next block is read and sent, or the read fails and an ERROR is sent.
LEMMA NextDataPacket ==
    ASSUME Position, s_pos < Blocks, NEW s, S!send_next_data_packet(s)
    PROVE  /\ Position' /\ Sends
           /\ \/ s_pos' = s_pos
              \/ s_reader # "failed" /\ s_pos' = s_pos + 1
  <1>n. /\ s_last_sent_packet_id' = NextBlock(s_last_sent_packet_id)
        /\ s_last_sent_packet_id' \in 0 .. BlockModulus - 1
    BY NextBlockType DEF S!send_next_data_packet, S!NextBlock, NextBlock, Position
  <1>t. s_pos \in Nat /\ s_pos + 1 \in 0 .. Blocks /\ s_pos + 1 \in 1 .. s_pos + 1
    BY Constants DEF Position
  <1>1. CASE S!ReadFails(s)
    <2>1. s_reader' = "failed" /\ UNCHANGED <<s_pos, s_last_packet_sent>>
      BY <1>1 DEF S!ReadFails
    <2>2. Sends
      BY <1>1, ErrorIsSent DEF S!ReadFails, S!ERRCODE_FILE_NOT_FOUND
    <2> QED
      BY <1>n, <2>1, <2>2 DEF Position
  <1>2. CASE S!ReadBlock(s)
    <2>1. /\ s_reader # "failed" /\ s_reader' = "open" /\ s_pos' = s_pos + 1
      BY <1>2 DEF S!ReadBlock
    <2>2. s_last_sent_packet_id' = s_pos + 1
      <3>1. s_last_sent_packet_id = s_pos /\ s_pos + 1 < BlockModulus
        BY <1>t, <2>1, Constants DEF Position
      <3> QED
        BY <1>n, <3>1 DEF NextBlock
    <2>3. PICK short \in BOOLEAN : short <=> S!SizeOf(s_pos + 1) < DEFAULT_DATA_SIZE
      OBVIOUS
    <2>4. /\ s_last_packet_sent' \in BOOLEAN
          /\ short => s_last_packet_sent'
      <3>1. s_last_packet_sent' =
               (s_last_packet_sent \/ S!SizeOf(s_pos + 1) < DEFAULT_DATA_SIZE)
        BY <1>2, Zenon DEF S!ReadBlock
      <3> QED
        BY <2>3, <3>1, Zenon
    <2>5. s_last_packet_sent' \/ s_pos' < Blocks
      <3>1. CASE s_pos + 1 < Blocks
        BY <2>1, <3>1
      <3>2. CASE s_pos + 1 = Blocks
        <4>1. S!SizeOf(s_pos + 1) < DEFAULT_DATA_SIZE
          BY <3>2, Constants DEF S!SizeOf
        <4> QED
          BY <2>3, <2>4, <4>1
      <3> QED
        BY <1>t, <3>1, <3>2, Constants
    <2>6. Position'
      BY <1>n, <1>t, <2>1, <2>2, <2>4, <2>5 DEF Position
    <2>7. Sends
      <3>s. S!SizeOf(s_pos + 1) \in Nat /\ S!SizeOf(s_pos + 1) = S!SizeOf(s_pos')
        BY <1>t, <2>1, Constants DEF S!SizeOf
      <3>1. s_out' = DataPacket(s_pos + 1, s_pos + 1, S!SizeOf(s_pos + 1))
        <4>1. s_out' = S!DataPacket(S!NextBlock(s_last_sent_packet_id), s_pos + 1,
                                    S!SizeOf(s_pos + 1))
          BY <1>2 DEF S!ReadBlock, S!send_packet
        <4>2. S!NextBlock(s_last_sent_packet_id) = s_pos + 1
          BY <1>n, <2>2 DEF S!NextBlock, NextBlock
        <4> QED
          BY <4>1, <4>2 DEF S!DataPacket, DataPacket, S!HeaderSize, HeaderSize
      <3>2. s_out' \in Packet
        BY <1>t, <3>1, <3>s, PacketTypes
      <3>3. /\ s_out'.num = s_pos' /\ s_out'.data = s_out'.num
            /\ DataSize(s_out') = S!SizeOf(s_pos')
        BY <2>1, <3>1, <3>s DEF DataPacket, DataSize, HeaderSize
      <3>4. s_pos' \in 1 .. s_pos'
        BY <1>t, <2>1
      <3>5. OfFile(s_out)'
        <4>1. PICK p : p = s_out'
          OBVIOUS
        <4>2. p.num \in 1 .. s_pos' /\ p.data = p.num /\ DataSize(p) = S!SizeOf(p.num)
          BY <3>3, <3>4, <4>1
        <4> QED
          BY <4>1, <4>2 DEF OfFile, S!SizeOf, DataSize
      <3>6. \A d \in net' : d \in net \/ d = [src |-> Conn, dst |-> Self, pkt |-> s_out']
        <4>1. \E p : p = s_out' /\ S!send_prepared_packet(p, s)
          BY <1>2 DEF S!ReadBlock, S!send_packet
        <4> QED
          BY <4>1, WhatConnectionSends
      <3> QED
        BY <3>2, <3>5, <3>6 DEF Sends
    <2> QED
      BY <2>1, <2>6, <2>7
  <1> QED
    BY <1>1, <1>2 DEF S!send_next_data_packet

\* A step of the connection that reads nothing and sends at most its m_out again.
LEMMA ConnectionIsIdle ==
    ASSUME Position, s_out \in Packet, OfFile(s_out),
           UNCHANGED <<s_reader, s_pos, s_last_packet_sent, s_last_sent_packet_id, s_out>>,
           \A d \in net' : d \in net \/ d = [src |-> Conn, dst |-> Self, pkt |-> s_out]
    PROVE  Position' /\ Sends /\ ReadsOn
  <1>1. OfFile(s_out)'
    BY DEF OfFile
  <1> QED
    BY <1>1 DEF Position, Sends, ReadsOn

\* What a step of the connection does for the transfer.
LEMMA ConnectionStep ==
    ASSUME DInv, S!Start \/ S!RunHandler \/ S!Kernel
    PROVE  Position' /\ Sends /\ ReadsOn /\ s_in' = s_in
  <1>1. /\ Position /\ s_out \in Packet /\ OfFile(s_out)
        /\ Earned(s_in.pkt)
    BY DEF DInv, Sender, Position
  <1>t. s_pos \in Nat /\ m_last_acked_packet_id \in Nat /\ Blocks \in Nat
    BY <1>1, Constants DEF Position, DInv, IInv, StateOK
  <1>in. s_in' = s_in
    BY DEF S!Start, S!RunHandler, S!Kernel, S!AwaitResponse, S!FinishSending, S!SendFailed,
           S!on_send_timeout, S!ReceiveFailed, S!AckReceived, S!process_error_received,
           S!PacketIgnored, S!TimerExpires, S!ReceiveBreaks
  <1>2. CASE \/ S!AwaitResponse \/ S!FinishSending \/ S!SendFailed \/ S!ReceiveFailed
             \/ S!process_error_received \/ S!PacketIgnored \/ S!Kernel
    <2>1. /\ UNCHANGED <<s_reader, s_pos, s_last_packet_sent, s_last_sent_packet_id, s_out>>
          /\ net' = net
      BY <1>2 DEF S!Kernel, S!AwaitResponse, S!FinishSending, S!SendFailed, S!ReceiveFailed,
                  S!process_error_received, S!PacketIgnored, S!TimerExpires,
                  S!ReceiveBreaks, S!readerVars, S!sendVars
    <2> QED
      BY <1>1, <1>in, <2>1, ConnectionIsIdle
  <1>3. CASE S!on_send_timeout
    <2>1. UNCHANGED <<s_reader, s_pos, s_last_packet_sent, s_last_sent_packet_id, s_out>>
      BY <1>3 DEF S!on_send_timeout, S!readerVars
    <2>2. net' = net \/ \E s : S!send_prepared_packet(s_out, s)
      BY <1>3 DEF S!on_send_timeout
    <2>3. \A d \in net' : d \in net \/ d = [src |-> Conn, dst |-> Self, pkt |-> s_out]
      BY <2>2, WhatConnectionSends
    <2> QED
      BY <1>1, <1>in, <2>1, <2>3, ConnectionIsIdle
  <1>4. CASE S!Start
    <2>1. s_reader = "unset" /\ s_pos = 0 /\ s_pos < Blocks
      BY <1>1, <1>4, Constants DEF S!Start, Position
    <2>2. CASE \E s : S!send_next_data_packet(s)
      <3>1. /\ Position' /\ Sends
            /\ s_pos' = s_pos \/ s_pos' = s_pos + 1
        BY <1>1, <2>1, <2>2, NextDataPacket
      <3>2. s_pos = m_last_acked_packet_id
        BY <1>t, <2>1 DEF DInv, InStep
      <3> QED
        BY <1>in, <2>1, <3>1, <3>2 DEF ReadsOn
    <2>3. CASE /\ s_reader' \in {"null", "closed"}
               /\ \E code \in Nat : \E s : S!send_packet(S!ErrorPacket(code), FALSE, 0, s)
               /\ UNCHANGED <<s_pos, s_last_packet_sent, s_last_sent_packet_id>>
      <3>1. Sends
        BY <2>3, ErrorIsSent
      <3>2. Position'
        BY <1>1, <2>1, <2>3 DEF Position
      <3> QED
        BY <1>in, <2>3, <3>1, <3>2 DEF ReadsOn
    <2>4. /\ S!ERRCODE_ACCESS_VIOLATION \in Nat /\ S!ERRCODE_FILE_NOT_FOUND \in Nat
      BY DEF S!ERRCODE_ACCESS_VIOLATION, S!ERRCODE_FILE_NOT_FOUND
    <2> QED
      BY <1>4, <2>2, <2>3, <2>4 DEF S!Start
  <1>5. CASE S!AckReceived
    <2>1. CASE s_last_packet_sent
      <3>1. /\ UNCHANGED <<s_reader, s_pos, s_last_packet_sent, s_last_sent_packet_id, s_out>>
            /\ net' = net
        BY <1>5, <2>1 DEF S!AckReceived, S!readerVars, S!sendVars
      <3> QED
        BY <1>1, <1>in, <3>1, ConnectionIsIdle
    <2>2. CASE ~s_last_packet_sent
      <3>1. s_pos < Blocks /\ \E s : S!send_next_data_packet(s)
        BY <1>1, <1>5, <2>2 DEF S!AckReceived, Position
      <3>2. /\ Position' /\ Sends
            /\ \/ s_pos' = s_pos
               \/ s_reader # "failed" /\ s_pos' = s_pos + 1
        BY <1>1, <3>1, NextDataPacket
      <3>3. s_reader # "failed" => s_pos = m_last_acked_packet_id
        <4>1. S!Received.op = "ACK" /\ S!Received.num = s_last_sent_packet_id
          BY <1>5 DEF S!AckReceived
        <4>2. S!Received = S!parse_packet(s_in.pkt, Head(s_io.received))
          BY <4>1 DEF S!Received, S!InvalidPacket
        <4>3. s_in.pkt.op = "ACK" /\ s_in.pkt.num = s_last_sent_packet_id
          BY <4>1, <4>2, AckAsReceived
        <4>4. s_last_sent_packet_id <= m_last_acked_packet_id
          BY <1>1, <4>3 DEF Earned
        <4> QED
          BY <1>1, <1>t, <4>4 DEF Position, DInv, InStep
      <3> QED
        BY <1>in, <3>1, <3>2, <3>3 DEF ReadsOn
    <2> QED
      BY <2>1, <2>2
  <1> QED
    BY <1>2, <1>3, <1>4, <1>5 DEF S!RunHandler

\* A step of the connection keeps the invariant.
LEMMA ConnectionSide ==
    ASSUME DInv, S!Start \/ S!RunHandler \/ S!Kernel, UNCHANGED clientVars
    PROVE  /\ DInv' /\ stored' = stored
           /\ \/ s_pos' = s_pos
              \/ s_pos = Len(stored) /\ s_pos < Blocks /\ s_pos' = s_pos + 1
  <1>1. Position' /\ Sends /\ ReadsOn /\ s_in' = s_in
    BY ConnectionStep
  <1>2. /\ UNCHANGED <<resolver, writerVars, sendVars, m_in, io>>
        /\ UNCHANGED <<m_server_endpoint, m_request_complete, file, m_last_acked_packet_id,
                       m_response_expected, m_out>>
        /\ stored' = stored
    BY DEF clientVars, writerVars, sendVars, stored
  <1>t. /\ s_pos \in Nat /\ s_pos' \in Nat /\ s_pos <= s_pos'
        /\ m_last_acked_packet_id \in Nat
    <2>1. s_pos \in 0 .. Blocks /\ s_pos' \in 0 .. Blocks
      BY <1>1 DEF DInv, Sender, Position
    <2> QED
      BY <1>1, <2>1, Constants DEF DInv, IInv, StateOK, ReadsOn
  <1>3. ASSUME NEW d \in net', d \notin net
        PROVE  Sound(d)' /\ d.src = Conn
    <2>1. d = [src |-> Conn, dst |-> Self, pkt |-> s_out']
      BY <1>1, <1>3 DEF Sends
    <2>2. OfFile(d.pkt)'
      BY <1>1, <2>1 DEF Sends, OfFile
    <2> QED
      BY <1>1, <2>1, <2>2 DEF Sends, Sound
  <1>4. IInv'
    <2>1. \A d \in net' : d.src = Self => d \in net
      BY <1>3, Constants
    <2> QED
      BY <1>2, <2>1, StepOfOthersInv DEF DInv
  <1>5. ASSUME NEW d \in net, Sound(d) PROVE Sound(d)'
    <2>1. Earned(d.pkt) => Earned(d.pkt)'
      BY <1>2 DEF Earned
    <2>2. OfFile(d.pkt) => OfFile(d.pkt)'
      BY <1>t, OfFileStays
    <2> QED
      BY <1>5, <2>1, <2>2 DEF Sound
  <1>6. Sender'
    <2>1. Earned(s_in.pkt)'
      BY <1>1, <1>2 DEF DInv, Sender, Earned
    <2> QED
      BY <1>1, <2>1 DEF DInv, Sender, Position, Sends
  <1>7. Buffer'
    <2>1. OfFile(m_in.pkt) => OfFile(m_in.pkt)'
      <3>1. PICK p : p = m_in.pkt
        OBVIOUS
      <3>2. OfFile(p) => OfFile(p)'
        BY <1>t, OfFileStays
      <3>3. m_in'.pkt = p
        BY <1>2, <3>1
      <3> QED
        BY <3>1, <3>2, <3>3 DEF OfFile
    <2> QED
      BY <1>2, <2>1 DEF DInv, Buffer
  <1>8. Receiver'
    <2>1. Earned(m_out)' /\ EndsWithTheFile' /\ StoredInPlace'
      BY <1>2 DEF DInv, Receiver, Earned, EndsWithTheFile, StoredInPlace
    <2> QED
      BY <1>2, <2>1 DEF DInv, Receiver
  <1>9. InStep'
    BY <1>1, <1>2, <1>t DEF DInv, InStep, ReadsOn
  <1>10. /\ stored' = stored
         /\ \/ s_pos' = s_pos
            \/ s_pos = Len(stored) /\ s_pos < Blocks /\ s_pos' = s_pos + 1
    BY <1>1, <1>2 DEF ReadsOn, DInv, Receiver
  <1> QED
    BY <1>3, <1>4, <1>5, <1>6, <1>7, <1>8, <1>9, <1>10 DEF DInv

-----------------------------------------------------------------------------
\* Datagrams that arrive.

\* The client receives d, which is of Conn's file or of Other.
LEMMA ClientGets ==
    ASSUME DInv, NEW d, Receive(d), UNCHANGED <<connVars, timeouts>>,
           d.src \in Peers, d.pkt \in Packet,
           d.pkt.op = "DATA" => d.pkt.num < BlockModulus,
           d.pkt.op = "DATA" =>
              \/ d.src = Conn /\ OfFile(d.pkt)
              \/ d.src = Other /\ m_request_complete
    PROVE  DInv' /\ UNCHANGED <<s_pos, stored>>
  <1>1. /\ m_in' = [src |-> d.src, pkt |-> d.pkt]
        /\ UNCHANGED <<m_server_endpoint, m_request_complete, file, m_last_acked_packet_id,
                       m_response_expected, m_out, net>>
        /\ UNCHANGED <<s_reader, s_pos, s_last_packet_sent, s_last_sent_packet_id,
                       s_out, s_in>>
        /\ stored' = stored
    BY DEF Receive, writerVars, sendVars, connVars, stored
  <1>2. IInv'
    BY ReceiveInv DEF DInv
  <1>3. Buffer'
    <2>1. d.pkt.op = "DATA" =>
             \/ d.src = Conn /\ OfFile(d.pkt)'
             \/ d.src = Other /\ m_request_complete'
      BY <1>1 DEF OfFile
    <2> QED
      BY <1>1, <2>1 DEF Buffer, OfFile
  <1>4. (\A e \in net : Sound(e))'
    BY <1>1 DEF DInv, Sound, Earned, OfFile
  <1>5. Sender'
    BY <1>1 DEF DInv, Sender, Earned, OfFile
  <1>6. Receiver' /\ InStep'
    BY <1>1 DEF DInv, Receiver, InStep, Earned, EndsWithTheFile, StoredInPlace
  <1> QED
    BY <1>1, <1>2, <1>3, <1>4, <1>5, <1>6 DEF DInv

\* From the connection the client keeps to.
LEMMA ClientReceivesInv ==
    ASSUME DInv, ClientReceives
    PROVE  DInv' /\ UNCHANGED <<s_pos, stored>>
  <1>1. PICK d \in net : d.dst = Self /\ Receive(d)
    BY DEF ClientReceives
  <1>2. d.pkt \in Packet /\ d.src = Conn /\ OfFile(d.pkt)
    BY <1>1 DEF DInv, Sound
  <1>3. d.pkt.op = "DATA" => d.pkt.num < BlockModulus
    <2>1. s_pos \in 0 .. Blocks
      BY DEF DInv, Sender
    <2> QED
      BY <1>2, <2>1, Constants DEF OfFile
  <1> QED
    BY <1>1, <1>2, <1>3, ClientGets, Constants DEF ClientReceives

\* From the other connection.
LEMMA ClientReceivesOtherInv ==
    ASSUME DInv, ClientReceivesOther
    PROVE  DInv' /\ UNCHANGED <<s_pos, stored>>
  <1>1. CASE /\ m_request_complete
             /\ Receive([src |-> Other, pkt |-> DataPacket(1, 1, S!SizeOf(1))])
    <2>1. PICK d : d = [src |-> Other, pkt |-> DataPacket(1, 1, S!SizeOf(1))]
      OBVIOUS
    <2>2. S!SizeOf(1) \in Nat
      BY Constants DEF S!SizeOf
    <2>3. d.pkt \in Packet
      BY <2>1, <2>2, PacketTypes
    <2>4. d.pkt.num = 1 /\ 1 < BlockModulus
      BY <2>1, Constants DEF DataPacket
    <2>5. Receive(d) /\ d.src = Other /\ d.src \in Peers
      BY <1>1, <2>1, Constants
    <2> QED
      BY <1>1, <2>3, <2>4, <2>5, ClientGets DEF ClientReceivesOther
  <1>2. CASE Receive([src |-> Other, pkt |-> ErrorPacket(ERRCODE_FILE_NOT_FOUND)])
    <2>1. PICK d : d = [src |-> Other, pkt |-> ErrorPacket(ERRCODE_FILE_NOT_FOUND)]
      OBVIOUS
    <2>2. d.pkt \in Packet /\ d.pkt.op # "DATA"
      BY <2>1, PacketTypes DEF ErrorPacket, ERRCODE_FILE_NOT_FOUND
    <2>3. Receive(d) /\ d.src \in Peers
      BY <1>2, <2>1, Constants
    <2> QED
      BY <2>2, <2>3, ClientGets DEF ClientReceivesOther
  <1> QED
    BY <1>1, <1>2 DEF ClientReceivesOther

\* The connection receives a datagram of the client.
LEMMA ConnectionReceivesInv ==
    ASSUME DInv, ConnectionReceives
    PROVE  DInv' /\ UNCHANGED <<s_pos, stored>>
  <1>1. PICK d \in net : d.dst = Conn /\ S!Receive(d)
    BY DEF ConnectionReceives
  <1>2. d.pkt \in Packet /\ Earned(d.pkt)
    BY <1>1, Constants DEF DInv, Sound
  <1>3. /\ UNCHANGED <<resolver, writerVars, sendVars, m_in, io>>
        /\ UNCHANGED <<m_server_endpoint, m_request_complete, file, m_last_acked_packet_id,
                       m_response_expected, m_out>>
        /\ UNCHANGED <<net, stored>>
        /\ UNCHANGED <<s_reader, s_pos, s_last_packet_sent, s_last_sent_packet_id, s_out>>
        /\ s_in' = [src |-> d.src, pkt |-> d.pkt]
    BY <1>1 DEF ConnectionReceives, clientVars, writerVars, sendVars, stored,
                S!Receive, S!readerVars, S!sendVars
  <1>4. IInv'
    BY <1>3, StepOfOthersInv DEF DInv
  <1>5. (\A e \in net : Sound(e))'
    BY <1>3 DEF DInv, Sound, Earned, OfFile
  <1>6. Sender'
    BY <1>2, <1>3 DEF DInv, Sender, Earned, OfFile
  <1>7. Buffer'
    BY <1>3 DEF DInv, Buffer, OfFile
  <1>8. Receiver' /\ InStep'
    BY <1>3 DEF DInv, Receiver, InStep, Earned, EndsWithTheFile, StoredInPlace
  <1> QED
    BY <1>3, <1>4, <1>5, <1>6, <1>7, <1>8 DEF DInv

-----------------------------------------------------------------------------
\* The theorems.

\* The initial states satisfy the invariant, and are initial in Transfer.
LEMMA DownloadInitInv == DownloadInit => DInv /\ T!Init
  <1> SUFFICES ASSUME DownloadInit PROVE DInv /\ T!Init
    OBVIOUS
  <1>1. IInv
    BY InitInv DEF DownloadInit, Init
  <1>2. stored = << >> /\ Len(stored) = 0
    BY NothingStored DEF DownloadInit, Init, stored
  <1>3. Sender
    <2>1. s_out = InvalidPacket /\ s_in.pkt = InvalidPacket
      BY DEF DownloadInit, S!Init, S!InvalidPacket, InvalidPacket, S!HeaderSize, HeaderSize
    <2>2. OfFile(s_out) /\ Earned(s_in.pkt)
      BY <2>1 DEF OfFile, Earned, InvalidPacket
    <2>3. /\ s_pos = 0 /\ s_last_packet_sent = FALSE /\ s_last_sent_packet_id = 0
          /\ s_reader = "unset"
      BY DEF DownloadInit, S!Init
    <2>4. 0 \in 0 .. Blocks /\ 0 < Blocks /\ 0 \in 0 .. BlockModulus - 1
      BY Constants
    <2>5. InvalidPacket \in Packet
      BY PacketTypes
    <2> QED
      BY <2>1, <2>2, <2>3, <2>4, <2>5 DEF Sender
  <1>4. Buffer
    BY DEF Buffer, DownloadInit, Init, InvalidPacket
  <1>5. Receiver
    <2>1. m_out.op # "ACK"
      BY DEF DownloadInit, Init, InvalidPacket
    <2> QED
      BY <1>2, <2>1 DEF Receiver, DownloadInit, Init, Earned, EndsWithTheFile, StoredInPlace
  <1>6. InStep
    BY DEF InStep, DownloadInit, Init, S!Init
  <1>7. net = {}
    BY DEF DownloadInit, Init
  <1> QED
    BY <1>1, <1>2, <1>3, <1>4, <1>5, <1>6, <1>7 DEF DInv, T!Init, DownloadInit, S!Init

\* Every step keeps the invariant, and is a step of Transfer or leaves it.
LEMMA DownloadNextInv ==
    DInv /\ [DownloadNext]_downloadVars => DInv' /\ [T!Next]_(T!vars)
  <1> SUFFICES ASSUME DInv, [DownloadNext]_downloadVars
               PROVE  DInv' /\ [T!Next]_(T!vars)
    OBVIOUS
  <1>1. CASE (Start \/ RunHandler \/ Kernel) /\ UNCHANGED connVars
    <2>1. /\ DInv'
          /\ \/ stored' = stored
             \/ /\ Len(stored) < s_pos
                /\ \E b \in {s_pos, Garbled} : stored' = Append(stored, b)
          /\ s_pos' = s_pos
      BY <1>1, ClientSide DEF connVars
    <2> QED
      BY <2>1 DEF T!Next, T!Store, T!vars
  <1>2. CASE (S!Start \/ S!RunHandler \/ S!Kernel) /\ UNCHANGED clientVars
    <2>1. /\ DInv' /\ stored' = stored
          /\ \/ s_pos' = s_pos
             \/ s_pos = Len(stored) /\ s_pos < Blocks /\ s_pos' = s_pos + 1
      BY <1>2, ConnectionSide
    <2> QED
      BY <2>1 DEF T!Next, T!Send, T!vars
  <1>3. CASE ClientReceives \/ ConnectionReceives \/ ClientReceivesOther
    <2>1. DInv' /\ UNCHANGED <<s_pos, stored>>
      BY <1>3, ClientReceivesInv, ConnectionReceivesInv, ClientReceivesOtherInv
    <2> QED
      BY <2>1 DEF T!vars
  <1>4. CASE UNCHANGED downloadVars
    <2>1. /\ UNCHANGED <<resolver, writerVars, sendVars, m_in, io>>
          /\ UNCHANGED <<m_server_endpoint, m_request_complete, file,
                         m_last_acked_packet_id, m_response_expected, m_out>>
          /\ UNCHANGED <<net, stored>>
          /\ UNCHANGED <<s_reader, s_pos, s_last_packet_sent, s_last_sent_packet_id,
                         s_out, s_in>>
      BY <1>4 DEF downloadVars, clientVars, connVars, writerVars, sendVars, stored
    <2>2. IInv'
      BY <2>1, StepOfOthersInv DEF DInv
    <2>3. (\A e \in net : Sound(e))' /\ Sender' /\ Buffer'
      BY <2>1 DEF DInv, Sound, Sender, Buffer, Earned, OfFile
    <2>4. Receiver' /\ InStep'
      BY <2>1 DEF DInv, Receiver, InStep, Earned, EndsWithTheFile, StoredInPlace
    <2> QED
      BY <2>1, <2>2, <2>3, <2>4 DEF DInv, T!vars
  <1> QED
    BY <1>1, <1>2, <1>3, <1>4
       DEF DownloadNext, ClientSteps, ConnectionSteps, Timeout, ConnectionStarts,
           Kernel, S!Kernel

\* The inductive invariant holds in every reachable state.
THEOREM DownloadInvariance == DownloadSpec => []DInv
  <1>1. DInv /\ [DownloadNext]_downloadVars => DInv'
    BY DownloadNextInv
  <1> QED
    BY <1>1, DownloadInitInv, PTL DEF DownloadSpec

\* When the client sends an ACK and expects no more, it has every block of the
\* file, or a burst has cut the last one it stored.
THEOREM DownloadEndsWithTheFile == DownloadSpec => []EndsWithTheFile
  <1>1. DInv => EndsWithTheFile
    BY DEF DInv, Receiver
  <1> QED
    BY <1>1, DownloadInvariance, PTL

\* What the client has stored as the i-th block is block i, or what a burst has
\* made of it.
THEOREM DownloadStoresInPlace == DownloadSpec => []StoredInPlace
  <1>1. DInv => StoredInPlace
    BY DEF DInv, Receiver
  <1> QED
    BY <1>1, DownloadInvariance, PTL

\* The download implements Transfer: the client stores the blocks of the
\* server's file in order, each once, and the server is at most one ahead.
THEOREM DownloadImplementsTransfer == DownloadSpec => ImplementsTransfer
  <1>1. DInv /\ [DownloadNext]_downloadVars => [T!Next]_(T!vars)
    BY DownloadNextInv
  <1> QED
    BY <1>1, DownloadInitInv, DownloadInvariance, PTL
       DEF DownloadSpec, ImplementsTransfer, T!Spec
=============================================================================
