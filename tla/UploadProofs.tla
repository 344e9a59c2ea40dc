---------------------------- MODULE UploadProofs ----------------------------
(***************************************************************************)
(* Proofs that an upload implements Transfer, and that a client which ends *)
(* because its last block was acknowledged is right to, for every file     *)
(* that is shorter than the block numbers wrap, every block size, retry    *)
(* limit, number of timeouts and number of datagrams that are received     *)
(* before a handler runs.  What such a burst may spoil is the bytes of a   *)
(* block, which is then Garbled; what Other truncates is not the concern   *)
(* of written, which is all that Transfer is about.                        *)
(*                                                                         *)
(* The inductive invariant UInv has the client's IInv and what ties the    *)
(* two sides together: the blocks on their way to the connection are of    *)
(* the client's file, and the ACKs on their way back are of those written. *)
(***************************************************************************)
EXTENDS Upload, ClientPutProofs

\* If p acknowledges a block, the connection has written it; ACK 0 is of the
\* request.
Earned(p) == p.op = "ACK" => p.num <= Len(written)

\* The connection's datagrams are earned; IInv says what the client's are.
Sound(d) ==
    /\ d.pkt \in Packet
    /\ \/ d.src = Self /\ d.dst # Self
       \/ d.src = Conn /\ d.dst = Self /\ Earned(d.pkt)

\* The client, beyond its IInv.
Sender ==
    /\ m_last_packet_sent => pos = Blocks /\ m_reader # "failed"
    /\ Earned(m_in.pkt)
    /\ SuccessIsEarned

\* The connection's file; it expects the block that follows, or block 0, which
\* the file does not have: while it is not open, and when the numbers end.
Writes ==
    /\ file \in Seq(S!Block)
    /\ s_writer = "unset" => file = << >> /\ s_next_expected_packet_id = 0
    /\ s_next_expected_packet_id \in {0, Len(written) + 1}

\* What the connection sent last, and what it finds in its buffer.
Buffers ==
    /\ s_out \in Packet /\ Earned(s_out)
    /\ s_in.pkt \in Packet /\ OfFile(s_in.pkt)
    /\ s_io \in Endpoint

\* The client is at most one block ahead.
InStep ==
    /\ Len(written) <= pos
    /\ pos <= Len(written) + 1

UInv ==
    /\ IInv
    /\ \A d \in net : Sound(d)
    /\ Sender
    /\ Writes
    /\ Buffers
    /\ InStep

-----------------------------------------------------------------------------
\* The client's steps.

\* The endpoints differ, and the file is shorter than the numbers.
LEMMA Constants ==
    /\ Self \notin Peers \cup {Server} /\ Conn \in Peers /\ Other \in Peers
    /\ Conn # Self
    /\ Blocks \in Nat \ {0} /\ BlockModulus \in Nat \ {0} /\ Blocks < BlockModulus
    /\ LastSize \in Nat /\ LastSize < DEFAULT_DATA_SIZE
    /\ DEFAULT_DATA_SIZE \in Nat
  BY UploadAssumption, TftpAssumption, ClientPutAssumption

\* The counters of both sides are numbers, and those of blocks never wrap.
LEMMA Counts ==
    ASSUME UInv
    PROVE  /\ pos \in 0 .. Blocks /\ pos \in Nat /\ Len(written) \in Nat
           /\ m_reader # "failed" => m_last_sent_packet_id = pos
           /\ \A p : OfFile(p) /\ p.op = "DATA" => p.num = p.data /\ p.num \in 1 .. pos
  <1>1. pos \in Nat /\ pos <= Blocks
    BY DEF UInv, IInv, StateOK, Position
  <1>2. \A n \in 0 .. Blocks : n % BlockModulus = n
    BY Constants
  <1>3. Len(written) \in Nat
    BY StoredCount DEF UInv, Writes, written
  <1>4. m_reader # "failed" => m_last_sent_packet_id = pos
    BY <1>1, <1>2, Constants DEF UInv, IInv, Position
  <1>5. ASSUME NEW p, OfFile(p), p.op = "DATA"
        PROVE  p.num = p.data /\ p.num \in 1 .. pos
    <2>1. p.data \in 1 .. pos /\ p.num = p.data % BlockModulus
      BY <1>5 DEF OfFile
    <2>2. p.data \in 0 .. Blocks
      BY <1>1, <2>1, Constants
    <2> QED
      BY <1>2, <2>1, <2>2
  <1> QED
    BY <1>1, <1>3, <1>4, <1>5, Constants

\* An expected ACK is of a written block.
LEMMA ExpectedIsEarned ==
    ASSUME UInv, ExpectedAck
    PROVE  m_last_sent_packet_id <= Len(written)
  <1>1. /\ Received.op = "ACK" /\ Received.num = m_last_sent_packet_id
        /\ io.received # << >>
    BY DEF ExpectedAck
  <1>2. m_in.pkt = Received
    BY <1>1, WhatIsReceived DEF UInv
  <1> QED
    BY <1>1, <1>2 DEF UInv, Sender, Earned

\* When the last block is acknowledged, all are written.
LEMMA LastIsEarned ==
    ASSUME UInv, LastAcknowledged
    PROVE  Len(written) = Blocks
  <1>1. m_last_sent_packet_id <= Len(written)
    BY ExpectedIsEarned DEF LastAcknowledged
  <1>2. pos = Blocks /\ m_last_sent_packet_id = pos
    BY Counts DEF LastAcknowledged, UInv, Sender
  <1> QED
    BY <1>1, <1>2, Counts, Constants DEF UInv, InStep

\* What a step of the client does for the transfer.
LEMMA ClientStep ==
    ASSUME UInv, Start \/ RunHandler \/ Kernel
    PROVE  /\ m_in' = m_in
           /\ GoesOn
           /\ m_last_packet_sent' => pos' = Blocks /\ m_reader' # "failed"
           /\ \/ pos' = pos
              \/ pos = Len(written) /\ pos < Blocks /\ pos' = pos + 1
  <1>t. pos \in Nat /\ pos \in 0 .. Blocks /\ Len(written) \in Nat
    BY Counts
  <1>1. CASE ReadBlock
    <2>1. /\ ExpectedAck /\ ~m_last_packet_sent /\ AcceptServer(m_in.src)
          /\ m_reader # "failed" /\ pos' = pos + 1 /\ UNCHANGED <<m_reader, m_in>>
      BY <1>1 DEF ReadBlock
    <2>2. pos = Len(written) /\ pos < Blocks
      <3>1. m_last_sent_packet_id <= Len(written) /\ m_last_sent_packet_id = pos
        BY <2>1, ExpectedIsEarned, Counts
      <3>2. pos < Blocks
        BY <2>1 DEF UInv, IInv, Position
      <3> QED
        BY <1>t, <3>1, <3>2 DEF UInv, InStep
    <2>3. m_last_packet_sent' => pos' = Blocks
      <3>1. PICK full : full = DEFAULT_DATA_SIZE /\ m_last_packet_sent' = (SizeOf(pos + 1) < full)
        BY <1>1 DEF ReadBlock
      <3>2. pos + 1 < Blocks => SizeOf(pos + 1) = DEFAULT_DATA_SIZE
        BY DEF SizeOf
      <3>3. m_last_packet_sent' => SizeOf(pos + 1) < full
        BY <3>1, Zenon
      <3> QED
        BY <1>t, <2>1, <2>2, <3>1, <3>2, <3>3, Constants
    <2>4. GoesOn
      BY <1>t, <2>1 DEF GoesOn, AcceptServer
    <2> QED
      BY <2>1, <2>2, <2>3, <2>4
  <1>2. CASE ReadFails \/ LastAcknowledged
    <2>1. /\ AcceptServer(m_in.src)
          /\ UNCHANGED <<pos, m_last_packet_sent, m_in>>
          /\ ~m_last_packet_sent \/ m_reader' = m_reader
      BY <1>2 DEF ReadFails, LastAcknowledged
    <2>2. GoesOn
      BY <1>t, <2>1 DEF GoesOn, AcceptServer
    <2> QED
      BY <2>1, <2>2 DEF UInv, Sender
  <1>3. CASE on_resolve_query
    <2>1. ~m_request_complete
      BY <1>3 DEF on_resolve_query, UInv, IInv, BeforeAddress
    <2>2. UNCHANGED <<pos, m_last_packet_sent, m_reader, m_in>>
      BY <1>3 DEF on_resolve_query
    <2> QED
      BY <1>t, <2>1, <2>2 DEF GoesOn, UInv, Sender
  <1>4. CASE Start
    <2>1. UNCHANGED <<m_server_endpoint, m_request_complete, pos, m_last_packet_sent, m_in>>
      BY <1>4 DEF Start
    <2>2. m_reader' # "failed"
      BY <1>4 DEF Start
    <2> QED
      BY <1>t, <2>1, <2>2 DEF GoesOn, UInv, Sender
  <1>5. CASE \/ AwaitResponse \/ FinishSending \/ SendFailed \/ on_send_timeout
             \/ ReceiveFailed \/ process_error_received \/ PacketIgnored \/ Kernel
    <2>1. UNCHANGED <<m_server_endpoint, m_request_complete, pos, m_last_packet_sent,
                      m_reader, m_in>>
      BY <1>5 DEF AwaitResponse, FinishSending, SendFailed, on_send_timeout,
                  ReceiveFailed, process_error_received, PacketIgnored, Kernel,
                  TimerExpires, ReceiveBreaks, readerVars, sendVars
    <2> QED
      BY <1>t, <2>1 DEF GoesOn, UInv, Sender
  <1> QED
    BY <1>1, <1>2, <1>3, <1>4, <1>5 DEF RunHandler

\* A step of the client keeps the invariant, and sends the next block if any.
LEMMA ClientSide ==
    ASSUME UInv, Start \/ RunHandler \/ Kernel, UNCHANGED connVars,
           success' => success \/ LastAcknowledged
    PROVE  /\ UInv' /\ written' = written
           /\ \/ pos' = pos
              \/ pos = Len(written) /\ pos < Blocks /\ pos' = pos + 1
  <1>1. /\ m_in' = m_in /\ GoesOn
        /\ m_last_packet_sent' => pos' = Blocks /\ m_reader' # "failed"
        /\ \/ pos' = pos
           \/ pos = Len(written) /\ pos < Blocks /\ pos' = pos + 1
    BY ClientStep
  <1>2. IInv'
    BY OwnStepInv DEF UInv
  <1>3. UNCHANGED <<file, s_writer, s_next_expected_packet_id, s_out, s_in, s_io, written>>
    BY DEF connVars, written
  <1>4. ASSUME NEW d \in net' PROVE Sound(d)'
    <2>1. d \in net \/ d = [src |-> Self, dst |-> m_server_endpoint', pkt |-> m_out']
      BY WhatIsSent DEF Next
    <2>2. CASE d \in net
      BY <1>3, <2>2 DEF UInv, Sound, Earned
    <2>3. CASE d = [src |-> Self, dst |-> m_server_endpoint', pkt |-> m_out']
      <3>1. m_server_endpoint' \in Peers \cup {Server} /\ m_out' \in Packet
        BY <1>2 DEF IInv, StateOK
      <3>2. d.src = Self /\ d.dst # Self /\ d.pkt \in Packet
        BY <2>3, <3>1, Constants
      <3> QED
        BY <3>2 DEF Sound
    <2> QED
      BY <2>1, <2>2, <2>3
  <1>5. Sender'
    <2>1. success' => Len(written) = Blocks
      BY LastIsEarned DEF UInv, Sender, SuccessIsEarned
    <2> QED
      BY <1>1, <1>3, <2>1 DEF UInv, Sender, Earned, SuccessIsEarned
  <1>6. Writes'
    BY <1>3 DEF UInv, Writes
  <1>7. Buffers'
    <2>1. OfFile(s_in.pkt)'
      <3>1. PICK p : p = s_in.pkt
        OBVIOUS
      <3>2. OfFile(p)'
        BY <1>1, <3>1, OfFileStays DEF UInv, Buffers
      <3> QED
        BY <1>3, <3>1, <3>2 DEF OfFile
    <2> QED
      BY <1>3, <2>1 DEF UInv, Buffers, Earned
  <1>8. InStep'
    BY <1>1, <1>3, Counts DEF UInv, InStep
  <1> QED
    BY <1>1, <1>2, <1>3, <1>4, <1>5, <1>6, <1>7, <1>8 DEF UInv

-----------------------------------------------------------------------------
\* The connection's steps.

\* The connection calls ASIO as the client does.
LEMMA SameCalls ==
    ASSUME NEW s
    PROVE  /\ S!open_socket(s) = open_socket(s)
           /\ \A accepted : S!async_send_to(s, accepted) = async_send_to(s, accepted)
           /\ S!async_receive_from(s) = async_receive_from(s)
           /\ S!restart_timer(s) = restart_timer(s)
           /\ S!cancel_timer(s) = cancel_timer(s)
           /\ S!close_socket(s) = close_socket(s)
           /\ S!expire(s) = expire(s)
           /\ \A bytes : S!complete_receive(s, bytes) = complete_receive(s, bytes)
           /\ S!break_receive(s) = break_receive(s)
           /\ S!take_sent(s) = take_sent(s)
           /\ S!take_failed(s) = take_failed(s)
           /\ S!take_expired(s) = take_expired(s)
           /\ S!take_received(s) = take_received(s)
           /\ S!take_broken(s) = take_broken(s)
  BY DEF S!open_socket, open_socket, S!async_send_to, async_send_to,
         S!async_receive_from, async_receive_from, S!restart_timer, restart_timer,
         S!cancel_timer, cancel_timer, S!close_socket, close_socket, S!expire, expire,
         S!complete_receive, complete_receive, S!break_receive, break_receive,
         S!take_sent, take_sent, S!take_failed, take_failed, S!take_expired, take_expired,
         S!take_received, take_received, S!take_broken, take_broken

\* What handing a packet to ASIO does to the endpoint and the wire.
LEMMA ConnectionSends ==
    ASSUME NEW p, NEW s \in Endpoint, S!send_prepared_packet(p, s)
    PROVE  /\ s_io' \in Endpoint
           /\ \A d \in net' : d \in net \/ d = [src |-> Conn, dst |-> Self, pkt |-> p]
  <1>1. PICK accepted \in BOOLEAN :
            /\ s_io' = S!async_send_to(s, accepted)
            /\ net' = IF s.open /\ accepted
                      THEN net \cup {[src |-> Conn, dst |-> Self, pkt |-> p]}
                      ELSE net
    BY DEF S!send_prepared_packet
  <1>2. s_io' = async_send_to(s, accepted)
    BY <1>1, SameCalls
  <1> QED
    BY <1>1, <1>2, CallsKeepEndpoint

\* So does ending the connection.
LEMMA ConnectionEnds ==
    ASSUME NEW s \in Endpoint, S!terminate(s)
    PROVE  s_io' \in Endpoint
  <1>1. close_socket(s) \in Endpoint
    BY CallsKeepEndpoint
  <1>2. s_io' = cancel_timer(close_socket(s))
    BY SameCalls DEF S!terminate
  <1> QED
    BY <1>1, <1>2, CallsKeepEndpoint

\* The steps of the connection leave its buffer, and its endpoint an endpoint.
LEMMA ConnectionKeepsEndpoint ==
    ASSUME s_io \in Endpoint, S!Start \/ S!RunHandler \/ S!Kernel
    PROVE  s_in' = s_in /\ s_io' \in Endpoint
  <1>in. s_in' = s_in
    BY DEF S!Start, S!RunHandler, S!Kernel, S!AwaitResponse, S!FinishSending, S!SendFailed,
           S!on_send_timeout, S!ReceiveFailed, S!StoreAndAck, S!RefuseData,
           S!process_error_received, S!PacketIgnored, S!TimerExpires, S!ReceiveBreaks
  <1>1. CASE S!Start
    <2>1. open_socket(s_io) \in Endpoint
      BY CallsKeepEndpoint
    <2>2. \E p : S!send_prepared_packet(p, open_socket(s_io))
      <3>1. S!open_socket(s_io) = open_socket(s_io)
        BY SameCalls
      <3> QED
        BY <1>1, <3>1 DEF S!Start, S!send_ack, S!send_packet
    <2> QED
      BY <1>in, <2>1, <2>2, ConnectionSends
  <1>2. CASE S!AwaitResponse
    <2>1. take_sent(s_io) \in Endpoint
      BY <1>2, HandlersKeepEndpoint DEF S!AwaitResponse
    <2>2. restart_timer(take_sent(s_io)) \in Endpoint
      BY <2>1, CallsKeepEndpoint
    <2>3. s_io' = async_receive_from(restart_timer(take_sent(s_io)))
      BY <1>2, SameCalls DEF S!AwaitResponse
    <2> QED
      BY <1>in, <2>2, <2>3, CallsKeepEndpoint
  <1>3. CASE S!FinishSending \/ S!SendFailed \/ S!ReceiveFailed
    <2>1. PICK s \in {take_sent(s_io), take_failed(s_io), take_broken(s_io)} :
              S!terminate(s) /\ s \in Endpoint
      BY <1>3, SameCalls, HandlersKeepEndpoint
         DEF S!FinishSending, S!SendFailed, S!ReceiveFailed
    <2> QED
      BY <1>in, <2>1, ConnectionEnds
  <1>4. CASE S!on_send_timeout
    <2>1. /\ take_expired(s_io) \in Endpoint
          /\ S!take_expired(s_io) = take_expired(s_io)
      BY <1>4, SameCalls, HandlersKeepEndpoint DEF S!on_send_timeout
    <2>2. \/ S!send_prepared_packet(s_out, take_expired(s_io))
          \/ S!terminate(take_expired(s_io))
      BY <1>4, <2>1 DEF S!on_send_timeout
    <2> QED
      BY <1>in, <2>1, <2>2, ConnectionSends, ConnectionEnds
  <1>5. CASE S!StoreAndAck \/ S!RefuseData \/ S!process_error_received \/ S!PacketIgnored
    <2>1. s_io.received # << >>
      BY <1>5 DEF S!StoreAndAck, S!RefuseData, S!ExpectedData, S!process_error_received,
                  S!PacketIgnored
    <2>2. /\ take_received(s_io) \in Endpoint
          /\ S!take_received(s_io) = take_received(s_io)
      BY <2>1, SameCalls, HandlersKeepEndpoint
    <2>3. /\ cancel_timer(take_received(s_io)) \in Endpoint
          /\ S!cancel_timer(take_received(s_io)) = cancel_timer(take_received(s_io))
      BY <2>2, SameCalls, CallsKeepEndpoint
    <2>4. \/ \E p : S!send_prepared_packet(p, cancel_timer(take_received(s_io)))
          \/ S!terminate(take_received(s_io))
          \/ s_io' = take_received(s_io)
      BY <1>5, <2>2, <2>3 DEF S!StoreAndAck, S!RefuseData, S!process_error_received,
                  S!PacketIgnored, S!send_ack, S!send_packet
    <2> QED
      BY <1>in, <2>1, <2>2, <2>3, <2>4, ConnectionSends, ConnectionEnds
  <1>6. CASE S!Kernel
    <2>1. \/ s_io' = expire(s_io)
          \/ s_io.receives > 0 /\ s_io' = break_receive(s_io)
      BY <1>6, SameCalls DEF S!Kernel, S!TimerExpires, S!ReceiveBreaks
    <2> QED
      BY <1>in, <2>1, KernelKeepsEndpoint
  <1> QED
    BY <1>1, <1>2, <1>3, <1>4, <1>5, <1>6 DEF S!RunHandler

\* The DATA packet the connection expects is the block the client sent last, or
\* is where that block belongs.
LEMMA ExpectedDataIsNext ==
    ASSUME UInv, S!ExpectedData, NEW p, p = S!Received
    PROVE  /\ p \in Packet /\ p.num = pos /\ p.data \in {pos, Garbled}
           /\ pos = Len(written) + 1
           /\ s_next_expected_packet_id = pos
  <1>1. /\ s_io.received # << >> /\ p.op = "DATA"
        /\ p.num = s_next_expected_packet_id
    BY DEF S!ExpectedData
  <1>2. PICK bytes : bytes = Head(s_io.received)
    OBVIOUS
  <1>3. s_in.pkt \in Packet /\ bytes \in Nat
    <2>1. s_io.received \in Seq(Nat) /\ s_in.pkt \in Packet
      BY DEF UInv, Buffers, Endpoint
    <2> QED
      BY <1>1, <1>2, <2>1, HeadTailProperties
  <1>4. p = parse_packet(s_in.pkt, bytes)
    <2>1. p = S!parse_packet(s_in.pkt, bytes)
      BY <1>1, <1>2 DEF S!Received, S!InvalidPacket
    <2> QED
      BY <2>1 DEF S!parse_packet, parse_packet, S!Opcode, Opcode, S!HeaderSize, HeaderSize,
                  S!DataPacket, DataPacket, S!InvalidPacket, InvalidPacket
  <1>5. /\ s_in.pkt.op = "DATA" /\ p.num = s_in.pkt.num
        /\ p.data \in {s_in.pkt.data, Garbled}
    BY <1>1, <1>3, <1>4, ParsedAsReceived
  <1>6. p \in Packet
    BY <1>3, <1>4, ParsedPacket
  <1>7. p.data \in {p.num, Garbled} /\ p.num \in 1 .. pos
    BY <1>5, Counts DEF UInv, Buffers
  <1>8. s_next_expected_packet_id = Len(written) + 1
    BY <1>1, <1>7, Counts DEF UInv, Writes
  <1> QED
    BY <1>1, <1>6, <1>7, <1>8, Counts DEF UInv, InStep

\* A step of the connection: what it stores, and that what it puts on the wire
\* is its m_out.
Stores ==
    \/ written' = written
    \/ /\ Len(written) < pos
       /\ \E b \in {pos, Garbled} : written' = Append(written, b)
       /\ Len(written') = Len(written) + 1

Sends ==
    /\ \A d \in net' : d \in net \/ d = [src |-> Conn, dst |-> Self, pkt |-> s_out']
    /\ s_out' \in Packet /\ Earned(s_out)'

\* Sending an ERROR.
LEMMA ErrorIsSent ==
    ASSUME NEW code \in Nat, NEW more, NEW budget, NEW s \in Endpoint,
           S!send_packet(S!ErrorPacket(code), more, budget, s)
    PROVE  Sends
  <1>1. s_out' = ErrorPacket(code)
    BY DEF S!send_packet, S!ErrorPacket, ErrorPacket
  <1>2. s_out' \in Packet /\ s_out'.op # "ACK"
    BY <1>1, PacketTypes DEF ErrorPacket
  <1>3. \A d \in net' : d \in net \/ d = [src |-> Conn, dst |-> Self, pkt |-> s_out']
    BY ConnectionSends DEF S!send_packet
  <1> QED
    BY <1>2, <1>3 DEF Sends, Earned

\* Sending the ACK of block n, and expecting the one behind it.
LEMMA AckIsSent ==
    ASSUME NEW n \in 0 .. BlockModulus - 1, NEW last, NEW s \in Endpoint,
           S!send_ack(n, last, s), Len(written') = n
    PROVE  Sends /\ s_next_expected_packet_id' \in {0, n + 1}
  <1>1. s_out' = AckPacket(n)
    BY DEF S!send_ack, S!send_packet, S!AckPacket, AckPacket, S!HeaderSize, HeaderSize
  <1>2. s_out' \in Packet /\ s_out'.num = n
    BY <1>1, PacketTypes, Constants DEF AckPacket
  <1>3. \A d \in net' : d \in net \/ d = [src |-> Conn, dst |-> Self, pkt |-> s_out']
    BY ConnectionSends DEF S!send_ack, S!send_packet
  <1>4. s_next_expected_packet_id' \in {0, n + 1}
    BY DEF S!send_ack, S!NextBlock
  <1>5. Earned(s_out)'
    <2>1. s_out'.num <= Len(written')
      BY <1>2, Constants
    <2> QED
      BY <2>1 DEF Earned
  <1> QED
    BY <1>2, <1>3, <1>4, <1>5 DEF Sends

\* The connection stores the block it expected, and acknowledges it.
LEMMA StoringStep ==
    ASSUME UInv, S!StoreAndAck
    PROVE  Writes' /\ Sends /\ Stores
  <1>p. PICK p : p = S!Received
    OBVIOUS
  <1>1. /\ S!ExpectedData /\ s_writer' = s_writer
        /\ file' = Append(file, S!BlockOf(p, TRUE))
    BY <1>p DEF S!StoreAndAck, S!Store
  <1>2. /\ p \in Packet /\ p.num = pos /\ p.data \in {pos, Garbled}
        /\ pos = Len(written) + 1 /\ s_next_expected_packet_id = pos
    BY <1>1, <1>p, ExpectedDataIsNext
  <1>t. pos \in 0 .. Blocks /\ pos \in Nat /\ Len(written) \in Nat
    BY Counts
  <1>3. /\ written' = Append(written, p.data) /\ Len(written') = Len(written) + 1
        /\ file' \in Seq(S!Block)
    <2>b. PICK b : b = S!BlockOf(p, TRUE)
      OBVIOUS
    <2>1. b \in S!Block /\ b.whole = TRUE /\ b.data = p.data
      BY <1>2, <2>b DEF S!BlockOf, S!Block, Packet, S!DataSize, S!HeaderSize
    <2>2. file \in Seq(S!Block)
      BY DEF UInv, Writes
    <2>3. /\ WholeBlocks(Append(file, b)) = Append(WholeBlocks(file), b.data)
          /\ Len(WholeBlocks(Append(file, b))) = Len(WholeBlocks(file)) + 1
      BY <2>1, <2>2, WholeIsStored
    <2>4. file' = Append(file, b)
      BY <1>1, <2>b
    <2> QED
      BY <2>1, <2>2, <2>3, <2>4 DEF written
  <1>4. PICK s, last : s \in Endpoint /\ S!send_ack(pos, last, s)
    <2>1. s_io \in Endpoint /\ s_io.received # << >>
      BY <1>1 DEF UInv, Buffers, S!ExpectedData
    <2>2. take_received(s_io) \in Endpoint
      BY <2>1, HandlersKeepEndpoint
    <2>3. cancel_timer(take_received(s_io)) \in Endpoint
      BY <2>2, CallsKeepEndpoint
    <2>4. S!cancel_timer(S!take_received(s_io)) = cancel_timer(take_received(s_io))
      BY SameCalls
    <2> QED
      BY <1>2, <1>p, <2>3, <2>4 DEF S!StoreAndAck
  <1>5. pos \in 0 .. BlockModulus - 1 /\ Len(written') = pos
    BY <1>2, <1>3, <1>t, Constants
  <1>6. Sends /\ s_next_expected_packet_id' \in {0, pos + 1}
    BY <1>4, <1>5, AckIsSent
  <1>7. s_writer # "unset"
    <2>1. s_writer = "unset" => file = << >> /\ s_next_expected_packet_id = 0
      BY DEF UInv, Writes
    <2> QED
      BY <1>2, <1>t, <2>1
  <1>8. Writes'
    BY <1>1, <1>3, <1>5, <1>6, <1>7 DEF Writes
  <1> QED
    BY <1>2, <1>3, <1>6, <1>8, <1>t DEF Stores

\* A block that is refused is not written, and answered with an ERROR.
LEMMA RefusingStep ==
    ASSUME UInv, S!RefuseData
    PROVE  Writes' /\ Sends /\ written' = written
  <1>p. PICK p : p = S!Received
    OBVIOUS
  <1>1. /\ S!ExpectedData /\ s_writer' = "failed"
        /\ file' = file \/ file' = Append(file, S!BlockOf(p, FALSE))
        /\ s_next_expected_packet_id' = s_next_expected_packet_id
    BY <1>p DEF S!RefuseData, S!StoreFails
  <1>2. p \in Packet
    BY <1>1, <1>p, ExpectedDataIsNext
  <1>3. written' = written /\ file' \in Seq(S!Block)
    <2>b. PICK b : b = S!BlockOf(p, FALSE)
      OBVIOUS
    <2>1. b \in S!Block /\ b.whole = FALSE
      BY <1>2, <2>b DEF S!BlockOf, S!Block, Packet, S!DataSize, S!HeaderSize
    <2>2. file \in Seq(S!Block)
      BY DEF UInv, Writes
    <2>3. WholeBlocks(Append(file, b)) = WholeBlocks(file)
      BY <2>1, <2>2, PartIsNotStored
    <2>4. file' = file \/ file' = Append(file, b)
      BY <1>1, <2>b
    <2>5. written' = written
      BY <2>3, <2>4 DEF written
    <2>6. Append(file, b) \in Seq(S!Block)
      BY <2>1, <2>2
    <2> QED
      BY <2>2, <2>4, <2>5, <2>6
  <1>4. Sends
    <2>1. s_io \in Endpoint /\ s_io.received # << >>
      BY <1>1 DEF UInv, Buffers, S!ExpectedData
    <2>2. take_received(s_io) \in Endpoint
      BY <2>1, HandlersKeepEndpoint
    <2>3. cancel_timer(take_received(s_io)) \in Endpoint
      BY <2>2, CallsKeepEndpoint
    <2>4. S!cancel_timer(S!take_received(s_io)) = cancel_timer(take_received(s_io))
      BY SameCalls
    <2>5. S!send_packet(S!ErrorPacket(S!ERRCODE_DISK_FULL), FALSE, 0,
                        cancel_timer(take_received(s_io)))
      BY <2>4 DEF S!RefuseData
    <2> QED
      BY <2>3, <2>5, ErrorIsSent DEF S!ERRCODE_DISK_FULL
  <1>5. Writes'
    BY <1>1, <1>3 DEF UInv, Writes
  <1> QED
    BY <1>3, <1>4, <1>5

\* The connection starts: it acknowledges the request, or sends an ERROR.
LEMMA StartingStep ==
    ASSUME UInv, S!Start
    PROVE  Writes' /\ Sends /\ written' = written
  <1>1. /\ s_writer = "unset" /\ file' = file /\ file = << >>
        /\ written' = written
    BY DEF S!Start, UInv, Writes, written
  <1>2. Len(written) = 0
    BY <1>1, NothingStored DEF written
  <1>3. open_socket(s_io) \in Endpoint /\ S!open_socket(s_io) = open_socket(s_io)
    BY CallsKeepEndpoint, SameCalls DEF UInv, Buffers
  <1>4. CASE s_writer' = "open" /\ S!send_ack(0, FALSE, open_socket(s_io))
    <2>1. Sends /\ s_next_expected_packet_id' \in {0, 1}
      <3>1. PICK n : n = 0
        OBVIOUS
      <3>2. n \in 0 .. BlockModulus - 1 /\ Len(written') = n
        BY <1>1, <1>2, <3>1, Constants
      <3>3. S!send_ack(n, FALSE, open_socket(s_io))
        BY <1>4, <3>1
      <3>4. Sends /\ s_next_expected_packet_id' \in {0, n + 1}
        BY <1>3, <3>2, <3>3, AckIsSent
      <3> QED
        BY <3>1, <3>4
    <2>2. Writes'
      BY <1>1, <1>2, <1>4, <2>1 DEF UInv, Writes
    <2> QED
      BY <1>1, <2>1, <2>2
  <1>5. CASE /\ s_writer' \in {"null", "closed"}
             /\ \E code \in Nat :
                    S!send_packet(S!ErrorPacket(code), FALSE, 0, open_socket(s_io))
             /\ s_next_expected_packet_id' = s_next_expected_packet_id
    <2>1. Sends
      BY <1>3, <1>5, ErrorIsSent
    <2>2. Writes'
      BY <1>1, <1>5 DEF UInv, Writes
    <2> QED
      BY <1>1, <2>1, <2>2
  <1>6. /\ S!ERRCODE_ACCESS_VIOLATION \in Nat /\ S!ERRCODE_FILE_NOT_FOUND \in Nat
    BY DEF S!ERRCODE_ACCESS_VIOLATION, S!ERRCODE_FILE_NOT_FOUND
  <1> QED
    BY <1>3, <1>4, <1>5, <1>6 DEF S!Start

\* What a step of the connection does for the transfer.
LEMMA ConnectionStep ==
    ASSUME UInv, S!Start \/ S!RunHandler \/ S!Kernel
    PROVE  Writes' /\ Sends /\ Stores
  <1>1. ASSUME UNCHANGED <<s_writer, file, s_next_expected_packet_id, s_out>>,
               \A d \in net' : d \in net \/ d = [src |-> Conn, dst |-> Self, pkt |-> s_out]
        PROVE  Writes' /\ Sends /\ Stores
    <2>1. written' = written
      BY <1>1 DEF written
    <2> QED
      BY <1>1, <2>1 DEF UInv, Writes, Buffers, Sends, Stores, Earned
  <1>2. CASE \/ S!AwaitResponse \/ S!FinishSending \/ S!SendFailed \/ S!ReceiveFailed
             \/ S!process_error_received \/ S!PacketIgnored \/ S!Kernel
    <2>1. UNCHANGED <<s_writer, file, s_next_expected_packet_id, s_out>> /\ net' = net
      BY <1>2 DEF S!Kernel, S!AwaitResponse, S!FinishSending, S!SendFailed,
                  S!ReceiveFailed, S!process_error_received, S!PacketIgnored,
                  S!TimerExpires, S!ReceiveBreaks, S!writerVars, S!sendVars
    <2> QED
      BY <1>1, <2>1
  <1>3. CASE S!on_send_timeout
    <2>1. UNCHANGED <<s_writer, file, s_next_expected_packet_id, s_out>>
      BY <1>3 DEF S!on_send_timeout, S!writerVars
    <2>2. net' = net \/ S!send_prepared_packet(s_out, take_expired(s_io))
      BY <1>3, SameCalls DEF S!on_send_timeout
    <2>3. take_expired(s_io) \in Endpoint
      BY <1>3, HandlersKeepEndpoint DEF S!on_send_timeout, UInv, Buffers
    <2>4. \A d \in net' : d \in net \/ d = [src |-> Conn, dst |-> Self, pkt |-> s_out]
      BY <2>2, <2>3, ConnectionSends
    <2> QED
      BY <1>1, <2>1, <2>4
  <1> QED
    BY <1>2, <1>3, StoringStep, RefusingStep, StartingStep DEF S!RunHandler, Stores

\* A step of the connection keeps the invariant, and stores the next block if
\* any.
LEMMA ConnectionSide ==
    ASSUME UInv, S!Start \/ S!RunHandler \/ S!Kernel, UNCHANGED clientVars
    PROVE  /\ UInv' /\ pos' = pos
           /\ \/ written' = written
              \/ /\ Len(written) < pos
                 /\ \E b \in {pos, Garbled} : written' = Append(written, b)
  <1>1. Writes' /\ Sends /\ Stores
    BY ConnectionStep
  <1>2. /\ UNCHANGED <<resolver, readerVars, sendVars, m_in, io, success>>
        /\ UNCHANGED <<m_request_complete, m_reader, pos, m_last_packet_sent>>
    BY DEF clientVars, readerVars, sendVars
  <1>t. /\ pos \in Nat /\ Len(written) \in Nat /\ Len(written') \in Nat
        /\ Len(written) <= Len(written')
    <2>1. pos \in Nat /\ Len(written) \in Nat
      BY Counts
    <2> QED
      BY <1>1, <2>1 DEF Stores
  <1>3. ASSUME NEW p \in Packet, Earned(p) PROVE Earned(p)'
    BY <1>3, <1>t DEF Earned, Packet
  <1>4. ASSUME NEW d \in net', d \notin net PROVE Sound(d)' /\ d.src = Conn
    <2>1. d = [src |-> Conn, dst |-> Self, pkt |-> s_out']
      BY <1>1, <1>4 DEF Sends
    <2>2. d.pkt \in Packet /\ d.src = Conn /\ d.dst = Self
      BY <1>1, <2>1 DEF Sends
    <2>3. Earned(d.pkt)'
      BY <1>1, <2>1 DEF Sends, Earned
    <2> QED
      BY <2>2, <2>3 DEF Sound
  <1>5. ASSUME NEW d \in net, Sound(d) PROVE Sound(d)'
    BY <1>3, <1>5 DEF Sound
  <1>6. IInv'
    <2>1. \A d \in net' : d.src = Self => d \in net
      BY <1>4, Constants
    <2> QED
      BY <1>2, <2>1, StepOfOthersInv DEF UInv
  <1>7. Sender'
    <2>1. Earned(m_in.pkt)'
      <3>1. PICK p : p = m_in.pkt
        OBVIOUS
      <3>2. p \in Packet /\ Earned(p)
        BY <3>1 DEF UInv, IInv, StateOK, Sender
      <3>3. Earned(p)'
        BY <1>3, <3>2
      <3> QED
        BY <1>2, <3>1, <3>3 DEF Earned
    <2>2. success' => Len(written') = Blocks
      <3>1. Len(written) = Blocks => Len(written') = Blocks
        BY <1>1, Counts, Constants DEF Stores
      <3> QED
        BY <1>2, <3>1 DEF UInv, Sender, SuccessIsEarned
    <2> QED
      BY <1>2, <2>1, <2>2 DEF UInv, Sender, SuccessIsEarned
  <1>8. Buffers'
    <2>1. /\ s_in' = s_in /\ s_io' \in Endpoint
      BY ConnectionKeepsEndpoint DEF UInv, Buffers
    <2>2. OfFile(s_in.pkt)'
      BY <1>2, <2>1 DEF UInv, Buffers, OfFile
    <2> QED
      BY <1>1, <2>1, <2>2 DEF UInv, Buffers, Sends
  <1>9. InStep'
    BY <1>1, <1>2, <1>t DEF UInv, InStep, Stores
  <1> QED
    BY <1>1, <1>2, <1>4, <1>5, <1>6, <1>7, <1>8, <1>9 DEF UInv, Stores

-----------------------------------------------------------------------------
\* Datagrams that arrive.

\* The client receives d, which acknowledges nothing that is not written.
LEMMA ClientGets ==
    ASSUME UInv, NEW d, Receive(d), UNCHANGED <<connVars, success>>,
           d.src \in Peers, d.pkt \in Packet, Earned(d.pkt)
    PROVE  UInv' /\ UNCHANGED <<pos, written>>
  <1>1. /\ m_in' = [src |-> d.src, pkt |-> d.pkt]
        /\ UNCHANGED <<m_request_complete, m_reader, pos, m_last_packet_sent, net, success>>
        /\ UNCHANGED <<s_writer, file, s_next_expected_packet_id, s_out, s_in, s_io>>
        /\ written' = written
    BY DEF Receive, readerVars, sendVars, connVars, written
  <1>2. IInv'
    BY ReceiveInv DEF UInv
  <1>3. (\A e \in net : Sound(e))'
    BY <1>1 DEF UInv, Sound, Earned
  <1>4. Sender'
    BY <1>1 DEF UInv, Sender, Earned, SuccessIsEarned
  <1>5. Writes' /\ Buffers'
    BY <1>1 DEF UInv, Writes, Buffers, Earned, OfFile
  <1>6. InStep'
    BY <1>1 DEF UInv, InStep
  <1> QED
    BY <1>1, <1>2, <1>3, <1>4, <1>5, <1>6 DEF UInv

\* From the connection the client keeps to.
LEMMA ClientReceivesInv ==
    ASSUME UInv, ClientReceives
    PROVE  UInv' /\ UNCHANGED <<pos, written>>
  <1>1. PICK d \in net : d.dst = Self /\ Receive(d)
    BY DEF ClientReceives
  <1>2. d.pkt \in Packet /\ d.src \in Peers /\ Earned(d.pkt)
    BY <1>1, Constants DEF UInv, Sound
  <1> QED
    BY <1>1, <1>2, ClientGets DEF ClientReceives

\* From the other connection.
LEMMA ClientReceivesOtherInv ==
    ASSUME UInv, ClientReceivesOther
    PROVE  UInv' /\ UNCHANGED <<pos, written>>
  <1>1. PICK p \in {AckPacket(0), ErrorPacket(ERRCODE_ACCESS_VIOLATION)} :
            Receive([src |-> Other, pkt |-> p])
    BY DEF ClientReceivesOther
  <1>2. p \in Packet
    BY PacketTypes DEF ERRCODE_ACCESS_VIOLATION
  <1>3. Earned(p)
    BY Counts DEF Earned, AckPacket, ErrorPacket
  <1>4. PICK d : d = [src |-> Other, pkt |-> p]
    OBVIOUS
  <1>5. d.src \in Peers /\ d.pkt = p
    BY <1>4, Constants
  <1> QED
    BY <1>1, <1>2, <1>3, <1>4, <1>5, ClientGets DEF ClientReceivesOther

\* The connection receives a datagram of the client.
LEMMA ConnectionReceivesInv ==
    ASSUME UInv, ConnectionReceives
    PROVE  UInv' /\ UNCHANGED <<pos, written>>
  <1>1. PICK d \in net : d.dst = Conn /\ S!Receive(d)
    BY DEF ConnectionReceives
  <1>2. d.pkt \in Packet /\ OfFile(d.pkt)
    BY <1>1, Constants DEF UInv, Sound, IInv
  <1>3. /\ UNCHANGED <<resolver, readerVars, sendVars, m_in, io>>
        /\ UNCHANGED <<m_request_complete, m_reader, pos, m_last_packet_sent, success>>
        /\ UNCHANGED <<net, s_writer, file, s_next_expected_packet_id, s_out, written>>
        /\ s_in' = [src |-> d.src, pkt |-> d.pkt]
    BY <1>1 DEF ConnectionReceives, clientVars, readerVars, sendVars, written,
                S!Receive, S!writerVars, S!sendVars
  <1>4. IInv'
    BY <1>3, StepOfOthersInv DEF UInv
  <1>5. (\A e \in net : Sound(e))' /\ Sender' /\ Writes' /\ InStep'
    BY <1>3 DEF UInv, Sound, Sender, Writes, InStep, Earned, SuccessIsEarned
  <1>6. s_io' \in Endpoint
    <2>1. /\ s_io \in Endpoint /\ s_io.receives > 0 /\ d.pkt.len \in Nat
          /\ s_io' = complete_receive(s_io, d.pkt.len)
      BY <1>1, <1>2, SameCalls DEF S!Receive, UInv, Buffers, Packet
    <2> QED
      BY <2>1, KernelKeepsEndpoint
  <1>7. Buffers'
    BY <1>2, <1>3, <1>6 DEF UInv, Buffers, Earned, OfFile
  <1> QED
    BY <1>3, <1>4, <1>5, <1>7 DEF UInv

-----------------------------------------------------------------------------
\* The theorems.

\* The initial states satisfy the invariant, and are initial in Transfer.
LEMMA UploadInitInv == UploadInit => UInv /\ T!Init
  <1> SUFFICES ASSUME UploadInit PROVE UInv /\ T!Init
    OBVIOUS
  <1>1. IInv
    BY InitInv DEF UploadInit, Init
  <1>2. file = << >> /\ written = << >> /\ Len(written) = 0
    BY NothingStored DEF UploadInit, S!Init, written
  <1>3. Sender
    <2>1. m_in.pkt.op # "ACK"
      BY DEF UploadInit, Init, InvalidPacket
    <2> QED
      BY <2>1 DEF Sender, UploadInit, Init, Earned, SuccessIsEarned
  <1>4. Writes
    <2>1. << >> \in Seq(S!Block)
      OBVIOUS
    <2> QED
      BY <1>2, <2>1 DEF Writes, UploadInit, S!Init
  <1>5. Buffers
    <2>1. s_out = InvalidPacket /\ s_in.pkt = InvalidPacket
      BY DEF UploadInit, S!Init, S!InvalidPacket, InvalidPacket, S!HeaderSize, HeaderSize
    <2>2. s_io = Unopened
      BY DEF UploadInit, S!Init, S!Unopened, Unopened
    <2>3. Unopened \in Endpoint
      BY UnopenedEndpoint
    <2>4. OfFile(s_in.pkt) /\ Earned(s_out)
      BY <2>1 DEF OfFile, Earned, InvalidPacket
    <2> QED
      BY <2>1, <2>2, <2>3, <2>4, PacketTypes DEF Buffers
  <1>6. InStep
    BY <1>2 DEF InStep, UploadInit, Init
  <1>7. net = {}
    BY DEF UploadInit, Init
  <1> QED
    BY <1>1, <1>2, <1>3, <1>4, <1>5, <1>6, <1>7 DEF UInv, T!Init, UploadInit, Init

\* Every step keeps the invariant, and is a step of Transfer or leaves it.
LEMMA UploadNextInv ==
    UInv /\ [UploadNext]_uploadVars => UInv' /\ [T!Next]_(T!vars)
  <1> SUFFICES ASSUME UInv, [UploadNext]_uploadVars
               PROVE  UInv' /\ [T!Next]_(T!vars)
    OBVIOUS
  <1>1. CASE /\ Start \/ RunHandler \/ Kernel
             /\ UNCHANGED connVars
             /\ success' => success \/ LastAcknowledged
    <2>1. /\ UInv' /\ written' = written
          /\ \/ pos' = pos
             \/ pos = Len(written) /\ pos < Blocks /\ pos' = pos + 1
      BY <1>1, ClientSide
    <2> QED
      BY <2>1 DEF T!Next, T!Send, T!vars
  <1>2. CASE (S!Start \/ S!RunHandler \/ S!Kernel) /\ UNCHANGED clientVars
    <2>1. /\ UInv' /\ pos' = pos
          /\ \/ written' = written
             \/ /\ Len(written) < pos
                /\ \E b \in {pos, Garbled} : written' = Append(written, b)
      BY <1>2, ConnectionSide
    <2> QED
      BY <2>1 DEF T!Next, T!Store, T!vars
  <1>3. CASE ClientReceives \/ ConnectionReceives \/ ClientReceivesOther
    <2>1. UInv' /\ UNCHANGED <<pos, written>>
      BY <1>3, ClientReceivesInv, ConnectionReceivesInv, ClientReceivesOtherInv
    <2> QED
      BY <2>1 DEF T!vars
  <1>4. CASE UNCHANGED <<clientVars, connVars, net>>
    <2>1. /\ UNCHANGED <<resolver, readerVars, sendVars, m_in, io>>
          /\ UNCHANGED <<m_request_complete, m_reader, pos, m_last_packet_sent, success>>
          /\ UNCHANGED <<net, s_writer, file, s_next_expected_packet_id, s_out, s_in, s_io>>
          /\ written' = written
      BY <1>4 DEF clientVars, connVars, readerVars, sendVars, written
    <2>2. IInv'
      BY <2>1, StepOfOthersInv DEF UInv
    <2>3. (\A e \in net : Sound(e))' /\ Sender' /\ InStep'
      BY <2>1 DEF UInv, Sound, Sender, InStep, Earned, SuccessIsEarned
    <2>4. Writes' /\ Buffers'
      BY <2>1 DEF UInv, Writes, Buffers, Earned, OfFile
    <2> QED
      BY <2>1, <2>2, <2>3, <2>4 DEF UInv, T!vars
  <1>5. ClientSteps => (success' => success \/ LastAcknowledged)
    BY Zenon DEF ClientSteps
  <1>6. TimerExpires /\ UNCHANGED success => (success' => success)
    OBVIOUS
  <1>7. OtherOpens \/ UNCHANGED uploadVars => UNCHANGED <<clientVars, connVars, net>>
    BY DEF OtherOpens, uploadVars
  <1> QED
    BY <1>1, <1>2, <1>3, <1>4, <1>5, <1>6, <1>7
       DEF UploadNext, ClientSteps, ConnectionSteps, Timeout, ConnectionStarts,
           Kernel, S!Kernel

\* The inductive invariant holds in every reachable state.
THEOREM UploadInvariance == UploadSpec => []UInv
  <1>1. UInv /\ [UploadNext]_uploadVars => UInv'
    BY UploadNextInv
  <1> QED
    BY <1>1, UploadInitInv, PTL DEF UploadSpec

\* A client that ends because its last block was acknowledged is right to, as
\* far as its connection goes: it has written a block for each of the file's.
THEOREM UploadSuccessIsEarned == UploadSpec => []SuccessIsEarned
  <1>1. UInv => SuccessIsEarned
    BY DEF UInv, Sender
  <1> QED
    BY <1>1, UploadInvariance, PTL

\* The upload implements Transfer: the connection writes the blocks of the
\* client's file in order, each once and in its place, though its bytes may be
\* Garbled, and the client is at most one ahead.
THEOREM UploadImplementsTransfer == UploadSpec => ImplementsTransfer
  <1>1. UInv /\ [UploadNext]_uploadVars => [T!Next]_(T!vars)
    BY UploadNextInv
  <1> QED
    BY <1>1, UploadInitInv, UploadInvariance, PTL
       DEF UploadSpec, ImplementsTransfer, T!Spec
=============================================================================
