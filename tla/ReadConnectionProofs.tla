------------------------ MODULE ReadConnectionProofs ------------------------
(***************************************************************************)
(* Proofs that a read connection keeps its safety properties for every     *)
(* client, file, retry limit, block size and width of the block numbers.   *)
(*                                                                         *)
(* All of them follow from one inductive invariant, IInv, and its proof    *)
(* from three lemmas on kinds of steps: a step that leaves the connection  *)
(* as it is and moves completions around (FrameStep), a step that ends     *)
(* with terminate (EndStep), and a step that ends with send_packet         *)
(* (SendStep).                                                             *)
(***************************************************************************)
EXTENDS ReadConnection, CommonProofs

\* Before start(), nothing has happened.
BeforeStart ==
    m_reader = "unset" =>
        /\ ~registered
        /\ io = Unopened
        /\ net = {}
        /\ pos = 0 /\ ~m_last_packet_sent

\* From then on the server holds the connection as long as its socket is
\* open, and while it does, something drives it.
HeldWhileOpen ==
    /\ m_reader # "unset" => registered = io.open
    /\ registered => Driven(io)

\* What is left of the retry budget: m_retry_counter is 0 or less for a
\* packet that is not sent again, and for one whose retries are used up.
Budget ==
    /\ tries <= DEFAULT_RETRY_COUNTER
    /\ m_retry_counter > 0 => tries + m_retry_counter = DEFAULT_RETRY_COUNTER + 1

\* The position in the file, the number of the last block and
\* m_last_packet_sent agree.
Position ==
    /\ m_reader # "failed" => m_last_sent_packet_id = pos % BlockModulus
    /\ ~m_last_packet_sent => pos < Blocks

IInv ==
    /\ TypeOK
    /\ BeforeStart
    /\ HeldWhileOpen
    /\ Budget
    /\ Position
    /\ WireMatchesFile
    /\ MatchesFile(m_out)

-----------------------------------------------------------------------------
\* Kinds of steps.

\* A handler or the kernel that only moves completions keeps the invariant if
\* it leaves the socket open and something to drive the connection.
LEMMA FrameStep ==
    ASSUME IInv, m_reader # "unset",
           UNCHANGED <<registered, readerVars, sendVars, net>>,
           m_in'.pkt \in Packet,
           io' \in Endpoint, io'.open = io.open, Driven(io) => Driven(io')
    PROVE  IInv'
  <1>1. TypeOK'
    BY DEF IInv, TypeOK, readerVars, sendVars
  <1>2. BeforeStart' /\ HeldWhileOpen'
    BY DEF IInv, TypeOK, BeforeStart, HeldWhileOpen, readerVars
  <1>3. Budget' /\ Position'
    BY DEF IInv, Budget, Position, readerVars, sendVars
  <1>4. WireMatchesFile' /\ MatchesFile(m_out)'
    BY DEF IInv, WireMatchesFile, MatchesFile, readerVars, sendVars
  <1> QED
    BY <1>1, <1>2, <1>3, <1>4 DEF IInv

\* A handler that terminates keeps the invariant, from any endpoint "s" it
\* has left so far.
LEMMA EndStep ==
    ASSUME IInv, m_reader # "unset",
           NEW s \in Endpoint, terminate(s),
           UNCHANGED <<readerVars, m_response_expected, m_out, tries, m_in, net>>,
           m_retry_counter' \in Int,
           m_retry_counter' = m_retry_counter \/ m_retry_counter' <= 0
    PROVE  IInv'
  <1>1. io' \in Endpoint /\ ~io'.open /\ registered' = FALSE
    BY CallsKeepEndpoint, SocketStaysOpen DEF terminate
  <1>2. TypeOK'
    BY <1>1 DEF IInv, TypeOK, readerVars
  <1>3. BeforeStart' /\ HeldWhileOpen'
    BY <1>1 DEF IInv, TypeOK, Endpoint, BeforeStart, HeldWhileOpen, readerVars
  <1>4. Budget' /\ Position'
    BY DEF IInv, TypeOK, Budget, Position, readerVars
  <1>5. WireMatchesFile' /\ MatchesFile(m_out)'
    BY DEF IInv, WireMatchesFile, MatchesFile, readerVars
  <1> QED
    BY <1>2, <1>3, <1>4, <1>5 DEF IInv

\* What handing a packet to ASIO does to the endpoint and the wire.
LEMMA SendPrepared ==
    ASSUME net \subseteq Datagram,
           NEW p \in Packet, NEW s \in Endpoint, send_prepared_packet(p, s)
    PROVE  /\ io' \in Endpoint /\ io'.open = s.open /\ Driven(io')
           /\ net \subseteq net' /\ net' \subseteq Datagram
           /\ \A d \in net' : d \in net \/ d.pkt = p
           /\ ~s.open => net' = net
  <1>1. PICK accepted \in BOOLEAN :
            /\ io' = async_send_to(s, accepted)
            /\ net' = IF s.open /\ accepted
                      THEN net \cup {[src |-> Self, dst |-> Client, pkt |-> p]}
                      ELSE net
    BY DEF send_prepared_packet
  <1>2. io' \in Endpoint /\ io'.open = s.open /\ Driven(io')
    BY <1>1, CallsKeepEndpoint, SocketStaysOpen, WhatDrives
  <1>3. [src |-> Self, dst |-> Client, pkt |-> p] \in Datagram
    BY DEF Datagram
  <1> QED
    BY <1>1, <1>2, <1>3

\* A handler that sends a packet made from the file, or an ERROR, keeps the
\* invariant.
LEMMA SendStep ==
    ASSUME IInv,
           NEW s \in Endpoint, registered' = s.open,
           NEW p \in Packet, NEW response_expected \in BOOLEAN,
           NEW retry_counter \in {0, DEFAULT_RETRY_COUNTER},
           send_packet(p, response_expected, retry_counter, s),
           m_reader' \in {"null", "closed", "open", "failed"},
           pos' \in Nat, pos <= pos', pos' <= Blocks,
           m_last_packet_sent' \in BOOLEAN,
           m_last_sent_packet_id' \in 0 .. BlockModulus - 1,
           Position', MatchesFile(p)',
           m_in' = m_in
    PROVE  IInv'
  <1>1. /\ io' \in Endpoint /\ io'.open = s.open /\ Driven(io')
        /\ net' \subseteq Datagram
        /\ \A d \in net' : d \in net \/ d.pkt = p
    BY SendPrepared DEF IInv, TypeOK, send_packet
  <1>2. m_out' = p /\ tries' = 1 /\ m_retry_counter' = retry_counter
    BY DEF send_packet
  <1>3. TypeOK'
    <2>1. s.open \in BOOLEAN
      BY DEF Endpoint
    <2>2. m_response_expected' \in BOOLEAN /\ m_retry_counter' \in Int
      BY TftpAssumption DEF send_packet
    <2> QED
      BY <1>1, <1>2, <2>1, <2>2 DEF IInv, TypeOK
  <1>4. BeforeStart' /\ HeldWhileOpen'
    BY <1>1 DEF BeforeStart, HeldWhileOpen
  <1>5. Budget'
    BY <1>2, TftpAssumption DEF Budget
  <1>6. WireMatchesFile'
    <2>1. ASSUME NEW d \in net' PROVE MatchesFile(d.pkt)'
      <3>1. CASE d \in net
        BY <3>1 DEF IInv, TypeOK, WireMatchesFile, MatchesFile
      <3>2. CASE d.pkt = p
        BY <3>2 DEF MatchesFile
      <3> QED
        BY <1>1, <3>1, <3>2
    <2> QED
      BY <2>1 DEF WireMatchesFile
  <1>7. MatchesFile(m_out)'
    BY <1>2
  <1> QED
    BY <1>3, <1>4, <1>5, <1>6, <1>7 DEF IInv

\* What send_next_data_packet sends is the next block of the file, or an
\* ERROR if the read fails; it is not called after the last block.
LEMMA NextBlockStep ==
    ASSUME IInv, ~m_last_packet_sent,
           NEW s \in Endpoint, registered' = s.open,
           send_next_data_packet(s), m_in' = m_in
    PROVE  IInv'
  <1>1. m_last_sent_packet_id' = NextBlock(m_last_sent_packet_id)
    BY DEF send_next_data_packet
  <1>2. m_last_sent_packet_id' \in 0 .. BlockModulus - 1
    BY <1>1, NextBlockType DEF IInv, TypeOK
  <1>3. pos \in Nat /\ pos < Blocks /\ m_last_packet_sent \in BOOLEAN
    BY DEF IInv, TypeOK, Position
  <1>4. CASE ReadBlock(s)
    <2>p. PICK p : p = DataPacket(NextBlock(m_last_sent_packet_id), pos + 1, SizeOf(pos + 1))
      OBVIOUS
    <2>1. /\ m_reader # "failed" /\ m_reader' = "open" /\ pos' = pos + 1
          /\ send_packet(p, TRUE, DEFAULT_RETRY_COUNTER, s)
      BY <1>4, <2>p, Zenon DEF ReadBlock
    <2>a. /\ m_last_packet_sent' \in BOOLEAN
          /\ m_last_packet_sent' <=> SizeOf(pos + 1) < DEFAULT_DATA_SIZE
      BY <1>4, Zenon DEF ReadBlock
    <2>2. SizeOf(pos + 1) \in Nat /\ (pos + 1 = Blocks => SizeOf(pos + 1) < DEFAULT_DATA_SIZE)
      BY <1>3, TftpAssumption, ReadConnectionAssumption DEF SizeOf
    <2>3. p \in Packet
      <3>1. NextBlock(m_last_sent_packet_id) \in Nat
        BY <1>1, <1>2, TftpAssumption
      <3>2. pos + 1 \in Int
        BY <1>3
      <3> QED
        BY <2>p, <2>2, <3>1, <3>2, PacketTypes
    <2>4. m_last_sent_packet_id' = pos' % BlockModulus
      BY <1>1, <1>3, <2>1, NextBlockCongruent DEF IInv, Position
    <2>5. pos' \in Nat /\ pos <= pos' /\ pos' <= Blocks
      BY <1>3, <2>1, ReadConnectionAssumption
    <2>6. Position'
      BY <1>3, <2>1, <2>a, <2>2, <2>4, <2>5, ReadConnectionAssumption DEF Position
    <2>7. MatchesFile(p)'
      <3>1. p.data = pos + 1 /\ p.num = NextBlock(m_last_sent_packet_id)
        BY <2>p DEF DataPacket
      <3>2. DataSize(p) = SizeOf(p.data)
        BY <2>p, <2>2, <3>1 DEF DataPacket, DataSize, HeaderSize
      <3> QED
        <4>1. p.data \in 1 .. pos'
          BY <1>3, <2>1, <3>1
        <4>2. p.num = p.data % BlockModulus
          BY <1>1, <2>1, <2>4, <3>1, Zenon
        <4> QED
          BY <3>2, <4>1, <4>2, Zenon DEF MatchesFile
    <2> QED
      BY <1>2, <2>1, <2>a, <2>3, <2>5, <2>6, <2>7, SendStep
  <1>5. CASE ReadFails(s)
    <2>p. PICK p : p = ErrorPacket(ERRCODE_FILE_NOT_FOUND)
      OBVIOUS
    <2>1. /\ m_reader' = "failed" /\ pos' = pos /\ m_last_packet_sent' = m_last_packet_sent
          /\ send_packet(p, FALSE, 0, s)
      BY <1>5, <2>p DEF ReadFails
    <2>2. p \in Packet
      BY <2>p, PacketTypes DEF ERRCODE_FILE_NOT_FOUND
    <2>3. Position'
      BY <1>3, <2>1 DEF Position
    <2>4. p.op # "DATA"
      BY <2>p DEF ErrorPacket
    <2>5. MatchesFile(p)'
      BY <2>4 DEF MatchesFile
    <2>6. /\ pos' \in Nat /\ pos <= pos' /\ pos' <= Blocks
          /\ m_last_packet_sent' \in BOOLEAN
      BY <1>3, <2>1, ReadConnectionAssumption
    <2> QED
      BY <1>2, <2>1, <2>2, <2>3, <2>5, <2>6, SendStep, ReadConnectionAssumption
  <1> QED
    BY <1>4, <1>5 DEF send_next_data_packet
-----------------------------------------------------------------------------
\* The invariant holds at first, and every step keeps it: one lemma per group
\* of handlers.

\* The invariant holds of a connection that was just constructed.
LEMMA InitInv == Init => IInv
  <1> SUFFICES ASSUME Init PROVE IInv
    OBVIOUS
  <1>1. TypeOK
    <2>1. io \in Endpoint /\ m_out \in Packet /\ m_in.pkt \in Packet
      BY UnopenedEndpoint, PacketTypes DEF Init
    <2>2. m_last_sent_packet_id \in 0 .. BlockModulus - 1
      BY TftpAssumption DEF Init
    <2>3. 0 \in Nat /\ 0 \in Int
      OBVIOUS
    <2> QED
      BY <2>1, <2>2, <2>3, Zenon DEF Init, TypeOK
  <1>2. BeforeStart /\ HeldWhileOpen /\ Budget
    BY TftpAssumption DEF Init, BeforeStart, HeldWhileOpen, Budget
  <1>3. Position
    BY ZeroIsZero, ReadConnectionAssumption DEF Init, Position
  <1>4. WireMatchesFile /\ MatchesFile(m_out)
    BY ReadConnectionAssumption DEF Init, WireMatchesFile, MatchesFile, InvalidPacket
  <1> QED
    BY <1>1, <1>2, <1>3, <1>4 DEF IInv

\* A completion to handle, a wait or a pending receive is there only after
\* start().
LEMMA BusyMeansStarted ==
    ASSUME IInv, ~Quiet(io)
    PROVE  m_reader # "unset"
  BY UnopenedEndpoint DEF IInv, BeforeStart

\* start() keeps the invariant: it sends block 1, or an ERROR.
LEMMA StartInv == IInv /\ Start => IInv'
  <1> SUFFICES ASSUME IInv, Start PROVE IInv'
    OBVIOUS
  <1>s. PICK s : s = open_socket(io)
    OBVIOUS
  <1>1. s \in Endpoint /\ s.open
    BY <1>s, CallsKeepEndpoint, SocketStaysOpen DEF IInv, TypeOK
  <1>2. registered' = s.open /\ m_in' = m_in /\ m_reader = "unset"
    <2>1. registered' = TRUE /\ m_in' = m_in /\ m_reader = "unset"
      BY DEF Start
    <2>2. s.open = TRUE
      BY <1>1 DEF Endpoint
    <2> QED
      BY <2>1, <2>2
  <1>3. CASE send_next_data_packet(s)
    <2>1. ~m_last_packet_sent
      BY <1>2 DEF IInv, BeforeStart
    <2> QED
      BY <1>1, <1>2, <1>3, <2>1, NextBlockStep
  <1>4. ASSUME NEW r \in {"null", "closed"}, m_reader' = r,
               send_packet(ErrorPacket(IF r = "null" THEN ERRCODE_ACCESS_VIOLATION
                                                     ELSE ERRCODE_FILE_NOT_FOUND),
                           FALSE, 0, s),
               UNCHANGED <<pos, m_last_packet_sent, m_last_sent_packet_id>>
        PROVE  IInv'
    <2>p. PICK p : p = ErrorPacket(IF r = "null" THEN ERRCODE_ACCESS_VIOLATION
                                                 ELSE ERRCODE_FILE_NOT_FOUND)
      OBVIOUS
    <2>1. p \in Packet
      BY <2>p, PacketTypes DEF ERRCODE_ACCESS_VIOLATION, ERRCODE_FILE_NOT_FOUND
    <2>2. p.op # "DATA"
      BY <2>p DEF ErrorPacket
    <2>3. MatchesFile(p)'
      BY <2>2 DEF MatchesFile
    <2>4. Position'
      BY <1>2, <1>4 DEF IInv, Position
    <2>5. /\ pos' \in Nat /\ pos <= pos' /\ pos' <= Blocks
          /\ m_last_packet_sent' \in BOOLEAN
          /\ m_last_sent_packet_id' \in 0 .. BlockModulus - 1
      BY <1>4 DEF IInv, TypeOK, WireMatchesFile
    <2>6. send_packet(p, FALSE, 0, s)
      BY <1>4, <2>p, Zenon
    <2> QED
      BY <1>1, <1>2, <1>4, <2>1, <2>3, <2>4, <2>5, <2>6, SendStep
  <1> QED
    BY <1>s, <1>3, <1>4 DEF Start

\* on_packet_sent.
LEMMA OnPacketSentInv ==
    IInv /\ (AwaitResponse \/ FinishSending \/ SendFailed) => IInv'
  <1> SUFFICES ASSUME IInv, AwaitResponse \/ FinishSending \/ SendFailed
               PROVE  IInv'
    OBVIOUS
  <1>1. io \in Endpoint /\ m_in.pkt \in Packet /\ m_retry_counter \in Int
    BY DEF IInv, TypeOK
  <1>2. m_reader # "unset"
    BY <1>1, BusyMeansStarted
       DEF AwaitResponse, FinishSending, SendFailed, Quiet, Endpoint
  <1>3. CASE AwaitResponse
    <2>t. PICK t : t = take_sent(io)
      OBVIOUS
    <2>1. t \in Endpoint /\ t.open = io.open
      BY <1>1, <1>3, <2>t, HandlersKeepEndpoint, SocketStaysOpen DEF AwaitResponse
    <2>u. PICK u : u = restart_timer(t)
      OBVIOUS
    <2>2. u \in Endpoint /\ u.open = io.open
      BY <2>1, <2>u, CallsKeepEndpoint, SocketStaysOpen
    <2>3. io' = async_receive_from(u)
      BY <1>3, <2>t, <2>u DEF AwaitResponse
    <2>4. io' \in Endpoint /\ io'.open = io.open
      BY <2>2, <2>3, CallsKeepEndpoint, SocketStaysOpen
    <2>5. Driven(io')
      BY <2>1, <2>u, <2>3, WhatDrives
    <2> QED
      BY <1>1, <1>2, <1>3, <2>4, <2>5, FrameStep DEF AwaitResponse
  <1>4. CASE FinishSending \/ SendFailed
    <2>1. PICK t \in Endpoint : terminate(t)
      BY <1>1, <1>4, HandlersKeepEndpoint DEF FinishSending, SendFailed
    <2> QED
      BY <1>1, <1>2, <1>4, <2>1, EndStep DEF FinishSending, SendFailed, sendVars
  <1> QED
    BY <1>3, <1>4

\* on_send_timeout keeps the invariant: the packet sent again is the one that
\* was sent before, and one try of the budget is used.
LEMMA OnSendTimeoutInv == IInv /\ on_send_timeout => IInv'
  <1> SUFFICES ASSUME IInv, on_send_timeout PROVE IInv'
    OBVIOUS
  <1>1. /\ io \in Endpoint /\ m_retry_counter \in Int /\ m_out \in Packet
        /\ net \subseteq Datagram /\ tries \in Nat
    BY DEF IInv, TypeOK
  <1>2. io.expired > 0 /\ m_retry_counter' = m_retry_counter - 1 /\ m_in' = m_in
        /\ UNCHANGED <<readerVars, m_response_expected, m_out>>
    BY DEF on_send_timeout
  <1>3. m_reader # "unset"
    BY <1>1, <1>2, BusyMeansStarted DEF Quiet, Endpoint
  <1>t. PICK t : t = take_expired(io)
    OBVIOUS
  <1>4. t \in Endpoint /\ t.open = io.open
    BY <1>1, <1>2, <1>t, HandlersKeepEndpoint, SocketStaysOpen
  <1>5. CASE /\ m_retry_counter' > 0
             /\ tries' = tries + 1
             /\ send_prepared_packet(m_out, t)
             /\ UNCHANGED registered
    <2>1. /\ io' \in Endpoint /\ io'.open = io.open /\ Driven(io')
          /\ net' \subseteq Datagram
          /\ \A d \in net' : d \in net \/ d.pkt = m_out
      BY <1>1, <1>4, <1>5, SendPrepared
    <2>2. TypeOK'
      BY <1>1, <1>2, <1>5, <2>1 DEF IInv, TypeOK, readerVars
    <2>3. BeforeStart' /\ HeldWhileOpen'
      BY <1>2, <1>3, <1>5, <2>1 DEF IInv, BeforeStart, HeldWhileOpen, readerVars
    <2>4. Budget'
      BY <1>1, <1>2, <1>5, TftpAssumption DEF IInv, Budget
    <2>5. Position' /\ MatchesFile(m_out)'
      BY <1>2 DEF IInv, Position, MatchesFile, readerVars
    <2>6. WireMatchesFile'
      BY <1>2, <2>1 DEF IInv, WireMatchesFile, MatchesFile, readerVars
    <2> QED
      BY <2>2, <2>3, <2>4, <2>5, <2>6 DEF IInv
  <1>6. CASE /\ m_retry_counter' <= 0
             /\ terminate(t)
             /\ UNCHANGED <<tries, net>>
    BY <1>1, <1>2, <1>3, <1>4, <1>6, EndStep
  <1> QED
    BY <1>t, <1>5, <1>6 DEF on_send_timeout

\* on_packet_received.
LEMMA OnPacketReceivedInv ==
    IInv /\ (\/ ReceiveFailed \/ AckReceived \/ process_error_received
             \/ PacketIgnored) => IInv'
  <1> SUFFICES ASSUME IInv,
                      \/ ReceiveFailed \/ AckReceived \/ process_error_received
                      \/ PacketIgnored
               PROVE  IInv'
    OBVIOUS
  <1>1. /\ io \in Endpoint /\ m_in.pkt \in Packet /\ m_retry_counter \in Int
        /\ registered \in BOOLEAN /\ m_last_packet_sent \in BOOLEAN
    BY DEF IInv, TypeOK
  <1>2. io.broken > 0 \/ io.received # << >>
    BY DEF ReceiveFailed, AckReceived, process_error_received, PacketIgnored
  <1>3. m_reader # "unset"
    BY <1>1, <1>2, BusyMeansStarted DEF Quiet, Endpoint
  <1>4. CASE ReceiveFailed
    <2>1. PICK t \in Endpoint : terminate(t)
      BY <1>1, <1>4, HandlersKeepEndpoint DEF ReceiveFailed
    <2> QED
      BY <1>1, <1>3, <1>4, <2>1, EndStep DEF ReceiveFailed, sendVars
  <1>5. CASE process_error_received
    <2>1. PICK t \in Endpoint : terminate(t)
      BY <1>1, <1>5, HandlersKeepEndpoint DEF process_error_received
    <2> QED
      BY <1>1, <1>3, <1>5, <2>1, EndStep DEF process_error_received, sendVars
  <1>6. CASE PacketIgnored
    <2>1. io' \in Endpoint /\ io'.open = io.open /\ Driven(io') = Driven(io)
      BY <1>1, <1>6, HandlersKeepEndpoint, SocketStaysOpen, WhatDrives
         DEF PacketIgnored
    <2> QED
      BY <1>1, <1>3, <1>6, <2>1, FrameStep DEF PacketIgnored
  <1>7. CASE AckReceived
    <2>t. PICK t : t = take_received(io)
      OBVIOUS
    <2>s. PICK s : s = cancel_timer(t)
      OBVIOUS
    <2>1. s \in Endpoint /\ s.open = io.open
      <3>1. t \in Endpoint /\ t.open = io.open
        BY <1>1, <1>7, <2>t, HandlersKeepEndpoint, SocketStaysOpen DEF AckReceived
      <3> QED
        BY <2>s, <3>1, CallsKeepEndpoint, SocketStaysOpen
    <2>2. /\ m_in' = m_in
          /\ \/ m_last_packet_sent /\ terminate(s) /\ UNCHANGED <<readerVars, sendVars, net>>
             \/ ~m_last_packet_sent /\ send_next_data_packet(s) /\ UNCHANGED registered
      BY <1>7, <2>t, <2>s DEF AckReceived
    <2>3. CASE m_last_packet_sent /\ terminate(s) /\ UNCHANGED <<readerVars, sendVars, net>>
      BY <1>1, <1>3, <2>1, <2>2, <2>3, EndStep DEF sendVars
    <2>4. CASE ~m_last_packet_sent /\ send_next_data_packet(s) /\ UNCHANGED registered
      <3>1. registered' = s.open
        BY <1>1, <1>3, <2>1, <2>4 DEF IInv, HeldWhileOpen
      <3> QED
        BY <2>1, <2>2, <2>4, <3>1, NextBlockStep
    <2> QED
      BY <2>2, <2>3, <2>4
  <1> QED
    BY <1>4, <1>5, <1>6, <1>7

\* The kernel's steps.
LEMMA KernelInv ==
    IInv /\ (Kernel \/ \E d \in Arrivals : Receive(d)) => IInv'
  <1> SUFFICES ASSUME IInv, Kernel \/ \E d \in Arrivals : Receive(d) PROVE IInv'
    OBVIOUS
  <1>1. io \in Endpoint /\ m_in.pkt \in Packet
    BY DEF IInv, TypeOK
  <1>2. m_reader # "unset"
    BY <1>1, BusyMeansStarted
       DEF Kernel, TimerExpires, ReceiveBreaks, Receive, Quiet, Endpoint
  <1>3. UNCHANGED <<registered, readerVars, sendVars, net>>
    BY DEF Kernel, TimerExpires, ReceiveBreaks, Receive
  <1>4. CASE Kernel
    <2>1. /\ io' \in Endpoint /\ io'.open = io.open /\ (Driven(io) => Driven(io'))
          /\ m_in' = m_in
      BY <1>1, <1>4, KernelKeepsEndpoint, SocketStaysOpen, WhatDrives
         DEF Kernel, TimerExpires, ReceiveBreaks
    <2> QED
      BY <1>1, <1>2, <1>3, <2>1, FrameStep
  <1>5. ASSUME NEW d \in Arrivals, Receive(d) PROVE IInv'
    <2>1. d.pkt \in Packet /\ d.pkt.len \in Nat
      BY ReadConnectionAssumption DEF Packet
    <2>2. io' = complete_receive(io, d.pkt.len) /\ io.receives > 0 /\ m_in'.pkt = d.pkt
      BY <1>5 DEF Receive
    <2>3. io' \in Endpoint /\ io'.open = io.open /\ Driven(io') = Driven(io)
      BY <1>1, <2>1, <2>2, KernelKeepsEndpoint, SocketStaysOpen, WhatDrives
    <2> QED
      BY <1>1, <1>2, <1>3, <2>1, <2>2, <2>3, FrameStep
  <1> QED
    BY <1>4, <1>5

\* The invariant is inductive.
LEMMA NextInv == IInv /\ [Next]_vars => IInv'
  <1> SUFFICES ASSUME IInv, [Next]_vars PROVE IInv'
    OBVIOUS
  <1>1. CASE UNCHANGED vars
    BY <1>1 DEF vars, readerVars, sendVars, IInv, TypeOK, BeforeStart, HeldWhileOpen,
                Budget, Position, WireMatchesFile, MatchesFile
  <1> QED
    BY <1>1, StartInv, OnPacketSentInv, OnSendTimeoutInv, OnPacketReceivedInv, KernelInv
       DEF Next, RunHandler
-----------------------------------------------------------------------------
\* The theorems.

\* The inductive invariant holds in every reachable state.
THEOREM Invariance == Spec => []IInv
  BY InitInv, NextInv, PTL DEF Spec

\* Type correctness of the connection.
THEOREM TypeCorrect == Spec => []TypeOK
  <1>1. IInv => TypeOK
    BY DEF IInv
  <1> QED
    BY <1>1, Invariance, PTL

\* Whatever the client does, a connection the server holds has an open socket
\* and something that will run one of its handlers.
THEOREM ConnectionIsNeverAbandoned == Spec => []NeverAbandoned
  <1>1. IInv => NeverAbandoned
    BY DEF IInv, TypeOK, Endpoint, BeforeStart, HeldWhileOpen, NeverAbandoned
  <1> QED
    BY <1>1, Invariance, PTL

\* No packet is handed to the network more than DEFAULT_RETRY_COUNTER times.
THEOREM RetriesAreBounded == Spec => []RetryBudget
  <1>1. IInv => RetryBudget
    BY DEF IInv, Budget, RetryBudget
  <1> QED
    BY <1>1, Invariance, PTL

\* The DATA packets on the wire are the blocks of the file under their numbers.
THEOREM WireCarriesTheFile == Spec => []WireMatchesFile
  <1>1. IInv => WireMatchesFile
    BY DEF IInv
  <1> QED
    BY <1>1, Invariance, PTL
-----------------------------------------------------------------------------
\* The connection implements Connection: what each step does to the phase and
\* to the wire.

\* start() begins the life of the connection.
LEMMA StartBegins ==
    ASSUME IInv, Start
    PROVE  /\ m_reader = "unset" /\ m_reader' # "unset"
           /\ registered' = TRUE /\ net = {}
  <1>1. m_reader = "unset" /\ registered' = TRUE
    BY DEF Start
  <1>2. m_reader' # "unset"
    BY DEF Start, send_next_data_packet, ReadBlock, ReadFails
  <1> QED
    BY <1>1, <1>2 DEF IInv, BeforeStart

\* A step that goes on: the connection stays in m_connections, or out of it,
\* and only while its socket is open something may reach the wire.
GoesOn ==
    /\ registered' = registered
    /\ net \subseteq net'
    /\ ~io.open => net' = net

\* A step that ends the connection, or finds it ended, sends nothing.
Ends == registered' = FALSE /\ net' = net

\* Sending the next block, or the ERROR in its place, is a step that goes on.
LEMMA NextBlockGoesOn ==
    ASSUME IInv, NEW s \in Endpoint, s.open = io.open,
           send_next_data_packet(s), UNCHANGED registered
    PROVE  GoesOn /\ m_reader' # "unset"
  <1>1. m_reader' # "unset"
    BY DEF send_next_data_packet, ReadBlock, ReadFails
  <1>2. net \subseteq Datagram /\ pos \in Nat /\ m_last_sent_packet_id \in 0 .. BlockModulus - 1
    BY DEF IInv, TypeOK
  <1>3. NextBlock(m_last_sent_packet_id) \in Nat /\ pos + 1 \in Int /\ SizeOf(pos + 1) \in Nat
    BY <1>2, NextBlockType, TftpAssumption, ReadConnectionAssumption DEF SizeOf
  <1>4. PICK p \in Packet : send_prepared_packet(p, s)
    <2>1. DataPacket(NextBlock(m_last_sent_packet_id), pos + 1, SizeOf(pos + 1)) \in Packet
      BY <1>3, PacketTypes
    <2>2. ErrorPacket(ERRCODE_FILE_NOT_FOUND) \in Packet
      BY PacketTypes DEF ERRCODE_FILE_NOT_FOUND
    <2> QED
      BY <2>1, <2>2 DEF send_next_data_packet, ReadBlock, ReadFails, send_packet
  <1> QED
    BY <1>1, <1>2, <1>4, SendPrepared DEF GoesOn

\* Every step after start() goes on or ends, and there is none once the last
\* handler has run.
LEMMA LaterSteps ==
    ASSUME IInv, RunHandler \/ Kernel \/ \E d \in Arrivals : Receive(d)
    PROVE  ~Quiet(io) /\ m_reader' # "unset" /\ (GoesOn \/ Ends)
  <1>1. io \in Endpoint /\ net \subseteq Datagram /\ m_out \in Packet
    BY DEF IInv, TypeOK
  <1>2. ~Quiet(io)
    BY <1>1 DEF RunHandler, AwaitResponse, FinishSending, SendFailed, on_send_timeout,
                ReceiveFailed, AckReceived, process_error_received, PacketIgnored,
                Kernel, TimerExpires, ReceiveBreaks, Receive, Quiet, Endpoint
  <1>3. m_reader # "unset"
    BY <1>2, BusyMeansStarted
  <1>4. CASE AwaitResponse \/ PacketIgnored \/ Kernel \/ \E d \in Arrivals : Receive(d)
    BY <1>2, <1>3, <1>4
       DEF AwaitResponse, PacketIgnored, Kernel, TimerExpires, ReceiveBreaks, Receive,
           GoesOn, readerVars
  <1>5. CASE FinishSending \/ SendFailed \/ ReceiveFailed \/ process_error_received
    BY <1>2, <1>3, <1>5
       DEF FinishSending, SendFailed, ReceiveFailed, process_error_received, terminate,
           Ends, readerVars
  <1>6. CASE on_send_timeout
    <2>1. m_reader' # "unset"
      BY <1>3, <1>6 DEF on_send_timeout, readerVars
    <2>t. PICK t : t = take_expired(io)
      OBVIOUS
    <2>2. t \in Endpoint /\ t.open = io.open
      BY <1>1, <1>6, <2>t, HandlersKeepEndpoint, SocketStaysOpen DEF on_send_timeout
    <2>3. CASE send_prepared_packet(m_out, t) /\ UNCHANGED registered
      BY <1>1, <1>2, <2>1, <2>2, <2>3, SendPrepared DEF GoesOn
    <2>4. CASE terminate(t) /\ UNCHANGED net
      BY <1>2, <2>1, <2>4 DEF terminate, Ends
    <2> QED
      BY <1>6, <2>t, <2>3, <2>4 DEF on_send_timeout
  <1>7. CASE AckReceived
    <2>s. PICK s : s = cancel_timer(take_received(io))
      OBVIOUS
    <2>1. s \in Endpoint /\ s.open = io.open
      <3>t. PICK t : t = take_received(io)
        OBVIOUS
      <3>1. t \in Endpoint /\ t.open = io.open
        BY <1>1, <1>7, <3>t, HandlersKeepEndpoint, SocketStaysOpen DEF AckReceived
      <3> QED
        BY <2>s, <3>t, <3>1, CallsKeepEndpoint, SocketStaysOpen
    <2>2. CASE terminate(s) /\ UNCHANGED <<readerVars, net>>
      BY <1>2, <1>3, <2>2 DEF terminate, Ends, readerVars
    <2>3. CASE send_next_data_packet(s) /\ UNCHANGED registered
      BY <1>2, <2>1, <2>3, NextBlockGoesOn
    <2> QED
      BY <1>7, <2>s, <2>2, <2>3 DEF AckReceived
  <1> QED
    BY <1>4, <1>5, <1>6, <1>7 DEF RunHandler

\* Every step is one of Connection, or leaves phase and wire alone.
LEMMA StepImplements == IInv /\ [Next]_vars => [Life!Next]_(Life!vars)
  <1> SUFFICES ASSUME IInv, [Next]_vars PROVE [Life!Next]_(Life!vars)
    OBVIOUS
  <1>1. CASE Start
    <2>1. Phase = "new" /\ Phase' = "serving" /\ net \subseteq net'
      BY <1>1, StartBegins DEF Phase
    <2> QED
      BY <2>1 DEF Life!Next, Life!Start
  <1>2. CASE RunHandler \/ Kernel \/ \E d \in Arrivals : Receive(d)
    <2>1. ~Quiet(io) /\ m_reader' # "unset" /\ (GoesOn \/ Ends)
      BY <1>2, LaterSteps
    <2>2. m_reader # "unset" /\ registered \in BOOLEAN /\ registered = io.open
      BY <2>1, BusyMeansStarted DEF IInv, TypeOK, HeldWhileOpen
    <2>3. CASE registered /\ GoesOn
      <3>1. registered' = TRUE /\ net \subseteq net'
        BY <2>2, <2>3 DEF GoesOn
      <3>2. Phase = "serving" /\ Phase' = "serving"
        BY <2>1, <2>2, <2>3, <3>1 DEF Phase
      <3> QED
        BY <3>1, <3>2 DEF Life!Next, Life!Serve
    <2>4. CASE registered /\ Ends
      <3>1. registered' = FALSE /\ net' = net
        BY <2>4 DEF Ends
      <3>2. Phase = "serving" /\ Phase' \in {"ending", "released"}
        BY <2>1, <2>2, <2>4, <3>1 DEF Phase
      <3> QED
        BY <3>1, <3>2 DEF Life!Next, Life!Terminate
    <2>5. CASE ~registered
      <3>1. registered' = FALSE /\ net' = net
        BY <2>1, <2>2, <2>5 DEF GoesOn, Ends
      <3>2. Phase = "ending" /\ Phase' \in {"ending", "released"}
        BY <2>1, <2>2, <2>5, <3>1 DEF Phase
      <3> QED
        BY <3>1, <3>2 DEF Life!Next, Life!Release, Life!vars
    <2> QED
      BY <2>1, <2>2, <2>3, <2>4, <2>5
  <1>3. CASE UNCHANGED vars
    BY <1>3 DEF vars, readerVars, Life!vars, Phase, Quiet
  <1> QED
    BY <1>1, <1>2, <1>3 DEF Next

\* A read connection implements Connection: it is started once and silent for
\* good once it was terminated.
THEOREM ReadConnectionImplements == Spec => ImplementsConnection
  <1>1. ASSUME Init PROVE Life!Init
    <2>1. Phase = "new" /\ net = {}
      BY <1>1 DEF Init, Phase
    <2> QED
      BY <2>1 DEF Life!Init
  <1> QED
    BY <1>1, StepImplements, Invariance, PTL DEF Spec, ImplementsConnection, Life!Spec
=============================================================================
