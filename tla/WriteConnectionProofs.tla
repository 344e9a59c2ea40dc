------------------------ MODULE WriteConnectionProofs ------------------------
(***************************************************************************)
(* Proofs that a write connection keeps its safety properties for every    *)
(* client, block size, retry limit and width of the block numbers.  The    *)
(* inductive invariant IInv says, beyond the properties, what the expected *)
(* number is in terms of the file, and that a connection without a writer  *)
(* never listens, so that no DATA packet reaches it.                       *)
(***************************************************************************)
EXTENDS WriteConnection, CommonProofs

\* Before start(), nothing has happened.
BeforeStart ==
    m_writer = "unset" => ~registered /\ io = Unopened /\ net = {}

\* From then on the server holds the connection as long as its socket is
\* open, and while it does, something drives it.
HeldWhileOpen ==
    /\ m_writer # "unset" => registered = io.open
    /\ registered => Driven(io)

\* What is left of the retry budget.
Budget ==
    /\ tries <= DEFAULT_RETRY_COUNTER
    /\ m_retry_counter > 0 => tries + m_retry_counter = DEFAULT_RETRY_COUNTER + 1

\* The connection has no writer it could write to.
NoWriter == m_writer \in {"unset", "null", "closed"}

\* Without a writer nothing was written, no response is expected, and no
\* receive operation was ever started.
Refused ==
    NoWriter => file = << >> /\ ~m_response_expected /\ ~Listening(io)

\* While no write failed, the number expected is that of the block after the
\* last one in the file.
Expected ==
    m_writer = "open" =>
        m_next_expected_packet_id = (Len(file) + 1) % BlockModulus

\* Once there is a writer, the number expected is the one that must follow the
\* file, also after a write has failed.
Owed == ~NoWriter => m_next_expected_packet_id = NumberAfter(Len(file))

\* Every block has the number that had to follow those before it.
InOrder == \A i \in DOMAIN file : file[i].num = NumberAfter(i - 1)

\* If p is an ACK, it is that of the block written last.
AckOfLast(p) ==
    p.op = "ACK" =>
        IF file = << >> THEN p.num = 0
        ELSE file[Len(file)].whole /\ file[Len(file)].num = p.num

IInv ==
    /\ TypeOK
    /\ BeforeStart
    /\ HeldWhileOpen
    /\ Budget
    /\ Refused
    /\ Expected
    /\ Owed
    /\ InOrderOnce
    /\ AckedIsWritten

\* The file only grows at its end.
FileGrows ==
    /\ DOMAIN file \subseteq DOMAIN file'
    /\ \A i \in DOMAIN file : file'[i] = file[i]

\* The order of the file stands as long as the file does.
LEMMA OrderStays ==
    ASSUME UNCHANGED writerVars, Expected, Owed, InOrderOnce
    PROVE  Expected' /\ Owed' /\ InOrderOnce'
  <1>1. \A i : NumberAfter(i)' = NumberAfter(i)
    BY DEF NumberAfter, writerVars
  <1>2. Expected' /\ Owed'
    BY <1>1 DEF Expected, Owed, NoWriter, writerVars
  <1>3. InOrderOnce'
    BY <1>1 DEF InOrderOnce, writerVars
  <1> QED
    BY <1>2, <1>3
-----------------------------------------------------------------------------
\* Kinds of steps.

\* A handler or the kernel that only moves completions keeps the invariant if
\* it leaves the socket open and something to drive the connection.
LEMMA FrameStep ==
    ASSUME IInv, m_writer # "unset",
           UNCHANGED <<registered, writerVars, sendVars, net>>,
           m_in'.pkt \in Packet,
           io' \in Endpoint, io'.open = io.open, Driven(io) => Driven(io'),
           NoWriter => ~Listening(io')
    PROVE  IInv'
  <1>1. TypeOK'
    BY DEF IInv, TypeOK, writerVars, sendVars
  <1>2. BeforeStart' /\ HeldWhileOpen'
    BY DEF IInv, TypeOK, BeforeStart, HeldWhileOpen, writerVars
  <1>3. Budget'
    BY DEF IInv, Budget, sendVars
  <1>7. Expected' /\ Owed' /\ InOrderOnce'
    BY OrderStays DEF IInv
  <1>4. Refused'
    BY DEF IInv, Refused, NoWriter, writerVars, sendVars
  <1>6. AckedIsWritten'
    BY DEF IInv, AckedIsWritten, writerVars, sendVars
  <1> QED
    BY <1>1, <1>2, <1>3, <1>4, <1>6, <1>7 DEF IInv

\* A handler that terminates keeps the invariant, from any endpoint "s" it
\* has left so far.
LEMMA EndStep ==
    ASSUME IInv, m_writer # "unset",
           NEW s \in Endpoint, terminate(s),
           NoWriter => ~Listening(s),
           UNCHANGED <<writerVars, m_response_expected, m_out, tries, m_in, net>>,
           m_retry_counter' \in Int,
           m_retry_counter' = m_retry_counter \/ m_retry_counter' <= 0
    PROVE  IInv'
  <1>1. io' \in Endpoint /\ ~io'.open /\ registered' = FALSE
    BY CallsKeepEndpoint, SocketStaysOpen DEF terminate
  <1>2. TypeOK'
    BY <1>1 DEF IInv, TypeOK, writerVars
  <1>3. BeforeStart' /\ HeldWhileOpen'
    BY <1>1 DEF IInv, TypeOK, Endpoint, BeforeStart, HeldWhileOpen, writerVars
  <1>4. Budget'
    BY DEF IInv, TypeOK, Budget
  <1>8. Expected' /\ Owed' /\ InOrderOnce'
    BY OrderStays DEF IInv
  <1>5. Refused'
    <2>c. PICK c : c = close_socket(s)
      OBVIOUS
    <2>1. c \in Endpoint /\ io' = cancel_timer(c)
      BY <2>c, CallsKeepEndpoint DEF terminate
    <2>2. NoWriter => ~Listening(io')
      BY <2>c, <2>1, WhatListens
    <2> QED
      BY <2>2 DEF IInv, Refused, NoWriter, writerVars
  <1>7. AckedIsWritten'
    BY DEF IInv, AckedIsWritten, writerVars
  <1> QED
    BY <1>2, <1>3, <1>4, <1>5, <1>7, <1>8 DEF IInv

\* What handing a packet to ASIO does to the endpoint and the wire.
LEMMA SendPrepared ==
    ASSUME net \subseteq Datagram,
           NEW p \in Packet, NEW s \in Endpoint, send_prepared_packet(p, s)
    PROVE  /\ io' \in Endpoint /\ io'.open = s.open /\ Driven(io')
           /\ ~Listening(s) => ~Listening(io')
           /\ net \subseteq net' /\ net' \subseteq Datagram
           /\ ~s.open => net' = net
  <1>1. PICK accepted \in BOOLEAN :
            /\ io' = async_send_to(s, accepted)
            /\ net' = IF s.open /\ accepted
                      THEN net \cup {[src |-> Self, dst |-> Client, pkt |-> p]}
                      ELSE net
    BY DEF send_prepared_packet
  <1>2. io' \in Endpoint /\ io'.open = s.open /\ Driven(io')
    BY <1>1, CallsKeepEndpoint, SocketStaysOpen, WhatDrives
  <1>l. ~Listening(s) => ~Listening(io')
    BY <1>1, WhatListens
  <1>3. [src |-> Self, dst |-> Client, pkt |-> p] \in Datagram
    BY DEF Datagram
  <1> QED
    BY <1>1, <1>2, <1>3, <1>l

\* A handler that sends an ERROR, or the ACK of the block it wrote last, keeps
\* the invariant.
LEMMA SendStep ==
    ASSUME IInv,
           NEW s \in Endpoint, registered' = s.open,
           NEW p \in Packet, NEW response_expected \in BOOLEAN,
           NEW retry_counter \in {0, DEFAULT_RETRY_COUNTER},
           send_packet(p, response_expected, retry_counter, s),
           m_writer' \in {"null", "closed", "open", "failed"},
           file' \in Seq(Block),
           m_next_expected_packet_id' \in 0 .. BlockModulus - 1,
           NoWriter' => file' = << >> /\ ~response_expected /\ ~Listening(s),
           Expected', Owed', InOrderOnce', AckOfLast(p)',
           m_in' = m_in
    PROVE  IInv'
  <1>1. /\ io' \in Endpoint /\ io'.open = s.open /\ Driven(io')
        /\ ~Listening(s) => ~Listening(io')
        /\ net' \subseteq Datagram
    BY SendPrepared DEF IInv, TypeOK, send_packet
  <1>2. /\ m_out' = p /\ tries' = 1 /\ m_retry_counter' = retry_counter
        /\ m_response_expected' = response_expected
    BY DEF send_packet
  <1>3. TypeOK'
    <2>1. s.open \in BOOLEAN
      BY DEF Endpoint
    <2>2. m_response_expected' \in BOOLEAN /\ m_retry_counter' \in Int
      BY TftpAssumption DEF send_packet
    <2> QED
      BY <1>1, <1>2, <2>1, <2>2 DEF IInv, TypeOK
  <1>4. BeforeStart' /\ HeldWhileOpen'
    BY <1>1 DEF BeforeStart, HeldWhileOpen
  <1>5. Budget'
    BY <1>2, TftpAssumption DEF Budget
  <1>6. Refused'
    BY <1>1, <1>2 DEF Refused
  <1>7. AckedIsWritten'
    BY <1>2 DEF AckOfLast, AckedIsWritten
  <1> QED
    BY <1>3, <1>4, <1>5, <1>6, <1>7 DEF IInv
-----------------------------------------------------------------------------
\* The invariant holds at first, and every step keeps it: one lemma per group
\* of handlers.

\* The invariant holds of a connection that was just constructed.
LEMMA InitInv == Init => IInv
  <1> SUFFICES ASSUME Init PROVE IInv
    OBVIOUS
  <1>1. TypeOK
    <2>1. io \in Endpoint /\ m_out \in Packet /\ m_in.pkt \in Packet
      BY UnopenedEndpoint, PacketTypes DEF Init
    <2>2. m_next_expected_packet_id \in 0 .. BlockModulus - 1
      BY TftpAssumption DEF Init
    <2>3. 0 \in Nat /\ 0 \in Int /\ << >> \in Seq(Block)
      BY EmptySeq
    <2> QED
      BY <2>1, <2>2, <2>3, Zenon DEF Init, TypeOK
  <1>2. BeforeStart /\ HeldWhileOpen /\ Budget /\ Expected /\ Owed
    BY TftpAssumption
       DEF Init, BeforeStart, HeldWhileOpen, Budget, Expected, Owed, NoWriter
  <1>3. Refused
    BY UnopenedEndpoint DEF Init, Refused, Listening, Quiet, Unopened
  <1>4. InOrderOnce
    BY DEF Init, InOrderOnce
  <1>5. AckedIsWritten
    BY DEF Init, AckedIsWritten, InvalidPacket
  <1> QED
    BY <1>1, <1>2, <1>3, <1>4, <1>5 DEF IInv

\* A completion to handle, a wait or a pending receive is there only after
\* start().
LEMMA BusyMeansStarted ==
    ASSUME IInv, ~Quiet(io)
    PROVE  m_writer # "unset"
  BY UnopenedEndpoint DEF IInv, BeforeStart

\* start() keeps the invariant: it acknowledges the request, or sends an ERROR.
LEMMA StartInv == IInv /\ Start => IInv'
  <1> SUFFICES ASSUME IInv, Start PROVE IInv'
    OBVIOUS
  <1>1. m_writer = "unset" /\ registered' = TRUE /\ file' = file /\ m_in' = m_in
    BY DEF Start
  <1>2. NoWriter /\ file = << >> /\ ~Listening(io) /\ io \in Endpoint
    BY <1>1 DEF NoWriter, IInv, Refused, TypeOK
  <1>s. PICK s : s = open_socket(io)
    OBVIOUS
  <1>3. s \in Endpoint /\ s.open = TRUE /\ ~Listening(s)
    <2>1. s \in Endpoint /\ s.open
      BY <1>2, <1>s, CallsKeepEndpoint, SocketStaysOpen
    <2>2. ~Listening(s)
      BY <1>2, <1>s, WhatListens
    <2> QED
      BY <2>1, <2>2 DEF Endpoint
  <1>4. /\ file' = << >> /\ file' \in Seq(Block) /\ InOrderOnce'
        /\ registered' = s.open
    <2>1. file' = << >> /\ file' \in Seq(Block) /\ DOMAIN file' = {}
      BY <1>1, <1>2 DEF IInv, TypeOK
    <2> QED
      BY <1>1, <1>2, <1>3, <2>1 DEF InOrderOnce
  <1>5. CASE m_writer' = "open" /\ send_ack(0, FALSE, s)
    <2>p. PICK p : p = AckPacket(0)
      OBVIOUS
    <2>1. p \in Packet
      BY <2>p, PacketTypes
    <2>2. /\ m_next_expected_packet_id' = NextBlock(0)
          /\ send_packet(p, TRUE, DEFAULT_RETRY_COUNTER, s)
      BY <1>5, <2>p DEF send_ack
    <2>3. m_next_expected_packet_id' \in 0 .. BlockModulus - 1
      BY <2>2, NextBlockType, TftpAssumption
    <2>4. m_next_expected_packet_id' = (0 + 1) % BlockModulus
      <3>1. NextBlock(0 % BlockModulus) = (0 + 1) % BlockModulus
        BY NextBlockCongruent
      <3> QED
        BY <2>2, <3>1, ZeroIsZero
    <2>5. Expected'
      BY <1>4, <2>4 DEF Expected
    <2>8. Owed'
      BY <1>4, <2>2 DEF Owed, NumberAfter
    <2>6. AckOfLast(p)'
      BY <1>4, <2>p DEF AckOfLast, AckPacket
    <2>7. ~NoWriter'
      BY <1>5 DEF NoWriter
    <2> QED
      BY <1>1, <1>3, <1>4, <1>5, <2>1, <2>2, <2>3, <2>5, <2>6, <2>7, <2>8,
         SendStep
  <1>6. ASSUME NEW w \in {"null", "closed"}, m_writer' = w,
               send_packet(ErrorPacket(IF w = "null" THEN ERRCODE_ACCESS_VIOLATION
                                                     ELSE ERRCODE_FILE_NOT_FOUND),
                           FALSE, 0, s),
               UNCHANGED m_next_expected_packet_id
        PROVE  IInv'
    <2>p. PICK p : p = ErrorPacket(IF w = "null" THEN ERRCODE_ACCESS_VIOLATION
                                                 ELSE ERRCODE_FILE_NOT_FOUND)
      OBVIOUS
    <2>1. p \in Packet
      BY <2>p, PacketTypes DEF ERRCODE_ACCESS_VIOLATION, ERRCODE_FILE_NOT_FOUND
    <2>2. AckOfLast(p)'
      BY <2>p DEF AckOfLast, ErrorPacket
    <2>3. Expected' /\ Owed'
      BY <1>6 DEF Expected, Owed, NoWriter
    <2>4. m_next_expected_packet_id' \in 0 .. BlockModulus - 1
      BY <1>6 DEF IInv, TypeOK
    <2>5. send_packet(p, FALSE, 0, s)
      BY <1>6, <2>p, Zenon
    <2> QED
      BY <1>1, <1>3, <1>4, <1>6, <2>1, <2>2, <2>3, <2>4, <2>5, SendStep
  <1> QED
    BY <1>s, <1>5, <1>6 DEF Start

\* on_packet_sent keeps the invariant.
LEMMA OnPacketSentInv ==
    IInv /\ (AwaitResponse \/ FinishSending \/ SendFailed) => IInv'
  <1> SUFFICES ASSUME IInv, AwaitResponse \/ FinishSending \/ SendFailed
               PROVE  IInv'
    OBVIOUS
  <1>1. /\ io \in Endpoint /\ m_in.pkt \in Packet /\ m_retry_counter \in Int
        /\ NoWriter => ~m_response_expected /\ ~Listening(io)
    BY DEF IInv, TypeOK, Refused
  <1>2. m_writer # "unset"
    BY <1>1, BusyMeansStarted
       DEF AwaitResponse, FinishSending, SendFailed, Quiet, Endpoint
  <1>3. CASE AwaitResponse
    <2>t. PICK t : t = take_sent(io)
      OBVIOUS
    <2>1. t \in Endpoint /\ t.open = io.open
      BY <1>1, <1>3, <2>t, HandlersKeepEndpoint, SocketStaysOpen DEF AwaitResponse
    <2>u. PICK u : u = restart_timer(t)
      OBVIOUS
    <2>2. u \in Endpoint /\ u.open = io.open
      BY <2>1, <2>u, CallsKeepEndpoint, SocketStaysOpen
    <2>3. io' = async_receive_from(u) /\ m_response_expected
      BY <1>3, <2>t, <2>u DEF AwaitResponse
    <2>4. io' \in Endpoint /\ io'.open = io.open
      BY <2>2, <2>3, CallsKeepEndpoint, SocketStaysOpen
    <2>5. Driven(io')
      BY <2>1, <2>u, <2>3, WhatDrives
    <2> QED
      BY <1>1, <1>2, <1>3, <2>3, <2>4, <2>5, FrameStep DEF AwaitResponse
  <1>4. CASE FinishSending \/ SendFailed
    <2>1. PICK t : t \in {take_sent(io), take_failed(io)} /\ t \in Endpoint /\ terminate(t)
      BY <1>1, <1>4, HandlersKeepEndpoint DEF FinishSending, SendFailed
    <2>2. NoWriter => ~Listening(t)
      BY <1>1, <2>1, WhatListens
    <2> QED
      BY <1>1, <1>2, <1>4, <2>1, <2>2, EndStep DEF FinishSending, SendFailed, sendVars
  <1> QED
    BY <1>3, <1>4

\* on_send_timeout keeps the invariant: the packet sent again is the one that
\* was sent before, and one try of the budget is used.
LEMMA OnSendTimeoutInv == IInv /\ on_send_timeout => IInv'
  <1> SUFFICES ASSUME IInv, on_send_timeout PROVE IInv'
    OBVIOUS
  <1>1. /\ io \in Endpoint /\ m_retry_counter \in Int /\ m_out \in Packet
        /\ net \subseteq Datagram /\ tries \in Nat
    BY DEF IInv, TypeOK
  <1>2. io.expired > 0 /\ m_retry_counter' = m_retry_counter - 1 /\ m_in' = m_in
        /\ UNCHANGED <<writerVars, m_response_expected, m_out>>
    BY DEF on_send_timeout
  <1>3. m_writer # "unset"
    BY <1>1, <1>2, BusyMeansStarted DEF Quiet, Endpoint
  <1>t. PICK t : t = take_expired(io)
    OBVIOUS
  <1>4. t \in Endpoint /\ t.open = io.open
    BY <1>1, <1>2, <1>t, HandlersKeepEndpoint, SocketStaysOpen
  <1>l. NoWriter => ~Listening(t)
    <2>1. NoWriter => ~Listening(io)
      BY DEF IInv, Refused
    <2> QED
      BY <1>1, <1>t, <2>1, WhatListens
  <1>5. CASE /\ m_retry_counter' > 0
             /\ tries' = tries + 1
             /\ send_prepared_packet(m_out, t)
             /\ UNCHANGED registered
    <2>1. /\ io' \in Endpoint /\ io'.open = io.open /\ Driven(io')
          /\ net' \subseteq Datagram
          /\ ~Listening(t) => ~Listening(io')
      BY <1>1, <1>4, <1>5, SendPrepared
    <2>2. TypeOK'
      BY <1>1, <1>2, <1>5, <2>1 DEF IInv, TypeOK, writerVars
    <2>3. BeforeStart' /\ HeldWhileOpen'
      BY <1>2, <1>3, <1>5, <2>1 DEF IInv, BeforeStart, HeldWhileOpen, writerVars
    <2>4. Budget'
      BY <1>1, <1>2, <1>5, TftpAssumption DEF IInv, Budget
    <2>5. Refused'
      BY <1>2, <1>l, <2>1 DEF IInv, Refused, NoWriter, writerVars
    <2>6. Expected' /\ Owed' /\ InOrderOnce'
      BY <1>2, OrderStays DEF IInv
    <2>7. AckedIsWritten'
      BY <1>2 DEF IInv, AckedIsWritten, writerVars
    <2> QED
      BY <2>2, <2>3, <2>4, <2>5, <2>6, <2>7 DEF IInv
  <1>6. CASE /\ m_retry_counter' <= 0
             /\ terminate(t)
             /\ UNCHANGED <<tries, net>>
    BY <1>1, <1>2, <1>3, <1>4, <1>l, <1>6, EndStep
  <1> QED
    BY <1>t, <1>5, <1>6 DEF on_send_timeout

\* What on_packet_received parses is a packet.
LEMMA ReceivedType ==
    ASSUME IInv, io.received # << >>
    PROVE  Received \in Packet
  <1>1. io.received \in Seq(Nat) /\ m_in.pkt \in Packet
    BY DEF IInv, TypeOK, Endpoint
  <1>2. Head(io.received) \in Nat
    BY <1>1, HeadTailProperties
  <1> QED
    BY <1>1, <1>2, ParsedPacket, PacketTypes DEF Received

\* The file after a block was written, whole or in part, has the block at its
\* end and is otherwise unchanged.
LEMMA BlockWritten ==
    ASSUME IInv, NEW p \in Packet, NEW whole \in BOOLEAN,
           file' = Append(file, BlockOf(p, whole))
    PROVE  /\ file' \in Seq(Block) /\ FileGrows
           /\ Len(file') = Len(file) + 1
           /\ file'[Len(file) + 1].num = p.num /\ file'[Len(file) + 1].whole = whole
  <1>1. file \in Seq(Block)
    BY DEF IInv, TypeOK
  <1>2. BlockOf(p, whole) \in Block
    BY DEF BlockOf, Block, Packet, DataSize, HeaderSize
  <1>3. /\ file' \in Seq(Block) /\ Len(file') = Len(file) + 1
        /\ \A i \in 1 .. Len(file) : file'[i] = file[i]
        /\ file'[Len(file) + 1] = BlockOf(p, whole)
    BY <1>1, <1>2, AppendProperties
  <1>4. DOMAIN file = 1 .. Len(file) /\ DOMAIN file' = 1 .. Len(file') /\ Len(file) \in Nat
    BY <1>1, <1>3, LenProperties
  <1>5. FileGrows
    BY <1>3, <1>4 DEF FileGrows
  <1> QED
    BY <1>3, <1>5 DEF BlockOf

\* The block expected is in order at the end of the file, whole or in part.
LEMMA BlockInOrder ==
    ASSUME IInv, NEW p \in Packet, NEW whole \in BOOLEAN, ~NoWriter,
           p.num = m_next_expected_packet_id,
           file' = Append(file, BlockOf(p, whole))
    PROVE  /\ InOrder'
           /\ NumberAfter(Len(file))' = IF whole THEN NextBlock(p.num) ELSE p.num
  <1>1. /\ file' \in Seq(Block) /\ FileGrows /\ Len(file') = Len(file) + 1
        /\ file'[Len(file) + 1].num = p.num /\ file'[Len(file) + 1].whole = whole
    BY BlockWritten
  <1>2. DOMAIN file' = 1 .. Len(file) + 1 /\ DOMAIN file = 1 .. Len(file) /\ Len(file) \in Nat
    BY <1>1, LenProperties DEF IInv, TypeOK
  <1>3. ASSUME NEW i \in 0 .. Len(file) PROVE NumberAfter(i)' = NumberAfter(i)
    BY <1>1, <1>2 DEF FileGrows, NumberAfter
  <1>4. NumberAfter(Len(file))' = IF whole THEN NextBlock(p.num) ELSE p.num
    BY <1>1, <1>2 DEF NumberAfter
  <1>5. p.num = NumberAfter(Len(file))
    BY DEF IInv, Owed
  <1>6. ASSUME NEW i \in 1 .. Len(file) + 1 PROVE file'[i].num = NumberAfter(i - 1)'
    <2>1. NumberAfter(i - 1)' = NumberAfter(i - 1)
      BY <1>2, <1>3
    <2>2. CASE i \in 1 .. Len(file)
      BY <1>1, <1>2, <2>1, <2>2 DEF IInv, InOrderOnce, FileGrows
    <2>3. CASE i = Len(file) + 1
      <3>1. i - 1 = Len(file)
        BY <1>2, <2>3
      <3> QED
        BY <1>1, <1>5, <2>1, <2>3, <3>1
    <2> QED
      BY <1>2, <2>2, <2>3
  <1> QED
    BY <1>2, <1>4, <1>6 DEF InOrder

\* process_data_received for the block expected, whether or not it is stored.
LEMMA ExpectedDataInv == IInv /\ (StoreAndAck \/ RefuseData) => IInv'
  <1> SUFFICES ASSUME IInv, StoreAndAck \/ RefuseData PROVE IInv'
    OBVIOUS
  <1>1. /\ io \in Endpoint /\ io.received # << >> /\ registered' = registered
        /\ registered \in BOOLEAN /\ m_in' = m_in
        /\ m_next_expected_packet_id \in 0 .. BlockModulus - 1
        /\ m_writer \in {"unset", "null", "closed", "open", "failed"}
        /\ file \in Seq(Block)
    BY DEF IInv, TypeOK, StoreAndAck, RefuseData, ExpectedData
  <1>2. m_writer \in {"open", "failed"}
    BY <1>1 DEF IInv, Refused, NoWriter, Listening
  <1>p. PICK p : p = Received
    OBVIOUS
  <1>3. p \in Packet /\ p.op = "DATA" /\ p.num = m_next_expected_packet_id
    BY <1>1, <1>p, ReceivedType DEF StoreAndAck, RefuseData, ExpectedData
  <1>t. PICK t : t = take_received(io)
    OBVIOUS
  <1>s. PICK s : s = cancel_timer(t)
    OBVIOUS
  <1>4. s \in Endpoint /\ registered' = s.open
    <2>1. t \in Endpoint /\ t.open = io.open
      BY <1>1, <1>t, HandlersKeepEndpoint, SocketStaysOpen
    <2>2. s \in Endpoint /\ s.open = io.open
      BY <1>s, <2>1, CallsKeepEndpoint, SocketStaysOpen
    <2>3. registered = io.open
      BY <1>2 DEF IInv, HeldWhileOpen
    <2> QED
      BY <1>1, <2>2, <2>3
  <1>5. CASE StoreAndAck
    <2>1. m_writer' = m_writer /\ file' = Append(file, BlockOf(p, TRUE))
      BY <1>5, <1>p DEF StoreAndAck, Store
    <2>2. /\ file' \in Seq(Block) /\ FileGrows /\ Len(file') = Len(file) + 1
          /\ file'[Len(file) + 1].num = p.num /\ file'[Len(file) + 1].whole = TRUE
      BY <1>3, <2>1, BlockWritten
    <2>3. DOMAIN file' = 1 .. Len(file) + 1 /\ DOMAIN file = 1 .. Len(file) /\ Len(file) \in Nat
      BY <1>1, <2>2, LenProperties
    <2>a. PICK a : a = AckPacket(p.num)
      OBVIOUS
    <2>l. PICK expected \in BOOLEAN :
              /\ m_next_expected_packet_id' = NextBlock(p.num)
              /\ send_packet(a, expected, DEFAULT_RETRY_COUNTER, s)
      <3>1. CASE DataSize(p) # DEFAULT_DATA_SIZE
        <4>1. send_ack(p.num, TRUE, s)
          BY <1>5, <1>p, <1>t, <1>s, <3>1 DEF StoreAndAck
        <4> QED
          BY <2>a, <4>1 DEF send_ack
      <3>2. CASE DataSize(p) = DEFAULT_DATA_SIZE
        <4>1. send_ack(p.num, FALSE, s)
          BY <1>5, <1>p, <1>t, <1>s, <3>2 DEF StoreAndAck
        <4> QED
          BY <2>a, <4>1 DEF send_ack
      <3> QED
        BY <3>1, <3>2
    <2>4. a \in Packet
      BY <1>3, <2>a, PacketTypes DEF Packet
    <2>5. /\ m_next_expected_packet_id' = NextBlock(m_next_expected_packet_id)
          /\ send_packet(a, expected, DEFAULT_RETRY_COUNTER, s)
      BY <1>3, <2>l
    <2>6. m_next_expected_packet_id' \in 0 .. BlockModulus - 1
      BY <1>1, <2>5, NextBlockType
    <2>7. Expected'
      <3>1. CASE m_writer = "open"
        <4>1. m_next_expected_packet_id = (Len(file) + 1) % BlockModulus
          BY <3>1 DEF IInv, Expected
        <4>2. m_next_expected_packet_id' = (Len(file) + 1 + 1) % BlockModulus
          BY <2>3, <2>5, <4>1, NextBlockCongruent
        <4> QED
          BY <2>2, <4>2 DEF Expected
      <3>2. CASE m_writer = "failed"
        BY <2>1, <3>2 DEF Expected
      <3> QED
        BY <1>2, <3>1, <3>2
    <2>11. InOrder' /\ NumberAfter(Len(file))' = NextBlock(p.num)
      BY <1>2, <1>3, <2>1, BlockInOrder DEF NoWriter
    <2>12. Owed'
      BY <1>3, <2>5, <2>11 DEF Owed
    <2>8. InOrderOnce'
      <3>1. CASE m_writer = "open"
        <4>1. p.num = (Len(file) + 1) % BlockModulus
          BY <1>3, <3>1 DEF IInv, Expected
        <4>2. ASSUME NEW i \in DOMAIN file' PROVE file'[i].num = i % BlockModulus
          <5>1. CASE i \in DOMAIN file
            BY <2>2, <3>1, <5>1 DEF IInv, InOrderOnce, FileGrows
          <5>2. CASE i = Len(file) + 1
            BY <2>2, <4>1, <5>2
          <5> QED
            BY <2>3, <5>1, <5>2
        <4> QED
          BY <2>11, <4>2 DEF InOrder, InOrderOnce
      <3>2. CASE m_writer = "failed"
        BY <2>1, <2>11, <3>2 DEF InOrder, InOrderOnce
      <3> QED
        BY <1>2, <3>1, <3>2
    <2>9. AckOfLast(a)'
      BY <2>2, <2>3, <2>a DEF AckOfLast, AckPacket
    <2>10. m_writer' \in {"open", "failed"} /\ ~NoWriter'
      BY <1>2, <2>1 DEF NoWriter
    <2> QED
      BY <1>1, <1>4, <2>2, <2>4, <2>5, <2>6, <2>7, <2>8, <2>9, <2>10,
         <2>12, SendStep
  <1>6. CASE RefuseData
    <2>1. /\ m_writer' = "failed"
          /\ file' = file \/ file' = Append(file, BlockOf(p, FALSE))
      BY <1>6, <1>p DEF RefuseData, StoreFails
    <2>2. file' \in Seq(Block)
      <3>1. CASE file' = file
        BY <1>1, <3>1
      <3>2. CASE file' = Append(file, BlockOf(p, FALSE))
        BY <1>3, <3>2, BlockWritten
      <3> QED
        BY <2>1, <3>1, <3>2
    <2>a. PICK a : a = ErrorPacket(ERRCODE_DISK_FULL)
      OBVIOUS
    <2>3. a \in Packet
      BY <2>a, PacketTypes DEF ERRCODE_DISK_FULL
    <2>4. send_packet(a, FALSE, 0, s) /\ m_next_expected_packet_id' = m_next_expected_packet_id
      BY <1>6, <1>t, <1>s, <2>a DEF RefuseData
    <2>7. InOrder' /\ NumberAfter(Len(file))' = p.num
      <3>1. CASE file' = file
        <4>1. \A i : NumberAfter(i)' = NumberAfter(i)
          BY <3>1 DEF NumberAfter
        <4> QED
          BY <1>2, <1>3, <3>1, <4>1 DEF IInv, InOrderOnce, InOrder, Owed, NoWriter
      <3>2. CASE file' = Append(file, BlockOf(p, FALSE))
        BY <1>2, <1>3, <3>2, BlockInOrder DEF NoWriter
      <3> QED
        BY <2>1, <3>1, <3>2
    <2>5. Expected' /\ Owed' /\ InOrderOnce' /\ ~NoWriter'
      BY <1>3, <2>1, <2>4, <2>7 DEF Expected, Owed, InOrderOnce, InOrder, NoWriter
    <2>6. AckOfLast(a)'
      BY <2>a DEF AckOfLast, ErrorPacket
    <2> QED
      BY <1>1, <1>4, <2>1, <2>2, <2>3, <2>4, <2>5, <2>6, SendStep
  <1> QED
    BY <1>5, <1>6

\* on_packet_received for everything else.
LEMMA OnPacketReceivedInv ==
    IInv /\ (ReceiveFailed \/ process_error_received \/ PacketIgnored) => IInv'
  <1> SUFFICES ASSUME IInv, ReceiveFailed \/ process_error_received \/ PacketIgnored
               PROVE  IInv'
    OBVIOUS
  <1>1. /\ io \in Endpoint /\ m_in.pkt \in Packet /\ m_retry_counter \in Int
        /\ NoWriter => ~Listening(io)
    BY DEF IInv, TypeOK, Refused
  <1>2. io.broken > 0 \/ io.received # << >>
    BY DEF ReceiveFailed, process_error_received, PacketIgnored, ExpectedData
  <1>3. m_writer # "unset"
    BY <1>1, <1>2, BusyMeansStarted DEF Quiet, Endpoint
  <1>4. CASE ReceiveFailed
    <2>1. PICK t \in Endpoint : t = take_broken(io) /\ terminate(t)
      BY <1>1, <1>4, HandlersKeepEndpoint DEF ReceiveFailed
    <2>2. NoWriter => ~Listening(t)
      BY <1>1, <2>1, WhatListens
    <2> QED
      BY <1>1, <1>3, <1>4, <2>1, <2>2, EndStep DEF ReceiveFailed, sendVars
  <1>5. CASE process_error_received
    <2>1. PICK t \in Endpoint : terminate(t)
      BY <1>1, <1>5, HandlersKeepEndpoint DEF process_error_received
    <2>2. ~NoWriter
      BY <1>1, <1>5 DEF process_error_received, Listening
    <2> QED
      BY <1>1, <1>3, <1>5, <2>1, <2>2, EndStep DEF process_error_received, sendVars
  <1>6. CASE PacketIgnored
    <2>1. io' \in Endpoint /\ io'.open = io.open /\ Driven(io') = Driven(io)
      BY <1>1, <1>6, HandlersKeepEndpoint, SocketStaysOpen, WhatDrives
         DEF PacketIgnored
    <2>2. ~NoWriter
      BY <1>1, <1>6 DEF PacketIgnored, Listening
    <2> QED
      BY <1>1, <1>3, <1>6, <2>1, <2>2, FrameStep DEF PacketIgnored
  <1> QED
    BY <1>4, <1>5, <1>6

\* The kernel's steps keep the invariant.
LEMMA KernelInv ==
    IInv /\ (Kernel \/ \E d \in Arrivals : Receive(d)) => IInv'
  <1> SUFFICES ASSUME IInv, Kernel \/ \E d \in Arrivals : Receive(d) PROVE IInv'
    OBVIOUS
  <1>1. io \in Endpoint /\ m_in.pkt \in Packet /\ (NoWriter => ~Listening(io))
    BY DEF IInv, TypeOK, Refused
  <1>2. m_writer # "unset"
    BY <1>1, BusyMeansStarted
       DEF Kernel, TimerExpires, ReceiveBreaks, Receive, Quiet, Endpoint
  <1>3. UNCHANGED <<registered, writerVars, sendVars, net>>
    BY DEF Kernel, TimerExpires, ReceiveBreaks, Receive
  <1>4. CASE Kernel
    <2>1. /\ io' \in Endpoint /\ io'.open = io.open /\ (Driven(io) => Driven(io'))
          /\ m_in' = m_in
      BY <1>1, <1>4, KernelKeepsEndpoint, SocketStaysOpen, WhatDrives
         DEF Kernel, TimerExpires, ReceiveBreaks
    <2>2. NoWriter => ~Listening(io')
      <3>1. CASE TimerExpires
        BY <1>1, <3>1, WhatListens DEF TimerExpires
      <3>2. CASE ReceiveBreaks
        BY <1>1, <3>2 DEF ReceiveBreaks, Listening
      <3> QED
        BY <1>4, <3>1, <3>2 DEF Kernel
    <2> QED
      BY <1>1, <1>2, <1>3, <2>1, <2>2, FrameStep
  <1>5. ASSUME NEW d \in Arrivals, Receive(d) PROVE IInv'
    <2>1. d.pkt \in Packet /\ d.pkt.len \in Nat
      BY WriteConnectionAssumption DEF Packet
    <2>2. io' = complete_receive(io, d.pkt.len) /\ io.receives > 0 /\ m_in'.pkt = d.pkt
      BY <1>5 DEF Receive
    <2>3. io' \in Endpoint /\ io'.open = io.open /\ Driven(io') = Driven(io)
      BY <1>1, <2>1, <2>2, KernelKeepsEndpoint, SocketStaysOpen, WhatDrives
    <2>4. ~NoWriter
      BY <1>1, <2>2 DEF Listening
    <2> QED
      BY <1>1, <1>2, <1>3, <2>1, <2>2, <2>3, <2>4, FrameStep
  <1> QED
    BY <1>4, <1>5

\* The invariant is inductive.
LEMMA NextInv == IInv /\ [Next]_vars => IInv'
  <1> SUFFICES ASSUME IInv, [Next]_vars PROVE IInv'
    OBVIOUS
  <1>1. CASE UNCHANGED vars
    <2>2. AckedIsWritten'
      BY <1>1 DEF vars, writerVars, sendVars, IInv, AckedIsWritten
    <2>3. Expected' /\ Owed' /\ InOrderOnce'
      BY <1>1, OrderStays DEF vars, IInv
    <2> QED
      BY <1>1, <2>2, <2>3 DEF vars, writerVars, sendVars, IInv, TypeOK, BeforeStart,
                              HeldWhileOpen, Budget, Refused, NoWriter
  <1> QED
    BY <1>1, StartInv, OnPacketSentInv, OnSendTimeoutInv, ExpectedDataInv,
       OnPacketReceivedInv, KernelInv
       DEF Next, RunHandler
-----------------------------------------------------------------------------
\* The theorems.

\* The inductive invariant holds in every reachable state.
THEOREM Invariance == Spec => []IInv
  BY InitInv, NextInv, PTL DEF Spec

\* Type correctness of the connection.
THEOREM TypeCorrect == Spec => []TypeOK
  <1>1. IInv => TypeOK
    BY DEF IInv
  <1> QED
    BY <1>1, Invariance, PTL

\* Whatever the client does, a connection the server holds has an open socket
\* and something that will run one of its handlers.
THEOREM ConnectionIsNeverAbandoned == Spec => []NeverAbandoned
  <1>1. IInv => NeverAbandoned
    BY DEF IInv, TypeOK, Endpoint, BeforeStart, HeldWhileOpen, NeverAbandoned
  <1> QED
    BY <1>1, Invariance, PTL

\* No packet is handed to the network more than DEFAULT_RETRY_COUNTER times.
THEOREM RetriesAreBounded == Spec => []RetryBudget
  <1>1. IInv => RetryBudget
    BY DEF IInv, Budget, RetryBudget
  <1> QED
    BY <1>1, Invariance, PTL

\* The file is the blocks in order, each once, with the number of its place
\* while no write fails, and with the failed block written again after that.
THEOREM FileIsInOrder == Spec => []InOrderOnce
  <1>1. IInv => InOrderOnce
    BY DEF IInv
  <1> QED
    BY <1>1, Invariance, PTL

\* The ACK sent, and sent again, is that of the block written last, which the
\* write took whole as the parser gave it, on whatever lap of the numbers.
THEOREM AcknowledgedIsWritten == Spec => []AckedIsWritten
  <1>1. IInv => AckedIsWritten
    BY DEF IInv
  <1> QED
    BY <1>1, Invariance, PTL
-----------------------------------------------------------------------------
\* The connection implements Connection: what each step does to the phase and
\* to the wire.

\* A step that goes on: the connection stays in m_connections, or out of it,
\* and only while its socket is open something may reach the wire.
GoesOn ==
    /\ registered' = registered
    /\ net \subseteq net'
    /\ ~io.open => net' = net

\* A step that ends the connection, or finds it ended, sends nothing.
Ends == registered' = FALSE /\ net' = net

\* start() begins the life of the connection.
LEMMA StartBegins ==
    ASSUME IInv, Start
    PROVE  /\ m_writer = "unset" /\ m_writer' # "unset"
           /\ registered' = TRUE /\ net = {}
  <1>1. m_writer = "unset" /\ registered' = TRUE
    BY DEF Start
  <1>2. m_writer' # "unset"
    BY DEF Start
  <1> QED
    BY <1>1, <1>2 DEF IInv, BeforeStart

\* Answering the block expected, with an ACK or an ERROR, is a step that goes
\* on.
LEMMA AnswerGoesOn ==
    ASSUME IInv, StoreAndAck \/ RefuseData
    PROVE  GoesOn /\ m_writer' # "unset"
  <1>1. /\ io \in Endpoint /\ io.received # << >> /\ registered' = registered
        /\ net \subseteq Datagram
    BY DEF IInv, TypeOK, StoreAndAck, RefuseData, ExpectedData
  <1>t. PICK t : t = take_received(io)
    OBVIOUS
  <1>s. PICK s : s = cancel_timer(t)
    OBVIOUS
  <1>2. s \in Endpoint /\ s.open = io.open
    <2>1. t \in Endpoint /\ t.open = io.open
      BY <1>1, <1>t, HandlersKeepEndpoint, SocketStaysOpen
    <2> QED
      BY <1>s, <2>1, CallsKeepEndpoint, SocketStaysOpen
  <1>3. PICK p \in Packet : send_prepared_packet(p, s)
    <2>1. Received \in Packet
      BY <1>1, ReceivedType
    <2>2. AckPacket(Received.num) \in Packet /\ ErrorPacket(ERRCODE_DISK_FULL) \in Packet
      BY <2>1, PacketTypes DEF Packet, ERRCODE_DISK_FULL
    <2> QED
      BY <1>t, <1>s, <2>2 DEF StoreAndAck, RefuseData, send_ack, send_packet
  <1>4. m_writer' # "unset"
    <2>1. m_writer # "unset"
      BY <1>1, BusyMeansStarted DEF Quiet
    <2> QED
      BY <2>1 DEF StoreAndAck, RefuseData, Store, StoreFails
  <1> QED
    BY <1>1, <1>2, <1>3, <1>4, SendPrepared DEF GoesOn

\* Every step after start() goes on or ends, and there is none once the last
\* handler has run.
LEMMA LaterSteps ==
    ASSUME IInv, RunHandler \/ Kernel \/ \E d \in Arrivals : Receive(d)
    PROVE  ~Quiet(io) /\ m_writer' # "unset" /\ (GoesOn \/ Ends)
  <1>1. io \in Endpoint /\ net \subseteq Datagram /\ m_out \in Packet
    BY DEF IInv, TypeOK
  <1>2. ~Quiet(io)
    <2>1. CASE StoreAndAck \/ RefuseData \/ process_error_received \/ PacketIgnored
      BY <2>1 DEF StoreAndAck, RefuseData, ExpectedData, process_error_received,
                  PacketIgnored, Quiet
    <2>2. CASE AwaitResponse \/ FinishSending \/ SendFailed \/ on_send_timeout \/ ReceiveFailed
      BY <1>1, <2>2 DEF AwaitResponse, FinishSending, SendFailed, on_send_timeout,
                        ReceiveFailed, Quiet, Endpoint
    <2>3. CASE Kernel \/ \E d \in Arrivals : Receive(d)
      BY <1>1, <2>3 DEF Kernel, TimerExpires, ReceiveBreaks, Receive, Quiet, Endpoint
    <2> QED
      BY <2>1, <2>2, <2>3 DEF RunHandler
  <1>3. m_writer # "unset"
    BY <1>2, BusyMeansStarted
  <1>4. CASE AwaitResponse \/ PacketIgnored \/ Kernel \/ \E d \in Arrivals : Receive(d)
    BY <1>2, <1>3, <1>4
       DEF AwaitResponse, PacketIgnored, Kernel, TimerExpires, ReceiveBreaks, Receive,
           GoesOn, writerVars
  <1>5. CASE FinishSending \/ SendFailed \/ ReceiveFailed \/ process_error_received
    BY <1>2, <1>3, <1>5
       DEF FinishSending, SendFailed, ReceiveFailed, process_error_received, terminate,
           Ends, writerVars
  <1>6. CASE on_send_timeout
    <2>1. m_writer' # "unset"
      BY <1>3, <1>6 DEF on_send_timeout, writerVars
    <2>t. PICK t : t = take_expired(io)
      OBVIOUS
    <2>2. t \in Endpoint /\ t.open = io.open
      BY <1>1, <1>6, <2>t, HandlersKeepEndpoint, SocketStaysOpen DEF on_send_timeout
    <2>3. CASE send_prepared_packet(m_out, t) /\ UNCHANGED registered
      BY <1>1, <1>2, <2>1, <2>2, <2>3, SendPrepared DEF GoesOn
    <2>4. CASE terminate(t) /\ UNCHANGED net
      BY <1>2, <2>1, <2>4 DEF terminate, Ends
    <2> QED
      BY <1>6, <2>t, <2>3, <2>4 DEF on_send_timeout
  <1>7. CASE StoreAndAck \/ RefuseData
    BY <1>2, <1>7, AnswerGoesOn
  <1> QED
    BY <1>4, <1>5, <1>6, <1>7 DEF RunHandler

\* Every step is one of Connection, or leaves phase and wire alone.
LEMMA StepImplements == IInv /\ [Next]_vars => [Life!Next]_(Life!vars)
  <1> SUFFICES ASSUME IInv, [Next]_vars PROVE [Life!Next]_(Life!vars)
    OBVIOUS
  <1>1. CASE Start
    <2>1. Phase = "new" /\ Phase' = "serving" /\ net \subseteq net'
      BY <1>1, StartBegins DEF Phase
    <2> QED
      BY <2>1 DEF Life!Next, Life!Start
  <1>2. CASE RunHandler \/ Kernel \/ \E d \in Arrivals : Receive(d)
    <2>1. ~Quiet(io) /\ m_writer' # "unset" /\ (GoesOn \/ Ends)
      BY <1>2, LaterSteps
    <2>2. m_writer # "unset" /\ registered \in BOOLEAN /\ registered = io.open
      BY <2>1, BusyMeansStarted DEF IInv, TypeOK, HeldWhileOpen
    <2>3. CASE registered /\ GoesOn
      <3>1. registered' = TRUE /\ net \subseteq net'
        BY <2>2, <2>3 DEF GoesOn
      <3>2. Phase = "serving" /\ Phase' = "serving"
        BY <2>1, <2>2, <2>3, <3>1 DEF Phase
      <3> QED
        BY <3>1, <3>2 DEF Life!Next, Life!Serve
    <2>4. CASE registered /\ Ends
      <3>1. registered' = FALSE /\ net' = net
        BY <2>4 DEF Ends
      <3>2. Phase = "serving" /\ Phase' \in {"ending", "released"}
        BY <2>1, <2>2, <2>4, <3>1 DEF Phase
      <3> QED
        BY <3>1, <3>2 DEF Life!Next, Life!Terminate
    <2>5. CASE ~registered
      <3>1. registered' = FALSE /\ net' = net
        BY <2>1, <2>2, <2>5 DEF GoesOn, Ends
      <3>2. Phase = "ending" /\ Phase' \in {"ending", "released"}
        BY <2>1, <2>2, <2>5, <3>1 DEF Phase
      <3> QED
        BY <3>1, <3>2 DEF Life!Next, Life!Release, Life!vars
    <2> QED
      BY <2>1, <2>2, <2>3, <2>4, <2>5
  <1>3. CASE UNCHANGED vars
    BY <1>3 DEF vars, writerVars, Life!vars, Phase, Quiet
  <1> QED
    BY <1>1, <1>2, <1>3 DEF Next

\* A write connection implements Connection: it is started once and silent for
\* good once it was terminated.
THEOREM WriteConnectionImplements == Spec => ImplementsConnection
  <1>1. ASSUME Init PROVE Life!Init
    <2>1. Phase = "new" /\ net = {}
      BY <1>1 DEF Init, Phase
    <2> QED
      BY <2>1 DEF Life!Init
  <1> QED
    BY <1>1, StepImplements, Invariance, PTL DEF Spec, ImplementsConnection, Life!Spec
=============================================================================
