------------------------------ MODULE ClientGet ------------------------------
(***************************************************************************)
(* src/src/client_app/client_get.hpp: the client's side of a download.     *)
(* The client resolves the server's name and sends a read request.  The    *)
(* first DATA packet numbered 1, from whatever source, decides which       *)
(* endpoint serves the file; from then on each block that follows the last *)
(* one acknowledged is written and acknowledged.                           *)
(*                                                                         *)
(* One action per handler, as in ReadConnection and WriteConnection; what  *)
(* differs is that a packet that arrives does not stop the timer: it is    *)
(* only restarted, when the answer was sent.                               *)
(***************************************************************************)
EXTENDS Tftp, AsioEndpoint

CONSTANTS
    Self,      \* endpoint of m_socket
    Server,    \* what m_request.m_host and m_port resolve to
    Peers,     \* endpoints packets may come from
    MaxBurst,  \* bound: receives completed before one of their handlers runs
    Arrivals   \* datagrams, [src, pkt], that anyone may send to Self

ASSUME ClientGetAssumption ==
    /\ MaxBurst \in Nat \ {0}
    /\ Garbled \notin Peers
    /\ \A d \in Arrivals :
          /\ d.src \in Peers /\ d.pkt \in Packet
          /\ d.pkt.op = "DATA" => d.pkt.num < BlockModulus

VARIABLES
    resolver,                \* m_resolver: "idle", "pending", "done", or
                             \* "failed": no address, or start() threw
    m_server_endpoint,
    m_request_complete,
    m_writer,                \* m_writer: "unset", then what open_writer
                             \* returned, then "failed" once a write failed
    file,                    \* the blocks written: number, payload and bytes as
                             \* the parser gave them to the writer, where they
                             \* are from, and whether the write took them all
    m_last_acked_packet_id,
    m_response_expected,
    m_retry_counter,
    m_out,                   \* m_out_packet_data, as a packet
    m_in,                    \* m_in_packet_data and m_in_packet_endpoint
    io,                      \* m_socket and m_send_timeout_timer
    net,                     \* datagrams this client put on the wire
    tries                    \* history: how often m_out was handed to ASIO

writerVars == <<m_server_endpoint, m_request_complete, m_writer, file,
                m_last_acked_packet_id>>
sendVars == <<m_response_expected, m_retry_counter, m_out, tries>>
vars == <<resolver, writerVars, sendVars, m_in, io, net>>

Datagram == [src : {Self}, dst : Peers \cup {Server}, pkt : Packet]
Block == [num : Nat, data : Int \cup {Garbled}, size : Int,
          src : Peers \cup {Garbled}, whole : BOOLEAN]

\* The client itself; the network may carry the datagrams of others too.
StateOK ==
    /\ resolver \in {"idle", "pending", "done", "failed"}
    /\ m_server_endpoint \in Peers \cup {Server}
    /\ m_request_complete \in BOOLEAN
    /\ m_writer \in {"unset", "closed", "open", "failed"}
    /\ file \in Seq(Block)
    /\ m_last_acked_packet_id \in 0 .. BlockModulus - 1
    /\ m_response_expected \in BOOLEAN
    /\ m_retry_counter \in Int
    /\ m_out \in Packet
    /\ m_in.pkt \in Packet
    /\ io \in Endpoint
    /\ tries \in Nat

TypeOK == StateOK /\ net \subseteq Datagram

\* m_server_endpoint is read only once it was assigned.
Init ==
    /\ resolver = "idle"
    /\ m_server_endpoint = Server
    /\ m_request_complete = FALSE
    /\ m_writer = "unset"
    /\ file = << >>
    /\ m_last_acked_packet_id = 0
    /\ m_response_expected = FALSE
    /\ m_retry_counter = 0
    /\ m_out = InvalidPacket
    /\ m_in = [src |-> Self, pkt |-> InvalidPacket]
    /\ io = Unopened
    /\ net = {}
    /\ tries = 0
-----------------------------------------------------------------------------
\* The steps handlers are made of.  "s" is the endpoint as the handler has
\* left it so far.

send_prepared_packet(p, dst, s) ==
    \E accepted \in BOOLEAN :
        /\ io' = async_send_to(s, accepted)
        /\ net' = IF s.open /\ accepted
                  THEN net \cup {[src |-> Self, dst |-> dst, pkt |-> p]}
                  ELSE net

send_packet(p, response_expected, retry_counter, dst, s) ==
    /\ m_out' = p
    /\ m_response_expected' = response_expected
    /\ m_retry_counter' = retry_counter
    /\ tries' = 1
    /\ send_prepared_packet(p, dst, s)

\* terminate and stop; the resolver has answered by then.
terminate(s) == io' = close_socket(cancel_timer(s))

\* What open_writer and is_open make of the local file at the first block;
\* later the writer is what it was.  The mode is one open_writer knows, as
\* client_app asks for.
WriterOpened(w) ==
    IF m_request_complete THEN w = m_writer ELSE w \in {"closed", "open"}

\* Mutant: m_request_complete is not set, so every block counts as the first.
AcceptServerAgain(src) ==
    /\ m_server_endpoint' = src
    /\ UNCHANGED m_request_complete

\* The first block decides which endpoint serves the file.
AcceptServer(src) ==
    /\ m_request_complete' = TRUE
    /\ m_server_endpoint' = IF m_request_complete THEN m_server_endpoint ELSE src

\* Packet p as the writer gets it.  A block longer than the datagram in the
\* buffer ends in bytes of an earlier one, which may be anyone's.
BlockOf(p, whole) ==
    [num |-> p.num, data |-> p.data, size |-> DataSize(p),
     src |-> IF p.len > m_in.pkt.len THEN Garbled ELSE m_in.src,
     whole |-> whole]
-----------------------------------------------------------------------------
\* start(): it may throw, when it cannot open or bind a socket.
Start ==
    /\ resolver = "idle"
    /\ \/ /\ resolver' = "pending"
          /\ io' = open_socket(io)
       \/ /\ resolver' = "failed"
          /\ UNCHANGED io
    /\ UNCHANGED <<writerVars, sendVars, m_in, net>>

\* on_resolve_query and send_request.  Without an address nothing more
\* happens, and the socket stays open.
on_resolve_query ==
    /\ resolver = "pending"
    /\ \/ /\ resolver' = "done"
          /\ m_server_endpoint' = Server
          /\ send_packet(RequestPacket("RRQ"), TRUE, DEFAULT_RETRY_COUNTER, Server, io)
       \/ /\ resolver' = "failed"
          /\ UNCHANGED <<m_server_endpoint, sendVars, io, net>>
    /\ UNCHANGED <<m_request_complete, m_writer, file, m_last_acked_packet_id, m_in>>

\* on_packet_sent after a packet that expects a response.
AwaitResponse ==
    /\ io.sent > 0
    /\ m_response_expected
    /\ io' = async_receive_from(restart_timer(take_sent(io)))
    /\ UNCHANGED <<resolver, writerVars, sendVars, m_in, net>>

\* Mutant: the client that has nothing more to send keeps its socket.
FinishSendingSilently ==
    /\ io.sent > 0
    /\ ~m_response_expected
    /\ io' = take_sent(io)
    /\ UNCHANGED <<resolver, writerVars, sendVars, m_in, net>>

\* on_packet_sent after a packet that expects none.
FinishSending ==
    /\ io.sent > 0
    /\ ~m_response_expected
    /\ terminate(take_sent(io))
    /\ UNCHANGED <<resolver, writerVars, sendVars, m_in, net>>

SendFailed ==
    /\ io.failed > 0
    /\ terminate(take_failed(io))
    /\ UNCHANGED <<resolver, writerVars, sendVars, m_in, net>>

\* Mutant: a packet sent again gets a fresh retry counter.
on_send_timeout_resetting ==
    /\ io.expired > 0
    /\ \/ /\ m_retry_counter - 1 > 0
          /\ m_retry_counter' = DEFAULT_RETRY_COUNTER
          /\ tries' = tries + 1
          /\ send_prepared_packet(m_out, m_server_endpoint, take_expired(io))
       \/ /\ m_retry_counter - 1 <= 0
          /\ m_retry_counter' = m_retry_counter - 1
          /\ terminate(take_expired(io))
          /\ UNCHANGED <<tries, net>>
    /\ UNCHANGED <<resolver, writerVars, m_response_expected, m_out, m_in>>

on_send_timeout ==
    /\ io.expired > 0
    /\ m_retry_counter' = m_retry_counter - 1
    /\ \/ /\ m_retry_counter' > 0
          /\ tries' = tries + 1
          /\ send_prepared_packet(m_out, m_server_endpoint, take_expired(io))
       \/ /\ m_retry_counter' <= 0
          /\ terminate(take_expired(io))
          /\ UNCHANGED <<tries, net>>
    /\ UNCHANGED <<resolver, writerVars, m_response_expected, m_out, m_in>>

ReceiveFailed ==
    /\ io.broken > 0
    /\ terminate(take_broken(io))
    /\ UNCHANGED <<resolver, writerVars, sendVars, m_in, net>>

\* The packet on_packet_received finds in the shared buffer: an InvalidPacket
\* when it must not look at it.
Received ==
    IF m_request_complete /\ m_in.src # m_server_endpoint
    THEN InvalidPacket
    ELSE parse_packet(m_in.pkt, Head(io.received))

\* Mutant: a block that was already stored is taken for the next one.
ExpectedDataOrOlder ==
    /\ io.received # << >>
    /\ Received.op = "DATA"
    /\ Received.num <= m_last_acked_packet_id + 1

\* process_data_received does not return at its check of the block number,
\* which is computed as an int: after BlockModulus - 1 no number is the next.
ExpectedData ==
    /\ io.received # << >>
    /\ Received.op = "DATA"
    /\ Received.num = m_last_acked_packet_id + 1

\* Mutant: without a file there is no writer either.
CannotOpenNoWriter ==
    /\ ExpectedData
    /\ ~m_request_complete
    /\ AcceptServer(m_in.src)
    /\ m_writer' = "null"
    /\ send_packet(ErrorPacket(ERRCODE_ACCESS_VIOLATION), FALSE, 0,
                   m_server_endpoint', take_received(io))
    /\ UNCHANGED <<resolver, file, m_last_acked_packet_id, m_in>>

\* The local file cannot be opened.
CannotOpen ==
    /\ ExpectedData
    /\ ~m_request_complete
    /\ AcceptServer(m_in.src)
    /\ m_writer' = "closed"
    /\ send_packet(ErrorPacket(ERRCODE_ACCESS_VIOLATION), FALSE, 0,
                   m_server_endpoint', take_received(io))
    /\ UNCHANGED <<resolver, file, m_last_acked_packet_id, m_in>>

\* Mutant: a block is taken for the last one unless it is more than full.
StoreAndAckStrictly ==
    /\ ExpectedData
    /\ AcceptServer(m_in.src)
    /\ m_writer' \in {"open", "failed"}
    /\ WriterOpened(m_writer')
    /\ file' = Append(file, BlockOf(Received, TRUE))
    /\ m_last_acked_packet_id' = Received.num
    /\ send_packet(AckPacket(Received.num), DataSize(Received) > DEFAULT_DATA_SIZE,
                   DEFAULT_RETRY_COUNTER, m_server_endpoint', take_received(io))
    /\ UNCHANGED <<resolver, m_in>>

\* The block is written and acknowledged.
StoreAndAck ==
    /\ ExpectedData
    /\ AcceptServer(m_in.src)
    /\ m_writer' \in {"open", "failed"}
    /\ WriterOpened(m_writer')
    /\ file' = Append(file, BlockOf(Received, TRUE))
    /\ m_last_acked_packet_id' = Received.num
    /\ send_packet(AckPacket(Received.num), DataSize(Received) >= DEFAULT_DATA_SIZE,
                   DEFAULT_RETRY_COUNTER, m_server_endpoint', take_received(io))
    /\ UNCHANGED <<resolver, m_in>>

\* Mutant: the ERROR for a block that could not be written is not sent.
RefuseDataSilently ==
    /\ ExpectedData
    /\ AcceptServer(m_in.src)
    /\ m_writer' = "failed"
    /\ io' = cancel_timer(take_received(io))
    /\ UNCHANGED <<resolver, file, m_last_acked_packet_id, sendVars, m_in, net>>

\* Mutant: a block is acknowledged before it is known to be written.
RefuseDataAcknowledged ==
    /\ ExpectedData
    /\ AcceptServer(m_in.src)
    /\ m_writer' = "failed"
    /\ UNCHANGED file
    /\ send_packet(AckPacket(Received.num), FALSE, 0, m_server_endpoint', take_received(io))
    /\ UNCHANGED <<resolver, m_last_acked_packet_id, m_in>>

\* The write fails, with none or only some of the block's bytes in the file;
\* on a file that is not open it always does.
RefuseData ==
    /\ ExpectedData
    /\ AcceptServer(m_in.src)
    /\ \/ /\ m_request_complete /\ m_writer = "closed"
          /\ UNCHANGED <<m_writer, file>>
       \/ /\ WriterOpened("open") \/ WriterOpened("failed")
          /\ DataSize(Received) > 0
          /\ m_writer' = "failed"
          /\ file' \in {file, Append(file, BlockOf(Received, FALSE))}
    /\ send_packet(ErrorPacket(ERRCODE_DISK_FULL), FALSE, 0,
                   m_server_endpoint', take_received(io))
    /\ UNCHANGED <<resolver, m_last_acked_packet_id, m_in>>

process_error_received ==
    /\ io.received # << >>
    /\ Received.op = "ERROR"
    /\ terminate(take_received(io))
    /\ UNCHANGED <<resolver, writerVars, sendVars, m_in, net>>

\* Any other packet is dropped, and with it the receive operation it used up.
PacketIgnored ==
    /\ io.received # << >>
    /\ Received.op # "ERROR"
    /\ ~ExpectedData
    /\ io' = take_received(io)
    /\ UNCHANGED <<resolver, writerVars, sendVars, m_in, net>>

\* The io_context runs the handler of some completion.
RunHandler ==
    \/ on_resolve_query
    \/ AwaitResponse \/ FinishSending \/ SendFailed \/ on_send_timeout
    \/ ReceiveFailed \/ CannotOpen \/ StoreAndAck \/ RefuseData
    \/ process_error_received \/ PacketIgnored
-----------------------------------------------------------------------------
\* The kernel's part.

TimerExpires ==
    /\ io.waiting
    /\ io' = expire(io)
    /\ UNCHANGED <<resolver, writerVars, sendVars, m_in, net>>

\* Datagram d completes a pending receive: its bytes and its source go to the
\* members every receive of this client shares.
Receive(d) ==
    /\ io.receives > 0
    /\ Len(io.received) < MaxBurst
    /\ io' = complete_receive(io, d.pkt.len)
    /\ m_in' = [src |-> d.src, pkt |-> d.pkt]
    /\ UNCHANGED <<resolver, writerVars, sendVars, net>>

ReceiveBreaks ==
    /\ io.receives > 0
    /\ io' = break_receive(io)
    /\ UNCHANGED <<resolver, writerVars, sendVars, m_in, net>>

Kernel == TimerExpires \/ ReceiveBreaks

Next == Start \/ RunHandler \/ Kernel
        \/ \E d \in Arrivals : Receive(d)

Spec == Init /\ [][Next]_vars

\* The io_context runs every handler that is ready, and time passes.
FairSpec == Spec /\ WF_vars(RunHandler) /\ WF_vars(TimerExpires)
-----------------------------------------------------------------------------
\* A client whose request went out is never stuck with an open socket and
\* nothing to run: a completion is queued or the timer waits.
NeverAbandoned == resolver = "done" /\ io.open => Driven(io)

\* No packet is handed to the network more often than DEFAULT_RETRY_COUNTER
\* allows.  Here a timeout of the packet before is the normal case: nothing
\* cancels the timer between the arrival of a block and its ACK.
RetryBudget == tries <= DEFAULT_RETRY_COUNTER

\* The number that must follow the first i blocks of the local file: a block
\* that was written only in part is owed again.
NumberAfter(i) ==
    IF i = 0 THEN 1
    ELSE IF file[i].whole THEN file[i].num + 1
    ELSE file[i].num

\* The local file holds blocks 1, 2, 3, ... in order, each exactly once; after
\* a write that failed nothing but the block that failed is written.  Since
\* numbers are compared as int, there are never more than 16 bits tell apart.
InOrderOnce ==
    /\ \A i \in DOMAIN file : file[i].num = NumberAfter(i - 1)
    /\ m_writer # "failed" => \A i \in DOMAIN file : file[i].num = i

\* Every block of the local file was sent by one endpoint, the one the first
\* block came from, although any source may answer the request, and several
\* packets may be in the shared buffer one after the other before a handler
\* looks.  The exception is the end of a block that such a burst lengthened:
\* it is left over from another datagram, and nothing says whose.
OneServer ==
    \A i \in DOMAIN file : file[i].src \in {m_server_endpoint, Garbled}

\* A block the server was told is stored was written: the write took all of
\* the payload the parser gave it.  Which bytes these are, is another matter:
\* in a burst the parser may cut or lengthen the payload (StoredIsTheFile of
\* Download).
AckedIsWritten ==
    \A d \in net : d.pkt.op = "ACK" =>
        \E i \in DOMAIN file : file[i].num = d.pkt.num /\ file[i].whole

\* A download ends, whatever arrives or is lost: every handler has run, and
\* the socket is closed unless the server's name could not be resolved.
Released == <>[](Quiet(io) /\ (resolver = "failed" \/ ~io.open))
=============================================================================
