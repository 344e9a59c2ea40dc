------------------------------ MODULE ClientPut ------------------------------
(***************************************************************************)
(* src/src/client_app/client_put.hpp: the client's side of an upload.  The *)
(* client opens its file, resolves the server's name and sends a write     *)
(* request.  The first ACK of block 0, from whatever source, decides which *)
(* endpoint takes the file; each acknowledgement of the block sent last    *)
(* makes the client read and send the next one.                            *)
(*                                                                         *)
(* One action per handler; as in ClientGet a packet that arrives does not  *)
(* stop the timer.                                                         *)
(***************************************************************************)
EXTENDS Tftp, AsioEndpoint

CONSTANTS
    Self,      \* endpoint of m_socket
    Server,    \* what m_request.m_host and m_port resolve to
    Peers,     \* endpoints packets may come from
    Blocks,    \* DATA packets the file makes: the last one is short
    LastSize,  \* bytes in the last block
    MaxBurst,  \* bound: receives completed before one of their handlers runs
    Arrivals   \* datagrams, [src, pkt], that anyone may send to Self

ASSUME ClientPutAssumption ==
    /\ Blocks \in Nat \ {0}
    /\ LastSize \in 0 .. DEFAULT_DATA_SIZE - 1
    /\ MaxBurst \in Nat \ {0}
    /\ \A d \in Arrivals : d.src \in Peers /\ d.pkt \in Packet

VARIABLES
    resolver,                \* m_resolver: "idle", "pending", "done", or
                             \* "failed": no address, or start() gave up
    m_server_endpoint,
    m_request_complete,
    m_reader,                \* m_reader: "unset", then what open_reader
                             \* returned, then "failed" once a read failed
    pos,                     \* blocks read from the file
    m_last_packet_sent,
    m_last_sent_packet_id,
    m_response_expected,
    m_retry_counter,
    m_out,                   \* m_out_packet_data, as a packet
    m_in,                    \* m_in_packet_data and m_in_packet_endpoint
    io,                      \* m_socket and m_send_timeout_timer
    net,                     \* datagrams this client put on the wire
    tries                    \* history: how often m_out was handed to ASIO

readerVars == <<m_server_endpoint, m_request_complete, m_reader, pos,
                m_last_packet_sent, m_last_sent_packet_id>>
sendVars == <<m_response_expected, m_retry_counter, m_out, tries>>
vars == <<resolver, readerVars, sendVars, m_in, io, net>>

Datagram == [src : {Self}, dst : Peers \cup {Server}, pkt : Packet]

\* The client itself; the network may carry the datagrams of others too.
StateOK ==
    /\ resolver \in {"idle", "pending", "done", "failed"}
    /\ m_server_endpoint \in Peers \cup {Server}
    /\ m_request_complete \in BOOLEAN
    /\ m_reader \in {"unset", "null", "closed", "open", "failed"}
    /\ pos \in Nat
    /\ m_last_packet_sent \in BOOLEAN
    /\ m_last_sent_packet_id \in 0 .. BlockModulus - 1
    /\ m_response_expected \in BOOLEAN
    /\ m_retry_counter \in Int
    /\ m_out \in Packet
    /\ m_in.pkt \in Packet
    /\ io \in Endpoint
    /\ tries \in Nat

TypeOK == StateOK /\ net \subseteq Datagram

\* m_server_endpoint is read only once it was assigned.
Init ==
    /\ resolver = "idle"
    /\ m_server_endpoint = Server
    /\ m_request_complete = FALSE
    /\ m_reader = "unset"
    /\ pos = 0
    /\ m_last_packet_sent = FALSE
    /\ m_last_sent_packet_id = 0
    /\ m_response_expected = FALSE
    /\ m_retry_counter = 0
    /\ m_out = InvalidPacket
    /\ m_in = [src |-> Self, pkt |-> InvalidPacket]
    /\ io = Unopened
    /\ net = {}
    /\ tries = 0
-----------------------------------------------------------------------------
\* The steps handlers are made of.  "s" is the endpoint as the handler has
\* left it so far.

send_prepared_packet(p, dst, s) ==
    \E accepted \in BOOLEAN :
        /\ io' = async_send_to(s, accepted)
        /\ net' = IF s.open /\ accepted
                  THEN net \cup {[src |-> Self, dst |-> dst, pkt |-> p]}
                  ELSE net

send_packet(p, response_expected, retry_counter, dst, s) ==
    /\ m_out' = p
    /\ m_response_expected' = response_expected
    /\ m_retry_counter' = retry_counter
    /\ tries' = 1
    /\ send_prepared_packet(p, dst, s)

\* terminate and stop; the resolver has answered by then.
terminate(s) == io' = close_socket(cancel_timer(s))

\* Bytes of block k: only the last block of the file is short.
SizeOf(k) == IF k < Blocks THEN DEFAULT_DATA_SIZE
             ELSE IF k = Blocks THEN LastSize ELSE 0

\* Mutant: m_request_complete is not set, so every ACK counts as the first.
AcceptServerAgain(src) ==
    /\ m_server_endpoint' = src
    /\ UNCHANGED m_request_complete

\* The first ACK decides which endpoint takes the file.
AcceptServer(src) ==
    /\ m_request_complete' = TRUE
    /\ m_server_endpoint' = IF m_request_complete THEN m_server_endpoint ELSE src
-----------------------------------------------------------------------------
\* start(): the reader is missing or its file not open, and the client ends;
\* opening or binding the socket throws; or the name is being resolved.
Start ==
    /\ resolver = "idle"
    /\ \/ \E r \in {"null", "closed"} :
            /\ m_reader' = r
            /\ resolver' = "failed"
            /\ terminate(io)
       \/ /\ m_reader' = "open"
          /\ \/ resolver' = "pending" /\ io' = open_socket(io)
             \/ resolver' = "failed" /\ UNCHANGED io
    /\ UNCHANGED <<m_server_endpoint, m_request_complete, pos, m_last_packet_sent,
                   m_last_sent_packet_id, sendVars, m_in, net>>

\* on_resolve_query and send_request.  Without an address nothing more
\* happens, and the socket stays open.
on_resolve_query ==
    /\ resolver = "pending"
    /\ \/ /\ resolver' = "done"
          /\ m_server_endpoint' = Server
          /\ send_packet(RequestPacket("WRQ"), TRUE, DEFAULT_RETRY_COUNTER, Server, io)
       \/ /\ resolver' = "failed"
          /\ UNCHANGED <<m_server_endpoint, sendVars, io, net>>
    /\ UNCHANGED <<m_request_complete, m_reader, pos, m_last_packet_sent,
                   m_last_sent_packet_id, m_in>>

\* on_packet_sent after a packet that expects a response.
AwaitResponse ==
    /\ io.sent > 0
    /\ m_response_expected
    /\ io' = async_receive_from(restart_timer(take_sent(io)))
    /\ UNCHANGED <<resolver, readerVars, sendVars, m_in, net>>

\* Mutant: the client that has nothing more to send keeps its socket.
FinishSendingSilently ==
    /\ io.sent > 0
    /\ ~m_response_expected
    /\ io' = take_sent(io)
    /\ UNCHANGED <<resolver, readerVars, sendVars, m_in, net>>

\* on_packet_sent after a packet that expects none.
FinishSending ==
    /\ io.sent > 0
    /\ ~m_response_expected
    /\ terminate(take_sent(io))
    /\ UNCHANGED <<resolver, readerVars, sendVars, m_in, net>>

SendFailed ==
    /\ io.failed > 0
    /\ terminate(take_failed(io))
    /\ UNCHANGED <<resolver, readerVars, sendVars, m_in, net>>

\* Mutant: a packet that was sent again is given one more try.
on_send_timeout_once_more ==
    /\ io.expired > 0
    /\ m_retry_counter' = m_retry_counter - 1
    /\ \/ /\ m_retry_counter' >= 0
          /\ tries' = tries + 1
          /\ send_prepared_packet(m_out, m_server_endpoint, take_expired(io))
       \/ /\ m_retry_counter' < 0
          /\ terminate(take_expired(io))
          /\ UNCHANGED <<tries, net>>
    /\ UNCHANGED <<resolver, readerVars, m_response_expected, m_out, m_in>>

on_send_timeout ==
    /\ io.expired > 0
    /\ m_retry_counter' = m_retry_counter - 1
    /\ \/ /\ m_retry_counter' > 0
          /\ tries' = tries + 1
          /\ send_prepared_packet(m_out, m_server_endpoint, take_expired(io))
       \/ /\ m_retry_counter' <= 0
          /\ terminate(take_expired(io))
          /\ UNCHANGED <<tries, net>>
    /\ UNCHANGED <<resolver, readerVars, m_response_expected, m_out, m_in>>

ReceiveFailed ==
    /\ io.broken > 0
    /\ terminate(take_broken(io))
    /\ UNCHANGED <<resolver, readerVars, sendVars, m_in, net>>

\* The packet on_packet_received finds in the shared buffer: an InvalidPacket
\* when it must not look at it.
Received ==
    IF m_request_complete /\ m_in.src # m_server_endpoint
    THEN InvalidPacket
    ELSE parse_packet(m_in.pkt, Head(io.received))

\* Mutant: an ACK of a block before counts for the one sent last.
ExpectedAckOrOlder ==
    /\ io.received # << >>
    /\ Received.op = "ACK"
    /\ Received.num <= m_last_sent_packet_id

\* process_ack_received does not return at its check of the block number.
ExpectedAck ==
    /\ io.received # << >>
    /\ Received.op = "ACK"
    /\ Received.num = m_last_sent_packet_id

\* The last block is acknowledged: the upload is done.
LastAcknowledged ==
    /\ ExpectedAck
    /\ m_last_packet_sent
    /\ AcceptServer(m_in.src)
    /\ terminate(take_received(io))
    /\ UNCHANGED <<resolver, m_reader, pos, m_last_packet_sent, m_last_sent_packet_id,
                   sendVars, m_in, net>>

\* Mutant: a block whose read came back short is not taken for the last one.
ReadBlockEndsOnEmpty ==
    /\ ExpectedAck
    /\ ~m_last_packet_sent
    /\ AcceptServer(m_in.src)
    /\ m_reader # "failed"
    /\ pos' = pos + 1
    /\ m_last_sent_packet_id' = NextBlock(m_last_sent_packet_id)
    /\ m_last_packet_sent' = (SizeOf(pos + 1) = 0)
    /\ send_packet(DataPacket(NextBlock(m_last_sent_packet_id), pos + 1, SizeOf(pos + 1)),
                   TRUE, DEFAULT_RETRY_COUNTER, m_server_endpoint', take_received(io))
    /\ UNCHANGED <<resolver, m_reader, m_in>>

\* The next block is read and sent.
ReadBlock ==
    /\ ExpectedAck
    /\ ~m_last_packet_sent
    /\ AcceptServer(m_in.src)
    /\ m_reader # "failed"
    /\ pos' = pos + 1
    /\ m_last_sent_packet_id' = NextBlock(m_last_sent_packet_id)
    /\ m_last_packet_sent' = (SizeOf(pos + 1) < DEFAULT_DATA_SIZE)
    /\ send_packet(DataPacket(NextBlock(m_last_sent_packet_id), pos + 1, SizeOf(pos + 1)),
                   TRUE, DEFAULT_RETRY_COUNTER, m_server_endpoint', take_received(io))
    /\ UNCHANGED <<resolver, m_reader, m_in>>

\* Mutant: the read failed and the server is not told.
ReadFailsSilently ==
    /\ ExpectedAck
    /\ ~m_last_packet_sent
    /\ AcceptServer(m_in.src)
    /\ m_reader' = "failed"
    /\ m_last_sent_packet_id' = NextBlock(m_last_sent_packet_id)
    /\ io' = cancel_timer(take_received(io))
    /\ UNCHANGED <<resolver, pos, m_last_packet_sent, sendVars, m_in, net>>

\* The read fails: the number is used up, an ERROR goes out.
ReadFails ==
    /\ ExpectedAck
    /\ ~m_last_packet_sent
    /\ AcceptServer(m_in.src)
    /\ m_reader' = "failed"
    /\ m_last_sent_packet_id' = NextBlock(m_last_sent_packet_id)
    /\ send_packet(ErrorPacket(ERRCODE_UNDEFINED), FALSE, 0, m_server_endpoint',
                   take_received(io))
    /\ UNCHANGED <<resolver, pos, m_last_packet_sent, m_in>>

process_error_received ==
    /\ io.received # << >>
    /\ Received.op = "ERROR"
    /\ terminate(take_received(io))
    /\ UNCHANGED <<resolver, readerVars, sendVars, m_in, net>>

\* Any other packet is dropped, and with it the receive operation it used up.
PacketIgnored ==
    /\ io.received # << >>
    /\ Received.op # "ERROR"
    /\ ~ExpectedAck
    /\ io' = take_received(io)
    /\ UNCHANGED <<resolver, readerVars, sendVars, m_in, net>>

\* The io_context runs the handler of some completion.
RunHandler ==
    \/ on_resolve_query
    \/ AwaitResponse \/ FinishSending \/ SendFailed \/ on_send_timeout
    \/ ReceiveFailed \/ LastAcknowledged \/ ReadBlock \/ ReadFails
    \/ process_error_received \/ PacketIgnored
-----------------------------------------------------------------------------
\* The kernel's part.

TimerExpires ==
    /\ io.waiting
    /\ io' = expire(io)
    /\ UNCHANGED <<resolver, readerVars, sendVars, m_in, net>>

\* Datagram d completes a pending receive: its bytes and its source go to the
\* members every receive of this client shares.
Receive(d) ==
    /\ io.receives > 0
    /\ Len(io.received) < MaxBurst
    /\ io' = complete_receive(io, d.pkt.len)
    /\ m_in' = [src |-> d.src, pkt |-> d.pkt]
    /\ UNCHANGED <<resolver, readerVars, sendVars, net>>

ReceiveBreaks ==
    /\ io.receives > 0
    /\ io' = break_receive(io)
    /\ UNCHANGED <<resolver, readerVars, sendVars, m_in, net>>

Kernel == TimerExpires \/ ReceiveBreaks

Next == Start \/ RunHandler \/ Kernel
        \/ \E d \in Arrivals : Receive(d)

Spec == Init /\ [][Next]_vars

\* The io_context runs every handler that is ready, and time passes.
FairSpec == Spec /\ WF_vars(RunHandler) /\ WF_vars(TimerExpires)
-----------------------------------------------------------------------------
\* A client whose request went out is never stuck with an open socket and
\* nothing to run: a completion is queued or the timer waits.
NeverAbandoned == resolver = "done" /\ io.open => Driven(io)

\* No packet is handed to the network more often than DEFAULT_RETRY_COUNTER
\* allows.  Here a timeout of the packet before is the normal case: nothing
\* cancels the timer between the arrival of an ACK and the next block.
RetryBudget == tries <= DEFAULT_RETRY_COUNTER

\* Every DATA packet on the wire carries a block of the file under that
\* block's own number modulo 2^16, only the file's last block is short, and
\* nothing is read past it.
WireMatchesFile ==
    /\ pos <= Blocks
    /\ \A d \in net : d.pkt.op = "DATA" =>
          /\ d.pkt.data \in 1 .. pos
          /\ d.pkt.num = d.pkt.data % BlockModulus
          /\ DataSize(d.pkt) = SizeOf(d.pkt.data)

\* All of the file goes to one endpoint, the one that answered first, although
\* any source may answer the request, and every packet is sent again to
\* whatever m_server_endpoint is by then.
OneServer ==
    \A d \in net : d.pkt.op = "DATA" => d.dst = m_server_endpoint

\* An upload ends, whatever arrives or is lost: every handler has run, and the
\* socket is closed unless the server's name could not be resolved.
Released == <>[](Quiet(io) /\ (resolver = "failed" \/ ~io.open))
=============================================================================
