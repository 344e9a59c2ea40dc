--------------------------- MODULE ReadConnection ---------------------------
(***************************************************************************)
(* src/src/server/read_connection.hpp: the server's side of a download.    *)
(* A connection reads its file block by block, sends a block, and reads    *)
(* the next one when the client acknowledges the block it sent last.       *)
(*                                                                         *)
(* Each handler of the class is one action, run to its end by the single   *)
(* thread of the io_context.  What runs between handlers is the kernel:    *)
(* the timer expires, a datagram completes a pending receive, a receive    *)
(* fails.  Every receive operation shares m_in_packet_data and             *)
(* m_in_packet_endpoint (m_in here), and a connection has one receive      *)
(* pending per packet it sent or retransmitted, so a second datagram may   *)
(* overwrite the first before the handler of the first runs.               *)
(***************************************************************************)
EXTENDS Tftp, AsioEndpoint

CONSTANTS
    Self,      \* endpoint of m_connection_socket
    Client,    \* m_client_endpoint
    Blocks,    \* DATA packets the file makes: the last one is short
    LastSize,  \* bytes in the last block
    MaxBurst,  \* bound: receives completed before one of their handlers runs
    Arrivals   \* datagrams, [src, pkt], that anyone may send to Self

ASSUME ReadConnectionAssumption ==
    /\ Blocks \in Nat \ {0}
    /\ LastSize \in 0 .. DEFAULT_DATA_SIZE - 1
    /\ MaxBurst \in Nat \ {0}
    /\ \A d \in Arrivals : d.pkt \in Packet

VARIABLES
    registered,              \* server::m_connections holds this connection
    m_reader,                \* m_reader: what create_reader returned, then
                             \* "failed" once ferror is set, which is sticky
    pos,                     \* blocks read from the file
    m_last_packet_sent,
    m_last_sent_packet_id,
    m_response_expected,
    m_retry_counter,
    m_out,                   \* m_out_packet_data, as a packet
    m_in,                    \* m_in_packet_data and m_in_packet_endpoint
    io,                      \* m_connection_socket and m_send_timeout_timer
    net,                     \* datagrams this connection put on the wire
    tries                    \* history: how often m_out was handed to ASIO

readerVars == <<m_reader, pos, m_last_packet_sent, m_last_sent_packet_id>>
sendVars == <<m_response_expected, m_retry_counter, m_out, tries>>
vars == <<registered, readerVars, sendVars, m_in, io, net>>

Datagram == [src : {Self}, dst : {Client}, pkt : Packet]

TypeOK ==
    /\ registered \in BOOLEAN
    /\ m_reader \in {"unset", "null", "closed", "open", "failed"}
    /\ pos \in Nat
    /\ m_last_packet_sent \in BOOLEAN
    /\ m_last_sent_packet_id \in 0 .. BlockModulus - 1
    /\ m_response_expected \in BOOLEAN
    /\ m_retry_counter \in Int
    /\ m_out \in Packet
    /\ m_in.pkt \in Packet
    /\ io \in Endpoint
    /\ net \subseteq Datagram
    /\ tries \in Nat

Init ==
    /\ registered = FALSE
    /\ m_reader = "unset"
    /\ pos = 0
    /\ m_last_packet_sent = FALSE
    /\ m_last_sent_packet_id = 0
    /\ m_response_expected = FALSE
    /\ m_retry_counter = 0
    /\ m_out = InvalidPacket
    /\ m_in = [src |-> Self, pkt |-> InvalidPacket]
    /\ io = Unopened
    /\ net = {}
    /\ tries = 0
-----------------------------------------------------------------------------
\* The steps handlers are made of.  "s" is the endpoint as the handler has
\* left it so far.

send_prepared_packet(p, s) ==
    \E accepted \in BOOLEAN :
        /\ io' = async_send_to(s, accepted)
        /\ net' = IF s.open /\ accepted
                  THEN net \cup {[src |-> Self, dst |-> Client, pkt |-> p]}
                  ELSE net

send_packet(p, response_expected, retry_counter, s) ==
    /\ m_out' = p
    /\ m_response_expected' = response_expected
    /\ m_retry_counter' = retry_counter
    /\ tries' = 1
    /\ send_prepared_packet(p, s)

\* Bytes of block k: only the last block of the file is short.
SizeOf(k) == IF k < Blocks THEN DEFAULT_DATA_SIZE
             ELSE IF k = Blocks THEN LastSize ELSE 0

\* Mutant: the end of the file is seen only when a read returns nothing.
ReadBlockEndsOnEmpty(s) ==
    /\ m_reader # "failed"
    /\ m_reader' = "open"
    /\ pos' = pos + 1
    /\ m_last_packet_sent' = (m_last_packet_sent \/ SizeOf(pos + 1) = 0)
    /\ send_packet(DataPacket(NextBlock(m_last_sent_packet_id), pos + 1, SizeOf(pos + 1)),
                   TRUE, DEFAULT_RETRY_COUNTER, s)

ReadBlock(s) ==
    /\ m_reader # "failed"
    /\ m_reader' = "open"
    /\ pos' = pos + 1
    /\ m_last_packet_sent' =
          (m_last_packet_sent \/ SizeOf(pos + 1) < DEFAULT_DATA_SIZE)
    /\ send_packet(DataPacket(NextBlock(m_last_sent_packet_id), pos + 1, SizeOf(pos + 1)),
                   TRUE, DEFAULT_RETRY_COUNTER, s)

ReadFails(s) ==
    /\ m_reader' = "failed"
    /\ UNCHANGED <<pos, m_last_packet_sent>>
    /\ send_packet(ErrorPacket(ERRCODE_FILE_NOT_FOUND), FALSE, 0, s)

send_next_data_packet(s) ==
    /\ m_last_sent_packet_id' = NextBlock(m_last_sent_packet_id)
    /\ ReadBlock(s) \/ ReadFails(s)

\* Mutant: the connection is dropped from the set but not stopped.
terminate_without_close(s) ==
    /\ io' = cancel_timer(s)
    /\ registered' = FALSE

\* connection_terminated: stop() the connection, drop it from the server's set.
terminate(s) ==
    /\ io' = cancel_timer(close_socket(s))
    /\ registered' = FALSE
-----------------------------------------------------------------------------
\* connection_created, start and send_first_packet.
Start ==
    /\ m_reader = "unset"
    /\ registered' = TRUE
    /\ \/ send_next_data_packet(open_socket(io))
       \/ \E r \in {"null", "closed"} :
            /\ m_reader' = r
            /\ send_packet(ErrorPacket(IF r = "null" THEN ERRCODE_ACCESS_VIOLATION
                                                     ELSE ERRCODE_FILE_NOT_FOUND),
                           FALSE, 0, open_socket(io))
            /\ UNCHANGED <<pos, m_last_packet_sent, m_last_sent_packet_id>>
    /\ UNCHANGED m_in

\* Mutant: the retransmission timer is not started.
AwaitResponseUntimed ==
    /\ io.sent > 0
    /\ m_response_expected
    /\ io' = async_receive_from(take_sent(io))
    /\ UNCHANGED <<registered, readerVars, sendVars, m_in, net>>

\* on_packet_sent after a packet that expects a response.
AwaitResponse ==
    /\ io.sent > 0
    /\ m_response_expected
    /\ io' = async_receive_from(restart_timer(take_sent(io)))
    /\ UNCHANGED <<registered, readerVars, sendVars, m_in, net>>

\* Mutant: the connection that has nothing more to send is not terminated.
FinishSendingSilently ==
    /\ io.sent > 0
    /\ ~m_response_expected
    /\ io' = take_sent(io)
    /\ UNCHANGED <<registered, readerVars, sendVars, m_in, net>>

\* on_packet_sent after a packet that expects none.
FinishSending ==
    /\ io.sent > 0
    /\ ~m_response_expected
    /\ terminate(take_sent(io))
    /\ UNCHANGED <<readerVars, sendVars, m_in, net>>

SendFailed ==
    /\ io.failed > 0
    /\ terminate(take_failed(io))
    /\ UNCHANGED <<readerVars, sendVars, m_in, net>>

\* Mutant: one retransmission too many.
on_send_timeout_once_more ==
    /\ io.expired > 0
    /\ m_retry_counter' = m_retry_counter - 1
    /\ \/ /\ m_retry_counter' >= 0
          /\ tries' = tries + 1
          /\ send_prepared_packet(m_out, take_expired(io))
          /\ UNCHANGED registered
       \/ /\ m_retry_counter' < 0
          /\ terminate(take_expired(io))
          /\ UNCHANGED <<tries, net>>
    /\ UNCHANGED <<readerVars, m_response_expected, m_out, m_in>>

on_send_timeout ==
    /\ io.expired > 0
    /\ m_retry_counter' = m_retry_counter - 1
    /\ \/ /\ m_retry_counter' > 0
          /\ tries' = tries + 1
          /\ send_prepared_packet(m_out, take_expired(io))
          /\ UNCHANGED registered
       \/ /\ m_retry_counter' <= 0
          /\ terminate(take_expired(io))
          /\ UNCHANGED <<tries, net>>
    /\ UNCHANGED <<readerVars, m_response_expected, m_out, m_in>>

ReceiveFailed ==
    /\ io.broken > 0
    /\ terminate(take_broken(io))
    /\ UNCHANGED <<readerVars, sendVars, m_in, net>>

\* The packet on_packet_received finds in the shared buffer: an InvalidPacket
\* when it must not look at it.
Received ==
    IF m_in.src = Client THEN parse_packet(m_in.pkt, Head(io.received))
                         ELSE InvalidPacket

\* process_ack_received for the block sent last.
AckReceived ==
    /\ io.received # << >>
    /\ Received.op = "ACK"
    /\ Received.num = m_last_sent_packet_id
    /\ LET s == cancel_timer(take_received(io)) IN
       \/ /\ m_last_packet_sent
          /\ terminate(s)
          /\ UNCHANGED <<readerVars, sendVars, net>>
       \/ /\ ~m_last_packet_sent
          /\ send_next_data_packet(s)
          /\ UNCHANGED registered
    /\ UNCHANGED m_in

process_error_received ==
    /\ io.received # << >>
    /\ Received.op = "ERROR"
    /\ terminate(take_received(io))
    /\ UNCHANGED <<readerVars, sendVars, m_in, net>>

\* Any other packet is dropped, and with it the receive operation it used up.
PacketIgnored ==
    /\ io.received # << >>
    /\ Received.op # "ERROR"
    /\ Received.op = "ACK" => Received.num # m_last_sent_packet_id
    /\ io' = take_received(io)
    /\ UNCHANGED <<registered, readerVars, sendVars, m_in, net>>

\* The io_context runs the handler of some completion.
RunHandler ==
    \/ AwaitResponse \/ FinishSending \/ SendFailed \/ on_send_timeout
    \/ ReceiveFailed \/ AckReceived \/ process_error_received \/ PacketIgnored
-----------------------------------------------------------------------------
\* The kernel's part.

TimerExpires ==
    /\ io.waiting
    /\ io' = expire(io)
    /\ UNCHANGED <<registered, readerVars, sendVars, m_in, net>>

\* Datagram d completes a pending receive: its bytes and its source go to the
\* members every receive of this connection shares.
Receive(d) ==
    /\ io.receives > 0
    /\ Len(io.received) < MaxBurst
    /\ io' = complete_receive(io, d.pkt.len)
    /\ m_in' = [src |-> d.src, pkt |-> d.pkt]
    /\ UNCHANGED <<registered, readerVars, sendVars, net>>

ReceiveBreaks ==
    /\ io.receives > 0
    /\ io' = break_receive(io)
    /\ UNCHANGED <<registered, readerVars, sendVars, m_in, net>>

Kernel == TimerExpires \/ ReceiveBreaks

Next == Start \/ RunHandler \/ Kernel
        \/ \E d \in Arrivals : Receive(d)

Spec == Init /\ [][Next]_vars

\* The io_context runs every handler that is ready, and time passes.
FairSpec == Spec /\ WF_vars(RunHandler) /\ WF_vars(TimerExpires)
-----------------------------------------------------------------------------
\* A connection the server still holds is never abandoned: its socket is open
\* and a completion is queued or the retransmission timer runs, so whatever
\* the client does some handler will act on the connection again.  A handler
\* that returned without sending, waiting or terminating would leave it in
\* m_connections for ever.
NeverAbandoned == registered => io.open /\ Driven(io)

\* No packet is handed to the network more often than DEFAULT_RETRY_COUNTER
\* allows, even when a timeout already queued is handled after the
\* acknowledgement that should have cancelled it, and reset the counter.
RetryBudget == tries <= DEFAULT_RETRY_COUNTER

\* Every DATA packet on the wire carries a block of the file under that
\* block's own number modulo 2^16, only the file's last block is short, and
\* nothing is read past it.
MatchesFile(p) ==
    p.op = "DATA" =>
        /\ p.data \in 1 .. pos
        /\ p.num = p.data % BlockModulus
        /\ DataSize(p) = SizeOf(p.data)

WireMatchesFile ==
    /\ pos <= Blocks
    /\ \A d \in net : MatchesFile(d.pkt)

\* The life the server counts on: started once, and after connection_terminated
\* the handlers still queued (a retransmission's completion, an expired timer,
\* a second receive) put nothing on the wire and never bring it back.
Phase ==
    IF m_reader = "unset" THEN "new"
    ELSE IF registered THEN "serving"
    ELSE IF Quiet(io) THEN "released"
    ELSE "ending"

Life == INSTANCE Connection WITH phase <- Phase

ImplementsConnection == Life!Spec

\* Whatever arrives or is lost, a connection ends: it leaves m_connections
\* and its last handler runs, which drops the last reference to it.
Released == <>[](~registered /\ Quiet(io))
=============================================================================
