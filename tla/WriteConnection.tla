--------------------------- MODULE WriteConnection ---------------------------
(***************************************************************************)
(* src/src/server/write_connection.hpp: the server's side of an upload.    *)
(* A connection acknowledges the request with block 0, then writes every   *)
(* block that carries the next expected number and acknowledges it; a      *)
(* block that is not full is the last one.                                 *)
(*                                                                         *)
(* The class has the plumbing of ReadConnection: one action per handler,   *)
(* run to its end by the single thread of the io_context; the kernel acts  *)
(* in between; all receive operations share m_in.                          *)
(***************************************************************************)
EXTENDS Tftp, AsioEndpoint

CONSTANTS
    Self,      \* endpoint of m_connection_socket
    Client,    \* m_client_endpoint
    MaxStored, \* bound: blocks written when the last new DATA packet may arrive:
               \* the file of a client that keeps to the protocol is finite
    MaxBurst,  \* bound: receives completed before one of their handlers runs
    Arrivals   \* datagrams, [src, pkt], that anyone may send to Self

ASSUME WriteConnectionAssumption ==
    /\ MaxStored \in Nat
    /\ MaxBurst \in Nat \ {0}
    /\ \A d \in Arrivals : d.pkt \in Packet

VARIABLES
    registered,              \* server::m_connections holds this connection
    m_writer,                \* m_writer: what create_writer returned, then
                             \* "failed" once a write has failed
    file,                    \* the blocks written: number, payload and bytes as
                             \* the parser gave them to the writer, and whether
                             \* the write took them all
    m_next_expected_packet_id,
    m_response_expected,
    m_retry_counter,
    m_out,                   \* m_out_packet_data, as a packet
    m_in,                    \* m_in_packet_data and m_in_packet_endpoint
    io,                      \* m_connection_socket and m_send_timeout_timer
    net,                     \* datagrams this connection put on the wire
    tries                    \* history: how often m_out was handed to ASIO

writerVars == <<m_writer, file, m_next_expected_packet_id>>
sendVars == <<m_response_expected, m_retry_counter, m_out, tries>>
vars == <<registered, writerVars, sendVars, m_in, io, net>>

Datagram == [src : {Self}, dst : {Client}, pkt : Packet]
Block == [num : Nat, data : Int \cup {Garbled}, size : Int, whole : BOOLEAN]

TypeOK ==
    /\ registered \in BOOLEAN
    /\ m_writer \in {"unset", "null", "closed", "open", "failed"}
    /\ file \in Seq(Block)
    /\ m_next_expected_packet_id \in 0 .. BlockModulus - 1
    /\ m_response_expected \in BOOLEAN
    /\ m_retry_counter \in Int
    /\ m_out \in Packet
    /\ m_in.pkt \in Packet
    /\ io \in Endpoint
    /\ net \subseteq Datagram
    /\ tries \in Nat

Init ==
    /\ registered = FALSE
    /\ m_writer = "unset"
    /\ file = << >>
    /\ m_next_expected_packet_id = 0
    /\ m_response_expected = FALSE
    /\ m_retry_counter = 0
    /\ m_out = InvalidPacket
    /\ m_in = [src |-> Self, pkt |-> InvalidPacket]
    /\ io = Unopened
    /\ net = {}
    /\ tries = 0
-----------------------------------------------------------------------------
\* The steps handlers are made of.  "s" is the endpoint as the handler has
\* left it so far.

send_prepared_packet(p, s) ==
    \E accepted \in BOOLEAN :
        /\ io' = async_send_to(s, accepted)
        /\ net' = IF s.open /\ accepted
                  THEN net \cup {[src |-> Self, dst |-> Client, pkt |-> p]}
                  ELSE net

send_packet(p, response_expected, retry_counter, s) ==
    /\ m_out' = p
    /\ m_response_expected' = response_expected
    /\ m_retry_counter' = retry_counter
    /\ tries' = 1
    /\ send_prepared_packet(p, s)

send_ack(block_no, is_last, s) ==
    /\ m_next_expected_packet_id' = NextBlock(block_no)
    /\ send_packet(AckPacket(block_no), ~is_last, DEFAULT_RETRY_COUNTER, s)

\* Mutant: the connection is dropped from the set but not stopped.
terminate_without_close(s) ==
    /\ io' = cancel_timer(s)
    /\ registered' = FALSE

\* connection_terminated: stop() the connection, drop it from the server's set.
terminate(s) ==
    /\ io' = cancel_timer(close_socket(s))
    /\ registered' = FALSE

BlockOf(p, whole) ==
    [num |-> p.num, data |-> p.data, size |-> DataSize(p), whole |-> whole]

\* The write succeeds; a block of no bytes is not written but counts as one.
Store(p) ==
    /\ file' = Append(file, BlockOf(p, TRUE))
    /\ UNCHANGED m_writer

\* The write fails, with none or only some of the block's bytes in the file.
\* A later write may succeed.
StoreFails(p) ==
    /\ DataSize(p) > 0
    /\ m_writer' = "failed"
    /\ file' \in {file, Append(file, BlockOf(p, FALSE))}
-----------------------------------------------------------------------------
\* connection_created, start and send_first_packet.
Start ==
    /\ m_writer = "unset"
    /\ registered' = TRUE
    /\ \/ /\ m_writer' = "open"
          /\ send_ack(0, FALSE, open_socket(io))
       \/ \E w \in {"null", "closed"} :
            /\ m_writer' = w
            /\ send_packet(ErrorPacket(IF w = "null" THEN ERRCODE_ACCESS_VIOLATION
                                                     ELSE ERRCODE_FILE_NOT_FOUND),
                           FALSE, 0, open_socket(io))
            /\ UNCHANGED m_next_expected_packet_id
    /\ UNCHANGED <<file, m_in>>

\* on_packet_sent after a packet that expects a response.
AwaitResponse ==
    /\ io.sent > 0
    /\ m_response_expected
    /\ io' = async_receive_from(restart_timer(take_sent(io)))
    /\ UNCHANGED <<registered, writerVars, sendVars, m_in, net>>

\* on_packet_sent after a packet that expects none.
FinishSending ==
    /\ io.sent > 0
    /\ ~m_response_expected
    /\ terminate(take_sent(io))
    /\ UNCHANGED <<writerVars, sendVars, m_in, net>>

\* Mutant: a failed send is only logged.
SendFailureLogged ==
    /\ io.failed > 0
    /\ io' = take_failed(io)
    /\ UNCHANGED <<registered, writerVars, sendVars, m_in, net>>

SendFailed ==
    /\ io.failed > 0
    /\ terminate(take_failed(io))
    /\ UNCHANGED <<writerVars, sendVars, m_in, net>>

\* Mutant: the counter is decremented after the comparison.
on_send_timeout_post_decrement ==
    /\ io.expired > 0
    /\ m_retry_counter' = m_retry_counter - 1
    /\ \/ /\ m_retry_counter > 0
          /\ tries' = tries + 1
          /\ send_prepared_packet(m_out, take_expired(io))
          /\ UNCHANGED registered
       \/ /\ m_retry_counter <= 0
          /\ terminate(take_expired(io))
          /\ UNCHANGED <<tries, net>>
    /\ UNCHANGED <<writerVars, m_response_expected, m_out, m_in>>

on_send_timeout ==
    /\ io.expired > 0
    /\ m_retry_counter' = m_retry_counter - 1
    /\ \/ /\ m_retry_counter' > 0
          /\ tries' = tries + 1
          /\ send_prepared_packet(m_out, take_expired(io))
          /\ UNCHANGED registered
       \/ /\ m_retry_counter' <= 0
          /\ terminate(take_expired(io))
          /\ UNCHANGED <<tries, net>>
    /\ UNCHANGED <<writerVars, m_response_expected, m_out, m_in>>

ReceiveFailed ==
    /\ io.broken > 0
    /\ terminate(take_broken(io))
    /\ UNCHANGED <<writerVars, sendVars, m_in, net>>

\* The packet on_packet_received finds in the shared buffer: an InvalidPacket
\* when it must not look at it.
Received ==
    IF m_in.src = Client THEN parse_packet(m_in.pkt, Head(io.received))
                         ELSE InvalidPacket

\* Mutant: a block that was already stored is taken for the next one.
ExpectedDataOrOlder ==
    /\ io.received # << >>
    /\ Received.op = "DATA"
    /\ Received.num <= m_next_expected_packet_id

\* process_data_received does not return at its check of the block number.
ExpectedData ==
    /\ io.received # << >>
    /\ Received.op = "DATA"
    /\ Received.num = m_next_expected_packet_id

\* Mutant: the result of the write is not looked at.
StoreAndAckUnchecked ==
    /\ ExpectedData
    /\ Store(Received) \/ StoreFails(Received)
    /\ send_ack(Received.num, DataSize(Received) # DEFAULT_DATA_SIZE,
                cancel_timer(take_received(io)))
    /\ UNCHANGED <<registered, m_in>>

\* process_data_received, block stored.
StoreAndAck ==
    /\ ExpectedData
    /\ Store(Received)
    /\ send_ack(Received.num, DataSize(Received) # DEFAULT_DATA_SIZE,
                cancel_timer(take_received(io)))
    /\ UNCHANGED <<registered, m_in>>

\* Mutant: the failed write is not reported to the client.
RefuseDataSilently ==
    /\ ExpectedData
    /\ StoreFails(Received)
    /\ io' = cancel_timer(take_received(io))
    /\ UNCHANGED <<registered, m_next_expected_packet_id, sendVars, m_in, net>>

\* process_data_received, write failed.
RefuseData ==
    /\ ExpectedData
    /\ StoreFails(Received)
    /\ send_packet(ErrorPacket(ERRCODE_DISK_FULL), FALSE, 0,
                   cancel_timer(take_received(io)))
    /\ UNCHANGED <<registered, m_next_expected_packet_id, m_in>>

process_error_received ==
    /\ io.received # << >>
    /\ Received.op = "ERROR"
    /\ terminate(take_received(io))
    /\ UNCHANGED <<writerVars, sendVars, m_in, net>>

\* Any other packet is dropped, and with it the receive operation it used up.
PacketIgnored ==
    /\ io.received # << >>
    /\ Received.op # "ERROR"
    /\ ~ExpectedData
    /\ io' = take_received(io)
    /\ UNCHANGED <<registered, writerVars, sendVars, m_in, net>>

\* The io_context runs the handler of some completion.
RunHandler ==
    \/ AwaitResponse \/ FinishSending \/ SendFailed \/ on_send_timeout
    \/ ReceiveFailed \/ StoreAndAck \/ RefuseData \/ process_error_received
    \/ PacketIgnored
-----------------------------------------------------------------------------
\* The kernel's part.

TimerExpires ==
    /\ io.waiting
    /\ io' = expire(io)
    /\ UNCHANGED <<registered, writerVars, sendVars, m_in, net>>

\* Datagram d completes a pending receive: its bytes and its source go to the
\* members every receive of this connection shares.  Only a block that would
\* be written is ever held back, by the bound.
Receive(d) ==
    /\ io.receives > 0
    /\ Len(io.received) < MaxBurst
    /\ d.pkt.op = "DATA" /\ d.pkt.num = m_next_expected_packet_id =>
          Len(file) < MaxStored
    /\ io' = complete_receive(io, d.pkt.len)
    /\ m_in' = [src |-> d.src, pkt |-> d.pkt]
    /\ UNCHANGED <<registered, writerVars, sendVars, net>>

ReceiveBreaks ==
    /\ io.receives > 0
    /\ io' = break_receive(io)
    /\ UNCHANGED <<registered, writerVars, sendVars, m_in, net>>

Kernel == TimerExpires \/ ReceiveBreaks

Next == Start \/ RunHandler \/ Kernel
        \/ \E d \in Arrivals : Receive(d)

Spec == Init /\ [][Next]_vars

\* The io_context runs every handler that is ready, and time passes.
FairSpec == Spec /\ WF_vars(RunHandler) /\ WF_vars(TimerExpires)
-----------------------------------------------------------------------------
\* A connection the server still holds is never abandoned: its socket is open
\* and a completion is queued or the retransmission timer runs, so whatever
\* the client does some handler will act on the connection again.
NeverAbandoned == registered => io.open /\ Driven(io)

\* No packet is handed to the network more often than DEFAULT_RETRY_COUNTER
\* allows, even when a timeout already queued is handled after the DATA packet
\* that should have cancelled it, and reset the counter.
RetryBudget == tries <= DEFAULT_RETRY_COUNTER

\* The number that must follow the first i blocks of the file: a block that
\* was written only in part is owed again.
NumberAfter(i) ==
    IF i = 0 THEN NextBlock(0)
    ELSE IF file[i].whole THEN NextBlock(file[i].num)
    ELSE file[i].num

\* The file holds the blocks in order, each exactly once, whatever the client
\* repeats, skips or sends after its last block, and although block numbers
\* wrap.  After a write that failed, when a repeated DATA packet on another
\* pending receive makes the connection write again, what it writes is the
\* block that failed and no other.
InOrderOnce ==
    /\ \A i \in DOMAIN file : file[i].num = NumberAfter(i - 1)
    /\ m_writer # "failed" =>
          \A i \in DOMAIN file : file[i].num = i % BlockModulus

\* The ACK this connection sends, and sends again at every timeout, is that of
\* the block written last, and the write took all of the payload it was given;
\* only before the first block is it the request's ACK of 0.  A write that
\* failed, or a block that was dropped, is never acknowledged, nor are numbers
\* that wrapped a way to acknowledge a block of an earlier lap again.  Which
\* bytes the payload is, is another matter: in a burst the parser may cut or
\* lengthen it (StoredIsTheFile of Download).
AckedIsWritten ==
    m_out.op = "ACK" =>
        IF file = << >> THEN m_out.num = 0
        ELSE file[Len(file)].whole /\ file[Len(file)].num = m_out.num

\* The life the server counts on: started once, and after connection_terminated
\* the handlers still queued (a retransmission's completion, an expired timer,
\* a second receive) put nothing on the wire and never bring it back.
Phase ==
    IF m_writer = "unset" THEN "new"
    ELSE IF registered THEN "serving"
    ELSE IF Quiet(io) THEN "released"
    ELSE "ending"

Life == INSTANCE Connection WITH phase <- Phase

ImplementsConnection == Life!Spec

\* Once the client has no new block to send, whatever else arrives or is lost,
\* a connection ends: it leaves m_connections and its last handler runs, which
\* drops the last reference to it.  (A client that sends full blocks for ever
\* keeps its connection for ever: their numbers wrap.)
Released ==
    <>[][UNCHANGED file]_vars => <>[](~registered /\ Quiet(io))
=============================================================================
