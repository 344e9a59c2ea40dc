------------------------------ MODULE Download ------------------------------
(***************************************************************************)
(* A download: a client_get, the read_connection its request makes, and    *)
(* the network between them.  A datagram that was sent stays in net, so it *)
(* may arrive late, several times, out of order, or never.                 *)
(*                                                                         *)
(* A request that arrives twice makes two connections with one file.  The  *)
(* client keeps to the one whose block 1 it handles first; call it Conn.   *)
(* The packets of the other, Other, are ignored from then on, and matter   *)
(* in that each of them uses up a receive operation; until then its ERROR  *)
(* may end the client.                                                     *)
(*                                                                         *)
(* The file has fewer blocks than there are block numbers: the network     *)
(* keeps datagrams for ever, and a block as old as the wrap would be taken *)
(* for a new one.                                                          *)
(***************************************************************************)
EXTENDS ClientGet, StoredBlocks

CONSTANTS
    Conn,        \* endpoint of the connection the client keeps to
    Other,       \* endpoint of the connection a repeated request makes
    Blocks,      \* DATA packets the file makes: the last one is short
    LastSize,    \* bytes in the last block
    MaxTimeouts  \* bound: timers that expire, on both sides together

ASSUME DownloadAssumption ==
    /\ Self \notin Peers \cup {Server}
    /\ Conn \in Peers /\ Other \in Peers \ {Conn}
    /\ Blocks \in 1 .. BlockModulus - 1
    /\ LastSize \in 0 .. DEFAULT_DATA_SIZE - 1
    /\ MaxTimeouts \in Nat

\* The variables of ClientGet are those of the client; the connection's have
\* the names of ReadConnection with an s in front.
VARIABLES
    s_registered, s_reader, s_pos, s_last_packet_sent, s_last_sent_packet_id,
    s_response_expected, s_retry_counter, s_out, s_in, s_io, s_tries,
    timeouts     \* history: timers that expired

clientVars == <<resolver, writerVars, sendVars, m_in, io>>
connVars == <<s_registered, s_reader, s_pos, s_last_packet_sent,
              s_last_sent_packet_id, s_response_expected, s_retry_counter,
              s_out, s_in, s_io, s_tries>>
downloadVars == <<clientVars, connVars, net, timeouts>>

S == INSTANCE ReadConnection WITH
        Self <- Conn, Client <- Self,
        registered <- s_registered, m_reader <- s_reader, pos <- s_pos,
        m_last_packet_sent <- s_last_packet_sent,
        m_last_sent_packet_id <- s_last_sent_packet_id,
        m_response_expected <- s_response_expected,
        m_retry_counter <- s_retry_counter,
        m_out <- s_out, m_in <- s_in, io <- s_io, tries <- s_tries

DownloadInit ==
    /\ Init
    /\ S!Init
    /\ timeouts = 0

\* A request is on the wire: the acceptor may receive it, any number of times.
Requested == \E d \in net : d.dst = Server /\ d.pkt.op = "RRQ"

\* The client starts, runs a handler, or its kernel fails a receive.
ClientSteps ==
    /\ Start \/ RunHandler \/ ReceiveBreaks
    /\ UNCHANGED <<connVars, timeouts>>

ConnectionSteps ==
    /\ S!RunHandler \/ S!ReceiveBreaks
    /\ UNCHANGED <<clientVars, timeouts>>

\* A second passes on either side without an answer.
Timeout ==
    /\ timeouts < MaxTimeouts
    /\ timeouts' = timeouts + 1
    /\ \/ TimerExpires /\ UNCHANGED connVars
       \/ S!TimerExpires /\ UNCHANGED clientVars

\* The acceptor received the request and connection_created starts Conn.
ConnectionStarts ==
    /\ Requested
    /\ S!Start
    /\ UNCHANGED <<clientVars, timeouts>>

ClientReceives ==
    /\ \E d \in net : d.dst = Self /\ Receive(d)
    /\ UNCHANGED <<connVars, timeouts>>

ConnectionReceives ==
    /\ \E d \in net : d.dst = Conn /\ S!Receive(d)
    /\ UNCHANGED <<clientVars, timeouts>>

\* A packet of the other connection reaches the client.
ClientReceivesOther ==
    /\ Requested
    /\ \/ /\ m_request_complete
          /\ Receive([src |-> Other, pkt |-> DataPacket(1, 1, S!SizeOf(1))])
       \/ Receive([src |-> Other, pkt |-> ErrorPacket(ERRCODE_FILE_NOT_FOUND)])
    /\ UNCHANGED <<connVars, timeouts>>

DownloadNext ==
    \/ ClientSteps \/ ConnectionSteps \/ Timeout
    \/ ConnectionStarts
    \/ ClientReceives \/ ConnectionReceives \/ ClientReceivesOther

DownloadSpec == DownloadInit /\ [][DownloadNext]_downloadVars
-----------------------------------------------------------------------------
\* The blocks of the client's file that were written whole.
stored == WholeBlocks(file)

T == INSTANCE Transfer WITH sent <- s_pos

\* The download implements Transfer: although the network loses, repeats and
\* reorders, although both sides retransmit and time out at any moment,
\* although several datagrams may be received before a handler runs, and
\* although either side may fail half-way, the client stores the server's
\* blocks in order, each once, and the server is never more than one ahead.
ImplementsTransfer == T!Spec

\* When the client sends an ACK and expects no more, it has every block of the
\* file: no repeated, late or foreign packet makes it believe in an earlier
\* end.  The one thing that does is a block that a burst cut short.
EndsWithTheFile ==
    m_out.op = "ACK" /\ ~m_response_expected =>
        Len(stored) = Blocks \/ stored[Len(stored)] = Garbled

\* Whatever the client has stored as a block of the file is that block.  The
\* code does not keep this: with several receives completed before a handler
\* runs, the bytes of one datagram are parsed with the size of another.
StoredIsTheFile == \A i \in DOMAIN stored : stored[i] = i
=============================================================================
