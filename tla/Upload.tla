------------------------------- MODULE Upload -------------------------------
(***************************************************************************)
(* An upload: a client_put, the write_connection its request makes, and    *)
(* the network between them, as in Download.  The client keeps to the      *)
(* connection whose ACK of block 0 it handles first; call it Conn.  The    *)
(* packets of the other, Other, only use up receive operations, or end the *)
(* client; but when it opens the file, it truncates what Conn has written. *)
(***************************************************************************)
EXTENDS ClientPut, StoredBlocks

CONSTANTS
    Conn,        \* endpoint of the connection the client keeps to
    Other,       \* endpoint of the connection a repeated request makes
    MaxStored,   \* bound: blocks written when the last new DATA packet may arrive
    MaxTimeouts  \* bound: timers that expire, on both sides together

ASSUME UploadAssumption ==
    /\ Self \notin Peers \cup {Server}
    /\ Conn \in Peers /\ Other \in Peers \ {Conn}
    /\ Blocks \in 1 .. BlockModulus - 1
    /\ MaxTimeouts \in Nat

\* The variables of ClientPut are those of the client; the connection's have
\* the names of WriteConnection with an s in front, but for its file.
VARIABLES
    s_registered, s_writer, file, s_next_expected_packet_id,
    s_response_expected, s_retry_counter, s_out, s_in, s_io, s_tries,
    erased,      \* how many of the blocks written Other has truncated away
    success,     \* history: the client ended because its last block was acknowledged
    timeouts     \* history: timers that expired

clientVars == <<resolver, readerVars, sendVars, m_in, io, success>>
connVars == <<s_registered, s_writer, file, s_next_expected_packet_id,
              s_response_expected, s_retry_counter, s_out, s_in, s_io, s_tries>>
uploadVars == <<clientVars, connVars, erased, net, timeouts>>

S == INSTANCE WriteConnection WITH
        Self <- Conn, Client <- Self,
        registered <- s_registered, m_writer <- s_writer,
        m_next_expected_packet_id <- s_next_expected_packet_id,
        m_response_expected <- s_response_expected,
        m_retry_counter <- s_retry_counter,
        m_out <- s_out, m_in <- s_in, io <- s_io, tries <- s_tries

UploadInit ==
    /\ Init
    /\ S!Init
    /\ erased = 0
    /\ success = FALSE
    /\ timeouts = 0

\* A request is on the wire: the acceptor may receive it, any number of times.
Requested == \E d \in net : d.dst = Server /\ d.pkt.op = "WRQ"

\* The client starts, runs a handler, or its kernel fails a receive.
ClientSteps ==
    /\ Start \/ RunHandler \/ ReceiveBreaks
    /\ success' = (success \/ LastAcknowledged)
    /\ UNCHANGED <<connVars, erased, timeouts>>

ConnectionSteps ==
    /\ S!RunHandler \/ S!ReceiveBreaks
    /\ UNCHANGED <<clientVars, erased, timeouts>>

\* A second passes on either side without an answer.
Timeout ==
    /\ timeouts < MaxTimeouts
    /\ timeouts' = timeouts + 1
    /\ \/ TimerExpires /\ UNCHANGED <<connVars, success>>
       \/ S!TimerExpires /\ UNCHANGED clientVars
    /\ UNCHANGED erased

\* The acceptor received the request and connection_created starts Conn.
ConnectionStarts ==
    /\ Requested
    /\ S!Start
    /\ UNCHANGED <<clientVars, erased, timeouts>>

ClientReceives ==
    /\ \E d \in net : d.dst = Self /\ Receive(d)
    /\ UNCHANGED <<connVars, success, erased, timeouts>>

ConnectionReceives ==
    /\ \E d \in net : d.dst = Conn /\ S!Receive(d)
    /\ UNCHANGED <<clientVars, erased, timeouts>>

\* The acceptor received the request once more: Other opens the file for
\* writing, as Conn did, and what had reached it by then is gone.  The blocks
\* Conn's stdio buffer still holds follow later, at their place in the file.
OtherOpens ==
    /\ Requested
    /\ erased' \in erased .. Len(file)
    /\ UNCHANGED <<clientVars, connVars, net, timeouts>>

\* A packet of the other connection reaches the client.
ClientReceivesOther ==
    /\ Requested
    /\ \/ m_request_complete /\ Receive([src |-> Other, pkt |-> AckPacket(0)])
       \/ Receive([src |-> Other, pkt |-> ErrorPacket(ERRCODE_ACCESS_VIOLATION)])
    /\ UNCHANGED <<connVars, success, erased, timeouts>>

UploadNext ==
    \/ ClientSteps \/ ConnectionSteps \/ Timeout
    \/ ConnectionStarts \/ OtherOpens
    \/ ClientReceives \/ ConnectionReceives \/ ClientReceivesOther

UploadSpec == UploadInit /\ [][UploadNext]_uploadVars
-----------------------------------------------------------------------------
\* The blocks that were written whole, and those the server's file still has.
written == WholeBlocks(file)
stored == WholeBlocks(SubSeq(file, erased + 1, Len(file)))

T == INSTANCE Transfer WITH sent <- pos, stored <- written

\* The upload implements Transfer: although the network loses, repeats and
\* reorders, although both sides retransmit and time out at any moment,
\* although several datagrams may be received before a handler runs, and
\* although either side may fail half-way, the server writes the client's
\* blocks in order, each once, and the client is never more than one ahead.
ImplementsTransfer == T!Spec

\* A client that ends because its last block was acknowledged is right to, as
\* far as its connection goes: it has written a block for each of the file's.
\* (The client can be wrong the other way: the last ACK may be lost.)
SuccessIsEarned == success => Len(written) = Blocks

\* The server's file then has all of them.  The code does not keep this: a
\* second connection for the same request truncates the file.
SuccessIsStored == success => Len(stored) = Blocks
=============================================================================
