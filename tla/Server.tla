------------------------------- MODULE Server -------------------------------
(***************************************************************************)
(* The server process: server_app.hpp runs the io_context until SIGTERM,   *)
(* server.hpp keeps the set of connections, server_acceptor.hpp receives   *)
(* the requests.  Everything runs on the one thread in io_context::run.    *)
(*                                                                         *)
(* A connection is seen through Connection.tla, which ReadConnection and   *)
(* WriteConnection implement: it serves until it calls                     *)
(* connection_terminated, and its object lives on while the io_context     *)
(* still holds handlers of it.                                             *)
(***************************************************************************)
EXTENDS AsioEndpoint, FiniteSets

CONSTANTS
    Conn,               \* bound: connection objects there may ever be
    Clients,
    AcceptorIsShared    \* whether a shared_ptr owns the acceptor: FALSE in
                        \* the code, where server keeps it in a unique_ptr

ASSUME ServerAssumption == AcceptorIsShared \in BOOLEAN

VARIABLES
    app,            \* server_app::run: "new", "running", "stopped" once it
                    \* returned EXIT_SUCCESS, "failed" once EXIT_FAILURE
    refused,        \* history: the system refused the acceptor its socket
    m_packet,       \* m_packet_buffer and m_packet_sender_endpoint
    acceptor,       \* m_server_socket
    m_connections,
    phase,          \* of every connection object: a phase of Connection, or
                    \* "stillborn" when its start() threw
    peer            \* the request each connection was made for

acceptorVars == <<m_packet, acceptor>>
vars == <<app, refused, acceptorVars, m_connections, phase, peer>>

\* What arrives on the server's port: requests, other packets, junk.
Request == [src : Clients, op : {"RRQ", "WRQ", "OTHER", "INVALID"}]
NoRequest == [src |-> "nobody", op |-> "INVALID"]

Phases == {"new", "serving", "ending", "released", "stillborn"}

TypeOK ==
    /\ app \in {"new", "running", "stopped", "failed"}
    /\ refused \in BOOLEAN
    /\ m_packet \in Request \cup {NoRequest}
    /\ acceptor \in Endpoint
    /\ m_connections \subseteq Conn
    /\ phase \in [Conn -> Phases]
    /\ peer \in [Conn -> Request \cup {NoRequest}]

Init ==
    /\ app = "new"
    /\ refused = FALSE
    /\ m_packet = NoRequest
    /\ acceptor = Unopened
    /\ m_connections = {}
    /\ phase = [c \in Conn |-> "new"]
    /\ peer = [c \in Conn |-> NoRequest]
-----------------------------------------------------------------------------
\* Mutant: the exception is not caught.
run_uncaught ==
    /\ app = "new"
    /\ \E granted \in BOOLEAN :
        /\ refused' = ~granted
        /\ app' = IF granted /\ AcceptorIsShared THEN "running" ELSE "aborted"
        /\ acceptor' = IF granted THEN async_receive_from(open_socket(acceptor))
                                  ELSE acceptor
    /\ UNCHANGED <<m_packet, m_connections, phase, peer>>

\* server_app::run, server::start and server_acceptor::start.  An exception
\* leaves run() with EXIT_FAILURE: the system refuses the socket, or
\* shared_from_this throws bad_weak_ptr since no shared_ptr owns the acceptor.
run ==
    /\ app = "new"
    /\ \E granted \in BOOLEAN :
        /\ refused' = ~granted
        /\ app' = IF granted /\ AcceptorIsShared THEN "running" ELSE "failed"
        /\ acceptor' = IF granted /\ AcceptorIsShared
                       THEN async_receive_from(open_socket(acceptor))
                       ELSE IF granted THEN open_socket(acceptor) ELSE acceptor
    /\ UNCHANGED <<m_packet, m_connections, phase, peer>>

\* SIGTERM: on_signal stops the io_context, which runs no further handler.
on_signal ==
    /\ app = "running"
    /\ app' = "stopped"
    /\ UNCHANGED <<refused, acceptorVars, m_connections, phase, peer>>

\* server::stop, for a program that embeds the server: server_app never calls
\* it.  The connections' aborted handlers do nothing; the acceptor's does not
\* look for operation_aborted.
stop ==
    /\ app = "running"
    /\ acceptor.open
    /\ phase' = [c \in Conn |-> IF c \in m_connections /\ phase[c] = "serving"
                                THEN "ending" ELSE phase[c]]
    /\ acceptor' = [close_socket(acceptor) EXCEPT !.broken = @ + acceptor.receives]
    /\ UNCHANGED <<app, refused, m_packet, m_connections, peer>>
-----------------------------------------------------------------------------
\* server_acceptor::on_packet_received.  Every branch ends in request_receive.

\* connection_created: insert, then start().  start() may throw, when it cannot
\* open or bind a socket; handle_server_packet logs the exception.
connection_created(c) ==
    \E started \in BOOLEAN :
        /\ phase' = [phase EXCEPT ![c] = IF started THEN "serving" ELSE "stillborn"]
        /\ m_connections' = m_connections \cup {c}

\* Mutant: the next receive is requested only if start() did not throw.
ServeRequestUnlessItThrows(c) ==
    /\ app = "running"
    /\ acceptor.received # << >>
    /\ m_packet.op \in {"RRQ", "WRQ"}
    /\ phase[c] = "new"
    /\ connection_created(c)
    /\ peer' = [peer EXCEPT ![c] = m_packet]
    /\ acceptor' = IF phase'[c] = "serving"
                   THEN async_receive_from(take_received(acceptor))
                   ELSE take_received(acceptor)
    /\ UNCHANGED <<app, refused, m_packet>>

\* Mutant: a limit on the connections, which those that leaked use up.
ServeRequestWithinLimit(c) ==
    /\ app = "running"
    /\ acceptor.received # << >>
    /\ m_packet.op \in {"RRQ", "WRQ"}
    /\ m_connections = {}
    /\ phase[c] = "new"
    /\ connection_created(c)
    /\ peer' = [peer EXCEPT ![c] = m_packet]
    /\ acceptor' = async_receive_from(take_received(acceptor))
    /\ UNCHANGED <<app, refused, m_packet>>

\* Mutant: a connection object that has ended is started again.
ServeRequestReusing(c) ==
    /\ app = "running"
    /\ acceptor.received # << >>
    /\ m_packet.op \in {"RRQ", "WRQ"}
    /\ phase[c] \in {"new", "released"}
    /\ connection_created(c)
    /\ peer' = [peer EXCEPT ![c] = m_packet]
    /\ acceptor' = async_receive_from(take_received(acceptor))
    /\ UNCHANGED <<app, refused, m_packet>>

\* handle_rrq_packet and handle_wrq_packet make a connection for each request.
ServeRequest(c) ==
    /\ app = "running"
    /\ acceptor.received # << >>
    /\ m_packet.op \in {"RRQ", "WRQ"}
    /\ phase[c] = "new"
    /\ connection_created(c)
    /\ peer' = [peer EXCEPT ![c] = m_packet]
    /\ acceptor' = async_receive_from(take_received(acceptor))
    /\ UNCHANGED <<app, refused, m_packet>>

\* Empty, unparsable and unsupported packets are logged.
IgnorePacket ==
    /\ app = "running"
    /\ acceptor.received # << >>
    /\ m_packet.op \notin {"RRQ", "WRQ"}
    /\ acceptor' = async_receive_from(take_received(acceptor))
    /\ UNCHANGED <<app, refused, m_packet, m_connections, phase, peer>>

\* An error is logged and the socket read again, also when it is closed.
ReceiveFailed ==
    /\ app = "running"
    /\ acceptor.broken > 0
    /\ acceptor' = async_receive_from(take_broken(acceptor))
    /\ UNCHANGED <<app, refused, m_packet, m_connections, phase, peer>>

AcceptorHandler ==
    (\E c \in Conn : ServeRequest(c)) \/ IgnorePacket \/ ReceiveFailed
-----------------------------------------------------------------------------
\* The connections' handlers.

\* Mutant: a connection is removed from the set and not stopped.
connection_terminated_unstopped(c) ==
    /\ app = "running"
    /\ phase[c] \in {"serving", "ending"}
    /\ m_connections' = m_connections \ {c}
    /\ UNCHANGED <<app, refused, acceptorVars, phase, peer>>

\* A handler of connection c terminates it; a handler that was queued by then
\* may do so again, and finds it no longer registered.
connection_terminated(c) ==
    /\ app = "running"
    /\ phase[c] \in {"serving", "ending"}
    /\ phase' = [phase EXCEPT ![c] = "ending"]
    /\ m_connections' = m_connections \ {c}
    /\ UNCHANGED <<app, refused, acceptorVars, peer>>

\* The last handler of connection c is gone and with it, unless the set still
\* holds it, the object.
ConnectionReleased(c) ==
    /\ app = "running"
    /\ phase[c] = "ending"
    /\ c \notin m_connections
    /\ phase' = [phase EXCEPT ![c] = "released"]
    /\ UNCHANGED <<app, refused, acceptorVars, m_connections, peer>>
-----------------------------------------------------------------------------
\* The kernel completes the acceptor's receive operation.

Receive(r) ==
    /\ app = "running"
    /\ acceptor.receives > 0
    /\ \E c \in Conn : phase[c] = "new"
    /\ acceptor' = complete_receive(acceptor, 1)
    /\ m_packet' = r
    /\ UNCHANGED <<app, refused, m_connections, phase, peer>>

ReceiveBreaks ==
    /\ app = "running"
    /\ acceptor.receives > 0
    /\ acceptor' = break_receive(acceptor)
    /\ UNCHANGED <<app, refused, m_packet, m_connections, phase, peer>>

Next ==
    \/ run \/ on_signal \/ stop
    \/ AcceptorHandler
    \/ \E c \in Conn : connection_terminated(c) \/ ConnectionReleased(c)
    \/ \E r \in Request : Receive(r)
    \/ ReceiveBreaks

Spec == Init /\ [][Next]_vars

\* The io_context runs the acceptor's handler when it is ready.
FairSpec == Spec /\ WF_vars(AcceptorHandler)
-----------------------------------------------------------------------------
\* The running server has exactly one receive operation on its port, pending
\* or with its handler queued.  With none it would be deaf; with two, a second
\* request would overwrite the buffer the first is about to be parsed from.
\* No branch may miss its request_receive, and none may add one: neither the
\* errors, nor the exception start() throws, nor stop().
AcceptorListens ==
    app = "running" =>
        acceptor.receives + Len(acceptor.received) + acceptor.broken = 1

\* Until stop(), every connection that serves is in m_connections, where
\* server::stop reaches it, and every other connection is not, so that its
\* object is destroyed with its last handler.  The exception is a connection
\* whose start() threw: connection_created inserts it first, the catch in
\* handle_server_packet does not undo that, and nothing removes it any more.
SetIsExact ==
    acceptor.open =>
        \A c \in Conn :
            /\ phase[c] = "serving" => c \in m_connections
            /\ c \in m_connections => phase[c] \in {"serving", "stillborn"}

\* Every request that was received gets a connection of its own, whatever
\* became of the connections before it, unless the server ends first.
Served(r) == Cardinality({c \in Conn : peer[c] = r})

RequestsServed ==
    \A r \in [src : Clients, op : {"RRQ", "WRQ"}], n \in 0 .. Cardinality(Conn) - 1 :
        (acceptor.received # << >> /\ m_packet = r /\ Served(r) = n)
            ~> (Served(r) > n \/ app # "running")

\* Each connection object leads the life of Connection: started at most once,
\* and never serving again after it was stopped, by its own handlers or by
\* server::stop.
Life(c) == INSTANCE Connection
             WITH phase <- IF phase[c] = "stillborn" THEN "new" ELSE phase[c],
                  net <- {}

ConnectionsAreUsedWell ==
    [][\A c \in Conn : [Life(c)!Next]_(Life(c)!vars)]_vars

\* server_app::run fails only if the system refuses the acceptor its socket.
ServesIfGranted == app = "failed" => refused
=============================================================================
