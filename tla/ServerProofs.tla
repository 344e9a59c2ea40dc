---------------------------- MODULE ServerProofs ----------------------------
(***************************************************************************)
(* Proofs about the server process, for any number of connections and      *)
(* clients: it never loses its one receive operation, its set holds the    *)
(* connections that serve, and it uses each as Connection asks.            *)
(***************************************************************************)
EXTENDS Server, CommonProofs

\* The receive operations of the acceptor that are pending or to be handled.
Outstanding(s) == s.receives + Len(s.received) + s.broken

\* Before run(), nothing has happened.
BeforeRun ==
    app = "new" =>
        /\ acceptor = Unopened
        /\ m_connections = {}
        /\ \A c \in Conn : phase[c] = "new"

IInv ==
    /\ TypeOK
    /\ BeforeRun
    /\ AcceptorListens
    /\ SetIsExact

\* The acceptor's handler takes one receive operation and starts another, on
\* an open socket or on a closed one.
LEMMA HandlerKeepsOne ==
    ASSUME NEW s \in Endpoint, NEW t \in Endpoint,
           Outstanding(s) = 1, Outstanding(t) = 0
    PROVE  Outstanding(async_receive_from(t)) = 1
  <1>1. t.receives \in Nat /\ t.broken \in Nat /\ Len(t.received) \in Nat
    BY LenProperties DEF Endpoint
  <1>2. t.receives = 0 /\ t.broken = 0 /\ Len(t.received) = 0
    BY <1>1 DEF Outstanding
  <1>3. CASE t.open
    BY <1>2, <1>3 DEF async_receive_from, Outstanding, Endpoint
  <1>4. CASE ~t.open
    BY <1>2, <1>4 DEF async_receive_from, Outstanding, Endpoint
  <1> QED
    BY <1>3, <1>4

\* Running the handler of the one outstanding receive operation leaves none.
LEMMA TakeLeavesNone ==
    ASSUME NEW s \in Endpoint, Outstanding(s) = 1
    PROVE  /\ s.received # << >> => Outstanding(take_received(s)) = 0
           /\ s.broken > 0 => Outstanding(take_broken(s)) = 0
  <1>1. s.receives \in Nat /\ s.broken \in Nat /\ s.received \in Seq(Nat)
    BY DEF Endpoint
  <1>2. Len(s.received) \in Nat
    BY <1>1, LenProperties
  <1>3. ASSUME s.received # << >> PROVE Outstanding(take_received(s)) = 0
    <2>1. Len(Tail(s.received)) = Len(s.received) - 1
      BY <1>1, <1>3, HeadTailProperties
    <2>2. /\ take_received(s).receives = s.receives /\ take_received(s).broken = s.broken
          /\ take_received(s).received = Tail(s.received)
      BY DEF take_received, Endpoint
    <2> QED
      BY <1>1, <1>2, <2>1, <2>2 DEF Outstanding
  <1>4. ASSUME s.broken > 0 PROVE Outstanding(take_broken(s)) = 0
    <2>1. /\ take_broken(s).receives = s.receives /\ take_broken(s).broken = s.broken - 1
          /\ take_broken(s).received = s.received
      BY DEF take_broken, Endpoint
    <2> QED
      BY <1>1, <1>2, <2>1 DEF Outstanding
  <1> QED
    BY <1>3, <1>4

\* Completing the pending receive operation, or aborting it, does not change
\* how many there are.
LEMMA CompletionKeepsOne ==
    ASSUME NEW s \in Endpoint
    PROVE  /\ s.receives > 0 => Outstanding(complete_receive(s, 1)) = Outstanding(s)
           /\ s.receives > 0 => Outstanding(break_receive(s)) = Outstanding(s)
           /\ Outstanding([close_socket(s) EXCEPT !.broken = @ + s.receives]) = Outstanding(s)
           /\ [close_socket(s) EXCEPT !.broken = @ + s.receives] \in Endpoint
  <1>1. s.receives \in Nat /\ s.broken \in Nat /\ s.received \in Seq(Nat)
    BY DEF Endpoint
  <1>2. Len(s.received) \in Nat
    BY <1>1, LenProperties
  <1>3. s.receives > 0 => Outstanding(complete_receive(s, 1)) = Outstanding(s)
    <2>1. Len(Append(s.received, 1)) = Len(s.received) + 1
      BY <1>1, AppendProperties
    <2>t. PICK t : t = complete_receive(s, 1)
      OBVIOUS
    <2>2. /\ t.receives = s.receives - 1 /\ t.broken = s.broken
          /\ t.received = Append(s.received, 1)
      BY <2>t DEF complete_receive, Endpoint
    <2>3. Outstanding(t) = Outstanding(s)
      <3>1. Outstanding(t) = s.receives - 1 + (Len(s.received) + 1) + s.broken
        BY <2>1, <2>2, Zenon DEF Outstanding
      <3>2. Outstanding(s) = s.receives + Len(s.received) + s.broken
        BY Zenon DEF Outstanding
      <3> QED
        BY <1>1, <1>2, <3>1, <3>2
    <2> QED
      BY <2>t, <2>3
  <1>4. s.receives > 0 => Outstanding(break_receive(s)) = Outstanding(s)
    <2>t. PICK t : t = break_receive(s)
      OBVIOUS
    <2>1. /\ t.receives = s.receives - 1 /\ t.broken = s.broken + 1
          /\ t.received = s.received
      BY <2>t DEF break_receive, Endpoint
    <2>2. Outstanding(t) = Outstanding(s)
      <3>1. Outstanding(t) = s.receives - 1 + Len(s.received) + (s.broken + 1)
        BY <2>1, Zenon DEF Outstanding
      <3>2. Outstanding(s) = s.receives + Len(s.received) + s.broken
        BY Zenon DEF Outstanding
      <3> QED
        BY <1>1, <1>2, <3>1, <3>2
    <2> QED
      BY <2>t, <2>2
  <1>c. PICK c : c = close_socket(s)
    OBVIOUS
  <1>5. /\ c \in Endpoint /\ c.receives = 0 /\ c.broken = s.broken
        /\ c.received = s.received
    <2>1. c \in Endpoint
      BY <1>c, CallsKeepEndpoint
    <2>2. c.receives = 0 /\ c.broken = s.broken /\ c.received = s.received
      BY <1>c DEF close_socket, Endpoint
    <2> QED
      BY <2>1, <2>2
  <1>d. PICK d : d = [c EXCEPT !.broken = @ + s.receives]
    OBVIOUS
  <1>6. d.receives = 0 /\ d.broken = s.broken + s.receives /\ d.received = s.received
    BY <1>5, <1>d DEF Endpoint
  <1>7. Outstanding(d) = Outstanding(s)
    BY <1>1, <1>2, <1>6 DEF Outstanding
  <1>8. d \in Endpoint
    <2>1. c.broken + s.receives \in Nat
      BY <1>1, <1>5
    <2> QED
      BY <1>5, <1>d, <2>1, Zenon DEF Endpoint
  <1> QED
    BY <1>3, <1>4, <1>7, <1>8, <1>c, <1>d
-----------------------------------------------------------------------------
\* The server was constructed and not started.
LEMMA InitInv == Init => IInv
  <1> SUFFICES ASSUME Init PROVE IInv
    OBVIOUS
  <1>1. TypeOK
    BY UnopenedEndpoint DEF Init, TypeOK, Phases
  <1>2. SetIsExact
    BY DEF Init, SetIsExact
  <1>3. AcceptorListens
    BY DEF Init, AcceptorListens
  <1> QED
    BY <1>1, <1>2, <1>3 DEF IInv, Init, BeforeRun

\* server_app::run leaves the acceptor with one receive operation, or ends
\* with an exception.
LEMMA RunInv == IInv /\ run => IInv'
  <1> SUFFICES ASSUME IInv, run PROVE IInv'
    OBVIOUS
  <1>1. /\ app = "new" /\ acceptor = Unopened /\ m_connections = {}
        /\ \A c \in Conn : phase[c] = "new"
    BY DEF IInv, BeforeRun, run
  <1>2. UNCHANGED <<m_packet, m_connections, phase, peer>>
    BY DEF run
  <1>s. PICK s : s = open_socket(Unopened)
    OBVIOUS
  <1>3. s \in Endpoint /\ s.open = TRUE /\ s.receives = 0 /\ s.received = << >> /\ s.broken = 0
    <2>1. s \in Endpoint
      BY <1>s, UnopenedEndpoint, CallsKeepEndpoint
    <2> QED
      BY <1>s, <2>1 DEF open_socket, Unopened
  <1>t. PICK t : t = async_receive_from(s)
    OBVIOUS
  <1>4. t \in Endpoint /\ t.receives = 1 /\ t.received = << >> /\ t.broken = 0
    <2>1. t \in Endpoint
      BY <1>3, <1>t, CallsKeepEndpoint
    <2>2. t = [s EXCEPT !.receives = @ + 1]
      BY <1>3, <1>t DEF async_receive_from
    <2> QED
      BY <1>3, <2>1, <2>2 DEF Endpoint
  <1>5. PICK granted \in BOOLEAN :
            /\ refused' = ~granted
            /\ app' = IF granted /\ AcceptorIsShared THEN "running" ELSE "failed"
            /\ acceptor' = IF granted /\ AcceptorIsShared THEN t
                           ELSE IF granted THEN s ELSE acceptor
    BY <1>1, <1>s, <1>t DEF run
  <1>6. TypeOK'
    <2>1. acceptor' \in Endpoint /\ app' \in {"running", "failed"} /\ refused' \in BOOLEAN
      BY <1>1, <1>3, <1>4, <1>5, UnopenedEndpoint
    <2> QED
      BY <1>2, <2>1 DEF IInv, TypeOK
  <1>7. AcceptorListens'
    BY <1>4, <1>5 DEF AcceptorListens
  <1>8. SetIsExact'
    BY <1>1, <1>2 DEF SetIsExact
  <1> QED
    BY <1>5, <1>6, <1>7, <1>8 DEF IInv, BeforeRun

\* The acceptor's handler: whatever the packet or the error was, the next
\* receive is requested, and only a new connection enters the set.
LEMMA AcceptorInv == IInv /\ AcceptorHandler => IInv'
  <1> SUFFICES ASSUME IInv, AcceptorHandler PROVE IInv'
    OBVIOUS
  <1>1. /\ acceptor \in Endpoint /\ m_connections \subseteq Conn
        /\ phase \in [Conn -> Phases] /\ peer \in [Conn -> Request \cup {NoRequest}]
        /\ m_packet \in Request \cup {NoRequest}
    BY DEF IInv, TypeOK
  <1>2. app = "running" /\ UNCHANGED <<app, refused, m_packet>>
    BY DEF AcceptorHandler, ServeRequest, IgnorePacket, ReceiveFailed
  <1>3. Outstanding(acceptor) = 1
    BY <1>2 DEF IInv, AcceptorListens, Outstanding
  <1>4. PICK t \in Endpoint : /\ Outstanding(t) = 0 /\ t.open = acceptor.open
                              /\ acceptor' = async_receive_from(t)
    <2>1. CASE \/ IgnorePacket
               \/ \E c \in Conn : ServeRequest(c)
      <3>1. acceptor.received # << >> /\ acceptor' = async_receive_from(take_received(acceptor))
        BY <2>1 DEF ServeRequest, IgnorePacket
      <3> QED
        BY <1>1, <1>3, <3>1, HandlersKeepEndpoint, SocketStaysOpen, TakeLeavesNone
    <2>2. CASE ReceiveFailed
      <3>1. acceptor.broken > 0 /\ acceptor' = async_receive_from(take_broken(acceptor))
        BY <2>2 DEF ReceiveFailed
      <3> QED
        BY <1>1, <1>3, <3>1, HandlersKeepEndpoint, SocketStaysOpen, TakeLeavesNone
    <2> QED
      BY <2>1, <2>2 DEF AcceptorHandler
  <1>5. acceptor' \in Endpoint /\ acceptor'.open = acceptor.open
    BY <1>4, CallsKeepEndpoint, SocketStaysOpen
  <1>6. AcceptorListens'
    <2>1. Outstanding(async_receive_from(t)) = 1
      BY <1>1, <1>3, <1>4, HandlerKeepsOne
    <2> QED
      BY <1>4, <2>1 DEF AcceptorListens, Outstanding
  <1>7. CASE UNCHANGED <<m_connections, phase, peer>>
    BY <1>2, <1>5, <1>6, <1>7 DEF IInv, TypeOK, BeforeRun, SetIsExact
  <1>8. ASSUME NEW c \in Conn, ServeRequest(c) PROVE IInv'
    <2>1. PICK started \in BOOLEAN :
              /\ phase' = [phase EXCEPT ![c] = IF started THEN "serving" ELSE "stillborn"]
              /\ m_connections' = m_connections \cup {c}
              /\ peer' = [peer EXCEPT ![c] = m_packet]
      BY <1>8 DEF ServeRequest, connection_created
    <2>2. TypeOK'
      <3>1. phase' \in [Conn -> Phases]
        BY <1>1, <2>1 DEF Phases
      <3>2. peer' \in [Conn -> Request \cup {NoRequest}]
        BY <1>1, <2>1, Zenon
      <3> QED
        BY <1>1, <1>2, <1>5, <2>1, <3>1, <3>2 DEF IInv, TypeOK
    <2>3. SetIsExact'
      BY <1>1, <1>5, <2>1 DEF IInv, SetIsExact
    <2> QED
      BY <1>2, <1>6, <2>2, <2>3 DEF IInv, BeforeRun
  <1> QED
    BY <1>7, <1>8 DEF AcceptorHandler, IgnorePacket, ReceiveFailed

\* A connection ends, or its object is destroyed.
LEMMA ConnectionsInv ==
    ASSUME IInv, NEW c \in Conn, connection_terminated(c) \/ ConnectionReleased(c)
    PROVE  IInv'
  <1>1. m_connections \subseteq Conn /\ phase \in [Conn -> Phases]
    BY DEF IInv, TypeOK
  <1>2. app = "running" /\ UNCHANGED <<app, refused, acceptorVars, peer>>
    BY DEF connection_terminated, ConnectionReleased
  <1>3. /\ m_connections' = m_connections \ {c}
        /\ \E p \in {"ending", "released"} : phase' = [phase EXCEPT ![c] = p]
    BY DEF connection_terminated, ConnectionReleased
  <1>4. TypeOK'
    <2>1. phase' \in [Conn -> Phases] /\ m_connections' \subseteq Conn
      BY <1>1, <1>3 DEF Phases
    <2> QED
      BY <1>2, <2>1 DEF IInv, TypeOK, acceptorVars
  <1>5. SetIsExact'
    BY <1>1, <1>2, <1>3 DEF IInv, SetIsExact, acceptorVars
  <1>6. AcceptorListens'
    BY <1>2 DEF IInv, AcceptorListens, acceptorVars
  <1> QED
    BY <1>2, <1>4, <1>5, <1>6 DEF IInv, BeforeRun

\* The kernel completes the acceptor's receive; the application ends.
LEMMA EnvironmentInv ==
    IInv /\ (on_signal \/ stop \/ ReceiveBreaks \/ \E r \in Request : Receive(r)) => IInv'
  <1> SUFFICES ASSUME IInv,
                      on_signal \/ stop \/ ReceiveBreaks \/ \E r \in Request : Receive(r)
               PROVE  IInv'
    OBVIOUS
  <1>1. acceptor \in Endpoint /\ phase \in [Conn -> Phases] /\ app = "running"
    BY DEF IInv, TypeOK, on_signal, stop, ReceiveBreaks, Receive
  <1>2. Outstanding(acceptor) = 1
    BY <1>1 DEF IInv, AcceptorListens, Outstanding
  <1>3. CASE on_signal
    BY <1>3 DEF on_signal, acceptorVars, IInv, TypeOK, BeforeRun, AcceptorListens, SetIsExact
  <1>4. CASE stop
    <2>s. PICK s : s = [close_socket(acceptor) EXCEPT !.broken = @ + acceptor.receives]
      OBVIOUS
    <2>1. s \in Endpoint /\ Outstanding(s) = 1
      BY <1>1, <1>2, <2>s, CompletionKeepsOne
    <2>2. s.open = FALSE
      BY <1>1, <2>s DEF close_socket, Endpoint
    <2>3. /\ acceptor' = s /\ UNCHANGED <<app, refused, m_packet, m_connections, peer>>
          /\ phase' = [c \in Conn |-> IF c \in m_connections /\ phase[c] = "serving"
                                      THEN "ending" ELSE phase[c]]
      BY <1>4, <2>s DEF stop
    <2>4. phase' \in [Conn -> Phases]
      BY <1>1, <2>3 DEF Phases
    <2>5. TypeOK'
      BY <2>1, <2>3, <2>4 DEF IInv, TypeOK
    <2>6. AcceptorListens' /\ SetIsExact'
      BY <2>1, <2>2, <2>3 DEF AcceptorListens, SetIsExact, Outstanding
    <2> QED
      BY <1>1, <2>3, <2>5, <2>6 DEF IInv, BeforeRun
  <1>5. CASE ReceiveBreaks \/ \E r \in Request : Receive(r)
    <2>1. /\ acceptor' \in Endpoint /\ acceptor'.open = acceptor.open
          /\ Outstanding(acceptor') = 1
      <3>1. 1 \in Nat
        OBVIOUS
      <3>2. /\ acceptor.receives > 0
            /\ \/ acceptor' = break_receive(acceptor)
               \/ acceptor' = complete_receive(acceptor, 1)
        BY <1>5 DEF ReceiveBreaks, Receive
      <3>3. CASE acceptor' = break_receive(acceptor)
        BY <1>1, <1>2, <3>2, <3>3, KernelKeepsEndpoint, SocketStaysOpen, CompletionKeepsOne
      <3>4. CASE acceptor' = complete_receive(acceptor, 1)
        <4>t. PICK t : t = complete_receive(acceptor, 1)
          OBVIOUS
        <4>1. t \in Endpoint /\ t.open = acceptor.open
          BY <1>1, <3>1, <3>2, <4>t, KernelKeepsEndpoint, SocketStaysOpen
        <4>2. Outstanding(t) = 1
          BY <1>1, <1>2, <3>2, <4>t, CompletionKeepsOne
        <4> QED
          BY <3>4, <4>t, <4>1, <4>2
      <3> QED
        BY <3>2, <3>3, <3>4
    <2>2. /\ UNCHANGED <<app, refused, m_connections, phase, peer>>
          /\ m_packet' \in Request \cup {NoRequest}
      BY <1>5 DEF ReceiveBreaks, Receive, IInv, TypeOK
    <2>3. TypeOK'
      BY <2>1, <2>2 DEF IInv, TypeOK
    <2>4. SetIsExact' /\ AcceptorListens'
      BY <2>1, <2>2 DEF IInv, SetIsExact, AcceptorListens, Outstanding
    <2> QED
      BY <1>1, <2>2, <2>3, <2>4 DEF IInv, BeforeRun
  <1> QED
    BY <1>3, <1>4, <1>5

\* The invariant is inductive.
LEMMA NextInv == IInv /\ [Next]_vars => IInv'
  <1> SUFFICES ASSUME IInv, [Next]_vars PROVE IInv'
    OBVIOUS
  <1>1. CASE UNCHANGED vars
    BY <1>1 DEF vars, acceptorVars, IInv, TypeOK, BeforeRun, AcceptorListens, SetIsExact
  <1> QED
    BY <1>1, RunInv, AcceptorInv, ConnectionsInv, EnvironmentInv DEF Next
-----------------------------------------------------------------------------
\* The inductive invariant holds in every reachable state.
THEOREM Invariance == Spec => []IInv
  BY InitInv, NextInv, PTL DEF Spec

\* Type correctness of the server.
THEOREM TypeCorrect == Spec => []TypeOK
  <1>1. IInv => TypeOK
    BY DEF IInv
  <1> QED
    BY <1>1, Invariance, PTL

\* The running server always has exactly one receive operation.
THEOREM AcceptorAlwaysListens == Spec => []AcceptorListens
  <1>1. IInv => AcceptorListens
    BY DEF IInv
  <1> QED
    BY <1>1, Invariance, PTL

\* Until server::stop, m_connections holds the connections that serve, and
\* those whose start() threw.
THEOREM ConnectionSetIsExact == Spec => []SetIsExact
  <1>1. IInv => SetIsExact
    BY DEF IInv
  <1> QED
    BY <1>1, Invariance, PTL

\* The server starts a connection once and lets it go its way: each step is a
\* step of Connection for every connection object.
THEOREM EveryConnectionIsUsedWell == Spec => ConnectionsAreUsedWell
  <1>1. ASSUME IInv, [Next]_vars, NEW c \in Conn
        PROVE  [Life(c)!Next]_(Life(c)!vars)
    <2>1. phase \in [Conn -> Phases] /\ phase[c] \in Phases
      BY <1>1 DEF IInv, TypeOK
    <2>2. CASE phase' = phase
      BY <2>2 DEF Life!vars
    <2>3. ASSUME NEW d \in Conn, ServeRequest(d) PROVE [Life(c)!Next]_(Life(c)!vars)
      <3>1. phase[d] = "new" /\ (phase'[c] = phase[c] \/ (c = d /\ phase'[c] \in {"serving", "stillborn"}))
        BY <2>1, <2>3 DEF ServeRequest, connection_created
      <3> QED
        BY <3>1 DEF Life!Next, Life!Start, Life!vars
    <2>4. ASSUME NEW d \in Conn, connection_terminated(d) \/ ConnectionReleased(d)
          PROVE  [Life(c)!Next]_(Life(c)!vars)
      <3>1. \/ phase'[c] = phase[c]
            \/ phase[c] = "serving" /\ phase'[c] = "ending"
            \/ phase[c] = "ending" /\ phase'[c] = "released"
        BY <2>1, <2>4 DEF connection_terminated, ConnectionReleased
      <3> QED
        BY <3>1 DEF Life!Next, Life!Terminate, Life!Release, Life!vars
    <2>5. CASE stop
      <3>1. phase'[c] = phase[c] \/ (phase[c] = "serving" /\ phase'[c] = "ending")
        BY <2>1, <2>5 DEF stop
      <3> QED
        BY <3>1 DEF Life!Next, Life!Terminate, Life!vars
    <2> QED
      BY <1>1, <2>2, <2>3, <2>4, <2>5
         DEF Next, run, on_signal, AcceptorHandler, IgnorePacket, ReceiveFailed,
             Receive, ReceiveBreaks, vars
  <1>2. IInv /\ [Next]_vars => [\A c \in Conn : [Life(c)!Next]_(Life(c)!vars)]_vars
    BY <1>1
  <1> QED
    BY <1>2, Invariance, PTL DEF Spec, ConnectionsAreUsedWell
=============================================================================
