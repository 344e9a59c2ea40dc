---------------------------- MODULE CommonProofs ----------------------------
(***************************************************************************)
(* Lemmas the other proofs share.  About the operators of AsioEndpoint:    *)
(* each keeps an endpoint an endpoint, and what it does to the socket, to  *)
(* what drives the next handler and to what was received.  About Tftp: the *)
(* packets and the 16-bit arithmetic.  About Loops: that a loop ends, what *)
(* one element more does to where, and to what is picked out of a          *)
(* sequence.  About StoredBlocks: what a write does to the blocks a file   *)
(* holds whole.                                                            *)
(***************************************************************************)
EXTENDS AsioEndpoint, Tftp, StoredBlocks, SequenceTheorems, FiniteSetTheorems, TLAPS

\* A socket that was never opened is an endpoint, is closed and has no
\* handler to run.
LEMMA UnopenedEndpoint ==
    Unopened \in Endpoint /\ ~Unopened.open /\ Quiet(Unopened)
  BY EmptySeq DEF Unopened, Endpoint, Quiet

\* An endpoint's counters count.
LEMMA Counters ==
    ASSUME NEW s \in Endpoint
    PROVE  /\ s.sent + 1 \in Nat /\ (s.sent > 0 => s.sent - 1 \in Nat)
           /\ s.failed + 1 \in Nat /\ (s.failed > 0 => s.failed - 1 \in Nat)
           /\ s.expired + 1 \in Nat /\ (s.expired > 0 => s.expired - 1 \in Nat)
           /\ s.broken + 1 \in Nat /\ (s.broken > 0 => s.broken - 1 \in Nat)
           /\ s.receives + 1 \in Nat /\ (s.receives > 0 => s.receives - 1 \in Nat)
  <1>1. /\ s.sent \in Nat /\ s.failed \in Nat /\ s.expired \in Nat
        /\ s.broken \in Nat /\ s.receives \in Nat
    BY Zenon DEF Endpoint
  <1> QED
    BY <1>1

\* What a handler asks of ASIO keeps the endpoint's type.
LEMMA CallsKeepEndpoint ==
    ASSUME NEW s \in Endpoint
    PROVE  /\ open_socket(s) \in Endpoint
           /\ \A accepted \in BOOLEAN : async_send_to(s, accepted) \in Endpoint
           /\ async_receive_from(s) \in Endpoint
           /\ restart_timer(s) \in Endpoint
           /\ cancel_timer(s) \in Endpoint
           /\ close_socket(s) \in Endpoint
  <1>1. open_socket(s) \in Endpoint
    BY Zenon DEF Endpoint, open_socket
  <1>2. ASSUME NEW accepted \in BOOLEAN
        PROVE  async_send_to(s, accepted) \in Endpoint
    <2>1. [s EXCEPT !.sent = @ + 1] \in Endpoint
      BY Counters, Zenon DEF Endpoint
    <2>2. [s EXCEPT !.failed = @ + 1] \in Endpoint
      BY Counters, Zenon DEF Endpoint
    <2> QED
      BY <2>1, <2>2 DEF async_send_to
  <1>3. async_receive_from(s) \in Endpoint
    <2>1. [s EXCEPT !.receives = @ + 1] \in Endpoint
      BY Counters, Zenon DEF Endpoint
    <2>2. [s EXCEPT !.broken = @ + 1] \in Endpoint
      BY Counters, Zenon DEF Endpoint
    <2> QED
      BY <2>1, <2>2 DEF async_receive_from
  <1>4. restart_timer(s) \in Endpoint
    BY Zenon DEF Endpoint, restart_timer
  <1>5. cancel_timer(s) \in Endpoint
    BY Zenon DEF Endpoint, cancel_timer
  <1>6. close_socket(s) \in Endpoint
    <2>1. 0 \in Nat
      OBVIOUS
    <2> QED
      BY <2>1, Zenon DEF Endpoint, close_socket
  <1> QED
    BY <1>1, <1>2, <1>3, <1>4, <1>5, <1>6

\* Running a queued handler keeps the endpoint's type.
LEMMA HandlersKeepEndpoint ==
    ASSUME NEW s \in Endpoint
    PROVE  /\ s.sent > 0 => take_sent(s) \in Endpoint
           /\ s.failed > 0 => take_failed(s) \in Endpoint
           /\ s.expired > 0 => take_expired(s) \in Endpoint
           /\ s.broken > 0 => take_broken(s) \in Endpoint
           /\ s.received # << >> => take_received(s) \in Endpoint
  <1>1. s.sent > 0 => take_sent(s) \in Endpoint
    BY Counters, Zenon DEF Endpoint, take_sent
  <1>2. s.failed > 0 => take_failed(s) \in Endpoint
    BY Counters, Zenon DEF Endpoint, take_failed
  <1>3. s.expired > 0 => take_expired(s) \in Endpoint
    BY Counters, Zenon DEF Endpoint, take_expired
  <1>4. s.broken > 0 => take_broken(s) \in Endpoint
    BY Counters, Zenon DEF Endpoint, take_broken
  <1>5. s.received # << >> => take_received(s) \in Endpoint
    <2>1. s.received # << >> => Tail(s.received) \in Seq(Nat)
      BY HeadTailProperties DEF Endpoint
    <2> QED
      BY <2>1, Zenon DEF Endpoint, take_received
  <1> QED
    BY <1>1, <1>2, <1>3, <1>4, <1>5

\* What the kernel completes keeps the endpoint's type.
LEMMA KernelKeepsEndpoint ==
    ASSUME NEW s \in Endpoint
    PROVE  /\ expire(s) \in Endpoint
           /\ s.receives > 0 => break_receive(s) \in Endpoint
           /\ \A bytes \in Nat : s.receives > 0 => complete_receive(s, bytes) \in Endpoint
  <1>1. expire(s) \in Endpoint
    BY Counters, Zenon DEF Endpoint, expire
  <1>2. s.receives > 0 => break_receive(s) \in Endpoint
    BY Counters, Zenon DEF Endpoint, break_receive
  <1>3. ASSUME NEW bytes \in Nat, s.receives > 0
        PROVE  complete_receive(s, bytes) \in Endpoint
    <2>1. Append(s.received, bytes) \in Seq(Nat)
      BY DEF Endpoint
    <2> QED
      BY <1>3, <2>1, Counters, Zenon DEF Endpoint, complete_receive
  <1> QED
    BY <1>1, <1>2, <1>3

\* Only open_socket and close_socket change whether the socket is open.
LEMMA SocketStaysOpen ==
    ASSUME NEW s \in Endpoint
    PROVE  /\ open_socket(s).open
           /\ \A accepted \in BOOLEAN : async_send_to(s, accepted).open = s.open
           /\ async_receive_from(s).open = s.open
           /\ restart_timer(s).open = s.open
           /\ cancel_timer(s).open = s.open
           /\ ~close_socket(s).open
           /\ take_sent(s).open = s.open
           /\ take_failed(s).open = s.open
           /\ take_expired(s).open = s.open
           /\ take_broken(s).open = s.open
           /\ take_received(s).open = s.open
           /\ expire(s).open = s.open
           /\ break_receive(s).open = s.open
           /\ \A bytes \in Nat : complete_receive(s, bytes).open = s.open
  BY DEF Endpoint, open_socket, async_send_to, async_receive_from, restart_timer,
         cancel_timer, close_socket, take_sent, take_failed, take_expired,
         take_broken, take_received, expire, break_receive, complete_receive

\* A receive operation is pending on the socket, or completed with a datagram.
Listening(s) == s.receives > 0 \/ s.received # << >>

\* Only async_receive_from makes an endpoint listen.
LEMMA WhatListens ==
    ASSUME NEW s \in Endpoint, ~Listening(s)
    PROVE  /\ ~Listening(open_socket(s))
           /\ \A accepted \in BOOLEAN : ~Listening(async_send_to(s, accepted))
           /\ ~Listening(cancel_timer(s))
           /\ ~Listening(close_socket(s))
           /\ ~Listening(take_sent(s))
           /\ ~Listening(take_failed(s))
           /\ ~Listening(take_expired(s))
           /\ ~Listening(take_broken(s))
           /\ ~Listening(expire(s))
  BY DEF Endpoint, Listening, open_socket, async_send_to, cancel_timer, close_socket,
         take_sent, take_failed, take_expired, take_broken, expire

\* A send and a pending wait drive some handler; so does a wait that expired,
\* and what happens to receive operations changes nothing of that.
LEMMA WhatDrives ==
    ASSUME NEW s \in Endpoint
    PROVE  /\ \A accepted \in BOOLEAN : Driven(async_send_to(s, accepted))
           /\ Driven(async_receive_from(restart_timer(s)))
           /\ Driven(expire(s))
           /\ Driven(take_received(s)) = Driven(s)
           /\ Driven(break_receive(s)) = Driven(s)
           /\ \A bytes \in Nat : Driven(complete_receive(s, bytes)) = Driven(s)
  BY DEF Endpoint, Driven, async_send_to, async_receive_from, restart_timer,
         expire, take_received, break_receive, complete_receive

\* What the handlers and the calls leave in the queue of received datagrams:
\* only taking one and completing a receive change it.
LEMMA WhatReceives ==
    ASSUME NEW s \in Endpoint
    PROVE  /\ open_socket(s).received = s.received
           /\ \A accepted \in BOOLEAN : async_send_to(s, accepted).received = s.received
           /\ async_receive_from(s).received = s.received
           /\ restart_timer(s).received = s.received
           /\ cancel_timer(s).received = s.received
           /\ close_socket(s).received = s.received
           /\ take_sent(s).received = s.received
           /\ take_failed(s).received = s.received
           /\ take_expired(s).received = s.received
           /\ take_broken(s).received = s.received
           /\ take_received(s).received = Tail(s.received)
           /\ expire(s).received = s.received
           /\ break_receive(s).received = s.received
           /\ \A bytes : complete_receive(s, bytes).received = Append(s.received, bytes)
  BY DEF Endpoint, open_socket, async_send_to, async_receive_from, restart_timer,
         cancel_timer, close_socket, take_sent, take_failed, take_expired,
         take_broken, take_received, expire, break_receive, complete_receive

-----------------------------------------------------------------------------
\* Packets and block numbers.

\* What packet_builder builds is a packet.
LEMMA PacketTypes ==
    /\ InvalidPacket \in Packet
    /\ \A n \in Nat : AckPacket(n) \in Packet
    /\ \A n \in Nat : ErrorPacket(n) \in Packet
    /\ \A n \in Nat, payload \in Int, size \in Nat :
           DataPacket(n, payload, size) \in Packet
    /\ \A op \in {"RRQ", "WRQ"} : RequestPacket(op) \in Packet
  <1>1. /\ InvalidPacket \in Packet
        /\ \A n \in Nat : AckPacket(n) \in Packet
        /\ \A n \in Nat : ErrorPacket(n) \in Packet
        /\ \A n \in Nat, payload \in Int, size \in Nat :
               DataPacket(n, payload, size) \in Packet
    BY TftpAssumption
       DEF Packet, Opcode, InvalidPacket, AckPacket, ErrorPacket, DataPacket, HeaderSize
  <1>2. \A op \in {"RRQ", "WRQ"} : RequestPacket(op) \in Packet
    BY TftpAssumption DEF Packet, Opcode, RequestPacket
  <1> QED
    BY <1>1, <1>2

\* What the parser makes of a buffer that holds a packet is a packet, whatever
\* size it is told.
LEMMA ParsedPacket ==
    ASSUME NEW p \in Packet, NEW bytes \in Nat
    PROVE  parse_packet(p, bytes) \in Packet
  <1>1. CASE p.op = "DATA" /\ bytes >= HeaderSize
    <2>1. PICK data \in Int \cup {Garbled} :
              parse_packet(p, bytes) = DataPacket(p.num, data, bytes - HeaderSize)
      BY <1>1 DEF parse_packet, Packet, Opcode
    <2>2. p.num \in Nat /\ HeaderSize + (bytes - HeaderSize) \in Nat
      BY <1>1 DEF Packet, HeaderSize
    <2> QED
      BY <2>1, <2>2 DEF DataPacket, Packet, Opcode
  <1>2. CASE p.op \in Opcode \ {"DATA"} /\ bytes = p.len
    BY <1>2 DEF parse_packet
  <1>3. CASE /\ ~(p.op = "DATA" /\ bytes >= HeaderSize)
             /\ ~(p.op \in Opcode \ {"DATA"} /\ bytes = p.len)
    BY <1>3, PacketTypes DEF parse_packet
  <1> QED
    BY <1>1, <1>2, <1>3

\* The parser finds a DATA packet only where one was received, and all of it
\* if it is told the right size; any other packet it finds as it was received.
LEMMA ParsedAsReceived ==
    ASSUME NEW p \in Packet, NEW bytes \in Nat, NEW q, q = parse_packet(p, bytes)
    PROVE  /\ q.op = "DATA" =>
                 /\ p.op = "DATA" /\ q.num = p.num /\ q.len = bytes
                 /\ \/ q.data = Garbled
                    \/ bytes = p.len /\ q.data = p.data
           /\ q.op \in Opcode \ {"DATA"} => q = p
  <1>1. CASE p.op = "DATA" /\ bytes >= HeaderSize
    <2>1. q = DataPacket(p.num, IF bytes = p.len THEN p.data ELSE Garbled,
                         bytes - HeaderSize)
      BY <1>1 DEF parse_packet, Opcode
    <2>2. HeaderSize + (bytes - HeaderSize) = bytes
      BY DEF HeaderSize
    <2> QED
      BY <1>1, <2>1, <2>2 DEF DataPacket
  <1>2. CASE p.op \in Opcode \ {"DATA"} /\ bytes = p.len
    <2>1. q = p
      BY <1>2 DEF parse_packet
    <2> QED
      BY <1>2, <2>1
  <1>3. CASE /\ ~(p.op = "DATA" /\ bytes >= HeaderSize)
             /\ ~(p.op \in Opcode \ {"DATA"} /\ bytes = p.len)
    <2>1. q = InvalidPacket
      BY <1>3 DEF parse_packet
    <2> QED
      BY <2>1 DEF InvalidPacket, Opcode
  <1> QED
    BY <1>1, <1>2, <1>3

\* A block number stays within its width.
LEMMA NextBlockType ==
    ASSUME NEW n \in 0 .. BlockModulus - 1
    PROVE  NextBlock(n) \in 0 .. BlockModulus - 1
  BY TftpAssumption DEF NextBlock

\* Products keep the order of their second factor.
LEMMA ProductsAreOrdered ==
    ASSUME NEW M \in Nat, NEW p \in Int, NEW q \in Int, p < q
    PROVE  M * p + M <= M * q
  <1>1. PICK d \in Nat : q = p + 1 + d
    <2>1. q - p - 1 \in Nat /\ q = p + 1 + (q - p - 1)
      OBVIOUS
    <2> QED
      BY <2>1
  <1>2. M * q = M * p + M + M * d
    BY <1>1
  <1>3. M * d >= 0
    OBVIOUS
  <1> QED
    BY <1>2, <1>3

\* Quotient and remainder are the only ones.
LEMMA RemainderIsUnique ==
    ASSUME NEW M \in Nat \ {0}, NEW k \in Nat, NEW q \in Int, NEW r \in 0 .. M - 1,
           k = M * q + r
    PROVE  k % M = r
  <1> DEFINE p == k \div M
             s == k % M
  <1>1. p \in Int /\ s \in 0 .. M - 1 /\ k = M * p + s
    OBVIOUS
  <1> HIDE DEF p, s
  <1>2. ~ p < q
    <2> SUFFICES ASSUME p < q PROVE FALSE
      OBVIOUS
    <2>1. M * p + M <= M * q
      BY <1>1, ProductsAreOrdered
    <2>2. M * p \in Int /\ M * q \in Int
      BY <1>1
    <2> QED
      BY <1>1, <2>1, <2>2
  <1>3. ~ q < p
    <2> SUFFICES ASSUME q < p PROVE FALSE
      OBVIOUS
    <2>1. M * q + M <= M * p
      BY <1>1, ProductsAreOrdered
    <2>2. M * p \in Int /\ M * q \in Int
      BY <1>1
    <2> QED
      BY <1>1, <2>1, <2>2
  <1>4. p = q
    BY <1>1, <1>2, <1>3
  <1>5. s = r
    BY <1>1, <1>4
  <1> QED
    BY <1>5 DEF s

\* The number that follows that of block k is that of block k + 1, also where
\* it wraps.
LEMMA NextBlockCongruent ==
    ASSUME NEW k \in Nat
    PROVE  NextBlock(k % BlockModulus) = (k + 1) % BlockModulus
  <1> DEFINE q == k \div BlockModulus
             r == k % BlockModulus
  <1>1. BlockModulus \in Nat \ {0}
    BY TftpAssumption
  <1>2. q \in Int /\ r \in 0 .. BlockModulus - 1 /\ k = BlockModulus * q + r
    BY <1>1
  <1> HIDE DEF q, r
  <1>3. CASE r + 1 < BlockModulus
    <2>1. k + 1 = BlockModulus * q + (r + 1) /\ r + 1 \in 0 .. BlockModulus - 1
      BY <1>1, <1>2, <1>3
    <2>2. (k + 1) % BlockModulus = r + 1
      BY <1>1, <1>2, <2>1, RemainderIsUnique
    <2> QED
      BY <1>3, <2>2 DEF NextBlock, r
  <1>4. CASE r + 1 >= BlockModulus
    <2>1. r + 1 = BlockModulus
      BY <1>1, <1>2, <1>4
    <2>2. k + 1 = BlockModulus * (q + 1) + 0 /\ 0 \in 0 .. BlockModulus - 1
      BY <1>1, <1>2, <2>1
    <2>3. (k + 1) % BlockModulus = 0
      BY <1>1, <1>2, <2>2, RemainderIsUnique
    <2> QED
      BY <2>1, <2>3, <1>1 DEF NextBlock, r
  <1> QED
    BY <1>1, <1>2, <1>3, <1>4

\* Block 0, which no DATA packet carries, has number 0.
LEMMA ZeroIsZero == 0 % BlockModulus = 0
  <1>1. BlockModulus \in Nat \ {0}
    BY TftpAssumption
  <1>2. 0 = BlockModulus * 0 + 0 /\ 0 \in 0 .. BlockModulus - 1
    BY <1>1
  <1> QED
    BY <1>1, <1>2, RemainderIsUnique

-----------------------------------------------------------------------------
\* Loops.

\* Every set of naturals that is not empty has a least element.
LEMMA LeastNatural ==
    ASSUME NEW T \in SUBSET Nat, T # {}
    PROVE  \E x \in T : \A y \in T : x <= y
  <1> DEFINE R == OpToRel(<, Nat)
  <1>1. IsWellFoundedOn(R, Nat)
    BY NatLessThanWellFounded
  <1>2. \A x \in Nat, y \in Nat : y < x => <<y, x>> \in R
    BY DEF OpToRel
  <1> HIDE DEF R
  <1>3. PICK x \in T : \A y \in T : ~ (<<y, x>> \in R)
    BY <1>1, WFMin
  <1>4. ASSUME NEW y \in T PROVE x <= y
    <2>1. x \in Nat /\ y \in Nat
      OBVIOUS
    <2>2. ~ (y < x)
      BY <1>2, <1>3, <2>1
    <2> QED
      BY <2>1, <2>2
  <1> QED
    BY <1>4

\* A set that has 0, and with each number up to n the next, has all up to n.
LEMMA Induction ==
    ASSUME NEW n \in Nat, NEW T, 0 \in T,
           \A k \in 0 .. n : k \in T /\ k < n => k + 1 \in T
    PROVE  0 .. n \subseteq T
  <1> SUFFICES ASSUME NEW m \in 0 .. n, m \notin T PROVE FALSE
    OBVIOUS
  <1> DEFINE R == {k \in 0 .. n : k \notin T}
  <1>1. R \in SUBSET Nat /\ R # {}
    OBVIOUS
  <1>2. PICK x \in R : \A y \in R : x <= y
    BY <1>1, LeastNatural
  <1>3. PICK w : w = x - 1
    OBVIOUS
  <1>4. w \in 0 .. n /\ w < n /\ w \in T /\ w + 1 = x
    BY <1>2, <1>3
  <1> QED
    BY <1>2, <1>4

\* step is the turn of a loop over elements of T, with states in S.
IsTurn(step, T, S) == step \in [T -> [S -> S]]

\* g is the run of a loop: the state before it, and after each element.
IsRun(g, S, step, x, s) ==
    /\ g \in [0 .. Len(s) -> S]
    /\ g[0] = x
    /\ \A k \in 1 .. Len(s) : g[k] = step[s[k]][g[k - 1]]

\* A loop runs to its end, and Fold is where.
LEMMA FoldRuns ==
    ASSUME NEW S, NEW T, NEW step \in [T -> [S -> S]], NEW x \in S, NEW s \in Seq(T)
    PROVE  \E g : IsRun(g, S, step, x, s) /\ Fold(step, x, s) = g[Len(s)]
  <1>n. PICK n \in Nat : n = Len(s)
    OBVIOUS
  <1>e. \A k \in 1 .. n : s[k] \in T
    BY <1>n
  <1> DEFINE Runs(k, g) ==
        /\ g \in [0 .. k -> S] /\ g[0] = x
        /\ \A i \in 1 .. k : g[i] = step[s[i]][g[i - 1]]
             Reached == {k \in 0 .. n : \E g : Runs(k, g)}
  <1>1. 0 \in Reached
    <2>1. PICK g : g = [k \in 0 .. 0 |-> x]
      OBVIOUS
    <2>2. g \in [0 .. 0 -> S] /\ g[0] = x /\ 1 .. 0 = {}
      BY <2>1
    <2>3. Runs(0, g)
      BY <2>2
    <2> QED
      BY <2>3
  <1>2. ASSUME NEW k \in 0 .. n, k \in Reached, k < n PROVE k + 1 \in Reached
    <2>1. PICK g : Runs(k, g)
      BY <1>2
    <2> DEFINE h == [i \in 0 .. k + 1 |-> IF i <= k THEN g[i] ELSE step[s[k + 1]][g[k]]]
    <2>2. step[s[k + 1]][g[k]] \in S
      <3>1. g[k] \in S /\ s[k + 1] \in T
        BY <1>2, <1>e, <2>1
      <3> QED
        BY <3>1
    <2>3. h \in [0 .. k + 1 -> S]
      BY <2>1, <2>2
    <2>4. h[0] = x
      BY <2>1
    <2>5. ASSUME NEW i \in 1 .. k + 1 PROVE h[i] = step[s[i]][h[i - 1]]
      <3>1. CASE i <= k
        BY <2>1, <3>1
      <3>2. CASE i = k + 1
        BY <2>1, <3>2
      <3> QED
        BY <3>1, <3>2
    <2> HIDE DEF h
    <2>6. Runs(k + 1, h)
      BY <2>3, <2>4, <2>5
    <2> QED
      BY <1>2, <2>6
  <1>3. n \in Reached
    <2> HIDE DEF Reached
    <2>1. 0 .. n \subseteq Reached
      BY <1>1, <1>2, Induction
    <2> QED
      BY <2>1
  <1>4. PICK g : Runs(n, g)
    BY <1>3
  <1>5. g = [k \in 0 .. n |-> IF k = 0 THEN x ELSE step[s[k]][g[k - 1]]]
    BY <1>4
  <1> DEFINE IsLoop(f) == f = [k \in 0 .. Len(s) |-> IF k = 0 THEN x ELSE step[s[k]][f[k - 1]]]
             after == CHOOSE f : IsLoop(f)
  <1>6. IsLoop(after)
    BY <1>5, <1>n
  <1>7. Fold(step, x, s) = after[Len(s)]
    BY DEF Fold
  <1>8. ASSUME NEW f, IsLoop(f) PROVE IsRun(f, S, step, x, s)
    <2>1. f[0] = x /\ \A k \in 1 .. n : f[k] = step[s[k]][f[k - 1]]
      BY <1>8, <1>n
    <2> DEFINE Typed == {k \in 0 .. n : f[k] \in S}
    <2>2. 0 \in Typed
      BY <2>1
    <2>3. ASSUME NEW k \in 0 .. n, k \in Typed, k < n PROVE k + 1 \in Typed
      <3>1. f[k] \in S /\ s[k + 1] \in T
        BY <2>3, <1>e
      <3>2. f[k + 1] = step[s[k + 1]][f[k]]
        BY <2>1, <2>3
      <3> QED
        BY <2>3, <3>1, <3>2
    <2>4. 0 .. n \subseteq Typed
      <3> HIDE DEF Typed
      <3> QED
        BY <2>2, <2>3, Induction
    <2>5. f \in [0 .. n -> S]
      BY <1>8, <1>n, <2>4
    <2> QED
      BY <2>1, <2>5, <1>n DEF IsRun
  <1> HIDE DEF after
  <1> QED
    BY <1>6, <1>7, <1>8

\* What holds at the beginning of a loop and is kept by each turn holds at its
\* end.  I has the pairs of a number of turns and a state for which it holds.
LEMMA FoldInvariant ==
    ASSUME NEW S, NEW T, NEW step, IsTurn(step, T, S), NEW x \in S, NEW s \in Seq(T),
           NEW I, <<0, x>> \in I,
           \A k \in 0 .. Len(s) - 1, y \in S :
               <<k, y>> \in I => <<k + 1, step[s[k + 1]][y]>> \in I
    PROVE  Fold(step, x, s) \in S /\ <<Len(s), Fold(step, x, s)>> \in I
  <1>0. step \in [T -> [S -> S]]
    BY DEF IsTurn
  <1>1. PICK g : IsRun(g, S, step, x, s) /\ Fold(step, x, s) = g[Len(s)]
    BY <1>0, FoldRuns
  <1>2. PICK n \in Nat : n = Len(s)
    OBVIOUS
  <1>3. /\ g \in [0 .. n -> S] /\ g[0] = x
        /\ \A k \in 1 .. n : g[k] = step[s[k]][g[k - 1]]
    BY <1>1, <1>2 DEF IsRun
  <1> DEFINE K == {k \in 0 .. n : <<k, g[k]>> \in I}
  <1>4. 0 \in K
    <2>1. <<0, g[0]>> \in I
      <3>1. g[0] = x /\ <<0, x>> \in I
        BY <1>3
      <3> HIDE DEF K
      <3> QED
        BY <3>1, Zenon
    <2> QED
      BY <2>1
  <1>5. ASSUME NEW k \in 0 .. n, k \in K, k < n PROVE k + 1 \in K
    <2>1. k + 1 \in 1 .. n /\ (k + 1) - 1 = k /\ k \in 0 .. Len(s) - 1
      BY <1>2, <1>5
    <2>2. g[k + 1] = step[s[k + 1]][g[k]] /\ g[k] \in S /\ <<k, g[k]>> \in I
      BY <1>3, <1>5, <2>1
    <2>3. <<k + 1, g[k + 1]>> \in I
      BY <2>1, <2>2, Zenon
    <2> QED
      BY <1>5, <2>1, <2>3
  <1>6. 0 .. n \subseteq K
    <2> HIDE DEF K
    <2> QED
      BY <1>4, <1>5, Induction
  <1>7. n \in 0 .. n
    OBVIOUS
  <1>8. g[n] \in S /\ <<n, g[n]>> \in I
    BY <1>3, <1>6, <1>7
  <1> QED
    BY <1>1, <1>2, <1>8

\* An empty loop stays where it starts.
LEMMA FoldOfNothing ==
    ASSUME NEW S, NEW T, NEW step, IsTurn(step, T, S), NEW x \in S
    PROVE  Fold(step, x, << >>) = x
  <1>0. step \in [T -> [S -> S]]
    BY DEF IsTurn
  <1>1. PICK s : s = << >>
    OBVIOUS
  <1>2. s \in Seq(T) /\ Len(s) = 0
    BY <1>1
  <1>3. \A t \in Seq(T) : \E g : IsRun(g, S, step, x, t) /\ Fold(step, x, t) = g[Len(t)]
    BY <1>0, FoldRuns
  <1>4. PICK g : IsRun(g, S, step, x, s) /\ Fold(step, x, s) = g[Len(s)]
    BY <1>2, <1>3
  <1> QED
    BY <1>1, <1>2, <1>4 DEF IsRun

\* t is s with e behind it.
Grown(s, e, t) == t = Append(s, e)

\* A loop over one element more takes one step more.
LEMMA FoldOfAppend ==
    ASSUME NEW S, NEW T, NEW step, IsTurn(step, T, S), NEW x \in S, NEW s \in Seq(T),
           NEW e \in T, NEW t, Grown(s, e, t)
    PROVE  /\ Fold(step, x, s) \in S
           /\ Fold(step, x, t) = step[e][Fold(step, x, s)]
  <1>0. step \in [T -> [S -> S]]
    BY DEF IsTurn
  <1>n. PICK n \in Nat : n = Len(s)
    OBVIOUS
  <1>1. /\ t \in Seq(T) /\ Len(t) = n + 1 /\ t[n + 1] = e
        /\ \A k \in 1 .. n : t[k] = s[k]
    BY <1>n, AppendProperties DEF Grown
  <1>2. PICK g : IsRun(g, S, step, x, s) /\ Fold(step, x, s) = g[n]
    <2>1. PICK f : IsRun(f, S, step, x, s) /\ Fold(step, x, s) = f[Len(s)]
      BY <1>0, FoldRuns
    <2> QED
      BY <1>n, <2>1
  <1>3. PICK h : IsRun(h, S, step, x, t) /\ Fold(step, x, t) = h[n + 1]
    BY <1>0, <1>1, FoldRuns
  <1>4. /\ g \in [0 .. n -> S] /\ g[0] = x
        /\ \A k \in 1 .. n : g[k] = step[s[k]][g[k - 1]]
    BY <1>2, <1>n DEF IsRun
  <1>5. /\ h[0] = x
        /\ \A k \in 1 .. n + 1 : h[k] = step[t[k]][h[k - 1]]
    BY <1>3, <1>1 DEF IsRun
  <1> DEFINE K == {k \in 0 .. n : h[k] = g[k]}
  <1>6. 0 \in K
    BY <1>4, <1>5
  <1>7. ASSUME NEW k \in 0 .. n, k \in K, k < n PROVE k + 1 \in K
    <2>1. g[k + 1] = step[s[k + 1]][g[k]] /\ h[k + 1] = step[t[k + 1]][h[k]]
      BY <1>4, <1>5, <1>7
    <2>2. t[k + 1] = s[k + 1]
      BY <1>1, <1>7
    <2> QED
      BY <1>7, <2>1, <2>2
  <1>8. 0 .. n \subseteq K
    <2> HIDE DEF K
    <2> QED
      BY <1>6, <1>7, Induction
  <1>9. n \in 0 .. n /\ n + 1 \in 1 .. n + 1
    OBVIOUS
  <1>10. h[n] = g[n] /\ g[n] \in S
    BY <1>4, <1>8, <1>9
  <1>11. h[n + 1] = step[e][h[n]]
    BY <1>1, <1>5, <1>9
  <1> QED
    BY <1>2, <1>3, <1>10, <1>11

-----------------------------------------------------------------------------
\* Positions.

\* Those of the positions I that are at most i.
UpTo(I, i) == I \cap 1 .. i

\* Positions up to a number can be counted, one number at a time.
LEMMA Counting ==
    ASSUME NEW I \in SUBSET (Nat \ {0}), NEW i \in Nat
    PROVE  /\ IsFiniteSet(UpTo(I, i))
           /\ Cardinality(UpTo(I, i)) \in Nat
           /\ Cardinality(UpTo(I, i + 1)) =
                 IF i + 1 \in I THEN Cardinality(UpTo(I, i)) + 1
                                ELSE Cardinality(UpTo(I, i))
  <1>0. \A j \in I : j \in Nat /\ j >= 1
    OBVIOUS
  <1>1. IsFiniteSet(UpTo(I, i))
    <2>1. IsFiniteSet(1 .. i)
      BY FS_Interval
    <2>2. UpTo(I, i) \subseteq 1 .. i
      BY <1>0 DEF UpTo
    <2> QED
      BY <2>1, <2>2, FS_Subset
  <1>2. CASE i + 1 \in I
    <2>1. UpTo(I, i + 1) = UpTo(I, i) \cup {i + 1}
      BY <1>0, <1>2 DEF UpTo
    <2>2. i + 1 \notin UpTo(I, i)
      BY DEF UpTo
    <2> QED
      BY <1>1, <1>2, <2>1, <2>2, FS_AddElement, FS_CardinalityType
  <1>3. CASE i + 1 \notin I
    <2>1. UpTo(I, i + 1) = UpTo(I, i)
      BY <1>0, <1>3 DEF UpTo
    <2> QED
      BY <1>1, <1>3, <2>1, FS_CardinalityType
  <1> QED
    BY <1>1, <1>2, <1>3

\* Each position that is counted is found, where the count reaches it.
LEMMA NthExists ==
    ASSUME NEW n \in Nat, NEW I \in SUBSET (1 .. n), NEW k \in 1 .. Cardinality(I)
    PROVE  Nth(I, k) \in I /\ Cardinality(UpTo(I, Nth(I, k))) = k
  <1>0. I \in SUBSET (Nat \ {0}) /\ \A j \in I : j \in 1 .. n
    OBVIOUS
  <1> DEFINE T == {i \in 0 .. n : k <= Cardinality(UpTo(I, i))}
  <1>1. n \in T /\ T \in SUBSET Nat
    <2>1. UpTo(I, n) = I
      BY <1>0 DEF UpTo
    <2>2. Cardinality(I) \in Nat
      BY <1>0, <2>1, Counting
    <2> QED
      BY <2>1, <2>2
  <1>2. PICK i \in T : \A y \in T : i <= y
    BY <1>1, LeastNatural
  <1>3. i \in 1 .. n
    <2>1. UpTo(I, 0) = {}
      BY <1>0 DEF UpTo
    <2>2. Cardinality(UpTo(I, 0)) = 0
      BY <2>1, FS_EmptySet
    <2> QED
      BY <1>2, <2>2
  <1>w. PICK w : w = i - 1
    OBVIOUS
  <1>4. w \in 0 .. n /\ w \in Nat /\ w \notin T /\ w + 1 = i
    BY <1>2, <1>3, <1>w
  <1>5. /\ Cardinality(UpTo(I, w)) \in Nat
        /\ Cardinality(UpTo(I, i)) =
              IF i \in I THEN Cardinality(UpTo(I, w)) + 1 ELSE Cardinality(UpTo(I, w))
    BY <1>0, <1>4, Counting
  <1>6. i \in I /\ Cardinality(UpTo(I, i)) = k
    BY <1>2, <1>4, <1>5
  <1> QED
    BY <1>6, Zenon DEF Nth, UpTo

\* A position behind all others is the last; the others stay where they were.
LEMMA NthOfMore ==
    ASSUME NEW n \in Nat, NEW I \in SUBSET (1 .. n)
    PROVE  /\ Cardinality(I) \in Nat
           /\ Cardinality(I \cup {n + 1}) = Cardinality(I) + 1
           /\ Nth(I \cup {n + 1}, Cardinality(I) + 1) = n + 1
           /\ \A k \in 1 .. Cardinality(I) :
                 Nth(I, k) \in I /\ Nth(I \cup {n + 1}, k) = Nth(I, k)
  <1>d. PICK J, c : J = I \cup {n + 1} /\ c = Cardinality(I)
    OBVIOUS
  <1>0. I \in SUBSET (Nat \ {0}) /\ J \in SUBSET (Nat \ {0})
        /\ J \in SUBSET (1 .. n + 1) /\ I \in SUBSET (1 .. n + 1)
        /\ \A j \in I : j \in 1 .. n
    BY <1>d
  <1>1. \A i \in 1 .. n : UpTo(J, i) = UpTo(I, i)
    BY <1>d DEF UpTo
  <1>2. UpTo(I, n) = I /\ UpTo(J, n) = I /\ UpTo(J, n + 1) = J
    <2>1. UpTo(I, n) = I
      BY DEF UpTo
    <2>2. n + 1 \notin 1 .. n
      OBVIOUS
    <2>3. UpTo(J, n) = I
      BY <2>1, <2>2, <1>d DEF UpTo
    <2>4. UpTo(J, n + 1) = J
      BY <1>0 DEF UpTo
    <2> QED
      BY <2>1, <2>3, <2>4
  <1>3. c \in Nat /\ Cardinality(J) = c + 1
    BY <1>d, <1>0, <1>2, Counting
  <1>4. ASSUME NEW i \in 1 .. n PROVE Cardinality(UpTo(I, i)) <= c
    <2>1. UpTo(I, i) \subseteq I
      BY DEF UpTo
    <2>2. IsFiniteSet(I)
      BY <1>0, <1>2, Counting
    <2> QED
      BY <2>1, <2>2, <1>d, FS_Subset
  <1>5. Nth(J, c + 1) = n + 1
    <2>1. c + 1 \in 1 .. Cardinality(J) /\ n + 1 \in Nat
      BY <1>3
    <2>2. Nth(J, c + 1) \in J /\ Cardinality(UpTo(J, Nth(J, c + 1))) = c + 1
      BY <1>0, <2>1, NthExists
    <2>3. ASSUME NEW i \in 1 .. n PROVE ~ (Cardinality(UpTo(J, i)) = c + 1)
      <3>1. Cardinality(UpTo(I, i)) <= c /\ UpTo(J, i) = UpTo(I, i)
        BY <1>1, <1>4
      <3> QED
        BY <1>3, <3>1
    <2> QED
      BY <1>d, <2>2, <2>3
  <1>6. ASSUME NEW k \in 1 .. c PROVE Nth(I, k) \in I /\ Nth(J, k) = Nth(I, k)
    <2>1. ASSUME NEW i PROVE (i \in J /\ Cardinality(UpTo(J, i)) = k)
                             <=> (i \in I /\ Cardinality(UpTo(I, i)) = k)
      <3>1. CASE i = n + 1
        <4>1. i \notin I
          BY <1>0, <3>1
        <4>2. Cardinality(UpTo(J, i)) = c + 1
          BY <1>2, <1>3, <3>1
        <4> QED
          BY <1>3, <4>1, <4>2
      <3>2. CASE i \in 1 .. n
        BY <1>1, <1>d, <3>2
      <3>3. CASE i # n + 1 /\ i \notin 1 .. n
        BY <1>d, <1>0, <3>3
      <3> QED
        BY <3>1, <3>2, <3>3
    <2>2. Nth(J, k) = Nth(I, k)
      BY <2>1, Zenon DEF Nth, UpTo
    <2>3. Nth(I, k) \in I
      BY <1>d, NthExists
    <2> QED
      BY <2>2, <2>3
  <1> QED
    BY <1>d, <1>3, <1>5, <1>6

\* I are positions in s.
Within(I, s) == I \subseteq 1 .. Len(s)

\* What is picked out of a sequence that grows: what was, when the new element
\* is not.
LEMMA PickedOfOthers ==
    ASSUME NEW S, NEW s \in Seq(S), NEW e \in S, NEW t, Grown(s, e, t),
           NEW I, Within(I, s)
    PROVE  Picked(t, I) = Picked(s, I)
  <1>d. PICK n, c : n = Len(s) /\ c = Cardinality(I)
    OBVIOUS
  <1>1. n \in Nat /\ I \in SUBSET (1 .. n) /\ \A i \in 1 .. n : t[i] = s[i]
    BY <1>d DEF Grown, Within
  <1>2. \A k \in 1 .. c : Nth(I, k) \in I
    BY <1>1, <1>d, NthOfMore
  <1>3. \A k \in 1 .. c : t[Nth(I, k)] = s[Nth(I, k)]
    BY <1>1, <1>2
  <1> QED
    BY <1>d, <1>3 DEF Picked

\* And with it as the last, when it is.
LEMMA PickedOfAppend ==
    ASSUME NEW S, NEW s \in Seq(S), NEW e \in S, NEW t, Grown(s, e, t),
           NEW I, Within(I, s)
    PROVE  /\ Picked(s, I) \in Seq(S)
           /\ Len(Picked(s, I)) = Cardinality(I)
           /\ Grown(Picked(s, I), e, Picked(t, I \cup {Len(s) + 1}))
  <1>d. PICK n, J, c : n = Len(s) /\ J = I \cup {n + 1} /\ c = Cardinality(I)
    OBVIOUS
  <1>1. /\ n \in Nat /\ t[n + 1] = e /\ I \in SUBSET (1 .. n)
        /\ \A i \in 1 .. n : t[i] = s[i] /\ s[i] \in S
    BY <1>d DEF Grown, Within
  <1>2. /\ c \in Nat /\ Cardinality(J) = c + 1 /\ Nth(J, c + 1) = n + 1
        /\ \A k \in 1 .. c : Nth(I, k) \in I /\ Nth(J, k) = Nth(I, k)
    BY <1>1, <1>d, NthOfMore
  <1>3. ASSUME NEW k \in 1 .. c
        PROVE  s[Nth(I, k)] \in S /\ t[Nth(J, k)] = s[Nth(I, k)]
    <2>1. Nth(I, k) \in 1 .. n /\ Nth(J, k) = Nth(I, k)
      BY <1>1, <1>2
    <2> QED
      BY <1>1, <2>1
  <1>4. PICK p, q : p = Picked(s, I) /\ q = Picked(t, J)
    OBVIOUS
  <1>5. /\ p = [k \in 1 .. c |-> s[Nth(I, k)]]
        /\ q = [k \in 1 .. c + 1 |-> t[Nth(J, k)]]
    BY <1>2, <1>d, <1>4 DEF Picked
  <1>6. q = Append(p, e)
    BY <1>1, <1>2, <1>3, <1>5
  <1>7. p \in Seq(S) /\ Len(p) = c
    BY <1>2, <1>3, <1>5
  <1> QED
    BY <1>4, <1>6, <1>7, <1>d DEF Grown

\* Nothing is picked out of the empty sequence.
LEMMA PickedOfNothing == \A s : Picked(s, {}) = << >>
  <1>1. Cardinality({}) = 0
    BY FS_EmptySet
  <1> QED
    BY <1>1 DEF Picked

-----------------------------------------------------------------------------
\* The blocks a file holds whole.

\* The positions of those in f.
Whole(f) == {i \in DOMAIN f : f[i].whole}

\* What the blocks of f carry.
Data(f) == [i \in DOMAIN f |-> f[i].data]

\* The blocks a file holds whole can be counted.
LEMMA StoredCount ==
    ASSUME NEW S, NEW f \in Seq(S)
    PROVE  Len(WholeBlocks(f)) \in Nat
  <1>1. Whole(f) \in SUBSET (1 .. Len(f)) /\ Len(f) \in Nat
    BY DEF Whole
  <1>2. PICK c : c = Cardinality(Whole(f))
    OBVIOUS
  <1>3. c \in Nat
    BY <1>1, <1>2, NthOfMore
  <1>4. WholeBlocks(f) = [k \in 1 .. c |-> Data(f)[Nth(Whole(f), k)]]
    BY <1>2 DEF WholeBlocks, Picked, Whole, Data
  <1> QED
    BY <1>3, <1>4

\* Nothing is in an empty file.
LEMMA NothingStored == WholeBlocks(<< >>) = << >>
  <1>1. Whole(<< >>) = {}
    BY DEF Whole
  <1> QED
    BY <1>1, PickedOfNothing DEF WholeBlocks, Whole

\* What is written next is the last block of the file.
LEMMA FileAppended ==
    ASSUME NEW S, NEW f \in Seq(S), NEW b \in S, NEW D, \A c \in S : c.data \in D
    PROVE  /\ Data(f) \in Seq(D) /\ Len(Data(f)) = Len(f)
           /\ Grown(Data(f), b.data, Data(Append(f, b)))
  <1>d. PICK n, g : n = Len(f) /\ g = Append(f, b)
    OBVIOUS
  <1>1. /\ n \in Nat /\ DOMAIN f = 1 .. n /\ DOMAIN g = 1 .. n + 1 /\ g[n + 1] = b
        /\ \A i \in 1 .. n : g[i] = f[i] /\ f[i] \in S
    BY <1>d
  <1>2. Data(f) = [i \in 1 .. n |-> f[i].data] /\ Data(g) = [i \in 1 .. n + 1 |-> g[i].data]
    BY <1>1 DEF Data
  <1>3. Data(f) \in Seq(D) /\ Len(Data(f)) = n
    BY <1>1, <1>2
  <1>4. Data(g) = Append(Data(f), b.data)
    BY <1>1, <1>2, <1>3
  <1> QED
    BY <1>d, <1>3, <1>4 DEF Grown

\* It is among those that are whole when it is.
LEMMA WholeAppended ==
    ASSUME NEW S, NEW f \in Seq(S), NEW b \in S
    PROVE  /\ Whole(f) \in SUBSET (1 .. Len(f))
           /\ b.whole => Whole(Append(f, b)) = Whole(f) \cup {Len(f) + 1}
           /\ ~b.whole => Whole(Append(f, b)) = Whole(f)
  <1>d. PICK n, g : n = Len(f) /\ g = Append(f, b)
    OBVIOUS
  <1>1. /\ n \in Nat /\ DOMAIN f = 1 .. n /\ DOMAIN g = 1 .. n + 1 /\ g[n + 1] = b
        /\ \A i \in 1 .. n : g[i] = f[i]
    BY <1>d
  <1>2. \A i \in 1 .. n : g[i].whole = f[i].whole
    BY <1>1
  <1>3. Whole(f) = {i \in 1 .. n : f[i].whole} /\ Whole(g) = {i \in 1 .. n + 1 : g[i].whole}
    BY <1>1 DEF Whole
  <1>4. b.whole => Whole(g) = Whole(f) \cup {n + 1}
    BY <1>1, <1>2, <1>3
  <1>5. ~b.whole => Whole(g) = Whole(f)
    BY <1>1, <1>2, <1>3
  <1>6. Whole(f) \in SUBSET (1 .. n)
    BY <1>3
  <1> QED
    BY <1>d, <1>4, <1>5, <1>6

\* Each element of t is one of s, or x behind them.
GrowsBy(s, t, x) ==
    \A i \in DOMAIN t : \/ i \in DOMAIN s /\ t[i] = s[i]
                        \/ i = Len(s) + 1 /\ t[i] = x

\* A block that was written whole is stored behind the others.
LEMMA WholeIsStored ==
    ASSUME NEW S, NEW f \in Seq(S), NEW b \in S, b.whole = TRUE
    PROVE  /\ WholeBlocks(Append(f, b)) = Append(WholeBlocks(f), b.data)
           /\ Len(WholeBlocks(Append(f, b))) = Len(WholeBlocks(f)) + 1
           /\ GrowsBy(WholeBlocks(f), WholeBlocks(Append(f, b)), b.data)
  <1> DEFINE D == {d.data : d \in S}
  <1>0. \A c \in S : c.data \in D
    OBVIOUS
  <1> HIDE DEF D
  <1>1. /\ Data(f) \in Seq(D) /\ Len(Data(f)) = Len(f)
        /\ Grown(Data(f), b.data, Data(Append(f, b)))
    BY <1>0, FileAppended, Zenon
  <1>2. Whole(f) \in SUBSET (1 .. Len(f))
    BY WholeAppended, Zenon
  <1>3. Whole(Append(f, b)) = Whole(f) \cup {Len(f) + 1}
    BY WholeAppended, Zenon
  <1>4. b.data \in D
    BY <1>0
  <1>5. PICK w, v, d, I, n :
            w = Data(f) /\ v = Data(Append(f, b)) /\ d = b.data /\ I = Whole(f) /\ n = Len(f)
    OBVIOUS
  <1>6. w \in Seq(D) /\ n = Len(w) /\ d \in D /\ Within(I, w) /\ Grown(w, d, v)
    BY <1>1, <1>2, <1>4, <1>5 DEF Within
  <1>7. PICK s, t : s = Picked(w, I) /\ t = Picked(v, I \cup {n + 1})
    OBVIOUS
  <1>8. s \in Seq(D) /\ t = Append(s, d)
    <2>1. s \in Seq(D) /\ Grown(s, d, t)
      BY <1>5, <1>6, <1>7, PickedOfAppend
    <2> QED
      BY <2>1 DEF Grown
  <1>9. Len(t) = Len(s) + 1 /\ GrowsBy(s, t, d)
    BY <1>6, <1>8 DEF GrowsBy
  <1>10. s = WholeBlocks(f) /\ t = WholeBlocks(Append(f, b))
    BY <1>3, <1>5, <1>7, Zenon DEF WholeBlocks, Whole, Data
  <1> QED
    BY <1>5, <1>8, <1>9, <1>10

\* A block that was written in part is not.
LEMMA PartIsNotStored ==
    ASSUME NEW S, NEW f \in Seq(S), NEW b \in S, b.whole = FALSE
    PROVE  WholeBlocks(Append(f, b)) = WholeBlocks(f)
  <1> DEFINE D == {d.data : d \in S}
  <1>0. \A c \in S : c.data \in D
    OBVIOUS
  <1> HIDE DEF D
  <1>1. /\ Data(f) \in Seq(D) /\ Len(Data(f)) = Len(f)
        /\ Grown(Data(f), b.data, Data(Append(f, b)))
    BY <1>0, FileAppended, Zenon
  <1>2. Whole(f) \in SUBSET (1 .. Len(f))
    BY WholeAppended, Zenon
  <1>3. Whole(Append(f, b)) = Whole(f)
    BY WholeAppended, Zenon
  <1>4. b.data \in D
    BY <1>0
  <1>5. PICK w, v, d, I, n :
            w = Data(f) /\ v = Data(Append(f, b)) /\ d = b.data /\ I = Whole(f) /\ n = Len(f)
    OBVIOUS
  <1>6. w \in Seq(D) /\ n = Len(w) /\ d \in D /\ Within(I, w) /\ Grown(w, d, v)
    BY <1>1, <1>2, <1>4, <1>5 DEF Within
  <1>7. Picked(v, I) = Picked(w, I)
    BY <1>6, PickedOfOthers
  <1> QED
    BY <1>3, <1>5, <1>7, Zenon DEF WholeBlocks, Whole, Data
=============================================================================
