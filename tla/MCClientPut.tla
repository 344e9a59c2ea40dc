---------------------------- MODULE MCClientPut ----------------------------
(***************************************************************************)
(* ClientPut with two endpoints that answer its request, whose packets     *)
(* arrive in any order and number.                                         *)
(***************************************************************************)
EXTENDS ClientPut

CONSTANTS client, port69, session, stranger

MCPeers == {session, stranger}

\* The server acknowledges blocks of every number, and may report an error; a
\* second endpoint acknowledges the request and the first block.
MCArrivals ==
    [src : {session},
     pkt : {AckPacket(n) : n \in 0 .. BlockModulus - 1} \cup {ErrorPacket(ERRCODE_UNDEFINED)}]
    \cup [src : {stranger}, pkt : {AckPacket(0), AckPacket(1)}]
=============================================================================
