---------------------------- MODULE MCClientGet ----------------------------
(***************************************************************************)
(* ClientGet with two endpoints that answer its request, whose packets     *)
(* arrive in any order and number.                                         *)
(***************************************************************************)
EXTENDS ClientGet

CONSTANTS client, port69, session, stranger

MCPeers == {session, stranger}

\* The server has a file of one full and one short block; number 0 is what a
\* server that goes on would send next.  A second endpoint has a block 1 too.
MCArrivals ==
    [src : {session},
     pkt : {DataPacket(0, 3, DEFAULT_DATA_SIZE), DataPacket(1, 1, DEFAULT_DATA_SIZE),
            DataPacket(2, 2, DEFAULT_DATA_SIZE - 1), ErrorPacket(ERRCODE_UNDEFINED)}]
    \cup [src : {stranger}, pkt : {DataPacket(1, 1, DEFAULT_DATA_SIZE)}]
=============================================================================
