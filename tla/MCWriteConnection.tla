-------------------------- MODULE MCWriteConnection --------------------------
(***************************************************************************)
(* WriteConnection with any client: full blocks of every number and an     *)
(* empty one, in any order and any number of times, errors, and another    *)
(* endpoint's blocks.                                                      *)
(***************************************************************************)
EXTENDS WriteConnection

CONSTANTS server, client, stranger

MCPackets ==
    {DataPacket(n, 0, DEFAULT_DATA_SIZE) : n \in 0 .. BlockModulus - 1}
        \cup {DataPacket(1, 0, 0), ErrorPacket(ERRCODE_UNDEFINED)}

MCArrivals ==
    [src : {client}, pkt : MCPackets]
        \cup {[src |-> stranger, pkt |-> DataPacket(1, 0, DEFAULT_DATA_SIZE)]}
=============================================================================
