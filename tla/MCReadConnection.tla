-------------------------- MODULE MCReadConnection --------------------------
(***************************************************************************)
(* ReadConnection with any client: acknowledgements of every number, in    *)
(* any order and number, errors and junk, from the client's endpoint and   *)
(* from another one.                                                       *)
(***************************************************************************)
EXTENDS ReadConnection

CONSTANTS server, client, stranger

MCArrivals ==
    [src : {client, stranger},
     pkt : {AckPacket(n) : n \in 0 .. BlockModulus - 1}
              \cup {ErrorPacket(ERRCODE_UNDEFINED), InvalidPacket}]
=============================================================================
