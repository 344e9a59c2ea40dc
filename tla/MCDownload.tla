---------------------------- MODULE MCDownload ----------------------------
(***************************************************************************)
(* A download of a full and a short block, over a network that may do      *)
(* anything to a datagram but change it.                                   *)
(***************************************************************************)
EXTENDS Download

CONSTANTS client, port69, conn, other

MCPeers == {conn, other}
=============================================================================
