------------------------------ MODULE MCServer ------------------------------
(***************************************************************************)
(* A server, the requests of a client and their repetitions, packets of    *)
(* other kinds and junk; connections whose start() throws.                 *)
(***************************************************************************)
EXTENDS Server
=============================================================================
