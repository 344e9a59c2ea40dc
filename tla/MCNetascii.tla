---------------------------- MODULE MCNetascii ----------------------------
(***************************************************************************)
(* Every file of up to MaxLength characters in packets of two: the pair of *)
(* characters a line end or a CR makes falls within a packet or across.    *)
(***************************************************************************)
EXTENDS Netascii

CONSTANT letter

MCOrdinary == {letter}
=============================================================================
