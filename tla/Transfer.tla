------------------------------ MODULE Transfer ------------------------------
(***************************************************************************)
(* What a transfer promises, whichever way the file goes and whatever the  *)
(* network does: the receiver stores the blocks of the file in order, each *)
(* once, and the sender goes on to the next block only when the receiver   *)
(* has stored the one before.  The transfer may stop at any point.         *)
(*                                                                         *)
(* It does not promise the bytes: a block may be stored cut, or with those *)
(* of another datagram at its end.  It is then Garbled, but stands in the  *)
(* place of the block that was sent, not of an earlier or a later one.     *)
(***************************************************************************)
EXTENDS Naturals, Sequences

CONSTANTS
    Blocks,  \* DATA packets the file makes
    Garbled  \* what is stored of a block whose bytes were mixed up

VARIABLES
    sent,    \* blocks the sender has put on the wire for the first time
    stored   \* the blocks the receiver has stored whole

vars == <<sent, stored>>

Init ==
    /\ sent = 0
    /\ stored = << >>

Send ==
    /\ sent = Len(stored)
    /\ sent < Blocks
    /\ sent' = sent + 1
    /\ UNCHANGED stored

Store ==
    /\ Len(stored) < sent
    /\ \E b \in {sent, Garbled} : stored' = Append(stored, b)
    /\ UNCHANGED sent

Next == Send \/ Store

Spec == Init /\ [][Next]_vars
=============================================================================
