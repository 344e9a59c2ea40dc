---------------------------- MODULE StoredBlocks ----------------------------
(***************************************************************************)
(* The blocks a receiver has stored whole.  A file is the sequence of what *)
(* its writes put there; a write that failed may have left a block that is *)
(* not whole, and the same block may follow again.                         *)
(***************************************************************************)
EXTENDS Loops

\* What the whole blocks of the file carry, in order.
WholeBlocks(f) ==
    Picked([i \in DOMAIN f |-> f[i].data], {i \in DOMAIN f : f[i].whole})
=============================================================================
