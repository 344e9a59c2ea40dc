-------------------------------- MODULE Loops --------------------------------
(***************************************************************************)
(* What the loops of the code compute from a sequence, said with recursive *)
(* functions and sets of positions rather than with recursive operators,   *)
(* so that it can be reasoned about.                                       *)
(***************************************************************************)
EXTENDS Integers, Sequences, FiniteSets

\* Where a loop over s ends that starts in x and goes from y to step[e][y] at an
\* element e.
Fold(step, x, s) ==
    LET after[k \in 0 .. Len(s)] ==
          IF k = 0 THEN x ELSE step[s[k]][after[k - 1]]
    IN  after[Len(s)]

\* The k-th of the positions I, the least first.
Nth(I, k) == CHOOSE i \in I : Cardinality(I \cap 1 .. i) = k

\* The elements of s at the positions I, in order.
Picked(s, I) == [k \in 1 .. Cardinality(I) |-> s[Nth(I, k)]]
=============================================================================
