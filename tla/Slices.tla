------------------------------- MODULE Slices --------------------------------
(***************************************************************************)
(* The loop that builds a slice from some elements of another, in order.   *)
(***************************************************************************)
EXTENDS Integers, Sequences

\* The elements of s at the positions in P.
Picked(s, P) ==
  LET upTo[n \in 0..Len(s)] ==
        IF n = 0 THEN <<>>
        ELSE IF n \in P THEN Append(upTo[n - 1], s[n]) ELSE upTo[n - 1]
  IN  upTo[Len(s)]
=============================================================================
