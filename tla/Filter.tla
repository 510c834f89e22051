-------------------------------- MODULE Filter ---------------------------------
(***************************************************************************)
(* Array.filter, which several components use: a recursive function, for   *)
(* which the proofs can say what it keeps.                                 *)
(***************************************************************************)
EXTENDS Naturals, Sequences

\* The elements of a sequence that are in a set, in their order.
Among(seq, set) ==
  LET upTo[k \in 0 .. Len(seq)] ==
        IF k = 0 THEN <<>>
        ELSE IF seq[k] \in set THEN Append(upTo[k - 1], seq[k]) ELSE upTo[k - 1]
  IN  upTo[Len(seq)]
================================================================================
