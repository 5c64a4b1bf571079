------------------------------- MODULE Lists -------------------------------
(* What jQuery leaves of its lists when it has spliced out of them, one by one,*)
(* what is to go: the elements that stay, in their order.                      *)
EXTENDS Naturals, Sequences

Only(s, stays) ==
  LET kept[k \in 0..Len(s)] ==
        IF k = 0 THEN <<>> ELSE IF s[k] \in stays THEN Append(kept[k - 1], s[k]) ELSE kept[k - 1]
  IN  kept[Len(s)]
=============================================================================
