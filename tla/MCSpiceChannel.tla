--------------------------- MODULE MCSpiceChannel ---------------------------
(* One shape, windows of none and of one message, set twice; most messages     *)
(* where they are of fewest kinds.                                             *)
EXTENDS SpiceChannel

MCKinds   == {"main", "display", "inputs", "cursor", "other"}
MCWindows == {0, 1}
MCShapes  == {"arrow"}
MCMessages == [k \in MCKinds |-> IF k \in {"inputs", "other"} THEN 4 ELSE 3]

==============================================================================
