----------------------------- MODULE InstanceLife -----------------------------
(***************************************************************************)
(* What the record of an instance promises: it is requested, its           *)
(* deployment is submitted, and when that has succeeded it names one       *)
(* machine, for good.  A deployment may be submitted again as long as no   *)
(* machine is named.                                                       *)
(***************************************************************************)
CONSTANT Machines

VARIABLES
  phase,  \* "requested", "submitted" or "created"
  named   \* the machine, 0 before there is one

Init == phase = "requested" /\ named = 0

Submit == phase = "requested" /\ phase' = "submitted" /\ UNCHANGED named

Create ==
  /\ phase = "submitted" /\ phase' = "created"
  /\ named = 0 /\ named' \in Machines

Next == Submit \/ Create

Spec == Init /\ [][Next]_<<phase, named>>
===============================================================================
