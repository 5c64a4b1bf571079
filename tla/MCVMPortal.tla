------------------------------ MODULE MCVMPortal ------------------------------
(***************************************************************************)
(* Instances of VMPortal for TLC.                                          *)
(***************************************************************************)
EXTENDS VMPortal, TLC

CONSTANTS web1, web2, thread1, thread2

OneWeb     == {web1}
TwoWebs    == {web1, web2}
OneThread  == {thread1}
TwoThreads == {thread1, thread2}

Approvals  == {"approve"}
AllRequests == Requests
ApproveAndStart == {"approve", "start"}
ActorSymmetry == Permutations(Web) \cup Permutations(Sidekiq)
===============================================================================
