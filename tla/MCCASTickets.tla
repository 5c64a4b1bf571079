----------------------------- MODULE MCCASTickets -----------------------------
(***************************************************************************)
(* Instances of CASTickets for TLC.                                        *)
(***************************************************************************)
EXTENDS CASTickets, TLC

CONSTANTS w1, w2, alice, bob, portal, broken, none

OneWorker  == {w1}
TwoWorkers == {w1, w2}
OneUser    == {alice}
TwoUsers   == {alice, bob}
OneService == {portal}
BothServices == {portal, broken}
Broken     == {broken}
NoBroken   == {}

WorkerUserSymmetry == Permutations(Worker) \cup Permutations(User)

===============================================================================
