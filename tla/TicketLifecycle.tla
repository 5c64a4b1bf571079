---------------------------- MODULE TicketLifecycle ----------------------------
(***************************************************************************)
(* What the CAS server promises about a ticket that grants access to a     *)
(* service (cas.rb: "Ticket ... has already been used up."): it is issued  *)
(* once, presented with success at most once, and worthless afterwards,    *)
(* whether the answer reached the service or not.                          *)
(***************************************************************************)
EXTENDS Naturals

CONSTANT Ticket

VARIABLES
  state,   \* where each ticket is in its life
  told     \* how often a service was told that the ticket is valid

Init ==
  /\ state = [t \in Ticket |-> "unissued"]
  /\ told = [t \in Ticket |-> 0]

Move(tickets, from, to) ==
  /\ \A t \in tickets : state[t] \in from
  /\ state' = [t \in Ticket |-> IF t \in tickets THEN to ELSE state[t]]

Issue(t) == Move({t}, {"unissued"}, "valid") /\ UNCHANGED told

\* The ticket is used up, its answer is still being prepared.
Claim(t) == Move({t}, {"valid"}, "claimed") /\ UNCHANGED told

Redeem(t) ==
  /\ Move({t}, {"valid", "claimed"}, "redeemed")
  /\ told' = [told EXCEPT ![t] = @ + 1]

\* A refused presentation, a failed answer, or the end of the session.
Void(tickets) == Move(tickets, {"valid", "claimed"}, "void") /\ UNCHANGED told

Next ==
  \/ \E t \in Ticket : Issue(t) \/ Claim(t) \/ Redeem(t)
  \/ \E tickets \in SUBSET Ticket : Void(tickets)

Spec == Init /\ [][Next]_<<state, told>>

===============================================================================
