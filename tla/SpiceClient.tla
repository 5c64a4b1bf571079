----------------------------- MODULE SpiceClient -----------------------------
(* A connection of the console client: the stream that any of them reads       *)
(* (SpiceWire), and what the mouse and the keyboard send on that of the inputs *)
(* (SpiceInputs).  They share no state; a behaviour is the one's or the        *)
(* other's, the rest staying as it begins, so nothing is lost by taking one at *)
(* a time.                                                                     *)
EXTENDS SpiceWire, SpiceInputs

VARIABLE part    \* the part at work

vars == <<part, wireVars, inputsVars>>

Init ==
  /\ part \in {"wire", "inputs"}
  /\ WireInit /\ InputsInit
  \* What is not at work begins in one way.
  /\ part # "wire" => ~onerror
  /\ part # "inputs" => /\ mouse_mode = "client" /\ down = {}
                       /\ known = [m \in Modifiers |-> Undefined]

OnWire   == part = "wire" /\ UNCHANGED <<part, inputsVars>>
OnInputs == part = "inputs" /\ UNCHANGED <<part, wireVars>>

Next == (OnWire /\ WireNext) \/ (OnInputs /\ InputsNext)

\* A handler runs to its end, the network delivers what was sent, a socket that
\* was closed tells so, and a timer fires; motions and acknowledgements arrive.
Fairness ==
  /\ WF_vars(OnWire /\ Loop)
  /\ WF_vars(OnWire /\ Inbound)
  /\ WF_vars(OnWire /\ ws \in {"failing", "closing"} /\ (Fails \/ CloseEvent))
  /\ WF_vars(OnWire /\ TimesOut)
  /\ WF_vars(OnInputs /\ ServerReads) /\ WF_vars(OnInputs /\ MotionAck)

Spec == Init /\ [][Next]_vars /\ Fairness

-----------------------------------------------------------------------------
(* After every chunk the reader is at the beginning of the piece it waits for, *)
(* with its length in needed, and no whole message waits in the page           *)
(* (SpiceWireReader.inbound; both parts are in SpiceWire).                     *)
InStep == AtPieces /\ NothingWaits

(* The guest's pointer and buttons are the user's, and its modifier keys those *)
(* the page believes down, but for what is lost, odd or missed, by a session   *)
(* before it too (both parts are in SpiceInputs).                              *)
GuestAgrees == PointerAgrees /\ ModifiersAgree
=============================================================================
