---------------------------- MODULE SpiceConsole ----------------------------
(* What the console client does with the messages it is given: the sessions of *)
(* the page and their connections (SpiceSession), what a display channel shows *)
(* (SpiceDisplay), and the data that the messages carry (SpiceData).  They     *)
(* share no state; a behaviour is one part's, the others staying as they       *)
(* begin, so nothing is lost by taking one at a time.                          *)
EXTENDS SpiceSession, SpiceDisplay, SpiceData

VARIABLE part    \* the part at work

vars == <<part, consoleVars, displayVars, data>>

Init ==
  /\ part \in {"sessions", "display", "data"}
  /\ ConsoleInit /\ DisplayInit /\ DataInit

OnSessions == part = "sessions" /\ UNCHANGED <<part, displayVars, data>>
OnDisplay  == part = "display" /\ UNCHANGED <<part, consoleVars, data>>
OnData     == part = "data" /\ UNCHANGED <<part, consoleVars, displayVars>>

Next == (OnSessions /\ ConsoleNext) \/ (OnDisplay /\ DisplayNext) \/ (OnData /\ DataNext)

Spec == Init /\ [][Next]_vars

-----------------------------------------------------------------------------
(* The ticket opens with the password, and the hash it is made with is the     *)
(* standard's (both parts are in SpiceData).                                   *)
TicketsOpen == TicketOpens /\ HashStandard

(* Messages say what was said, and each key is released as it was pressed      *)
(* (both parts are in SpiceData).                                              *)
MessagesAgree == MessagesRead /\ KeysRelease
=============================================================================
