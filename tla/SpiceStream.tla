----------------------------- MODULE SpiceStream -----------------------------
(* What a SPICE channel promises the code above it: while the channel is open, *)
(* the messages the server sent are handled one at a time, each once, in the   *)
(* order they were sent, and every one of them is handled unless the channel   *)
(* ends.  Chunks, headers and the handshake do not appear here; SpiceWire is   *)
(* shown to implement this module.                                             *)
EXTENDS Sequences, Naturals

VARIABLES sent,             \* the messages the server has sent
          handled,          \* the messages process_message has been given
          over              \* the channel has ended

stream == <<sent, handled, over>>

Init == sent = <<>> /\ handled = <<>> /\ over = FALSE

Send ==
  /\ Len(sent') = Len(sent) + 1
  /\ SubSeq(sent', 1, Len(sent)) = sent
  /\ UNCHANGED <<handled, over>>

Handle ==
  /\ ~over
  /\ Len(handled) < Len(sent)
  /\ handled' = Append(handled, sent[Len(handled) + 1])
  /\ UNCHANGED <<sent, over>>

End == ~over /\ over' = TRUE /\ UNCHANGED <<sent, handled>>

Next == Send \/ Handle \/ End

Spec == Init /\ [][Next]_stream /\ WF_stream(Handle)
==============================================================================
