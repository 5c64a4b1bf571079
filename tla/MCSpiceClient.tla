---------------------------- MODULE MCSpiceClient ----------------------------
(* Pieces of one to three bytes, so that a chunk may hold a part of a piece, a *)
(* piece, or several.  A modifier the page recognises and the one it does not, *)
(* two buttons, two places, a bunch of two, so that the window of four is soon *)
(* full.                                                                       *)
EXTENDS SpiceClient

MCBodySizes  == {0, 1, 3}
MCModifiers  == {"ctrl", "meta"}
MCRecognised == {"ctrl"}
MCButtons    == {"left", "right"}
MCPlaces     == {0, 1}
==============================================================================
