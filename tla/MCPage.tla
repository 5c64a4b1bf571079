------------------------------- MODULE MCPage -------------------------------
(* Three pages, one of them redirected to another; two menus, disks and         *)
(* clickovers, and three options for two choices; three handlers at the document.*)
EXTENDS Page

CONSTANTS home, list, old, fn1, fn2

MCUrls    == {home, list, old}
MCMoved   == [u \in {old} |-> list]
MCOptions == <<"small", "large", "other">>
MCPlaces  == {<<1, NoSelector>>, <<3, NoSelector>>, <<3, 1>>, <<3, 2>>}
OnDocument(s, fn, ns, o) == [elem |-> 3, h |-> [selector |-> s, guid |-> fn, namespace |-> ns, once |-> o]]
MCLoaded  == {<<OnDocument(NoSelector, fn2, {"bs"}, FALSE), OnDocument(2, fn1, {}, TRUE), OnDocument(1, fn1, {}, FALSE)>>}
MCAlt     == [o \in {"small", "large", "other"} |-> IF o = "large" THEN "y" ELSE "x"]
=============================================================================
