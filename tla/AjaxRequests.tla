---------------------------- MODULE AjaxRequests ----------------------------
(* jQuery.ajax: requests from beforeSend to complete, with the count of those   *)
(* under way that ajaxStart and ajaxStop go by.  Handlers run in the middle of  *)
(* it and may start requests, abort any, or throw.  An answer counts as success *)
(* by its status and when it converts (a script may not).  What resolves the    *)
(* promise is Deferreds'.                                                       *)
EXTENDS Naturals, Integers, Sequences, SequencesExt, FiniteSets

CONSTANTS Xhrs           \* the requests a page makes, jqXHR objects

ASSUME AjaxAssumption == IsFiniteSet(Xhrs)

VARIABLES
  jqXHR,      \* the request's variables in the closure of jQuery.ajax
  active,     \* jQuery.active
  spinning,   \* between ajaxStart and ajaxStop
  running,    \* the handlers running: of which request, and when; innermost last
  told,       \* what the caller's success, error and complete were called with
  lapses      \* requests left in the middle by an exception, or ended twice

ajaxVars == <<jqXHR, active, spinning, running, told, lapses>>

AjaxInit ==
  /\ jqXHR = [r \in Xhrs |-> [made |-> FALSE, installed |-> FALSE, state |-> 0, transport |-> FALSE, callback |-> FALSE]]
  /\ active = 0 /\ spinning = FALSE /\ running = <<>> /\ told = [r \in Xhrs |-> <<>>]
  /\ lapses = [left |-> {}, twice |-> {}]

-----------------------------------------------------------------------------
Handler     == Last(running)
Outer       == SubSeq(running, 1, Len(running) - 1)
Runs(at)    == running # <<>> /\ Handler.at = at
In(x, when) == [of |-> x, at |-> when]

\* done, to the first handler: the caller's own are called once, if installed.
done(x, outcome, outer) ==
  IF jqXHR[x].state = 2 THEN running' = outer /\ UNCHANGED <<jqXHR, told>>
  ELSE /\ jqXHR' = [jqXHR EXCEPT ![x].state = 2, ![x].transport = FALSE]
       /\ told' = IF jqXHR[x].installed /\ told[x] = <<>> THEN [told EXCEPT ![x] = <<outcome>>] ELSE told
       /\ running' = Append(outer, In(x, "settled"))

\* To beforeSend.  The first of all is announced.
ajax ==
  /\ \E x \in {y \in Xhrs : ~jqXHR[y].made} :
       /\ jqXHR' = [jqXHR EXCEPT ![x].made = TRUE]
       /\ running' = Append(running, In(x, "beforeSend"))
  /\ active' = active + 1 /\ spinning' = (spinning \/ active = 0)
  /\ UNCHANGED <<told, lapses>>

\* It returns false or has aborted the request: done, unless it is.
beforeSendStops ==
  /\ Runs("beforeSend")
  /\ done(Handler.of, "error", Outer)
  /\ UNCHANGED <<active, spinning, lapses>>

\* Callbacks are installed, there is a transport, and ajaxSend is heard.
beforeSendReturns ==
  /\ Runs("beforeSend") /\ jqXHR[Handler.of].state = 0
  /\ jqXHR' = [jqXHR EXCEPT ![Handler.of].installed = TRUE, ![Handler.of].transport = TRUE]
  /\ running' = Append(Outer, In(Handler.of, "ajaxSend"))
  /\ UNCHANGED <<active, spinning, told, lapses>>

\* Sent; a transport that throws has failed.
ajaxSendReturns ==
  /\ Runs("ajaxSend") /\ jqXHR[Handler.of].transport
  /\ \/ /\ jqXHR' = [jqXHR EXCEPT ![Handler.of].state = 1, ![Handler.of].callback = TRUE]
        /\ running' = Outer /\ UNCHANGED told
     \/ done(Handler.of, "error", Outer)
  /\ UNCHANGED <<active, spinning, lapses>>

\* Aborted meanwhile: the state is 1 all the same, there is no transport to call
\* send of, and that exception ends the request a second time.
ajaxSendAborted ==
  /\ Runs("ajaxSend") /\ jqXHR[Handler.of].state = 2
  /\ running' = Append(Outer, In(Handler.of, "settled"))
  /\ lapses' = [lapses EXCEPT !.twice = @ \cup {Handler.of}]
  /\ UNCHANGED <<jqXHR, active, spinning, told>>

\* The promise has called its own; the list of complete is fired.
settledReturns ==
  /\ Runs("settled")
  /\ LET x == Handler.of
     IN  /\ told' = IF jqXHR[x].installed /\ Len(told[x]) = 1 THEN [told EXCEPT ![x] = Append(@, "complete")] ELSE told
         /\ running' = Append(Outer, In(x, "completed"))
  /\ UNCHANGED <<jqXHR, active, spinning, lapses>>

completedReturns ==
  /\ Runs("completed")
  /\ running' = Outer
  /\ active' = active - 1 /\ spinning' = (spinning /\ active # 1)
  /\ UNCHANGED <<jqXHR, told, lapses>>

\* abort, of any request: from outside, by a handler, or by its timeout.
abort ==
  /\ \E x \in {y \in Xhrs : jqXHR[y].made /\ jqXHR[y].state # 2} :
       /\ jqXHR' = [jqXHR EXCEPT ![x].state = 2, ![x].transport = FALSE, ![x].callback = FALSE]
       /\ told' = IF jqXHR[x].installed THEN [told EXCEPT ![x] = <<"error">>] ELSE told
       /\ running' = Append(running, In(x, "settled"))
  /\ UNCHANGED <<active, spinning, lapses>>

\* Nothing catches it: what was to come after each handler does not.
HandlerFails ==
  /\ running # <<>>
  /\ lapses' = [lapses EXCEPT !.left = @ \cup {r.of : r \in ToSet(running)}]
  /\ running' = <<>>
  /\ UNCHANGED <<jqXHR, active, spinning, told>>

\* The transport's listener, when the request is answered, or has failed.
callback ==
  /\ running = <<>>
  /\ \E x \in {y \in Xhrs : jqXHR[y].callback}, outcome \in {"success", "error"} :
       /\ jqXHR' = [jqXHR EXCEPT ![x].state = 2, ![x].transport = FALSE, ![x].callback = FALSE]
       /\ told' = [told EXCEPT ![x] = <<outcome>>]
       /\ running' = <<In(x, "settled")>>
  /\ UNCHANGED <<active, spinning, lapses>>

AjaxNext ==
  \/ ajax \/ beforeSendStops \/ beforeSendReturns \/ ajaxSendReturns \/ ajaxSendAborted
  \/ settledReturns \/ completedReturns \/ abort \/ HandlerFails \/ callback

-----------------------------------------------------------------------------
(* The caller of a request is told its outcome once and then that it is        *)
(* complete, however it was aborted, answered or refused, and by whom; and     *)
(* jQuery.active counts the requests under way, with ajaxStart and ajaxStop at *)
(* its ends: but once a handler throws, or aborts a request as it is sent, the *)
(* count is off for good (jQuery.ajax).                                        *)
RequestsEnd ==
  LET underWay == {x \in Xhrs : jqXHR[x].made /\ jqXHR[x].state # 2}
  IN  /\ \A x \in Xhrs : told[x] = <<>> \/ told[x] \in {<<o>> : o \in {"success", "error"}}
                                              \cup {<<o, "complete">> : o \in {"success", "error"}}
      /\ running = <<>> =>
           /\ \A x \in Xhrs \ lapses.left : jqXHR[x].installed /\ jqXHR[x].state = 2 => Len(told[x]) = 2
           /\ lapses.left = {} /\ lapses.twice = {} =>
                active = Cardinality(underWay) /\ spinning = (underWay # {})
=============================================================================
