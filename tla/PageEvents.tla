---------------------------- MODULE PageEvents ----------------------------
(* jQuery's events on one branch of the page, from the element clicked (1) to  *)
(* the document (Depth): binding, delegation, the dispatch of a click and of a *)
(* triggered event, and what handlers that run may do to the lists they are    *)
(* called from.  The handlers are external; one type of event, which an        *)
(* element's own method also makes.                                            *)
EXTENDS Naturals, Sequences, SequencesExt, FiniteSets, Lists

CONSTANTS
  Depth,         \* the document
  Listeners,     \* bound as handlers
  Places,        \* bound: where they are bound, <<element, selector>>
  AtLoad,        \* what the page's scripts may have bound when it was loaded
  MaxEvents,     \* bound: operations after that
  NoSelector, AnyFunction   \* undefined

Branch == 1..Depth

\* A selector matches one element here, named by it.
handleObj == [selector : {p[2] : p \in Places}, guid : Listeners,
              namespace : {{}, {"bs"}}, once : BOOLEAN]

\* What is bound, or called, with its element.
Bound == [elem : Branch, h : handleObj]

Delegated(h) == h.selector # NoSelector

ASSUME EventAssumption ==
  /\ Depth \in Nat \ {0} /\ MaxEvents \in Nat /\ NoSelector \notin Nat
  /\ \A p \in Places : p[1] \in Branch /\ p[2] \in (1..(p[1] - 1)) \cup {NoSelector}
  /\ AtLoad \subseteq Seq({b \in Bound : <<b.elem, b.h.selector>> \in Places})

VARIABLES
  handlers,      \* element -> what jQuery._data keeps for the type
  disabled,      \* whether the element clicked is
  triggered,     \* jQuery.event.triggered is the type
  under,         \* events under way, innermost last
  bound,         \* what is bound, oldest first, with its element
  eventOps

eventVars == <<handlers, disabled, triggered, under, bound, eventOps>>

-----------------------------------------------------------------------------
(* Binding. *)
Bind(d, h) ==
  IF Delegated(h) THEN [list |-> InsertAt(d.list, d.delegateCount + 1, h), delegateCount |-> d.delegateCount + 1]
  ELSE [d EXCEPT !.list = Append(@, h)]

Table(mine) ==
  LET At[k \in 0..Len(mine)] ==
        IF k = 0 THEN [list |-> <<>>, delegateCount |-> 0] ELSE Bind(At[k - 1], mine[k].h)
  IN  At[Len(mine)]

EventsInit ==
  /\ bound \in AtLoad
  /\ handlers = [e \in Branch |-> Table(Only(bound, {b \in Bound : b.elem = e}))]
  /\ disabled \in BOOLEAN
  /\ triggered = FALSE /\ under = <<>> /\ eventOps = 0

\* What remove is told: no function, namespace or selector stands for all.
Matching(h, told) ==
  /\ told.guid \in {AnyFunction, h.guid}
  /\ told.namespace \subseteq h.namespace
  /\ told.selector \in {NoSelector, h.selector}

Unbind(d, told) ==
  [list |-> Only(d.list, {h \in handleObj : ~Matching(h, told)}),
   delegateCount |-> d.delegateCount
     - Cardinality({i \in DOMAIN d.list : Delegated(d.list[i]) /\ Matching(d.list[i], told)})]

Forget(e, told) ==
  /\ handlers' = [handlers EXCEPT ![e] = Unbind(@, told)]
  /\ bound' = Only(bound, {b \in Bound : b.elem # e \/ ~Matching(b.h, told)})

\* A function of one takes itself away by its guid, and with it every other
\* binding of the function there, unless its own has a selector or a namespace.
Itself(h) == [guid |-> h.guid, namespace |-> h.namespace, selector |-> h.selector]

\* The page's scripts call, or the handler that runs.
Calling ==
  /\ eventOps < MaxEvents /\ eventOps' = eventOps + 1
  /\ under # <<>> => Last(under).running

\* A function of one is bound without a namespace here, which only abridges.
on ==
  /\ Calling
  /\ \E p \in Places, h \in handleObj :
       /\ h.selector = p[2] /\ (h.once => h.namespace = {})
       /\ handlers' = [handlers EXCEPT ![p[1]] = Bind(@, h)]
       /\ bound' = Append(bound, [elem |-> p[1], h |-> h])
  /\ UNCHANGED <<disabled, triggered, under>>

off ==
  /\ Calling
  /\ \E e \in Branch, f \in Listeners \cup {AnyFunction}, ns \in {{}, {"bs"}}, s \in {p[2] : p \in Places} :
       /\ handlers[e].list # <<>>
       /\ Forget(e, [guid |-> f, namespace |-> ns, selector |-> s])
  /\ UNCHANGED <<disabled, triggered, under>>

-----------------------------------------------------------------------------
(* Events.  at is the element reached; queue what dispatch has yet to call     *)
(* there, and due the same by what was bound.                                  *)
Event(target, byUser, onlyHandlers, ns, again) ==
  [target |-> target, at |-> target - 1, byUser |-> byUser, onlyHandlers |-> onlyHandlers,
   namespace |-> ns, again |-> again, queue |-> <<>>, due |-> <<>>, running |-> FALSE,
   stopped |-> FALSE, prevented |-> FALSE]

\* The browser clicks no disabled element.
click ==
  /\ under = <<>> /\ ~disabled
  /\ eventOps < MaxEvents /\ eventOps' = eventOps + 1
  /\ under' = <<Event(1, TRUE, FALSE, {}, FALSE)>>
  /\ UNCHANGED <<handlers, disabled, triggered, bound>>

trigger ==
  /\ Calling
  /\ \E e \in {1, Depth}, only \in BOOLEAN, ns \in {{}, {"bs"}} :
       under' = Append(under, Event(e, FALSE, only, ns, FALSE))
  /\ UNCHANGED <<handlers, disabled, triggered, bound>>

\* What dispatch calls on cur of the delegates, and then on the element itself.
OnElement(cur, d) ==
  LET matches == IF cur = 1 /\ disabled THEN <<>>
                 ELSE Only(SubSeq(d.list, 1, d.delegateCount), {h \in handleObj : h.selector = cur})
  IN  [k \in DOMAIN matches |-> [elem |-> cur, h |-> matches[k]]]

handlerQueue(ev, e) ==
  LET d == handlers[e]
      own == SubSeq(d.list, d.delegateCount + 1, Len(d.list))
      delegates == FlattenSeq([k \in 1..(e - ev.target) |-> OnElement(ev.target + k - 1, d)])
  IN  Only(delegates \o [k \in DOMAIN own |-> [elem |-> e, h |-> own[k]]],
           {q \in Bound : ev.namespace \subseteq q.h.namespace})

\* The second event of a trigger, that the element's method makes.
Discarded(ev) == triggered

\* What was bound to e and matches, the deepest element first, then the oldest.
Due(ev, e) ==
  LET On(b) == IF Delegated(b.h) THEN b.h.selector ELSE e
      Wanted(b) == b.elem = e /\ ev.namespace \subseteq b.h.namespace
                   /\ (Delegated(b.h) => b.h.selector >= ev.target /\ ~(b.h.selector = 1 /\ disabled))
      Deep(i) == LET here == Only(bound, {b \in Bound : Wanted(b) /\ On(b) = i})
                 IN  [k \in DOMAIN here |-> [elem |-> i, h |-> here[k].h]]
  IN  IF ev.again THEN <<>> ELSE FlattenSeq([i \in 1..e |-> Deep(i)])

Innermost == Last(under)
Beneath == SubSeq(under, 1, Len(under) - 1)
Onward(ev) == IF ev.stopped THEN {}
              ELSE {e \in (ev.at + 1)..Depth : (ev.onlyHandlers => e = ev.target) /\ handlers[e].list # <<>>}

\* dispatch on the next element that has a handle.
dispatch ==
  /\ under # <<>> /\ ~Innermost.running /\ Innermost.queue = <<>> /\ Onward(Innermost) # {}
  /\ LET e == CHOOSE n \in Onward(Innermost) : \A m \in Onward(Innermost) : n <= m
         queue == IF Discarded(Innermost) THEN <<>> ELSE handlerQueue(Innermost, e)
     IN  under' = Append(Beneath, [Innermost EXCEPT !.at = e, !.queue = queue, !.due = Due(Innermost, e)])
  /\ UNCHANGED <<handlers, disabled, triggered, bound, eventOps>>

CallHandler ==
  /\ under # <<>> /\ ~Innermost.running /\ Innermost.queue # <<>>
  /\ LET h == Head(Innermost.queue).h
     IN  IF h.once THEN Forget(Innermost.at, Itself(h)) ELSE UNCHANGED <<handlers, bound>>
  /\ under' = Append(Beneath, [Innermost EXCEPT !.running = TRUE])
  /\ UNCHANGED <<disabled, triggered, eventOps>>

\* What is left of a queue after a handler that returned false or called
\* stopPropagation, and after stopImmediatePropagation.
RestAfter(how, queue) ==
  CASE how = "goes on" -> Tail(queue)
    [] how \in {"false", "stop"} -> Only(Tail(queue), {q \in Bound : q.elem = Head(queue).elem})
    [] how = "immediate" -> <<>>

HandlerReturned ==
  /\ under # <<>> /\ Innermost.running
  /\ \E how \in {"goes on", "false", "stop", "immediate"} :
       under' = Append(Beneath, [Innermost EXCEPT !.running = FALSE,
                                 !.queue = RestAfter(how, @),
                                 !.due = Only(Tail(@), {q \in Bound : how = "goes on"
                                            \/ (how # "immediate" /\ q.elem = Head(Innermost.due).elem)}),
                                 !.stopped = @ \/ how # "goes on",
                                 !.prevented = @ \/ how = "false"])
  /\ UNCHANGED <<handlers, disabled, triggered, bound, eventOps>>

\* The end of an event; that of a trigger calls the element's own method, which
\* the document has not.
EventEnds ==
  /\ under # <<>> /\ ~Innermost.running /\ Innermost.queue = <<>> /\ Onward(Innermost) = {}
  /\ IF Innermost.byUser \/ Innermost.onlyHandlers \/ Innermost.prevented \/ Innermost.target = Depth
     THEN under' = Beneath /\ triggered' = FALSE
     ELSE under' = Append(Beneath, Event(Innermost.target, TRUE, FALSE, {}, TRUE)) /\ triggered' = TRUE
  /\ UNCHANGED <<handlers, disabled, bound, eventOps>>

EventsNext == on \/ off \/ click \/ trigger \/ dispatch \/ CallHandler \/ HandlerReturned \/ EventEnds

-----------------------------------------------------------------------------
(* An element's list holds what is bound to it and not unbound, the delegates  *)
(* in front and counted (jQuery.event.add and remove); and an event under way  *)
(* has before it exactly what was bound on the element when it was reached,    *)
(* deepest delegate first, less what its handlers stopped, and calls nobody a  *)
(* second time for the element's own method (dispatch, handlers, trigger).     *)
EventsExact ==
  /\ \A e \in Branch :
       LET mine == Only(bound, {b \in Bound : b.elem = e})
           delegates == Only(mine, {b \in Bound : Delegated(b.h)})
           kept == delegates \o Only(mine, {b \in Bound : ~Delegated(b.h)})
       IN  /\ handlers[e].list = [k \in DOMAIN kept |-> kept[k].h]
           /\ handlers[e].delegateCount = Len(delegates)
  /\ \A i \in DOMAIN under : under[i].queue = under[i].due
=============================================================================
