-------------------------------- MODULE Page --------------------------------
(* The scripts of a portal page, that work on different parts of it: the pages *)
(* themselves, its links and forms, its widgets, its events and its requests.    *)
(* A behaviour is one part's; they share no state, so nothing is lost by       *)
(* taking one at a time.                                                       *)
EXTENDS PageVisits, RemoteLinks, PageWidgets, Deferreds, AjaxRequests, PageEvents

VARIABLE part

vars == <<visitVars, linkVars, widgetVars, deferredVars, ajaxVars, eventVars, part>>

Init ==
  /\ part \in {"visits", "links", "menus", "radios", "slides", "tip", "overs", "group",
              "callbacks", "deferred", "ajax", "events"}
  \* What the part does not use begins in one way.
  /\ VisitsInit /\ (part # "visits" => ~transitionCacheEnabled)
  /\ LinksInit
  /\ part # "links" => element = [kind |-> "button", has |-> [disableWith |-> FALSE, remote |-> TRUE,
                                                             params |-> FALSE, method |-> "none"]]
  /\ MenusInit /\ (part # "menus" => ~menus.touch)
  /\ RadiosInit
  /\ SlidesInit /\ (part # "slides" => slides.items = 1 /\ slides.transitions)
  /\ TipInit /\ (part # "tip" => ~tip.delay)
  /\ OversInit
  /\ GroupInit /\ (part # "group" => group.choice = NoChoice)
  /\ DeferredsInit /\ (part # "callbacks" => lists.own.options = {})
  /\ AjaxInit
  /\ EventsInit /\ (part # "events" => ~disabled)

Visits == part = "visits" /\ VisitsNext /\ UNCHANGED <<linkVars, widgetVars, deferredVars, ajaxVars, eventVars, part>>
Links  == part = "links" /\ LinksNext /\ UNCHANGED <<visitVars, widgetVars, deferredVars, ajaxVars, eventVars, part>>

Widgets ==
  /\ UNCHANGED <<visitVars, linkVars, deferredVars, ajaxVars, eventVars, part>>
  /\ \/ part = "menus" /\ MenusNext /\ UNCHANGED <<radios, slides, tip, overs, group>>
     \/ part = "radios" /\ ClickRadio /\ UNCHANGED <<menus, slides, tip, overs, group>>
     \/ part = "slides" /\ SlidesNext /\ UNCHANGED <<menus, radios, tip, overs, group>>
     \/ part = "tip" /\ TipNext /\ UNCHANGED <<menus, radios, slides, overs, group>>
     \/ part = "overs" /\ OversNext /\ UNCHANGED <<menus, radios, slides, tip, group>>
     \/ part = "group" /\ Choose /\ UNCHANGED <<menus, radios, slides, tip, overs>>

Calls ==
  /\ UNCHANGED <<visitVars, linkVars, widgetVars, part>>
  /\ \/ part = "callbacks" /\ CallbacksNext /\ UNCHANGED <<ajaxVars, eventVars>>
     \/ part = "deferred" /\ DeferredNext /\ UNCHANGED <<ajaxVars, eventVars>>
     \/ part = "ajax" /\ AjaxNext /\ UNCHANGED <<deferredVars, eventVars>>
     \/ part = "events" /\ EventsNext /\ UNCHANGED <<deferredVars, ajaxVars>>

Next == Visits \/ Links \/ Widgets \/ Calls

\* A request ends, in an answer or an error, and timers fire.
Ended == Visits /\ (Replace \/ GiveUp)
Answered == Links /\ Answer
Fired == Links /\ FormTimer

Spec == Init /\ [][Next]_vars /\ WF_vars(Ended) /\ WF_vars(Answered) /\ WF_vars(Fired)

-----------------------------------------------------------------------------
(* The widgets show what there is (named part by part in PageWidgets).         *)
WidgetsAgree == MenusAgree /\ RadiosAgree /\ SlidesAgree /\ TipAgrees /\ OversAgree /\ GroupAgrees

(* Lists of callbacks call what they owe, deferreds what was promised (both in *)
(* Deferreds), requests tell their callers (AjaxRequests), and events reach     *)
(* what is bound (PageEvents).                                                 *)
CallbacksKept == FiringExact /\ PromiseKept /\ RequestsEnd /\ EventsExact

(* When the user stops, the page of the address is shown and nothing is        *)
(* requested, unless a Back or Forward went unheard; and a link or form        *)
(* disabled for its request is enabled again, or shown missed or posted.       *)
PageSettles ==
  /\ <>[](xhr = NoRequest /\ (astray \/ body = Page(Here.shown.url)))
  /\ (look.disabled /\ element.has.remote) ~> (~look.disabled \/ missed \/ posts > 0)
=============================================================================
