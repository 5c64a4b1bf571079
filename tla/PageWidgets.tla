---------------------------- MODULE PageWidgets ----------------------------
(* The widgets of the portal's pages.  Bootstrap is in the bundle twice and its *)
(* dropdown three times, and each copy has its handlers on the document: a     *)
(* click runs them all.  An element's data, and so its object, is shared.      *)
EXTENDS Naturals, Sequences, FiniteSets

CONSTANTS
  Toggles, Navbar,   \* the dropdowns' toggles, and those in a navbar
  Radios,            \* the disks to choose from, each a label and its input
  MaxItems,          \* bound: the items of the carousel
  Options, Alt,      \* the second list's options, in order; the choice each is for
  NoItem, NoChoice   \* null, ""

\* Null is no number; the options are those there are choices for, and each choice
\* has one.
ASSUME WidgetsAssumption ==
  /\ MaxItems \in Nat /\ NoItem \notin Nat
  /\ Options \in Seq(DOMAIN Alt)
  /\ \A o \in DOMAIN Alt : \E i \in DOMAIN Options : Alt[Options[i]] = Alt[o]

VARIABLES menus, radios, slides, tip, overs, group

widgetVars == <<menus, radios, slides, tip, overs, group>>

-----------------------------------------------------------------------------
(* Dropdowns: the menus open, and the backdrop there is for touch screens.     *)

clearMenus(d) == [d EXCEPT !.open = {}, !.backdrop = FALSE]

\* dropdown.js 3.0.0, in the gem and in bootstrap.min.js.
toggleMenu(d, t) ==
  IF t \in d.open THEN clearMenus(d)
  ELSE [clearMenus(d) EXCEPT !.open = {t}, !.backdrop = d.touch /\ t \notin Navbar]

\* The dropdown.js of the portal's own, an earlier one.
toggleMenuEarlier(d, t) ==
  IF t \in d.open THEN clearMenus(d) ELSE [clearMenus(d) EXCEPT !.open = {t}, !.backdrop = d.touch]

\* Its handlers return false: clearMenus, bound to the document too, is not called.
ClickToggle ==
  \E t \in Toggles : menus' = toggleMenuEarlier(toggleMenu(toggleMenu(menus, t), t), t)

\* Elsewhere; in a form of a menu's the click stops.
ClickElsewhere == menus' = clearMenus(menus)

MenusInit == menus \in {[open |-> {}, backdrop |-> FALSE, touch |-> b] : b \in BOOLEAN}
MenusNext == ClickToggle \/ ClickElsewhere

-----------------------------------------------------------------------------
(* data-toggle="buttons": the label shown active, and the input checked.       *)

\* Checked when its label was not active, which unchecks the others, and unchecked
\* when it was; the label is the one active.
toggleRadio(r, b) ==
  [active |-> {b}, checked |-> IF b \notin r.active THEN {b} ELSE r.checked \ {b}]

\* Both copies; the label's own default, checking its input, is prevented.
ClickRadio == \E b \in Radios : radios' = toggleRadio(toggleRadio(radios, b), b)

RadiosInit == radios = [active |-> {}, checked |-> {}]

-----------------------------------------------------------------------------
(* The carousel.                                                               *)

Carousel(n, transitions) ==
  [items |-> n, transitions |-> transitions, active |-> 1, toward |-> NoItem, sliding |-> FALSE,
   interval |-> FALSE, paused |-> FALSE, made |-> FALSE, over |-> FALSE]
SlidesInit == slides \in {Carousel(n, b) : n \in 1..MaxItems, b \in BOOLEAN}

\* cycle and pause; byEvent: called by the mouse, which does not count as pausing.
cycle(s, byEvent) ==
  LET p == s.paused /\ byEvent IN [s EXCEPT !.paused = p, !.interval = ~p]
pause(s, byEvent) == [s EXCEPT !.paused = s.paused \/ ~byEvent, !.interval = FALSE]

\* The one after, or before, around the end.
neighbour(s, type) ==
  IF type = "next" THEN (s.active % s.items) + 1 ELSE ((s.active + s.items - 2) % s.items) + 1

slide(s, type) ==
  LET to     == neighbour(s, type)
      begun  == IF s.interval THEN pause([s EXCEPT !.sliding = TRUE], FALSE) ELSE [s EXCEPT !.sliding = TRUE]
      moving == IF s.transitions THEN [begun EXCEPT !.toward = to]
                ELSE [begun EXCEPT !.active = to, !.sliding = FALSE]
  IN  IF to = s.active THEN begun   \* it stays sliding
      ELSE IF s.interval THEN cycle(moving, FALSE) ELSE moving

nextOrPrev(s, type) == IF s.sliding THEN s ELSE slide(s, type)

\* Both copies of the handler move the same carousel, which the first one makes.
ClickControl ==
  \E type \in {"next", "prev"} :
     slides.over /\ slides' = nextOrPrev(nextOrPrev([slides EXCEPT !.made = TRUE], type), type)

MouseEnter ==
  /\ ~slides.over
  /\ slides' = [IF slides.made THEN pause(slides, TRUE) ELSE slides EXCEPT !.over = TRUE]

MouseLeave ==
  /\ slides.over
  /\ slides' = [IF slides.made THEN cycle(slides, TRUE) ELSE slides EXCEPT !.over = FALSE]

Interval == slides.interval /\ slides' = nextOrPrev(slides, "next")

SlideEnd ==
  /\ slides.toward # NoItem
  /\ slides' = [slides EXCEPT !.active = slides.toward, !.toward = NoItem, !.sliding = FALSE]

SlidesNext == ClickControl \/ MouseEnter \/ MouseLeave \/ Interval \/ SlideEnd

-----------------------------------------------------------------------------
(* Tooltips and popovers.  A tip is in (shown), there (in the document), and   *)
(* may be ending (a hide waits for the transition, or for 150 ms).             *)

Tip(delay) == [in |-> FALSE, there |-> FALSE, faded |-> FALSE, ending |-> FALSE, hoverState |-> "none",
               delay |-> delay, timeout |-> "none", open |-> FALSE, again |-> FALSE]

showTip(t) == [t EXCEPT !.in = TRUE, !.there = TRUE, !.faded = TRUE, !.again = t.ending]

\* Mutant: whatever the hoverState is by then.
completeHideAnyway(t) == [t EXCEPT !.ending = FALSE, !.there = FALSE]

completeHide(t) == [t EXCEPT !.ending = FALSE, !.there = t.there /\ t.hoverState = "in"]

\* One that has never been shown has no transition to wait for.
hideTip(t) ==
  IF t.faded THEN [t EXCEPT !.in = FALSE, !.ending = TRUE, !.again = FALSE]
  ELSE completeHide([t EXCEPT !.in = FALSE])

enter(t) ==
  LET in == [t EXCEPT !.hoverState = "in", !.timeout = "none"]
  IN  IF t.delay THEN [in EXCEPT !.timeout = "show"] ELSE showTip(in)
leave(t) ==
  LET out == [t EXCEPT !.hoverState = "out", !.timeout = "none"]
  IN  IF t.delay THEN [out EXCEPT !.timeout = "hide"] ELSE hideTip(out)

\* The mouse and the focus come and go; a click, where that is the trigger.
Hover == tip' = enter(tip) \/ tip' = leave(tip)
ToggleTip == tip' = IF tip.in THEN leave(tip) ELSE enter(tip)
TipTimer ==
  /\ tip.timeout # "none"
  /\ LET t == [tip EXCEPT !.timeout = "none"]
     IN  tip' = IF tip.timeout = "show" THEN IF t.hoverState = "in" THEN showTip(t) ELSE t
                ELSE IF t.hoverState = "out" THEN hideTip(t) ELSE t
TipEnd == tip.ending /\ tip' = completeHide(tip)

TipInit == tip \in {Tip(b) : b \in BOOLEAN}
TipNext == Hover \/ ToggleTip \/ TipTimer \/ TipEnd

-----------------------------------------------------------------------------
(* Clickovers: popovers that show and hide themselves on clicks, with no       *)
(* hoverState.  Of the defaults none is read, so nothing else closes them.     *)

Clickovers == {"a", "b"}

\* Shown, and those marked as open hidden; or hidden.
clickery(os, c) ==
  [o \in Clickovers |->
     CASE o = c /\ os[c].in -> [hideTip(os[c]) EXCEPT !.open = FALSE]
       [] o = c /\ ~os[c].in -> [showTip(os[c]) EXCEPT !.open = TRUE]
       [] o # c /\ ~os[c].in /\ os[o].open -> [hideTip(os[o]) EXCEPT !.open = FALSE]
       [] OTHER -> os[o]]

ClickOver == \E c \in Clickovers : overs' = clickery(overs, c)
OverEnd == \E c \in Clickovers : overs[c].ending /\ overs' = [overs EXCEPT ![c] = completeHide(overs[c])]

OversInit == overs = [c \in Clickovers |-> Tip(FALSE)]
OversNext == ClickOver \/ OverEnd

-----------------------------------------------------------------------------
(* groupSelect: the second list's options for another choice are wrapped.      *)

Toggled(S, T) == (S \ T) \cup (T \ S)

change(g, sel) ==
  LET away == {o \in DOMAIN Options : Alt[Options[o]] # sel} \ g.wrapped
      back == {o \in g.wrapped \cup away : Alt[Options[o]] = sel}
      show == Toggled(Toggled(g.show, away), back)
  IN  IF sel = NoChoice THEN [g EXCEPT !.choice = sel]
      ELSE [choice |-> sel, wrapped |-> (g.wrapped \cup away) \ back, show |-> show, disabled |-> FALSE,
            value |-> IF show = {} THEN 0 ELSE CHOOSE o \in show : \A p \in show : o <= p]

Choose == \E sel \in {Alt[o] : o \in DOMAIN Alt} \cup {NoChoice} : group' = change(group, sel)

\* init: with the class show on each option, and a change as the list is.
GroupInit ==
  group \in {change([choice |-> c, wrapped |-> {}, show |-> DOMAIN Options, disabled |-> TRUE, value |-> 1], c)
             : c \in {Alt[o] : o \in DOMAIN Alt} \cup {NoChoice}}

-----------------------------------------------------------------------------
(* What is shown is what there is.                                             *)

\* One menu at most is open, and without one there is no backdrop.
MenusAgree == Cardinality(menus.open) <= 1 /\ (menus.backdrop => menus.open # {})

\* One disk at most is active, and no other is checked.
RadiosAgree == Cardinality(radios.active) <= 1 /\ radios.checked \subseteq radios.active

\* It slides when it has somewhere to go (or one item only), and never goes on
\* by itself under the mouse.
SlidesAgree ==
  /\ slides.toward # NoItem => slides.sliding /\ slides.toward # slides.active
  /\ slides.sliding => slides.toward # NoItem \/ slides.items = 1
  /\ slides.over => ~slides.interval

\* With nothing due, a tip is in where the mouse is; it is there, and one that is
\* not in goes.
TipAgrees ==
  tip.timeout = "none" => /\ tip.in <=> tip.hoverState = "in"
                          /\ tip.in => tip.there
                          /\ tip.in \/ tip.ending \/ ~tip.there

\* The same, except for one shown again while it was going; and one is open at most.
OversAgree ==
  /\ \A c \in Clickovers : /\ overs[c].in => overs[c].there \/ overs[c].again
                           /\ ~overs[c].in /\ ~overs[c].ending => ~overs[c].there
                           /\ overs[c].open <=> overs[c].in
  /\ Cardinality({c \in Clickovers : overs[c].open}) <= 1

\* The second list's value is for the choice, and what shows is for it.
GroupAgrees ==
  group.choice # NoChoice =>
    /\ group.show = {o \in DOMAIN Options : Alt[Options[o]] = group.choice}
    /\ group.value \in group.show
    /\ group.wrapped = DOMAIN Options \ group.show
=============================================================================
