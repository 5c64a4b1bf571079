---------------------------- MODULE RemoteLinks ----------------------------
(* jquery_ujs: one link, button, input or form of a page whose data-attributes  *)
(* have it sent by ajax, sent with another method, or disabled meanwhile.  The *)
(* user (a confirmation declined is a click that does nothing), the server and *)
(* the page's own handlers are external.                                       *)
EXTENDS Naturals, Sequences, SequencesExt

CONSTANTS
  MaxSent,            \* bound: requests under way, and forms posted, at a time
  NoText, NoButton    \* null

\* Null is no text.
ASSUME LinksAssumption == NoText \notin {"own", "wait"}

VARIABLES
  element,    \* its kind and attributes
  look,       \* its text (a form's: its submit button's), ujs:enable-with, and if it is disabled
  button,     \* ujs:submit-button: what the next request says was pressed
  requests,   \* the button each request under way carries
  timers,     \* the calls due in 13 ms
  posts,      \* forms the browser itself has posted
  inPage,     \* the element is in the document, not in a page put aside
  missed,     \* an answer has found the element disabled and not in the document
  twice       \* a form's button has been disabled while it was

linkVars == <<element, look, button, requests, timers, posts, inPage, missed, twice>>

Attributes == [disableWith : BOOLEAN, remote : BOOLEAN, params : BOOLEAN,
               method : {"none", "get", "delete"}]
Kinds == {"link", "button", "input", "form"}
Fresh == [text |-> "own", enableWith |-> NoText, disabled |-> FALSE]

Loaded ==
  /\ look' = Fresh /\ button' = NoButton /\ requests' = <<>> /\ timers' = <<>> /\ posts' = 0
  /\ inPage' = TRUE /\ missed' = FALSE /\ twice' = FALSE
  /\ UNCHANGED element

\* Only buttons and inputs with data-remote are bound, and they are never disabled.
LinksInit ==
  /\ element \in {[kind |-> k, has |-> a] : k \in Kinds, a \in Attributes}
  /\ element.kind \in {"button", "input"} => element.has.remote /\ ~element.has.disableWith
  /\ look = Fresh /\ button = NoButton /\ requests = <<>> /\ timers = <<>> /\ posts = 0
  /\ inPage = TRUE /\ missed = FALSE /\ twice = FALSE

-----------------------------------------------------------------------------
disableElement(l) == [text |-> "wait", enableWith |-> l.text, disabled |-> TRUE]

\* Mutant: click.railsDisable stays bound.
enableElementBound(l) ==
  [text |-> IF l.enableWith = NoText THEN l.text ELSE l.enableWith, enableWith |-> NoText, disabled |-> l.disabled]

enableElement(l) ==
  [text |-> IF l.enableWith = NoText THEN l.text ELSE l.enableWith, enableWith |-> NoText, disabled |-> FALSE]

disableFormElements(l) == IF element.has.disableWith THEN disableElement(l) ELSE l

\* Mutant: the selector finds none of them.
enableFormElementsNone(l) == l

\* Those that are disabled; what was saved stays.
enableFormElements(l) == IF l.disabled THEN [l EXCEPT !.text = l.enableWith, !.disabled = FALSE] ELSE l

Untouched == UNCHANGED <<element, inPage, missed>>
DisableForm == look' = disableFormElements(look) /\ twice' = (twice \/ look.disabled)

\* Sent, or stopped by a handler of the element's for ajax:before or ajax:beforeSend.
Ends == {"sent", "before", "beforeSend"}
send(end, carried) ==
  IF end = "sent" THEN Len(requests) < MaxSent /\ requests' = Append(requests, carried) ELSE UNCHANGED requests
post == posts < MaxSent /\ posts' = posts + 1

-----------------------------------------------------------------------------
(* Links: stopEverything when it is disabled.  With a key held, the browser    *)
(* opens it elsewhere, when it only has to be got.                             *)

handleRemoteLink(clicked) ==
  \E end \in Ends :
     /\ send(end, NoButton)
     /\ look' = IF end = "sent" THEN clicked ELSE enableElement(clicked)
     /\ UNCHANGED <<posts, inPage>>

\* A form is made for it, and posted.
handleMethod(clicked) == post /\ look' = clicked /\ UNCHANGED <<requests, inPage>>

\* Turbolinks takes it, after these handlers, and puts the page aside.
followed(clicked) == look' = clicked /\ inPage' = FALSE /\ UNCHANGED <<requests, posts>>

ClickLink ==
  \E metaClick \in BOOLEAN :
     LET has == element.has
         clicked == IF has.disableWith /\ ~metaClick THEN disableElement(look) ELSE look
     IN  /\ element.kind = "link" /\ inPage /\ ~look.disabled
         /\ CASE has.remote -> /\ metaClick => has.method = "delete" \/ has.params
                               /\ handleRemoteLink(clicked)
              [] ~has.remote /\ has.method # "none" -> handleMethod(clicked)
              [] OTHER -> ~metaClick /\ followed(clicked)
         /\ UNCHANGED <<element, button, timers, missed, twice>>

\* A click on a button, a change of an input.
ClickOrChange ==
  /\ element.kind \in {"button", "input"} /\ inPage
  /\ \E end \in Ends : send(end, NoButton)
  /\ UNCHANGED <<element, look, button, timers, posts, inPage, missed, twice>>

-----------------------------------------------------------------------------
(* Forms, with the submit button that may be disabled and another, unnamed.    *)

\* Declined, or a required input is blank.
stopEverything(pressed) == button' = pressed /\ UNCHANGED <<look, requests, timers, posts, twice>>

\* The request carries the button, and no other request does.
handleRemoteForm(pressed) ==
  \E end \in Ends :
     /\ send(end, pressed)
     /\ button' = IF end = "before" THEN pressed ELSE NoButton
     /\ IF end = "sent" THEN DisableForm ELSE UNCHANGED <<look, twice>>
     /\ UNCHANGED <<timers, posts>>

\* With a file chosen: the browser posts it, unless a handler of the page's takes it.
abortForFiles(pressed) ==
  /\ button' = pressed
  /\ \/ timers' = timers \o <<"disable", "enable">> /\ UNCHANGED posts
     \/ timers' = Append(timers, "disable") /\ post
  /\ UNCHANGED <<look, requests, twice>>

postForm(pressed) ==
  /\ button' = pressed /\ timers' = Append(timers, "disable") /\ post
  /\ UNCHANGED <<look, requests, twice>>

formSubmit(pressed) ==
  /\ element.kind = "form" /\ inPage /\ Len(timers) < 2 * MaxSent
  /\ \/ stopEverything(pressed)
     \/ element.has.remote /\ (handleRemoteForm(pressed) \/ abortForFiles(pressed))
     \/ ~element.has.remote /\ postForm(pressed)
  /\ Untouched

formInputClick ==
  \/ ~look.disabled /\ formSubmit("commit")
  \/ formSubmit(NoButton)

SubmitByScript == formSubmit(button)

FormTimer ==
  /\ timers # <<>> /\ timers' = Tail(timers)
  /\ IF Head(timers) = "disable" THEN DisableForm ELSE look' = enableFormElements(look) /\ UNCHANGED twice
  /\ UNCHANGED <<button, requests, posts>> /\ Untouched

-----------------------------------------------------------------------------
(* The answer to a request: ajax:complete reaches the document's handlers when *)
(* the element is in it; a link's error handler is called in any case.         *)

completed(error) ==
  CASE element.kind = "link" /\ (error \/ (inPage /\ element.has.disableWith)) -> enableElement(look)
    [] element.kind = "form" /\ inPage -> enableFormElements(look)
    [] OTHER -> look

Answer ==
  \E i \in DOMAIN requests, error \in BOOLEAN :
     /\ requests' = RemoveAt(requests, i)
     /\ look' = completed(error)
     /\ missed' = (missed \/ (look'.disabled /\ ~inPage))
     /\ UNCHANGED <<element, button, timers, posts, inPage, twice>>

\* Turbolinks puts the page aside, and back.
PutAside == inPage' = ~inPage /\ UNCHANGED <<element, look, button, requests, timers, posts, missed, twice>>

\* The answer to a form posted is a page, that the browser loads.
Unload == posts > 0 /\ Loaded

LinksNext ==
  \/ ClickLink \/ ClickOrChange \/ formInputClick \/ SubmitByScript
  \/ FormTimer \/ Answer \/ PutAside \/ Unload

-----------------------------------------------------------------------------
(* What is disabled for a request comes back: a disabled link or form sent by  *)
(* ajax has a request or a timer that will enable it, unless the page was put  *)
(* aside when the answer came or the browser is posting the form; and what is  *)
(* enabled has its own text, unless a form was disabled twice                  *)
(* (jquery_ujs 10464-10562).                                                   *)
LinksComeBack ==
  /\ look.disabled /\ element.has.remote => requests # <<>> \/ timers # <<>> \/ missed \/ posts > 0
  /\ look.text # "own" => look.disabled \/ twice
  /\ element.kind \in {"button", "input"} => look = Fresh
=============================================================================
