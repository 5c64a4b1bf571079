----------------------------- MODULE SpiceInputs -----------------------------
(* Mouse and keyboard of the console page: the handlers hooked to the canvas   *)
(* of the primary surface, the inputs connection they send on, and the guest   *)
(* at its other end.  What is sent arrives in order (SpiceWire), so the guest  *)
(* is shown as it will be when everything on the way has arrived; only the     *)
(* acknowledgements of mouse motions, which the client waits for, take time.   *)
(* Other modules: SpiceSession for how the connection comes and goes.          *)
EXTENDS Naturals, Integers, FiniteSets

CONSTANTS
  Modifiers,     \* "shift", "ctrl", "alt", "meta"
  Recognised,    \* those whose key code check_and_update_modifiers compares with
  Buttons,       \* mouse buttons
  Places,        \* pointer positions, integers
  Bunch,         \* SPICE_INPUT_MOTION_ACK_BUNCH
  MaxEvents,     \* bound: events of the user
  Undefined

ASSUME InputsAssumption ==
  /\ Recognised \subseteq Modifiers /\ Places \subseteq Int
  /\ Bunch \in Nat \ {0} /\ MaxEvents \in Nat
  /\ Undefined \notin Int /\ Undefined \notin BOOLEAN

NoButton  == "none"

VARIABLES
  link,          \* sc.inputs.state: "linking", "ready", "gone" after a stop
  hooked,        \* the canvas has the handlers: there is a primary surface
  mouse_mode,    \* sc.mouse_mode
  waiting,       \* SpiceInputsConn.waiting_for_ack
  unread,        \* motions the server has not received
  counted,       \* motions it received since its last acknowledgement
  acks,          \* acknowledgements on their way to the client
  mousex,        \* sc.mousex, the pointer as the page last saw it
  guestx,        \* the guest's pointer
  lost,          \* a movement was not sent, since the last absolute position
  buttons_state, \* sc.buttons_state
  held,          \* the buttons really held
  reported,      \* the buttons the guest was last told of
  odd,           \* two buttons at once, a press outside the canvas or before the
                 \* channel was ready, or a turn of the wheel with a button held
  down,          \* the modifier keys really down: shiftKey... of an event
  known,         \* Shift_state, Ctrl_state, Alt_state, Meta_state; -1 is Undefined.
                 \* They are the page's, not the session's
  guest,         \* the modifier keys down in the guest
  missed,        \* modifiers whose state the page took note of without telling this
                 \* session's guest
  events         \* events so far

mouse == <<mousex, guestx, lost, waiting, unread>>
press == <<buttons_state, held, reported, odd>>
keys  == <<down, known, guest, missed>>
inputsVars == <<link, hooked, mouse_mode, waiting, unread, counted, acks, mousex, guestx, lost,
                buttons_state, held, reported, odd, down, known, guest, missed, events>>

CanSend == link = "ready"
Event == events < MaxEvents /\ events' = events + 1

-----------------------------------------------------------------------------
\* Mutant: mousex does not move on.
MotionFromStart(x) == x

(* handle_mousemove.  The message is built, and mousex set, before anything    *)
(* says whether it can be sent.                                                *)
Motion(x) == IF mousex = Undefined THEN x ELSE x - mousex

\* Mutant: what waits for an acknowledgement is not looked at.
MoveUnlimited ==
  /\ Event /\ hooked
  /\ \E x \in Places :
       /\ mousex' = x
       /\ IF CanSend
          THEN /\ guestx' = IF mouse_mode = "client" THEN x ELSE guestx + Motion(x)
               /\ lost' = (lost /\ mouse_mode # "client")
               /\ waiting' = waiting + 1 /\ unread' = unread + 1
               /\ reported' = buttons_state
          ELSE /\ lost' = TRUE
               /\ UNCHANGED <<guestx, waiting, unread, reported>>
  /\ UNCHANGED <<link, hooked, mouse_mode, counted, acks, buttons_state, held, odd, keys>>

MouseMove ==
  /\ Event /\ hooked
  /\ \E x \in Places :
       /\ mousex' = x
       /\ IF CanSend /\ waiting < 2 * Bunch
          THEN /\ guestx' = IF mouse_mode = "client" THEN x ELSE guestx + Motion(x)
               /\ lost' = (lost /\ mouse_mode # "client")
               /\ waiting' = waiting + 1 /\ unread' = unread + 1
               /\ reported' = buttons_state
          ELSE /\ lost' = TRUE
               /\ UNCHANGED <<guestx, waiting, unread, reported>>
  /\ UNCHANGED <<link, hooked, mouse_mode, counted, acks, buttons_state, held, odd, keys>>

(* handle_mousedown and handle_mouseup; a press or a release elsewhere on the  *)
(* page reaches no handler.                                                    *)
MouseDown ==
  /\ Event
  /\ \E b \in Buttons \ held :
       /\ held' = held \cup {b}
       /\ \/ /\ hooked /\ buttons_state' = b /\ odd' = (odd \/ held # {} \/ ~CanSend)
             /\ reported' = IF CanSend THEN b ELSE reported
          \/ UNCHANGED <<buttons_state, reported>> /\ odd' = TRUE
  /\ UNCHANGED <<link, hooked, mouse_mode, mouse, counted, acks, keys>>

MouseUp ==
  /\ Event
  /\ \E b \in held :
       /\ held' = held \ {b}
       /\ \/ /\ hooked /\ buttons_state' = NoButton /\ odd' = (odd /\ held # {b})
             /\ reported' = IF CanSend THEN NoButton ELSE reported
          \/ UNCHANGED <<buttons_state, reported>> /\ odd' = TRUE
  /\ UNCHANGED <<link, hooked, mouse_mode, mouse, counted, acks, keys>>

\* handle_mousewheel: a button of its own goes down and up, and both messages
\* say that no other is held.
MouseWheel ==
  /\ Event /\ hooked
  /\ reported' = IF CanSend THEN NoButton ELSE reported
  /\ odd' = (odd \/ (CanSend /\ held # {}))
  /\ UNCHANGED <<link, hooked, mouse_mode, mouse, counted, acks, buttons_state, held, keys>>

-----------------------------------------------------------------------------
(* check_and_update_modifiers: the first event sets all four states without a  *)
(* word to the guest; then the key of the event itself sets its own; then each *)
(* state that differs from the event is sent and taken over, if it can be.     *)
First(m) == IF known[m] = Undefined THEN m \in down' ELSE known[m]
Noted(m, key, isDown) == IF m = key /\ m \in Recognised THEN isDown ELSE First(m)

\* What the guest is then known not to have been told.
StillMissed(key, stale) ==
  (missed \cup (stale \ Recognised) \cup {m \in down' : known[m] = Undefined})
    \ ((stale \cap Recognised) \cup {key})

\* A key event: key is the modifier pressed or released, or "other".  The key
\* itself is sent after the modifiers.  The code sent to put meta right is not
\* that of the meta key, so the guest learns nothing from it.
KeyHandled(key, isDown) ==
  LET noted == [m \in Modifiers |-> Noted(m, key, isDown)]
      stale == {m \in Modifiers : noted[m] # (m \in down')}
      told  == (stale \cap Recognised) \cup {key}
  IN  IF CanSend
      THEN /\ known' = [m \in Modifiers |-> m \in down']
           /\ guest' = {m \in Modifiers : IF m \in told THEN m \in down' ELSE m \in guest}
           /\ missed' = StillMissed(key, stale)
      ELSE /\ known' = noted
           /\ missed' = missed \cup {m \in Modifiers : noted[m] # (m \in guest)}
           /\ UNCHANGED guest

\* A modifier goes down or up, on the canvas or while another window has the
\* keyboard.
ModifierKey ==
  /\ Event
  /\ \E m \in Modifiers :
       /\ down' = IF m \in down THEN down \ {m} ELSE down \cup {m}
       /\ \/ hooked /\ KeyHandled(m, m \in down')
          \/ UNCHANGED <<known, guest, missed>>
  /\ UNCHANGED <<link, hooked, mouse_mode, mouse, counted, acks, press>>

OtherKey ==
  /\ Event /\ hooked
  /\ UNCHANGED down
  /\ KeyHandled("other", TRUE)
  /\ UNCHANGED <<link, hooked, mouse_mode, mouse, counted, acks, press>>

-----------------------------------------------------------------------------
(* The server acknowledges every Bunch-th motion it receives.                  *)
ServerReads ==
  /\ CanSend /\ unread > 0
  /\ unread' = unread - 1
  /\ IF counted + 1 = Bunch THEN counted' = 0 /\ acks' = acks + 1
     ELSE counted' = counted + 1 /\ UNCHANGED acks
  /\ UNCHANGED <<link, hooked, mouse_mode, waiting, mousex, guestx, lost, press, keys, events>>

\* Mutant: an acknowledgement that finds the window full changes nothing.
AckLeavesFull ==
  /\ CanSend /\ acks > 0
  /\ acks' = acks - 1
  /\ waiting' = IF waiting < 2 * Bunch THEN waiting - Bunch ELSE waiting
  /\ UNCHANGED <<link, hooked, mouse_mode, unread, counted, mousex, guestx, lost, press, keys, events>>

\* SPICE_MSG_INPUTS_MOUSE_MOTION_ACK
MotionAck ==
  /\ CanSend /\ acks > 0
  /\ acks' = acks - 1
  /\ waiting' = waiting - Bunch
  /\ UNCHANGED <<link, hooked, mouse_mode, unread, counted, mousex, guestx, lost, press, keys, events>>

\* SPICE_MSG_MAIN_MOUSE_MODE
ModeChanges ==
  /\ Event
  /\ mouse_mode' = IF mouse_mode = "client" THEN "server" ELSE "client"
  /\ lost' = (lost \/ (mousex # Undefined /\ mousex # guestx))
  /\ UNCHANGED <<link, hooked, mousex, guestx, waiting, unread, counted, acks, press, keys>>

\* hook_events and unhook_events, as the primary surface comes and goes.
Hook ==
  /\ Event /\ link # "gone"
  /\ hooked' = ~hooked
  /\ UNCHANGED <<link, mouse_mode, mouse, counted, acks, press, keys>>

Ready ==
  /\ link = "linking"
  /\ link' = "ready"
  /\ UNCHANGED <<hooked, mouse_mode, mouse, counted, acks, press, keys, events>>

\* SpiceMainConn.stop: inputs is gone, and then the display with its surfaces.
StopInputs ==
  /\ link # "gone"
  /\ link' = "gone" /\ hooked' = FALSE
  /\ UNCHANGED <<mouse_mode, mouse, counted, acks, press, keys, events>>

\* The states an earlier session of the page has left.  The first key event of
\* all sets the four of them.
KnownBefore == [Modifiers -> BOOLEAN] \cup {[m \in Modifiers |-> Undefined]}

InputsInit ==
  /\ link = "linking" /\ hooked = FALSE /\ mouse_mode \in {"client", "server"}
  /\ waiting = 0 /\ unread = 0 /\ counted = 0 /\ acks = 0
  /\ mousex = Undefined /\ guestx = 0 /\ lost = FALSE
  /\ buttons_state = NoButton /\ held = {} /\ reported = NoButton /\ odd = FALSE
  /\ down \in SUBSET Modifiers /\ known \in KnownBefore
  /\ guest = {} /\ missed = {m \in Modifiers : known[m] = TRUE}
  /\ events = 0

InputsNext ==
  \/ MouseMove \/ MouseDown \/ MouseUp \/ MouseWheel
  \/ ModifierKey \/ OtherKey
  \/ ServerReads \/ MotionAck \/ ModeChanges
  \/ Hook \/ Ready \/ StopInputs

-----------------------------------------------------------------------------
(* Motions in flight are bounded and none is forgotten: waiting_for_ack counts *)
(* exactly the motions whose acknowledgement the client has not handled,       *)
(* wherever they are, and never goes beyond two bunches.  Were it to drift,    *)
(* the mouse would stop for good or flood the server.                          *)
MotionWindow ==
  /\ waiting = unread + counted + Bunch * acks
  /\ waiting <= 2 * Bunch

(* A mouse that waits for acknowledgements moves again, unless the session ends. *)
MotionResumes == waiting = 2 * Bunch ~> waiting < 2 * Bunch \/ link = "gone"

(* The guest's pointer is where the page's is, and the buttons it was told of  *)
(* are those held, except for what the handlers are known to lose: a movement  *)
(* made while the window was full or the channel was not ready (for good, in   *)
(* server mode, where only differences are sent), a second button, a button    *)
(* pressed or released outside the canvas or pressed before the channel was    *)
(* ready, and the wheel, which lets go of a button that is held.               *)
PointerAgrees ==
  /\ ~lost /\ mousex # Undefined => guestx = mousex
  /\ ~odd => {buttons_state, reported} = IF held = {} THEN {NoButton} ELSE held

(* The guest's modifier keys are those the page believes down, in every order  *)
(* of presses on and off the canvas, focus changes and stops, but for those    *)
(* missed: a key already down at the first event of the page, one that the page *)
(* believes down since an earlier session (the states outlive it, and the new  *)
(* guest has every key up), a key handled before the channel was ready, and    *)
(* the meta key, which the code does not recognise.  A missed key agrees again *)
(* from the event on that tells the guest of it.                               *)
ModifiersAgree ==
  \A m \in Modifiers \ missed : known[m] # Undefined => known[m] = (m \in guest)
==============================================================================
