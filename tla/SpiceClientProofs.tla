-------------------------- MODULE SpiceClientProofs --------------------------
(* Theorems about SpiceClient: what the mouse and the keyboard tell the guest, *)
(* for every window of motions and every set of places, buttons and modifiers, *)
(* and what the page hears of a connection that fails; and that its reader     *)
(* (SpiceWireReader) keeps its place in the stream of the server, so that a    *)
(* connection implements SpiceStream, for every size of the messages and of    *)
(* the fixed parts, and wherever the chunks are cut.                           *)
EXTENDS SpiceClient, ListLemmas

-----------------------------------------------------------------------------
(* The motions of the mouse.                                                   *)

\* The server never holds back a whole bunch of motions.
WindowInv ==
  /\ waiting \in Int /\ unread \in Nat /\ counted \in 0..(Bunch - 1) /\ acks \in Nat
  /\ MotionWindow

LEMMA WindowInit == InputsInit => WindowInv
BY InputsAssumption DEF InputsInit, WindowInv, MotionWindow

LEMMA Bunches ==
  ASSUME NEW n \in Nat
  PROVE  /\ Bunch * (n + 1) = Bunch * n + Bunch
         /\ n > 0 => n - 1 \in Nat /\ Bunch * (n - 1) = Bunch * n - Bunch
         /\ Bunch * n \in Nat
BY InputsAssumption

LEMMA WindowNext == WindowInv /\ [InputsNext]_inputsVars => WindowInv'
<1> SUFFICES ASSUME WindowInv, [InputsNext]_inputsVars PROVE WindowInv'
  OBVIOUS
<1>0. Bunch \in Nat \ {0}
  BY InputsAssumption
<1>1. CASE UNCHANGED <<waiting, unread, counted, acks>>
  BY <1>1 DEF WindowInv, MotionWindow
<1>2. CASE MouseMove
  <2>1. \/ UNCHANGED <<waiting, unread, counted, acks>>
        \/ /\ waiting < 2 * Bunch /\ waiting' = waiting + 1 /\ unread' = unread + 1
           /\ UNCHANGED <<counted, acks>>
    BY <1>2 DEF MouseMove
  <2>2. Bunch * acks \in Nat
    BY Bunches DEF WindowInv
  <2> QED BY <1>0, <1>1, <2>1, <2>2 DEF WindowInv, MotionWindow
<1>3. CASE ServerReads
  <2>1. /\ unread > 0 /\ unread' = unread - 1 /\ waiting' = waiting
        /\ \/ counted + 1 = Bunch /\ counted' = 0 /\ acks' = acks + 1
           \/ counted + 1 # Bunch /\ counted' = counted + 1 /\ acks' = acks
    BY <1>3 DEF ServerReads
  <2>2. Bunch * (acks + 1) = Bunch * acks + Bunch /\ Bunch * acks \in Nat
    BY Bunches DEF WindowInv
  <2> QED BY <1>0, <2>1, <2>2 DEF WindowInv, MotionWindow
<1>4. CASE MotionAck
  <2>1. /\ acks > 0 /\ acks' = acks - 1 /\ waiting' = waiting - Bunch
        /\ UNCHANGED <<unread, counted>>
    BY <1>4 DEF MotionAck
  <2>2. acks - 1 \in Nat /\ Bunch * (acks - 1) = Bunch * acks - Bunch /\ Bunch * acks \in Nat
    BY <2>1, Bunches DEF WindowInv
  <2> QED BY <1>0, <2>1, <2>2 DEF WindowInv, MotionWindow
<1>5. CASE MouseDown \/ MouseUp \/ MouseWheel \/ ModifierKey \/ OtherKey
           \/ ModeChanges \/ Hook \/ Ready \/ StopInputs \/ UNCHANGED inputsVars
  <2>1. UNCHANGED <<waiting, unread, counted, acks>>
    BY <1>5 DEF MouseDown, MouseUp, MouseWheel, ModifierKey, OtherKey, ModeChanges, Hook,
                Ready, StopInputs, inputsVars, mouse
  <2> QED BY <1>1, <2>1
<1> QED BY <1>2, <1>3, <1>4, <1>5 DEF InputsNext

\* A behaviour of the client changes the inputs by their own steps only.
LEMMA InputsSteps == [Next]_vars => [InputsNext]_inputsVars
BY DEF Next, vars, OnWire, OnInputs

LEMMA WireSteps == [Next]_vars => [WireNext]_wireVars
BY DEF Next, vars, OnWire, OnInputs

\* Motions in flight are counted exactly and never go beyond two bunches,
\* whatever the size of a bunch.
THEOREM MotionsCounted == Spec => []MotionWindow
<1>1. Init => WindowInv
  BY WindowInit DEF Init
<1>2. WindowInv /\ [Next]_vars => WindowInv'
  BY InputsSteps, WindowNext
<1>3. WindowInv => MotionWindow
  BY DEF WindowInv
<1> QED BY <1>1, <1>2, <1>3, PTL DEF Spec

-----------------------------------------------------------------------------
(* The pointer, the buttons and the modifier keys of the guest.                *)

\* Before the first movement the guest's pointer is where it began; a canvas has
\* no handlers once the connection is stopped, and before it is ready the guest
\* has been told of no button; while nothing odd has happened at most one button
\* is held.
PointerInv ==
  /\ guestx \in Int /\ mousex \in Int \cup {Undefined} /\ lost \in BOOLEAN
  /\ mousex = Undefined => guestx = 0
  /\ ~lost /\ mousex # Undefined => guestx = mousex
  /\ link \in {"linking", "ready", "gone"}
  /\ hooked => link # "gone"
  /\ link = "linking" => reported = NoButton
  /\ ~odd => \/ held = {} /\ buttons_state = NoButton /\ reported = NoButton
             \/ held = {buttons_state} /\ reported = buttons_state

LEMMA PointerInit == InputsInit => PointerInv
<1> SUFFICES ASSUME InputsInit PROVE PointerInv
  OBVIOUS
<1>1. /\ link = "linking" /\ hooked = FALSE /\ mousex = Undefined /\ guestx = 0 /\ lost = FALSE
      /\ buttons_state = NoButton /\ held = {} /\ reported = NoButton
  BY DEF InputsInit
<1>2. ~hooked /\ lost \in BOOLEAN
  BY <1>1, Zenon
<1>3. guestx \in Int /\ mousex \in Int \cup {Undefined} /\ link # "gone"
  BY <1>1
<1> QED BY <1>1, <1>2, <1>3, Zenon DEF PointerInv

LEMMA MovementKeeps == PointerInv /\ MouseMove => PointerInv'
<1> SUFFICES ASSUME PointerInv, MouseMove PROVE PointerInv'
  OBVIOUS
<1>1. UNCHANGED <<link, hooked, buttons_state, held, odd>> /\ hooked
  BY DEF MouseMove
<1>2. PICK x \in Places :
        /\ mousex' = x
        /\ \/ /\ CanSend /\ reported' = buttons_state
              /\ \/ mouse_mode = "client" /\ guestx' = x
                 \/ guestx' = guestx + Motion(x) /\ (lost => lost')
           \/ lost' /\ UNCHANGED <<guestx, reported>>
  BY DEF MouseMove, PointerInv
<1>3. x \in Int /\ x # Undefined
  BY InputsAssumption
<1>4. mousex = Undefined => Motion(x) = x
  BY DEF Motion
<1>5. mousex # Undefined => mousex \in Int /\ Motion(x) = x - mousex
  BY DEF Motion, PointerInv
<1>6. guestx' \in Int /\ lost' \in BOOLEAN /\ (~lost' => guestx' = mousex')
  <2>1. lost' \in BOOLEAN
    BY DEF MouseMove, PointerInv
  <2> QED BY <1>2, <1>3, <1>4, <1>5, <2>1 DEF PointerInv
<1>7. /\ link' = "linking" => reported' = NoButton
      /\ ~odd' => \/ held' = {} /\ buttons_state' = NoButton /\ reported' = NoButton
                  \/ held' = {buttons_state'} /\ reported' = buttons_state'
  BY <1>1, <1>2 DEF PointerInv, CanSend
<1> QED BY <1>1, <1>2, <1>3, <1>6, <1>7 DEF PointerInv

LEMMA ButtonsKeep == PointerInv /\ (MouseDown \/ MouseUp \/ MouseWheel) => PointerInv'
<1> SUFFICES ASSUME PointerInv, MouseDown \/ MouseUp \/ MouseWheel PROVE PointerInv'
  OBVIOUS
<1>1. UNCHANGED <<link, hooked, mousex, guestx, lost>>
  BY DEF MouseDown, MouseUp, MouseWheel, mouse
<1>2. CASE MouseDown
  <2>1. PICK b \in Buttons \ held :
          /\ held' = held \cup {b}
          /\ \/ /\ hooked /\ buttons_state' = b /\ odd' = (odd \/ held # {} \/ ~CanSend)
                /\ reported' = IF CanSend THEN b ELSE reported
             \/ UNCHANGED <<buttons_state, reported>> /\ odd' = TRUE
    BY <1>2 DEF MouseDown
  <2> QED BY <1>1, <2>1 DEF PointerInv, CanSend
<1>3. CASE MouseUp
  <2>1. PICK b \in held :
          /\ held' = held \ {b}
          /\ \/ /\ hooked /\ buttons_state' = NoButton /\ odd' = (odd /\ held # {b})
                /\ reported' = IF CanSend THEN NoButton ELSE reported
             \/ UNCHANGED <<buttons_state, reported>> /\ odd' = TRUE
    BY <1>3 DEF MouseUp
  <2>2. ~odd' => ~odd \/ held = {b}
    BY <2>1
  <2>3. ~odd' => held' = {} /\ buttons_state' = NoButton
                 /\ reported' = IF CanSend THEN NoButton ELSE reported
    BY <2>1, <2>2 DEF PointerInv
  <2>4. ~odd' => hooked
    BY <2>1
  <2>5. hooked => (link = "ready" \/ link = "linking")
    BY DEF PointerInv
  <2>6. ~odd' => reported' = NoButton
    BY <2>3, <2>4, <2>5 DEF PointerInv, CanSend
  <2>7. link' = "linking" => reported' = NoButton
    BY <1>1, <2>1 DEF PointerInv, CanSend
  <2> QED BY <1>1, <2>3, <2>6, <2>7 DEF PointerInv
<1>4. CASE MouseWheel
  <2>1. /\ UNCHANGED <<buttons_state, held>> /\ hooked
        /\ reported' = IF CanSend THEN NoButton ELSE reported
        /\ odd' = (odd \/ (CanSend /\ held # {}))
    BY <1>4 DEF MouseWheel
  <2> QED BY <1>1, <2>1 DEF PointerInv, CanSend
<1> QED BY <1>2, <1>3, <1>4

LEMMA PointerNext == PointerInv /\ [InputsNext]_inputsVars => PointerInv'
<1> SUFFICES ASSUME PointerInv, [InputsNext]_inputsVars PROVE PointerInv'
  OBVIOUS
<1>1. CASE ModifierKey \/ OtherKey \/ ServerReads \/ MotionAck \/ UNCHANGED inputsVars
  <2>1. UNCHANGED <<link, hooked, mousex, guestx, lost, buttons_state, held, reported, odd>>
    BY <1>1 DEF ModifierKey, OtherKey, ServerReads, MotionAck, inputsVars, mouse, press
  <2> QED BY <2>1 DEF PointerInv
<1>2. CASE ModeChanges
  BY <1>2 DEF ModeChanges, press, PointerInv
<1>3. CASE Hook \/ Ready \/ StopInputs
  BY <1>3 DEF Hook, Ready, StopInputs, mouse, press, PointerInv
<1> QED BY <1>1, <1>2, <1>3, MovementKeeps, ButtonsKeep DEF InputsNext

\* A modifier of which the page has no state is up in the guest.
ModifiersInv ==
  /\ down \subseteq Modifiers /\ guest \subseteq Modifiers
  /\ known \in [Modifiers -> BOOLEAN \cup {Undefined}]
  /\ \A m \in Modifiers : known[m] = Undefined => m \notin guest
  /\ ModifiersAgree

LEMMA ModifiersInit == InputsInit => ModifiersInv
<1> SUFFICES ASSUME InputsInit PROVE ModifiersInv
  OBVIOUS
<1>1. /\ down \subseteq Modifiers /\ known \in KnownBefore
      /\ guest = {} /\ missed = {m \in Modifiers : known[m] = TRUE}
  BY DEF InputsInit
<1>2. known \in [Modifiers -> BOOLEAN \cup {Undefined}]
  BY <1>1 DEF KnownBefore
<1>3. ASSUME NEW m \in Modifiers \ missed, known[m] # Undefined
      PROVE  known[m] = (m \in guest)
  <2>1. known[m] = FALSE
    BY <1>1, <1>2, <1>3
  <2>2. (m \in guest) = FALSE
    BY <1>1
  <2> QED BY <2>1, <2>2
<1>4. ModifiersAgree
  BY <1>3 DEF ModifiersAgree
<1> QED BY <1>1, <1>2, <1>4 DEF ModifiersInv

\* What the handler of a key event leaves, whichever key it is.
LEMMA KeyKeeps ==
  ASSUME ModifiersInv, down' \subseteq Modifiers, NEW key, NEW isDown \in BOOLEAN,
         KeyHandled(key, isDown)
  PROVE  ModifiersInv'
<1> DEFINE noted == [m \in Modifiers |-> Noted(m, key, isDown)]
           stale == {m \in Modifiers : noted[m] # (m \in down')}
<1>1. ASSUME NEW m \in Modifiers PROVE noted[m] \in BOOLEAN
  <2>1. known[m] # Undefined => known[m] \in BOOLEAN
    BY DEF ModifiersInv
  <2>2. First(m) \in BOOLEAN
    <3>1. (m \in down') \in BOOLEAN
      OBVIOUS
    <3> QED BY <2>1, <3>1, Zenon DEF First
  <2>3. Noted(m, key, isDown) \in BOOLEAN
    BY <2>2, Zenon DEF Noted
  <2> QED BY <2>3, Zenon
<1>2. \A m \in Modifiers : m # key =>
        noted[m] = IF known[m] = Undefined THEN m \in down' ELSE known[m]
  BY DEF Noted, First
<1>3. CASE CanSend
  <2>1. /\ known' = [m \in Modifiers |-> m \in down']
        /\ guest' = {m \in Modifiers : IF m \in (stale \cap Recognised) \cup {key}
                                       THEN m \in down' ELSE m \in guest}
        /\ missed' = StillMissed(key, stale)
    BY <1>3 DEF KeyHandled
  <2> HIDE DEF noted
  <2>2. ASSUME NEW m \in Modifiers, m \notin missed'
        PROVE  (m \in down') <=> (m \in guest')
    <3>1. CASE m \in (stale \cap Recognised) \cup {key}
      BY <2>1, <3>1
    <3>2. CASE m \notin (stale \cap Recognised) \cup {key}
      <4>1. m \notin missed /\ m \notin stale /\ ~(m \in down' /\ known[m] = Undefined)
        BY <2>1, <2>2, <3>2 DEF StillMissed
      <4>2. m # key /\ noted[m] = (m \in down')
        BY <3>2, <4>1
      <4>3. (m \in guest') <=> (m \in guest)
        BY <2>1, <3>2
      <4>4. CASE known[m] = Undefined
        BY <4>1, <4>3, <4>4 DEF ModifiersInv
      <4>5. CASE known[m] # Undefined
        <5>1. known[m] = (m \in down')
          BY <1>2, <4>2, <4>5
        <5>2. known[m] = (m \in guest)
          BY <4>1, <4>5 DEF ModifiersInv, ModifiersAgree
        <5> QED BY <4>3, <5>1, <5>2
      <4> QED BY <4>4, <4>5
    <3> QED BY <3>1, <3>2
  <2>3. ASSUME NEW m \in Modifiers
        PROVE  known'[m] = (m \in down') /\ known'[m] # Undefined
    <3>1. known'[m] = (m \in down')
      BY <2>1, Zenon
    <3>2. (m \in down') \in BOOLEAN
      OBVIOUS
    <3> QED BY <3>1, <3>2, InputsAssumption, Zenon
  <2>4. ModifiersAgree'
    BY <2>2, <2>3 DEF ModifiersAgree
  <2>5. known' \in [Modifiers -> BOOLEAN \cup {Undefined}] /\ guest' \subseteq Modifiers
    BY <2>1
  <2> QED BY <2>3, <2>4, <2>5 DEF ModifiersInv
<1>4. CASE ~CanSend
  <2>1. /\ known' = noted /\ guest' = guest
        /\ missed' = missed \cup {m \in Modifiers : noted[m] # (m \in guest)}
    BY <1>4 DEF KeyHandled
  <2>2. known' \in [Modifiers -> BOOLEAN]
    BY <1>1, <2>1
  <2> HIDE DEF noted
  <2>3. ModifiersAgree'
    BY <2>1 DEF ModifiersAgree
  <2>4. \A m \in Modifiers : known'[m] # Undefined
    BY <2>2, InputsAssumption
  <2> QED BY <2>1, <2>2, <2>3, <2>4 DEF ModifiersInv
<1> QED BY <1>3, <1>4

LEMMA ModifiersNext == ModifiersInv /\ [InputsNext]_inputsVars => ModifiersInv'
<1> SUFFICES ASSUME ModifiersInv, [InputsNext]_inputsVars PROVE ModifiersInv'
  OBVIOUS
<1>1. CASE UNCHANGED keys
  BY <1>1 DEF keys, ModifiersInv, ModifiersAgree
<1>2. CASE ModifierKey
  <2>1. PICK m \in Modifiers :
          /\ down' = IF m \in down THEN down \ {m} ELSE down \cup {m}
          /\ KeyHandled(m, m \in down') \/ UNCHANGED <<known, guest, missed>>
    BY <1>2 DEF ModifierKey
  <2>2. down' \subseteq Modifiers
    BY <2>1 DEF ModifiersInv
  <2>3. CASE KeyHandled(m, m \in down')
    <3>1. PICK isDown \in BOOLEAN : KeyHandled(m, isDown)
      <4>1. (m \in down') \in BOOLEAN
        OBVIOUS
      <4> QED BY <2>3, <4>1, Zenon
    <3> QED BY <2>2, <3>1, KeyKeeps
  <2>4. CASE UNCHANGED <<known, guest, missed>>
    BY <2>2, <2>4 DEF ModifiersInv, ModifiersAgree
  <2> QED BY <2>1, <2>3, <2>4
<1>3. CASE OtherKey
  <2>1. PICK isDown \in BOOLEAN : down' = down /\ KeyHandled("other", isDown)
    BY <1>3, Zenon DEF OtherKey
  <2>2. down' \subseteq Modifiers
    BY <2>1 DEF ModifiersInv
  <2> QED BY <2>1, <2>2, KeyKeeps
<1>4. CASE MouseMove \/ MouseDown \/ MouseUp \/ MouseWheel \/ ServerReads \/ MotionAck
           \/ ModeChanges \/ Hook \/ Ready \/ StopInputs \/ UNCHANGED inputsVars
  <2>1. UNCHANGED keys
    BY <1>4 DEF MouseMove, MouseDown, MouseUp, MouseWheel, ServerReads, MotionAck,
                ModeChanges, Hook, Ready, StopInputs, inputsVars, keys
  <2> QED BY <1>1, <2>1
<1> QED BY <1>2, <1>3, <1>4 DEF InputsNext

\* The guest's pointer and buttons are the user's, and its modifier keys those
\* the page believes down, but for what the handlers are known to lose and what
\* earlier sessions of the page have left (Shift_state to Meta_state).
THEOREM GuestFollows == Spec => []GuestAgrees
<1>1. Init => PointerInv /\ ModifiersInv
  BY PointerInit, ModifiersInit DEF Init
<1>2. PointerInv /\ ModifiersInv /\ [Next]_vars => PointerInv' /\ ModifiersInv'
  BY InputsSteps, PointerNext, ModifiersNext
<1>3. PointerInv /\ ModifiersInv => GuestAgrees
  <2>1. PointerInv => PointerAgrees
    BY DEF PointerInv, PointerAgrees
  <2> QED BY <2>1 DEF ModifiersInv, GuestAgrees
<1> QED BY <1>1, <1>2, <1>3, PTL DEF Spec

-----------------------------------------------------------------------------
(* What the page is told of a connection.                                      *)

\* A connection whose errors are handled and that has told one is being given
\* up: it has no timer and no socket that is open or connecting.  It waits for
\* no part of the handshake before its socket has opened.
ToldInv ==
  /\ onerror \in BOOLEAN /\ timer \in BOOLEAN
  /\ ~onerror => told = <<>>
  /\ onerror /\ ws = "connecting" => state \in {"connecting", "closing"}
  /\ onerror /\ ws = "failing" => state = "closing"
  /\ told # <<>> => state = "closing" /\ ~timer /\ ws \notin {"connecting", "open"}
  /\ told # <<>> /\ ws = "failing" => told = <<"timeout">>
  /\ told = <<>> \/ (\E what : told = <<what>>) \/ told = <<"timeout", "socket">>

LEMMA ClosedSocket ==
  /\ Closed("connecting") = "failing" /\ Closed("open") = "closing"
  /\ \A s : s \notin {"connecting", "open"} => Closed(s) = s
<1>1. "connecting" # "open"
  OBVIOUS
<1>2. Closed("connecting") = "failing"
  BY <1>1, Zenon DEF Closed
<1>3. Closed("open") = "closing"
  BY <1>1, Zenon DEF Closed
<1>4. ASSUME NEW s, s # "connecting", s # "open" PROVE Closed(s) = s
  BY <1>4, Zenon DEF Closed
<1> QED BY <1>2, <1>3, <1>4

LEMMA TwoReports ==
  ASSUME NEW a, NEW b
  PROVE  Append(<<a>>, b) = <<a, b>>
<1> DEFINE S == {a, b}
<1>1. <<a>> \in Seq(S) /\ <<a, b>> \in Seq(S) /\ b \in S
  OBVIOUS
<1>2. Len(<<a>>) = 1 /\ Len(<<a,b>>) = 2 /\ <<a>>[1] = a /\ <<a,b>>[1] = a /\ <<a,b>>[2] = b
  OBVIOUS
<1> HIDE DEF S
<1>3. Append(<<a>>, b) \in Seq(S) /\ Len(Append(<<a>>, b)) = 2
  BY <1>1, <1>2, AppendProperties
<1>4. Append(<<a>>, b)[1] = a /\ Append(<<a>>, b)[2] = b
  BY <1>1, <1>2, AppendProperties
<1> DEFINE t == Append(<<a>>, b)
<1>5. t \in Seq(S) /\ Len(t) = Len(<<a, b>>)
  BY <1>2, <1>3
<1>6. \A i \in 1..Len(t) : t[i] = <<a, b>>[i]
  <2>1. \A i \in 1..2 : i = 1 \/ i = 2
    OBVIOUS
  <2> QED BY <1>2, <1>3, <1>4, <2>1
<1> HIDE DEF t
<1>7. t = <<a, b>>
  BY <1>1, <1>5, <1>6, SeqEqual
<1> QED BY <1>7 DEF t

LEMMA ToldOneMore ==
  ASSUME told = <<>>, NEW what, told' = Append(told, what)
  PROVE  told' = <<what>> /\ told' # <<>>
OBVIOUS

\* A part of the handshake that is reported: the first report.
LEMMA ToldReports ==
  ASSUME ToldInv, state \in {"start", "link", "ticket"}, NEW what, NEW next,
         ReportError(what, "error", next), onerror' = onerror
  PROVE  ToldInv'
<1>1. CASE onerror
  <2>1. told' = Append(told, what) /\ state' = "closing" /\ timer' = FALSE /\ ws' = Closed(ws)
    BY <1>1 DEF ReportError, Stop, Cleanup
  <2>2. told = <<>> /\ ws \notin {"connecting", "failing"}
    BY <1>1 DEF ToldInv
  <2>3. ws' \notin {"connecting", "open", "failing"}
    BY <2>1, <2>2, ClosedSocket
  <2>4. told' = <<what>> /\ told' # <<>>
    BY <2>1, <2>2, ToldOneMore
  <2> QED BY <1>1, <2>1, <2>3, <2>4 DEF ToldInv
<1>2. CASE ~onerror
  <2>1. UNCHANGED <<told, timer, ws>>
    BY <1>2 DEF ReportError
  <2> QED BY <1>2, <2>1 DEF ToldInv
<1> QED BY <1>1, <1>2

LEMMA ToldQuiet ==
  ASSUME ToldInv, UNCHANGED <<onerror, told, ws>>, timer' = timer \/ timer' = FALSE,
         \/ state' = state
         \/ state \in {"start", "link", "ticket"} /\ state' \in {"link", "ticket", "ready"}
  PROVE  ToldInv'
<1>1. timer' \in BOOLEAN /\ (~timer => ~timer')
  <2>1. timer \in BOOLEAN
    BY DEF ToldInv
  <2>2. CASE timer' = timer
    BY <2>1, <2>2
  <2>3. CASE timer' = FALSE
    BY <2>3
  <2> QED BY <2>2, <2>3
<1>2. CASE state' = state
  BY <1>1, <1>2 DEF ToldInv
<1>3. CASE state \in {"start", "link", "ticket"}
  <2>1. told = <<>> /\ (onerror => ws \notin {"connecting", "failing"}) /\ onerror \in BOOLEAN
    BY <1>3 DEF ToldInv
  <2> QED BY <1>1, <2>1 DEF ToldInv
<1> QED BY <1>2, <1>3

LEMMA ToldCallback ==
  ASSUME ToldInv, NEW mb, NEW next, Callback(mb, next)
  PROVE  ToldInv'
<1>1. CASE LinkHeaderArrives(mb, next)
  <2>1. state = "start" /\ onerror' = onerror
    BY <1>1 DEF LinkHeaderArrives
  <2>2. CASE ReportError("magic", "error", next)
    BY <2>1, <2>2, ToldReports
  <2>3. CASE state' = "link" /\ UNCHANGED <<told, timer, ws>>
    BY <2>1, <2>3, ToldQuiet
  <2> QED BY <1>1, <2>2, <2>3 DEF LinkHeaderArrives
<1>2. CASE LinkReplyArrives(mb, next)
  <2>1. state = "link" /\ onerror' = onerror
    BY <1>2 DEF LinkReplyArrives
  <2>2. CASE ReportError("link", "error", next)
    BY <2>1, <2>2, ToldReports
  <2>3. CASE state' = "ticket" /\ UNCHANGED <<told, timer, ws>>
    BY <2>1, <2>3, ToldQuiet
  <2> QED BY <1>2, <2>2, <2>3 DEF LinkReplyArrives
<1>3. CASE AuthReplyArrives(mb, next)
  <2>1. state = "ticket" /\ onerror' = onerror
    BY <1>3 DEF AuthReplyArrives
  <2>2. CASE ReportError("denied", "error", next)
    BY <2>1, <2>2, ToldReports
  <2>3. CASE state' = "ready" /\ timer' = FALSE /\ UNCHANGED <<told, ws>>
    BY <2>1, <2>3, ToldQuiet
  <2> QED BY <1>3, <2>2, <2>3 DEF AuthReplyArrives
<1>4. CASE MiniHeaderArrives(mb, next) \/ BodyArrives(mb, next) \/ Dropped(next)
  <2>1. UNCHANGED <<onerror, told, ws, timer, state>>
    BY <1>4 DEF MiniHeaderArrives, BodyArrives, Dropped, connection
  <2> QED BY <2>1, ToldQuiet
<1> QED BY <1>1, <1>2, <1>3, <1>4 DEF Callback

\* What is appended to a report is the failure of the socket that was closed.
LEMMA ToldEvents ==
  ASSUME ToldInv, Fails \/ CloseEvent \/ TimesOut \/ Stopped
  PROVE  ToldInv'
<1>1. onerror' = onerror
  BY DEF Fails, CloseEvent, TimesOut, Stopped
<1>2. CASE Fails
  <2>1. ws \in {"connecting", "open", "failing"} /\ ws' = "closing"
    BY <1>2 DEF Fails
  <2>2. CASE onerror
    <3>1. told' = Append(told, "socket") /\ state' = "closing" /\ timer' = FALSE
      BY <1>2, <2>2 DEF Fails
    <3>2. CASE told = <<>>
      <4>1. told' = <<"socket">> /\ told' # <<>>
        BY <3>1, <3>2, ToldOneMore
      <4> QED BY <1>1, <2>1, <2>2, <3>1, <4>1 DEF ToldInv
    <3>3. CASE told # <<>>
      <4>1. told = <<"timeout">>
        BY <2>1, <3>3 DEF ToldInv
      <4>2. Append(<<"timeout">>, "socket") = <<"timeout", "socket">>
        BY TwoReports
      <4>3. told' = <<"timeout", "socket">>
        BY <3>1, <4>1, <4>2
      <4> QED BY <1>1, <2>1, <2>2, <3>1, <4>3 DEF ToldInv
    <3> QED BY <3>2, <3>3
  <2>3. CASE ~onerror
    <3>1. UNCHANGED <<told, state, timer>>
      BY <1>2, <2>3 DEF Fails
    <3> QED BY <1>1, <2>1, <2>3, <3>1 DEF ToldInv
  <2> QED BY <2>2, <2>3
<1>3. CASE CloseEvent
  <2>1. ws \in {"open", "closing"} /\ ws' = "closed"
    BY <1>3 DEF CloseEvent
  <2>2. CASE state \notin {"closing", "error"} /\ onerror
    <3>1. told' = Append(told, CloseReason) /\ state' = "closing" /\ timer' = FALSE
      BY <1>3, <2>2 DEF CloseEvent
    <3>2. told = <<>>
      BY <2>2 DEF ToldInv
    <3>3. told' = <<CloseReason>> /\ told' # <<>>
      BY <3>1, <3>2, ToldOneMore
    <3> QED BY <1>1, <2>1, <2>2, <3>1, <3>3 DEF ToldInv
  <2>3. CASE UNCHANGED <<told, state, timer>>
    BY <1>1, <2>1, <2>3 DEF ToldInv
  <2> QED BY <1>3, <2>2, <2>3 DEF CloseEvent
<1>4. CASE TimesOut
  <2>1. CASE onerror
    <3>1. /\ timer /\ told' = Append(told, "timeout") /\ state' = "closing"
          /\ timer' = FALSE /\ ws' = Closed(ws)
      BY <1>4, <2>1 DEF TimesOut, Stop, Cleanup
    <3>2. told = <<>>
      BY <3>1 DEF ToldInv
    <3>3. told' = <<"timeout">> /\ told' # <<>>
      BY <3>1, <3>2, ToldOneMore
    <3>4. ws' \notin {"connecting", "open"}
      BY <3>1, ClosedSocket
    <3> QED BY <1>1, <2>1, <3>1, <3>3, <3>4 DEF ToldInv
  <2>2. CASE ~onerror
    <3>1. timer' = FALSE /\ UNCHANGED <<told, state, ws>>
      BY <1>4, <2>2 DEF TimesOut
    <3> QED BY <1>1, <2>2, <3>1 DEF ToldInv
  <2> QED BY <2>1, <2>2
<1>5. CASE Stopped
  <2>1. /\ told' = told /\ timer' = FALSE /\ ws' = Closed(ws) /\ ws \in {"connecting", "open"}
        /\ onerror => state' = "closing"
    BY <1>5 DEF Stopped, Stop, Cleanup
  <2>2. told = <<>>
    BY <2>1 DEF ToldInv
  <2>3. ws' \in {"failing", "closing"}
    BY <2>1, ClosedSocket
  <2> QED BY <1>1, <2>1, <2>2, <2>3 DEF ToldInv
<1> QED BY <1>2, <1>3, <1>4, <1>5

LEMMA ToldNext == ToldInv /\ [WireNext]_wireVars => ToldInv'
<1> SUFFICES ASSUME ToldInv, [WireNext]_wireVars PROVE ToldInv'
  OBVIOUS
<1>1. CASE Server \/ Combine \/ InboundReturns \/ UNCHANGED wireVars
  <2>1. UNCHANGED <<onerror, told, ws, timer, state>>
    BY <1>1 DEF Server, Combine, InboundReturns, wireVars, connection
  <2> QED BY <2>1, ToldQuiet
<1>2. CASE Inbound
  <2>1. CASE \E mb, next : Callback(mb, next)
    BY <2>1, ToldCallback
  <2>2. CASE UNCHANGED <<connection, ws>>
    <3>1. UNCHANGED <<onerror, told, ws, timer, state>>
      BY <2>2 DEF connection
    <3> QED BY <3>1, ToldQuiet
  <2> QED BY <1>2, <2>1, <2>2 DEF Inbound
<1>3. CASE Consume
  BY <1>3, ToldCallback DEF Consume
<1>4. CASE Opened
  <2>1. /\ ws = "connecting" /\ ws' = "open" /\ state' = "start"
        /\ UNCHANGED <<onerror, timer, told>>
    BY <1>4 DEF Opened
  <2> QED BY <2>1 DEF ToldInv
<1>5. CASE Fails \/ CloseEvent \/ TimesOut \/ Stopped
  BY <1>5, ToldEvents
<1> QED BY <1>1, <1>2, <1>3, <1>4, <1>5 DEF WireNext, Loop

\* The page hears of one failure of a connection, or of a timeout and then of
\* the socket that was closed for it.
THEOREM FailureToldOnce == Spec => []ToldOnce
<1>1. Init => ToldInv
  BY DEF Init, WireInit, ToldInv
<1>2. ToldInv /\ [Next]_vars => ToldInv'
  BY WireSteps, ToldNext
<1>3. ToldInv => ToldOnce
  <2>1. SUFFICES ASSUME ToldInv, Len(told) > 1 PROVE told = <<"timeout", "socket">>
    BY DEF ToldOnce
  <2>2. told # <<>>
    BY <2>1
  <2>3. ASSUME NEW what, told = <<what>> PROVE FALSE
    <3>1. Len(told) = 1
      BY <2>3
    <3> QED BY <2>1, <3>1
  <2> QED BY <2>1, <2>2, <2>3 DEF ToldInv
<1> QED BY <1>1, <1>2, <1>3, PTL DEF Spec

-----------------------------------------------------------------------------
(* The bytes of the server, one of its pieces after the other (FlattenSeq):    *)
(* those of its first k pieces, by induction over k.                           *)

Byte == Nat \X Nat
BytesOf(u, k)  == [o \in 1..u[k].len |-> <<k, o>>]
BeforeOf(u, k) == FlattenSeq([j \in 1..k |-> BytesOf(u, j)])
Pieces(u) == Len(u) \in Nat /\ \A k \in 1..Len(u) : u[k].len \in Nat

LEMMA BytesAre ==
  ASSUME NEW u, NEW k \in Nat, u[k].len \in Nat
  PROVE  /\ BytesOf(u, k) \in Seq(Byte) /\ Len(BytesOf(u, k)) = u[k].len
         /\ \A o \in 1..u[k].len : BytesOf(u, k)[o] = <<k, o>>
<1>1. \A o \in 1..u[k].len : <<k, o>> \in Byte
  BY DEF Byte
<1> QED BY <1>1 DEF BytesOf

LEMMA BeforeNone == ASSUME NEW u PROVE BeforeOf(u, 0) = <<>>
<1>1. [j \in 1..0 |-> BytesOf(u, j)] = <<>>
  OBVIOUS
<1> QED BY <1>1, FlattenShort DEF BeforeOf

LEMMA BeforeIsFirst ==
  ASSUME NEW u, Pieces(u)
  PROVE  /\ \A j \in 1..Len(u) : [i \in 1..Len(u) |-> BytesOf(u, i)][j] \in Seq(Byte)
         /\ \A k \in Nat : k <= Len(u) =>
              BeforeOf(u, k) = FirstOf([i \in 1..Len(u) |-> BytesOf(u, i)], k)
<1> DEFINE w == [i \in 1..Len(u) |-> BytesOf(u, i)]
<1>1. ASSUME NEW j \in 1..Len(u) PROVE w[j] \in Seq(Byte)
  <2>1. BytesOf(u, j) \in Seq(Byte)
    BY BytesAre DEF Pieces
  <2> QED BY <2>1
<1>2. ASSUME NEW k \in Nat, k <= Len(u) PROVE BeforeOf(u, k) = FirstOf(w, k)
  <2>1. [j \in 1..k |-> BytesOf(u, j)] = [j \in 1..k |-> w[j]]
    BY <1>2 DEF Pieces
  <2> HIDE DEF w
  <2> QED BY <2>1 DEF BeforeOf, FirstOf
<1> QED BY <1>1, <1>2

LEMMA BeforeMore ==
  ASSUME NEW u, Pieces(u)
  PROVE  \A k \in Nat : k <= Len(u) =>
           /\ BeforeOf(u, k) \in Seq(Byte)
           /\ k > 0 => BeforeOf(u, k) = BeforeOf(u, k - 1) \o BytesOf(u, k)
<1> DEFINE w == [i \in 1..Len(u) |-> BytesOf(u, i)]
           n == Len(u)
<1>1. n \in Nat /\ \A j \in 1..n : w[j] \in Seq(Byte) /\ w[j] = BytesOf(u, j)
  BY BeforeIsFirst DEF Pieces
<1>2. \A k \in Nat : k <= n => BeforeOf(u, k) = FirstOf(w, k)
  BY BeforeIsFirst
<1> HIDE DEF w, n
<1>3. \A k \in Nat : k <= n =>
        /\ FirstOf(w, k) \in Seq(Byte)
        /\ k > 0 => FirstOf(w, k) = FirstOf(w, k - 1) \o w[k]
  BY <1>1, FirstMore
<1>4. \A k \in Nat : k <= n /\ k > 0 => k - 1 \in Nat /\ k - 1 <= n /\ k \in 1..n
  BY <1>1
<1> QED BY <1>1, <1>2, <1>3, <1>4 DEF n

\* The bytes of the first k pieces begin those of the first m.
LEMMA BeforeBegins ==
  ASSUME NEW u, Pieces(u), NEW k \in Nat
  PROVE  \A m \in Nat : k <= m /\ m <= Len(u) =>
           /\ Len(BeforeOf(u, k)) <= Len(BeforeOf(u, m))
           /\ \A i \in 1..Len(BeforeOf(u, k)) : BeforeOf(u, m)[i] = BeforeOf(u, k)[i]
<1> DEFINE w == [i \in 1..Len(u) |-> BytesOf(u, i)]
           n == Len(u)
<1>1. n \in Nat /\ \A j \in 1..n : w[j] \in Seq(Byte)
  BY BeforeIsFirst DEF Pieces
<1>2. \A j \in Nat : j <= n => BeforeOf(u, j) = FirstOf(w, j)
  BY BeforeIsFirst
<1> HIDE DEF w, n
<1>3. \A m \in Nat : k <= m /\ m <= n =>
        /\ Len(FirstOf(w, k)) <= Len(FirstOf(w, m))
        /\ \A i \in 1..Len(FirstOf(w, k)) : FirstOf(w, m)[i] = FirstOf(w, k)[i]
  <2>1. k \in Nat /\ Each(w, n, Byte)
    BY <1>1 DEF Each
  <2>2. ASSUME NEW m \in Nat, k <= m, m <= n
        PROVE  /\ Len(FirstOf(w, k)) <= Len(FirstOf(w, m))
               /\ \A i \in 1..Len(FirstOf(w, k)) : FirstOf(w, m)[i] = FirstOf(w, k)[i]
    <3>1. \A i, j \in Nat : i <= j /\ j <= n =>
            /\ Len(FirstOf(w, i)) <= Len(FirstOf(w, j))
            /\ \A o \in 1..Len(FirstOf(w, i)) : FirstOf(w, j)[o] = FirstOf(w, i)[o]
      BY <1>1, <2>1, FirstBegins
    <3> QED BY <2>1, <2>2, <3>1
  <2> QED BY <2>2
<1>4. \A m \in Nat : k <= m /\ m <= n => k <= n
  BY <1>1
<1> QED BY <1>2, <1>3, <1>4 DEF n

\* Pieces added to u leave the bytes of the first ones as they were.
LEMMA BeforeSame ==
  ASSUME NEW u, NEW v, NEW m \in Nat, \A k \in 1..m : v[k] = u[k]
  PROVE  BeforeOf(v, m) = BeforeOf(u, m)
<1>1. [j \in 1..m |-> BytesOf(v, j)] = [j \in 1..m |-> BytesOf(u, j)]
  BY DEF BytesOf
<1> QED BY <1>1 DEF BeforeOf

\* Where the piece k begins, and where a byte of it is found.
StartOf(u, k) == Len(BeforeOf(u, k - 1))
All(u) == BeforeOf(u, Len(u))

LEMMA ByteAt ==
  ASSUME NEW u, Pieces(u), NEW k \in 1..Len(u)
  PROVE  /\ StartOf(u, k) \in Nat /\ StartOf(u, k + 1) = StartOf(u, k) + u[k].len
         /\ StartOf(u, k + 1) <= Len(All(u))
         /\ \A o \in 1..u[k].len : All(u)[StartOf(u, k) + o] = <<k, o>>
<1> DEFINE a == BeforeOf(u, k - 1)
           c == BytesOf(u, k)
           d == BeforeOf(u, k)
           e == All(u)
           n == u[k].len
<1>0. k - 1 \in Nat /\ k \in Nat /\ k <= Len(u) /\ k > 0 /\ k - 1 <= Len(u) /\ Len(u) \in Nat
  BY DEF Pieces
<1>1. a \in Seq(Byte) /\ d = a \o c
  BY <1>0, BeforeMore
<1>2. n \in Nat
  BY DEF Pieces
<1>3. c \in Seq(Byte) /\ Len(c) = n /\ \A o \in 1..n : c[o] = <<k, o>>
  BY <1>0, <1>2, BytesAre
<1>4. Len(d) <= Len(e) /\ \A i \in 1..Len(d) : e[i] = d[i]
  <2>1. Len(u) \in Nat /\ k <= Len(u) /\ Len(u) <= Len(u)
    BY <1>0
  <2> QED BY <1>0, <2>1, BeforeBegins DEF All
<1>5. StartOf(u, k) = Len(a) /\ StartOf(u, k + 1) = Len(d)
  <2>1. (k + 1) - 1 = k
    OBVIOUS
  <2> QED BY <2>1 DEF StartOf
<1> HIDE DEF a, c, d, e, n
<1>6. Len(a) \in Nat
  BY <1>1, LenProperties
<1>7. /\ Len(d) = Len(a) + n
      /\ \A i \in 1..(Len(a) + n) : d[i] = IF i <= Len(a) THEN a[i] ELSE c[i - Len(a)]
  BY <1>1, <1>3, ConcatProperties
<1>8. ASSUME NEW o \in 1..n PROVE e[Len(a) + o] = <<k, o>>
  <2>1. Len(a) + o \in 1..(Len(a) + n) /\ ~(Len(a) + o <= Len(a)) /\ (Len(a) + o) - Len(a) = o
    BY <1>2, <1>6
  <2>2. d[Len(a) + o] = <<k, o>>
    BY <1>3, <1>7, <2>1
  <2> QED BY <1>4, <1>7, <2>1, <2>2
<1> QED BY <1>4, <1>5, <1>6, <1>7, <1>8 DEF e, n

LEMMA AllAre ==
  ASSUME NEW u, Pieces(u)
  PROVE  All(u) \in Seq(Byte) /\ Len(All(u)) \in Nat /\ StartOf(u, Len(u) + 1) = Len(All(u))
<1>1. Len(u) \in Nat /\ Len(u) <= Len(u) /\ (Len(u) + 1) - 1 = Len(u)
  BY DEF Pieces
<1>2. All(u) \in Seq(Byte)
  BY <1>1, BeforeMore DEF All
<1> QED BY <1>1, <1>2, LenProperties DEF All, StartOf

\* What the server adds leaves the stream so far as it was.
LEMMA AllBegins ==
  ASSUME NEW u, NEW v, Pieces(u), Pieces(v), Len(u) <= Len(v),
         \A k \in 1..Len(u) : v[k] = u[k]
  PROVE  /\ Len(All(u)) <= Len(All(v))
         /\ \A i \in 1..Len(All(u)) : All(v)[i] = All(u)[i]
         /\ \A k \in 1..(Len(u) + 1) : StartOf(v, k) = StartOf(u, k)
<1>1. Len(u) \in Nat /\ Len(v) \in Nat
  BY DEF Pieces
<1>2. BeforeOf(v, Len(u)) = BeforeOf(u, Len(u))
  BY <1>1, BeforeSame
<1>3. /\ Len(BeforeOf(v, Len(u))) <= Len(BeforeOf(v, Len(v)))
      /\ \A i \in 1..Len(BeforeOf(v, Len(u))) :
           BeforeOf(v, Len(v))[i] = BeforeOf(v, Len(u))[i]
  <2>1. Len(u) <= Len(v) /\ Len(v) <= Len(v)
    BY <1>1
  <2> QED BY <1>1, <2>1, BeforeBegins
<1>4. ASSUME NEW k \in 1..(Len(u) + 1) PROVE StartOf(v, k) = StartOf(u, k)
  <2>1. k - 1 \in Nat /\ \A j \in 1..(k - 1) : v[j] = u[j]
    BY <1>1
  <2>2. BeforeOf(v, k - 1) = BeforeOf(u, k - 1)
    BY <2>1, BeforeSame
  <2> QED BY <2>2 DEF StartOf
<1> QED BY <1>2, <1>3, <1>4 DEF All

-----------------------------------------------------------------------------
(* A buffer of the reader is a stretch of the stream: b lies in t after s.     *)

Lies(t, b, s) == /\ b \in Seq(Byte) /\ s \in Nat /\ s + Len(b) <= Len(t)
                 /\ \A i \in 1..Len(b) : b[i] = t[s + i]

LEMMA LiesOn ==
  ASSUME NEW t, NEW v, NEW b, NEW s, Lies(t, b, s), Len(t) \in Nat, Len(v) \in Nat,
         Len(t) <= Len(v), \A i \in 1..Len(t) : v[i] = t[i]
  PROVE  Lies(v, b, s)
<1>1. Len(b) \in Nat /\ s \in Nat /\ b \in Seq(Byte)
  BY LenProperties DEF Lies
<1>2. \A i \in 1..Len(b) : s + i \in 1..Len(t) /\ b[i] = t[s + i]
  BY <1>1 DEF Lies
<1>3. s + Len(b) <= Len(v)
  BY <1>1 DEF Lies
<1> QED BY <1>1, <1>2, <1>3 DEF Lies

LEMMA LiesChunk ==
  ASSUME NEW t \in Seq(Byte), NEW s \in Nat, NEW n \in 1..(Len(t) - s)
  PROVE  Lies(t, SubSeq(t, s + 1, s + n), s) /\ Len(SubSeq(t, s + 1, s + n)) = n
<1> DEFINE b == SubSeq(t, s + 1, s + n)
<1>1. Len(t) \in Nat
  BY LenProperties
<1>2. b \in Seq(Byte) /\ Len(b) = n /\ \A i \in 1..n : b[i] = t[s + i]
  <2>1. s + 1 \in 1..(Len(t) + 1) /\ s + n \in 0..Len(t) /\ s + 1 <= s + n /\ (s + n) - (s + 1) + 1 = n
    BY <1>1
  <2>2. /\ b \in Seq(Byte)
        /\ Len(b) = (s + n) - (s + 1) + 1
        /\ \A i \in 1..((s + n) - (s + 1) + 1) : b[i] = t[(s + 1) + i - 1]
    <3> DEFINE p == s + 1
               q == s + n
    <3>1. p \in Int /\ q \in Int /\ p <= q /\ \A i \in p..q : t[i] \in Byte
      BY <1>1
    <3>2. b = SubSeq(t, p, q)
      OBVIOUS
    <3> HIDE DEF b, p, q
    <3>3. /\ b \in Seq(Byte) /\ Len(b) = q - p + 1
          /\ \A i \in 1..(q - p + 1) : b[i] = t[p + i - 1]
      BY <3>1, <3>2, SubSeqProperties
    <3> QED BY <3>3 DEF p, q
  <2>3. \A i \in 1..n : (s + 1) + i - 1 = s + i
    OBVIOUS
  <2> HIDE DEF b
  <2> QED BY <2>1, <2>2, <2>3
<1> HIDE DEF b
<1>3. Lies(t, b, s)
  BY <1>1, <1>2 DEF Lies
<1> QED BY <1>2, <1>3 DEF b

LEMMA LiesCut ==
  ASSUME NEW t, NEW b, NEW s, Lies(t, b, s), Len(t) \in Nat, NEW n \in 1..Len(b)
  PROVE  /\ Lies(t, Piece(b, n), s) /\ Len(Piece(b, n)) = n
         /\ \/ Len(b) = n /\ Rest(b, n) = <<>>
            \/ \E c : /\ Rest(b, n) = <<c>> /\ Lies(t, c, s + n) /\ Len(c) = Len(b) - n
                      /\ Len(b) > n
<1>0. Len(b) \in Nat /\ s \in Nat /\ b \in Seq(Byte)
  BY LenProperties DEF Lies
<1>1. Lies(t, Piece(b, n), s) /\ Len(Piece(b, n)) = n
  <2> DEFINE a == Piece(b, n)
  <2>1. a \in Seq(Byte) /\ Len(a) = n /\ \A i \in 1..n : a[i] = b[i]
    <3>1. /\ SubSeq(b, 1, n) \in Seq(Byte) /\ Len(SubSeq(b, 1, n)) = n - 1 + 1
          /\ \A i \in 1..(n - 1 + 1) : SubSeq(b, 1, n)[i] = b[1 + i - 1]
      BY <1>0, SubSeqProperties
    <3>2. \A i \in 1..n : 1 + i - 1 = i
      OBVIOUS
    <3>3. n - 1 + 1 = n
      OBVIOUS
    <3> QED BY <3>1, <3>2, <3>3 DEF Piece
  <2> HIDE DEF a
  <2>2. \A i \in 1..n : a[i] = t[s + i]
    BY <1>0, <2>1 DEF Lies
  <2>3. s + n <= Len(t)
    BY <1>0 DEF Lies
  <2>4. Lies(t, a, s)
    BY <1>0, <2>1, <2>2, <2>3 DEF Lies
  <2> QED BY <2>1, <2>4 DEF a
<1>2. CASE Len(b) > n
  <2> DEFINE c == SubSeq(b, n + 1, Len(b))
             m == Len(b) - n
  <2>1. Rest(b, n) = <<c>>
    BY <1>2 DEF Rest
  <2>2. c \in Seq(Byte) /\ Len(c) = m /\ \A i \in 1..m : c[i] = b[n + i]
    <3>1. n + 1 \in 1..(Len(b) + 1) /\ Len(b) \in 0..Len(b) /\ n + 1 <= Len(b)
      BY <1>0, <1>2
    <3>2. /\ c \in Seq(Byte) /\ Len(c) = Len(b) - (n + 1) + 1
          /\ \A i \in 1..(Len(b) - (n + 1) + 1) : c[i] = b[(n + 1) + i - 1]
      BY <1>0, <3>1, SubSeqProperties
    <3>3. Len(b) - (n + 1) + 1 = m /\ \A i \in 1..m : (n + 1) + i - 1 = n + i
      BY <1>0
    <3> HIDE DEF c, m
    <3> QED BY <3>2, <3>3
  <2>3. m \in Nat /\ n + m = Len(b)
    BY <1>0, <1>2
  <2> HIDE DEF c
  <2>4. \A i \in 1..m : c[i] = t[(s + n) + i]
    <3>1. \A i \in 1..m : n + i \in 1..Len(b) /\ s + (n + i) = (s + n) + i
      BY <1>0, <2>3
    <3> HIDE DEF m
    <3> QED BY <2>2, <3>1 DEF Lies
  <2>5. s + n \in Nat /\ (s + n) + m <= Len(t)
    BY <1>0, <2>3 DEF Lies
  <2>6. Lies(t, c, s + n)
    BY <2>2, <2>4, <2>5 DEF Lies
  <2>7. Len(c) = Len(b) - n
    BY <2>2
  <2>8. \E d : /\ Rest(b, n) = <<d>> /\ Lies(t, d, s + n) /\ Len(d) = Len(b) - n /\ Len(b) > n
    BY <1>2, <2>1, <2>6, <2>7, Zenon
  <2> QED BY <1>1, <2>8
<1>3. CASE ~(Len(b) > n)
  BY <1>0, <1>1, <1>3 DEF Rest
<1> QED BY <1>2, <1>3

LEMMA LiesJoined ==
  ASSUME NEW t, NEW b, NEW c, NEW s, Lies(t, b, s), Lies(t, c, s + Len(b)), Len(t) \in Nat
  PROVE  Lies(t, b \o c, s) /\ Len(b \o c) = Len(b) + Len(c)
<1>0. Len(b) \in Nat /\ Len(c) \in Nat /\ s \in Nat /\ b \in Seq(Byte) /\ c \in Seq(Byte)
  BY LenProperties DEF Lies
<1>1. /\ b \o c \in Seq(Byte) /\ Len(b \o c) = Len(b) + Len(c)
      /\ \A i \in 1..(Len(b) + Len(c)) :
           (b \o c)[i] = IF i <= Len(b) THEN b[i] ELSE c[i - Len(b)]
  BY <1>0, ConcatProperties
<1>2. ASSUME NEW i \in 1..(Len(b) + Len(c)) PROVE (b \o c)[i] = t[s + i]
  <2>1. CASE i <= Len(b)
    BY <1>0, <1>1, <2>1 DEF Lies
  <2>2. CASE ~(i <= Len(b))
    <3>1. i - Len(b) \in 1..Len(c) /\ (s + Len(b)) + (i - Len(b)) = s + i
      BY <1>0, <2>2
    <3>2. c[i - Len(b)] = t[(s + Len(b)) + (i - Len(b))]
      BY <3>1 DEF Lies
    <3> QED BY <1>1, <2>2, <3>1, <3>2
  <2> QED BY <2>1, <2>2
<1>3. s + (Len(b) + Len(c)) <= Len(t)
  BY <1>0 DEF Lies
<1> QED BY <1>0, <1>1, <1>2, <1>3 DEF Lies

-----------------------------------------------------------------------------
(* What the server sends: a header, a reply, an answer to the ticket, and then *)
(* mini headers, each with its body after it if it announces one.              *)

Kinds == {"header", "reply", "auth", "mini", "body"}
Units == [kind : Kinds, len : Nat \ {0}, ok : BOOLEAN, size : Nat]

\* The piece k of u is the body of the mini header before it.
IsBody(u, k) == u[k - 1].kind = "mini" /\ u[k - 1].size # 0

Fits(u, k) ==
  /\ k = 1 => u[k].kind = "header" /\ u[k].len = LinkHeaderSize /\ u[k].size = ReplySize
  /\ k = 2 => u[k].kind = "reply" /\ u[k].len = ReplySize
  /\ k = 3 => u[k].kind = "auth" /\ u[k].len = AuthSize
  /\ k > 3 /\ IsBody(u, k) => u[k].kind = "body" /\ u[k].len = u[k - 1].size
  /\ k > 3 /\ ~IsBody(u, k) => u[k].kind = "mini" /\ u[k].len = MiniSize
  /\ u[k].kind = "mini" /\ u[k].size # 0 => k < Len(u)

ServerInv == units \in Seq(Units) /\ \A k \in 1..Len(units) : Fits(units, k)

(* What the reader waits for is the piece k, all that it keeps is what arrived *)
(* of the stream from the beginning of k on, and needed is the length of k:    *)
(* the bytes of a fixed part, or those that the mini header before k announced. *)
Awaited(k) ==
  \/ state = "start"  /\ k = 1 /\ saved = <<>> /\ needed = LinkHeaderSize
  \/ state = "link"   /\ k = 2 /\ saved = <<>> /\ needed = ReplySize
  \/ state = "ticket" /\ k = 3 /\ saved = <<>> /\ needed = AuthSize
  \/ state = "ready"  /\ k > 3 /\ saved = <<>> /\ ~IsBody(units, k) /\ needed = MiniSize
  \/ state = "ready"  /\ k > 3 /\ saved # <<>> /\ k <= Len(units)
                      /\ IsBody(units, k) /\ needed = units[k - 1].size

KeptFrom(s) ==
  \/ buffers = <<>> /\ arrived = s
  \/ \E b : /\ buffers = <<b>> /\ Lies(All(units), b, s) /\ arrived = s + Len(b)
            /\ (at = "idle" => Len(b) < needed)
  \/ \E b, c : /\ buffers = <<b, c>> /\ Lies(All(units), b, s)
               /\ Lies(All(units), c, s + Len(b)) /\ arrived = s + Len(b) + Len(c)
               /\ at = "combine" /\ Len(b) < needed

\* The messages that begin in the piece k of u: one in a mini header, which the
\* body after it completes.
MessageIn(u, k) ==
  IF u[k].kind = "mini"
  THEN << Message(BytesOf(u, k), IF u[k].size = 0 THEN <<>> ELSE BytesOf(u, k + 1)) >>
  ELSE <<>>
MessagesOf(u) == [k \in 1..Len(u) |-> MessageIn(u, k)]

\* All messages before the piece k have been handled, but for the one whose
\* header is saved.
HandledTo(k) ==
  \/ saved = <<>> /\ got = FirstOf(MessagesOf(units), k - 1)
  \/ saved # <<>> /\ k > 1 /\ saved = BytesOf(units, k - 1)
                  /\ got = FirstOf(MessagesOf(units), k - 2)

Place(k) == Awaited(k) /\ KeptFrom(StartOf(units, k)) /\ HandledTo(k)

Working == {"start", "link", "ticket", "ready"}

ReaderInv ==
  /\ arrived \in Nat /\ at \in {"idle", "combine", "consume"}
  /\ ws = "connecting" => at = "idle" /\ units = <<>> /\ arrived = 0 /\ buffers = <<>>
                          /\ saved = <<>> /\ got = <<>> /\ state = "connecting"
  /\ state \in Working /\ at # "idle" => ws = "open"
  /\ state \in Working => \E k \in 1..(Len(units) + 1) : Place(k)

StreamInv == ServerInv /\ ReaderInv

LEMMA SoundPieces ==
  ASSUME NEW u \in Seq(Units)
  PROVE  Pieces(u) /\ Len(u) \in Nat /\ \A k \in 1..Len(u) : u[k] \in Units
<1>1. Len(u) \in Nat /\ \A k \in 1..Len(u) : u[k] \in Units
  BY LenProperties, ElementOfSeq
<1>2. \A x \in Units : x.len \in Nat
  BY DEF Units
<1> QED BY <1>1, <1>2 DEF Pieces

LEMMA FitsOn ==
  ASSUME NEW u, NEW v, Len(u) \in Nat, Len(v) \in Nat, Len(u) <= Len(v),
         \A k \in 1..Len(u) : v[k] = u[k], \A k \in 1..Len(u) : Fits(u, k),
         \A k \in (Len(u) + 1)..Len(v) : Fits(v, k)
  PROVE  \A k \in 1..Len(v) : Fits(v, k)
<1>1. ASSUME NEW k \in 1..Len(u) PROVE Fits(v, k)
  <2>1. v[k] = u[k] /\ Fits(u, k) /\ k \in Int
    OBVIOUS
  <2>2. k > 3 => k - 1 \in 1..Len(u)
    OBVIOUS
  <2>3. k > 3 => v[k - 1] = u[k - 1]
    BY <2>2
  <2>4. k < Len(u) => k < Len(v)
    OBVIOUS
  <2>5. k > 3 => (IsBody(v, k) <=> IsBody(u, k))
    BY <2>3 DEF IsBody
  <2> QED BY <2>1, <2>3, <2>4, <2>5 DEF Fits
<1>2. \A k \in 1..Len(v) : k \in 1..Len(u) \/ k \in (Len(u) + 1)..Len(v)
  OBVIOUS
<1> QED BY <1>1, <1>2

LEMMA UnitsAre ==
  ASSUME NEW kind \in Kinds, NEW len \in Nat \ {0}, NEW ok \in BOOLEAN, NEW size \in Nat
  PROVE  /\ Unit(kind, len, ok, size) \in Units
         /\ Unit(kind, len, ok, size).kind = kind /\ Unit(kind, len, ok, size).len = len
         /\ Unit(kind, len, ok, size).size = size
BY DEF Unit, Units

\* The server adds pieces at the end of its stream, each one in its place.
LEMMA ServerAdds ==
  ASSUME ServerInv, Server
  PROVE  /\ ServerInv' /\ Len(units) <= Len(units')
         /\ \A k \in 1..Len(units) : units'[k] = units[k]
         /\ \/ Len(units') = Len(units) + 1
            \/ Len(units') = Len(units) + 2 /\ units'[Len(units) + 2].kind # "mini"
<1> DEFINE u == units
           v == units'
<1>0. u \in Seq(Units) /\ Len(u) \in Nat /\ \A k \in 1..Len(u) : Fits(u, k) /\ u[k] \in Units
  BY SoundPieces DEF ServerInv
<1>s. LinkHeaderSize \in Nat \ {0} /\ ReplySize \in Nat \ {0} /\ AuthSize \in Nat \ {0}
      /\ MiniSize \in Nat \ {0} /\ BodySizes \subseteq Nat
  BY SizesAssumption
<1>k. {"header", "reply", "auth", "mini", "body"} = Kinds
  BY DEF Kinds
<1>a. SUFFICES /\ v \in Seq(Units) /\ Len(u) <= Len(v)
               /\ \A k \in 1..Len(u) : v[k] = u[k]
               /\ \/ Len(v) = Len(u) + 1
                  \/ Len(v) = Len(u) + 2 /\ v[Len(u) + 2].kind # "mini"
               /\ \A k \in (Len(u) + 1)..Len(v) : Fits(v, k)
  <2>1. Len(v) \in Nat
    BY <1>a, LenProperties
  <2>2. \A k \in 1..Len(v) : Fits(v, k)
    <3> HIDE DEF u, v
    <3> QED BY <1>0, <1>a, <2>1, FitsOn
  <2> QED BY <1>a, <2>2 DEF ServerInv
<1>1. CASE ServerLinks
  <2>1. PICK magic \in BOOLEAN, reply \in BOOLEAN :
          v = << Unit("header", LinkHeaderSize, magic, ReplySize), Unit("reply", ReplySize, reply, 0) >>
    BY <1>1 DEF ServerLinks
  <2> DEFINE h == Unit("header", LinkHeaderSize, magic, ReplySize)
             r == Unit("reply", ReplySize, reply, 0)
  <2>2. h \in Units /\ h.kind = "header" /\ h.len = LinkHeaderSize /\ h.size = ReplySize
    BY <1>s, <1>k, UnitsAre
  <2>3. r \in Units /\ r.kind = "reply" /\ r.len = ReplySize
    BY <1>s, <1>k, UnitsAre
  <2>4. Len(u) = 0
    BY <1>1 DEF ServerLinks
  <2> HIDE DEF h, r
  <2>5. v = <<h, r>>
    BY <2>1 DEF h, r
  <2> HIDE DEF u, v
  <2>6. v \in Seq(Units) /\ Len(v) = 2 /\ v[1] = h /\ v[2] = r
    BY <2>2, <2>3, <2>5
  <2>7. Fits(v, 1) /\ Fits(v, 2)
    BY <2>2, <2>3, <2>6 DEF Fits
  <2>8. Len(v) = Len(u) + 2 /\ v[Len(u) + 2].kind # "mini"
    BY <2>3, <2>4, <2>6
  <2> QED BY <2>4, <2>6, <2>7, <2>8
<1>2. CASE ServerAnswersTicket
  <2>1. PICK granted \in BOOLEAN : v = Append(u, Unit("auth", AuthSize, granted, 0))
    BY <1>2 DEF ServerAnswersTicket
  <2> DEFINE a == Unit("auth", AuthSize, granted, 0)
  <2>2. a \in Units /\ a.kind = "auth" /\ a.len = AuthSize
    BY <1>s, <1>k, UnitsAre
  <2>3. Len(u) = 2
    BY <1>2 DEF ServerAnswersTicket
  <2> HIDE DEF a
  <2>4. v = Append(u, a)
    BY <2>1 DEF a
  <2> HIDE DEF u, v
  <2>5. v \in Seq(Units) /\ Len(v) = 3 /\ v[3] = a /\ \A k \in 1..Len(u) : v[k] = u[k]
    <3>1. /\ v \in Seq(Units) /\ Len(v) = Len(u) + 1 /\ v[Len(u) + 1] = a
          /\ \A k \in 1..Len(u) : v[k] = u[k]
      BY <1>0, <2>2, <2>4, AppendProperties
    <3>2. Len(u) + 1 = 3
      BY <2>3
    <3> QED BY <3>1, <3>2
  <2>6. Fits(v, 3)
    BY <2>2, <2>5 DEF Fits
  <2> QED BY <2>3, <2>5, <2>6
<1>3. CASE ServerSends
  <2>1. PICK n \in BodySizes :
          v = u \o << Unit("mini", MiniSize, TRUE, n) >>
                \o (IF n = 0 THEN <<>> ELSE << Unit("body", n, TRUE, 0) >>)
    BY <1>3 DEF ServerSends
  <2> DEFINE m == Unit("mini", MiniSize, TRUE, n)
             b == Unit("body", n, TRUE, 0)
             l == Len(u)
             w == Append(u, m)
  <2>2. n \in Nat /\ m \in Units /\ m.kind = "mini" /\ m.len = MiniSize /\ m.size = n
    <3>1. n \in Nat /\ MiniSize \in Nat \ {0} /\ "mini" \in Kinds
      BY <1>s, <1>k
    <3> QED BY <3>1 DEF Unit, Units
  <2>3. n # 0 => b \in Units /\ b.kind = "body" /\ b.len = n
    <3>1. n \in Nat /\ "body" \in Kinds
      BY <1>k, <2>2
    <3> QED BY <3>1 DEF Unit, Units
  <2>4. l > 2
    BY <1>3 DEF ServerSends
  <2> HIDE DEF m, b
  <2>5. v = (u \o <<m>>) \o (IF n = 0 THEN <<>> ELSE <<b>>)
    BY <2>1 DEF m, b
  <2> HIDE DEF u, v
  <2>6. w = u \o <<m>>
    BY <1>0, <2>2, AppendIsConcat
  <2>7. /\ w \in Seq(Units) /\ Len(w) = l + 1 /\ w[l + 1] = m
        /\ \A k \in 1..l : w[k] = u[k]
    BY <1>0, <2>2, AppendProperties
  <2>8. ~IsBody(u, l + 1)
    <3>1. (l + 1) - 1 = l /\ l \in 1..l /\ ~(l < l)
      BY <1>0, <2>4
    <3>2. u[l].kind = "mini" /\ u[l].size # 0 => l < Len(u)
      BY <1>0, <3>1 DEF Fits
    <3> QED BY <3>1, <3>2 DEF IsBody
  <2> HIDE DEF w
  <2>9. l \in Nat /\ l + 1 > 3 /\ l + 1 # 1 /\ l + 1 # 2 /\ l + 1 # 3
    BY <1>0, <2>4
  <2>10. ASSUME NEW t, Len(t) \in Nat, t[l] = u[l], t[l + 1] = m, n # 0 => l + 1 < Len(t)
         PROVE  Fits(t, l + 1)
    <3>1. (l + 1) - 1 = l
      BY <2>9
    <3>2. ~IsBody(t, l + 1)
      BY <2>8, <2>10, <3>1 DEF IsBody
    <3> HIDE DEF l
    <3> QED BY <2>2, <2>9, <2>10, <3>2 DEF Fits
  <2>11. CASE n = 0
    <3>1. v = w
      BY <2>5, <2>6, <2>7, <2>11, ConcatEmptySeq
    <3>2. w[l] = u[l]
      BY <2>4, <2>7, <2>9
    <3>3. Fits(w, l + 1)
      BY <2>7, <2>9, <2>10, <2>11, <3>2
    <3> QED BY <2>7, <2>9, <3>1, <3>3
  <2>12. CASE n # 0
    <3> DEFINE x == Append(w, b)
    <3>1. v = x
      BY <2>3, <2>5, <2>6, <2>7, <2>12, AppendIsConcat
    <3>2. /\ x \in Seq(Units) /\ Len(x) = l + 2 /\ x[l + 2] = b
          /\ \A k \in 1..(l + 1) : x[k] = w[k]
      <4>1. /\ x \in Seq(Units) /\ Len(x) = Len(w) + 1 /\ x[Len(w) + 1] = b
            /\ \A k \in 1..Len(w) : x[k] = w[k]
        BY <2>3, <2>7, <2>12, AppendProperties
      <4>2. Len(w) = l + 1 /\ Len(w) + 1 = l + 2
        BY <2>7, <2>9
      <4> QED BY <4>1, <4>2
    <3> HIDE DEF x
    <3>3. x[l] = u[l] /\ x[l + 1] = m /\ \A k \in 1..l : x[k] = u[k]
      BY <2>4, <2>7, <2>9, <3>2
    <3>4. Fits(x, l + 1)
      BY <2>9, <2>10, <3>2, <3>3
    <3>5. Fits(x, l + 2)
      <4>1. (l + 2) - 1 = l + 1 /\ l + 2 > 3 /\ l + 2 # 1 /\ l + 2 # 2 /\ l + 2 # 3
        BY <2>9
      <4>2. IsBody(x, l + 2) /\ x[(l + 2) - 1].size = n
        BY <2>2, <2>12, <3>3, <4>1 DEF IsBody
      <4> HIDE DEF l
      <4> QED BY <2>3, <2>12, <3>2, <4>1, <4>2 DEF Fits
    <3>6. \A k \in (l + 1)..(l + 2) : k = l + 1 \/ k = l + 2
      BY <2>9
    <3>7. Len(v) = l + 2 /\ v[l + 2].kind # "mini"
      BY <2>3, <2>12, <3>1, <3>2
    <3> QED BY <2>9, <3>1, <3>2, <3>3, <3>4, <3>5, <3>6, <3>7
  <2> QED BY <2>11, <2>12
<1> QED BY <1>1, <1>2, <1>3 DEF Server

\* A stream that a server may send.
Sound(u) == u \in Seq(Units) /\ \A k \in 1..Len(u) : Fits(u, k)

Messages == [header : Seq(Byte), body : Seq(Byte)]

LEMMA MessagesAre ==
  ASSUME NEW u, Sound(u)
  PROVE  Len(u) \in Nat /\ Each(MessagesOf(u), Len(u), Messages)
<1>1. Pieces(u) /\ Len(u) \in Nat
  BY SoundPieces DEF Sound
<1>2. ASSUME NEW k \in 1..Len(u) PROVE MessageIn(u, k) \in Seq(Messages)
  <2>1. BytesOf(u, k) \in Seq(Byte) /\ <<>> \in Seq(Byte)
    BY <1>1, BytesAre, EmptySeq DEF Pieces
  <2>2. CASE u[k].kind = "mini" /\ u[k].size = 0
    <3>1. Message(BytesOf(u, k), <<>>) \in Messages
      BY <2>1 DEF Message, Messages
    <3> QED BY <2>2, <3>1 DEF MessageIn
  <2>3. CASE u[k].kind = "mini" /\ u[k].size # 0
    <3>1. k + 1 \in 1..Len(u)
      BY <1>1, <2>3 DEF Sound, Fits
    <3>2. BytesOf(u, k + 1) \in Seq(Byte)
      BY <1>1, <3>1, BytesAre DEF Pieces
    <3>3. Message(BytesOf(u, k), BytesOf(u, k + 1)) \in Messages
      BY <2>1, <3>2 DEF Message, Messages
    <3> QED BY <2>3, <3>3 DEF MessageIn
  <2>4. CASE u[k].kind # "mini"
    BY <2>4, EmptySeq DEF MessageIn
  <2> QED BY <2>2, <2>3, <2>4
<1>3. \A k \in 1..Len(u) : MessagesOf(u)[k] = MessageIn(u, k)
  BY DEF MessagesOf
<1> QED BY <1>1, <1>2, <1>3 DEF Each

LEMMA MessagesMore ==
  ASSUME NEW u, Sound(u), NEW k \in 1..Len(u)
  PROVE  /\ FirstOf(MessagesOf(u), k - 1) \in Seq(Messages)
         /\ FirstOf(MessagesOf(u), k) = FirstOf(MessagesOf(u), k - 1) \o MessageIn(u, k)
<1> DEFINE w == MessagesOf(u)
           n == Len(u)
<1>1. n \in Nat /\ \A j \in 1..n : w[j] \in Seq(Messages)
  BY MessagesAre DEF Each
<1>2. w[k] = MessageIn(u, k)
  BY DEF MessagesOf
<1>3. k \in Nat /\ k - 1 \in Nat /\ k <= n /\ k - 1 <= n /\ k > 0
  BY <1>1
<1> HIDE DEF w, n
<1>4. \A j \in Nat : j <= n =>
        /\ FirstOf(w, j) \in Seq(Messages)
        /\ j > 0 => FirstOf(w, j) = FirstOf(w, j - 1) \o w[j]
  BY <1>1, FirstMore
<1>5. FirstOf(w, k - 1) \in Seq(Messages) /\ FirstOf(w, k) = FirstOf(w, k - 1) \o w[k]
  BY <1>3, <1>4
<1> QED BY <1>2, <1>5 DEF w

\* What the server adds leaves the messages so far as they were.
LEMMA MessagesSame ==
  ASSUME NEW u, NEW v, Sound(u), Sound(v), Len(u) <= Len(v),
         \A k \in 1..Len(u) : v[k] = u[k], NEW m \in Nat, m <= Len(u)
  PROVE  FirstOf(MessagesOf(v), m) = FirstOf(MessagesOf(u), m)
<1>1. Len(u) \in Nat /\ Len(v) \in Nat
  BY MessagesAre
<1>2. ASSUME NEW k \in 1..m PROVE MessagesOf(v)[k] = MessagesOf(u)[k]
  <2>1. k \in 1..Len(u) /\ k \in 1..Len(v) /\ v[k] = u[k]
    BY <1>1
  <2>2. u[k].kind = "mini" /\ u[k].size # 0 => k + 1 \in 1..Len(u)
    BY <1>1, <2>1 DEF Sound, Fits
  <2>3. u[k].kind = "mini" /\ u[k].size # 0 => BytesOf(v, k + 1) = BytesOf(u, k + 1)
    BY <2>2 DEF BytesOf
  <2>4. BytesOf(v, k) = BytesOf(u, k)
    BY <2>1 DEF BytesOf
  <2>5. MessageIn(v, k) = MessageIn(u, k)
    BY <2>1, <2>3, <2>4 DEF MessageIn
  <2> QED BY <2>1, <2>5 DEF MessagesOf
<1> QED BY <1>2, FirstSame

\* A piece that is no mini header adds no message, and one that is adds one.
LEMMA NoMessage ==
  ASSUME NEW u, Sound(u), NEW k \in 1..Len(u), u[k].kind # "mini"
  PROVE  FirstOf(MessagesOf(u), k) = FirstOf(MessagesOf(u), k - 1)
<1>1. MessageIn(u, k) = <<>>
  BY DEF MessageIn
<1> DEFINE a == FirstOf(MessagesOf(u), k - 1)
<1>2. a \in Seq(Messages) /\ FirstOf(MessagesOf(u), k) = a \o <<>>
  BY <1>1, MessagesMore
<1> HIDE DEF a
<1>3. a \o <<>> = a
  BY <1>2, ConcatEmptySeq
<1> QED BY <1>2, <1>3 DEF a

LEMMA OneMessage ==
  ASSUME NEW u, Sound(u), NEW k \in 1..Len(u), u[k].kind = "mini"
  PROVE  /\ FirstOf(MessagesOf(u), k) =
           Append(FirstOf(MessagesOf(u), k - 1),
                  Message(BytesOf(u, k), IF u[k].size = 0 THEN <<>> ELSE BytesOf(u, k + 1)))
         /\ Message(BytesOf(u, k), IF u[k].size = 0 THEN <<>> ELSE BytesOf(u, k + 1)) \in Messages
<1> DEFINE m == Message(BytesOf(u, k), IF u[k].size = 0 THEN <<>> ELSE BytesOf(u, k + 1))
           a == FirstOf(MessagesOf(u), k - 1)
<1>1. MessageIn(u, k) = <<m>>
  BY DEF MessageIn
<1>2. a \in Seq(Messages) /\ FirstOf(MessagesOf(u), k) = a \o <<m>>
  BY <1>1, MessagesMore
<1>3. m \in Messages
  <2>1. MessageIn(u, k) \in Seq(Messages)
    BY MessagesAre DEF Each, MessagesOf
  <2> HIDE DEF m
  <2>2. Len(<<m>>) = 1 /\ <<m>>[1] = m /\ 1 \in 1..Len(<<m>>)
    OBVIOUS
  <2> QED BY <1>1, <2>1, <2>2, ElementOfSeq
<1> HIDE DEF m, a
<1>4. a \o <<m>> = Append(a, m)
  BY <1>2, <1>3, AppendIsConcat
<1> QED BY <1>2, <1>3, <1>4 DEF m, a

-----------------------------------------------------------------------------
(* The reader keeps its place.                                                 *)

\* A buffer that begins with the piece awaited and is long enough holds it.
LEMMA PieceIsRead ==
  ASSUME ServerInv, NEW k \in 1..(Len(units) + 1), Awaited(k)
  PROVE  /\ needed \in Nat \ {0}
         /\ k <= Len(units) => needed = units[k].len
         /\ \A b : Lies(All(units), b, StartOf(units, k)) /\ Len(b) >= needed =>
              /\ k \in 1..Len(units) /\ needed \in 1..Len(b)
              /\ Piece(b, needed) = BytesOf(units, k)
              /\ Piece(b, needed) # <<>> /\ Read(Piece(b, needed)) = units[k]
              /\ StartOf(units, k + 1) = StartOf(units, k) + needed
<1>0. /\ Pieces(units) /\ Len(units) \in Nat
      /\ \A j \in 1..Len(units) : units[j] \in Units /\ Fits(units, j)
  BY SoundPieces DEF ServerInv
<1>1. needed \in Nat \ {0}
  <2>1. CASE state = "ready" /\ saved # <<>>
    <3>1. k - 1 \in 1..Len(units) /\ IsBody(units, k) /\ needed = units[k - 1].size
      BY <1>0, <2>1 DEF Awaited
    <3>2. units[k - 1].size \in Nat /\ units[k - 1].size # 0
      BY <1>0, <3>1 DEF Units, IsBody
    <3> QED BY <3>1, <3>2
  <2>2. CASE ~(state = "ready" /\ saved # <<>>)
    BY <2>2, SizesAssumption DEF Awaited
  <2> QED BY <2>1, <2>2
<1>2. ASSUME k <= Len(units) PROVE needed = units[k].len
  <2>1. Fits(units, k)
    BY <1>0, <1>2
  <2> QED BY <2>1 DEF Awaited, Fits
<1>3. ASSUME NEW b, Lies(All(units), b, StartOf(units, k)), Len(b) >= needed
      PROVE  /\ k \in 1..Len(units) /\ needed \in 1..Len(b)
             /\ Piece(b, needed) = BytesOf(units, k)
             /\ Piece(b, needed) # <<>> /\ Read(Piece(b, needed)) = units[k]
             /\ StartOf(units, k + 1) = StartOf(units, k) + needed
  <2>0. /\ b \in Seq(Byte) /\ Len(b) \in Nat /\ StartOf(units, k) \in Nat
        /\ StartOf(units, k) + Len(b) <= Len(All(units))
        /\ \A i \in 1..Len(b) : b[i] = All(units)[StartOf(units, k) + i]
    BY <1>3, LenProperties DEF Lies
  <2>1. needed \in 1..Len(b) /\ 1 \in 1..Len(b)
    BY <1>1, <1>3, <2>0
  <2>2. k \in 1..Len(units)
    <3>1. SUFFICES ASSUME k = Len(units) + 1 PROVE FALSE
      BY <1>0
    <3>2. StartOf(units, k) = Len(All(units)) /\ Len(All(units)) \in Nat
      BY <1>0, <3>1, AllAre
    <3> QED BY <2>0, <2>1, <3>2
  <2>3. needed = units[k].len
    BY <1>2, <2>2, <1>0
  <2>4. /\ StartOf(units, k + 1) = StartOf(units, k) + needed
        /\ \A o \in 1..needed : All(units)[StartOf(units, k) + o] = <<k, o>>
    BY <1>0, <2>2, <2>3, ByteAt
  <2>5. b[1] = <<k, 1>>
    BY <1>1, <2>0, <2>1, <2>4
  <2>6. Len(Piece(b, needed)) = needed /\ Piece(b, needed)[1] = b[1]
    <3> DEFINE n == needed
    <3>1. n \in Int /\ n >= 1 /\ \A i \in 1..n : b[i] \in Byte
      BY <2>0, <2>1
    <3> HIDE DEF n
    <3>2. /\ SubSeq(b, 1, n) \in Seq(Byte) /\ Len(SubSeq(b, 1, n)) = IF 1 <= n THEN n - 1 + 1 ELSE 0
          /\ \A i \in 1..(n - 1 + 1) : SubSeq(b, 1, n)[i] = b[1 + i - 1]
      BY <3>1, SubSeqProperties
    <3>3. 1 \in 1..(n - 1 + 1) /\ 1 + 1 - 1 = 1 /\ n - 1 + 1 = n
      BY <3>1
    <3>4. Len(SubSeq(b, 1, n)) = n /\ SubSeq(b, 1, n)[1] = b[1]
      BY <3>1, <3>2, <3>3
    <3> QED BY <3>4 DEF Piece, n
  <2>7. Piece(b, needed) # <<>>
    BY <1>1, <2>6
  <2>8. Read(Piece(b, needed)) = units[k]
    BY <2>5, <2>6 DEF Read
  <2>9. Piece(b, needed) = BytesOf(units, k)
    <3> DEFINE n == needed
               c == Piece(b, n)
               d == BytesOf(units, k)
    <3>1. n \in Int /\ n >= 1 /\ \A i \in 1..n : b[i] \in Byte
      BY <2>0, <2>1
    <3>2. c \in Seq(Byte) /\ Len(c) = n /\ \A i \in 1..n : c[i] = b[i]
      <4> HIDE DEF n
      <4>1. /\ SubSeq(b, 1, n) \in Seq(Byte) /\ Len(SubSeq(b, 1, n)) = IF 1 <= n THEN n - 1 + 1 ELSE 0
            /\ \A i \in 1..(n - 1 + 1) : SubSeq(b, 1, n)[i] = b[1 + i - 1]
        BY <3>1, SubSeqProperties
      <4>2. \A i \in 1..n : 1 + i - 1 = i
        OBVIOUS
      <4>3. n - 1 + 1 = n /\ 1 <= n
        BY <3>1
      <4> QED BY <4>1, <4>2, <4>3 DEF Piece
    <3>3. d \in Seq(Byte) /\ Len(d) = n /\ \A i \in 1..n : d[i] = <<k, i>>
      <4>1. k \in Nat /\ units[k].len \in Nat /\ units[k].len = n
        BY <1>1, <2>2, <2>3
      <4> QED BY <4>1, BytesAre
    <3>4. \A i \in 1..n : b[i] = <<k, i>>
      <4>1. \A i \in 1..n : i \in 1..Len(b)
        BY <2>0, <2>1
      <4>2. \A i \in 1..n : b[i] = All(units)[StartOf(units, k) + i]
        BY <2>0, <4>1
      <4> QED BY <2>4, <4>2
    <3> HIDE DEF c, d, n
    <3>5. Len(c) = Len(d) /\ \A i \in 1..Len(c) : c[i] = d[i]
      BY <3>2, <3>3, <3>4
    <3>6. c = d
      BY <3>2, <3>3, <3>5, SeqEqual
    <3> QED BY <3>6 DEF c, d, n
  <2> QED BY <2>1, <2>2, <2>4, <2>7, <2>8, <2>9
<1> QED BY <1>1, <1>2, <1>3

\* process_inbound, given the piece awaited, waits for the one after it.
LEMMA NextAwaited ==
  ASSUME ServerInv, NEW k \in 1..Len(units), Awaited(k), HandledTo(k), UNCHANGED units,
         NEW mb, mb = BytesOf(units, k), mb # <<>>, Read(mb) = units[k],
         NEW next, Callback(mb, next), state' \in Working
  PROVE  Awaited(k + 1)' /\ HandledTo(k + 1)' /\ at' = next
<1>0. /\ Len(units) \in Nat /\ Fits(units, k) /\ units[k] \in Units
      /\ Len(units') = Len(units)
  BY SoundPieces DEF ServerInv
<1>b. (k + 1) - 1 = k /\ (k > 3 => k + 1 > 3)
  OBVIOUS
<1>c. (IsBody(units, k + 1) <=> units[k].kind = "mini" /\ units[k].size # 0)
      /\ (IsBody(units, k + 1)' <=> IsBody(units, k + 1))
  BY <1>b DEF IsBody
<1>m. /\ Sound(units) /\ MessagesOf(units') = MessagesOf(units)
      /\ BytesOf(units', k) = BytesOf(units, k)
  BY DEF ServerInv, Sound
<1>n. (k + 1) - 2 = k - 1 /\ k + 1 > 1
  OBVIOUS
<1>h. ASSUME saved = <<>>, saved' = <<>>, got' = got, units[k].kind # "mini"
      PROVE  HandledTo(k + 1)'
  <2>1. got = FirstOf(MessagesOf(units), k)
    BY <1>h, <1>m, NoMessage DEF HandledTo
  <2> QED BY <1>b, <1>h, <1>m, <2>1 DEF HandledTo
<1>r. ASSUME NEW what, ReportError(what, "error", next) PROVE FALSE
  BY <1>r DEF ReportError, Stop, Working
<1>1. CASE LinkHeaderArrives(mb, next)
  <2>1. state = "start" /\ k = 1 /\ saved = <<>>
    BY <1>1 DEF LinkHeaderArrives, Awaited
  <2>2. /\ needed' = units[k].size /\ state' = "link" /\ at' = next /\ saved' = saved
    BY <1>1, <1>r DEF LinkHeaderArrives
  <2>3. units[k].size = ReplySize /\ units[k].kind # "mini"
    BY <1>0, <2>1 DEF Fits
  <2>4. HandledTo(k + 1)'
    BY <1>1, <1>h, <2>1, <2>2, <2>3 DEF LinkHeaderArrives
  <2> QED BY <2>1, <2>2, <2>3, <2>4 DEF Awaited
<1>2. CASE LinkReplyArrives(mb, next)
  <2>1. state = "link" /\ k = 2 /\ saved = <<>>
    BY <1>2 DEF LinkReplyArrives, Awaited
  <2>2. /\ needed' = AuthSize /\ state' = "ticket" /\ at' = next /\ saved' = saved
    BY <1>2, <1>r DEF LinkReplyArrives
  <2>3. units[k].kind # "mini"
    BY <1>0, <2>1 DEF Fits
  <2>4. HandledTo(k + 1)'
    BY <1>2, <1>h, <2>1, <2>2, <2>3 DEF LinkReplyArrives
  <2> QED BY <2>1, <2>2, <2>4 DEF Awaited
<1>3. CASE AuthReplyArrives(mb, next)
  <2>1. state = "ticket" /\ k = 3 /\ saved = <<>>
    BY <1>3 DEF AuthReplyArrives, Awaited
  <2>2. /\ needed' = MiniSize /\ state' = "ready" /\ at' = next /\ saved' = saved
    BY <1>3, <1>r DEF AuthReplyArrives
  <2>3. ~IsBody(units, k + 1)'
    BY <1>0, <1>c, <2>1 DEF Fits
  <2>4. k + 1 > 3
    BY <2>1
  <2>5. units[k].kind # "mini"
    BY <1>0, <2>1 DEF Fits
  <2>6. HandledTo(k + 1)'
    BY <1>3, <1>h, <2>1, <2>2, <2>5 DEF AuthReplyArrives
  <2> QED BY <2>1, <2>2, <2>3, <2>4, <2>6 DEF Awaited
<1>4. CASE MiniHeaderArrives(mb, next)
  <2>1. state = "ready" /\ state' = "ready" /\ saved = <<>> /\ at' = next /\ k > 3
    BY <1>4 DEF MiniHeaderArrives, Awaited
  <2>2. ~IsBody(units, k)
    BY <2>1 DEF Awaited
  <2>3. units[k].kind = "mini" /\ (units[k].size # 0 => k < Len(units))
    BY <1>0, <2>1, <2>2 DEF Fits
  <2>4. CASE units[k].size = 0
    <3>1. needed' = MiniSize /\ saved' = saved
      BY <1>4, <2>4 DEF MiniHeaderArrives
    <3>2. ~IsBody(units, k + 1)'
      BY <1>c, <2>4
    <3>3. got' = Append(got, Message(mb, <<>>))
      BY <1>4, <2>4 DEF MiniHeaderArrives
    <3>4. got' = FirstOf(MessagesOf(units), k)
      BY <1>m, <2>1, <2>3, <2>4, <3>3, OneMessage DEF HandledTo
    <3>5. HandledTo(k + 1)'
      BY <1>b, <1>m, <2>1, <3>1, <3>4 DEF HandledTo
    <3> QED BY <1>b, <2>1, <3>1, <3>2, <3>5 DEF Awaited
  <2>5. CASE units[k].size # 0
    <3>1. needed' = units[k].size /\ saved' = mb
      BY <1>4, <2>5 DEF MiniHeaderArrives
    <3>2. IsBody(units, k + 1)'
      BY <1>c, <2>3, <2>5
    <3>3. k + 1 <= Len(units')
      BY <1>0, <2>3, <2>5
    <3>4. needed' = units'[(k + 1) - 1].size
      BY <1>b, <3>1
    <3>5. state' = "ready" /\ k + 1 > 3 /\ saved' # <<>>
      BY <1>b, <2>1, <3>1
    <3>6. Awaited(k + 1)'
      BY <3>2, <3>3, <3>4, <3>5 DEF Awaited
    <3>7. got' = FirstOf(MessagesOf(units), k - 1)
      BY <1>4, <2>1, <2>5 DEF MiniHeaderArrives, HandledTo
    <3>8. HandledTo(k + 1)'
      BY <1>b, <1>m, <1>n, <3>1, <3>5, <3>7 DEF HandledTo
    <3> QED BY <2>1, <3>6, <3>8
  <2> QED BY <2>4, <2>5
<1>5. CASE BodyArrives(mb, next)
  <2>1. /\ state = "ready" /\ state' = "ready" /\ saved # <<>> /\ saved' = <<>>
        /\ at' = next /\ needed' = MiniSize /\ k > 3
    BY <1>5 DEF BodyArrives, Awaited
  <2>2. IsBody(units, k)
    BY <2>1 DEF Awaited
  <2>3. units[k].kind = "body"
    BY <1>0, <2>1, <2>2 DEF Fits
  <2>4. ~IsBody(units, k + 1)'
    BY <1>c, <2>3
  <2>5. k + 1 > 3
    BY <1>b, <2>1
  <2>6. saved = BytesOf(units, k - 1) /\ got = FirstOf(MessagesOf(units), k - 2)
    BY <2>1 DEF HandledTo
  <2>7. /\ k - 1 \in 1..Len(units) /\ (k - 1) - 1 = k - 2 /\ (k - 1) + 1 = k
        /\ units[k - 1].kind = "mini" /\ units[k - 1].size # 0
    BY <1>0, <2>1, <2>2 DEF IsBody
  <2>8. got' = Append(got, Message(saved, mb))
    BY <1>5 DEF BodyArrives
  <2>9. FirstOf(MessagesOf(units), k - 1) = got'
    <3> DEFINE j == k - 1
    <3>1. j \in 1..Len(units) /\ units[j].kind = "mini" /\ units[j].size # 0
      BY <2>7
    <3>2. FirstOf(MessagesOf(units), j - 1) = got /\ BytesOf(units, j) = saved
          /\ BytesOf(units, j + 1) = mb
      BY <2>6, <2>7
    <3> HIDE DEF j
    <3>3. FirstOf(MessagesOf(units), j) = Append(got, Message(saved, mb))
      BY <1>m, <3>1, <3>2, OneMessage
    <3> QED BY <2>8, <3>3 DEF j
  <2>10. FirstOf(MessagesOf(units), k) = got'
    BY <1>m, <2>3, <2>9, NoMessage
  <2>11. HandledTo(k + 1)'
    BY <1>b, <1>m, <2>1, <2>10 DEF HandledTo
  <2> QED BY <2>1, <2>4, <2>5, <2>11 DEF Awaited
<1>6. CASE Dropped(next)
  BY <1>6 DEF Dropped, Working, connection
<1> QED BY <1>1, <1>2, <1>3, <1>4, <1>5, <1>6 DEF Callback

LEMMA HandledStays ==
  ASSUME NEW k, HandledTo(k), UNCHANGED <<got, saved, units>>
  PROVE  HandledTo(k)'
BY DEF HandledTo, BytesOf

\* Whatever it is given, it leaves a connection that has failed given up, and
\* no socket connecting.
LEMMA CallbackLeaves ==
  ASSUME NEW mb, NEW next \in {"combine", "consume"}, Callback(mb, next)
  PROVE  /\ at' \in {"idle", next} /\ (ws' = "connecting" => ws = "connecting")
         /\ state' \in Working => state \in Working /\ ws' = ws
<1>1. ASSUME NEW what, ReportError(what, "error", next)
      PROVE  at' \in {"idle", next} /\ state' \notin Working
             /\ (ws' = "connecting" => ws = "connecting")
  <2>1. CASE onerror
    <3>1. ws' = Closed(ws) /\ state' = "closing" /\ at' = next
      BY <1>1, <2>1 DEF ReportError, Stop, Cleanup
    <3>2. ws' = "connecting" => ws = "connecting"
      BY <3>1, ClosedSocket
    <3> QED BY <3>1, <3>2 DEF Working
  <2>2. CASE ~onerror
    BY <1>1, <2>2 DEF ReportError, Working
  <2> QED BY <2>1, <2>2
<1>2. CASE LinkHeaderArrives(mb, next)
  BY <1>1, <1>2 DEF LinkHeaderArrives, Working
<1>3. CASE LinkReplyArrives(mb, next)
  BY <1>1, <1>3 DEF LinkReplyArrives, Working
<1>4. CASE AuthReplyArrives(mb, next)
  BY <1>1, <1>4 DEF AuthReplyArrives, Working
<1>5. CASE MiniHeaderArrives(mb, next)
  BY <1>5 DEF MiniHeaderArrives, Working
<1>6. CASE BodyArrives(mb, next)
  BY <1>6 DEF BodyArrives, Working
<1>7. CASE Dropped(next)
  BY <1>7 DEF Dropped, Working, connection
<1> QED BY <1>2, <1>3, <1>4, <1>5, <1>6, <1>7 DEF Callback

\* The piece at the head of what is kept goes to the callback, the rest stays.
LEMMA PieceGoes ==
  ASSUME ServerInv, NEW k \in 1..(Len(units) + 1), Awaited(k), HandledTo(k), UNCHANGED units,
         NEW b, Lies(All(units), b, StartOf(units, k)), Len(b) >= needed,
         arrived' = StartOf(units, k) + Len(b), buffers' = Rest(b, needed),
         NEW next \in {"combine", "consume"}, Callback(Piece(b, needed), next),
         state' \in Working
  PROVE  \E j \in 1..(Len(units) + 1)' : Place(j)'
<1> DEFINE t == All(units)
           s == StartOf(units, k)
           n == needed
<1>1. /\ k \in 1..Len(units) /\ n \in 1..Len(b)
      /\ Piece(b, n) = BytesOf(units, k) /\ Piece(b, n) # <<>> /\ Read(Piece(b, n)) = units[k]
      /\ StartOf(units, k + 1) = s + n
  BY PieceIsRead
<1>2. Awaited(k + 1)' /\ HandledTo(k + 1)' /\ at' = next
  BY <1>1, NextAwaited
<1>3. Len(units) \in Nat /\ k + 1 \in 1..(Len(units) + 1) /\ Len(t) \in Nat
  <2>1. Pieces(units)
    BY SoundPieces DEF ServerInv
  <2>2. Len(units) \in Nat /\ Len(t) \in Nat
    BY <2>1, AllAre DEF Pieces
  <2> QED BY <1>1, <2>2
<1>4. s \in Nat /\ Len(b) \in Nat
  BY LenProperties DEF Lies
<1>5. \/ Len(b) = n /\ Rest(b, n) = <<>>
      \/ \E c : /\ Rest(b, n) = <<c>> /\ Lies(t, c, s + n) /\ Len(c) = Len(b) - n
                /\ Len(b) > n
  <2> HIDE DEF t, s, n
  <2>1. Lies(t, b, s)
    BY DEF t, s
  <2> QED BY <1>1, <1>3, <2>1, LiesCut
<1>6. All(units') = t /\ StartOf(units', k + 1) = s + n /\ at' # "idle"
  BY <1>1, <1>2
<1>7. KeptFrom(StartOf(units, k + 1))'
  <2>1. CASE Len(b) = n /\ Rest(b, n) = <<>>
    <3>1. buffers' = <<>> /\ arrived' = StartOf(units', k + 1)
      BY <1>6, <2>1
    <3> QED BY <3>1 DEF KeptFrom
  <2>2. CASE \E c : /\ Rest(b, n) = <<c>> /\ Lies(t, c, s + n) /\ Len(c) = Len(b) - n
                    /\ Len(b) > n
    <3>1. PICK c : /\ Rest(b, n) = <<c>> /\ Lies(t, c, s + n) /\ Len(c) = Len(b) - n
                   /\ Len(b) > n
      BY <2>2
    <3>2. arrived' = (s + n) + Len(c)
      BY <1>1, <1>4, <3>1
    <3>3. buffers' = <<c>>
      BY <3>1
    <3>4. /\ buffers' = <<c>> /\ Lies(All(units'), c, StartOf(units', k + 1))
          /\ arrived' = StartOf(units', k + 1) + Len(c)
          /\ (at' = "idle" => Len(c) < needed')
      BY <1>6, <3>1, <3>2, <3>3
    <3> HIDE DEF t, s, n
    <3> QED BY <3>4, Zenon DEF KeptFrom
  <2> QED BY <1>5, <2>1, <2>2
<1> QED BY <1>2, <1>3, <1>7 DEF Place

LEMMA ChunkArrives ==
  ASSUME StreamInv, Inbound, state' \in Working
  PROVE  \E j \in 1..(Len(units) + 1)' : Place(j)'
<1> DEFINE t == All(units)
<1>1. PICK n \in 1..(Len(Stream) - arrived) :
        /\ arrived' = arrived + n
        /\ IF needed > 0 /\ buffers = <<>> /\ Len(SubSeq(Stream, arrived + 1, arrived + n)) >= needed
           THEN /\ buffers' = Rest(SubSeq(Stream, arrived + 1, arrived + n), needed)
                /\ Callback(Piece(SubSeq(Stream, arrived + 1, arrived + n), needed), "combine")
           ELSE /\ buffers' = Append(buffers, SubSeq(Stream, arrived + 1, arrived + n))
                /\ at' = IF needed = 0 THEN "idle" ELSE "combine"
                /\ UNCHANGED <<connection, ws, needed, saved>>
  BY DEF Inbound
<1> DEFINE mb == SubSeq(Stream, arrived + 1, arrived + n)
<1>2. Stream = t
  <2>1. units \in Seq(Units) /\ DOMAIN units = 1..Len(units)
    BY LenProperties DEF StreamInv, ServerInv
  <2>2. [k \in DOMAIN units |-> Bytes(k)] = [k \in 1..Len(units) |-> BytesOf(units, k)]
    BY <2>1 DEF Bytes, BytesOf
  <2> QED BY <2>2 DEF Stream, All, BeforeOf
<1>3. /\ Pieces(units) /\ t \in Seq(Byte) /\ Len(t) \in Nat /\ arrived \in Nat
      /\ at = "idle" /\ units' = units /\ ServerInv
  <2>1. Pieces(units)
    BY SoundPieces DEF StreamInv, ServerInv
  <2>2. t \in Seq(Byte) /\ Len(t) \in Nat
    BY <2>1, AllAre
  <2> QED BY <2>1, <2>2 DEF StreamInv, ReaderInv, Inbound
<1>4. Lies(t, mb, arrived) /\ Len(mb) = n /\ n \in Nat /\ n > 0
  <2> DEFINE a == arrived
  <2>1. a \in Nat /\ n \in 1..(Len(t) - a) /\ t \in Seq(Byte)
    BY <1>2, <1>3
  <2>2. mb = SubSeq(t, a + 1, a + n)
    BY <1>2
  <2> HIDE DEF t, mb, a
  <2>3. Lies(t, mb, a) /\ Len(mb) = n
    BY <2>1, <2>2, LiesChunk
  <2>4. n \in Nat /\ n > 0
    BY <1>3, <2>1
  <2> QED BY <2>3, <2>4 DEF a
<1> HIDE DEF mb
<1>5. /\ arrived' = arrived + Len(mb)
      /\ \/ /\ buffers = <<>> /\ Len(mb) >= needed
            /\ buffers' = Rest(mb, needed) /\ Callback(Piece(mb, needed), "combine")
         \/ /\ ~(needed > 0 /\ buffers = <<>> /\ Len(mb) >= needed)
            /\ buffers' = Append(buffers, mb)
            /\ at' = IF needed = 0 THEN "idle" ELSE "combine"
            /\ UNCHANGED <<state, needed, saved, got>>
  BY <1>1, <1>4 DEF mb, connection
<1>6. state \in Working
  <2>1. CASE UNCHANGED <<state, needed, saved, got>>
    BY <2>1
  <2>2. CASE Callback(Piece(mb, needed), "combine")
    BY <2>2, CallbackLeaves
  <2> QED BY <1>5, <2>1, <2>2
<1>7. PICK k \in 1..(Len(units) + 1) : Awaited(k) /\ KeptFrom(StartOf(units, k)) /\ HandledTo(k)
  BY <1>6 DEF StreamInv, ReaderInv, Place
<1>8. needed \in Nat \ {0}
  BY <1>3, <1>7, PieceIsRead
<1>9. CASE /\ buffers = <<>> /\ Len(mb) >= needed
           /\ buffers' = Rest(mb, needed) /\ Callback(Piece(mb, needed), "combine")
  <2>1. arrived = StartOf(units, k)
    BY <1>9, <1>7 DEF KeptFrom
  <2>2. Lies(All(units), mb, StartOf(units, k)) /\ arrived' = StartOf(units, k) + Len(mb)
    BY <1>4, <1>5, <2>1
  <2> HIDE DEF t
  <2> QED BY <1>3, <1>7, <1>9, <2>2, PieceGoes
<1>10. CASE /\ buffers' = Append(buffers, mb)
            /\ at' = IF needed = 0 THEN "idle" ELSE "combine"
            /\ UNCHANGED <<state, needed, saved, got>>
  <2>1. at' = "combine"
    BY <1>8, <1>10
  <2>2. Awaited(k)' /\ HandledTo(k)'
    <3>1. Awaited(k)'
      BY <1>3, <1>7, <1>10 DEF Awaited, IsBody
    <3>2. HandledTo(k)'
      BY <1>3, <1>7, <1>10, HandledStays
    <3> QED BY <3>1, <3>2
  <2> DEFINE s == StartOf(units, k)
  <2>3. All(units') = t /\ StartOf(units', k) = s
    BY <1>3
  <2>4. CASE buffers = <<>> /\ arrived = s
    <3>1. buffers' = <<mb>> /\ Lies(t, mb, s) /\ arrived' = s + Len(mb)
      BY <1>4, <1>5, <1>10, <2>4
    <3>2. /\ buffers' = <<mb>> /\ Lies(All(units'), mb, StartOf(units', k))
          /\ arrived' = StartOf(units', k) + Len(mb) /\ (at' = "idle" => Len(mb) < needed')
      BY <2>1, <2>3, <3>1
    <3> HIDE DEF t, s
    <3>3. KeptFrom(StartOf(units, k))'
      BY <3>2, Zenon DEF KeptFrom
    <3> QED BY <1>3, <2>2, <3>3 DEF Place
  <2>5. CASE \E b : /\ buffers = <<b>> /\ Lies(t, b, s) /\ arrived = s + Len(b)
                    /\ (at = "idle" => Len(b) < needed)
    <3>1. PICK b : /\ buffers = <<b>> /\ Lies(t, b, s) /\ arrived = s + Len(b)
                   /\ Len(b) < needed
      BY <1>3, <2>5
    <3>2. buffers' = <<b, mb>>
      BY <1>10, <3>1, TwoReports
    <3>3. Lies(t, mb, s + Len(b)) /\ arrived' = s + Len(b) + Len(mb)
      BY <1>4, <1>5, <3>1
    <3>4. /\ buffers' = <<b, mb>> /\ Lies(All(units'), b, StartOf(units', k))
          /\ Lies(All(units'), mb, StartOf(units', k) + Len(b))
          /\ arrived' = StartOf(units', k) + Len(b) + Len(mb)
          /\ at' = "combine" /\ Len(b) < needed'
      BY <1>10, <2>1, <2>3, <3>1, <3>2, <3>3
    <3> HIDE DEF t, s
    <3>5. KeptFrom(StartOf(units, k))'
      BY <3>4, Zenon DEF KeptFrom
    <3> QED BY <1>3, <2>2, <3>5 DEF Place
  <2>6. \/ buffers = <<>> /\ arrived = s
        \/ \E b : /\ buffers = <<b>> /\ Lies(t, b, s) /\ arrived = s + Len(b)
                  /\ (at = "idle" => Len(b) < needed)
    <3>1. at # "combine"
      BY <1>3
    <3> HIDE DEF t, s
    <3>2. KeptFrom(s) /\ t = All(units)
      BY <1>7 DEF s, t
    <3> QED BY <3>1, <3>2, Zenon DEF KeptFrom
  <2> QED BY <2>4, <2>5, <2>6
<1> HIDE DEF t
<1> QED BY <1>5, <1>9, <1>10

LEMMA BuffersCombine ==
  ASSUME StreamInv, Combine, state' \in Working
  PROVE  \E j \in 1..(Len(units) + 1)' : Place(j)'
<1> DEFINE t == All(units)
<1>1. /\ at = "combine" /\ units' = units /\ state' = state /\ needed' = needed
      /\ saved' = saved /\ arrived' = arrived /\ got' = got
  BY DEF Combine, connection, server
<1>2. PICK k \in 1..(Len(units) + 1) : Awaited(k) /\ KeptFrom(StartOf(units, k)) /\ HandledTo(k)
  BY <1>1 DEF StreamInv, ReaderInv, Place
<1> DEFINE s == StartOf(units, k)
<1>3. /\ Awaited(k)' /\ All(units') = t /\ StartOf(units', k) = s
      /\ HandledTo(k)'
  <2>1. Awaited(k)'
    BY <1>1, <1>2 DEF Awaited, IsBody
  <2> QED BY <1>1, <1>2, <2>1, HandledStays
<1>4. Len(t) \in Nat
  BY SoundPieces, AllAre DEF StreamInv, ServerInv
<1>5. \/ buffers = <<>> /\ arrived = s
      \/ \E b : buffers = <<b>> /\ Lies(t, b, s) /\ arrived = s + Len(b)
      \/ \E b, c : /\ buffers = <<b, c>> /\ Lies(t, b, s) /\ Lies(t, c, s + Len(b))
                   /\ arrived = s + Len(b) + Len(c) /\ Len(b) < needed
  <2> HIDE DEF t, s
  <2>1. KeptFrom(s) /\ t = All(units)
    BY <1>2 DEF s, t
  <2> QED BY <2>1, Zenon DEF KeptFrom
<1>6. SUFFICES KeptFrom(StartOf(units, k))'
  BY <1>1, <1>3 DEF Place
<1>7. CASE buffers = <<>> /\ arrived = s
  <2>1. ~MustCombine
    BY <1>7 DEF MustCombine
  <2>2. buffers' = <<>>
    BY <1>7, <2>1 DEF Combine
  <2> QED BY <1>1, <1>3, <1>7, <2>2 DEF KeptFrom
<1>8. CASE \E b : buffers = <<b>> /\ Lies(t, b, s) /\ arrived = s + Len(b)
  <2>1. PICK b : buffers = <<b>> /\ Lies(t, b, s) /\ arrived = s + Len(b)
    BY <1>8
  <2>2. ~MustCombine
    BY <2>1 DEF MustCombine
  <2>3. buffers' = <<b>> /\ at' = "consume"
    BY <2>1, <2>2 DEF Combine
  <2>4. /\ buffers' = <<b>> /\ Lies(All(units'), b, StartOf(units', k))
        /\ arrived' = StartOf(units', k) + Len(b) /\ (at' = "idle" => Len(b) < needed')
    BY <1>1, <1>3, <2>1, <2>3
  <2> HIDE DEF t, s
  <2> QED BY <2>4, Zenon DEF KeptFrom
<1>9. CASE \E b, c : /\ buffers = <<b, c>> /\ Lies(t, b, s) /\ Lies(t, c, s + Len(b))
                     /\ arrived = s + Len(b) + Len(c) /\ Len(b) < needed
  <2>1. PICK b, c : /\ buffers = <<b, c>> /\ Lies(t, b, s) /\ Lies(t, c, s + Len(b))
                    /\ arrived = s + Len(b) + Len(c) /\ Len(b) < needed
    BY <1>9
  <2>2. MustCombine
    BY <2>1 DEF MustCombine
  <2>3. buffers[1] = b /\ buffers[2] = c /\ Len(buffers) = 2
    BY <2>1
  <2>4. buffers' = <<b \o c>> /\ at' = at
    <3>1. buffers' = << b \o c >> \o SubSeq(buffers, 3, 2)
      BY <2>2, <2>3 DEF Combine
    <3>2. SubSeq(buffers, 3, 2) = <<>>
      BY SubSeqEmpty
    <3>3. << b \o c >> \o <<>> = << b \o c >>
      OBVIOUS
    <3>4. at' = at
      BY <2>2 DEF Combine
    <3> QED BY <3>1, <3>2, <3>3, <3>4
  <2>5. Lies(t, b \o c, s) /\ Len(b \o c) = Len(b) + Len(c)
    <3> HIDE DEF t, s
    <3> QED BY <1>4, <2>1, LiesJoined
  <2>6. s + Len(b) + Len(c) = s + (Len(b) + Len(c))
    <3>1. s \in Nat /\ Len(b) \in Nat /\ Len(c) \in Nat
      <4> HIDE DEF t, s
      <4> QED BY <2>1, LenProperties DEF Lies
    <3> HIDE DEF s
    <3> QED BY <3>1
  <2>7. /\ buffers' = <<b \o c>> /\ Lies(All(units'), b \o c, StartOf(units', k))
        /\ arrived' = StartOf(units', k) + Len(b \o c)
        /\ (at' = "idle" => Len(b \o c) < needed')
    BY <1>1, <1>3, <2>1, <2>4, <2>5, <2>6
  <2> HIDE DEF t, s
  <2> QED BY <2>7, Zenon DEF KeptFrom
<1> HIDE DEF t, s
<1> QED BY <1>5, <1>7, <1>8, <1>9

LEMMA PieceConsumed ==
  ASSUME StreamInv, Consume, state' \in Working
  PROVE  \E j \in 1..(Len(units) + 1)' : Place(j)'
<1>1. /\ at = "consume" /\ buffers # <<>> /\ Len(Head(buffers)) >= needed
      /\ buffers' = Rest(Head(buffers), needed) \o Tail(buffers)
      /\ Callback(Piece(Head(buffers), needed), "consume")
      /\ units' = units /\ arrived' = arrived
  BY DEF Consume, CanConsume, server
<1>2. state \in Working
  BY <1>1, CallbackLeaves
<1>3. PICK k \in 1..(Len(units) + 1) : Awaited(k) /\ KeptFrom(StartOf(units, k)) /\ HandledTo(k)
  BY <1>2 DEF StreamInv, ReaderInv, Place
<1>4. ServerInv
  BY DEF StreamInv
<1>5. PICK b : /\ buffers = <<b>> /\ Lies(All(units), b, StartOf(units, k))
               /\ arrived = StartOf(units, k) + Len(b)
  BY <1>1, <1>3 DEF KeptFrom
<1>6. Head(buffers) = b /\ Tail(buffers) = <<>>
  BY <1>5
<1>7. Rest(b, needed) \o <<>> = Rest(b, needed)
  BY DEF Rest
<1>8. buffers' = Rest(b, needed) /\ arrived' = StartOf(units, k) + Len(b)
  BY <1>1, <1>5, <1>6, <1>7
<1> QED BY <1>1, <1>3, <1>4, <1>5, <1>6, <1>8, PieceGoes

LEMMA InboundDone ==
  ASSUME StreamInv, InboundReturns, state' \in Working
  PROVE  \E j \in 1..(Len(units) + 1)' : Place(j)'
<1>1. /\ at = "consume" /\ ~CanConsume /\ units' = units /\ state' = state /\ needed' = needed
      /\ saved' = saved /\ arrived' = arrived /\ buffers' = buffers /\ got' = got
  BY DEF InboundReturns, connection, server
<1>2. PICK k \in 1..(Len(units) + 1) : Awaited(k) /\ KeptFrom(StartOf(units, k)) /\ HandledTo(k)
  BY <1>1 DEF StreamInv, ReaderInv, Place
<1>3. /\ Awaited(k)' /\ All(units') = All(units) /\ StartOf(units', k) = StartOf(units, k)
      /\ HandledTo(k)'
  <2>1. Awaited(k)'
    BY <1>1, <1>2 DEF Awaited, IsBody
  <2> QED BY <1>1, <1>2, <2>1, HandledStays
<1>4. needed \in Nat
  BY <1>2, PieceIsRead DEF StreamInv
<1>5. KeptFrom(StartOf(units, k))'
  <2>1. CASE buffers = <<>>
    <3>1. arrived = StartOf(units, k)
      BY <1>2, <2>1 DEF KeptFrom
    <3> QED BY <1>1, <1>3, <2>1, <3>1 DEF KeptFrom
  <2>2. CASE buffers # <<>>
    <3>1. PICK b : /\ buffers = <<b>> /\ Lies(All(units), b, StartOf(units, k))
                   /\ arrived = StartOf(units, k) + Len(b)
      BY <1>1, <1>2, <2>2 DEF KeptFrom
    <3>2. Head(buffers) = b /\ Len(b) \in Nat
      BY <3>1, LenProperties DEF Lies
    <3>3. Len(b) < needed
      BY <1>1, <1>4, <2>2, <3>2 DEF CanConsume
    <3>4. /\ buffers' = <<b>> /\ Lies(All(units'), b, StartOf(units', k))
          /\ arrived' = StartOf(units', k) + Len(b) /\ (at' = "idle" => Len(b) < needed')
      BY <1>1, <1>3, <3>1, <3>3
    <3> QED BY <3>4, Zenon DEF KeptFrom
  <2> QED BY <2>1, <2>2
<1> QED BY <1>1, <1>3, <1>5 DEF Place

\* The server goes on: the reader's place in its stream stays.
LEMMA PlaceStays ==
  ASSUME StreamInv, Server, state' \in Working
  PROVE  \E j \in 1..(Len(units) + 1)' : Place(j)'
<1>1. /\ at = "idle" /\ at' = at /\ state' = state /\ needed' = needed
      /\ saved' = saved /\ arrived' = arrived /\ buffers' = buffers /\ got' = got
  BY DEF Server, connection, reader
<1>2. PICK k \in 1..(Len(units) + 1) : Awaited(k) /\ KeptFrom(StartOf(units, k)) /\ HandledTo(k)
  BY <1>1 DEF StreamInv, ReaderInv, Place
<1> DEFINE u == units
           v == units'
<1>3. /\ u \in Seq(Units) /\ v \in Seq(Units) /\ Len(u) <= Len(v)
      /\ \A i \in 1..Len(u) : v[i] = u[i]
  BY ServerAdds DEF StreamInv, ServerInv
<1>4. Pieces(u) /\ Pieces(v) /\ Len(u) \in Nat /\ Len(v) \in Nat
  BY <1>3, SoundPieces
<1>5. /\ Len(All(u)) \in Nat /\ Len(All(v)) \in Nat /\ Len(All(u)) <= Len(All(v))
      /\ \A i \in 1..Len(All(u)) : All(v)[i] = All(u)[i]
      /\ StartOf(v, k) = StartOf(u, k)
  <2>1. Len(All(u)) \in Nat /\ Len(All(v)) \in Nat
    <3> HIDE DEF u, v
    <3> QED BY <1>4, AllAre
  <2>2. k \in 1..(Len(u) + 1)
    OBVIOUS
  <2> HIDE DEF u, v
  <2> QED BY <1>3, <1>4, <2>1, <2>2, AllBegins
<1>6. \A b, s : Lies(All(u), b, s) => Lies(All(v), b, s)
  <2> HIDE DEF u, v
  <2> QED BY <1>5, LiesOn
<1>7. k \in 1..(Len(v) + 1)
  BY <1>3, <1>4
<1>8. Awaited(k)'
  <2>1. k > 3 => k - 1 \in Nat /\ (k <= Len(u) + 1 => k - 1 \in 1..Len(u))
    BY <1>4
  <2>2. k > 3 => v[k - 1] = u[k - 1]
    BY <1>3, <1>4, <2>1
  <2>3. k <= Len(u) => k <= Len(v)
    BY <1>3, <1>4
  <2> QED BY <1>1, <1>2, <2>2, <2>3 DEF Awaited, IsBody
<1>9. KeptFrom(StartOf(units, k))'
  <2> DEFINE s == StartOf(u, k)
  <2>0. StartOf(v, k) = s /\ KeptFrom(s)
    BY <1>2, <1>5
  <2>1. CASE buffers = <<>> /\ arrived = s
    BY <1>1, <2>0, <2>1 DEF KeptFrom
  <2>2. CASE \E b : /\ buffers = <<b>> /\ Lies(All(u), b, s) /\ arrived = s + Len(b)
                    /\ (at = "idle" => Len(b) < needed)
    <3>1. PICK b : /\ buffers = <<b>> /\ Lies(All(u), b, s) /\ arrived = s + Len(b)
                   /\ (at = "idle" => Len(b) < needed)
      BY <2>2
    <3>2. /\ buffers' = <<b>> /\ Lies(All(v), b, StartOf(v, k))
          /\ arrived' = StartOf(v, k) + Len(b) /\ (at' = "idle" => Len(b) < needed')
      BY <1>1, <1>6, <2>0, <3>1
    <3> HIDE DEF s
    <3> QED BY <3>2, Zenon DEF KeptFrom
  <2> HIDE DEF s
  <2>3. \/ buffers = <<>> /\ arrived = s
        \/ \E b : /\ buffers = <<b>> /\ Lies(All(units), b, s) /\ arrived = s + Len(b)
                  /\ (at = "idle" => Len(b) < needed)
    <3>1. at # "combine"
      BY <1>1
    <3> QED BY <2>0, <3>1, Zenon DEF KeptFrom
  <2> QED BY <2>1, <2>2, <2>3
<1>10. HandledTo(k)'
  <2>1. Sound(u) /\ Sound(v)
    BY ServerAdds DEF StreamInv, ServerInv, Sound
  <2>2. ASSUME NEW m \in Nat, m <= Len(u)
        PROVE  FirstOf(MessagesOf(v), m) = FirstOf(MessagesOf(u), m)
    <3> HIDE DEF u, v
    <3> QED BY <1>3, <1>4, <2>1, <2>2, MessagesSame
  <2>3. CASE saved = <<>>
    <3>1. k - 1 \in Nat /\ k - 1 <= Len(u)
      BY <1>4
    <3> QED BY <1>1, <1>2, <2>2, <2>3, <3>1 DEF HandledTo
  <2>4. CASE saved # <<>>
    <3>1. k - 2 \in Nat /\ k - 2 <= Len(u) /\ k - 1 \in 1..Len(u) /\ k > 1
      BY <1>2, <1>4, <2>4 DEF HandledTo
    <3>2. BytesOf(v, k - 1) = BytesOf(u, k - 1)
      BY <1>3, <3>1 DEF BytesOf
    <3>3. FirstOf(MessagesOf(v), k - 2) = FirstOf(MessagesOf(u), k - 2)
      BY <2>2, <3>1
    <3> QED BY <1>1, <1>2, <2>4, <3>1, <3>2, <3>3 DEF HandledTo
  <2> QED BY <2>3, <2>4
<1> QED BY <1>7, <1>8, <1>9, <1>10 DEF Place

LEMMA StreamInit == WireInit => StreamInv
<1> SUFFICES ASSUME WireInit PROVE StreamInv
  OBVIOUS
<1>1. ServerInv
  <2>1. units = <<>>
    BY DEF WireInit
  <2> QED BY <2>1, EmptySeq DEF ServerInv
<1>2. ReaderInv
  BY DEF WireInit, ReaderInv, Working
<1> QED BY <1>1, <1>2 DEF StreamInv

\* A step that leaves the stream and the reader as they are, and no new part
\* of the handshake begun.
LEMMA StreamRests ==
  ASSUME StreamInv, UNCHANGED <<units, arrived, needed, saved, buffers, at, got>>,
         state' \in Working => state' = state /\ (at = "idle" \/ ws' = ws),
         ws' = "connecting" => ws = "connecting" /\ state' = state
  PROVE  StreamInv'
<1>1. ServerInv'
  BY DEF StreamInv, ServerInv, Fits, IsBody
<1>2. ASSUME state' \in Working
      PROVE  \E k \in 1..(Len(units) + 1)' : Place(k)'
  <2>1. state' = state
    BY <1>2
  <2>2. PICK k \in 1..(Len(units) + 1) : Awaited(k) /\ KeptFrom(StartOf(units, k)) /\ HandledTo(k)
    BY <1>2, <2>1 DEF StreamInv, ReaderInv, Place
  <2>3. Awaited(k)'
    BY <2>1, <2>2 DEF Awaited, IsBody
  <2>4. All(units') = All(units) /\ StartOf(units', k) = StartOf(units, k)
    OBVIOUS
  <2>5. KeptFrom(StartOf(units, k))'
    BY <2>2, <2>4 DEF KeptFrom
  <2>6. HandledTo(k)'
    BY <2>2, HandledStays
  <2> QED BY <2>3, <2>5, <2>6 DEF Place
<1>3. ReaderInv'
  BY <1>2 DEF StreamInv, ReaderInv
<1> QED BY <1>1, <1>3 DEF StreamInv

LEMMA ServerRests ==
  ASSUME StreamInv, UNCHANGED units
  PROVE  ServerInv'
BY DEF StreamInv, ServerInv, Fits, IsBody

LEMMA StreamEvents ==
  ASSUME StreamInv, Fails \/ CloseEvent \/ TimesOut \/ Stopped
  PROVE  StreamInv'
<1>1. UNCHANGED <<units, arrived, needed, saved, buffers, at, got>> /\ at = "idle"
  BY DEF Fails, CloseEvent, TimesOut, Stopped, reader, server
<1>2. state' = state \/ state' = "closing"
  BY DEF Fails, CloseEvent, TimesOut, Stopped, Stop
<1>3. ws' \in {ws, "closing", "closed", Closed(ws)}
  BY DEF Fails, CloseEvent, TimesOut, Stopped, Stop, Cleanup
<1>4. ws' = "connecting" => ws = "connecting"
  BY <1>3, ClosedSocket
<1>5. state' = state \/ ws' # "connecting"
  <2>1. CASE Fails \/ CloseEvent
    BY <2>1 DEF Fails, CloseEvent
  <2>2. CASE TimesOut \/ Stopped
    <3>1. state' = state \/ ws' = Closed(ws)
      BY <2>2 DEF TimesOut, Stopped, Stop, Cleanup
    <3>2. Closed(ws) # "connecting"
      BY ClosedSocket
    <3> QED BY <3>1, <3>2
  <2> QED BY <2>1, <2>2
<1>6. state' \in Working => state' = state
  BY <1>2 DEF Working
<1> QED BY <1>1, <1>4, <1>5, <1>6, StreamRests

LEMMA StreamNext == StreamInv /\ [WireNext]_wireVars => StreamInv'
<1> SUFFICES ASSUME StreamInv, [WireNext]_wireVars PROVE StreamInv'
  OBVIOUS
<1>1. CASE UNCHANGED wireVars
  BY <1>1, StreamRests DEF wireVars, connection, reader, server
<1>2. CASE Server
  <2>1. ServerInv'
    BY <1>2, ServerAdds DEF StreamInv
  <2>2. arrived' = arrived /\ at' = "idle" /\ ws = "open" /\ ws' = ws
    BY <1>2 DEF Server, reader
  <2>3. ReaderInv'
    BY <1>2, <2>2, PlaceStays DEF StreamInv, ReaderInv
  <2> QED BY <2>1, <2>3 DEF StreamInv
<1>3. CASE Inbound
  <2>1. ServerInv'
    BY <1>3, ServerRests DEF Inbound
  <2>2. arrived' \in Nat
    <3>1. PICK n \in 1..(Len(Stream) - arrived) : arrived' = arrived + n
      BY <1>3 DEF Inbound
    <3>2. arrived \in Nat /\ n \in Nat
      BY DEF StreamInv, ReaderInv
    <3> QED BY <3>1, <3>2
  <2>3. \/ \E mb : Callback(mb, "combine")
        \/ at' \in {"idle", "combine"} /\ ws' = ws
    BY <1>3 DEF Inbound
  <2>4. /\ ws = "open" /\ ws' # "connecting" /\ at' \in {"idle", "combine", "consume"}
        /\ state' \in Working => ws' = "open"
    <3>1. ws = "open"
      BY <1>3 DEF Inbound
    <3>2. CASE \E mb : Callback(mb, "combine")
      BY <3>1, <3>2, CallbackLeaves
    <3>3. CASE at' \in {"idle", "combine"} /\ ws' = ws
      BY <3>1, <3>3
    <3> QED BY <2>3, <3>1, <3>2, <3>3
  <2>5. ReaderInv'
    BY <1>3, <2>2, <2>4, ChunkArrives DEF ReaderInv
  <2> QED BY <2>1, <2>5 DEF StreamInv
<1>4. CASE Combine
  <2>1. ServerInv'
    BY <1>4, ServerRests DEF Combine, server
  <2>2. /\ arrived' = arrived /\ ws' = ws /\ at = "combine" /\ at' \in {"combine", "consume"}
        /\ state' = state
    BY <1>4 DEF Combine, server, connection
  <2>3. ReaderInv'
    BY <1>4, <2>2, BuffersCombine DEF StreamInv, ReaderInv
  <2> QED BY <2>1, <2>3 DEF StreamInv
<1>5. CASE Consume
  <2>1. ServerInv'
    BY <1>5, ServerRests DEF Consume, server
  <2>2. arrived' = arrived /\ at = "consume"
    BY <1>5 DEF Consume, server
  <2>3. /\ at' \in {"idle", "consume"} /\ (ws' = "connecting" => ws = "connecting")
        /\ state' \in Working => state \in Working /\ ws' = ws
    BY <1>5, CallbackLeaves DEF Consume
  <2>4. ReaderInv'
    BY <1>5, <2>2, <2>3, PieceConsumed DEF StreamInv, ReaderInv
  <2> QED BY <2>1, <2>4 DEF StreamInv
<1>6. CASE InboundReturns
  <2>1. ServerInv'
    BY <1>6, ServerRests DEF InboundReturns, server
  <2>2. arrived' = arrived /\ ws' = ws /\ at = "consume" /\ at' = "idle"
    BY <1>6 DEF InboundReturns, server
  <2>3. ReaderInv'
    BY <1>6, <2>2, InboundDone DEF StreamInv, ReaderInv
  <2> QED BY <2>1, <2>3 DEF StreamInv
<1>7. CASE Opened
  <2>1. /\ ws = "connecting" /\ ws' = "open" /\ at = "idle" /\ at' = "idle"
        /\ state' = "start" /\ needed' = LinkHeaderSize
        /\ UNCHANGED <<units, arrived, saved, buffers, got>>
    BY <1>7 DEF Opened, server
  <2>2. units = <<>> /\ arrived = 0 /\ buffers = <<>> /\ saved = <<>> /\ got = <<>>
    BY <2>1 DEF StreamInv, ReaderInv
  <2>3. ServerInv'
    BY <2>1, ServerRests
  <2>4. Awaited(1)'
    BY <2>1, <2>2 DEF Awaited
  <2>5. StartOf(units', 1) = 0
    <3>1. 1 - 1 = 0 /\ Len(<<>>) = 0
      OBVIOUS
    <3> QED BY <3>1, BeforeNone DEF StartOf
  <2>6. KeptFrom(StartOf(units, 1))'
    BY <2>1, <2>2, <2>5 DEF KeptFrom
  <2>7. 1 \in 1..(Len(units) + 1)'
    BY <2>1, <2>2
  <2>8. HandledTo(1)'
    <3>1. 1 - 1 = 0
      OBVIOUS
    <3> QED BY <2>1, <2>2, <3>1, FirstNone DEF HandledTo
  <2>9. Place(1)'
    BY <2>4, <2>6, <2>8 DEF Place
  <2>10. ReaderInv'
    BY <2>1, <2>2, <2>7, <2>9 DEF ReaderInv
  <2> QED BY <2>3, <2>10 DEF StreamInv
<1>8. CASE Fails \/ CloseEvent \/ TimesOut \/ Stopped
  BY <1>8, StreamEvents
<1> QED BY <1>1, <1>2, <1>3, <1>4, <1>5, <1>6, <1>7, <1>8 DEF WireNext, Loop

LEMMA StreamIs == ServerInv => Stream = All(units)
<1> SUFFICES ASSUME ServerInv PROVE Stream = All(units)
  OBVIOUS
<1>1. units \in Seq(Units) /\ DOMAIN units = 1..Len(units)
  BY LenProperties DEF ServerInv
<1>2. [k \in DOMAIN units |-> Bytes(k)] = [k \in 1..Len(units) |-> BytesOf(units, k)]
  BY <1>1 DEF Bytes, BytesOf
<1> QED BY <1>2 DEF Stream, All, BeforeOf

\* What the page has not used begins a piece of the server's stream, the one
\* the connection waits for, and no whole message waits in the page: whatever
\* the sizes of the messages and wherever the chunks are cut.
THEOREM ReaderInStep == Spec => []InStep
<1>1. Init => StreamInv
  BY StreamInit DEF Init
<1>2. StreamInv /\ [Next]_vars => StreamInv'
  BY WireSteps, StreamNext
<1>3. StreamInv => InStep
  <2>1. SUFFICES ASSUME StreamInv, at = "idle", state \in Working PROVE
          /\ Len(buffers) <= 1 /\ Kept < needed
          /\ arrived - Kept < Len(Stream) =>
               /\ Stream[(arrived - Kept) + 1][2] = 1
               /\ needed = units[Stream[(arrived - Kept) + 1][1]].len
               /\ units[Stream[(arrived - Kept) + 1][1]].kind =
                    CASE state = "start"  -> "header"
                      [] state = "link"   -> "reply"
                      [] state = "ticket" -> "auth"
                      [] OTHER            -> IF saved = <<>> THEN "mini" ELSE "body"
    BY DEF InStep, AtPieces, NothingWaits, Working
  <2>2. PICK k \in 1..(Len(units) + 1) : Awaited(k) /\ KeptFrom(StartOf(units, k)) /\ HandledTo(k)
    BY <2>1 DEF StreamInv, ReaderInv, Place
  <2>3. needed \in Nat \ {0} /\ (k <= Len(units) => needed = units[k].len)
    BY <2>1, <2>2, PieceIsRead DEF StreamInv
  <2>4. Stream = All(units)
    BY <2>1, StreamIs DEF StreamInv
  <2>5. /\ Pieces(units) /\ Len(units) \in Nat
        /\ \A j \in 1..Len(units) : Fits(units, j)
    BY <2>1, SoundPieces DEF StreamInv, ServerInv
  <2>6. Len(buffers) <= 1 /\ Kept < needed /\ arrived - Kept = StartOf(units, k)
    <3>1. CASE buffers = <<>> /\ arrived = StartOf(units, k)
      <4>1. Kept = 0 /\ Len(buffers) = 0
        <5>1. Len(<<>>) = 0
          OBVIOUS
        <5> QED BY <3>1, <5>1, FlattenShort DEF Kept
      <4>2. arrived \in Nat
        BY <2>1 DEF StreamInv, ReaderInv
      <4> QED BY <2>3, <3>1, <4>1, <4>2
    <3>2. CASE \E b : /\ buffers = <<b>> /\ Lies(All(units), b, StartOf(units, k))
                      /\ arrived = StartOf(units, k) + Len(b)
                      /\ (at = "idle" => Len(b) < needed)
      <4>1. PICK b : /\ buffers = <<b>> /\ Lies(All(units), b, StartOf(units, k))
                     /\ arrived = StartOf(units, k) + Len(b) /\ Len(b) < needed
        BY <2>1, <3>2
      <4>2. Kept = Len(b) /\ Len(buffers) = 1
        <5>1. FlattenSeq(<<b>>) = b
          BY FlattenShort
        <5> QED BY <4>1, <5>1 DEF Kept
      <4>3. Len(b) \in Nat /\ StartOf(units, k) \in Nat
        BY <4>1, LenProperties DEF Lies
      <4> QED BY <4>1, <4>2, <4>3
    <3>3. at # "combine"
      BY <2>1
    <3> QED BY <2>2, <3>1, <3>2, <3>3, Zenon DEF KeptFrom
  <2>7. ASSUME StartOf(units, k) < Len(Stream)
        PROVE  /\ Stream[StartOf(units, k) + 1][2] = 1
               /\ needed = units[Stream[StartOf(units, k) + 1][1]].len
               /\ units[Stream[StartOf(units, k) + 1][1]].kind =
                    CASE state = "start"  -> "header"
                      [] state = "link"   -> "reply"
                      [] state = "ticket" -> "auth"
                      [] OTHER            -> IF saved = <<>> THEN "mini" ELSE "body"
    <3>1. k \in 1..Len(units)
      <4>1. SUFFICES ASSUME k = Len(units) + 1 PROVE FALSE
        BY <2>5
      <4>2. StartOf(units, k) = Len(Stream) /\ Len(Stream) \in Nat
        BY <2>4, <2>5, <4>1, AllAre
      <4> QED BY <2>7, <4>2
    <3>2. needed = units[k].len
      BY <2>3, <3>1
    <3>3. Stream[StartOf(units, k) + 1] = <<k, 1>>
      <4>1. 1 \in 1..units[k].len
        BY <2>3, <3>2
      <4> QED BY <2>4, <2>5, <3>1, <4>1, ByteAt
    <3>4. Fits(units, k)
      BY <2>5, <3>1
    <3>5. \/ state = "start" /\ units[k].kind = "header"
          \/ state = "link" /\ units[k].kind = "reply"
          \/ state = "ticket" /\ units[k].kind = "auth"
          \/ state = "ready" /\ units[k].kind = IF saved = <<>> THEN "mini" ELSE "body"
      <4>1. CASE state = "ready" /\ saved = <<>>
        <5>1. units[k].kind = "mini"
          BY <2>2, <3>4, <4>1 DEF Awaited, Fits
        <5> QED BY <4>1, <5>1
      <4>2. CASE state = "ready" /\ saved # <<>>
        <5>1. units[k].kind = "body"
          BY <2>2, <3>4, <4>2 DEF Awaited, Fits
        <5> QED BY <4>2, <5>1
      <4>3. CASE state # "ready"
        BY <2>2, <3>4, <4>3 DEF Awaited, Fits
      <4> QED BY <4>1, <4>2, <4>3
    <3>6. units[k].kind =
            CASE state = "start"  -> "header"
              [] state = "link"   -> "reply"
              [] state = "ticket" -> "auth"
              [] OTHER            -> IF saved = <<>> THEN "mini" ELSE "body"
      <4> DEFINE kind == units[k].kind
                 ready == IF saved = <<>> THEN "mini" ELSE "body"
      <4>1. /\ "start" # "link" /\ "start" # "ticket" /\ "link" # "ticket" /\ "start" # "ready"
            /\ "link" # "ready" /\ "ticket" # "ready"
        OBVIOUS
      <4>2. \/ state = "start" /\ kind = "header"
            \/ state = "link" /\ kind = "reply"
            \/ state = "ticket" /\ kind = "auth"
            \/ state = "ready" /\ kind = ready
        BY <3>5
      <4> HIDE DEF kind, ready
      <4>3. kind = CASE state = "start"  -> "header"
                     [] state = "link"   -> "reply"
                     [] state = "ticket" -> "auth"
                     [] OTHER            -> ready
        BY <4>1, <4>2, Zenon
      <4> QED BY <4>3 DEF kind, ready
    <3>7. <<k, 1>>[1] = k /\ <<k, 1>>[2] = 1
      OBVIOUS
    <3> QED BY <3>2, <3>3, <3>6, <3>7
  <2> QED BY <2>6, <2>7
<1> QED BY <1>1, <1>2, <1>3, PTL DEF Spec

-----------------------------------------------------------------------------
(* The connection implements SpiceStream: its initial states and its steps.    *)

Over == ws \notin {"connecting", "open"} \/ state \in {"error", "closing"}

LEMMA SentIs == ASSUME ServerInv PROVE Sent = FirstOf(MessagesOf(units), Len(units))
<1>1. DOMAIN units = 1..Len(units)
  BY LenProperties DEF ServerInv
<1>2. \A k : MessageAt(k) = MessageIn(units, k)
  BY DEF MessageAt, MessageIn, Bytes, BytesOf
<1>3. [k \in DOMAIN units |-> MessageAt(k)] = [k \in 1..Len(units) |-> MessagesOf(units)[k]]
  BY <1>1, <1>2 DEF MessagesOf
<1> QED BY <1>3 DEF Sent, FirstOf

LEMMA SentIsNext ==
  ASSUME ServerInv'
  PROVE  Sent' = FirstOf(MessagesOf(units'), Len(units'))
<1>1. DOMAIN units' = 1..Len(units')
  BY LenProperties DEF ServerInv
<1>2. \A k : MessageAt(k)' = MessageIn(units', k)
  BY DEF MessageAt, MessageIn, Bytes, BytesOf
<1>3. [k \in DOMAIN units' |-> MessageAt(k)'] = [k \in 1..Len(units') |-> MessagesOf(units')[k]]
  BY <1>1, <1>2 DEF MessagesOf
<1> QED BY <1>3 DEF Sent, FirstOf

LEMMA AppendBegins ==
  ASSUME NEW S, NEW a \in Seq(S), NEW m \in S
  PROVE  Len(Append(a, m)) = Len(a) + 1 /\ SubSeq(Append(a, m), 1, Len(a)) = a
<1> DEFINE b == Append(a, m)
           c == SubSeq(b, 1, Len(a))
           n == Len(a)
<1>1. b \in Seq(S) /\ Len(b) = n + 1 /\ \A i \in 1..n : b[i] = a[i]
  BY AppendProperties
<1>2. n \in Nat
  BY LenProperties
<1> HIDE DEF b, n
<1>3. n \in Int /\ \A i \in 1..n : b[i] \in S
  BY <1>1, <1>2
<1>4. /\ c \in Seq(S) /\ Len(c) = IF 1 <= n THEN n - 1 + 1 ELSE 0
      /\ \A i \in 1..(n - 1 + 1) : c[i] = b[1 + i - 1]
  <2>1. c = SubSeq(b, 1, n)
    BY DEF n
  <2> HIDE DEF c
  <2> QED BY <1>3, <2>1, SubSeqProperties
<1> HIDE DEF c
<1>5. n - 1 + 1 = n /\ Len(c) = n /\ \A i \in 1..n : 1 + i - 1 = i
  BY <1>2, <1>4
<1>6. Len(c) = Len(a) /\ \A i \in 1..Len(c) : c[i] = a[i]
  <2>1. \A i \in 1..n : c[i] = b[i]
    BY <1>4, <1>5
  <2> QED BY <1>1, <1>5, <2>1 DEF n
<1>7. c = a
  BY <1>4, <1>6, SeqEqual
<1> QED BY <1>1, <1>7 DEF b, c, n

\* The server sends a message, or a part of the handshake.
LEMMA ServerSent ==
  ASSUME StreamInv, Server
  PROVE  \/ Sent' = Sent
         \/ Len(Sent') = Len(Sent) + 1 /\ SubSeq(Sent', 1, Len(Sent)) = Sent
<1> DEFINE u == units
           v == units'
           n == Len(u)
           w == MessagesOf(v)
           a == FirstOf(MessagesOf(u), n)
<1>1. /\ ServerInv /\ ServerInv' /\ Len(u) <= Len(v) /\ \A k \in 1..Len(u) : v[k] = u[k]
      /\ \/ Len(v) = n + 1
         \/ Len(v) = n + 2 /\ v[n + 2].kind # "mini"
  BY ServerAdds DEF StreamInv
<1>2. Sound(u) /\ Sound(v)
  BY <1>1 DEF ServerInv, Sound
<1>3. n \in Nat /\ Len(v) \in Nat /\ Each(MessagesOf(u), n, Messages)
  <2> HIDE DEF u, v
  <2> QED BY <1>2, MessagesAre
<1>4. Sent = a
  BY <1>1, SentIs
<1>5. Sent' = FirstOf(w, Len(v))
  BY <1>1, SentIsNext
<1>6. FirstOf(w, n) = a /\ a \in Seq(Messages)
  <2> HIDE DEF u, v
  <2>1. n <= Len(u)
    BY <1>3
  <2>2. FirstOf(w, n) = a
    BY <1>1, <1>2, <1>3, <2>1, MessagesSame
  <2> DEFINE x == MessagesOf(u)
  <2>3. \A j \in 1..n : x[j] \in Seq(Messages)
    BY <1>3 DEF Each
  <2> HIDE DEF x, n
  <2>4. FirstOf(x, n) \in Seq(Messages)
    <3>1. n <= n
      BY <1>3
    <3> QED BY <1>3, <2>3, <3>1, FirstMore
  <2> QED BY <2>2, <2>4 DEF x
<1>7. FirstOf(w, n + 1) = a \/ \E m \in Messages : FirstOf(w, n + 1) = Append(a, m)
  <2>1. n + 1 \in 1..Len(v) /\ (n + 1) - 1 = n
    BY <1>1, <1>3
  <2>2. CASE v[n + 1].kind # "mini"
    <3> HIDE DEF u, v, n
    <3> QED BY <1>2, <1>6, <2>1, <2>2, NoMessage
  <2>3. CASE v[n + 1].kind = "mini"
    <3> DEFINE k == n + 1
               m == Message(BytesOf(v, k), IF v[k].size = 0 THEN <<>> ELSE BytesOf(v, k + 1))
    <3>1. k \in 1..Len(v) /\ v[k].kind = "mini" /\ k - 1 = n
      BY <2>1, <2>3
    <3> HIDE DEF u, v, n, k
    <3>2. FirstOf(w, k) = Append(FirstOf(w, k - 1), m) /\ m \in Messages
      BY <1>2, <3>1, OneMessage
    <3> HIDE DEF m
    <3>3. FirstOf(w, k) = Append(a, m) /\ m \in Messages
      BY <1>6, <3>1, <3>2
    <3> QED BY <3>3 DEF k
  <2> QED BY <2>2, <2>3
<1>8. FirstOf(w, Len(v)) = FirstOf(w, n + 1)
  <2>1. CASE Len(v) = n + 1
    BY <2>1
  <2>2. CASE Len(v) = n + 2 /\ v[n + 2].kind # "mini"
    <3>1. n + 2 \in 1..Len(v) /\ (n + 2) - 1 = n + 1
      BY <1>3, <2>2
    <3> HIDE DEF u, v, n
    <3> QED BY <1>2, <2>2, <3>1, NoMessage
  <2> QED BY <1>1, <2>1, <2>2
<1>9. ASSUME NEW m \in Messages, Sent' = Append(Sent, m)
      PROVE  Len(Sent') = Len(Sent) + 1 /\ SubSeq(Sent', 1, Len(Sent)) = Sent
  <2>1. Sent \in Seq(Messages)
    BY <1>4, <1>6
  <2> QED BY <1>9, <2>1, AppendBegins
<1> HIDE DEF u, v, n, w, a
<1> QED BY <1>4, <1>5, <1>7, <1>8, <1>9

\* A message handled is the next of those sent.
LEMMA NextMessage ==
  ASSUME NEW u, Sound(u), NEW k \in 1..Len(u), u[k].kind = "mini",
         NEW a, a = FirstOf(MessagesOf(u), k - 1),
         NEW t, t = FirstOf(MessagesOf(u), Len(u))
  PROVE  Len(a) < Len(t) /\ FirstOf(MessagesOf(u), k) = Append(a, t[Len(a) + 1])
<1> DEFINE w == MessagesOf(u)
           n == Len(u)
           b == FirstOf(w, k)
           m == Message(BytesOf(u, k), IF u[k].size = 0 THEN <<>> ELSE BytesOf(u, k + 1))
<1>1. n \in Nat /\ Each(w, n, Messages) /\ k \in Nat /\ k <= n
  BY MessagesAre
<1>2. b = Append(a, m) /\ m \in Messages
  BY OneMessage
<1>3. a \in Seq(Messages)
  BY MessagesMore
<1> HIDE DEF m
<1>4. Len(a) \in Nat /\ Len(b) = Len(a) + 1 /\ b[Len(a) + 1] = m
  <2>1. Len(Append(a, m)) = Len(a) + 1 /\ Append(a, m)[Len(a) + 1] = m
    BY <1>2, <1>3, AppendProperties
  <2> HIDE DEF b
  <2> QED BY <1>2, <1>3, <2>1, LenProperties
<1>5. Len(b) <= Len(t) /\ \A i \in 1..Len(b) : t[i] = b[i]
  <2>1. t = FirstOf(w, n) /\ n <= n
    BY <1>1
  <2> HIDE DEF w, n
  <2> QED BY <1>1, <2>1, FirstBegins
<1>6. Len(t) \in Nat
  <2> DEFINE x == w
  <2>1. \A j \in 1..n : x[j] \in Seq(Messages)
    BY <1>1 DEF Each
  <2>2. t = FirstOf(x, n) /\ n <= n
    BY <1>1
  <2> HIDE DEF x, n, w
  <2>3. FirstOf(x, n) \in Seq(Messages)
    BY <1>1, <2>1, <2>2, FirstMore
  <2> QED BY <2>2, <2>3, LenProperties
<1> HIDE DEF b, w
<1>7. Len(a) < Len(t) /\ t[Len(a) + 1] = m
  <2>1. Len(a) + 1 \in 1..Len(b)
    BY <1>4
  <2> QED BY <1>4, <1>5, <1>6, <2>1
<1> QED BY <1>2, <1>7 DEF b, w

\* What the callback is given is the piece awaited, and if it handles a message
\* that is the next one.
LEMMA CallbackHandles ==
  ASSUME ServerInv, NEW k \in 1..(Len(units) + 1), Awaited(k), HandledTo(k), UNCHANGED units,
         NEW b, Lies(All(units), b, StartOf(units, k)), Len(b) >= needed,
         NEW next, Callback(Piece(b, needed), next)
  PROVE  \/ got' = got
         \/ /\ state = "ready" /\ state' = state /\ ws' = ws
            /\ Len(got) < Len(Sent) /\ got' = Append(got, Sent[Len(got) + 1])
<1> DEFINE mb == Piece(b, needed)
<1>1. /\ k \in 1..Len(units) /\ mb = BytesOf(units, k) /\ Read(mb) = units[k]
  BY PieceIsRead
<1>2. Sound(units) /\ Sent = FirstOf(MessagesOf(units), Len(units)) /\ Len(units) \in Nat
      /\ Fits(units, k)
  <2>1. Sound(units) /\ Len(units) \in Nat
    BY SoundPieces DEF ServerInv, Sound
  <2> QED BY <1>1, <2>1, SentIs DEF Sound
<1> HIDE DEF mb
<1>3. CASE MiniHeaderArrives(mb, next)
  <2>1. /\ state = "ready" /\ state' = state /\ ws' = ws /\ saved = <<>> /\ k > 3
        /\ ~IsBody(units, k)
    BY <1>3 DEF MiniHeaderArrives, Awaited
  <2>2. units[k].kind = "mini"
    BY <1>2, <2>1 DEF Fits
  <2>3. CASE units[k].size = 0
    <3>1. got' = Append(got, Message(mb, <<>>))
      BY <1>1, <1>3, <2>3 DEF MiniHeaderArrives
    <3>2. got = FirstOf(MessagesOf(units), k - 1)
      BY <2>1 DEF HandledTo
    <3>3. got' = FirstOf(MessagesOf(units), k)
      BY <1>1, <1>2, <2>2, <2>3, <3>1, <3>2, OneMessage
    <3>4. Len(got) < Len(Sent) /\ FirstOf(MessagesOf(units), k) = Append(got, Sent[Len(got) + 1])
      BY <1>1, <1>2, <2>2, <3>2, NextMessage
    <3> QED BY <2>1, <3>3, <3>4
  <2>4. CASE units[k].size # 0
    BY <1>1, <1>3, <2>4 DEF MiniHeaderArrives
  <2> QED BY <2>3, <2>4
<1>4. CASE BodyArrives(mb, next)
  <2>1. /\ state = "ready" /\ state' = state /\ ws' = ws /\ saved # <<>> /\ k > 3
        /\ got' = Append(got, Message(saved, mb)) /\ IsBody(units, k)
    BY <1>4 DEF BodyArrives, Awaited
  <2>2. saved = BytesOf(units, k - 1) /\ got = FirstOf(MessagesOf(units), k - 2)
    BY <2>1 DEF HandledTo
  <2> DEFINE j == k - 1
  <2>3. /\ j \in 1..Len(units) /\ units[j].kind = "mini" /\ units[j].size # 0
        /\ got = FirstOf(MessagesOf(units), j - 1) /\ saved = BytesOf(units, j)
        /\ mb = BytesOf(units, j + 1)
    <3>1. k - 1 \in 1..Len(units) /\ (k - 1) - 1 = k - 2 /\ (k - 1) + 1 = k
      BY <1>1, <1>2, <2>1
    <3> QED BY <1>1, <2>1, <2>2, <3>1 DEF IsBody
  <2> HIDE DEF j
  <2>4. got' = FirstOf(MessagesOf(units), j)
    BY <1>2, <2>1, <2>3, OneMessage
  <2>5. Len(got) < Len(Sent) /\ FirstOf(MessagesOf(units), j) = Append(got, Sent[Len(got) + 1])
    BY <1>2, <2>3, NextMessage
  <2> QED BY <2>1, <2>4, <2>5
<1>5. CASE LinkHeaderArrives(mb, next) \/ LinkReplyArrives(mb, next) \/ AuthReplyArrives(mb, next)
           \/ Dropped(next)
  BY <1>5 DEF LinkHeaderArrives, LinkReplyArrives, AuthReplyArrives, Dropped, connection
<1>6. Callback(mb, next)
  BY DEF mb
<1> QED BY <1>3, <1>4, <1>5, <1>6 DEF Callback

\* A connection that is over stays so.
LEMMA OverStays ==
  ASSUME StreamInv, [WireNext]_wireVars, Over
  PROVE  Over'
<1>0. ws = "connecting" => state = "connecting"
  BY DEF StreamInv, ReaderInv
<1>a. ASSUME UNCHANGED <<ws, state>> PROVE Over'
  BY <1>a DEF Over
<1>1. CASE Server \/ Combine \/ InboundReturns \/ UNCHANGED wireVars
  BY <1>1, <1>a DEF Server, Combine, InboundReturns, wireVars, connection
<1>2. CASE Inbound \/ Consume
  <2>1. state \notin Working
    <3>1. SUFFICES ASSUME state \in Working PROVE FALSE
      OBVIOUS
    <3>2. ws = "open"
      BY <1>2, <3>1 DEF Inbound, Consume, StreamInv, ReaderInv
    <3> QED BY <3>1, <3>2 DEF Over, Working
  <2>2. ASSUME NEW mb, NEW next, Callback(mb, next) PROVE UNCHANGED <<ws, state>>
    <3>1. Dropped(next)
      BY <2>1, <2>2 DEF Callback, LinkHeaderArrives, LinkReplyArrives, AuthReplyArrives,
                        MiniHeaderArrives, BodyArrives, Working
    <3> QED BY <3>1 DEF Dropped, connection
  <2>3. CASE Consume
    BY <1>a, <2>2, <2>3 DEF Consume
  <2>4. CASE Inbound
    <3>1. (\E mb, next : Callback(mb, next)) \/ UNCHANGED <<connection, ws>>
      BY <2>4 DEF Inbound
    <3>2. CASE UNCHANGED <<connection, ws>>
      BY <1>a, <3>2 DEF connection
    <3> QED BY <1>a, <2>2, <3>1, <3>2
  <2> QED BY <1>2, <2>3, <2>4
<1>3. CASE Opened
  BY <1>0, <1>3 DEF Opened, Over
<1>4. CASE Fails \/ CloseEvent
  BY <1>4 DEF Fails, CloseEvent, Over
<1>5. CASE TimesOut \/ Stopped
  <2>1. \/ UNCHANGED <<ws, state>>
        \/ state' = "closing"
        \/ state' = state /\ ws' = Closed(ws)
    BY <1>5 DEF TimesOut, Stopped, Stop, Cleanup
  <2>2. CASE state' = state /\ ws' = Closed(ws)
    <3>1. Closed(ws) \notin {"connecting", "open"}
      BY ClosedSocket
    <3> QED BY <2>2, <3>1 DEF Over
  <2> QED BY <1>a, <2>1, <2>2 DEF Over
<1> QED BY <1>1, <1>2, <1>3, <1>4, <1>5 DEF WireNext, Loop

\* A step that sends and handles nothing is the end of the channel or no step.
LEMMA EndsOrRests ==
  ASSUME Sent' = Sent, got' = got, Over => Over'
  PROVE  [Delivery!Next]_Delivery!stream
<1>1. CASE Over' <=> Over
  <2>1. Over' = Over
    BY <1>1 DEF Over
  <2> QED BY <2>1 DEF Delivery!stream, Over
<1>2. CASE ~Over /\ Over'
  <2>1. Over' = TRUE
    BY <1>2 DEF Over
  <2> QED BY <1>2, <2>1 DEF Delivery!Next, Delivery!End, Over
<1> QED BY <1>1, <1>2

LEMMA DeliveryStep ==
  ASSUME StreamInv, [WireNext]_wireVars
  PROVE  [Delivery!Next]_Delivery!stream
<1>0. Over => Over'
  BY OverStays
<1>s. ASSUME units' = units PROVE Sent' = Sent
  <2>1. ServerInv /\ ServerInv'
    BY <1>s, ServerRests DEF StreamInv
  <2> QED BY <1>s, <2>1, SentIs, SentIsNext
<1>1. CASE Server
  <2>1. got' = got /\ ws' = ws /\ state' = state
    BY <1>1 DEF Server, connection
  <2>2. CASE Sent' = Sent
    BY <1>0, <2>1, <2>2, EndsOrRests
  <2>3. CASE Len(Sent') = Len(Sent) + 1 /\ SubSeq(Sent', 1, Len(Sent)) = Sent
    <3>1. Over' = Over
      BY <2>1 DEF Over
    <3> QED BY <2>1, <2>3, <3>1 DEF Delivery!Next, Delivery!Send, Over
  <2> QED BY <1>1, <2>2, <2>3, ServerSent
<1>2. CASE UNCHANGED <<units, got>>
  BY <1>0, <1>s, <1>2, EndsOrRests
<1>3. ASSUME Len(got) < Len(Sent), got' = Append(got, Sent[Len(got) + 1]), units' = units,
             state = "ready", state' = state, ws = "open", ws' = ws
      PROVE  Delivery!Next
  <2>1. Over' = Over /\ ~Over
    BY <1>3 DEF Over
  <2> QED BY <1>3, <1>s, <2>1 DEF Delivery!Next, Delivery!Handle, Over
<1>4. ASSUME Inbound \/ Consume, state \in Working
      PROVE  \/ UNCHANGED <<units, got>>
             \/ /\ state = "ready" /\ state' = state /\ ws' = ws /\ units' = units
                /\ Len(got) < Len(Sent) /\ got' = Append(got, Sent[Len(got) + 1])
  <2>1. PICK k \in 1..(Len(units) + 1) : Awaited(k) /\ KeptFrom(StartOf(units, k)) /\ HandledTo(k)
    BY <1>4 DEF StreamInv, ReaderInv, Place
  <2>2. ServerInv /\ arrived \in Nat
    BY DEF StreamInv, ReaderInv
  <2>3. CASE Consume
    <3>1. /\ at = "consume" /\ buffers # <<>> /\ Len(Head(buffers)) >= needed
          /\ Callback(Piece(Head(buffers), needed), "consume") /\ units' = units
      BY <2>3 DEF Consume, CanConsume, server
    <3>2. PICK b : buffers = <<b>> /\ Lies(All(units), b, StartOf(units, k))
      BY <2>1, <3>1 DEF KeptFrom
    <3>3. Head(buffers) = b
      BY <3>2
    <3> QED BY <2>1, <2>2, <3>1, <3>2, <3>3, CallbackHandles
  <2>4. CASE Inbound
    <3>1. PICK n \in 1..(Len(Stream) - arrived) :
            \/ UNCHANGED <<connection, ws>>
            \/ /\ buffers = <<>> /\ Len(SubSeq(Stream, arrived + 1, arrived + n)) >= needed
               /\ Callback(Piece(SubSeq(Stream, arrived + 1, arrived + n), needed), "combine")
      BY <2>4 DEF Inbound
    <3>2. units' = units
      BY <2>4 DEF Inbound
    <3>3. CASE UNCHANGED <<connection, ws>>
      BY <3>2, <3>3 DEF connection
    <3>4. CASE /\ buffers = <<>> /\ Len(SubSeq(Stream, arrived + 1, arrived + n)) >= needed
               /\ Callback(Piece(SubSeq(Stream, arrived + 1, arrived + n), needed), "combine")
      <4> DEFINE t == All(units)
                 b == SubSeq(Stream, arrived + 1, arrived + n)
                 a == arrived
      <4>1. Stream = t /\ t \in Seq(Byte)
        BY <2>2, StreamIs, SoundPieces, AllAre DEF ServerInv
      <4>2. b = SubSeq(t, a + 1, a + n) /\ a \in Nat /\ n \in 1..(Len(t) - a)
        BY <2>2, <4>1
      <4>3. a = StartOf(units, k)
        BY <2>1, <3>4 DEF KeptFrom
      <4> HIDE DEF t, b, a
      <4>4. Lies(t, b, a)
        BY <4>1, <4>2, LiesChunk
      <4>5. Lies(All(units), b, StartOf(units, k)) /\ Len(b) >= needed
            /\ Callback(Piece(b, needed), "combine")
        BY <3>4, <4>3, <4>4 DEF t, b
      <4> QED BY <2>1, <2>2, <3>2, <4>5, CallbackHandles
    <3> QED BY <3>1, <3>3, <3>4
  <2> QED BY <1>4, <2>3, <2>4
<1>5. CASE Inbound \/ Consume
  <2>1. CASE state \in Working
    <3>1. ws = "open"
      BY <1>5, <2>1 DEF Inbound, Consume, StreamInv, ReaderInv
    <3> QED BY <1>2, <1>3, <1>4, <1>5, <2>1, <3>1
  <2>2. CASE state \notin Working
    <3>1. ASSUME NEW mb, NEW next, Callback(mb, next) PROVE got' = got
      <4>1. Dropped(next)
        BY <2>2, <3>1 DEF Callback, LinkHeaderArrives, LinkReplyArrives, AuthReplyArrives,
                          MiniHeaderArrives, BodyArrives, Working
      <4> QED BY <4>1 DEF Dropped, connection
    <3>2. UNCHANGED <<units, got>>
      BY <1>5, <3>1 DEF Inbound, Consume, connection, server
    <3> QED BY <1>2, <3>2
  <2> QED BY <2>1, <2>2
<1>6. CASE Combine \/ InboundReturns \/ Opened \/ UNCHANGED wireVars
  BY <1>2, <1>6 DEF Combine, InboundReturns, Opened, wireVars, connection, server
<1>7. CASE Fails \/ CloseEvent \/ TimesOut \/ Stopped
  BY <1>2, <1>7 DEF Fails, CloseEvent, TimesOut, Stopped, server
<1> QED BY <1>1, <1>5, <1>6, <1>7 DEF WireNext, Loop

\* What process_message is given are the messages the server sent, whole, each
\* once and in their order, until the connection ends: the connection is a
\* SpiceStream but for its fairness.
THEOREM ImplementsStream == Spec => Delivery!Init /\ [][Delivery!Next]_Delivery!stream
<1>1. Init => StreamInv /\ Delivery!Init
  <2>1. SUFFICES ASSUME WireInit PROVE Delivery!Init
    BY StreamInit DEF Init
  <2>2. ServerInv /\ units = <<>> /\ got = <<>> /\ ws = "connecting" /\ state = "connecting"
    BY <2>1, StreamInit DEF StreamInv, WireInit
  <2>3. Sent = <<>>
    <3>1. Len(<<>>) = 0
      OBVIOUS
    <3> QED BY <2>2, <3>1, SentIs, FirstNone
  <2>4. Over = FALSE
    BY <2>2 DEF Over
  <2> QED BY <2>2, <2>3, <2>4 DEF Delivery!Init, Over
<1>2. StreamInv /\ [Next]_vars => StreamInv' /\ [Delivery!Next]_Delivery!stream
  BY WireSteps, StreamNext, DeliveryStep
<1> QED BY <1>1, <1>2, PTL DEF Spec

=============================================================================
