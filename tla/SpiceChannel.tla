---------------------------- MODULE SpiceChannel ----------------------------
(* A ready channel of the console: the messages of the server, in order, and   *)
(* what process_message makes of each, with the acknowledgements that let the  *)
(* server go on.  What the handlers write goes into elements of the page,      *)
(* which Turbolinks may have put away: then they throw, and where the message  *)
(* had a body the reader takes all that follows for another one.               *)
(* SpiceWire has the cutting into messages, SpiceDisplay what is drawn.        *)
EXTENDS Integers, Sequences, FiniteSets

CONSTANTS
  Kinds,         \* "main", "display", "inputs", "cursor", "other"
  Windows,       \* windows a server asks for, 0 for no acknowledgements
  Shapes,        \* pictures of cursors
  MaxGeneration, \* bound: how often the server sets its window
  MaxMessages,   \* bound: messages of the server on a channel of each kind
  MaxFlight,     \* bound: messages on their way to the client
  Undefined

ASSUME ChannelAssumption ==
  /\ Windows \subseteq Nat /\ {MaxGeneration, MaxFlight} \subseteq Nat
  /\ MaxMessages \in [Kinds -> Nat]
  /\ Kinds \subseteq {"main", "display", "inputs", "cursor", "other"}
  /\ Undefined \notin Nat
  /\ Shapes \cap {"mono", "huge", "none", "cached"} = {}

VARIABLES
  kind,            \* the type of the channel
  strict,          \* the server counts every message, not only the channel's own
  shown,           \* the page has the elements the client writes to
  wire,            \* messages on their way to the client: <<type, argument>>
  back,            \* and to the server
  ack_window, msgs_until_ack,    \* SpiceConn's
  lost,            \* the reader is out of step
  missed,          \* what the server last said of its cursor was not shown
  warnings,        \* SpiceConn.warnings: the types warned of
  mouse_mode,      \* SpiceMainConn.mouse_mode
  pointer,         \* style.cursor of the screen
  generation, window, unacked,   \* of the server's window: its number, size, and use
  synced,          \* the generation the client has answered
  unasked,         \* messages that counted for the server and not for the client
  mode, shape,     \* the server's mouse mode and cursor
  messages         \* sent so far

client == <<ack_window, msgs_until_ack, lost, missed, warnings, mouse_mode, pointer>>
server == <<generation, window, unacked, synced, mode, shape, messages>>
vars   == <<kind, strict, shown, wire, back, client, server, unasked>>

Type(msg) == msg[1]
Common(msg)   == Type(msg) \in {"SET_ACK", "PING", "NOTIFY"}
HasBody(msg)  == Type(msg) \notin {"MARK", "INVAL_ALL_PALETTES", "CURSOR_HIDE", "CURSOR_RESET", "UNKNOWN"}
Counts(msg)   == Type(msg) # "SET_ACK" /\ (strict \/ ~Common(msg))
Unknown(msg)  == Type(msg) \in {"UNKNOWN", "CURSOR_MOVE", "CURSOR_RESET"} \/ msg = <<"CURSOR_SET", "mono">>

\* The messages that say what the guest's cursor is, and those of them that the
\* client follows: of CURSOR_INIT it does not take the cursor, CURSOR_RESET it
\* does not know, and of the pictures it shows those of type alpha that are sent
\* whole and fit a PNG chunk.
CursorTypes == {"CURSOR_INIT", "CURSOR_SET", "CURSOR_HIDE", "CURSOR_RESET"}
Taken(msg)  == Type(msg) = "CURSOR_HIDE" \/ (Type(msg) = "CURSOR_SET" /\ msg[2] \in Shapes)

-----------------------------------------------------------------------------
(* The server (external).  It stops at twice its window.                       *)

Stopped == window > 0 /\ unacked > 2 * window

Sends(msg) ==
  /\ Len(wire) < MaxFlight
  /\ wire' = Append(wire, msg)
  /\ unacked' = IF Counts(msg) THEN unacked + 1 ELSE unacked
  /\ messages' = messages + 1

ServerSetsAck ==
  /\ generation < MaxGeneration /\ Len(wire) < MaxFlight
  /\ \E w \in Windows :
       window' = w /\ wire' = Append(wire, <<"SET_ACK", [generation |-> generation + 1, window |-> w]>>)
  /\ generation' = generation + 1 /\ unacked' = 0 /\ unasked' = 0
  /\ UNCHANGED <<kind, strict, shown, back, client, synced, mode, shape, messages>>

ServerPings ==
  /\ ~Stopped /\ messages < MaxMessages[kind]
  /\ (Sends(<<"PING", 0>>) \/ Sends(<<"NOTIFY", 0>>))
  /\ UNCHANGED <<kind, strict, shown, back, client, generation, window, synced, mode, shape, unasked>>

\* What it may say on a channel of this kind, of no mode and no cursor.
Own ==
  CASE kind = "main"    -> {<<"UNKNOWN", 0>>}
    [] kind = "display" -> {<<"MARK", 0>>, <<"INVAL_ALL_PALETTES", 0>>, <<"DRAW", "plain">>, <<"DRAW", "odd">>, <<"UNKNOWN", 0>>}
    [] kind = "inputs"  -> {<<"INPUTS_INIT", 0>>, <<"KEY_MODIFIERS", 0>>}
    [] kind = "cursor"  -> {<<"CURSOR_MOVE", 0>>}
    [] OTHER            -> {<<"DATA", 0>>}

ServerSends ==
  /\ ~Stopped /\ messages < MaxMessages[kind]
  /\ \E msg \in Own : Sends(msg)
  /\ UNCHANGED <<kind, strict, shown, back, client, generation, window, synced, mode, shape, unasked>>

\* The mouse mode: at first, when the guest's agent comes or goes, on request.
ServerInits ==
  /\ kind = "main" /\ mode = Undefined /\ ~Stopped /\ messages < MaxMessages[kind]
  /\ \E current \in {"client", "server"}, supported \in BOOLEAN :
       /\ Sends(<<"MAIN_INIT", [current |-> current, supported |-> supported]>>)
       /\ mode' = current
  /\ UNCHANGED <<kind, strict, shown, back, client, generation, window, synced, shape, unasked>>

ServerSwitches ==
  /\ mode # Undefined /\ ~Stopped /\ messages < MaxMessages[kind]
  /\ \E m \in {"client", "server"} \ {mode} : mode' = m /\ Sends(<<"MOUSE_MODE", m>>)
  /\ UNCHANGED <<kind, strict, shown, back, client, generation, window, synced, shape, unasked>>

\* The guest's cursor: "mono" is one of another type than alpha, "huge" one of
\* more than 64 KB, "none" no picture, and with "cached" the client is to take a
\* picture from its cache.
Forms == Shapes \cup {"mono", "huge", "none"}

ServerShapes ==
  /\ kind = "cursor" /\ ~Stopped /\ messages < MaxMessages[kind]
  /\ \/ \E s \in Forms : shape' = s /\ (Sends(<<"CURSOR_INIT", s>>) \/ Sends(<<"CURSOR_SET", s>>))
     \/ shape' \in Shapes /\ Sends(<<"CURSOR_SET", "cached">>)
     \/ shape' = "none" /\ (Sends(<<"CURSOR_HIDE", 0>>) \/ Sends(<<"CURSOR_RESET", 0>>))
  /\ UNCHANGED <<kind, strict, shown, back, client, generation, window, synced, mode, unasked>>

ServerReads ==
  /\ back # <<>>
  /\ back' = Tail(back)
  /\ LET msg    == Head(back)
         grants == Type(msg) = "MOUSE_MODE_REQUEST" /\ mode # "client"
     IN  /\ synced' = IF Type(msg) = "ACK_SYNC" THEN msg[2] ELSE synced
         /\ mode' = IF grants THEN "client" ELSE mode
         /\ wire' = IF grants THEN Append(wire, <<"MOUSE_MODE", "client">>) ELSE wire
         /\ unacked' = CASE grants -> unacked + 1
                         [] Type(msg) = "ACK" /\ synced = generation -> unacked - window
                         [] OTHER -> unacked
  /\ UNCHANGED <<kind, strict, shown, client, generation, window, shape, messages, unasked>>

-----------------------------------------------------------------------------
(* process_message.  known_unimplemented warns once of a type.                 *)

Warns(msg) == Type(msg) \in {"MARK", "INVAL_ALL_PALETTES"} /\ Type(msg) \notin warnings

\* log_info, log_warn and log_err need the element of the page; so does the
\* cursor.  An odd drawing has a clip, a mask, flags or an operation that is
\* warned of before it is drawn without.
Writes(msg) ==
  \/ Type(msg) \in {"NOTIFY", "MAIN_INIT", "DATA", "CURSOR_HIDE"}
  \/ Warns(msg) \/ Unknown(msg) \/ msg = <<"DRAW", "odd">>
  \/ Type(msg) = "CURSOR_SET" /\ msg[2] \in Shapes \cup {"cached"}

\* A cursor without a picture has no header, and its flags are looked for in
\* the message instead of in the cursor; PngIDAT refuses more than 64 KB.
Throws(msg) == msg \in {<<"CURSOR_SET", "none">>, <<"CURSOR_SET", "huge">>} \/ (Writes(msg) /\ ~shown)

\* It counted for the server, unless that has set another window since.
IsNewWindow(msg) == Type(msg) = "SET_ACK" /\ msg[2].generation = generation
NewWindowComes   == \E i \in DOMAIN wire : IsNewWindow(wire[i])
Unasked(msg) ==
  unasked' = IF Counts(msg) /\ ~NewWindowComes THEN unasked + 1 ELSE unasked

\* The handler ends with an exception: it is not counted, and where there was a
\* body it is read again with every later message.
HandlerThrows(msg) ==
  /\ Throws(msg)
  /\ lost' = HasBody(msg)
  /\ missed' = (missed \/ Type(msg) \in CursorTypes)
  /\ Unasked(msg)
  /\ UNCHANGED <<back, ack_window, msgs_until_ack, warnings, mouse_mode, pointer>>

\* process_common_messages: these return before the counting.
SetAck(msg) ==
  /\ Type(msg) = "SET_ACK"
  /\ ack_window' = msg[2].window /\ msgs_until_ack' = msg[2].window
  /\ back' = Append(back, <<"ACK_SYNC", msg[2].generation>>)
  /\ UNCHANGED <<lost, missed, warnings, mouse_mode, pointer, unasked>>

Ping(msg) ==
  /\ Type(msg) = "PING"
  /\ back' = Append(back, <<"PONG", 0>>)
  /\ Unasked(msg)
  /\ UNCHANGED client

Notify(msg) ==
  /\ Type(msg) = "NOTIFY" /\ ~Throws(msg)
  /\ Unasked(msg)
  /\ UNCHANGED <<client, back>>

\* No handler for the channel: that too returns before the counting.
NoHandler(msg) ==
  /\ Type(msg) = "DATA" /\ ~Throws(msg)
  /\ Unasked(msg)
  /\ UNCHANGED <<client, back>>

\* A message of the channel; replies are those of its handler, and then there
\* may be an acknowledgement.
Request(msg) ==
  IF Type(msg) = "MAIN_INIT"
  THEN (IF msg[2].current # "client" /\ msg[2].supported THEN << <<"MOUSE_MODE_REQUEST", "client">> >> ELSE <<>>)
       \o << <<"ATTACH_CHANNELS", 0>> >>
  ELSE <<>>

\* Mutant: the mode asked for is taken as granted.
MouseModeAsked(msg) ==
  CASE Type(msg) = "MAIN_INIT" -> "client"
    [] Type(msg) = "MOUSE_MODE" -> msg[2] [] OTHER -> mouse_mode

MouseMode(msg) ==
  CASE Type(msg) = "MAIN_INIT" -> msg[2].current
    [] Type(msg) = "MOUSE_MODE" -> msg[2] [] OTHER -> mouse_mode

\* A picture to be taken from the cache comes without data: the style names a
\* PNG without pixels, which the browser passes over.
Pointer(msg) ==
  CASE Type(msg) = "CURSOR_SET" /\ msg[2] \in Shapes -> msg[2]
    [] msg = <<"CURSOR_SET", "cached">> -> "default"
    [] Type(msg) = "CURSOR_HIDE" -> "none" [] OTHER -> pointer

HandledBy(msg) ==
  /\ warnings' = IF Warns(msg) THEN warnings \cup {Type(msg)} ELSE warnings
  /\ mouse_mode' = MouseMode(msg) /\ pointer' = Pointer(msg)
  /\ missed' = IF Type(msg) \in CursorTypes THEN ~Taken(msg) ELSE missed

Counting == msgs_until_ack # Undefined /\ ack_window > 0

\* Mutant: the acknowledgement comes one message after the window's end.
AckCountedLate(msg) ==
  IF Counting /\ msgs_until_ack - 1 < 0
  THEN back' = back \o Request(msg) \o << <<"ACK", 0>> >> /\ msgs_until_ack' = ack_window
  ELSE back' = back \o Request(msg)
       /\ msgs_until_ack' = IF Counting THEN msgs_until_ack - 1 ELSE msgs_until_ack

\* Mutant: the count is not started again.
AckCountedOnce(msg) ==
  LET n == msgs_until_ack - 1
  IN  /\ msgs_until_ack' = IF Counting THEN n ELSE msgs_until_ack
      /\ back' = back \o Request(msg) \o (IF Counting /\ n = 0 THEN << <<"ACK", 0>> >> ELSE <<>>)

AckCounted(msg) ==
  IF Counting /\ msgs_until_ack - 1 <= 0
  THEN back' = back \o Request(msg) \o << <<"ACK", 0>> >> /\ msgs_until_ack' = ack_window
  ELSE back' = back \o Request(msg)
       /\ msgs_until_ack' = IF Counting THEN msgs_until_ack - 1 ELSE msgs_until_ack

ChannelMessage(msg) ==
  /\ ~Common(msg) /\ Type(msg) # "DATA" /\ ~Throws(msg)
  /\ HandledBy(msg) /\ AckCounted(msg)
  /\ UNCHANGED <<ack_window, lost, unasked>>

Process ==
  /\ wire # <<>> /\ ~lost
  /\ wire' = Tail(wire)
  /\ LET msg == Head(wire)
     IN  \/ HandlerThrows(msg) \/ SetAck(msg) \/ Ping(msg) \/ Notify(msg)
         \/ NoHandler(msg) \/ ChannelMessage(msg)
  /\ UNCHANGED <<kind, strict, shown, server>>

\* The page is left, and visited again from the history.
Turn ==
  /\ shown' = ~shown
  /\ UNCHANGED <<kind, strict, wire, back, client, server, unasked>>

Init ==
  /\ kind \in Kinds /\ strict \in BOOLEAN /\ shown = TRUE
  /\ wire = <<>> /\ back = <<>>
  /\ ack_window = Undefined /\ msgs_until_ack = Undefined
  /\ lost = FALSE /\ missed = FALSE /\ warnings = {} /\ mouse_mode = Undefined /\ pointer = "default"
  /\ generation = 0 /\ window = 0 /\ unacked = 0 /\ synced = 0 /\ unasked = 0
  /\ mode = Undefined /\ shape = "default" /\ messages = 0

Server ==
  \/ ServerSetsAck \/ ServerPings \/ ServerSends
  \/ ServerInits \/ ServerSwitches \/ ServerShapes \/ ServerReads

Next == Server \/ Process \/ Turn

\* What is sent arrives and is handled.
Spec == Init /\ [][Next]_vars /\ WF_vars(Process) /\ WF_vars(ServerReads)

-----------------------------------------------------------------------------
(* The messages under way that count against the window there is now: those    *)
(* after the message that brings it, while that is under way itself.           *)
CountsComing ==
  {i \in DOMAIN wire : Counts(wire[i]) /\ (NewWindowComes => \E j \in 1..(i - 1) : IsNewWindow(wire[j]))}

\* The acknowledgements under way that the server will take for its window.
AcksComing ==
  {i \in DOMAIN back : /\ Type(back[i]) = "ACK"
                       /\ synced = generation \/ \E j \in 1..(i - 1) : back[j] = <<"ACK_SYNC", generation>>}

\* The two sides keep one account: what the server holds against its window is
\* what is on its way, what the client has counted since its last
\* acknowledgement, the acknowledgements on their way, and what the client
\* handles without counting.  A window set anew starts the account anew, with
\* the acknowledgements for the old one still arriving.
AckLedger ==
  window > 0 =>
    IF NewWindowComes
    THEN unacked = Cardinality(CountsComing)
    ELSE /\ ack_window = window /\ msgs_until_ack \in 1..window
         /\ unacked = Cardinality(CountsComing) + (window - msgs_until_ack)
                      + window * Cardinality(AcksComing) + unasked

\* A server that has stopped for want of acknowledgements goes on, as long as
\* the client is in step and what it handles without counting (pings and
\* notices, to a server that counts them; all, on a channel without handlers;
\* what throws) is not more than the window bears.
ServerGoesOn == Stopped ~> ~Stopped \/ lost \/ unasked > window + 1

\* What the client takes for the mouse's mode and the cursor's shape is the
\* server's once all has arrived, though the page's elements come and go.  The
\* exception is a cursor that was missed: the last message to say what it is was
\* one the client does not follow (CURSOR_INIT and CURSOR_RESET; a picture of
\* another type, too large, or from the cache) or met no element.  From the next
\* CURSOR_SET or CURSOR_HIDE it follows, the two agree again.
Underway(types) == \E i \in DOMAIN wire : Type(wire[i]) \in types

ClientAgrees ==
  ~lost =>
    /\ Underway({"MAIN_INIT", "MOUSE_MODE"}) \/ mouse_mode = mode
    /\ Underway(CursorTypes) \/ pointer = shape \/ missed

==============================================================================
