------------------------------ MODULE SpiceWire ------------------------------
(* One SPICE connection of the page that shows an instance's desktop: the     *)
(* bytes of the server arrive in chunks cut anywhere (the web socket proxy    *)
(* forwards what it read), SpiceWireReader cuts them into the pieces the      *)
(* connection asked for, and SpiceConn goes through the link handshake and    *)
(* then through messages, each a mini header and perhaps a body.              *)
(*                                                                            *)
(* A handler of the page runs to its end before another event is handled, so  *)
(* the two loops of inbound are steps of their own (at), and no event happens *)
(* while at is not "idle".  A byte is <<unit, offset>>: its place in what the *)
(* server sent, which is all that a wrong cut or a wrong order can disturb.   *)
EXTENDS Naturals, Sequences, SequencesExt

CONSTANTS
  LinkHeaderSize, ReplySize, AuthSize, MiniSize,  \* bytes of the fixed parts
  BodySizes,          \* sizes a message body may have, 0 for none
  MaxMessages         \* bound: messages the server sends

ASSUME SizesAssumption ==
  /\ {LinkHeaderSize, ReplySize, AuthSize, MiniSize} \subseteq Nat \ {0}
  /\ BodySizes \subseteq Nat
  /\ MaxMessages \in Nat

VARIABLES
  onerror,    \* this.onerror is defined: it is for the main connection only
  state,      \* SpiceConn.state
  ws,         \* the web socket
  timer,      \* this.timeout is set
  told,       \* what onerror was called with
  asked,      \* what the client has sent
  got,        \* what process_message was given
  needed,     \* SpiceWireReader.needed
  saved,      \* SpiceWireReader.saved_msg_header, <<>> when undefined
  buffers,    \* SpiceWireReader.buffers
  at,         \* where inbound is: "idle" outside it
  units,      \* what the server has sent, piece by piece
  arrived     \* how many of its bytes the page has received

connection   == <<onerror, state, timer, told, asked, got>>
reader == <<needed, saved, buffers, at>>
server == <<units, arrived>>
wireVars == <<connection, ws, reader, server>>

Unit(kind, len, ok, size) == [kind |-> kind, len |-> len, ok |-> ok, size |-> size]
Bytes(k) == [o \in 1..units[k].len |-> <<k, o>>]
Stream   == FlattenSeq([k \in DOMAIN units |-> Bytes(k)])

\* What the code reads in a buffer: the fields of the piece it starts in.
Read(mb) == units[mb[1][1]]

(* The messages of the stream, as process_message should see them. *)
Message(hdr, body) == [header |-> hdr, body |-> body]
MessageAt(k) ==
  IF units[k].kind = "mini"
  THEN << Message(Bytes(k), IF units[k].size = 0 THEN <<>> ELSE Bytes(k + 1)) >>
  ELSE <<>>
Sent == FlattenSeq([k \in DOMAIN units |-> MessageAt(k)])

-----------------------------------------------------------------------------
(* The server, and what happens to the web socket. *)

ServerLinks ==
  /\ "hdr" \in ToSet(asked) /\ units = <<>>
  /\ \E magic, reply \in BOOLEAN :
       units' = << Unit("header", LinkHeaderSize, magic, ReplySize), Unit("reply", ReplySize, reply, 0) >>

ServerAnswersTicket ==
  /\ "ticket" \in ToSet(asked) /\ Len(units) = 2
  /\ \E granted \in BOOLEAN : units' = Append(units, Unit("auth", AuthSize, granted, 0))

ServerSends ==
  /\ Len(units) > 2 /\ units[3].ok
  /\ Len(Sent) < MaxMessages
  /\ \E n \in BodySizes :
       units' = units \o << Unit("mini", MiniSize, TRUE, n) >>
                      \o (IF n = 0 THEN <<>> ELSE << Unit("body", n, TRUE, 0) >>)

Server ==
  /\ ws = "open" /\ at = "idle"
  /\ ServerLinks \/ ServerAnswersTicket \/ ServerSends
  /\ UNCHANGED <<connection, ws, reader, arrived>>

\* WebSocket.close(): a socket still connecting fails, with an error event.
Closed(s) == CASE s = "connecting" -> "failing" [] s = "open" -> "closing" [] OTHER -> s

-----------------------------------------------------------------------------
\* Mutant: the timer goes on.
CleanupKeepsTimer == ws' = Closed(ws) /\ UNCHANGED timer

(* cleanup, called by SpiceMainConn.stop, which the page calls on every error *)
(* and when it connects anew.                                                 *)
Cleanup == timer' = FALSE /\ ws' = Closed(ws)
Stop    == state' = "closing" /\ Cleanup

\* report_error with the state the handler has just set: onerror stops the
\* connection; without an onerror it throws, which ends the handler.
ReportError(what, st, next) ==
  IF onerror
  THEN /\ told' = Append(told, what)
       /\ Stop
       /\ at' = next
  ELSE /\ state' = st
       /\ at' = "idle"
       /\ UNCHANGED <<told, timer, ws>>

(* process_inbound, by the state of the connection.  next is where inbound    *)
(* goes on when the callback returns.                                         *)
LinkHeaderArrives(mb, next) ==
  /\ state = "start"
  /\ IF ~Read(mb).ok
     THEN ReportError("magic", "error", next) /\ UNCHANGED needed
     ELSE /\ needed' = Read(mb).size /\ state' = "link"
          /\ at' = next /\ UNCHANGED <<told, timer, ws>>
  /\ UNCHANGED <<onerror, asked, got, saved>>

LinkReplyArrives(mb, next) ==
  /\ state = "link"
  /\ IF ~Read(mb).ok
     THEN ReportError("link", "error", next) /\ UNCHANGED <<needed, asked>>
     ELSE /\ asked' = Append(asked, "ticket") /\ state' = "ticket" /\ needed' = AuthSize
          /\ at' = next /\ UNCHANGED <<told, timer, ws>>
  /\ UNCHANGED <<onerror, got, saved>>

AuthReplyArrives(mb, next) ==
  /\ state = "ticket"
  /\ IF ~Read(mb).ok
     THEN ReportError("denied", "error", next) /\ UNCHANGED needed
     ELSE /\ state' = "ready" /\ needed' = MiniSize /\ timer' = FALSE
          /\ at' = next /\ UNCHANGED <<told, ws>>
  /\ UNCHANGED <<onerror, asked, got, saved>>

MiniHeaderArrives(mb, next) ==
  /\ state = "ready" /\ saved = <<>>
  /\ IF Read(mb).size = 0
     THEN got' = Append(got, Message(mb, <<>>)) /\ needed' = MiniSize /\ UNCHANGED saved
     ELSE needed' = Read(mb).size /\ saved' = mb /\ UNCHANGED got
  /\ at' = next
  /\ UNCHANGED <<onerror, state, timer, told, asked, ws>>

\* Mutant: the saved header stays.
BodyKeepsHeader(mb, next) ==
  /\ state = "ready" /\ saved # <<>>
  /\ got' = Append(got, Message(saved, mb))
  /\ needed' = MiniSize
  /\ at' = next
  /\ UNCHANGED <<onerror, state, timer, told, asked, ws, saved>>

BodyArrives(mb, next) ==
  /\ state = "ready" /\ saved # <<>>
  /\ got' = Append(got, Message(saved, mb))
  /\ needed' = MiniSize /\ saved' = <<>>
  /\ at' = next
  /\ UNCHANGED <<onerror, state, timer, told, asked, ws>>

\* In any other state the buffer is dropped.
Dropped(next) ==
  /\ state \notin {"start", "link", "ticket", "ready"}
  /\ at' = next
  /\ UNCHANGED <<connection, ws, needed, saved>>

Callback(mb, next) ==
  \/ LinkHeaderArrives(mb, next)
  \/ LinkReplyArrives(mb, next)
  \/ AuthReplyArrives(mb, next)
  \/ MiniHeaderArrives(mb, next)
  \/ BodyArrives(mb, next)
  \/ Dropped(next)

-----------------------------------------------------------------------------
(* SpiceWireReader.inbound *)

Piece(mb, n) == SubSeq(mb, 1, n)
Rest(mb, n)  == IF Len(mb) > n THEN << SubSeq(mb, n + 1, Len(mb)) >> ELSE <<>>

\* A chunk arrives: it is kept, or given to the callback at once when nothing
\* is kept and it is long enough.
Inbound ==
  /\ at = "idle" /\ ws = "open"
  /\ \E n \in 1..(Len(Stream) - arrived) :
       LET mb == SubSeq(Stream, arrived + 1, arrived + n)
       IN  /\ arrived' = arrived + n
           /\ IF needed > 0 /\ buffers = <<>> /\ Len(mb) >= needed
              THEN buffers' = Rest(mb, needed) /\ Callback(Piece(mb, needed), "combine")
              ELSE /\ buffers' = Append(buffers, mb)
                   /\ at' = IF needed = 0 THEN "idle" ELSE "combine"
                   /\ UNCHANGED <<connection, ws, needed, saved>>
  /\ UNCHANGED units

MustCombine == Len(buffers) > 1 /\ Len(Head(buffers)) < needed

\* Mutant: the later buffer comes first.
CombineSwapped ==
  /\ at = "combine"
  /\ IF MustCombine
     THEN buffers' = << buffers[2] \o buffers[1] >> \o SubSeq(buffers, 3, Len(buffers)) /\ UNCHANGED at
     ELSE at' = "consume" /\ UNCHANGED buffers
  /\ UNCHANGED <<connection, ws, needed, saved, server>>

Combine ==
  /\ at = "combine"
  /\ IF MustCombine
     THEN buffers' = << buffers[1] \o buffers[2] >> \o SubSeq(buffers, 3, Len(buffers)) /\ UNCHANGED at
     ELSE at' = "consume" /\ UNCHANGED buffers
  /\ UNCHANGED <<connection, ws, needed, saved, server>>

CanConsume == buffers # <<>> /\ Len(Head(buffers)) >= needed

Consume ==
  /\ at = "consume" /\ CanConsume
  /\ buffers' = Rest(Head(buffers), needed) \o Tail(buffers)
  /\ Callback(Piece(Head(buffers), needed), "consume")
  /\ UNCHANGED server

InboundReturns ==
  /\ at = "consume" /\ ~CanConsume
  /\ at' = "idle"
  /\ UNCHANGED <<connection, ws, needed, saved, buffers, server>>

-----------------------------------------------------------------------------
(* The events of the connection. *)

\* Mutant: the timer ends when the socket opens.
OpenedEndsTimer ==
  /\ at = "idle" /\ ws = "connecting"
  /\ ws' = "open" /\ timer' = FALSE
  /\ asked' = Append(asked, "hdr") /\ needed' = LinkHeaderSize /\ state' = "start"
  /\ UNCHANGED <<onerror, told, got, saved, buffers, at, server>>

Opened ==
  /\ at = "idle" /\ ws = "connecting"
  /\ ws' = "open"
  /\ asked' = Append(asked, "hdr") /\ needed' = LinkHeaderSize /\ state' = "start"
  /\ UNCHANGED <<onerror, timer, told, got, saved, buffers, at, server>>

\* The socket fails: an error event, and a close event after it.
Fails ==
  /\ at = "idle" /\ ws \in {"connecting", "open", "failing"}
  /\ IF onerror
     THEN told' = Append(told, "socket") /\ state' = "closing" /\ timer' = FALSE
     ELSE UNCHANGED <<told, state, timer>>
  /\ ws' = "closing"
  /\ UNCHANGED <<onerror, asked, got, reader, server>>

CloseReason ==
  CASE state = "connecting"          -> "refused"
    [] state \in {"start", "link"}   -> "mismatch"
    [] state = "ticket"              -> "password"
    [] OTHER                         -> "unexpected"

\* The close event, of a close of either side.
CloseEvent ==
  /\ at = "idle" /\ ws \in {"open", "closing"}
  /\ ws' = "closed"
  /\ IF state \notin {"closing", "error"} /\ onerror
     THEN told' = Append(told, CloseReason) /\ state' = "closing" /\ timer' = FALSE
     ELSE UNCHANGED <<told, state, timer>>
  /\ UNCHANGED <<onerror, asked, got, reader, server>>

\* spiceconn_timeout; a timer fires once.
TimesOut ==
  /\ at = "idle" /\ timer
  /\ IF onerror
     THEN told' = Append(told, "timeout") /\ Stop
     ELSE timer' = FALSE /\ UNCHANGED <<told, state, ws>>
  /\ UNCHANGED <<onerror, asked, got, reader, server>>

\* The page stops the main connection, which cleans up the others.
Stopped ==
  /\ at = "idle" /\ ws \in {"connecting", "open"}
  /\ IF onerror THEN Stop ELSE Cleanup /\ UNCHANGED state
  /\ UNCHANGED <<onerror, told, asked, got, reader, server>>

WireInit ==
  /\ onerror \in BOOLEAN
  /\ state = "connecting" /\ ws = "connecting" /\ timer = TRUE
  /\ needed = 0 /\ saved = <<>> /\ buffers = <<>> /\ at = "idle"
  /\ units = <<>> /\ arrived = 0
  /\ asked = <<>> /\ got = <<>> /\ told = <<>>

Loop == Combine \/ Consume \/ InboundReturns

WireNext ==
  \/ Server \/ Inbound \/ Loop
  \/ Opened \/ Fails \/ CloseEvent \/ TimesOut \/ Stopped

-----------------------------------------------------------------------------
(* The reader and the server stay in step: whenever inbound has returned on a *)
(* connection that goes on, the next byte the page has not used begins a piece *)
(* of the server's stream, the piece the state waits for, and needed is its    *)
(* length.  Were a header not cleared, a rest not put back or a size requested *)
(* too late, every later byte would be read as something else.                 *)
Kept == Len(FlattenSeq(buffers))
AtPieces ==
  at = "idle" /\ state \in {"start", "link", "ticket", "ready"} =>
    LET used == arrived - Kept
    IN  used < Len(Stream) =>
          LET next == Stream[used + 1]
          IN  /\ next[2] = 1
              /\ needed = units[next[1]].len
              /\ units[next[1]].kind =
                   CASE state = "start"  -> "header"
                     [] state = "link"   -> "reply"
                     [] state = "ticket" -> "auth"
                     [] OTHER            -> IF saved = <<>> THEN "mini" ELSE "body"

(* No message waits in the page: when inbound has returned, what it keeps is   *)
(* one buffer, shorter than what is needed.  Otherwise a whole message would   *)
(* stay unhandled until the server happens to send more.                       *)
NothingWaits ==
  at = "idle" /\ state \in {"start", "link", "ticket", "ready"} =>
    Len(buffers) <= 1 /\ Kept < needed

(* The page hears of one failure of a connection: only a connection that timed *)
(* out while its socket was still connecting reports again, because closing    *)
(* such a socket is itself an error of the socket.                             *)
ToldOnce == Len(told) > 1 => told = <<"timeout", "socket">>

(* A connection ends its handshake or is given up: the timer covers every way  *)
(* the server can stay silent, for a connection whose errors are handled.      *)
HandshakeEnds == onerror ~> state \in {"ready", "closing"}

(* The connection implements SpiceStream while it is ready and open: what      *)
(* process_message is given are the messages the server sent, whole, each once *)
(* and in their order, and none is left unhandled while the connection lasts.  *)
Delivery == INSTANCE SpiceStream WITH
  sent <- Sent, handled <- got,
  over <- ws \notin {"connecting", "open"} \/ state \in {"error", "closing"}
DeliversStream == Delivery!Spec
==============================================================================
