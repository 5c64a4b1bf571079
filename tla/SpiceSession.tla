---------------------------- MODULE SpiceSession ----------------------------
(* The console page of an instance and the connections it opens: one main     *)
(* connection, and, for every channel the server lists, a connection of its   *)
(* own.  The page keeps the main connection in a global, sc, and connects     *)
(* whenever it is visited.  Turbolinks follows links by replacing the body of *)
(* the document, so a visit, a way out and a way back leave sc and its        *)
(* connections as they are, while the elements they write to go and come.     *)
(* SpiceWire has the handshake in full; here it is one step.                  *)
EXTENDS Naturals, FiniteSets

CONSTANTS
  Kinds,      \* the channels a server lists: "display", "inputs", "cursor", others
  MaxVisits   \* bound: how often the page is visited

ASSUME SessionAssumption == "main" \notin Kinds /\ "display" \in Kinds /\ MaxVisits \in Nat

Visit    == 1..MaxVisits
Session  == Visit          \* the session that a visit opened, if it opened one
Elsewhere == 0             \* the body shown when the user is on another page

VARIABLES
  sc,        \* the session in the page's global, 0 before the first
  visits,    \* visits so far
  body,      \* the visit whose body the document shows, or Elsewhere
  conn,      \* per session, its connections: SpiceConn's state, web socket and timer
  fields,    \* per session, the children its main connection refers to
  progress,     \* per session, how far the main channel has come
  surface,   \* per session, its primary surface: "none"; "primary" in a page or
             \* "unshown" in none; "detached", no longer primary; or "lost"
  canvas     \* per body, the canvases of primary surfaces in it

page == <<sc, visits, body>>
consoleVars == <<page, conn, fields, progress, surface, canvas>>

Absent     == [state |-> "none", ws |-> "none", timer |-> FALSE]
Connecting == [state |-> "connecting", ws |-> "connecting", timer |-> TRUE]

-----------------------------------------------------------------------------
(* SpiceConn.cleanup and SpiceMainConn.stop.  A socket that is closed while it *)
(* is connecting fails: an error event follows, then a close event.            *)

CloseSocket(s) == CASE s = "connecting" -> "failing" [] s = "open" -> "closing" [] OTHER -> s

CleanedUp(c) == [c EXCEPT !.timer = FALSE, !.ws = CloseSocket(@)]

\* delete_surface looks in the document b for a canvas with the surface's id,
\* which need not be its own; where none is found, removing it throws, and the
\* surface is left behind, no longer primary.
Primary(k) == surface[k] \in {"primary", "unshown"}
Found(b)   == b # Elsewhere /\ canvas[b] > 0
CutShort(k, b) == "display" \in fields[k] /\ Primary(k) /\ ~Found(b)
Removed(k, b) ==
  canvas' = IF Primary(k) /\ Found(b) THEN [canvas EXCEPT ![b] = @ - 1] ELSE canvas

\* stop of session k while the document shows b, the connections being cs; it
\* does not reach the main connection when deleting the surface throws.
StopSession(cs, k, b) ==
  LET left == IF CutShort(k, b) THEN Kinds \ {"inputs", "cursor"} ELSE {}
      done == {c \in fields[k] : c \in {"inputs", "cursor", "display"} \/ ~CutShort(k, b)}
  IN  /\ conn' = [cs EXCEPT ![k] = [c \in DOMAIN @ |->
                    IF c = "main"
                    THEN IF CutShort(k, b) THEN [@[c] EXCEPT !.state = "closing"]
                         ELSE CleanedUp([@[c] EXCEPT !.state = "closing"])
                    ELSE IF c \in done THEN CleanedUp(@[c]) ELSE @[c]]]
      /\ fields' = [fields EXCEPT ![k] = @ \cap left]
      /\ surface' = [surface EXCEPT ![k] =
           CASE "display" \notin fields[k] -> @
             [] CutShort(k, b)             -> "detached"
             [] OTHER                      -> "none"]
      /\ IF "display" \in fields[k] THEN Removed(k, b) ELSE UNCHANGED canvas

\* report_error: log_err comes first and needs the element of the page that
\* shows messages; then spice_error, the onerror of every main connection, stops
\* the session in sc, whichever reported.  A child has no onerror.  cs are the
\* connections as the handler has left them.
StopCurrent(cs) == StopSession(cs, sc, body)
ErrorReported(cs, c) ==
  IF c = "main" /\ body # Elsewhere
  THEN StopCurrent(cs)
  ELSE conn' = cs /\ UNCHANGED <<fields, surface, canvas>>

-----------------------------------------------------------------------------
\* Mutant: a visit opens its session and leaves the old one to itself.
VisitKeeps ==
  /\ visits < MaxVisits
  /\ visits' = visits + 1 /\ body' = visits + 1 /\ sc' = visits + 1
  /\ conn' = [conn EXCEPT ![visits + 1]["main"] = Connecting]
  /\ UNCHANGED <<fields, surface, progress, canvas>>

(* The pages.  A visit shows a new body and runs its script, connect: the old  *)
(* session is stopped first, and where that throws there is no new one.        *)
VisitPage ==
  /\ visits < MaxVisits
  /\ visits' = visits + 1 /\ body' = visits + 1
  /\ IF sc = 0
     THEN /\ conn' = [conn EXCEPT ![visits + 1]["main"] = Connecting]
          /\ sc' = visits + 1
          /\ UNCHANGED <<fields, surface, canvas>>
     ELSE /\ StopSession(IF CutShort(sc, visits + 1) THEN conn
                  ELSE [conn EXCEPT ![visits + 1]["main"] = Connecting], sc, visits + 1)
          /\ sc' = IF CutShort(sc, visits + 1) THEN sc ELSE visits + 1
  /\ UNCHANGED progress

\* Another page; and back to a console page of the history, whose body is put
\* back as it was, without running its script.
LeavePage ==
  /\ body # Elsewhere
  /\ body' = Elsewhere
  /\ UNCHANGED <<sc, visits, conn, fields, progress, surface, canvas>>

GoBack ==
  /\ \E b \in 1..visits : b # body /\ body' = b
  /\ UNCHANGED <<sc, visits, conn, fields, progress, surface, canvas>>

-----------------------------------------------------------------------------
(* The life of one connection. *)

SocketOpens(k, c) ==
  /\ conn[k][c].ws = "connecting"
  /\ conn' = [conn EXCEPT ![k][c].ws = "open", ![k][c].state = "start"]
  /\ UNCHANGED <<page, fields, progress, surface, canvas>>

Linked(k, c) ==
  /\ conn[k][c].ws = "open" /\ conn[k][c].state = "start"
  /\ conn' = [conn EXCEPT ![k][c].state = "ready", ![k][c].timer = FALSE]
  /\ UNCHANGED <<page, fields, progress, surface, canvas>>

LinkRefused(k, c) ==
  /\ conn[k][c].ws = "open" /\ conn[k][c].state = "start"
  /\ ErrorReported([conn EXCEPT ![k][c].state = "error"], c)
  /\ UNCHANGED <<page, progress>>

\* A socket fails by itself, or because it was closed while connecting.
SocketFails(k, c) ==
  /\ conn[k][c].ws \in {"connecting", "open", "failing"}
  /\ ErrorReported([conn EXCEPT ![k][c].ws = "closing"], c)
  /\ UNCHANGED <<page, progress>>

\* Mutant: every close is reported.
CloseUnasked(k, c) ==
  /\ conn[k][c].ws \in {"open", "closing"}
  /\ ErrorReported([conn EXCEPT ![k][c].ws = "closed"], c)
  /\ UNCHANGED <<page, progress>>

\* The close listener calls onerror itself, and logs afterwards.
SocketCloses(k, c) ==
  /\ conn[k][c].ws \in {"open", "closing"}
  /\ LET cs == [conn EXCEPT ![k][c].ws = "closed"]
     IN  IF conn[k][c].state \in {"closing", "error"} \/ c # "main"
         THEN conn' = cs /\ UNCHANGED <<fields, surface, canvas>>
         ELSE StopCurrent(cs)
  /\ UNCHANGED <<page, progress>>

TimerFires(k, c) ==
  /\ conn[k][c].timer
  /\ ErrorReported([conn EXCEPT ![k][c].timer = FALSE], c)
  /\ UNCHANGED <<page, progress>>

-----------------------------------------------------------------------------
(* Messages. *)
Receives(k, c) == conn[k][c].ws = "open" /\ conn[k][c].state = "ready"

\* SPICE_MSG_MAIN_INIT: logged, then answered by asking for the channels.  Where
\* logging throws the message stays unanswered, and the reader loses its place.
InitArrives(k) ==
  /\ Receives(k, "main") /\ progress[k] = "nothing"
  /\ progress' = [progress EXCEPT ![k] = IF body = Elsewhere THEN "lost" ELSE "attach"]
  /\ UNCHANGED <<page, conn, fields, surface, canvas>>

\* SPICE_MSG_MAIN_CHANNELS_LIST
ListArrives(k) ==
  /\ Receives(k, "main") /\ progress[k] = "attach"
  /\ progress' = [progress EXCEPT ![k] = "listed"]
  /\ conn' = [conn EXCEPT ![k] = [c \in DOMAIN @ |-> IF c \in Kinds THEN Connecting ELSE @[c]]]
  /\ fields' = [fields EXCEPT ![k] = Kinds]
  /\ UNCHANGED <<page, surface, canvas>>

\* SPICE_MSG_DISPLAY_SURFACE_CREATE of the primary surface: its canvas is put
\* into the page shown.  Where that has no place for it the handler throws, and
\* the reader loses its place.
SurfaceCreated(k) ==
  /\ Receives(k, "display") /\ surface[k] = "none"
  /\ IF body = Elsewhere
     THEN surface' = [surface EXCEPT ![k] = "unshown"] /\ UNCHANGED canvas
     ELSE surface' = [surface EXCEPT ![k] = "primary"] /\ canvas' = [canvas EXCEPT ![body] = @ + 1]
  /\ UNCHANGED <<page, conn, fields, progress>>

\* SPICE_MSG_DISPLAY_SURFACE_DESTROY, or, once that has thrown, what the reader
\* takes for another one.
SurfaceDestroyed(k) ==
  /\ Receives(k, "display") /\ surface[k] \in {"primary", "detached"}
  /\ surface' = [surface EXCEPT ![k] =
       IF @ = "detached" THEN "lost" ELSE IF Found(body) THEN "none" ELSE "detached"]
  /\ Removed(k, body)
  /\ UNCHANGED <<page, conn, fields, progress>>

-----------------------------------------------------------------------------
ConsoleInit ==
  /\ sc = 0 /\ visits = 0 /\ body = Elsewhere
  /\ conn = [k \in Session |-> [c \in {"main"} \cup Kinds |-> Absent]]
  /\ fields = [k \in Session |-> {}]
  /\ progress = [k \in Session |-> "nothing"]
  /\ surface = [k \in Session |-> "none"] /\ canvas = [b \in Visit |-> 0]

ConnectionEvent(k, c) ==
  SocketOpens(k, c) \/ Linked(k, c) \/ LinkRefused(k, c) \/ SocketFails(k, c) \/ SocketCloses(k, c) \/ TimerFires(k, c)

MessageArrives(k) == InitArrives(k) \/ ListArrives(k) \/ SurfaceCreated(k) \/ SurfaceDestroyed(k)

ConsoleNext ==
  \/ VisitPage \/ LeavePage \/ GoBack
  \/ \E k \in Session : MessageArrives(k) \/ \E c \in {"main"} \cup Kinds : ConnectionEvent(k, c)

SessionSpec == ConsoleInit /\ [][ConsoleNext]_consoleVars

-----------------------------------------------------------------------------
(* A stopped session holds nothing open: whatever its connections were doing   *)
(* (half linked, refused, timed out, listed a moment ago), none keeps a socket *)
(* that may still open or deliver, nor a timer that may still fire.  The one   *)
(* exception is a stop cut short by a surface whose canvas is not in the page: *)
(* the main connection then stays open, with its surface detached.             *)
StoppedHoldsNothing ==
  \A k \in Session : conn[k]["main"].state = "closing" =>
    \A c \in {"main"} \cup Kinds :
      \/ conn[k][c].ws \notin {"connecting", "open"} /\ ~conn[k][c].timer
      \/ c # "display" /\ surface[k] = "detached" /\ "display" \in fields[k]

(* Every session but the page's is stopped, or was never opened, and its main  *)
(* connection refers to no channel: the page never shows a session it replaced. *)
PageHoldsOne ==
  \A k \in Session \ {sc} :
    /\ conn[k]["main"] = Absent \/ conn[k]["main"].state = "closing"
    /\ fields[k] = {}

(* The page holds one session: every other is stopped, and a stopped session   *)
(* holds no socket that may open or deliver and no timer, but for a stop cut   *)
(* short by a surface without its canvas (SpiceMainConn.stop).                 *)
OneSession == PageHoldsOne /\ StoppedHoldsNothing

(* A session ends only by what happens to it: its own error or a visit; and by *)
(* one thing more, an old session whose socket was still connecting when it    *)
(* was stopped: that socket reports its failure later, and spice_error stops   *)
(* whatever session the page has by then.                                      *)
Ended(k) == conn[k]["main"].state # "closing" /\ conn'[k]["main"].state = "closing"
OwnEnd ==
  [][\A k \in Session : Ended(k) =>
       \/ visits' # visits
       \/ \A j \in Session \ {k} : conn[j] = conn'[j]
       \/ \E j \in 1..(k - 1) : conn[j]["main"].ws = "failing"]_consoleVars
=============================================================================
