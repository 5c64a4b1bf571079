------------------------- MODULE SpiceConsoleProofs -------------------------
(* The page and its sessions (SpiceSession) and what a display channel shows   *)
(* (SpiceDisplay), for every number of visits, set of channels, surfaces,      *)
(* boxes and images; and the numbers in the client's messages (SpiceMessages), *)
(* whatever they are.  The console (SpiceConsole) puts the three together with *)
(* the other data; each is proved here by itself.                              *)
EXTENDS SpiceSession, SpiceDisplay, SpiceMessages, ListLemmas

-----------------------------------------------------------------------------
(* One session at a time.                                                      *)

Channel    == {"main"} \cup Kinds
Connection == [state : {"none", "connecting", "start", "ready", "error", "closing"},
               ws : {"none", "connecting", "open", "failing", "closing", "closed"},
               timer : BOOLEAN]
Connections == [Session -> [Channel -> Connection]]
Unopened   == [c \in Channel |-> Absent]

SessionTypes ==
  /\ visits \in 0..MaxVisits /\ sc \in 0..visits /\ (sc = 0 => visits = 0)
  /\ conn \in Connections
  /\ fields \in [Session -> SUBSET Kinds]
  /\ surface \in [Session -> {"none", "primary", "unshown", "detached", "lost"}]

\* Nothing more will happen on the connection but the end of its socket.
Quiet(x) == x.ws \notin {"connecting", "open"} /\ ~x.timer

\* A channel the main connection does not refer to is quiet, for no stop would
\* reach it; the main connection was open when it made its channels.
Reached(row, held) ==
  /\ \A c \in Kinds \ held : Quiet(row[c])
  /\ held # {} => row["main"].ws # "connecting"

\* What a stop has left: nothing, or what it did not get to, which another stop
\* will, since the surface is no longer in its way.
Left(row, held, sf) ==
  row["main"].state = "closing" =>
    \/ \A c \in Channel : Quiet(row[c])
    \/ sf = "detached" /\ "display" \in held /\ Quiet(row["display"])

\* A session that is not the page's.
Gone(k, row, held) ==
  /\ held = {}
  /\ \/ row = Unopened
     \/ k < sc /\ row["main"].state = "closing" /\ \A c \in Channel : Quiet(row[c])

Held(cs) ==
  /\ \A k \in Session : Reached(cs[k], fields[k]) /\ Left(cs[k], fields[k], surface[k])
  /\ \A k \in Session \ {sc} : Gone(k, cs[k], fields[k])

SessionInv == SessionTypes /\ Held(conn)

LEMMA HoldsOne == SessionInv => OneSession
<1> SUFFICES ASSUME SessionInv PROVE OneSession
  OBVIOUS
<1>1. PageHoldsOne
  BY SessionAssumption DEF SessionInv, Held, Gone, Unopened, Channel, PageHoldsOne
<1>2. StoppedHoldsNothing
  <2> SUFFICES ASSUME NEW k \in Session, conn[k]["main"].state = "closing", NEW c \in Channel
               PROVE  \/ conn[k][c].ws \notin {"connecting", "open"} /\ ~conn[k][c].timer
                      \/ c # "display" /\ surface[k] = "detached" /\ "display" \in fields[k]
    BY DEF StoppedHoldsNothing, Channel
  <2>1. Left(conn[k], fields[k], surface[k])
    BY DEF SessionInv, Held
  <2>2. CASE \A d \in Channel : Quiet(conn[k][d])
    BY <2>2 DEF Quiet
  <2>3. CASE surface[k] = "detached" /\ "display" \in fields[k] /\ Quiet(conn[k]["display"])
    BY <2>3 DEF Quiet
  <2> QED BY <2>1, <2>2, <2>3 DEF Left
<1> QED BY <1>1, <1>2 DEF OneSession

\* A stop.  Whatever it is given as the connections, it changes those of its
\* session alone; what it leaves behind it, it can reach the next time.
LEMMA Stops ==
  ASSUME NEW cs \in Connections, NEW k \in Session, NEW b, SessionTypes,
         Reached(cs[k], fields[k]), Left(cs[k], fields[k], surface[k]),
         StopSession(cs, k, b)
  PROVE  /\ conn' \in Connections
         /\ fields' \in [Session -> SUBSET Kinds]
         /\ surface' \in [Session -> {"none", "primary", "unshown", "detached", "lost"}]
         /\ \A j \in Session \ {k} :
              conn'[j] = cs[j] /\ fields'[j] = fields[j] /\ surface'[j] = surface[j]
         /\ conn'[k]["main"].state = "closing"
         /\ Reached(conn'[k], fields'[k]) /\ Left(conn'[k], fields'[k], surface'[k])
         /\ ~CutShort(k, b) => fields'[k] = {} /\ \A c \in Channel : Quiet(conn'[k][c])
<1> DEFINE cut  == CutShort(k, b)
           left == IF cut THEN Kinds \ {"inputs", "cursor"} ELSE {}
           done == {c \in fields[k] : c \in {"inputs", "cursor", "display"} \/ ~cut}
           Closing(x) == [x EXCEPT !.state = "closing"]
           row  == [c \in Channel |->
                     IF c = "main" THEN IF cut THEN Closing(cs[k][c]) ELSE CleanedUp(Closing(cs[k][c]))
                     ELSE IF c \in done THEN CleanedUp(cs[k][c]) ELSE cs[k][c]]
<1>0. /\ k \in DOMAIN cs /\ DOMAIN cs = Session /\ DOMAIN (cs[k]) = Channel
      /\ cs[k] \in [Channel -> Connection] /\ fields[k] \subseteq Kinds
  BY DEF Connections, SessionTypes
<1>1. /\ conn' = [cs EXCEPT ![k] = row]
      /\ fields' = [fields EXCEPT ![k] = fields[k] \cap left]
      /\ surface' = [surface EXCEPT ![k] = CASE "display" \notin fields[k] -> surface[k]
                                             [] cut -> "detached" [] OTHER -> "none"]
  BY <1>0 DEF StopSession
<1>2. \A x \in Connection : /\ Closing(x) \in Connection /\ Closing(x).state = "closing"
                            /\ Closing(x).ws = x.ws /\ Closing(x).timer = x.timer
                            /\ CleanedUp(x) \in Connection /\ Quiet(CleanedUp(x))
                            /\ CleanedUp(x).state = x.state
  BY DEF Connection, CleanedUp, CloseSocket, Quiet
<1> HIDE DEF cut, Closing
<1>3. row \in [Channel -> Connection]
  BY <1>0, <1>2
<1>4. conn' \in Connections /\ conn'[k] = row /\ \A j \in Session \ {k} : conn'[j] = cs[j]
  BY <1>0, <1>1, <1>3 DEF Connections
<1>5. /\ fields' \in [Session -> SUBSET Kinds] /\ fields'[k] = fields[k] \cap left
      /\ \A j \in Session \ {k} : fields'[j] = fields[j]
  BY <1>1 DEF SessionTypes
<1>6. /\ surface' \in [Session -> {"none", "primary", "unshown", "detached", "lost"}]
      /\ \A j \in Session \ {k} : surface'[j] = surface[j]
      /\ surface'[k] = CASE "display" \notin fields[k] -> surface[k]
                         [] cut -> "detached" [] OTHER -> "none"
  BY <1>1 DEF SessionTypes
<1>7. "main" \in Channel /\ "main" \notin Kinds /\ "display" \in Channel /\ Kinds \subseteq Channel
  BY SessionAssumption DEF Channel
<1>8. row["main"].state = "closing"
  BY <1>0, <1>2, <1>7
<1>9. Reached(row, fields'[k])
  <2>1. ASSUME NEW c \in Kinds \ fields'[k] PROVE Quiet(row[c])
    <3>1. CASE c \in done
      BY <1>0, <1>2, <1>7, <3>1
    <3>2. CASE c \notin done
      <4>1. c \notin fields[k]
        BY <1>5, <2>1, <3>2
      <4> QED BY <1>7, <3>2, <4>1 DEF Reached
    <3> QED BY <3>1, <3>2
  <2>2. ASSUME fields'[k] # {} PROVE row["main"].ws # "connecting"
    <3>1. cut /\ fields[k] # {}
      BY <1>5, <2>2
    <3> QED BY <1>0, <1>2, <1>7, <3>1 DEF Reached
  <2> QED BY <2>1, <2>2 DEF Reached
<1>10. ASSUME ~cut PROVE fields'[k] = {} /\ \A c \in Channel : Quiet(row[c])
  <2>1. fields'[k] = {}
    BY <1>5, <1>10
  <2>2. \A c \in Kinds : Quiet(row[c])
    BY <1>9, <2>1 DEF Reached
  <2>3. Quiet(row["main"])
    BY <1>0, <1>2, <1>7, <1>10
  <2> QED BY <2>1, <2>2, <2>3 DEF Channel
<1>11. ASSUME cut PROVE surface'[k] = "detached" /\ "display" \in fields'[k] /\ Quiet(row["display"])
  <2>1. "display" \in fields[k]
    BY <1>11 DEF cut, CutShort
  <2>2. surface'[k] = "detached"
    BY <1>6, <1>11, <2>1
  <2>3. "display" \in fields'[k] /\ "display" \in done
    BY <1>5, <1>11, <2>1, SessionAssumption
  <2> QED BY <1>0, <1>2, <1>7, <2>2, <2>3
<1>12. Left(row, fields'[k], surface'[k])
  BY <1>10, <1>11 DEF Left
<1> QED BY <1>4, <1>5, <1>6, <1>8, <1>9, <1>10, <1>12 DEF cut

LEMMA ChannelsOf == "main" \in Channel /\ "main" \notin Kinds /\ "display" \in Channel /\ Kinds \subseteq Channel
BY SessionAssumption DEF Channel

\* What happens to one connection: it is there already, and neither opens a
\* quiet one nor ends a session.
Changes(k, c, x) ==
  /\ x \in Connection /\ conn[k][c] # Absent
  /\ Quiet(conn[k][c]) => Quiet(x)
  /\ x.ws = "connecting" => conn[k][c].ws = "connecting"
  /\ c = "main" => (x.state = "closing" <=> conn[k][c].state = "closing")

With(k, c, x) == [conn EXCEPT ![k][c] = x]

LEMMA ChangesHold ==
  ASSUME SessionInv, NEW k \in Session, NEW c \in Channel, NEW x, Changes(k, c, x)
  PROVE  /\ With(k, c, x) \in Connections /\ Held(With(k, c, x))
         /\ sc \in Session
         /\ \A j \in Session \ {k} : With(k, c, x)[j] = conn[j]
         /\ \A j \in Session : With(k, c, x)[j]["main"].state = "closing" <=> conn[j]["main"].state = "closing"
<1> DEFINE cs == With(k, c, x)
<1>1. /\ cs \in Connections /\ \A j \in Session \ {k} : cs[j] = conn[j]
      /\ cs[k][c] = x /\ \A d \in Channel \ {c} : cs[k][d] = conn[k][d]
      /\ cs[k] \in [Channel -> Connection]
  BY DEF SessionInv, SessionTypes, Connections, With, Changes
<1> HIDE DEF cs
<1>2. \A d \in Channel : Quiet(conn[k][d]) => Quiet(cs[k][d])
  BY <1>1 DEF Changes
<1>3. cs[k]["main"].ws = "connecting" => conn[k]["main"].ws = "connecting"
  BY <1>1, ChannelsOf DEF Changes
<1>4. cs[k]["main"].state = "closing" <=> conn[k]["main"].state = "closing"
  BY <1>1, ChannelsOf DEF Changes
<1>5. Reached(cs[k], fields[k])
  <2>1. Reached(conn[k], fields[k])
    BY DEF SessionInv, Held
  <2> QED BY <1>2, <1>3, <2>1, ChannelsOf DEF Reached
<1>6. Left(cs[k], fields[k], surface[k])
  <2>1. Left(conn[k], fields[k], surface[k])
    BY DEF SessionInv, Held
  <2> QED BY <1>2, <1>4, <2>1, ChannelsOf DEF Left
<1>7. ASSUME k # sc PROVE Gone(k, cs[k], fields[k]) /\ k < sc
  <2>1. Gone(k, conn[k], fields[k])
    BY <1>7 DEF SessionInv, Held
  <2>2. conn[k] # Unopened
    BY DEF Changes, Unopened
  <2> QED BY <1>2, <1>4, <2>1, <2>2 DEF Gone
<1>8. sc \in Session
  BY <1>7, SessionAssumption DEF SessionInv, SessionTypes, Session, Visit
<1>9. Held(cs)
  BY <1>1, <1>5, <1>6, <1>7 DEF SessionInv, Held
<1> QED BY <1>1, <1>4, <1>8, <1>9 DEF cs

\* Stopping the session in sc.
LEMMA StopHolds ==
  ASSUME SessionTypes, NEW cs \in Connections, Held(cs), sc \in Session, StopCurrent(cs), UNCHANGED page
  PROVE  SessionInv' /\ \A j \in Session \ {sc} : conn'[j] = cs[j]
<1>1. StopSession(cs, sc, body) /\ Reached(cs[sc], fields[sc]) /\ Left(cs[sc], fields[sc], surface[sc])
  BY DEF StopCurrent, Held
<1>2. /\ conn' \in Connections
      /\ fields' \in [Session -> SUBSET Kinds]
      /\ surface' \in [Session -> {"none", "primary", "unshown", "detached", "lost"}]
      /\ \A j \in Session \ {sc} : conn'[j] = cs[j] /\ fields'[j] = fields[j] /\ surface'[j] = surface[j]
      /\ Reached(conn'[sc], fields'[sc]) /\ Left(conn'[sc], fields'[sc], surface'[sc])
  BY <1>1, Stops
<1>3. SessionTypes'
  BY <1>2 DEF SessionTypes, page, Session, Visit
<1>4. \A j \in Session : Reached(conn'[j], fields'[j]) /\ Left(conn'[j], fields'[j], surface'[j])
  BY <1>2 DEF Held
<1>5. \A j \in Session \ {sc} : Gone(j, conn'[j], fields'[j])
  BY <1>2 DEF Held
<1>6. sc' = sc
  BY DEF page
<1>7. \A j \in Session \ {sc'} : Gone(j, conn[j], fields[j])'
  BY <1>5, <1>6 DEF Gone
<1>8. \A j \in Session : Reached(conn[j], fields[j])' /\ Left(conn[j], fields[j], surface[j])'
  BY <1>4 DEF Reached, Left
<1>9. Held(conn)'
  BY <1>6, <1>7, <1>8 DEF Held
<1> QED BY <1>2, <1>3, <1>9 DEF SessionInv

\* An event of a connection changes that connection, and then may stop the
\* session in sc: for what happened to the connection of a session that was not
\* stopped, or for a socket that was closed while it was connecting.
Reports(k, c, x) ==
  \/ conn' = With(k, c, x) /\ UNCHANGED <<fields, surface>>
  \/ /\ StopCurrent(With(k, c, x))
     /\ c = "main"
     /\ conn[k][c].ws = "failing" \/ ~Quiet(conn[k][c]) \/ conn[k][c].state # "closing"

LEMMA EventChanges ==
  ASSUME SessionInv, NEW k \in Session, NEW c \in Channel, ConnectionEvent(k, c)
  PROVE  UNCHANGED page /\ \E x : Changes(k, c, x) /\ Reports(k, c, x)
<1> DEFINE o == conn[k][c]
<1>0. o \in Connection
  BY DEF SessionInv, SessionTypes, Connections
<1>1. CASE SocketOpens(k, c)
  <2> DEFINE x == [[o EXCEPT !.ws = "open"] EXCEPT !.state = "start"]
  <2>1. conn' = With(k, c, x) /\ UNCHANGED <<page, fields, surface>> /\ o.ws = "connecting"
    BY <1>1 DEF SocketOpens, With
  <2>2. c = "main" => o.state # "closing"
    <3>1. Left(conn[k], fields[k], surface[k]) /\ Reached(conn[k], fields[k])
      BY DEF SessionInv, Held
    <3> QED BY <2>1, <3>1, ChannelsOf DEF Left, Reached, Quiet
  <2>3. x \in Connection /\ x.ws = "open" /\ x.state = "start" /\ o # Absent
    <3>1. DOMAIN o = {"state", "ws", "timer"}
      BY <1>0 DEF Connection
    <3>2. x \in Connection
      BY <1>0 DEF Connection
    <3>3. x.ws = "open" /\ x.state = "start"
      BY <3>1, <2>1
    <3>4. o # Absent
      BY <2>1 DEF Absent
    <3> QED BY <3>2, <3>3, <3>4
  <2> HIDE DEF x
  <2>4. Changes(k, c, x)
    BY <2>1, <2>2, <2>3 DEF Changes, Quiet
  <2> QED BY <2>1, <2>4 DEF Reports
<1>2. CASE Linked(k, c)
  <2> DEFINE x == [[o EXCEPT !.state = "ready"] EXCEPT !.timer = FALSE]
  <2>1. conn' = With(k, c, x) /\ UNCHANGED <<page, fields, surface>> /\ o.ws = "open" /\ o.state = "start"
    BY <1>2 DEF Linked, With
  <2>2. x \in Connection /\ x.ws = "open" /\ x.state = "ready" /\ o # Absent
    <3>1. DOMAIN o = {"state", "ws", "timer"}
      BY <1>0 DEF Connection
    <3>2. x \in Connection
      BY <1>0 DEF Connection
    <3>3. x.ws = "open" /\ x.state = "ready"
      BY <3>1, <2>1
    <3>4. o # Absent
      BY <2>1 DEF Absent
    <3> QED BY <3>2, <3>3, <3>4
  <2> HIDE DEF x
  <2>3. Changes(k, c, x)
    BY <2>1, <2>2 DEF Changes, Quiet
  <2> QED BY <2>1, <2>3 DEF Reports
<1>3. CASE LinkRefused(k, c)
  <2> DEFINE x == [o EXCEPT !.state = "error"]
  <2>1. ErrorReported(With(k, c, x), c) /\ UNCHANGED page /\ o.ws = "open" /\ o.state = "start"
    BY <1>3 DEF LinkRefused, With
  <2>2. Changes(k, c, x) /\ ~Quiet(o)
    BY <1>0, <2>1 DEF Changes, Connection, Quiet, Absent
  <2> HIDE DEF x
  <2> QED BY <2>1, <2>2 DEF Reports, ErrorReported
<1>4. CASE SocketFails(k, c)
  <2> DEFINE x == [o EXCEPT !.ws = "closing"]
  <2>1. ErrorReported(With(k, c, x), c) /\ UNCHANGED page /\ o.ws \in {"connecting", "open", "failing"}
    BY <1>4 DEF SocketFails, With
  <2>2. Changes(k, c, x) /\ (o.ws = "failing" \/ ~Quiet(o))
    BY <1>0, <2>1 DEF Changes, Connection, Quiet, Absent
  <2> HIDE DEF x
  <2> QED BY <2>1, <2>2 DEF Reports, ErrorReported
<1>5. CASE SocketCloses(k, c)
  <2> DEFINE x == [o EXCEPT !.ws = "closed"]
  <2>1. /\ UNCHANGED page /\ o.ws \in {"open", "closing"}
        /\ \/ conn' = With(k, c, x) /\ UNCHANGED <<fields, surface>>
           \/ StopCurrent(With(k, c, x)) /\ c = "main" /\ o.state # "closing"
    BY <1>5 DEF SocketCloses, With
  <2>2. Changes(k, c, x)
    BY <1>0, <2>1 DEF Changes, Connection, Quiet, Absent
  <2> HIDE DEF x
  <2> QED BY <2>1, <2>2 DEF Reports
<1>6. CASE TimerFires(k, c)
  <2> DEFINE x == [o EXCEPT !.timer = FALSE]
  <2>1. ErrorReported(With(k, c, x), c) /\ UNCHANGED page /\ o.timer
    BY <1>6 DEF TimerFires, With
  <2>2. x \in Connection /\ x.ws = o.ws /\ x.state = o.state
    BY <1>0 DEF Connection
  <2>3. o # Absent /\ ~Quiet(o)
    BY <2>1 DEF Quiet, Absent
  <2> HIDE DEF x
  <2>4. Changes(k, c, x)
    BY <2>2, <2>3 DEF Changes
  <2> QED BY <2>1, <2>3, <2>4 DEF Reports, ErrorReported
<1> QED BY <1>1, <1>2, <1>3, <1>4, <1>5, <1>6 DEF ConnectionEvent

LEMMA EventHolds ==
  ASSUME SessionInv, NEW k \in Session, NEW c \in Channel, ConnectionEvent(k, c)
  PROVE  SessionInv'
<1>1. UNCHANGED page
  BY EventChanges
<1>2. PICK x : Changes(k, c, x) /\ Reports(k, c, x)
  BY EventChanges
<1>3. With(k, c, x) \in Connections /\ Held(With(k, c, x)) /\ sc \in Session
  BY <1>2, ChangesHold
<1>4. CASE conn' = With(k, c, x) /\ UNCHANGED <<fields, surface>>
  <2>1. SessionTypes'
    BY <1>1, <1>3, <1>4 DEF SessionInv, SessionTypes, page, Session, Visit
  <2>2. Held(conn)'
    BY <1>1, <1>3, <1>4 DEF Held, Gone, Reached, Left, page
  <2> QED BY <2>1, <2>2 DEF SessionInv
<1>5. CASE StopCurrent(With(k, c, x))
  BY <1>1, <1>3, <1>5, StopHolds DEF SessionInv
<1> QED BY <1>2, <1>4, <1>5 DEF Reports

\* Messages come to a channel that is open, so to no session that was stopped.
LEMMA MessageHolds ==
  ASSUME SessionInv, NEW k \in Session, MessageArrives(k)
  PROVE  SessionInv' /\ \A j \in Session : conn'[j]["main"] = conn[j]["main"]
<1>0. /\ conn[k] \in [Channel -> Connection] /\ conn \in Connections
      /\ Left(conn[k], fields[k], surface[k]) /\ Reached(conn[k], fields[k])
  BY DEF SessionInv, SessionTypes, Connections, Held
<1>1. CASE InitArrives(k)
  BY <1>1 DEF InitArrives, SessionInv, SessionTypes, Held, Gone, Reached, Left, page, Session, Visit
<1>2. CASE ListArrives(k)
  <2> DEFINE row == [c \in Channel |-> IF c \in Kinds THEN Connecting ELSE conn[k][c]]
  <2>1. conn[k]["main"].ws = "open" /\ conn[k]["main"].state = "ready"
    BY <1>2 DEF ListArrives, Receives
  <2>2. conn' = [conn EXCEPT ![k] = row] /\ fields' = [fields EXCEPT ![k] = Kinds] /\ UNCHANGED <<page, surface>>
    BY <1>0, <1>2 DEF ListArrives
  <2>3. Connecting \in Connection
    BY DEF Connecting, Connection
  <2>4. row \in [Channel -> Connection] /\ row["main"] = conn[k]["main"]
    BY <1>0, <2>3, ChannelsOf
  <2> HIDE DEF row
  <2>5. /\ conn' \in Connections /\ conn'[k] = row /\ \A j \in Session \ {k} : conn'[j] = conn[j]
        /\ fields' \in [Session -> SUBSET Kinds] /\ fields'[k] = Kinds
        /\ \A j \in Session \ {k} : fields'[j] = fields[j]
    BY <1>0, <2>2, <2>4 DEF Connections, SessionInv, SessionTypes
  <2>6. k = sc
    <3> SUFFICES ASSUME k # sc PROVE FALSE
      OBVIOUS
    <3>1. Gone(k, conn[k], fields[k])
      BY DEF SessionInv, Held
    <3>2. Unopened["main"].ws = "none"
      BY ChannelsOf DEF Unopened, Absent
    <3> QED BY <2>1, <3>1, <3>2 DEF Gone
  <2>7. Reached(row, Kinds) /\ Left(row, Kinds, surface[k])
    BY <2>1, <2>4 DEF Reached, Left
  <2>8. SessionTypes'
    BY <2>2, <2>5 DEF SessionInv, SessionTypes, page, Session, Visit
  <2>9. \A j \in Session : Reached(conn'[j], fields'[j]) /\ Left(conn'[j], fields'[j], surface'[j])
    BY <2>2, <2>5, <2>7 DEF SessionInv, Held
  <2>10. sc' = sc /\ \A j \in Session \ {sc} : Gone(j, conn'[j], fields'[j])
    BY <2>2, <2>5, <2>6 DEF SessionInv, Held, page
  <2>11. Held(conn)'
    BY <2>9, <2>10 DEF Held, Reached, Left, Gone
  <2> QED BY <2>4, <2>5, <2>8, <2>11 DEF SessionInv
<1>3. CASE SurfaceCreated(k) \/ SurfaceDestroyed(k)
  <2>1. conn[k]["display"].ws = "open" /\ UNCHANGED <<page, conn, fields>>
    BY <1>3 DEF SurfaceCreated, SurfaceDestroyed, Receives
  <2>2. \E v \in {"none", "primary", "unshown", "detached", "lost"} : surface' = [surface EXCEPT ![k] = v]
    BY <1>3 DEF SurfaceCreated, SurfaceDestroyed
  <2>3. /\ surface' \in [Session -> {"none", "primary", "unshown", "detached", "lost"}]
        /\ \A j \in Session \ {k} : surface'[j] = surface[j]
    BY <2>2 DEF SessionInv, SessionTypes
  <2>4. conn[k]["main"].state # "closing"
    BY <1>0, <2>1, ChannelsOf DEF Left, Quiet
  <2>5. SessionTypes'
    BY <2>1, <2>3 DEF SessionInv, SessionTypes, page, Session, Visit
  <2>6. \A j \in Session : Left(conn[j], fields[j], surface'[j])
    BY <2>3, <2>4 DEF SessionInv, Held, Left
  <2>7. Held(conn)'
    BY <2>1, <2>6 DEF SessionInv, Held, Reached, Left, Gone, page
  <2> QED BY <2>1, <2>5, <2>7 DEF SessionInv
<1> QED BY <1>1, <1>2, <1>3 DEF MessageArrives

\* A visit stops the session there is, and opens another where that ends well.
LEMMA VisitHolds == SessionInv /\ VisitPage => SessionInv'
<1> SUFFICES ASSUME SessionInv, VisitPage PROVE SessionInv'
  OBVIOUS
<1> DEFINE n == visits + 1
           new == [conn[n] EXCEPT !["main"] = Connecting]
           cs == [conn EXCEPT ![n] = new]
<1>1. n \in Session /\ visits \in Nat /\ visits' = n /\ sc \in 0..visits /\ sc # n
  BY SessionAssumption DEF VisitPage, SessionInv, SessionTypes, Session, Visit
<1> HIDE DEF n
<1>2. conn[n] = Unopened /\ fields[n] = {} /\ conn \in Connections
  <2>1. Gone(n, conn[n], fields[n])
    BY <1>1 DEF SessionInv, Held
  <2> QED BY <1>1, <2>1 DEF Gone, SessionInv, SessionTypes, n
<1>3. Connecting \in Connection /\ Absent \in Connection /\ Quiet(Absent) /\ Connecting.state # "closing"
  BY DEF Connecting, Connection, Absent, Quiet
<1>4. /\ new \in [Channel -> Connection] /\ new["main"] = Connecting
      /\ \A c \in Kinds : Quiet(new[c])
  BY <1>2, <1>3, ChannelsOf DEF Unopened, Connections
<1> HIDE DEF new
<1>5. cs \in Connections /\ cs[n] = new /\ \A j \in Session \ {n} : cs[j] = conn[j]
  BY <1>1, <1>2, <1>4 DEF Connections
<1>6. Reached(new, fields[n]) /\ \A sf : Left(new, fields[n], sf)
  BY <1>2, <1>3, <1>4 DEF Reached, Left
<1>7. cs = [conn EXCEPT ![n]["main"] = Connecting]
  BY DEF new
<1> HIDE DEF cs
<1>8. \A j \in Session : Reached(cs[j], fields[j]) /\ Left(cs[j], fields[j], surface[j])
  BY <1>5, <1>6 DEF SessionInv, Held
<1>9. CASE sc = 0
  <2>1. conn' = cs /\ sc' = n /\ visits' = n /\ UNCHANGED <<fields, surface>>
    BY <1>7, <1>9 DEF VisitPage, n
  <2>2. SessionTypes'
    BY <1>1, <1>5, <2>1 DEF SessionInv, SessionTypes, Session, Visit
  <2>3. \A j \in Session \ {n} : Gone(j, conn[j], fields[j]) /\ ~(j < sc)
    BY <1>9 DEF SessionInv, Held, Session, Visit
  <2>4. \A j \in Session \ {n} : conn[j] = Unopened /\ fields[j] = {}
    BY <2>3 DEF Gone
  <2>5. Held(conn)'
    BY <1>5, <1>8, <2>1, <2>4 DEF Held, Gone, Reached, Left
  <2> QED BY <2>2, <2>5 DEF SessionInv
<1>10. ASSUME sc # 0 PROVE sc \in Session /\ cs[sc] = conn[sc]
  BY <1>1, <1>5, <1>10, SessionAssumption DEF SessionInv, SessionTypes, Session, Visit
<1>11. CASE sc # 0 /\ CutShort(sc, n)
  <2>1. StopSession(conn, sc, n) /\ sc' = sc
    BY <1>11 DEF VisitPage, n
  <2>2. Reached(conn[sc], fields[sc]) /\ Left(conn[sc], fields[sc], surface[sc]) /\ SessionTypes
    BY <1>10, <1>11 DEF SessionInv, Held
  <2>3. /\ conn' \in Connections
        /\ fields' \in [Session -> SUBSET Kinds]
        /\ surface' \in [Session -> {"none", "primary", "unshown", "detached", "lost"}]
        /\ \A j \in Session \ {sc} : conn'[j] = conn[j] /\ fields'[j] = fields[j] /\ surface'[j] = surface[j]
        /\ Reached(conn'[sc], fields'[sc]) /\ Left(conn'[sc], fields'[sc], surface'[sc])
    BY <1>2, <1>10, <1>11, <2>1, <2>2, Stops
  <2>4. SessionTypes'
    <3>1. visits' \in 0..MaxVisits /\ sc' \in 0..visits'
      BY <1>1, <2>1 DEF Session, Visit, n
    <3> QED BY <1>11, <2>1, <2>3, <3>1 DEF SessionTypes
  <2>5. Held(conn)'
    BY <2>1, <2>3 DEF SessionInv, Held, Gone, Reached, Left
  <2> QED BY <2>4, <2>5 DEF SessionInv
<1>12. CASE sc # 0 /\ ~CutShort(sc, n)
  <2>1. StopSession(cs, sc, n) /\ sc' = n
    BY <1>7, <1>12 DEF VisitPage, n
  <2>2. Reached(cs[sc], fields[sc]) /\ Left(cs[sc], fields[sc], surface[sc]) /\ SessionTypes
    BY <1>8, <1>10, <1>12 DEF SessionInv
  <2>3. /\ conn' \in Connections
        /\ fields' \in [Session -> SUBSET Kinds]
        /\ surface' \in [Session -> {"none", "primary", "unshown", "detached", "lost"}]
        /\ \A j \in Session \ {sc} : conn'[j] = cs[j] /\ fields'[j] = fields[j] /\ surface'[j] = surface[j]
        /\ conn'[sc]["main"].state = "closing"
        /\ Reached(conn'[sc], fields'[sc]) /\ Left(conn'[sc], fields'[sc], surface'[sc])
        /\ fields'[sc] = {} /\ \A c \in Channel : Quiet(conn'[sc][c])
    BY <1>5, <1>10, <1>12, <2>1, <2>2, Stops
  <2>4. SessionTypes'
    BY <1>1, <2>1, <2>3 DEF SessionTypes, Session, Visit
  <2>5. \A j \in Session : Reached(conn'[j], fields'[j]) /\ Left(conn'[j], fields'[j], surface'[j])
    BY <1>8, <2>3
  <2>6. sc < n
    BY <1>1 DEF n
  <2>7. \A j \in Session \ {n} : Gone(j, conn[j], fields[j])'
    <3> SUFFICES ASSUME NEW j \in Session \ {n}
                 PROVE  /\ fields'[j] = {}
                        /\ \/ conn'[j] = Unopened
                           \/ j < n /\ conn'[j]["main"].state = "closing" /\ \A c \in Channel : Quiet(conn'[j][c])
      BY <2>1 DEF Gone
    <3>1. CASE j = sc
      BY <2>3, <2>6, <3>1
    <3>2. CASE j # sc
      <4>1. conn'[j] = conn[j] /\ fields'[j] = fields[j] /\ Gone(j, conn[j], fields[j])
        BY <1>5, <2>3, <3>2 DEF SessionInv, Held
      <4>2. j \in Nat /\ sc \in Nat /\ n \in Nat
        BY <1>1 DEF Session, Visit, n
      <4> QED BY <2>6, <4>1, <4>2 DEF Gone
    <3> QED BY <3>1, <3>2
  <2>8. Held(conn)'
    BY <2>1, <2>5, <2>7 DEF Held, Reached, Left
  <2> QED BY <2>4, <2>8 DEF SessionInv
<1> QED BY <1>9, <1>11, <1>12

LEMMA SessionNext == SessionInv /\ [ConsoleNext]_consoleVars => SessionInv'
<1> SUFFICES ASSUME SessionInv, [ConsoleNext]_consoleVars PROVE SessionInv'
  OBVIOUS
<1>1. CASE VisitPage
  BY <1>1, VisitHolds
<1>2. CASE LeavePage \/ GoBack \/ UNCHANGED consoleVars
  <2>1. UNCHANGED <<sc, visits, conn, fields, surface>>
    BY <1>2 DEF LeavePage, GoBack, consoleVars, page
  <2> QED BY <2>1 DEF SessionInv, SessionTypes, Held, Gone, Reached, Left
<1>3. ASSUME NEW k \in Session, MessageArrives(k) PROVE SessionInv'
  BY <1>3, MessageHolds
<1>4. ASSUME NEW k \in Session, NEW c \in Channel, ConnectionEvent(k, c) PROVE SessionInv'
  BY <1>4, EventHolds
<1> QED BY <1>1, <1>2, <1>3, <1>4 DEF ConsoleNext, Channel

LEMMA SessionBegins == ConsoleInit => SessionInv
<1> SUFFICES ASSUME ConsoleInit PROVE SessionInv
  OBVIOUS
<1>1. Absent \in Connection /\ Quiet(Absent) /\ Absent.state # "closing" /\ Absent.ws # "connecting"
  BY DEF Absent, Connection, Quiet
<1>2. SessionTypes /\ \A k \in Session : conn[k] = Unopened /\ fields[k] = {}
  BY <1>1, SessionAssumption DEF ConsoleInit, SessionTypes, Connections, Unopened, Channel
<1>3. \A c \in Channel : Unopened[c] = Absent
  BY DEF Unopened
<1>4. Held(conn)
  BY <1>1, <1>2, <1>3, ChannelsOf DEF Held, Gone, Reached, Left
<1> QED BY <1>2, <1>4 DEF SessionInv

\* However visits, errors, timers and late failures of sockets fall, the page
\* holds one session and the others hold nothing, but for a stop cut short.
THEOREM OneAtATime == SessionSpec => []OneSession
<1>1. ConsoleInit => SessionInv
  BY SessionBegins
<1>2. SessionInv /\ [ConsoleNext]_consoleVars => SessionInv'
  BY SessionNext
<1>3. SessionInv => OneSession
  BY HoldsOne
<1> QED BY <1>1, <1>2, <1>3, PTL DEF SessionSpec

\* A session that ends without a visit ends by an event of its own, or by the
\* late failure of the socket of an older one.
LEMMA EndsByOwn ==
  SessionInv /\ [ConsoleNext]_consoleVars =>
    [\A k \in Session : Ended(k) =>
       \/ visits' # visits
       \/ \A j \in Session \ {k} : conn[j] = conn'[j]
       \/ \E j \in 1..(k - 1) : conn[j]["main"].ws = "failing"]_consoleVars
<1> SUFFICES ASSUME SessionInv, ConsoleNext, NEW k \in Session, Ended(k), visits' = visits
             PROVE  \/ \A j \in Session \ {k} : conn[j] = conn'[j]
                    \/ \E j \in 1..(k - 1) : conn[j]["main"].ws = "failing"
  OBVIOUS
<1>1. ~VisitPage
  BY DEF VisitPage, SessionInv, SessionTypes
<1>2. ~(LeavePage \/ GoBack)
  BY DEF LeavePage, GoBack, Ended
<1>3. ASSUME NEW j \in Session, MessageArrives(j) PROVE FALSE
  BY <1>3, MessageHolds DEF Ended
<1>4. PICK j \in Session, c \in Channel : ConnectionEvent(j, c)
  BY <1>1, <1>2, <1>3 DEF ConsoleNext, Channel
<1>5. PICK x : Changes(j, c, x) /\ Reports(j, c, x)
  BY <1>4, EventChanges
<1>6. UNCHANGED page
  BY <1>4, EventChanges
<1> DEFINE cs == With(j, c, x)
<1>7. /\ cs \in Connections /\ Held(cs) /\ sc \in Session
      /\ \A i \in Session \ {j} : cs[i] = conn[i]
      /\ \A i \in Session : cs[i]["main"].state = "closing" <=> conn[i]["main"].state = "closing"
  BY <1>5, ChangesHold
<1> HIDE DEF cs
<1>8. CASE conn' = cs
  BY <1>7, <1>8 DEF Ended
<1>9. CASE StopCurrent(cs) /\ c = "main" /\ (conn[j][c].ws = "failing" \/ ~Quiet(conn[j][c]) \/ conn[j][c].state # "closing")
  <2>1. \A i \in Session \ {sc} : conn'[i] = cs[i]
    BY <1>6, <1>7, <1>9, StopHolds DEF SessionInv
  <2>2. k = sc
    BY <1>7, <2>1 DEF Ended
  <2>3. CASE j = sc
    BY <1>7, <2>1, <2>2, <2>3
  <2>4. CASE j # sc
    <3>1. Gone(j, conn[j], fields[j])
      BY <2>4 DEF SessionInv, Held
    <3>2. conn[j] # Unopened
      BY <1>5, <1>9, ChannelsOf DEF Changes, Unopened
    <3>3. j < sc /\ conn[j]["main"].ws = "failing"
      BY <1>9, <3>1, <3>2, ChannelsOf DEF Gone
    <3>4. j \in 1..(k - 1)
      BY <2>2, <3>3 DEF Session, Visit
    <3> QED BY <3>3, <3>4
  <2> QED BY <2>3, <2>4
<1> QED BY <1>5, <1>8, <1>9 DEF Reports, cs

\* No session ends by another's doing, but by the late failure of the socket of
\* an older one.
THEOREM EndsByItsOwn == SessionSpec => OwnEnd
<1>1. ConsoleInit => SessionInv
  BY SessionBegins
<1>2. SessionInv /\ [ConsoleNext]_consoleVars => SessionInv'
  BY SessionNext
<1> QED BY <1>1, <1>2, EndsByOwn, PTL DEF SessionSpec, OwnEnd

-----------------------------------------------------------------------------
(* What is shown.                                                              *)

Pictures == [pic : Images \cup {None} \cup 0..MaxSent, alpha : BOOLEAN]
Surfaces == [format : Formats, shown : [Boxes -> Pictures]]
AllForms == {f \in [odd : BOOLEAN, over : SUBSET Boxes] : f.odd \/ f.over = {}}
Playing  == [surface : Ids, box : Boxes, form : AllForms]
Loads    == [surface : Ids, box : Boxes, form : AllForms, image : Images \cup {None}, at : Nat,
             picture : Pictures]

DisplayTypes ==
  /\ surfaces \in [Ids -> {None} \cup Surfaces]
  /\ cache \in [Images -> {None} \cup Pictures]
  /\ loading \subseteq Loads
  /\ streams \in [Streams -> {None} \cup Playing]
  /\ stopped \in BOOLEAN /\ sent \in 0..MaxSent
  /\ want \in [Ids -> [Boxes -> [shows : Pictures, at : Nat]]]
  /\ told \subseteq Images /\ changed \subseteq Images

\* No message has been handled but those sent so far: what is drawn next is
\* later than all that is wanted or still loading.
InThePast ==
  /\ \A s \in Ids, b \in Boxes : want[s][b].at <= sent
  /\ \A j \in loading : j.at <= sent

\* A JPEG that a box waits for is what the box should show, if its draw is plain.
LoadsWanted ==
  \A j \in loading :
    want[j.surface][j.box].at = j.at => j.form.odd \/ j.picture = want[j.surface][j.box].shows

\* What will be cached of one is as it was sent, or is known not to be.
LoadsWhole ==
  \A j \in loading :
    j.image # None => Kept(j.picture, j.form) = Original(j.image) \/ j.image \in changed

\* What the server told to be cached is there, or will be; and what is there is
\* as it was sent, or was on an opaque surface, told of or not.
CacheKept  == ~stopped => \A i \in told : cache[i] # None \/ \E j \in loading : j.image = i
CacheWhole == \A i \in Images : cache[i] \in {None, Original(i)} \/ i \in changed

DisplayInv ==
  /\ DisplayTypes /\ InThePast /\ LoadsWanted /\ LoadsWhole
  /\ stopped => Existing = {}
  /\ ShowsWanted /\ CacheKept /\ CacheWhole

LEMMA ShowsAgreed == DisplayInv => DisplayAgrees
BY DEF DisplayInv, DisplayTypes, DisplayAgrees, CacheAgrees, CacheKept, CacheWhole

LEMMA StrippedIs ==
  ASSUME NEW s, NEW p \in Pictures
  PROVE  Stripped(s, p) \in Pictures /\ (~Opaque(s) => Stripped(s, p) = p)
<1>1. Stripped(s, p) \in Pictures
  BY DEF Stripped, Opaque, Pictures
<1>2. ASSUME ~Opaque(s) PROVE Stripped(s, p) = p
  <2>1. (p.alpha /\ ~Opaque(s)) = p.alpha
    <3>1. p.alpha \in BOOLEAN
      BY DEF Pictures
    <3> QED BY <1>2, <3>1, Zenon
  <2> QED BY <2>1 DEF Stripped, Pictures
<1> QED BY <1>1, <1>2

LEMMA PicturesAre ==
  ASSUME sent < MaxSent, sent \in 0..MaxSent
  PROVE  /\ Blank \in Pictures
         /\ \A a \in BOOLEAN : Picture(sent + 1, a) \in Pictures
         /\ \A i \in Images : Original(i) \in Pictures
         /\ \A i \in Images \cup {None}, a \in BOOLEAN : Sent(i, a) \in Pictures
         /\ \A i \in Images, a \in BOOLEAN : Sent(i, a) = Original(i)
<1>1. Blank \in Pictures
  BY DEF Blank, Picture, Pictures
<1>2. sent + 1 \in 1..MaxSent
  BY DisplayAssumption
<1>3. \A a \in BOOLEAN : Picture(sent + 1, a) \in Pictures
  BY <1>2 DEF Picture, Pictures
<1>4. \A i \in Images : Original(i) \in Pictures
  BY DEF Original, Picture, Pictures
<1>5. \A i \in Images, a \in BOOLEAN : Sent(i, a) = Original(i)
  BY DisplayAssumption DEF Sent
<1>6. \A a \in BOOLEAN : Sent(None, a) = Picture(sent + 1, a)
  BY DEF Sent
<1>7. \A i \in Images \cup {None}, a \in BOOLEAN : Sent(i, a) \in Pictures
  BY <1>3, <1>4, <1>5, <1>6
<1> QED BY <1>1, <1>3, <1>4, <1>5, <1>7

\* The forms of draws, and what they leave.
LEMMA FormsAre ==
  /\ \A b \in Boxes : Forms(b) \subseteq AllForms
  /\ \A o \in BOOLEAN : [odd |-> o, over |-> {}] \in AllForms
  /\ AsMeant \in AllForms
<1>1. \A o \in BOOLEAN : [odd |-> o, over |-> {}] \in AllForms
  BY DEF AllForms
<1>2. AsMeant \in AllForms
  BY <1>1 DEF AsMeant
<1>3. ASSUME NEW b \in Boxes, NEW f \in [odd : {TRUE}, over : SUBSET (Boxes \ {b})] PROVE f \in AllForms
  BY <1>3 DEF AllForms
<1> QED BY <1>1, <1>2, <1>3 DEF Forms

LEMMA LeftByIs ==
  ASSUME NEW p \in Pictures, NEW f \in AllForms
  PROVE  /\ LeftBy(p, f) \in Pictures /\ (~f.odd => LeftBy(p, f) = p)
         /\ Kept(p, f) \in Pictures /\ Kept(p, f) # None /\ (~f.odd \/ p.alpha => Kept(p, f) = p)
         /\ Picture(0, p.alpha) \in Pictures
<1>1. p.alpha \in BOOLEAN /\ 0 \in 0..MaxSent
  BY DisplayAssumption DEF Pictures
<1>2. Picture(0, p.alpha) \in Pictures
  BY <1>1 DEF Picture, Pictures
<1>3. LeftBy(p, f) \in Pictures /\ (~f.odd => LeftBy(p, f) = p)
  BY <1>2 DEF LeftBy
<1>4. Kept(p, f) \in Pictures /\ (~f.odd \/ p.alpha => Kept(p, f) = p)
  BY <1>3 DEF Kept
<1>5. Kept(p, f) # None
  BY <1>4, DisplayAssumption DEF Pictures
<1> QED BY <1>2, <1>3, <1>4, <1>5

LEMMA BlendedIs ==
  ASSUME NEW q \in Pictures, NEW p \in Pictures
  PROVE  Blended(q, p) \in Pictures /\ (~Veiled(q, p) => Blended(q, p) = p)
<1>1. q.alpha \in BOOLEAN /\ 0 \in 0..MaxSent
  BY DisplayAssumption DEF Pictures
<1>2. Picture(0, q.alpha) \in Pictures
  BY <1>1 DEF Picture, Pictures
<1> QED BY <1>2 DEF Blended

LEMMA PaintedIs ==
  ASSUME DisplayTypes, NEW s \in Existing, NEW b \in Boxes, NEW p \in Pictures, NEW f \in AllForms,
         NEW blends \in BOOLEAN
  PROVE  /\ Painted(s, b, p, f, blends) \in [Ids -> {None} \cup Surfaces]
         /\ \A r \in Ids \ {s} : Painted(s, b, p, f, blends)[r] = surfaces[r]
         /\ \A c \in Boxes : c \notin {b} \cup f.over => Painted(s, b, p, f, blends)[s].shown[c] = surfaces[s].shown[c]
         /\ ~f.odd /\ ~(blends /\ Veiled(surfaces[s].shown[b], p)) => Painted(s, b, p, f, blends)[s].shown[b] = p
<1>1. s \in Ids /\ surfaces[s] \in Surfaces /\ surfaces \in [Ids -> {None} \cup Surfaces]
  BY DEF DisplayTypes, Existing
<1>2. LeftBy(p, f) \in Pictures /\ (~f.odd => LeftBy(p, f) = p)
  BY LeftByIs
<1>3. surfaces[s].shown \in [Boxes -> Pictures]
  BY <1>1 DEF Surfaces
<1> DEFINE old   == surfaces[s].shown
           shown == [c \in Boxes |-> IF c \notin {b} \cup f.over THEN old[c]
                                     ELSE IF blends THEN Blended(old[c], LeftBy(p, f)) ELSE LeftBy(p, f)]
           new   == [surfaces[s] EXCEPT !.shown = shown]
<1>4. \A c \in Boxes : Blended(old[c], LeftBy(p, f)) \in Pictures
  BY <1>2, <1>3, BlendedIs
<1>5. shown \in [Boxes -> Pictures]
  BY <1>2, <1>3, <1>4
<1>6. \A c \in Boxes : c \notin {b} \cup f.over => shown[c] = old[c]
  OBVIOUS
<1>7. ~f.odd /\ ~(blends /\ Veiled(old[b], p)) => shown[b] = p
  BY <1>2, <1>3, BlendedIs
<1>8. Painted(s, b, p, f, blends) = [surfaces EXCEPT ![s] = new]
  BY DEF Painted
<1> HIDE DEF shown
<1>9. new \in Surfaces /\ new.shown = shown
  BY <1>1, <1>5 DEF Surfaces
<1> HIDE DEF new
<1>10. /\ [surfaces EXCEPT ![s] = new] \in [Ids -> {None} \cup Surfaces]
       /\ [surfaces EXCEPT ![s] = new][s] = new
       /\ \A r \in Ids \ {s} : [surfaces EXCEPT ![s] = new][r] = surfaces[r]
  BY <1>1, <1>9
<1> QED BY <1>6, <1>7, <1>8, <1>9, <1>10

\* A message that draws to box b of surface s, by which the server means it to
\* show what p and f make: nothing else changes but what is known to be wrong,
\* and the box shows p, or will, or is known not to.
Draws(s, b, p, f) ==
  /\ Message /\ Wants(s, b, p, f) /\ s \in Ids /\ b \in Boxes /\ p \in Pictures /\ f \in AllForms
  /\ \/ surfaces' = surfaces
     \/ /\ s \in Existing /\ {s} \X f.over \subseteq spoiled'
        /\ \E q \in Pictures, blends \in BOOLEAN : surfaces' = Painted(s, b, q, f, blends)
  /\ loading' = loading \/ \E i \in Images \cup {None} : Load(s, b, p, i, f)
  /\ \A x \in spoiled : x = <<s, b>> \/ x \in spoiled'
  /\ \/ s \in Existing => ~f.odd /\ surfaces'[s].shown[b] = p
     \/ <<s, b>> \in spoiled'
     \/ \E i \in Images \cup {None} : Load(s, b, p, i, f)

LEMMA DrawsShow ==
  ASSUME DisplayInv, NEW s, NEW b, NEW p, NEW f, Draws(s, b, p, f)
  PROVE  /\ surfaces' \in [Ids -> {None} \cup Surfaces]
         /\ loading' \subseteq Loads
         /\ want' \in [Ids -> [Boxes -> [shows : Pictures, at : Nat]]]
         /\ sent' \in 0..MaxSent
         /\ InThePast' /\ LoadsWanted' /\ (stopped' => Existing' = {}) /\ ShowsWanted'
<1>0. s \in Ids /\ b \in Boxes /\ p \in Pictures /\ f \in AllForms /\ DisplayTypes
  BY DEF Draws, DisplayInv
<1>1. sent < MaxSent /\ sent' = sent + 1 /\ ~stopped /\ stopped' = stopped /\ sent \in Nat /\ sent' \in 0..MaxSent
  BY <1>0, DisplayAssumption DEF Draws, Message, DisplayTypes
<1> DEFINE shows == IF f.odd THEN Picture(sent + 1, p.alpha) ELSE p
           now   == [shows |-> shows, at |-> sent + 1]
<1>2. shows \in Pictures /\ (~f.odd => shows = p)
  <2>1. p.alpha \in BOOLEAN /\ sent + 1 \in 0..MaxSent
    BY <1>0, <1>1, DisplayAssumption DEF Pictures
  <2>2. Picture(sent + 1, p.alpha) \in Pictures
    BY <2>1 DEF Picture, Pictures
  <2> QED BY <1>0, <2>2
<1> HIDE DEF shows
<1>3. now \in [shows : Pictures, at : Nat] /\ now.at = sent + 1 /\ now.shows = shows
  BY <1>1, <1>2
<1>4. want' = [want EXCEPT ![s][b] = now]
  BY DEF Draws, Wants, shows
<1> HIDE DEF now
<1>5. /\ want' \in [Ids -> [Boxes -> [shows : Pictures, at : Nat]]]
      /\ want'[s][b] = now
      /\ \A r \in Ids, c \in Boxes : <<r, c>> # <<s, b>> => want'[r][c] = want[r][c]
  BY <1>0, <1>3, <1>4 DEF DisplayTypes
<1>6. /\ surfaces' \in [Ids -> {None} \cup Surfaces]
      /\ \A r \in Ids, c \in Boxes : r \in Existing' =>
           /\ r \in Existing
           /\ <<r, c>> # <<s, b>> => surfaces'[r].shown[c] = surfaces[r].shown[c] \/ <<r, c>> \in spoiled'
  <2>1. CASE surfaces' = surfaces
    BY <1>0, <2>1 DEF DisplayTypes, Existing
  <2>2. CASE /\ s \in Existing /\ {s} \X f.over \subseteq spoiled'
             /\ \E q \in Pictures, blends \in BOOLEAN : surfaces' = Painted(s, b, q, f, blends)
    <3>1. PICK q \in Pictures, blends \in BOOLEAN : surfaces' = Painted(s, b, q, f, blends)
      BY <2>2
    <3>2. /\ surfaces' \in [Ids -> {None} \cup Surfaces]
          /\ \A r \in Ids \ {s} : surfaces'[r] = surfaces[r]
          /\ \A c \in Boxes : c \notin {b} \cup f.over => surfaces'[s].shown[c] = surfaces[s].shown[c]
      BY <1>0, <2>2, <3>1, PaintedIs
    <3>3. \A c \in f.over : <<s, c>> \in spoiled'
      BY <2>2
    <3> QED BY <2>2, <3>2, <3>3 DEF Existing
  <2> QED BY <2>1, <2>2 DEF Draws
<1>7. \A x \in spoiled : x = <<s, b>> \/ x \in spoiled'
  BY DEF Draws
<1> DEFINE new(i) == [surface |-> s, box |-> b, form |-> f, image |-> i, at |-> sent + 1, picture |-> p]
<1>8. \A i \in Images \cup {None} : Load(s, b, p, i, f) => loading' = loading \cup {new(i)}
  BY DEF Load
<1>9. \A i \in Images \cup {None} : /\ new(i) \in Loads /\ new(i).at = sent + 1 /\ new(i).surface = s
                                    /\ new(i).box = b /\ new(i).picture = p /\ new(i).form = f
  BY <1>0, <1>1 DEF Loads
<1> HIDE DEF new
<1>10. /\ loading' \subseteq Loads /\ loading \subseteq loading'
       /\ \A j \in loading' : \/ j \in loading
                              \/ j.at = sent + 1 /\ j.surface = s /\ j.box = b /\ j.picture = p /\ j.form = f
  BY <1>0, <1>8, <1>9 DEF Draws, DisplayTypes
<1>11. InThePast'
  <2>1. InThePast
    BY DEF DisplayInv
  <2>2. \A r \in Ids, c \in Boxes : want'[r][c].at <= sent'
    <3> SUFFICES ASSUME NEW r \in Ids, NEW c \in Boxes PROVE want'[r][c].at <= sent'
      OBVIOUS
    <3>1. want[r][c].at \in Nat
      BY <1>0 DEF DisplayTypes
    <3> QED BY <1>1, <1>3, <1>5, <2>1, <3>1 DEF InThePast
  <2>3. \A j \in loading' : j.at <= sent'
    <3> SUFFICES ASSUME NEW j \in loading' PROVE j.at <= sent'
      OBVIOUS
    <3>1. j.at \in Nat
      BY <1>10 DEF Loads
    <3> QED BY <1>1, <1>10, <2>1, <3>1 DEF InThePast
  <2> QED BY <2>2, <2>3 DEF InThePast
<1>12. LoadsWanted'
  <2> SUFFICES ASSUME NEW j \in loading', want'[j.surface][j.box].at = j.at
               PROVE  j.form.odd \/ j.picture = want'[j.surface][j.box].shows
    BY DEF LoadsWanted
  <2>1. CASE j \in loading
    <3>1. j.at <= sent /\ j.at \in Nat /\ j.surface \in Ids /\ j.box \in Boxes
      BY <1>0, <2>1 DEF DisplayInv, InThePast, DisplayTypes, Loads
    <3>2. <<j.surface, j.box>> # <<s, b>>
      BY <1>1, <1>3, <1>5, <3>1
    <3> QED BY <1>5, <2>1, <3>1, <3>2 DEF DisplayInv, LoadsWanted
  <2>2. CASE j \notin loading
    BY <1>2, <1>3, <1>5, <1>10, <2>2
  <2> QED BY <2>1, <2>2
<1>13. ShowsWanted'
  <2> SUFFICES ASSUME NEW r \in Ids, NEW c \in Boxes, r \in Existing'
               PROVE  \/ surfaces'[r].shown[c] = want'[r][c].shows
                      \/ <<r, c>> \in spoiled'
                      \/ \E j \in loading' : j.surface = r /\ j.box = c /\ j.at = want'[r][c].at
    BY DEF ShowsWanted, Existing
  <2>1. CASE <<r, c>> = <<s, b>>
    <3>1. r = s /\ c = b /\ s \in Existing
      BY <1>6, <2>1
    <3>2. ASSUME NEW i \in Images \cup {None}, Load(s, b, p, i, f)
          PROVE  \E j \in loading' : j.surface = s /\ j.box = b /\ j.at = want'[s][b].at
      <4>1. new(i) \in loading'
        BY <1>8, <3>2
      <4>2. new(i).surface = s /\ new(i).box = b /\ new(i).at = want'[s][b].at
        BY <1>3, <1>5, <1>9
      <4> QED BY <4>1, <4>2
    <3> QED BY <1>2, <1>3, <1>5, <3>1, <3>2 DEF Draws
  <2>2. CASE <<r, c>> # <<s, b>>
    <3>1. r \in Existing /\ (surfaces'[r].shown[c] = surfaces[r].shown[c] \/ <<r, c>> \in spoiled')
          /\ want'[r][c] = want[r][c]
      BY <1>5, <1>6, <2>2
    <3>2. \/ surfaces[r].shown[c] = want[r][c].shows
          \/ <<r, c>> \in spoiled
          \/ \E j \in loading : j.surface = r /\ j.box = c /\ j.at = want[r][c].at
      BY <3>1 DEF DisplayInv, ShowsWanted
    <3> QED BY <1>7, <1>10, <2>2, <3>1, <3>2
  <2> QED BY <2>1, <2>2
<1>14. stopped' => Existing' = {}
  BY <1>1
<1> QED BY <1>1, <1>5, <1>6, <1>10, <1>11, <1>12, <1>13, <1>14

\* Where the cache and what is told of it stay, only what is still loading and
\* what was on an opaque surface can become more.
LEMMA CacheStays ==
  ASSUME DisplayInv, UNCHANGED <<cache, told, stopped>>, changed \subseteq changed', loading \subseteq loading'
  PROVE  CacheKept' /\ CacheWhole'
BY DEF DisplayInv, CacheKept, CacheWhole, Original, Picture

LEMMA WholeStays ==
  ASSUME DisplayInv, changed \subseteq changed',
         \A j \in loading' : j \in loading \/ j.image = None
  PROVE  LoadsWhole'
BY DEF DisplayInv, LoadsWhole, Original, Picture, Kept, LeftBy

\* How a draw marks its boxes.
LEMMA MarkedIs ==
  ASSUME NEW s, NEW b, NEW f, NEW wrong
  PROVE  /\ wrong \/ f.odd => <<s, b>> \in Marked(s, b, f, wrong)
         /\ \A x \in spoiled : x = <<s, b>> \/ x \in Marked(s, b, f, wrong)
         /\ {s} \X f.over \subseteq Marked(s, b, f, wrong)
BY DEF Marked

\* A picture drawn at once on box b of s, which marks what it leaves wrong.
LEMMA DrawnNow ==
  ASSUME DisplayInv, Message, NEW s \in Existing, NEW b \in Boxes, NEW p \in Pictures, NEW q \in Pictures,
         NEW f \in AllForms, NEW blends \in BOOLEAN, NEW wrong,
         Wants(s, b, p, f), surfaces' = Painted(s, b, q, f, blends), UNCHANGED loading,
         wrong \/ (q = p /\ ~(blends /\ Veiled(surfaces[s].shown[b], q))),
         spoiled' = Marked(s, b, f, wrong)
  PROVE  Draws(s, b, p, f)
<1>1. DisplayTypes /\ s \in Ids
  BY DEF DisplayInv, Existing
<1>2. /\ wrong \/ f.odd => <<s, b>> \in spoiled'
      /\ \A x \in spoiled : x = <<s, b>> \/ x \in spoiled'
      /\ {s} \X f.over \subseteq spoiled'
  BY MarkedIs
<1>3. ~f.odd /\ ~(blends /\ Veiled(surfaces[s].shown[b], q)) => surfaces'[s].shown[b] = q
  BY <1>1, PaintedIs
<1>4. <<s, b>> \in spoiled' \/ (~f.odd /\ surfaces'[s].shown[b] = p)
  BY <1>2, <1>3
<1> QED BY <1>1, <1>2, <1>4 DEF Draws

LEMMA DecodedHolds ==
  ASSUME DisplayInv, Message, NEW s \in Existing, NEW b \in Boxes, NEW i \in Images \cup {None},
         NEW p \in Pictures, NEW f \in AllForms, i \in Images => p = Original(i), Decoded(s, b, p, i, f)
  PROVE  DisplayInv'
<1>1. DisplayTypes /\ s \in Ids
  BY DEF DisplayInv, Existing
<1>2. Stripped(s, p) \in Pictures
  BY StrippedIs
<1>3. Draws(s, b, Stripped(s, p), f)
  <2>1. surfaces' = Painted(s, b, Stripped(s, p), f, TRUE) /\ UNCHANGED loading /\ Wants(s, b, Stripped(s, p), f)
    BY DEF Decoded, Helper
  <2>2. spoiled' = Marked(s, b, f, Veiled(surfaces[s].shown[b], Stripped(s, p)))
    BY DEF Decoded
  <2> QED BY <1>2, <2>1, <2>2, DrawnNow
<1>4. /\ surfaces' \in [Ids -> {None} \cup Surfaces]
      /\ loading' \subseteq Loads
      /\ want' \in [Ids -> [Boxes -> [shows : Pictures, at : Nat]]]
      /\ sent' \in 0..MaxSent
      /\ InThePast' /\ LoadsWanted' /\ (stopped' => Existing' = {}) /\ ShowsWanted'
  BY <1>3, DrawsShow
<1>5. UNCHANGED <<loading, streams, stopped>> /\ changed \subseteq changed' /\ changed' \subseteq Images
  BY <1>1 DEF Decoded, Message, DisplayTypes
<1>6. LoadsWhole'
  BY <1>5, WholeStays
<1>7. CASE i = None
  <2>1. UNCHANGED <<cache, told>>
    BY <1>7, DisplayAssumption DEF Decoded, Helper
  <2>2. CacheKept' /\ CacheWhole'
    BY <1>5, <2>1, CacheStays
  <2> QED BY <1>1, <1>4, <1>5, <1>6, <2>1, <2>2 DEF DisplayInv, DisplayTypes
<1>8. CASE i \in Images
  <2> DEFINE q == Stripped(s, p)
  <2>1. cache' = [cache EXCEPT ![i] = q] /\ told' = told \cup {i} /\ (Opaque(s) => i \in changed')
    BY <1>8, DisplayAssumption DEF Decoded, Helper
  <2>2. q \in Pictures /\ q # None /\ (~Opaque(s) => q = Original(i))
    BY <1>8, StrippedIs, DisplayAssumption DEF Pictures
  <2> HIDE DEF q
  <2>3. cache' \in [Images -> {None} \cup Pictures] /\ cache'[i] = q /\ \A k \in Images \ {i} : cache'[k] = cache[k]
    BY <1>1, <1>8, <2>1, <2>2 DEF DisplayTypes
  <2>4. CacheKept'
    <3> SUFFICES ASSUME ~stopped, NEW k \in told'
                 PROVE  cache'[k] # None \/ \E j \in loading' : j.image = k
      BY <1>5 DEF CacheKept
    <3>1. CASE k = i
      BY <2>2, <2>3, <3>1
    <3>2. CASE k # i
      <4>1. k \in told /\ cache'[k] = cache[k]
        BY <1>1, <2>1, <2>3, <3>2 DEF DisplayTypes
      <4> QED BY <1>5, <4>1 DEF DisplayInv, CacheKept
    <3> QED BY <3>1, <3>2
  <2>5. CacheWhole'
    <3> SUFFICES ASSUME NEW k \in Images PROVE cache'[k] \in {None, Original(k)} \/ k \in changed'
      BY DEF CacheWhole, Original, Picture
    <3>1. CASE k = i
      BY <2>1, <2>2, <2>3, <3>1
    <3>2. CASE k # i
      BY <1>5, <2>3, <3>2 DEF DisplayInv, CacheWhole
    <3> QED BY <3>1, <3>2
  <2> QED BY <1>1, <1>4, <1>5, <1>6, <1>8, <2>1, <2>3, <2>4, <2>5 DEF DisplayInv, DisplayTypes
<1> QED BY <1>7, <1>8

LEMMA DrawingHolds == DisplayInv /\ (DrawDecoded \/ DrawFill) => DisplayInv'
<1> SUFFICES ASSUME DisplayInv, DrawDecoded \/ DrawFill PROVE DisplayInv'
  OBVIOUS
<1>1. Message /\ \E s \in Existing, b \in Boxes, i \in Images \cup {None}, p \in Pictures, f \in AllForms :
                   (i \in Images => p = Original(i)) /\ Decoded(s, b, p, i, f)
  <2>1. Message /\ sent < MaxSent /\ sent \in 0..MaxSent
    BY DEF DrawDecoded, DrawFill, Message, DisplayInv, DisplayTypes
  <2>2. CASE DrawDecoded
    <3>1. PICK s \in Existing, b \in Boxes, i \in Images \cup {None}, a \in BOOLEAN :
            \E f \in Forms(b) : Decoded(s, b, Sent(i, a), i, f)
      BY <2>2 DEF DrawDecoded
    <3>2. PICK f \in Forms(b) : Decoded(s, b, Sent(i, a), i, f)
      BY <3>1
    <3>3. Sent(i, a) \in Pictures /\ (i \in Images => Sent(i, a) = Original(i)) /\ f \in AllForms
      BY <2>1, PicturesAre, FormsAre
    <3> QED BY <2>1, <3>2, <3>3
  <2>3. CASE DrawFill
    <3>1. PICK s \in Existing, b \in Boxes, odd \in BOOLEAN :
            Decoded(s, b, Picture(sent + 1, FALSE), None, [odd |-> odd, over |-> {}])
      BY <2>3 DEF DrawFill
    <3>2. \A a \in BOOLEAN : Picture(sent + 1, a) \in Pictures
      BY <2>1, PicturesAre
    <3>3. Picture(sent + 1, FALSE) \in Pictures
      BY <3>2, Zenon
    <3>4. [odd |-> odd, over |-> {}] \in AllForms
      BY FormsAre
    <3> QED BY <2>1, <3>1, <3>3, <3>4, DisplayAssumption
  <2> QED BY <2>2, <2>3
<1>2. PICK s \in Existing, b \in Boxes, i \in Images \cup {None}, p \in Pictures, f \in AllForms :
        (i \in Images => p = Original(i)) /\ Decoded(s, b, p, i, f)
  BY <1>1
<1> QED BY <1>1, <1>2, DecodedHolds

LEMMA UnhandledHolds == DisplayInv /\ DrawUnhandled => DisplayInv'
<1> SUFFICES ASSUME DisplayInv, DrawUnhandled PROVE DisplayInv'
  OBVIOUS
<1>1. PICK s \in Existing, b \in Boxes :
        Wants(s, b, Picture(sent + 1, FALSE), AsMeant) /\ spoiled' = spoiled \cup {<<s, b>>}
  BY DEF DrawUnhandled
<1>2. /\ Message /\ UNCHANGED <<surfaces, cache, loading, streams, told, changed, stopped>>
      /\ sent < MaxSent /\ sent \in 0..MaxSent /\ DisplayTypes /\ s \in Ids
  BY DEF DrawUnhandled, Message, DisplayInv, DisplayTypes, Existing
<1> DEFINE p == Picture(sent + 1, FALSE)
<1>3. p \in Pictures
  <2>1. \A a \in BOOLEAN : Picture(sent + 1, a) \in Pictures
    BY <1>2, PicturesAre
  <2> QED BY <2>1, Zenon
<1> HIDE DEF p
<1>4. Draws(s, b, p, AsMeant)
  BY <1>1, <1>2, <1>3, FormsAre DEF Draws, p
<1>5. CacheKept' /\ CacheWhole' /\ LoadsWhole'
  BY <1>2, CacheStays, WholeStays
<1> QED BY <1>2, <1>4, <1>5, DrawsShow DEF DisplayInv, DisplayTypes

LEMMA CachedHolds == DisplayInv /\ DrawCached => DisplayInv'
<1> SUFFICES ASSUME DisplayInv, DrawCached PROVE DisplayInv'
  OBVIOUS
<1>1. PICK s \in Existing, b \in Boxes, i \in told, f \in AllForms :
        /\ Wants(s, b, Stripped(s, Original(i)), f)
        /\ changed' = IF Opaque(s) THEN changed \cup {i} ELSE changed
        /\ IF cache[i] = None
           THEN UNCHANGED <<surfaces, cache>> /\ spoiled' = spoiled \cup {<<s, b>>}
           ELSE /\ Helper(s, b, Stripped(s, cache[i]), i, f)
                /\ spoiled' = Marked(s, b, f, \/ i \in changed \/ \E j \in loading : j.image = i
                                              \/ Veiled(surfaces[s].shown[b], Stripped(s, cache[i])))
  BY FormsAre DEF DrawCached
<1>2. /\ Message /\ UNCHANGED <<loading, streams, told, stopped>> /\ ~stopped
      /\ sent < MaxSent /\ sent \in 0..MaxSent /\ DisplayTypes /\ s \in Ids /\ i \in Images /\ i # None
  BY DisplayAssumption DEF DrawCached, Message, DisplayInv, DisplayTypes, Existing
<1> DEFINE p == Stripped(s, Original(i))
<1>3. p \in Pictures
  BY <1>2, PicturesAre, StrippedIs
<1>4. changed \subseteq changed' /\ changed' \subseteq Images /\ (Opaque(s) => i \in changed')
  BY <1>1, <1>2 DEF DisplayTypes
<1>5. LoadsWhole'
  BY <1>2, <1>4, WholeStays
<1>6. /\ cache[i] # None \/ \E j \in loading : j.image = i
      /\ cache[i] \in {None, Original(i)} \/ i \in changed
  BY <1>2 DEF DisplayInv, CacheKept, CacheWhole
<1>7. CASE cache[i] = None
  <2>1. <<s, b>> \in spoiled' /\ spoiled' = spoiled \cup {<<s, b>>}
    BY <1>1, <1>7
  <2>2. UNCHANGED <<surfaces, cache>>
    BY <1>1, <1>7
  <2>3. Draws(s, b, p, f)
    BY <1>1, <1>2, <1>3, <2>1, <2>2 DEF Draws
  <2>4. CacheKept' /\ CacheWhole'
    BY <1>2, <1>4, <2>2, CacheStays
  <2> QED BY <1>2, <1>4, <1>5, <2>2, <2>3, <2>4, DrawsShow DEF DisplayInv, DisplayTypes
<1>8. CASE cache[i] # None
  <2> DEFINE q == Stripped(s, cache[i])
  <2>1. cache[i] \in Pictures
    BY <1>2, <1>8 DEF DisplayTypes
  <2>2. q \in Pictures /\ q # None /\ (~Opaque(s) => q = cache[i])
    BY <2>1, StrippedIs, DisplayAssumption DEF Pictures
  <2>3. surfaces' = Painted(s, b, q, f, TRUE) /\ cache' = [cache EXCEPT ![i] = q]
    BY <1>1, <1>2, <1>8 DEF Helper
  <2> DEFINE wrong == \/ i \in changed \/ \E j \in loading : j.image = i
                      \/ Veiled(surfaces[s].shown[b], q)
  <2>4. spoiled' = Marked(s, b, f, wrong) /\ (wrong \/ cache[i] = Original(i))
    BY <1>1, <1>6, <1>8
  <2>5. wrong \/ (q = p /\ ~(TRUE /\ Veiled(surfaces[s].shown[b], q)))
    BY <2>4
  <2> HIDE DEF q, wrong, p
  <2>6. Wants(s, b, p, f) /\ UNCHANGED loading /\ Message
    BY <1>1, <1>2 DEF p
  <2>8. Draws(s, b, p, f)
    BY <1>3, <2>2, <2>3, <2>4, <2>5, <2>6, DrawnNow
  <2>9. cache' \in [Images -> {None} \cup Pictures] /\ cache'[i] = q /\ \A k \in Images \ {i} : cache'[k] = cache[k]
    BY <1>2, <2>2, <2>3 DEF DisplayTypes
  <2>10. CacheKept'
    <3> SUFFICES ASSUME NEW k \in told
                 PROVE  cache'[k] # None \/ \E j \in loading : j.image = k
      BY <1>2 DEF CacheKept
    <3>1. CASE k = i
      BY <2>2, <2>9, <3>1
    <3>2. CASE k # i
      <4>1. k \in Images /\ cache'[k] = cache[k]
        BY <1>2, <2>9, <3>2 DEF DisplayTypes
      <4> QED BY <1>2, <4>1 DEF DisplayInv, CacheKept
    <3> QED BY <3>1, <3>2
  <2>11. CacheWhole'
    <3> SUFFICES ASSUME NEW k \in Images PROVE cache'[k] \in {None, Original(k)} \/ k \in changed'
      BY DEF CacheWhole, Original, Picture
    <3>1. CASE k = i
      BY <1>4, <1>6, <1>8, <2>2, <2>9, <3>1
    <3>2. CASE k # i
      BY <1>4, <2>9, <3>2 DEF DisplayInv, CacheWhole
    <3> QED BY <3>1, <3>2
  <2> QED BY <1>2, <1>4, <1>5, <2>8, <2>9, <2>10, <2>11, DrawsShow DEF DisplayInv, DisplayTypes
<1> QED BY <1>7, <1>8

LEMMA CopyHolds ==
  ASSUME DisplayInv, Message, NEW from \in Existing, NEW b \in Boxes, NEW to \in Existing, NEW c \in Boxes,
         NEW f \in AllForms, NEW blends \in BOOLEAN, CopyBox(from, b, to, c, f, blends)
  PROVE  DisplayInv'
<1> DEFINE p == CopyOf(from, to, want[from][b].shows)
           q == CopyOf(from, to, surfaces[from].shown[b])
           wrong == \/ <<from, b>> \in spoiled \/ Pending(from, b)
                    \/ blends /\ Veiled(surfaces[to].shown[c], q)
<1>1. /\ UNCHANGED <<loading, streams, told, changed, stopped, cache>> /\ DisplayTypes /\ from \in Ids /\ to \in Ids
      /\ surfaces' = Painted(to, c, q, f, blends) /\ Wants(to, c, p, f) /\ spoiled' = Marked(to, c, f, wrong)
  BY DEF CopyBox, Message, DisplayInv, Existing
<1>2. want[from][b].shows \in Pictures
  BY <1>1 DEF DisplayTypes
<1>3. surfaces[from].shown[b] \in Pictures
  <2>1. surfaces[from] \in Surfaces
    BY <1>1 DEF DisplayTypes, Existing
  <2> QED BY <2>1 DEF Surfaces
<1>4. p \in Pictures /\ q \in Pictures
  BY <1>2, <1>3, StrippedIs DEF CopyOf
<1>5. q = p \/ (<<from, b>> \in spoiled \/ Pending(from, b))
  BY <1>1 DEF DisplayInv, ShowsWanted, Pending
<1>6. wrong \/ (q = p /\ ~(blends /\ Veiled(surfaces[to].shown[c], q)))
  BY <1>5
<1> HIDE DEF p, q, wrong
<1>7. Draws(to, c, p, f)
  BY <1>1, <1>4, <1>6, DrawnNow
<1>8. CacheKept' /\ CacheWhole' /\ LoadsWhole'
  BY <1>1, CacheStays, WholeStays
<1> QED BY <1>1, <1>7, <1>8, DrawsShow DEF DisplayInv, DisplayTypes

LEMMA JpegHolds == DisplayInv /\ DrawJpeg => DisplayInv'
<1> SUFFICES ASSUME DisplayInv, DrawJpeg PROVE DisplayInv'
  OBVIOUS
<1>1. PICK s \in Existing, b \in Boxes, i \in Images \cup {None}, a \in BOOLEAN, f \in AllForms :
        /\ Load(s, b, Stripped(s, Sent(i, a)), i, f)
        /\ Wants(s, b, Stripped(s, Sent(i, a)), f)
        /\ told' = told \cup ({i} \cap Images)
        /\ changed' = IF Opaque(s) \/ (f.odd /\ ~Stripped(s, Sent(i, a)).alpha)
                      THEN changed \cup ({i} \cap Images) ELSE changed
        /\ spoiled' = spoiled \ {<<s, b>>}
  <2>1. PICK s \in Existing, b \in Boxes, i \in Images \cup {None}, a \in BOOLEAN : \E f \in Forms(b) :
          LET p == Stripped(s, Sent(i, a))
          IN  /\ Load(s, b, p, i, f)
              /\ Wants(s, b, p, f)
              /\ told' = told \cup ({i} \cap Images)
              /\ changed' = IF Opaque(s) \/ (f.odd /\ ~p.alpha) THEN changed \cup ({i} \cap Images) ELSE changed
              /\ spoiled' = spoiled \ {<<s, b>>}
    BY DEF DrawJpeg
  <2> QED BY <2>1, FormsAre
<1> DEFINE p == Stripped(s, Sent(i, a))
           new == [surface |-> s, box |-> b, form |-> f, image |-> i, at |-> sent + 1, picture |-> p]
<1>2. /\ Message /\ UNCHANGED <<surfaces, cache, streams, stopped>>
      /\ sent < MaxSent /\ sent \in 0..MaxSent /\ DisplayTypes /\ s \in Ids
  BY DEF DrawJpeg, Message, DisplayInv, DisplayTypes, Existing
<1>3. p \in Pictures /\ (~Opaque(s) /\ i \in Images => p = Original(i))
  <2>1. Sent(i, a) \in Pictures /\ (i \in Images => Sent(i, a) = Original(i))
    BY <1>2, PicturesAre
  <2> QED BY <2>1, StrippedIs
<1>4. loading' = loading \cup {new} /\ new.image = i /\ new.picture = p /\ new.form = f
  BY <1>1 DEF Load
<1>5. /\ changed \subseteq changed' /\ changed' \subseteq Images /\ told' \subseteq Images
      /\ (Opaque(s) \/ (f.odd /\ ~p.alpha)) /\ i \in Images => i \in changed'
  BY <1>1, <1>2 DEF DisplayTypes
<1>6. Load(s, b, p, i, f) /\ Wants(s, b, p, f) /\ spoiled' = spoiled \ {<<s, b>>}
  BY <1>1
<1> HIDE DEF p, new
<1>7. Draws(s, b, p, f)
  BY <1>2, <1>3, <1>6 DEF Draws
<1>8. LoadsWhole'
  <2> SUFFICES ASSUME NEW j \in loading', j.image # None
               PROVE  Kept(j.picture, j.form) = Original(j.image) \/ j.image \in changed'
    BY DEF LoadsWhole, Original, Picture, Kept, LeftBy
  <2>1. CASE j = new
    <3>1. Kept(p, f) = p \/ (f.odd /\ ~p.alpha)
      BY <1>3, LeftByIs
    <3> QED BY <1>3, <1>4, <1>5, <2>1, <3>1
  <2>2. CASE j \in loading
    BY <1>5, <2>2 DEF DisplayInv, LoadsWhole
  <2> QED BY <1>4, <2>1, <2>2
<1>9. CacheKept'
  <2> SUFFICES ASSUME ~stopped, NEW k \in told'
               PROVE  cache[k] # None \/ \E j \in loading' : j.image = k
    BY <1>2 DEF CacheKept
  <2>1. CASE k \in told
    <3>1. cache[k] # None \/ \E j \in loading : j.image = k
      BY <2>1 DEF DisplayInv, CacheKept
    <3> QED BY <1>4, <3>1
  <2>2. CASE k \notin told
    <3>1. told' = told \cup ({i} \cap Images)
      BY <1>1
    <3>2. k = i
      BY <2>2, <3>1
    <3>3. new \in loading' /\ new.image = k
      BY <1>4, <3>2
    <3> QED BY <3>3
  <2> QED BY <2>1, <2>2
<1>10. CacheWhole'
  BY <1>2, <1>5 DEF DisplayInv, CacheWhole, Original, Picture
<1> QED BY <1>2, <1>5, <1>7, <1>8, <1>9, <1>10, DrawsShow DEF DisplayInv, DisplayTypes

LEMMA StreamDataHolds == DisplayInv /\ StreamData => DisplayInv'
<1> SUFFICES ASSUME DisplayInv, StreamData PROVE DisplayInv'
  OBVIOUS
<1>1. PICK t \in Streams :
        /\ streams[t] # None
        /\ Load(streams[t].surface, streams[t].box, Picture(sent + 1, FALSE), None, streams[t].form)
        /\ Wants(streams[t].surface, streams[t].box, Picture(sent + 1, FALSE), streams[t].form)
        /\ spoiled' = spoiled \ {<<streams[t].surface, streams[t].box>>}
  BY DEF StreamData
<1> DEFINE s == streams[t].surface
           b == streams[t].box
           f == streams[t].form
           p == Picture(sent + 1, FALSE)
           new == [surface |-> s, box |-> b, form |-> f, image |-> None, at |-> sent + 1, picture |-> p]
<1>2. /\ Message /\ UNCHANGED <<surfaces, cache, streams, stopped, told, changed>>
      /\ sent < MaxSent /\ sent \in 0..MaxSent /\ DisplayTypes
  BY DEF StreamData, Message, DisplayInv, DisplayTypes
<1>3. s \in Ids /\ b \in Boxes /\ f \in AllForms
  BY <1>1, <1>2 DEF DisplayTypes, Playing
<1>4. p \in Pictures
  <2>1. \A a \in BOOLEAN : Picture(sent + 1, a) \in Pictures
    BY <1>2, PicturesAre
  <2> QED BY <2>1, Zenon
<1>5. loading' = loading \cup {new} /\ new.image = None
  BY <1>1 DEF Load
<1>6. Load(s, b, p, None, f) /\ Wants(s, b, p, f) /\ spoiled' = spoiled \ {<<s, b>>}
  BY <1>1
<1> HIDE DEF s, b, f, p, new
<1>7. Draws(s, b, p, f)
  BY <1>2, <1>3, <1>4, <1>6 DEF Draws
<1>8. CacheKept' /\ CacheWhole' /\ LoadsWhole'
  BY <1>2, <1>5, CacheStays, WholeStays
<1> QED BY <1>2, <1>7, <1>8, DrawsShow DEF DisplayInv, DisplayTypes

LEMMA ShowsNext ==
  /\ ShowsWanted' = \A r \in Existing', c \in Boxes :
       \/ surfaces'[r].shown[c] = want'[r][c].shows
       \/ <<r, c>> \in spoiled'
       \/ \E j \in loading' : j.surface = r /\ j.box = c /\ j.at = want'[r][c].at
  /\ Existing' \subseteq Ids
BY DEF ShowsWanted, Existing

\* A surface begins blank, and is meant to; what loads for the one that had its
\* id before is older than that.
LEMMA CreateHolds == DisplayInv /\ CreateSurface => DisplayInv'
<1> SUFFICES ASSUME DisplayInv, CreateSurface PROVE DisplayInv'
  OBVIOUS
<1>1. PICK s \in Ids \ Existing, f \in Formats :
        /\ surfaces' = [surfaces EXCEPT ![s] = [format |-> f, shown |-> [b \in Boxes |-> Blank]]]
        /\ want' = [want EXCEPT ![s] = [b \in Boxes |-> [shows |-> Blank, at |-> sent + 1]]]
  BY DEF CreateSurface
<1>2. /\ sent' = sent + 1 /\ UNCHANGED <<cache, loading, streams, told, changed, spoiled, stopped>>
      /\ sent < MaxSent /\ sent \in 0..MaxSent /\ sent \in Nat /\ DisplayTypes /\ ~stopped
  BY DisplayAssumption DEF CreateSurface, Message, DisplayInv, DisplayTypes
<1>3. Blank \in Pictures
  BY <1>2, PicturesAre
<1> DEFINE blank == [format |-> f, shown |-> [b \in Boxes |-> Blank]]
           plain == [b \in Boxes |-> [shows |-> Blank, at |-> sent + 1]]
<1>4. blank \in Surfaces /\ \A b \in Boxes : blank.shown[b] = Blank
  BY <1>3 DEF Surfaces
<1>5. /\ plain \in [Boxes -> [shows : Pictures, at : Nat]]
      /\ \A b \in Boxes : plain[b].shows = Blank /\ plain[b].at = sent + 1
  BY <1>2, <1>3
<1> HIDE DEF blank, plain
<1>6. /\ surfaces' \in [Ids -> {None} \cup Surfaces] /\ surfaces'[s] = blank
      /\ \A r \in Ids \ {s} : surfaces'[r] = surfaces[r]
  BY <1>1, <1>2, <1>4 DEF DisplayTypes, blank
<1>7. /\ want' \in [Ids -> [Boxes -> [shows : Pictures, at : Nat]]] /\ want'[s] = plain
      /\ \A r \in Ids \ {s} : want'[r] = want[r]
  BY <1>1, <1>2, <1>5 DEF DisplayTypes, plain
<1>8. DisplayTypes'
  BY <1>2, <1>6, <1>7, DisplayAssumption DEF DisplayTypes
<1>9. InThePast'
  <2>1. \A r \in Ids, c \in Boxes : want'[r][c].at <= sent'
    <3> SUFFICES ASSUME NEW r \in Ids, NEW c \in Boxes PROVE want'[r][c].at <= sent'
      OBVIOUS
    <3>1. want[r][c].at \in Nat /\ want[r][c].at <= sent
      BY <1>2 DEF DisplayInv, InThePast, DisplayTypes
    <3> QED BY <1>2, <1>5, <1>7, <3>1
  <2>2. \A j \in loading : j.at <= sent'
    <3> SUFFICES ASSUME NEW j \in loading PROVE j.at <= sent'
      OBVIOUS
    <3>1. j.at \in Nat /\ j.at <= sent
      BY <1>2 DEF DisplayInv, InThePast, DisplayTypes, Loads
    <3> QED BY <1>2, <3>1
  <2> QED BY <1>2, <2>1, <2>2 DEF InThePast
<1>10. LoadsWanted'
  <2> SUFFICES ASSUME NEW j \in loading, want'[j.surface][j.box].at = j.at
               PROVE  j.form.odd \/ j.picture = want'[j.surface][j.box].shows
    BY <1>2 DEF LoadsWanted
  <2>1. j.surface \in Ids /\ j.box \in Boxes /\ j.at \in Nat /\ j.at <= sent
    BY <1>2 DEF DisplayInv, InThePast, DisplayTypes, Loads
  <2>2. j.surface # s
    BY <1>2, <1>5, <1>7, <2>1
  <2> QED BY <1>7, <2>1, <2>2 DEF DisplayInv, LoadsWanted
<1>11. ShowsWanted'
  <2> SUFFICES ASSUME NEW r \in Ids, NEW c \in Boxes, r \in Existing'
               PROVE  \/ surfaces'[r].shown[c] = want'[r][c].shows
                      \/ <<r, c>> \in spoiled'
                      \/ \E j \in loading' : j.surface = r /\ j.box = c /\ j.at = want'[r][c].at
    BY DEF ShowsWanted, Existing
  <2>1. CASE r = s
    BY <1>4, <1>5, <1>6, <1>7, <2>1
  <2>2. CASE r # s
    <3>1. surfaces'[r] = surfaces[r] /\ want'[r] = want[r] /\ r \in Existing
      BY <1>6, <1>7, <2>2 DEF Existing
    <3> QED BY <1>2, <3>1 DEF DisplayInv, ShowsWanted
  <2> QED BY <2>1, <2>2
<1>12. CacheKept' /\ CacheWhole' /\ LoadsWhole'
  BY <1>2, CacheStays, WholeStays
<1> QED BY <1>2, <1>8, <1>9, <1>10, <1>11, <1>12 DEF DisplayInv

\* Surfaces go; nothing else is drawn.
LEMMA GoneHolds ==
  ASSUME DisplayInv, UNCHANGED <<cache, loading, sent, want, told, changed>>,
         streams' \in [Streams -> {None} \cup Playing],
         stopped' \in BOOLEAN, stopped => stopped',
         surfaces' \in [Ids -> {None} \cup Surfaces],
         \A r \in Ids : r \in Existing' =>
           /\ ~stopped' /\ r \in Existing /\ surfaces'[r] = surfaces[r]
           /\ \A b \in Boxes : <<r, b>> \in spoiled => <<r, b>> \in spoiled'
  PROVE  DisplayInv'
<1>1. DisplayTypes' /\ InThePast' /\ LoadsWanted' /\ LoadsWhole'
  BY DEF DisplayInv, DisplayTypes, InThePast, LoadsWanted, LoadsWhole, Original, Picture, Kept, LeftBy
<1>2. stopped' => Existing' = {}
  BY DEF Existing
<1>3. ShowsWanted'
  <2> SUFFICES ASSUME NEW r \in Ids, NEW c \in Boxes, r \in Existing'
               PROVE  \/ surfaces'[r].shown[c] = want'[r][c].shows
                      \/ <<r, c>> \in spoiled'
                      \/ \E j \in loading' : j.surface = r /\ j.box = c /\ j.at = want'[r][c].at
    BY ShowsNext
  <2>1. r \in Existing /\ surfaces'[r] = surfaces[r] /\ want' = want /\ loading' = loading
    OBVIOUS
  <2>2. <<r, c>> \in spoiled => <<r, c>> \in spoiled'
    OBVIOUS
  <2>3. \/ surfaces[r].shown[c] = want[r][c].shows
        \/ <<r, c>> \in spoiled
        \/ \E j \in loading : j.surface = r /\ j.box = c /\ j.at = want[r][c].at
    BY <2>1 DEF DisplayInv, ShowsWanted
  <2> QED BY <2>1, <2>2, <2>3
<1>4. CacheKept' /\ CacheWhole'
  BY DEF DisplayInv, CacheKept, CacheWhole, DisplayTypes, Original, Picture
<1> QED BY <1>1, <1>2, <1>3, <1>4 DEF DisplayInv

\* A JPEG that has loaded.  Its box shows it: what the server means the box to
\* show, if it has not meant it to show something else since.
LEMMA OnloadHolds ==
  ASSUME DisplayInv, NEW j \in loading, Onload(j)
  PROVE  DisplayInv'
<1>1. /\ DisplayTypes /\ loading' = loading \ {j}
      /\ UNCHANGED <<streams, stopped, sent, want, told, changed>>
      /\ j.surface \in Ids /\ j.box \in Boxes /\ j.image \in Images \cup {None} /\ j.picture \in Pictures
      /\ j.at \in Nat /\ j.form \in AllForms /\ Kept(j.picture, j.form) \in Pictures
  <2>1. j \in Loads
    BY DEF DisplayInv, DisplayTypes
  <2>2. j.picture \in Pictures /\ j.form \in AllForms
    BY <2>1 DEF Loads
  <2>3. Kept(j.picture, j.form) \in Pictures
    BY <2>2, LeftByIs
  <2> QED BY <2>1, <2>2, <2>3 DEF Onload, DisplayInv, Loads
<1>2. InThePast' /\ LoadsWanted' /\ LoadsWhole'
  BY <1>1 DEF DisplayInv, InThePast, LoadsWanted, LoadsWhole, Original, Picture, Kept, LeftBy
<1>3. CASE stopped
  <2>1. UNCHANGED <<surfaces, cache>>
    BY <1>3 DEF Onload
  <2>2. Existing' = {}
    BY <1>3, <2>1 DEF DisplayInv, Existing
  <2>3. ShowsWanted'
    BY <2>2 DEF ShowsWanted
  <2>4. CacheKept' /\ CacheWhole'
    BY <1>1, <1>3, <2>1 DEF DisplayInv, CacheKept, CacheWhole, Original, Picture
  <2> QED BY <1>1, <1>2, <2>1, <2>2, <2>3, <2>4 DEF DisplayInv, DisplayTypes
<1>4. CASE ~stopped
  <2> DEFINE s == j.surface
             b == j.box
           p == Kept(j.picture, j.form)
  <2>1. /\ cache' = IF j.image = None THEN cache ELSE [cache EXCEPT ![j.image] = p]
        /\ IF s \in Existing
           THEN /\ surfaces' = Painted(s, b, j.picture, j.form, TRUE)
                /\ spoiled' = IF j.form.odd \/ want[s][b].at # j.at \/ Veiled(surfaces[s].shown[b], j.picture)
                              THEN spoiled \cup ({s} \X ({b} \cup j.form.over)) ELSE spoiled
           ELSE UNCHANGED <<surfaces, spoiled>>
    BY <1>4 DEF Onload, OnloadDraws
  <2>2. /\ cache' \in [Images -> {None} \cup Pictures]
        /\ \A k \in Images : IF k = j.image THEN cache'[k] = p ELSE cache'[k] = cache[k]
    BY <1>1, <2>1, DisplayAssumption DEF DisplayTypes
  <2>3. CacheKept' /\ CacheWhole'
    <3>1. \A k \in told : cache'[k] # None \/ \E l \in loading' : l.image = k
      <4> SUFFICES ASSUME NEW k \in told PROVE cache'[k] # None \/ \E l \in loading' : l.image = k
        OBVIOUS
      <4>1. k \in Images
        BY <1>1 DEF DisplayTypes
      <4>2. CASE k = j.image
        <5>1. p # None
          BY <1>1, LeftByIs
        <5> QED BY <2>2, <4>1, <4>2, <5>1
      <4>3. CASE k # j.image
        <5>1. cache'[k] = cache[k]
          BY <2>2, <4>1, <4>3
        <5>2. cache[k] # None \/ \E l \in loading : l.image = k
          BY <1>4 DEF DisplayInv, CacheKept
        <5> QED BY <1>1, <4>3, <5>1, <5>2
      <4> QED BY <4>2, <4>3
    <3>2. ASSUME NEW k \in Images PROVE cache'[k] \in {None, Original(k)} \/ k \in changed
      <4>1. CASE k = j.image
        BY <2>2, <4>1, DisplayAssumption DEF DisplayInv, LoadsWhole
      <4>2. CASE k # j.image
        BY <2>2, <4>2 DEF DisplayInv, CacheWhole
      <4> QED BY <4>1, <4>2
    <3> QED BY <1>1, <3>1, <3>2 DEF CacheKept, CacheWhole, Original, Picture
  <2>4. CASE s \notin Existing
    <3>1. UNCHANGED <<surfaces, spoiled>>
      BY <2>1, <2>4
    <3>2. Existing' = Existing
      BY <3>1 DEF Existing
    <3>3. ShowsWanted'
      <4> SUFFICES ASSUME NEW r \in Existing, NEW c \in Boxes
                   PROVE  \/ surfaces[r].shown[c] = want[r][c].shows
                          \/ <<r, c>> \in spoiled
                          \/ \E l \in loading' : l.surface = r /\ l.box = c /\ l.at = want[r][c].at
        <5>1. want' = want /\ surfaces' = surfaces /\ spoiled' = spoiled
          BY <1>1, <3>1
        <5> QED BY <3>2, <5>1, ShowsNext
      <4> QED BY <1>1, <2>4 DEF DisplayInv, ShowsWanted
    <3> QED BY <1>1, <1>2, <1>4, <2>2, <2>3, <3>1, <3>3 DEF DisplayInv, DisplayTypes
  <2>5. CASE s \in Existing
    <3>5. /\ surfaces' \in [Ids -> {None} \cup Surfaces]
          /\ \A r \in Ids \ {s} : surfaces'[r] = surfaces[r]
          /\ \A c \in Boxes : c \notin {b} \cup j.form.over => surfaces'[s].shown[c] = surfaces[s].shown[c]
          /\ ~j.form.odd /\ ~Veiled(surfaces[s].shown[b], j.picture) => surfaces'[s].shown[b] = j.picture
      <4>1. surfaces' = Painted(s, b, j.picture, j.form, TRUE)
        BY <2>1, <2>5
      <4>2. PICK blends \in BOOLEAN : blends = TRUE
        OBVIOUS
      <4>3. /\ Painted(s, b, j.picture, j.form, blends) \in [Ids -> {None} \cup Surfaces]
            /\ \A r \in Ids \ {s} : Painted(s, b, j.picture, j.form, blends)[r] = surfaces[r]
            /\ \A c \in Boxes : c \notin {b} \cup j.form.over =>
                 Painted(s, b, j.picture, j.form, blends)[s].shown[c] = surfaces[s].shown[c]
            /\ ~j.form.odd /\ ~(blends /\ Veiled(surfaces[s].shown[b], j.picture)) =>
                 Painted(s, b, j.picture, j.form, blends)[s].shown[b] = j.picture
        BY <1>1, <2>5, PaintedIs
      <4> QED BY <4>1, <4>2, <4>3
    <3>6. /\ spoiled \subseteq spoiled'
          /\ j.form.odd \/ want[s][b].at # j.at \/ Veiled(surfaces[s].shown[b], j.picture) => <<s, b>> \in spoiled'
          /\ \A c \in j.form.over : <<s, c>> \in spoiled'
      BY <1>1, <2>1, <2>5 DEF AllForms
    <3>7. ShowsWanted'
      <4> SUFFICES ASSUME NEW r \in Ids, NEW c \in Boxes, r \in Existing'
                   PROVE  \/ surfaces'[r].shown[c] = want[r][c].shows
                          \/ <<r, c>> \in spoiled'
                          \/ \E l \in loading' : l.surface = r /\ l.box = c /\ l.at = want[r][c].at
        <5>1. want' = want
          BY <1>1
        <5> QED BY <5>1, ShowsNext
      <4>1. CASE r = s /\ c = b
        BY <3>5, <3>6, <4>1 DEF DisplayInv, LoadsWanted
      <4>2. CASE ~(r = s /\ c = b)
        <5>1. r \in Existing /\ (surfaces'[r].shown[c] = surfaces[r].shown[c] \/ <<r, c>> \in spoiled')
          BY <2>5, <3>5, <3>6, <4>2 DEF Existing
        <5>2. \/ surfaces[r].shown[c] = want[r][c].shows
              \/ <<r, c>> \in spoiled
              \/ \E l \in loading : l.surface = r /\ l.box = c /\ l.at = want[r][c].at
          BY <5>1 DEF DisplayInv, ShowsWanted
        <5> QED BY <1>1, <3>6, <4>2, <5>1, <5>2
      <4> QED BY <4>1, <4>2
    <3> QED BY <1>1, <1>2, <1>4, <2>2, <2>3, <3>5, <3>7 DEF DisplayInv, DisplayTypes
  <2> QED BY <2>4, <2>5
<1> QED BY <1>3, <1>4

LEMMA DisplayNextHolds == DisplayInv /\ [DisplayNext]_displayVars => DisplayInv'
<1> SUFFICES ASSUME DisplayInv, [DisplayNext]_displayVars PROVE DisplayInv'
  OBVIOUS
<1>0. DisplayTypes
  BY DEF DisplayInv
<1>1. CASE CreateSurface
  BY <1>1, CreateHolds
<1>2. CASE DestroySurface
  <2>1. PICK s \in Existing : surfaces' = [surfaces EXCEPT ![s] = None] /\ spoiled' = spoiled \ ({s} \X Boxes)
    BY <1>2 DEF DestroySurface
  <2>2. UNCHANGED <<cache, loading, streams, stopped, sent, want, told, changed>> /\ ~stopped
    BY <1>2 DEF DestroySurface
  <2>3. /\ surfaces' \in [Ids -> {None} \cup Surfaces] /\ surfaces'[s] = None
        /\ \A r \in Ids \ {s} : surfaces'[r] = surfaces[r]
    BY <1>0, <2>1 DEF DisplayTypes, Existing
  <2>4. \A r \in Ids : r \in Existing' =>
          /\ ~stopped' /\ r \in Existing /\ surfaces'[r] = surfaces[r]
          /\ \A b \in Boxes : <<r, b>> \in spoiled => <<r, b>> \in spoiled'
    BY <2>1, <2>2, <2>3 DEF Existing
  <2> QED BY <1>0, <2>2, <2>3, <2>4, GoneHolds DEF DisplayTypes
<1>3. CASE DestroySurfaces
  <2>1. UNCHANGED <<cache, loading, streams, sent, want, told, changed, spoiled>> /\ stopped' = TRUE
    BY <1>3 DEF DestroySurfaces
  <2>2. surfaces' = [s \in Ids |-> None]
    BY <1>3 DEF DestroySurfaces
  <2>3. \A r \in Ids : r \notin Existing'
    BY <2>2 DEF Existing
  <2> QED BY <1>0, <2>1, <2>2, <2>3, GoneHolds DEF DisplayTypes
<1>4. CASE StreamCreate \/ StreamClip \/ StreamDestroy \/ UNCHANGED displayVars
  <2>1. UNCHANGED <<surfaces, cache, loading, sent, want, told, changed, spoiled, stopped>>
    BY <1>4 DEF StreamCreate, StreamClip, StreamDestroy, displayVars
  <2>2. streams' \in [Streams -> {None} \cup Playing]
    <3>0. streams \in [Streams -> {None} \cup Playing]
      BY <1>0 DEF DisplayTypes
    <3>1. CASE StreamCreate
      <4>1. PICK t \in Streams, s \in Existing, b \in Boxes, f \in AllForms :
              streams' = [streams EXCEPT ![t] = [surface |-> s, box |-> b, form |-> f]]
        BY <3>1, FormsAre DEF StreamCreate
      <4>2. [surface |-> s, box |-> b, form |-> f] \in Playing
        BY DEF Playing, Existing
      <4> QED BY <3>0, <4>1, <4>2
    <3>2. CASE StreamClip
      <4>1. PICK t \in Streams, o \in BOOLEAN :
              streams[t] # None /\ streams[t].form.over = {} /\ streams' = [streams EXCEPT ![t].form.odd = o]
        BY <3>2 DEF StreamClip
      <4>2. streams[t] \in Playing
        BY <3>0, <4>1
      <4> DEFINE form == [streams[t].form EXCEPT !.odd = o]
                 new  == [streams[t] EXCEPT !.form = form]
      <4>3. form \in AllForms
        BY <4>1, <4>2 DEF Playing, AllForms
      <4>4. streams' = [streams EXCEPT ![t] = new]
        BY <4>1
      <4> HIDE DEF form
      <4>5. new \in Playing
        BY <4>2, <4>3 DEF Playing
      <4> QED BY <3>0, <4>4, <4>5
    <3>3. CASE StreamDestroy \/ UNCHANGED displayVars
      BY <3>0, <3>3 DEF StreamDestroy, displayVars
    <3> QED BY <1>4, <3>1, <3>2, <3>3
  <2>3. \A r \in Ids : r \in Existing' =>
          /\ ~stopped' /\ r \in Existing /\ surfaces'[r] = surfaces[r]
          /\ \A b \in Boxes : <<r, b>> \in spoiled => <<r, b>> \in spoiled'
    BY <2>1 DEF DisplayInv, Existing
  <2> QED BY <1>0, <2>1, <2>2, <2>3, GoneHolds DEF DisplayTypes
<1>5. CASE DrawDecoded \/ DrawFill \/ DrawUnhandled \/ DrawCached \/ DrawJpeg \/ StreamData
  BY <1>5, DrawingHolds, UnhandledHolds, CachedHolds, JpegHolds, StreamDataHolds
<1>6. CASE DrawSurface
  <2>1. PICK from \in Existing, to \in Existing, b \in Boxes, c \in Boxes, f \in AllForms :
          CopyBox(from, b, to, c, f, ~Opaque(from))
    BY <1>6, FormsAre DEF DrawSurface
  <2>2. (~Opaque(from)) \in BOOLEAN
    BY DEF Opaque
  <2> QED BY <1>6, <2>1, <2>2, CopyHolds DEF DrawSurface
<1>7. CASE CopyBits
  <2>1. PICK s \in Existing, b \in Boxes, c \in Boxes, f \in AllForms : CopyBox(s, b, s, c, f, TRUE)
    BY <1>7, FormsAre DEF CopyBits
  <2> QED BY <1>7, <2>1, CopyHolds DEF CopyBits
<1>8. ASSUME NEW j \in loading, Onload(j) PROVE DisplayInv'
  BY <1>8, OnloadHolds
<1> QED BY <1>1, <1>2, <1>3, <1>4, <1>5, <1>6, <1>7, <1>8 DEF DisplayNext

LEMMA DisplayBegins == DisplayInit => DisplayInv
<1> SUFFICES ASSUME DisplayInit PROVE DisplayInv
  OBVIOUS
<1>1. Blank \in Pictures
  BY DEF Blank, Picture, Pictures
<1>2. DisplayTypes
  <2>1. want \in [Ids -> [Boxes -> [shows : Pictures, at : Nat]]]
    BY <1>1 DEF DisplayInit
  <2>2. surfaces \in [Ids -> {None} \cup Surfaces] /\ cache \in [Images -> {None} \cup Pictures]
    BY DEF DisplayInit
  <2>3. streams \in [Streams -> {None} \cup Playing]
    BY DEF DisplayInit
  <2>4. loading \subseteq Loads /\ told \subseteq Images /\ changed \subseteq Images
    BY DEF DisplayInit
  <2>5. sent \in 0..MaxSent
    BY DisplayAssumption DEF DisplayInit
  <2>6. stopped \in BOOLEAN
    BY DEF DisplayInit
  <2> QED BY <2>1, <2>2, <2>3, <2>4, <2>5, <2>6 DEF DisplayTypes
<1>3. Existing = {} /\ loading = {} /\ told = {} /\ cache = [i \in Images |-> None] /\ \A s \in Ids, b \in Boxes : want[s][b].at = 0 /\ sent = 0
  BY DEF DisplayInit, Existing
<1> QED BY <1>2, <1>3 DEF DisplayInv, InThePast, LoadsWanted, LoadsWhole, ShowsWanted, CacheKept, CacheWhole

\* Boxes show what the server means them to, and the cache holds what it told to
\* be cached, in whatever order JPEGs load and surfaces come and go, but for the
\* reasons the properties name.
THEOREM ShowsWhatIsMeant == DisplaySpec => []DisplayAgrees
<1>1. DisplayInit => DisplayInv
  BY DisplayBegins
<1>2. DisplayInv /\ [DisplayNext]_displayVars => DisplayInv'
  BY DisplayNextHolds
<1>3. DisplayInv => DisplayAgrees
  BY ShowsAgreed
<1> QED BY <1>1, <1>2, <1>3, PTL DEF DisplaySpec

-----------------------------------------------------------------------------
(* Numbers in a buffer: what is written is what is read there.                 *)

\* A byte, and the bytes of a number.
LEMMA OctetIs ==
  ASSUME NEW x
  PROVE  x \in Octet <=> x \in Int /\ 0 <= x /\ x <= 255
BY DEF Octet

LEMMA ByteOf ==
  ASSUME NEW b \in Int
  PROVE  b % 256 \in Octet /\ b = 256 * (b \div 256) + (b % 256) /\ b \div 256 \in Int
BY OctetIs

\* v is u but for the bytes from at + 1 to at + n.
Differs(u, v, at, n) ==
  /\ u \in Seq(Octet) /\ v \in Seq(Octet) /\ Len(v) = Len(u)
  /\ \A i \in Nat : i >= 1 /\ i <= Len(u) /\ (i <= at \/ i > at + n) => v[i] = u[i]

\* Two writes side by side.
LEMMA DiffersTwice ==
  ASSUME NEW u, NEW w, NEW v, NEW at \in Nat, NEW m \in Nat, NEW n \in Nat,
         Differs(u, w, at + m, n), Differs(w, v, at, m)
  PROVE  Differs(u, v, at, m + n)
<1>1. u \in Seq(Octet) /\ v \in Seq(Octet) /\ Len(v) = Len(u) /\ Len(w) = Len(u)
  BY DEF Differs
<1>2. ASSUME NEW i \in Nat, i >= 1, i <= Len(u), i <= at \/ i > at + (m + n)
      PROVE  v[i] = u[i]
  <2>1. i <= at + m \/ i > (at + m) + n
    BY <1>2
  <2>2. w[i] = u[i]
    BY <1>2, <2>1 DEF Differs
  <2>3. i <= at \/ i > at + m
    BY <1>2
  <2>4. v[i] = w[i]
    BY <1>1, <1>2, <2>3 DEF Differs
  <2> QED BY <2>2, <2>4
<1> QED BY <1>1, <1>2 DEF Differs

\* What each write leaves: the bytes of the number, and nothing else changed.
LEMMA Wrote8 ==
  ASSUME NEW u \in Seq(Octet), NEW at \in Nat, at < Len(u), NEW b \in Int
  PROVE  Differs(u, SetUint8(u, at, b), at, 1) /\ SetUint8(u, at, b)[at + 1] = b % 256
<1> DEFINE v == SetUint8(u, at, b)
<1>1. v = [u EXCEPT ![at + 1] = b % 256]
  BY DEF SetUint8
<1>2. b % 256 \in Octet
  BY ByteOf
<1>3. Len(u) \in Nat /\ at + 1 \in 1..Len(u) /\ DOMAIN u = 1..Len(u)
  BY LenProperties
<1>4. v \in Seq(Octet) /\ Len(v) = Len(u)
  BY <1>1, <1>2, <1>3, ExceptSeq
<1>5. v[at + 1] = b % 256 /\ \A i \in 1..Len(u) : i # at + 1 => v[i] = u[i]
  BY <1>1, <1>3
<1> HIDE DEF v
<1>6. ASSUME NEW i \in Nat, i >= 1, i <= Len(u), i <= at \/ i > at + 1
      PROVE  v[i] = u[i]
  BY <1>3, <1>5, <1>6
<1>7. Differs(u, v, at, 1)
  BY <1>4, <1>6 DEF Differs
<1> QED BY <1>5, <1>7 DEF v

\* What each read makes of the bytes.
LEMMA Read8 ==
  ASSUME NEW u \in Seq(Octet), NEW at \in Nat, at < Len(u)
  PROVE  GetUint8(u, at) = u[at + 1] /\ u[at + 1] \in Octet
<1>1. Len(u) \in Nat /\ at + 1 \in 1..Len(u)
  BY LenProperties
<1> QED BY <1>1, ElementOfSeq DEF GetUint8, At

\* The bytes of a number of 16 bits, and what is above them.
Low(b)   == b % 256
High(b)  == (b \div 256) % 256
Above(b) == b \div 65536

LEMMA Wrote16 ==
  ASSUME NEW u \in Seq(Octet), NEW at \in Nat, at + 1 < Len(u), NEW b \in Int
  PROVE  /\ Differs(u, SetUint16(u, at, b, TRUE), at, 2)
         /\ SetUint16(u, at, b, TRUE)[at + 1] = Low(b)
         /\ SetUint16(u, at, b, TRUE)[at + 2] = High(b)
<1> DEFINE c == b \div 256
           w == SetUint8(u, at + 1, c)
           v == SetUint8(w, at, b)
<1>1. SetUint16(u, at, b, TRUE) = v
  BY DEF SetUint16
<1>2. Len(u) \in Nat /\ at + 1 \in Nat /\ c \in Int /\ (at + 1) + 1 = at + 2
  BY LenProperties, ByteOf
<1>c. High(b) = c % 256 /\ Low(b) = b % 256
  BY DEF High, Low
<1> HIDE DEF c
<1>3. Differs(u, w, at + 1, 1) /\ w[(at + 1) + 1] = c % 256
  BY <1>2, Wrote8
<1> HIDE DEF w
<1>4. w \in Seq(Octet) /\ Len(w) = Len(u) /\ at < Len(w)
  BY <1>2, <1>3 DEF Differs
<1>5. Differs(w, v, at, 1) /\ v[at + 1] = b % 256
  BY <1>4, Wrote8
<1> HIDE DEF v
<1>6. v[at + 2] = w[at + 2]
  <2>1. at + 2 \in Nat /\ at + 2 >= 1 /\ at + 2 <= Len(w) /\ at + 2 > at + 1
    BY <1>2, <1>4
  <2> QED BY <1>5, <2>1 DEF Differs
<1>7. Differs(u, v, at, 2)
  <2>1. Differs(u, v, at, 1 + 1)
    BY <1>3, <1>5, DiffersTwice
  <2> QED BY <2>1
<1>8. v[at + 2] = c % 256
  BY <1>2, <1>3, <1>6
<1> QED BY <1>1, <1>5, <1>7, <1>8, <1>c

LEMMA Wrote32 ==
  ASSUME NEW u \in Seq(Octet), NEW at \in Nat, at + 3 < Len(u), NEW b \in Int
  PROVE  /\ Differs(u, SetUint32(u, at, b, TRUE), at, 4)
         /\ SetUint32(u, at, b, TRUE)[at + 1] = Low(b)
         /\ SetUint32(u, at, b, TRUE)[at + 2] = High(b)
         /\ SetUint32(u, at, b, TRUE)[at + 3] = Low(Above(b))
         /\ SetUint32(u, at, b, TRUE)[at + 4] = High(Above(b))
<1> DEFINE c == Above(b)
           w == SetUint16(u, at + 2, c, TRUE)
           v == SetUint16(w, at, b, TRUE)
<1>1. SetUint32(u, at, b, TRUE) = v
  BY DEF SetUint32, Above
<1>2. /\ Len(u) \in Nat /\ at + 2 \in Nat /\ c \in Int
      /\ (at + 2) + 1 = at + 3 /\ (at + 2) + 2 = at + 4 /\ (at + 2) + 1 < Len(u)
  BY LenProperties DEF Above
<1>c. c = Above(b)
  OBVIOUS
<1> HIDE DEF c
<1>3. Differs(u, w, at + 2, 2) /\ w[(at + 2) + 1] = Low(c) /\ w[(at + 2) + 2] = High(c)
  BY <1>2, Wrote16
<1> HIDE DEF w
<1>4. w \in Seq(Octet) /\ Len(w) = Len(u) /\ at + 1 < Len(w)
  BY <1>2, <1>3 DEF Differs
<1>5. Differs(w, v, at, 2) /\ v[at + 1] = Low(b) /\ v[at + 2] = High(b)
  BY <1>4, Wrote16
<1> HIDE DEF v
<1>6. v[at + 3] = w[at + 3] /\ v[at + 4] = w[at + 4]
  <2>1. /\ at + 3 \in Nat /\ at + 3 >= 1 /\ at + 3 <= Len(w) /\ at + 3 > at + 2
        /\ at + 4 \in Nat /\ at + 4 >= 1 /\ at + 4 <= Len(w) /\ at + 4 > at + 2
    BY <1>2, <1>4
  <2> QED BY <1>5, <2>1 DEF Differs
<1>7. Differs(u, v, at, 4)
  <2>1. Differs(u, v, at, 2 + 2)
    BY <1>3, <1>5, DiffersTwice
  <2> QED BY <2>1
<1>8. v[at + 3] = Low(c) /\ v[at + 4] = High(c)
  BY <1>2, <1>3, <1>6
<1> QED BY <1>1, <1>5, <1>7, <1>8, <1>c

\* A number of 16 bits, and one with more above them.
Word(low, high)    == 256 * high + low
Whole(above, word) == 65536 * above + word

\* Two bytes make the number without what is above them.
LEMMA WordOf ==
  ASSUME NEW b \in Int
  PROVE  /\ Low(b) \in Octet /\ High(b) \in Octet /\ Above(b) \in Int
         /\ b = Whole(Above(b), Word(Low(b), High(b)))
<1> DEFINE q == b \div 256
           t == q \div 256
<1>1. q \in Int /\ b = 256 * q + Low(b) /\ Low(b) \in Octet
  BY ByteOf DEF Low
<1>2. High(b) \in Octet /\ q = 256 * t + High(b) /\ t \in Int
  BY <1>1, ByteOf DEF High
<1> HIDE DEF q, t
<1>3. b = 65536 * t + (256 * High(b) + Low(b)) /\ 0 <= 256 * High(b) + Low(b)
      /\ 256 * High(b) + Low(b) <= 65535 /\ 256 * High(b) + Low(b) \in Int
  BY <1>1, <1>2, OctetIs
<1>4. Above(b) = t
  <2> DEFINE r == 256 * High(b) + Low(b)
  <2>1. b = 65536 * t + r /\ r \in Int /\ 0 <= r /\ r <= 65535
    BY <1>3
  <2> HIDE DEF r
  <2> QED BY <1>2, <2>1 DEF Above
<1> QED BY <1>1, <1>2, <1>3, <1>4 DEF Whole, Word

\* Of two bytes, and of four: two such numbers, of which the higher has the sign.
LEMMA Read16 ==
  ASSUME NEW u \in Seq(Octet), NEW at \in Nat, at + 1 < Len(u)
  PROVE  GetUint16(u, at, TRUE) = Word(u[at + 1], u[at + 2]) /\ u[at + 1] \in Octet /\ u[at + 2] \in Octet
<1>1. Len(u) \in Nat /\ at + 1 \in Nat /\ at < Len(u) /\ (at + 1) + 1 = at + 2
  BY LenProperties
<1>2. GetUint8(u, at) = u[at + 1] /\ u[at + 1] \in Octet
  BY <1>1, Read8
<1>3. GetUint8(u, at + 1) = u[(at + 1) + 1] /\ u[(at + 1) + 1] \in Octet
  BY <1>1, Read8
<1> QED BY <1>1, <1>2, <1>3 DEF GetUint16, Word

\* A number of 32 bits; its sign is its bit 31.
Signed(high)    == IF high >= 32768 THEN high - 65536 ELSE high
Long(low, high) == 65536 * Signed(high) + low

LEMMA Read32 ==
  ASSUME NEW u \in Seq(Octet), NEW at \in Nat, at + 3 < Len(u)
  PROVE  GetUint32(u, at, TRUE) = Long(Word(u[at + 1], u[at + 2]), Word(u[at + 3], u[at + 4]))
<1>1. Len(u) \in Nat /\ at + 1 < Len(u) /\ at + 2 \in Nat /\ (at + 2) + 1 < Len(u)
      /\ (at + 2) + 1 = at + 3 /\ (at + 2) + 2 = at + 4
  BY LenProperties
<1>2. GetUint16(u, at, TRUE) = Word(u[at + 1], u[at + 2])
  BY <1>1, Read16
<1>3. GetUint16(u, at + 2, TRUE) = Word(u[(at + 2) + 1], u[(at + 2) + 2])
  BY <1>1, Read16
<1>4. GetUint32(u, at, TRUE) = Long(GetUint16(u, at, TRUE), GetUint16(u, at + 2, TRUE))
  BY DEF GetUint32, Signed, Long
<1> QED BY <1>1, <1>2, <1>3, <1>4, Zenon

-----------------------------------------------------------------------------
(* A field: its number is read where it was written, and nowhere else.         *)

Unsigned16(x) == x \in Int /\ 0 <= x /\ x <= 65535
Signed32(x)   == x \in Int /\ -2147483648 <= x /\ x <= 2147483647

\* A field of a client message, whose bytes are in little-endian order; and the
\* numbers it has: JavaScript's are signed from 32 bits on.
Field(f) == f.width \in {1, 2, 4} /\ f.little = TRUE
Holds(f, x) ==
  /\ Field(f)
  /\ \/ f.width = 1 /\ x \in Octet
     \/ f.width = 2 /\ Unsigned16(x)
     \/ f.width = 4 /\ Signed32(x)

\* Which read a field of each width takes.
LEMMA GetField ==
  ASSUME NEW f, Field(f), NEW u, NEW at
  PROVE  /\ f.width = 1 => Get(u, at, f) = GetUint8(u, at)
         /\ f.width = 2 => Get(u, at, f) = GetUint16(u, at, TRUE)
         /\ f.width = 4 => Get(u, at, f) = GetUint32(u, at, TRUE)
<1>1. /\ f.width = 1 => f.width # 2 /\ f.width # 4
      /\ f.width = 2 => f.width # 1 /\ f.width # 4
      /\ f.width = 4 => f.width # 1 /\ f.width # 2
  OBVIOUS
<1> QED BY <1>1, Zenon DEF Get, Field

\* A field of one byte, of two and of four, and so of any width.
LEMMA SetGet8 ==
  ASSUME NEW u \in Seq(Octet), NEW at \in Nat, NEW f, NEW x,
         f.width = 1, Holds(f, x), at + 1 <= Len(u)
  PROVE  Differs(u, Set(u, at, f, x), at, 1) /\ Get(Set(u, at, f, x), at, f) = x
<1>0. Field(f) /\ x \in Octet
  BY DEF Holds, Field
<1>1. PICK v : v = SetUint8(u, at, x)
  OBVIOUS
<1>2. Set(u, at, f, x) = v
  <2>1. f.width # 2 /\ f.width # 4
    OBVIOUS
  <2> QED BY <1>1, <2>1, Zenon DEF Set
<1>3. at < Len(u) /\ x \in Int /\ 0 <= x /\ x <= 255
  BY <1>0, LenProperties, OctetIs
<1>4. x % 256 = x
  BY <1>3
<1>5. Differs(u, v, at, 1) /\ v[at + 1] = x
  BY <1>1, <1>3, <1>4, Wrote8
<1>6. v \in Seq(Octet) /\ at < Len(v)
  BY <1>3, <1>5 DEF Differs
<1>7. Get(v, at, f) = GetUint8(v, at)
  BY <1>0, GetField, Zenon
<1>8. GetUint8(v, at) = v[at + 1]
  BY <1>6, Read8
<1> QED BY <1>2, <1>5, <1>7, <1>8

LEMMA SetGet16 ==
  ASSUME NEW u \in Seq(Octet), NEW at \in Nat, NEW f, NEW x,
         f.width = 2, Holds(f, x), at + 2 <= Len(u)
  PROVE  Differs(u, Set(u, at, f, x), at, 2) /\ Get(Set(u, at, f, x), at, f) = x
<1>0. Field(f) /\ Unsigned16(x)
  BY DEF Holds, Field
<1>1. PICK v : v = SetUint16(u, at, x, TRUE)
  OBVIOUS
<1>2. Set(u, at, f, x) = v
  <2>1. f.width # 1 /\ f.width # 4
    OBVIOUS
  <2> QED BY <1>1, <2>1, Zenon DEF Set
<1>3. at + 1 < Len(u) /\ x \in Int
  BY <1>0, LenProperties DEF Unsigned16
<1>4. Differs(u, v, at, 2) /\ v[at + 1] = Low(x) /\ v[at + 2] = High(x)
  BY <1>1, <1>3, Wrote16
<1>5. v \in Seq(Octet) /\ at + 1 < Len(v)
  BY <1>3, <1>4 DEF Differs
<1>6. GetUint16(v, at, TRUE) = Word(v[at + 1], v[at + 2])
  BY <1>5, Read16, Zenon
<1>7. Word(Low(x), High(x)) = x
  <2>1. Low(x) \in Octet /\ High(x) \in Octet /\ Above(x) \in Int /\ x = Whole(Above(x), Word(Low(x), High(x)))
    BY <1>3, WordOf, Zenon
  <2>2. PICK a \in Int : a = Above(x)
    BY <2>1
  <2>3. PICK w : w = Word(Low(x), High(x))
    OBVIOUS
  <2>4. w \in Int /\ 0 <= w /\ w <= 65535
    BY <2>1, <2>3, OctetIs DEF Word
  <2>5. x = 65536 * a + w
    BY <2>1, <2>2, <2>3 DEF Whole
  <2> QED BY <1>0, <2>3, <2>4, <2>5 DEF Unsigned16
<1>8. Get(v, at, f) = x
  BY <1>0, <1>4, <1>6, <1>7, GetField, Zenon
<1> QED BY <1>2, <1>4, <1>8

LEMMA SetGet32 ==
  ASSUME NEW u \in Seq(Octet), NEW at \in Nat, NEW f, NEW x,
         f.width = 4, Holds(f, x), at + 4 <= Len(u)
  PROVE  Differs(u, Set(u, at, f, x), at, 4) /\ Get(Set(u, at, f, x), at, f) = x
<1>0. Field(f) /\ Signed32(x)
  BY DEF Holds, Field
<1>1. PICK v : v = SetUint32(u, at, x, TRUE)
  OBVIOUS
<1>2. Set(u, at, f, x) = v
  <2>1. f.width # 1 /\ f.width # 2
    OBVIOUS
  <2> QED BY <1>1, <2>1, Zenon DEF Set
<1>3. at + 3 < Len(u) /\ x \in Int
  BY <1>0, LenProperties DEF Signed32
<1>4. /\ Differs(u, v, at, 4) /\ v[at + 1] = Low(x) /\ v[at + 2] = High(x)
      /\ v[at + 3] = Low(Above(x)) /\ v[at + 4] = High(Above(x))
  BY <1>1, <1>3, Wrote32
<1>5. v \in Seq(Octet) /\ at + 3 < Len(v)
  BY <1>3, <1>4 DEF Differs
<1>6. GetUint32(v, at, TRUE) = Long(Word(v[at + 1], v[at + 2]), Word(v[at + 3], v[at + 4]))
  BY <1>5, Read32, Zenon
<1>7. Long(Word(Low(x), High(x)), Word(Low(Above(x)), High(Above(x)))) = x
  <2>1. PICK c : c = Above(x)
    OBVIOUS
  <2>2. Low(x) \in Octet /\ High(x) \in Octet /\ c \in Int /\ x = Whole(c, Word(Low(x), High(x)))
    BY <1>3, <2>1, WordOf, Zenon
  <2>3. Low(c) \in Octet /\ High(c) \in Octet /\ Above(c) \in Int /\ c = Whole(Above(c), Word(Low(c), High(c)))
    BY <2>2, WordOf, Zenon
  <2>4. PICK high : high = Word(Low(c), High(c))
    OBVIOUS
  <2>5. high \in Int /\ 0 <= high /\ high <= 65535
    BY <2>3, <2>4, OctetIs DEF Word
  <2>6. -32768 <= c /\ c <= 32767
    BY <2>2, <1>0, OctetIs DEF Signed32, Word, Whole
  <2>7. Signed(high) = c
    BY <2>2, <2>3, <2>4, <2>5, <2>6 DEF Signed, Whole
  <2> QED BY <2>1, <2>2, <2>4, <2>7 DEF Long, Whole
<1>8. Get(v, at, f) = x
  BY <1>0, <1>4, <1>6, <1>7, GetField, Zenon
<1> QED BY <1>2, <1>4, <1>8

LEMMA SetGet ==
  ASSUME NEW u \in Seq(Octet), NEW at \in Nat, NEW f, NEW x, Holds(f, x), at + f.width <= Len(u)
  PROVE  Differs(u, Set(u, at, f, x), at, f.width) /\ Get(Set(u, at, f, x), at, f) = x
<1>1. CASE f.width = 1
  <2>1. at + 1 <= Len(u)
    BY <1>1
  <2>2. Differs(u, Set(u, at, f, x), at, 1) /\ Get(Set(u, at, f, x), at, f) = x
    BY <1>1, <2>1, SetGet8
  <2> QED BY <1>1, <2>2
<1>2. CASE f.width = 2
  <2>1. at + 2 <= Len(u)
    BY <1>2
  <2>2. Differs(u, Set(u, at, f, x), at, 2) /\ Get(Set(u, at, f, x), at, f) = x
    BY <1>2, <2>1, SetGet16
  <2> QED BY <1>2, <2>2
<1>3. CASE f.width = 4
  <2>1. at + 4 <= Len(u)
    BY <1>3
  <2>2. Differs(u, Set(u, at, f, x), at, 4) /\ Get(Set(u, at, f, x), at, f) = x
    BY <1>3, <2>1, SetGet32
  <2> QED BY <1>3, <2>2
<1> QED BY <1>1, <1>2, <1>3 DEF Holds, Field

\* A field that ends before the bytes written is read as before.
LEMMA GetSame ==
  ASSUME NEW u, NEW v, NEW from \in Nat, NEW n \in Nat, Differs(u, v, from, n),
         NEW f, Field(f), NEW at \in Nat, at + f.width <= Len(u), at + f.width <= from
  PROVE  Get(v, at, f) = Get(u, at, f)
<1>0. f.width \in {1, 2, 4} /\ f.little = TRUE
  BY DEF Field
<1>1. u \in Seq(Octet) /\ v \in Seq(Octet) /\ Len(u) \in Nat /\ Len(v) = Len(u)
  BY LenProperties DEF Differs
<1>2. ASSUME NEW i \in Nat, i >= 1, i <= at + f.width
      PROVE  v[i] = u[i]
  BY <1>0, <1>1, <1>2 DEF Differs
<1>3. CASE f.width = 1
  <2>1. v[at + 1] = u[at + 1]
    BY <1>2, <1>3
  <2>2. at < Len(u)
    BY <1>1, <1>3
  <2>3. GetUint8(v, at) = v[at + 1] /\ GetUint8(u, at) = u[at + 1]
    BY <1>1, <2>2, Read8
  <2> QED BY <1>0, <1>3, <2>1, <2>3, GetField, Zenon
<1>4. CASE f.width = 2
  <2>1. v[at + 1] = u[at + 1] /\ v[at + 2] = u[at + 2]
    BY <1>2, <1>4
  <2>2. at + 1 < Len(u)
    BY <1>1, <1>4
  <2>3. GetUint16(v, at, TRUE) = Word(v[at + 1], v[at + 2]) /\ GetUint16(u, at, TRUE) = Word(u[at + 1], u[at + 2])
    BY <1>1, <2>2, Read16
  <2> QED BY <1>0, <1>4, <2>1, <2>3, GetField, Zenon
<1>5. CASE f.width = 4
  <2>1. v[at + 1] = u[at + 1] /\ v[at + 2] = u[at + 2] /\ v[at + 3] = u[at + 3] /\ v[at + 4] = u[at + 4]
    <3>1. /\ at + 1 \in Nat /\ at + 1 >= 1 /\ at + 1 <= at + 4
          /\ at + 2 \in Nat /\ at + 2 >= 1 /\ at + 2 <= at + 4
          /\ at + 3 \in Nat /\ at + 3 >= 1 /\ at + 3 <= at + 4
          /\ at + 4 \in Nat /\ at + 4 >= 1 /\ at + 4 <= at + 4
      OBVIOUS
    <3>2. \A i \in Nat : i >= 1 /\ i <= at + 4 => v[i] = u[i]
      BY <1>2, <1>5
    <3> QED BY <3>1, <3>2
  <2>2. at + 3 < Len(u)
    BY <1>1, <1>5
  <2>3. v \in Seq(Octet) /\ at + 3 < Len(v)
    BY <1>1, <2>2
  <2>4. GetUint32(v, at, TRUE) = Long(Word(v[at + 1], v[at + 2]), Word(v[at + 3], v[at + 4]))
    BY <2>3, Read32
  <2>5. GetUint32(u, at, TRUE) = Long(Word(u[at + 1], u[at + 2]), Word(u[at + 3], u[at + 4]))
    BY <1>1, <2>2, Read32
  <2>6. GetUint32(v, at, TRUE) = GetUint32(u, at, TRUE)
    BY <2>1, <2>4, <2>5
  <2> QED BY <1>0, <1>5, <2>6, GetField, Zenon
<1> QED BY <1>0, <1>3, <1>4, <1>5

-----------------------------------------------------------------------------
(* A layout: where its fields are, and what is written in all of them.         *)

Ends(layout, e) ==
  e = [i \in 0..Len(layout) |-> IF i = 0 THEN 0 ELSE e[i - 1] + layout[i].width]

\* Offset is computed by a function that there is, and that has the sums.
LEMMA OffsetIs ==
  ASSUME NEW layout, NEW k
  PROVE  Offset(layout, k) = (CHOOSE e : Ends(layout, e))[k]
BY Zenon DEF Offset, Ends

LEMMA EndsExist ==
  ASSUME NEW layout, Len(layout) \in Nat
  PROVE  \E e : Ends(layout, e)
<1> DEFINE To(n, e) == e = [i \in 0..n |-> IF i = 0 THEN 0 ELSE e[i - 1] + layout[i].width]
           S == {n \in Nat : \E e : To(n, e)}
<1>1. 0 \in S
  <2>1. To(0, [i \in 0..0 |-> 0])
    OBVIOUS
  <2> QED BY <2>1
<1>2. ASSUME NEW n \in Nat, n \in S PROVE n + 1 \in S
  <2>1. PICK e : To(n, e)
    BY <1>2
  <2> DEFINE g == [i \in 0..(n + 1) |-> IF i \in 0..n THEN e[i] ELSE e[i - 1] + layout[i].width]
  <2>2. \A i \in 0..n : e[i] = IF i = 0 THEN 0 ELSE e[i - 1] + layout[i].width
    BY <2>1
  <2>3. \A i \in 0..n : g[i] = e[i]
    OBVIOUS
  <2>4. ASSUME NEW i \in 0..(n + 1)
        PROVE  g[i] = IF i = 0 THEN 0 ELSE g[i - 1] + layout[i].width
    <3>1. i # 0 => i - 1 \in 0..n
      OBVIOUS
    <3>2. i # 0 => g[i - 1] = e[i - 1]
      BY <2>3, <3>1
    <3>3. g[i] = IF i = 0 THEN 0 ELSE e[i - 1] + layout[i].width
      BY <2>2
    <3> QED BY <3>2, <3>3
  <2>5. g = [i \in 0..(n + 1) |-> g[i]]
    OBVIOUS
  <2> HIDE DEF g
  <2>6. To(n + 1, g)
    BY <2>4, <2>5
  <2> QED BY <2>6
<1> HIDE DEF S
<1>3. Len(layout) \in S
  BY <1>1, <1>2, Steps
<1> USE DEF S
<1> QED BY <1>3 DEF Ends

\* The fields lie one after the other.
LEMMA Offsets ==
  ASSUME NEW layout, Len(layout) \in Nat
  PROVE  /\ Offset(layout, 0) = 0
         /\ \A k \in 1..Len(layout) : Offset(layout, k) = Offset(layout, k - 1) + layout[k].width
<1> DEFINE e == CHOOSE e : Ends(layout, e)
<1>1. Ends(layout, e)
  BY EndsExist, Zenon
<1>2. \A k : Offset(layout, k) = e[k]
  BY OffsetIs, Zenon
<1> HIDE DEF e
<1>3. \A k \in 0..Len(layout) : e[k] = IF k = 0 THEN 0 ELSE e[k - 1] + layout[k].width
  BY <1>1 DEF Ends
<1> QED BY <1>2, <1>3

\* A field's offset is after the fields before it.
LEMMA OffsetsGrow ==
  ASSUME NEW layout, Len(layout) \in Nat, \A k \in 1..Len(layout) : layout[k].width \in {1, 2, 4}
  PROVE  /\ \A k \in 0..Len(layout) : Offset(layout, k) \in Nat
         /\ \A k, m \in 0..Len(layout) : k <= m => Offset(layout, k) <= Offset(layout, m)
<1> DEFINE S == {n \in Nat : n <= Len(layout) =>
                   \A k \in 0..n : Offset(layout, k) \in Nat /\ Offset(layout, k) <= Offset(layout, n)}
<1>1. 0 \in S
  BY Offsets
<1>2. ASSUME NEW n \in Nat, n \in S PROVE n + 1 \in S
  <2> SUFFICES ASSUME n + 1 <= Len(layout)
               PROVE  \A k \in 0..(n + 1) :
                        Offset(layout, k) \in Nat /\ Offset(layout, k) <= Offset(layout, n + 1)
    OBVIOUS
  <2>1. n <= Len(layout) /\ n + 1 \in 1..Len(layout) /\ (n + 1) - 1 = n
    OBVIOUS
  <2>2. Offset(layout, n) \in Nat /\ \A k \in 0..n : Offset(layout, k) \in Nat /\ Offset(layout, k) <= Offset(layout, n)
    BY <1>2, <2>1
  <2>3. Offset(layout, n + 1) = Offset(layout, n) + layout[n + 1].width
    BY <2>1, Offsets
  <2>4. layout[n + 1].width \in {1, 2, 4}
    BY <2>1
  <2>5. Offset(layout, n + 1) \in Nat /\ Offset(layout, n) <= Offset(layout, n + 1)
    BY <2>2, <2>3, <2>4
  <2>6. ASSUME NEW k \in 0..(n + 1)
        PROVE  Offset(layout, k) \in Nat /\ Offset(layout, k) <= Offset(layout, n + 1)
    <3>1. CASE k = n + 1
      BY <3>1, <2>5
    <3>2. CASE k \in 0..n
      <4>1. Offset(layout, k) \in Nat /\ Offset(layout, k) <= Offset(layout, n)
        BY <2>2, <3>2
      <4> QED BY <2>2, <2>5, <4>1
    <3> QED BY <3>1, <3>2
  <2> QED BY <2>5, <2>6
<1> HIDE DEF S
<1>3. \A n \in Nat : n \in S
  BY <1>1, <1>2, Steps
<1> USE DEF S
<1> QED BY <1>3

\* A layout whose fields hold the values, within a buffer u of bytes from at.
Fits(u, at, layout, vals) ==
  /\ u \in Seq(Octet) /\ at \in Nat /\ Len(layout) \in Nat
  /\ \A k \in 1..Len(layout) : Holds(layout[k], vals[k])
  /\ at + Size(layout) <= Len(u)

\* Each field of a layout that fits is in the buffer.
LEMMA FieldWithin ==
  ASSUME NEW u, NEW at, NEW layout, NEW vals, Fits(u, at, layout, vals), NEW k \in 1..Len(layout)
  PROVE  /\ Holds(layout[k], vals[k]) /\ Field(layout[k])
         /\ Offset(layout, k - 1) \in Nat /\ Offset(layout, k) \in Nat
         /\ Offset(layout, k) = Offset(layout, k - 1) + layout[k].width
         /\ at + Offset(layout, k) <= Len(u)
<1>1. /\ u \in Seq(Octet) /\ at \in Nat /\ Len(layout) \in Nat /\ Len(u) \in Nat
      /\ at + Size(layout) <= Len(u)
  BY LenProperties DEF Fits
<1>2. \A i \in 1..Len(layout) : Field(layout[i])
  BY DEF Fits, Holds
<1>3. Offset(layout, k) = Offset(layout, k - 1) + layout[k].width
  BY <1>1, Offsets
<1>4. /\ Offset(layout, k - 1) \in Nat /\ Offset(layout, k) \in Nat /\ Offset(layout, Len(layout)) \in Nat
      /\ Offset(layout, k) <= Offset(layout, Len(layout))
  <2>1. k - 1 \in 0..Len(layout) /\ k \in 0..Len(layout) /\ Len(layout) \in 0..Len(layout) /\ k <= Len(layout)
    BY <1>1
  <2> QED BY <1>1, <1>2, <2>1, OffsetsGrow DEF Field
<1>5. at + Offset(layout, k) <= Len(u)
  BY <1>1, <1>4 DEF Size
<1>6. Holds(layout[k], vals[k])
  BY DEF Fits
<1> QED BY <1>2, <1>3, <1>4, <1>5, <1>6

Puts(u, at, layout, vals, b) ==
  b = [k \in 0..Len(layout) |->
         IF k = 0 THEN u ELSE Set(b[k - 1], at + Offset(layout, k - 1), layout[k], vals[k])]

\* Write is computed by a function that there is.
LEMMA WriteIs ==
  ASSUME NEW u, NEW at, NEW layout, NEW vals
  PROVE  Write(u, at, layout, vals) = (CHOOSE b : Puts(u, at, layout, vals, b))[Len(layout)]
BY Zenon DEF Write, Puts

LEMMA PutsExist ==
  ASSUME NEW u, NEW at, NEW layout, NEW vals, Len(layout) \in Nat
  PROVE  \E b : Puts(u, at, layout, vals, b)
<1> DEFINE Next1(k, x) == Set(x, at + Offset(layout, k - 1), layout[k], vals[k])
           To(n, b) == b = [k \in 0..n |-> IF k = 0 THEN u ELSE Next1(k, b[k - 1])]
           S == {n \in Nat : \E b : To(n, b)}
<1>1. 0 \in S
  <2>1. To(0, [k \in 0..0 |-> u])
    OBVIOUS
  <2> QED BY <2>1
<1>p. Len(layout) \in S => \E b : Puts(u, at, layout, vals, b)
  BY DEF Puts
<1> HIDE DEF Next1
<1>2. ASSUME NEW n \in Nat, n \in S PROVE n + 1 \in S
  <2>1. PICK b : To(n, b)
    BY <1>2
  <2> DEFINE g == [k \in 0..(n + 1) |-> IF k \in 0..n THEN b[k] ELSE Next1(k, b[k - 1])]
  <2>2. \A k \in 0..n : b[k] = IF k = 0 THEN u ELSE Next1(k, b[k - 1])
    BY <2>1
  <2>3. \A k \in 0..n : g[k] = b[k]
    OBVIOUS
  <2>4. ASSUME NEW k \in 0..(n + 1)
        PROVE  g[k] = IF k = 0 THEN u ELSE Next1(k, g[k - 1])
    <3>1. k # 0 => k - 1 \in 0..n
      OBVIOUS
    <3>2. k # 0 => g[k - 1] = b[k - 1]
      BY <2>3, <3>1
    <3>3. g[k] = IF k = 0 THEN u ELSE Next1(k, b[k - 1])
      BY <2>2
    <3> QED BY <3>2, <3>3
  <2>5. g = [k \in 0..(n + 1) |-> g[k]]
    OBVIOUS
  <2> HIDE DEF g
  <2>6. To(n + 1, g)
    BY <2>4, <2>5
  <2> QED BY <2>6
<1> HIDE DEF S
<1>3. Len(layout) \in S
  BY <1>1, <1>2, Steps
<1> QED BY <1>3, <1>p

\* What is written is read: the bytes of every field hold its value, and the
\* bytes before the layout, and after it, are left as they were.
LEMMA WriteRead ==
  ASSUME NEW u, NEW at, NEW layout, NEW vals, Fits(u, at, layout, vals)
  PROVE  /\ Differs(u, Write(u, at, layout, vals), at, Size(layout))
         /\ \A j \in 1..Len(layout) :
              Get(Write(u, at, layout, vals), at + Offset(layout, j - 1), layout[j]) = vals[j]
<1> DEFINE b == CHOOSE b : Puts(u, at, layout, vals, b)
           S == {n \in Nat : n <= Len(layout) =>
                   /\ Differs(u, b[n], at, Offset(layout, n))
                   /\ \A j \in 1..n : Get(b[n], at + Offset(layout, j - 1), layout[j]) = vals[j]}
<1>0. Len(layout) \in Nat /\ u \in Seq(Octet) /\ at \in Nat
  BY DEF Fits
<1>1. Puts(u, at, layout, vals, b)
  BY <1>0, PutsExist, Zenon
<1>2. Write(u, at, layout, vals) = b[Len(layout)]
  BY WriteIs, Zenon
<1> HIDE DEF b
<1>3. /\ b[0] = u
      /\ \A k \in 1..Len(layout) : b[k] = Set(b[k - 1], at + Offset(layout, k - 1), layout[k], vals[k])
  BY <1>0, <1>1 DEF Puts
<1>4. 0 \in S
  <2>1. Differs(u, u, at, Offset(layout, 0))
    BY <1>0 DEF Differs
  <2> QED BY <1>3, <2>1
<1>5. ASSUME NEW n \in Nat, n \in S PROVE n + 1 \in S
  <2> SUFFICES ASSUME n + 1 <= Len(layout)
               PROVE  /\ Differs(u, b[n + 1], at, Offset(layout, n + 1))
                      /\ \A j \in 1..(n + 1) : Get(b[n + 1], at + Offset(layout, j - 1), layout[j]) = vals[j]
    OBVIOUS
  <2>1. n + 1 \in 1..Len(layout) /\ (n + 1) - 1 = n /\ n <= Len(layout)
    BY <1>0
  <2>2. /\ Differs(u, b[n], at, Offset(layout, n))
        /\ \A j \in 1..n : Get(b[n], at + Offset(layout, j - 1), layout[j]) = vals[j]
    BY <1>5, <2>1
  <2>3. PICK f : f = layout[n + 1]
    OBVIOUS
  <2>4. PICK o : o = Offset(layout, n)
    OBVIOUS
  <2>5. /\ Holds(f, vals[n + 1]) /\ Field(f) /\ o \in Nat
        /\ Offset(layout, n + 1) = o + f.width /\ at + Offset(layout, n + 1) <= Len(u)
    <3>1. /\ Holds(layout[n + 1], vals[n + 1]) /\ Field(layout[n + 1])
          /\ Offset(layout, (n + 1) - 1) \in Nat
          /\ Offset(layout, n + 1) = Offset(layout, (n + 1) - 1) + layout[n + 1].width
          /\ at + Offset(layout, n + 1) <= Len(u)
      BY <2>1, FieldWithin
    <3> QED BY <2>1, <2>3, <2>4, <3>1
  <2>6. b[n + 1] = Set(b[n], at + o, f, vals[n + 1])
    BY <1>3, <2>1, <2>3, <2>4
  <2>7. b[n] \in Seq(Octet) /\ Len(b[n]) = Len(u) /\ at + o \in Nat /\ (at + o) + f.width <= Len(b[n])
    BY <1>0, <2>2, <2>5 DEF Differs, Field
  <2>8. Differs(b[n], b[n + 1], at + o, f.width) /\ Get(b[n + 1], at + o, f) = vals[n + 1]
    BY <2>5, <2>6, <2>7, SetGet
  <2>9. Differs(u, b[n + 1], at, Offset(layout, n + 1))
    <3>1. u \in Seq(Octet) /\ b[n + 1] \in Seq(Octet) /\ Len(b[n + 1]) = Len(u)
      BY <1>0, <2>7, <2>8 DEF Differs
    <3>2. ASSUME NEW i \in Nat, i >= 1, i <= Len(u), i <= at \/ i > at + Offset(layout, n + 1)
          PROVE  b[n + 1][i] = u[i]
      <4>1. (i <= at \/ i > at + o) /\ (i <= at + o \/ i > (at + o) + f.width)
        BY <1>0, <2>5, <3>2 DEF Field
      <4>2. b[n][i] = u[i]
        BY <2>2, <2>4, <3>2, <4>1 DEF Differs
      <4>3. b[n + 1][i] = b[n][i]
        BY <2>7, <2>8, <3>2, <4>1 DEF Differs
      <4> QED BY <4>2, <4>3
    <3> QED BY <3>1, <3>2 DEF Differs
  <2>10. ASSUME NEW j \in 1..(n + 1)
         PROVE  Get(b[n + 1], at + Offset(layout, j - 1), layout[j]) = vals[j]
    <3>1. CASE j = n + 1
      BY <2>1, <2>3, <2>4, <2>8, <3>1
    <3>2. CASE j \in 1..n
      <4>1. j \in 1..Len(layout) /\ j \in 0..Len(layout) /\ n \in 0..Len(layout) /\ j <= n
        BY <1>0, <2>1, <3>2
      <4>2. PICK p : p = Offset(layout, j - 1)
        OBVIOUS
      <4>3. PICK h : h = layout[j]
        OBVIOUS
      <4>4. /\ p \in Nat /\ Field(h)
            /\ Offset(layout, j) = p + h.width
        BY <4>1, <4>2, <4>3, FieldWithin
      <4>5. Offset(layout, j) <= o
        <5>1. \A k \in 1..Len(layout) : layout[k].width \in {1, 2, 4}
          BY FieldWithin DEF Field
        <5> QED BY <1>0, <2>4, <4>1, <5>1, OffsetsGrow
      <4>6. PICK x : x = b[n]
        OBVIOUS
      <4>7. PICK y : y = b[n + 1]
        OBVIOUS
      <4>8. PICK w \in Nat : w = f.width
        BY <2>5 DEF Field
      <4>10. PICK from \in Nat : from = at + o
        BY <1>0, <2>5
      <4>11. PICK to \in Nat : to = at + p
        BY <1>0, <4>4
      <4>12. Differs(x, y, from, w)
        BY <2>8, <4>6, <4>7, <4>8, <4>10
      <4>13. to + h.width <= from /\ to + h.width <= Len(x) /\ Field(h)
        <5>1. from + w <= Len(x) /\ Len(x) \in Nat
          BY <2>7, <4>6, <4>8, <4>10, LenProperties
        <5>2. PICK q \in Nat : q = h.width /\ p + q <= o
          BY <4>4, <4>5 DEF Field
        <5>3. to + q <= from
          BY <1>0, <2>5, <4>4, <4>10, <4>11, <5>2
        <5> QED BY <4>4, <5>1, <5>2, <5>3
      <4>14. Get(y, to, h) = Get(x, to, h)
        BY <4>12, <4>13, GetSame
      <4>9. Get(b[n], at + p, h) = vals[j]
        BY <2>2, <3>2, <4>2, <4>3
      <4> QED BY <4>2, <4>3, <4>6, <4>7, <4>9, <4>11, <4>14
    <3> QED BY <3>1, <3>2
  <2> QED BY <2>9, <2>10
<1> HIDE DEF S
<1>6. Len(layout) \in S
  BY <1>0, <1>4, <1>5, Steps
<1> USE DEF S
<1> QED BY <1>0, <1>2, <1>6 DEF Size

-----------------------------------------------------------------------------
(* Layouts put together.  layout carries vals in n bytes.                      *)

IsList(s) == \E S : s \in Seq(S)

Carries(layout, vals, n) ==
  /\ IsList(layout) /\ vals \in Seq(Int) /\ Len(vals) = Len(layout)
  /\ \A k \in 1..Len(layout) : Holds(layout[k], vals[k])
  /\ Size(layout) = n

\* What \o has at each place.
LEMMA ConcatList ==
  ASSUME NEW a, NEW b, IsList(a), IsList(b)
  PROVE  /\ IsList(a \o b) /\ Len(a) \in Nat /\ Len(b) \in Nat /\ Len(a \o b) = Len(a) + Len(b)
         /\ \A i \in 1..Len(a) : (a \o b)[i] = a[i]
         /\ \A i \in 1..Len(b) : (a \o b)[Len(a) + i] = b[i]
<1>1. PICK S : a \in Seq(S)
  BY DEF IsList
<1>2. PICK T : b \in Seq(T)
  BY DEF IsList
<1>3. a \in Seq(S \cup T) /\ b \in Seq(S \cup T)
  BY <1>1, <1>2
<1>4. Len(a) \in Nat /\ Len(b) \in Nat
  BY <1>3, LenProperties
<1>5. a \o b \in Seq(S \cup T) /\ Len(a \o b) = Len(a) + Len(b)
  BY <1>3
<1>6. \A i \in 1..Len(a) : (a \o b)[i] = a[i]
  BY <1>3, <1>4
<1>7. ASSUME NEW i \in 1..Len(b) PROVE (a \o b)[Len(a) + i] = b[i]
  <2>1. Len(a) + i \in 1..(Len(a) + Len(b)) /\ Len(a) + i > Len(a) /\ (Len(a) + i) - Len(a) = i
    BY <1>4
  <2> QED BY <1>3, <1>4, <2>1
<1> QED BY <1>4, <1>5, <1>6, <1>7 DEF IsList

\* The second layout's fields come after all of the first's.
LEMMA OffsetConcat ==
  ASSUME NEW a, NEW b, IsList(a), IsList(b),
         \A k \in 1..Len(a) : Field(a[k]), \A k \in 1..Len(b) : Field(b[k])
  PROVE  /\ \A k \in 0..Len(a) : Offset(a \o b, k) = Offset(a, k)
         /\ \A k \in 0..Len(b) : Offset(a \o b, Len(a) + k) = Size(a) + Offset(b, k)
<1> DEFINE c == a \o b
           S == {k \in Nat : k <= Len(a) => Offset(c, k) = Offset(a, k)}
           T == {k \in Nat : k <= Len(b) => Offset(c, Len(a) + k) = Size(a) + Offset(b, k)}
<1>1. /\ Len(a) \in Nat /\ Len(b) \in Nat /\ Len(c) = Len(a) + Len(b)
      /\ \A i \in 1..Len(a) : c[i] = a[i]
      /\ \A i \in 1..Len(b) : c[Len(a) + i] = b[i]
  BY ConcatList
<1> HIDE DEF c
<1>2. Len(c) \in Nat
  BY <1>1
<1>3. 0 \in S
  BY <1>1, <1>2, Offsets
<1>4. ASSUME NEW k \in Nat, k \in S PROVE k + 1 \in S
  <2> SUFFICES ASSUME k + 1 <= Len(a)
               PROVE  Offset(c, k + 1) = Offset(a, k + 1)
    OBVIOUS
  <2>1. k + 1 \in 1..Len(a) /\ k + 1 \in 1..Len(c) /\ (k + 1) - 1 = k /\ k <= Len(a)
    BY <1>1
  <2>2. Offset(c, k) = Offset(a, k) /\ c[k + 1] = a[k + 1]
    BY <1>1, <1>4, <2>1
  <2>3. Offset(c, k + 1) = Offset(c, k) + c[k + 1].width
    BY <1>2, <2>1, Offsets
  <2>4. Offset(a, k + 1) = Offset(a, k) + a[k + 1].width
    BY <1>1, <2>1, Offsets
  <2> QED BY <2>2, <2>3, <2>4
<1> HIDE DEF S
<1>5. \A k \in Nat : k \in S
  BY <1>3, <1>4, Steps
<1> USE DEF S
<1>6. \A k \in 0..Len(a) : Offset(c, k) = Offset(a, k)
  BY <1>1, <1>5
<1>7. Offset(a, Len(a)) \in Nat /\ \A k \in 0..Len(b) : Offset(b, k) \in Nat
  BY <1>1, OffsetsGrow DEF Field
<1>8. 0 \in T
  <2>1. Offset(b, 0) = 0
    BY <1>1, Offsets
  <2>2. Offset(c, Len(a)) = Size(a)
    BY <1>1, <1>6 DEF Size
  <2> QED BY <1>1, <1>7, <2>1, <2>2 DEF Size
<1>9. ASSUME NEW k \in Nat, k \in T PROVE k + 1 \in T
  <2> SUFFICES ASSUME k + 1 <= Len(b)
               PROVE  Offset(c, Len(a) + (k + 1)) = Size(a) + Offset(b, k + 1)
    OBVIOUS
  <2>1. PICK j \in Nat : j = Len(a) + (k + 1)
    BY <1>1
  <2>2. /\ k + 1 \in 1..Len(b) /\ (k + 1) - 1 = k /\ k <= Len(b) /\ k \in 0..Len(b)
        /\ j \in 1..Len(c) /\ j - 1 = Len(a) + k
    BY <1>1, <2>1
  <2>3. Offset(c, Len(a) + k) = Size(a) + Offset(b, k) /\ c[j] = b[k + 1]
    BY <1>1, <1>9, <2>1, <2>2
  <2>4. Offset(c, j) = Offset(c, Len(a) + k) + c[j].width
    BY <1>2, <2>2, Offsets
  <2>5. Offset(b, k + 1) = Offset(b, k) + b[k + 1].width
    BY <1>1, <2>2, Offsets
  <2>6. b[k + 1].width \in Nat /\ Size(a) \in Nat /\ Offset(b, k) \in Nat
    <3>1. Field(b[k + 1])
      BY <2>2
    <3> QED BY <1>7, <2>2, <3>1 DEF Field, Size
  <2> QED BY <2>1, <2>3, <2>4, <2>5, <2>6
<1> HIDE DEF T
<1>10. \A k \in Nat : k \in T
  BY <1>8, <1>9, Steps
<1> USE DEF T
<1>11. \A k \in 0..Len(b) : Offset(c, Len(a) + k) = Size(a) + Offset(b, k)
  BY <1>1, <1>10
<1> QED BY <1>6, <1>11 DEF c

\* So the two carry the values of both.
LEMMA CarriesConcat ==
  ASSUME NEW a, NEW x, NEW m, NEW b, NEW y, NEW n, Carries(a, x, m), Carries(b, y, n)
  PROVE  Carries(a \o b, x \o y, m + n)
<1> DEFINE c == a \o b
           z == x \o y
<1>1. /\ Len(a) \in Nat /\ Len(b) \in Nat /\ IsList(c) /\ Len(c) = Len(a) + Len(b)
      /\ \A i \in 1..Len(a) : c[i] = a[i]
      /\ \A i \in 1..Len(b) : c[Len(a) + i] = b[i]
  BY ConcatList DEF Carries
<1>2. z \in Seq(Int) /\ Len(z) = Len(x) + Len(y)
  <2>1. x \in Seq(Int) /\ y \in Seq(Int)
    BY DEF Carries
  <2> QED BY <2>1
<1>3. /\ \A i \in 1..Len(x) : z[i] = x[i]
      /\ \A i \in 1..Len(y) : z[Len(x) + i] = y[i]
  BY ConcatList DEF Carries, IsList
<1>4. Len(x) = Len(a) /\ Len(y) = Len(b)
  BY DEF Carries
<1> HIDE DEF c, z
<1>5. ASSUME NEW k \in 1..Len(c) PROVE Holds(c[k], z[k])
  <2>1. CASE k <= Len(a)
    <3>1. k \in 1..Len(a)
      BY <1>1, <2>1
    <3>2. c[k] = a[k] /\ z[k] = x[k]
      BY <1>1, <1>3, <1>4, <3>1
    <3> QED BY <3>1, <3>2 DEF Carries
  <2>2. CASE k > Len(a)
    <3>1. PICK i \in 1..Len(b) : k = Len(a) + i
      <4>1. k - Len(a) \in 1..Len(b) /\ k = Len(a) + (k - Len(a))
        BY <1>1, <2>2
      <4> QED BY <4>1
    <3>2. c[k] = b[i] /\ z[k] = y[i]
      BY <1>1, <1>3, <1>4, <3>1
    <3> QED BY <3>1, <3>2 DEF Carries
  <2> QED BY <1>1, <2>1, <2>2
<1>6. Size(c) = m + n
  <2>1. IsList(a) /\ IsList(b) /\ (\A k \in 1..Len(a) : Field(a[k])) /\ (\A k \in 1..Len(b) : Field(b[k]))
    BY DEF Carries, Holds
  <2>2. Offset(c, Len(a) + Len(b)) = Size(a) + Offset(b, Len(b))
    <3>1. \A k \in 0..Len(b) : Offset(c, Len(a) + k) = Size(a) + Offset(b, k)
      BY <2>1, OffsetConcat DEF c
    <3>2. Len(b) \in 0..Len(b)
      BY <1>1
    <3> QED BY <3>1, <3>2
  <2>3. Size(a) = m /\ Size(b) = n
    BY DEF Carries
  <2> QED BY <1>1, <2>2, <2>3 DEF Size
<1>7. Carries(c, z, m + n)
  BY <1>1, <1>2, <1>4, <1>5, <1>6 DEF Carries
<1> QED BY <1>7 DEF c, z

-----------------------------------------------------------------------------
(* Fields of one width.                                                        *)

\* Fields of one width: where they are, and the values they carry.
LEMMA FieldsAre ==
  ASSUME NEW names, NEW width \in {1, 2, 4}, Len(names) \in Nat
  PROVE  LET layout == Fields(names, width)
         IN  /\ IsList(layout) /\ Len(layout) = Len(names)
             /\ \A k \in 1..Len(names) : Field(layout[k]) /\ layout[k].width = width
<1> DEFINE layout == Fields(names, width)
           S == {[name |-> names[k], width |-> width, little |-> TRUE] : k \in 1..Len(names)}
<1>1. layout = [k \in 1..Len(names) |-> [name |-> names[k], width |-> width, little |-> TRUE]]
  BY DEF Fields
<1>2. layout \in [1..Len(names) -> S]
  BY <1>1
<1>3. \A k \in 1..Len(names) : layout[k].width = width /\ layout[k].little = TRUE
  BY <1>1
<1> HIDE DEF layout, S
<1>4. layout \in Seq(S) /\ Len(layout) = Len(names)
  BY <1>2
<1>5. IsList(layout)
  BY <1>4 DEF IsList
<1>6. \A k \in 1..Len(names) : Field(layout[k])
  BY <1>3 DEF Field
<1> QED BY <1>3, <1>4, <1>5, <1>6 DEF layout

LEMMA FieldOffsets ==
  ASSUME NEW names, NEW width \in {1, 2, 4}, Len(names) \in Nat
  PROVE  \A k \in 0..Len(names) : Offset(Fields(names, width), k) = width * k
<1> DEFINE layout == Fields(names, width)
           S == {k \in Nat : k <= Len(names) => Offset(layout, k) = width * k}
<1>1. /\ Len(layout) = Len(names)
      /\ \A k \in 1..Len(names) : layout[k].width = width
  BY FieldsAre
<1> HIDE DEF layout
<1>2. 0 \in S
  BY <1>1, Offsets
<1>3. ASSUME NEW k \in Nat, k \in S PROVE k + 1 \in S
  <2> SUFFICES ASSUME k + 1 <= Len(names)
               PROVE  Offset(layout, k + 1) = width * (k + 1)
    OBVIOUS
  <2>1. k + 1 \in 1..Len(names) /\ (k + 1) - 1 = k /\ k <= Len(names)
    OBVIOUS
  <2>2. Offset(layout, k + 1) = Offset(layout, k) + width
    BY <1>1, <2>1, Offsets
  <2>3. Offset(layout, k) = width * k
    BY <1>3, <2>1
  <2>4. width * (k + 1) = width * k + width
    OBVIOUS
  <2> QED BY <2>2, <2>3, <2>4
<1> HIDE DEF S
<1>4. \A k \in Nat : k \in S
  BY <1>2, <1>3, Steps
<1> USE DEF S
<1> QED BY <1>4 DEF layout

LEMMA FieldsCarry ==
  ASSUME NEW names, NEW width \in {1, 2, 4}, NEW vals \in Seq(Int), Len(names) = Len(vals),
         \A k \in 1..Len(vals) : \/ width = 1 /\ vals[k] \in Octet
                                 \/ width = 2 /\ Unsigned16(vals[k])
                                 \/ width = 4 /\ Signed32(vals[k])
  PROVE  Carries(Fields(names, width), vals, width * Len(vals))
<1> DEFINE layout == Fields(names, width)
<1>1. Len(names) \in Nat /\ Len(vals) \in Nat
  BY LenProperties
<1>2. /\ IsList(layout) /\ Len(layout) = Len(names)
      /\ \A k \in 1..Len(names) : Field(layout[k]) /\ layout[k].width = width
  BY <1>1, FieldsAre
<1>3. Size(layout) = width * Len(vals)
  <2>1. Len(names) \in 0..Len(names)
    BY <1>1
  <2>2. Offset(layout, Len(names)) = width * Len(names)
    BY <1>1, <2>1, FieldOffsets
  <2> QED BY <1>2, <2>2 DEF Size
<1> HIDE DEF layout
<1>4. ASSUME NEW k \in 1..Len(layout) PROVE Holds(layout[k], vals[k])
  <2>1. Field(layout[k]) /\ layout[k].width = width /\ k \in 1..Len(vals)
    BY <1>2
  <2> QED BY <2>1 DEF Holds
<1>5. Carries(layout, vals, width * Len(vals))
  BY <1>2, <1>3, <1>4 DEF Carries
<1> QED BY <1>5 DEF layout

Octets(s)  == s \in Seq(Int) /\ \A k \in 1..Len(s) : s[k] \in Octet
Shorts(s)  == s \in Seq(Int) /\ \A k \in 1..Len(s) : Unsigned16(s[k])
Numbers(s) == s \in Seq(Int) /\ \A k \in 1..Len(s) : Signed32(s[k])

\* Bytes, numbers of 16 bits and of 32 in fields of their width.
LEMMA U8Carry ==
  ASSUME NEW names, NEW vals, Octets(vals), Len(names) = Len(vals)
  PROVE  Carries(U8(names), vals, Len(vals))
<1>1. vals \in Seq(Int) /\ Len(vals) \in Nat /\ 1 * Len(vals) = Len(vals)
  BY LenProperties DEF Octets
<1>2. \A k \in 1..Len(vals) : vals[k] \in Octet
  BY DEF Octets
<1>3. Carries(Fields(names, 1), vals, 1 * Len(vals))
  BY <1>1, <1>2, FieldsCarry
<1> QED BY <1>1, <1>3 DEF U8

LEMMA U16Carry ==
  ASSUME NEW names, NEW vals, Shorts(vals), Len(names) = Len(vals)
  PROVE  Carries(U16(names), vals, 2 * Len(vals))
<1>1. vals \in Seq(Int) /\ \A k \in 1..Len(vals) : Unsigned16(vals[k])
  BY DEF Shorts
<1>2. Carries(Fields(names, 2), vals, 2 * Len(vals))
  BY <1>1, FieldsCarry
<1> QED BY <1>2 DEF U16

LEMMA U32Carry ==
  ASSUME NEW names, NEW vals, Numbers(vals), Len(names) = Len(vals)
  PROVE  Carries(U32(names), vals, 4 * Len(vals))
<1>1. vals \in Seq(Int) /\ \A k \in 1..Len(vals) : Signed32(vals[k])
  BY DEF Numbers
<1>2. Carries(Fields(names, 4), vals, 4 * Len(vals))
  BY <1>1, FieldsCarry
<1> QED BY <1>2 DEF U32

-----------------------------------------------------------------------------
(* The client's messages.                                                      *)

\* A message fills its buffer, and what is read there is what was written.
Says(m) ==
  /\ m.u8 \in Seq(Octet) /\ Size(m.layout) = Len(m.u8)
  /\ Written(m, m.u8) = m.vals

\* A layout that carries values is a message that says them.
LEMMA SaidIsRead ==
  ASSUME NEW layout, NEW vals, NEW n \in Nat, Carries(layout, vals, n)
  PROVE  Says(ClientSays(layout, vals, n)) /\ Len(ClientSays(layout, vals, n).u8) = n
<1> DEFINE u == [i \in 1..n |-> 0]
           v == Write(u, 0, layout, vals)
           m == ClientSays(layout, vals, n)
<1>1. m.layout = layout /\ m.vals = vals /\ m.u8 = v
  BY Zenon DEF ClientSays
<1>2. u \in Seq(Octet) /\ Len(u) = n
  <2>1. 0 \in Octet
    BY OctetIs
  <2> QED BY <2>1
<1>3. /\ Len(layout) \in Nat /\ Len(vals) = Len(layout) /\ vals \in Seq(Int)
      /\ (\A k \in 1..Len(layout) : Holds(layout[k], vals[k])) /\ Size(layout) = n
  BY LenProperties DEF Carries
<1>d. DOMAIN layout = 1..Len(layout)
  <2>1. PICK S : layout \in Seq(S)
    BY DEF Carries, IsList
  <2> QED BY <2>1
<1> HIDE DEF u, v, m
<1>4. Fits(u, 0, layout, vals)
  BY <1>2, <1>3 DEF Fits
<1>5. /\ Differs(u, v, 0, Size(layout))
      /\ \A j \in 1..Len(layout) : Get(v, 0 + Offset(layout, j - 1), layout[j]) = vals[j]
  BY <1>4, WriteRead DEF v
<1>6. v \in Seq(Octet) /\ Len(v) = n
  BY <1>2, <1>5 DEF Differs
<1>7. Written(m, v) = vals
  <2>1. ASSUME NEW j \in 1..Len(layout)
        PROVE  Get(v, Offset(layout, j - 1), layout[j]) = vals[j]
    <3>1. Offset(layout, j - 1) \in Nat
      BY <1>4, FieldWithin
    <3>2. 0 + Offset(layout, j - 1) = Offset(layout, j - 1)
      BY <3>1
    <3> QED BY <1>5, <3>2
  <2>2. Written(m, v) = [j \in 1..Len(layout) |-> Get(v, Offset(layout, j - 1), layout[j])]
    BY <1>1, <1>d DEF Written
  <2>3. vals = [j \in 1..Len(layout) |-> vals[j]]
    BY <1>3
  <2> QED BY <2>1, <2>2, <2>3
<1>8. Says(m)
  BY <1>1, <1>3, <1>6, <1>7 DEF Says
<1> QED BY <1>1, <1>6, <1>8 DEF m

\* Lists of one, two or three of them.
LEMMA OctetsAre ==
  /\ \A x : x \in Octet => Octets(<<x>>)
  /\ \A x, y : x \in Octet /\ y \in Octet => Octets(<<x, y>>)
<1>1. ASSUME NEW x, x \in Octet PROVE Octets(<<x>>)
  BY <1>1, OctetIs DEF Octets
<1>2. ASSUME NEW x, NEW y, x \in Octet, y \in Octet PROVE Octets(<<x, y>>)
  BY <1>2, OctetIs DEF Octets
<1> QED BY <1>1, <1>2

LEMMA ShortsAre ==
  \A x : Unsigned16(x) => Shorts(<<x>>)
<1>1. ASSUME NEW x, Unsigned16(x) PROVE Shorts(<<x>>)
  <2>1. x \in Int
    BY <1>1 DEF Unsigned16
  <2> QED BY <1>1, <2>1 DEF Shorts
<1> QED BY <1>1

LEMMA NumbersAre ==
  /\ \A x : Signed32(x) => Numbers(<<x>>)
  /\ \A x, y : Signed32(x) /\ Signed32(y) => Numbers(<<x, y>>)
  /\ \A x, y, z : Signed32(x) /\ Signed32(y) /\ Signed32(z) => Numbers(<<x, y, z>>)
<1>1. ASSUME NEW x, Signed32(x) PROVE Numbers(<<x>>)
  <2>1. x \in Int
    BY <1>1 DEF Signed32
  <2> QED BY <1>1, <2>1 DEF Numbers
<1>2. ASSUME NEW x, NEW y, Signed32(x), Signed32(y) PROVE Numbers(<<x, y>>)
  <2>1. x \in Int /\ y \in Int
    BY <1>2 DEF Signed32
  <2> QED BY <1>2, <2>1 DEF Numbers
<1>3. ASSUME NEW x, NEW y, NEW z, Signed32(x), Signed32(y), Signed32(z) PROVE Numbers(<<x, y, z>>)
  <2>1. x \in Int /\ y \in Int /\ z \in Int
    BY <1>3 DEF Signed32
  <2> QED BY <1>3, <2>1 DEF Numbers
<1> QED BY <1>1, <1>2, <1>3

\* The messages, one by one: keys, acknowledgements, modes, buttons, positions.
LEMMA KeySays ==
  ASSUME NEW code, Signed32(code)
  PROVE  Says(SpiceMsgcKeyDown(code)) /\ Len(SpiceMsgcKeyDown(code).u8) = 4
<1>1. Numbers(<<code>>)
  BY NumbersAre
<1>2. Len(<<"code">>) = Len(<<code>>) /\ 4 * Len(<<code>>) = 4
  OBVIOUS
<1>3. Carries(U32(<<"code">>), <<code>>, 4)
  BY <1>1, <1>2, U32Carry
<1> QED BY <1>3, SaidIsRead DEF SpiceMsgcKeyDown

\* The tuples of numbers that are put together below.
LEMMA Tuple11 ==
  ASSUME NEW a \in Int, NEW b \in Int
  PROVE  <<a>> \o <<b>> = <<a, b>>
<1> DEFINE s == <<a>> \o <<b>>
           t == <<a, b>>
<1>1. s \in Seq(Int) /\ t \in Seq(Int) /\ Len(s) = 2 /\ Len(t) = 2
  OBVIOUS
<1>2. \A i \in 1..2 : s[i] = t[i]
  <2>1. s[1] = t[1]
    OBVIOUS
  <2>2. s[2] = t[2]
    OBVIOUS
  <2> HIDE DEF s, t
  <2> QED BY <2>1, <2>2
<1> HIDE DEF s, t
<1>3. s = t
  BY <1>1, <1>2, SeqEqual
<1> QED BY <1>3 DEF s, t

LEMMA Tuple211 ==
  ASSUME NEW a \in Int, NEW b \in Int, NEW c \in Int, NEW d \in Int
  PROVE  <<a, b>> \o <<c>> \o <<d>> = <<a, b, c, d>>
<1> DEFINE s == <<a, b>> \o <<c>> \o <<d>>
           t == <<a, b, c, d>>
<1>1. s \in Seq(Int) /\ t \in Seq(Int) /\ Len(s) = 4 /\ Len(t) = 4
  OBVIOUS
<1>2. \A i \in 1..4 : s[i] = t[i]
  <2>1. s[1] = t[1]
    OBVIOUS
  <2>2. s[2] = t[2]
    OBVIOUS
  <2>3. s[3] = t[3]
    OBVIOUS
  <2>4. s[4] = t[4]
    OBVIOUS
  <2> HIDE DEF s, t
  <2> QED BY <2>1, <2>2, <2>3, <2>4
<1> HIDE DEF s, t
<1>3. s = t
  BY <1>1, <1>2, SeqEqual
<1> QED BY <1>3 DEF s, t

LEMMA Tuple123 ==
  ASSUME NEW a \in Int, NEW b \in Int, NEW c \in Int, NEW d \in Int, NEW e \in Int, NEW f \in Int
  PROVE  <<a>> \o <<b, c>> \o <<d, e, f>> = <<a, b, c, d, e, f>>
<1> DEFINE s == <<a>> \o <<b, c>> \o <<d, e, f>>
           t == <<a, b, c, d, e, f>>
<1>1. s \in Seq(Int) /\ t \in Seq(Int) /\ Len(s) = 6 /\ Len(t) = 6
  OBVIOUS
<1>2. \A i \in 1..6 : s[i] = t[i]
  <2>1. s[1] = t[1]
    OBVIOUS
  <2>2. s[2] = t[2]
    OBVIOUS
  <2>3. s[3] = t[3]
    OBVIOUS
  <2>4. s[4] = t[4]
    OBVIOUS
  <2>5. s[5] = t[5]
    OBVIOUS
  <2>6. s[6] = t[6]
    OBVIOUS
  <2> HIDE DEF s, t
  <2> QED BY <2>1, <2>2, <2>3, <2>4, <2>5, <2>6
<1> HIDE DEF s, t
<1>3. s = t
  BY <1>1, <1>2, SeqEqual
<1> QED BY <1>3 DEF s, t

LEMMA Tuple1211 ==
  ASSUME NEW a \in Int, NEW b \in Int, NEW c \in Int, NEW d \in Int, NEW e \in Int
  PROVE  <<a>> \o <<b, c>> \o <<d>> \o <<e>> = <<a, b, c, d, e>>
<1> DEFINE s == <<a>> \o <<b, c>> \o <<d>> \o <<e>>
           t == <<a, b, c, d, e>>
<1>1. s \in Seq(Int) /\ t \in Seq(Int) /\ Len(s) = 5 /\ Len(t) = 5
  OBVIOUS
<1>2. \A i \in 1..5 : s[i] = t[i]
  <2>1. s[1] = t[1]
    OBVIOUS
  <2>2. s[2] = t[2]
    OBVIOUS
  <2>3. s[3] = t[3]
    OBVIOUS
  <2>4. s[4] = t[4]
    OBVIOUS
  <2>5. s[5] = t[5]
    OBVIOUS
  <2> HIDE DEF s, t
  <2> QED BY <2>1, <2>2, <2>3, <2>4, <2>5
<1> HIDE DEF s, t
<1>3. s = t
  BY <1>1, <1>2, SeqEqual
<1> QED BY <1>3 DEF s, t

LEMMA Tuple43 ==
  ASSUME NEW a \in Int, NEW b \in Int, NEW c \in Int, NEW d \in Int, NEW e \in Int, NEW f \in Int, NEW g \in Int
  PROVE  <<a, b, c, d>> \o <<e, f, g>> = <<a, b, c, d, e, f, g>>
<1> DEFINE s == <<a, b, c, d>> \o <<e, f, g>>
           t == <<a, b, c, d, e, f, g>>
<1>1. s \in Seq(Int) /\ t \in Seq(Int) /\ Len(s) = 7 /\ Len(t) = 7
  OBVIOUS
<1>2. \A i \in 1..7 : s[i] = t[i]
  <2>1. s[1] = t[1]
    OBVIOUS
  <2>2. s[2] = t[2]
    OBVIOUS
  <2>3. s[3] = t[3]
    OBVIOUS
  <2>4. s[4] = t[4]
    OBVIOUS
  <2>5. s[5] = t[5]
    OBVIOUS
  <2>6. s[6] = t[6]
    OBVIOUS
  <2>7. s[7] = t[7]
    OBVIOUS
  <2> HIDE DEF s, t
  <2> QED BY <2>1, <2>2, <2>3, <2>4, <2>5, <2>6, <2>7
<1> HIDE DEF s, t
<1>3. s = t
  BY <1>1, <1>2, SeqEqual
<1> QED BY <1>3 DEF s, t

LEMMA AckSyncSays ==
  ASSUME NEW generation, Signed32(generation)
  PROVE  Says(SpiceMsgcAckSync(generation)) /\ Len(SpiceMsgcAckSync(generation).u8) = 4
<1>1. Numbers(<<generation>>)
  BY NumbersAre
<1>2. Len(<<"generation">>) = Len(<<generation>>) /\ 4 * Len(<<generation>>) = 4
  OBVIOUS
<1>3. Carries(U32(<<"generation">>), <<generation>>, 4)
  BY <1>1, <1>2, U32Carry
<1> QED BY <1>3, SaidIsRead DEF SpiceMsgcAckSync

LEMMA MouseModeSays ==
  ASSUME NEW mode, Unsigned16(mode)
  PROVE  Says(SpiceMsgcMainMouseModeRequest(mode)) /\ Len(SpiceMsgcMainMouseModeRequest(mode).u8) = 2
<1>1. Shorts(<<mode>>)
  BY ShortsAre
<1>2. Len(<<"mode">>) = Len(<<mode>>) /\ 2 * Len(<<mode>>) = 2
  OBVIOUS
<1>3. Carries(U16(<<"mode">>), <<mode>>, 2)
  BY <1>1, <1>2, U16Carry
<1> QED BY <1>3, SaidIsRead DEF SpiceMsgcMainMouseModeRequest

LEMMA MousePressSays ==
  ASSUME NEW button \in Octet, NEW buttons, Unsigned16(buttons)
  PROVE  Says(SpiceMsgcMousePress(button, buttons)) /\ Len(SpiceMsgcMousePress(button, buttons).u8) = 3
<1>1. Octets(<<button>>) /\ Shorts(<<buttons>>)
  BY OctetsAre, ShortsAre
<1>2. /\ Len(<<"button">>) = Len(<<button>>) /\ Len(<<button>>) = 1
      /\ Len(<<"buttons_state">>) = Len(<<buttons>>) /\ 2 * Len(<<buttons>>) = 2
  OBVIOUS
<1>3. Carries(U8(<<"button">>), <<button>>, 1) /\ Carries(U16(<<"buttons_state">>), <<buttons>>, 2)
  BY <1>1, <1>2, U8Carry, U16Carry
<1>4. Carries(U8(<<"button">>) \o U16(<<"buttons_state">>), <<button>> \o <<buttons>>, 1 + 2)
  BY <1>3, CarriesConcat
<1>5. <<button>> \o <<buttons>> = <<button, buttons>> /\ 1 + 2 = 3
  <2>1. button \in Int /\ buttons \in Int
    BY OctetIs DEF Unsigned16
  <2> QED BY <2>1, Tuple11
<1>6. Carries(U8(<<"button">>) \o U16(<<"buttons_state">>), <<button, buttons>>, 3)
  BY <1>4, <1>5
<1> QED BY <1>6, SaidIsRead DEF SpiceMsgcMousePress

LEMMA MousePositionSays ==
  ASSUME NEW x, NEW y, Signed32(x), Signed32(y), NEW buttons, Unsigned16(buttons)
  PROVE  Says(SpiceMsgcMousePosition(x, y, buttons)) /\ Len(SpiceMsgcMousePosition(x, y, buttons).u8) = 11
<1>1. Numbers(<<x, y>>) /\ Shorts(<<buttons>>) /\ Octets(<<0>>)
  BY OctetsAre, ShortsAre, NumbersAre, OctetIs
<1>2. /\ Len(<<"x", "y">>) = Len(<<x, y>>) /\ 4 * Len(<<x, y>>) = 8
      /\ Len(<<"buttons_state">>) = Len(<<buttons>>) /\ 2 * Len(<<buttons>>) = 2
      /\ Len(<<"display_id">>) = Len(<<0>>) /\ Len(<<0>>) = 1
  OBVIOUS
<1>3. /\ Carries(U32(<<"x", "y">>), <<x, y>>, 8)
      /\ Carries(U16(<<"buttons_state">>), <<buttons>>, 2)
      /\ Carries(U8(<<"display_id">>), <<0>>, 1)
  BY <1>1, <1>2, U8Carry, U16Carry, U32Carry
<1>4. Carries(U32(<<"x", "y">>) \o U16(<<"buttons_state">>), <<x, y>> \o <<buttons>>, 8 + 2)
  BY <1>3, CarriesConcat
<1>5. Carries(U32(<<"x", "y">>) \o U16(<<"buttons_state">>) \o U8(<<"display_id">>),
              <<x, y>> \o <<buttons>> \o <<0>>, (8 + 2) + 1)
  BY <1>3, <1>4, CarriesConcat
<1>6. <<x, y>> \o <<buttons>> \o <<0>> = <<x, y, buttons, 0>> /\ (8 + 2) + 1 = 11
  <2>1. x \in Int /\ y \in Int /\ buttons \in Int /\ 0 \in Int
    BY DEF Unsigned16, Signed32
  <2> QED BY <2>1, Tuple211
<1>7. Carries(SpicePoint \o U16(<<"buttons_state">>) \o U8(<<"display_id">>), <<x, y, buttons, 0>>, 11)
  BY <1>5, <1>6 DEF SpicePoint
<1> QED BY <1>7, SaidIsRead DEF SpiceMsgcMousePosition

\* The display channel's first message, and the three of the handshake.
LEMMA DisplayInitSays == Says(SpiceMsgcDisplayInit) /\ Len(SpiceMsgcDisplayInit.u8) = 14
<1> DEFINE size == 10 * 1024 * 1024
<1>1. Octets(<<1>>) /\ Numbers(<<0, size>>) /\ Octets(<<0>>) /\ Numbers(<<0>>)
  <2>1. 1 \in Octet /\ 0 \in Octet /\ Signed32(0) /\ Signed32(size)
    BY OctetIs DEF Signed32
  <2> QED BY <2>1, OctetsAre, NumbersAre
<1> HIDE DEF size
<1>2. /\ Len(<<"pixmap_cache_id">>) = Len(<<1>>) /\ Len(<<1>>) = 1
      /\ Len(<<"high", "pixmap_cache_size">>) = Len(<<0, size>>) /\ 4 * Len(<<0, size>>) = 8
      /\ Len(<<"glz_dictionary_id">>) = Len(<<0>>) /\ Len(<<0>>) = 1
      /\ Len(<<"glz_dictionary_window_size">>) = Len(<<0>>) /\ 4 * Len(<<0>>) = 4
  OBVIOUS
<1>3. /\ Carries(U8(<<"pixmap_cache_id">>), <<1>>, 1)
      /\ Carries(U32(<<"high", "pixmap_cache_size">>), <<0, size>>, 8)
      /\ Carries(U8(<<"glz_dictionary_id">>), <<0>>, 1)
      /\ Carries(U32(<<"glz_dictionary_window_size">>), <<0>>, 4)
  BY <1>1, <1>2, U8Carry, U32Carry
<1>4. Carries(U8(<<"pixmap_cache_id">>) \o U32(<<"high", "pixmap_cache_size">>), <<1>> \o <<0, size>>, 1 + 8)
  BY <1>3, CarriesConcat
<1>5. Carries(U8(<<"pixmap_cache_id">>) \o U32(<<"high", "pixmap_cache_size">>) \o U8(<<"glz_dictionary_id">>),
              <<1>> \o <<0, size>> \o <<0>>, (1 + 8) + 1)
  BY <1>3, <1>4, CarriesConcat
<1>6. Carries(U8(<<"pixmap_cache_id">>) \o U32(<<"high", "pixmap_cache_size">>) \o U8(<<"glz_dictionary_id">>)
                \o U32(<<"glz_dictionary_window_size">>),
              <<1>> \o <<0, size>> \o <<0>> \o <<0>>, ((1 + 8) + 1) + 4)
  BY <1>3, <1>5, CarriesConcat
<1>7. <<1>> \o <<0, size>> \o <<0>> \o <<0>> = <<1, 0, size, 0, 0>> /\ ((1 + 8) + 1) + 4 = 14
  <2>1. 1 \in Int /\ 0 \in Int /\ size \in Int
    BY DEF size
  <2> QED BY <2>1, Tuple1211
<1>8. PICK layout : layout = U8(<<"pixmap_cache_id">>) \o U32(<<"high", "pixmap_cache_size">>)
                               \o U8(<<"glz_dictionary_id">>) \o U32(<<"glz_dictionary_window_size">>)
  OBVIOUS
<1>9. SpiceMsgcDisplayInit = ClientSays(layout, <<1, 0, size, 0, 0>>, 14)
  BY <1>8, Zenon DEF SpiceMsgcDisplayInit, size
<1>10. Carries(layout, <<1, 0, size, 0, 0>>, 14)
  BY <1>6, <1>7, <1>8
<1> QED BY <1>9, <1>10, SaidIsRead

LEMMA LinkHeaderSays ==
  ASSUME NEW size, Signed32(size)
  PROVE  Says(SpiceLinkHeader(size)) /\ Len(SpiceLinkHeader(size).u8) = 16
<1> DEFINE magic == <<82, 69, 68, 81>>
<1>1. Octets(magic) /\ Numbers(<<2, 2, size>>)
  <2>1. 82 \in Octet /\ 69 \in Octet /\ 68 \in Octet /\ 81 \in Octet /\ Signed32(2)
    BY OctetIs DEF Signed32
  <2>2. magic \in Seq(Int) /\ Len(magic) = 4
    OBVIOUS
  <2>3. \A k \in 1..4 : magic[k] \in Octet
    BY <2>1
  <2> QED BY <2>1, <2>2, <2>3, NumbersAre DEF Octets
<1>2. /\ Len(<<"R", "E", "D", "Q">>) = Len(magic) /\ Len(magic) = 4
      /\ Len(<<"major_version", "minor_version", "size">>) = Len(<<2, 2, size>>) /\ 4 * Len(<<2, 2, size>>) = 12
  OBVIOUS
<1> HIDE DEF magic
<1>3. /\ Carries(U8(<<"R", "E", "D", "Q">>), magic, 4)
      /\ Carries(U32(<<"major_version", "minor_version", "size">>), <<2, 2, size>>, 12)
  BY <1>1, <1>2, U8Carry, U32Carry
<1>4. Carries(U8(<<"R", "E", "D", "Q">>) \o U32(<<"major_version", "minor_version", "size">>),
              magic \o <<2, 2, size>>, 4 + 12)
  BY <1>3, CarriesConcat
<1>5. magic \o <<2, 2, size>> = <<82, 69, 68, 81, 2, 2, size>> /\ 4 + 12 = 16
  <2>1. size \in Int
    BY DEF Signed32
  <2> QED BY <2>1, Tuple43 DEF magic
<1>6. PICK layout : layout = U8(<<"R", "E", "D", "Q">>) \o U32(<<"major_version", "minor_version", "size">>)
  OBVIOUS
<1>7. PICK vals : vals = <<82, 69, 68, 81, 2, 2, size>>
  OBVIOUS
<1>8. SpiceLinkHeader(size) = ClientSays(layout, vals, 16)
  BY <1>6, <1>7, Zenon DEF SpiceLinkHeader
<1>9. Carries(layout, vals, 16)
  BY <1>4, <1>5, <1>6, <1>7
<1>10. Says(ClientSays(layout, vals, 16)) /\ Len(ClientSays(layout, vals, 16).u8) = 16
  BY <1>9, SaidIsRead
<1> QED BY <1>8, <1>10

\* The capabilities of both kinds, one list after the other.
LEMMA ListsOfNumbers ==
  ASSUME NEW a, NEW b, Numbers(a), Numbers(b)
  PROVE  Numbers(a \o b) /\ Len(a \o b) = Len(a) + Len(b) /\ Len(a) \in Nat /\ Len(b) \in Nat
<1>1. a \in Seq(Int) /\ b \in Seq(Int) /\ Len(a) \in Nat /\ Len(b) \in Nat
  BY LenProperties DEF Numbers
<1>2. PICK c : c = a \o b
  OBVIOUS
<1>3. c \in Seq(Int) /\ Len(c) = Len(a) + Len(b)
  BY <1>1, <1>2
<1>4. /\ \A i \in 1..Len(a) : c[i] = a[i]
      /\ \A i \in 1..Len(b) : c[Len(a) + i] = b[i]
  BY <1>1, <1>2, ConcatList DEF IsList
<1>5. ASSUME NEW k \in 1..Len(c) PROVE Signed32(c[k])
  <2>1. CASE k <= Len(a)
    <3>1. k \in 1..Len(a) /\ c[k] = a[k]
      BY <1>1, <1>3, <1>4, <2>1
    <3> QED BY <3>1 DEF Numbers
  <2>2. CASE k > Len(a)
    <3>1. PICK i \in 1..Len(b) : k = Len(a) + i
      <4>1. k - Len(a) \in 1..Len(b) /\ k = Len(a) + (k - Len(a))
        BY <1>1, <1>3, <2>2
      <4> QED BY <4>1
    <3>2. c[k] = b[i]
      BY <1>4, <3>1
    <3> QED BY <3>2 DEF Numbers
  <2> QED BY <1>1, <1>3, <2>1, <2>2
<1>6. Numbers(c)
  BY <1>3, <1>5 DEF Numbers
<1> QED BY <1>1, <1>2, <1>3, <1>6

LEMMA LinkMessSays ==
  ASSUME NEW id, Signed32(id), NEW type \in Octet, NEW channel \in Octet,
         NEW common, NEW special, Numbers(common), Numbers(special),
         Signed32(Len(common)), Signed32(Len(special))
  PROVE  /\ Says(SpiceLinkMess(id, type, channel, common, special))
         /\ Len(SpiceLinkMess(id, type, channel, common, special).u8) = 18 + 4 * Len(common) + 4 * Len(special)
<1>1. PICK c : c = Len(common)
  OBVIOUS
<1>2. PICK s : s = Len(special)
  OBVIOUS
<1>3. PICK caps : caps = common \o special
  OBVIOUS
<1>4. c \in Nat /\ s \in Nat /\ Signed32(c) /\ Signed32(s) /\ Numbers(caps) /\ Len(caps) = c + s
  BY <1>1, <1>2, <1>3, ListsOfNumbers
<1>5. Numbers(<<id>>) /\ Octets(<<type, channel>>) /\ Numbers(<<c, s, 18>>)
  <2>1. Signed32(18)
    BY DEF Signed32
  <2> QED BY <1>4, <2>1, NumbersAre, OctetsAre
<1>6. /\ Len(<<"connection_id">>) = Len(<<id>>) /\ 4 * Len(<<id>>) = 4
      /\ Len(<<"channel_type", "channel_id">>) = Len(<<type, channel>>) /\ Len(<<type, channel>>) = 2
      /\ Len(<<"num_common_caps", "num_channel_caps", "caps_offset">>) = Len(<<c, s, 18>>)
      /\ 4 * Len(<<c, s, 18>>) = 12
  OBVIOUS
<1>7. Len(Numbered(Len(caps))) = Len(caps)
  BY <1>4 DEF Numbered
<1>8. /\ Carries(U32(<<"connection_id">>), <<id>>, 4)
      /\ Carries(U8(<<"channel_type", "channel_id">>), <<type, channel>>, 2)
      /\ Carries(U32(<<"num_common_caps", "num_channel_caps", "caps_offset">>), <<c, s, 18>>, 12)
      /\ Carries(U32(Numbered(Len(caps))), caps, 4 * Len(caps))
  BY <1>4, <1>5, <1>6, <1>7, U8Carry, U32Carry
<1>9. Carries(U32(<<"connection_id">>) \o U8(<<"channel_type", "channel_id">>), <<id>> \o <<type, channel>>, 4 + 2)
  BY <1>8, CarriesConcat
<1>10. Carries(U32(<<"connection_id">>) \o U8(<<"channel_type", "channel_id">>)
                 \o U32(<<"num_common_caps", "num_channel_caps", "caps_offset">>),
               <<id>> \o <<type, channel>> \o <<c, s, 18>>, (4 + 2) + 12)
  BY <1>8, <1>9, CarriesConcat
<1>11. PICK layout : layout = U32(<<"connection_id">>) \o U8(<<"channel_type", "channel_id">>)
                 \o U32(<<"num_common_caps", "num_channel_caps", "caps_offset">>) \o U32(Numbered(Len(caps)))
  OBVIOUS
<1>12. PICK vals : vals = <<id, type, channel, c, s, 18>> \o common \o special
  OBVIOUS
<1>13. PICK head : head = <<id, type, channel, c, s, 18>>
  OBVIOUS
<1>14. <<id>> \o <<type, channel>> \o <<c, s, 18>> = head /\ head \in Seq(Int)
  <2>1. id \in Int /\ type \in Int /\ channel \in Int /\ c \in Int /\ s \in Int /\ 18 \in Int
    BY <1>4, OctetIs DEF Signed32
  <2>2. <<id>> \o <<type, channel>> \o <<c, s, 18>> = head
    BY <1>13, <2>1, Tuple123
  <2> QED BY <1>13, <2>1, <2>2
<1>15. vals = head \o caps
  <2>1. common \in Seq(Int) /\ special \in Seq(Int)
    BY DEF Numbers
  <2>2. vals = (head \o common) \o special
    BY <1>12, <1>13
  <2>3. head \in Seq(Int)
    BY <1>14
  <2>4. (head \o common) \o special = head \o (common \o special)
    BY <2>1, <2>3, ConcatAssociative
  <2> QED BY <1>3, <2>2, <2>4
<1>16. Carries(layout, head \o caps, ((4 + 2) + 12) + 4 * Len(caps))
  BY <1>8, <1>10, <1>11, <1>14, CarriesConcat
<1>17. PICK n \in Nat : n = 18 + 4 * c + 4 * s
  BY <1>4
<1>18. ((4 + 2) + 12) + 4 * Len(caps) = n
  BY <1>4, <1>17
<1>19. SpiceLinkMess(id, type, channel, common, special) = ClientSays(layout, vals, n)
  BY <1>1, <1>2, <1>3, <1>11, <1>12, <1>17, Zenon DEF SpiceLinkMess
<1>20. Carries(layout, vals, n)
  BY <1>15, <1>16, <1>18
<1>21. Says(ClientSays(layout, vals, n)) /\ Len(ClientSays(layout, vals, n).u8) = n
  BY <1>20, SaidIsRead
<1> QED BY <1>1, <1>2, <1>17, <1>19, <1>21

LEMMA LinkAuthTicketSays ==
  ASSUME NEW data \in Seq(Octet), NEW n \in Nat
  PROVE  Says(SpiceLinkAuthTicket(data, n)) /\ Len(SpiceLinkAuthTicket(data, n).u8) = 4 + n
<1>1. PICK padded : padded = [k \in 1..n |-> IF k <= Len(data) THEN data[k] ELSE 0]
  OBVIOUS
<1>2. \A k \in 1..n : padded[k] \in Octet
  <2>1. ASSUME NEW k \in 1..n PROVE padded[k] \in Octet
    <3>1. CASE k <= Len(data)
      <4>1. k \in 1..Len(data)
        BY <3>1, LenProperties
      <4>2. data[k] \in Octet
        BY <4>1, ElementOfSeq
      <4> QED BY <1>1, <3>1, <4>2
    <3>2. CASE ~(k <= Len(data))
      BY <1>1, <3>2, OctetIs
    <3> QED BY <3>1, <3>2
  <2> QED BY <2>1
<1>3. padded \in Seq(Int) /\ Len(padded) = n
  <2>1. padded = [k \in 1..n |-> padded[k]]
    BY <1>1
  <2>2. \A k \in 1..n : padded[k] \in Int
    BY <1>2, OctetIs
  <2>3. padded \in [1..n -> Int]
    BY <2>1, <2>2
  <2> QED BY <2>3
<1>4. Octets(padded) /\ Numbers(<<0>>)
  <2>1. Octets(padded)
    BY <1>2, <1>3 DEF Octets
  <2>2. Signed32(0)
    BY DEF Signed32
  <2> QED BY <2>1, <2>2, NumbersAre
<1>5. Len(<<"auth_mechanism">>) = Len(<<0>>) /\ 4 * Len(<<0>>) = 4 /\ Len(Numbered(n)) = Len(padded)
  BY <1>3 DEF Numbered
<1>6. Carries(U32(<<"auth_mechanism">>), <<0>>, 4) /\ Carries(U8(Numbered(n)), padded, n)
  BY <1>3, <1>4, <1>5, U8Carry, U32Carry
<1>7. Carries(U32(<<"auth_mechanism">>) \o U8(Numbered(n)), <<0>> \o padded, 4 + n)
  BY <1>6, CarriesConcat
<1>8. SpiceLinkAuthTicket(data, n) = ClientSays(U32(<<"auth_mechanism">>) \o U8(Numbered(n)), <<0>> \o padded, 4 + n)
  BY <1>1, Zenon DEF SpiceLinkAuthTicket
<1>9. 4 + n \in Nat
  OBVIOUS
<1> QED BY <1>7, <1>8, <1>9, SaidIsRead

\* The frame: its header of six bytes, and the message's bytes behind it.
LEMMA FrameSays ==
  ASSUME NEW type, Unsigned16(type), NEW m, m.u8 \in Seq(Octet), Signed32(Len(m.u8))
  PROVE  LET f == Framed(type, m).u8
         IN  /\ Says(Framed(type, m)) /\ Len(f) = 6 + Len(m.u8)
             /\ GetUint16(f, 0, TRUE) = type /\ GetUint32(f, 2, TRUE) = Len(m.u8)
             /\ SubSeq(f, 7, Len(f)) = m.u8
<1>1. PICK u : u = m.u8
  OBVIOUS
<1>2. PICK n \in Nat : n = Len(u)
  BY <1>1, LenProperties
<1>3. u \in Seq(Octet) /\ u \in Seq(Int) /\ Octets(u)
  <2>1. u \in Seq(Octet) /\ \A k \in 1..Len(u) : u[k] \in Octet
    BY <1>1, ElementOfSeq
  <2>2. u \in Seq(Int)
    <3>1. Len(u) \in Nat /\ u = [k \in 1..Len(u) |-> u[k]] /\ \A k \in 1..Len(u) : u[k] \in Int
      BY <2>1, LenProperties, OctetIs
    <3>2. u \in [1..Len(u) -> Int]
      BY <3>1
    <3> QED BY <3>1, <3>2
  <2> QED BY <2>1, <2>2 DEF Octets
<1>4. Shorts(<<type>>) /\ Numbers(<<n>>)
  BY <1>1, <1>2, ShortsAre, NumbersAre
<1>5. /\ Len(<<"type">>) = Len(<<type>>) /\ 2 * Len(<<type>>) = 2
      /\ Len(<<"size">>) = Len(<<n>>) /\ 4 * Len(<<n>>) = 4
      /\ Len(Numbered(n)) = Len(u)
  BY <1>2 DEF Numbered
<1>6. /\ Carries(U16(<<"type">>), <<type>>, 2)
      /\ Carries(U32(<<"size">>), <<n>>, 4)
      /\ Carries(U8(Numbered(n)), u, n)
  BY <1>2, <1>3, <1>4, <1>5, U8Carry, U16Carry, U32Carry
<1>7. PICK head : head = U16(<<"type">>) \o U32(<<"size">>)
  OBVIOUS
<1>8. PICK rest : rest = U8(Numbered(n))
  OBVIOUS
<1>9. Carries(head, <<type>> \o <<n>>, 2 + 4)
  BY <1>6, <1>7, CarriesConcat
<1>10. PICK vals : vals = <<type, n>> \o u
  OBVIOUS
<1>11. <<type>> \o <<n>> = <<type, n>>
  <2>1. type \in Int /\ n \in Int
    BY DEF Unsigned16
  <2> QED BY <2>1, Tuple11
<1>12. Carries(head, <<type, n>>, 6) /\ Carries(rest, u, n)
  <2>1. Carries(head, <<type, n>>, 2 + 4)
    BY <1>9, <1>11
  <2>2. Carries(head, <<type, n>>, 6)
    BY <2>1
  <2> QED BY <1>6, <1>8, <2>2
<1>13. PICK layout : layout = head \o rest
  OBVIOUS
<1>14. Carries(layout, vals, 6 + n)
  BY <1>10, <1>12, <1>13, CarriesConcat
<1>15. PICK f : f = Framed(type, m)
  OBVIOUS
<1>16. f = ClientSays(layout, vals, 6 + n)
  BY <1>1, <1>2, <1>7, <1>8, <1>10, <1>13, <1>15, Zenon DEF Framed
<1>17. f.layout = layout /\ f.vals = vals
  BY <1>16, Zenon DEF ClientSays
<1>18. Says(f) /\ Len(f.u8) = 6 + n
  BY <1>14, <1>16, SaidIsRead
<1>19. PICK v : v = f.u8
  OBVIOUS
<1>20. v \in Seq(Octet) /\ Len(v) = 6 + n
  BY <1>18, <1>19 DEF Says
<1>21. /\ IsList(head) /\ IsList(rest) /\ IsList(layout)
       /\ Len(head) = 2 /\ Len(rest) = n /\ Len(layout) = 2 + n /\ Size(head) = 6
       /\ (\A k \in 1..Len(head) : Field(head[k])) /\ (\A k \in 1..Len(rest) : Field(rest[k]))
  <2>1. /\ IsList(head) /\ IsList(rest) /\ Len(head) = Len(<<type, n>>) /\ Len(rest) = Len(u)
        /\ Size(head) = 6
        /\ (\A k \in 1..Len(head) : Field(head[k])) /\ (\A k \in 1..Len(rest) : Field(rest[k]))
    BY <1>12 DEF Carries, Holds
  <2>2. Len(<<type, n>>) = 2
    OBVIOUS
  <2>3. IsList(layout) /\ Len(layout) = Len(head) + Len(rest)
    BY <1>13, <2>1, ConcatList
  <2> QED BY <1>2, <2>1, <2>2, <2>3
<1>22. \A k \in 1..(2 + n) : Get(v, Offset(layout, k - 1), layout[k]) = vals[k]
  <2>1. DOMAIN layout = 1..(2 + n)
    <3>1. PICK S : layout \in Seq(S)
      BY <1>21 DEF IsList
    <3> QED BY <1>21, <3>1
  <2>2. Written(f, v) = vals
    BY <1>17, <1>18, <1>19 DEF Says
  <2>3. \A k \in 1..(2 + n) : Written(f, v)[k] = Get(v, Offset(layout, k - 1), layout[k])
    BY <1>17, <2>1 DEF Written
  <2> QED BY <2>2, <2>3
<1>23. /\ \A k \in 0..2 : Offset(layout, k) = Offset(head, k)
       /\ \A k \in 0..n : Offset(layout, 2 + k) = 6 + Offset(rest, k)
  BY <1>13, <1>21, OffsetConcat
<1>24. /\ layout[1] = head[1] /\ layout[2] = head[2]
       /\ \A i \in 1..n : layout[2 + i] = rest[i]
  <2>1. /\ \A i \in 1..Len(head) : layout[i] = head[i]
        /\ \A i \in 1..Len(rest) : layout[Len(head) + i] = rest[i]
    BY <1>13, <1>21, ConcatList
  <2> QED BY <1>21, <2>1
<1>25. vals[1] = type /\ vals[2] = n /\ \A i \in 1..n : vals[2 + i] = u[i]
  <2>1. type \in Int /\ n \in Int
    BY DEF Unsigned16
  <2>2. <<type, n>> \in Seq(Int) /\ Len(<<type, n>>) = 2 /\ <<type, n>>[1] = type /\ <<type, n>>[2] = n
    BY <2>1
  <2>3. PICK t : t = <<type, n>>
    OBVIOUS
  <2>4. IsList(t) /\ IsList(u) /\ Len(t) = 2 /\ vals = t \o u
    BY <1>3, <1>10, <2>2, <2>3 DEF IsList
  <2>5. /\ \A i \in 1..Len(t) : (t \o u)[i] = t[i]
        /\ \A i \in 1..Len(u) : (t \o u)[Len(t) + i] = u[i]
    <3>1. IsList(t) /\ IsList(u)
      BY <2>4
    <3>2. PICK z : z = t \o u
      OBVIOUS
    <3>3. /\ \A i \in 1..Len(t) : z[i] = t[i]
          /\ \A i \in 1..Len(u) : z[Len(t) + i] = u[i]
      BY <3>1, <3>2, ConcatList
    <3> QED BY <3>2, <3>3
  <2> QED BY <1>2, <2>2, <2>3, <2>4, <2>5
<1>26. Field(head[1]) /\ head[1].width = 2 /\ Field(head[2]) /\ head[2].width = 4
  <2>1. Len(<<"type">>) = 1 /\ Len(<<"size">>) = 1
    OBVIOUS
  <2>2. /\ IsList(U16(<<"type">>)) /\ Len(U16(<<"type">>)) = 1
        /\ Field(U16(<<"type">>)[1]) /\ U16(<<"type">>)[1].width = 2
    BY <2>1, FieldsAre DEF U16
  <2>3. /\ IsList(U32(<<"size">>)) /\ Len(U32(<<"size">>)) = 1
        /\ Field(U32(<<"size">>)[1]) /\ U32(<<"size">>)[1].width = 4
    BY <2>1, FieldsAre DEF U32
  <2>4. PICK a : a = U16(<<"type">>)
    OBVIOUS
  <2>5. PICK b : b = U32(<<"size">>)
    OBVIOUS
  <2>6. (\A i \in 1..Len(a) : head[i] = a[i]) /\ (\A i \in 1..Len(b) : head[Len(a) + i] = b[i])
    BY <1>7, <2>2, <2>3, <2>4, <2>5, ConcatList
  <2>7. head[1] = a[1] /\ head[2] = b[1]
    BY <2>2, <2>3, <2>4, <2>5, <2>6
  <2> QED BY <2>2, <2>3, <2>4, <2>5, <2>7
<1>27. Offset(layout, 0) = 0 /\ Offset(layout, 1) = 2
  BY <1>21, <1>24, <1>26, Offsets
<1>28. GetUint16(v, 0, TRUE) = type /\ GetUint32(v, 2, TRUE) = n
  <2>1. Get(v, 0, head[1]) = type /\ Get(v, 2, head[2]) = n
    <3>1. 1 \in 1..(2 + n) /\ 2 \in 1..(2 + n) /\ 1 - 1 = 0 /\ 2 - 1 = 1
      OBVIOUS
    <3>2. Get(v, Offset(layout, 1 - 1), layout[1]) = vals[1] /\ Get(v, Offset(layout, 2 - 1), layout[2]) = vals[2]
      BY <1>22, <3>1
    <3> QED BY <1>24, <1>25, <1>27, <3>1, <3>2
  <2> QED BY <1>26, <2>1, GetField
<1>29. ASSUME NEW i \in 1..n PROVE v[6 + i] = u[i]
  <2>1. PICK o \in Nat : o = i - 1
    OBVIOUS
  <2>2. PICK k \in 1..(2 + n) : k = 2 + i
    OBVIOUS
  <2>3. Offset(rest, o) = o
    <3>1. Len(Numbered(n)) = n
      BY DEF Numbered
    <3>2. o \in 0..n /\ 1 * o = o
      BY <2>1
    <3>3. Offset(Fields(Numbered(n), 1), o) = 1 * o
      BY <3>1, <3>2, FieldOffsets
    <3> QED BY <1>8, <3>2, <3>3 DEF U8
  <2>4. Field(rest[i]) /\ rest[i].width = 1
    <3>1. Len(Numbered(n)) = n
      BY DEF Numbered
    <3> QED BY <1>8, <3>1, FieldsAre DEF U8
  <2>5. Offset(layout, 2 + o) = 6 + o
    BY <1>23, <2>1, <2>3
  <2>6. k - 1 = 2 + o
    BY <2>1, <2>2
  <2>7. Get(v, 6 + o, rest[i]) = u[i]
    BY <1>22, <1>24, <1>25, <2>2, <2>5, <2>6
  <2>8. Get(v, 6 + o, rest[i]) = GetUint8(v, 6 + o)
    BY <2>4, GetField
  <2>9. PICK p \in Nat : p = 6 + o /\ p < Len(v) /\ p + 1 = 6 + i
    BY <1>20, <2>1
  <2>10. GetUint8(v, p) = v[p + 1]
    BY <1>20, <2>9, Read8
  <2> QED BY <2>7, <2>8, <2>9, <2>10
<1>30. SubSeq(v, 7, Len(v)) = u
  <2>1. PICK w : w = SubSeq(v, 7, Len(v))
    OBVIOUS
  <2>2. w \in Seq(Octet) /\ Len(w) = n /\ \A i \in 1..n : w[i] = v[6 + i]
    <3>1. w = [i \in 1..n |-> v[6 + i]]
      BY <1>20, <2>1
    <3>2. \A i \in 1..n : v[6 + i] \in Octet
      BY <1>3, <1>2, <1>29, ElementOfSeq
    <3>3. w \in [1..n -> Octet]
      BY <3>1, <3>2
    <3> QED BY <3>1, <3>3
  <2> QED BY <1>2, <1>3, <1>29, <2>1, <2>2, SeqEqual
<1> QED BY <1>1, <1>2, <1>15, <1>18, <1>19, <1>28, <1>30

(* What the client says of itself is what is read of it: every message fills   *)
(* the buffer made for it, and each of its numbers, signed ones included, is   *)
(* read where the layout has it, whatever the numbers and however many         *)
(* capabilities or bytes of a ticket there are (each message's to_buffer).       *)
THEOREM ClientMessagesSay ==
  /\ \A size : Signed32(size) => Says(SpiceLinkHeader(size))
  /\ \A id, type, channel, common, special :
        /\ Signed32(id) /\ type \in Octet /\ channel \in Octet
        /\ Numbers(common) /\ Numbers(special) /\ Signed32(Len(common)) /\ Signed32(Len(special))
        => Says(SpiceLinkMess(id, type, channel, common, special))
  /\ \A data \in Seq(Octet), n \in Nat : Says(SpiceLinkAuthTicket(data, n))
  /\ \A generation : Signed32(generation) => Says(SpiceMsgcAckSync(generation))
  /\ \A mode : Unsigned16(mode) => Says(SpiceMsgcMainMouseModeRequest(mode))
  /\ Says(SpiceMsgcDisplayInit)
  /\ \A x, y, buttons : Signed32(x) /\ Signed32(y) /\ Unsigned16(buttons) =>
        Says(SpiceMsgcMousePosition(x, y, buttons)) /\ Says(SpiceMsgcMouseMotion(x, y, buttons))
  /\ \A button, buttons : button \in Octet /\ Unsigned16(buttons) =>
        Says(SpiceMsgcMousePress(button, buttons)) /\ Says(SpiceMsgcMouseRelease(button))
  /\ \A code : Signed32(code) => Says(SpiceMsgcKeyDown(code)) /\ Says(SpiceMsgcKeyUp(code))
<1>1. \A size : Signed32(size) => Says(SpiceLinkHeader(size))
  BY LinkHeaderSays
<1>2. \A id, type, channel, common, special :
        /\ Signed32(id) /\ type \in Octet /\ channel \in Octet
        /\ Numbers(common) /\ Numbers(special) /\ Signed32(Len(common)) /\ Signed32(Len(special))
        => Says(SpiceLinkMess(id, type, channel, common, special))
  BY LinkMessSays
<1>3. \A data \in Seq(Octet), n \in Nat : Says(SpiceLinkAuthTicket(data, n))
  BY LinkAuthTicketSays
<1>4. \A generation : Signed32(generation) => Says(SpiceMsgcAckSync(generation))
  BY AckSyncSays
<1>5. \A mode : Unsigned16(mode) => Says(SpiceMsgcMainMouseModeRequest(mode))
  BY MouseModeSays
<1>6. Says(SpiceMsgcDisplayInit)
  BY DisplayInitSays
<1>7. \A x, y, buttons : Signed32(x) /\ Signed32(y) /\ Unsigned16(buttons) => Says(SpiceMsgcMousePosition(x, y, buttons))
  BY MousePositionSays
<1>8. \A x, y, buttons : Signed32(x) /\ Signed32(y) /\ Unsigned16(buttons) => Says(SpiceMsgcMouseMotion(x, y, buttons))
  BY <1>7 DEF SpiceMsgcMouseMotion
<1>9. \A button, buttons : button \in Octet /\ Unsigned16(buttons) => Says(SpiceMsgcMousePress(button, buttons))
  BY MousePressSays
<1>10. \A button \in Octet : Says(SpiceMsgcMouseRelease(button))
  <2>1. Unsigned16(0)
    BY DEF Unsigned16
  <2> QED BY <1>9, <2>1 DEF SpiceMsgcMouseRelease
<1>11. \A code : Signed32(code) => Says(SpiceMsgcKeyDown(code))
  BY KeySays
<1>12. \A code : Signed32(code) => Says(SpiceMsgcKeyUp(code))
  BY <1>11 DEF SpiceMsgcKeyUp
<1> QED BY <1>1, <1>2, <1>3, <1>4, <1>5, <1>6, <1>7, <1>8, <1>9, <1>10, <1>11, <1>12, Zenon

(* And so in the frame around it (build_msg): the frame's header has the type  *)
(* and the length of the message, and in what follows it the message's numbers *)
(* are read as they were written.                                              *)
THEOREM FramedMessagesSay ==
  ASSUME NEW type, Unsigned16(type), NEW m, Says(m), Signed32(Len(m.u8))
  PROVE  LET f == Framed(type, m).u8
         IN  /\ Says(Framed(type, m)) /\ GetUint16(f, 0, TRUE) = type /\ GetUint32(f, 2, TRUE) = Len(m.u8)
             /\ Written(m, SubSeq(f, 7, Len(f))) = m.vals
<1>1. m.u8 \in Seq(Octet) /\ Written(m, m.u8) = m.vals
  BY DEF Says
<1>2. PICK f : f = Framed(type, m).u8
  OBVIOUS
<1>3. /\ Says(Framed(type, m)) /\ GetUint16(f, 0, TRUE) = type /\ GetUint32(f, 2, TRUE) = Len(m.u8)
      /\ SubSeq(f, 7, Len(f)) = m.u8
  BY <1>1, <1>2, FrameSays
<1> QED BY <1>1, <1>2, <1>3

(* The two directions agree: what to_buffer writes of a layout whose names are *)
(* distinct is what from_dv reads of it, with where it ends, wherever in a     *)
(* buffer it begins and whatever stands around it.                             *)
THEOREM ReadersReadWriters ==
  ASSUME NEW u, NEW at, NEW layout, NEW vals, IsList(layout), Fits(u, at, layout, vals),
         \A j, k \in 1..Len(layout) : layout[j].name = layout[k].name => j = k
  PROVE  /\ Differs(u, Write(u, at, layout, vals), at, Size(layout))
         /\ Plain(Write(u, at, layout, vals), at, layout).at = at + Size(layout)
         /\ \A k \in 1..Len(layout) :
              Plain(Write(u, at, layout, vals), at, layout).val[layout[k].name] = vals[k]
<1>1. PICK v : v = Write(u, at, layout, vals)
  OBVIOUS
<1>2. /\ Differs(u, v, at, Size(layout))
      /\ \A j \in 1..Len(layout) : Get(v, at + Offset(layout, j - 1), layout[j]) = vals[j]
  BY <1>1, WriteRead
<1>3. Plain(v, at, layout).at = at + Size(layout) /\ Plain(v, at, layout).val = Read(v, at, layout)
  BY Zenon DEF Plain, Part
<1>4. DOMAIN layout = 1..Len(layout)
  <2>1. PICK S : layout \in Seq(S)
    BY DEF IsList
  <2> QED BY <2>1
<1>5. ASSUME NEW k \in 1..Len(layout)
      PROVE  Read(v, at, layout)[layout[k].name] = vals[k]
  <2> DEFINE Of(name) == CHOOSE j \in DOMAIN layout : layout[j].name = name
  <2>1. Of(layout[k].name) = k
    <3>1. k \in DOMAIN layout /\ \A j \in DOMAIN layout : layout[j].name = layout[k].name => j = k
      BY <1>4
    <3> QED BY <3>1, Zenon
  <2>2. Read(v, at, layout) = [name \in {layout[j].name : j \in DOMAIN layout} |->
                                 Get(v, at + Offset(layout, Of(name) - 1), layout[Of(name)])]
    BY Zenon DEF Read
  <2> HIDE DEF Of
  <2>3. Read(v, at, layout)[layout[k].name]
          = Get(v, at + Offset(layout, Of(layout[k].name) - 1), layout[Of(layout[k].name)])
    BY <1>4, <2>2, Zenon
  <2> QED BY <1>2, <2>1, <2>3
<1> QED BY <1>1, <1>2, <1>3, <1>5
=============================================================================
