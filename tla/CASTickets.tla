------------------------------ MODULE CASTickets ------------------------------
(***************************************************************************)
(* The ticket store of the RubyCAS server and the requests that work on it *)
(* (lib/casserver/cas.rb, model.rb, model/consumable.rb, server.rb).       *)
(*                                                                         *)
(* Several worker processes (config/unicorn.rb: worker_processes 3) serve  *)
(* HTTP requests and share one database.  A handler that first reads a     *)
(* ticket and later acts on what it read is two steps here, because every  *)
(* ActiveRecord call commits by itself and another worker may run between  *)
(* them.  GET /logout deletes in a transaction, with HTTP calls inside it: *)
(* on MySQL (config.example.yml) it sees the rows that were there at its   *)
(* first read, and its deletions are seen by others when it commits.       *)
(*                                                                         *)
(* A row stays in its table after it is destroyed, with its flag lowered,  *)
(* so that properties can speak of deleted tickets; no action of the code  *)
(* looks at such a row again.                                              *)
(***************************************************************************)
EXTENDS Integers, FiniteSets

CONSTANTS
  Worker,         \* server processes
  User,           \* user names
  Service,        \* service URLs, as clean_service_url returns them
  NoService,      \* the request has no service parameter
  Unparsable,     \* the services for which URI.parse raises InvalidURIError
  SingleSignOut,  \* config[:enable_single_sign_out]
  MaxLT, MaxTGT, MaxST, MaxPGT,       \* bounds: rows ever written to a table
  MaxTime,                            \* bound: the clock
  LTLife, STLife, SessionLife         \* the configured lifetimes, in ticks

ASSUME CASAssumption ==
  /\ IsFiniteSet(Worker)
  /\ NoService \notin Service
  /\ Unparsable \subseteq Service
  /\ SingleSignOut \in BOOLEAN
  /\ {MaxLT, MaxTGT, MaxST, MaxPGT, MaxTime} \subseteq Nat
  /\ {LTLife, STLife, SessionLife} \subseteq Nat

LTId  == 1..MaxLT
TGTId == 1..MaxTGT
STId  == 1..MaxST
PGTId == 1..MaxPGT
Time  == 0..MaxTime

VARIABLES
  now,       \* Time.now, the same for every worker
  lt,        \* casserver_lt
  tgt,       \* casserver_tgt
  st,        \* casserver_st: service tickets and proxy tickets (column type)
  pgt,       \* casserver_pgt
  req,       \* the local variables of the request each worker is serving
  tx,        \* the transaction of the GET /logout each worker is serving
  answers,   \* history: how often a service was told that a ticket is valid
  notified,  \* history: tickets whose service was sent a logout notification
  ended      \* history: of each session a logout has deleted, which rows there
             \* were when the logout read them, and when it committed

tables  == <<lt, tgt, st, pgt>>
closing == <<tx, ended>>
vars    == <<now, lt, tgt, st, pgt, req, tx, answers, notified, ended>>

-------------------------------------------------------------------------------
(* Rows, tables and requests.                                              *)

LTRow  == [consumed : BOOLEAN, born : Time]

\* lt is history: the login ticket with which the session was opened.
TGTRow == [row : {"live", "expired", "loggedOut"}, user : User, born : Time,
           lt : LTId]

\* pgt is 0 in a service ticket, where granted_by_pgt_id is NULL.
STRow  == [live : BOOLEAN, kind : {"ST", "PT"}, user : User, service : Service,
           tgt : TGTId, pgt : PGTId \cup {0}, consumed : BOOLEAN, born : Time]

PGTRow == [live : BOOLEAN, st : STId]

\* id is the ticket the handler has found; ok the verdict it reached on it.
Request == [at : {"idle", "login", "sso", "logout", "transaction", "validate",
                  "callback", "attributes", "proxy"},
            id : Nat, ok : BOOLEAN, service : Service \cup {NoService}]

Idle == [at |-> "idle", id |-> 0, ok |-> FALSE, service |-> NoService]

\* The transaction of GET /logout: the service tickets it has read and still has
\* to delete (left), those it has deleted (held: their rows stay locked), the
\* user's proxy-granting tickets in its snapshot, and the snapshot's keys.
Transaction == [left : SUBSET STId, held : SUBSET STId, pgts : SUBSET PGTId,
                st : SUBSET STId, pgt : SUBSET PGTId]

NoTransaction == [left |-> {}, held |-> {}, pgts |-> {}, st |-> {}, pgt |-> {}]

\* What is remembered of the logout that deleted a session: the keys of its
\* snapshot, and the service tickets that were there when it committed.
Ending == [st : SUBSET STId, pgt : SUBSET PGTId, last : SUBSET STId]

EmptyTable == [i \in {} |-> 0]

\* The primary key the next row of a table gets, as a set: empty at the bound.
Fresh(ids, table) ==
  {i \in ids \ DOMAIN table : \A j \in ids \ DOMAIN table : i <= j}

Insert(table, i, row) ==
  [j \in DOMAIN table \cup {i} |-> IF j = i THEN row ELSE table[j]]

\* generate_login_ticket.  Past the bound the new ticket is not tracked: the
\* model has no request that presents it.
WithLoginTicket(table) ==
  [j \in DOMAIN table \cup Fresh(LTId, table) |->
     IF j \in DOMAIN table THEN table[j] ELSE [consumed |-> FALSE, born |-> now]]

NewServiceTicket(u, s, g) ==
  [live |-> TRUE, kind |-> "ST", user |-> u, service |-> s, tgt |-> g,
   pgt |-> 0, consumed |-> FALSE, born |-> now]

\* Mutant: granted_by_tgt_id is left NULL.
NewProxyTicketWithoutSession(s, p) ==
  LET parent == st[pgt[p].st]
  IN  [live |-> TRUE, kind |-> "PT", user |-> parent.user, service |-> s,
       tgt |-> 0, pgt |-> p, consumed |-> FALSE, born |-> now]

\* Mutant: the session is looked up by user name.
NewProxyTicketByUser(s, p) ==
  LET parent == st[pgt[p].st]
  IN  [live |-> TRUE, kind |-> "PT", user |-> parent.user, service |-> s,
       tgt |-> CHOOSE g \in DOMAIN tgt : tgt[g].user = parent.user,
       pgt |-> p, consumed |-> FALSE, born |-> now]

NewProxyTicket(s, p) ==
  LET parent == st[pgt[p].st]
  IN  [live |-> TRUE, kind |-> "PT", user |-> parent.user, service |-> s,
       tgt |-> parent.tgt, pgt |-> p, consumed |-> FALSE, born |-> now]

Goto(w, at, id, ok, s) ==
  req' = [req EXCEPT ![w] = [at |-> at, id |-> id, ok |-> ok, service |-> s]]

Respond(w) == req' = [req EXCEPT ![w] = Idle]

Init ==
  /\ now = 0
  /\ lt = EmptyTable /\ tgt = EmptyTable /\ st = EmptyTable /\ pgt = EmptyTable
  /\ req = [w \in Worker |-> Idle]
  /\ tx = [w \in Worker |-> NoTransaction]
  /\ answers = [i \in STId |-> 0]
  /\ notified = {}
  /\ ended = EmptyTable

Tick ==
  /\ now < MaxTime
  /\ now' = now + 1
  /\ UNCHANGED <<tables, req, answers, notified, closing>>

-------------------------------------------------------------------------------
(* Login.                                                                  *)

\* A request that only hands out a login ticket: POST /loginTicket, GET /login
\* without a valid cookie, GET /logout without one, POST /login with an
\* unknown login ticket.
LoginForm(w) ==
  /\ req[w].at = "idle"
  /\ lt' = WithLoginTicket(lt)
  /\ UNCHANGED <<now, tgt, st, pgt, req, answers, notified, closing>>

\* Mutant: consumed? is not asked.
LoginTicketFresh(i) == now - lt[i].born < LTLife

LoginTicketValid(i) ==
  /\ ~lt[i].consumed
  /\ now - lt[i].born < LTLife

\* POST /login up to the verdict of validate_login_ticket.
PostLoginLookup(w) ==
  /\ req[w].at = "idle"
  /\ \E i \in DOMAIN lt : Goto(w, "login", i, LoginTicketValid(i), NoService)
  /\ UNCHANGED <<now, tables, answers, notified, closing>>

ConsumedLT(table, i) == [table EXCEPT ![i].consumed = TRUE]

\* consume!, then the form again with a new ticket and status 500.
PostLoginRefused(w) ==
  /\ req[w].at = "login" /\ ~req[w].ok
  /\ lt' = WithLoginTicket(ConsumedLT(lt, req[w].id))
  /\ Respond(w)
  /\ UNCHANGED <<now, tgt, st, pgt, answers, notified, closing>>

\* consume!, a new login ticket, then no authenticator accepts the
\* credentials, or one raises AuthenticatorError and the handler makes
\* another login ticket.
PostLoginDenied(w) ==
  /\ req[w].at = "login" /\ req[w].ok
  /\ LET once == WithLoginTicket(ConsumedLT(lt, req[w].id))
     IN  lt' \in {once, WithLoginTicket(once)}
  /\ Respond(w)
  /\ UNCHANGED <<now, tgt, st, pgt, answers, notified, closing>>

\* consume!, a new login ticket, a session, and a service ticket when the
\* request names a service (kept even if the redirect then fails to parse it).
PostLoginGranted(w) ==
  /\ req[w].at = "login" /\ req[w].ok
  /\ lt' = WithLoginTicket(ConsumedLT(lt, req[w].id))
  /\ \E u \in User, g \in Fresh(TGTId, tgt) :
       /\ tgt' = Insert(tgt, g, [row |-> "live", user |-> u, born |-> now,
                                 lt |-> req[w].id])
       /\ \/ st' = st
          \/ \E s \in Service, i \in Fresh(STId, st) :
               st' = Insert(st, i, NewServiceTicket(u, s, g))
  /\ Respond(w)
  /\ UNCHANGED <<now, pgt, answers, notified, closing>>

SessionExpired(g) == now - tgt[g].born > SessionLife

\* Mutant: a deleted session still passes.
SessionYoung(g) == ~SessionExpired(g)

\* validate_ticket_granting_ticket finds the row and it has not expired.
SessionValid(g) == tgt[g].row = "live" /\ ~SessionExpired(g)

\* GET /login with a cookie whose session is found and has not expired.
SSOLookup(w) ==
  /\ req[w].at = "idle"
  /\ \E g \in DOMAIN tgt :
       /\ SessionValid(g)
       /\ Goto(w, "sso", g, TRUE, NoService)
  /\ UNCHANGED <<now, tables, answers, notified, closing>>

\* GET /login with the cookie of an expired session: the row is destroyed; the
\* form follows, or the redirect of a gateway request.
SSOExpired(w) ==
  /\ req[w].at = "idle"
  /\ \E g \in DOMAIN tgt :
       /\ tgt[g].row = "live" /\ SessionExpired(g)
       /\ tgt' = [tgt EXCEPT ![g].row = "expired"]
  /\ lt' \in {lt, WithLoginTicket(lt)}
  /\ UNCHANGED <<now, st, pgt, req, answers, notified, closing>>

\* The service ticket of single sign-on, granted on the session read before;
\* the form is shown when the redirect cannot be built.
SSOGrant(w) ==
  /\ req[w].at = "sso"
  /\ \E s \in Service, i \in Fresh(STId, st) :
       LET g == req[w].id
       IN  /\ st' = Insert(st, i, NewServiceTicket(tgt[g].user, s, g))
           /\ lt' = IF s \in Unparsable THEN WithLoginTicket(lt) ELSE lt
  /\ Respond(w)
  /\ UNCHANGED <<now, tgt, pgt, answers, notified, closing>>

\* renew, or no service: the form.
SSOForm(w) ==
  /\ req[w].at = "sso"
  /\ lt' = WithLoginTicket(lt)
  /\ Respond(w)
  /\ UNCHANGED <<now, tgt, st, pgt, answers, notified, closing>>

-------------------------------------------------------------------------------
(* Logout.                                                                 *)

LogoutLookup(w) ==
  /\ req[w].at = "idle"
  /\ \E g \in DOMAIN tgt :
       /\ tgt[g].row = "live"
       /\ Goto(w, "logout", g, TRUE, NoService)
  /\ UNCHANGED <<now, tables, answers, notified, closing>>

\* Mutant: only the tickets that have not been used.
UnusedServiceTickets(g) ==
  {i \in DOMAIN st : /\ st[i].live /\ ~st[i].consumed
                     /\ st[i].kind = "ST" /\ st[i].tgt = g}

\* tgt.granted_service_tickets: the association's class is ServiceTicket.
GrantedServiceTickets(g) ==
  {i \in DOMAIN st : st[i].live /\ st[i].kind = "ST" /\ st[i].tgt = g}

\* Mutant: the tickets of the session, not those of its user.
SessionPGTs(g) ==
  {p \in DOMAIN pgt : pgt[p].live /\ st[pgt[p].st].live /\ st[pgt[p].st].tgt = g}

\* The proxy-granting tickets of the user, joined with their service tickets.
UserPGTs(g) ==
  {p \in DOMAIN pgt : /\ pgt[p].live /\ st[pgt[p].st].live
                      /\ st[pgt[p].st].user = tgt[g].user}

\* The join is made when the transaction has destroyed service tickets of its
\* own: it has the snapshot's rows less those.
JoinedPGTs(w) == {p \in tx[w].pgts : pgt[p].st \notin tx[w].held}

Destroyed(table, ids) ==
  [i \in DOMAIN table |->
     IF i \in ids THEN [table[i] EXCEPT !.live = FALSE] ELSE table[i]]

\* The transaction's first read: its snapshot is of this moment.
LogoutBegin(w) ==
  LET g == req[w].id
  IN  /\ req[w].at = "logout"
      /\ tx' = [tx EXCEPT ![w] = [left |-> GrantedServiceTickets(g), held |-> {},
                                  pgts |-> UserPGTs(g),
                                  st |-> DOMAIN st, pgt |-> DOMAIN pgt]]
      /\ Goto(w, "transaction", g, TRUE, NoService)
      /\ UNCHANGED <<now, tables, answers, notified, ended>>

\* send_logout_notification_for_service_ticket, whatever the service answers.
LogoutNotify(w) ==
  /\ req[w].at = "transaction" /\ SingleSignOut
  /\ \E i \in tx[w].left :
       st[i].service \notin Unparsable /\ notified' = notified \cup {i}
  /\ UNCHANGED <<now, tables, req, answers, closing>>

\* A row that another worker's transaction has deleted is locked until its end.
Unlocked(w, i) == \A v \in Worker \ {w} : i \notin tx[v].held

\* st.destroy, after the notification.  A row that another transaction has
\* deleted meanwhile is not found.
LogoutDestroy(w) ==
  /\ req[w].at = "transaction"
  /\ \E i \in tx[w].left :
       /\ SingleSignOut => i \in notified
       /\ Unlocked(w, i)
       /\ tx' = [tx EXCEPT ![w].left = @ \ {i}, ![w].held = IF st[i].live THEN @ \cup {i} ELSE @]
  /\ UNCHANGED <<now, tables, req, answers, notified, ended>>

\* The session's row is deleted last, and a login ticket made for the page.
LogoutCommit(w) ==
  LET g == req[w].id
  IN  /\ req[w].at = "transaction" /\ tx[w].left = {}
      /\ st' = Destroyed(st, tx[w].held)
      /\ pgt' = Destroyed(pgt, JoinedPGTs(w))
      /\ IF tgt[g].row = "live"
         THEN /\ tgt' = [tgt EXCEPT ![g].row = "loggedOut"]
              /\ ended' = Insert(ended, g, [st |-> tx[w].st, pgt |-> tx[w].pgt,
                                           last |-> DOMAIN st])
         ELSE UNCHANGED <<tgt, ended>>
      /\ lt' = WithLoginTicket(lt)
      /\ tx' = [tx EXCEPT ![w] = NoTransaction]
      /\ Respond(w)
      /\ UNCHANGED <<now, answers, notified>>

\* URI.parse in send_logout_notification_for_service_ticket stands before its
\* begin ... rescue: an unparsable service raises out of the transaction, which
\* rolls back.  The services visited before it have had their notification.
LogoutAborts(w) ==
  /\ req[w].at = "transaction" /\ SingleSignOut
  /\ \E i \in tx[w].left : st[i].service \in Unparsable
  /\ tx' = [tx EXCEPT ![w] = NoTransaction]
  /\ Respond(w)
  /\ UNCHANGED <<now, tables, answers, notified, ended>>

-------------------------------------------------------------------------------
(* Validation.                                                             *)

\* Mutant: consumed? is not asked.
ServiceTicketFresh(i, s) ==
  /\ now - st[i].born <= STLife
  /\ st[i].service = s

\* The tests of validate_service_ticket on a row it has found.  The class test
\* never refuses: ServiceTicket.find_by_ticket finds no row of class ProxyTicket.
ServiceTicketValid(i, s) ==
  /\ ~st[i].consumed
  /\ now - st[i].born <= STLife
  /\ st[i].service = s

\* GET /validate, /serviceValidate and /proxyValidate up to the verdict.  A
\* ticket that is not found is refused and nothing changes.
ValidateLookup(w) ==
  /\ req[w].at = "idle"
  /\ \E i \in DOMAIN st, s \in Service :
       /\ st[i].live /\ st[i].kind = "ST"
       /\ Goto(w, "validate", i, ServiceTicketValid(i, s), s)
  /\ UNCHANGED <<now, tables, answers, notified, closing>>

\* Mutant: the time is assigned and not saved.
NotSavedST(table, i) == table

\* consume! writes by primary key: it changes no row if the row has been
\* deleted since it was read, and waits while a logout has it locked.
ConsumedST(table, i) ==
  [table EXCEPT ![i].consumed = table[i].consumed \/ table[i].live]

Answered(i) == answers' = [answers EXCEPT ![i] = @ + 1]

ValidateRefused(w) ==
  /\ req[w].at = "validate" /\ ~req[w].ok
  /\ Unlocked(w, req[w].id)
  /\ st' = ConsumedST(st, req[w].id)
  /\ Respond(w)
  /\ UNCHANGED <<now, lt, tgt, pgt, answers, notified, closing>>

\* GET /validate: consume!, and the answer is yes.
ValidateAnswer(w) ==
  /\ req[w].at = "validate" /\ req[w].ok
  /\ Unlocked(w, req[w].id)
  /\ st' = ConsumedST(st, req[w].id)
  /\ Answered(req[w].id)
  /\ Respond(w)
  /\ UNCHANGED <<now, lt, tgt, pgt, notified, closing>>

\* GET /serviceValidate and /proxyValidate: consume!, then the proxy callback
\* when the request has a pgtUrl, then the user's attributes.
ServiceValidateConsume(w) ==
  /\ req[w].at = "validate" /\ req[w].ok
  /\ Unlocked(w, req[w].id)
  /\ st' = ConsumedST(st, req[w].id)
  /\ \E next \in {"callback", "attributes"} :
       Goto(w, next, req[w].id, TRUE, req[w].service)
  /\ UNCHANGED <<now, lt, tgt, pgt, answers, notified, closing>>

\* The callback server accepts the proxy-granting ticket, and it is saved.
CallbackAccepted(w) ==
  /\ req[w].at = "callback"
  /\ \E p \in Fresh(PGTId, pgt) :
       pgt' = Insert(pgt, p, [live |-> TRUE, st |-> req[w].id])
  /\ Goto(w, "attributes", req[w].id, TRUE, req[w].service)
  /\ UNCHANGED <<now, lt, tgt, st, answers, notified, closing>>

\* A bad status code: no ticket is saved, the validation goes on.
CallbackRejected(w) ==
  /\ req[w].at = "callback"
  /\ Goto(w, "attributes", req[w].id, TRUE, req[w].service)
  /\ UNCHANGED <<now, tables, answers, notified, closing>>

\* st.granted_by_tgt.extra_attributes: the answer is yes while the session's
\* row exists.
AttributesAnswer(w) ==
  /\ req[w].at = "attributes"
  /\ tgt[st[req[w].id].tgt].row = "live"
  /\ Answered(req[w].id)
  /\ Respond(w)
  /\ UNCHANGED <<now, tables, notified, closing>>

\* granted_by_tgt is nil: NoMethodError, status 500.
AttributesError(w) ==
  /\ req[w].at = "attributes"
  /\ tgt[st[req[w].id].tgt].row # "live"
  /\ Respond(w)
  /\ UNCHANGED <<now, tables, answers, notified, closing>>

-------------------------------------------------------------------------------
(* Proxying.                                                               *)

\* GET /proxy: validate_proxy_granting_ticket.
ProxyLookup(w) ==
  /\ req[w].at = "idle"
  /\ \E p \in DOMAIN pgt :
       /\ pgt[p].live /\ st[pgt[p].st].live
       /\ Goto(w, "proxy", p, TRUE, NoService)
  /\ UNCHANGED <<now, tables, answers, notified, closing>>

\* generate_proxy_ticket, from the ticket objects read before.
ProxyGrant(w) ==
  /\ req[w].at = "proxy"
  /\ \E s \in Service, i \in Fresh(STId, st) :
       st' = Insert(st, i, NewProxyTicket(s, req[w].id))
  /\ Respond(w)
  /\ UNCHANGED <<now, lt, tgt, pgt, answers, notified, closing>>

-------------------------------------------------------------------------------
\* The request ends early: the callback connection raises, a lock is waited for
\* too long or in a circle, or unicorn kills a worker that is over its timeout.
\* An open transaction rolls back; the notifications it has sent are sent.
RequestDies(w) ==
  /\ req[w].at # "idle"
  /\ tx' = [tx EXCEPT ![w] = NoTransaction]
  /\ Respond(w)
  /\ UNCHANGED <<now, tables, answers, notified, ended>>

LoginStep(w) ==
  \/ LoginForm(w) \/ PostLoginLookup(w) \/ PostLoginRefused(w)
  \/ PostLoginDenied(w) \/ PostLoginGranted(w)
  \/ SSOLookup(w) \/ SSOExpired(w) \/ SSOGrant(w) \/ SSOForm(w)

LogoutStep(w) ==
  \/ LogoutLookup(w) \/ LogoutBegin(w) \/ LogoutNotify(w) \/ LogoutDestroy(w)
  \/ LogoutCommit(w) \/ LogoutAborts(w)

ValidateStep(w) ==
  \/ ValidateLookup(w) \/ ValidateRefused(w) \/ ValidateAnswer(w)
  \/ ServiceValidateConsume(w) \/ CallbackAccepted(w) \/ CallbackRejected(w)
  \/ AttributesAnswer(w) \/ AttributesError(w)

ProxyStep(w) == ProxyLookup(w) \/ ProxyGrant(w)

RequestStep(w) ==
  LoginStep(w) \/ LogoutStep(w) \/ ValidateStep(w) \/ ProxyStep(w) \/ RequestDies(w)

Next == Tick \/ \E w \in Worker : RequestStep(w)

Spec == Init /\ [][Next]_vars

-------------------------------------------------------------------------------
(* Properties.                                                             *)

Types ==
  /\ now \in Time
  /\ DOMAIN lt \subseteq LTId /\ \A i \in DOMAIN lt : lt[i] \in LTRow
  /\ DOMAIN tgt \subseteq TGTId /\ \A g \in DOMAIN tgt : tgt[g] \in TGTRow
  /\ DOMAIN st \subseteq STId /\ \A i \in DOMAIN st : st[i] \in STRow
  /\ DOMAIN pgt \subseteq PGTId /\ \A p \in DOMAIN pgt : pgt[p] \in PGTRow
  /\ req \in [Worker -> Request]
  /\ answers \in [STId -> Nat]
  /\ notified \subseteq STId

ClosingTypes ==
  /\ tx \in [Worker -> Transaction]
  /\ DOMAIN ended \subseteq TGTId /\ \A g \in DOMAIN ended : ended[g] \in Ending

\* The ticket a request has found was written to the table it was found in.
Found(r) ==
  /\ r.at = "login" => r.id \in DOMAIN lt
  /\ r.at \in {"sso", "logout", "transaction"} => r.id \in DOMAIN tgt
  /\ r.at \in {"validate", "callback", "attributes"} =>
       r.id \in DOMAIN st /\ st[r.id].kind = "ST"
  /\ r.at = "proxy" => r.id \in DOMAIN pgt

References ==
  /\ \A w \in Worker : Found(req[w])
  /\ \A i \in DOMAIN st : st[i].tgt \in DOMAIN tgt
  /\ \A p \in DOMAIN pgt : pgt[p].st \in DOMAIN st /\ st[pgt[p].st].kind = "ST"

\* Every table, request and history variable has its type, and the identifiers
\* that rows and requests hold are those of rows that were written.
TypeOK == Types /\ ClosingTypes /\ References

\* Every ticket descends from a login of its own user: a service ticket carries
\* the user of the session that granted it, and a proxy ticket the user and the
\* session of the service ticket whose validation made its proxy-granting
\* ticket (generate_service_ticket, generate_proxy_ticket).
Provenance ==
  /\ \A i \in DOMAIN st : st[i].user = tgt[st[i].tgt].user
  /\ \A i \in DOMAIN st : st[i].kind = "PT" =>
       /\ st[i].pgt \in DOMAIN pgt
       /\ st[pgt[st[i].pgt].st].tgt = st[i].tgt

\* Once a service has been told that a ticket is valid, no later request can be
\* told so: consume! has run, or the row is gone, before the answer is given.
UsedUp ==
  \A i \in DOMAIN st : answers[i] > 0 => st[i].consumed \/ ~st[i].live

\* Requests that have found ticket i good and have not yet answered.
Accepting(i) ==
  {w \in Worker : /\ req[w].at \in {"validate", "callback", "attributes"}
                  /\ req[w].ok /\ req[w].id = i}

\* A service ticket is answered with yes at most once per worker process: the
\* window between consumed? and consume! lets in one request of each worker
\* and none after it.  With one worker, at most once.
AnswersBounded ==
  \A i \in STId : answers[i] <= Cardinality(Worker)

\* Requests that have found login ticket i good and have not yet used it.
Opening(i) == {w \in Worker : req[w].at = "login" /\ req[w].ok /\ req[w].id = i}

\* The same window in validate_login_ticket: the sessions one login ticket has
\* opened, with those that requests can still open with it, are never more than
\* the worker processes.
LoginsBounded ==
  \A i \in DOMAIN lt :
    Cardinality({g \in DOMAIN tgt : tgt[g].lt = i}) + Cardinality(Opening(i))
      <= Cardinality(Worker)

\* Service tickets granted on session g after its logout had committed.
GrantedAfter(g) ==
  {i \in DOMAIN st \ ended[g].last : st[i].kind = "ST" /\ st[i].tgt = g}

\* When a logout has deleted a session, none of the session's service tickets
\* works that was there when its transaction began.  Others are granted while
\* it sends its notifications, as many as there is time for; once it has
\* committed, only requests that had read the session before grant one more,
\* at most one in each other worker.
OrphansBounded ==
  \A g \in DOMAIN ended :
    /\ \A i \in GrantedServiceTickets(g) : i \notin ended[g].st
    /\ Cardinality(GrantedAfter(g)) < Cardinality(Worker)

\* A logout ends all proxying its user had when its transaction began: the
\* proxy-granting tickets of other sessions are deleted by the join, and those
\* of its own session, which the join misses, have lost their service ticket.
LogoutEndsProxying ==
  \A g \in DOMAIN ended : \A p \in ended[g].pgt :
    st[pgt[p].st].user = tgt[g].user => ~(pgt[p].live /\ st[pgt[p].st].live)

\* A proxy-granting ticket that still works belongs to a session that has not
\* been logged out (one worker: requests do not overlap).
ProxiesEndWithSession ==
  \A p \in DOMAIN pgt : pgt[p].live /\ st[pgt[p].st].live =>
    tgt[st[pgt[p].st].tgt].row # "loggedOut"

\* With single sign-out, every service that was told a user is logged in has
\* been notified by the time the user's session is logged out (one worker).
ServicesNotified ==
  \A i \in DOMAIN st :
    SingleSignOut /\ answers[i] > 0 /\ tgt[st[i].tgt].row = "loggedOut" =>
      i \in notified

\* The life of each ticket, as TicketLifecycle describes it.
LifeOf(i) ==
  CASE i \notin DOMAIN st -> "unissued"
    [] i \in DOMAIN st /\ answers[i] > 0 -> "redeemed"
    [] i \in DOMAIN st /\ answers[i] = 0
         /\ (\E w \in Accepting(i) : req[w].at # "validate") -> "claimed"
    [] i \in DOMAIN st /\ answers[i] = 0
         /\ ~(\E w \in Accepting(i) : req[w].at # "validate") ->
           IF st[i].live /\ ~st[i].consumed THEN "valid" ELSE "void"

Lifecycle ==
  INSTANCE TicketLifecycle WITH
    Ticket <- STId, state <- [i \in STId |-> LifeOf(i)], told <- answers

\* One worker process keeps the promise of TicketLifecycle.
OneTimeTickets == Lifecycle!Spec

-------------------------------------------------------------------------------
(* What the documentation says and the code does not do.                   *)

\* A service ticket is accepted once (cas.rb:175, "has already been used up").
SingleUse == \A i \in STId : answers[i] <= 1

\* Logging out deletes the proxy-granting tickets of the user that logs out
\* (CHANGELOG:314).
OwnProxyGrantingTicketsDeleted ==
  \A p \in DOMAIN pgt : tgt[st[pgt[p].st].tgt].row = "loggedOut" => ~pgt[p].live

===============================================================================
