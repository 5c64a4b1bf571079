--------------------------- MODULE CASTicketsProofs ---------------------------
(***************************************************************************)
(* Theorems about CASTickets for every set of workers, users and services, *)
(* every bound and every lifetime.                                         *)
(***************************************************************************)
EXTENDS CASTickets, FiniteSetTheorems, TLAPS

-------------------------------------------------------------------------------
(* Lemmas about the operators on tables.                                   *)

\* The key of a new row is one of the table's keys and not in use.
LEMMA FreshKey ==
  ASSUME NEW ids, NEW table, NEW i \in Fresh(ids, table)
  PROVE  i \in ids /\ i \notin DOMAIN table
BY DEF Fresh

\* generate_login_ticket keeps the rows of a well-typed table and its type.
LEMMA LoginTicketRows ==
  ASSUME NEW table, now \in Time, DOMAIN table \subseteq LTId,
         \A i \in DOMAIN table : table[i] \in LTRow
  PROVE  /\ DOMAIN table \subseteq DOMAIN WithLoginTicket(table)
         /\ DOMAIN WithLoginTicket(table) \subseteq LTId
         /\ \A i \in DOMAIN WithLoginTicket(table) : WithLoginTicket(table)[i] \in LTRow
         /\ \A i \in DOMAIN table : WithLoginTicket(table)[i] = table[i]
BY DEF WithLoginTicket, Fresh, LTRow

\* consume! on a login ticket keeps the table's type.
LEMMA ConsumedLTRows ==
  ASSUME NEW table, NEW i \in DOMAIN table,
         \A j \in DOMAIN table : table[j] \in LTRow
  PROVE  /\ DOMAIN ConsumedLT(table, i) = DOMAIN table
         /\ \A j \in DOMAIN table : ConsumedLT(table, i)[j] \in LTRow
BY DEF ConsumedLT, LTRow

\* consume! on a service ticket changes the column consumed of one row only.
LEMMA ConsumedSTRows ==
  ASSUME NEW table, NEW i \in DOMAIN table,
         \A j \in DOMAIN table : table[j] \in STRow
  PROVE  /\ DOMAIN ConsumedST(table, i) = DOMAIN table
         /\ \A j \in DOMAIN table :
              LET row == ConsumedST(table, i)[j]
              IN  /\ row \in STRow
                  /\ row.live = table[j].live /\ row.kind = table[j].kind
                  /\ row.user = table[j].user /\ row.service = table[j].service
                  /\ row.tgt = table[j].tgt /\ row.pgt = table[j].pgt
                  /\ row.born = table[j].born
                  /\ table[j].consumed => row.consumed
         /\ ConsumedST(table, i)[i].live => ConsumedST(table, i)[i].consumed
BY DEF ConsumedST, STRow

\* Destroying service tickets lowers flags and changes nothing else.
LEMMA DestroyedSTRows ==
  ASSUME NEW table, NEW ids, \A j \in DOMAIN table : table[j] \in STRow
  PROVE  /\ DOMAIN Destroyed(table, ids) = DOMAIN table
         /\ \A j \in DOMAIN table :
              LET row == Destroyed(table, ids)[j]
              IN  /\ row \in STRow
                  /\ row.live => table[j].live /\ j \notin ids
                  /\ row.kind = table[j].kind /\ row.user = table[j].user
                  /\ row.service = table[j].service
                  /\ row.tgt = table[j].tgt /\ row.pgt = table[j].pgt
                  /\ row.born = table[j].born /\ row.consumed = table[j].consumed
BY DEF Destroyed, STRow

LEMMA DestroyedPGTRows ==
  ASSUME NEW table, NEW ids, \A j \in DOMAIN table : table[j] \in PGTRow
  PROVE  /\ DOMAIN Destroyed(table, ids) = DOMAIN table
         /\ \A j \in DOMAIN table :
              LET row == Destroyed(table, ids)[j]
              IN  row \in PGTRow /\ row.st = table[j].st
BY DEF Destroyed, PGTRow

-------------------------------------------------------------------------------
(* Type correctness.                                                       *)

\* A request takes a step; the tables may gain rows, and keep those they have.
LEMMA RequestFound ==
  ASSUME TypeOK, NEW w \in Worker, NEW r \in Request,
         req' = [req EXCEPT ![w] = r], Found(r)',
         DOMAIN lt \subseteq DOMAIN lt', DOMAIN tgt \subseteq DOMAIN tgt',
         DOMAIN st \subseteq DOMAIN st', DOMAIN pgt \subseteq DOMAIN pgt',
         \A i \in DOMAIN st : st'[i].kind = st[i].kind
  PROVE  /\ req' \in [Worker -> Request]
         /\ \A v \in Worker : Found(req[v])'
<1>1. req \in [Worker -> Request] /\ \A v \in Worker : Found(req[v])
  BY DEF TypeOK, Types, References
<1>2. req' \in [Worker -> Request]
  BY <1>1
<1>3. ASSUME NEW v \in Worker PROVE Found(req[v])'
  <2>1. CASE v = w
    <3>1. req'[v] = r
      BY <1>1, <2>1
    <3> QED BY <3>1 DEF Found
  <2>2. CASE v # w
    <3>1. req'[v] = req[v]
      BY <1>1, <2>2
    <3> QED BY <1>1, <3>1 DEF Found
  <2> QED BY <2>1, <2>2
<1> QED BY <1>2, <1>3

\* What TypeOK says of the tables, the requests and the answers.
Rows == Types /\ References

LEMMA IdleRequest == Idle \in Request /\ Found(Idle) /\ Found(Idle)'
BY DEF Idle, Request, Found

\* A request that looks a ticket up and writes no table.
LEMMA LookupTypes ==
  ASSUME TypeOK, NEW w \in Worker, NEW r \in Request, Found(r),
         req' = [req EXCEPT ![w] = r], UNCHANGED <<now, tables, answers, notified>>
  PROVE  Rows'
<1>1. UNCHANGED <<now, lt, tgt, st, pgt, answers, notified>>
  BY DEF tables
<1>2. Found(r)'
  BY <1>1 DEF Found
<1>3. /\ req' \in [Worker -> Request]
      /\ \A v \in Worker : Found(req[v])'
  BY <1>1, <1>2, RequestFound
<1>4. Types'
  BY <1>1, <1>3 DEF TypeOK, Types
<1>5. References'
  BY <1>1, <1>3 DEF TypeOK, References
<1> QED BY <1>4, <1>5 DEF Rows

\* Keys are natural numbers.
LEMMA KeysAreNat ==
  LTId \subseteq Nat /\ TGTId \subseteq Nat /\ STId \subseteq Nat /\ PGTId \subseteq Nat
BY CASAssumption DEF LTId, TGTId, STId, PGTId

LEMMA TypeInit == Init => TypeOK
<1> SUFFICES ASSUME Init PROVE TypeOK
  OBVIOUS
<1>1. Types
  BY CASAssumption DEF Init, Types, EmptyTable, Time, Idle, Request
<1>2. References
  BY IdleRequest DEF Init, References, EmptyTable
<1>3. ClosingTypes
  BY DEF Init, ClosingTypes, NoTransaction, Transaction, EmptyTable
<1> QED BY <1>1, <1>2, <1>3 DEF TypeOK

\* The actions of login and logout that write no table but casserver_lt.
LEMMA TypeLoginTickets ==
  ASSUME TypeOK, NEW w \in Worker,
         LoginForm(w) \/ PostLoginRefused(w) \/ PostLoginDenied(w) \/ SSOForm(w)
  PROVE  Rows'
<1> DEFINE used == ConsumedLT(lt, req[w].id)
           once == WithLoginTicket(used)
<1>1. /\ lt' \in {WithLoginTicket(lt), once, WithLoginTicket(once)}
      /\ lt' # WithLoginTicket(lt) => req[w].at = "login"
      /\ req' = req \/ Respond(w)
      /\ UNCHANGED <<now, tgt, st, pgt, answers, notified>>
  BY DEF LoginForm, PostLoginRefused, PostLoginDenied, SSOForm
<1>2. DOMAIN lt \subseteq LTId /\ (\A j \in DOMAIN lt : lt[j] \in LTRow) /\ now \in Time
  BY DEF TypeOK, Types
<1>3. DOMAIN lt \subseteq DOMAIN lt' /\ DOMAIN lt' \subseteq LTId
      /\ \A j \in DOMAIN lt' : lt'[j] \in LTRow
  <2>1. CASE lt' = WithLoginTicket(lt)
    BY <1>2, <2>1, LoginTicketRows
  <2>2. CASE lt' # WithLoginTicket(lt)
    <3>1. req[w].id \in DOMAIN lt
      BY <1>1, <2>2 DEF TypeOK, References, Found
    <3>2. DOMAIN used = DOMAIN lt /\ \A j \in DOMAIN used : used[j] \in LTRow
      BY <1>2, <3>1, ConsumedLTRows
    <3>3. /\ DOMAIN used \subseteq DOMAIN once /\ DOMAIN once \subseteq LTId
          /\ \A j \in DOMAIN once : once[j] \in LTRow
      BY <1>2, <3>2, LoginTicketRows
    <3>4. /\ DOMAIN once \subseteq DOMAIN WithLoginTicket(once)
          /\ DOMAIN WithLoginTicket(once) \subseteq LTId
          /\ \A j \in DOMAIN WithLoginTicket(once) : WithLoginTicket(once)[j] \in LTRow
      BY <1>2, <3>3, LoginTicketRows
    <3> QED BY <1>1, <2>2, <3>2, <3>3, <3>4
  <2> QED BY <2>1, <2>2
<1> HIDE DEF used, once
<1>4. req' \in [Worker -> Request] /\ \A v \in Worker : Found(req[v])'
  <2>1. CASE req' = req
    BY <1>1, <1>3, <2>1 DEF TypeOK, Types, References, Found
  <2>2. CASE Respond(w)
    BY <1>1, <1>3, <2>2, RequestFound, IdleRequest DEF Respond
  <2> QED BY <1>1, <2>1, <2>2
<1>5. Types'
  BY <1>1, <1>3, <1>4 DEF TypeOK, Types
<1>6. References'
  BY <1>1, <1>4 DEF TypeOK, References
<1> QED BY <1>5, <1>6 DEF Rows

\* The actions that only look a ticket up.
LEMMA TypeLookups ==
  ASSUME TypeOK, NEW w \in Worker,
         PostLoginLookup(w) \/ SSOLookup(w) \/ LogoutLookup(w) \/ LogoutBegin(w)
           \/ ValidateLookup(w) \/ CallbackRejected(w) \/ ProxyLookup(w)
  PROVE  Rows'
<1>1. \E r \in Request : Found(r) /\ req' = [req EXCEPT ![w] = r]
  <2> USE KeysAreNat DEF Goto
  <2>1. CASE PostLoginLookup(w)
    <3>1. PICK i \in DOMAIN lt : Goto(w, "login", i, LoginTicketValid(i), NoService)
      BY <2>1 DEF PostLoginLookup
    <3> DEFINE r == [at |-> "login", id |-> i, ok |-> LoginTicketValid(i),
                     service |-> NoService]
    <3>2. LoginTicketValid(i) \in BOOLEAN
      BY DEF LoginTicketValid
    <3>3. r \in Request /\ Found(r)
      BY <3>2 DEF TypeOK, Types, Request, Found
    <3> QED BY <3>1, <3>3
  <2>2. CASE SSOLookup(w)
    <3>1. PICK g \in DOMAIN tgt : Goto(w, "sso", g, TRUE, NoService)
      BY <2>2 DEF SSOLookup
    <3> DEFINE r == [at |-> "sso", id |-> g, ok |-> TRUE, service |-> NoService]
    <3>2. r \in Request /\ Found(r)
      BY DEF TypeOK, Types, Request, Found
    <3> QED BY <3>1, <3>2
  <2>3. CASE LogoutLookup(w)
    <3>1. PICK g \in DOMAIN tgt : Goto(w, "logout", g, TRUE, NoService)
      BY <2>3 DEF LogoutLookup
    <3> DEFINE r == [at |-> "logout", id |-> g, ok |-> TRUE, service |-> NoService]
    <3>2. r \in Request /\ Found(r)
      BY DEF TypeOK, Types, Request, Found
    <3> QED BY <3>1, <3>2
  <2>4. CASE ValidateLookup(w)
    <3>1. PICK i \in DOMAIN st, s \in Service :
            st[i].kind = "ST" /\ Goto(w, "validate", i, ServiceTicketValid(i, s), s)
      BY <2>4 DEF ValidateLookup
    <3> DEFINE r == [at |-> "validate", id |-> i, ok |-> ServiceTicketValid(i, s),
                     service |-> s]
    <3>2. ServiceTicketValid(i, s) \in BOOLEAN
      BY DEF ServiceTicketValid
    <3>3. r \in Request /\ Found(r)
      BY <3>1, <3>2 DEF TypeOK, Types, Request, Found
    <3> QED BY <3>1, <3>3
  <2>5. CASE CallbackRejected(w)
    <3> DEFINE r == [at |-> "attributes", id |-> req[w].id, ok |-> TRUE,
                     service |-> req[w].service]
    <3>1. req[w] \in Request /\ Found(req[w]) /\ req[w].at = "callback"
      BY <2>5 DEF TypeOK, Types, References, CallbackRejected
    <3>2. r \in Request /\ Found(r)
      BY <3>1 DEF Request, Found
    <3> QED BY <2>5, <3>2 DEF CallbackRejected
  <2>6. CASE ProxyLookup(w)
    <3>1. PICK p \in DOMAIN pgt : Goto(w, "proxy", p, TRUE, NoService)
      BY <2>6 DEF ProxyLookup
    <3> DEFINE r == [at |-> "proxy", id |-> p, ok |-> TRUE, service |-> NoService]
    <3>2. r \in Request /\ Found(r)
      BY DEF TypeOK, Types, Request, Found
    <3> QED BY <3>1, <3>2
  <2>7. CASE LogoutBegin(w)
    <3> DEFINE r == [at |-> "transaction", id |-> req[w].id, ok |-> TRUE,
                     service |-> NoService]
    <3>1. req[w] \in Request /\ Found(req[w]) /\ req[w].at = "logout"
      BY <2>7 DEF TypeOK, Types, References, LogoutBegin
    <3>2. r \in Request /\ Found(r)
      BY <3>1 DEF Request, Found
    <3> QED BY <2>7, <3>2 DEF LogoutBegin
  <2> QED BY <2>1, <2>2, <2>3, <2>4, <2>5, <2>6, <2>7
<1>2. UNCHANGED <<now, tables, answers, notified>>
  BY DEF PostLoginLookup, SSOLookup, LogoutLookup, LogoutBegin, ValidateLookup,
         CallbackRejected, ProxyLookup
<1> QED BY <1>1, <1>2, LookupTypes

\* The actions that end a request and write no table.
LEMMA TypeEndings ==
  ASSUME TypeOK, NEW w \in Worker,
         LogoutAborts(w) \/ AttributesAnswer(w) \/ AttributesError(w) \/ RequestDies(w)
  PROVE  Rows'
<1>1. Respond(w) /\ UNCHANGED <<now, lt, tgt, st, pgt>>
  BY DEF LogoutAborts, AttributesAnswer, AttributesError, RequestDies, tables
<1>2. req' \in [Worker -> Request] /\ \A v \in Worker : Found(req[v])'
  BY <1>1, RequestFound, IdleRequest DEF Respond
<1>3. answers' \in [STId -> Nat]
  BY DEF TypeOK, Types, LogoutAborts, AttributesAnswer, AttributesError,
         RequestDies, Answered
<1>4. notified' \subseteq STId
  BY DEF TypeOK, Types, LogoutAborts, AttributesAnswer, AttributesError, RequestDies
<1>5. Types'
  BY <1>1, <1>2, <1>3, <1>4 DEF TypeOK, Types
<1>6. References'
  BY <1>1, <1>2 DEF TypeOK, References
<1> QED BY <1>5, <1>6 DEF Rows

\* The consumption of a service ticket.
LEMMA TypeConsume ==
  ASSUME TypeOK, NEW w \in Worker,
         ValidateRefused(w) \/ ValidateAnswer(w) \/ ServiceValidateConsume(w)
  PROVE  Rows'
<1> DEFINE i == req[w].id
<1>1. /\ req[w] \in Request /\ i \in DOMAIN st /\ st[i].kind = "ST"
      /\ st' = ConsumedST(st, i)
      /\ UNCHANGED <<now, lt, tgt, pgt, notified>>
  BY DEF TypeOK, Types, References, Found, ValidateRefused, ValidateAnswer,
         ServiceValidateConsume
<1>2. DOMAIN st \subseteq STId /\ \A j \in DOMAIN st : st[j] \in STRow
  BY DEF TypeOK, Types
<1>3. /\ DOMAIN st' = DOMAIN st
      /\ \A j \in DOMAIN st : /\ st'[j] \in STRow /\ st'[j].kind = st[j].kind
                              /\ st'[j].tgt = st[j].tgt
  BY <1>1, <1>2, ConsumedSTRows
<1>4. \E r \in Request : Found(r)' /\ req' = [req EXCEPT ![w] = r]
  <2>1. CASE ValidateRefused(w) \/ ValidateAnswer(w)
    BY <2>1, IdleRequest DEF ValidateRefused, ValidateAnswer, Respond
  <2>2. CASE ServiceValidateConsume(w)
    <3>1. PICK next \in {"callback", "attributes"} :
            Goto(w, next, i, TRUE, req[w].service)
      BY <2>2 DEF ServiceValidateConsume
    <3>2. PICK r \in Request :
            r = [at |-> next, id |-> i, ok |-> TRUE, service |-> req[w].service]
      BY <1>1 DEF Request
    <3>3. r.at = next /\ r.id = i
      BY <3>2
    <3>4. Found(r)'
      BY <1>1, <1>3, <3>3 DEF Found
    <3> QED BY <3>1, <3>2, <3>4 DEF Goto
  <2> QED BY <2>1, <2>2
<1>5. req' \in [Worker -> Request] /\ \A v \in Worker : Found(req[v])'
  BY <1>1, <1>3, <1>4, RequestFound
<1> HIDE DEF i
<1>6. answers' \in [STId -> Nat]
  <2>1. answers' = answers \/ answers' = [answers EXCEPT ![i] = @ + 1]
    BY DEF ValidateRefused, ValidateAnswer, ServiceValidateConsume, Answered, i
  <2>2. answers \in [STId -> Nat]
    BY DEF TypeOK, Types
  <2> QED BY <2>1, <2>2
<1>7. Types'
  BY <1>1, <1>2, <1>3, <1>5, <1>6 DEF TypeOK, Types
<1>8. References'
  BY <1>1, <1>3, <1>5 DEF TypeOK, Types, References
<1> QED BY <1>7, <1>8 DEF Rows

\* An action that ends a request, given what it does to the tables.
LEMMA TypeResponse ==
  ASSUME TypeOK, NEW w \in Worker, Respond(w) \/ req' = req,
         UNCHANGED <<now, answers>>, notified' \subseteq STId,
         DOMAIN lt \subseteq DOMAIN lt', DOMAIN lt' \subseteq LTId,
         \A i \in DOMAIN lt' : lt'[i] \in LTRow,
         DOMAIN tgt \subseteq DOMAIN tgt', DOMAIN tgt' \subseteq TGTId,
         \A g \in DOMAIN tgt' : tgt'[g] \in TGTRow,
         DOMAIN st \subseteq DOMAIN st', DOMAIN st' \subseteq STId,
         \A i \in DOMAIN st' : st'[i] \in STRow /\ st'[i].tgt \in DOMAIN tgt',
         \A i \in DOMAIN st : st'[i].kind = st[i].kind,
         DOMAIN pgt' = DOMAIN pgt,
         \A p \in DOMAIN pgt : pgt'[p] \in PGTRow /\ pgt'[p].st = pgt[p].st
  PROVE  Rows'
<1>1. req' \in [Worker -> Request] /\ \A v \in Worker : Found(req[v])'
  <2>1. CASE Respond(w)
    BY <2>1, RequestFound, IdleRequest DEF Respond
  <2>2. CASE req' = req
    BY <2>2 DEF TypeOK, Types, References, Found
  <2> QED BY <2>1, <2>2
<1>2. Types'
  BY <1>1 DEF TypeOK, Types
<1>3. References'
  BY <1>1 DEF TypeOK, References
<1> QED BY <1>2, <1>3 DEF Rows

LEMMA TypeExpiry ==
  ASSUME TypeOK, NEW w \in Worker, SSOExpired(w)
  PROVE  Rows'
<1>1. PICK g \in DOMAIN tgt : tgt' = [tgt EXCEPT ![g].row = "expired"]
  BY DEF SSOExpired
<1>2. DOMAIN tgt' = DOMAIN tgt /\ \A h \in DOMAIN tgt : tgt'[h] \in TGTRow
  BY <1>1 DEF TypeOK, Types, TGTRow
<1>3. /\ DOMAIN lt \subseteq DOMAIN lt' /\ DOMAIN lt' \subseteq LTId
      /\ \A i \in DOMAIN lt' : lt'[i] \in LTRow
  BY LoginTicketRows DEF TypeOK, Types, SSOExpired
<1>4. UNCHANGED <<now, st, pgt, req, answers, notified>>
  BY DEF SSOExpired
<1> QED BY <1>2, <1>3, <1>4, TypeResponse DEF TypeOK, Types, References

\* A ticket granted on a session.
LEMMA NewServiceTicketRow ==
  ASSUME now \in Time, NEW u \in User, NEW s \in Service, NEW g \in TGTId
  PROVE  /\ NewServiceTicket(u, s, g) \in STRow
         /\ NewServiceTicket(u, s, g).tgt = g
BY DEF NewServiceTicket, STRow

LEMMA TypeGrants ==
  ASSUME TypeOK, NEW w \in Worker, SSOGrant(w) \/ ProxyGrant(w)
  PROVE  Rows'
<1>1. PICK i \in Fresh(STId, st), row \in STRow :
        st' = Insert(st, i, row) /\ row.tgt \in DOMAIN tgt
  <2>1. CASE SSOGrant(w)
    <3>1. req[w].id \in DOMAIN tgt
      BY <2>1 DEF SSOGrant, TypeOK, References, Found
    <3>2. req[w].id \in TGTId /\ tgt[req[w].id].user \in User
      BY <3>1 DEF TypeOK, Types, TGTRow
    <3>3. PICK s \in Service, i \in Fresh(STId, st) :
            st' = Insert(st, i, NewServiceTicket(tgt[req[w].id].user, s, req[w].id))
      BY <2>1 DEF SSOGrant
    <3>4. now \in Time
      BY DEF TypeOK, Types
    <3> QED BY <3>1, <3>2, <3>3, <3>4, NewServiceTicketRow
  <2>2. CASE ProxyGrant(w)
    <3>1. req[w].id \in DOMAIN pgt
      BY <2>2 DEF ProxyGrant, TypeOK, References, Found
    <3>2. st[pgt[req[w].id].st].tgt \in DOMAIN tgt
      BY <3>1 DEF TypeOK, References
    <3>3. PICK s \in Service, i \in Fresh(STId, st) :
            st' = Insert(st, i, NewProxyTicket(s, req[w].id))
      BY <2>2 DEF ProxyGrant
    <3>4. NewProxyTicket(s, req[w].id) \in STRow
          /\ NewProxyTicket(s, req[w].id).tgt = st[pgt[req[w].id].st].tgt
      <4>1. st[pgt[req[w].id].st] \in STRow /\ req[w].id \in PGTId /\ now \in Time
        BY <3>1 DEF TypeOK, Types, References
      <4> QED BY <4>1 DEF NewProxyTicket, STRow
    <3> QED BY <3>2, <3>3, <3>4
  <2> QED BY <2>1, <2>2
<1>2. i \in STId /\ i \notin DOMAIN st
  BY <1>1, FreshKey
<1>3. /\ DOMAIN st' = DOMAIN st \cup {i} /\ st'[i] = row
      /\ \A j \in DOMAIN st : st'[j] = st[j]
  BY <1>1, <1>2 DEF Insert
<1>4. /\ DOMAIN lt \subseteq DOMAIN lt' /\ DOMAIN lt' \subseteq LTId
      /\ \A j \in DOMAIN lt' : lt'[j] \in LTRow
  BY LoginTicketRows DEF TypeOK, Types, SSOGrant, ProxyGrant
<1>5. Respond(w) /\ UNCHANGED <<now, tgt, pgt, answers, notified>>
  BY DEF SSOGrant, ProxyGrant
<1> QED BY <1>1, <1>2, <1>3, <1>4, <1>5, TypeResponse DEF TypeOK, Types, References

\* A login that succeeds.
LEMMA TypeLogin ==
  ASSUME TypeOK, NEW w \in Worker, PostLoginGranted(w)
  PROVE  Rows'
<1>1. req[w].at = "login" /\ req[w].id \in DOMAIN lt
  BY DEF PostLoginGranted, TypeOK, References, Found
<1>2. PICK u \in User, g \in Fresh(TGTId, tgt) :
        /\ tgt' = Insert(tgt, g, [row |-> "live", user |-> u, born |-> now,
                                  lt |-> req[w].id])
        /\ \/ st' = st
           \/ \E s \in Service, i \in Fresh(STId, st) :
                st' = Insert(st, i, NewServiceTicket(u, s, g))
  BY DEF PostLoginGranted
<1>3. g \in TGTId /\ g \notin DOMAIN tgt /\ now \in Time
  BY <1>2, FreshKey DEF TypeOK, Types
<1>4. /\ DOMAIN tgt' = DOMAIN tgt \cup {g}
      /\ \A h \in DOMAIN tgt' : tgt'[h] \in TGTRow
  <2>1. [row |-> "live", user |-> u, born |-> now, lt |-> req[w].id] \in TGTRow
    BY <1>1, <1>3 DEF TypeOK, Types, TGTRow
  <2> QED BY <1>2, <1>3, <2>1 DEF TypeOK, Types, Insert
<1>5. /\ DOMAIN st \subseteq DOMAIN st' /\ DOMAIN st' \subseteq STId
      /\ \A i \in DOMAIN st' : st'[i] \in STRow /\ st'[i].tgt \in DOMAIN tgt'
      /\ \A i \in DOMAIN st : st'[i].kind = st[i].kind
  <2>1. CASE st' = st
    BY <1>4, <2>1 DEF TypeOK, Types, References
  <2>2. CASE st' # st
    <3>1. PICK s \in Service, i \in Fresh(STId, st) :
            st' = Insert(st, i, NewServiceTicket(u, s, g))
      BY <1>2, <2>2
    <3>2. i \in STId /\ i \notin DOMAIN st
      BY FreshKey
    <3>3. st'[i] \in STRow /\ st'[i].tgt = g
      BY <1>3, <3>1, NewServiceTicketRow DEF Insert
    <3>4. DOMAIN st' = DOMAIN st \cup {i} /\ \A j \in DOMAIN st : st'[j] = st[j]
      BY <3>1, <3>2 DEF Insert
    <3> QED BY <1>4, <3>2, <3>3, <3>4 DEF TypeOK, Types, References
  <2> QED BY <2>1, <2>2
<1>6. /\ DOMAIN lt \subseteq DOMAIN lt' /\ DOMAIN lt' \subseteq LTId
      /\ \A i \in DOMAIN lt' : lt'[i] \in LTRow
  <2> DEFINE used == ConsumedLT(lt, req[w].id)
  <2>1. lt' = WithLoginTicket(used)
    BY DEF PostLoginGranted
  <2>2. DOMAIN used = DOMAIN lt /\ \A j \in DOMAIN used : used[j] \in LTRow
    BY <1>1, ConsumedLTRows DEF TypeOK, Types
  <2> HIDE DEF used
  <2> QED BY <1>3, <2>1, <2>2, LoginTicketRows DEF TypeOK, Types
<1>7. Respond(w) /\ UNCHANGED <<now, pgt, answers, notified>>
  BY DEF PostLoginGranted
<1>8. /\ DOMAIN tgt \subseteq DOMAIN tgt' /\ DOMAIN tgt' \subseteq TGTId
      /\ notified' \subseteq STId /\ DOMAIN pgt' = DOMAIN pgt
      /\ \A p \in DOMAIN pgt : pgt'[p] \in PGTRow /\ pgt'[p].st = pgt[p].st
  BY <1>3, <1>4, <1>7 DEF TypeOK, Types
<1> QED BY <1>4, <1>5, <1>6, <1>7, <1>8, TypeResponse

\* The steps of a logout's transaction before its commit.
LEMMA TypeDeletions ==
  ASSUME TypeOK, NEW w \in Worker, LogoutNotify(w) \/ LogoutDestroy(w)
  PROVE  Rows'
<1>1. UNCHANGED <<now, lt, tgt, st, pgt, req, answers>>
  BY DEF LogoutNotify, LogoutDestroy, tables
<1>2. tx[w].left \subseteq STId
  BY DEF TypeOK, ClosingTypes, Transaction
<1>3. notified' \subseteq STId
  BY <1>2 DEF LogoutNotify, LogoutDestroy, TypeOK, Types
<1>4. Types'
  BY <1>1, <1>3 DEF TypeOK, Types
<1>5. References'
  BY <1>1 DEF TypeOK, References, Found
<1> QED BY <1>4, <1>5 DEF Rows

\* The commit of GET /logout.
LEMMA TypeLogout ==
  ASSUME TypeOK, NEW w \in Worker, LogoutCommit(w)
  PROVE  Rows'
<1> DEFINE g == req[w].id
<1>1. /\ g \in DOMAIN tgt
      /\ st' = Destroyed(st, tx[w].held)
      /\ pgt' = Destroyed(pgt, JoinedPGTs(w))
      /\ tgt' = tgt \/ tgt' = [tgt EXCEPT ![g].row = "loggedOut"]
      /\ lt' = WithLoginTicket(lt)
      /\ Respond(w)
      /\ UNCHANGED <<now, answers, notified>>
  BY DEF LogoutCommit, TypeOK, References, Found
<1> HIDE DEF g
<1>2. DOMAIN st' = DOMAIN st
      /\ \A i \in DOMAIN st : /\ st'[i] \in STRow /\ st'[i].kind = st[i].kind
                              /\ st'[i].tgt = st[i].tgt
  BY <1>1, DestroyedSTRows DEF TypeOK, Types
<1>3. DOMAIN pgt' = DOMAIN pgt
      /\ \A p \in DOMAIN pgt : pgt'[p] \in PGTRow /\ pgt'[p].st = pgt[p].st
  BY <1>1, DestroyedPGTRows DEF TypeOK, Types
<1>4. DOMAIN tgt' = DOMAIN tgt /\ \A h \in DOMAIN tgt : tgt'[h] \in TGTRow
  BY <1>1 DEF TypeOK, Types, TGTRow
<1>5. /\ DOMAIN lt \subseteq DOMAIN lt' /\ DOMAIN lt' \subseteq LTId
      /\ \A i \in DOMAIN lt' : lt'[i] \in LTRow
  BY <1>1, LoginTicketRows DEF TypeOK, Types
<1> QED BY <1>1, <1>2, <1>3, <1>4, <1>5, TypeResponse DEF TypeOK, Types, References

\* The proxy callback that succeeds.
LEMMA TypeCallback ==
  ASSUME TypeOK, NEW w \in Worker, CallbackAccepted(w)
  PROVE  Rows'
<1>1. /\ req[w] \in Request /\ req[w].id \in DOMAIN st
      /\ st[req[w].id].kind = "ST"
      /\ UNCHANGED <<now, lt, tgt, st, answers, notified>>
  BY DEF CallbackAccepted, TypeOK, Types, References, Found
<1>2. PICK p \in Fresh(PGTId, pgt) :
        pgt' = Insert(pgt, p, [live |-> TRUE, st |-> req[w].id])
  BY DEF CallbackAccepted
<1>3. p \in PGTId /\ p \notin DOMAIN pgt
  BY FreshKey
<1>4. [live |-> TRUE, st |-> req[w].id] \in PGTRow
  BY <1>1 DEF PGTRow, TypeOK, Types
<1>5. /\ DOMAIN pgt' = DOMAIN pgt \cup {p}
      /\ pgt'[p] = [live |-> TRUE, st |-> req[w].id]
      /\ \A q \in DOMAIN pgt : pgt'[q] = pgt[q]
  BY <1>2, <1>3 DEF Insert
<1>6. PICK r \in Request :
        r = [at |-> "attributes", id |-> req[w].id, ok |-> TRUE,
             service |-> req[w].service]
  BY <1>1 DEF Request
<1>7. r.at = "attributes" /\ r.id = req[w].id
  BY <1>6
<1>8. Found(r)'
  BY <1>1, <1>7 DEF Found
<1>9. req' = [req EXCEPT ![w] = r]
  BY <1>6 DEF CallbackAccepted, Goto
<1>10. req' \in [Worker -> Request] /\ \A v \in Worker : Found(req[v])'
  BY <1>1, <1>5, <1>8, <1>9, RequestFound
<1>11. Types'
  BY <1>1, <1>3, <1>4, <1>5, <1>10 DEF TypeOK, Types
<1>12. References'
  BY <1>1, <1>5, <1>10 DEF TypeOK, References
<1> QED BY <1>11, <1>12 DEF Rows

LEMMA TypeTick ==
  ASSUME TypeOK, Tick
  PROVE  Rows'
<1>1. now' \in Time
  BY CASAssumption DEF TypeOK, Types, Tick, Time
<1>2. UNCHANGED <<lt, tgt, st, pgt, req, answers, notified>>
  BY DEF Tick, tables
<1>3. Types'
  BY <1>1, <1>2 DEF TypeOK, Types
<1>4. References'
  BY <1>2 DEF TypeOK, References, Found
<1> QED BY <1>3, <1>4 DEF Rows

\* A step that does not begin, go on with or end a transaction.
LEMMA ClosingSame ==
  ASSUME NEW w \in Worker, RequestStep(w), ~LogoutBegin(w), ~LogoutDestroy(w), ~LogoutCommit(w)
  PROVE  ended' = ended /\ (tx' = tx \/ tx' = [tx EXCEPT ![w] = NoTransaction])
<1>1. CASE LoginStep(w)
  BY <1>1 DEF LoginStep, LoginForm, PostLoginLookup, PostLoginRefused, PostLoginDenied,
     PostLoginGranted, SSOLookup, SSOExpired, SSOGrant, SSOForm, closing
<1>2. CASE LogoutStep(w) \/ ProxyStep(w) \/ RequestDies(w)
  BY <1>2 DEF LogoutStep, LogoutLookup, LogoutNotify, LogoutAborts, ProxyStep, ProxyLookup,
     ProxyGrant, RequestDies, closing
<1>3. CASE ValidateStep(w)
  BY <1>3 DEF ValidateStep, ValidateLookup, ValidateRefused, ValidateAnswer,
     ServiceValidateConsume, CallbackAccepted, CallbackRejected, AttributesAnswer,
     AttributesError, closing
<1> QED BY <1>1, <1>2, <1>3 DEF RequestStep

\* Transactions, and what is remembered of them, keep their types.
LEMMA TypeClosing ==
  ASSUME TypeOK, NEW w \in Worker, RequestStep(w)
  PROVE  ClosingTypes'
<1> USE DEF TypeOK, Types, ClosingTypes
<1>1. CASE ~LogoutBegin(w) /\ ~LogoutDestroy(w) /\ ~LogoutCommit(w)
  <2>1. NoTransaction \in Transaction
    BY DEF NoTransaction, Transaction
  <2> QED BY <1>1, <2>1, ClosingSame
<1>2. CASE LogoutBegin(w)
  <2> DEFINE t == [left |-> GrantedServiceTickets(req[w].id), held |-> {},
                   pgts |-> UserPGTs(req[w].id), st |-> DOMAIN st, pgt |-> DOMAIN pgt]
  <2>1. t \in Transaction
    BY DEF Transaction, GrantedServiceTickets, UserPGTs
  <2>2. tx' = [tx EXCEPT ![w] = t] /\ ended' = ended
    BY <1>2 DEF LogoutBegin
  <2> HIDE DEF t
  <2> QED BY <2>1, <2>2
<1>3. CASE LogoutDestroy(w)
  <2>1. PICK i \in tx[w].left : tx' = [tx EXCEPT ![w].left = @ \ {i},
                  ![w].held = IF st[i].live THEN @ \cup {i} ELSE @]
    BY <1>3 DEF LogoutDestroy
  <2>2. tx[w] \in Transaction /\ ended' = ended
    BY <1>3 DEF LogoutDestroy
  <2>3. tx'[w] \in Transaction /\ \A v \in Worker : v # w => tx'[v] = tx[v]
    BY <2>1, <2>2 DEF Transaction
  <2>4. DOMAIN tx' = Worker /\ tx' = [v \in Worker |-> tx'[v]]
    BY <2>1
  <2> QED BY <2>2, <2>3, <2>4
<1>4. CASE LogoutCommit(w)
  <2>1. tx' \in [Worker -> Transaction]
    BY <1>4 DEF LogoutCommit, NoTransaction, Transaction
  <2> DEFINE e == [st |-> tx[w].st, pgt |-> tx[w].pgt, last |-> DOMAIN st]
  <2>2. e \in Ending
    BY DEF Ending, Transaction
  <2>3. ended' = ended \/ ended' = Insert(ended, req[w].id, e)
    BY <1>4 DEF LogoutCommit
  <2>4. req[w].id \in TGTId
    BY <1>4 DEF LogoutCommit, References, Found
  <2> HIDE DEF e
  <2> QED BY <2>1, <2>2, <2>3, <2>4 DEF Insert
<1> QED BY <1>1, <1>2, <1>3, <1>4

LEMMA TypeNext == TypeOK /\ [Next]_vars => TypeOK'
<1> SUFFICES ASSUME TypeOK, [Next]_vars PROVE TypeOK'
  OBVIOUS
<1>1. CASE Tick
  BY <1>1, TypeTick DEF TypeOK, Rows, ClosingTypes, Tick, closing
<1>2. ASSUME NEW w \in Worker, LoginStep(w) PROVE Rows'
  BY <1>2, TypeLoginTickets, TypeLookups, TypeLogin, TypeExpiry, TypeGrants
     DEF LoginStep
<1>3. ASSUME NEW w \in Worker, LogoutStep(w) PROVE Rows'
  BY <1>3, TypeLookups, TypeDeletions, TypeLogout, TypeEndings DEF LogoutStep
<1>4. ASSUME NEW w \in Worker, ValidateStep(w) PROVE Rows'
  BY <1>4, TypeLookups, TypeConsume, TypeCallback, TypeEndings DEF ValidateStep
<1>5. ASSUME NEW w \in Worker, ProxyStep(w) PROVE Rows'
  BY <1>5, TypeLookups, TypeGrants DEF ProxyStep
<1>6. ASSUME NEW w \in Worker, RequestDies(w) PROVE Rows'
  BY <1>6, TypeEndings
<1>7. CASE UNCHANGED vars
  <2>1. UNCHANGED <<now, lt, tgt, st, pgt, req, answers, notified, tx, ended>>
    BY <1>7 DEF vars
  <2>2. Types' /\ ClosingTypes'
    BY <2>1 DEF TypeOK, Types, ClosingTypes
  <2>3. References'
    BY <2>1 DEF TypeOK, References, Found
  <2> QED BY <2>2, <2>3 DEF TypeOK
<1>8. ASSUME NEW w \in Worker, RequestStep(w) PROVE TypeOK'
  <2>1. Rows'
    BY <1>2, <1>3, <1>4, <1>5, <1>6, <1>8 DEF RequestStep
  <2>2. ClosingTypes'
    BY <1>8, TypeClosing
  <2> QED BY <2>1, <2>2 DEF Rows, TypeOK
<1> QED BY <1>1, <1>7, <1>8 DEF Next

\* Tables, requests and history variables keep their types, and no row or
\* request refers to a row that was never written, whatever the number of
\* workers and however their requests overlap.
THEOREM TypeCorrect == Spec => []TypeOK
BY TypeInit, TypeNext, PTL DEF Spec

\* The steps of a transaction before its commit change no table and no request.
LEMMA Deleting ==
  ASSUME NEW w \in Worker, LogoutNotify(w) \/ LogoutDestroy(w)
  PROVE  /\ req[w].at = "transaction" /\ UNCHANGED <<now, lt, tgt, st, pgt, req, answers, ended>>
         /\ notified \subseteq notified'
BY DEF LogoutNotify, LogoutDestroy, tables, closing

-------------------------------------------------------------------------------
(* Provenance.  It is inductive together with TypeOK: the columns it reads   *)
(* are written once, when the row is inserted.                               *)

\* No step changes whom a row belongs to or what granted it.
OwnersKept ==
  /\ \A g \in DOMAIN tgt : g \in DOMAIN tgt' /\ tgt'[g].user = tgt[g].user
  /\ \A p \in DOMAIN pgt : p \in DOMAIN pgt' /\ pgt'[p].st = pgt[p].st
  /\ \A i \in DOMAIN st :
       /\ i \in DOMAIN st'
       /\ st'[i].kind = st[i].kind /\ st'[i].user = st[i].user
       /\ st'[i].tgt = st[i].tgt /\ st'[i].pgt = st[i].pgt

\* What a row inserted by a step descends from.
Descends(i) ==
  /\ st'[i].tgt \in DOMAIN tgt' /\ st'[i].user = tgt'[st'[i].tgt].user
  /\ st'[i].kind = "PT" =>
       /\ st'[i].pgt \in DOMAIN pgt
       /\ st[pgt[st'[i].pgt].st].tgt = st'[i].tgt

LEMMA ProvenanceKept ==
  ASSUME TypeOK, Provenance, OwnersKept,
         \A i \in DOMAIN st' : i \in DOMAIN st \/ Descends(i)
  PROVE  Provenance'
<1>1. ASSUME NEW i \in DOMAIN st'
      PROVE  /\ st'[i].user = tgt'[st'[i].tgt].user
             /\ st'[i].kind = "PT" =>
                  /\ st'[i].pgt \in DOMAIN pgt'
                  /\ st'[pgt'[st'[i].pgt].st].tgt = st'[i].tgt
  <2>1. CASE i \in DOMAIN st
    BY <2>1 DEF TypeOK, References, Provenance, OwnersKept
  <2>2. CASE Descends(i)
    BY <2>2 DEF TypeOK, References, OwnersKept, Descends
  <2> QED BY <2>1, <2>2
<1> QED BY <1>1 DEF Provenance

\* The steps that write none of the tables Provenance reads.
LEMMA ProvenanceUnchanged ==
  ASSUME TypeOK, Provenance, UNCHANGED <<tgt, st, pgt>>
  PROVE  Provenance'
BY DEF Provenance

LEMMA ProvenanceLogin ==
  ASSUME TypeOK, Provenance, NEW w \in Worker, PostLoginGranted(w)
  PROVE  Provenance'
<1>1. PICK u \in User, g \in Fresh(TGTId, tgt) :
        /\ tgt' = Insert(tgt, g, [row |-> "live", user |-> u, born |-> now,
                                  lt |-> req[w].id])
        /\ \/ st' = st
           \/ \E s \in Service, i \in Fresh(STId, st) :
                st' = Insert(st, i, NewServiceTicket(u, s, g))
  BY DEF PostLoginGranted
<1>2. g \notin DOMAIN tgt /\ pgt' = pgt
  BY <1>1, FreshKey DEF PostLoginGranted
<1>3. /\ DOMAIN tgt' = DOMAIN tgt \cup {g} /\ tgt'[g].user = u
      /\ \A h \in DOMAIN tgt : tgt'[h] = tgt[h]
  BY <1>1, <1>2 DEF Insert
<1>4. CASE st' = st
  BY <1>2, <1>3, <1>4, ProvenanceKept DEF OwnersKept
<1>5. CASE st' # st
  <2>1. PICK s \in Service, i \in Fresh(STId, st) :
          st' = Insert(st, i, NewServiceTicket(u, s, g))
    BY <1>1, <1>5
  <2>2. i \notin DOMAIN st
    BY FreshKey
  <2>3. /\ DOMAIN st' = DOMAIN st \cup {i}
        /\ st'[i] = NewServiceTicket(u, s, g)
        /\ \A j \in DOMAIN st : st'[j] = st[j]
    BY <2>1, <2>2 DEF Insert
  <2>4. st'[i].user = u /\ st'[i].tgt = g /\ st'[i].kind = "ST"
    BY <2>3 DEF NewServiceTicket
  <2>5. Descends(i)
    BY <1>3, <2>4 DEF Descends
  <2> QED BY <1>2, <1>3, <2>3, <2>5, ProvenanceKept DEF OwnersKept
<1> QED BY <1>4, <1>5

LEMMA ProvenanceGrants ==
  ASSUME TypeOK, Provenance, NEW w \in Worker, SSOGrant(w) \/ ProxyGrant(w)
  PROVE  Provenance'
<1>1. UNCHANGED <<tgt, pgt>>
  BY DEF SSOGrant, ProxyGrant
<1>2. PICK i, row :
        /\ i \in Fresh(STId, st) /\ st' = Insert(st, i, row)
        /\ row.tgt \in DOMAIN tgt /\ row.user = tgt[row.tgt].user
        /\ row.kind = "PT" =>
             row.pgt \in DOMAIN pgt /\ st[pgt[row.pgt].st].tgt = row.tgt
  <2>1. CASE SSOGrant(w)
    <3>1. req[w].id \in DOMAIN tgt
      BY <2>1 DEF SSOGrant, TypeOK, References, Found
    <3>2. PICK s \in Service, i \in Fresh(STId, st) :
            st' = Insert(st, i, NewServiceTicket(tgt[req[w].id].user, s, req[w].id))
      BY <2>1 DEF SSOGrant
    <3>3. PICK row : row = NewServiceTicket(tgt[req[w].id].user, s, req[w].id)
      OBVIOUS
    <3>4. row.kind = "ST" /\ row.tgt = req[w].id /\ row.user = tgt[req[w].id].user
      BY <3>3 DEF NewServiceTicket
    <3> QED BY <3>1, <3>2, <3>3, <3>4
  <2>2. CASE ProxyGrant(w)
    <3>1. req[w].id \in DOMAIN pgt
      BY <2>2 DEF ProxyGrant, TypeOK, References, Found
    <3>2. PICK parent \in DOMAIN st : parent = pgt[req[w].id].st
      BY <3>1 DEF TypeOK, References
    <3>3. PICK s \in Service, i \in Fresh(STId, st) :
            st' = Insert(st, i, NewProxyTicket(s, req[w].id))
      BY <2>2 DEF ProxyGrant
    <3>4. PICK row : row = NewProxyTicket(s, req[w].id)
      OBVIOUS
    <3>5. row.tgt = st[parent].tgt /\ row.user = st[parent].user /\ row.pgt = req[w].id
      BY <3>2, <3>4 DEF NewProxyTicket
    <3>6. st[parent].tgt \in DOMAIN tgt /\ st[parent].user = tgt[st[parent].tgt].user
      BY DEF TypeOK, References, Provenance
    <3> QED BY <3>1, <3>2, <3>3, <3>4, <3>5, <3>6
  <2> QED BY <2>1, <2>2
<1>3. i \notin DOMAIN st
  BY <1>2, FreshKey
<1>4. /\ DOMAIN st' = DOMAIN st \cup {i} /\ st'[i] = row
      /\ \A j \in DOMAIN st : st'[j] = st[j]
  BY <1>2, <1>3 DEF Insert
<1>5. Descends(i)
  BY <1>1, <1>2, <1>4 DEF Descends
<1> QED BY <1>1, <1>4, <1>5, ProvenanceKept DEF OwnersKept

\* The steps that only change flags, or add a proxy-granting ticket.
LEMMA ProvenanceFlags ==
  ASSUME TypeOK, Provenance, NEW w \in Worker,
         SSOExpired(w) \/ LogoutCommit(w) \/ ValidateRefused(w) \/ ValidateAnswer(w)
           \/ ServiceValidateConsume(w) \/ CallbackAccepted(w)
  PROVE  Provenance'
<1> USE DEF TypeOK, Types
<1>1. CASE SSOExpired(w)
  <2>1. UNCHANGED <<st, pgt>>
    BY <1>1 DEF SSOExpired
  <2>2. PICK g \in DOMAIN tgt : tgt' = [tgt EXCEPT ![g].row = "expired"]
    BY <1>1 DEF SSOExpired
  <2>3. DOMAIN tgt' = DOMAIN tgt /\ \A h \in DOMAIN tgt : tgt'[h].user = tgt[h].user
    BY <2>2 DEF TGTRow
  <2> QED BY <2>1, <2>3, ProvenanceKept DEF OwnersKept
<1>2. CASE LogoutCommit(w)
  <2>1. /\ DOMAIN st' = DOMAIN st
        /\ \A i \in DOMAIN st :
             /\ st'[i].kind = st[i].kind /\ st'[i].user = st[i].user
             /\ st'[i].tgt = st[i].tgt /\ st'[i].pgt = st[i].pgt
    BY <1>2, DestroyedSTRows DEF LogoutCommit
  <2>2. DOMAIN pgt' = DOMAIN pgt /\ \A p \in DOMAIN pgt : pgt'[p].st = pgt[p].st
    BY <1>2, DestroyedPGTRows DEF LogoutCommit
  <2>3. DOMAIN tgt' = DOMAIN tgt /\ \A h \in DOMAIN tgt : tgt'[h].user = tgt[h].user
    BY <1>2 DEF LogoutCommit, TGTRow
  <2> QED BY <2>1, <2>2, <2>3, ProvenanceKept DEF OwnersKept
<1>3. CASE ValidateRefused(w) \/ ValidateAnswer(w) \/ ServiceValidateConsume(w)
  <2>1. req[w].id \in DOMAIN st /\ st' = ConsumedST(st, req[w].id)
    BY <1>3 DEF References, Found, ValidateRefused, ValidateAnswer,
                ServiceValidateConsume
  <2>2. /\ DOMAIN st' = DOMAIN st
        /\ \A i \in DOMAIN st :
             /\ st'[i].kind = st[i].kind /\ st'[i].user = st[i].user
             /\ st'[i].tgt = st[i].tgt /\ st'[i].pgt = st[i].pgt
    BY <2>1, ConsumedSTRows
  <2>3. UNCHANGED <<tgt, pgt>>
    BY <1>3 DEF ValidateRefused, ValidateAnswer, ServiceValidateConsume
  <2> QED BY <2>2, <2>3, ProvenanceKept DEF OwnersKept
<1>4. CASE CallbackAccepted(w)
  <2>1. PICK p, row : p \in Fresh(PGTId, pgt) /\ pgt' = Insert(pgt, p, row)
    BY <1>4 DEF CallbackAccepted
  <2>2. p \notin DOMAIN pgt /\ UNCHANGED <<tgt, st>>
    BY <1>4, <2>1, FreshKey DEF CallbackAccepted
  <2>3. \A q \in DOMAIN pgt : q \in DOMAIN pgt' /\ pgt'[q] = pgt[q]
    BY <2>1, <2>2 DEF Insert
  <2> QED BY <2>2, <2>3, ProvenanceKept DEF OwnersKept
<1> QED BY <1>1, <1>2, <1>3, <1>4

LEMMA ProvenanceNext == TypeOK /\ Provenance /\ [Next]_vars => Provenance'
<1> SUFFICES ASSUME TypeOK, Provenance, [Next]_vars PROVE Provenance'
  OBVIOUS
<1>1. CASE Tick \/ UNCHANGED vars
  BY <1>1, ProvenanceUnchanged DEF Tick, tables, vars
<1>2. ASSUME NEW w \in Worker, LoginStep(w) PROVE Provenance'
  <2>1. CASE PostLoginGranted(w)
    BY <2>1, ProvenanceLogin
  <2>2. CASE SSOExpired(w)
    BY <2>2, ProvenanceFlags
  <2>3. CASE SSOGrant(w)
    BY <2>3, ProvenanceGrants
  <2>4. CASE LoginForm(w) \/ PostLoginLookup(w) \/ PostLoginRefused(w)
               \/ PostLoginDenied(w) \/ SSOLookup(w) \/ SSOForm(w)
    BY <2>4, ProvenanceUnchanged DEF LoginForm, PostLoginLookup, PostLoginRefused,
         PostLoginDenied, SSOLookup, SSOForm, tables
  <2> QED BY <1>2, <2>1, <2>2, <2>3, <2>4 DEF LoginStep
<1>3. ASSUME NEW w \in Worker, LogoutStep(w) \/ RequestDies(w) PROVE Provenance'
  <2>1. CASE LogoutCommit(w)
    BY <2>1, ProvenanceFlags
  <2>2. CASE LogoutLookup(w) \/ LogoutBegin(w) \/ LogoutAborts(w) \/ RequestDies(w)
    BY <2>2, ProvenanceUnchanged DEF LogoutLookup, LogoutBegin, LogoutAborts, RequestDies, tables
  <2>3. CASE LogoutNotify(w) \/ LogoutDestroy(w)
    BY <2>3, Deleting, ProvenanceUnchanged
  <2> QED BY <1>3, <2>1, <2>2, <2>3 DEF LogoutStep
<1>4. ASSUME NEW w \in Worker, ValidateStep(w) PROVE Provenance'
  <2>1. CASE ValidateRefused(w) \/ ValidateAnswer(w) \/ ServiceValidateConsume(w)
               \/ CallbackAccepted(w)
    BY <2>1, ProvenanceFlags
  <2>2. CASE ValidateLookup(w) \/ CallbackRejected(w) \/ AttributesAnswer(w)
               \/ AttributesError(w)
    BY <2>2, ProvenanceUnchanged DEF ValidateLookup, CallbackRejected,
         AttributesAnswer, AttributesError, tables
  <2> QED BY <1>4, <2>1, <2>2 DEF ValidateStep
<1>5. ASSUME NEW w \in Worker, ProxyStep(w) PROVE Provenance'
  <2>1. CASE ProxyGrant(w)
    BY <2>1, ProvenanceGrants
  <2>2. CASE ProxyLookup(w)
    BY <2>2, ProvenanceUnchanged DEF ProxyLookup, tables
  <2> QED BY <1>5, <2>1, <2>2 DEF ProxyStep
<1> QED BY <1>1, <1>2, <1>3, <1>4, <1>5 DEF Next, RequestStep

\* Every ticket carries the user of its session, and a proxy ticket the session
\* of the service ticket behind it, whatever the interleaving of the requests
\* that grant, delete and use them.
THEOREM TicketsDescendFromLogins == Spec => []Provenance
<1>1. Init => Provenance
  BY DEF Init, Provenance, EmptyTable
<1> QED BY <1>1, TypeCorrect, ProvenanceNext, PTL DEF Spec

-------------------------------------------------------------------------------
(* How often a ticket is answered.  The invariant counts, with the answers   *)
(* given, the requests that are bound to answer: both together never exceed  *)
(* the number of workers, since a ticket that is spent gains no new one.     *)

Spent(i) == st[i].consumed \/ ~st[i].live

\* A request that is past consume! holds a ticket that is spent.
PastConsume(r) ==
  r.at \in {"callback", "attributes"} => r.ok /\ Spent(r.id)

UseInv ==
  /\ \A i \in STId : answers[i] > 0 => i \in DOMAIN st /\ Spent(i)
  /\ \A w \in Worker : PastConsume(req[w])
  /\ \A i \in STId : answers[i] + Cardinality(Accepting(i)) <= Cardinality(Worker)

\* Rows stay, and a ticket that is spent remains so.
SpentKept == \A i \in DOMAIN st : i \in DOMAIN st' /\ (Spent(i) => Spent(i)')

LEMMA AcceptingFinite ==
  ASSUME NEW i
  PROVE  /\ IsFiniteSet(Accepting(i)) /\ Cardinality(Accepting(i)) \in Nat
         /\ Cardinality(Worker) \in Nat
         /\ Cardinality(Accepting(i)) <= Cardinality(Worker)
<1>1. Accepting(i) \subseteq Worker /\ IsFiniteSet(Worker)
  BY CASAssumption DEF Accepting
<1> QED BY <1>1, FS_Subset, FS_CardinalityType

LEMMA AcceptingFiniteNext ==
  ASSUME NEW i
  PROVE  /\ IsFiniteSet(Accepting(i)') /\ Cardinality(Accepting(i)') \in Nat
         /\ Cardinality(Accepting(i)') <= Cardinality(Worker)
<1>1. Accepting(i)' \subseteq Worker /\ IsFiniteSet(Worker)
  BY CASAssumption DEF Accepting
<1> QED BY <1>1, FS_Subset, FS_CardinalityType

\* A step that gives no answer and brings no request to accept a ticket.
LEMMA NoNewUse ==
  ASSUME TypeOK, UseInv, NEW w \in Worker, NEW r, req' = [req EXCEPT ![w] = r],
         PastConsume(r)', answers' = answers, SpentKept,
         r.at \notin {"validate", "callback", "attributes"}
           \/ ~r.ok
           \/ (req[w].at \in {"validate", "callback"} /\ req[w].ok /\ r.id = req[w].id)
  PROVE  UseInv'
<1>1. /\ req \in [Worker -> Request] /\ answers \in [STId -> Nat]
      /\ req'[w] = r /\ \A v \in Worker : v # w => req'[v] = req[v]
  BY DEF TypeOK, Types
<1>2. ASSUME NEW i \in STId, answers'[i] > 0 PROVE i \in DOMAIN st' /\ Spent(i)'
  BY <1>2 DEF UseInv, SpentKept
<1>3. ASSUME NEW v \in Worker PROVE PastConsume(req[v])'
  <2>1. CASE v = w
    BY <1>1, <2>1 DEF PastConsume, Spent
  <2>2. CASE v # w
    <3>1. req'[v] = req[v] /\ PastConsume(req[v])
      BY <1>1, <2>2 DEF UseInv
    <3>2. req[v].at \in {"callback", "attributes"} => req[v].id \in DOMAIN st
      BY DEF TypeOK, References, Found
    <3> QED BY <3>1, <3>2 DEF PastConsume, SpentKept, Spent
  <2> QED BY <2>1, <2>2
<1>4. ASSUME NEW i \in STId
      PROVE  answers'[i] + Cardinality(Accepting(i)') <= Cardinality(Worker)
  <2>1. Accepting(i)' \subseteq Accepting(i)
    BY <1>1 DEF Accepting
  <2>2. Cardinality(Accepting(i)') <= Cardinality(Accepting(i))
    BY <2>1, AcceptingFinite, FS_Subset
  <2>3. answers[i] + Cardinality(Accepting(i)) <= Cardinality(Worker)
    BY DEF UseInv
  <2>4. answers'[i] = answers[i] /\ answers[i] \in Nat
    BY <1>1
  <2> QED BY <2>2, <2>3, <2>4, AcceptingFinite, AcceptingFiniteNext
<1>5. \A i \in STId : answers[i]' + Cardinality(Accepting(i))' <= Cardinality(Worker)
  BY <1>4
<1> QED BY <1>2, <1>3, <1>5 DEF UseInv

\* A request that accepts ticket n gives its answer and ends.
LEMMA OneUse ==
  ASSUME TypeOK, UseInv, NEW w \in Worker, NEW n \in DOMAIN st, w \in Accepting(n),
         Respond(w), answers' = [answers EXCEPT ![n] = @ + 1], SpentKept, Spent(n)'
  PROVE  UseInv'
<1>1. /\ req \in [Worker -> Request] /\ answers \in [STId -> Nat]
      /\ n \in STId /\ n \in DOMAIN st'
      /\ req'[w] = Idle /\ \A v \in Worker : v # w => req'[v] = req[v]
  BY DEF TypeOK, Types, Respond, SpentKept
<1>2. ASSUME NEW i \in STId, answers'[i] > 0 PROVE i \in DOMAIN st' /\ Spent(i)'
  <2>1. CASE i = n
    BY <1>1, <2>1
  <2>2. CASE i # n
    BY <1>1, <1>2, <2>2 DEF UseInv, SpentKept
  <2> QED BY <2>1, <2>2
<1>3. ASSUME NEW v \in Worker PROVE PastConsume(req[v])'
  <2>1. CASE v = w
    BY <1>1, <2>1 DEF PastConsume, Idle
  <2>2. CASE v # w
    <3>1. req'[v] = req[v] /\ PastConsume(req[v])
      BY <1>1, <2>2 DEF UseInv
    <3>2. req[v].at \in {"callback", "attributes"} => req[v].id \in DOMAIN st
      BY DEF TypeOK, References, Found
    <3> QED BY <3>1, <3>2 DEF PastConsume, SpentKept, Spent
  <2> QED BY <2>1, <2>2
<1>4. ASSUME NEW i \in STId
      PROVE  answers'[i] + Cardinality(Accepting(i)') <= Cardinality(Worker)
  <2>1. answers[i] + Cardinality(Accepting(i)) <= Cardinality(Worker)
        /\ answers[i] \in Nat
    BY <1>1 DEF UseInv
  <2>2. Accepting(i)' \subseteq Accepting(i)
    BY <1>1 DEF Accepting, Idle
  <2>3. CASE i = n
    <3>1. Accepting(n)' \subseteq Accepting(n) \ {w}
      BY <1>1 DEF Accepting, Idle
    <3>2. /\ IsFiniteSet(Accepting(n) \ {w})
          /\ Cardinality(Accepting(n) \ {w}) = Cardinality(Accepting(n)) - 1
      BY AcceptingFinite, FS_RemoveElement
    <3>3. Cardinality(Accepting(n)') <= Cardinality(Accepting(n)) - 1
      BY <3>1, <3>2, FS_Subset
    <3>4. answers'[n] = answers[n] + 1
      BY <1>1
    <3> QED BY <2>1, <2>3, <3>3, <3>4, AcceptingFinite, AcceptingFiniteNext
  <2>4. CASE i # n
    <3>1. Cardinality(Accepting(i)') <= Cardinality(Accepting(i))
      BY <2>2, AcceptingFinite, FS_Subset
    <3>2. answers'[i] = answers[i]
      BY <1>1, <2>4
    <3> QED BY <2>1, <3>1, <3>2, AcceptingFinite, AcceptingFiniteNext
  <2> QED BY <2>3, <2>4
<1>5. \A i \in STId : answers[i]' + Cardinality(Accepting(i))' <= Cardinality(Worker)
  BY <1>4
<1> QED BY <1>2, <1>3, <1>5 DEF UseInv

\* The steps that leave casserver_st and every request but w's alone.
LEMMA SpentSame ==
  ASSUME st' = st
  PROVE  SpentKept
BY DEF SpentKept, Spent

LEMMA IdleSpent == Idle.at = "idle" /\ PastConsume(Idle)'
BY DEF Idle, PastConsume

\* Requests that grant: a new row spends nothing.
LEMMA SpentInsert ==
  ASSUME NEW i \in Fresh(STId, st), NEW row, st' = Insert(st, i, row)
  PROVE  SpentKept
<1>1. i \notin DOMAIN st
  BY FreshKey
<1> QED BY <1>1 DEF SpentKept, Spent, Insert

LEMMA UseEndings ==
  ASSUME TypeOK, UseInv, NEW w \in Worker,
         PostLoginRefused(w) \/ PostLoginDenied(w) \/ PostLoginGranted(w)
           \/ SSOGrant(w) \/ SSOForm(w) \/ LogoutCommit(w) \/ LogoutAborts(w)
           \/ AttributesError(w) \/ ProxyGrant(w) \/ RequestDies(w)
           \/ ValidateRefused(w)
  PROVE  UseInv'
<1>1. Respond(w) /\ answers' = answers
  BY DEF PostLoginRefused, PostLoginDenied, PostLoginGranted, SSOGrant, SSOForm,
         LogoutCommit, LogoutAborts, AttributesError, ProxyGrant, RequestDies,
         ValidateRefused, tables
<1>2. SpentKept
  <2>1. CASE st' = st
    BY <2>1, SpentSame
  <2>2. CASE PostLoginGranted(w) /\ st' # st
    <3>1. PICK u \in User, g \in Fresh(TGTId, tgt), s \in Service, i \in Fresh(STId, st) :
            st' = Insert(st, i, NewServiceTicket(u, s, g))
      BY <2>2 DEF PostLoginGranted
    <3> QED BY <3>1, SpentInsert
  <2>3. CASE SSOGrant(w)
    <3>1. PICK s \in Service, i \in Fresh(STId, st) :
            st' = Insert(st, i, NewServiceTicket(tgt[req[w].id].user, s, req[w].id))
      BY <2>3 DEF SSOGrant
    <3> QED BY <3>1, SpentInsert
  <2>4. CASE ProxyGrant(w)
    <3>1. PICK s \in Service, i \in Fresh(STId, st) :
            st' = Insert(st, i, NewProxyTicket(s, req[w].id))
      BY <2>4 DEF ProxyGrant
    <3> QED BY <3>1, SpentInsert
  <2>5. CASE LogoutCommit(w)
    BY <2>5, DestroyedSTRows DEF LogoutCommit, SpentKept, Spent, TypeOK, Types
  <2>6. CASE ValidateRefused(w)
    <3>1. req[w].id \in DOMAIN st /\ st' = ConsumedST(st, req[w].id)
      BY <2>6 DEF ValidateRefused, TypeOK, References, Found
    <3> QED BY <3>1, ConsumedSTRows DEF SpentKept, Spent, TypeOK, Types
  <2>7. st' = st \/ PostLoginGranted(w) \/ SSOGrant(w) \/ ProxyGrant(w)
        \/ LogoutCommit(w) \/ ValidateRefused(w)
    BY DEF PostLoginRefused, PostLoginDenied, SSOForm, LogoutAborts,
           AttributesError, RequestDies, tables
  <2> QED BY <2>1, <2>2, <2>3, <2>4, <2>5, <2>6, <2>7
<1> QED BY <1>1, <1>2, IdleSpent, NoNewUse DEF Respond

\* Goto leaves the worker with a request at the given point.
LEMMA GotoAt ==
  ASSUME NEW w, NEW points, NEW at \in points, NEW id, NEW ok, NEW s,
         Goto(w, at, id, ok, s)
  PROVE  \E r : r.at \in points /\ req' = [req EXCEPT ![w] = r]
<1>1. PICK row : row = [at |-> at, id |-> id, ok |-> ok, service |-> s]
  OBVIOUS
<1>2. row.at \in points
  BY <1>1
<1>3. req' = [req EXCEPT ![w] = row]
  BY <1>1 DEF Goto
<1> QED BY <1>2, <1>3

\* Requests that look up something other than a ticket to validate.
LEMMA UseLookups ==
  ASSUME TypeOK, UseInv, NEW w \in Worker,
         PostLoginLookup(w) \/ SSOLookup(w) \/ LogoutLookup(w) \/ LogoutBegin(w)
           \/ ProxyLookup(w)
  PROVE  UseInv'
<1> DEFINE points == {"login", "sso", "logout", "transaction", "proxy"}
<1>1. PICK r : r.at \in points /\ req' = [req EXCEPT ![w] = r]
  <2>0. /\ "login" \in points /\ "sso" \in points
        /\ "logout" \in points /\ "transaction" \in points /\ "proxy" \in points
    OBVIOUS
  <2> HIDE DEF points
  <2>1. CASE PostLoginLookup(w)
    <3>1. PICK i : Goto(w, "login", i, LoginTicketValid(i), NoService)
      BY <2>1 DEF PostLoginLookup
    <3> QED BY <2>0, <3>1, GotoAt
  <2>2. CASE SSOLookup(w)
    <3>1. PICK g : Goto(w, "sso", g, TRUE, NoService)
      BY <2>2 DEF SSOLookup
    <3> QED BY <2>0, <3>1, GotoAt
  <2>3. CASE LogoutLookup(w)
    <3>1. PICK g : Goto(w, "logout", g, TRUE, NoService)
      BY <2>3 DEF LogoutLookup
    <3> QED BY <2>0, <3>1, GotoAt
  <2>4. CASE ProxyLookup(w)
    <3>1. PICK p : Goto(w, "proxy", p, TRUE, NoService)
      BY <2>4 DEF ProxyLookup
    <3> QED BY <2>0, <3>1, GotoAt
  <2>5. CASE LogoutBegin(w)
    <3>1. Goto(w, "transaction", req[w].id, TRUE, NoService)
      BY <2>5 DEF LogoutBegin
    <3> QED BY <2>0, <3>1, GotoAt
  <2> QED BY <2>1, <2>2, <2>3, <2>4, <2>5
<1>2. PastConsume(r)'
  BY <1>1 DEF PastConsume
<1>3. st' = st /\ answers' = answers
  BY DEF PostLoginLookup, SSOLookup, LogoutLookup, LogoutBegin, ProxyLookup, tables
<1> QED BY <1>1, <1>2, <1>3, SpentSame, NoNewUse

\* The lookup of a service ticket: a request that finds the ticket good finds
\* it unspent, so no answer has been given on it yet.
LEMMA UseValidateLookup ==
  ASSUME TypeOK, UseInv, NEW w \in Worker, ValidateLookup(w)
  PROVE  UseInv'
<1>1. PICK n \in DOMAIN st, s \in Service :
        /\ st[n].live
        /\ Goto(w, "validate", n, ServiceTicketValid(n, s), s)
  BY DEF ValidateLookup
<1>2. PICK r : r = [at |-> "validate", id |-> n, ok |-> ServiceTicketValid(n, s),
                    service |-> s]
  OBVIOUS
<1>3. r.at = "validate" /\ r.id = n /\ req' = [req EXCEPT ![w] = r]
      /\ UNCHANGED <<st, answers>>
  BY <1>1, <1>2 DEF Goto, ValidateLookup, tables
<1>4. PastConsume(r)'
  BY <1>3 DEF PastConsume
<1>5. CASE ~r.ok
  BY <1>3, <1>4, <1>5, SpentSame, NoNewUse
<1>6. CASE r.ok
  <2>1. ~Spent(n)
    BY <1>1, <1>2, <1>6 DEF Spent, ServiceTicketValid
  <2>2. n \in STId /\ answers \in [STId -> Nat] /\ req \in [Worker -> Request]
    BY DEF TypeOK, Types
  <2>3. answers[n] = 0
    BY <2>1, <2>2 DEF UseInv
  <2>4. req'[w] = r /\ \A v \in Worker : v # w => req'[v] = req[v]
    BY <1>3, <2>2
  <2>5. ASSUME NEW i \in STId
        PROVE  answers'[i] + Cardinality(Accepting(i)') <= Cardinality(Worker)
    <3>1. CASE i = n
      BY <1>3, <2>3, <3>1, AcceptingFinite, AcceptingFiniteNext
    <3>2. CASE i # n
      <4>1. Accepting(i)' \subseteq Accepting(i)
        BY <1>3, <2>4, <3>2 DEF Accepting
      <4>2. Cardinality(Accepting(i)') <= Cardinality(Accepting(i))
        BY <4>1, AcceptingFinite, FS_Subset
      <4>3. answers[i] + Cardinality(Accepting(i)) <= Cardinality(Worker)
            /\ answers[i] \in Nat
        BY <2>2 DEF UseInv
      <4> QED BY <1>3, <4>2, <4>3, AcceptingFinite, AcceptingFiniteNext
    <3> QED BY <3>1, <3>2
  <2>6. ASSUME NEW v \in Worker PROVE PastConsume(req[v])'
    <3>1. CASE v = w
      BY <1>3, <2>4, <3>1 DEF PastConsume
    <3>2. CASE v # w
      BY <1>3, <2>4, <3>2 DEF PastConsume, Spent, UseInv
    <3> QED BY <3>1, <3>2
  <2>7. \A i \in STId : answers'[i] > 0 => i \in DOMAIN st' /\ Spent(i)'
    BY <1>3 DEF UseInv, Spent
  <2>8. \A i \in STId : answers[i]' + Cardinality(Accepting(i))' <= Cardinality(Worker)
    BY <2>5
  <2> QED BY <2>6, <2>7, <2>8 DEF UseInv
<1>7. r.ok \in BOOLEAN
  BY <1>2 DEF ServiceTicketValid
<1> QED BY <1>5, <1>6, <1>7

\* GET /serviceValidate: after consume! the ticket is spent, and the request
\* that goes on is one that had accepted it.
LEMMA UseServiceValidate ==
  ASSUME TypeOK, UseInv, NEW w \in Worker,
         ServiceValidateConsume(w) \/ CallbackAccepted(w) \/ CallbackRejected(w)
  PROVE  UseInv'
<1>n. PICK n \in DOMAIN st : n = req[w].id
  BY DEF TypeOK, References, Found, ServiceValidateConsume, CallbackAccepted,
         CallbackRejected
<1>1. /\ n \in DOMAIN st /\ req[w].at \in {"validate", "callback"} /\ req[w].ok
      /\ answers' = answers
  BY <1>n DEF UseInv, PastConsume, ServiceValidateConsume,
         CallbackAccepted, CallbackRejected
<1>2. SpentKept /\ Spent(n)'
  <2>1. CASE ServiceValidateConsume(w)
    <3>1. st' = ConsumedST(st, n)
      BY <1>n, <2>1 DEF ServiceValidateConsume
    <3>2. SpentKept
      BY <1>1, <3>1, ConsumedSTRows DEF SpentKept, Spent, TypeOK, Types
    <3>3. Spent(n)'
      BY <1>1, <3>1, ConsumedSTRows DEF Spent, TypeOK, Types
    <3> QED BY <3>2, <3>3
  <2>2. CASE CallbackAccepted(w) \/ CallbackRejected(w)
    <3>1. st' = st /\ req[w].at = "callback"
      BY <2>2 DEF CallbackAccepted, CallbackRejected, tables
    <3>2. Spent(n)
      BY <1>n, <3>1 DEF UseInv, PastConsume
    <3> QED BY <3>1, <3>2, SpentSame DEF Spent
  <2> QED BY <2>1, <2>2
<1>3. PICK at \in {"callback", "attributes"} : Goto(w, at, n, TRUE, req[w].service)
  BY <1>n DEF ServiceValidateConsume, CallbackAccepted, CallbackRejected
<1>4. PICK r : r = [at |-> at, id |-> n, ok |-> TRUE, service |-> req[w].service]
  OBVIOUS
<1>5. r.ok /\ r.id = n /\ req' = [req EXCEPT ![w] = r]
  BY <1>3, <1>4 DEF Goto
<1>6. PastConsume(r)'
  BY <1>2, <1>5 DEF PastConsume, Spent
<1> QED BY <1>n, <1>1, <1>2, <1>5, <1>6, NoNewUse

\* The two steps that tell a service that the ticket is valid.
LEMMA UseAnswers ==
  ASSUME TypeOK, UseInv, NEW w \in Worker, ValidateAnswer(w) \/ AttributesAnswer(w)
  PROVE  UseInv'
<1>n. PICK n \in DOMAIN st : n = req[w].id
  BY DEF TypeOK, References, Found, ValidateAnswer, AttributesAnswer
<1>1. /\ n \in DOMAIN st /\ w \in Accepting(n) /\ Respond(w)
      /\ answers' = [answers EXCEPT ![n] = @ + 1]
  BY <1>n DEF UseInv, PastConsume, ValidateAnswer,
         AttributesAnswer, Accepting, Answered
<1>2. SpentKept /\ Spent(n)'
  <2>1. CASE ValidateAnswer(w)
    <3>1. st' = ConsumedST(st, n)
      BY <1>n, <2>1 DEF ValidateAnswer
    <3>2. SpentKept
      BY <1>1, <3>1, ConsumedSTRows DEF SpentKept, Spent, TypeOK, Types
    <3>3. Spent(n)'
      BY <1>1, <3>1, ConsumedSTRows DEF Spent, TypeOK, Types
    <3> QED BY <3>2, <3>3
  <2>2. CASE AttributesAnswer(w)
    <3>1. st' = st /\ Spent(n)
      BY <1>n, <2>2 DEF AttributesAnswer, tables, UseInv, PastConsume
    <3> QED BY <3>1, SpentSame DEF Spent
  <2> QED BY <2>1, <2>2
<1> QED BY <1>1, <1>2, OneUse

\* Steps in which no request moves.
LEMMA UseUnchanged ==
  ASSUME UseInv, UNCHANGED <<st, req, answers>>
  PROVE  UseInv'
<1>1. \A i \in STId : Accepting(i)' = Accepting(i)
  BY DEF Accepting
<1>2. \A i \in STId : answers[i]' + Cardinality(Accepting(i))' <= Cardinality(Worker)
  BY <1>1 DEF UseInv
<1>3. \A i \in STId : answers'[i] > 0 => i \in DOMAIN st' /\ Spent(i)'
  BY DEF UseInv, Spent
<1>4. \A w \in Worker : PastConsume(req[w])'
  BY DEF UseInv, PastConsume, Spent
<1> QED BY <1>2, <1>3, <1>4 DEF UseInv

LEMMA UseInit == Init => UseInv
<1> SUFFICES ASSUME Init PROVE UseInv
  OBVIOUS
<1>1. \A w \in Worker : req[w] = Idle
  BY DEF Init
<1>2. ASSUME NEW i \in STId
      PROVE  answers[i] + Cardinality(Accepting(i)) <= Cardinality(Worker)
  BY AcceptingFinite DEF Init
<1> QED BY <1>1, <1>2 DEF UseInv, Init, PastConsume, Idle

LEMMA UseNext == TypeOK /\ UseInv /\ [Next]_vars => UseInv'
<1> SUFFICES ASSUME TypeOK, UseInv, [Next]_vars PROVE UseInv'
  OBVIOUS
<1>1. CASE Tick \/ UNCHANGED vars
  BY <1>1, UseUnchanged DEF Tick, tables, vars
<1>2. ASSUME NEW w \in Worker, LoginForm(w) \/ SSOExpired(w) PROVE UseInv'
  BY <1>2, UseUnchanged DEF LoginForm, SSOExpired
<1>3. ASSUME NEW w \in Worker, LoginStep(w) \/ ProxyStep(w) PROVE UseInv'
  BY <1>2, <1>3, UseEndings, UseLookups DEF LoginStep, ProxyStep
<1>4. ASSUME NEW w \in Worker, LogoutStep(w) \/ RequestDies(w) PROVE UseInv'
  BY <1>4, UseEndings, UseLookups, UseUnchanged, Deleting DEF LogoutStep
<1>5. ASSUME NEW w \in Worker, ValidateStep(w) PROVE UseInv'
  BY <1>5, UseEndings, UseValidateLookup, UseServiceValidate, UseAnswers
     DEF ValidateStep
<1> QED BY <1>1, <1>3, <1>4, <1>5 DEF Next, RequestStep

LEMMA UseInvariant == Spec => []UseInv
BY UseInit, UseNext, TypeCorrect, PTL DEF Spec

\* Once a service has been told that a ticket is valid, the ticket is used up or
\* its row is gone: no request that looks it up later accepts it.
THEOREM AnsweredTicketsUsedUp == Spec => []UsedUp
<1>1. TypeOK /\ UseInv => UsedUp
  BY DEF TypeOK, Types, UseInv, UsedUp, Spent
<1> QED BY <1>1, TypeCorrect, UseInvariant, PTL

\* A ticket is answered with yes at most once per worker process, for any number
\* of worker processes.
THEOREM AnswersPerWorker == Spec => []AnswersBounded
<1>1. TypeOK /\ UseInv => AnswersBounded
  <2> SUFFICES ASSUME TypeOK, UseInv, NEW i \in STId
               PROVE  answers[i] <= Cardinality(Worker)
    BY DEF AnswersBounded
  <2>1. answers[i] \in Nat /\ answers[i] + Cardinality(Accepting(i)) <= Cardinality(Worker)
    BY DEF TypeOK, Types, UseInv
  <2> QED BY <2>1, AcceptingFinite
<1> QED BY <1>1, TypeCorrect, UseInvariant, PTL

\* With a single worker process (requests do not overlap) a ticket is accepted
\* once, as "Ticket ... has already been used up" (cas.rb:175) says.
THEOREM SingleUseOneWorker ==
  ASSUME Cardinality(Worker) = 1
  PROVE  Spec => []SingleUse
<1>1. AnswersBounded => SingleUse
  BY DEF AnswersBounded, SingleUse
<1> QED BY <1>1, AnswersPerWorker, PTL

-------------------------------------------------------------------------------
(* The sessions, and the tickets when one worker serves every request: the *)
(* inductive invariants.  Each counts, with what is in a table, the    *)
(* requests that may still add to it.                                      *)

\* The sessions that login ticket i has opened.
Opened(i) == {g \in DOMAIN tgt : tgt[g].lt = i}

LoginInv ==
  /\ \A g \in DOMAIN tgt : tgt[g].lt \in DOMAIN lt /\ lt[tgt[g].lt].consumed
  /\ \A i \in LTId : Cardinality(Opened(i)) + Cardinality(Opening(i)) <= Cardinality(Worker)

\* The requests about to grant a service ticket on session g, read before.
Granting(g) == {w \in Worker : req[w].at = "sso" /\ req[w].id = g}

-------------------------------------------------------------------------------
(* Counting.                                                               *)

\* Whoever leaves R may add one element to S.
LEMMA Exchange ==
  ASSUME NEW S, NEW R, NEW S2, NEW R2, IsFiniteSet(S), IsFiniteSet(R),
         \/ S2 \subseteq S /\ R2 \subseteq R
         \/ \E x : \E w \in R : S2 \subseteq S \cup {x} /\ R2 \subseteq R \ {w}
  PROVE  /\ Cardinality(S) \in Nat /\ Cardinality(R) \in Nat
         /\ Cardinality(S2) \in Nat /\ Cardinality(R2) \in Nat
         /\ Cardinality(S2) + Cardinality(R2) <= Cardinality(S) + Cardinality(R)
<1>1. Cardinality(S) \in Nat /\ Cardinality(R) \in Nat
  BY FS_CardinalityType
<1>2. CASE S2 \subseteq S /\ R2 \subseteq R
  <2>1. IsFiniteSet(S2) /\ Cardinality(S2) <= Cardinality(S)
    BY <1>2, FS_Subset
  <2>2. IsFiniteSet(R2) /\ Cardinality(R2) <= Cardinality(R)
    BY <1>2, FS_Subset
  <2>3. Cardinality(S2) \in Nat /\ Cardinality(R2) \in Nat
    BY <2>1, <2>2, FS_CardinalityType
  <2> QED BY <1>1, <2>1, <2>2, <2>3
<1>3. CASE \E x : \E w \in R : S2 \subseteq S \cup {x} /\ R2 \subseteq R \ {w}
  <2>1. PICK x : \E w \in R : S2 \subseteq S \cup {x} /\ R2 \subseteq R \ {w}
    BY <1>3
  <2>w. PICK w \in R : S2 \subseteq S \cup {x} /\ R2 \subseteq R \ {w}
    BY <2>1
  <2>a. /\ IsFiniteSet(S \cup {x})
        /\ Cardinality(S \cup {x}) = IF x \in S THEN Cardinality(S) ELSE Cardinality(S) + 1
    BY FS_AddElement
  <2>2. IsFiniteSet(S \cup {x}) /\ Cardinality(S \cup {x}) <= Cardinality(S) + 1
    BY <1>1, <2>a
  <2>3. IsFiniteSet(S2) /\ Cardinality(S2) <= Cardinality(S \cup {x})
    BY <2>w, <2>2, FS_Subset
  <2>4. IsFiniteSet(R \ {w}) /\ Cardinality(R \ {w}) = Cardinality(R) - 1
    BY FS_RemoveElement
  <2>5. IsFiniteSet(R2) /\ Cardinality(R2) <= Cardinality(R \ {w})
    BY <2>w, <2>4, FS_Subset
  <2>6. /\ Cardinality(S2) \in Nat /\ Cardinality(R2) \in Nat
        /\ Cardinality(S \cup {x}) \in Nat /\ Cardinality(R \ {w}) \in Nat
    BY <2>2, <2>3, <2>4, <2>5, FS_CardinalityType
  <2> QED BY <1>1, <2>2, <2>3, <2>4, <2>5, <2>6
<1> QED BY <1>2, <1>3

LEMMA KeysFinite == IsFiniteSet(LTId) /\ IsFiniteSet(TGTId) /\ IsFiniteSet(STId) /\ IsFiniteSet(PGTId)
BY FS_Interval, CASAssumption DEF LTId, TGTId, STId, PGTId

LEMMA CountsFinite ==
  ASSUME TypeOK, NEW i
  PROVE  /\ IsFiniteSet(Opened(i)) /\ IsFiniteSet(Opening(i))
         /\ IsFiniteSet(GrantedAfter(i)) /\ IsFiniteSet(Granting(i))
         /\ Cardinality(Worker) \in Nat
<1>1. /\ Opened(i) \subseteq TGTId /\ GrantedAfter(i) \subseteq STId
      /\ Opening(i) \subseteq Worker /\ Granting(i) \subseteq Worker
  BY DEF TypeOK, Types, Opened, Opening, GrantedAfter, Granting
<1> QED BY <1>1, KeysFinite, FS_Subset, FS_CardinalityType, CASAssumption

-------------------------------------------------------------------------------
(* What a step does to the requests and to the login tickets.              *)

\* A step that moves a request changes that of one worker.
LEMMA OthersStay ==
  ASSUME TypeOK, NEW w \in Worker, NEW r, req' = [req EXCEPT ![w] = r]
  PROVE  req'[w] = r /\ \A v \in Worker : v # w => req'[v] = req[v]
BY DEF TypeOK, Types

LEMMA Responded ==
  ASSUME TypeOK, NEW w \in Worker, Respond(w)
  PROVE  /\ req'[w] = Idle /\ \A v \in Worker : v # w => req'[v] = req[v]
         /\ \A i : Opening(i)' \subseteq Opening(i) \ {w}
         /\ \A g : Granting(g)' \subseteq Granting(g) \ {w}
<1>1. req'[w] = Idle /\ \A v \in Worker : v # w => req'[v] = req[v]
  BY OthersStay DEF Respond
<1> QED BY <1>1 DEF Opening, Granting, Idle

LEMMA Went ==
  ASSUME TypeOK, NEW w \in Worker, NEW at, NEW id, NEW ok, NEW s,
         Goto(w, at, id, ok, s)
  PROVE  /\ req'[w].at = at /\ req'[w].id = id /\ req'[w].ok = ok
         /\ \A v \in Worker : v # w => req'[v] = req[v]
         /\ at # "login" => \A i : Opening(i)' \subseteq Opening(i)
         /\ at # "sso" => \A g : Granting(g)' \subseteq Granting(g)
<1> DEFINE r == [at |-> at, id |-> id, ok |-> ok, service |-> s]
<1>1. r.at = at /\ r.id = id /\ r.ok = ok
  OBVIOUS
<1>2. req' = [req EXCEPT ![w] = r]
  BY DEF Goto
<1> HIDE DEF r
<1>3. req'[w] = r /\ \A v \in Worker : v # w => req'[v] = req[v]
  BY <1>2, OthersStay
<1> QED BY <1>1, <1>3 DEF Opening, Granting

LEMMA WentOn ==
  ASSUME TypeOK, NEW w \in Worker, NEW at, NEW id, NEW s, Goto(w, at, id, TRUE, s)
  PROVE  req'[w].at = at /\ req'[w].id = id
BY DEF TypeOK, Types, Goto

\* Login tickets stay, and one that is consumed remains so.
LoginTicketsKept ==
  \A i \in DOMAIN lt : i \in DOMAIN lt' /\ (lt[i].consumed => lt'[i].consumed)

LEMMA NewTicketKeeps ==
  ASSUME NEW table, NEW i \in DOMAIN table
  PROVE  i \in DOMAIN WithLoginTicket(table) /\ WithLoginTicket(table)[i] = table[i]
BY DEF WithLoginTicket

LEMMA ConsumedKeeps ==
  ASSUME NEW table, NEW n \in DOMAIN table, NEW i \in DOMAIN table,
         \A j \in DOMAIN table : table[j] \in LTRow
  PROVE  /\ i \in DOMAIN ConsumedLT(table, n)
         /\ table[i].consumed => ConsumedLT(table, n)[i].consumed
         /\ ConsumedLT(table, n)[n].consumed
BY DEF ConsumedLT, LTRow

LEMMA LoginTicketsStay ==
  ASSUME TypeOK, NEW w \in Worker, RequestStep(w)
  PROVE  LoginTicketsKept
<1> DEFINE used == ConsumedLT(lt, req[w].id)
<1>1. CASE lt' = lt
  BY <1>1 DEF LoginTicketsKept
<1>2. CASE lt' = WithLoginTicket(lt)
  BY <1>2, NewTicketKeeps DEF LoginTicketsKept
<1>3. CASE /\ req[w].at = "login"
           /\ lt' = WithLoginTicket(used) \/ lt' = WithLoginTicket(WithLoginTicket(used))
  <2>1. req[w].id \in DOMAIN lt /\ \A j \in DOMAIN lt : lt[j] \in LTRow
    BY <1>3 DEF TypeOK, Types, References, Found
  <2>2. \A i \in DOMAIN lt : i \in DOMAIN used /\ (lt[i].consumed => used[i].consumed)
    BY <2>1, ConsumedKeeps
  <2> HIDE DEF used
  <2>3. \A i \in DOMAIN used : i \in DOMAIN WithLoginTicket(used) /\ WithLoginTicket(used)[i] = used[i]
    BY NewTicketKeeps
  <2>4. \A i \in DOMAIN WithLoginTicket(used) :
          /\ i \in DOMAIN WithLoginTicket(WithLoginTicket(used))
          /\ WithLoginTicket(WithLoginTicket(used))[i] = WithLoginTicket(used)[i]
    BY NewTicketKeeps
  <2> QED BY <1>3, <2>2, <2>3, <2>4 DEF LoginTicketsKept
<1>4. CASE LoginStep(w)
  <2>1. lt' \in {lt, WithLoginTicket(lt)} \/
        (/\ req[w].at = "login"
         /\ lt' = WithLoginTicket(used) \/ lt' = WithLoginTicket(WithLoginTicket(used)))
    BY <1>4 DEF LoginStep, LoginForm, PostLoginLookup, PostLoginRefused, PostLoginDenied,
         PostLoginGranted, SSOLookup, SSOExpired, SSOGrant, SSOForm, tables
  <2> QED BY <1>1, <1>2, <1>3, <2>1
<1>5. CASE LogoutStep(w)
  <2>1. lt' \in {lt, WithLoginTicket(lt)}
    BY <1>5, Deleting DEF LogoutStep, LogoutLookup, LogoutBegin, LogoutCommit, LogoutAborts, tables
  <2> QED BY <1>1, <1>2, <2>1
<1>6. CASE ValidateStep(w) \/ ProxyStep(w) \/ RequestDies(w)
  <2>1. lt' = lt
    BY <1>6 DEF ValidateStep, ValidateLookup, ValidateRefused, ValidateAnswer,
         ServiceValidateConsume, CallbackAccepted, CallbackRejected, AttributesAnswer,
         AttributesError, ProxyStep, ProxyLookup, ProxyGrant, RequestDies, tables
  <2> QED BY <1>1, <2>1
<1> QED BY <1>4, <1>5, <1>6 DEF RequestStep

-------------------------------------------------------------------------------
(* How many sessions a login ticket opens.                                 *)

\* No session is opened, and nobody finds a login ticket good.
LEMMA LoginsKept ==
  ASSUME TypeOK, LoginInv, LoginTicketsKept,
         \A g \in DOMAIN tgt' : g \in DOMAIN tgt /\ tgt'[g].lt = tgt[g].lt,
         \A i : Opening(i)' \subseteq Opening(i)
  PROVE  LoginInv'
<1>1. \A g \in DOMAIN tgt' : tgt'[g].lt \in DOMAIN lt' /\ lt'[tgt'[g].lt].consumed
  BY DEF LoginInv, LoginTicketsKept
<1>2. ASSUME NEW i \in LTId
      PROVE  Cardinality(Opened(i)') + Cardinality(Opening(i)') <= Cardinality(Worker)
  <2>1. Opened(i)' \subseteq Opened(i)
    BY DEF Opened
  <2>2. /\ Cardinality(Opened(i)) \in Nat /\ Cardinality(Opening(i)) \in Nat
        /\ Cardinality(Opened(i)') \in Nat /\ Cardinality(Opening(i)') \in Nat
        /\ Cardinality(Opened(i)') + Cardinality(Opening(i)')
             <= Cardinality(Opened(i)) + Cardinality(Opening(i))
    BY <2>1, CountsFinite, Exchange
  <2>3. Cardinality(Opened(i)) + Cardinality(Opening(i)) <= Cardinality(Worker)
    BY DEF LoginInv
  <2> QED BY <2>2, <2>3, CountsFinite
<1>3. \A i \in LTId : Cardinality(Opened(i))' + Cardinality(Opening(i))' <= Cardinality(Worker)
  BY <1>2
<1> QED BY <1>1, <1>3 DEF LoginInv

\* A login ticket that is found good has opened no session yet: it would be
\* consumed.
LEMMA LoginsLookup ==
  ASSUME TypeOK, LoginInv, NEW w \in Worker, PostLoginLookup(w)
  PROVE  LoginInv'
<1>1. PICK n \in DOMAIN lt : Goto(w, "login", n, LoginTicketValid(n), NoService)
  BY DEF PostLoginLookup
<1>2. UNCHANGED <<lt, tgt>>
  BY DEF PostLoginLookup, tables
<1>3. /\ req'[w].id = n /\ req'[w].ok = LoginTicketValid(n)
      /\ \A v \in Worker : v # w => req'[v] = req[v]
  BY <1>1, Went
<1>4. ASSUME NEW i \in LTId
      PROVE  Cardinality(Opened(i)') + Cardinality(Opening(i)') <= Cardinality(Worker)
  <2>1. Opened(i)' = Opened(i)
    BY <1>2 DEF Opened
  <2>2. CASE Opening(i)' \subseteq Opening(i)
    <3>1. /\ Cardinality(Opened(i)) \in Nat /\ Cardinality(Opening(i)) \in Nat
          /\ Cardinality(Opening(i)') \in Nat
          /\ Cardinality(Opened(i)) + Cardinality(Opening(i)')
               <= Cardinality(Opened(i)) + Cardinality(Opening(i))
      BY <2>2, CountsFinite, Exchange
    <3>2. Cardinality(Opened(i)) + Cardinality(Opening(i)) <= Cardinality(Worker)
      BY DEF LoginInv
    <3> QED BY <2>1, <3>1, <3>2, CountsFinite
  <2>3. CASE ~(Opening(i)' \subseteq Opening(i))
    <3>1. w \in Opening(i)' /\ i = n
      BY <1>3, <2>3 DEF Opening
    <3>2. ~lt[i].consumed
      BY <1>3, <3>1 DEF Opening, LoginTicketValid
    <3>3. Opened(i) = {}
      BY <3>2 DEF Opened, LoginInv
    <3>4. Opening(i)' \subseteq Worker
      BY DEF Opening
    <3>5. Cardinality(Opened(i)) = 0
      BY <3>3, FS_EmptySet
    <3>6. Cardinality(Opening(i)') <= Cardinality(Worker) /\ IsFiniteSet(Opening(i)')
      BY <3>4, FS_Subset, CASAssumption
    <3> QED BY <2>1, <3>5, <3>6, CountsFinite, FS_CardinalityType
  <2> QED BY <2>2, <2>3
<1>5. \A i \in LTId : Cardinality(Opened(i))' + Cardinality(Opening(i))' <= Cardinality(Worker)
  BY <1>4
<1> QED BY <1>2, <1>5 DEF LoginInv

\* A session is opened by a request that had found its login ticket good, and
\* has consumed it.
LEMMA LoginsGranted ==
  ASSUME TypeOK, LoginInv, NEW w \in Worker, PostLoginGranted(w)
  PROVE  LoginInv'
<1>1. /\ req[w].at = "login" /\ req[w].ok /\ Respond(w)
      /\ lt' = WithLoginTicket(ConsumedLT(lt, req[w].id))
  BY DEF PostLoginGranted
<1>2. PICK n \in DOMAIN lt : n = req[w].id
  BY <1>1 DEF TypeOK, References, Found
<1>0. PICK g \in Fresh(TGTId, tgt) : \E row : tgt' = Insert(tgt, g, row) /\ row.lt = n
  <2>1. PICK g \in Fresh(TGTId, tgt) : \E u \in User :
          tgt' = Insert(tgt, g, [row |-> "live", user |-> u, born |-> now, lt |-> req[w].id])
    BY DEF PostLoginGranted
  <2>2. PICK u \in User :
          tgt' = Insert(tgt, g, [row |-> "live", user |-> u, born |-> now, lt |-> req[w].id])
    BY <2>1
  <2>3. [row |-> "live", user |-> u, born |-> now, lt |-> req[w].id].lt = n
    BY <1>2
  <2> QED BY <2>2, <2>3
<1>3. PICK row : tgt' = Insert(tgt, g, row) /\ row.lt = n
  BY <1>0
<1>4. /\ DOMAIN tgt' = DOMAIN tgt \cup {g} /\ tgt'[g].lt = n
      /\ \A h \in DOMAIN tgt : h # g /\ tgt'[h] = tgt[h]
  BY <1>3, FreshKey DEF Insert
<1>5. LoginTicketsKept
  BY LoginTicketsStay DEF RequestStep, LoginStep
<1>6. n \in DOMAIN lt' /\ lt'[n].consumed
  <2> DEFINE used == ConsumedLT(lt, n)
  <2>1. n \in DOMAIN used /\ used[n].consumed
    BY ConsumedKeeps DEF TypeOK, Types
  <2> HIDE DEF used
  <2>2. lt' = WithLoginTicket(used)
    BY <1>1, <1>2 DEF used
  <2> QED BY <2>1, <2>2, NewTicketKeeps
<1>7. \A h \in DOMAIN tgt' : tgt'[h].lt \in DOMAIN lt' /\ lt'[tgt'[h].lt].consumed
  BY <1>4, <1>5, <1>6 DEF LoginInv, LoginTicketsKept
<1>8. ASSUME NEW i \in LTId
      PROVE  Cardinality(Opened(i)') + Cardinality(Opening(i)') <= Cardinality(Worker)
  <2>1. \/ Opened(i)' \subseteq Opened(i) /\ Opening(i)' \subseteq Opening(i)
        \/ \E x : \E v \in Opening(i) :
             Opened(i)' \subseteq Opened(i) \cup {x} /\ Opening(i)' \subseteq Opening(i) \ {v}
    <3>1. Opening(i)' \subseteq Opening(i) \ {w}
      BY <1>1, Responded
    <3>2. CASE i = n
      <4>1. w \in Opening(i)
        BY <1>1, <1>2, <3>2 DEF Opening
      <4>2. Opened(i)' \subseteq Opened(i) \cup {g}
        BY <1>4 DEF Opened
      <4> QED BY <3>1, <4>1, <4>2
    <3>3. CASE i # n
      BY <1>4, <3>1, <3>3 DEF Opened
    <3> QED BY <3>2, <3>3
  <2>2. /\ Cardinality(Opened(i)) \in Nat /\ Cardinality(Opening(i)) \in Nat
        /\ Cardinality(Opened(i)') \in Nat /\ Cardinality(Opening(i)') \in Nat
        /\ Cardinality(Opened(i)') + Cardinality(Opening(i)')
             <= Cardinality(Opened(i)) + Cardinality(Opening(i))
    BY <2>1, CountsFinite, Exchange
  <2>3. Cardinality(Opened(i)) + Cardinality(Opening(i)) <= Cardinality(Worker)
    BY DEF LoginInv
  <2> QED BY <2>2, <2>3, CountsFinite
<1>9. \A i \in LTId : Cardinality(Opened(i))' + Cardinality(Opening(i))' <= Cardinality(Worker)
  BY <1>8
<1> QED BY <1>7, <1>9 DEF LoginInv

\* The columns user, lt of a session are written once.
LEMMA SessionColumns ==
  ASSUME TypeOK, NEW w \in Worker, RequestStep(w), ~PostLoginGranted(w)
  PROVE  \A g \in DOMAIN tgt' : g \in DOMAIN tgt /\ tgt'[g].lt = tgt[g].lt
<1>1. \A g \in DOMAIN tgt : tgt[g] \in TGTRow
  BY DEF TypeOK, Types
<1>2. CASE tgt' = tgt
  BY <1>2
<1>3. CASE SSOExpired(w)
  <2>1. PICK g \in DOMAIN tgt : tgt' = [tgt EXCEPT ![g].row = "expired"]
    BY <1>3 DEF SSOExpired
  <2> QED BY <1>1, <2>1 DEF TGTRow
<1>4. CASE LogoutCommit(w)
  BY <1>1, <1>4 DEF LogoutCommit, TGTRow
<1>5. tgt' = tgt \/ SSOExpired(w) \/ LogoutCommit(w)
  <2>1. CASE LoginStep(w)
    BY <2>1 DEF LoginStep, LoginForm, PostLoginLookup, PostLoginRefused, PostLoginDenied,
         SSOLookup, SSOGrant, SSOForm, tables
  <2>2. CASE LogoutStep(w) \/ ProxyStep(w) \/ RequestDies(w)
    BY <2>2, Deleting DEF LogoutStep, LogoutLookup, LogoutBegin, LogoutAborts, ProxyStep, ProxyLookup, ProxyGrant,
         RequestDies, tables
  <2>3. CASE ValidateStep(w)
    BY <2>3 DEF ValidateStep, ValidateLookup, ValidateRefused, ValidateAnswer,
         ServiceValidateConsume, CallbackAccepted, CallbackRejected, AttributesAnswer,
         AttributesError, tables
  <2> QED BY <2>1, <2>2, <2>3 DEF RequestStep
<1> QED BY <1>2, <1>3, <1>4, <1>5

\* Nobody else comes to hold a good login ticket.
LEMMA OpeningShrinks ==
  ASSUME TypeOK, NEW w \in Worker, RequestStep(w), ~PostLoginLookup(w)
  PROVE  \A i : Opening(i)' \subseteq Opening(i)
<1>0. "sso" # "login" /\ "logout" # "login" /\ "proxy" # "login" /\ "validate" # "login"
      /\ "transaction" # "login"
  OBVIOUS
<1>1. CASE req' = req
  BY <1>1 DEF Opening
<1>2. CASE Respond(w)
  BY <1>2, Responded
<1>3. CASE SSOLookup(w)
  <2>1. PICK g \in DOMAIN tgt : Goto(w, "sso", g, TRUE, NoService)
    BY <1>3 DEF SSOLookup
  <2> QED BY <1>0, <2>1, Went, Zenon
<1>4. CASE LogoutLookup(w)
  <2>1. PICK g \in DOMAIN tgt : Goto(w, "logout", g, TRUE, NoService)
    BY <1>4 DEF LogoutLookup
  <2> QED BY <1>0, <2>1, Went, Zenon
<1>5. CASE ProxyLookup(w)
  <2>1. PICK p \in DOMAIN pgt : Goto(w, "proxy", p, TRUE, NoService)
    BY <1>5 DEF ProxyLookup
  <2> QED BY <1>0, <2>1, Went, Zenon
<1>6. CASE ValidateLookup(w)
  <2>1. PICK i \in DOMAIN st, s \in Service : Goto(w, "validate", i, ServiceTicketValid(i, s), s)
    BY <1>6 DEF ValidateLookup
  <2> QED BY <1>0, <2>1, Went, Zenon
<1>7. CASE ServiceValidateConsume(w) \/ CallbackAccepted(w) \/ CallbackRejected(w)
  <2>1. PICK next \in {"callback", "attributes"} : Goto(w, next, req[w].id, TRUE, req[w].service)
    BY <1>7 DEF ServiceValidateConsume, CallbackAccepted, CallbackRejected
  <2> QED BY <1>0, <2>1, Went, Zenon
<1>8. CASE LoginStep(w)
  BY <1>1, <1>2, <1>3, <1>8 DEF LoginStep, LoginForm, PostLoginRefused, PostLoginDenied,
     PostLoginGranted, SSOExpired, SSOGrant, SSOForm
<1>a. CASE LogoutBegin(w)
  BY <1>0, <1>a, Went, Zenon DEF LogoutBegin
<1>9. CASE LogoutStep(w) \/ RequestDies(w) \/ ProxyStep(w)
  BY <1>1, <1>2, <1>4, <1>5, <1>9, <1>a, Deleting DEF LogoutStep, LogoutCommit, LogoutAborts,
     RequestDies, ProxyStep, ProxyGrant
<1>10. CASE ValidateStep(w)
  BY <1>2, <1>6, <1>7, <1>10 DEF ValidateStep, ValidateRefused, ValidateAnswer,
     AttributesAnswer, AttributesError
<1> QED BY <1>8, <1>9, <1>10 DEF RequestStep

LEMMA LoginsNext == TypeOK /\ LoginInv /\ [Next]_vars => LoginInv'
<1> SUFFICES ASSUME TypeOK, LoginInv, [Next]_vars PROVE LoginInv'
  OBVIOUS
<1>1. CASE Tick \/ UNCHANGED vars
  <2>1. UNCHANGED <<lt, tgt, req>>
    BY <1>1 DEF Tick, tables, vars
  <2>2. LoginTicketsKept /\ \A i : Opening(i)' \subseteq Opening(i)
    BY <2>1 DEF LoginTicketsKept, Opening
  <2> QED BY <2>1, <2>2, LoginsKept
<1>2. ASSUME NEW w \in Worker, RequestStep(w) PROVE LoginInv'
  <2>1. CASE PostLoginGranted(w)
    BY <2>1, LoginsGranted
  <2>2. CASE PostLoginLookup(w)
    BY <2>2, LoginsLookup
  <2>3. CASE ~PostLoginGranted(w) /\ ~PostLoginLookup(w)
    BY <1>2, <2>3, LoginsKept, LoginTicketsStay, SessionColumns, OpeningShrinks
  <2> QED BY <2>1, <2>2, <2>3
<1> QED BY <1>1, <1>2 DEF Next

LEMMA LoginsInit == Init => LoginInv
<1> SUFFICES ASSUME Init PROVE LoginInv
  OBVIOUS
<1>1. DOMAIN tgt = {} /\ \A w \in Worker : req[w].at = "idle"
  BY DEF Init, EmptyTable, Idle
<1>2. \A i : Opened(i) = {} /\ Opening(i) = {}
  BY <1>1 DEF Opened, Opening
<1>3. \A i : Cardinality(Opened(i)) = 0 /\ Cardinality(Opening(i)) = 0
  BY <1>2, FS_EmptySet
<1>4. Cardinality(Worker) \in Nat
  BY CASAssumption, FS_CardinalityType
<1>5. \A i \in LTId : Cardinality(Opened(i)) + Cardinality(Opening(i)) <= Cardinality(Worker)
  BY <1>3, <1>4
<1> QED BY <1>1, <1>5 DEF LoginInv

\* The sessions a login ticket has opened, with those requests can still open with
\* it, are never more than the worker processes, whatever their number
\* (validate_login_ticket and consume!, cas.rb).
THEOREM SessionsPerWorker == Spec => []LoginsBounded
<1>1. TypeOK /\ LoginInv => LoginsBounded
  <2> SUFFICES ASSUME TypeOK, LoginInv, NEW i \in DOMAIN lt
               PROVE  Cardinality({g \in DOMAIN tgt : tgt[g].lt = i}) + Cardinality(Opening(i))
                        <= Cardinality(Worker)
    BY DEF LoginsBounded
  <2>1. i \in LTId
    BY DEF TypeOK, Types
  <2> QED BY <2>1 DEF LoginInv, Opened
<1> QED BY <1>1, LoginsInit, LoginsNext, TypeCorrect, PTL DEF Spec

-------------------------------------------------------------------------------
(* What a logout leaves of a session.                                      *)

\* Only GET /login with a cookie comes to grant on a session.
LEMMA GrantingShrinks ==
  ASSUME TypeOK, NEW w \in Worker, RequestStep(w), ~SSOLookup(w)
  PROVE  \A g : Granting(g)' \subseteq Granting(g)
<1>0. "login" # "sso" /\ "logout" # "sso" /\ "proxy" # "sso" /\ "validate" # "sso"
      /\ "transaction" # "sso"
  OBVIOUS
<1>1. CASE req' = req
  BY <1>1 DEF Granting
<1>2. CASE Respond(w)
  BY <1>2, Responded
<1>3. CASE PostLoginLookup(w)
  <2>1. PICK i \in DOMAIN lt : Goto(w, "login", i, LoginTicketValid(i), NoService)
    BY <1>3 DEF PostLoginLookup
  <2> QED BY <1>0, <2>1, Went, Zenon
<1>4. CASE LogoutLookup(w)
  <2>1. PICK g \in DOMAIN tgt : Goto(w, "logout", g, TRUE, NoService)
    BY <1>4 DEF LogoutLookup
  <2> QED BY <1>0, <2>1, Went, Zenon
<1>5. CASE ProxyLookup(w)
  <2>1. PICK p \in DOMAIN pgt : Goto(w, "proxy", p, TRUE, NoService)
    BY <1>5 DEF ProxyLookup
  <2> QED BY <1>0, <2>1, Went, Zenon
<1>6. CASE ValidateLookup(w)
  <2>1. PICK i \in DOMAIN st, s \in Service : Goto(w, "validate", i, ServiceTicketValid(i, s), s)
    BY <1>6 DEF ValidateLookup
  <2> QED BY <1>0, <2>1, Went, Zenon
<1>7. CASE ServiceValidateConsume(w) \/ CallbackAccepted(w) \/ CallbackRejected(w)
  <2>1. PICK next \in {"callback", "attributes"} : Goto(w, next, req[w].id, TRUE, req[w].service)
    BY <1>7 DEF ServiceValidateConsume, CallbackAccepted, CallbackRejected
  <2> QED BY <2>1, Went
<1>8. CASE LoginStep(w)
  BY <1>1, <1>2, <1>3, <1>8 DEF LoginStep, LoginForm, PostLoginRefused, PostLoginDenied,
     PostLoginGranted, SSOExpired, SSOGrant, SSOForm
<1>a. CASE LogoutBegin(w)
  BY <1>0, <1>a, Went, Zenon DEF LogoutBegin
<1>9. CASE LogoutStep(w) \/ RequestDies(w) \/ ProxyStep(w)
  BY <1>1, <1>2, <1>4, <1>5, <1>9, <1>a, Deleting DEF LogoutStep, LogoutCommit, LogoutAborts,
     RequestDies, ProxyStep, ProxyGrant
<1>10. CASE ValidateStep(w)
  BY <1>2, <1>6, <1>7, <1>10 DEF ValidateStep, ValidateRefused, ValidateAnswer,
     AttributesAnswer, AttributesError
<1> QED BY <1>8, <1>9, <1>10 DEF RequestStep

\* A step of one worker leaves the requests of the others alone.
LEMMA OnlyOwnRequest ==
  ASSUME TypeOK, NEW w \in Worker, RequestStep(w)
  PROVE  \A v \in Worker : v # w => req'[v] = req[v]
<1>1. req \in [Worker -> Request]
  BY DEF TypeOK, Types
<1>2. req' = req \/ \E r : req' = [req EXCEPT ![w] = r]
  <2>1. CASE LoginStep(w)
    BY <2>1 DEF LoginStep, LoginForm, PostLoginLookup, PostLoginRefused, PostLoginDenied,
       PostLoginGranted, SSOLookup, SSOExpired, SSOGrant, SSOForm, Goto, Respond
  <2>2. CASE LogoutStep(w) \/ ProxyStep(w) \/ RequestDies(w)
    BY <2>2, Deleting DEF LogoutStep, LogoutLookup, LogoutBegin, LogoutCommit, LogoutAborts, ProxyStep, ProxyLookup,
       ProxyGrant, RequestDies, Goto, Respond
  <2>3. CASE ValidateStep(w)
    BY <2>3 DEF ValidateStep, ValidateLookup, ValidateRefused, ValidateAnswer,
       ServiceValidateConsume, CallbackAccepted, CallbackRejected, AttributesAnswer,
       AttributesError, Goto, Respond
  <2> QED BY <2>1, <2>2, <2>3 DEF RequestStep
<1> QED BY <1>1, <1>2

\* The rows of a table stay, with what they belong to, and no flag is raised.
RowsLowered ==
  /\ \A g \in DOMAIN tgt :
       /\ g \in DOMAIN tgt' /\ tgt'[g].user = tgt[g].user
       /\ tgt[g].row = "loggedOut" => tgt'[g].row = "loggedOut"
  /\ \A p \in DOMAIN pgt :
       /\ p \in DOMAIN pgt' /\ pgt'[p].st = pgt[p].st
       /\ pgt'[p].live => pgt[p].live
  /\ \A i \in DOMAIN st :
       /\ i \in DOMAIN st' /\ st'[i].kind = st[i].kind
       /\ st'[i].user = st[i].user /\ st'[i].tgt = st[i].tgt
       /\ st'[i].live => st[i].live

\* No new service ticket.
NoTicketGranted ==
  \A i \in DOMAIN st' : st'[i].kind = "ST" =>
    i \in DOMAIN st /\ st[i].kind = "ST" /\ st'[i].tgt = st[i].tgt

LEMMA SessionsLowered ==
  ASSUME TypeOK, NEW w \in Worker, RequestStep(w)
  PROVE  \A g \in DOMAIN tgt :
           /\ g \in DOMAIN tgt' /\ tgt'[g].user = tgt[g].user
           /\ tgt[g].row = "loggedOut" => tgt'[g].row = "loggedOut"
<1>1. \A g \in DOMAIN tgt : tgt[g] \in TGTRow
  BY DEF TypeOK, Types
<1>2. CASE tgt' = tgt
  BY <1>2
<1>3. CASE SSOExpired(w)
  <2>1. PICK g \in DOMAIN tgt : tgt[g].row = "live" /\ tgt' = [tgt EXCEPT ![g].row = "expired"]
    BY <1>3 DEF SSOExpired
  <2> QED BY <1>1, <2>1 DEF TGTRow
<1>4. CASE PostLoginGranted(w)
  <2>1. PICK g \in Fresh(TGTId, tgt) : \E row : tgt' = Insert(tgt, g, row)
    BY <1>4 DEF PostLoginGranted
  <2> QED BY <2>1, FreshKey DEF Insert
<1>5. CASE LogoutCommit(w)
  <2>1. tgt' = tgt \/ tgt' = [tgt EXCEPT ![req[w].id].row = "loggedOut"]
    BY <1>5 DEF LogoutCommit
  <2> QED BY <1>1, <2>1 DEF TGTRow
<1>6. CASE LoginStep(w)
  BY <1>2, <1>3, <1>4, <1>6 DEF LoginStep, LoginForm, PostLoginLookup, PostLoginRefused,
     PostLoginDenied, SSOLookup, SSOGrant, SSOForm, tables
<1>7. CASE LogoutStep(w) \/ ProxyStep(w) \/ RequestDies(w)
  BY <1>2, <1>5, <1>7, Deleting DEF LogoutStep, LogoutLookup, LogoutBegin, LogoutAborts,
     ProxyStep, ProxyLookup, ProxyGrant, RequestDies, tables
<1>8. CASE ValidateStep(w)
  BY <1>2, <1>8 DEF ValidateStep, ValidateLookup, ValidateRefused, ValidateAnswer,
     ServiceValidateConsume, CallbackAccepted, CallbackRejected, AttributesAnswer,
     AttributesError, tables
<1> QED BY <1>6, <1>7, <1>8 DEF RequestStep

LEMMA ProxiesLowered ==
  ASSUME TypeOK, NEW w \in Worker, RequestStep(w)
  PROVE  \A p \in DOMAIN pgt :
           /\ p \in DOMAIN pgt' /\ pgt'[p].st = pgt[p].st
           /\ pgt'[p].live => pgt[p].live
<1>1. CASE pgt' = pgt
  BY <1>1
<1>2. CASE CallbackAccepted(w)
  <2>1. PICK p \in Fresh(PGTId, pgt) : \E row : pgt' = Insert(pgt, p, row)
    BY <1>2 DEF CallbackAccepted
  <2> QED BY <2>1, FreshKey DEF Insert
<1>3. CASE LogoutCommit(w)
  <2>1. pgt' = Destroyed(pgt, JoinedPGTs(w))
    BY <1>3 DEF LogoutCommit
  <2> QED BY <2>1 DEF Destroyed, TypeOK, Types, PGTRow
<1>4. CASE LoginStep(w)
  BY <1>1, <1>4 DEF LoginStep, LoginForm, PostLoginLookup, PostLoginRefused,
     PostLoginDenied, PostLoginGranted, SSOLookup, SSOExpired, SSOGrant, SSOForm, tables
<1>5. CASE LogoutStep(w) \/ ProxyStep(w) \/ RequestDies(w)
  BY <1>1, <1>3, <1>5, Deleting DEF LogoutStep, LogoutLookup, LogoutBegin, LogoutAborts,
     ProxyStep, ProxyLookup, ProxyGrant, RequestDies, tables
<1>6. CASE ValidateStep(w)
  BY <1>1, <1>2, <1>6 DEF ValidateStep, ValidateLookup, ValidateRefused, ValidateAnswer,
     ServiceValidateConsume, CallbackRejected, AttributesAnswer, AttributesError, tables
<1> QED BY <1>4, <1>5, <1>6 DEF RequestStep

LEMMA TicketsLowered ==
  ASSUME TypeOK, NEW w \in Worker, RequestStep(w)
  PROVE  /\ \A i \in DOMAIN st :
              /\ i \in DOMAIN st' /\ st'[i].kind = st[i].kind
              /\ st'[i].user = st[i].user /\ st'[i].tgt = st[i].tgt
              /\ st'[i].live => st[i].live
         /\ SSOGrant(w) \/ PostLoginGranted(w) \/ NoTicketGranted
<1>1. CASE st' = st
  BY <1>1 DEF NoTicketGranted
<1>2. CASE \E i \in Fresh(STId, st) : \E row : st' = Insert(st, i, row)
  <2>1. PICK i \in Fresh(STId, st) : \E row : st' = Insert(st, i, row)
    BY <1>2
  <2>2. i \notin DOMAIN st /\ DOMAIN st' = DOMAIN st \cup {i} /\ \A j \in DOMAIN st : st'[j] = st[j]
    BY <2>1, FreshKey DEF Insert
  <2>3. CASE ProxyGrant(w)
    <3>1. PICK s \in Service, n \in Fresh(STId, st) : st' = Insert(st, n, NewProxyTicket(s, req[w].id))
      BY <2>3 DEF ProxyGrant
    <3>2. n \notin DOMAIN st /\ st'[n].kind = "PT" /\ DOMAIN st' = DOMAIN st \cup {n}
          /\ \A j \in DOMAIN st : st'[j] = st[j]
      BY <3>1, FreshKey DEF Insert, NewProxyTicket
    <3> QED BY <3>2 DEF NoTicketGranted
  <2>4. st' # st
    BY <2>2
  <2>5. CASE LoginStep(w)
    BY <2>2, <2>4, <2>5 DEF LoginStep, LoginForm, PostLoginLookup, PostLoginRefused,
       PostLoginDenied, SSOLookup, SSOExpired, SSOForm, tables
  <2>6. CASE LogoutStep(w) \/ ProxyStep(w) \/ RequestDies(w)
    <3>1. CASE LogoutCommit(w)
      <4>1. DOMAIN st' = DOMAIN st
        BY <3>1 DEF LogoutCommit, Destroyed
      <4> QED BY <2>2, <4>1
    <3> QED BY <2>3, <2>4, <2>6, <3>1, Deleting DEF LogoutStep, LogoutLookup, LogoutBegin,
            LogoutAborts, ProxyStep, ProxyLookup, RequestDies, tables
  <2>7. CASE ValidateStep(w)
    <3>1. CASE ValidateRefused(w) \/ ValidateAnswer(w) \/ ServiceValidateConsume(w)
      <4>1. DOMAIN st' = DOMAIN st
        BY <3>1 DEF ValidateRefused, ValidateAnswer, ServiceValidateConsume, ConsumedST
      <4> QED BY <2>2, <4>1
    <3> QED BY <2>4, <2>7, <3>1 DEF ValidateStep, ValidateLookup, CallbackAccepted,
            CallbackRejected, AttributesAnswer, AttributesError, tables
  <2> QED BY <2>5, <2>6, <2>7 DEF RequestStep
<1>3. CASE LogoutCommit(w)
  <2>1. st' = Destroyed(st, tx[w].held)
    BY <1>3 DEF LogoutCommit
  <2>2. /\ DOMAIN st' = DOMAIN st
        /\ \A i \in DOMAIN st : /\ st'[i].kind = st[i].kind /\ st'[i].user = st[i].user
                                /\ st'[i].tgt = st[i].tgt
                                /\ st'[i].live => st[i].live
    BY <2>1, DestroyedSTRows DEF TypeOK, Types
  <2> QED BY <2>2 DEF NoTicketGranted
<1>4. CASE ValidateRefused(w) \/ ValidateAnswer(w) \/ ServiceValidateConsume(w)
  <2>1. req[w].id \in DOMAIN st /\ st' = ConsumedST(st, req[w].id)
    BY <1>4 DEF TypeOK, References, Found, ValidateRefused, ValidateAnswer, ServiceValidateConsume
  <2>2. /\ DOMAIN st' = DOMAIN st
        /\ \A i \in DOMAIN st : /\ st'[i].kind = st[i].kind /\ st'[i].user = st[i].user
                                /\ st'[i].tgt = st[i].tgt /\ st'[i].live = st[i].live
    BY <2>1, ConsumedSTRows DEF TypeOK, Types
  <2> QED BY <2>2 DEF NoTicketGranted
<1>5. CASE LoginStep(w)
  <2>1. CASE PostLoginGranted(w) \/ SSOGrant(w)
    <3>1. st' = st \/ \E i \in Fresh(STId, st) : \E row : st' = Insert(st, i, row)
      BY <2>1 DEF PostLoginGranted, SSOGrant
    <3> QED BY <1>1, <1>2, <3>1
  <2> QED BY <1>1, <1>5, <2>1 DEF LoginStep, LoginForm, PostLoginLookup, PostLoginRefused,
          PostLoginDenied, SSOLookup, SSOExpired, SSOForm, tables
<1>6. CASE LogoutStep(w) \/ ProxyStep(w) \/ RequestDies(w)
  <2>1. CASE ProxyGrant(w)
    <3>1. \E i \in Fresh(STId, st) : \E row : st' = Insert(st, i, row)
      BY <2>1 DEF ProxyGrant
    <3> QED BY <1>2, <3>1
  <2> QED BY <1>1, <1>3, <1>6, <2>1, Deleting DEF LogoutStep, LogoutLookup, LogoutBegin,
          LogoutAborts, ProxyStep, ProxyLookup, RequestDies, tables
<1>7. CASE ValidateStep(w)
  BY <1>1, <1>4, <1>7 DEF ValidateStep, ValidateLookup, CallbackAccepted, CallbackRejected,
     AttributesAnswer, AttributesError, tables
<1> QED BY <1>5, <1>6, <1>7 DEF RequestStep

LEMMA NothingRaised ==
  ASSUME TypeOK, NEW w \in Worker, RequestStep(w)
  PROVE  RowsLowered
BY SessionsLowered, ProxiesLowered, TicketsLowered DEF RowsLowered

\* Rows that were there stay out of what is deleted for a session.
LEMMA NoneBack ==
  ASSUME TypeOK, RowsLowered, NEW g \in DOMAIN tgt
  PROVE  /\ GrantedServiceTickets(g)' \cap DOMAIN st \subseteq GrantedServiceTickets(g)
         /\ UserPGTs(g)' \cap DOMAIN pgt \subseteq UserPGTs(g)
<1>1. GrantedServiceTickets(g)' \cap DOMAIN st \subseteq GrantedServiceTickets(g)
  BY DEF RowsLowered, GrantedServiceTickets
<1>2. \A p \in DOMAIN pgt : pgt[p].st \in DOMAIN st
  BY DEF TypeOK, References
<1>3. UserPGTs(g)' \cap DOMAIN pgt \subseteq UserPGTs(g)
  BY <1>2 DEF RowsLowered, UserPGTs
<1> QED BY <1>1, <1>3

\* A transaction still sees, or has deleted, all that was there when it began.
Snapshot(r, t) ==
  /\ t.st \subseteq DOMAIN st /\ t.pgt \subseteq DOMAIN pgt
  /\ GrantedServiceTickets(r.id) \cap t.st \subseteq t.left \cup t.held
  /\ UserPGTs(r.id) \cap t.pgt \subseteq t.pgts

\* Nothing is left of a session that was there when its logout began.
Closed(g, e) ==
  /\ g \in DOMAIN tgt /\ tgt[g].row = "loggedOut"
  /\ e.st \subseteq DOMAIN st /\ e.pgt \subseteq DOMAIN pgt
  /\ GrantedServiceTickets(g) \cap e.st = {}
  /\ UserPGTs(g) \cap e.pgt = {}

LogoutInv ==
  /\ \A w \in Worker : req[w].at = "transaction" => Snapshot(req[w], tx[w])
  /\ \A g \in DOMAIN ended : Closed(g, ended[g])

LEMMA SnapshotStays ==
  ASSUME TypeOK, RowsLowered, NEW r, r.id \in DOMAIN tgt, NEW t, Snapshot(r, t)
  PROVE  Snapshot(r, t)'
<1>1. DOMAIN st \subseteq DOMAIN st' /\ DOMAIN pgt \subseteq DOMAIN pgt'
  BY DEF RowsLowered
<1>2. PICK g \in DOMAIN tgt : g = r.id
  OBVIOUS
<1>3. /\ GrantedServiceTickets(g)' \cap DOMAIN st \subseteq GrantedServiceTickets(g)
      /\ UserPGTs(g)' \cap DOMAIN pgt \subseteq UserPGTs(g)
  BY NoneBack
<1>4. t.st \subseteq DOMAIN st' /\ t.pgt \subseteq DOMAIN pgt'
  BY <1>1 DEF Snapshot
<1>5. /\ GrantedServiceTickets(r.id)' \cap t.st \subseteq t.left \cup t.held
      /\ UserPGTs(r.id)' \cap t.pgt \subseteq t.pgts
  BY <1>2, <1>3 DEF Snapshot
<1> QED BY <1>4, <1>5 DEF Snapshot

LEMMA ClosedStays ==
  ASSUME TypeOK, RowsLowered, NEW g, NEW e, Closed(g, e)
  PROVE  Closed(g, e)'
<1>1. g \in DOMAIN tgt
  BY DEF Closed
<1>2. g \in DOMAIN tgt' /\ tgt'[g].row = "loggedOut"
  BY <1>1 DEF Closed, RowsLowered
<1>3. e.st \subseteq DOMAIN st' /\ e.pgt \subseteq DOMAIN pgt'
  BY DEF Closed, RowsLowered
<1>4. GrantedServiceTickets(g)' \cap e.st = {} /\ UserPGTs(g)' \cap e.pgt = {}
  BY <1>1, NoneBack DEF Closed
<1> QED BY <1>2, <1>3, <1>4 DEF Closed

\* Only GET /logout is in a transaction, and the transaction of a worker is its own.
LEMMA OwnTransaction ==
  ASSUME TypeOK, NEW w \in Worker, RequestStep(w)
  PROVE  /\ \A v \in Worker : v # w => tx'[v] = tx[v]
         /\ LogoutBegin(w) \/ LogoutNotify(w) \/ LogoutDestroy(w) \/ req'[w].at # "transaction"
<1>1. \A v \in Worker : v # w => tx'[v] = tx[v]
  <2>1. CASE LogoutBegin(w) \/ LogoutDestroy(w) \/ LogoutCommit(w)
    BY <2>1 DEF LogoutBegin, LogoutDestroy, LogoutCommit, TypeOK, ClosingTypes
  <2>2. CASE ~(LogoutBegin(w) \/ LogoutDestroy(w) \/ LogoutCommit(w))
    BY <2>2, ClosingSame DEF TypeOK, ClosingTypes
  <2> QED BY <2>1, <2>2
<1>2. CASE Respond(w)
  BY <1>1, <1>2, Responded DEF Idle
<1>3. CASE req' = req /\ req[w].at = "idle"
  BY <1>1, <1>3
<1>4. CASE \E at \in {"login", "sso", "logout", "validate", "callback", "attributes", "proxy"} :
             \E id, ok, s : Goto(w, at, id, ok, s)
  <2>1. PICK at \in {"login", "sso", "logout", "validate", "callback", "attributes", "proxy"} :
             \E id, ok, s : Goto(w, at, id, ok, s)
    BY <1>4
  <2>2. PICK id, ok, s : Goto(w, at, id, ok, s)
    BY <2>1
  <2>3. req'[w].at = at
    BY <2>2 DEF Goto, TypeOK, Types
  <2> QED BY <1>1, <2>1, <2>3
<1>5. CASE LoginStep(w)
  <2>1. CASE PostLoginLookup(w)
    <3>1. \E i : Goto(w, "login", i, LoginTicketValid(i), NoService)
      BY <2>1 DEF PostLoginLookup
    <3> QED BY <1>4, <3>1
  <2>2. CASE SSOLookup(w)
    <3>1. \E i : Goto(w, "sso", i, TRUE, NoService)
      BY <2>2 DEF SSOLookup
    <3> QED BY <1>4, <3>1
  <2>3. CASE LoginForm(w) \/ SSOExpired(w)
    <3>1. req' = req /\ req[w].at = "idle"
      BY <2>3 DEF LoginForm, SSOExpired
    <3> QED BY <1>3, <3>1
  <2>4. CASE PostLoginRefused(w) \/ PostLoginDenied(w) \/ PostLoginGranted(w)
               \/ SSOGrant(w) \/ SSOForm(w)
    <3>1. Respond(w)
      BY <2>4 DEF PostLoginRefused, PostLoginDenied, PostLoginGranted, SSOGrant, SSOForm
    <3> QED BY <1>2, <3>1
  <2> QED BY <1>5, <2>1, <2>2, <2>3, <2>4 DEF LoginStep
<1>6. CASE LogoutStep(w) \/ ProxyStep(w) \/ RequestDies(w)
  <2>1. CASE LogoutLookup(w)
    <3>1. \E i : Goto(w, "logout", i, TRUE, NoService)
      BY <2>1 DEF LogoutLookup
    <3> QED BY <1>4, <3>1
  <2>2. CASE ProxyLookup(w)
    <3>1. \E i : Goto(w, "proxy", i, TRUE, NoService)
      BY <2>2 DEF ProxyLookup
    <3> QED BY <1>4, <3>1
  <2>3. CASE LogoutCommit(w) \/ LogoutAborts(w) \/ ProxyGrant(w) \/ RequestDies(w)
    <3>1. Respond(w)
      BY <2>3 DEF LogoutCommit, LogoutAborts, ProxyGrant, RequestDies
    <3> QED BY <1>2, <3>1
  <2>4. CASE LogoutBegin(w) \/ LogoutNotify(w) \/ LogoutDestroy(w)
    BY <1>1, <2>4
  <2> QED BY <1>6, <2>1, <2>2, <2>3, <2>4 DEF LogoutStep, ProxyStep
<1>7. CASE ValidateStep(w)
  <2>1. CASE ValidateLookup(w)
    <3>1. \E i, s : Goto(w, "validate", i, ServiceTicketValid(i, s), s)
      BY <2>1 DEF ValidateLookup
    <3> QED BY <1>4, <3>1
  <2>2. CASE ServiceValidateConsume(w)
    <3>1. \E next \in {"callback", "attributes"} :
            Goto(w, next, req[w].id, TRUE, req[w].service)
      BY <2>2 DEF ServiceValidateConsume
    <3> QED BY <1>4, <3>1
  <2>3. CASE CallbackAccepted(w) \/ CallbackRejected(w)
    <3>1. Goto(w, "attributes", req[w].id, TRUE, req[w].service)
      BY <2>3 DEF CallbackAccepted, CallbackRejected
    <3> QED BY <1>4, <3>1
  <2>4. CASE ValidateRefused(w) \/ ValidateAnswer(w) \/ AttributesAnswer(w)
               \/ AttributesError(w)
    <3>1. Respond(w)
      BY <2>4 DEF ValidateRefused, ValidateAnswer, AttributesAnswer, AttributesError
    <3> QED BY <1>2, <3>1
  <2> QED BY <1>7, <2>1, <2>2, <2>3, <2>4 DEF ValidateStep
<1> QED BY <1>1, <1>5, <1>6, <1>7 DEF RequestStep

\* The snapshot is made with all that is there.
LEMMA SnapshotMade ==
  ASSUME TypeOK, NEW w \in Worker, LogoutBegin(w)
  PROVE  Snapshot(req[w], tx[w])' /\ UNCHANGED <<st, pgt, tgt, ended>>
<1>1. /\ UNCHANGED <<st, pgt, tgt, ended>> /\ Goto(w, "transaction", req[w].id, TRUE, NoService)
      /\ tx' = [tx EXCEPT ![w] = [left |-> GrantedServiceTickets(req[w].id), held |-> {},
                                  pgts |-> UserPGTs(req[w].id),
                                  st |-> DOMAIN st, pgt |-> DOMAIN pgt]]
  BY DEF LogoutBegin, tables
<1>2. req'[w].id = req[w].id
  BY <1>1, WentOn
<1>3. /\ tx'[w].st = DOMAIN st /\ tx'[w].pgt = DOMAIN pgt /\ tx'[w].held = {}
      /\ tx'[w].left = GrantedServiceTickets(req[w].id)
      /\ tx'[w].pgts = UserPGTs(req[w].id)
  BY <1>1 DEF TypeOK, ClosingTypes
<1>4. /\ GrantedServiceTickets(req[w].id)' = GrantedServiceTickets(req[w].id)
      /\ UserPGTs(req[w].id)' = UserPGTs(req[w].id)
  BY <1>1, <1>2 DEF GrantedServiceTickets, UserPGTs
<1> QED BY <1>1, <1>2, <1>3, <1>4 DEF Snapshot

\* A ticket that is not found was not there to delete.
LEMMA SnapshotDestroy ==
  ASSUME TypeOK, NEW w \in Worker, LogoutDestroy(w), Snapshot(req[w], tx[w])
  PROVE  Snapshot(req[w], tx[w])'
<1>1. UNCHANGED <<st, pgt, tgt, req>>
  BY DEF LogoutDestroy, tables
<1>2. PICK i \in tx[w].left : tx' = [tx EXCEPT ![w].left = @ \ {i},
                ![w].held = IF st[i].live THEN @ \cup {i} ELSE @]
  BY DEF LogoutDestroy
<1>3. /\ tx'[w].st = tx[w].st /\ tx'[w].pgt = tx[w].pgt /\ tx'[w].pgts = tx[w].pgts
      /\ tx'[w].left = tx[w].left \ {i}
      /\ tx'[w].held = IF st[i].live THEN tx[w].held \cup {i} ELSE tx[w].held
  BY <1>2 DEF TypeOK, ClosingTypes, Transaction
<1>4. st[i].live \/ i \notin GrantedServiceTickets(req[w].id)
  BY DEF GrantedServiceTickets
<1>5. /\ GrantedServiceTickets(req[w].id)' = GrantedServiceTickets(req[w].id)
      /\ UserPGTs(req[w].id)' = UserPGTs(req[w].id)
  BY <1>1 DEF GrantedServiceTickets, UserPGTs
<1> QED BY <1>1, <1>3, <1>4, <1>5 DEF Snapshot

\* The commit deletes what is left of the snapshot: a proxy-granting ticket the
\* join misses has lost its service ticket.
LEMMA LogoutCloses ==
  ASSUME TypeOK, LogoutInv, NEW w \in Worker, LogoutCommit(w), NEW g, g = req[w].id,
         tgt[g].row = "live", NEW e, e.st = tx[w].st, e.pgt = tx[w].pgt
  PROVE  Closed(g, e)'
<1>1. /\ g \in DOMAIN tgt /\ tx[w].left = {} /\ Snapshot(req[w], tx[w])
      /\ st' = Destroyed(st, tx[w].held) /\ pgt' = Destroyed(pgt, JoinedPGTs(w))
      /\ tgt' = [tgt EXCEPT ![g].row = "loggedOut"]
  BY DEF LogoutCommit, TypeOK, References, Found, LogoutInv
<1>2. g \in DOMAIN tgt' /\ tgt'[g].row = "loggedOut" /\ tgt'[g].user = tgt[g].user
  BY <1>1 DEF TypeOK, Types, TGTRow
<1>3. DOMAIN st' = DOMAIN st
      /\ \A i \in DOMAIN st : /\ st'[i].live => st[i].live /\ i \notin tx[w].held
                              /\ st'[i].kind = st[i].kind /\ st'[i].tgt = st[i].tgt
                              /\ st'[i].user = st[i].user
  BY <1>1, DestroyedSTRows DEF TypeOK, Types
<1>4. DOMAIN pgt' = DOMAIN pgt
      /\ \A p \in DOMAIN pgt : /\ pgt'[p].live => pgt[p].live /\ p \notin JoinedPGTs(w)
                               /\ pgt'[p].st = pgt[p].st
  BY <1>1 DEF Destroyed, TypeOK, Types, PGTRow
<1>5. \A i \in tx[w].st : i \notin GrantedServiceTickets(g)'
  <2> SUFFICES ASSUME NEW i \in tx[w].st, i \in GrantedServiceTickets(g)' PROVE FALSE
    OBVIOUS
  <2>1. i \in DOMAIN st /\ i \in GrantedServiceTickets(g) /\ i \notin tx[w].held
    BY <1>1, <1>3 DEF Snapshot, GrantedServiceTickets
  <2> QED BY <1>1, <2>1 DEF Snapshot
<1>6. \A p \in tx[w].pgt : p \notin UserPGTs(g)'
  <2> SUFFICES ASSUME NEW p \in tx[w].pgt, p \in UserPGTs(g)' PROVE FALSE
    OBVIOUS
  <2>1. p \in DOMAIN pgt /\ pgt[p].st \in DOMAIN st
    BY <1>1 DEF Snapshot, TypeOK, References
  <2>2. p \in UserPGTs(g) /\ pgt[p].st \notin tx[w].held /\ p \notin JoinedPGTs(w)
    BY <1>2, <1>3, <1>4, <2>1 DEF UserPGTs
  <2>3. p \in tx[w].pgts
    BY <1>1, <2>2 DEF Snapshot
  <2> QED BY <2>2, <2>3 DEF JoinedPGTs
<1>7. tx[w].st \subseteq DOMAIN st' /\ tx[w].pgt \subseteq DOMAIN pgt'
  BY <1>1, <1>3, <1>4 DEF Snapshot
<1> QED BY <1>2, <1>5, <1>6, <1>7 DEF Closed

LEMMA LogoutNext == TypeOK /\ LogoutInv /\ [Next]_vars => LogoutInv'
<1> SUFFICES ASSUME TypeOK, LogoutInv, [Next]_vars PROVE LogoutInv'
  OBVIOUS
<1>1. CASE Tick \/ UNCHANGED vars
  <2>1. UNCHANGED <<tgt, st, pgt, req, tx, ended>>
    BY <1>1 DEF Tick, tables, closing, vars
  <2>2. ASSUME NEW g PROVE GrantedServiceTickets(g)' = GrantedServiceTickets(g) /\ UserPGTs(g)' = UserPGTs(g)
    BY <2>1 DEF GrantedServiceTickets, UserPGTs
  <2>3. ASSUME NEW w \in Worker, req[w].at = "transaction" PROVE Snapshot(req[w], tx[w])'
    BY <2>1, <2>2, <2>3 DEF LogoutInv, Snapshot
  <2>4. ASSUME NEW g \in DOMAIN ended PROVE Closed(g, ended[g])'
    BY <2>1, <2>2, <2>4 DEF LogoutInv, Closed
  <2> QED BY <2>1, <2>3, <2>4 DEF LogoutInv
<1>2. ASSUME NEW w \in Worker, RequestStep(w) PROVE LogoutInv'
  <2>1. RowsLowered
    BY <1>2, NothingRaised
  <2>2. ASSUME NEW v \in Worker, req'[v].at = "transaction" PROVE Snapshot(req[v], tx[v])'
    <3>1. CASE v # w \/ LogoutNotify(w)
      <4>1. req'[v] = req[v] /\ tx'[v] = tx[v]
        <5>1. CASE v # w
          BY <1>2, <5>1, OnlyOwnRequest, OwnTransaction
        <5>2. CASE LogoutNotify(w)
          BY <5>2, Deleting DEF LogoutNotify, closing
        <5> QED BY <3>1, <5>1, <5>2
      <4>2. req[v].id \in DOMAIN tgt /\ Snapshot(req[v], tx[v])
        BY <2>2, <4>1 DEF LogoutInv, TypeOK, References, Found
      <4>3. PICK r, t : r = req[v] /\ t = tx[v]
        OBVIOUS
      <4>4. r.id \in DOMAIN tgt /\ Snapshot(r, t)
        BY <4>2, <4>3
      <4>5. Snapshot(r, t)'
        BY <2>1, <4>4, SnapshotStays
      <4>6. r = req'[v] /\ t = tx'[v]
        BY <4>1, <4>3
      <4> QED BY <4>5, <4>6 DEF Snapshot
    <3>2. CASE v = w /\ LogoutBegin(w)
      BY <3>2, SnapshotMade
    <3>3. CASE v = w /\ LogoutDestroy(w)
      <4>1. Snapshot(req[w], tx[w])
        BY <3>3 DEF LogoutInv, LogoutDestroy
      <4> QED BY <3>3, <4>1, SnapshotDestroy
    <3>4. v # w \/ LogoutNotify(w) \/ LogoutBegin(w) \/ LogoutDestroy(w)
      BY <1>2, <2>2, OwnTransaction
    <3> QED BY <3>1, <3>2, <3>3, <3>4
  <2>3. ASSUME NEW g \in DOMAIN ended' PROVE Closed(g, ended[g])'
    <3>1. CASE g \in DOMAIN ended /\ ended'[g] = ended[g]
      <4>1. PICK e : e = ended[g]
        OBVIOUS
      <4>2. Closed(g, e)
        BY <3>1, <4>1 DEF LogoutInv
      <4>3. Closed(g, e)'
        BY <2>1, <4>2, ClosedStays
      <4> QED BY <3>1, <4>1, <4>3 DEF Closed
    <3>2. CASE LogoutCommit(w)
      <4>1. CASE tgt[req[w].id].row = "live"
        <5>1. PICK e : e = [st |-> tx[w].st, pgt |-> tx[w].pgt, last |-> DOMAIN st]
          OBVIOUS
        <5>2. ended' = Insert(ended, req[w].id, e)
          BY <3>2, <4>1, <5>1 DEF LogoutCommit
        <5>4. CASE g = req[w].id
          <6>1. ended'[g] = e
            BY <5>2, <5>4 DEF Insert
          <6>2. e.st = tx[w].st /\ e.pgt = tx[w].pgt
            BY <5>1
          <6>3. Closed(g, e)'
            BY <3>2, <4>1, <5>4, <6>2, LogoutCloses
          <6> QED BY <6>1, <6>3 DEF Closed
        <5>3. CASE g # req[w].id
          BY <2>3, <3>1, <5>2, <5>3 DEF Insert
        <5> QED BY <5>3, <5>4
      <4>2. CASE tgt[req[w].id].row # "live"
        BY <3>1, <3>2, <4>2 DEF LogoutCommit
      <4> QED BY <4>1, <4>2
    <3>3. CASE ~LogoutCommit(w)
      <4>1. ended' = ended
        BY <1>2, <3>3, ClosingSame DEF LogoutBegin, LogoutDestroy
      <4> QED BY <3>1, <4>1
    <3> QED BY <3>2, <3>3
  <2> QED BY <2>2, <2>3 DEF LogoutInv
<1> QED BY <1>1, <1>2 DEF Next

LEMMA LogoutInvariant == Spec => []LogoutInv
<1>1. Init => LogoutInv
  BY DEF Init, LogoutInv, EmptyTable, Idle
<1> QED BY <1>1, LogoutNext, TypeCorrect, PTL DEF Spec

\* The service tickets granted after a logout, with the requests that may grant one
\* more, are fewer than the workers.
OrphanInv ==
  \A g \in DOMAIN ended :
    Cardinality(GrantedAfter(g)) + Cardinality(Granting(g)) < Cardinality(Worker)

LEMMA OrphansKept ==
  ASSUME TypeOK, OrphanInv, NEW g \in DOMAIN ended,
         \/ GrantedAfter(g)' \subseteq GrantedAfter(g) /\ Granting(g)' \subseteq Granting(g)
         \/ \E x : \E w \in Granting(g) :
              /\ GrantedAfter(g)' \subseteq GrantedAfter(g) \cup {x}
              /\ Granting(g)' \subseteq Granting(g) \ {w}
  PROVE  Cardinality(GrantedAfter(g)') + Cardinality(Granting(g)') < Cardinality(Worker)
<1>1. /\ Cardinality(GrantedAfter(g)) \in Nat /\ Cardinality(Granting(g)) \in Nat
      /\ Cardinality(GrantedAfter(g)') \in Nat /\ Cardinality(Granting(g)') \in Nat
      /\ Cardinality(GrantedAfter(g)') + Cardinality(Granting(g)')
           <= Cardinality(GrantedAfter(g)) + Cardinality(Granting(g))
  BY CountsFinite, Exchange
<1>2. Cardinality(GrantedAfter(g)) + Cardinality(Granting(g)) < Cardinality(Worker)
  BY DEF OrphanInv
<1> QED BY <1>1, <1>2, CountsFinite

\* A request grants on a session that may have ended since it was read.
LEMMA OrphansGranted ==
  ASSUME TypeOK, NEW w \in Worker, SSOGrant(w), NEW g \in DOMAIN ended
  PROVE  \/ GrantedAfter(g)' \subseteq GrantedAfter(g) /\ Granting(g)' \subseteq Granting(g)
         \/ \E x : \E v \in Granting(g) :
              /\ GrantedAfter(g)' \subseteq GrantedAfter(g) \cup {x}
              /\ Granting(g)' \subseteq Granting(g) \ {v}
<1>1. req[w].at = "sso" /\ Respond(w) /\ ended' = ended
  BY DEF SSOGrant, closing
<1>2. PICK i \in Fresh(STId, st), s \in Service :
        st' = Insert(st, i, NewServiceTicket(tgt[req[w].id].user, s, req[w].id))
  BY DEF SSOGrant
<1>3. NewServiceTicket(tgt[req[w].id].user, s, req[w].id).tgt = req[w].id
  BY DEF NewServiceTicket
<1>4. Granting(g)' \subseteq Granting(g) \ {w}
  BY <1>1, Responded
<1>5. CASE g = req[w].id
  <2>1. w \in Granting(g)
    BY <1>1, <1>5 DEF Granting
  <2>2. GrantedAfter(g)' \subseteq GrantedAfter(g) \cup {i}
    BY <1>1, <1>2 DEF GrantedAfter, Insert
  <2> QED BY <1>4, <2>1, <2>2
<1>6. CASE g # req[w].id
  <2>1. GrantedAfter(g)' \subseteq GrantedAfter(g)
    BY <1>1, <1>2, <1>3, <1>6 DEF GrantedAfter, Insert
  <2> QED BY <1>4, <2>1
<1> QED BY <1>5, <1>6

\* A session that has ended gets nothing from another login.
LEMMA OrphansLogin ==
  ASSUME TypeOK, LogoutInv, NEW w \in Worker, PostLoginGranted(w), NEW g \in DOMAIN ended
  PROVE  GrantedAfter(g)' \subseteq GrantedAfter(g) /\ Granting(g)' \subseteq Granting(g)
<1>1. Respond(w) /\ ended' = ended /\ g \in DOMAIN tgt
  BY DEF PostLoginGranted, closing, LogoutInv, Closed
<1>2. Granting(g)' \subseteq Granting(g)
  BY <1>1, Responded
<1>3. CASE st' = st
  BY <1>1, <1>2, <1>3 DEF GrantedAfter
<1>4. CASE st' # st
  <2>1. PICK u \in User, h \in Fresh(TGTId, tgt), s \in Service, i \in Fresh(STId, st) :
          st' = Insert(st, i, NewServiceTicket(u, s, h))
    BY <1>4 DEF PostLoginGranted
  <2>2. NewServiceTicket(u, s, h).tgt = h /\ h # g
    BY <1>1, FreshKey DEF NewServiceTicket
  <2> QED BY <1>1, <1>2, <2>1, <2>2 DEF GrantedAfter, Insert
<1> QED BY <1>3, <1>4

\* GET /login reads only sessions that are live.
LEMMA OrphansLookup ==
  ASSUME TypeOK, LogoutInv, NEW w \in Worker, SSOLookup(w), NEW g \in DOMAIN ended
  PROVE  GrantedAfter(g)' \subseteq GrantedAfter(g) /\ Granting(g)' \subseteq Granting(g)
<1>1. PICK n \in DOMAIN tgt : SessionValid(n) /\ Goto(w, "sso", n, TRUE, NoService)
  BY DEF SSOLookup
<1>2. UNCHANGED <<tgt, st, ended>>
  BY DEF SSOLookup, tables, closing
<1>3. req'[w].id = n /\ \A v \in Worker : v # w => req'[v] = req[v]
  BY <1>1 DEF Goto, TypeOK, Types
<1>4. n # g
  BY <1>1 DEF SessionValid, LogoutInv, Closed
<1> QED BY <1>2, <1>3, <1>4 DEF GrantedAfter, Granting

\* When a logout commits, nothing has been granted after it, and it is not among
\* the requests that may.
LEMMA OrphansLogout ==
  ASSUME TypeOK, OrphanInv, NEW w \in Worker, LogoutCommit(w), NEW g \in DOMAIN ended'
  PROVE  Cardinality(GrantedAfter(g)') + Cardinality(Granting(g)') < Cardinality(Worker)
<1>1. Respond(w) /\ DOMAIN st' = DOMAIN st
  BY DEF LogoutCommit, Destroyed
<1>2. Granting(g)' \subseteq Granting(g) \ {w}
  BY <1>1, Responded
<1>3. CASE g \in DOMAIN ended /\ ended'[g] = ended[g]
  <2>1. NoTicketGranted
    BY TicketsLowered DEF RequestStep, LogoutStep, LogoutCommit, SSOGrant, PostLoginGranted
  <2>2. GrantedAfter(g)' \subseteq GrantedAfter(g)
    BY <1>3, <2>1 DEF GrantedAfter, NoTicketGranted
  <2> QED BY <1>2, <1>3, <2>2, OrphansKept
<1>4. CASE ended'[g].last = DOMAIN st
  <2>1. GrantedAfter(g)' = {}
    BY <1>1, <1>4 DEF GrantedAfter
  <2>2. Cardinality(GrantedAfter(g)') = 0
    BY <2>1, FS_EmptySet
  <2>3. Granting(g)' \subseteq Worker \ {w}
    BY <1>2 DEF Granting
  <2>4. IsFiniteSet(Worker \ {w}) /\ Cardinality(Worker \ {w}) = Cardinality(Worker) - 1
    BY CASAssumption, FS_RemoveElement
  <2>5. IsFiniteSet(Granting(g)') /\ Cardinality(Granting(g)') <= Cardinality(Worker \ {w})
    BY <2>3, <2>4, FS_Subset
  <2>6. Cardinality(Granting(g)') \in Nat
    BY <2>5, FS_CardinalityType
  <2> QED BY <2>2, <2>4, <2>5, <2>6, CountsFinite
<1>5. ended' = ended \/ ended' = Insert(ended, req[w].id, [st |-> tx[w].st, pgt |-> tx[w].pgt,
                                                          last |-> DOMAIN st])
  BY DEF LogoutCommit
<1> QED BY <1>3, <1>4, <1>5 DEF Insert

LEMMA OrphansNext == TypeOK /\ LogoutInv /\ OrphanInv /\ [Next]_vars => OrphanInv'
<1> SUFFICES ASSUME TypeOK, LogoutInv, OrphanInv, [Next]_vars, NEW g \in DOMAIN ended'
             PROVE  Cardinality(GrantedAfter(g)') + Cardinality(Granting(g)') < Cardinality(Worker)
  BY DEF OrphanInv
<1>1. CASE Tick \/ UNCHANGED vars
  <2>1. UNCHANGED <<ended, st, req>>
    BY <1>1 DEF Tick, tables, closing, vars
  <2>2. GrantedAfter(g)' = GrantedAfter(g) /\ Granting(g)' = Granting(g)
    BY <2>1 DEF GrantedAfter, Granting
  <2> QED BY <2>1, <2>2, OrphansKept
<1>2. ASSUME NEW w \in Worker, RequestStep(w)
      PROVE  Cardinality(GrantedAfter(g)') + Cardinality(Granting(g)') < Cardinality(Worker)
  <2>1. CASE LogoutCommit(w)
    BY <2>1, OrphansLogout
  <2>2. CASE ~LogoutCommit(w)
    <3>1. ended' = ended
      BY <1>2, <2>2, ClosingSame DEF LogoutBegin, LogoutDestroy
    <3>2. CASE SSOLookup(w)
      BY <3>1, <3>2, OrphansLookup, OrphansKept
    <3>3. CASE SSOGrant(w)
      BY <3>1, <3>3, OrphansGranted, OrphansKept
    <3>4. CASE PostLoginGranted(w)
      BY <3>1, <3>4, OrphansLogin, OrphansKept
    <3>5. CASE ~SSOLookup(w) /\ ~SSOGrant(w) /\ ~PostLoginGranted(w)
      <4>1. GrantedAfter(g)' \subseteq GrantedAfter(g)
        BY <1>2, <3>1, <3>5, TicketsLowered DEF NoTicketGranted, GrantedAfter
      <4>2. Granting(g)' \subseteq Granting(g)
        BY <1>2, <3>5, GrantingShrinks
      <4> QED BY <3>1, <4>1, <4>2, OrphansKept
    <3> QED BY <3>2, <3>3, <3>4, <3>5
  <2> QED BY <2>1, <2>2
<1> QED BY <1>1, <1>2 DEF Next

LEMMA OrphansInvariant == Spec => []OrphanInv
<1>1. Init => OrphanInv
  BY DEF Init, OrphanInv, EmptyTable
<1> QED BY <1>1, OrphansNext, LogoutInvariant, TypeCorrect, PTL DEF Spec

\* When GET /logout has deleted a session, no service ticket of it works that was
\* there when its transaction read them, and fewer are granted after its commit
\* than there are worker processes: one for each other worker that had read the
\* session before.  What is granted between the two has no bound.
THEOREM OrphansPerWorker == Spec => []OrphansBounded
<1>1. TypeOK /\ LogoutInv /\ OrphanInv => OrphansBounded
  <2> SUFFICES ASSUME TypeOK, LogoutInv, OrphanInv, NEW g \in DOMAIN ended
               PROVE  /\ \A i \in GrantedServiceTickets(g) : i \notin ended[g].st
                      /\ Cardinality(GrantedAfter(g)) < Cardinality(Worker)
    BY DEF OrphansBounded
  <2>1. Cardinality(GrantedAfter(g)) + Cardinality(Granting(g)) < Cardinality(Worker)
    BY DEF OrphanInv
  <2>2. Cardinality(GrantedAfter(g)) \in Nat /\ Cardinality(Granting(g)) \in Nat
    BY CountsFinite, FS_CardinalityType
  <2>3. Cardinality(GrantedAfter(g)) < Cardinality(Worker)
    BY <2>1, <2>2, CountsFinite
  <2>4. GrantedServiceTickets(g) \cap ended[g].st = {}
    BY DEF LogoutInv, Closed
  <2> QED BY <2>3, <2>4
<1> QED BY <1>1, OrphansInvariant, LogoutInvariant, TypeCorrect, PTL

\* When GET /logout has deleted a session, no proxy-granting ticket of its user
\* works that was there when its transaction began: the join deletes those of
\* other sessions, and those it misses have lost their service ticket.
THEOREM LogoutsEndProxying == Spec => []LogoutEndsProxying
<1>1. TypeOK /\ LogoutInv => LogoutEndsProxying
  BY DEF LogoutInv, Closed, UserPGTs, LogoutEndsProxying
<1> QED BY <1>1, LogoutInvariant, TypeCorrect, PTL

-------------------------------------------------------------------------------
(* One worker: requests do not overlap, and what a request has read still  *)
(* holds.                                                                  *)

Undisturbed(r) ==
  /\ r.at \in {"sso", "logout", "transaction"} => tgt[r.id].row = "live"
  /\ r.at \in {"validate", "callback", "attributes"} => st[r.id].live
  /\ r.at = "validate" /\ r.ok => ~st[r.id].consumed

OneInv ==
  /\ \A w \in Worker : Undisturbed(req[w])
  /\ \A i \in DOMAIN st : st[i].kind = "ST" =>
       /\ ~st[i].live => tgt[st[i].tgt].row # "live"
       /\ st[i].live => tgt[st[i].tgt].row # "loggedOut"
  /\ \A i \in STId : answers[i] > 0 => i \in DOMAIN st /\ st[i].kind = "ST"
  /\ ServicesNotified

LEMMA OneWorker ==
  ASSUME Cardinality(Worker) = 1
  PROVE  \A v, w \in Worker : v = w
<1>1. PICK x : Worker = {x}
  BY FS_Singleton, CASAssumption
<1> QED BY <1>1

\* The columns OneInv reads, after a step that writes no session and destroys no
\* ticket.
TicketsStay ==
  \A i \in DOMAIN st' :
    \/ /\ i \in DOMAIN st /\ st'[i].kind = st[i].kind
       /\ st'[i].tgt = st[i].tgt /\ st'[i].live = st[i].live
    \/ /\ i \notin DOMAIN st /\ st'[i].live
       /\ st'[i].kind = "ST" => tgt'[st'[i].tgt].row # "loggedOut"

\* A request that gives no answer and ends or stays, sessions being as they were.
LEMMA OneKept ==
  ASSUME TypeOK, TypeOK', OneInv, TicketsStay, answers' = answers,
         notified \subseteq notified', DOMAIN st \subseteq DOMAIN st',
         \A i \in DOMAIN st : tgt'[st[i].tgt].row = tgt[st[i].tgt].row,
         \A w \in Worker : Undisturbed(req[w])'
  PROVE  OneInv'
<1>1. \A i \in DOMAIN st' : st'[i].kind = "ST" =>
        /\ ~st'[i].live => tgt'[st'[i].tgt].row # "live"
        /\ st'[i].live => tgt'[st'[i].tgt].row # "loggedOut"
  BY DEF OneInv, TicketsStay
<1>2. \A i \in STId : answers'[i] > 0 => i \in DOMAIN st' /\ st'[i].kind = "ST"
  BY DEF OneInv, TicketsStay
<1>3. ASSUME NEW i \in DOMAIN st', SingleSignOut, answers'[i] > 0,
             tgt'[st'[i].tgt].row = "loggedOut"
      PROVE  i \in notified'
  <2>1. i \in DOMAIN st
    BY <1>3 DEF OneInv, TypeOK, Types
  <2>2. st'[i].tgt = st[i].tgt /\ tgt[st[i].tgt].row = "loggedOut"
    BY <1>3, <2>1 DEF TicketsStay
  <2> QED BY <1>3, <2>1, <2>2 DEF OneInv, ServicesNotified
<1>4. ServicesNotified'
  BY <1>3 DEF ServicesNotified
<1> QED BY <1>1, <1>2, <1>4 DEF OneInv

LEMMA IdleUndisturbed == Undisturbed(Idle)'
BY DEF Undisturbed, Idle

\* A row inserted into casserver_st is live.
LEMMA InsertStays ==
  ASSUME NEW i \in Fresh(STId, st), NEW row, row.live, st' = Insert(st, i, row),
         row.kind = "ST" => tgt'[row.tgt].row # "loggedOut"
  PROVE  TicketsStay /\ DOMAIN st \subseteq DOMAIN st'
BY FreshKey DEF TicketsStay, Insert

LEMMA ConsumedStays ==
  ASSUME TypeOK, NEW n \in DOMAIN st, st' = ConsumedST(st, n)
  PROVE  TicketsStay /\ DOMAIN st \subseteq DOMAIN st'
<1>1. /\ DOMAIN st' = DOMAIN st
      /\ \A j \in DOMAIN st : /\ st'[j].live = st[j].live /\ st'[j].kind = st[j].kind
                              /\ st'[j].tgt = st[j].tgt
  BY ConsumedSTRows DEF TypeOK, Types
<1> QED BY <1>1 DEF TicketsStay

LEMMA SameStays ==
  ASSUME st' = st
  PROVE  TicketsStay /\ DOMAIN st \subseteq DOMAIN st'
BY DEF TicketsStay

\* The steps that grant.
LEMMA OneGrants ==
  ASSUME Cardinality(Worker) = 1, TypeOK, TypeOK', OneInv, NEW w \in Worker,
         SSOGrant(w) \/ ProxyGrant(w) \/ PostLoginGranted(w)
  PROVE  OneInv'
<1>1. Respond(w) /\ answers' = answers /\ notified' = notified
  BY DEF SSOGrant, ProxyGrant, PostLoginGranted
<1>2. \A v \in Worker : Undisturbed(req[v])'
  BY <1>1, Responded, OneWorker, IdleUndisturbed DEF Undisturbed
<1>3. TicketsStay /\ DOMAIN st \subseteq DOMAIN st'
  <2>1. CASE SSOGrant(w)
    <3>1. PICK s \in Service, i \in Fresh(STId, st) :
            st' = Insert(st, i, NewServiceTicket(tgt[req[w].id].user, s, req[w].id))
      BY <2>1 DEF SSOGrant
    <3>2. /\ NewServiceTicket(tgt[req[w].id].user, s, req[w].id).live
          /\ NewServiceTicket(tgt[req[w].id].user, s, req[w].id).tgt = req[w].id
      BY DEF NewServiceTicket
    <3>3. tgt'[req[w].id].row = "live"
      BY <2>1 DEF SSOGrant, OneInv, Undisturbed
    <3> QED BY <3>1, <3>2, <3>3, InsertStays
  <2>2. CASE ProxyGrant(w)
    <3>1. PICK s \in Service, i \in Fresh(STId, st) :
            st' = Insert(st, i, NewProxyTicket(s, req[w].id))
      BY <2>2 DEF ProxyGrant
    <3>2. NewProxyTicket(s, req[w].id).live /\ NewProxyTicket(s, req[w].id).kind = "PT"
      BY DEF NewProxyTicket
    <3> QED BY <3>1, <3>2, InsertStays
  <2>3. CASE PostLoginGranted(w) /\ st' # st
    <3>0. PICK g \in Fresh(TGTId, tgt) : \E u \in User :
            /\ tgt' = Insert(tgt, g, [row |-> "live", user |-> u, born |-> now, lt |-> req[w].id])
            /\ \E s \in Service, i \in Fresh(STId, st) :
                 st' = Insert(st, i, NewServiceTicket(u, s, g))
      BY <2>3 DEF PostLoginGranted
    <3>1. PICK u \in User, s \in Service, i \in Fresh(STId, st) :
            /\ tgt' = Insert(tgt, g, [row |-> "live", user |-> u, born |-> now, lt |-> req[w].id])
            /\ st' = Insert(st, i, NewServiceTicket(u, s, g))
      BY <3>0
    <3>2. NewServiceTicket(u, s, g).live /\ NewServiceTicket(u, s, g).tgt = g
      BY DEF NewServiceTicket
    <3>3. tgt'[g].row = "live"
      BY <3>1 DEF Insert
    <3> QED BY <3>1, <3>2, <3>3, InsertStays
  <2> QED BY <2>1, <2>2, <2>3, SameStays
<1>4. \A i \in DOMAIN st : tgt'[st[i].tgt].row = tgt[st[i].tgt].row
  <2>1. CASE tgt' = tgt
    BY <2>1
  <2>2. CASE PostLoginGranted(w)
    <3>1. PICK g \in Fresh(TGTId, tgt) : \E row : tgt' = Insert(tgt, g, row)
      BY <2>2 DEF PostLoginGranted
    <3>2. \A h \in DOMAIN tgt : tgt'[h] = tgt[h]
      BY <3>1, FreshKey DEF Insert
    <3> QED BY <3>2 DEF TypeOK, References
  <2> QED BY <2>1, <2>2 DEF SSOGrant, ProxyGrant
<1> QED BY <1>1, <1>2, <1>3, <1>4, OneKept

\* The steps that write neither sessions nor service tickets, and give no answer.
LEMMA OneQuiet ==
  ASSUME TypeOK, TypeOK', OneInv, UNCHANGED <<tgt, st, answers>>,
         notified \subseteq notified', \A w \in Worker : Undisturbed(req[w])'
  PROVE  OneInv'
BY OneKept, SameStays

LEMMA OneResponds ==
  ASSUME Cardinality(Worker) = 1, TypeOK, TypeOK', OneInv, NEW w \in Worker,
         PostLoginRefused(w) \/ PostLoginDenied(w) \/ SSOForm(w) \/ LogoutAborts(w)
           \/ AttributesError(w) \/ RequestDies(w)
  PROVE  OneInv'
<1>1. Respond(w) /\ UNCHANGED <<tgt, st, answers>> /\ notified \subseteq notified'
  BY DEF PostLoginRefused, PostLoginDenied, SSOForm, LogoutAborts, AttributesError,
     RequestDies, tables
<1>2. \A v \in Worker : Undisturbed(req[v])'
  BY <1>1, Responded, OneWorker, IdleUndisturbed DEF Undisturbed
<1> QED BY <1>1, <1>2, OneQuiet

LEMMA OneLookups ==
  ASSUME Cardinality(Worker) = 1, TypeOK, TypeOK', OneInv, NEW w \in Worker,
         PostLoginLookup(w) \/ SSOLookup(w) \/ LogoutLookup(w) \/ LogoutBegin(w)
           \/ ValidateLookup(w) \/ CallbackAccepted(w) \/ CallbackRejected(w) \/ ProxyLookup(w)
  PROVE  OneInv'
<1>1. UNCHANGED <<tgt, st, answers, notified>>
  BY DEF PostLoginLookup, SSOLookup, LogoutLookup, LogoutBegin, ValidateLookup,
     CallbackAccepted, CallbackRejected, ProxyLookup, tables
<1>2. Undisturbed(req[w])'
  <2>1. CASE PostLoginLookup(w)
    <3>1. PICK i \in DOMAIN lt : Goto(w, "login", i, LoginTicketValid(i), NoService)
      BY <2>1 DEF PostLoginLookup
    <3>2. req'[w].at = "login"
      BY <3>1, Went
    <3> QED BY <3>2 DEF Undisturbed
  <2>2. CASE SSOLookup(w)
    <3>1. PICK g \in DOMAIN tgt : SessionValid(g) /\ Goto(w, "sso", g, TRUE, NoService)
      BY <2>2 DEF SSOLookup
    <3>2. Goto(w, "sso", g, TRUE, NoService)
      BY <3>1
    <3>3. req'[w].at = "sso" /\ req'[w].id = g
      BY <3>2, WentOn
    <3> QED BY <1>1, <3>1, <3>3 DEF Undisturbed, SessionValid
  <2>3. CASE LogoutLookup(w)
    <3>1. PICK g \in DOMAIN tgt : tgt[g].row = "live" /\ Goto(w, "logout", g, TRUE, NoService)
      BY <2>3 DEF LogoutLookup
    <3>2. req'[w].at = "logout" /\ req'[w].id = g
      BY <3>1, WentOn
    <3> QED BY <1>1, <3>1, <3>2 DEF Undisturbed
  <2>4. CASE ValidateLookup(w)
    <3>1. PICK i \in DOMAIN st, s \in Service :
            st[i].live /\ Goto(w, "validate", i, ServiceTicketValid(i, s), s)
      BY <2>4 DEF ValidateLookup
    <3>2. req'[w].at = "validate" /\ req'[w].id = i /\ req'[w].ok = ServiceTicketValid(i, s)
      BY <3>1, Went
    <3> QED BY <1>1, <3>1, <3>2 DEF Undisturbed, ServiceTicketValid
  <2>5. CASE CallbackAccepted(w) \/ CallbackRejected(w)
    <3>1. req[w].at = "callback" /\ Goto(w, "attributes", req[w].id, TRUE, req[w].service)
      BY <2>5 DEF CallbackAccepted, CallbackRejected
    <3>2. req'[w].at = "attributes" /\ req'[w].id = req[w].id
      BY <3>1, WentOn
    <3>3. st[req[w].id].live
      BY <3>1 DEF OneInv, Undisturbed
    <3> QED BY <1>1, <3>2, <3>3 DEF Undisturbed
  <2>6. CASE ProxyLookup(w)
    <3>1. PICK p \in DOMAIN pgt : Goto(w, "proxy", p, TRUE, NoService)
      BY <2>6 DEF ProxyLookup
    <3>2. req'[w].at = "proxy"
      BY <3>1, WentOn
    <3> QED BY <3>2 DEF Undisturbed
  <2>7. CASE LogoutBegin(w)
    <3>1. req[w].at = "logout" /\ Goto(w, "transaction", req[w].id, TRUE, NoService)
      BY <2>7 DEF LogoutBegin
    <3>2. req'[w].at = "transaction" /\ req'[w].id = req[w].id
      BY <3>1, WentOn
    <3>3. tgt[req[w].id].row = "live"
      BY <3>1 DEF OneInv, Undisturbed
    <3> QED BY <1>1, <3>2, <3>3 DEF Undisturbed
  <2> QED BY <2>1, <2>2, <2>3, <2>4, <2>5, <2>6, <2>7
<1>3. \A v \in Worker : Undisturbed(req[v])'
  BY <1>2, OneWorker
<1> QED BY <1>1, <1>3, OneQuiet

LEMMA OneConsumes ==
  ASSUME Cardinality(Worker) = 1, TypeOK, TypeOK', OneInv, NEW w \in Worker,
         ValidateRefused(w) \/ ServiceValidateConsume(w)
  PROVE  OneInv'
<1>1. PICK n \in DOMAIN st : n = req[w].id
  BY DEF TypeOK, References, Found, ValidateRefused, ServiceValidateConsume
<1>2. /\ req[w].at = "validate" /\ st' = ConsumedST(st, n)
      /\ UNCHANGED <<tgt, answers, notified>>
  BY <1>1 DEF ValidateRefused, ServiceValidateConsume
<1>3. TicketsStay /\ DOMAIN st \subseteq DOMAIN st'
  BY <1>2, ConsumedStays
<1>4. Undisturbed(req[w])'
  <2>1. CASE ValidateRefused(w)
    BY <2>1, Responded, IdleUndisturbed DEF ValidateRefused, Undisturbed
  <2>2. CASE ServiceValidateConsume(w)
    <3>1. PICK next \in {"callback", "attributes"} : Goto(w, next, n, TRUE, req[w].service)
      BY <1>1, <2>2 DEF ServiceValidateConsume
    <3>2. req'[w].at = next /\ req'[w].id = n
      BY <3>1, WentOn
    <3>3. req'[w].at \in {"callback", "attributes"} /\ req'[w].id = n
      BY <3>1, <3>2
    <3>4. st[n].live
      BY <1>1, <1>2 DEF OneInv, Undisturbed
    <3>5. st'[n].live
      BY <1>3, <3>4 DEF TicketsStay
    <3> QED BY <3>3, <3>5 DEF Undisturbed
  <2> QED BY <2>1, <2>2
<1>5. \A v \in Worker : Undisturbed(req[v])'
  BY <1>4, OneWorker
<1> QED BY <1>2, <1>3, <1>5, OneKept

\* A service is told yes only while the session has not been logged out.
LEMMA OneAnswers ==
  ASSUME Cardinality(Worker) = 1, TypeOK, TypeOK', OneInv, NEW w \in Worker,
         ValidateAnswer(w) \/ AttributesAnswer(w)
  PROVE  OneInv'
<1>1. PICK n \in DOMAIN st : n = req[w].id /\ st[n].kind = "ST"
  BY DEF TypeOK, References, Found, ValidateAnswer, AttributesAnswer
<1>2. /\ Respond(w) /\ UNCHANGED <<tgt, notified>>
      /\ answers' = [answers EXCEPT ![n] = @ + 1]
      /\ st' = st \/ st' = ConsumedST(st, n)
  BY <1>1 DEF ValidateAnswer, AttributesAnswer, Answered, tables
<1>3. DOMAIN st' = DOMAIN st
      /\ \A j \in DOMAIN st : /\ st'[j].live = st[j].live /\ st'[j].kind = st[j].kind
                              /\ st'[j].tgt = st[j].tgt
  BY <1>2, ConsumedSTRows DEF TypeOK, Types
<1>4. st[n].live
  BY <1>1 DEF OneInv, Undisturbed, ValidateAnswer, AttributesAnswer
<1>5. tgt[st[n].tgt].row # "loggedOut"
  BY <1>1, <1>4 DEF OneInv
<1>6. answers \in [STId -> Nat] /\ n \in STId
  BY DEF TypeOK, Types
<1>7. \A v \in Worker : Undisturbed(req[v])'
  BY <1>2, Responded, OneWorker, IdleUndisturbed DEF Undisturbed
<1>8. \A i \in DOMAIN st' : st'[i].kind = "ST" =>
        /\ ~st'[i].live => tgt'[st'[i].tgt].row # "live"
        /\ st'[i].live => tgt'[st'[i].tgt].row # "loggedOut"
  BY <1>2, <1>3 DEF OneInv
<1>9. \A i \in STId : i # n => answers'[i] = answers[i]
  BY <1>2, <1>6
<1>10. \A i \in STId : answers'[i] > 0 => i \in DOMAIN st' /\ st'[i].kind = "ST"
  BY <1>1, <1>3, <1>9 DEF OneInv
<1>11. ServicesNotified'
  <2>1. \A i \in DOMAIN st : i \in STId
    BY DEF TypeOK, Types
  <2> QED BY <1>2, <1>3, <1>5, <1>9, <2>1 DEF OneInv, ServicesNotified
<1> QED BY <1>7, <1>8, <1>10, <1>11 DEF OneInv

\* An expired session is not logged out, and nobody holds it.
LEMMA OneExpires ==
  ASSUME Cardinality(Worker) = 1, TypeOK, OneInv, NEW w \in Worker, SSOExpired(w)
  PROVE  OneInv'
<1>1. PICK n \in DOMAIN tgt : tgt' = [tgt EXCEPT ![n].row = "expired"]
  BY DEF SSOExpired
<1>2. req[w].at = "idle" /\ UNCHANGED <<st, req, answers, notified>>
  BY DEF SSOExpired
<1>3. \A g \in DOMAIN tgt : tgt'[g].row = tgt[g].row \/ tgt'[g].row = "expired"
  BY <1>1 DEF TypeOK, Types, TGTRow
<1>4. \A v \in Worker : Undisturbed(req[v])'
  BY <1>2, OneWorker DEF Undisturbed
<1>5. \A i \in DOMAIN st : st[i].tgt \in DOMAIN tgt
  BY DEF TypeOK, References
<1>6. \A i \in DOMAIN st' : st'[i].kind = "ST" =>
        /\ ~st'[i].live => tgt'[st'[i].tgt].row # "live"
        /\ st'[i].live => tgt'[st'[i].tgt].row # "loggedOut"
  BY <1>2, <1>3, <1>5 DEF OneInv
<1>7. \A i \in STId : answers'[i] > 0 => i \in DOMAIN st' /\ st'[i].kind = "ST"
  BY <1>2 DEF OneInv
<1>8. ServicesNotified'
  BY <1>2, <1>3, <1>5 DEF OneInv, ServicesNotified
<1> QED BY <1>4, <1>6, <1>7, <1>8 DEF OneInv

\* With one worker a transaction has the session's service tickets before it, as
\* they still are; what it has deleted was notified before.
Emptying(w) ==
  req[w].at = "transaction" =>
    /\ tx[w].left \cup tx[w].held = GrantedServiceTickets(req[w].id)
    /\ SingleSignOut => tx[w].held \subseteq notified

EmptyingInv == \A w \in Worker : Emptying(w)

LEMMA EmptyingNext ==
  ASSUME Cardinality(Worker) = 1
  PROVE  TypeOK /\ EmptyingInv /\ [Next]_vars => EmptyingInv'
<1> SUFFICES ASSUME TypeOK, EmptyingInv, [Next]_vars PROVE EmptyingInv'
  OBVIOUS
<1>1. CASE Tick \/ UNCHANGED vars
  BY <1>1 DEF Tick, tables, closing, vars, EmptyingInv, Emptying, GrantedServiceTickets
<1>2. ASSUME NEW w \in Worker, RequestStep(w) PROVE Emptying(w)'
  <2>1. CASE LogoutBegin(w)
    <3>1. /\ Goto(w, "transaction", req[w].id, TRUE, NoService) /\ st' = st
          /\ tx' = [tx EXCEPT ![w] = [left |-> GrantedServiceTickets(req[w].id), held |-> {},
                                      pgts |-> UserPGTs(req[w].id),
                                      st |-> DOMAIN st, pgt |-> DOMAIN pgt]]
      BY <2>1 DEF LogoutBegin, tables
    <3>2. req'[w].id = req[w].id
      BY <3>1, WentOn
    <3>3. tx'[w].left = GrantedServiceTickets(req[w].id) /\ tx'[w].held = {}
      BY <3>1 DEF TypeOK, ClosingTypes
    <3>4. GrantedServiceTickets(req[w].id)' = GrantedServiceTickets(req[w].id)
      BY <3>1, <3>2 DEF GrantedServiceTickets
    <3> QED BY <3>3, <3>4 DEF Emptying
  <2>2. CASE LogoutNotify(w)
    <3>1. tx' = tx
      BY <2>2 DEF LogoutNotify, closing
    <3> QED BY <2>2, <3>1, Deleting DEF EmptyingInv, Emptying, GrantedServiceTickets
  <2>3. CASE LogoutDestroy(w)
    <3>1. PICK i \in tx[w].left :
            /\ SingleSignOut => i \in notified
            /\ tx' = [tx EXCEPT ![w].left = @ \ {i},
                                ![w].held = IF st[i].live THEN @ \cup {i} ELSE @]
      BY <2>3 DEF LogoutDestroy
    <3>2. /\ UNCHANGED <<st, req, notified>> /\ req[w].at = "transaction"
          /\ tx[w].left \cup tx[w].held = GrantedServiceTickets(req[w].id)
          /\ SingleSignOut => tx[w].held \subseteq notified
      BY <2>3 DEF LogoutDestroy, tables, EmptyingInv, Emptying
    <3>3. st[i].live
      BY <3>2 DEF GrantedServiceTickets
    <3>4. tx'[w].left = tx[w].left \ {i} /\ tx'[w].held = tx[w].held \cup {i}
      BY <3>1, <3>3 DEF TypeOK, ClosingTypes, Transaction
    <3>5. GrantedServiceTickets(req[w].id)' = GrantedServiceTickets(req[w].id)
      BY <3>2 DEF GrantedServiceTickets
    <3> QED BY <3>1, <3>2, <3>4, <3>5 DEF Emptying
  <2>4. CASE req'[w].at # "transaction"
    BY <2>4 DEF Emptying
  <2> QED BY <1>2, <2>1, <2>2, <2>3, <2>4, OwnTransaction
<1>3. ASSUME NEW w \in Worker, RequestStep(w) PROVE EmptyingInv'
  BY <1>2, <1>3, OneWorker DEF EmptyingInv
<1> QED BY <1>1, <1>3 DEF Next

LEMMA EmptyingInvariant ==
  ASSUME Cardinality(Worker) = 1
  PROVE  Spec => []EmptyingInv
<1>1. Init => EmptyingInv
  BY DEF Init, EmptyingInv, Emptying, Idle
<1> QED BY <1>1, EmptyingNext, TypeCorrect, PTL DEF Spec

\* The steps of a transaction before its commit.
LEMMA OneDeletes ==
  ASSUME TypeOK, TypeOK', OneInv, NEW w \in Worker, LogoutNotify(w) \/ LogoutDestroy(w)
  PROVE  OneInv'
<1>1. UNCHANGED <<tgt, st, req, answers>> /\ notified \subseteq notified'
  BY Deleting
<1>2. \A v \in Worker : Undisturbed(req[v])'
  BY <1>1 DEF OneInv, Undisturbed
<1> QED BY <1>1, <1>2, OneQuiet

\* The session that is logged out is still live, so all its service tickets are,
\* and every service that was told yes has been notified in this transaction.
LEMMA OneLogout ==
  ASSUME Cardinality(Worker) = 1, TypeOK, OneInv, EmptyingInv, NEW w \in Worker, LogoutCommit(w)
  PROVE  OneInv'
<1>1. PICK n \in DOMAIN tgt : n = req[w].id
  BY DEF LogoutCommit, TypeOK, References, Found
<1>a. tgt[n].row = "live" /\ req[w].at = "transaction"
  BY <1>1 DEF LogoutCommit, OneInv, Undisturbed
<1>b. tx[w].held = GrantedServiceTickets(n)
  BY <1>1 DEF LogoutCommit, EmptyingInv, Emptying
<1>2. /\ Respond(w) /\ answers' = answers /\ notified' = notified
      /\ SingleSignOut => GrantedServiceTickets(n) \subseteq notified
      /\ st' = Destroyed(st, GrantedServiceTickets(n))
      /\ tgt' = [tgt EXCEPT ![n].row = "loggedOut"]
  BY <1>1, <1>a, <1>b DEF LogoutCommit, EmptyingInv, Emptying
<1>4. tgt'[n].row = "loggedOut" /\ \A g \in DOMAIN tgt : g # n => tgt'[g].row = tgt[g].row
  BY <1>2 DEF TypeOK, Types, TGTRow
<1>5. DOMAIN st' = DOMAIN st
      /\ \A j \in DOMAIN st : /\ st'[j].kind = st[j].kind /\ st'[j].tgt = st[j].tgt
                              /\ st'[j].live => st[j].live /\ j \notin GrantedServiceTickets(n)
                              /\ st'[j].live \/ ~st[j].live \/ j \in GrantedServiceTickets(n)
  <2>1. DOMAIN st' = DOMAIN st
        /\ \A j \in DOMAIN st : /\ st'[j].kind = st[j].kind /\ st'[j].tgt = st[j].tgt
                                /\ st'[j].live => st[j].live /\ j \notin GrantedServiceTickets(n)
    BY <1>2, DestroyedSTRows DEF TypeOK, Types
  <2>2. \A j \in DOMAIN st : j \in GrantedServiceTickets(n) \/ st'[j] = st[j]
    BY <1>2 DEF Destroyed
  <2> QED BY <2>1, <2>2
<1>6. \A v \in Worker : Undisturbed(req[v])'
  BY <1>2, Responded, OneWorker, IdleUndisturbed DEF Undisturbed
<1>7. \A i \in DOMAIN st : st[i].tgt \in DOMAIN tgt
  BY DEF TypeOK, References
<1>8. ASSUME NEW i \in DOMAIN st', st'[i].kind = "ST"
      PROVE  /\ ~st'[i].live => tgt'[st'[i].tgt].row # "live"
             /\ st'[i].live => tgt'[st'[i].tgt].row # "loggedOut"
  <2>1. CASE st[i].tgt = n
    <3>1. st[i].live => i \in GrantedServiceTickets(n)
      BY <1>5, <1>8, <2>1 DEF GrantedServiceTickets
    <3> QED BY <1>4, <1>5, <2>1, <3>1
  <2>2. CASE st[i].tgt # n
    <3>1. i \notin GrantedServiceTickets(n)
      BY <2>2 DEF GrantedServiceTickets
    <3>2. tgt'[st'[i].tgt].row = tgt[st[i].tgt].row /\ (st'[i].live <=> st[i].live)
      BY <1>4, <1>5, <1>7, <2>2, <3>1
    <3> QED BY <1>5, <1>8, <3>2 DEF OneInv
  <2> QED BY <2>1, <2>2
<1>9. \A i \in STId : answers'[i] > 0 => i \in DOMAIN st' /\ st'[i].kind = "ST"
  BY <1>2, <1>5 DEF OneInv
<1>10. ASSUME NEW i \in DOMAIN st, SingleSignOut, answers[i] > 0, tgt'[st[i].tgt].row = "loggedOut"
       PROVE  i \in notified'
  <2>1. CASE st[i].tgt = n
    <3>1. st[i].kind = "ST"
      BY <1>10 DEF OneInv, TypeOK, Types
    <3>2. st[i].live
      BY <1>a, <2>1, <3>1 DEF OneInv
    <3>3. i \in GrantedServiceTickets(n)
      BY <2>1, <3>1, <3>2 DEF GrantedServiceTickets
    <3> QED BY <1>2, <1>10, <3>3
  <2>2. CASE st[i].tgt # n
    BY <1>2, <1>4, <1>7, <1>10, <2>2 DEF OneInv, ServicesNotified
  <2> QED BY <2>1, <2>2
<1>11. ServicesNotified'
  BY <1>2, <1>5, <1>10 DEF ServicesNotified
<1> QED BY <1>6, <1>8, <1>9, <1>11 DEF OneInv

LEMMA OneNext ==
  ASSUME Cardinality(Worker) = 1
  PROVE  TypeOK /\ TypeOK' /\ EmptyingInv /\ OneInv /\ [Next]_vars => OneInv'
<1> SUFFICES ASSUME TypeOK, TypeOK', EmptyingInv, OneInv, [Next]_vars PROVE OneInv'
  OBVIOUS
<1>1. CASE Tick \/ UNCHANGED vars
  <2>1. UNCHANGED <<tgt, st, req, answers, notified>>
    BY <1>1 DEF Tick, tables, vars
  <2>2. \A w \in Worker : Undisturbed(req[w])'
    BY <2>1 DEF OneInv, Undisturbed
  <2> QED BY <2>1, <2>2, OneQuiet
<1>2. ASSUME NEW w \in Worker, LoginForm(w) PROVE OneInv'
  <2>1. UNCHANGED <<tgt, st, req, answers, notified>>
    BY <1>2 DEF LoginForm
  <2>2. \A v \in Worker : Undisturbed(req[v])'
    BY <2>1 DEF OneInv, Undisturbed
  <2> QED BY <2>1, <2>2, OneQuiet
<1>3. ASSUME NEW w \in Worker, LoginStep(w) PROVE OneInv'
  BY <1>2, <1>3, OneLookups, OneResponds, OneGrants, OneExpires DEF LoginStep
<1>4. ASSUME NEW w \in Worker, LogoutStep(w) \/ RequestDies(w) PROVE OneInv'
  BY <1>4, OneLookups, OneResponds, OneDeletes, OneLogout DEF LogoutStep
<1>5. ASSUME NEW w \in Worker, ValidateStep(w) PROVE OneInv'
  BY <1>5, OneLookups, OneResponds, OneConsumes, OneAnswers DEF ValidateStep
<1>6. ASSUME NEW w \in Worker, ProxyStep(w) PROVE OneInv'
  BY <1>6, OneLookups, OneGrants DEF ProxyStep
<1> QED BY <1>1, <1>3, <1>4, <1>5, <1>6 DEF Next, RequestStep

LEMMA OneInit == Init => OneInv
<1> SUFFICES ASSUME Init PROVE OneInv
  OBVIOUS
<1>1. DOMAIN st = {} /\ (\A i \in STId : answers[i] = 0) /\ \A w \in Worker : req[w] = Idle
  BY DEF Init, EmptyTable
<1>2. \A w \in Worker : Undisturbed(req[w])
  BY <1>1 DEF Undisturbed, Idle
<1> QED BY <1>1, <1>2 DEF OneInv, ServicesNotified

LEMMA OneInvariant ==
  ASSUME Cardinality(Worker) = 1
  PROVE  Spec => []OneInv
BY OneInit, OneNext, EmptyingInvariant, TypeCorrect, PTL DEF Spec

\* With one worker, a proxy-granting ticket stops working with its session: GET
\* /logout leaves no service ticket behind which it could be found.
THEOREM ProxiesEnd ==
  ASSUME Cardinality(Worker) = 1
  PROVE  Spec => []ProxiesEndWithSession
<1>1. TypeOK /\ OneInv => ProxiesEndWithSession
  BY DEF OneInv, ProxiesEndWithSession, TypeOK, References
<1> QED BY <1>1, OneInvariant, TypeCorrect, PTL

\* With one worker and single sign-out, every service that was told a user is
\* logged in is notified before the session is gone.
THEOREM ServicesAreNotified ==
  ASSUME Cardinality(Worker) = 1
  PROVE  Spec => []ServicesNotified
BY OneInvariant, PTL DEF OneInv

-------------------------------------------------------------------------------
(* One worker: the tickets implement TicketLifecycle.                      *)

\* A request is past consume! and will answer yes on ticket i.
Claimed(i) == \E w \in Accepting(i) : req[w].at # "validate"

\* LifeOf, with its cases in the order of the life.
Stage(i) ==
  IF i \notin DOMAIN st THEN "unissued"
  ELSE IF answers[i] > 0 THEN "redeemed"
  ELSE IF Claimed(i) THEN "claimed"
  ELSE IF st[i].live /\ ~st[i].consumed THEN "valid" ELSE "void"

LEMMA LifeIsStage ==
  ASSUME answers \in [STId -> Nat], NEW i \in STId
  PROVE  LifeOf(i) = Stage(i)
<1>1. answers[i] > 0 <=> answers[i] # 0
  OBVIOUS
<1>2. CASE i \notin DOMAIN st
  BY <1>2, Zenon DEF LifeOf, Stage
<1>3. CASE i \in DOMAIN st /\ answers[i] > 0
  BY <1>1, <1>3, Zenon DEF LifeOf, Stage
<1>4. CASE i \in DOMAIN st /\ answers[i] = 0 /\ Claimed(i)
  BY <1>1, <1>4, Zenon DEF LifeOf, Stage, Claimed
<1>5. CASE i \in DOMAIN st /\ answers[i] = 0 /\ ~Claimed(i)
  BY <1>1, <1>5, Zenon DEF LifeOf, Stage, Claimed
<1> QED BY <1>1, <1>2, <1>3, <1>4, <1>5

LEMMA LifeIsStageNext ==
  ASSUME answers' \in [STId -> Nat], NEW i \in STId
  PROVE  LifeOf(i)' = Stage(i)'
<1>1. answers'[i] > 0 <=> answers'[i] # 0
  OBVIOUS
<1>2. CASE i \notin DOMAIN st'
  BY <1>2, Zenon DEF LifeOf, Stage
<1>3. CASE i \in DOMAIN st' /\ answers'[i] > 0
  BY <1>1, <1>3, Zenon DEF LifeOf, Stage
<1>4. CASE i \in DOMAIN st' /\ answers'[i] = 0 /\ Claimed(i)'
  BY <1>1, <1>4, Zenon DEF LifeOf, Stage, Claimed
<1>5. CASE i \in DOMAIN st' /\ answers'[i] = 0 /\ ~Claimed(i)'
  BY <1>1, <1>5, Zenon DEF LifeOf, Stage, Claimed
<1> QED BY <1>1, <1>2, <1>3, <1>4, <1>5

Stages == [i \in STId |-> LifeOf(i)]

LEMMA StagesAre ==
  ASSUME TypeOK, TypeOK'
  PROVE  Stages = [i \in STId |-> Stage(i)] /\ Stages' = [i \in STId |-> Stage(i)']
<1>1. answers \in [STId -> Nat] /\ answers' \in [STId -> Nat]
  BY DEF TypeOK, Types
<1>2. \A i \in STId : LifeOf(i) = Stage(i) /\ LifeOf(i)' = Stage(i)'
  BY <1>1, LifeIsStage, LifeIsStageNext
<1> QED BY <1>2 DEF Stages

\* The one request that may have claimed a ticket.
LEMMA ClaimedBy ==
  ASSUME Cardinality(Worker) = 1, NEW w \in Worker, NEW i
  PROVE  /\ Claimed(i) <=> req[w].at \in {"callback", "attributes"} /\ req[w].ok /\ req[w].id = i
         /\ Claimed(i)' <=> req'[w].at \in {"callback", "attributes"} /\ req'[w].ok /\ req'[w].id = i
<1>1. \A v \in Worker : v = w
  BY OneWorker
<1>2. Claimed(i) <=> w \in Accepting(i) /\ req[w].at # "validate"
  BY <1>1 DEF Claimed, Accepting
<1>3. Claimed(i)' <=> w \in Accepting(i)' /\ req'[w].at # "validate"
  BY <1>1 DEF Claimed, Accepting
<1> QED BY <1>2, <1>3 DEF Accepting

\* Where the ticket of a request is in its life.
LEMMA HeldStage ==
  ASSUME Cardinality(Worker) = 1, TypeOK, UseInv, OneInv, NEW w \in Worker, NEW n, n = req[w].id
  PROVE  /\ req[w].at \in {"callback", "attributes"} => req[w].ok /\ Stage(n) = "claimed"
         /\ req[w].at = "validate" /\ req[w].ok => Stage(n) = "valid"
<1> SUFFICES ASSUME \/ req[w].at \in {"callback", "attributes"}
                    \/ req[w].at = "validate" /\ req[w].ok
             PROVE  /\ req[w].at \in {"callback", "attributes"} => req[w].ok /\ Stage(n) = "claimed"
                    /\ req[w].at = "validate" /\ req[w].ok => Stage(n) = "valid"
  OBVIOUS
<1>1. req[w].ok /\ n \in DOMAIN st /\ n \in STId
  BY DEF UseInv, PastConsume, TypeOK, Types, References, Found
<1>2. w \in Accepting(n)
  BY <1>1 DEF Accepting
<1>3. Cardinality(Accepting(n)) # 0
  BY <1>2, AcceptingFinite, FS_EmptySet
<1>4. answers[n] \in Nat /\ answers[n] + Cardinality(Accepting(n)) <= 1
  BY <1>1 DEF UseInv, TypeOK, Types
<1>5. answers[n] = 0
  BY <1>3, <1>4, AcceptingFinite
<1>6. CASE req[w].at \in {"callback", "attributes"}
  <2>1. Claimed(n)
    BY <1>1, <1>6, ClaimedBy
  <2> QED BY <1>1, <1>5, <1>6, <2>1 DEF Stage
<1>7. CASE req[w].at = "validate"
  <2>1. ~Claimed(n)
    BY <1>7, ClaimedBy
  <2>2. st[n].live /\ ~st[n].consumed
    BY <1>1, <1>7 DEF OneInv, Undisturbed
  <2> QED BY <1>1, <1>5, <1>7, <2>1, <2>2 DEF Stage
<1> QED BY <1>6, <1>7

\* A step that neither writes nor answers, and leaves a claim as it is.
LEMMA StageSame ==
  ASSUME UNCHANGED <<st, answers>>, \A i : Claimed(i)' <=> Claimed(i)
  PROVE  \A i : Stage(i)' = Stage(i)
BY DEF Stage

LEMMA StageQuiet ==
  ASSUME TypeOK, TypeOK', \A i \in STId : Stage(i)' = Stage(i), answers' = answers
  PROVE  [Lifecycle!Next]_<<Stages, answers>>
BY StagesAre

LEMMA StageVoid ==
  ASSUME TypeOK, TypeOK', NEW tickets \in SUBSET STId, answers' = answers,
         \A i \in tickets : Stage(i) \in {"valid", "claimed"} /\ Stage(i)' = "void",
         \A i \in STId \ tickets : Stage(i)' = Stage(i)
  PROVE  [Lifecycle!Next]_<<Stages, answers>>
<1>1. /\ \A i \in tickets : Stages[i] \in {"valid", "claimed"}
      /\ Stages' = [i \in STId |-> IF i \in tickets THEN "void" ELSE Stages[i]]
  BY StagesAre
<1>2. Lifecycle!Void(tickets)
  BY <1>1 DEF Lifecycle!Void, Lifecycle!Move, Stages
<1> QED BY <1>2 DEF Lifecycle!Next

LEMMA StageRedeem ==
  ASSUME TypeOK, TypeOK', NEW n \in STId, answers' = [answers EXCEPT ![n] = @ + 1],
         Stage(n) \in {"valid", "claimed"} /\ Stage(n)' = "redeemed",
         \A i \in STId \ {n} : Stage(i)' = Stage(i)
  PROVE  [Lifecycle!Next]_<<Stages, answers>>
<1>1. /\ \A i \in {n} : Stages[i] \in {"valid", "claimed"}
      /\ Stages' = [i \in STId |-> IF i \in {n} THEN "redeemed" ELSE Stages[i]]
  BY StagesAre
<1>2. Lifecycle!Redeem(n)
  BY <1>1 DEF Lifecycle!Redeem, Lifecycle!Move, Stages
<1> QED BY <1>2 DEF Lifecycle!Next

LEMMA StageClaim ==
  ASSUME TypeOK, TypeOK', NEW n \in STId, answers' = answers,
         Stage(n) = "valid" /\ Stage(n)' = "claimed",
         \A i \in STId \ {n} : Stage(i)' = Stage(i)
  PROVE  [Lifecycle!Next]_<<Stages, answers>>
<1>1. /\ \A i \in {n} : Stages[i] \in {"valid"}
      /\ Stages' = [i \in STId |-> IF i \in {n} THEN "claimed" ELSE Stages[i]]
  BY StagesAre
<1>2. Lifecycle!Claim(n)
  BY <1>1 DEF Lifecycle!Claim, Lifecycle!Move, Stages
<1> QED BY <1>2 DEF Lifecycle!Next

LEMMA StageIssue ==
  ASSUME TypeOK, TypeOK', NEW n \in STId, answers' = answers,
         Stage(n) = "unissued" /\ Stage(n)' = "valid",
         \A i \in STId \ {n} : Stage(i)' = Stage(i)
  PROVE  [Lifecycle!Next]_<<Stages, answers>>
<1>1. /\ \A i \in {n} : Stages[i] \in {"unissued"}
      /\ Stages' = [i \in STId |-> IF i \in {n} THEN "valid" ELSE Stages[i]]
  BY StagesAre
<1>2. Lifecycle!Issue(n)
  BY <1>1 DEF Lifecycle!Issue, Lifecycle!Move, Stages
<1> QED BY <1>2 DEF Lifecycle!Next

\* Steps outside a validation: nothing is claimed before or after.
LEMMA LifeElsewhere ==
  ASSUME Cardinality(Worker) = 1, TypeOK, TypeOK', NEW w \in Worker, UNCHANGED <<st, answers>>,
         req[w].at \notin {"callback", "attributes"}, req'[w].at \notin {"callback", "attributes"}
  PROVE  [Lifecycle!Next]_<<Stages, answers>>
BY ClaimedBy, StageSame, StageQuiet

LEMMA LifeLookups ==
  ASSUME Cardinality(Worker) = 1, TypeOK, TypeOK', NEW w \in Worker,
         PostLoginLookup(w) \/ SSOLookup(w) \/ LogoutLookup(w) \/ LogoutBegin(w)
           \/ ValidateLookup(w) \/ ProxyLookup(w)
  PROVE  [Lifecycle!Next]_<<Stages, answers>>
<1>1. UNCHANGED <<st, answers>> /\ req[w].at \in {"idle", "logout"}
  BY DEF PostLoginLookup, SSOLookup, LogoutLookup, LogoutBegin, ValidateLookup, ProxyLookup,
         tables
<1>2. req'[w].at \notin {"callback", "attributes"}
  <2>1. CASE PostLoginLookup(w)
    <3>1. PICK i \in DOMAIN lt : Goto(w, "login", i, LoginTicketValid(i), NoService)
      BY <2>1 DEF PostLoginLookup
    <3>2. req'[w].at = "login"
      BY <3>1, Went
    <3> QED BY <3>2
  <2>2. CASE SSOLookup(w)
    <3>1. PICK g \in DOMAIN tgt : Goto(w, "sso", g, TRUE, NoService)
      BY <2>2 DEF SSOLookup
    <3>2. req'[w].at = "sso"
      BY <3>1, WentOn
    <3> QED BY <3>2
  <2>3. CASE LogoutLookup(w)
    <3>1. PICK g \in DOMAIN tgt : Goto(w, "logout", g, TRUE, NoService)
      BY <2>3 DEF LogoutLookup
    <3>2. req'[w].at = "logout"
      BY <3>1, WentOn
    <3> QED BY <3>2
  <2>4. CASE ValidateLookup(w)
    <3>1. PICK i \in DOMAIN st, s \in Service : Goto(w, "validate", i, ServiceTicketValid(i, s), s)
      BY <2>4 DEF ValidateLookup
    <3>2. req'[w].at = "validate"
      BY <3>1, Went
    <3> QED BY <3>2
  <2>5. CASE ProxyLookup(w)
    <3>1. PICK p \in DOMAIN pgt : Goto(w, "proxy", p, TRUE, NoService)
      BY <2>5 DEF ProxyLookup
    <3>2. req'[w].at = "proxy"
      BY <3>1, WentOn
    <3> QED BY <3>2
  <2>6. CASE LogoutBegin(w)
    <3>1. Goto(w, "transaction", req[w].id, TRUE, NoService)
      BY <2>6 DEF LogoutBegin
    <3>2. req'[w].at = "transaction"
      BY <3>1, WentOn
    <3> QED BY <3>2
  <2> QED BY <2>1, <2>2, <2>3, <2>4, <2>5, <2>6
<1> QED BY <1>1, <1>2, LifeElsewhere

\* The callback changes neither the ticket nor the claim.
LEMMA LifeCallback ==
  ASSUME Cardinality(Worker) = 1, TypeOK, TypeOK', UseInv, NEW w \in Worker,
         CallbackAccepted(w) \/ CallbackRejected(w)
  PROVE  [Lifecycle!Next]_<<Stages, answers>>
<1>1. /\ UNCHANGED <<st, answers>> /\ req[w].at = "callback"
      /\ Goto(w, "attributes", req[w].id, TRUE, req[w].service)
  BY DEF CallbackAccepted, CallbackRejected, tables
<1>2. req[w].ok
  BY <1>1 DEF UseInv, PastConsume
<1>3. req'[w] = [at |-> "attributes", id |-> req[w].id, ok |-> TRUE, service |-> req[w].service]
  BY <1>1 DEF Goto, TypeOK, Types
<1>4. \A i : Claimed(i)' <=> Claimed(i)
  BY <1>1, <1>2, <1>3, ClaimedBy
<1> QED BY <1>1, <1>4, StageSame, StageQuiet

\* A ticket is issued.
LEMMA LifeIssued ==
  ASSUME Cardinality(Worker) = 1, TypeOK, TypeOK', UseInv, NEW w \in Worker,
         req[w].at \notin {"callback", "attributes"}, Respond(w), answers' = answers,
         NEW n \in Fresh(STId, st), NEW row, row.live, ~row.consumed, st' = Insert(st, n, row)
  PROVE  [Lifecycle!Next]_<<Stages, answers>>
<1>1. n \in STId /\ n \notin DOMAIN st
  BY FreshKey
<1>2. /\ DOMAIN st' = DOMAIN st \cup {n} /\ st'[n] = row
      /\ \A i \in DOMAIN st : st'[i] = st[i]
  BY <1>1 DEF Insert
<1>3. req'[w].at = "idle"
  BY Responded DEF Idle
<1>4. \A i : ~Claimed(i) /\ ~Claimed(i)'
  BY <1>3, ClaimedBy
<1>5. ~(answers[n] > 0)
  BY <1>1 DEF UseInv
<1>6. Stage(n) = "unissued" /\ Stage(n)' = "valid"
  BY <1>1, <1>2, <1>4, <1>5 DEF Stage
<1>7. \A i \in STId \ {n} : Stage(i)' = Stage(i)
  BY <1>2, <1>4 DEF Stage
<1> QED BY <1>1, <1>6, <1>7, StageIssue

LEMMA LifeGrants ==
  ASSUME Cardinality(Worker) = 1, TypeOK, TypeOK', UseInv, NEW w \in Worker,
         SSOGrant(w) \/ ProxyGrant(w) \/ PostLoginGranted(w)
  PROVE  [Lifecycle!Next]_<<Stages, answers>>
<1>1. Respond(w) /\ answers' = answers /\ req[w].at \notin {"callback", "attributes"}
  BY DEF SSOGrant, ProxyGrant, PostLoginGranted
<1>2. CASE SSOGrant(w)
  <2>1. PICK s \in Service, i \in Fresh(STId, st) :
          st' = Insert(st, i, NewServiceTicket(tgt[req[w].id].user, s, req[w].id))
    BY <1>2 DEF SSOGrant
  <2>2. /\ NewServiceTicket(tgt[req[w].id].user, s, req[w].id).live
        /\ ~NewServiceTicket(tgt[req[w].id].user, s, req[w].id).consumed
    BY DEF NewServiceTicket
  <2> QED BY <1>1, <2>1, <2>2, LifeIssued
<1>3. CASE ProxyGrant(w)
  <2>1. PICK s \in Service, i \in Fresh(STId, st) :
          st' = Insert(st, i, NewProxyTicket(s, req[w].id))
    BY <1>3 DEF ProxyGrant
  <2>2. NewProxyTicket(s, req[w].id).live /\ ~NewProxyTicket(s, req[w].id).consumed
    BY DEF NewProxyTicket
  <2> QED BY <1>1, <2>1, <2>2, LifeIssued
<1>4. CASE PostLoginGranted(w) /\ st' # st
  <2>1. PICK u \in User, g \in Fresh(TGTId, tgt), s \in Service, i \in Fresh(STId, st) :
          st' = Insert(st, i, NewServiceTicket(u, s, g))
    BY <1>4 DEF PostLoginGranted
  <2>2. NewServiceTicket(u, s, g).live /\ ~NewServiceTicket(u, s, g).consumed
    BY DEF NewServiceTicket
  <2> QED BY <1>1, <2>1, <2>2, LifeIssued
<1>5. CASE st' = st
  <2>1. req'[w].at = "idle"
    BY <1>1, Responded DEF Idle
  <2> QED BY <1>1, <1>5, <2>1, LifeElsewhere
<1> QED BY <1>2, <1>3, <1>4, <1>5

\* A validation that ends without an answer: the ticket is void, unless it was
\* refused for being used up before.
LEMMA LifeEnds ==
  ASSUME Cardinality(Worker) = 1, TypeOK, TypeOK', UseInv, OneInv, NEW w \in Worker,
         AttributesError(w) \/ RequestDies(w), req[w].at \in {"callback", "attributes"}
  PROVE  [Lifecycle!Next]_<<Stages, answers>>
<1>1. PICK n \in DOMAIN st : n = req[w].id
  BY DEF TypeOK, References, Found
<1>2. Respond(w) /\ UNCHANGED <<st, answers>>
  BY DEF AttributesError, RequestDies, tables
<1>3. n \in STId /\ Stage(n) = "claimed"
  BY <1>1, HeldStage DEF TypeOK, Types
<1>4. Spent(n)
  BY <1>1 DEF UseInv, PastConsume
<1>5. req'[w].at = "idle"
  BY <1>2, Responded DEF Idle
<1>6. \A i : ~Claimed(i)'
  BY <1>5, ClaimedBy
<1>7. \A i : Claimed(i) => i = n
  BY <1>1, ClaimedBy
<1>8. Stage(n)' = "void"
  BY <1>1, <1>2, <1>3, <1>4, <1>6 DEF Stage, Spent
<1>9. \A i \in STId \ {n} : Stage(i)' = Stage(i)
  BY <1>2, <1>6, <1>7 DEF Stage
<1> QED BY <1>2, <1>3, <1>8, <1>9, StageVoid

LEMMA LifeRefused ==
  ASSUME Cardinality(Worker) = 1, TypeOK, TypeOK', NEW w \in Worker, ValidateRefused(w)
  PROVE  [Lifecycle!Next]_<<Stages, answers>>
<1>1. PICK n \in DOMAIN st : n = req[w].id
  BY DEF ValidateRefused, TypeOK, References, Found
<1>2. /\ req[w].at = "validate" /\ Respond(w) /\ answers' = answers
      /\ st' = ConsumedST(st, n)
  BY <1>1 DEF ValidateRefused
<1>3. req'[w].at = "idle"
  BY <1>2, Responded DEF Idle
<1>4. \A i : ~Claimed(i) /\ ~Claimed(i)'
  BY <1>2, <1>3, ClaimedBy
<1>5. /\ DOMAIN st' = DOMAIN st
      /\ \A i \in DOMAIN st : st'[i].live = st[i].live
      /\ \A i \in DOMAIN st : i # n => st'[i] = st[i]
      /\ st'[n].live => st'[n].consumed
  BY <1>2 DEF ConsumedST, TypeOK, Types, STRow
<1>6. \A i \in STId \ {n} : Stage(i)' = Stage(i)
  BY <1>2, <1>4, <1>5 DEF Stage
<1>7. n \in STId
  BY DEF TypeOK, Types
<1>8. CASE Stage(n) = "valid"
  <2>1. Stage(n)' = "void"
    BY <1>2, <1>4, <1>5, <1>8 DEF Stage
  <2> QED BY <1>2, <1>6, <1>7, <1>8, <2>1, StageVoid
<1>9. CASE Stage(n) # "valid"
  <2>1. st[n].live => st[n].consumed \/ answers[n] > 0
    BY <1>4, <1>9 DEF Stage
  <2>2. Stage(n)' = Stage(n)
    BY <1>2, <1>4, <1>5, <2>1 DEF Stage
  <2>3. \A i \in STId : Stage(i)' = Stage(i)
    BY <1>6, <2>2
  <2> QED BY <1>2, <2>3, StageQuiet
<1> QED BY <1>8, <1>9

\* consume!, with the answer still to come.
LEMMA LifeClaims ==
  ASSUME Cardinality(Worker) = 1, TypeOK, TypeOK', UseInv, OneInv, NEW w \in Worker,
         ServiceValidateConsume(w)
  PROVE  [Lifecycle!Next]_<<Stages, answers>>
<1>1. PICK n \in DOMAIN st : n = req[w].id
  BY DEF ServiceValidateConsume, TypeOK, References, Found
<1>2. /\ req[w].at = "validate" /\ req[w].ok /\ answers' = answers
      /\ st' = ConsumedST(st, n)
  BY <1>1 DEF ServiceValidateConsume
<1>3. PICK next \in {"callback", "attributes"} :
        req'[w] = [at |-> next, id |-> n, ok |-> TRUE, service |-> req[w].service]
  BY <1>1 DEF ServiceValidateConsume, Goto, TypeOK, Types
<1>4. \A i : Claimed(i)' <=> i = n
  BY <1>3, ClaimedBy
<1>5. \A i : ~Claimed(i)
  BY <1>2, ClaimedBy
<1>6. DOMAIN st' = DOMAIN st /\ \A i \in DOMAIN st : i # n => st'[i] = st[i]
  BY <1>2 DEF ConsumedST
<1>7. n \in STId /\ Stage(n) = "valid"
  BY <1>1, <1>2, HeldStage DEF TypeOK, Types
<1>8. Stage(n)' = "claimed"
  BY <1>2, <1>4, <1>6, <1>7 DEF Stage
<1>9. \A i \in STId \ {n} : Stage(i)' = Stage(i)
  BY <1>2, <1>4, <1>5, <1>6 DEF Stage
<1> QED BY <1>2, <1>7, <1>8, <1>9, StageClaim

LEMMA LifeAnswers ==
  ASSUME Cardinality(Worker) = 1, TypeOK, TypeOK', UseInv, OneInv, NEW w \in Worker,
         ValidateAnswer(w) \/ AttributesAnswer(w)
  PROVE  [Lifecycle!Next]_<<Stages, answers>>
<1>1. PICK n \in DOMAIN st : n = req[w].id
  BY DEF ValidateAnswer, AttributesAnswer, TypeOK, References, Found
<1>2. /\ req[w].at \in {"validate", "attributes"}
      /\ req[w].at = "validate" => req[w].ok
      /\ Respond(w) /\ answers' = [answers EXCEPT ![n] = @ + 1]
      /\ (st' = st \/ st' = ConsumedST(st, n))
  <2>1. CASE ValidateAnswer(w)
    BY <1>1, <2>1 DEF ValidateAnswer, Answered
  <2>2. CASE AttributesAnswer(w)
    BY <1>1, <2>2 DEF AttributesAnswer, Answered, tables
  <2> QED BY <2>1, <2>2
<1>3. n \in STId /\ answers \in [STId -> Nat]
  BY DEF TypeOK, Types
<1>4. req'[w].at = "idle"
  BY <1>2, Responded DEF Idle
<1>5. \A i : ~Claimed(i)' /\ (Claimed(i) => i = n)
  BY <1>1, <1>4, ClaimedBy
<1>6. DOMAIN st' = DOMAIN st /\ \A i \in DOMAIN st : i # n => st'[i] = st[i]
  BY <1>2 DEF ConsumedST
<1>7. Stage(n) \in {"valid", "claimed"}
  BY <1>1, <1>2, HeldStage
<1>8. answers'[n] > 0 /\ \A i \in STId \ {n} : answers'[i] = answers[i]
  BY <1>2, <1>3
<1>9. Stage(n)' = "redeemed"
  BY <1>1, <1>6, <1>8 DEF Stage
<1>10. \A i \in STId \ {n} : Stage(i)' = Stage(i)
  BY <1>5, <1>6, <1>8 DEF Stage
<1> QED BY <1>2, <1>3, <1>7, <1>9, <1>10, StageRedeem

\* Logout voids the tickets of the session that were not used.
LEMMA LifeLogout ==
  ASSUME Cardinality(Worker) = 1, TypeOK, TypeOK', NEW w \in Worker, LogoutCommit(w)
  PROVE  [Lifecycle!Next]_<<Stages, answers>>
<1>1. PICK held : held = tx[w].held /\ held \subseteq STId
  BY DEF TypeOK, ClosingTypes, Transaction
<1>2. /\ req[w].at = "transaction" /\ Respond(w) /\ answers' = answers
      /\ st' = Destroyed(st, held)
  BY <1>1 DEF LogoutCommit
<1>3. req'[w].at = "idle"
  BY <1>2, Responded DEF Idle
<1>4. \A i : ~Claimed(i) /\ ~Claimed(i)'
  BY <1>2, <1>3, ClaimedBy
<1>5. DOMAIN st' = DOMAIN st
      /\ \A i \in DOMAIN st : /\ st'[i].live => st[i].live /\ i \notin held
                              /\ st'[i].consumed = st[i].consumed
                              /\ i \notin held => st'[i] = st[i]
  BY <1>2, DestroyedSTRows DEF TypeOK, Types, Destroyed
<1>6. PICK tickets \in SUBSET STId :
        tickets = {i \in held \cap DOMAIN st : Stage(i) = "valid"}
  BY <1>1
<1>7. tickets \subseteq held /\ tickets \subseteq DOMAIN st
  BY <1>6
<1>8. \A i \in tickets : Stage(i) \in {"valid", "claimed"} /\ Stage(i)' = "void"
  BY <1>2, <1>4, <1>5, <1>6, <1>7 DEF Stage
<1>9. \A i \in STId \ tickets : Stage(i)' = Stage(i)
  BY <1>2, <1>4, <1>5, <1>6 DEF Stage
<1> QED BY <1>2, <1>8, <1>9, StageVoid

\* A step of a request that writes no service ticket and claims none.
LEMMA LifeForms ==
  ASSUME Cardinality(Worker) = 1, TypeOK, TypeOK', NEW w \in Worker,
         \/ LoginForm(w) \/ SSOExpired(w) \/ SSOForm(w)
         \/ PostLoginRefused(w) \/ PostLoginDenied(w) \/ LogoutAborts(w)
         \/ LogoutNotify(w) \/ LogoutDestroy(w)
  PROVE  [Lifecycle!Next]_<<Stages, answers>>
<1>1. UNCHANGED <<st, answers>>
  BY Deleting DEF LoginForm, SSOExpired, SSOForm, PostLoginRefused, PostLoginDenied,
         LogoutAborts, tables
<1>2. req[w].at \notin {"callback", "attributes"}
  BY Deleting DEF LoginForm, SSOExpired, SSOForm, PostLoginRefused, PostLoginDenied,
         LogoutAborts
<1>3. req' = req \/ Respond(w)
  BY Deleting DEF LoginForm, SSOExpired, SSOForm, PostLoginRefused, PostLoginDenied,
         LogoutAborts
<1>4. req'[w].at \notin {"callback", "attributes"}
  BY <1>2, <1>3, Responded DEF Idle
<1> QED BY <1>1, <1>2, <1>4, LifeElsewhere

\* Every step moves the tickets along their lives, or leaves them.
LEMMA LifeNext ==
  ASSUME Cardinality(Worker) = 1
  PROVE  TypeOK /\ TypeOK' /\ UseInv /\ OneInv /\ [Next]_vars
           => [Lifecycle!Next]_<<Stages, answers>>
<1> SUFFICES ASSUME TypeOK, TypeOK', UseInv, OneInv, [Next]_vars
             PROVE  [Lifecycle!Next]_<<Stages, answers>>
  OBVIOUS
<1>1. CASE Tick \/ UNCHANGED vars
  <2>1. UNCHANGED <<st, req, answers>>
    BY <1>1 DEF Tick, tables, vars
  <2>2. \A i : Claimed(i)' <=> Claimed(i)
    BY <2>1 DEF Claimed, Accepting
  <2> QED BY <2>1, <2>2, StageSame, StageQuiet
<1>2. ASSUME NEW w \in Worker, LoginStep(w)
      PROVE  [Lifecycle!Next]_<<Stages, answers>>
  BY <1>2, LifeForms, LifeLookups, LifeGrants DEF LoginStep
<1>3. ASSUME NEW w \in Worker, LogoutStep(w)
      PROVE  [Lifecycle!Next]_<<Stages, answers>>
  BY <1>3, LifeForms, LifeLookups, LifeLogout DEF LogoutStep
<1>4. ASSUME NEW w \in Worker, AttributesError(w)
      PROVE  [Lifecycle!Next]_<<Stages, answers>>
  BY <1>4, LifeEnds DEF AttributesError
<1>5. ASSUME NEW w \in Worker, ValidateStep(w)
      PROVE  [Lifecycle!Next]_<<Stages, answers>>
  BY <1>4, <1>5, LifeLookups, LifeRefused, LifeAnswers, LifeClaims, LifeCallback
     DEF ValidateStep
<1>6. ASSUME NEW w \in Worker, ProxyStep(w)
      PROVE  [Lifecycle!Next]_<<Stages, answers>>
  BY <1>6, LifeLookups, LifeGrants DEF ProxyStep
<1>7. ASSUME NEW w \in Worker, RequestDies(w)
      PROVE  [Lifecycle!Next]_<<Stages, answers>>
  <2>1. CASE req[w].at \in {"callback", "attributes"}
    BY <1>7, <2>1, LifeEnds
  <2>2. CASE req[w].at \notin {"callback", "attributes"}
    <3>1. UNCHANGED <<st, answers>> /\ Respond(w)
      BY <1>7 DEF RequestDies, tables
    <3>2. req'[w].at = "idle"
      BY <3>1, Responded DEF Idle
    <3> QED BY <2>2, <3>1, <3>2, LifeElsewhere
  <2> QED BY <2>1, <2>2
<1> QED BY <1>1, <1>2, <1>3, <1>5, <1>6, <1>7 DEF Next, RequestStep

LEMMA LifeInit == Init => Lifecycle!Init
<1> SUFFICES ASSUME Init PROVE Lifecycle!Init
  OBVIOUS
<1>1. answers = [i \in STId |-> 0] /\ DOMAIN st = {}
  BY DEF Init, EmptyTable
<1>2. \A i \in STId : LifeOf(i) = "unissued"
  BY <1>1, Zenon DEF LifeOf
<1> QED BY <1>1, <1>2 DEF Lifecycle!Init

\* With one worker the server keeps what TicketLifecycle promises: every step
\* maps to a step in the life of the tickets, or to none.
THEOREM OneWorkerKeepsThePromise ==
  ASSUME Cardinality(Worker) = 1
  PROVE  Spec => OneTimeTickets
<1>1. TypeOK /\ TypeOK' /\ UseInv /\ OneInv /\ [Next]_vars
        => [Lifecycle!Next]_<<[i \in STId |-> LifeOf(i)], answers>>
  BY LifeNext DEF Stages
<1> QED BY <1>1, LifeInit, TypeCorrect, UseInvariant, OneInvariant,
           PTL DEF Spec, OneTimeTickets, Lifecycle!Spec

===============================================================================
