# A verification project for BKPlatform

BKPlatform is a small private cloud: a single sign-on server (rubycas-server), a
portal for virtual desktops (bkclient-portal) with the client that shows a
desktop in the browser (spice-html5), a database browser (bkdatabase, a fork of
Labrador) and the scripts that grow and shrink a MySQL cluster and a Cassandra
ring (mysql-cluster-scripts, cassandra-scripts).  This directory models the parts
of it that keep state, checks them with TLC on small instances, and proves with
TLAPS, for every instance, what the tickets, the record of a virtual desktop,
the console client and the pages promise.

* [The system](#the-system): components, state, interactions, hard behaviours
* [The modules](#the-modules): which models what, and what composes them
* [CASTickets](#castickets), [VMPortal](#vmportal), [The console](#the-console),
  [The pages](#the-pages): what is modelled, checked and proved
* [What is proved and what is not](#what-is-proved-and-what-is-not)
* [What the checks found](#what-the-checks-found)
* [Not modelled](#not-modelled)
* [Running it](#running-it)

## The system

### 1. rubycas-server: single sign-on

A Sinatra application served by several unicorn worker processes
(`config/unicorn.rb`: `worker_processes 3`, `timeout 30`) over one database with
four tables.

| State | Kept in | Written by |
|---|---|---|
| login tickets (one per form) | `casserver_lt` | every route that shows the login form; `validate_login_ticket` consumes |
| sessions (ticket-granting tickets, the browser's cookie) | `casserver_tgt` | `POST /login` creates; `GET /logout` and an expired `GET /login` destroy |
| service and proxy tickets | `casserver_st` | `GET`/`POST /login` and `GET /proxy` create; the three validations consume; `GET /logout` destroys |
| proxy-granting tickets | `casserver_pgt` | the proxy callback of `serviceValidate`/`proxyValidate` creates; `GET /logout` destroys |

Interactions: the browser carries tickets between the server and the services;
services call back to validate; the server calls services to deliver
proxy-granting tickets and logout notifications.  Hard: every handler reads a
row and acts on it later, with no lock and (except in `GET /logout`) no
transaction; callbacks to services stand in the middle of handlers, and
notifications in the middle of the transaction; a worker may be killed.
Correct means: a ticket is accepted once and only for the
session it was granted on; logout ends what the session granted; services that
let a user in are told when the user is gone; old tickets disappear.

### 2. bkclient-portal: virtual desktops

A Rails application (several Passenger processes), Sidekiq workers on a Redis
queue, and CloudStack behind an HTTP API whose long operations are
asynchronous jobs that the portal polls.

| State | Kept in | Written by |
|---|---|---|
| an instance: state, job ids, machine id, host and port of its console | `instances` row | `approve`, `start`, `shutdown`, `remove`, `show`, and the workers that poll |
| background jobs, each with a snapshot of the row | Redis | `deploy`, `start`, `stop`, `destroy_vm`; workers enqueue themselves again |
| templates and offerings | three tables | `GET /sync` |
| web socket proxies | processes on the host | `websockify-daemon.sh` |

Hard: the row is a copy of what CloudStack knows, taken by several processes and
written back later; every request to CloudStack may fail after it has had its
effect; a job carries a copy of the row as it was when it was enqueued.
Correct means: one machine per approved instance, which the record names; a
record that settles on what the machine really is; no state that is waited for
for ever.

### 3. The console client

The page of an instance (`viewSpiceWebSock.html.erb`) connects to the SPICE server
of the machine through websockify.  The client, spice-html5, is compiled into
`public/assets/application-ba1a….js` with everything else the pages run; lines
below are that file's.

| State | Kept in | Written by |
|---|---|---|
| a connection: where its handshake is, the bytes it has not used, a timer | `SpiceConn`, `SpiceWireReader` | chunks, timer, errors, stops |
| a session: a main connection and its channels; the page's global `sc` | `SpiceMainConn` | visits of the page, the server's list, errors |
| acknowledgement counts, mouse mode, cursor | `SpiceConn` and its kinds | messages |
| pointer, buttons and modifier keys the guest was told of; motions not acknowledged | `SpiceInputsConn` and globals | the user's events, acknowledgements |
| surfaces, image cache, video streams, pictures still loading | `SpiceDisplayConn` | messages, `onload` |
| what a picture's decoder has learnt | `CommonFamily`, `QuicModel` and others | the picture |

Interactions: bytes from the server become messages, messages become calls of
handlers that write to the page's elements; the user's events become messages.
Turbolinks replaces the page's body and keeps its globals, so connections
outlive the elements they draw on.  Hard: bytes come cut anywhere; timers and
errors of a connection arrive after it was stopped; pictures load out of order;
both ends count acknowledgements, learn codes and remember keys, and drift apart
silently.  Correct means: messages are handled whole, once and in order; one
session at a time; the surfaces show what the server drew; the guest's mouse and
keys are the user's.

### 4. The scripts of the portal's pages

| State | Kept in | Written by |
|---|---|---|
| the page shown, its place in the history, pages kept | Turbolinks | clicks, Back and Forward, answers |
| links and forms disabled while their request lasts | jquery_ujs, in the elements' data | clicks, events of requests |
| menus, radio buttons, carousel, tooltips, clickovers, linked lists | Bootstrap, `popover.js`, `dropdown.js`, `jquery.groupsel.js` | clicks, the mouse, timers, ends of transitions |
| lists of callbacks, deferreds, handlers of events, requests under way | jQuery | all of the above |

Hard: answers, timers and ends of transitions come after what they were for has
changed; a page put aside and shown again keeps what it was waiting for; handlers
change the lists they are called from; the bundle holds Bootstrap twice.
Correct means: the page shown is that of the address; what was disabled comes
back; what a widget shows is what there is; every callback owed is called once.

### 5. bkdatabase: a browser for databases

A Rails application.  The list of databases the browser offers is one cache entry
(`Rails.cache`, key `:sessions`), cleared and refilled from the user's rows by
nearly every request; open connections are kept in a class variable; creating
and dropping a database touches a row, the database and its user one after the
other.  The front end asks for pages and draws what comes back.  Hard: the
cache entry is shared by all users and processes; steps that fail half way;
answers that come back out of order.  Correct means: a user is shown the user's
own databases and no others; a record and its database exist together; what is
drawn is what was asked for last.

### 6. mysql-cluster-scripts

`rolling_restart.py` runs on the management node: it lists the machines, gives
each a node id kept in an SQLite file, writes `config.ini`, and restarts
management, data and SQL nodes in turn.  `create_host.py` and `delete_host.py`
run from Zabbix actions, deploy or destroy machines, and start the former.
Hard: each step may fail with the earlier ones done; two actions may overlap;
ids live in disjoint ranges (1-48 for data, from 49 in steps of 4 for SQL).
Correct means: ids are unique and in their range; one replica of each data
group stays up during a restart; the cluster never shrinks below its minimum.

### 7. cassandra-scripts

`AddVM.py` names the new node after the number of hosts Zabbix knows, deploys
it, configures it and registers it; `RemoveVM.py` takes the node with the
highest number out of the ring, destroys it and removes it from Zabbix.
Hard: the name is chosen minutes before it is registered; registration does not
depend on the node having been configured; removal waits for a machine to stop
answering.  Correct means: one machine per name, Zabbix and CloudStack agree,
the ring keeps its minimum.

The rest of the repository is vendored: the Cassandra release, other compiled
assets, JavaScript libraries.

## The modules

| Modules | About | Composed by | Checked by |
|---|---|---|---|
| `CASTickets`, `TicketLifecycle` | the CAS server; its tickets implement an abstract one-time ticket | `MCCASTickets` | `cas_one`, `cas_two` and two violations |
| `CASTicketsProofs` | types, provenance and use of tickets, sessions, logout, and one worker implementing `TicketLifecycle`, for every instance | | TLAPS |
| `VMPortal`, `InstanceLife` | the instance row, Sidekiq, CloudStack; the row implements an abstract life of an instance | `MCVMPortal` | `vm_one`, `vm_two`, `vm_live` and a violation |
| `VMPortalProofs` | what the record says and how many machines there are, for every instance | | TLAPS |
| `SpiceWire`, `SpiceStream` | one connection; it implements a stream delivered in order | `SpiceClient` | `spice_client` |
| `SpiceInputs` | mouse and keyboard against a guest | `SpiceClient` | `spice_client` |
| `SpiceClientProofs` | the guest's mouse and keys, reports of failures; the reader, and a connection implementing `SpiceStream`, for every instance | | TLAPS |
| `SpiceSession` | visits of the console page and the connections they open | `SpiceConsole` | `spice_console` |
| `SpiceDisplay` | surfaces, cache, video, JPEGs that load late | `SpiceConsole` | `spice_console` |
| `SpiceConsoleProofs` | sessions and surfaces, for every instance; the client's messages, for all numbers | | TLAPS |
| `SpiceData` over `SpiceBytes`, `SpiceBigInteger`, `SpiceSha1`, `SpiceTicket`, `SpiceQuic`, `SpiceCodecs`, `SpiceMessages` | every encoding, end to end | `SpiceConsole` | `spice_console` |
| `SpiceChannel` | messages of a ready channel, acknowledgements, handlers that fail | | `spice_channel` |
| `SpiceChannelProofs` | the account of acknowledgements, mode and cursor, for every instance | | TLAPS |
| `PageVisits`, `RemoteLinks`, `PageWidgets` | Turbolinks, jquery_ujs, the widgets | `Page` | `page` |
| `Deferreds`, `AjaxRequests`, `PageEvents`, over `Lists` | jQuery's callbacks, requests, events, and what its splicing leaves of a list | `Page` | `page` |
| `PageProofs` | pages, links, widgets, requests, callbacks and events, for every instance | | TLAPS |
| `CallbackProofs` | the invariants of `Deferreds` and `PageEvents`, for `PageProofs` | | TLAPS |
| `ListLemmas` | lists: what is put together (`FlattenSeq`), left (`Only`) or mapped, for `SpiceClientProofs` and `CallbackProofs` | | TLAPS |

`SpiceClient`, `SpiceConsole` and `Page` put parts side by side that share no
state: a behaviour is one part's, and the others stay as they begin, so the states
of the whole are the sum of the parts' and not their product.  Where parts do
touch, one module stands on the promise of another: `SpiceWire` shows that
messages arrive whole, once and in order (`SpiceStream`), which `SpiceInputs`,
`SpiceDisplay` and `SpiceChannel` take for granted; `SpiceSession` has as one step
the handshake that `SpiceWire` has in full; `RemoteLinks` has as an answer what
`AjaxRequests` shows to end once.

## CASTickets

### State and actions

The four tables are functions from primary keys to rows (`lt`, `tgt`, `st`,
`pgt`).  A destroyed row stays in its table with its flag lowered (`live`, or
`row` of a session, which also tells how it ended), so that a property can speak
of it; no action of the code looks at it again, and a lookup that would not find
a row is not enabled.  `req` holds what each worker's handler remembers between
its steps: where it is, the ticket it has found, its verdict, the service.
`now` is the clock.  `answers` and `notified` are history: how often a service
was told yes for a ticket, and the tickets whose service was sent a logout
notification (sent, not necessarily received).  `tx` is the transaction each
worker has open, and `ended` is history too: what was in the tables when the
transaction of a session's logout began, and when it had committed.

A handler is cut where another worker may run between a read and a write that
depends on it; what follows the write of one handler and reads nothing shared is
one step with it.

| Route | Actions |
|---|---|
| `POST /loginTicket`, and the form | `LoginForm` |
| `POST /login` | `PostLoginLookup`, then `PostLoginRefused`, `PostLoginDenied` or `PostLoginGranted` |
| `GET /login` with a cookie | `SSOLookup`, then `SSOGrant` or `SSOForm`; `SSOExpired` |
| `GET /logout` | `LogoutLookup`; then a transaction: `LogoutBegin`, for each ticket `LogoutNotify` and `LogoutDestroy`, and `LogoutCommit` or `LogoutAborts` |
| `GET /validate` | `ValidateLookup`, then `ValidateRefused` or `ValidateAnswer` |
| `GET /serviceValidate`, `/proxyValidate` | `ValidateLookup`, `ValidateRefused` or `ServiceValidateConsume`, `CallbackAccepted` or `CallbackRejected`, `AttributesAnswer` or `AttributesError` |
| `GET /proxy` | `ProxyLookup`, `ProxyGrant` |
| a handler that raises, or is killed by unicorn | `RequestDies` |

The transaction of `GET /logout` (526-547) sends a notification over HTTP for each
ticket before it deletes it, so that whole requests of other workers fit between
its first read and its commit.  It is that of MySQL's InnoDB, which the
configuration names as the database, at its default isolation (external): what it
reads is a snapshot taken at its first read, with its own deletions; what it has
deleted others still see until it commits, but a write of theirs to such a row
waits (`Unlocked`), and a row that another transaction has deleted meanwhile is
not deleted again.  A worker that is killed, and a service that does not parse,
roll it back; the notifications stay sent.

Abstractions.  A ticket's random name is its primary key: names do not collide
and are not guessed.  A cookie may be any session that was ever issued, a
request may present any ticket that was ever issued, for any service.  A
parameter that is missing, or a ticket that no table holds, is refused without
a change of state and has no action.  `Service` is the set of cleaned service
URLs; `Unparsable` those for which `URI.parse` raises.  Users' extra attributes
are not kept, only that reading them needs the session's row.  The authenticators
are a verdict.  A login ticket beyond the bound is handed out but not tracked.

Three facts of the code are worth knowing when reading the module.
`ServiceTicket.find_by_ticket` restricts its query to the class `ServiceTicket`,
so no validation ever finds a proxy ticket, `allow_proxy_tickets` decides
nothing, and the second half of `validate_proxy_ticket` never runs.
`consume!` writes by primary key and succeeds on a row that another worker has
deleted.  And `maximum_session_lifetime` has a default, so the test for its
presence is always true.

### Runs

| Run | Instance | Question |
|---|---|---|
| `cas_two` | 2 workers, 2 users, 1 service, no clock | what holds whatever the interleaving |
| `cas_one` | 1 worker, 1 user, 2 services of which one does not parse, single sign-out, clock 0..1 | what holds when requests do not overlap, with the abstract specification as a property |
| `cas_double_use` | 2 workers | a violation, below |
| `cas_orphan_pgt` | 1 worker | a violation, below |

Bounds.  Two sessions and two service tickets let tickets of one session meet
those of another, and a proxy ticket its parent; one proxy-granting ticket is
enough for the order of deletion in logout; a second would only be another
victim of the same join.  `cas_two` tracks one login ticket, which both workers can
find good before either consumes it, and no time; `cas_one` tracks two.  Single
sign-out is off in `cas_two`, where a logout is cut between its reads and
deletions as it would be by notifications, and on in `cas_one`.  The clock needs one tick: lifetimes of 0 and 1 put a ticket on either
side of each comparison.  Two workers are the least that overlap; the theorems
below cover any number.  The window of every handler is one lookup wide, so a
third worker adds one more of the same, which `AnswersBounded`, `LoginsBounded`
and `OrphansBounded` count with `Cardinality(Worker)`.

Properties.

* `TypeOK`: types, and references to rows that were written.
* `Provenance`: tickets belong to the user of their session, proxy tickets to the
  session of their parent, although they are made from objects read earlier.
* `UsedUp`: a ticket that was answered with yes is consumed or gone.
* `AnswersBounded`, `LoginsBounded`: how far the window between reading and writing
  can be felt: at most one extra use per extra worker.
* `OrphansBounded`: a logout that has committed leaves no service ticket of its
  session that was there when it began, and fewer are granted afterwards than
  there are workers.  What is granted while it runs has no bound: it takes as long
  as the services take to answer, and each other worker may finish any number of
  `GET /login` on the session it still sees.  Those tickets stay.
* `LogoutEndsProxying`: a logout that has committed leaves no proxy-granting ticket
  of its user that works and was there when it began, although the join misses
  those of its own session.
* `ProxiesEndWithSession`, `ServicesNotified`: with one worker, no proxy-granting
  ticket works after logout, and every service that was told yes was notified.
* `OneTimeTickets`: with one worker, the tickets implement `TicketLifecycle`.

`TicketLifecycle` says what a ticket promises: issued, then claimed, redeemed or
void, redeemed once.  The refinement maps the columns of a row, the answers and
the requests in progress to these states (`LifeOf`).

Fairness.  None: every property of this module is a safety property.  In
particular a request may stop for ever between two steps.

### Theorems

`CASTicketsProofs` proves, for every set of workers, users and services, every
bound and every lifetime, from `CASAssumption` (the set of workers is finite,
bounds are natural numbers, `NoService` is no service):

* `TypeCorrect`: `Spec => []TypeOK`.  Inductive as it stands: `References`
  supplies what each action needs to know of the ticket it has found.  Rows are
  never removed, so what a request has found stays found (`RequestFound`).
* `TicketsDescendFromLogins`: `Spec => []Provenance`.  Inductive with `TypeOK`:
  no step changes whom a row belongs to (`OwnersKept`), so only inserted rows
  need an argument (`Descends`).
* `AnsweredTicketsUsedUp`: `Spec => []UsedUp`, `AnswersPerWorker`:
  `Spec => []AnswersBounded`, and `SingleUseOneWorker`: with one worker,
  `Spec => []SingleUse`.  None is inductive.  `UseInv` adds that a request past
  `consume!` holds a spent ticket, and counts with the answers of a ticket the
  requests that are bound to answer it: the sum never exceeds the number of
  workers, because a lookup adds to it only while the ticket is unspent, when no
  answer has been given, and an answer moves a request from one side to the
  other.

It goes on from these, with the same assumptions, to the sessions:

* `SessionsPerWorker`: `Spec => []LoginsBounded`.  It counts, with what is in a
  table, the requests that may still add to it.  `LoginInv`: the sessions a login
  ticket has opened and the requests that found it good are together no more than
  the workers, and a ticket that has opened one is consumed, so no later lookup
  adds to the sum.
* `OrphansPerWorker`: `Spec => []OrphansBounded`, and `LogoutsEndProxying`:
  `Spec => []LogoutEndsProxying`.  `LogoutInv` follows a transaction: all that was
  there when it began is deleted by others, deleted by it, or still on its list
  (`Snapshot`), and when it has committed nothing of that is left (`Closed`); that
  both deletions of proxy-granting tickets together reach all is where the join
  and the service tickets deleted before it meet.  `OrphanInv`: after the commit
  the tickets granted since, and the requests about to grant one on the session,
  are together fewer than the workers: at the commit there are none of the former
  and one worker is busy with the logout, and later no lookup finds the session.
* With one worker, `ProxiesEnd`: `Spec => []ProxiesEndWithSession`, and
  `ServicesAreNotified`: `Spec => []ServicesNotified`.  `OneInv` says that what a
  request has read still holds when it acts (`Undisturbed`), since nobody else
  writes, and that a service ticket is destroyed only with its session;
  `EmptyingInv` that a logout's transaction has on its list or has deleted all
  tickets of the session, the latter after a notification.
* `OneWorkerKeepsThePromise`: with one worker `Spec => OneTimeTickets`, the
  refinement of `TicketLifecycle`.  `LifeOf` is shown equal to one of the states
  of a ticket, by the columns of its row, its answers and the one request that may
  hold it, and each action to move one ticket along or none.

All properties of `cas_one` and `cas_two` are proved.  What their two violated
companions deny is TLC's to show.

## VMPortal

### State and actions

One instance: its row (`db`), the background jobs in Redis (`queue`), CloudStack
(`machine`, `job`), and what each web process and each Sidekiq thread holds while
it is at work (`actor`): the method it is in, the next request to CloudStack or
write of the row (`at`), its copy of the row, a reply it has not written yet.
Every request to CloudStack and every write of the row is a step of its own; what
the code computes from its copy alone belongs to the step before.
`update_attributes!` writes the attributes that differ from the copy and leaves
the others as they are stored (`Saved`), which is how a stale copy does harm, and
how it does not.  Deciding what comes next is in `CreatedReturns` (isCreated has
returned) and `StateReturns` (updateState has returned), one line per method.

| Code | Actions |
|---|---|
| `approve`, `Instance#deploy` | `Approve`; `CommandAnswered`, `CommandLost` or `CommandRefused`; `SaveJob`, `SaveApproving`, `Enqueue` |
| `start`, `stop`, `destroy_vm` | `Press`; `updateState`; `isCreated`; `Command...`; `SaveCommand`, `Enqueue` |
| `show` and its buttons, the admin page | `Show`, `AdminPage`, then `isCreated` and `updateState` |
| `isCreated` | `IsCreated`; `QueryAnswered` or `QueryFails`; `MarkError` or `MarkCreated` |
| `updateState` | `UpdateSkipped`, `UpdateAnswered`, `UpdateFails` or `UpdateRaises`; `SaveState` |
| `VMDeploy`, `VMStart`, `VMStop` | `Perform`, the two methods above, `Again` |
| `VNCToSPICEProtocol` | `LoadForSpice`, the two methods above, `SshSucceeds` or `SshFails`, `SaveConsole` |
| `VMDestroy` | `Perform`, `DestroyAnswered` or `DestroyFails`, `SaveError` |
| a process killed | `Killed`; a job in hand is lost, Sidekiq having taken it off the queue |
| CloudStack | `JobEnds`, `GuestStops`, `Expunge` |

Abstractions.  A machine has the number of the job that deployed it.  The state
keeps the spelling of the source, because `is_X?` compares in lower case and the
test for a changed attribute does not.  `job_id` is kept only in the job that
carries it, the sole place it is read from.  `hostname` and `port` are one flag.
Delays of `perform_in` are left out: a job may be performed at any time.
Sidekiq's limit of 25 retries is left out, so a job that raises for ever is
retried for ever.  CloudStack is external: it accepts any command while a number
is free, a job that does not fit the state of its machine ends with status "2",
and a question about an instance without a machine gets nil or an answer without
a machine, which makes `updateState` raise.

Two facts of the code.  `destroy_vm` calls `updateState` before `canDestroy?`, so
`Destroying` has been overwritten by what CloudStack reports when it is looked
at, and a second removal is sent.  And only the next `updateState` repairs a
state written from an old reply: after `VMStart` has ended, a page that was read
before may write `Starting` again.

### Runs

| Run | Instance | Question |
|---|---|---|
| `vm_one` | 1 web process, 1 thread, every request, 2 CloudStack jobs, 1 fault | what holds when requests do not overlap each other, only the background jobs; `InstanceLife` as a property |
| `vm_two` | 2 web processes, 2 threads, approvals, 4 CloudStack jobs, 1 fault | what overlapping approvals can cost |
| `vm_live` | 1 web process, 1 thread, approve and start, 2 CloudStack jobs, no faults | what is waited for ends (what a kill between the writes of an approval leaves is `ApprovedIsRecorded`'s, in `vm_two`) |
| `vm_polls_failed` | 1 web process, 1 thread | a violation, below |

Bounds.  In `vm_two` the bound on machines is 2 + 1, so four jobs are needed for
it to fail.  In `vm_one` two jobs are a deployment and one command after it, or
two deployments with a fault between: the interplay is of copies of the row, not
of commands.  One fault puts a crash or a lost reply at every point.  A deadlock
check is left out where only approvals are made: when the one instance is
approved and its job done, nothing is left to do.

Properties.

* `TypeOK`: types, and rows and copies name jobs and machines that exist.
* `MachinesBounded`, `UnownedBounded`: one machine per web process at most, and
  one less without an owner; one more of each for a fault.  With one process and
  no fault: one machine, owned.
* `ApprovedIsRecorded`, `CreatedIsDeployed`: what the row says of its deployment
  is true, in any order of writes.
* `OneMachineForLife`: with one web process the row implements `InstanceLife`:
  requested, submitted, created, with the machine named once.
* `ApprovalSettles`, `StartPollingEnds`: approving is left, and polling after a
  start ends.

Fairness.  `FairSpec` lets actors that are at work go on and CloudStack end its
jobs (weak fairness), and asks that a question put again and again is answered in
the end and that a queued job is performed in the end (strong fairness: between
two attempts the question is not pending, and threads are busy).  A single
failure, or any finite number, is allowed at each question.  No user is forced to
make a request, and the liveness runs have no crash: a job lost with its thread
is lost for good, which is what Sidekiq's basic fetch does.

### Theorems

`VMPortalProofs` proves, for every set of Sidekiq threads, every finite set of web
processes, every set of requests and every number of jobs and faults, from
`PortalAssumption` (web processes are finite in number, and none is a thread):

* `NamesExist`: `Spec => []TypeOK`.  The invariant `Sound` follows a number from
  CloudStack's reply into an actor's hands, the row, the queue and the copies: each
  names a job or machine that was given out (`Good` says what an actor holds at
  each place), and these are never forgotten.
* `ApprovedRecorded`: `Spec => []ApprovedIsRecorded`.  `NothingRecorded`: before a
  deployment is recorded the row is new, the queue is empty, and all actors are
  where a new row leads, so nobody has another state to write; and no copy ever
  takes a recorded number back (`SavedKeepsJob`).
* `CreatedDeployed`: `Spec => []CreatedIsDeployed`.  `AllTrue`: whatever an actor is
  about to write was said by CloudStack of a deployment that succeeded, and jobs
  that succeeded stay so.
* `AtMostOnePerProcess`: `Spec => []MachinesBounded`, `UnownedFewer`:
  `Spec => []UnownedBounded`.  `Counted` is in two parts, because what bounds the
  machines changes when the row leaves pending.  While it is pending every machine
  is due to an approval that has been answered and has not written its last word,
  or to a fault; afterwards no approval begins, and machines and approvals still to
  be sent are no more than web processes and faults.
* `OneMachine`: with one web process, `Spec => OneMachineForLife`, the refinement of
  `InstanceLife`, for any number of threads.  Copies older than the row are its
  past (`OneLife`), and a machine has the number of its job (`OwnNumbers`).

`ApprovalSettles` and `StartPollingEnds` hold under fairness only and stay TLC's.

## The console

All lines are those of the bundle that `public/assets` holds; spice-html5 is in
lines 13600-20650 of it, between licences and helpers.

### One connection: `SpiceWire`, `SpiceStream`

The server's bytes arrive in chunks cut anywhere.  `SpiceWireReader.inbound` puts
chunks together until it has the bytes the connection asked for; `SpiceConn` goes
from the link header to the reply, the ticket's answer, and then from mini header
to body.  The module has each step of the two loops of `inbound` (`Combine`,
`Consume`, `InboundReturns`), one action per state of `process_inbound`, and what
happens to the socket and the timer (`Opened`, `Fails`, `CloseEvent`, `TimesOut`,
`Stopped`).  A byte is its place in what the server sent, which is all that a
wrong cut or order can disturb.

* `InStep`: after every chunk the reader is at the beginning of the piece the
  state waits for, and no whole message waits in the page.
* `ToldOnce`: one failure is reported once, but for a connection that timed out
  while its socket was still connecting, whose socket then fails too.
* `HandshakeEnds`: a connection with an error handler becomes ready or is given up.
  The timer of a connection without one throws and leaves it as it is.
* `DeliversStream`: what `process_message` is given implements `SpiceStream`: each
  message once, whole, in order, and none left while the connection lasts.

Bounds: pieces of one to three bytes and four messages, so that a chunk holds a
part of a piece, one piece or several, with and without bodies.

### Mouse and keyboard: `SpiceInputs`

The user's events as the canvas sees them, the state the client keeps, and a guest
that takes what it is sent.  `MotionWindow` says that `waiting_for_ack` is exactly
the motions not yet acknowledged and no more than two bunches, `MotionResumes`
that a full window empties, and `GuestAgrees` that pointer, buttons and modifier
keys of the guest are the user's, but for what the code loses: movements made
while the window is full (a difference that is not sent is gone for good), a
second button, presses outside the canvas, the wheel (which reports no buttons
held), modifier keys that were down before the first event or while nothing could
be sent, and the left Meta key, which the code compares with another number.  For
modifier keys it is what the page believes that the guest is compared with.  The
states are globals of the page (18756-18759), so a session begins with what the
last one left (`KnownBefore`), and its guest with every key up, since the server
releases the keys of a client that goes: a key the page believes down is excepted
until an event tells the guest of it.  Bounds: a bunch of two instead of four, two buttons, one modifier that is
recognised and one that is not, six events.

### The page and its sessions: `SpiceSession`

A visit runs `connect`, which stops the session in `sc` and opens another; the main
channel's list opens one connection for each kind; every connection may fail, be
refused, time out or be stopped at any time, and a socket that is closed while it
is connecting reports an error later.  `OneSession`: every session but the page's
is stopped and holds no socket or timer, except where the stop was cut short.
`OwnEnd`: a session ends by its own error or a visit, or because an old session's
socket failed late: `spice_error` stops whatever `sc` is by then.  Bounds: three
visits, so that an old session's late error can meet a session after the next,
and one kind of channel beside the main one; kinds do not interact.

Where the stop is cut short: `destroy_surfaces` removes the canvas from the element
of the page, and in the new body it is not there.  It throws, the main connection
stays open, and the visit gets no session.

### What is shown: `SpiceDisplay`

Surfaces, draws, copies, the image cache and video streams, message by message;
only JPEGs take time, and their `onload` runs in any order, also after the
surface is gone or its id is used again.  Beside them `want` keeps what the server
means each box to show.

A picture is drawn as the client draws it.  On an opaque surface it is stripped of
its alpha and put in the place of what was there; on one with alpha a picture
that has alpha is composited (`putImageDataWithAlpha`, 17774), and what was there
shows through (`Blended`; a picture of parts is `0`).  What an operation asks for
beyond that is drawn without it, after a FIXME in the log: clips, masks, other
raster operations, scaling, a part of the image (17830-17839, 18071-18076,
18315-18318), the clip of a stream.  Such a draw is `odd`: the server wants one
thing and the client leaves another, and may reach into boxes beside its own
(`over`).

`DisplayAgrees` says that each box shows what is wanted, or will when the JPEG it
waits for is loaded, but for the reasons named there: odd draws, blending, formats
without a decoder, JPEGs that load after a later draw, cached images that are
loading or were stripped, and copies of such boxes; and each such reason lasts
until the box is drawn again.  And what the server told the client to cache is
there or loading.  Bounds: two surfaces, two boxes, one image with alpha, one
stream, four messages: enough for a surface whose id is used again while a picture
for it loads, for a cached picture an opaque surface has stripped, and for a copy
of what was blended.  Different images are taken to have different keys in the
cache, which is so while the high halves of their ids are 0 (see `MessagesAgree`).

### A ready channel: `SpiceChannel`

The server sends while its window lets it, and the client counts what it handles
and acknowledges.  `AckLedger` is the account of the two: what the server holds
against its window is on its way, counted by the client, acknowledged, or one of
the messages the client handles without counting: pings, notices, `set_ack`
itself, and all of a channel that has no handlers.  `ServerGoesOn` follows: a
server that has stopped goes on, while those are no more than its window bears.
`ClientAgrees`: mouse mode and cursor are the server's when all has arrived.  The
exceptions are cursors the client does not follow, until the next one it does:
`CURSOR_INIT` carries the guest's current cursor, of which the client takes only
the position (19050), `CURSOR_RESET` has no handler, and `CURSOR_SET` shows pictures
with alpha only, neither from the cache nor of more than 65535 bytes (which throws,
14026).  A handler that writes to an element that Turbolinks has put aside throws; with a
body still to come the reader is then out of step for good (`lost`).  Two kinds of
server are modelled, counting every message or only the channel's own (`strict`),
since the repository has none.  Bounds: windows of none and of one message, set
twice; four messages (three on the main and the cursor channel), two on their
way.

### The data: `SpiceData` and the modules under it

Each step is one piece of data, from a peer that encodes or decodes by the protocol
(external) to what the client makes of it.

* `TicketsOpen`: RSA-OAEP with SHA-1 on the client's own big integers
  (`SpiceBigInteger` with small digits, `SpiceTicket`, `SpiceSha1`).  The hash is
  compared with a reference of its own.  The exceptions: a cipher text whose first
  byte is 0 is spelled without it and shifts (20604), and a password too long for
  the key makes a ticket of zeros.
* `QuicExact`: the adaptive decoder (`SpiceQuic`) with the encoder's statistics; every
  picture comes out as it went in.
* `PicturesExact`: LZ with overlapping matches and long offsets, bitmaps, and the PNG
  the client makes of a cursor (`SpiceCodecs`), read back chunk by chunk with CRC
  and Adler sums.  The reader of the PNG is strict: it takes the length of the
  stored block lowest byte first, as zlib does.  The exceptions: LZ pictures and
  bitmaps of several rows that are not top down come out upside down (18032; the
  flag of a bitmap is not looked at); the alpha of an RGBA bitmap is its blue; a
  cursor's sides are passed in the other order (19090); a cursor of more than 65535
  bytes throws (14026); its block is never marked as the last, and its length is
  written highest byte first, so that of some cursors fewer rows are read (14081
  says that something is not right).
* `MessagesAgree`: every layout (`SpiceMessages` on `SpiceBytes`) read or written,
  images with palettes and masks with images among them, and the scan codes: each
  key's release is the release of its press, but for Print, whose second key stays
  down.  The exceptions of the layouts: the id of an image is
  the sum of its halves (15913 shifts by nothing), so two images with high halves
  may have one id; and the data of a bitmap, a JPEG or a QUIC picture go on over
  what follows it in the message (15974), which no decoder reads.

Bounds: words of 12 bits for QUIC, digits of six bits and a key of seven bytes of
four bits for RSA, LZ fields of one and two bits.  The decoders take these widths as
CONSTANTS, so that each wrap, refill and overlap happens in a picture of a few pixels.
The SHA-1 is the real one, with texts that end in each byte of a word and around
the ends of two blocks; OAEP uses a toy hash.  Layouts have their real widths.
Cursors have one or two pixels a side, but for one of 512 bytes, whose length reads
less the other way round, and one of 65536.

### Theorems

From the assumptions named in the modules: sizes and bounds are natural numbers,
fixed parts are not empty, and the stand-ins for JavaScript's `undefined` and
`null` are no number, Boolean or picture.

* `SpiceClientProofs`, of `SpiceClient`, for every size of a bunch, set of places,
  buttons and modifiers.  `MotionsCounted`: `Spec => []MotionWindow` (`WindowInv`:
  the guest's own count is below a bunch, which a motion held back would exceed).
  `GuestFollows`: `Spec => []GuestAgrees`, from `PointerInv` (before the first
  movement the pointer is where it began; while nothing the property excepts has
  happened at most one button is held, and the guest was told of it) and
  `ModifiersInv` (a modifier the page has no state of is up in the guest),
  whatever states earlier sessions left.
  `FailureToldOnce`: `Spec => []ToldOnce`, from `ToldInv`: a connection that has
  reported is being given up, with no timer and no socket that could still open.
* The same module, of the reader, for every size of the parts of the handshake, headers and bodies, every number of messages and every cut of the
  stream into chunks.  `ReaderInStep`: `Spec => []InStep`, and `ImplementsStream`:
  the safety part of `DeliversStream`.  `StreamInv` is `ServerInv` (what the server
  may have sent so far) and `ReaderInv`: there is a piece at which the reader
  stands, its buffers are the stream from there to what has arrived, and the
  messages before it, without the one whose header is saved, are what was handed
  over.  The stream is a concatenation of sequences (`FlattenSeq`), so this needs
  induction over the number of pieces (`ListLemmas`).
* `SpiceConsoleProofs`, of the specifications of the two components by themselves
  (`SessionSpec`, `DisplaySpec`), for every number of visits, channels, surfaces,
  boxes and images.  `SpiceConsole` adds the data of the messages, most of which the
  prover cannot reach, and puts the components side by side without touching them.
  `OneAtATime`: `SessionSpec => []OneSession`, `EndsByItsOwn`: `SessionSpec =>
  OwnEnd`, with the late failure of an older session's socket as the exception that
  it is in the code.  `SessionInv`: a channel the main connection does not refer to is quiet,
  since no stop would reach it; what a stop cut short leaves behind is what the
  next one reaches; and a session that is not the page's has nothing.
  `ShowsWhatIsMeant`: `DisplaySpec => []DisplayAgrees`.  `DisplayInv`: all that is
  wanted or loading is older than the next message (`InThePast`), a JPEG that a
  box waits for is what it should show (`LoadsWanted`), and one that goes to the
  cache is whole or known not to be (`LoadsWhole`).
* The same module proves of `SpiceMessages`, for all numbers, lists of capabilities
  and lengths of tickets, what `MessagesAgree` checks of a few.  `ClientMessagesSay`:
  each message the client makes fills its buffer, and each of its numbers is read
  where the layout has it.  `FramedMessagesSay`: so it is behind the frame's header,
  which has the type and the length.  `ReadersReadWriters`: what `to_buffer` writes
  of a layout is what `from_dv` reads.  The argument goes from bytes to numbers
  (`SetGet`, with the sign of 32 bits: `WordOf`), from a number to a field that no
  later write touches (`GetSame`), along a layout (`WriteRead`, by induction over its
  fields) and over layouts put together (`CarriesConcat`).
* `SpiceChannelProofs`, of `SpiceChannel`, for every set of windows and shapes and
  every number of messages and windows set.  `OneAccount`: `Spec => []AckLedger`.
  `LedgerInv`: windows and the answers to them are in order in the two queues and
  between them (`Order`), so that an acknowledgement is known to be of the old
  window or the new one by its place, and the account balances in every state
  (`Ledger`).  `ClientFollows`: `Spec => []ClientAgrees`.  `Follows`: the last
  message under way of those that set a thing says what the server has now; with
  none under way the client has it, or the last one to say what the cursor is was
  not taken.

`HandshakeEnds`, `MotionResumes`, the fairness in `DeliversStream` and `ServerGoesOn`
stay TLC's, and so do `TicketsOpen`, `QuicExact`, `PicturesExact` and the rest of
`MessagesAgree`: see [below](#what-is-proved-and-what-is-not).

## The pages

### Turbolinks: `PageVisits`

The tab's history, the page shown, the state it is shown under, the cache, and the
request under way.  `PagesInPlace`: with nothing requested, the page shown is that
of the address, and every page kept is that of the address it is kept under;
`PageSettles`: when the user stops, that is reached.  The exception is a Back or
Forward that no handler hears: in the half second after a document is loaded, for
an entry made by a hash, or when the handler throws because there is no current
state.  What such a move leaves is not always undone by loading a page:
`reflectRedirectedUrl` replaces the state of an entry by the current one, which
is another page's if Back had gone unheard, and the entry keeps it when its
document is loaded again (`Mislabelled`).  This takes more moves than the run
makes; the attempt to prove the invariant showed it.  Bounds: three addresses,
one redirected, a cache of one page (ten in the code: the limit is then met),
three moves.

### Links and forms: `RemoteLinks`

One element of each kind that jquery_ujs handles with each of its data attributes:
clicks, submissions, confirmations, handlers that stop the request, answers, and
Turbolinks putting the page aside.  `LinksComeBack`: what is disabled for a request
has a request or a timer that will enable it, and what is enabled has its own
text.  The exceptions are what the code does: an answer whose element is in a page
put aside is not heard by the document's handlers, so the element stays disabled
when the page comes back; a form submitted twice saves the text of waiting as its
button's own; links and forms without `data-remote` are never enabled again.

### Widgets: `PageWidgets`

Menus with three copies of the script bound to one click (which works because the
number is odd), the radio buttons of the disk choice, the carousel, a tooltip with
its delay and transitions, clickovers, and the two linked lists of groupSelect.
`WidgetsAgree` has one part for each.  What it excepts or shows by the way: with
Bootstrap loaded twice every click on a disk choice leaves its input unchecked;
a carousel of one item slides for ever; a clickover shown again within 150 ms of
being hidden is taken out of the document while it is shown; of clickover's
defaults none is read under this version of Bootstrap.

### jQuery: `Deferreds`, `AjaxRequests`, `PageEvents`

`CallbacksKept` has one part for each.  Lists of callbacks, with all their flags,
are changed and fired from within their own loop: each loop has before it exactly
the callbacks it owes (`FiringExact`), and a deferred calls what was added to it
once, in order, for its outcome only (`PromiseKept`).  A handler that throws leaves
its list firing for ever, and callbacks added after `empty()` during a firing may be
passed over.  A request tells its caller one outcome and then that it is complete,
whoever aborts it and when, and `jQuery.active` counts the requests under way
(`RequestsEnd`); a request aborted in a handler of `ajaxSend` is ended twice, and
the count is off for good.  An element's handlers are those bound and not unbound,
delegates in front; an event under way has before it what was bound where it was
when it got there, deepest delegate first, less what its handlers stopped, and
nobody is called again for the element's own method (`EventsExact`).  A handler
bound with `one` takes every other binding of its function there with it, unless
it has a selector or a namespace.  Bounds: five operations on lists and requests,
three after the three handlers an element has at first.

Fairness of the pages.  A request ends in an answer or an error, an answer is
heard, and the 13 ms timer of a form fires.  Nothing makes the user go on.
Fairness of the console.  A handler runs to its end; what was sent is delivered; a
socket that was closed says so; a timer fires; motions and acknowledgements
arrive, which a connection that stays open brings about.

Bounds and deadlock.  The user may stop at any time and every module bounds what
the user does, so these runs do not look for deadlocks.

### Theorems

`PageProofs` proves, of `Page`, from the assumptions of its modules (a redirected
address leads to one that is not; `NoText`, `NoItem`, `NoState` and `NoRequest` are
values of their own; each choice of the first list has options in the second; a
page makes finitely many requests):

* `PagesStayInPlace`: `Spec => []PagesInPlace`, for all addresses, redirections,
  sizes of the cache and numbers of moves.  `VisitInv` adds what later moves rely
  on: the state the page is shown under is its own, the address requested is that
  of the entry, and entries of this document have states of the pages they show.
* `LinksComeBackAlways`: `Spec => []LinksComeBack`, for every bound on requests and
  timers, with the exceptions of the property.  `LinkInv`: of the timers under
  way the last one enables, so what is disabled is enabled last unless the page
  was put aside or the form posted.
* `WidgetsAlwaysAgree`: `Spec => []WidgetsAgree`, for every set of menus and radio
  buttons, number of items and pair of linked lists, each widget by its own part
  of `WidgetInv`.
* `RequestsAlwaysEnd`: `Spec => []RequestsEnd`, the part of `CallbacksKept` that is
  about `jQuery.ajax`, for every finite set of requests and however deep handlers
  nest.  `AjaxInv`: of the handlers running at most one is about to send a given
  request (`SentOnce`); a caller that was told the outcome only is about to be
  told the rest by one of them (`TellsCaller`); and `jQuery.active` is the number of
  requests under way and of those whose end is being told (`Counts`), until a
  handler throws or aborts a request as it is sent.

* `PromisesAlwaysKept`: `Spec => [](FiringExact /\ PromiseKept)`, for every set of
  handlers and however deep the calls nest.  `DeferredInv` (in `CallbackProofs`)
  has at most one loop on a list, all but the innermost in a callback
  (`StackFits`); the account of each list with its loop, which is `FiringExact`
  for the innermost and, for those around it, what they have still to call after
  the callback they are in; and for each outcome of a deferred (`ListFits`) that
  what was added is what was called, then what its loop owes, unless the list is
  lost for ever.  An operation from within a callback changes the lists of loops
  that are not the innermost, so each is proved of any list and the loop on it.
* `EventsAlwaysExact`: `Spec => []EventsExact`, for every depth of the page, set of
  places and listeners, and number of events under way.  `EventInv`: each
  element's table is that of what is bound to it, delegates in front (`Held`); the
  queue of each event is what is due, and all but the innermost run a handler
  (`Stack`); and the type counts as triggered just while the innermost event is
  the second one of a trigger.  That `dispatch` finds what is due (`QueueDue`)
  compares two lists put together in different orders: the code's, element by
  element from the target up and filtered at the end, with the definition's.
* `CallbacksAlwaysKept`: `Spec => []CallbacksKept`, from these two and
  `RequestsAlwaysEnd`.

`PageSettles`, which is liveness, stays TLC's.

## What is proved and what is not

Every safety invariant and safety property of the runs that pass is a theorem,
but for those in the second half of this table.

| | |
|---|---|
| Tickets | all |
| Instances | all but `ApprovalSettles` and `StartPollingEnds` |
| Connections, mouse and keyboard | all but `HandshakeEnds`, `MotionResumes` and the fairness of `DeliversStream` |
| Sessions and surfaces | all, of the two components by themselves |
| Ready channels | all but `ServerGoesOn` |
| Pages | all but `PageSettles` |
| Only model-checked: liveness | the prover has no rule for what is said under fairness, nor for ENABLED |
| The client's messages | of `MessagesAgree`, that what is written is what is read |
| Only model-checked: the other data | `TicketsOpen`, `QuicExact`, `PicturesExact`, and of `MessagesAgree` the server's messages and the scan codes: they compute with bits or with recursive functions over their input, and they are invariants of a module that uses `Bitwise` |

Induction over data is taken as far as the proofs needed it.  `ListLemmas` has it
for sets instead of predicates: `Steps` for sets of natural numbers, from the
well-foundedness of `<`, and `Grow` for sets of sequences.  With them a
concatenation of sequences (`FlattenSeq`) and what a filter leaves of one (`Only`)
can be reasoned about for every length, at the cost of a set for every statement;
so can the offsets in a layout and the writes of a message.
`Only` is `SelectSeq` written as a recursive function, because tlapm cannot unfold
the definition of the standard module.

## What the checks found

Three are runs whose property quotes the repository and which TLC violates.

* `cas_double_use`: two workers accept one service ticket (`cas.rb:174` reads,
  `cas.rb:196` writes; `cas.rb:175` "has already been used up").
* `cas_orphan_pgt`: logout deletes the session's service tickets first and then
  looks for proxy-granting tickets through them, so it never finds its own
  (`CHANGELOG:315-316`).  They stop working, because their service ticket is
  gone, but stay in the table.
* `vm_polls_failed`: `VMDeploy` polls a failed deployment for ever: it compares
  with `"error"` the state of its snapshot, which is always `"approving"`
  (`vm_deploy.rb:6`).

The exceptions written into the properties above are the others: each is there
because without it TLC shows the behaviour.

Reading alone shows some more.  With single sign-out, one ticket for a service
that does not parse makes logout of that session fail every time (`cas.rb:244`;
the models have it as `LogoutAborts`).  `VMDestroy` compares a string with integers
(`vm_destroy.rb:8`), so a removal that is complete is never marked.  Proxy tickets
stay after logout, because the association has class `ServiceTicket`
(`server.rb:528`, `model.rb:59`), and nothing calls `cleanup` (`server.rb:30`,
`consumable.rb:15`).  Before a picture of 5 bits QUIC resets the 8-bit buckets
(14758), which no picture the client draws shows.

## Not modelled

`PROJECT.json` lists every component with its status.  Left out:

* bkdatabase.  The shared list is one cache entry that every request clears and
  refills; the connection cache is a hash; creating and dropping a database are
  statements of external servers in one request; stores turn a call into one
  statement.  Neither code nor docs say what two users at once should see.
* The scripts of the MySQL cluster and of Cassandra.  One operator or a Zabbix
  action runs each from top to bottom; what they read and change is kept by Zabbix,
  CloudStack and the nodes, whose answers the repository does not describe.  The
  hazards seen in reading them: names counted from Zabbix's hosts, host ids
  subtracted as strings, a loop that ends on any answer.
* `clean_service_url` and `GET /sync`: a pure function of strings, and three tables
  rebuilt in one request.
* The web socket proxy: the script looks for a free port and starts websockify on
  it; its race is with other shells and the kernel's port table.
* Of the console client: `sendCtrlAltDel` (no page calls it), messages that are only logged, the agent's tokens, the 16-bit and grey
  forms of QUIC, dumps and logging.
* Of the pages: responses without a `Content-Type`, on which Turbolinks' check throws
  (20901); handlers at the document that stop a link's or a form's events; CSRF tokens and scripts of a page Turbolinks loads, prefilters and
  converters of requests, special events, animations; Bootstrap's alert (which only
  closes) and its modal, collapse, tab, scrollspy and affix, that no page uses.
* Start-up and logging, Devise forms, mail, monitoring probes, the unused Resque
  jobs, and other vendored code.

## Running it

    tlc -workers 2 -config CAS_two.cfg MCCASTickets.tla
    tlc -workers 2 -config VM_one.cfg MCVMPortal.tla
    tlc -workers 2 -config Spice_client.cfg MCSpiceClient.tla
    tlc -workers 2 -config Spice_console.cfg MCSpiceConsole.tla
    tlc -workers 2 -config Spice_channel.cfg MCSpiceChannel.tla
    tlc -workers 2 -config Page.cfg MCPage.tla
    tlapm CASTicketsProofs.tla
    tlapm VMPortalProofs.tla
    tlapm SpiceClientProofs.tla
    tlapm SpiceConsoleProofs.tla
    tlapm SpiceChannelProofs.tla
    tlapm ListLemmas.tla
    tlapm CallbackProofs.tla
    tlapm PageProofs.tla

Each run takes from half a minute to three minutes, each module of proofs a few
minutes.
