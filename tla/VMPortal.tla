------------------------------- MODULE VMPortal -------------------------------
(***************************************************************************)
(* One virtual machine of the portal, from the request for it to its       *)
(* removal (bkclient-portal: app/models/instance.rb, app/workers,          *)
(* app/controllers/instances_controller.rb).                               *)
(*                                                                         *)
(* Three parties: the row of the instance, CloudStack with its machines    *)
(* and its asynchronous jobs, and the actors that hold a copy of the row   *)
(* (web processes serving a request, Sidekiq threads performing a job).    *)
(* A request to CloudStack and a write of the row are steps of their own:  *)
(* another actor may run between any two.  What a method computes from     *)
(* its copy alone happens at the end of the step before.                   *)
(***************************************************************************)
EXTENDS Integers, FiniteSets

CONSTANTS
  Web,        \* processes that serve requests
  Sidekiq,    \* threads that perform background jobs
  Request,    \* the requests users and admins make
  MaxJobs,    \* bound: asynchronous jobs CloudStack accepts
  MaxFaults   \* bound: actors killed, and replies lost after their effect

Requests == {"approve", "admin_page", "show", "start", "stop", "remove"}

ASSUME PortalAssumption ==
  /\ IsFiniteSet(Web)
  /\ Web \cap Sidekiq = {}
  /\ Request \subseteq Requests
  /\ MaxJobs \in Nat /\ MaxFaults \in Nat

Actor == Web \cup Sidekiq

NoJob    == 0     \* job_created_id is NULL
Complete == -1    \* job_created_id is "1"
Job      == 1..MaxJobs

\* A machine has the number of the job that deployed it; 0 is no machine.
Machine == 1..MaxJobs

VARIABLES
  db,       \* the row of the instance
  queue,    \* jobs in Redis
  machine,  \* CloudStack: the state of each machine
  job,      \* CloudStack: the asynchronous jobs
  actor,    \* the local variables of each actor
  faults    \* how many faults have happened

vars == <<db, queue, machine, job, actor, faults>>

-------------------------------------------------------------------------------
(* Rows, jobs and actors.                                                  *)

CloudState  == {"Starting", "Running", "Stopping", "Stopped", "Destroyed",
                "Error"}
PortalState == {"pending", "approving", "starting", "stopping", "Destroying"}
State       == CloudState \cup PortalState

\* What is_X? compares: the state in lower case.
Downcase(s) ==
  CASE s = "Starting"   -> "starting"
    [] s = "Running"    -> "running"
    [] s = "Stopping"   -> "stopping"
    [] s = "Stopped"    -> "stopped"
    [] s = "Destroying" -> "destroying"
    [] s = "Destroyed"  -> "destroyed"
    [] s = "Error"      -> "error"
    [] OTHER            -> s

Is(row, s) == Downcase(row.state) = s

Leaving(row) == Is(row, "destroying") \/ Is(row, "destroyed")

\* console: hostname and port have been written.  The column job_id is only
\* read from the snapshot a background job carries, and is kept there.
Row == [state : State, job_created_id : Job \cup {NoJob, Complete},
        instance_id : Machine \cup {0}, console : BOOLEAN]

NewRow == [state |-> "pending", job_created_id |-> NoJob, instance_id |-> 0,
           console |-> FALSE]

\* A background job: its class and what it uses of the snapshot of the row.
\* job is the CloudStack job the snapshot was taken after.
Work   == [class : {"VMDeploy", "VMStart", "VMStop", "VMDestroy"},
           state : State, job : Job]
NoWork == [class |-> "none", state |-> "pending", job |-> 0]

Methods == Requests \cup {"canStart", "canStop", "VMDeploy", "VMStart", "VMStop",
                          "VMDestroy", "VNCToSPICE"}

\* at: the next request to CloudStack or write of the method; caller tells
\* whether updateState was called by isCreated or by the method itself.
Points == {"idle", "load", "isCreated", "query", "markError", "markCreated",
           "updateState", "saveState", "post", "saveJob", "save", "enqueue",
           "again", "ssh", "saveConsole", "saveError"}

Local == [method : Methods \cup {"none"}, at : Points,
          caller : {"none", "isCreated", "method"},
          row : Row, state : State, job : Job \cup {0},
          work : Work \cup {NoWork}]

Idle == [method |-> "none", at |-> "idle", caller |-> "none", row |-> NewRow,
         state |-> "pending", job |-> 0, work |-> NoWork]

Init ==
  /\ db = NewRow
  /\ queue = {}
  /\ machine = [m \in {} |-> "Error"]
  /\ job = [j \in {} |-> 0]
  /\ actor = [a \in Actor |-> Idle]
  /\ faults = 0

Become(a, x) == actor' = [actor EXCEPT ![a] = x]

\* update_attributes!: the attributes that differ from the copy are written.
Dirty(old, new, stored) == IF new = old THEN stored ELSE new

Saved(old, new) ==
  [state          |-> Dirty(old.state, new.state, db.state),
   job_created_id |-> Dirty(old.job_created_id, new.job_created_id,
                            db.job_created_id),
   instance_id    |-> Dirty(old.instance_id, new.instance_id, db.instance_id),
   console        |-> Dirty(old.console, new.console, db.console)]

-------------------------------------------------------------------------------
(* Where a method goes on, computed from the actor's own variables.        *)

\* Nothing of a job is kept but the job, to be put back on the queue.
Repeat(x) == [Idle EXCEPT !.method = x.method, !.at = "again", !.work = x.work]

Reload(x) == [Idle EXCEPT !.method = x.method, !.at = "load", !.work = x.work]

\* An exception: the request ends with status 500, Sidekiq retries the job.
Raised(a, x) == IF a \in Sidekiq THEN Repeat(x) ELSE Idle

Post(x) == [x EXCEPT !.at = "post", !.caller = "none"]

CallUpdateState(x, by) == [x EXCEPT !.at = "updateState", !.caller = by]

CheckCreated(x) == [x EXCEPT !.at = "isCreated", !.caller = "none"]

\* The page of show renders two buttons, each of which calls isCreated.
Buttons(x) == [x EXCEPT !.method = "canStart", !.at = "isCreated",
                        !.caller = "none"]

\* isCreated has returned ok.
CreatedReturns(x, ok) ==
  CASE x.method = "show" ->
         IF ok THEN CallUpdateState(x, "method") ELSE Buttons(x)
    [] x.method = "canStart" ->
         [x EXCEPT !.method = "canStop", !.at = "isCreated", !.caller = "none"]
    [] x.method = "start" ->
         IF ok /\ Is(x.row, "stopped") THEN Post(x) ELSE Idle
    [] x.method = "stop" ->
         IF ok /\ Is(x.row, "running") THEN Post(x) ELSE Idle
    [] x.method = "remove" ->
         IF ok THEN Post(x) ELSE Idle
    [] x.method = "VMDeploy" ->
         IF ~ok /\ x.work.state # "error" THEN Repeat(x) ELSE Reload(x)
    [] x.method = "VNCToSPICE" ->
         IF ok THEN CallUpdateState(x, "method") ELSE Idle
    [] OTHER -> Idle

\* isCreated once the machine is known.
Alive(x) == IF Leaving(x.row) THEN CreatedReturns(x, FALSE)
                              ELSE CallUpdateState(x, "isCreated")

\* Mutant: poll until the machine is running.
StartPolledUntilRunning(x, ok) ==
  IF ok /\ Is(x.row, "running") THEN Reload(x) ELSE Repeat(x)

\* VMStart has asked for the state.
StartPolled(x, ok) ==
  IF ~ok \/ Is(x.row, "starting") THEN Repeat(x)
  ELSE IF Is(x.row, "running") THEN Reload(x) ELSE Idle

\* VMStop has asked for the state.
StopPolled(x, ok) ==
  IF ~ok \/ Is(x.row, "stopping") THEN Repeat(x) ELSE Idle

\* updateState, called by the method itself, has returned x.row.state or false.
StateReturns(a, x, ok) ==
  CASE x.method = "show"  -> Buttons(x)
    [] x.method = "start" -> CheckCreated(x)
    [] x.method = "stop"  -> IF ok THEN CheckCreated(x) ELSE Idle
    [] x.method = "remove" ->
         IF ok /\ ~Leaving(x.row) THEN CheckCreated(x) ELSE Idle
    [] x.method = "VMStart" -> StartPolled(x, ok)
    [] x.method = "VMStop"  -> StopPolled(x, ok)
    [] x.method = "VNCToSPICE" ->
         IF ~ok THEN Raised(a, x)        \* false has no downcase
         ELSE IF Is(x.row, "running")
              THEN [x EXCEPT !.at = "ssh", !.caller = "none"] ELSE Idle
    [] OTHER -> Idle

UpdateReturns(a, x, ok) ==
  IF x.caller = "method" THEN StateReturns(a, x, ok)
  ELSE CreatedReturns(x, ~Leaving(x.row))

-------------------------------------------------------------------------------
(* CloudStack.                                                             *)

Fresh == {j \in Job \ DOMAIN job : \A i \in Job \ DOMAIN job : j <= i}

Insert(table, i, row) ==
  [j \in DOMAIN table \cup {i} |-> IF j = i THEN row ELSE table[j]]

\* The state a machine takes when a job is accepted.
Underway(kind, m) ==
  CASE kind = "start" /\ machine[m] = "Stopped" -> "Starting"
    [] kind \in {"stop", "remove"} /\ machine[m] = "Running" -> "Stopping"
    [] OTHER -> machine[m]

\* CloudStack answers an asynchronous command with job j.
Accept(kind, m, j) ==
  /\ j \in Fresh
  /\ IF kind = "approve"
     THEN /\ machine' = Insert(machine, j, "Starting")
          /\ job' = Insert(job, j, [kind |-> kind, machine |-> j, status |-> "0"])
     ELSE /\ m \in DOMAIN machine
          /\ machine' = [machine EXCEPT ![m] = Underway(kind, m)]
          /\ job' = Insert(job, j, [kind |-> kind, machine |-> m, status |-> "0"])

\* How a job may end: the state of its machine and its status.
Endings(kind, s) ==
  CASE kind = "approve" -> {<<"Running", "1">>, <<"Error", "2">>}
    [] kind = "start" /\ s = "Starting" -> {<<"Running", "1">>, <<"Stopped", "2">>}
    [] kind = "stop" /\ s = "Stopping" -> {<<"Stopped", "1">>, <<"Running", "2">>}
    [] kind = "remove" /\ s # "Expunged" -> {<<"Destroyed", "1">>}
    [] OTHER -> {<<s, "2">>}

JobEnds(j) ==
  /\ job[j].status = "0"
  /\ \E e \in Endings(job[j].kind, machine[job[j].machine]) :
       /\ machine' = [machine EXCEPT ![job[j].machine] = e[1]]
       /\ job' = [job EXCEPT ![j].status = e[2]]
  /\ UNCHANGED <<db, queue, actor, faults>>

\* A machine is shut down from inside; a destroyed one is erased.
GuestStops(m) ==
  /\ machine[m] = "Running"
  /\ machine' = [machine EXCEPT ![m] = "Stopped"]
  /\ UNCHANGED <<db, queue, job, actor, faults>>

Expunge(m) ==
  /\ machine[m] = "Destroyed"
  /\ machine' = [machine EXCEPT ![m] = "Expunged"]
  /\ UNCHANGED <<db, queue, job, actor, faults>>

cloud == <<machine, job>>

-------------------------------------------------------------------------------
(* Requests and jobs begin.                                                *)

Start(method, at, w) ==
  [Idle EXCEPT !.method = method, !.at = at, !.row = db, !.work = w,
               !.caller = IF at = "updateState" THEN "method" ELSE "none"]

\* Mutant: deploy does not look at the state.
ApproveAny(a) ==
  /\ "approve" \in Request
  /\ a \in Web /\ actor[a].at = "idle"
  /\ Become(a, Start("approve", "post", NoWork))
  /\ UNCHANGED <<db, queue, cloud, faults>>

\* approve: instance.deploy does nothing unless the copy is pending.
Approve(a) ==
  /\ "approve" \in Request
  /\ a \in Web /\ actor[a].at = "idle"
  /\ Is(db, "pending")
  /\ Become(a, Start("approve", "post", NoWork))
  /\ UNCHANGED <<db, queue, cloud, faults>>

\* The page of all instances asks isCreated of each.
AdminPage(a) ==
  /\ "admin_page" \in Request
  /\ a \in Web /\ actor[a].at = "idle"
  /\ Become(a, Start("admin_page", "isCreated", NoWork))
  /\ UNCHANGED <<db, queue, cloud, faults>>

Show(a) ==
  /\ "show" \in Request
  /\ a \in Web /\ actor[a].at = "idle"
  /\ Become(a, Start("show", "isCreated", NoWork))
  /\ UNCHANGED <<db, queue, cloud, faults>>

\* start, stop and destroy_vm begin with updateState.
Press(a, method) ==
  /\ method \in Request
  /\ a \in Web /\ actor[a].at = "idle"
  /\ Become(a, Start(method, "updateState", NoWork))
  /\ UNCHANGED <<db, queue, cloud, faults>>

\* A Sidekiq thread takes a job off the queue.
Perform(a, w) ==
  /\ a \in Sidekiq /\ actor[a].at = "idle"
  /\ queue' = queue \ {w}
  /\ Become(a, Start(w.class, CASE w.class = "VMDeploy"  -> "isCreated"
                                [] w.class = "VMDestroy" -> "post"
                                [] OTHER                 -> "updateState", w))
  /\ UNCHANGED <<db, cloud, faults>>

-------------------------------------------------------------------------------
(* isCreated.                                                              *)

IsCreated(a) ==
  LET x == actor[a]
  IN  /\ x.at = "isCreated"
      /\ Become(a, CASE x.row.job_created_id = NoJob -> CreatedReturns(x, FALSE)
                     [] x.row.job_created_id = Complete -> Alive(x)
                     [] OTHER -> [x EXCEPT !.at = "query"])
      /\ UNCHANGED <<db, queue, cloud, faults>>

\* Mutant: every job that is over counts as a success.
QueryAnsweredOver(a) ==
  LET x == actor[a]
  IN  /\ x.at = "query"
      /\ Become(a, IF job[x.row.job_created_id].status = "0"
                   THEN CreatedReturns(x, FALSE)
                   ELSE [x EXCEPT !.at = "markCreated"])
      /\ UNCHANGED <<db, queue, cloud, faults>>

\* queryAsyncJobResult for the job that deploys.
QueryAnswered(a) ==
  LET x == actor[a]
      status == job[x.row.job_created_id].status
  IN  /\ x.at = "query"
      /\ Become(a, CASE status = "0" -> CreatedReturns(x, FALSE)
                     [] status = "1" -> [x EXCEPT !.at = "markCreated"]
                     [] OTHER        -> [x EXCEPT !.at = "markError"])
      /\ UNCHANGED <<db, queue, cloud, faults>>

QueryFails(a) ==
  /\ actor[a].at = "query"
  /\ Become(a, CreatedReturns(actor[a], FALSE))
  /\ UNCHANGED <<db, queue, cloud, faults>>

MarkError(a) ==
  LET x   == actor[a]
      new == [x.row EXCEPT !.state = "Error"]
  IN  /\ x.at = "markError"
      /\ db' = Saved(x.row, new)
      /\ Become(a, CreatedReturns([x EXCEPT !.row = new], FALSE))
      /\ UNCHANGED <<queue, cloud, faults>>

\* Mutant: job_created_id keeps the number of the job.
MarkCreatedOnly(a) ==
  LET x   == actor[a]
      new == [x.row EXCEPT !.state = "Running",
                           !.instance_id = job[x.row.job_created_id].machine]
  IN  /\ x.at = "markCreated"
      /\ db' = Saved(x.row, new)
      /\ Become(a, Alive([x EXCEPT !.row = new]))
      /\ UNCHANGED <<queue, cloud, faults>>

MarkCreated(a) ==
  LET x   == actor[a]
      new == [x.row EXCEPT !.state = "Running", !.job_created_id = Complete,
                           !.instance_id = job[x.row.job_created_id].machine]
  IN  /\ x.at = "markCreated"
      /\ db' = Saved(x.row, new)
      /\ Become(a, Alive([x EXCEPT !.row = new]))
      /\ UNCHANGED <<queue, cloud, faults>>

-------------------------------------------------------------------------------
(* updateState.                                                            *)

\* It returns false at once for a copy that is destroyed.
UpdateSkipped(a) ==
  LET x == actor[a]
  IN  /\ x.at = "updateState" /\ Is(x.row, "destroyed")
      /\ Become(a, UpdateReturns(a, x, FALSE))
      /\ UNCHANGED <<db, queue, cloud, faults>>

\* Mutant: a reply without the machine is taken for a state.
UpdateAnsweredAny(a) ==
  LET x == actor[a]
  IN  /\ x.at = "updateState" /\ ~Is(x.row, "destroyed")
      /\ x.row.instance_id \in DOMAIN machine
      /\ Become(a, [x EXCEPT !.at = "saveState",
                             !.state = machine[x.row.instance_id]])
      /\ UNCHANGED <<db, queue, cloud, faults>>

\* listVirtualMachines answers with the state of the machine.
UpdateAnswered(a) ==
  LET x == actor[a]
  IN  /\ x.at = "updateState" /\ ~Is(x.row, "destroyed")
      /\ x.row.instance_id \in DOMAIN machine
      /\ machine[x.row.instance_id] # "Expunged"
      /\ Become(a, [x EXCEPT !.at = "saveState",
                             !.state = machine[x.row.instance_id]])
      /\ UNCHANGED <<db, queue, cloud, faults>>

UpdateFails(a) ==
  LET x == actor[a]
  IN  /\ x.at = "updateState" /\ ~Is(x.row, "destroyed")
      /\ Become(a, UpdateReturns(a, x, FALSE))
      /\ UNCHANGED <<db, queue, cloud, faults>>

\* A reply without the machine: nil has no ["state"].
UpdateRaises(a) ==
  LET x == actor[a]
  IN  /\ x.at = "updateState" /\ ~Is(x.row, "destroyed")
      /\ x.row.instance_id \in DOMAIN machine =>
           machine[x.row.instance_id] = "Expunged"
      /\ Become(a, Raised(a, x))
      /\ UNCHANGED <<db, queue, cloud, faults>>

SaveState(a) ==
  LET x   == actor[a]
      new == [x.row EXCEPT !.state = x.state]
  IN  /\ x.at = "saveState"
      /\ db' = Saved(x.row, new)
      /\ Become(a, UpdateReturns(a, [x EXCEPT !.row = new, !.state = "pending"],
                                 TRUE))
      /\ UNCHANGED <<queue, cloud, faults>>

-------------------------------------------------------------------------------
(* The commands: deploy, start, stop, destroy.                             *)

Commands == {"approve", "start", "stop", "remove"}

Posting(a) == actor[a].at = "post" /\ actor[a].method \in Commands

\* Mutant: deploy does not record its job.
CommandAnsweredUnrecorded(a) ==
  LET x == actor[a]
  IN  /\ Posting(a)
      /\ \E j \in Fresh :
           /\ Accept(x.method, x.row.instance_id, j)
           /\ Become(a, [x EXCEPT !.job = j, !.at = "save"])
      /\ UNCHANGED <<db, queue, faults>>

\* CloudStack accepts the command and the reply carries the number of its job.
CommandAnswered(a) ==
  LET x == actor[a]
  IN  /\ Posting(a)
      /\ \E j \in Fresh :
           /\ Accept(x.method, x.row.instance_id, j)
           /\ Become(a, [x EXCEPT !.job = j,
                           !.at = IF x.method = "approve" THEN "saveJob"
                                                          ELSE "save"])
      /\ UNCHANGED <<db, queue, faults>>

\* The command is accepted and the reply lost: postRequest returns nil.
CommandLost(a) ==
  LET x == actor[a]
  IN  /\ Posting(a)
      /\ faults < MaxFaults /\ faults' = faults + 1
      /\ \E j \in Fresh : Accept(x.method, x.row.instance_id, j)
      /\ Become(a, Idle)
      /\ UNCHANGED <<db, queue>>

CommandRefused(a) ==
  /\ Posting(a)
  /\ Become(a, Idle)
  /\ UNCHANGED <<db, queue, cloud, faults>>

\* deploy writes the job and the state in two statements.
SaveJob(a) ==
  LET x == actor[a]
  IN  /\ x.at = "saveJob"
      /\ db' = [db EXCEPT !.job_created_id = x.job]
      /\ Become(a, [x EXCEPT !.at = "save", !.row.job_created_id = x.job])
      /\ UNCHANGED <<queue, cloud, faults>>

\* Mutant: the state is left as it is.
SaveApprovingForgotten(a) ==
  /\ actor[a].at = "save" /\ actor[a].method = "approve"
  /\ Become(a, [actor[a] EXCEPT !.at = "enqueue"])
  /\ UNCHANGED <<db, queue, cloud, faults>>

SaveApproving(a) ==
  LET x == actor[a]
  IN  /\ x.at = "save" /\ x.method = "approve"
      /\ db' = [db EXCEPT !.state = "approving"]
      /\ Become(a, [x EXCEPT !.at = "enqueue", !.row.state = "approving"])
      /\ UNCHANGED <<queue, cloud, faults>>

StateAfter(method) ==
  CASE method = "start" -> "starting"
    [] method = "stop"  -> "stopping"
    [] OTHER            -> "Destroying"

SaveCommand(a) ==
  LET x   == actor[a]
      new == [x.row EXCEPT !.state = StateAfter(x.method)]
  IN  /\ x.at = "save" /\ x.method # "approve"
      /\ db' = Saved(x.row, new)
      /\ Become(a, [x EXCEPT !.at = "enqueue", !.row = new])
      /\ UNCHANGED <<queue, cloud, faults>>

ClassFor(method) ==
  CASE method = "approve" -> "VMDeploy"
    [] method = "start"   -> "VMStart"
    [] method = "stop"    -> "VMStop"
    [] OTHER              -> "VMDestroy"

Enqueue(a) ==
  LET x == actor[a]
  IN  /\ x.at = "enqueue"
      /\ queue' = queue \cup {[class |-> ClassFor(x.method),
                               state |-> x.row.state, job |-> x.job]}
      /\ Become(a, Idle)
      /\ UNCHANGED <<db, cloud, faults>>

-------------------------------------------------------------------------------
(* The rest of the background jobs.                                        *)

\* Mutant: a job is performed once.
AgainDropped(a) ==
  /\ actor[a].at = "again"
  /\ Become(a, Idle)
  /\ UNCHANGED <<db, queue, cloud, faults>>

\* perform_in, or the retry of a job that raised.
Again(a) ==
  /\ actor[a].at = "again"
  /\ queue' = queue \cup {actor[a].work}
  /\ Become(a, Idle)
  /\ UNCHANGED <<db, cloud, faults>>

\* Instance.VNCToSPICEProtocol reads the row again.
LoadForSpice(a) ==
  /\ actor[a].at = "load"
  /\ Become(a, Start("VNCToSPICE", "isCreated", actor[a].work))
  /\ UNCHANGED <<db, queue, cloud, faults>>

SshSucceeds(a) ==
  /\ actor[a].at = "ssh"
  /\ Become(a, [actor[a] EXCEPT !.at = "saveConsole"])
  /\ UNCHANGED <<db, queue, cloud, faults>>

SshFails(a) ==
  /\ actor[a].at = "ssh"
  /\ Become(a, Idle)
  /\ UNCHANGED <<db, queue, cloud, faults>>

SaveConsole(a) ==
  LET x == actor[a]
  IN  /\ x.at = "saveConsole"
      /\ db' = Saved(x.row, [x.row EXCEPT !.console = TRUE])
      /\ Become(a, Idle)
      /\ UNCHANGED <<queue, cloud, faults>>

\* VMDestroy asks for its job.  The status is a string, "0", "1" or "2", and is
\* compared with integers: no branch is taken, whatever the answer.
DestroyAnswered(a) ==
  /\ actor[a].at = "post" /\ actor[a].method = "VMDestroy"
  /\ Become(a, Idle)
  /\ UNCHANGED <<db, queue, cloud, faults>>

\* No answer is an error.  Reading the row and writing it are one step: the
\* state is not written only if it is Error already.
DestroyFails(a) ==
  /\ actor[a].at = "post" /\ actor[a].method = "VMDestroy"
  /\ Become(a, [actor[a] EXCEPT !.at = "saveError"])
  /\ UNCHANGED <<db, queue, cloud, faults>>

SaveError(a) ==
  /\ actor[a].at = "saveError"
  /\ db' = [db EXCEPT !.state = "Error"]
  /\ Become(a, Idle)
  /\ UNCHANGED <<queue, cloud, faults>>

\* A process is killed.  Sidekiq's job is gone: it was taken off the queue.
Killed(a) ==
  /\ actor[a].at # "idle"
  /\ faults < MaxFaults /\ faults' = faults + 1
  /\ Become(a, Idle)
  /\ UNCHANGED <<db, queue, cloud>>

-------------------------------------------------------------------------------
(* The specification.                                                      *)

Begins(a) ==
  \/ Approve(a) \/ AdminPage(a) \/ Show(a)
  \/ \E m \in {"start", "stop", "remove"} : Press(a, m)
  \/ \E w \in queue : Perform(a, w)

\* The end of a request to CloudStack or to ssh.
Replies(a) ==
  \/ QueryAnswered(a) \/ QueryFails(a)
  \/ UpdateAnswered(a) \/ UpdateFails(a) \/ UpdateRaises(a)
  \/ CommandAnswered(a) \/ CommandRefused(a)
  \/ DestroyAnswered(a) \/ DestroyFails(a)
  \/ SshSucceeds(a) \/ SshFails(a)

Computes(a) ==
  \/ IsCreated(a) \/ MarkError(a) \/ MarkCreated(a)
  \/ UpdateSkipped(a) \/ SaveState(a)
  \/ SaveJob(a) \/ SaveApproving(a) \/ SaveCommand(a) \/ Enqueue(a)
  \/ Again(a) \/ LoadForSpice(a) \/ SaveConsole(a) \/ SaveError(a)

Next ==
  \/ \E a \in Actor : \/ Begins(a) \/ Replies(a) \/ Computes(a)
                      \/ CommandLost(a) \/ Killed(a)
  \/ \E j \in DOMAIN job : JobEnds(j)
  \/ \E m \in DOMAIN machine : GuestStops(m) \/ Expunge(m)

Spec == Init /\ [][Next]_vars

PerformFor(j) == \E a \in Sidekiq, w \in queue : w.job = j /\ Perform(a, w)

\* The method's own updateState is answered.
AnsweredTo(a, method) ==
  /\ actor[a].method = method /\ actor[a].caller = "method"
  /\ UpdateAnswered(a)

\* Actors go on, a question asked again and again is answered in the end,
\* Sidekiq performs what is queued, and CloudStack ends its jobs.  Nobody has to
\* make a request.
Fairness ==
  /\ \A a \in Actor : WF_vars(Replies(a) \/ Computes(a))
  /\ \A a \in Sidekiq :
       /\ SF_vars(QueryAnswered(a))
       /\ \A m \in {"VMStart", "VMStop", "VNCToSPICE"} : SF_vars(AnsweredTo(a, m))
  /\ \A j \in Job : /\ SF_vars(PerformFor(j))
                    /\ WF_vars(j \in DOMAIN job /\ JobEnds(j))

FairSpec == Spec /\ Fairness

-------------------------------------------------------------------------------
(* Properties.                                                             *)

JobRow == [kind : Commands, machine : Machine, status : {"0", "1", "2"}]

Types ==
  /\ db \in Row
  /\ queue \subseteq Work
  /\ DOMAIN machine \subseteq Machine
  /\ \A m \in DOMAIN machine : machine[m] \in CloudState \cup {"Expunged"}
  /\ DOMAIN job \subseteq Job
  /\ \A j \in DOMAIN job : job[j] \in JobRow
  /\ actor \in [Actor -> Local]
  /\ faults \in 0..MaxFaults

KnownRow(row) ==
  /\ row.job_created_id \in DOMAIN job \cup {NoJob, Complete}
  /\ row.instance_id \in DOMAIN machine \cup {0}

\* Types, and numbers that CloudStack has given out: a row or a copy of it names
\* jobs and machines that exist, and a job a machine.
TypeOK ==
  /\ Types
  /\ KnownRow(db)
  /\ \A a \in Actor : KnownRow(actor[a].row)
  /\ \A j \in DOMAIN job : job[j].machine \in DOMAIN machine

\* However approvals overlap, the portal deploys at most one machine per web
\* process for an instance, and one more for each process killed or reply lost
\* on the way: once one approval is recorded, no later one deploys
\* (instance.rb:150).
MachinesBounded == Cardinality(DOMAIN machine) <= Cardinality(Web) + faults

Owned(m) == \/ m \in {db.job_created_id, db.instance_id}
            \/ \E a \in Actor : actor[a].at = "saveJob" /\ actor[a].job = m

\* A machine that no record leads to is the price of an overlapping approval or
\* of a fault: with one web process and no fault there is none.
UnownedBounded ==
  Cardinality({m \in DOMAIN machine : ~Owned(m)}) <= Cardinality(Web) - 1 + faults

\* An instance past approval has its deployment recorded, wherever a process was
\* killed and whatever stale copy was written (instance.rb:164-165).
ApprovedIsRecorded == ~Is(db, "pending") => db.job_created_id # NoJob

\* A record that says the machine was created names a machine whose deployment
\* succeeded, and only such a record has a console (instance.rb:283, 131).
CreatedIsDeployed ==
  /\ db.job_created_id = Complete => db.instance_id # 0
  /\ db.console => db.instance_id # 0
  /\ db.instance_id # 0 =>
       \E j \in DOMAIN job : /\ job[j].kind = "approve" /\ job[j].status = "1"
                             /\ job[j].machine = db.instance_id

\* With one web process the row lives the life of InstanceLife: the machine is
\* named together with the end of the deployment, and never changes.
Life == INSTANCE InstanceLife
          WITH Machines <- Machine,
               phase    <- CASE db.job_created_id = NoJob    -> "requested"
                             [] db.job_created_id = Complete -> "created"
                             [] OTHER                        -> "submitted",
               named    <- db.instance_id
OneMachineForLife == Life!Spec

\* An approved instance does not stay approving: the job polls until CloudStack
\* tells how the deployment ended (vm_deploy.rb:6-8, instance.rb:277, 286).
ApprovalSettles == Is(db, "approving") ~> ~Is(db, "approving")

\* The job is on the queue or in the hands of a thread.
Pending(class, j) ==
  \/ \E w \in queue : w.class = class /\ w.job = j
  \/ \E a \in Sidekiq : actor[a].work.class = class /\ actor[a].work.job = j

\* While nobody removes the machine, the polling after a start ends, whatever
\* else happens to the machine meanwhile (vm_start.rb:7).
StartPollingEnds == \A j \in Job : Pending("VMStart", j) ~> ~Pending("VMStart", j)

\* A deployment that has failed is not polled for ever: CloudStack has said that
\* the job is over, and the record says Error.
FailedDeploymentDropped ==
  \A j \in Job :
    (Is(db, "error") /\ Pending("VMDeploy", j)) ~> ~Pending("VMDeploy", j)

===============================================================================
