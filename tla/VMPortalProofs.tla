---------------------------- MODULE VMPortalProofs ----------------------------
(***************************************************************************)
(* Theorems about VMPortal for every set of web processes and threads and  *)
(* every bound: what the record says of the machine, and how many machines *)
(* are deployed and which of them the record names.                        *)
(***************************************************************************)
EXTENDS VMPortal, FiniteSetTheorems, TLAPS

-------------------------------------------------------------------------------
(* The inductive invariants.  J and M are the jobs and the machines that   *)
(* CloudStack has given out; both only grow.                               *)

Background == {"VMDeploy", "VMStart", "VMStop", "VMDestroy", "VNCToSPICE"}

KnownIn(row, J, M) ==
  row.job_created_id \in J \cup {NoJob, Complete} /\ row.instance_id \in M \cup {0}

\* Whoever performs a background job holds it, to put it back on the queue.
HoldsWork(a, x) ==
  a \in Sidekiq \/ x.method \in Background => x.work \in Work

\* An actor between two steps: its copy of the row names what exists, and what
\* it goes on with is there.
Good(a, x, J, M) ==
  /\ x \in Local
  /\ KnownIn(x.row, J, M)
  /\ x.at \in {"query", "markError", "markCreated"} => x.row.job_created_id \in J
  /\ x.at \in {"saveJob", "save", "enqueue"} => x.job \in J
  /\ x.at # "idle" => HoldsWork(a, x)
  /\ x.at \in {"again", "load"} => x.work \in Work

Actors == \A a \in Actor : Good(a, actor[a], DOMAIN job, DOMAIN machine)

MachinesOfJobs == \A j \in DOMAIN job : job[j].machine \in DOMAIN machine

Sound == Types /\ KnownRow(db) /\ MachinesOfJobs /\ Actors

\* Before a deployment is recorded: there is no background job, the copies are of
\* the new row, and only approvals have gone past isCreated and updateState.
Unrecorded(a, x) ==
  /\ x.row = NewRow
  /\ x.at \in {"idle", "isCreated", "updateState", "post", "saveJob"}
  /\ x.at # "idle" => a \in Web /\ x.method \notin Background
  /\ x.at = "updateState" => x.caller = "method"
  /\ x.at \in {"post", "saveJob"} => x.method = "approve"

NothingRecorded ==
  db.job_created_id = NoJob =>
    /\ db = NewRow /\ queue = {}
    /\ \A a \in Actor : Unrecorded(a, actor[a])

-------------------------------------------------------------------------------
(* Where the helpers of a method lead.                                     *)

\* The copy is kept, and the work at hand with it.
LEMMA GoesOn ==
  ASSUME NEW a, NEW J, NEW M, NEW x \in Local, KnownIn(x.row, J, M), HoldsWork(a, x)
  PROVE  /\ Good(a, Post(x), J, M)
         /\ Good(a, CallUpdateState(x, "method"), J, M)
         /\ Good(a, CallUpdateState(x, "isCreated"), J, M)
         /\ Good(a, CheckCreated(x), J, M)
         /\ Good(a, Buttons(x), J, M)
         /\ Good(a, [x EXCEPT !.method = "canStop", !.at = "isCreated", !.caller = "none"], J, M)
         /\ Good(a, [x EXCEPT !.at = "ssh", !.caller = "none"], J, M)
<1>1. Good(a, Post(x), J, M)
  BY DEF Good, Post, Local, Points, HoldsWork, KnownIn
<1>2. Good(a, CallUpdateState(x, "method"), J, M)
  BY DEF Good, CallUpdateState, Local, Points, HoldsWork, KnownIn
<1>3. Good(a, CallUpdateState(x, "isCreated"), J, M)
  BY DEF Good, CallUpdateState, Local, Points, HoldsWork, KnownIn
<1>4. Good(a, CheckCreated(x), J, M)
  BY DEF Good, CheckCreated, Local, Points, HoldsWork, KnownIn
<1>5. Good(a, Buttons(x), J, M)
  <2>1. Buttons(x) \in Local
    BY DEF Buttons, Local, Points, Methods
  <2> QED BY <2>1 DEF Good, Buttons, Local, HoldsWork, KnownIn, Background
<1>6. Good(a, [x EXCEPT !.method = "canStop", !.at = "isCreated", !.caller = "none"], J, M)
  <2>1. [x EXCEPT !.method = "canStop", !.at = "isCreated", !.caller = "none"] \in Local
    BY DEF Local, Points, Methods
  <2> QED BY <2>1 DEF Good, Local, HoldsWork, KnownIn, Background
<1>7. Good(a, [x EXCEPT !.at = "ssh", !.caller = "none"], J, M)
  BY DEF Good, Local, Points, HoldsWork, KnownIn
<1> QED BY <1>1, <1>2, <1>3, <1>4, <1>5, <1>6, <1>7

LEMMA IdleGood ==
  ASSUME NEW a, NEW J, NEW M
  PROVE  Good(a, Idle, J, M) /\ Idle \in Local
BY DEF Good, Idle, Local, KnownIn, NewRow, Row, Points, State, PortalState, NoJob

LEMMA RepeatGood ==
  ASSUME NEW a, NEW J, NEW M, NEW x \in Local, x.work \in Work
  PROVE  Good(a, Repeat(x), J, M) /\ Good(a, Reload(x), J, M)
<1>1. Repeat(x) \in Local /\ Reload(x) \in Local
  BY IdleGood DEF Repeat, Reload, Local, Idle, Points
<1> QED BY <1>1 DEF Good, Repeat, Reload, Idle, KnownIn, NewRow, NoJob, HoldsWork

LEMMA RaisedGood ==
  ASSUME NEW a, NEW J, NEW M, NEW x \in Local, HoldsWork(a, x)
  PROVE  Good(a, Raised(a, x), J, M)
BY IdleGood, RepeatGood DEF Raised, HoldsWork

LEMMA CreatedReturnsGood ==
  ASSUME NEW a, NEW J, NEW M, NEW x \in Local, KnownIn(x.row, J, M), HoldsWork(a, x),
         NEW ok \in BOOLEAN
  PROVE  Good(a, CreatedReturns(x, ok), J, M)
<1>1. CASE x.method = "VMDeploy"
  BY <1>1, RepeatGood DEF CreatedReturns, HoldsWork, Background
<1>2. CASE x.method # "VMDeploy"
  BY <1>2, IdleGood, GoesOn DEF CreatedReturns
<1> QED BY <1>1, <1>2

LEMMA AliveGood ==
  ASSUME NEW a, NEW J, NEW M, NEW x \in Local, KnownIn(x.row, J, M), HoldsWork(a, x)
  PROVE  Good(a, Alive(x), J, M)
BY CreatedReturnsGood, GoesOn DEF Alive

LEMMA UpdateReturnsGood ==
  ASSUME NEW a, NEW J, NEW M, NEW x \in Local, KnownIn(x.row, J, M), HoldsWork(a, x),
         NEW ok \in BOOLEAN
  PROVE  Good(a, UpdateReturns(a, x, ok), J, M)
<1>1. Good(a, CreatedReturns(x, ~Leaving(x.row)), J, M)
  BY CreatedReturnsGood
<1>2. Good(a, StateReturns(a, x, ok), J, M)
  <2>1. CASE x.method \in {"VMStart", "VMStop"}
    BY <2>1, RepeatGood, IdleGood DEF StateReturns, StartPolled, StopPolled, HoldsWork, Background
  <2>2. CASE x.method \notin {"VMStart", "VMStop"}
    BY <2>2, GoesOn, IdleGood, RaisedGood DEF StateReturns
  <2> QED BY <2>1, <2>2
<1> QED BY <1>1, <1>2 DEF UpdateReturns

-------------------------------------------------------------------------------
(* What a step writes.                                                     *)

\* What is written of a copy is an attribute of it or what was stored.
LEMMA SavedKnown ==
  ASSUME db \in Row, KnownRow(db), NEW old \in Row, NEW new \in Row,
         KnownIn(new, DOMAIN job, DOMAIN machine)
  PROVE  /\ Saved(old, new) \in Row
         /\ KnownIn(Saved(old, new), DOMAIN job, DOMAIN machine)
BY DEF Saved, Dirty, Row, KnownRow, KnownIn

\* One actor takes a step; CloudStack may have given out more numbers.
LEMMA BecomeGood ==
  ASSUME actor \in [Actor -> Local], Actors, NEW a \in Actor, NEW y, Become(a, y),
         Good(a, y, DOMAIN job', DOMAIN machine'),
         DOMAIN job \subseteq DOMAIN job', DOMAIN machine \subseteq DOMAIN machine'
  PROVE  actor' \in [Actor -> Local] /\ Actors'
<1>1. actor' \in [Actor -> Local]
  BY DEF Become, Good
<1>2. ASSUME NEW b \in Actor PROVE Good(b, actor'[b], DOMAIN job', DOMAIN machine')
  <2>1. CASE b = a
    BY <2>1 DEF Become
  <2>2. CASE b # a
    <3>1. actor'[b] = actor[b] /\ Good(b, actor[b], DOMAIN job, DOMAIN machine)
      BY <2>2 DEF Become, Actors
    <3> QED BY <3>1 DEF Good, KnownIn
  <2> QED BY <2>1, <2>2
<1> QED BY <1>1, <1>2 DEF Actors

\* A step of one actor that CloudStack has no part in.
LEMMA OwnStepSound ==
  ASSUME Sound, NEW a \in Actor, NEW y, Become(a, y),
         Good(a, y, DOMAIN job, DOMAIN machine), UNCHANGED cloud,
         db' \in Row, KnownIn(db', DOMAIN job, DOMAIN machine),
         queue' \subseteq Work, faults' \in 0..MaxFaults
  PROVE  Sound'
<1>1. job' = job /\ machine' = machine
  BY DEF cloud
<1>2. actor' \in [Actor -> Local] /\ Actors'
  BY <1>1, BecomeGood DEF Sound, Types
<1>3. Types'
  BY <1>1, <1>2 DEF Sound, Types
<1>4. KnownRow(db)' /\ MachinesOfJobs'
  BY <1>1 DEF Sound, KnownRow, KnownIn, MachinesOfJobs
<1> QED BY <1>2, <1>3, <1>4 DEF Sound

\* It may write nothing but its own variables.
LEMMA LocalStepSound ==
  ASSUME Sound, NEW a \in Actor, NEW y, Become(a, y),
         Good(a, y, DOMAIN job, DOMAIN machine), UNCHANGED <<db, queue, cloud, faults>>
  PROVE  Sound'
<1>1. db' \in Row /\ KnownIn(db', DOMAIN job, DOMAIN machine)
  BY DEF Sound, Types, KnownRow, KnownIn
<1>2. queue' \subseteq Work /\ faults' \in 0..MaxFaults
  BY DEF Sound, Types
<1> QED BY <1>1, <1>2, OwnStepSound

\* Or write the row from its copy.
LEMMA SavingStepSound ==
  ASSUME Sound, NEW a \in Actor, NEW y, Become(a, y),
         Good(a, y, DOMAIN job, DOMAIN machine),
         NEW new \in Row, KnownIn(new, DOMAIN job, DOMAIN machine),
         db' = Saved(actor[a].row, new), UNCHANGED <<queue, cloud, faults>>
  PROVE  Sound'
<1>1. actor[a].row \in Row
  BY DEF Sound, Types, Local
<1>2. db' \in Row /\ KnownIn(db', DOMAIN job, DOMAIN machine)
  BY <1>1, SavedKnown DEF Sound, Types
<1>3. queue' \subseteq Work /\ faults' \in 0..MaxFaults
  BY DEF Sound, Types
<1> QED BY <1>2, <1>3, OwnStepSound

\* A command that CloudStack accepts.
LEMMA AcceptTypes ==
  ASSUME Sound, NEW kind \in Commands, NEW m, NEW j \in Fresh, Accept(kind, m, j)
  PROVE  /\ DOMAIN job' = DOMAIN job \cup {j} /\ j \in Job
         /\ DOMAIN machine \subseteq DOMAIN machine' /\ DOMAIN machine' \subseteq Machine
         /\ \A n \in DOMAIN machine' : machine'[n] \in CloudState \cup {"Expunged"}
         /\ \A i \in DOMAIN job' : job'[i] \in JobRow /\ job'[i].machine \in DOMAIN machine'
<1>1. j \in Job /\ Job = Machine
  BY DEF Fresh, Job, Machine
<1>2. /\ DOMAIN machine \subseteq Machine
      /\ \A n \in DOMAIN machine : machine[n] \in CloudState \cup {"Expunged"}
      /\ \A i \in DOMAIN job : job[i] \in JobRow /\ job[i].machine \in DOMAIN machine
  BY DEF Sound, Types, MachinesOfJobs
<1>3. CASE kind = "approve"
  BY <1>1, <1>2, <1>3 DEF Accept, Insert, JobRow, CloudState
<1>4. CASE kind # "approve"
  <2>1. m \in DOMAIN machine /\ machine' = [machine EXCEPT ![m] = Underway(kind, m)]
        /\ job' = Insert(job, j, [kind |-> kind, machine |-> m, status |-> "0"])
    BY <1>4 DEF Accept
  <2>2. Underway(kind, m) \in CloudState \cup {"Expunged"}
    BY <1>2, <2>1 DEF Underway, CloudState
  <2> QED BY <1>1, <1>2, <2>1, <2>2 DEF Insert, JobRow
<1> QED BY <1>3, <1>4

LEMMA AcceptSound ==
  ASSUME Sound, NEW a \in Actor, NEW y, Become(a, y),
         Good(a, y, DOMAIN job', DOMAIN machine'),
         NEW kind \in Commands, NEW m, NEW j \in Fresh, Accept(kind, m, j),
         UNCHANGED <<db, queue>>, faults' \in 0..MaxFaults
  PROVE  Sound'
<1>1. /\ DOMAIN job' = DOMAIN job \cup {j} /\ j \in Job
      /\ DOMAIN machine \subseteq DOMAIN machine' /\ DOMAIN machine' \subseteq Machine
      /\ \A n \in DOMAIN machine' : machine'[n] \in CloudState \cup {"Expunged"}
      /\ \A i \in DOMAIN job' : job'[i] \in JobRow /\ job'[i].machine \in DOMAIN machine'
  BY AcceptTypes
<1>2. actor' \in [Actor -> Local] /\ Actors'
  BY <1>1, BecomeGood DEF Sound, Types
<1>3. Types'
  BY <1>1, <1>2 DEF Sound, Types
<1>4. KnownRow(db)' /\ MachinesOfJobs'
  BY <1>1 DEF Sound, KnownRow, MachinesOfJobs
<1> QED BY <1>2, <1>3, <1>4 DEF Sound

-------------------------------------------------------------------------------
(* Type correctness: every action, in the order of VMPortal.               *)

LEMMA StartGood ==
  ASSUME Sound, NEW a, NEW method \in Methods, NEW at \in {"post", "isCreated", "updateState"},
         NEW w \in Work \cup {NoWork},
         a \in Sidekiq \/ method \in Background => w \in Work
  PROVE  Good(a, Start(method, at, w), DOMAIN job, DOMAIN machine)
<1>1. Start(method, at, w) \in Local
  BY DEF Start, Idle, Local, Points, Sound, Types, State, PortalState
<1>2. /\ Start(method, at, w).row = db /\ Start(method, at, w).at = at
      /\ Start(method, at, w).method = method /\ Start(method, at, w).work = w
  BY DEF Start, Idle
<1>3. KnownIn(db, DOMAIN job, DOMAIN machine)
  BY DEF Sound, KnownRow, KnownIn
<1> QED BY <1>1, <1>2, <1>3 DEF Good, HoldsWork

LEMMA BeginsSound ==
  ASSUME Sound, NEW a \in Actor, Begins(a)
  PROVE  Sound'
<1>1. ASSUME NEW method \in Requests, NEW at \in {"post", "isCreated", "updateState"},
             a \in Web, Become(a, Start(method, at, NoWork)), UNCHANGED <<db, queue, cloud, faults>>
      PROVE  Sound'
  <2>1. a \notin Sidekiq /\ method \in Methods /\ method \notin Background
    BY <1>1, PortalAssumption DEF Methods, Background, Requests
  <2>2. Good(a, Start(method, at, NoWork), DOMAIN job, DOMAIN machine)
    BY <1>1, <2>1, StartGood
  <2> QED BY <1>1, <2>2, LocalStepSound
<1>2. CASE Approve(a)
  BY <1>1, <1>2 DEF Approve, Requests
<1>3. CASE AdminPage(a)
  BY <1>1, <1>3 DEF AdminPage, Requests
<1>4. CASE Show(a)
  BY <1>1, <1>4 DEF Show, Requests
<1>5. ASSUME NEW m \in {"start", "stop", "remove"}, Press(a, m) PROVE Sound'
  BY <1>1, <1>5 DEF Press, Requests
<1>6. ASSUME NEW w \in queue, Perform(a, w) PROVE Sound'
  <2> DEFINE at == CASE w.class = "VMDeploy"  -> "isCreated"
                     [] w.class = "VMDestroy" -> "post"
                     [] OTHER                 -> "updateState"
  <2>1. w \in Work /\ w.class \in Methods
    BY <1>6 DEF Sound, Types, Work, Methods
  <2>2. at \in {"post", "isCreated", "updateState"}
    OBVIOUS
  <2>3. Good(a, Start(w.class, at, w), DOMAIN job, DOMAIN machine)
    BY <2>1, <2>2, StartGood
  <2>4. Become(a, Start(w.class, at, w)) /\ queue' = queue \ {w} /\ UNCHANGED <<db, cloud, faults>>
    BY <1>6 DEF Perform
  <2>5. /\ db' \in Row /\ KnownIn(db', DOMAIN job, DOMAIN machine)
        /\ queue' \subseteq Work /\ faults' \in 0..MaxFaults
    BY <2>4 DEF Sound, Types, KnownRow, KnownIn
  <2> QED BY <2>3, <2>4, <2>5, OwnStepSound
<1> QED BY <1>2, <1>3, <1>4, <1>5, <1>6 DEF Begins

\* What an actor that is not idle has.
LEMMA ActorHas ==
  ASSUME Sound, NEW a \in Actor, actor[a].at # "idle"
  PROVE  /\ actor[a] \in Local /\ actor[a].row \in Row
         /\ KnownIn(actor[a].row, DOMAIN job, DOMAIN machine)
         /\ HoldsWork(a, actor[a])
BY DEF Sound, Types, Actors, Good, Local

LEMMA QuerySound ==
  ASSUME Sound, NEW a \in Actor, IsCreated(a) \/ QueryAnswered(a) \/ QueryFails(a)
  PROVE  Sound'
<1> DEFINE x == actor[a]
<1>1. x.at \in {"isCreated", "query"} /\ x.at # "idle" /\ UNCHANGED <<db, queue, cloud, faults>>
  BY DEF IsCreated, QueryAnswered, QueryFails
<1>2. /\ x \in Local /\ KnownIn(x.row, DOMAIN job, DOMAIN machine) /\ HoldsWork(a, x)
  BY <1>1, ActorHas
<1>3. /\ Good(a, CreatedReturns(x, FALSE), DOMAIN job, DOMAIN machine)
      /\ Good(a, Alive(x), DOMAIN job, DOMAIN machine)
  BY <1>2, CreatedReturnsGood, AliveGood
<1>4. ASSUME NEW p \in {"query", "markError", "markCreated"}, x.row.job_created_id \in DOMAIN job
      PROVE  Good(a, [x EXCEPT !.at = p], DOMAIN job, DOMAIN machine)
  <2>1. [x EXCEPT !.at = p] \in Local
    BY <1>2 DEF Local, Points
  <2> QED BY <1>2, <1>4, <2>1 DEF Good, HoldsWork, Local
<1>5. CASE IsCreated(a)
  <2>1. CASE x.row.job_created_id \notin {NoJob, Complete}
    <3>1. x.row.job_created_id \in DOMAIN job
      BY <1>2, <2>1 DEF KnownIn
    <3>2. Become(a, [x EXCEPT !.at = "query"])
      BY <1>5, <2>1 DEF IsCreated
    <3> QED BY <1>1, <1>4, <3>1, <3>2, LocalStepSound
  <2>2. CASE x.row.job_created_id \in {NoJob, Complete}
    <3>1. Become(a, CreatedReturns(x, FALSE)) \/ Become(a, Alive(x))
      BY <1>5, <2>2 DEF IsCreated
    <3> QED BY <1>1, <1>3, <3>1, LocalStepSound
  <2> QED BY <2>1, <2>2
<1>6. CASE QueryAnswered(a)
  <2>1. x.row.job_created_id \in DOMAIN job
    BY <1>6 DEF QueryAnswered, Sound, Actors, Good
  <2>2. \/ Become(a, CreatedReturns(x, FALSE)) \/ Become(a, [x EXCEPT !.at = "markCreated"])
        \/ Become(a, [x EXCEPT !.at = "markError"])
    BY <1>6 DEF QueryAnswered
  <2> QED BY <1>1, <1>3, <1>4, <2>1, <2>2, LocalStepSound
<1>7. CASE QueryFails(a)
  BY <1>1, <1>3, <1>7, LocalStepSound DEF QueryFails
<1> QED BY <1>5, <1>6, <1>7

LEMMA MarkSound ==
  ASSUME Sound, NEW a \in Actor, MarkError(a) \/ MarkCreated(a)
  PROVE  Sound'
<1> DEFINE x == actor[a]
<1>1. /\ x.at \in {"markError", "markCreated"} /\ x.at # "idle" /\ UNCHANGED <<queue, cloud, faults>>
  BY DEF MarkError, MarkCreated
<1>2. /\ x \in Local /\ x.row \in Row /\ KnownIn(x.row, DOMAIN job, DOMAIN machine) /\ HoldsWork(a, x)
  BY <1>1, ActorHas
<1>3. ASSUME NEW new \in Row, KnownIn(new, DOMAIN job, DOMAIN machine)
      PROVE  /\ Good(a, CreatedReturns([x EXCEPT !.row = new], FALSE), DOMAIN job, DOMAIN machine)
             /\ Good(a, Alive([x EXCEPT !.row = new]), DOMAIN job, DOMAIN machine)
  <2>1. [x EXCEPT !.row = new] \in Local /\ [x EXCEPT !.row = new].row = new
    BY <1>2 DEF Local
  <2>2. HoldsWork(a, [x EXCEPT !.row = new])
    BY <1>2 DEF HoldsWork, Local
  <2> QED BY <1>3, <2>1, <2>2, CreatedReturnsGood, AliveGood
<1>4. CASE MarkError(a)
  <2> DEFINE new == [x.row EXCEPT !.state = "Error"]
  <2>1. new \in Row /\ KnownIn(new, DOMAIN job, DOMAIN machine)
    BY <1>2 DEF Row, State, CloudState, KnownIn
  <2>2. db' = Saved(x.row, new) /\ Become(a, CreatedReturns([x EXCEPT !.row = new], FALSE))
    BY <1>4 DEF MarkError
  <2> HIDE DEF new
  <2> QED BY <1>1, <1>3, <2>1, <2>2, SavingStepSound
<1>5. CASE MarkCreated(a)
  <2> DEFINE m == job[x.row.job_created_id].machine
             new == [x.row EXCEPT !.state = "Running", !.job_created_id = Complete, !.instance_id = m]
  <2>1. m \in DOMAIN machine /\ m \in Machine
    BY <1>5 DEF MarkCreated, Sound, Types, MachinesOfJobs, Actors, Good
  <2>2. new \in Row /\ KnownIn(new, DOMAIN job, DOMAIN machine)
    BY <1>2, <2>1 DEF Row, State, CloudState, KnownIn
  <2>3. db' = Saved(x.row, new) /\ Become(a, Alive([x EXCEPT !.row = new]))
    BY <1>5 DEF MarkCreated
  <2> HIDE DEF new
  <2> QED BY <1>1, <1>3, <2>2, <2>3, SavingStepSound
<1> QED BY <1>4, <1>5

LEMMA UpdateSound ==
  ASSUME Sound, NEW a \in Actor,
         UpdateSkipped(a) \/ UpdateAnswered(a) \/ UpdateFails(a) \/ UpdateRaises(a) \/ SaveState(a)
  PROVE  Sound'
<1> DEFINE x == actor[a]
<1>1. x.at \in {"updateState", "saveState"} /\ x.at # "idle"
  BY DEF UpdateSkipped, UpdateAnswered, UpdateFails, UpdateRaises, SaveState
<1>2. /\ x \in Local /\ x.row \in Row /\ KnownIn(x.row, DOMAIN job, DOMAIN machine) /\ HoldsWork(a, x)
  BY <1>1, ActorHas
<1>3. CASE UpdateSkipped(a) \/ UpdateFails(a)
  <2>1. Good(a, UpdateReturns(a, x, FALSE), DOMAIN job, DOMAIN machine)
    BY <1>2, UpdateReturnsGood
  <2> QED BY <1>3, <2>1, LocalStepSound DEF UpdateSkipped, UpdateFails
<1>4. CASE UpdateRaises(a)
  <2>1. Good(a, Raised(a, x), DOMAIN job, DOMAIN machine)
    BY <1>2, RaisedGood
  <2> QED BY <1>4, <2>1, LocalStepSound DEF UpdateRaises
<1>5. CASE UpdateAnswered(a)
  <2> DEFINE y == [x EXCEPT !.at = "saveState", !.state = machine[x.row.instance_id]]
  <2>1. machine[x.row.instance_id] \in State
    BY <1>5 DEF UpdateAnswered, Sound, Types, State
  <2>2. y \in Local
    BY <1>2, <2>1 DEF Local, Points
  <2>3. Good(a, y, DOMAIN job, DOMAIN machine)
    BY <1>2, <2>2 DEF Good, HoldsWork, Local
  <2> QED BY <1>5, <2>3, LocalStepSound DEF UpdateAnswered
<1>6. CASE SaveState(a)
  <2> DEFINE new == [x.row EXCEPT !.state = x.state]
             y   == [x EXCEPT !.row = new, !.state = "pending"]
  <2>1. new \in Row /\ KnownIn(new, DOMAIN job, DOMAIN machine)
    BY <1>2 DEF Row, Local, KnownIn
  <2>2. y \in Local /\ y.row = new /\ HoldsWork(a, y)
    BY <1>2, <2>1 DEF Local, HoldsWork, State, PortalState
  <2>3. Good(a, UpdateReturns(a, y, TRUE), DOMAIN job, DOMAIN machine)
    BY <2>1, <2>2, UpdateReturnsGood
  <2>4. db' = Saved(x.row, new) /\ Become(a, UpdateReturns(a, y, TRUE)) /\ UNCHANGED <<queue, cloud, faults>>
    BY <1>6 DEF SaveState, y
  <2> HIDE DEF new, y
  <2> QED BY <2>1, <2>3, <2>4, SavingStepSound
<1> QED BY <1>3, <1>4, <1>5, <1>6

LEMMA CommandSound ==
  ASSUME Sound, NEW a \in Actor, CommandAnswered(a) \/ CommandLost(a) \/ CommandRefused(a)
  PROVE  Sound'
<1> DEFINE x == actor[a]
<1>1. x.at = "post" /\ x.method \in Commands
  BY DEF CommandAnswered, CommandLost, CommandRefused, Posting
<1>2. /\ x \in Local /\ KnownIn(x.row, DOMAIN job, DOMAIN machine) /\ HoldsWork(a, x)
  BY <1>1, ActorHas
<1>3. CASE CommandAnswered(a)
  <2>1. PICK j \in Fresh :
          /\ Accept(x.method, x.row.instance_id, j)
          /\ Become(a, [x EXCEPT !.job = j, !.at = IF x.method = "approve" THEN "saveJob" ELSE "save"])
    BY <1>3 DEF CommandAnswered
  <2> DEFINE y == [x EXCEPT !.job = j, !.at = IF x.method = "approve" THEN "saveJob" ELSE "save"]
  <2>2. DOMAIN job' = DOMAIN job \cup {j} /\ j \in Job /\ DOMAIN machine \subseteq DOMAIN machine'
    BY <1>1, <2>1, AcceptTypes
  <2>3. y \in Local
    BY <1>2, <2>2 DEF Local, Points
  <2>4. Good(a, y, DOMAIN job', DOMAIN machine')
    BY <1>2, <2>2, <2>3 DEF Good, HoldsWork, Local, KnownIn
  <2>5. UNCHANGED <<db, queue>> /\ faults' \in 0..MaxFaults
    BY <1>3 DEF CommandAnswered, Sound, Types
  <2> HIDE DEF y
  <2> QED BY <1>1, <2>1, <2>4, <2>5, AcceptSound DEF y
<1>4. CASE CommandLost(a)
  <2>1. PICK j \in Fresh : Accept(x.method, x.row.instance_id, j)
    BY <1>4 DEF CommandLost
  <2>2. Become(a, Idle) /\ UNCHANGED <<db, queue>> /\ faults' \in 0..MaxFaults
    BY <1>4, PortalAssumption DEF CommandLost, Sound, Types
  <2>3. Good(a, Idle, DOMAIN job', DOMAIN machine')
    BY IdleGood
  <2> QED BY <1>1, <2>1, <2>2, <2>3, AcceptSound
<1>5. CASE CommandRefused(a)
  BY <1>5, IdleGood, LocalStepSound DEF CommandRefused
<1> QED BY <1>3, <1>4, <1>5

LEMMA RecordSound ==
  ASSUME Sound, NEW a \in Actor, SaveJob(a) \/ SaveApproving(a) \/ SaveCommand(a) \/ Enqueue(a)
  PROVE  Sound'
<1> DEFINE x == actor[a]
<1>1. x.at \in {"saveJob", "save", "enqueue"} /\ x.at # "idle"
  BY DEF SaveJob, SaveApproving, SaveCommand, Enqueue
<1>2. /\ x \in Local /\ x.row \in Row /\ KnownIn(x.row, DOMAIN job, DOMAIN machine)
      /\ HoldsWork(a, x) /\ x.job \in DOMAIN job /\ x.job \in Job
  BY <1>1, ActorHas DEF Sound, Types, Actors, Good
<1>3. /\ db \in Row /\ KnownIn(db, DOMAIN job, DOMAIN machine)
      /\ queue \subseteq Work /\ faults \in 0..MaxFaults
  BY DEF Sound, Types, KnownRow, KnownIn
<1>4. ASSUME NEW new \in Row, KnownIn(new, DOMAIN job, DOMAIN machine), NEW p \in {"save", "enqueue"}
      PROVE  Good(a, [x EXCEPT !.at = p, !.row = new], DOMAIN job, DOMAIN machine)
  <2>1. [x EXCEPT !.at = p, !.row = new] \in Local
    BY <1>2 DEF Local, Points
  <2> QED BY <1>2, <1>4, <2>1 DEF Good, HoldsWork, Local
<1>5. CASE SaveJob(a)
  <2> DEFINE new == [x.row EXCEPT !.job_created_id = x.job]
  <2>1. new \in Row /\ KnownIn(new, DOMAIN job, DOMAIN machine)
    BY <1>2 DEF Row, KnownIn
  <2>2. [x EXCEPT !.at = "save", !.row.job_created_id = x.job] = [x EXCEPT !.at = "save", !.row = new]
    BY <1>2 DEF Local
  <2>3. Good(a, [x EXCEPT !.at = "save", !.row.job_created_id = x.job], DOMAIN job, DOMAIN machine)
    BY <1>4, <2>1, <2>2
  <2>4. db' \in Row /\ KnownIn(db', DOMAIN job, DOMAIN machine)
    BY <1>2, <1>3, <1>5 DEF SaveJob, Row, KnownIn
  <2> QED BY <1>3, <1>5, <2>3, <2>4, OwnStepSound DEF SaveJob
<1>6. CASE SaveApproving(a)
  <2> DEFINE new == [x.row EXCEPT !.state = "approving"]
  <2>1. new \in Row /\ KnownIn(new, DOMAIN job, DOMAIN machine)
    BY <1>2 DEF Row, KnownIn, State, PortalState
  <2>2. [x EXCEPT !.at = "enqueue", !.row.state = "approving"] = [x EXCEPT !.at = "enqueue", !.row = new]
    BY <1>2 DEF Local
  <2>3. Good(a, [x EXCEPT !.at = "enqueue", !.row.state = "approving"], DOMAIN job, DOMAIN machine)
    BY <1>4, <2>1, <2>2
  <2>4. db' \in Row /\ KnownIn(db', DOMAIN job, DOMAIN machine)
    BY <1>3, <1>6 DEF SaveApproving, Row, KnownIn, State, PortalState
  <2> QED BY <1>3, <1>6, <2>3, <2>4, OwnStepSound DEF SaveApproving
<1>7. CASE SaveCommand(a)
  <2> DEFINE new == [x.row EXCEPT !.state = StateAfter(x.method)]
  <2>1. new \in Row /\ KnownIn(new, DOMAIN job, DOMAIN machine)
    BY <1>2 DEF Row, KnownIn, State, PortalState, StateAfter
  <2>2. db' = Saved(x.row, new) /\ Become(a, [x EXCEPT !.at = "enqueue", !.row = new])
        /\ UNCHANGED <<queue, cloud, faults>>
    BY <1>7 DEF SaveCommand
  <2> HIDE DEF new
  <2> QED BY <1>4, <2>1, <2>2, SavingStepSound
<1>8. CASE Enqueue(a)
  <2>1. [class |-> ClassFor(x.method), state |-> x.row.state, job |-> x.job] \in Work
    BY <1>2 DEF Work, ClassFor, Row
  <2>2. queue' \subseteq Work /\ Become(a, Idle) /\ UNCHANGED <<db, cloud, faults>>
    BY <1>3, <1>8, <2>1 DEF Enqueue
  <2> QED BY <1>3, <2>2, IdleGood, OwnStepSound
<1> QED BY <1>5, <1>6, <1>7, <1>8

LEMMA JobSound ==
  ASSUME Sound, NEW a \in Actor,
         \/ Again(a) \/ LoadForSpice(a) \/ SshSucceeds(a) \/ SshFails(a) \/ SaveConsole(a)
         \/ DestroyAnswered(a) \/ DestroyFails(a) \/ SaveError(a) \/ Killed(a)
  PROVE  Sound'
<1> DEFINE x == actor[a]
<1>1. x.at # "idle"
  BY DEF Again, LoadForSpice, SshSucceeds, SshFails, SaveConsole, DestroyAnswered, DestroyFails,
         SaveError, Killed
<1>2. /\ x \in Local /\ x.row \in Row /\ KnownIn(x.row, DOMAIN job, DOMAIN machine) /\ HoldsWork(a, x)
  BY <1>1, ActorHas
<1>3. /\ db \in Row /\ KnownIn(db, DOMAIN job, DOMAIN machine)
      /\ queue \subseteq Work /\ faults \in 0..MaxFaults
  BY DEF Sound, Types, KnownRow, KnownIn
<1>4. Good(a, Idle, DOMAIN job, DOMAIN machine)
  BY IdleGood
<1>5. ASSUME NEW p \in {"saveConsole", "saveError"}
      PROVE  Good(a, [x EXCEPT !.at = p], DOMAIN job, DOMAIN machine)
  <2>1. [x EXCEPT !.at = p] \in Local
    BY <1>2 DEF Local, Points
  <2> QED BY <1>2, <2>1 DEF Good, HoldsWork, Local
<1>6. CASE Again(a)
  <2>1. x.work \in Work
    BY <1>6 DEF Again, Sound, Actors, Good
  <2> QED BY <1>3, <1>4, <1>6, <2>1, OwnStepSound DEF Again
<1>7. CASE LoadForSpice(a)
  <2>1. x.work \in Work
    BY <1>7 DEF LoadForSpice, Sound, Actors, Good
  <2> QED BY <1>7, <2>1, StartGood, LocalStepSound DEF LoadForSpice, Methods
<1>8. CASE SshSucceeds(a)
  BY <1>5, <1>8, LocalStepSound DEF SshSucceeds
<1>9. CASE SshFails(a) \/ DestroyAnswered(a)
  BY <1>4, <1>9, LocalStepSound DEF SshFails, DestroyAnswered
<1>10. CASE SaveConsole(a)
  <2> DEFINE new == [x.row EXCEPT !.console = TRUE]
  <2>1. new \in Row /\ KnownIn(new, DOMAIN job, DOMAIN machine)
    BY <1>2 DEF Row, KnownIn
  <2>2. db' = Saved(x.row, new) /\ Become(a, Idle) /\ UNCHANGED <<queue, cloud, faults>>
    BY <1>10 DEF SaveConsole
  <2> HIDE DEF new
  <2> QED BY <1>4, <2>1, <2>2, SavingStepSound
<1>11. CASE DestroyFails(a)
  BY <1>5, <1>11, LocalStepSound DEF DestroyFails
<1>12. CASE SaveError(a)
  <2>1. db' \in Row /\ KnownIn(db', DOMAIN job, DOMAIN machine)
    BY <1>3, <1>12 DEF SaveError, Row, KnownIn, State, CloudState
  <2> QED BY <1>3, <1>4, <1>12, <2>1, OwnStepSound DEF SaveError
<1>13. CASE Killed(a)
  <2>1. faults' \in 0..MaxFaults
    BY <1>3, <1>13, PortalAssumption DEF Killed
  <2> QED BY <1>3, <1>4, <1>13, <2>1, OwnStepSound DEF Killed
<1> QED BY <1>6, <1>7, <1>8, <1>9, <1>10, <1>11, <1>12, <1>13

LEMMA CloudSound ==
  ASSUME Sound, \/ \E j \in DOMAIN job : JobEnds(j)
                \/ \E m \in DOMAIN machine : GuestStops(m) \/ Expunge(m)
  PROVE  Sound'
<1> DEFINE Moved ==
      /\ UNCHANGED <<db, queue, actor, faults>>
      /\ DOMAIN machine' = DOMAIN machine /\ DOMAIN job' = DOMAIN job
      /\ \A n \in DOMAIN machine : machine'[n] \in CloudState \cup {"Expunged"}
      /\ \A i \in DOMAIN job : job'[i] \in JobRow /\ job'[i].machine = job[i].machine
<1>1. /\ \A n \in DOMAIN machine : machine[n] \in CloudState \cup {"Expunged"}
      /\ \A i \in DOMAIN job : job[i] \in JobRow /\ job[i].machine \in DOMAIN machine
  BY DEF Sound, Types, MachinesOfJobs
<1>2. ASSUME NEW j \in DOMAIN job, JobEnds(j) PROVE Moved
  <2>1. PICK e \in Endings(job[j].kind, machine[job[j].machine]) :
          /\ machine' = [machine EXCEPT ![job[j].machine] = e[1]]
          /\ job' = [job EXCEPT ![j].status = e[2]]
    BY <1>2 DEF JobEnds
  <2>2. e[1] \in CloudState \cup {"Expunged"} /\ e[2] \in {"1", "2"}
    BY <1>1 DEF Endings, CloudState
  <2> QED BY <1>1, <1>2, <2>1, <2>2 DEF JobEnds, JobRow
<1>3. ASSUME NEW m \in DOMAIN machine, GuestStops(m) \/ Expunge(m) PROVE Moved
  BY <1>1, <1>3 DEF GuestStops, Expunge, CloudState
<1>4. Moved
  BY <1>2, <1>3
<1>5. Types' /\ KnownRow(db)' /\ MachinesOfJobs'
  BY <1>4 DEF Sound, Types, KnownRow, MachinesOfJobs
<1>6. Actors'
  BY <1>4 DEF Sound, Actors, Good, KnownIn
<1> QED BY <1>5, <1>6 DEF Sound

LEMMA InitSound == Init => Sound
<1> SUFFICES ASSUME Init PROVE Sound
  OBVIOUS
<1>1. DOMAIN machine = {} /\ DOMAIN job = {}
  BY DEF Init
<1>2. actor \in [Actor -> Local] /\ Actors
  BY <1>1, IdleGood DEF Init, Actors
<1>3. db \in Row /\ KnownRow(db)
  BY DEF Init, NewRow, Row, State, PortalState, KnownRow, NoJob
<1>4. faults \in 0..MaxFaults
  BY PortalAssumption DEF Init
<1> QED BY <1>1, <1>2, <1>3, <1>4 DEF Init, Sound, Types, MachinesOfJobs

LEMMA NextSound == Sound /\ [Next]_vars => Sound'
<1> SUFFICES ASSUME Sound, [Next]_vars PROVE Sound'
  OBVIOUS
<1>1. ASSUME NEW a \in Actor, Begins(a) PROVE Sound'
  BY <1>1, BeginsSound
<1>2. ASSUME NEW a \in Actor, Replies(a) PROVE Sound'
  BY <1>2, QuerySound, UpdateSound, CommandSound, JobSound DEF Replies
<1>3. ASSUME NEW a \in Actor, Computes(a) PROVE Sound'
  BY <1>3, QuerySound, MarkSound, UpdateSound, RecordSound, JobSound DEF Computes
<1>4. ASSUME NEW a \in Actor, CommandLost(a) \/ Killed(a) PROVE Sound'
  BY <1>4, CommandSound, JobSound
<1>5. CASE UNCHANGED vars
  BY <1>5 DEF vars, Sound, Types, KnownRow, MachinesOfJobs, Actors
<1> QED BY <1>1, <1>2, <1>3, <1>4, <1>5, CloudSound DEF Next

\* The row and every copy of it name jobs and machines that CloudStack has given
\* out, whatever copies are written over it (instance.rb:146-290): TypeOK.
THEOREM NamesExist == Spec => []TypeOK
<1>1. Sound => TypeOK
  BY DEF Sound, TypeOK, Actors, Good, KnownRow, KnownIn, MachinesOfJobs
<1> QED BY <1>1, InitSound, NextSound, PTL DEF Spec

-------------------------------------------------------------------------------
(* An instance past approval has its deployment recorded.                  *)

\* No write takes the number of the job back: a copy that never had one is not
\* written as such.
LEMMA SavedKeepsJob ==
  ASSUME NEW old, NEW new, new.job_created_id = old.job_created_id \/ new.job_created_id = Complete,
         db.job_created_id # NoJob
  PROVE  Saved(old, new).job_created_id # NoJob
BY DEF Saved, Dirty, Complete, NoJob

LEMMA RecordedStays ==
  ASSUME Sound, [Next]_vars, db.job_created_id # NoJob
  PROVE  db'.job_created_id # NoJob
<1>1. ASSUME NEW a \in Actor, MarkError(a) \/ MarkCreated(a) \/ SaveState(a) \/ SaveCommand(a) \/ SaveConsole(a)
      PROVE  db'.job_created_id # NoJob
  <2>1. actor[a].row \in Row
    BY DEF Sound, Types, Local
  <2>2. PICK new \in {[actor[a].row EXCEPT !.state = "Error"],
                      [actor[a].row EXCEPT !.state = "Running", !.job_created_id = Complete,
                                           !.instance_id = job[actor[a].row.job_created_id].machine],
                      [actor[a].row EXCEPT !.state = actor[a].state],
                      [actor[a].row EXCEPT !.state = StateAfter(actor[a].method)],
                      [actor[a].row EXCEPT !.console = TRUE]} :
              db' = Saved(actor[a].row, new)
    BY <1>1 DEF MarkError, MarkCreated, SaveState, SaveCommand, SaveConsole
  <2>3. new.job_created_id = actor[a].row.job_created_id \/ new.job_created_id = Complete
    BY <2>1, <2>2 DEF Row
  <2> QED BY <2>2, <2>3, SavedKeepsJob
<1>2. ASSUME NEW a \in Actor, SaveJob(a) PROVE db'.job_created_id # NoJob
  <2>1. actor[a].job \in Job
    BY <1>2 DEF SaveJob, Sound, Types, Actors, Good
  <2>2. db'.job_created_id = actor[a].job
    BY <1>2 DEF SaveJob, Sound, Types, Row
  <2> QED BY <2>1, <2>2 DEF Job, NoJob
<1>3. ASSUME NEW a \in Actor, SaveApproving(a) \/ SaveError(a) PROVE db'.job_created_id # NoJob
  BY <1>3 DEF SaveApproving, SaveError, Sound, Types, Row
<1>4. \/ UNCHANGED db
      \/ \E a \in Actor : \/ MarkError(a) \/ MarkCreated(a) \/ SaveState(a) \/ SaveCommand(a) \/ SaveConsole(a)
                          \/ SaveJob(a) \/ SaveApproving(a) \/ SaveError(a)
  BY DEF Next, vars, Begins, Approve, AdminPage, Show, Press, Perform, Replies, QueryAnswered, QueryFails,
         UpdateAnswered, UpdateFails, UpdateRaises, CommandAnswered, CommandRefused, DestroyAnswered,
         DestroyFails, SshSucceeds, SshFails, Computes, IsCreated, UpdateSkipped, Enqueue, Again,
         LoadForSpice, CommandLost, Killed, JobEnds, GuestStops, Expunge
<1> QED BY <1>1, <1>2, <1>3, <1>4

\* Nothing is written, and the actor that goes on keeps to what is allowed.
LEMMA QuietStep ==
  ASSUME Sound, NothingRecorded, db.job_created_id = NoJob,
         NEW a \in Actor, NEW y, Become(a, y), Unrecorded(a, y), UNCHANGED <<db, queue>>
  PROVE  NothingRecorded'
<1>1. actor \in [Actor -> Local]
  BY DEF Sound, Types
<1>2. ASSUME NEW b \in Actor PROVE Unrecorded(b, actor'[b])
  BY <1>1 DEF Become, NothingRecorded
<1> QED BY <1>2 DEF NothingRecorded, Unrecorded

LEMMA IdleUnrecorded == ASSUME NEW a PROVE Unrecorded(a, Idle)
BY DEF Unrecorded, Idle

LEMMA QuietBegins ==
  ASSUME Sound, NothingRecorded, db.job_created_id = NoJob, NEW a \in Actor, Begins(a)
  PROVE  NothingRecorded'
<1>1. ASSUME NEW method \in Requests, NEW at \in {"post", "isCreated", "updateState"},
             at = "post" => method = "approve",
             a \in Web, Become(a, Start(method, at, NoWork)), UNCHANGED <<db, queue>>
      PROVE  NothingRecorded'
  <2>1. Unrecorded(a, Start(method, at, NoWork))
    BY <1>1 DEF NothingRecorded, Unrecorded, Start, Idle, Requests, Background
  <2> QED BY <1>1, <2>1, QuietStep
<1>2. Approve(a) \/ AdminPage(a) \/ Show(a) => NothingRecorded'
  BY <1>1 DEF Approve, AdminPage, Show, Requests
<1>3. ASSUME NEW m \in {"start", "stop", "remove"}, Press(a, m) PROVE NothingRecorded'
  BY <1>1, <1>3 DEF Press, Requests
<1>4. queue = {}
  BY DEF NothingRecorded
<1> QED BY <1>2, <1>3, <1>4 DEF Begins

\* Only isCreated, updateState and the command of an approval can be under way.
LEMMA QuietMethods ==
  ASSUME Sound, NothingRecorded, db.job_created_id = NoJob, NEW a \in Actor,
         \/ IsCreated(a) \/ UpdateSkipped(a) \/ UpdateFails(a) \/ UpdateRaises(a)
         \/ CommandAnswered(a) \/ CommandLost(a) \/ CommandRefused(a) \/ Killed(a)
  PROVE  NothingRecorded'
<1> DEFINE x == actor[a]
<1>1. x \in Local /\ Unrecorded(a, x) /\ x.at # "idle"
  BY DEF Sound, Types, NothingRecorded, IsCreated, UpdateSkipped, UpdateFails, UpdateRaises, CommandAnswered,
         CommandLost, CommandRefused, Posting, Killed
<1>2. /\ a \in Web /\ a \notin Sidekiq /\ x.row = NewRow
      /\ x.method \notin Background
  BY <1>1, PortalAssumption DEF Unrecorded
<1>3. Unrecorded(a, Buttons(x)) /\ Unrecorded(a, CheckCreated(x))
  BY <1>1, <1>2 DEF Unrecorded, Buttons, CheckCreated, Local, Background
<1>4. Unrecorded(a, [x EXCEPT !.method = "canStop", !.at = "isCreated", !.caller = "none"])
  BY <1>1, <1>2 DEF Unrecorded, Local, Background
<1>5. Unrecorded(a, CreatedReturns(x, FALSE))
  BY <1>2, <1>3, <1>4, IdleUnrecorded DEF CreatedReturns, Background
<1>6. Unrecorded(a, StateReturns(a, x, FALSE))
  BY <1>2, <1>3, IdleUnrecorded DEF StateReturns, Background
<1>7. CASE IsCreated(a)
  <2>1. x.row.job_created_id = NoJob /\ NoJob # Complete
    BY <1>2 DEF NewRow, NoJob, Complete
  <2>2. Become(a, CreatedReturns(x, FALSE)) /\ UNCHANGED <<db, queue>>
    BY <1>7, <2>1 DEF IsCreated
  <2> QED BY <1>5, <2>2, QuietStep
<1>8. CASE UpdateSkipped(a) \/ UpdateFails(a)
  <2>1. x.caller = "method"
    BY <1>1, <1>8 DEF Unrecorded, UpdateSkipped, UpdateFails
  <2>2. Become(a, StateReturns(a, x, FALSE)) /\ UNCHANGED <<db, queue>>
    BY <1>8, <2>1 DEF UpdateSkipped, UpdateFails, UpdateReturns
  <2> QED BY <1>6, <2>2, QuietStep
<1>9. CASE UpdateRaises(a)
  BY <1>2, <1>9, IdleUnrecorded, QuietStep DEF UpdateRaises, Raised
<1>10. CASE CommandAnswered(a)
  <2>1. x.method = "approve"
    BY <1>1, <1>10 DEF Unrecorded, CommandAnswered, Posting
  <2>2. PICK j : Become(a, [x EXCEPT !.job = j, !.at = "saveJob"])
    BY <1>10, <2>1 DEF CommandAnswered
  <2>3. Unrecorded(a, [x EXCEPT !.job = j, !.at = "saveJob"])
    BY <1>1, <1>2, <2>1 DEF Unrecorded, Local, Background
  <2> QED BY <1>10, <2>2, <2>3, QuietStep DEF CommandAnswered
<1>11. CASE CommandLost(a) \/ CommandRefused(a) \/ Killed(a)
  BY <1>11, IdleUnrecorded, QuietStep DEF CommandLost, CommandRefused, Killed
<1> QED BY <1>7, <1>8, <1>9, <1>10, <1>11

\* Nothing else is possible before that but what CloudStack does, and SaveJob,
\* which records the deployment.
LEMMA QuietRest ==
  ASSUME Sound, NothingRecorded, db.job_created_id = NoJob, NEW a \in Actor, Replies(a) \/ Computes(a)
  PROVE  \/ IsCreated(a) \/ UpdateSkipped(a) \/ UpdateFails(a) \/ UpdateRaises(a)
         \/ CommandAnswered(a) \/ CommandRefused(a)
         \/ SaveJob(a)
<1>1. Unrecorded(a, actor[a]) /\ actor[a].row.instance_id \notin DOMAIN machine
  <2>1. Unrecorded(a, actor[a])
    BY DEF NothingRecorded
  <2>2. actor[a].row.instance_id = 0
    BY <2>1 DEF Unrecorded, NewRow
  <2>3. 0 \notin DOMAIN machine
    BY PortalAssumption DEF Sound, Types, Machine
  <2> QED BY <2>1, <2>2, <2>3
<1>2. /\ actor[a].at \in {"idle", "isCreated", "updateState", "post", "saveJob"}
      /\ actor[a].at = "post" => actor[a].method = "approve"
  BY <1>1 DEF Unrecorded
<1> QED BY <1>1, <1>2 DEF Replies, Computes, QueryAnswered, QueryFails, UpdateAnswered, DestroyAnswered,
      DestroyFails, SshSucceeds, SshFails, MarkError, MarkCreated, SaveState, SaveApproving, SaveCommand,
      Enqueue, Again, LoadForSpice, SaveConsole, SaveError

LEMMA NothingRecordedStays ==
  ASSUME Sound, NothingRecorded, [Next]_vars
  PROVE  NothingRecorded'
<1>1. CASE db.job_created_id # NoJob
  BY <1>1, RecordedStays DEF NothingRecorded
<1>2. CASE db.job_created_id = NoJob
  <2>1. ASSUME NEW a \in Actor, Replies(a) \/ Computes(a) PROVE NothingRecorded'
    <3>1. CASE SaveJob(a)
      <4>1. actor[a].job \in Job
        BY <3>1 DEF SaveJob, Sound, Types, Actors, Good
      <4>2. db'.job_created_id # NoJob
        BY <3>1, <4>1 DEF SaveJob, Sound, Types, Row, Job, NoJob
      <4> QED BY <4>2 DEF NothingRecorded
    <3>2. CASE ~SaveJob(a)
      BY <1>2, <2>1, <3>2, QuietRest, QuietMethods
    <3> QED BY <3>1, <3>2
  <2>2. ASSUME NEW a \in Actor, Begins(a) \/ CommandLost(a) \/ Killed(a) PROVE NothingRecorded'
    BY <1>2, <2>2, QuietBegins, QuietMethods
  <2>3. CASE UNCHANGED <<db, queue, actor>>
    BY <2>3 DEF NothingRecorded
  <2>4. \/ UNCHANGED <<db, queue, actor>>
        \/ \E a \in Actor : Begins(a) \/ Replies(a) \/ Computes(a) \/ CommandLost(a) \/ Killed(a)
    BY DEF Next, vars, JobEnds, GuestStops, Expunge
  <2> QED BY <2>1, <2>2, <2>3, <2>4
<1> QED BY <1>1, <1>2

LEMMA InitNothing == Init => NothingRecorded
BY IdleUnrecorded DEF Init, NothingRecorded

\* An instance past approval has its deployment recorded, wherever a process was
\* killed and whatever stale copy was written (instance.rb:164-165): before the
\* record there is nobody who could write another state.
THEOREM ApprovedRecorded == Spec => []ApprovedIsRecorded
<1>1. NothingRecorded => ApprovedIsRecorded
  BY DEF NothingRecorded, ApprovedIsRecorded, NewRow, Is, Downcase
<1> QED BY <1>1, InitNothing, InitSound, NextSound, NothingRecordedStays, PTL DEF Spec

-------------------------------------------------------------------------------
(* A record names a machine whose deployment succeeded.                    *)

Deployed(m, jobs) ==
  \E j \in DOMAIN jobs : jobs[j].kind = "approve" /\ jobs[j].status = "1" /\ jobs[j].machine = m

\* What a row may say while the stored row names the machine stored.
TrueRow(row, jobs, stored) ==
  /\ row.job_created_id \in DOMAIN jobs => jobs[row.job_created_id].kind = "approve"
  /\ row.instance_id # 0 => stored # 0 /\ Deployed(row.instance_id, jobs)

\* And an actor: what it is about to write, CloudStack has said.
TrueActor(x, jobs, stored) ==
  /\ TrueRow(x.row, jobs, stored)
  /\ x.at \in {"saveState", "ssh", "saveConsole"} => x.row.instance_id # 0
  /\ x.at = "markCreated" => jobs[x.row.job_created_id].status = "1"
  /\ x.at = "saveJob" => jobs[x.job].kind = "approve"

Named(row) == row.job_created_id = Complete \/ row.console => row.instance_id # 0

AllTrue ==
  /\ TrueRow(db, job, db.instance_id) /\ Named(db)
  /\ \A a \in Actor : TrueActor(actor[a], job, db.instance_id)

\* Jobs are not forgotten, and what they were and how they succeeded stays.
Grown(old, new) ==
  \A j \in DOMAIN old :
    /\ j \in DOMAIN new /\ new[j].kind = old[j].kind /\ new[j].machine = old[j].machine
    /\ old[j].status = "1" => new[j].status = "1"

LEMMA TrueRowKept ==
  ASSUME NEW old, NEW new, Grown(old, new), DOMAIN new \subseteq Job,
         NEW m, NEW n, m # 0 => n # 0,
         NEW row, row.job_created_id \in DOMAIN old \cup {NoJob, Complete}, TrueRow(row, old, m)
  PROVE  TrueRow(row, new, n)
<1>1. NoJob \notin DOMAIN new /\ Complete \notin DOMAIN new
  BY DEF Job, NoJob, Complete
<1>2. row.job_created_id \in DOMAIN new => new[row.job_created_id].kind = "approve"
  BY <1>1 DEF TrueRow, Grown
<1>3. ASSUME row.instance_id # 0 PROVE Deployed(row.instance_id, new)
  BY <1>3 DEF TrueRow, Grown, Deployed
<1> QED BY <1>2, <1>3 DEF TrueRow

LEMMA TrueActorKept ==
  ASSUME NEW old, NEW new, Grown(old, new), DOMAIN new \subseteq Job,
         NEW m, NEW n, m # 0 => n # 0,
         NEW a, NEW M, NEW x, Good(a, x, DOMAIN old, M), TrueActor(x, old, m)
  PROVE  TrueActor(x, new, n)
<1>1. TrueRow(x.row, new, n)
  BY TrueRowKept DEF TrueActor, Good, KnownIn
<1>2. x.at = "markCreated" => new[x.row.job_created_id].status = "1"
  BY DEF TrueActor, Good, Grown
<1>3. x.at = "saveJob" => new[x.job].kind = "approve"
  BY DEF TrueActor, Good, Grown
<1> QED BY <1>1, <1>2, <1>3 DEF TrueActor

\* Where a method goes on without having asked CloudStack anything.
Plainly(y, row) ==
  /\ y.row \in {row, NewRow}
  /\ y.at \notin {"saveState", "ssh", "saveConsole", "markCreated", "saveJob"}

LEMMA PlainlyTrue ==
  ASSUME NEW jobs, DOMAIN jobs \subseteq Job, NEW n, NEW row, TrueRow(row, jobs, n),
         NEW y, Plainly(y, row)
  PROVE  TrueActor(y, jobs, n)
<1>1. TrueRow(NewRow, jobs, n)
  BY DEF TrueRow, NewRow, Job, NoJob
<1> QED BY <1>1 DEF TrueActor, Plainly

LEMMA ReturnsPlainly ==
  ASSUME NEW a, NEW x \in Local, NEW ok \in BOOLEAN
  PROVE  /\ Plainly(Idle, x.row)
         /\ Plainly(CreatedReturns(x, ok), x.row)
         /\ Plainly(Alive(x), x.row)
         /\ Plainly(Raised(a, x), x.row)
<1>1. Plainly(Idle, x.row) /\ Plainly(Repeat(x), x.row) /\ Plainly(Reload(x), x.row)
  BY DEF Plainly, Idle, Repeat, Reload
<1>2. /\ Plainly(Post(x), x.row) /\ Plainly(Buttons(x), x.row)
      /\ \A by \in {"method", "isCreated"} : Plainly(CallUpdateState(x, by), x.row)
      /\ Plainly([x EXCEPT !.method = "canStop", !.at = "isCreated", !.caller = "none"], x.row)
  BY DEF Plainly, Post, Buttons, CallUpdateState, Local
<1>3. \A b \in BOOLEAN : Plainly(CreatedReturns(x, b), x.row)
  BY <1>1, <1>2 DEF CreatedReturns
<1>4. Plainly(Alive(x), x.row)
  BY <1>2, <1>3 DEF Alive
<1> QED BY <1>1, <1>3, <1>4 DEF Raised

\* Only updateState that succeeded leads to the console.
LEMMA UpdateReturnsPlainly ==
  ASSUME NEW a, NEW x \in Local, NEW ok \in BOOLEAN
  PROVE  \/ Plainly(UpdateReturns(a, x, ok), x.row)
         \/ ok /\ UpdateReturns(a, x, ok) = [x EXCEPT !.at = "ssh", !.caller = "none"]
<1>1. Plainly(CreatedReturns(x, ~Leaving(x.row)), x.row)
  BY ReturnsPlainly
<1>2. /\ Plainly(Idle, x.row) /\ Plainly(Raised(a, x), x.row)
      /\ Plainly(Repeat(x), x.row) /\ Plainly(Reload(x), x.row)
      /\ Plainly(Buttons(x), x.row) /\ Plainly(CheckCreated(x), x.row)
  BY ReturnsPlainly DEF Plainly, Repeat, Reload, Idle, Buttons, CheckCreated, Local
<1>3. Plainly(StartPolled(x, ok), x.row) /\ Plainly(StopPolled(x, ok), x.row)
  BY <1>2 DEF StartPolled, StopPolled
<1>4. \/ Plainly(StateReturns(a, x, ok), x.row)
      \/ ok /\ StateReturns(a, x, ok) = [x EXCEPT !.at = "ssh", !.caller = "none"]
  BY <1>2, <1>3 DEF StateReturns
<1> QED BY <1>1, <1>4 DEF UpdateReturns

-------------------------------------------------------------------------------
(* Nothing that is true is taken back.                                     *)

LEMMA JobsGrow ==
  ASSUME Sound, [Next]_vars
  PROVE  Grown(job, job') /\ DOMAIN job' \subseteq Job
<1>0. DOMAIN job \subseteq Job
  BY DEF Sound, Types
<1>1. CASE UNCHANGED job
  BY <1>0, <1>1 DEF Grown
<1>2. ASSUME NEW j \in DOMAIN job, JobEnds(j) PROVE Grown(job, job') /\ DOMAIN job' \subseteq Job
  <2>1. job[j].status = "0" /\ job[j] \in JobRow
    BY <1>2 DEF JobEnds, Sound, Types
  <2>2. PICK s : job' = [job EXCEPT ![j].status = s]
    BY <1>2 DEF JobEnds
  <2> QED BY <1>0, <2>1, <2>2 DEF Grown, JobRow
<1>3. ASSUME NEW a \in Actor, CommandAnswered(a) \/ CommandLost(a)
      PROVE  Grown(job, job') /\ DOMAIN job' \subseteq Job
  <2>1. PICK j \in Fresh : Accept(actor[a].method, actor[a].row.instance_id, j)
    BY <1>3 DEF CommandAnswered, CommandLost
  <2>2. PICK new : job' = Insert(job, j, new)
    BY <2>1 DEF Accept
  <2>3. j \in Job /\ j \notin DOMAIN job
    BY <2>1 DEF Fresh
  <2> QED BY <1>0, <2>2, <2>3 DEF Insert, Grown
<1>4. \/ UNCHANGED job
      \/ \E j \in DOMAIN job : JobEnds(j)
      \/ \E a \in Actor : CommandAnswered(a) \/ CommandLost(a)
  BY DEF Next, vars, cloud, Begins, Approve, AdminPage, Show, Press, Perform, Replies, QueryAnswered, QueryFails,
         UpdateAnswered, UpdateFails, UpdateRaises, CommandRefused, DestroyAnswered,
         DestroyFails, SshSucceeds, SshFails, Computes, IsCreated, MarkError, MarkCreated, UpdateSkipped,
         SaveState, SaveJob, SaveApproving, SaveCommand, Enqueue, Again, LoadForSpice, SaveConsole, SaveError,
         Killed, GuestStops, Expunge
<1> QED BY <1>1, <1>2, <1>3, <1>4

\* A copy written over a row that is true leaves it true, and with a machine if
\* it or the copy has one.
LEMMA SavedTrue ==
  ASSUME DOMAIN job \subseteq Job, TrueRow(db, job, db.instance_id), Named(db),
         NEW old, TrueRow(old, job, db.instance_id),
         NEW new, new.job_created_id \in {old.job_created_id, Complete},
         \/ new.job_created_id = old.job_created_id /\ new.console = old.console
         \/ new.instance_id # 0,
         new.instance_id # 0 => Deployed(new.instance_id, job),
         old.instance_id # 0 => new.instance_id # 0,
         NEW s, s = Saved(old, new)
  PROVE  /\ TrueRow(s, job, s.instance_id) /\ Named(s)
         /\ db.instance_id # 0 => s.instance_id # 0
         /\ TrueRow(new, job, s.instance_id)
<1>1. Complete \notin DOMAIN job
  BY DEF Job, Complete
<1>2. /\ s.job_created_id = Dirty(old.job_created_id, new.job_created_id, db.job_created_id)
      /\ s.instance_id = Dirty(old.instance_id, new.instance_id, db.instance_id)
      /\ s.console = Dirty(old.console, new.console, db.console)
  BY DEF Saved
<1>3. new.instance_id # 0 => s.instance_id # 0
  BY <1>2 DEF Dirty, TrueRow
<1>4. db.instance_id # 0 => s.instance_id # 0
  BY <1>2 DEF Dirty, TrueRow
<1>5. s.instance_id # 0 => Deployed(s.instance_id, job)
  BY <1>2 DEF Dirty, TrueRow
<1>6. /\ s.job_created_id \in DOMAIN job => job[s.job_created_id].kind = "approve"
      /\ new.job_created_id \in DOMAIN job => job[new.job_created_id].kind = "approve"
  BY <1>1, <1>2 DEF Dirty, TrueRow
<1>7. Named(s)
  <2>1. CASE new.instance_id # 0
    BY <1>3, <2>1 DEF Named
  <2>2. CASE new.instance_id = 0
    BY <1>2, <2>2 DEF Dirty, Named
  <2> QED BY <2>1, <2>2
<1> QED BY <1>3, <1>4, <1>5, <1>6, <1>7 DEF TrueRow

\* One actor takes a step, and the row it leaves is true.
LEMMA TrueStep ==
  ASSUME Sound, AllTrue, [Next]_vars, NEW a \in Actor, NEW y, Become(a, y),
         TrueActor(y, job', db'.instance_id),
         TrueRow(db', job', db'.instance_id), Named(db'),
         db.instance_id # 0 => db'.instance_id # 0
  PROVE  AllTrue'
<1>1. Grown(job, job') /\ DOMAIN job' \subseteq Job
  BY JobsGrow
<1>2. ASSUME NEW b \in Actor PROVE TrueActor(actor'[b], job', db'.instance_id)
  <2>1. CASE b = a
    <3>1. actor'[b] = y
      BY <2>1 DEF Become, Sound, Types
    <3> QED BY <3>1
  <2>2. CASE b # a
    <3>1. actor'[b] = actor[b]
      BY <2>2 DEF Become, Sound, Types
    <3>2. Good(b, actor[b], DOMAIN job, DOMAIN machine) /\ TrueActor(actor[b], job, db.instance_id)
      BY DEF Sound, Actors, AllTrue
    <3> QED BY <1>1, <3>1, <3>2, TrueActorKept
  <2> QED BY <2>1, <2>2
<1> QED BY <1>2 DEF AllTrue

\* Its own variables alone.
LEMMA TrueLocalStep ==
  ASSUME Sound, AllTrue, [Next]_vars, NEW a \in Actor, NEW y, Become(a, y), UNCHANGED db,
         TrueActor(y, job', db.instance_id)
  PROVE  AllTrue'
<1>1. Grown(job, job') /\ DOMAIN job' \subseteq Job
  BY JobsGrow
<1>2. TrueRow(db, job, db.instance_id) /\ Named(db)
      /\ db.job_created_id \in DOMAIN job \cup {NoJob, Complete}
  BY DEF AllTrue, Sound, KnownRow
<1>3. TrueRow(db, job', db.instance_id)
  BY <1>1, <1>2, TrueRowKept
<1> QED BY <1>2, <1>3, TrueStep

\* Nor has CloudStack a part in it.
LEMMA PlainStep ==
  ASSUME Sound, AllTrue, [Next]_vars, NEW a \in Actor, NEW y, Become(a, y), UNCHANGED <<db, job>>,
         Plainly(y, actor[a].row) \/ Plainly(y, db)
  PROVE  AllTrue'
<1>1. DOMAIN job \subseteq Job /\ TrueRow(db, job, db.instance_id) /\ TrueRow(actor[a].row, job, db.instance_id)
  BY DEF Sound, Types, AllTrue, TrueActor
<1>2. TrueActor(y, job, db.instance_id)
  BY <1>1, PlainlyTrue
<1> QED BY <1>2, TrueLocalStep

LEMMA TrueBegins ==
  ASSUME Sound, AllTrue, [Next]_vars, NEW a \in Actor, Begins(a) \/ LoadForSpice(a)
  PROVE  AllTrue'
<1>1. ASSUME NEW method, NEW at \in {"post", "isCreated", "updateState"}, NEW w,
             Become(a, Start(method, at, w)), UNCHANGED <<db, job>>
      PROVE  AllTrue'
  <2>1. Plainly(Start(method, at, w), db)
    BY DEF Plainly, Start, Idle
  <2> QED BY <1>1, <2>1, PlainStep
<1>2. CASE Approve(a) \/ AdminPage(a) \/ Show(a) \/ LoadForSpice(a)
  BY <1>1, <1>2 DEF Approve, AdminPage, Show, LoadForSpice, cloud
<1>3. ASSUME NEW m, Press(a, m) PROVE AllTrue'
  BY <1>1, <1>3 DEF Press, cloud
<1>4. ASSUME NEW w, Perform(a, w) PROVE AllTrue'
  <2> DEFINE at == CASE w.class = "VMDeploy"  -> "isCreated"
                     [] w.class = "VMDestroy" -> "post"
                     [] OTHER                 -> "updateState"
  <2>1. at \in {"post", "isCreated", "updateState"}
    OBVIOUS
  <2>2. Become(a, Start(w.class, at, w)) /\ UNCHANGED <<db, job>>
    BY <1>4 DEF Perform, cloud
  <2> QED BY <1>1, <2>1, <2>2
<1> QED BY <1>2, <1>3, <1>4 DEF Begins

\* Steps that neither write the row nor learn anything from CloudStack.
LEMMA TruePlain ==
  ASSUME Sound, AllTrue, [Next]_vars, NEW a \in Actor,
         \/ IsCreated(a) \/ QueryFails(a) \/ UpdateSkipped(a) \/ UpdateFails(a) \/ UpdateRaises(a)
         \/ CommandRefused(a) \/ DestroyAnswered(a) \/ DestroyFails(a) \/ SshFails(a)
         \/ Enqueue(a) \/ Again(a) \/ Killed(a)
  PROVE  AllTrue'
<1> DEFINE x == actor[a]
<1>1. x \in Local
  BY DEF Sound, Types
<1>2. UNCHANGED <<db, job>>
  BY DEF cloud, IsCreated, QueryFails, UpdateSkipped, UpdateFails, UpdateRaises, CommandRefused,
         DestroyAnswered, DestroyFails, SshFails, Enqueue, Again, Killed
<1>3. /\ Plainly(Idle, x.row) /\ Plainly(CreatedReturns(x, FALSE), x.row)
      /\ Plainly(Alive(x), x.row) /\ Plainly(Raised(a, x), x.row)
  BY <1>1, ReturnsPlainly
<1>4. Plainly(UpdateReturns(a, x, FALSE), x.row)
  BY <1>1, UpdateReturnsPlainly
<1>5. Plainly([x EXCEPT !.at = "query"], x.row) /\ Plainly([x EXCEPT !.at = "saveError"], x.row)
  BY <1>1 DEF Plainly, Local
<1>6. \E y : Become(a, y) /\ Plainly(y, x.row)
  <2>1. CASE IsCreated(a)
    BY <1>3, <1>5, <2>1 DEF IsCreated
  <2>2. CASE UpdateSkipped(a) \/ UpdateFails(a) \/ UpdateRaises(a)
    BY <1>3, <1>4, <2>2 DEF UpdateSkipped, UpdateFails, UpdateRaises
  <2>3. CASE QueryFails(a) \/ DestroyFails(a)
    BY <1>3, <1>5, <2>3 DEF QueryFails, DestroyFails
  <2>4. CASE CommandRefused(a) \/ DestroyAnswered(a) \/ SshFails(a) \/ Enqueue(a) \/ Again(a) \/ Killed(a)
    BY <1>3, <2>4 DEF CommandRefused, DestroyAnswered, SshFails, Enqueue, Again, Killed
  <2> QED BY <2>1, <2>2, <2>3, <2>4
<1> QED BY <1>2, <1>6, PlainStep

\* Answers of CloudStack and of ssh that the actor takes along.
LEMMA TrueAnswers ==
  ASSUME Sound, AllTrue, [Next]_vars, NEW a \in Actor,
         \/ QueryAnswered(a) \/ UpdateAnswered(a) \/ SshSucceeds(a)
         \/ CommandAnswered(a) \/ CommandLost(a)
  PROVE  AllTrue'
<1> DEFINE x == actor[a]
<1>1. x \in Local /\ TrueActor(x, job, db.instance_id) /\ TrueRow(x.row, job, db.instance_id)
      /\ DOMAIN job \subseteq Job /\ DOMAIN machine \subseteq Machine
  BY DEF Sound, Types, AllTrue, TrueActor
<1>2. CASE QueryAnswered(a)
  <2>1. UNCHANGED <<db, job>> /\ Plainly(CreatedReturns(x, FALSE), x.row)
    BY <1>1, <1>2, ReturnsPlainly DEF QueryAnswered, cloud
  <2>2. Plainly([x EXCEPT !.at = "markError"], x.row)
    BY <1>1 DEF Plainly, Local
  <2>3. CASE job[x.row.job_created_id].status = "1"
    <3>1. Become(a, [x EXCEPT !.at = "markCreated"])
      BY <1>2, <2>3 DEF QueryAnswered
    <3>2. TrueActor([x EXCEPT !.at = "markCreated"], job, db.instance_id)
      BY <1>1, <2>3 DEF TrueActor, Local
    <3> QED BY <2>1, <3>1, <3>2, TrueLocalStep
  <2>4. CASE job[x.row.job_created_id].status # "1"
    <3>1. Become(a, CreatedReturns(x, FALSE)) \/ Become(a, [x EXCEPT !.at = "markError"])
      BY <1>2, <2>4 DEF QueryAnswered
    <3> QED BY <2>1, <2>2, <3>1, PlainStep
  <2> QED BY <2>3, <2>4
<1>3. CASE UpdateAnswered(a)
  <2>1. x.row.instance_id # 0
    BY <1>1, <1>3, PortalAssumption DEF UpdateAnswered, Machine
  <2>2. Become(a, [x EXCEPT !.at = "saveState", !.state = machine[x.row.instance_id]]) /\ UNCHANGED <<db, job>>
    BY <1>3 DEF UpdateAnswered, cloud
  <2>3. TrueActor([x EXCEPT !.at = "saveState", !.state = machine[x.row.instance_id]], job, db.instance_id)
    BY <1>1, <2>1 DEF TrueActor, Local
  <2> QED BY <2>2, <2>3, TrueLocalStep
<1>4. CASE SshSucceeds(a)
  <2>1. Become(a, [x EXCEPT !.at = "saveConsole"]) /\ UNCHANGED <<db, job>> /\ x.at = "ssh"
    BY <1>4 DEF SshSucceeds, cloud
  <2>2. TrueActor([x EXCEPT !.at = "saveConsole"], job, db.instance_id)
    BY <1>1, <2>1 DEF TrueActor, Local
  <2> QED BY <2>1, <2>2, TrueLocalStep
<1>5. Grown(job, job') /\ DOMAIN job' \subseteq Job
  BY JobsGrow
<1>6. TrueRow(x.row, job', db.instance_id)
  <2>1. x.row.job_created_id \in DOMAIN job \cup {NoJob, Complete}
    BY DEF Sound, Actors, Good, KnownIn
  <2> QED BY <1>1, <1>5, <2>1, TrueRowKept
<1>7. CASE CommandAnswered(a)
  <2>1. PICK j \in Fresh :
          /\ Accept(x.method, x.row.instance_id, j)
          /\ Become(a, [x EXCEPT !.job = j, !.at = IF x.method = "approve" THEN "saveJob" ELSE "save"])
          /\ UNCHANGED db
    BY <1>7 DEF CommandAnswered
  <2> DEFINE y == [x EXCEPT !.job = j, !.at = IF x.method = "approve" THEN "saveJob" ELSE "save"]
  <2>2. y.row = x.row /\ y.job = j /\ y.at = IF x.method = "approve" THEN "saveJob" ELSE "save"
    BY <1>1 DEF Local
  <2>3. x.method = "approve" => job'[j].kind = "approve"
    BY <2>1 DEF Accept, Insert
  <2>4. TrueActor(y, job', db.instance_id)
    BY <1>6, <2>2, <2>3 DEF TrueActor
  <2> QED BY <2>1, <2>4, TrueLocalStep
<1>8. CASE CommandLost(a)
  <2>1. Become(a, Idle) /\ UNCHANGED db
    BY <1>8 DEF CommandLost
  <2>2. TrueActor(Idle, job', db.instance_id)
    BY <1>1, <1>5, <1>6, ReturnsPlainly, PlainlyTrue
  <2> QED BY <2>1, <2>2, TrueLocalStep
<1> QED BY <1>2, <1>3, <1>4, <1>7, <1>8

\* A write of the row from the copy.
LEMMA TrueSaving ==
  ASSUME Sound, AllTrue, [Next]_vars, NEW a \in Actor, NEW new,
         UNCHANGED job, db' = Saved(actor[a].row, new),
         new.job_created_id \in {actor[a].row.job_created_id, Complete},
         \/ new.job_created_id = actor[a].row.job_created_id /\ new.console = actor[a].row.console
         \/ new.instance_id # 0,
         new.instance_id # 0 => Deployed(new.instance_id, job),
         actor[a].row.instance_id # 0 => new.instance_id # 0,
         NEW y, Become(a, y),
         \/ Plainly(y, new)
         \/ y.row = new /\ y.at = "ssh" /\ new.instance_id # 0
  PROVE  AllTrue'
<1>1. /\ DOMAIN job \subseteq Job /\ TrueRow(db, job, db.instance_id) /\ Named(db)
      /\ TrueRow(actor[a].row, job, db.instance_id)
  BY DEF Sound, Types, AllTrue, TrueActor
<1>2. /\ TrueRow(db', job, db'.instance_id) /\ Named(db')
      /\ db.instance_id # 0 => db'.instance_id # 0
      /\ TrueRow(new, job, db'.instance_id)
  BY <1>1, SavedTrue
<1>3. TrueActor(y, job, db'.instance_id)
  <2>1. CASE Plainly(y, new)
    BY <1>1, <1>2, <2>1, PlainlyTrue
  <2>2. CASE y.row = new /\ y.at = "ssh" /\ new.instance_id # 0
    BY <1>2, <2>2 DEF TrueActor
  <2> QED BY <2>1, <2>2
<1> QED BY <1>2, <1>3, TrueStep

LEMMA TrueWrites ==
  ASSUME Sound, AllTrue, [Next]_vars, NEW a \in Actor,
         MarkError(a) \/ MarkCreated(a) \/ SaveState(a) \/ SaveCommand(a) \/ SaveConsole(a)
  PROVE  AllTrue'
<1> DEFINE x == actor[a]
<1>1. x \in Local /\ x.row \in Row /\ TrueActor(x, job, db.instance_id)
      /\ (x.row.instance_id # 0 => Deployed(x.row.instance_id, job))
  BY DEF Sound, Types, Local, AllTrue, TrueActor, TrueRow
<1>2. UNCHANGED job
  BY DEF cloud, MarkError, MarkCreated, SaveState, SaveCommand, SaveConsole
<1>3. ASSUME NEW s \in State
      PROVE  /\ [x.row EXCEPT !.state = s].job_created_id = x.row.job_created_id
             /\ [x.row EXCEPT !.state = s].console = x.row.console
             /\ [x.row EXCEPT !.state = s].instance_id = x.row.instance_id
             /\ [x.row EXCEPT !.state = s] \in Row
  BY <1>1 DEF Row
<1>4. CASE MarkError(a)
  <2> DEFINE new == [x.row EXCEPT !.state = "Error"]
  <2>1. "Error" \in State
    BY DEF State, CloudState
  <2>2. /\ new.job_created_id = x.row.job_created_id /\ new.console = x.row.console
        /\ new.instance_id = x.row.instance_id /\ new \in Row
    BY <1>3, <2>1
  <2>3. [x EXCEPT !.row = new] \in Local /\ [x EXCEPT !.row = new].row = new
    BY <1>1, <2>2 DEF Local
  <2>4. Plainly(CreatedReturns([x EXCEPT !.row = new], FALSE), new)
    BY <2>3, ReturnsPlainly
  <2>5. db' = Saved(x.row, new) /\ Become(a, CreatedReturns([x EXCEPT !.row = new], FALSE))
    BY <1>4 DEF MarkError
  <2> QED BY <1>1, <1>2, <2>2, <2>4, <2>5, TrueSaving
<1>5. CASE MarkCreated(a)
  <2> DEFINE m   == job[x.row.job_created_id].machine
             new == [x.row EXCEPT !.state = "Running", !.job_created_id = Complete, !.instance_id = m]
  <2>1. x.at = "markCreated" /\ x.row.job_created_id \in DOMAIN job
    BY <1>5 DEF MarkCreated, Sound, Actors, Good
  <2>2. m \in Machine /\ m # 0
    BY <2>1, PortalAssumption DEF Sound, Types, JobRow, Machine
  <2>3. Deployed(m, job)
    <3>1. job[x.row.job_created_id].kind = "approve" /\ job[x.row.job_created_id].status = "1"
      BY <1>1, <2>1 DEF TrueActor, TrueRow
    <3> QED BY <2>1, <3>1 DEF Deployed
  <2>4. new \in Row /\ new.instance_id = m /\ new.job_created_id = Complete
    BY <1>1, <2>2 DEF Row, State, CloudState
  <2>5. [x EXCEPT !.row = new] \in Local /\ [x EXCEPT !.row = new].row = new
    BY <1>1, <2>4 DEF Local
  <2>6. Plainly(Alive([x EXCEPT !.row = new]), new)
    BY <2>5, ReturnsPlainly
  <2>7. db' = Saved(x.row, new) /\ Become(a, Alive([x EXCEPT !.row = new]))
    BY <1>5 DEF MarkCreated
  <2> QED BY <1>2, <2>2, <2>3, <2>4, <2>6, <2>7, TrueSaving
<1>6. CASE SaveState(a)
  <2> DEFINE new == [x.row EXCEPT !.state = x.state]
             y   == [x EXCEPT !.row = new, !.state = "pending"]
  <2>1. x.state \in State /\ x.row.instance_id # 0
    BY <1>1, <1>6 DEF SaveState, TrueActor, Local
  <2>2. /\ new.job_created_id = x.row.job_created_id /\ new.console = x.row.console
        /\ new.instance_id = x.row.instance_id /\ new \in Row
    BY <1>3, <2>1
  <2>3. y \in Local /\ y.row = new
    BY <1>1, <2>2 DEF Local, State, PortalState
  <2> HIDE DEF y
  <2>4. \/ Plainly(UpdateReturns(a, y, TRUE), new)
        \/ UpdateReturns(a, y, TRUE) = [y EXCEPT !.at = "ssh", !.caller = "none"]
    <3>1. \A ok \in BOOLEAN :
            \/ Plainly(UpdateReturns(a, y, ok), y.row)
            \/ UpdateReturns(a, y, ok) = [y EXCEPT !.at = "ssh", !.caller = "none"]
      BY <2>3, UpdateReturnsPlainly
    <3>2. \/ Plainly(UpdateReturns(a, y, TRUE), y.row)
          \/ UpdateReturns(a, y, TRUE) = [y EXCEPT !.at = "ssh", !.caller = "none"]
      BY <3>1, Zenon
    <3> QED BY <2>3, <3>2
  <2>5. [y EXCEPT !.at = "ssh", !.caller = "none"].row = new /\ [y EXCEPT !.at = "ssh", !.caller = "none"].at = "ssh"
    BY <2>3 DEF Local
  <2>6. db' = Saved(x.row, new) /\ Become(a, UpdateReturns(a, y, TRUE))
    BY <1>6 DEF SaveState, y
  <2> QED BY <1>1, <1>2, <2>1, <2>2, <2>4, <2>5, <2>6, TrueSaving
<1>7. CASE SaveCommand(a)
  <2> DEFINE new == [x.row EXCEPT !.state = StateAfter(x.method)]
             y   == [x EXCEPT !.at = "enqueue", !.row = new]
  <2>1. StateAfter(x.method) \in State
    BY DEF StateAfter, State, PortalState
  <2>2. /\ new.job_created_id = x.row.job_created_id /\ new.console = x.row.console
        /\ new.instance_id = x.row.instance_id
    BY <1>3, <2>1
  <2>3. Plainly(y, new)
    BY <1>1 DEF Plainly, Local
  <2>4. db' = Saved(x.row, new) /\ Become(a, y)
    BY <1>7 DEF SaveCommand
  <2> QED BY <1>1, <1>2, <2>2, <2>3, <2>4, TrueSaving
<1>8. CASE SaveConsole(a)
  <2> DEFINE new == [x.row EXCEPT !.console = TRUE]
  <2>1. x.row.instance_id # 0
    BY <1>1, <1>8 DEF SaveConsole, TrueActor
  <2>2. new.job_created_id = x.row.job_created_id /\ new.instance_id = x.row.instance_id
    BY <1>1 DEF Row
  <2>3. Plainly(Idle, new)
    BY DEF Plainly, Idle
  <2>4. db' = Saved(x.row, new) /\ Become(a, Idle)
    BY <1>8 DEF SaveConsole
  <2> QED BY <1>1, <1>2, <2>1, <2>2, <2>3, <2>4, TrueSaving
<1> QED BY <1>4, <1>5, <1>6, <1>7, <1>8

\* update_column writes one column, whatever the copy.
LEMMA TrueColumns ==
  ASSUME Sound, AllTrue, [Next]_vars, NEW a \in Actor,
         SaveJob(a) \/ SaveApproving(a) \/ SaveError(a)
  PROVE  AllTrue'
<1> DEFINE x == actor[a]
<1>1. /\ x \in Local /\ x.row \in Row /\ db \in Row /\ DOMAIN job \subseteq Job
      /\ TrueActor(x, job, db.instance_id) /\ TrueRow(x.row, job, db.instance_id)
      /\ TrueRow(db, job, db.instance_id) /\ Named(db)
  BY DEF Sound, Types, Local, AllTrue, TrueActor
<1>2. UNCHANGED job
  BY DEF cloud, SaveJob, SaveApproving, SaveError
<1>3. CASE SaveJob(a)
  <2> DEFINE y == [x EXCEPT !.at = "save", !.row.job_created_id = x.job]
  <2>1. x.job \in Job /\ x.job # Complete /\ job[x.job].kind = "approve"
    BY <1>1, <1>3 DEF SaveJob, TrueActor, Sound, Actors, Good, Job, Complete
  <2>2. db' = [db EXCEPT !.job_created_id = x.job] /\ Become(a, y)
    BY <1>3 DEF SaveJob
  <2>3. db'.job_created_id = x.job /\ db'.instance_id = db.instance_id /\ db'.console = db.console
    BY <1>1, <2>2 DEF Row
  <2>4. y.at = "save" /\ y.row.job_created_id = x.job /\ y.row.instance_id = x.row.instance_id
    BY <1>1 DEF Local, Row
  <2>5. TrueRow(db', job, db'.instance_id) /\ Named(db')
    BY <1>1, <2>1, <2>3 DEF TrueRow, Named
  <2>6. TrueActor(y, job, db'.instance_id)
    BY <1>1, <2>1, <2>3, <2>4 DEF TrueRow, TrueActor
  <2> QED BY <1>2, <2>2, <2>3, <2>5, <2>6, TrueStep
<1>4. CASE SaveApproving(a) \/ SaveError(a)
  <2>1. /\ db'.job_created_id = db.job_created_id /\ db'.instance_id = db.instance_id
        /\ db'.console = db.console
    BY <1>1, <1>4 DEF SaveApproving, SaveError, Row
  <2>2. TrueRow(db', job, db'.instance_id) /\ Named(db')
    BY <1>1, <2>1 DEF TrueRow, Named
  <2> DEFINE y == [x EXCEPT !.at = "enqueue", !.row.state = "approving"]
  <2>3. y.at = "enqueue" /\ y.row.job_created_id = x.row.job_created_id /\ y.row.instance_id = x.row.instance_id
    BY <1>1 DEF Local, Row
  <2>4. TrueActor(y, job, db.instance_id)
    BY <1>1, <2>3 DEF TrueRow, TrueActor
  <2>5. TrueActor(Idle, job, db.instance_id)
    BY <1>1, ReturnsPlainly, PlainlyTrue
  <2>6. Become(a, y) \/ Become(a, Idle)
    BY <1>4 DEF SaveApproving, SaveError
  <2> QED BY <1>2, <2>1, <2>2, <2>4, <2>5, <2>6, TrueStep
<1> QED BY <1>3, <1>4

LEMMA AllTrueStays ==
  ASSUME Sound, AllTrue, [Next]_vars
  PROVE  AllTrue'
<1>1. ASSUME NEW a \in Actor, Begins(a) \/ CommandLost(a) \/ Killed(a) PROVE AllTrue'
  BY <1>1, TrueBegins, TrueAnswers, TruePlain
<1>2. ASSUME NEW a \in Actor, Replies(a) PROVE AllTrue'
  BY <1>2, TrueAnswers, TruePlain DEF Replies
<1>3. ASSUME NEW a \in Actor, Computes(a) PROVE AllTrue'
  BY <1>3, TruePlain, TrueWrites, TrueColumns, TrueBegins DEF Computes
<1>4. CASE UNCHANGED <<db, actor>>
  <2>1. Grown(job, job') /\ DOMAIN job' \subseteq Job
    BY JobsGrow
  <2>2. TrueRow(db, job', db.instance_id)
    BY <2>1, TrueRowKept DEF AllTrue, Sound, KnownRow
  <2>3. ASSUME NEW a \in Actor PROVE TrueActor(actor[a], job', db.instance_id)
    <3>1. Good(a, actor[a], DOMAIN job, DOMAIN machine) /\ TrueActor(actor[a], job, db.instance_id)
      BY DEF Sound, Actors, AllTrue
    <3> QED BY <2>1, <3>1, TrueActorKept
  <2> QED BY <1>4, <2>2, <2>3 DEF AllTrue
<1>5. \/ UNCHANGED <<db, actor>>
      \/ \E a \in Actor : Begins(a) \/ Replies(a) \/ Computes(a) \/ CommandLost(a) \/ Killed(a)
  BY DEF Next, vars, JobEnds, GuestStops, Expunge
<1> QED BY <1>1, <1>2, <1>3, <1>4, <1>5

LEMMA InitTrue == Init => AllTrue
<1>1. ASSUME Init PROVE job = [j \in {} |-> 0] /\ DOMAIN job \subseteq Job /\ db = NewRow
  BY <1>1 DEF Init
<1>2. ASSUME Init PROVE TrueRow(db, job, db.instance_id) /\ Named(db)
  BY <1>1, <1>2 DEF TrueRow, Named, NewRow, NoJob, Complete
<1>3. ASSUME Init, NEW a \in Actor PROVE TrueActor(actor[a], job, db.instance_id)
  <2>1. actor[a] = Idle /\ Plainly(Idle, db)
    BY <1>3 DEF Init, Plainly, Idle
  <2> QED BY <1>1, <1>2, <1>3, <2>1, PlainlyTrue
<1> QED BY <1>2, <1>3 DEF AllTrue

\* A record that says the machine was created names a machine whose deployment
\* succeeded, and only such a record has a console (instance.rb:283, 131),
\* however many processes write it from copies read long before.
THEOREM CreatedDeployed == Spec => []CreatedIsDeployed
<1>1. AllTrue => CreatedIsDeployed
  BY DEF AllTrue, Named, TrueRow, Deployed, CreatedIsDeployed
<1> QED BY <1>1, InitTrue, InitSound, NextSound, AllTrueStays, PTL DEF Spec
-------------------------------------------------------------------------------
(* The machines: the inductive invariants.                                 *)

\* An approval is a request of a web process and goes straight through deploy;
\* CloudStack never says that a machine is pending.
Orderly(a, x) ==
  /\ x.method = "approve" => a \in Web /\ x.at \in {"post", "saveJob", "save", "enqueue"}
  /\ x.at = "saveJob" => x.method = "approve"
  /\ x.at = "saveState" => x.state # "pending"

AllOrderly == \A a \in Actor : Orderly(a, actor[a])

\* Approvals whose command is still to be sent, and those that were answered and
\* have not written their last word.
Sending == {a \in Actor : actor[a].method = "approve" /\ actor[a].at = "post"}
Sent    == {a \in Actor : actor[a].method = "approve" /\ actor[a].at \in {"saveJob", "save"}}

\* While the row is pending, every machine is due to an approval that has yet to
\* write, or to a fault; and no process may deploy another beyond its share.
Counted ==
  /\ Is(db, "pending") => Cardinality(DOMAIN machine) <= Cardinality(Sent) + faults
  /\ Cardinality(DOMAIN machine) + Cardinality(Sending) <= Cardinality(Web) + faults

\* A machine has the number of the job that deployed it.
OwnNumbers == \A j \in DOMAIN job : job[j].kind = "approve" => job[j].machine = j

-------------------------------------------------------------------------------
(* Facts of a single state.                                                *)

LEMMA Shares ==
  ASSUME NEW S \in SUBSET Web, NEW T \in SUBSET Web, S \cap T = {}
  PROVE  /\ IsFiniteSet(S) /\ Cardinality(S) \in Nat
         /\ IsFiniteSet(T) /\ Cardinality(T) \in Nat /\ Cardinality(Web) \in Nat
         /\ Cardinality(S) + Cardinality(T) <= Cardinality(Web)
<1>1. IsFiniteSet(S) /\ IsFiniteSet(T)
  BY FS_Subset, PortalAssumption
<1>2. Cardinality(S) \in Nat /\ Cardinality(T) \in Nat /\ Cardinality(Web) \in Nat
  BY <1>1, FS_CardinalityType, PortalAssumption
<1>3. Cardinality(S \cup T) = Cardinality(S) + Cardinality(T) - Cardinality(S \cap T)
  BY <1>1, FS_Union
<1>4. Cardinality(S \cap T) = 0
  BY FS_EmptySet
<1>5. Cardinality(S \cup T) <= Cardinality(Web)
  BY FS_Subset, PortalAssumption
<1> QED BY <1>1, <1>2, <1>3, <1>4, <1>5

LEMMA CountsFinite ==
  ASSUME Sound, AllOrderly
  PROVE  /\ IsFiniteSet(DOMAIN machine) /\ Cardinality(DOMAIN machine) \in Nat
         /\ Sending \subseteq Web /\ Sent \subseteq Web /\ Sending \cap Sent = {}
         /\ IsFiniteSet(Sending) /\ Cardinality(Sending) \in Nat
         /\ IsFiniteSet(Sent) /\ Cardinality(Sent) \in Nat
         /\ Cardinality(Sending) + Cardinality(Sent) <= Cardinality(Web)
         /\ Cardinality(Web) \in Nat /\ faults \in Nat
<1>1. IsFiniteSet(DOMAIN machine)
  BY FS_Interval, FS_Subset, PortalAssumption DEF Sound, Types, Machine
<1>2. Cardinality(DOMAIN machine) \in Nat
  BY <1>1, FS_CardinalityType
<1>3. Sending \subseteq Web /\ Sent \subseteq Web /\ Sending \cap Sent = {}
  BY DEF Sending, Sent, AllOrderly, Orderly
<1>4. faults \in Nat
  BY PortalAssumption DEF Sound, Types
<1> QED BY <1>1, <1>2, <1>3, <1>4, Shares

LEMMA PendingState ==
  ASSUME NEW row, row.state \in State
  PROVE  Is(row, "pending") <=> row.state = "pending"
BY DEF Is, Downcase, State, CloudState, PortalState

\* What the helpers of a method lead to is neither an approval nor an answer.
Calm(y) == y.method # "approve" /\ y.at \notin {"saveJob", "saveState"}

LEMMA ReturnsCalm ==
  ASSUME NEW a, NEW x \in Local, x.method # "approve", NEW ok \in BOOLEAN
  PROVE  /\ Calm(Idle) /\ Calm(CreatedReturns(x, ok)) /\ Calm(Alive(x))
         /\ Calm(Raised(a, x)) /\ Calm(UpdateReturns(a, x, ok))
<1>1. Calm(Idle) /\ Calm(Repeat(x)) /\ Calm(Reload(x))
  BY DEF Calm, Idle, Repeat, Reload
<1>2. /\ Calm(Post(x)) /\ Calm(Buttons(x)) /\ Calm(CheckCreated(x))
      /\ \A by \in {"method", "isCreated"} : Calm(CallUpdateState(x, by))
      /\ Calm([x EXCEPT !.method = "canStop", !.at = "isCreated", !.caller = "none"])
      /\ Calm([x EXCEPT !.at = "ssh", !.caller = "none"])
  BY DEF Calm, Post, Buttons, CheckCreated, CallUpdateState, Local
<1>3. \A b \in BOOLEAN : Calm(CreatedReturns(x, b))
  BY <1>1, <1>2 DEF CreatedReturns
<1>4. Calm(Alive(x)) /\ Calm(Raised(a, x))
  BY <1>1, <1>2, <1>3 DEF Alive, Raised
<1>5. Calm(StartPolled(x, ok)) /\ Calm(StopPolled(x, ok))
  BY <1>1 DEF StartPolled, StopPolled
<1>6. Calm(StateReturns(a, x, ok))
  BY <1>1, <1>2, <1>4, <1>5 DEF StateReturns
<1> QED BY <1>1, <1>3, <1>4, <1>6 DEF UpdateReturns

LEMMA CalmOrderly ==
  ASSUME NEW a, NEW y, Calm(y)
  PROVE  Orderly(a, y)
BY DEF Calm, Orderly

-------------------------------------------------------------------------------
(* A row that has left pending does not come back to it.                   *)

LEMMA PendingOnce ==
  ASSUME Sound, AllOrderly, [Next]_vars, db'.state = "pending"
  PROVE  db.state = "pending"
<1>1. ASSUME NEW old, NEW new, new.state = old.state \/ new.state # "pending", db' = Saved(old, new)
      PROVE  db.state = "pending"
  BY <1>1 DEF Saved, Dirty
<1>2. ASSUME NEW a \in Actor, MarkError(a) \/ MarkCreated(a) \/ SaveState(a) \/ SaveCommand(a) \/ SaveConsole(a)
      PROVE  db.state = "pending"
  <2>1. actor[a].row \in Row /\ Orderly(a, actor[a])
    BY DEF Sound, Types, Local, AllOrderly
  <2>2. CASE MarkError(a)
    BY <1>1, <2>1, <2>2 DEF MarkError, Row
  <2>3. CASE MarkCreated(a)
    BY <1>1, <2>1, <2>3 DEF MarkCreated, Row
  <2>4. CASE SaveState(a)
    BY <1>1, <2>1, <2>4 DEF SaveState, Row, Orderly
  <2>5. CASE SaveCommand(a)
    BY <1>1, <2>1, <2>5 DEF SaveCommand, Row, StateAfter
  <2>6. CASE SaveConsole(a)
    BY <1>1, <2>1, <2>6 DEF SaveConsole, Row
  <2> QED BY <1>2, <2>2, <2>3, <2>4, <2>5, <2>6
<1>3. ASSUME NEW a \in Actor, SaveJob(a) \/ SaveApproving(a) \/ SaveError(a)
      PROVE  db.state = "pending"
  BY <1>3 DEF SaveJob, SaveApproving, SaveError, Sound, Types, Row
<1>4. \/ UNCHANGED db
      \/ \E a \in Actor : \/ MarkError(a) \/ MarkCreated(a) \/ SaveState(a) \/ SaveCommand(a) \/ SaveConsole(a)
                          \/ SaveJob(a) \/ SaveApproving(a) \/ SaveError(a)
  BY DEF Next, vars, Begins, Approve, AdminPage, Show, Press, Perform, Replies, QueryAnswered, QueryFails,
         UpdateAnswered, UpdateFails, UpdateRaises, CommandAnswered, CommandRefused, DestroyAnswered,
         DestroyFails, SshSucceeds, SshFails, Computes, IsCreated, UpdateSkipped, Enqueue, Again,
         LoadForSpice, CommandLost, Killed, JobEnds, GuestStops, Expunge
<1> QED BY <1>2, <1>3, <1>4

-------------------------------------------------------------------------------
(* The steps of an actor.                                                  *)

LEMMA OrderlyStep ==
  ASSUME Sound, AllOrderly, NEW a \in Actor, NEW y, Become(a, y), Orderly(a, y)
  PROVE  /\ AllOrderly'
         /\ Sending' = (Sending \ {a}) \cup (IF y.method = "approve" /\ y.at = "post" THEN {a} ELSE {})
         /\ Sent' = (Sent \ {a}) \cup (IF y.method = "approve" /\ y.at \in {"saveJob", "save"} THEN {a} ELSE {})
<1>1. actor'[a] = y /\ \A b \in Actor : b # a => actor'[b] = actor[b]
  BY DEF Become, Sound, Types
<1>2. AllOrderly'
  BY <1>1 DEF AllOrderly
<1>3. Sending' = (Sending \ {a}) \cup (IF y.method = "approve" /\ y.at = "post" THEN {a} ELSE {})
  BY <1>1 DEF Sending
<1>4. Sent' = (Sent \ {a}) \cup (IF y.method = "approve" /\ y.at \in {"saveJob", "save"} THEN {a} ELSE {})
  BY <1>1 DEF Sent
<1> QED BY <1>2, <1>3, <1>4

\* Nothing is deployed, and no approval is begun, answered or broken off, unless
\* by a fault.
LEMMA CountKept ==
  ASSUME Sound, AllOrderly, Counted, [Next]_vars, NEW a \in Actor, NEW y, Become(a, y), Orderly(a, y),
         y.method # "approve", DOMAIN machine' = DOMAIN machine,
         \/ a \notin Sent /\ faults' = faults
         \/ faults' = faults + 1
  PROVE  AllOrderly' /\ Counted'
<1>1. AllOrderly' /\ Sending' = Sending \ {a} /\ Sent' = Sent \ {a}
  BY OrderlyStep
<1>2. /\ IsFiniteSet(Sending) /\ Cardinality(Sending) \in Nat
      /\ IsFiniteSet(Sent) /\ Cardinality(Sent) \in Nat
      /\ Cardinality(DOMAIN machine) \in Nat /\ Cardinality(Web) \in Nat /\ faults \in Nat
  BY CountsFinite
<1>3. /\ Cardinality(Sending') <= Cardinality(Sending) /\ Cardinality(Sending') \in Nat
      /\ Cardinality(Sent') = IF a \in Sent THEN Cardinality(Sent) - 1 ELSE Cardinality(Sent)
  <2>1. IsFiniteSet(Sending \ {a}) /\ Cardinality(Sending \ {a}) \in {Cardinality(Sending), Cardinality(Sending) - 1}
    BY <1>2, FS_RemoveElement
  <2>2. Cardinality(Sending \ {a}) \in Nat
    BY <2>1, FS_CardinalityType
  <2>3. Cardinality(Sent \ {a}) = IF a \in Sent THEN Cardinality(Sent) - 1 ELSE Cardinality(Sent)
    BY <1>2, FS_RemoveElement
  <2> QED BY <1>1, <1>2, <2>1, <2>2, <2>3
<1>4. Is(db', "pending") => Is(db, "pending")
  <2>1. db \in Row /\ db' \in Row
    BY NextSound DEF Sound, Types
  <2> QED BY <2>1, PendingOnce, PendingState DEF Row
<1> QED BY <1>1, <1>2, <1>3, <1>4 DEF Counted

LEMMA CountBegins ==
  ASSUME Sound, AllOrderly, Counted, [Next]_vars, NEW a \in Actor,
         \/ AdminPage(a) \/ Show(a) \/ LoadForSpice(a)
         \/ \E m \in {"start", "stop", "remove"} : Press(a, m)
         \/ \E w \in queue : Perform(a, w)
  PROVE  AllOrderly' /\ Counted'
<1>1. ASSUME NEW method, method # "approve", NEW at, at \notin {"saveJob", "saveState"}, NEW w,
             Become(a, Start(method, at, w)), actor[a].at \in {"idle", "load"}, UNCHANGED <<cloud, faults>>
      PROVE  AllOrderly' /\ Counted'
  <2>1. Start(method, at, w).method = method /\ Start(method, at, w).at = at
    BY DEF Start, Idle
  <2>2. Orderly(a, Start(method, at, w)) /\ Start(method, at, w).method # "approve"
    BY <1>1, <2>1 DEF Orderly
  <2>3. a \notin Sent /\ DOMAIN machine' = DOMAIN machine
    BY <1>1 DEF Sent, cloud
  <2> QED BY <1>1, <2>2, <2>3, CountKept
<1>2. CASE AdminPage(a) \/ Show(a) \/ LoadForSpice(a)
  BY <1>1, <1>2 DEF AdminPage, Show, LoadForSpice
<1>3. ASSUME NEW m \in {"start", "stop", "remove"}, Press(a, m) PROVE AllOrderly' /\ Counted'
  BY <1>1, <1>3 DEF Press
<1>4. ASSUME NEW w \in queue, Perform(a, w) PROVE AllOrderly' /\ Counted'
  <2> DEFINE at == CASE w.class = "VMDeploy"  -> "isCreated"
                     [] w.class = "VMDestroy" -> "post"
                     [] OTHER                 -> "updateState"
  <2>1. w.class # "approve"
    BY DEF Sound, Types, Work
  <2>2. at \notin {"saveJob", "saveState"}
    OBVIOUS
  <2>3. Become(a, Start(w.class, at, w)) /\ actor[a].at = "idle" /\ UNCHANGED <<cloud, faults>>
    BY <1>4 DEF Perform
  <2> QED BY <1>1, <2>1, <2>2, <2>3
<1> QED BY <1>2, <1>3, <1>4

\* isCreated and updateState.
LEMMA CountQueries ==
  ASSUME Sound, AllOrderly, Counted, [Next]_vars, NEW a \in Actor,
         \/ IsCreated(a) \/ QueryAnswered(a) \/ QueryFails(a) \/ MarkError(a) \/ MarkCreated(a)
         \/ UpdateSkipped(a) \/ UpdateAnswered(a) \/ UpdateFails(a) \/ UpdateRaises(a) \/ SaveState(a)
  PROVE  AllOrderly' /\ Counted'
<1> DEFINE x == actor[a]
<1>1. /\ x.at \in {"isCreated", "query", "markError", "markCreated", "updateState", "saveState"}
      /\ UNCHANGED <<cloud, faults>>
  BY DEF IsCreated, QueryAnswered, QueryFails, MarkError, MarkCreated, UpdateSkipped, UpdateAnswered,
         UpdateFails, UpdateRaises, SaveState
<1>2. /\ x \in Local /\ x.method # "approve" /\ a \notin Sent /\ DOMAIN machine' = DOMAIN machine
      /\ DOMAIN job \subseteq Job /\ \A j \in DOMAIN job : job[j].machine \in Machine
      /\ \A m \in DOMAIN machine : machine[m] # "pending"
  BY <1>1 DEF Sound, Types, AllOrderly, Orderly, Sent, cloud, JobRow, CloudState
<1>3. ASSUME NEW y, Become(a, y), Calm(y) PROVE AllOrderly' /\ Counted'
  BY <1>1, <1>2, <1>3, CalmOrderly, CountKept DEF Calm
<1>4. /\ Calm(CreatedReturns(x, FALSE)) /\ Calm(Alive(x)) /\ Calm(Raised(a, x))
      /\ Calm(UpdateReturns(a, x, FALSE))
  BY <1>2, ReturnsCalm
<1>5. ASSUME NEW p \in {"query", "markError", "markCreated"} PROVE Calm([x EXCEPT !.at = p])
  BY <1>2 DEF Calm, Local
<1>6. CASE IsCreated(a)
  BY <1>3, <1>4, <1>5, <1>6 DEF IsCreated
<1>7. CASE QueryAnswered(a) \/ QueryFails(a)
  BY <1>3, <1>4, <1>5, <1>7 DEF QueryAnswered, QueryFails
<1>8. CASE UpdateSkipped(a) \/ UpdateFails(a) \/ UpdateRaises(a)
  BY <1>3, <1>4, <1>8 DEF UpdateSkipped, UpdateFails, UpdateRaises
<1>9. ASSUME NEW new \in Row
      PROVE  /\ Calm(CreatedReturns([x EXCEPT !.row = new], FALSE)) /\ Calm(Alive([x EXCEPT !.row = new]))
             /\ Calm(UpdateReturns(a, [x EXCEPT !.row = new, !.state = "pending"], TRUE))
  <2>1. /\ [x EXCEPT !.row = new] \in Local /\ [x EXCEPT !.row = new].method # "approve"
        /\ [x EXCEPT !.row = new, !.state = "pending"] \in Local
        /\ [x EXCEPT !.row = new, !.state = "pending"].method # "approve"
    BY <1>2 DEF Local, State, PortalState
  <2>2. ASSUME NEW z \in Local, z.method # "approve" PROVE Calm(UpdateReturns(a, z, TRUE))
    <3>1. \A ok \in BOOLEAN : Calm(UpdateReturns(a, z, ok))
      BY <2>2, ReturnsCalm
    <3> QED BY <3>1, Zenon
  <2> QED BY <2>1, <2>2, ReturnsCalm
<1>10. CASE MarkError(a)
  <2>1. [x.row EXCEPT !.state = "Error"] \in Row
    BY <1>2 DEF Local, Row, State, CloudState
  <2> QED BY <1>3, <1>9, <1>10, <2>1 DEF MarkError
<1>11. CASE MarkCreated(a)
  <2>1. x.row.job_created_id \in DOMAIN job /\ x.row \in Row
    BY <1>2, <1>11 DEF MarkCreated, Sound, Actors, Good, Local
  <2>2. job[x.row.job_created_id].machine \in Machine
    BY <1>2, <2>1
  <2>3. [x.row EXCEPT !.state = "Running", !.job_created_id = Complete,
                      !.instance_id = job[x.row.job_created_id].machine] \in Row
    BY <2>1, <2>2 DEF Row, State, CloudState
  <2> QED BY <1>3, <1>9, <1>11, <2>3 DEF MarkCreated
<1>12. CASE SaveState(a)
  <2>1. [x.row EXCEPT !.state = x.state] \in Row
    BY <1>2 DEF Local, Row
  <2> QED BY <1>3, <1>9, <1>12, <2>1 DEF SaveState
<1>13. CASE UpdateAnswered(a)
  <2> DEFINE y == [x EXCEPT !.at = "saveState", !.state = machine[x.row.instance_id]]
  <2>1. Become(a, y) /\ machine[x.row.instance_id] # "pending"
    BY <1>2, <1>13 DEF UpdateAnswered
  <2>2. y.method = x.method /\ y.at = "saveState" /\ y.state = machine[x.row.instance_id]
    BY <1>2 DEF Local
  <2>3. Orderly(a, y)
    BY <1>2, <2>1, <2>2 DEF Orderly
  <2> QED BY <1>1, <1>2, <2>1, <2>2, <2>3, CountKept
<1> QED BY <1>6, <1>7, <1>8, <1>10, <1>11, <1>12, <1>13

\* A method that ends, and the steps of the others that lead on.
LEMMA CountRest ==
  ASSUME Sound, AllOrderly, Counted, [Next]_vars, NEW a \in Actor,
         \/ CommandRefused(a) \/ DestroyAnswered(a) \/ SshFails(a) \/ Enqueue(a) \/ Again(a)
         \/ SaveConsole(a) \/ SaveError(a) \/ Killed(a) \/ DestroyFails(a) \/ SshSucceeds(a) \/ SaveCommand(a)
         \/ (CommandAnswered(a) \/ CommandLost(a)) /\ actor[a].method # "approve"
  PROVE  AllOrderly' /\ Counted'
<1> DEFINE x == actor[a]
<1>1. x \in Local /\ Orderly(a, x)
  BY DEF Sound, Types, AllOrderly
<1>2. Orderly(a, Idle) /\ Idle.method # "approve"
  BY DEF Orderly, Idle
<1>3. CASE CommandRefused(a) \/ DestroyAnswered(a) \/ SshFails(a) \/ Enqueue(a) \/ Again(a) \/ SaveConsole(a)
           \/ SaveError(a)
  <2>1. /\ Become(a, Idle) /\ UNCHANGED <<cloud, faults>>
        /\ x.at \in {"post", "ssh", "enqueue", "again", "saveConsole", "saveError"}
    BY <1>3 DEF CommandRefused, Posting, DestroyAnswered, SshFails, Enqueue, Again, SaveConsole, SaveError
  <2>2. a \notin Sent /\ DOMAIN machine' = DOMAIN machine
    BY <2>1 DEF Sent, cloud
  <2> QED BY <1>2, <2>1, <2>2, CountKept
<1>4. CASE Killed(a)
  <2>1. Become(a, Idle) /\ faults' = faults + 1 /\ DOMAIN machine' = DOMAIN machine
    BY <1>4 DEF Killed, cloud
  <2> QED BY <1>2, <2>1, CountKept
<1>5. CASE DestroyFails(a) \/ SshSucceeds(a) \/ SaveCommand(a)
  <2>1. x.method # "approve" /\ UNCHANGED <<cloud, faults>>
    BY <1>1, <1>5 DEF DestroyFails, SshSucceeds, SaveCommand, Orderly
  <2>2. \E y : /\ Become(a, y) /\ y.method = x.method
               /\ y.at \in {"saveError", "saveConsole", "enqueue"}
    <3> DEFINE new == [x.row EXCEPT !.state = StateAfter(x.method)]
    <3>1. \A p \in {"saveError", "saveConsole"} :
            [x EXCEPT !.at = p].method = x.method /\ [x EXCEPT !.at = p].at = p
      BY <1>1 DEF Local
    <3>2. /\ [x EXCEPT !.at = "enqueue", !.row = new].method = x.method
          /\ [x EXCEPT !.at = "enqueue", !.row = new].at = "enqueue"
      BY <1>1 DEF Local
    <3>3. \/ Become(a, [x EXCEPT !.at = "saveError"]) \/ Become(a, [x EXCEPT !.at = "saveConsole"])
          \/ Become(a, [x EXCEPT !.at = "enqueue", !.row = new])
      BY <1>5 DEF DestroyFails, SshSucceeds, SaveCommand
    <3> QED BY <3>1, <3>2, <3>3
  <2>3. PICK y : /\ Become(a, y) /\ y.method = x.method
                 /\ y.at \in {"saveError", "saveConsole", "enqueue"}
    BY <2>2
  <2>4. Orderly(a, y) /\ y.method # "approve"
    BY <2>1, <2>3 DEF Orderly
  <2>5. a \notin Sent /\ DOMAIN machine' = DOMAIN machine
    BY <2>1 DEF Sent, cloud
  <2> QED BY <2>1, <2>3, <2>4, <2>5, CountKept
<1>6. ASSUME x.method # "approve", NEW kind, kind = x.method, NEW m, NEW j, Accept(kind, m, j)
      PROVE  a \notin Sent /\ DOMAIN machine' = DOMAIN machine
  BY <1>6 DEF Accept, Sent
<1>7. CASE CommandAnswered(a) /\ x.method # "approve"
  <2>1. PICK j \in Fresh :
          /\ Accept(x.method, x.row.instance_id, j)
          /\ Become(a, [x EXCEPT !.job = j, !.at = IF x.method = "approve" THEN "saveJob" ELSE "save"])
          /\ UNCHANGED faults
    BY <1>7 DEF CommandAnswered
  <2>2. Become(a, [x EXCEPT !.job = j, !.at = "save"])
    BY <1>7, <2>1
  <2>3. Orderly(a, [x EXCEPT !.job = j, !.at = "save"]) /\ [x EXCEPT !.job = j, !.at = "save"].method # "approve"
    BY <1>1, <1>7 DEF Orderly, Local
  <2> QED BY <1>6, <1>7, <2>1, <2>2, <2>3, CountKept
<1>8. CASE CommandLost(a) /\ x.method # "approve"
  BY <1>2, <1>6, <1>8, CountKept DEF CommandLost
<1> QED BY <1>3, <1>4, <1>5, <1>7, <1>8

-------------------------------------------------------------------------------
(* Approvals.                                                              *)

LEMMA CountApprove ==
  ASSUME Sound, AllOrderly, Counted, [Next]_vars, NEW a \in Actor, Approve(a)
  PROVE  AllOrderly' /\ Counted'
<1> DEFINE y == Start("approve", "post", NoWork)
<1>1. /\ a \in Web /\ actor[a].at = "idle" /\ Is(db, "pending") /\ Become(a, y)
      /\ db' = db /\ machine' = machine /\ faults' = faults
  BY DEF Approve, cloud
<1>2. y.method = "approve" /\ y.at = "post"
  BY DEF Start, Idle
<1>3. Orderly(a, y)
  BY <1>1, <1>2 DEF Orderly
<1>4. a \notin Sending /\ a \notin Sent
  BY <1>1 DEF Sending, Sent
<1>5. AllOrderly' /\ Sending' = Sending \cup {a} /\ Sent' = Sent
  BY <1>1, <1>2, <1>3, <1>4, OrderlyStep
<1>6. /\ Sending \subseteq Web /\ Sent \subseteq Web /\ Sending \cap Sent = {}
      /\ Cardinality(DOMAIN machine) \in Nat /\ faults \in Nat
  BY CountsFinite
<1>7. Cardinality(Sending \cup {a}) + Cardinality(Sent) <= Cardinality(Web)
      /\ Cardinality(Sending \cup {a}) \in Nat /\ Cardinality(Sent) \in Nat /\ Cardinality(Web) \in Nat
  BY <1>1, <1>4, <1>6, Shares
<1>8. Cardinality(DOMAIN machine) <= Cardinality(Sent) + faults
  BY <1>1 DEF Counted
<1>9. Cardinality(DOMAIN machine) + Cardinality(Sending \cup {a}) <= Cardinality(Web) + faults
  BY <1>6, <1>7, <1>8
<1> QED BY <1>1, <1>5, <1>8, <1>9 DEF Counted

LEMMA CountCommand ==
  ASSUME Sound, AllOrderly, Counted, [Next]_vars, NEW a \in Actor, actor[a].method = "approve",
         CommandAnswered(a) \/ CommandLost(a)
  PROVE  AllOrderly' /\ Counted'
<1> DEFINE x == actor[a]
<1>1. x \in Local /\ Orderly(a, x) /\ x.at = "post" /\ db' = db
  BY DEF Sound, Types, AllOrderly, CommandAnswered, CommandLost, Posting
<1>2. PICK j \in Fresh : /\ Accept("approve", x.row.instance_id, j)
                         /\ \/ faults' = faults /\ Become(a, [x EXCEPT !.job = j, !.at = "saveJob"])
                            \/ faults' = faults + 1 /\ Become(a, Idle)
  BY DEF CommandAnswered, CommandLost
<1>3. DOMAIN machine' = DOMAIN machine \cup {j}
  BY <1>2 DEF Accept, Insert
<1>4. /\ IsFiniteSet(DOMAIN machine) /\ Cardinality(DOMAIN machine) \in Nat
      /\ IsFiniteSet(Sending) /\ Cardinality(Sending) \in Nat
      /\ IsFiniteSet(Sent) /\ Cardinality(Sent) \in Nat
      /\ Cardinality(Web) \in Nat /\ faults \in Nat
  BY CountsFinite
<1>5. Cardinality(DOMAIN machine') \in {Cardinality(DOMAIN machine), Cardinality(DOMAIN machine) + 1}
  BY <1>3, <1>4, FS_AddElement
<1>6. a \in Sending /\ a \notin Sent
  BY <1>1 DEF Sending, Sent
<1>7. Cardinality(Sending \ {a}) = Cardinality(Sending) - 1
  BY <1>4, <1>6, FS_RemoveElement
<1>8. Cardinality(Sent \cup {a}) = Cardinality(Sent) + 1
  BY <1>4, <1>6, FS_AddElement
<1>9. CASE faults' = faults /\ Become(a, [x EXCEPT !.job = j, !.at = "saveJob"])
  <2> DEFINE y == [x EXCEPT !.job = j, !.at = "saveJob"]
  <2>1. y.method = "approve" /\ y.at = "saveJob"
    BY <1>1 DEF Local
  <2>2. Orderly(a, y)
    BY <1>1, <2>1 DEF Orderly
  <2>3. AllOrderly' /\ Sending' = Sending \ {a} /\ Sent' = Sent \cup {a}
    BY <1>9, <2>1, <2>2, OrderlyStep
  <2> QED BY <1>1, <1>4, <1>5, <1>7, <1>8, <1>9, <2>3 DEF Counted
<1>10. CASE faults' = faults + 1 /\ Become(a, Idle)
  <2>1. Orderly(a, Idle) /\ Idle.method # "approve"
    BY DEF Orderly, Idle
  <2>2. AllOrderly' /\ Sending' = Sending \ {a} /\ Sent' = Sent
    BY <1>6, <1>10, <2>1, OrderlyStep
  <2> QED BY <1>1, <1>4, <1>5, <1>7, <1>10, <2>2 DEF Counted
<1> QED BY <1>2, <1>9, <1>10

LEMMA CountSave ==
  ASSUME Sound, AllOrderly, Counted, [Next]_vars, NEW a \in Actor, SaveJob(a) \/ SaveApproving(a)
  PROVE  AllOrderly' /\ Counted'
<1> DEFINE x == actor[a]
<1>1. x \in Local /\ Orderly(a, x) /\ db \in Row /\ machine' = machine /\ faults' = faults
  BY DEF Sound, Types, AllOrderly, SaveJob, SaveApproving, cloud
<1>2. CASE SaveJob(a)
  <2> DEFINE y == [x EXCEPT !.at = "save", !.row.job_created_id = x.job]
  <2>1. y.method = "approve" /\ y.at = "save" /\ x.method = "approve" /\ x.at = "saveJob"
    BY <1>1, <1>2 DEF Local, SaveJob, Orderly
  <2>2. Orderly(a, y)
    BY <1>1, <2>1 DEF Orderly
  <2>3. a \in Sent /\ a \notin Sending
    BY <2>1 DEF Sent, Sending
  <2>4. AllOrderly' /\ Sending' = Sending /\ Sent' = Sent
    <3>1. Become(a, y)
      BY <1>2 DEF SaveJob
    <3> HIDE DEF y
    <3>2. /\ AllOrderly' /\ Sending' = (Sending \ {a}) \cup {} /\ Sent' = (Sent \ {a}) \cup {a}
      BY <2>1, <2>2, <3>1, OrderlyStep
    <3> QED BY <2>3, <3>2
  <2>5. db'.state = db.state
    BY <1>1, <1>2 DEF SaveJob, Row
  <2> QED BY <1>1, <2>4, <2>5 DEF Counted, Is
<1>3. CASE SaveApproving(a)
  <2> DEFINE y == [x EXCEPT !.at = "enqueue", !.row.state = "approving"]
  <2>1. y.method = "approve" /\ y.at = "enqueue" /\ x.at = "save"
    BY <1>1, <1>3 DEF Local, SaveApproving
  <2>2. Orderly(a, y)
    BY <1>1, <2>1, <1>3 DEF Orderly, SaveApproving
  <2>3. a \notin Sending
    BY <2>1 DEF Sending
  <2>4. AllOrderly' /\ Sending' = Sending
    <3>1. Become(a, y)
      BY <1>3 DEF SaveApproving
    <3> HIDE DEF y
    <3>2. AllOrderly' /\ Sending' = (Sending \ {a}) \cup {}
      BY <2>1, <2>2, <3>1, OrderlyStep
    <3> QED BY <2>3, <3>2
  <2>5. ~Is(db', "pending")
    BY <1>1, <1>3 DEF SaveApproving, Row, Is, Downcase
  <2> QED BY <1>1, <2>4, <2>5 DEF Counted
<1> QED BY <1>2, <1>3

LEMMA CountNext ==
  ASSUME Sound, AllOrderly, Counted, [Next]_vars
  PROVE  AllOrderly' /\ Counted'
<1>1. ASSUME NEW a \in Actor, Begins(a) PROVE AllOrderly' /\ Counted'
  BY <1>1, CountBegins, CountApprove DEF Begins
<1>2. ASSUME NEW a \in Actor, CommandAnswered(a) \/ CommandLost(a) PROVE AllOrderly' /\ Counted'
  BY <1>2, CountCommand, CountRest
<1>3. ASSUME NEW a \in Actor, Replies(a) PROVE AllOrderly' /\ Counted'
  BY <1>2, <1>3, CountQueries, CountRest DEF Replies
<1>4. ASSUME NEW a \in Actor, Computes(a) PROVE AllOrderly' /\ Counted'
  BY <1>4, CountQueries, CountRest, CountSave, CountBegins DEF Computes
<1>5. ASSUME NEW a \in Actor, Killed(a) PROVE AllOrderly' /\ Counted'
  BY <1>5, CountRest
<1>6. CASE UNCHANGED <<db, actor, faults>> /\ DOMAIN machine' = DOMAIN machine
  BY <1>6 DEF AllOrderly, Counted, Sending, Sent
<1>7. \/ UNCHANGED <<db, actor, faults>> /\ DOMAIN machine' = DOMAIN machine
      \/ \E a \in Actor : Begins(a) \/ Replies(a) \/ Computes(a) \/ CommandLost(a) \/ Killed(a)
  <2>1. CASE UNCHANGED vars
    BY <2>1 DEF vars
  <2>2. ASSUME NEW j \in DOMAIN job, JobEnds(j)
        PROVE  UNCHANGED <<db, actor, faults>> /\ DOMAIN machine' = DOMAIN machine
    BY <2>2 DEF JobEnds
  <2>3. ASSUME NEW m \in DOMAIN machine, GuestStops(m) \/ Expunge(m)
        PROVE  UNCHANGED <<db, actor, faults>> /\ DOMAIN machine' = DOMAIN machine
    BY <2>3 DEF GuestStops, Expunge
  <2> QED BY <2>1, <2>2, <2>3 DEF Next
<1> QED BY <1>1, <1>2, <1>3, <1>4, <1>5, <1>6, <1>7

LEMMA CountInit == Init => AllOrderly /\ Counted
<1> SUFFICES ASSUME Init PROVE AllOrderly /\ Counted
  OBVIOUS
<1>1. actor = [a \in Actor |-> Idle] /\ DOMAIN machine = {} /\ faults = 0
  BY DEF Init
<1>2. AllOrderly /\ Sending = {} /\ Sent = {}
  BY <1>1 DEF AllOrderly, Orderly, Sending, Sent, Idle
<1>3. Cardinality({}) = 0 /\ Cardinality(Web) \in Nat
  BY FS_EmptySet, FS_CardinalityType, PortalAssumption
<1> QED BY <1>1, <1>2, <1>3 DEF Counted

\* However approvals overlap, the portal deploys at most one machine per web
\* process for an instance, and one more for each process killed or reply lost
\* on the way (instance.rb:150): no approval begins once the row has left
\* pending, and until then every machine is some approval's that has yet to say so.
THEOREM AtMostOnePerProcess == Spec => []MachinesBounded
<1>1. Sound /\ AllOrderly /\ Counted => MachinesBounded
  <2>1. ASSUME Sound, AllOrderly, Counted PROVE MachinesBounded
    BY <2>1, CountsFinite DEF Counted, MachinesBounded
  <2> QED BY <2>1
<1>2. Sound /\ AllOrderly /\ Counted /\ [Next]_vars => AllOrderly' /\ Counted'
  BY CountNext
<1> QED BY <1>1, <1>2, InitSound, NextSound, CountInit, PTL DEF Spec

-------------------------------------------------------------------------------
(* Machines without an owner.                                              *)

LEMMA OwnNumbersStay ==
  ASSUME Sound, OwnNumbers, [Next]_vars
  PROVE  OwnNumbers'
<1>1. CASE UNCHANGED job
  BY <1>1 DEF OwnNumbers
<1>2. ASSUME NEW j \in DOMAIN job, JobEnds(j) PROVE OwnNumbers'
  <2>1. PICK s : job' = [job EXCEPT ![j].status = s]
    BY <1>2 DEF JobEnds
  <2>2. \A i \in DOMAIN job : job[i] \in JobRow
    BY DEF Sound, Types
  <2> QED BY <2>1, <2>2 DEF OwnNumbers, JobRow
<1>3. ASSUME NEW a \in Actor, CommandAnswered(a) \/ CommandLost(a) PROVE OwnNumbers'
  <2>1. PICK j \in Fresh : Accept(actor[a].method, actor[a].row.instance_id, j)
    BY <1>3 DEF CommandAnswered, CommandLost
  <2> QED BY <2>1 DEF Accept, Insert, OwnNumbers
<1>4. \/ UNCHANGED job
      \/ \E j \in DOMAIN job : JobEnds(j)
      \/ \E a \in Actor : CommandAnswered(a) \/ CommandLost(a)
  BY DEF Next, vars, cloud, Begins, Approve, AdminPage, Show, Press, Perform, Replies, QueryAnswered, QueryFails,
         UpdateAnswered, UpdateFails, UpdateRaises, CommandRefused, DestroyAnswered,
         DestroyFails, SshSucceeds, SshFails, Computes, IsCreated, MarkError, MarkCreated, UpdateSkipped,
         SaveState, SaveJob, SaveApproving, SaveCommand, Enqueue, Again, LoadForSpice, SaveConsole, SaveError,
         Killed, GuestStops, Expunge
<1> QED BY <1>1, <1>2, <1>3, <1>4

\* Some machine is owned as soon as a deployment is recorded, or is about to be.
LEMMA RecordedOwned ==
  ASSUME Sound, AllTrue, OwnNumbers, db.job_created_id # NoJob
  PROVE  \E m \in DOMAIN machine : Owned(m)
<1>1. CASE db.job_created_id \in DOMAIN job
  <2>1. job[db.job_created_id].kind = "approve"
    BY <1>1 DEF AllTrue, TrueRow
  <2>2. db.job_created_id \in DOMAIN machine
    BY <1>1, <2>1 DEF OwnNumbers, Sound, MachinesOfJobs
  <2> QED BY <2>2 DEF Owned
<1>2. CASE db.job_created_id = Complete
  <2>1. db.instance_id # 0
    BY <1>2 DEF AllTrue, Named
  <2>2. db.instance_id \in DOMAIN machine
    BY <2>1 DEF Sound, KnownRow
  <2> QED BY <2>2 DEF Owned
<1> QED BY <1>1, <1>2 DEF Sound, KnownRow

LEMMA SentOwned ==
  ASSUME Sound, AllTrue, OwnNumbers, NEW a \in Actor, actor[a].at = "saveJob"
  PROVE  \E m \in DOMAIN machine : Owned(m)
<1>1. actor[a].job \in DOMAIN job
  BY DEF Sound, Actors, Good
<1>2. job[actor[a].job].kind = "approve"
  BY DEF AllTrue, TrueActor
<1>3. actor[a].job \in DOMAIN machine
  BY <1>1, <1>2 DEF OwnNumbers, Sound, MachinesOfJobs
<1> QED BY <1>3 DEF Owned

\* A machine that no record leads to is the price of an overlapping approval or
\* of a fault (instance.rb:156-165): as soon as there are as many machines as
\* processes and faults, one of them is recorded or in the hands of an approval.
THEOREM UnownedFewer ==
  ASSUME Web # {}
  PROVE  Spec => []UnownedBounded
<1>1. ASSUME Sound, AllOrderly, Counted, AllTrue, NothingRecorded, OwnNumbers
      PROVE  UnownedBounded
  <2> DEFINE U == {m \in DOMAIN machine : ~Owned(m)}
  <2>1. /\ IsFiniteSet(DOMAIN machine) /\ Cardinality(DOMAIN machine) \in Nat
        /\ Cardinality(Sending) \in Nat /\ Cardinality(Web) \in Nat /\ faults \in Nat
    BY <1>1, CountsFinite
  <2>2. Cardinality(U) <= Cardinality(DOMAIN machine) /\ IsFiniteSet(U) /\ Cardinality(U) \in Nat
    BY <2>1, FS_Subset, FS_CardinalityType
  <2>3. Cardinality(Web) > 0
    BY <2>1, FS_EmptySet, PortalAssumption
  <2>4. ASSUME NEW m \in DOMAIN machine, Owned(m) PROVE Cardinality(U) <= Cardinality(Web) - 1 + faults
    <3>1. U \subseteq DOMAIN machine \ {m}
      BY <2>4
    <3>2. IsFiniteSet(DOMAIN machine \ {m}) /\ Cardinality(DOMAIN machine \ {m}) = Cardinality(DOMAIN machine) - 1
      BY <2>1, FS_RemoveElement
    <3>3. Cardinality(U) <= Cardinality(DOMAIN machine) - 1
      BY <3>1, <3>2, FS_Subset
    <3> QED BY <1>1, <2>1, <2>2, <3>3 DEF Counted
  <2>5. CASE db.job_created_id = NoJob /\ Sent = {}
    <3>1. Is(db, "pending")
      BY <1>1, <2>5 DEF NothingRecorded, NewRow, Is, Downcase
    <3>2. Cardinality(DOMAIN machine) <= faults
      BY <1>1, <2>1, <2>5, <3>1, FS_EmptySet DEF Counted
    <3> QED BY <2>1, <2>2, <2>3, <3>2 DEF UnownedBounded
  <2>6. CASE db.job_created_id = NoJob /\ Sent # {}
    <3>1. PICK a \in Actor : actor[a].at \in {"saveJob", "save"}
      BY <2>6 DEF Sent
    <3>2. actor[a].at = "saveJob"
      BY <1>1, <2>6, <3>1 DEF NothingRecorded, Unrecorded
    <3> QED BY <1>1, <2>4, <3>2, SentOwned DEF UnownedBounded
  <2>7. CASE db.job_created_id # NoJob
    BY <1>1, <2>4, <2>7, RecordedOwned DEF UnownedBounded
  <2> QED BY <2>5, <2>6, <2>7
<1>2. Init => OwnNumbers
  BY DEF Init, OwnNumbers
<1>3. Sound /\ AllOrderly /\ Counted /\ [Next]_vars => AllOrderly' /\ Counted'
  BY CountNext
<1>4. Sound /\ OwnNumbers /\ [Next]_vars => OwnNumbers'
  BY OwnNumbersStay
<1>5. Sound /\ AllTrue /\ [Next]_vars => AllTrue'
  BY AllTrueStays
<1>6. Sound /\ NothingRecorded /\ [Next]_vars => NothingRecorded'
  BY NothingRecordedStays
<1>7. Sound /\ AllOrderly /\ Counted /\ AllTrue /\ NothingRecorded /\ OwnNumbers => UnownedBounded
  BY <1>1
<1> QED BY <1>2, <1>3, <1>4, <1>5, <1>6, <1>7, InitSound, NextSound, CountInit, InitTrue, InitNothing, PTL DEF Spec

-------------------------------------------------------------------------------
(* One web process: the life of the record.                                *)

\* What a row or a copy may say of the machine while the stored row says d: they
\* agree on the job that deploys, and on the machine that job leaves.
Follows(row, d) ==
  /\ row.job_created_id \in Job =>
       /\ row.instance_id = 0
       /\ \/ d.job_created_id = row.job_created_id
          \/ d.job_created_id = Complete /\ d.instance_id = row.job_created_id
  /\ row.job_created_id = Complete => d.job_created_id = Complete /\ row.instance_id = d.instance_id
  /\ row.job_created_id = NoJob => row.instance_id = 0

\* A web process performs no background job, and what is enqueued is past
\* pending.
Placed(a, x) ==
  /\ a \in Web => x.method \notin Background /\ x.at \notin {"again", "load"}
  /\ x.at = "enqueue" => x.row.state # "pending"

\* Until the row has left pending only the web process is at work, and knows all
\* of it; afterwards no approval has anything to write.
OneLife ==
  /\ Is(db, "pending") =>
       /\ queue = {} /\ \A s \in Sidekiq : actor[s] = Idle
       /\ \A a \in Web : actor[a].at # "idle" => actor[a].row = db
       /\ db.job_created_id # Complete
  /\ ~Is(db, "pending") =>
       \A a \in Web : ~(actor[a].method = "approve" /\ actor[a].at \in {"post", "saveJob", "save"})
  /\ db.instance_id # 0 <=> db.job_created_id = Complete
  /\ \A a \in Actor : Follows(actor[a].row, db) /\ Placed(a, actor[a])

\* What may become of the record: nothing, its deployment succeeds, or while it
\* has no machine a deployment is submitted.
Onward(old, new) ==
  \/ new.job_created_id = old.job_created_id /\ new.instance_id = old.instance_id
  \/ /\ old.job_created_id \in Job /\ old.instance_id = 0
     /\ new.job_created_id = Complete /\ new.instance_id = old.job_created_id

Submitted(old, new) ==
  /\ old.job_created_id # Complete /\ new.job_created_id \in Job
  /\ new.instance_id = old.instance_id

Moves == Onward(db, db') \/ Submitted(db, db')

LEMMA OnwardFollows ==
  ASSUME NEW old, NEW new, Onward(old, new), NEW row, Follows(row, old),
         old.job_created_id = Complete => old.job_created_id \notin Job
  PROVE  Follows(row, new)
BY DEF Onward, Follows

LEMMA Numbers == NoJob \notin Job /\ Complete \notin Job /\ NoJob # Complete /\ Machine = Job /\ 0 \notin Job
BY PortalAssumption DEF NoJob, Complete, Job, Machine

LEMMA DbFollows ==
  ASSUME Sound, OneLife
  PROVE  Follows(db, db)
BY Numbers DEF OneLife, Follows

\* One actor takes a step.
LEMMA LifeStep ==
  ASSUME NEW w, Web = {w}, Sound, AllOrderly, OneLife, [Next]_vars,
         NEW a \in Actor, NEW y, Become(a, y), Placed(a, y),
         Onward(db, db'), Follows(y.row, db'),
         Is(db, "pending") => a \in Web,
         Is(db', "pending") =>
           queue' = {} /\ (y.at # "idle" => y.row = db') /\ db'.job_created_id # Complete,
         ~Is(db', "pending") => ~(y.method = "approve" /\ y.at \in {"post", "saveJob", "save"})
  PROVE  OneLife' /\ Moves
<1>1. actor'[a] = y /\ \A b \in Actor : b # a => actor'[b] = actor[b]
  BY DEF Become, Sound, Types
<1>2. ASSUME NEW b \in Actor PROVE Follows(actor'[b].row, db') /\ Placed(b, actor'[b])
  BY <1>1, Numbers, OnwardFollows DEF OneLife
<1>3. db'.instance_id # 0 <=> db'.job_created_id = Complete
  BY Numbers DEF OneLife, Onward
<1>4. ASSUME Is(db', "pending")
      PROVE  /\ queue' = {} /\ \A s \in Sidekiq : actor'[s] = Idle
             /\ \A b \in Web : actor'[b].at # "idle" => actor'[b].row = db'
             /\ db'.job_created_id # Complete
  <2>1. Is(db, "pending")
    <3>1. db \in Row /\ db' \in Row
      BY NextSound DEF Sound, Types
    <3> QED BY <1>4, <3>1, PendingOnce, PendingState DEF Row
  <2>2. \A s \in Sidekiq : s # a /\ s \in Actor
    BY <2>1, PortalAssumption DEF Actor
  <2> QED BY <1>1, <1>4, <2>1, <2>2 DEF OneLife
<1>5. ASSUME ~Is(db', "pending"), NEW b \in Web
      PROVE  ~(actor'[b].method = "approve" /\ actor'[b].at \in {"post", "saveJob", "save"})
  <2>1. CASE a = b
    BY <1>1, <1>5, <2>1
  <2>2. CASE a # b
    <3>1. a \in Sidekiq /\ b \in Actor
      BY <2>2 DEF Actor
    <3>2. CASE ~Is(db, "pending")
      BY <1>1, <2>2, <3>1, <3>2 DEF OneLife
    <3>3. CASE Is(db, "pending")
      BY <2>2, <3>3
    <3> QED BY <3>2, <3>3
  <2> QED BY <2>1, <2>2
<1> QED BY <1>2, <1>3, <1>4, <1>5 DEF OneLife, Moves

\* Where a method goes on without having written anything.
Continues(a, y, row) ==
  /\ y.row \in {row, NewRow}
  /\ a \in Web => /\ y.method \notin Background /\ y.at \notin {"again", "load"}
                  /\ y.at # "idle" => y.row = row
  /\ y.method # "approve" /\ y.at # "enqueue"

LEMMA ReturnsContinue ==
  ASSUME NEW a, NEW x \in Local, x.method # "approve", a \in Web => x.method \notin Background,
         NEW ok \in BOOLEAN
  PROVE  /\ Continues(a, Idle, x.row) /\ Continues(a, CreatedReturns(x, ok), x.row)
         /\ Continues(a, Alive(x), x.row) /\ Continues(a, Raised(a, x), x.row)
         /\ Continues(a, UpdateReturns(a, x, ok), x.row)
<1>1. Continues(a, Idle, x.row)
  BY DEF Continues, Idle, Background
<1>2. a \notin Web => Continues(a, Repeat(x), x.row) /\ Continues(a, Reload(x), x.row)
  BY DEF Continues, Repeat, Reload, Idle
<1>3. /\ Continues(a, Post(x), x.row) /\ Continues(a, CheckCreated(x), x.row)
      /\ \A by \in {"method", "isCreated"} : Continues(a, CallUpdateState(x, by), x.row)
      /\ Continues(a, [x EXCEPT !.at = "ssh", !.caller = "none"], x.row)
  BY DEF Continues, Post, CheckCreated, CallUpdateState, Local
<1>4. Continues(a, Buttons(x), x.row)
  BY DEF Continues, Buttons, Local, Background
<1>5. Continues(a, [x EXCEPT !.method = "canStop", !.at = "isCreated", !.caller = "none"], x.row)
  BY DEF Continues, Local, Background
<1>6. \A b \in BOOLEAN : Continues(a, CreatedReturns(x, b), x.row)
  <2>1. CASE x.method = "VMDeploy"
    BY <1>2, <2>1 DEF CreatedReturns, Background
  <2>2. CASE x.method # "VMDeploy"
    BY <1>1, <1>3, <1>4, <1>5, <2>2 DEF CreatedReturns
  <2> QED BY <2>1, <2>2
<1>7. Continues(a, Alive(x), x.row)
  BY <1>3, <1>6 DEF Alive
<1>8. Continues(a, Raised(a, x), x.row)
  <2>1. CASE a \in Sidekiq
    BY <1>2, <2>1, PortalAssumption DEF Raised
  <2> QED BY <1>1, <2>1 DEF Raised
<1>9. Continues(a, StateReturns(a, x, ok), x.row)
  <2>1. CASE x.method \in {"VMStart", "VMStop"}
    <3>1. a \notin Web
      BY <2>1 DEF Background
    <3> QED BY <1>1, <1>2, <2>1, <3>1 DEF StateReturns, StartPolled, StopPolled
  <2>2. CASE x.method \notin {"VMStart", "VMStop"}
    BY <1>1, <1>3, <1>4, <1>8, <2>2 DEF StateReturns
  <2> QED BY <2>1, <2>2
<1> QED BY <1>1, <1>6, <1>7, <1>8, <1>9 DEF UpdateReturns

\* Nothing is written.
LEMMA LifeLocal ==
  ASSUME NEW w, Web = {w}, Sound, AllOrderly, OneLife, [Next]_vars,
         NEW a \in Actor, NEW y, Become(a, y),
         (Continues(a, y, actor[a].row) /\ actor[a].at # "idle") \/ Continues(a, y, db),
         UNCHANGED db, Is(db, "pending") => a \in Web /\ queue' = {}
  PROVE  OneLife' /\ Moves
<1>1. Follows(db, db) /\ Follows(actor[a].row, db)
  BY DbFollows DEF OneLife
<1>2. Follows(NewRow, db)
  BY Numbers DEF Follows, NewRow
<1>3. Follows(y.row, db') /\ Placed(a, y) /\ y.method # "approve"
  BY <1>1, <1>2 DEF Continues, Placed
<1>4. Onward(db, db')
  BY DEF Onward
<1>5. ASSUME Is(db, "pending")
      PROVE  queue' = {} /\ (y.at # "idle" => y.row = db') /\ db'.job_created_id # Complete
  BY <1>5 DEF Continues, OneLife
<1> QED BY <1>3, <1>4, <1>5, LifeStep

\* Who is at work while the row is pending.
LEMMA PendingWeb ==
  ASSUME OneLife, Is(db, "pending"), NEW a \in Actor, actor[a].at # "idle"
  PROVE  a \in Web /\ actor[a].row = db
BY DEF OneLife, Actor, Idle

LEMMA LifeBegins ==
  ASSUME NEW w, Web = {w}, Sound, AllOrderly, OneLife, [Next]_vars, NEW a \in Actor, Begins(a) \/ LoadForSpice(a)
  PROVE  OneLife' /\ Moves
<1>1. ASSUME NEW method, NEW at, at \notin {"again", "load", "enqueue", "saveJob", "save"}, NEW v,
             method # "approve" \/ Is(db, "pending"), a \in Web => method \notin Background,
             Become(a, Start(method, at, v)), UNCHANGED db,
             Is(db, "pending") => a \in Web /\ queue' = {}
      PROVE  OneLife' /\ Moves
  <2>1. /\ Start(method, at, v).method = method /\ Start(method, at, v).at = at
        /\ Start(method, at, v).row = db
    BY DEF Start, Idle
  <2>2. CASE method # "approve"
    BY <1>1, <2>1, <2>2, LifeLocal DEF Continues
  <2>3. CASE Is(db, "pending")
    <3>1. Placed(a, Start(method, at, v)) /\ Onward(db, db') /\ Follows(db, db')
      BY <1>1, <2>1, DbFollows DEF Placed, Onward
    <3>2. db'.job_created_id # Complete /\ Is(db', "pending")
      BY <1>1, <2>3 DEF OneLife
    <3> HIDE DEF Start
    <3> QED BY <1>1, <2>1, <2>3, <3>1, <3>2, LifeStep
  <2> QED BY <1>1, <2>2, <2>3
<1>2. Is(db, "pending") => queue = {}
  BY DEF OneLife
<1>3. CASE Approve(a)
  BY <1>1, <1>2, <1>3 DEF Approve, Background
<1>4. CASE AdminPage(a) \/ Show(a)
  BY <1>1, <1>2, <1>4 DEF AdminPage, Show, Background
<1>5. ASSUME NEW m \in {"start", "stop", "remove"}, Press(a, m) PROVE OneLife' /\ Moves
  BY <1>1, <1>2, <1>5 DEF Press, Background
<1>6. ASSUME NEW v \in queue, Perform(a, v) PROVE OneLife' /\ Moves
  <2> DEFINE at == CASE v.class = "VMDeploy"  -> "isCreated"
                     [] v.class = "VMDestroy" -> "post"
                     [] OTHER                 -> "updateState"
  <2>1. v.class # "approve" /\ ~Is(db, "pending") /\ a \notin Web
    BY <1>2, <1>6, PortalAssumption DEF Sound, Types, Work, Perform
  <2>2. at \notin {"again", "load", "enqueue", "saveJob", "save"}
    OBVIOUS
  <2>3. Become(a, Start(v.class, at, v)) /\ UNCHANGED db
    BY <1>6 DEF Perform
  <2> QED BY <1>1, <2>1, <2>2, <2>3
<1>7. CASE LoadForSpice(a)
  <2>1. a \notin Web /\ actor[a].at = "load"
    BY <1>7 DEF LoadForSpice, OneLife, Placed
  <2>2. ~Is(db, "pending")
    BY <2>1, PendingWeb
  <2> QED BY <1>1, <1>7, <2>1, <2>2 DEF LoadForSpice
<1> QED BY <1>3, <1>4, <1>5, <1>6, <1>7 DEF Begins

LEMMA LifePlain ==
  ASSUME NEW w, Web = {w}, Sound, AllOrderly, OneLife, [Next]_vars, NEW a \in Actor,
         \/ IsCreated(a) \/ QueryAnswered(a) \/ QueryFails(a)
         \/ UpdateSkipped(a) \/ UpdateAnswered(a) \/ UpdateFails(a) \/ UpdateRaises(a)
         \/ CommandRefused(a) \/ DestroyAnswered(a) \/ DestroyFails(a) \/ SshSucceeds(a) \/ SshFails(a)
         \/ Enqueue(a) \/ Again(a) \/ CommandLost(a) \/ Killed(a)
  PROVE  OneLife' /\ Moves
<1> DEFINE x == actor[a]
<1>1. x \in Local /\ Orderly(a, x) /\ Placed(a, x) /\ x.at # "idle" /\ db' = db
  BY DEF Sound, Types, AllOrderly, OneLife, IsCreated, QueryAnswered, QueryFails, UpdateSkipped, UpdateAnswered,
         UpdateFails, UpdateRaises, CommandRefused, DestroyAnswered, DestroyFails, SshSucceeds, SshFails,
         Enqueue, Again, CommandLost, Posting, Killed
<1>2. Is(db, "pending") => a \in Web /\ queue' = {}
  <2> SUFFICES ASSUME Is(db, "pending") PROVE a \in Web /\ queue' = {}
    OBVIOUS
  <2>1. a \in Web /\ x.row = db /\ queue = {}
    BY <1>1, PendingWeb DEF OneLife
  <2>2. x.row.state = "pending"
    BY <2>1, PendingState DEF Sound, Types, Row
  <2>3. ~Enqueue(a) /\ ~Again(a)
    BY <1>1, <2>1, <2>2 DEF Enqueue, Again, Placed
  <2>4. queue' = queue
    BY <2>3 DEF IsCreated, QueryAnswered, QueryFails, UpdateSkipped, UpdateAnswered,
         UpdateFails, UpdateRaises, CommandRefused, DestroyAnswered, DestroyFails, SshSucceeds, SshFails,
         CommandLost, Killed
  <2> QED BY <2>1, <2>4
<1>3. ASSUME NEW y, Become(a, y), Continues(a, y, x.row) PROVE OneLife' /\ Moves
  BY <1>1, <1>2, <1>3, LifeLocal
<1>4. Continues(a, Idle, x.row)
  BY DEF Continues, Idle, Background
<1>5. CASE CommandRefused(a) \/ DestroyAnswered(a) \/ SshFails(a) \/ Enqueue(a) \/ Again(a) \/ CommandLost(a)
           \/ Killed(a)
  BY <1>3, <1>4, <1>5 DEF CommandRefused, DestroyAnswered, SshFails, Enqueue, Again, CommandLost, Killed
<1>6. CASE \/ IsCreated(a) \/ QueryAnswered(a) \/ QueryFails(a) \/ UpdateSkipped(a) \/ UpdateAnswered(a)
           \/ UpdateFails(a) \/ UpdateRaises(a) \/ DestroyFails(a) \/ SshSucceeds(a)
  <2>1. x.method # "approve"
    BY <1>1, <1>6 DEF Orderly, IsCreated, QueryAnswered, QueryFails, UpdateSkipped, UpdateAnswered, UpdateFails,
      UpdateRaises, DestroyFails, SshSucceeds
  <2>2. /\ Continues(a, CreatedReturns(x, FALSE), x.row) /\ Continues(a, Alive(x), x.row)
        /\ Continues(a, Raised(a, x), x.row) /\ Continues(a, UpdateReturns(a, x, FALSE), x.row)
    BY <1>1, <2>1, ReturnsContinue DEF Placed
  <2>3. ASSUME NEW p \in {"query", "markError", "markCreated", "saveError", "saveConsole"}
        PROVE  Continues(a, [x EXCEPT !.at = p], x.row)
    BY <1>1, <2>1 DEF Continues, Placed, Local
  <2>4. Continues(a, [x EXCEPT !.at = "saveState", !.state = machine[x.row.instance_id]], x.row)
    BY <1>1, <2>1 DEF Continues, Placed, Local
  <2>5. CASE IsCreated(a)
    BY <1>3, <2>2, <2>3, <2>5 DEF IsCreated
  <2>6. CASE QueryAnswered(a) \/ QueryFails(a)
    BY <1>3, <2>2, <2>3, <2>6 DEF QueryAnswered, QueryFails
  <2>7. CASE UpdateSkipped(a) \/ UpdateFails(a) \/ UpdateRaises(a) \/ UpdateAnswered(a)
    BY <1>3, <2>2, <2>4, <2>7 DEF UpdateSkipped, UpdateFails, UpdateRaises, UpdateAnswered
  <2>8. CASE DestroyFails(a) \/ SshSucceeds(a)
    BY <1>3, <2>3, <2>8 DEF DestroyFails, SshSucceeds
  <2> QED BY <1>6, <2>5, <2>6, <2>7, <2>8
<1> QED BY <1>5, <1>6

LEMMA LifeCommand ==
  ASSUME NEW w, Web = {w}, Sound, AllOrderly, OneLife, [Next]_vars, NEW a \in Actor, CommandAnswered(a)
  PROVE  OneLife' /\ Moves
<1> DEFINE x == actor[a]
<1>1. /\ x \in Local /\ Orderly(a, x) /\ Placed(a, x) /\ x.at = "post" /\ db' = db /\ queue' = queue
      /\ Follows(x.row, db)
  BY DEF Sound, Types, AllOrderly, OneLife, CommandAnswered, Posting
<1>2. PICK j : Become(a, [x EXCEPT !.job = j, !.at = IF x.method = "approve" THEN "saveJob" ELSE "save"])
  BY DEF CommandAnswered
<1> DEFINE y == [x EXCEPT !.job = j, !.at = IF x.method = "approve" THEN "saveJob" ELSE "save"]
<1>3. y.method = x.method /\ y.row = x.row /\ y.at = IF x.method = "approve" THEN "saveJob" ELSE "save"
  BY <1>1 DEF Local
<1>4. Is(db, "pending") => a \in Web /\ x.row = db /\ queue = {} /\ db.job_created_id # Complete
  BY <1>1, PendingWeb DEF OneLife
<1>5. ~Is(db, "pending") => x.method # "approve"
  BY <1>1 DEF OneLife, Orderly
<1>6. Placed(a, y)
  BY <1>1, <1>3 DEF Placed
<1>7. Onward(db, db')
  BY <1>1 DEF Onward
<1> HIDE DEF y
<1> QED BY <1>1, <1>2, <1>3, <1>4, <1>5, <1>6, <1>7, LifeStep DEF y

\* The row has left pending, and the job and the machine are written as a copy
\* that follows the record has them.
LEMMA LifeWritten ==
  ASSUME NEW w, Web = {w}, Sound, AllOrderly, OneLife, [Next]_vars, NEW a \in Actor, actor[a].at # "idle",
         db'.state # "pending", Onward(db, db'),
         NEW y, Become(a, y), Placed(a, y), y.method = "approve" => y.at = "enqueue", Follows(y.row, db')
  PROVE  OneLife' /\ Moves
<1>1. ~Is(db', "pending")
  BY NextSound, PendingState DEF Sound, Types, Row
<1>2. Is(db, "pending") => a \in Web
  BY PendingWeb
<1> QED BY <1>1, <1>2, LifeStep

LEMMA SavedLeaves ==
  ASSUME Sound, OneLife, NEW a \in Actor, actor[a].at # "idle",
         NEW new, db' = Saved(actor[a].row, new), new.state # "pending"
  PROVE  db'.state # "pending"
<1>1. CASE db.state = "pending"
  <2>1. actor[a].row = db
    BY <1>1, PendingWeb, PendingState DEF Sound, Types, Row
  <2> QED BY <1>1, <2>1 DEF Saved, Dirty
<1>2. CASE db.state # "pending"
  BY <1>2 DEF Saved, Dirty
<1> QED BY <1>1, <1>2

LEMMA LifeSaved ==
  ASSUME NEW w, Web = {w}, Sound, AllOrderly, OneLife, [Next]_vars, NEW a \in Actor,
         MarkError(a) \/ SaveState(a) \/ SaveCommand(a)
  PROVE  OneLife' /\ Moves
<1> DEFINE x == actor[a]
<1>1. /\ x \in Local /\ x.row \in Row /\ Orderly(a, x) /\ Placed(a, x) /\ x.at # "idle"
      /\ Follows(x.row, db)
  BY DEF Sound, Types, AllOrderly, OneLife, Local, MarkError, SaveState, SaveCommand
<1>2. x.method # "approve"
  BY <1>1 DEF Orderly, MarkError, SaveState, SaveCommand
<1>3. ASSUME NEW s \in State, s # "pending", db' = Saved(x.row, [x.row EXCEPT !.state = s]),
             NEW y, Become(a, y), y.row \in {[x.row EXCEPT !.state = s], NewRow},
             Placed(a, y), y.method # "approve"
      PROVE  OneLife' /\ Moves
  <2> DEFINE new == [x.row EXCEPT !.state = s]
  <2>1. /\ new.state = s /\ new.job_created_id = x.row.job_created_id /\ new.instance_id = x.row.instance_id
    BY <1>1 DEF Row
  <2>2. db'.state # "pending"
    BY <1>1, <1>3, <2>1, SavedLeaves
  <2>3. db'.job_created_id = db.job_created_id /\ db'.instance_id = db.instance_id
    BY <1>3, <2>1 DEF Saved, Dirty
  <2>4. Follows(new, db') /\ Follows(NewRow, db')
    BY <1>1, <2>1, <2>3, Numbers DEF Follows, NewRow
  <2>5. Onward(db, db')
    BY <2>3 DEF Onward
  <2> HIDE DEF new
  <2> QED BY <1>1, <1>3, <2>2, <2>4, <2>5, LifeWritten DEF new
<1>4. ASSUME NEW y, NEW row, Continues(a, y, row) PROVE Placed(a, y) /\ y.method # "approve"
  BY <1>4 DEF Continues, Placed
<1>5. ASSUME NEW s \in State, NEW z, z = [x EXCEPT !.row = [x.row EXCEPT !.state = s]]
      PROVE  /\ z \in Local /\ z.method # "approve" /\ (a \in Web => z.method \notin Background)
             /\ z.row = [x.row EXCEPT !.state = s]
             /\ [z EXCEPT !.state = "pending"] \in Local /\ [z EXCEPT !.state = "pending"].method = z.method
             /\ [z EXCEPT !.state = "pending"].row = z.row
  <2>1. [x.row EXCEPT !.state = s] \in Row
    BY <1>1 DEF Row
  <2> QED BY <1>1, <1>2, <1>5, <2>1 DEF Local, Placed, State, PortalState
<1>6. CASE MarkError(a)
  <2> DEFINE z == [x EXCEPT !.row = [x.row EXCEPT !.state = "Error"]]
  <2>1. "Error" \in State /\ "Error" # "pending"
    BY DEF State, CloudState
  <2>2. Continues(a, CreatedReturns(z, FALSE), z.row) /\ z.row = [x.row EXCEPT !.state = "Error"]
    BY <1>5, <2>1, ReturnsContinue
  <2>3. Become(a, CreatedReturns(z, FALSE)) /\ db' = Saved(x.row, [x.row EXCEPT !.state = "Error"])
    BY <1>6 DEF MarkError
  <2> HIDE DEF z
  <2>4. CreatedReturns(z, FALSE).row \in {[x.row EXCEPT !.state = "Error"], NewRow}
    BY <2>2 DEF Continues
  <2> QED BY <1>3, <1>4, <2>1, <2>2, <2>3, <2>4
<1>7. CASE SaveState(a)
  <2> DEFINE z == [x EXCEPT !.row = [x.row EXCEPT !.state = x.state]]
             v == [z EXCEPT !.state = "pending"]
  <2>1. x.state \in State /\ x.state # "pending"
    BY <1>1, <1>7 DEF SaveState, Orderly, Local
  <2>2. v \in Local /\ v.method # "approve" /\ (a \in Web => v.method \notin Background)
        /\ v.row = [x.row EXCEPT !.state = x.state]
    BY <1>5, <2>1
  <2>3. v = [x EXCEPT !.row = [x.row EXCEPT !.state = x.state], !.state = "pending"]
    OBVIOUS
  <2>4. Become(a, UpdateReturns(a, v, TRUE)) /\ db' = Saved(x.row, [x.row EXCEPT !.state = x.state])
    BY <1>7, <2>3 DEF SaveState
  <2> HIDE DEF v, z
  <2>5. Continues(a, UpdateReturns(a, v, TRUE), v.row)
    <3>1. \A ok \in BOOLEAN : Continues(a, UpdateReturns(a, v, ok), v.row)
      BY <2>2, ReturnsContinue
    <3> QED BY <3>1, Zenon
  <2>6. UpdateReturns(a, v, TRUE).row \in {[x.row EXCEPT !.state = x.state], NewRow}
    BY <2>2, <2>5 DEF Continues
  <2> QED BY <1>3, <1>4, <2>1, <2>4, <2>5, <2>6
<1>8. CASE SaveCommand(a)
  <2> DEFINE s == StateAfter(x.method)
             y == [x EXCEPT !.at = "enqueue", !.row = [x.row EXCEPT !.state = s]]
  <2>1. s \in State /\ s # "pending"
    BY DEF StateAfter, State, PortalState
  <2>2. y.at = "enqueue" /\ y.method = x.method /\ y.row = [x.row EXCEPT !.state = s] /\ y.row.state = s
    BY <1>1 DEF Local, Row
  <2>3. Become(a, y) /\ db' = Saved(x.row, [x.row EXCEPT !.state = s])
    BY <1>8 DEF SaveCommand
  <2>4. Placed(a, y)
    BY <1>1, <2>1, <2>2 DEF Placed
  <2> HIDE DEF y, s
  <2> QED BY <1>2, <1>3, <2>1, <2>2, <2>3, <2>4
<1> QED BY <1>6, <1>7, <1>8

\* The machine is named: it is the one the record's job deployed.
LEMMA LifeCreated ==
  ASSUME NEW w, Web = {w}, Sound, AllOrderly, AllTrue, OwnNumbers, OneLife, [Next]_vars,
         NEW a \in Actor, MarkCreated(a)
  PROVE  OneLife' /\ Moves
<1> DEFINE x   == actor[a]
           j   == x.row.job_created_id
           new == [x.row EXCEPT !.state = "Running", !.job_created_id = Complete, !.instance_id = job[j].machine]
           z   == [x EXCEPT !.row = new]
<1>1. /\ x \in Local /\ x.row \in Row /\ Orderly(a, x) /\ Placed(a, x) /\ x.at = "markCreated"
      /\ Follows(x.row, db) /\ j \in DOMAIN job /\ j \in Job
  BY DEF Sound, Types, Actors, Good, AllOrderly, OneLife, Local, MarkCreated
<1>2. job[j].machine = j
  BY <1>1 DEF AllTrue, TrueActor, TrueRow, OwnNumbers
<1>3. x.method # "approve"
  BY <1>1 DEF Orderly
<1>4. /\ new \in Row /\ new.state = "Running" /\ new.job_created_id = Complete /\ new.instance_id = j
  BY <1>1, <1>2, Numbers DEF Row, State, CloudState
<1>5. db' = Saved(x.row, new) /\ Become(a, Alive(z))
  BY DEF MarkCreated
<1>6. z \in Local /\ z.row = new /\ z.method = x.method
  BY <1>1, <1>4 DEF Local
<1> HIDE DEF new
<1>7. db'.state # "pending"
  BY <1>1, <1>4, <1>5, SavedLeaves
<1>8. x.row.instance_id = 0 /\ j # Complete /\ j # 0
  BY <1>1, Numbers DEF Follows
<1>9. db'.job_created_id = Complete /\ db'.instance_id = j
  BY <1>4, <1>5, <1>8 DEF Saved, Dirty
<1>10. Onward(db, db')
  <2>1. db.job_created_id = j => db.instance_id = 0
    BY <1>8 DEF OneLife
  <2> QED BY <1>1, <1>9, <2>1 DEF Onward, Follows
<1>11. Follows(new, db') /\ Follows(NewRow, db')
  BY <1>4, <1>9, Numbers DEF Follows, NewRow
<1> HIDE DEF z
<1>12. Continues(a, Alive(z), new)
  BY <1>1, <1>3, <1>6, ReturnsContinue DEF Placed
<1>13. Placed(a, Alive(z)) /\ Alive(z).method # "approve" /\ Follows(Alive(z).row, db')
  BY <1>11, <1>12 DEF Continues, Placed
<1> QED BY <1>1, <1>5, <1>7, <1>10, <1>13, LifeWritten

LEMMA LifeColumns ==
  ASSUME NEW w, Web = {w}, Sound, AllOrderly, OneLife, [Next]_vars, NEW a \in Actor,
         SaveApproving(a) \/ SaveError(a)
  PROVE  OneLife' /\ Moves
<1> DEFINE x == actor[a]
<1>1. /\ x \in Local /\ x.row \in Row /\ db \in Row /\ Placed(a, x) /\ x.at # "idle" /\ Follows(x.row, db)
  BY DEF Sound, Types, OneLife, Local, SaveApproving, SaveError
<1>2. /\ db'.state # "pending" /\ db'.job_created_id = db.job_created_id /\ db'.instance_id = db.instance_id
  BY <1>1 DEF SaveApproving, SaveError, Row
<1>3. Onward(db, db')
  BY <1>2 DEF Onward
<1>4. CASE SaveApproving(a)
  <2> DEFINE y == [x EXCEPT !.at = "enqueue", !.row.state = "approving"]
  <2>1. /\ y.at = "enqueue" /\ y.method = x.method /\ y.row.state = "approving"
        /\ y.row.job_created_id = x.row.job_created_id /\ y.row.instance_id = x.row.instance_id
    BY <1>1 DEF Local, Row
  <2>2. Placed(a, y) /\ Follows(y.row, db')
    BY <1>1, <1>2, <2>1 DEF Placed, Follows
  <2>3. Become(a, y)
    BY <1>4 DEF SaveApproving
  <2> HIDE DEF y
  <2> QED BY <1>1, <1>2, <1>3, <2>1, <2>2, <2>3, LifeWritten
<1>5. CASE SaveError(a)
  <2>1. Placed(a, Idle) /\ Idle.method # "approve" /\ Idle.row = NewRow /\ Follows(NewRow, db')
    BY Numbers DEF Placed, Idle, Follows, NewRow, Background
  <2> QED BY <1>1, <1>2, <1>3, <1>5, <2>1, LifeWritten DEF SaveError
<1> QED BY <1>4, <1>5

LEMMA LifeConsole ==
  ASSUME NEW w, Web = {w}, Sound, AllOrderly, OneLife, [Next]_vars, NEW a \in Actor, SaveConsole(a)
  PROVE  OneLife' /\ Moves
<1>1. actor[a].row \in Row /\ actor[a].at # "idle" /\ Become(a, Idle) /\ queue' = queue
  BY DEF Sound, Types, Local, SaveConsole
<1>2. /\ db'.state = db.state /\ db'.job_created_id = db.job_created_id /\ db'.instance_id = db.instance_id
  BY <1>1 DEF SaveConsole, Saved, Dirty, Row
<1>3. /\ Placed(a, Idle) /\ Idle.method # "approve" /\ Idle.row = NewRow /\ Idle.at = "idle"
      /\ Follows(NewRow, db')
  BY Numbers DEF Placed, Idle, Follows, NewRow, Background
<1>4. Onward(db, db')
  BY <1>2 DEF Onward
<1>5. Is(db, "pending") => a \in Web /\ queue = {} /\ db.job_created_id # Complete
  BY <1>1, PendingWeb DEF OneLife
<1>6. Is(db', "pending") <=> Is(db, "pending")
  BY <1>2 DEF Is
<1> QED BY <1>1, <1>2, <1>3, <1>4, <1>5, <1>6, LifeStep

\* A deployment is submitted: it is the web process alone that is at work.
LEMMA LifeJob ==
  ASSUME NEW w, Web = {w}, Sound, AllOrderly, OneLife, [Next]_vars, NEW a \in Actor, SaveJob(a)
  PROVE  OneLife' /\ Moves
<1> DEFINE x == actor[a]
           y == [x EXCEPT !.at = "save", !.row.job_created_id = x.job]
<1>1. /\ x \in Local /\ db \in Row /\ x.at = "saveJob" /\ x.method = "approve" /\ a \in Web /\ Placed(a, x)
      /\ x.job \in Job
  BY DEF Sound, Types, Actors, Good, AllOrderly, Orderly, OneLife, SaveJob
<1>2. Is(db, "pending") /\ x.row = db /\ queue = {} /\ db.job_created_id # Complete
      /\ \A s \in Sidekiq : actor[s] = Idle
  BY <1>1 DEF OneLife
<1>3. db' = [db EXCEPT !.job_created_id = x.job] /\ Become(a, y) /\ queue' = queue
  BY DEF SaveJob
<1>4. /\ db'.job_created_id = x.job /\ db'.instance_id = db.instance_id /\ db'.state = db.state
  BY <1>1, <1>3 DEF Row
<1>5. y.row = db' /\ y.at = "save" /\ y.method = "approve"
  BY <1>1, <1>2, <1>3 DEF Local
<1> HIDE DEF y
<1>6. actor'[a] = y /\ \A b \in Actor : b # a => actor'[b] = actor[b] /\ b \in Sidekiq
  BY <1>1, <1>3 DEF Become, Sound, Types, Actor
<1>7. db.instance_id = 0 /\ db'.job_created_id # Complete /\ Is(db', "pending")
  BY <1>1, <1>2, <1>4, Numbers DEF OneLife, Is
<1>8. ASSUME NEW b \in Actor PROVE Follows(actor'[b].row, db') /\ Placed(b, actor'[b])
  <2>1. CASE b = a
    <3>1. Follows(db', db')
      BY <1>1, <1>4, <1>7, Numbers DEF Follows
    <3>2. Placed(a, y)
      BY <1>1, <1>5 DEF Placed, Background
    <3> QED BY <1>5, <1>6, <2>1, <3>1, <3>2
  <2>2. CASE b # a
    <3>1. actor'[b] = Idle
      BY <1>2, <1>6, <2>2
    <3> QED BY <3>1, Numbers DEF Placed, Idle, Follows, NewRow, Background
  <2> QED BY <2>1, <2>2
<1>9. /\ \A s \in Sidekiq : actor'[s] = Idle
      /\ \A b \in Web : actor'[b].at # "idle" => actor'[b].row = db'
  BY <1>1, <1>2, <1>5, <1>6, PortalAssumption DEF Actor
<1>10. OneLife'
  BY <1>2, <1>3, <1>4, <1>7, <1>8, <1>9 DEF OneLife
<1>11. Submitted(db, db')
  BY <1>1, <1>2, <1>4 DEF Submitted
<1> QED BY <1>10, <1>11 DEF Moves

LEMMA LifeNext ==
  ASSUME NEW w, Web = {w}, Sound, AllOrderly, AllTrue, OwnNumbers, OneLife, [Next]_vars
  PROVE  OneLife' /\ Moves
<1>1. ASSUME NEW a \in Actor, Begins(a) \/ CommandLost(a) \/ Killed(a) PROVE OneLife' /\ Moves
  BY <1>1, LifeBegins, LifePlain
<1>2. ASSUME NEW a \in Actor, Replies(a) PROVE OneLife' /\ Moves
  BY <1>2, LifePlain, LifeCommand DEF Replies
<1>3. ASSUME NEW a \in Actor, Computes(a) PROVE OneLife' /\ Moves
  BY <1>3, LifeBegins, LifePlain, LifeSaved, LifeCreated, LifeColumns, LifeConsole, LifeJob DEF Computes
<1>4. CASE UNCHANGED <<db, queue, actor>>
  BY <1>4 DEF OneLife, Moves, Onward
<1>5. \/ UNCHANGED <<db, queue, actor>>
      \/ \E a \in Actor : Begins(a) \/ Replies(a) \/ Computes(a) \/ CommandLost(a) \/ Killed(a)
  BY DEF Next, vars, JobEnds, GuestStops, Expunge
<1> QED BY <1>1, <1>2, <1>3, <1>4, <1>5

\* With one web process the row lives the life of InstanceLife: the machine is
\* named together with the end of the deployment, and never changes
\* (instance.rb:150-165, 281-284), however many threads poll for it.
THEOREM OneMachine ==
  ASSUME NEW w, Web = {w}
  PROVE  Spec => OneMachineForLife
<1> DEFINE phase == CASE db.job_created_id = NoJob    -> "requested"
                      [] db.job_created_id = Complete -> "created"
                      [] OTHER                        -> "submitted"
           LInv == Sound /\ AllOrderly /\ Counted /\ AllTrue /\ OwnNumbers /\ OneLife
<1>1. Init => OneLife /\ OwnNumbers
  <2> SUFFICES ASSUME Init PROVE OneLife /\ OwnNumbers
    OBVIOUS
  <2>1. db = NewRow /\ queue = {} /\ actor = [a \in Actor |-> Idle] /\ DOMAIN job = {}
    BY DEF Init
  <2>2. Follows(NewRow, db) /\ \A a : Placed(a, Idle)
    BY Numbers DEF Follows, Placed, NewRow, Idle, Background
  <2> QED BY <2>1, <2>2, Numbers DEF OneLife, OwnNumbers, Is, Downcase, NewRow, Idle, Actor
<1>2. Init => LInv
  BY <1>1, InitSound, InitTrue, CountInit
<1>3. LInv /\ [Next]_vars => LInv' /\ Moves
  BY NextSound, CountNext, AllTrueStays, OwnNumbersStay, LifeNext
<1>4. Init => Life!Init
  <2>1. Init => db.job_created_id = NoJob /\ db.instance_id = 0
    BY DEF Init, NewRow
  <2>2. NoJob # Complete
    BY Numbers
  <2>3. db.job_created_id = NoJob => phase = "requested"
    BY <2>2, Zenon
  <2> QED BY <2>1, <2>3 DEF Life!Init
<1>5. LInv /\ Moves => [Life!Next]_<<phase, db.instance_id>>
  <2> SUFFICES ASSUME LInv, Moves PROVE [Life!Next]_<<phase, db.instance_id>>
    OBVIOUS
  <2>1. /\ db.job_created_id \in Job \cup {NoJob, Complete}
        /\ db.instance_id # 0 <=> db.job_created_id = Complete
    BY DEF Sound, Types, Row, OneLife
  <2>2. CASE db'.job_created_id = db.job_created_id /\ db'.instance_id = db.instance_id
    BY <2>2
  <2>3. CASE /\ db.job_created_id \in Job /\ db.instance_id = 0
             /\ db'.job_created_id = Complete /\ db'.instance_id = db.job_created_id
    BY <2>3, Numbers DEF Life!Next, Life!Create
  <2>4. CASE Submitted(db, db')
    BY <2>1, <2>4, Numbers DEF Submitted, Life!Next, Life!Submit
  <2> QED BY <2>2, <2>3, <2>4 DEF Moves, Onward
<1> QED BY <1>2, <1>3, <1>4, <1>5, PTL DEF Spec, OneMachineForLife, Life!Spec
===============================================================================
