----------------------------- MODULE Deferreds -----------------------------
(* jQuery's lists of callbacks, and the Deferred made of three of them, that    *)
(* every ajax request of the portal is.  A callback runs in the middle of its   *)
(* list's loop and may add, remove, fire, lock, disable or throw; the values    *)
(* passed on are left out.  The handlers are external.                          *)
EXTENDS Integers, Sequences, SequencesExt, FiniteSets, Lists

CONSTANTS
  Handlers,      \* functions
  MaxOps,        \* bound: operations on the lists
  Gone           \* undefined, false

ASSUME DeferredsAssumption ==
  /\ MaxOps \in Nat
  /\ "settle" \notin Handlers
  /\ Gone \notin Nat /\ Gone \notin Seq(Handlers \cup {"settle"})

VARIABLES
  lists,         \* name -> what the closure of jQuery.Callbacks keeps
  frames,        \* the loops under way, innermost last
  state,         \* of the deferred
  added,         \* the handlers ever added to done and to fail
  calls,         \* and those called
  stuck,         \* lists a handler of which has thrown
  ops            \* operations so far

deferredVars == <<lists, frames, state, added, calls, stuck, ops>>

Flags == {"once", "memory", "unique", "stopOnFalse"}

Callbacks(options) ==
  [options |-> options, list |-> <<>>, stack |-> IF "once" \in options THEN Gone ELSE 0,
   memory |-> FALSE, firing |-> FALSE, fired |-> FALSE,
   firingIndex |-> 0, firingLength |-> 0, firingStart |-> 0]

\* The first callback of done and of fail is the Deferred's own: it sets the
\* state, disables the other list and locks progress.
WithSettle(l) == [l EXCEPT !.list = <<"settle">>]

Final == [done |-> "resolved", fail |-> "rejected"]
Other == [done |-> "fail", fail |-> "done"]

tuples ==
  [done |-> WithSettle(Callbacks({"once", "memory"})), fail |-> WithSettle(Callbacks({"once", "memory"})),
   progress |-> Callbacks({"memory"})]

DeferredsInit ==
  /\ \E options \in SUBSET Flags :
       lists = [n \in {"own"} \cup DOMAIN tuples |-> IF n = "own" THEN Callbacks(options) ELSE tuples[n]]
  /\ frames = <<>> /\ state = "pending" /\ stuck = {} /\ ops = 0
  /\ added = [done |-> <<>>, fail |-> <<>>] /\ calls = [done |-> <<>>, fail |-> <<>>]

-----------------------------------------------------------------------------
(* Operations on one list. *)
Disabled(l) == [l EXCEPT !.list = Gone, !.stack = Gone, !.memory = FALSE]
Locked(l)   == IF l.memory THEN [l EXCEPT !.stack = Gone] ELSE Disabled(l)
Emptied(l)  == [l EXCEPT !.list = <<>>, !.firingLength = 0]

PushedTo(l, h) ==
  IF "unique" \in l.options /\ h \in ToSet(l.list) THEN l.list ELSE Append(l.list, h)

\* firingIndex is from 0, and the callback at it is running.
Removed(l, h) ==
  LET gone   == {i \in DOMAIN l.list : l.list[i] = h}
      called == {i \in gone : i - 1 <= l.firingIndex}
  IN  [l EXCEPT !.list = Only(l.list, Handlers \ {h}),
                !.firingLength = IF l.firing THEN @ - Cardinality(gone) ELSE @,
                !.firingIndex  = IF l.firing THEN @ - Cardinality(called) ELSE @]

\* fire, to the beginning of its loop.
Firing(l) ==
  [l EXCEPT !.memory = "memory" \in l.options, !.fired = TRUE, !.firing = TRUE,
            !.firingIndex = l.firingStart, !.firingStart = 0, !.firingLength = Len(l.list)]

\* due is what this firing still owes, as the calls to add and remove say.
Frame(n, l) == [name |-> n, at |-> "loop", emptied |-> FALSE,
                due |-> SubSeq(l.list, l.firingStart + 1, Len(l.list))]

Looping(n) == {i \in DOMAIN frames : frames[i].name = n}
Owing(n, Owes(_)) == [i \in DOMAIN frames |-> IF i \in Looping(n) THEN Owes(frames[i]) ELSE frames[i]]

-----------------------------------------------------------------------------
(* The methods, called from outside or by the handler that is running.         *)
Operation ==
  /\ ops < MaxOps /\ ops' = ops + 1
  /\ \A i \in DOMAIN frames : i = Len(frames) => frames[i].at = "running"
  /\ UNCHANGED <<state, calls, stuck>>

\* Mutant: what is added while the list fires waits for another firing.
AddNext(n, h) ==
  LET l == lists[n]
      grown == [l EXCEPT !.list = PushedTo(l, h)]
  IN  IF ~l.firing /\ l.memory
      THEN LET begun == [grown EXCEPT !.firingStart = Len(l.list)]
           IN  /\ lists' = [lists EXCEPT ![n] = Firing(begun)]
               /\ frames' = Append(frames, Frame(n, begun))
      ELSE /\ lists' = [lists EXCEPT ![n] = grown]
           /\ frames' = Owing(n, LAMBDA f : [f EXCEPT !.due = @ \o SubSeq(grown.list, Len(l.list) + 1, Len(grown.list))])

AddTo(n, h) ==
  LET l == lists[n]
      grown == [l EXCEPT !.list = PushedTo(l, h)]
  IN  IF ~l.firing /\ l.memory
      THEN LET begun == [grown EXCEPT !.firingStart = Len(l.list)]
           IN  /\ lists' = [lists EXCEPT ![n] = Firing(begun)]
               /\ frames' = Append(frames, Frame(n, begun))
      ELSE /\ lists' = [lists EXCEPT ![n] = IF l.firing THEN [grown EXCEPT !.firingLength = Len(grown.list)] ELSE grown]
           /\ frames' = Owing(n, LAMBDA f : [f EXCEPT !.due = @ \o SubSeq(grown.list, Len(l.list) + 1, Len(grown.list))])

add(n) ==
  /\ Operation
  /\ \E h \in Handlers :
       /\ IF lists[n].list = Gone THEN UNCHANGED <<lists, frames>> ELSE AddTo(n, h)
       /\ added' = IF n \in DOMAIN added THEN [added EXCEPT ![n] = Append(@, h)] ELSE added

fireWith(n) ==
  LET l == lists[n]
  IN  /\ Operation
      /\ IF l.list = Gone \/ (l.fired /\ l.stack = Gone) THEN UNCHANGED <<lists, frames>>
         ELSE IF l.firing THEN lists' = [lists EXCEPT ![n].stack = @ + 1] /\ UNCHANGED frames
         ELSE lists' = [lists EXCEPT ![n] = Firing(l)] /\ frames' = Append(frames, Frame(n, l))
      /\ UNCHANGED added

remove ==
  /\ Operation /\ lists.own.list # Gone
  /\ \E h \in Handlers :
       /\ lists' = [lists EXCEPT !.own = Removed(@, h)]
       /\ frames' = Owing("own", LAMBDA f : [f EXCEPT !.due = Only(@, Handlers \ {h})])
  /\ UNCHANGED added

disableOrLock ==
  /\ Operation
  /\ \/ lists' = [lists EXCEPT !.own = Disabled(@)]
     \/ lists' = [lists EXCEPT !.own = Locked(@)]
  /\ frames' = Owing("own", LAMBDA f : [f EXCEPT !.due = IF lists'.own.list = Gone THEN <<>> ELSE @])
  /\ UNCHANGED added

\* Even a disabled list is a list again.
empty ==
  /\ Operation
  /\ lists' = [lists EXCEPT !.own = Emptied(@)]
  /\ frames' = Owing("own", LAMBDA f : [f EXCEPT !.emptied = TRUE])
  /\ UNCHANGED added

-----------------------------------------------------------------------------
(* The loop of fire: the next callback, its return, the end.                   *)
Loop   == Last(frames)
Below  == SubSeq(frames, 1, Len(frames) - 1)
InLoop  == lists[Loop.name]
Goes   == InLoop.list # Gone /\ InLoop.firingIndex < InLoop.firingLength
Owed(due) == IF due = <<>> THEN due ELSE Tail(due)

\* done and fail: this one's state, the other's end, progress as it is.
settle ==
  /\ lists' = [lists EXCEPT ![Loop.name].firingIndex = @ + 1,
                            ![Other[Loop.name]] = Disabled(@), !.progress = Locked(@)]
  /\ frames' = Append(Below, [Loop EXCEPT !.due = Owed(@)])
  /\ state' = Final[Loop.name]
  /\ UNCHANGED calls

Call ==
  /\ frames # <<>> /\ Loop.at = "loop" /\ Goes
  /\ LET h == InLoop.list[InLoop.firingIndex + 1]
     IN  IF h = "settle" THEN settle
         ELSE /\ frames' = Append(Below, [Loop EXCEPT !.at = "running", !.due = Owed(@)])
              /\ calls' = IF Loop.name \in DOMAIN calls THEN [calls EXCEPT ![Loop.name] = Append(@, h)] ELSE calls
              /\ UNCHANGED <<lists, state>>
  /\ UNCHANGED <<added, stuck, ops>>

Return ==
  /\ frames # <<>> /\ Loop.at = "running"
  /\ \/ /\ lists' = [lists EXCEPT ![Loop.name].firingIndex = @ + 1]
        /\ frames' = Append(Below, [Loop EXCEPT !.at = "loop"])
     \/ /\ "stopOnFalse" \in InLoop.options
        /\ lists' = [lists EXCEPT ![Loop.name].memory = FALSE]
        /\ frames' = Append(Below, [Loop EXCEPT !.at = "end"])
  /\ UNCHANGED <<state, added, calls, stuck, ops>>

EndFire ==
  LET l == [InLoop EXCEPT !.firing = FALSE]
      again == l.list # Gone /\ l.stack # Gone /\ l.stack # 0
      rest == IF l.list = Gone \/ l.stack = 0 THEN l
              ELSE IF again THEN Firing([l EXCEPT !.stack = @ - 1])
              ELSE IF l.memory THEN [l EXCEPT !.list = <<>>] ELSE Disabled(l)
  IN  /\ frames # <<>> /\ (Loop.at = "end" \/ (Loop.at = "loop" /\ ~Goes))
      /\ lists' = [lists EXCEPT ![Loop.name] = rest]
      /\ frames' = IF again THEN Append(Below, Frame(Loop.name, l)) ELSE Below
      /\ UNCHANGED <<state, added, calls, stuck, ops>>

\* Nothing catches it on the way, and firing stays true in every loop it leaves.
Throw ==
  /\ frames # <<>> /\ Loop.at = "running"
  /\ stuck' = stuck \cup {frames[i].name : i \in DOMAIN frames} /\ frames' = <<>>
  /\ UNCHANGED <<lists, state, added, calls, ops>>

Loops == Call \/ Return \/ EndFire \/ Throw

\* A list alone, and a deferred: done, fail, progress; resolve, reject, notify.
CallbacksNext == add("own") \/ fireWith("own") \/ remove \/ disableOrLock \/ empty \/ Loops
DeferredNext  == (\E n \in DOMAIN tuples : add(n) \/ fireWith(n)) \/ Loops

-----------------------------------------------------------------------------
(* Every loop under way has before it exactly the callbacks it owes, whatever  *)
(* was added, removed, disabled or fired from within it (jQuery.Callbacks); a  *)
(* list emptied while it fires is the exception, whose new callbacks may be    *)
(* passed over.                                                                *)
FiringExact ==
  \A i \in DOMAIN frames :
     LET l == lists[frames[i].name]
         next == l.firingIndex + (IF frames[i].at = "running" THEN 2 ELSE 1)
     IN  frames[i].at = "end" \/ frames[i].emptied
         \/ frames[i].due = IF l.list = Gone THEN <<>> ELSE SubSeq(l.list, next, l.firingLength)

(* What is added to a deferred before or after it is settled, from wherever,   *)
(* is called once, in the order of adding, and only for the outcome it waits   *)
(* for, unless a handler has thrown: then the list fires for ever, and calls   *)
(* nobody (jQuery.Deferred).                                                   *)
PromiseKept ==
  frames = <<>> =>
    \A n \in DOMAIN added \ stuck : calls[n] = IF state = Final[n] THEN added[n] ELSE <<>>
=============================================================================
