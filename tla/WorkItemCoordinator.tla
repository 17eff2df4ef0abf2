------------------------- MODULE WorkItemCoordinator -------------------------
(***************************************************************************)
(* The ownership of background work (server/work_item_coordinator.py with  *)
(* task_retention.py): the bounded start of tasks, the foreground wait of  *)
(* a turn, the retention of what is not done by then, the delivery of late *)
(* results, cancellation and shutdown.  A turn waits either in submit()    *)
(* or, for the one search of an ordinary turn, in the session host's       *)
(* _search_with_timeout (pipeline.py), which retains in the same way.      *)
(*                                                                         *)
(* What a task computes and the order per worker are WorkerMailbox's; here *)
(* a task just runs until it ends, and how it ended (the kind of answer)   *)
(* is left out.  The done-callbacks of one task run together, some time    *)
(* after it ended.                                                         *)
(***************************************************************************)
EXTENDS Naturals, FiniteSets, Sequences, Functions

CONSTANTS Items, Turns,
          TurnItems,           \* a turn's work items, in order
          Compound,            \* the turns that wait in submit()
          MaxBackgroundTasks,  \* _max_background_tasks
          MaxWorkItemsPerTurn  \* config.max_work_items_per_turn

ASSUME CoordinatorAssumption ==
    /\ {MaxBackgroundTasks, MaxWorkItemsPerTurn} \subseteq Nat \ {0}
    /\ Compound \subseteq Turns
    /\ TurnItems \in [Turns -> Seq(Items)]

VARIABLES
    task,       \* an item's task: none, running or over
    fresh,      \* tasks that ended and whose done-callbacks have yet to run
    asked,      \* tasks that were cancelled while running
    owned,      \* _owned_tasks
    mandatory,  \* _mandatory_tasks
    workTasks,  \* _work_tasks
    late,       \* _late_tasks
    callback,   \* the late-result callback of an item: none, running, over
    turn,       \* a turn's wait: new, waiting, yielding, gathering, returned, raised
    answer,     \* what the turn was told of an item
    shutdown    \* open, draining or closed

vars == <<task, fresh, asked, owned, mandatory, workTasks, late, callback, turn,
          answer, shutdown>>

Work(i) == <<"work", i>>
Late(i) == <<"late", i>>
Running == {i \in Items : task[i] = "running"}

\* submit() takes no more than max_work_items_per_turn items.
Selected(t) ==
    SubSeq(TurnItems[t], 1, IF Len(TurnItems[t]) < MaxWorkItemsPerTurn
                            THEN Len(TurnItems[t]) ELSE MaxWorkItemsPerTurn)
Given(t) == Range(IF t \in Compound THEN Selected(t) ELSE TurnItems[t])
Admitted(t) == {i \in Given(t) : task[i] # "none"}

\* A work item's id is made from its turn's.
ASSUME ItemsOfOneTurn == \A t, u \in Turns : t # u => Given(t) \cap Given(u) = {}

Init ==
    /\ task = [i \in Items |-> "none"]
    /\ fresh = {} /\ asked = {}
    /\ owned = {} /\ mandatory = {}
    /\ workTasks = {} /\ late = {}
    /\ callback = [i \in Items |-> "none"]
    /\ turn = [t \in Turns |-> "new"]
    /\ answer = [i \in Items |-> "none"]
    /\ shutdown = "open"

-----------------------------------------------------------------------------
(* Starting tasks *)

\* Slip: the check lets one task more than the limit in.
RoomOffByOne == MaxBackgroundTasks + 1 - Cardinality(owned \ mandatory)

\* _has_background_capacity, as the number of tasks start_task would still accept.
Room == MaxBackgroundTasks - Cardinality(owned \ mandatory)

\* start_task for the items of s in turn; what finds no room is refused.
StartTasks(s) ==
    LET taken == {s[k] : k \in {k \in 1..Len(s) : k <= Room}}
    IN  /\ task' = [i \in Items |-> IF i \in taken THEN "running" ELSE task[i]]
        /\ owned' = owned \cup {Work(i) : i \in taken}
        /\ answer' = [i \in Items |-> IF i \in taken THEN "working"
                                      ELSE IF i \in Range(s) THEN "answered" ELSE answer[i]]

\* submit(): every task is started before the first await; with none started there
\* is nothing to wait for.
Submit(t) ==
    /\ t \in Compound
    /\ turn[t] = "new"
    /\ shutdown = "open"
    /\ StartTasks(Selected(t))
    /\ workTasks' = workTasks \cup {i \in Items : task'[i] # task[i]}
    /\ turn' = [turn EXCEPT ![t] = IF task' = task THEN "yielding" ELSE "waiting"]
    /\ UNCHANGED <<fresh, asked, mandatory, late, callback, shutdown>>

\* _dispatch_search_task and _search_with_timeout: a refused search is reported at
\* once.  The host, not the coordinator, keeps the task for cancellation.
Search(t) ==
    /\ t \notin Compound
    /\ turn[t] = "new"
    /\ shutdown = "open"
    /\ StartTasks(TurnItems[t])
    /\ turn' = [turn EXCEPT ![t] = IF task' = task THEN "returned" ELSE "waiting"]
    /\ UNCHANGED <<fresh, asked, mandatory, workTasks, late, callback, shutdown>>

-----------------------------------------------------------------------------
(* The tasks *)

\* A task ends: with a result, by an exception, or because it was cancelled.
TaskEnds(i) ==
    /\ task[i] = "running"
    /\ task' = [task EXCEPT ![i] = "over"]
    /\ fresh' = fresh \cup {i}
    /\ UNCHANGED <<asked, owned, mandatory, workTasks, late, callback, turn, answer, shutdown>>

\* Slip: the callback of a late result competes for background capacity.
StartCallbackIfRoom(i) ==
    IF Room > 0
    THEN /\ callback' = [callback EXCEPT ![i] = "running"]
         /\ owned' = (owned \ {Work(i)}) \cup {Late(i)}
         /\ UNCHANGED mandatory
    ELSE /\ owned' = owned \ {Work(i)}
         /\ UNCHANGED <<callback, mandatory>>

\* start_task(mandatory=True) for the late-result callback: no capacity check.
StartCallback(i) ==
    /\ callback' = [callback EXCEPT ![i] = "running"]
    /\ owned' = (owned \ {Work(i)}) \cup {Late(i)}
    /\ mandatory' = mandatory \cup {Late(i)}

\* Slip: the completion callback of a retained task does not look at _shutdown.
LateAlwaysDelivered(i) == i \in late

\* retain_late_task's completion callback stops short once shutdown has begun.
LateDelivered(i) == i \in late /\ shutdown = "open"

\* The done-callbacks: the owner lets go, the registry forgets the item, and a
\* retained task's late result goes to its turn's callback.
TaskCallbacks(i) ==
    /\ i \in fresh
    /\ fresh' = fresh \ {i}
    /\ workTasks' = workTasks \ {i}
    /\ late' = late \ {i}
    /\ \/ /\ LateDelivered(i)
          /\ StartCallback(i)
          /\ answer' = IF callback'[i] = "running"
                       THEN [answer EXCEPT ![i] = "delivered"] ELSE answer
       \/ /\ ~LateDelivered(i)
          /\ owned' = owned \ {Work(i)}
          /\ UNCHANGED <<callback, mandatory, answer>>
    /\ UNCHANGED <<task, asked, turn, shutdown>>

\* The late-result callback finishes, or is cancelled by shutdown.
CallbackEnds(i) ==
    /\ callback[i] = "running"
    /\ callback' = [callback EXCEPT ![i] = "over"]
    /\ owned' = owned \ {Late(i)}
    /\ mandatory' = mandatory \ {Late(i)}
    /\ UNCHANGED <<task, fresh, asked, workTasks, late, turn, answer, shutdown>>

\* cancel(), and the host's cancel_selected for the search of an ordinary turn.
Cancel(i) ==
    /\ task[i] = "running" /\ i \notin asked
    /\ i \in workTasks \/ \E t \in Turns \ Compound : i \in Given(t)
    /\ asked' = asked \cup {i}
    /\ UNCHANGED <<task, fresh, owned, mandatory, workTasks, late, callback, turn, answer, shutdown>>

-----------------------------------------------------------------------------
(* The wait of a turn *)

\* The turn takes what is done and has the rest retained.  After shutdown began the
\* retention is refused and the task cancelled, which is an answer as well.
TakeAnswers(t, kept) ==
    LET retained == IF shutdown = "open" THEN kept ELSE {}
    IN  /\ late' = late \cup retained
        /\ answer' = [i \in Items |-> IF i \in retained THEN "background"
                                      ELSE IF i \in Admitted(t) THEN "answered" ELSE answer[i]]

Unfinished(t) == {i \in Admitted(t) : task[i] = "running"}

\* asyncio.wait returns, all tasks being done or at the timeout.  submit() then
\* yields once more before it looks at the tasks.
WaitReturns(t) ==
    /\ turn[t] = "waiting"
    /\ \/ /\ t \in Compound
          /\ turn' = [turn EXCEPT ![t] = "yielding"]
          /\ UNCHANGED <<asked, owned, late, answer>>
       \/ /\ t \notin Compound
          /\ turn' = [turn EXCEPT ![t] = "returned"]
          /\ TakeAnswers(t, Unfinished(t))
          /\ LET rejected == IF shutdown = "open" THEN {} ELSE Unfinished(t)
             IN  /\ asked' = asked \cup rejected
                 /\ owned' = owned \cup {Work(i) : i \in rejected}
    /\ UNCHANGED <<task, fresh, mandatory, workTasks, callback, shutdown>>

\* The rest of submit(), from the sleep(0) on.
Collect(t) ==
    /\ turn[t] = "yielding"
    /\ turn' = [turn EXCEPT ![t] = "returned"]
    /\ TakeAnswers(t, Unfinished(t))
    /\ UNCHANGED <<task, fresh, asked, owned, mandatory, workTasks, callback, shutdown>>

\* The turn's task is cancelled.  In the wait it cancels its items and gathers them;
\* in the sleep(0) after it, and in the gather, the exception leaves at once.
CancelTurn(t) ==
    /\ turn[t] \in {"waiting", "yielding", "gathering"}
    /\ turn' = [turn EXCEPT ![t] = IF turn[t] = "waiting" THEN "gathering" ELSE "raised"]
    /\ asked' = IF turn[t] = "waiting" THEN asked \cup Unfinished(t) ELSE asked
    /\ answer' = [i \in Items |-> IF i \in Admitted(t) THEN "dropped" ELSE answer[i]]
    /\ UNCHANGED <<task, fresh, owned, mandatory, workTasks, late, callback, shutdown>>

\* gather returns and the cancellation is raised to the caller.
Raise(t) ==
    /\ turn[t] = "gathering"
    /\ Unfinished(t) = {}
    /\ turn' = [turn EXCEPT ![t] = "raised"]
    /\ UNCHANGED <<task, fresh, asked, owned, mandatory, workTasks, late, callback, answer, shutdown>>

-----------------------------------------------------------------------------
(* Shutdown *)

\* shutdown() also cancels _submission_tasks, the turns inside submit().
Interrupted(t) == t \in Compound /\ turn[t] \in {"waiting", "yielding", "gathering"}

\* shutdown() up to its wait: everything owned and every submission is cancelled.
Shutdown ==
    /\ shutdown = "open"
    /\ shutdown' = "draining"
    /\ asked' = asked \cup Running
    /\ turn' = [t \in Turns |->
                  IF ~Interrupted(t) THEN turn[t]
                  ELSE IF turn[t] = "waiting" THEN "gathering" ELSE "raised"]
    /\ answer' = [i \in Items |->
                    IF \E t \in Turns : Interrupted(t) /\ turn[t] # "gathering" /\ i \in Admitted(t)
                    THEN "dropped" ELSE answer[i]]
    /\ UNCHANGED <<task, fresh, owned, mandatory, workTasks, late, callback>>

\* The wait for the cancelled tasks ends, at the latest after the grace period; what
\* resists is let go.
Close ==
    /\ shutdown = "draining"
    /\ shutdown' = "closed"
    /\ owned' = {} /\ mandatory' = {} /\ workTasks' = {} /\ late' = {}
    /\ UNCHANGED <<task, fresh, asked, callback, turn, answer>>

Next ==
    \/ \E t \in Turns :
        Submit(t) \/ Search(t) \/ WaitReturns(t) \/ Collect(t) \/ CancelTurn(t) \/ Raise(t)
    \/ \E i \in Items : TaskEnds(i) \/ TaskCallbacks(i) \/ CallbackEnds(i) \/ Cancel(i)
    \/ Shutdown
    \/ Close

\* Tasks end (a provider call has a timeout), callbacks run, waits time out.
Fairness ==
    /\ \A i \in Items : WF_vars(TaskEnds(i)) /\ WF_vars(TaskCallbacks(i))
    /\ \A t \in Turns : WF_vars(WaitReturns(t)) /\ WF_vars(Collect(t)) /\ WF_vars(Raise(t))
    /\ WF_vars(Close)

Spec == Init /\ [][Next]_vars /\ Fairness

-----------------------------------------------------------------------------
(* Properties *)

\* Every field holds a value of its kind.
TypeOK ==
    /\ task \in [Items -> {"none", "running", "over"}]
    /\ fresh \cup asked \cup workTasks \cup late \subseteq Items
    /\ owned \subseteq {Work(i) : i \in Items} \cup {Late(i) : i \in Items}
    /\ mandatory \subseteq {Late(i) : i \in Items}
    /\ callback \in [Items -> {"none", "running", "over"}]
    /\ turn \in [Turns -> {"new", "waiting", "yielding", "gathering", "returned", "raised"}]
    /\ answer \in [Items -> {"none", "working", "answered", "background", "delivered", "dropped"}]
    /\ shutdown \in {"open", "draining", "closed"}

\* Refusable background work never exceeds _max_background_tasks, however many late
\* callbacks were forced past the gate.
WithinCapacity == Cardinality(owned \ mandatory) <= MaxBackgroundTasks

\* The coordinator keeps the promise WorkDelivery states: every item is answered or
\* delivered once, and dropped only with its turn or the session.
Delivery == INSTANCE WorkDelivery WITH closing <- (shutdown # "open")
KeepsDelivery == Delivery!Spec

\* A late result reaches its turn: what goes on in the background is delivered unless
\* the session closes ("at-least-once late-delivery guarantee", start_task).
LateDeliveryHappens ==
    \A i \in Items : answer[i] = "background" ~> answer[i] = "delivered" \/ shutdown # "open"

-----------------------------------------------------------------------------
(* What a comment, a document or a test says, and the code does not do. *)

\* A cancelled submission stops its items: none is left running that nobody asked to
\* stop.
CancelledTurnStopsItems ==
    \A t \in Turns : turn[t] = "raised" => Unfinished(t) \subseteq asked
=============================================================================
