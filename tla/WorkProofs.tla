----------------------------- MODULE WorkProofs ------------------------------
(***************************************************************************)
(* Proofs about the work of a turn, for any turns, items, limits, segments *)
(* and slots: the coordinator keeps its capacity and the promise that      *)
(* WorkDelivery states, and the transcript processor routes what was said  *)
(* once and in order.                                                      *)
(***************************************************************************)
EXTENDS MCWork, FiniteSetTheorems, WellFoundedInduction, TLAPS

-----------------------------------------------------------------------------
(* The coordinator. *)

\* The work that takes a place: its task runs or its callbacks have yet to run.
Live == {Work(i) : i \in Running \cup fresh}

\* The refusable tasks are live work, all of it until the coordinator lets go of
\* what resists its shutdown, and live work fits the limit.  After that a turn
\* whose retention is refused has its task owned again: the bound on live work
\* is what keeps this within the limit.
LiveWork ==
    /\ \A i \in fresh : task[i] = "over"
    /\ \A i \in Items : Late(i) \in owned => Late(i) \in mandatory
    /\ owned \ mandatory \subseteq Live
    /\ shutdown # "closed" => Live \subseteq owned
    /\ IsFiniteSet(Live) /\ Cardinality(Live) <= MaxBackgroundTasks

\* What a turn was told of its items agrees with where it is.
TurnsAgree ==
    \A t \in Turns :
        /\ turn[t] = "new" => \A i \in Given(t) : task[i] = "none" /\ answer[i] = "none"
        /\ turn[t] \in {"waiting", "yielding"} => \A i \in Admitted(t) : answer[i] = "working"
        /\ turn[t] = "gathering" => \A i \in Admitted(t) : answer[i] = "dropped"

LateIsBackground == \A i \in late : answer[i] = "background"

IInv == TypeOK /\ LiveWork /\ TurnsAgree /\ LateIsBackground

-----------------------------------------------------------------------------
(* What a turn hands in *)

\* A turn's items are items; submit() hands in exactly those it selects.
LEMMA GivenItems ==
  ASSUME NEW t \in Turns
  PROVE  /\ Given(t) \subseteq Items
         /\ t \in Compound => Selected(t) \in Seq(Items) /\ Range(Selected(t)) = Given(t)
         /\ t \notin Compound => TurnItems[t] \in Seq(Items) /\ Range(TurnItems[t]) = Given(t)
<1>1. TurnItems[t] \in Seq(Items)
  BY Zenon, CoordinatorAssumption
<1>2. \A s \in Seq(Items) : Range(s) \subseteq Items
  BY DEF Range
<1>3. Selected(t) \in Seq(Items)
  <2> DEFINE n == IF Len(TurnItems[t]) < MaxWorkItemsPerTurn
                  THEN Len(TurnItems[t]) ELSE MaxWorkItemsPerTurn
  <2>1. n \in Nat /\ n <= Len(TurnItems[t])
    BY <1>1, CoordinatorAssumption
  <2>2. SubSeq(TurnItems[t], 1, n) \in Seq(Items)
    BY <1>1, <2>1
  <2> QED
    BY Zenon, <2>2 DEF Selected
<1> QED
  BY Zenon, <1>1, <1>2, <1>3 DEF Given

\* The items start_task accepts of a turn's.
Taken(s) == {s[k] : k \in {k \in 1..Len(s) : k <= Room}}

\* They are no more than there is room for.
LEMMA TakenFits ==
  ASSUME NEW s \in Seq(Items), Room \in Nat
  PROVE  /\ Taken(s) \subseteq Range(s)
         /\ IsFiniteSet({Work(i) : i \in Taken(s)})
         /\ Cardinality({Work(i) : i \in Taken(s)}) <= Room
<1> DEFINE K == {k \in 1..Len(s) : k <= Room}
           W == {Work(i) : i \in Taken(s)}
           f == [k \in K |-> Work(s[k])]
<1>1. Taken(s) \subseteq Range(s)
  BY DEF Taken, Range
<1>2. IsFiniteSet(K) /\ Cardinality(K) <= Room
  <2>1. IsFiniteSet(1..Room) /\ Cardinality(1..Room) = Room
    BY FS_Interval
  <2>2. K \in SUBSET (1..Room)
    OBVIOUS
  <2> QED
    BY Zenon, <2>1, <2>2, FS_Subset
<1>3. f \in Surjection(K, W)
  <2>1. f \in [K -> W]
    BY Zenon DEF Taken
  <2>2. \A w \in W : \E k \in K : f[k] = w
    BY Zenon DEF Taken
  <2> QED
    BY Zenon, <2>1, <2>2 DEF Surjection
<1>4. IsFiniteSet(W) /\ Cardinality(W) <= Cardinality(K)
  BY Zenon, <1>2, <1>3, FS_Surjection
<1>5. Cardinality(W) \in Nat /\ Cardinality(K) \in Nat
  BY Zenon, <1>2, <1>4, FS_CardinalityType
<1> QED
  BY <1>1, <1>2, <1>4, <1>5

\* While the coordinator is open the refusable tasks are the live work, so
\* there is as much room as live work leaves.
LEMMA RoomLeft ==
  ASSUME TypeOK, LiveWork, shutdown = "open"
  PROVE  Room \in Nat /\ Room = MaxBackgroundTasks - Cardinality(Live)
<1>1. \A i, j \in Items : Work(i) # Late(j)
  BY Zenon DEF Work, Late
<1>2. Live \cap mandatory = {}
  BY Zenon, <1>1 DEF TypeOK, Live, Running
<1>3. owned \ mandatory = Live
  BY Zenon, <1>2 DEF LiveWork
<1>4. Cardinality(Live) \in Nat
  BY Zenon, FS_CardinalityType DEF LiveWork
<1>5. MaxBackgroundTasks \in Nat /\ Cardinality(Live) <= MaxBackgroundTasks
  BY Zenon, CoordinatorAssumption DEF LiveWork
<1>6. Room = MaxBackgroundTasks - Cardinality(Live)
  BY Zenon, <1>3 DEF Room
<1> QED
  BY <1>4, <1>5, <1>6

-----------------------------------------------------------------------------
(* Every step keeps the invariant *)

\* Starting a turn's tasks: what is taken is the turn's and fits.
LEMMA StartTasksStep ==
  ASSUME TypeOK, LiveWork, shutdown = "open", NEW s \in Seq(Items), Range(s) \subseteq Items,
         StartTasks(s), UNCHANGED <<fresh, mandatory, shutdown>>,
         \A i \in Range(s) : task[i] = "none"
  PROVE  /\ Taken(s) \subseteq Range(s)
         /\ task' = [i \in Items |-> IF i \in Taken(s) THEN "running" ELSE task[i]]
         /\ answer' = [i \in Items |-> IF i \in Taken(s) THEN "working"
                                       ELSE IF i \in Range(s) THEN "answered" ELSE answer[i]]
         /\ owned' = owned \cup {Work(i) : i \in Taken(s)}
         /\ LiveWork'
<1> DEFINE W == {Work(i) : i \in Taken(s)}
<1>1. /\ task' = [i \in Items |-> IF i \in Taken(s) THEN "running" ELSE task[i]]
      /\ owned' = owned \cup W
      /\ answer' = [i \in Items |-> IF i \in Taken(s) THEN "working"
                                    ELSE IF i \in Range(s) THEN "answered" ELSE answer[i]]
  BY Zenon DEF StartTasks, Taken
<1>2. /\ Room \in Nat /\ Room = MaxBackgroundTasks - Cardinality(Live)
      /\ Taken(s) \subseteq Range(s) /\ IsFiniteSet(W) /\ Cardinality(W) <= Room
  BY Zenon, RoomLeft, TakenFits
<1>3. Live' = Live \cup W
  BY ZenonT(60), <1>1, <1>2 DEF Live, Running, TypeOK
<1>4. IsFiniteSet(Live') /\ Cardinality(Live') <= MaxBackgroundTasks
  <2>1. /\ IsFiniteSet(Live \cup W) /\ IsFiniteSet(Live \cap W)
        /\ Cardinality(Live \cup W) = Cardinality(Live) + Cardinality(W) - Cardinality(Live \cap W)
    BY Zenon, <1>2, FS_Union, FS_Subset DEF LiveWork
  <2>2. /\ Cardinality(Live) \in Nat /\ Cardinality(W) \in Nat /\ Cardinality(Live \cap W) \in Nat
        /\ Cardinality(Live \cup W) \in Nat
    BY Zenon, <1>2, <2>1, FS_CardinalityType DEF LiveWork
  <2>3. MaxBackgroundTasks \in Nat
    BY Zenon, CoordinatorAssumption
  <2>4. Cardinality(Live \cup W) <= MaxBackgroundTasks
    BY <1>2, <2>1, <2>2, <2>3
  <2> QED
    BY Zenon, <1>3, <2>1, <2>4
<1>5. \A i \in fresh' : task'[i] = "over"
  BY Zenon, <1>1, <1>2 DEF LiveWork, TypeOK
<1>6. \A i \in Items : Late(i) \in owned' => Late(i) \in mandatory'
  BY Zenon, <1>1, <1>2 DEF LiveWork, Work, Late
<1> QED
  BY Zenon, <1>1, <1>2, <1>3, <1>4, <1>5, <1>6 DEF LiveWork

\* Live work that shrinks stays within the limit.
LEMMA LiveShrinks ==
  ASSUME LiveWork, Live' \subseteq Live
  PROVE  IsFiniteSet(Live') /\ Cardinality(Live') <= MaxBackgroundTasks
<1>1. /\ IsFiniteSet(Live') /\ IsFiniteSet(Live)
      /\ Cardinality(Live') <= Cardinality(Live)
  BY Zenon, FS_Subset DEF LiveWork
<1>2. Cardinality(Live') \in Nat /\ Cardinality(Live) \in Nat
  BY Zenon, <1>1, FS_CardinalityType
<1> QED
  BY <1>1, <1>2, CoordinatorAssumption DEF LiveWork

\* A turn starts: some of its items run, the rest is refused on the spot.
LEMMA Starting ==
  ASSUME IInv, NEW t \in Turns, Submit(t) \/ Search(t)
  PROVE  /\ turn[t] = "new" /\ shutdown = "open" /\ LiveWork'
         /\ \E to \in {"yielding", "waiting", "returned"} : turn' = [turn EXCEPT ![t] = to]
         /\ UNCHANGED <<fresh, asked, mandatory, late, callback, shutdown>>
         /\ workTasks' \subseteq Items
         /\ \E T \in SUBSET Given(t) :
              /\ task' = [i \in Items |-> IF i \in T THEN "running" ELSE task[i]]
              /\ answer' = [i \in Items |-> IF i \in T THEN "working"
                                            ELSE IF i \in Given(t) THEN "answered" ELSE answer[i]]
              /\ owned' = owned \cup {Work(i) : i \in T}
<1>1. PICK s \in Seq(Items) : StartTasks(s) /\ Range(s) = Given(t)
  BY Zenon, GivenItems DEF Submit, Search
<1>2. /\ turn[t] = "new" /\ shutdown = "open" /\ Given(t) \subseteq Items
      /\ UNCHANGED <<fresh, asked, mandatory, late, callback, shutdown>>
      /\ \A i \in Given(t) : task[i] = "none"
  BY Zenon, GivenItems DEF Submit, Search, IInv, TurnsAgree
<1>3. /\ Taken(s) \subseteq Range(s) /\ LiveWork'
      /\ task' = [i \in Items |-> IF i \in Taken(s) THEN "running" ELSE task[i]]
      /\ answer' = [i \in Items |-> IF i \in Taken(s) THEN "working"
                                    ELSE IF i \in Range(s) THEN "answered" ELSE answer[i]]
      /\ owned' = owned \cup {Work(i) : i \in Taken(s)}
  BY Zenon, <1>1, <1>2, StartTasksStep DEF IInv
<1>4. \E to \in {"yielding", "waiting", "returned"} : turn' = [turn EXCEPT ![t] = to]
  BY Zenon DEF Submit, Search
<1>5. workTasks' \subseteq Items
  BY Zenon DEF Submit, Search, IInv, TypeOK
<1>6. \E T \in SUBSET Given(t) :
        /\ task' = [i \in Items |-> IF i \in T THEN "running" ELSE task[i]]
        /\ answer' = [i \in Items |-> IF i \in T THEN "working"
                                      ELSE IF i \in Given(t) THEN "answered" ELSE answer[i]]
        /\ owned' = owned \cup {Work(i) : i \in T}
  <2> Taken(s) \in SUBSET Given(t)
    BY Zenon, <1>1, <1>3
  <2> WITNESS Taken(s) \in SUBSET Given(t)
  <2> QED
    BY Zenon, <1>1, <1>3
<1> QED
  BY Zenon, <1>2, <1>3, <1>4, <1>5, <1>6

\* Every step keeps every variable within its type.
LEMMA TypeStep ==
  ASSUME IInv, [Next]_vars
  PROVE  TypeOK'
<1> USE GivenItems DEF IInv, TypeOK, Admitted
<1>1. ASSUME NEW t \in Turns, Submit(t) \/ Search(t) PROVE TypeOK'
  BY <1>1, Starting
<1>2. ASSUME NEW t \in Turns, WaitReturns(t) PROVE TypeOK'
  BY <1>2 DEF WaitReturns, TakeAnswers, Unfinished
<1>3. ASSUME NEW t \in Turns, Collect(t) PROVE TypeOK'
  BY Zenon, <1>3 DEF Collect, TakeAnswers, Unfinished
<1>4. ASSUME NEW t \in Turns, CancelTurn(t) PROVE TypeOK'
  BY Zenon, <1>4 DEF CancelTurn, Unfinished
<1>5. ASSUME NEW t \in Turns, Raise(t) PROVE TypeOK'
  BY Zenon, <1>5 DEF Raise
<1>6. ASSUME NEW i \in Items, TaskEnds(i) PROVE TypeOK'
  BY Zenon, <1>6 DEF TaskEnds
<1>7. ASSUME NEW i \in Items, TaskCallbacks(i) PROVE TypeOK'
  BY <1>7 DEF TaskCallbacks, StartCallback
<1>8. ASSUME NEW i \in Items, CallbackEnds(i) PROVE TypeOK'
  BY Zenon, <1>8 DEF CallbackEnds
<1>9. ASSUME NEW i \in Items, Cancel(i) PROVE TypeOK'
  BY Zenon, <1>9 DEF Cancel
<1>10. CASE Shutdown
  <2>1. turn' \in [Turns -> {"new", "waiting", "yielding", "gathering", "returned", "raised"}]
    BY Zenon, <1>10 DEF Shutdown
  <2>2. /\ answer' \in [Items -> {"none", "working", "answered", "background", "delivered", "dropped"}]
        /\ asked' \subseteq Items
    BY Zenon, <1>10 DEF Shutdown, Running
  <2> QED
    BY Zenon, <1>10, <2>1, <2>2 DEF Shutdown
<1>11. CASE Close
  BY Zenon, <1>11 DEF Close
<1>12. CASE UNCHANGED vars
  BY Zenon, <1>12 DEF vars
<1> QED
  BY Zenon, <1>1, <1>2, <1>3, <1>4, <1>5, <1>6, <1>7, <1>8, <1>9, <1>10, <1>11, <1>12 DEF Next, vars

\* Every step keeps live work within the limit.
LEMMA LiveWorkStep ==
  ASSUME IInv, TypeOK', [Next]_vars
  PROVE  LiveWork'
<1> USE DEF IInv, TypeOK
<1>1. ASSUME NEW t \in Turns, Submit(t) \/ Search(t) PROVE LiveWork'
  BY Zenon, <1>1, Starting
<1>2. ASSUME NEW t \in Turns, WaitReturns(t) PROVE LiveWork'
  <2>1. Live' = Live /\ UNCHANGED <<task, fresh, mandatory, shutdown>>
    BY ZenonT(60), <1>2 DEF WaitReturns, Live, Running
  <2>2. PICK R \in SUBSET Running : owned' = owned \cup {Work(i) : i \in R}
    <3>1. Unfinished(t) \in SUBSET Running /\ {} \in SUBSET Running
      BY Zenon, GivenItems DEF Unfinished, Admitted, Running
    <3>2. CASE t \in Compound
      <4>1. owned' = owned \cup {Work(i) : i \in {}}
        BY ZenonT(60), <1>2, <3>2 DEF WaitReturns
      <4> QED
        BY Zenon, <3>1, <4>1
    <3>3. CASE t \notin Compound /\ shutdown = "open"
      BY Zenon, <1>2, <3>1, <3>3 DEF WaitReturns
    <3>4. CASE t \notin Compound /\ shutdown # "open"
      BY Zenon, <1>2, <3>1, <3>4 DEF WaitReturns
    <3> QED
      BY Zenon, <3>2, <3>3, <3>4
  <2>3. {Work(i) : i \in R} \subseteq Live
    BY DEF Live
  <2>4. \A i \in Items : Late(i) \in owned' => Late(i) \in mandatory'
    BY Zenon, <2>1, <2>2 DEF LiveWork, Work, Late
  <2>5. owned' \ mandatory' \subseteq Live' /\ (shutdown' # "closed" => Live' \subseteq owned')
    BY Zenon, <2>1, <2>2, <2>3 DEF LiveWork
  <2> QED
    BY Zenon, <2>1, <2>4, <2>5 DEF LiveWork
<1>3. ASSUME NEW i \in Items, TaskEnds(i) PROVE LiveWork'
  <2>1. Live' = Live
    BY <1>3 DEF TaskEnds, Live, Running
  <2>2. \A j \in fresh' : task'[j] = "over"
    BY Zenon, <1>3 DEF TaskEnds, LiveWork
  <2> QED
    BY Zenon, <1>3, <2>1, <2>2 DEF TaskEnds, LiveWork
<1>4. ASSUME NEW i \in Items, TaskCallbacks(i) PROVE LiveWork'
  <2>1. task[i] = "over" /\ i \in fresh /\ fresh' = fresh \ {i} /\ UNCHANGED <<task, shutdown>>
    BY Zenon, <1>4 DEF TaskCallbacks, LiveWork
  <2>2. Live' = Live \ {Work(i)}
    BY <2>1 DEF Live, Running, Work
  <2>3. \A j, l \in Items : Work(j) # Late(l)
    BY Zenon DEF Work, Late
  <2>4. \/ owned' = (owned \ {Work(i)}) \cup {Late(i)} /\ mandatory' = mandatory \cup {Late(i)}
        \/ owned' = owned \ {Work(i)} /\ UNCHANGED mandatory
    BY Zenon, <1>4 DEF TaskCallbacks, StartCallback
  <2>5. \A j \in Items : Late(j) \in owned' => Late(j) \in mandatory'
    BY Zenon, <2>3, <2>4 DEF LiveWork
  <2>6. /\ owned' \ mandatory' \subseteq Live'
        /\ shutdown' # "closed" => Live' \subseteq owned'
    BY Zenon, <2>1, <2>2, <2>3, <2>4 DEF LiveWork
  <2>7. IsFiniteSet(Live') /\ Cardinality(Live') <= MaxBackgroundTasks
    BY Zenon, <2>2, LiveShrinks
  <2> QED
    BY Zenon, <2>1, <2>5, <2>6, <2>7 DEF LiveWork
<1>5. ASSUME NEW i \in Items, CallbackEnds(i) PROVE LiveWork'
  <2>1. Live' = Live
    BY <1>5 DEF CallbackEnds, Live, Running
  <2>2. \A j \in Items : Work(j) # Late(i)
    BY Zenon DEF Work, Late
  <2>3. Live \subseteq {Work(j) : j \in Items}
    BY DEF Live, Running
  <2> QED
    BY <1>5, <2>1, <2>2, <2>3 DEF CallbackEnds, LiveWork
<1>6. CASE Shutdown
  <2>1. Live' = Live
    BY Zenon, <1>6 DEF Shutdown, Live, Running
  <2> QED
    BY Zenon, <1>6, <2>1 DEF Shutdown, LiveWork
<1>7. CASE Close
  <2>1. Live' = Live
    BY Zenon, <1>7 DEF Close, Live, Running
  <2> QED
    BY Zenon, <1>7, <2>1 DEF Close, LiveWork
<1>8. CASE UNCHANGED <<task, fresh, owned, mandatory, shutdown>>
  BY ZenonT(60), <1>8 DEF LiveWork, Live, Running
<1> QED
  BY Zenon, <1>1, <1>2, <1>3, <1>4, <1>5, <1>6, <1>7, <1>8 DEF Next, vars, Collect, CancelTurn, Raise, Cancel

\* Every step keeps turns and answers in agreement.
LEMMA TurnsAgreeStep ==
  ASSUME IInv, [Next]_vars
  PROVE  TurnsAgree'
<1> USE GivenItems, ItemsOfOneTurn DEF IInv, TypeOK, TurnsAgree, Admitted, LateIsBackground
<1>1. ASSUME NEW t \in Turns, Submit(t) \/ Search(t) PROVE TurnsAgree'
  BY <1>1, Starting
<1>2. ASSUME NEW t \in Turns, WaitReturns(t) PROVE TurnsAgree'
  BY <1>2 DEF WaitReturns, TakeAnswers, Unfinished
<1>3. ASSUME NEW t \in Turns, Collect(t) PROVE TurnsAgree'
  BY Zenon, <1>3 DEF Collect, TakeAnswers, Unfinished
<1>4. ASSUME NEW t \in Turns, CancelTurn(t) PROVE TurnsAgree'
  BY Zenon, <1>4 DEF CancelTurn, Unfinished
<1>5. ASSUME NEW t \in Turns, Raise(t) PROVE TurnsAgree'
  BY Zenon, <1>5 DEF Raise
<1>6. ASSUME NEW i \in Items, TaskEnds(i) PROVE TurnsAgree'
  BY Zenon, <1>6 DEF TaskEnds
<1>7. ASSUME NEW i \in Items, TaskCallbacks(i) PROVE TurnsAgree'
  <2>1. \A j \in Items : answer'[j] = answer[j] \/ answer[j] = "background"
    BY Zenon, <1>7 DEF TaskCallbacks, StartCallback, LateDelivered
  <2> QED
    BY <1>7, <2>1 DEF TaskCallbacks
<1>8. CASE Shutdown
  BY Zenon, <1>8 DEF Shutdown, Interrupted
<1>9. CASE UNCHANGED <<task, turn, answer>>
  BY Zenon, <1>9
<1> QED
  BY Zenon, <1>1, <1>2, <1>3, <1>4, <1>5, <1>6, <1>7, <1>8, <1>9 DEF Next, vars, CallbackEnds, Cancel, Close

\* Every step leaves retained items in the background.
LEMMA LateStep ==
  ASSUME IInv, [Next]_vars
  PROVE  LateIsBackground'
<1> USE GivenItems, ItemsOfOneTurn DEF IInv, TypeOK, TurnsAgree, Admitted, LateIsBackground
<1>1. ASSUME NEW t \in Turns, Submit(t) \/ Search(t) PROVE LateIsBackground'
  BY <1>1, Starting
<1>2. ASSUME NEW t \in Turns, WaitReturns(t) PROVE LateIsBackground'
  BY <1>2 DEF WaitReturns, TakeAnswers, Unfinished
<1>3. ASSUME NEW t \in Turns, Collect(t) PROVE LateIsBackground'
  BY Zenon, <1>3 DEF Collect, TakeAnswers, Unfinished
<1>4. ASSUME NEW t \in Turns, CancelTurn(t) PROVE LateIsBackground'
  BY Zenon, <1>4 DEF CancelTurn, Unfinished
<1>5. ASSUME NEW i \in Items, TaskCallbacks(i) PROVE LateIsBackground'
  BY ZenonT(60), <1>5 DEF TaskCallbacks, StartCallback
<1>6. CASE Shutdown
  BY Zenon, <1>6 DEF Shutdown, Interrupted
<1>7. CASE Close
  BY Zenon, <1>7 DEF Close
<1>8. CASE UNCHANGED <<late, answer>>
  BY Zenon, <1>8
<1> QED
  BY Zenon, <1>1, <1>2, <1>3, <1>4, <1>5, <1>6, <1>7, <1>8 DEF Next, vars, Raise, TaskEnds, CallbackEnds, Cancel

\* The strengthened invariant holds initially and every step keeps it.
LEMMA CoordinatorInvariant == Spec => []IInv
<1>1. Init => IInv
  <2> SUFFICES ASSUME Init PROVE IInv
    BY Zenon
  <2>1. Live = {}
    BY Zenon DEF Init, Live, Running
  <2>2. LiveWork
    BY <2>1, FS_EmptySet, CoordinatorAssumption DEF Init, LiveWork
  <2> QED
    BY Zenon, <2>2, GivenItems DEF Init, IInv, TypeOK, TurnsAgree, LateIsBackground
<1>2. IInv /\ [Next]_vars => IInv'
  BY Zenon, TypeStep, LiveWorkStep, TurnsAgreeStep, LateStep DEF IInv
<1> QED
  BY <1>1, <1>2, PTL DEF Spec

-----------------------------------------------------------------------------
(* Results *)

\* Refusable background work never exceeds its limit, for any number of turns and
\* items and whatever is retained, delivered late, cancelled or shut down
\* (_has_background_capacity, start_task, retain_late_task).
THEOREM WithinCapacityAlways == Spec => []WithinCapacity
<1>1. IInv => WithinCapacity
  <2> SUFFICES ASSUME IInv PROVE WithinCapacity
    BY Zenon
  <2>1. /\ IsFiniteSet(Live) /\ owned \ mandatory \in SUBSET Live
        /\ Cardinality(Live) <= MaxBackgroundTasks
    BY Zenon DEF IInv, LiveWork
  <2>2. /\ IsFiniteSet(owned \ mandatory)
        /\ Cardinality(owned \ mandatory) <= Cardinality(Live)
    BY Zenon, <2>1, FS_Subset
  <2>3. Cardinality(owned \ mandatory) \in Nat /\ Cardinality(Live) \in Nat
    BY Zenon, <2>1, <2>2, FS_CardinalityType
  <2> QED
    BY <2>1, <2>2, <2>3, CoordinatorAssumption DEF WithinCapacity
<1> QED
  BY CoordinatorInvariant, <1>1, PTL

\* Every step of the coordinator is a step of the delivery promise, or leaves
\* what the turns were told alone.
LEMMA DeliveryStep ==
  ASSUME IInv, [Next]_vars
  PROVE  [Delivery!Next]_<<answer, shutdown # "open">>
<1>1. ASSUME NEW t \in Turns, Submit(t) \/ Search(t) PROVE Delivery!Next
  <2>1. PICK T \in SUBSET Given(t) :
          answer' = [i \in Items |-> IF i \in T THEN "working"
                                     ELSE IF i \in Given(t) THEN "answered" ELSE answer[i]]
    BY Zenon, <1>1, Starting
  <2>2. turn[t] = "new" /\ shutdown = "open" /\ UNCHANGED shutdown
    BY Zenon, <1>1, Starting
  <2>3. Delivery!Submit(Given(t), Given(t) \ T)
    BY Zenon, <2>1, <2>2, GivenItems DEF Delivery!Submit, IInv, TurnsAgree
  <2> QED
    BY Zenon, <2>3, GivenItems DEF Delivery!Next
<1> USE GivenItems DEF IInv, TypeOK, TurnsAgree, LateIsBackground, Admitted
<1>2. ASSUME NEW t \in Turns, turn[t] \in {"waiting", "yielding"}, UNCHANGED shutdown,
             TakeAnswers(t, Unfinished(t))
      PROVE  Delivery!Next
  <2>1. CASE shutdown = "open"
    <3>1. Delivery!Collect(Admitted(t), Unfinished(t))
      BY Zenon, <1>2, <2>1 DEF TakeAnswers, Unfinished, Delivery!Collect
    <3> QED
      BY Zenon, <3>1 DEF Unfinished, Delivery!Next
  <2>2. CASE shutdown # "open"
    <3>1. Delivery!Collect(Admitted(t), {})
      BY Zenon, <1>2, <2>2 DEF TakeAnswers, Delivery!Collect
    <3> QED
      BY Zenon, <3>1 DEF Delivery!Next
  <2> QED
    BY Zenon, <2>1, <2>2
<1>3. ASSUME NEW t \in Turns, CancelTurn(t) PROVE Delivery!Next \/ UNCHANGED <<answer, shutdown>>
  <2>1. CASE turn[t] = "gathering"
    BY Zenon, <1>3, <2>1 DEF CancelTurn
  <2>2. CASE turn[t] \in {"waiting", "yielding"}
    <3>1. Delivery!Drop(Admitted(t))
      BY Zenon, <1>3, <2>2 DEF CancelTurn, Delivery!Drop
    <3> QED
      BY Zenon, <3>1 DEF Delivery!Next
  <2> QED
    BY Zenon, <1>3, <2>1, <2>2 DEF CancelTurn
<1>4. ASSUME NEW i \in Items, TaskCallbacks(i) PROVE Delivery!Next \/ UNCHANGED <<answer, shutdown>>
  <2>1. CASE LateDelivered(i)
    <3>1. answer' = [answer EXCEPT ![i] = "delivered"] /\ UNCHANGED shutdown
      BY Zenon, <1>4, <2>1 DEF TaskCallbacks, StartCallback
    <3>2. Delivery!Deliver(i)
      BY Zenon, <2>1, <3>1 DEF LateDelivered, Delivery!Deliver
    <3> QED
      BY Zenon, <3>2 DEF Delivery!Next
  <2>2. CASE ~LateDelivered(i)
    BY Zenon, <1>4, <2>2 DEF TaskCallbacks
  <2> QED
    BY Zenon, <2>1, <2>2
<1>5. CASE Shutdown
  <2>1. answer' \in [Items -> Delivery!Answers] /\ shutdown = "open" /\ shutdown' # "open"
    BY Zenon, <1>5, TypeStep DEF Shutdown, Delivery!Answers
  <2>2. \A i \in Items : answer'[i] = answer[i] \/ (answer[i] = "working" /\ answer'[i] = "dropped")
    BY Zenon, <1>5 DEF Shutdown, Interrupted
  <2>3. Delivery!Close
    BY Zenon, <2>1, <2>2 DEF Delivery!Close
  <2> QED
    BY Zenon, <2>3 DEF Delivery!Next
<1>6. CASE UNCHANGED <<answer, shutdown # "open">>
  BY Zenon, <1>6
<1> QED
  BY Zenon, <1>1, <1>2, <1>3, <1>4, <1>5, <1>6 DEF Next, vars, WaitReturns, Collect, Raise, TaskEnds,
     CallbackEnds, Cancel, Close

\* The coordinator implements WorkDelivery: each item is answered in the
\* foreground or delivered late, once, and is dropped only with its turn or the
\* session (submit, retain_late_task, cancel, shutdown).
THEOREM ImplementsDelivery == Spec => KeepsDelivery
<1>1. Init => Delivery!Init
  BY Zenon DEF Init, Delivery!Init
<1> QED
  BY CoordinatorInvariant, DeliveryStep, <1>1, PTL DEF Spec, KeepsDelivery, Delivery!Spec

-----------------------------------------------------------------------------
(* Numbers and sequences of sequences. *)

\* A set of numbers that is not empty has a least one.
LEMMA LeastElement ==
  ASSUME NEW B, B \subseteq Nat, B # {}
  PROVE  \E m \in B : \A n \in B : m <= n
<1>1. PICK m \in B : \A n \in B : ~(<<n, m>> \in OpToRel(<, Nat))
  BY Zenon, NatLessThanWellFounded, WFMin
<1>2. ASSUME NEW n \in B PROVE m <= n
  <2>1. m \in Nat /\ n \in Nat
    BY Zenon
  <2>2. ~(n < m)
    BY Zenon, <1>1, <2>1 DEF OpToRel
  <2> QED
    BY <2>1, <2>2
<1> QED
  BY Zenon, <1>2

\* Induction, as a fact about a set of numbers.
LEMMA SetInduction ==
  ASSUME NEW T, 0 \in T, \A n \in Nat : n \in T => n + 1 \in T
  PROVE  \A n \in Nat : n \in T
<1> SUFFICES ASSUME \E n \in Nat : n \notin T PROVE FALSE
  BY Zenon
<1> DEFINE B == {n \in Nat : n \notin T}
<1>1. PICK m \in B : \A n \in B : m <= n
  BY Zenon, LeastElement
<1>2. m \in Nat /\ m # 0
  BY Zenon
<1>3. m - 1 \in Nat /\ m - 1 \notin B
  BY <1>1, <1>2
<1> QED
  BY <1>2, <1>3

\* f is the flattening of the first n sequences of s, length by length.
IsFlat(f, s, n) == f = [i \in 1..n |-> IF i = 1 THEN s[i] ELSE f[i - 1] \o s[i]]

\* There is one ...
LEMMA FlatExists ==
  ASSUME NEW s PROVE \A n \in Nat : \E f : IsFlat(f, s, n)
<1> DEFINE T == {n \in Nat : \E f : IsFlat(f, s, n)}
<1>1. 0 \in T
  <2>1. PICK f : f = [i \in 1..0 |-> s]
    BY Zenon
  <2>2. IsFlat(f, s, 0)
    BY <2>1 DEF IsFlat
  <2> QED
    BY Zenon, <2>2
<1>2. ASSUME NEW n \in Nat, n \in T PROVE n + 1 \in T
  <2>1. PICK f : IsFlat(f, s, n)
    BY Zenon, <1>2
  <2>2. PICK g : g = [i \in 1..(n + 1) |-> IF i = n + 1 THEN (IF i = 1 THEN s[i] ELSE f[n] \o s[i]) ELSE f[i]]
    BY Zenon
  <2>3. ASSUME NEW i \in 1..(n + 1) PROVE g[i] = IF i = 1 THEN s[i] ELSE g[i - 1] \o s[i]
    <3>1. CASE i = n + 1
      <4>1. g[i] = IF i = 1 THEN s[i] ELSE f[n] \o s[i]
        BY Zenon, <2>2, <3>1
      <4>2. i # 1 => g[i - 1] = f[n]
        BY <2>2, <3>1
      <4> QED
        BY Zenon, <4>1, <4>2
    <3>2. CASE i # n + 1
      <4>1. i \in 1..n /\ g[i] = f[i]
        BY <2>2, <3>2
      <4>2. f[i] = IF i = 1 THEN s[i] ELSE f[i - 1] \o s[i]
        BY Zenon, <2>1, <4>1 DEF IsFlat
      <4>3. i # 1 => g[i - 1] = f[i - 1]
        BY <2>2, <3>2
      <4> QED
        BY Zenon, <4>1, <4>2, <4>3
    <3> QED
      BY Zenon, <3>1, <3>2
  <2>4. g = [i \in 1..(n + 1) |-> g[i]]
    BY Zenon, <2>2
  <2>5. IsFlat(g, s, n + 1)
    BY Zenon, <2>3, <2>4 DEF IsFlat
  <2> QED
    BY <2>5
<1> HIDE DEF T
<1>3. \A n \in Nat : n \in T
  BY Zenon, <1>1, <1>2, SetInduction
<1> QED
  BY Zenon, <1>3 DEF T

\* s begins t, and f and g are their flattenings.
FlatWithin(f, s, m, g, t, n) ==
  /\ m \in Nat /\ n \in Nat /\ m <= n /\ \A i \in 1..m : s[i] = t[i]
  /\ IsFlat(f, s, m) /\ IsFlat(g, t, n)
SameUpTo(f, g, m) == \A i \in 1..m : f[i] = g[i]

\* ... and only one.
LEMMA FlatUnique ==
  ASSUME NEW f, NEW s, NEW m, NEW g, NEW t, NEW n, FlatWithin(f, s, m, g, t, n)
  PROVE  SameUpTo(f, g, m)
<1> USE DEF FlatWithin, SameUpTo
<1> DEFINE T == {i \in Nat : i \in 1..m => f[i] = g[i]}
<1>1. 0 \in T
  OBVIOUS
<1>2. ASSUME NEW i \in Nat, i \in T PROVE i + 1 \in T
  <2>1. CASE i + 1 \in 1..m
    <3>1. i + 1 \in 1..n /\ s[i + 1] = t[i + 1] /\ (i + 1) - 1 = i /\ (i + 1 # 1 => i \in 1..m)
      BY <2>1
    <3>2. f[i + 1] = IF i + 1 = 1 THEN s[i + 1] ELSE f[(i + 1) - 1] \o s[i + 1]
      BY Zenon, <2>1 DEF IsFlat
    <3>3. g[i + 1] = IF i + 1 = 1 THEN t[i + 1] ELSE g[(i + 1) - 1] \o t[i + 1]
      BY Zenon, <3>1 DEF IsFlat
    <3>4. i + 1 # 1 => f[i] = g[i]
      BY Zenon, <1>2, <3>1
    <3>5. f[i + 1] = g[i + 1]
      BY Zenon, <3>1, <3>2, <3>3, <3>4
    <3> QED
      BY <3>5
  <2>2. CASE i + 1 \notin 1..m
    BY <2>2
  <2> QED
    BY Zenon, <2>1, <2>2
<1> HIDE DEF T
<1>3. \A i \in Nat : i \in T
  BY Zenon, <1>1, <1>2, SetInduction
<1> QED
  BY <1>3 DEF T

\* It is a sequence of what the sequences hold.
LEMMA FlatType ==
  ASSUME NEW R, NEW s \in Seq(Seq(R)), NEW f, IsFlat(f, s, Len(s))
  PROVE  \A i \in 1..Len(s) : f[i] \in Seq(R)
<1> DEFINE T == {i \in Nat : i \in 1..Len(s) => f[i] \in Seq(R)}
<1>1. 0 \in T
  OBVIOUS
<1>2. ASSUME NEW i \in Nat, i \in T PROVE i + 1 \in T
  <2>1. CASE i + 1 \in 1..Len(s)
    <3>1. s[i + 1] \in Seq(R) /\ (i + 1) - 1 = i /\ (i + 1 # 1 => i \in 1..Len(s))
      BY <2>1
    <3>2. f[i + 1] = IF i + 1 = 1 THEN s[i + 1] ELSE f[(i + 1) - 1] \o s[i + 1]
      BY Zenon, <2>1 DEF IsFlat
    <3>3. f[i + 1] \in Seq(R)
      BY <1>2, <3>1, <3>2
    <3> QED
      BY <3>3
  <2>2. CASE i + 1 \notin 1..Len(s)
    BY <2>2
  <2> QED
    BY Zenon, <2>1, <2>2
<1> HIDE DEF T
<1>3. \A i \in Nat : i \in T
  BY Zenon, <1>1, <1>2, SetInduction
<1> QED
  BY <1>3 DEF T

\* What Said is.
LEMMA FlattenIs ==
  ASSUME NEW s, Len(s) \in Nat \ {0}
  PROVE  \E f : IsFlat(f, s, Len(s)) /\ Transcript!Said(s) = f[Len(s)]
<1> DEFINE f == CHOOSE f : IsFlat(f, s, Len(s))
<1>1. IsFlat(f, s, Len(s))
  BY Zenon, FlatExists
<1>2. Transcript!Said(s) = f[Len(s)]
  BY Zenon DEF Transcript!Said, IsFlat
<1> QED
  BY Zenon, <1>1, <1>2

\* A turn more is flattened behind the others.
LEMMA FlattenAppend ==
  ASSUME NEW R, NEW s \in Seq(Seq(R)), NEW x \in Seq(R)
  PROVE  /\ Transcript!Said(s) \in Seq(R)
         /\ Transcript!Said(Append(s, x)) = Transcript!Said(s) \o x
<1>1. PICK t : t = Append(s, x)
  BY ZenonT(60)
<1>2. /\ t \in Seq(Seq(R)) /\ Len(t) = Len(s) + 1 /\ Len(s) \in Nat /\ t[Len(t)] = x
      /\ \A i \in 1..Len(s) : s[i] = t[i]
  BY <1>1
<1>3. PICK g : IsFlat(g, t, Len(t)) /\ Transcript!Said(t) = g[Len(t)]
  BY SMTT(30), <1>2, FlattenIs
<1>4. g[Len(t)] = IF Len(t) = 1 THEN t[Len(t)] ELSE g[Len(t) - 1] \o t[Len(t)]
  <2>1. Len(t) \in 1..Len(t)
    BY <1>2
  <2> QED
    BY Zenon, <1>3, <2>1 DEF IsFlat
<1>5. CASE Len(s) = 0
  <2>1. s = <<>> /\ Transcript!Said(s) = s
    BY <1>5 DEF Transcript!Said
  <2>2. g[Len(t)] = x
    BY <1>2, <1>4, <1>5
  <2>3. s \in Seq(R) /\ s \o x = x
    BY <2>1
  <2> QED
    BY Zenon, <1>1, <1>3, <2>1, <2>2, <2>3
<1>6. CASE Len(s) # 0
  <2>1. PICK f : IsFlat(f, s, Len(s)) /\ Transcript!Said(s) = f[Len(s)]
    BY Zenon, <1>2, <1>6, FlattenIs
  <2>2. \A i \in 1..Len(s) : f[i] = g[i]
    <3>1. Len(s) \in Nat /\ Len(t) \in Nat /\ Len(s) <= Len(t)
      BY <1>2
    <3>2. \A i \in 1..Len(s) : s[i] = t[i]
      BY Zenon, <1>2
    <3>3. IsFlat(f, s, Len(s)) /\ IsFlat(g, t, Len(t))
      BY Zenon, <1>3, <2>1
    <3>4. FlatWithin(f, s, Len(s), g, t, Len(t))
      BY Zenon, <3>1, <3>2, <3>3 DEF FlatWithin
    <3>5. SameUpTo(f, g, Len(s))
      BY Zenon, <3>4, FlatUnique
    <3> QED
      BY Zenon, <3>5 DEF SameUpTo
  <2>3. Len(s) \in 1..Len(s) /\ Len(t) # 1 /\ Len(t) - 1 = Len(s)
    BY <1>2, <1>6
  <2>4. f[Len(s)] \in Seq(R)
    BY Zenon, <2>1, <2>3, FlatType
  <2> QED
    BY Zenon, <1>1, <1>2, <1>3, <1>4, <2>1, <2>2, <2>3, <2>4
<1> QED
  BY Zenon, <1>5, <1>6

-----------------------------------------------------------------------------
(* The transcript processor. *)

\* Before the end of the pipeline and cleanup, with room for every segment.
InService == ~pipelineEnded /\ closing = "no" /\ MaxChars >= 3 * MaxSegments

\* A segment with what is kept of it.
Fragment == [of : Nat, kept : Int]

\* The variables that carry text, and the counters.
TextTypes ==
  /\ spoken \in Nat /\ heard \in Nat /\ heard <= spoken /\ spoken <= MaxSegments
  /\ chars \in Int
  /\ fragments \in Seq(Fragment)
  /\ text \in [Transcript!Tasks -> Seq(Fragment)]
  /\ created \in Seq(Seq(Fragment)) /\ routed \in Seq(Seq(Fragment))

\* The completion tasks.
TaskTypes ==
  /\ completion \in [Transcript!Tasks -> {"none", "grace", "slot", "push", "done"}]
  /\ completionTask \in Transcript!Tasks \cup {0}
  /\ lane \in Transcript!Tasks \cup {0}
  /\ committed \in BOOLEAN

\* The current completion is the only one that has a turn in hand or will take one:
\* every other one is over or cancelled, and the boundary lane awaits one that has
\* committed, to arm a new one.
OneCompletion ==
  /\ \A t \in Transcript!Tasks :
       /\ completion[t] = "grace" /\ t \notin dropped => completionTask = t /\ ~committed
       /\ completion[t] \in {"slot", "push"} => completionTask = t /\ committed
       /\ t \in dropped => completion[t] \in {"grace", "done"} /\ completionTask # t
  /\ lane # 0 =>
       /\ \E t \in Transcript!Tasks : completion[t] = "none"
       /\ \/ completionTask = lane /\ committed /\ completion[lane] \in {"slot", "push"}
          \/ completionTask = 0 /\ ~committed

\* The transcripts take three characters each at most, a separator included.
CharsCounted == chars <= 3 * heard

\* h holds the segments 1 to n.
Numbered(h, n) == Len(h) = n /\ \A i \in 1..n : h[i].of = i

\* The inductive invariant, until the pipeline ends.
AllInLine == Numbered(Transcript!Heard, heard)
TranscriptInv == InService => TextTypes /\ TaskTypes /\ OneCompletion /\ CharsCounted /\ AllInLine

\* What is in line is a sequence of segments.
LEMMA WaitingType ==
  ASSUME TextTypes, TaskTypes PROVE Transcript!Waiting \in Seq(Fragment)
<1>1. <<>> \in Seq(Fragment)
  OBVIOUS
<1> QED
  BY Zenon, <1>1 DEF Transcript!Waiting, TextTypes, TaskTypes

\* So is what was heard.
LEMMA LineType ==
  ASSUME TextTypes, TaskTypes
  PROVE  /\ routed \o created \in Seq(Seq(Fragment))
         /\ Transcript!Said(routed \o created) \in Seq(Fragment)
         /\ Transcript!Waiting \in Seq(Fragment) /\ Transcript!Heard \in Seq(Fragment)
<1>1. routed \o created \in Seq(Seq(Fragment)) /\ <<>> \in Seq(Fragment)
  BY DEF TextTypes
<1>2. Transcript!Said(routed \o created) \in Seq(Fragment)
  BY Zenon, <1>1, FlattenAppend
<1>3. Transcript!Waiting \in Seq(Fragment) /\ fragments \in Seq(Fragment)
  BY Zenon, WaitingType DEF TextTypes
<1>4. Transcript!Heard \in Seq(Fragment)
  BY <1>2, <1>3 DEF Transcript!Heard
<1> QED
  BY Zenon, <1>1, <1>2, <1>3, <1>4

\* Concatenation is associative.
Regroups(a, b, c) == (a \o b) \o c = a \o (b \o c)

\* Concatenation may be regrouped (Regroups).
LEMMA Associative ==
  ASSUME NEW R, NEW a \in Seq(R), NEW b \in Seq(R), NEW c \in Seq(R)
  PROVE  Regroups(a, b, c)
  BY DEF Regroups

\* It gives a sequence of the same kind, and the empty one changes nothing.
LEMMA Joins ==
  ASSUME NEW R, NEW a \in Seq(R), NEW b \in Seq(R)
  PROVE  a \o b \in Seq(R) /\ a \o <<>> = a /\ <<>> \o a = a
  OBVIOUS

\* Every step but a transcription leaves what was heard as it was.
LEMMA HeardKept ==
  ASSUME TextTypes, TaskTypes, NEW w, w \in Seq(Fragment), NEW v, v \in Seq(Fragment), NEW x \in Seq(Fragment),
         NEW y \in Seq(Fragment),
         Transcript!Waiting = w, Transcript!Waiting' = v, fragments' = y,
         routed' \o created' \in {routed \o created, Append(routed \o created, x)},
         IF routed' \o created' = routed \o created THEN w \o fragments = v \o y
                                                   ELSE w \o fragments = x \o (v \o y)
  PROVE  Transcript!Heard' = Transcript!Heard
<1>1. PICK a : a = Transcript!Said(routed \o created)
  BY Zenon
<1>2. a \in Seq(Fragment) /\ routed \o created \in Seq(Seq(Fragment)) /\ fragments \in Seq(Fragment)
  BY Zenon, <1>1, LineType DEF TextTypes
<1>3. Transcript!Heard = a \o (w \o fragments)
  <2>1. Transcript!Heard = (a \o w) \o fragments
    BY Zenon, <1>1 DEF Transcript!Heard
  <2>2. Regroups(a, w, fragments)
    BY Zenon, <1>2, Associative
  <2> QED
    BY Zenon, <2>1, <2>2 DEF Regroups
<1>4. CASE routed' \o created' = routed \o created
  <2>1. Transcript!Heard' = (a \o v) \o y
    BY Zenon, <1>1, <1>4 DEF Transcript!Heard
  <2>2. Regroups(a, v, y)
    BY Zenon, <1>2, Associative
  <2> QED
    BY Zenon, <1>3, <1>4, <2>1, <2>2 DEF Regroups
<1>5. CASE routed' \o created' # routed \o created
  <2>1. Transcript!Said(Append(routed \o created, x)) = a \o x
    BY Zenon, <1>1, <1>2, FlattenAppend
  <2>2. Transcript!Heard' = ((a \o x) \o v) \o y
    BY Zenon, <1>5, <2>1 DEF Transcript!Heard
  <2>3. ((a \o x) \o v) \o y = a \o (x \o (v \o y))
    <3>1. a \o x \in Seq(Fragment) /\ v \o y \in Seq(Fragment)
      BY Zenon, <1>2, Joins
    <3>2. Regroups(a \o x, v, y)
      BY Zenon, <3>1, Associative
    <3>3. Regroups(a, x, v \o y)
      BY Zenon, <1>2, <3>1, Associative
    <3> QED
      BY Zenon, <3>2, <3>3 DEF Regroups
  <2> QED
    BY Zenon, <1>3, <1>5, <2>2, <2>3
<1> QED
  BY Zenon, <1>4, <1>5

\* A step that leaves the text, and who waits for a slot, alone.
LEMMA TextKept ==
  ASSUME TextTypes, CharsCounted, AllInLine, spoken' \in Nat, spoken <= spoken', spoken' <= MaxSegments,
         UNCHANGED <<heard, chars, fragments, text, created, routed>>, Transcript!Waiting' = Transcript!Waiting
  PROVE  TextTypes' /\ CharsCounted' /\ AllInLine'
<1>3. Transcript!Heard' = Transcript!Heard
  BY Zenon DEF Transcript!Heard
<1>4. AllInLine'
  BY Zenon, <1>3 DEF AllInLine, Numbered
<1>5. heard' <= spoken'
  BY DEF TextTypes
<1>6. TextTypes' /\ CharsCounted'
  BY Zenon, <1>5 DEF TextTypes, CharsCounted, Transcript!Tasks
<1> QED
  BY Zenon, <1>4, <1>6

\* The constants.
LEMMA TurnConstants ==
  /\ MaxSegments \in Nat /\ MaxStops \in Nat /\ MaxChars \in Nat \ {0}
  /\ 0 \notin Transcript!Tasks
<1>1. MaxSegments \in Nat /\ MaxStops \in Nat /\ MaxChars \in Nat \ {0}
  BY Zenon, WorkAssumption DEF Transcript!TurnAssumption
<1> QED
  BY <1>1 DEF Transcript!Tasks

\* What a transcription appends.
LEMMA Appended ==
  ASSUME TextTypes, CharsCounted, MaxChars >= 3 * MaxSegments, heard < spoken,
         Transcript!Append_fragment(heard + 1)
  PROVE  \E k \in Int : /\ fragments' = Append(fragments, [of |-> heard + 1, kept |-> k])
                        /\ chars' \in Int /\ chars' <= chars + 3
<1>1. /\ heard \in Nat /\ spoken \in Nat /\ chars \in Int /\ MaxChars \in Nat
      /\ MaxSegments \in Nat /\ spoken <= MaxSegments /\ chars <= 3 * heard
  BY Zenon, TurnConstants DEF TextTypes, CharsCounted
<1>2. PICK sep : sep = Transcript!Separator
  BY Zenon
<1>3. sep \in {0, 1}
  BY Zenon, <1>2 DEF Transcript!Separator
<1>4. PICK c : c = Transcript!Chars(heard + 1)
  BY Zenon
<1>5. c \in {1, 2}
  <2>1. heard + 1 \in Nat
    BY <1>1
  <2> QED
    BY <1>4, <2>1 DEF Transcript!Chars
<1>6. PICK k : k = IF c <= (MaxChars - chars) - sep THEN c ELSE (MaxChars - chars) - sep
  BY Zenon
<1>7. k \in Int /\ k <= 2
  BY <1>1, <1>3, <1>5, <1>6
<1>8. ~(MaxChars - chars <= sep)
  BY <1>1, <1>3
<1>9. /\ fragments' = Append(fragments, [of |-> heard + 1, kept |-> k])
      /\ chars' = chars + sep + k
  BY Zenon, <1>2, <1>4, <1>6, <1>8 DEF Transcript!Append_fragment
<1>10. chars' \in Int /\ chars' <= chars + 3
  BY <1>1, <1>3, <1>7, <1>9
<1> QED
  BY Zenon, <1>7, <1>9, <1>10

\* A segment is transcribed: it is the next one.
LEMMA TranscriptionStep ==
  ASSUME InService, TextTypes, TaskTypes, OneCompletion, CharsCounted, AllInLine, Transcript!Transcription
  PROVE  TextTypes' /\ TaskTypes' /\ OneCompletion' /\ CharsCounted' /\ AllInLine'
<1>1. /\ heard < spoken /\ heard' = heard + 1 /\ Transcript!Append_fragment(heard + 1)
      /\ UNCHANGED <<spoken, completion, text, dropped, completionTask, committed, lane, created, routed>>
  BY Zenon DEF Transcript!Transcription, Transcript!completions, Transcript!slots
<1>2. PICK k \in Int : /\ fragments' = Append(fragments, [of |-> heard + 1, kept |-> k])
                       /\ chars' \in Int /\ chars' <= chars + 3
  BY Zenon, <1>1, Appended DEF InService
<1>3. TaskTypes' /\ OneCompletion'
  BY Zenon, <1>1 DEF TaskTypes, OneCompletion, Transcript!Tasks
<1>4. PICK x : x = [of |-> heard + 1, kept |-> k]
  BY Zenon
<1>5. heard \in Nat /\ heard + 1 \in Nat /\ spoken \in Nat /\ heard + 1 <= spoken
  BY <1>1 DEF TextTypes
<1>6. x \in Fragment /\ x.of = heard + 1
  BY Zenon, <1>4, <1>5 DEF Fragment
<1>7. fragments' \in Seq(Fragment)
  BY <1>2, <1>4, <1>6 DEF TextTypes
<1>8. TextTypes'
  BY Zenon, <1>1, <1>2, <1>5, <1>7 DEF TextTypes, Transcript!Tasks
<1>9. CharsCounted'
  <2>1. chars \in Int /\ chars <= 3 * heard
    BY Zenon DEF TextTypes, CharsCounted
  <2> QED
    BY <1>1, <1>2, <1>5, <2>1 DEF CharsCounted
<1>10. PICK a : a = Transcript!Said(routed \o created) \o Transcript!Waiting
  BY Zenon
<1>11. a \in Seq(Fragment) /\ fragments \in Seq(Fragment)
  <2>1. Transcript!Said(routed \o created) \in Seq(Fragment) /\ Transcript!Waiting \in Seq(Fragment)
    BY Zenon, LineType
  <2> QED
    BY <1>10, <2>1 DEF TextTypes
<1>12. Transcript!Heard = a \o fragments
  BY Zenon, <1>10 DEF Transcript!Heard
<1>13. Transcript!Heard' = a \o Append(fragments, x)
  <2>1. Transcript!Waiting' = Transcript!Waiting
    BY Zenon, <1>1 DEF Transcript!Waiting, Transcript!Tasks
  <2> QED
    BY Zenon, <1>1, <1>2, <1>4, <1>10, <2>1 DEF Transcript!Heard
<1>14. PICK h : h = Transcript!Heard
  BY Zenon
<1>15. PICK g : g = Transcript!Heard'
  BY Zenon
<1>16. h \in Seq(Fragment) /\ Len(h) = heard /\ \A i \in 1..heard : h[i].of = i
  <2>1. Transcript!Heard \in Seq(Fragment)
    BY Zenon, LineType
  <2> QED
    BY Zenon, <1>14, <2>1 DEF AllInLine, Numbered
<1>17. g = Append(h, x)
  <2>1. g = a \o Append(fragments, x) /\ h = a \o fragments
    BY Zenon, <1>12, <1>13, <1>14, <1>15
  <2> QED
    BY <1>6, <1>11, <2>1
<1>18. Len(g) = heard + 1 /\ \A i \in 1..(heard + 1) : g[i].of = i
  BY <1>5, <1>6, <1>16, <1>17
<1>19. AllInLine'
  BY Zenon, <1>1, <1>15, <1>18 DEF AllInLine, Numbered
<1> QED
  BY Zenon, <1>3, <1>8, <1>9, <1>19

\* The user speaks.
LEMMA SpeakStep ==
  ASSUME InService, TextTypes, TaskTypes, OneCompletion, CharsCounted, AllInLine, Transcript!Speak
  PROVE  TextTypes' /\ TaskTypes' /\ OneCompletion' /\ CharsCounted' /\ AllInLine'
<1>1. /\ spoken < MaxSegments /\ spoken' = spoken + 1
      /\ UNCHANGED <<heard, chars, fragments, text, created, routed, completion, dropped, completionTask,
                     committed, lane>>
  BY Zenon DEF Transcript!Speak, Transcript!completions, Transcript!slots, Transcript!buffer
<1>2. spoken' \in Nat /\ spoken <= spoken' /\ spoken' <= MaxSegments
  BY <1>1, TurnConstants DEF TextTypes
<1>3. TaskTypes' /\ OneCompletion'
  BY Zenon, <1>1 DEF TaskTypes, OneCompletion, Transcript!Tasks
<1>4. Transcript!Waiting' = Transcript!Waiting
  BY Zenon, <1>1 DEF Transcript!Waiting
<1> QED
  BY Zenon, <1>1, <1>2, <1>3, <1>4, TextKept

\* A dispatch starts or ends: the turns in line are the same.
LEMMA DispatchStep ==
  ASSUME InService, TextTypes, TaskTypes, OneCompletion, CharsCounted, AllInLine,
         Transcript!DispatchStarts \/ Transcript!DispatchEnds
  PROVE  TextTypes' /\ TaskTypes' /\ OneCompletion' /\ CharsCounted' /\ AllInLine'
<1>1. UNCHANGED <<spoken, heard, chars, fragments, text, completion, dropped, completionTask, committed, lane>>
  BY Zenon DEF Transcript!DispatchStarts, Transcript!DispatchEnds, Transcript!completions,
               Transcript!buffer, Transcript!input
<1>2. TaskTypes' /\ OneCompletion'
  BY Zenon, <1>1 DEF TaskTypes, OneCompletion, Transcript!Tasks
<1>3. /\ created' \in Seq(Seq(Fragment)) /\ routed' \in Seq(Seq(Fragment))
      /\ routed' \o created' = routed \o created
  <2>1. created \in Seq(Seq(Fragment)) /\ routed \in Seq(Seq(Fragment))
    BY Zenon DEF TextTypes
  <2>2. CASE Transcript!DispatchStarts
    <3>1. created # <<>> /\ routed' = Append(routed, Head(created)) /\ created' = Tail(created)
      BY Zenon, <2>2 DEF Transcript!DispatchStarts
    <3> QED
      BY SMTT(30), <2>1, <3>1
  <2>3. CASE Transcript!DispatchEnds
    BY Zenon, <2>1, <2>3 DEF Transcript!DispatchEnds
  <2> QED
    BY Zenon, <2>2, <2>3
<1>4. Transcript!Heard' = Transcript!Heard
  <2>1. Transcript!Waiting' = Transcript!Waiting
    BY Zenon, <1>1 DEF Transcript!Waiting, Transcript!Tasks
  <2> QED
    BY Zenon, <1>1, <1>3, <2>1 DEF Transcript!Heard
<1>5. TextTypes' /\ CharsCounted' /\ AllInLine'
  BY Zenon, <1>1, <1>3, <1>4 DEF TextTypes, CharsCounted, AllInLine, Numbered, Transcript!Tasks
<1> QED
  BY Zenon, <1>2, <1>5

\* A step that changes no text.
Untexted == UNCHANGED <<spoken, heard, chars, fragments, text, created, routed>>

\* A completion that has committed and is alive has a turn in hand.
LEMMA CommittedHasTurn ==
  ASSUME TaskTypes, OneCompletion, completionTask # 0, committed, Transcript!Alive(completionTask)
  PROVE  completionTask \in Transcript!Tasks /\ completion[completionTask] \in {"slot", "push"}
<1>1. completionTask \in Transcript!Tasks
  BY Zenon DEF TaskTypes
<1>2. completion[completionTask] # "grace"
  BY Zenon, <1>1 DEF OneCompletion
<1> QED
  BY Zenon, <1>1, <1>2 DEF Transcript!Alive

\* A new completion task: none other is left that could take a turn.
LEMMA ArmStep ==
  ASSUME TaskTypes, OneCompletion, Transcript!Fresh # {}, NEW c, Transcript!Arm(c), c \subseteq dropped \cup {completionTask},
         c \subseteq Transcript!Tasks, \A t \in c : completion[t] = "grace",
         \A t \in Transcript!Tasks : completion[t] \in {"slot", "push"} => FALSE,
         \A t \in Transcript!Tasks : completion[t] = "grace" => t \in dropped \cup c,
         committed' = FALSE, lane' = 0
  PROVE  TaskTypes' /\ OneCompletion'
<1>1. PICK u : u = CHOOSE w \in Transcript!Fresh : \A v \in Transcript!Fresh : w <= v
  BY Zenon
<1>2. u \in Transcript!Tasks /\ completion[u] = "none"
  <2>1. \E m \in Transcript!Fresh : \A v \in Transcript!Fresh : m <= v
    <3>1. Transcript!Fresh \subseteq Nat
      BY DEF Transcript!Fresh, Transcript!Tasks
    <3> QED
      BY Zenon, <3>1, LeastElement
  <2>2. u \in Transcript!Fresh
    BY Zenon, <1>1, <2>1
  <2> QED
    BY Zenon, <2>2 DEF Transcript!Fresh
<1>3. /\ completion' = [completion EXCEPT ![u] = "grace"] /\ completionTask' = u
      /\ dropped' = dropped \cup c
  BY Zenon, <1>1 DEF Transcript!Arm
<1>4. TaskTypes'
  BY Zenon, <1>2, <1>3 DEF TaskTypes, Transcript!Tasks
<1>5. u \notin dropped'
  BY Zenon, <1>2, <1>3 DEF OneCompletion
<1>6. /\ completion'[u] = "grace"
      /\ \A t \in Transcript!Tasks \ {u} : completion'[t] = completion[t]
  BY Zenon, <1>2, <1>3 DEF TaskTypes
<1>7. ASSUME NEW t \in Transcript!Tasks
      PROVE  /\ completion'[t] = "grace" /\ t \notin dropped' => completionTask' = t /\ ~committed'
             /\ completion'[t] \in {"slot", "push"} => completionTask' = t /\ committed'
             /\ t \in dropped' => completion'[t] \in {"grace", "done"} /\ completionTask' # t
  <2>1. CASE t = u
    BY Zenon, <1>3, <1>5, <1>6, <2>1
  <2>2. CASE t # u
    <3>1. completion'[t] = completion[t]
      BY Zenon, <1>6, <2>2
    <3>2. t \in dropped => completion[t] \in {"grace", "done"}
      BY Zenon DEF OneCompletion
    <3>3. completion[t] = "grace" => t \in dropped'
      BY Zenon, <1>3
    <3> QED
      BY Zenon, <1>3, <2>2, <3>1, <3>2, <3>3
  <2> QED
    BY Zenon, <2>1, <2>2
<1>8. OneCompletion'
  BY Zenon, <1>7 DEF OneCompletion, Transcript!Tasks
<1> QED
  BY Zenon, <1>4, <1>8

\* Untexted steps.
LEMMA UntextedStep ==
  ASSUME TextTypes, CharsCounted, AllInLine, Untexted, Transcript!Waiting' = Transcript!Waiting
  PROVE  TextTypes' /\ CharsCounted' /\ AllInLine'
<1>1. spoken' \in Nat /\ spoken <= spoken' /\ spoken' <= MaxSegments
  BY DEF TextTypes, Untexted
<1> QED
  BY Zenon, <1>1, TextKept DEF Untexted

\* Nothing waits unless the current completion does.
LEMMA NothingWaits ==
  ASSUME TaskTypes, OneCompletion, completionTask = 0 \/ ~committed PROVE Transcript!Waiting = <<>>
<1>1. ASSUME completionTask # 0, completion[completionTask] = "slot" PROVE FALSE
  <2>1. completionTask \in Transcript!Tasks /\ ~committed
    BY Zenon, <1>1 DEF TaskTypes
  <2> QED
    BY Zenon, <1>1, <2>1 DEF OneCompletion
<1> QED
  BY Zenon, <1>1 DEF Transcript!Waiting

\* Speech starts or resumes.
LEMMA StartedStep ==
  ASSUME TextTypes, TaskTypes, OneCompletion, CharsCounted, AllInLine, Transcript!Started
  PROVE  TextTypes' /\ TaskTypes' /\ OneCompletion' /\ CharsCounted' /\ AllInLine'
<1>1. /\ lane = 0 /\ lane' = 0 /\ Transcript!Resume
      /\ UNCHANGED <<spoken, heard, chars, fragments, created, routed>>
  BY Zenon DEF Transcript!Started, Transcript!buffer, Transcript!slots
<1>2. CASE completionTask # 0 /\ ~committed
  <2>1. /\ dropped' = (IF Transcript!Alive(completionTask) THEN dropped \cup {completionTask} ELSE dropped)
        /\ completionTask' = 0 /\ committed' = FALSE /\ completion' = completion /\ text' = text
    BY Zenon, <1>1, <1>2 DEF Transcript!Resume, Transcript!CancelCompletion
  <2>2. completionTask \in Transcript!Tasks /\ completionTask # 0
    BY Zenon, <1>2 DEF TaskTypes
  <2>3. TaskTypes'
    BY Zenon, <1>1, <2>1 DEF TaskTypes, Transcript!Tasks
  <2>4. ASSUME NEW t \in Transcript!Tasks
        PROVE  /\ completion'[t] = "grace" /\ t \notin dropped' => FALSE
               /\ completion'[t] \in {"slot", "push"} => FALSE
               /\ t \in dropped' => completion'[t] \in {"grace", "done"} /\ completionTask' # t
    <3>1. t # 0
      BY Zenon, TurnConstants
    <3>2. completion[t] \in {"slot", "push"} => FALSE
      BY Zenon, <1>2 DEF OneCompletion
    <3>3. completion[t] = "grace" /\ t \notin dropped => t \in dropped'
      BY Zenon, <2>1 DEF OneCompletion, Transcript!Alive
    <3>4. t \in dropped' => completion[t] \in {"grace", "done"}
      BY Zenon, <2>1, <3>2 DEF OneCompletion, Transcript!Alive
    <3>5. dropped \subseteq dropped'
      BY Zenon, <2>1
    <3> QED
      BY Zenon, <2>1, <3>1, <3>2, <3>3, <3>4, <3>5
  <2>5. OneCompletion'
    BY Zenon, <1>1, <2>4 DEF OneCompletion, Transcript!Tasks
  <2>6. Transcript!Waiting' = Transcript!Waiting
    BY Zenon, <1>2, <2>1, NothingWaits DEF Transcript!Waiting
  <2> QED
    BY Zenon, <1>1, <2>1, <2>3, <2>5, <2>6, UntextedStep DEF Untexted
<1>3. CASE ~(completionTask # 0 /\ ~committed)
  <2>1. UNCHANGED <<completion, text, dropped, completionTask, committed>>
    BY Zenon, <1>1, <1>3 DEF Transcript!Resume, Transcript!completions
  <2>2. TaskTypes' /\ OneCompletion'
    BY Zenon, <1>1, <2>1 DEF TaskTypes, OneCompletion, Transcript!Tasks
  <2>3. Transcript!Waiting' = Transcript!Waiting
    BY Zenon, <2>1 DEF Transcript!Waiting
  <2> QED
    BY Zenon, <1>1, <2>1, <2>2, <2>3, UntextedStep DEF Untexted
<1> QED
  BY Zenon, <1>2, <1>3

\* A completion that was armed has nothing to dispatch.
LEMMA ArmedWaits ==
  ASSUME TaskTypes', OneCompletion', committed' = FALSE PROVE Transcript!Waiting' = <<>>
<1>1. ASSUME completionTask' # 0, completion'[completionTask'] = "slot" PROVE FALSE
  <2>1. completionTask' \in Transcript!Tasks
    BY Zenon, <1>1 DEF TaskTypes, Transcript!Tasks
  <2> QED
    BY Zenon, <1>1, <2>1 DEF OneCompletion, Transcript!Tasks
<1> QED
  BY Zenon, <1>1 DEF Transcript!Waiting

\* A semantic stop: the committed completion is awaited, or a new one armed.
LEMMA StoppedStep ==
  ASSUME TextTypes, TaskTypes, OneCompletion, CharsCounted, AllInLine, Transcript!Stopped
  PROVE  TextTypes' /\ TaskTypes' /\ OneCompletion' /\ CharsCounted' /\ AllInLine'
<1>1. /\ lane = 0 /\ Transcript!Fresh # {}
      /\ UNCHANGED <<spoken, heard, chars, fragments, created, routed>>
  BY Zenon DEF Transcript!Stopped, Transcript!buffer, Transcript!slots
<1>2. CASE completionTask # 0 /\ Transcript!Alive(completionTask) /\ committed
  <2>1. lane' = completionTask /\ UNCHANGED <<completion, text, dropped, completionTask, committed>>
    BY Zenon, <1>2 DEF Transcript!Stopped, Transcript!completions
  <2>2. completionTask \in Transcript!Tasks /\ completion[completionTask] \in {"slot", "push"}
    BY Zenon, <1>2, CommittedHasTurn
  <2>3. TaskTypes' /\ OneCompletion'
    BY Zenon, <1>1, <1>2, <2>1, <2>2 DEF TaskTypes, OneCompletion, Transcript!Tasks, Transcript!Fresh
  <2>4. Transcript!Waiting' = Transcript!Waiting
    BY Zenon, <2>1 DEF Transcript!Waiting
  <2> QED
    BY Zenon, <1>1, <2>1, <2>3, <2>4, UntextedStep DEF Untexted
<1>3. CASE ~(completionTask # 0 /\ Transcript!Alive(completionTask) /\ committed)
  <2>1. PICK c : c = {completionTask} \cap {t \in Transcript!Tasks : Transcript!Alive(t)}
    BY Zenon
  <2>2. Transcript!Arm(c) /\ committed' = FALSE /\ lane' = 0 /\ text' = text
    BY Zenon, <1>1, <1>3, <2>1 DEF Transcript!Stopped, Transcript!Arm
  <2>3. \A t \in Transcript!Tasks : completion[t] \in {"slot", "push"} => FALSE
    <3>1. ASSUME NEW t \in Transcript!Tasks, completion[t] \in {"slot", "push"} PROVE FALSE
      <4>1. completionTask = t /\ committed /\ t # 0
        BY Zenon, <3>1, TurnConstants DEF OneCompletion
      <4> QED
        BY Zenon, <1>3, <3>1, <4>1 DEF Transcript!Alive
    <3> QED
      BY Zenon, <3>1
  <2>4. c \subseteq dropped \cup {completionTask} /\ c \subseteq Transcript!Tasks
    BY Zenon, <2>1
  <2>5. \A t \in c : completion[t] = "grace"
    BY Zenon, <2>1, <2>3 DEF Transcript!Alive
  <2>6. \A t \in Transcript!Tasks : completion[t] = "grace" => t \in dropped \cup c
    BY Zenon, <2>1 DEF OneCompletion, Transcript!Alive
  <2>7. TaskTypes' /\ OneCompletion'
    BY Zenon, <1>1, <2>2, <2>3, <2>4, <2>5, <2>6, ArmStep
  <2>8. Transcript!Waiting = <<>>
    <3>1. ASSUME completionTask # 0, completion[completionTask] = "slot" PROVE FALSE
      BY Zenon, <2>3, <3>1 DEF TaskTypes
    <3> QED
      BY Zenon, <3>1 DEF Transcript!Waiting
  <2>9. Transcript!Waiting' = Transcript!Waiting
    BY Zenon, <2>2, <2>7, <2>8, ArmedWaits
  <2> QED
    BY Zenon, <1>1, <2>2, <2>7, <2>9, UntextedStep DEF Untexted
<1> QED
  BY Zenon, <1>2, <1>3

\* The awaited completion is over, and the stop that waited arms its own.
LEMMA JoinedStep ==
  ASSUME InService, TextTypes, TaskTypes, OneCompletion, CharsCounted, AllInLine, Transcript!Joined
  PROVE  TextTypes' /\ TaskTypes' /\ OneCompletion' /\ CharsCounted' /\ AllInLine'
<1>1. /\ lane # 0 /\ ~Transcript!Alive(lane) /\ lane' = 0 /\ text' = text
      /\ UNCHANGED <<spoken, heard, chars, fragments, created, routed>>
      /\ \/ UNCHANGED <<completion, dropped, completionTask, committed>>
         \/ Transcript!Arm({}) /\ committed' = committed
  BY Zenon DEF Transcript!Joined, Transcript!input, Transcript!buffer, Transcript!slots, Transcript!completions,
               Transcript!Arm
<1>2. completionTask = 0 /\ committed = FALSE /\ Transcript!Fresh # {}
  <2>1. Transcript!Fresh # {}
    BY Zenon, <1>1 DEF OneCompletion, Transcript!Fresh
  <2>2. completion[lane] \notin {"slot", "push"}
    BY Zenon, <1>1 DEF Transcript!Alive
  <2> QED
    BY Zenon, <1>1, <2>1, <2>2 DEF OneCompletion, TaskTypes
<1>3. Transcript!Waiting = <<>>
  BY Zenon, <1>2, NothingWaits
<1>4. TaskTypes' /\ OneCompletion'
  <2>1. CASE UNCHANGED <<completion, dropped, completionTask, committed>>
    BY Zenon, <1>1, <2>1 DEF TaskTypes, OneCompletion, Transcript!Tasks
  <2>2. CASE Transcript!Arm({}) /\ committed' = committed
    <3>1. \A t \in Transcript!Tasks : completion[t] \in {"slot", "push"} => FALSE
      BY Zenon, <1>2 DEF OneCompletion
    <3>2. \A t \in Transcript!Tasks : completion[t] = "grace" => t \in dropped \cup {}
      BY Zenon, <1>2, TurnConstants DEF OneCompletion
    <3>3. {} \subseteq dropped \cup {completionTask} /\ {} \subseteq Transcript!Tasks
          /\ \A t \in {} : completion[t] = "grace"
      BY Zenon
    <3> QED
      BY Zenon, <1>1, <1>2, <2>2, <3>1, <3>2, <3>3, ArmStep
  <2> QED
    BY Zenon, <1>1, <2>1, <2>2
<1>5. committed' = FALSE
  BY Zenon, <1>1, <1>2
<1>6. Transcript!Waiting' = Transcript!Waiting
  BY Zenon, <1>3, <1>4, <1>5, ArmedWaits
<1> QED
  BY Zenon, <1>1, <1>4, <1>6, UntextedStep DEF Untexted

\* A completion task is over: its stop was pushed, or its cancellation arrived.
LEMMA OverStep ==
  ASSUME TextTypes, TaskTypes, OneCompletion, CharsCounted, AllInLine, NEW t \in Transcript!Tasks,
         Transcript!Pushed(t) \/ Transcript!Cancelled(t)
  PROVE  TextTypes' /\ TaskTypes' /\ OneCompletion' /\ CharsCounted' /\ AllInLine'
<1>1. /\ UNCHANGED <<spoken, heard, chars, fragments, text, created, routed, dropped, lane>>
      /\ completion' = [completion EXCEPT ![t] = "done"]
  BY Zenon DEF Transcript!Pushed, Transcript!Cancelled, Transcript!input, Transcript!buffer, Transcript!slots
<1>2. \/ /\ completion[t] = "push" /\ completionTask = t /\ committed
         /\ completionTask' = 0 /\ committed' = FALSE
      \/ /\ completion[t] = "grace" /\ t \in dropped /\ completionTask # t
         /\ completionTask' = completionTask /\ committed' = committed
  <2>1. CASE Transcript!Pushed(t)
    BY Zenon, <2>1 DEF Transcript!Pushed, Transcript!Released, OneCompletion
  <2>2. CASE Transcript!Cancelled(t)
    <3>1. t \in dropped /\ completion[t] \in {"grace", "slot", "push"}
      BY Zenon, <2>2 DEF Transcript!Cancelled, Transcript!Alive
    <3>2. completion[t] \in {"grace", "done"} /\ completionTask # t
      BY Zenon, <3>1 DEF OneCompletion
    <3>3. completion[t] = "grace"
      BY Zenon, <3>1, <3>2
    <3> QED
      BY Zenon, <2>2, <3>1, <3>2, <3>3 DEF Transcript!Cancelled
  <2> QED
    BY Zenon, <2>1, <2>2
<1>3. /\ completion'[t] = "done"
      /\ \A u \in Transcript!Tasks \ {t} : completion'[u] = completion[u]
      /\ completion' \in [Transcript!Tasks -> {"none", "grace", "slot", "push", "done"}]
  BY Zenon, <1>1 DEF TaskTypes
<1>4. TaskTypes'
  BY Zenon, <1>1, <1>2, <1>3 DEF TaskTypes, Transcript!Tasks
<1>6. ASSUME NEW u \in Transcript!Tasks
      PROVE  /\ completion'[u] = "grace" /\ u \notin dropped' => completionTask' = u /\ ~committed'
             /\ completion'[u] \in {"slot", "push"} => completionTask' = u /\ committed'
             /\ u \in dropped' => completion'[u] \in {"grace", "done"} /\ completionTask' # u
  <2>1. CASE u = t
    <3>1. "done" # "grace" /\ "done" \notin {"slot", "push"} /\ u # 0
      BY Zenon, TurnConstants
    <3>2. u \in dropped => completionTask # u
      BY Zenon DEF OneCompletion
    <3> QED
      BY Zenon, <1>1, <1>2, <1>3, <2>1, <3>1, <3>2
  <2>2. CASE u # t
    <3>1. completion'[u] = completion[u] /\ u # 0 /\ dropped' = dropped
      BY Zenon, <1>1, <1>3, <2>2, TurnConstants
    <3>2. /\ completion[u] = "grace" /\ u \notin dropped => completionTask = u /\ ~committed
          /\ completion[u] \in {"slot", "push"} => completionTask = u /\ committed
          /\ u \in dropped => completion[u] \in {"grace", "done"} /\ completionTask # u
      BY Zenon DEF OneCompletion
    <3>3. CASE completionTask = t /\ committed /\ completionTask' = 0
      BY Zenon, <2>2, <3>1, <3>2, <3>3
    <3>4. CASE completionTask' = completionTask /\ committed' = committed
      BY Zenon, <3>1, <3>2, <3>4
    <3> QED
      BY Zenon, <1>2, <3>3, <3>4
  <2> QED
    BY Zenon, <2>1, <2>2
<1>7. ASSUME lane' # 0
      PROVE  /\ \E u \in Transcript!Tasks : completion'[u] = "none"
             /\ \/ completionTask' = lane' /\ committed' /\ completion'[lane'] \in {"slot", "push"}
                \/ completionTask' = 0 /\ ~committed'
  <2>1. /\ lane \in Transcript!Tasks /\ lane' = lane
        /\ \E u \in Transcript!Tasks : completion[u] = "none"
        /\ \/ completionTask = lane /\ committed /\ completion[lane] \in {"slot", "push"}
           \/ completionTask = 0 /\ ~committed
    BY Zenon, <1>1, <1>7 DEF OneCompletion, TaskTypes
  <2>2. PICK u \in Transcript!Tasks : completion[u] = "none"
    BY Zenon, <2>1
  <2>3. u # t
    BY Zenon, <1>2, <2>2
  <2>4. CASE completionTask = t /\ committed /\ completionTask' = 0 /\ committed' = FALSE
    BY Zenon, <1>3, <2>2, <2>3, <2>4
  <2>5. CASE completionTask # t /\ completionTask' = completionTask /\ committed' = committed
    <3>1. completion'[u] = "none"
      BY Zenon, <1>3, <2>2, <2>3
    <3>2. completionTask = lane => completion'[lane] = completion[lane]
      BY Zenon, <1>3, <2>1, <2>5
    <3> QED
      BY Zenon, <2>1, <2>5, <3>1, <3>2
  <2>6. \/ completionTask = t /\ committed /\ completionTask' = 0 /\ committed' = FALSE
        \/ completionTask # t /\ completionTask' = completionTask /\ committed' = committed
    BY Zenon, <1>2
  <2> QED
    BY Zenon, <2>4, <2>5, <2>6
<1>8. OneCompletion'
  BY Zenon, <1>6, <1>7 DEF OneCompletion, Transcript!Tasks
<1>9. Transcript!Waiting' = Transcript!Waiting
  <2>1. CASE completion[t] = "push" /\ completionTask = t /\ completionTask' = 0
    <3>1. completion[t] # "slot"
      BY Zenon, <2>1
    <3> QED
      BY Zenon, <2>1, <3>1 DEF Transcript!Waiting
  <2>2. CASE completionTask # t /\ completionTask' = completionTask
    <3>1. completionTask # 0 => completion'[completionTask] = completion[completionTask]
      BY Zenon, <1>3, <2>2 DEF TaskTypes
    <3> QED
      BY Zenon, <1>1, <2>2, <3>1 DEF Transcript!Waiting
  <2> QED
    BY Zenon, <1>2, <2>1, <2>2
<1> QED
  BY Zenon, <1>1, <1>4, <1>8, <1>9, UntextedStep DEF Untexted

\* The turn a completion works on goes from one stage to another, and stays its own.
LEMMA TurnMoves ==
  ASSUME TaskTypes, OneCompletion, NEW t \in Transcript!Tasks, NEW c \in {"slot", "push"},
         completion[t] \in {"grace", "slot"}, completionTask = t,
         completion' = [completion EXCEPT ![t] = c], t \notin dropped,
         completionTask' = completionTask, committed' = TRUE, dropped' = dropped, lane' = lane,
         lane # 0 => committed
  PROVE  TaskTypes' /\ OneCompletion' /\ completion'[t] = c
<1>1. /\ completion'[t] = c
      /\ \A u \in Transcript!Tasks \ {t} : completion'[u] = completion[u]
      /\ completion' \in [Transcript!Tasks -> {"none", "grace", "slot", "push", "done"}]
  BY Zenon DEF TaskTypes
<1>2. TaskTypes'
  BY Zenon, <1>1 DEF TaskTypes, Transcript!Tasks
<1>3. c # "grace" /\ completion[t] # "none"
  BY Zenon
<1>4. ASSUME NEW u \in Transcript!Tasks
      PROVE  /\ completion'[u] = "grace" /\ u \notin dropped' => completionTask' = u /\ ~committed'
             /\ completion'[u] \in {"slot", "push"} => completionTask' = u /\ committed'
             /\ u \in dropped' => completion'[u] \in {"grace", "done"} /\ completionTask' # u
  <2>1. CASE u = t
    BY Zenon, <1>1, <1>3, <2>1
  <2>2. CASE u # t
    <3>1. completion'[u] = completion[u]
      BY Zenon, <1>1, <2>2
    <3>2. /\ completion[u] = "grace" /\ u \notin dropped => completionTask = u
          /\ completion[u] \in {"slot", "push"} => completionTask = u
          /\ u \in dropped => completion[u] \in {"grace", "done"} /\ completionTask # u
      BY Zenon DEF OneCompletion
    <3> QED
      BY Zenon, <2>2, <3>1, <3>2
  <2> QED
    BY Zenon, <2>1, <2>2
<1>5. ASSUME lane' # 0
      PROVE  /\ \E u \in Transcript!Tasks : completion'[u] = "none"
             /\ completionTask' = lane' /\ committed' /\ completion'[lane'] \in {"slot", "push"}
  <2>1. /\ \E u \in Transcript!Tasks : completion[u] = "none"
        /\ completionTask = lane
    BY Zenon, <1>5 DEF OneCompletion
  <2> QED
    BY Zenon, <1>1, <1>3, <2>1
<1> QED
  BY Zenon, <1>1, <1>2, <1>4, <1>5 DEF OneCompletion, Transcript!Tasks

\* A slot is granted: what the completion took becomes a dispatch.
LEMMA SlotStep ==
  ASSUME TextTypes, TaskTypes, OneCompletion, CharsCounted, AllInLine, NEW t \in Transcript!Tasks,
         Transcript!SlotGranted(t)
  PROVE  TextTypes' /\ TaskTypes' /\ OneCompletion' /\ CharsCounted' /\ AllInLine'
<1>1. /\ completion[t] = "slot" /\ t \notin dropped
      /\ completion' = [completion EXCEPT ![t] = "push"]
      /\ created' = Append(created, text[t])
      /\ UNCHANGED <<spoken, heard, chars, fragments, text, routed, dropped, completionTask, committed, lane>>
  BY Zenon DEF Transcript!SlotGranted, Transcript!Dispatch, Transcript!input, Transcript!buffer
<1>2. completionTask = t /\ committed /\ t # 0
  BY Zenon, <1>1, TurnConstants DEF OneCompletion
<1>3. committed' = TRUE
  BY Zenon, <1>1, <1>2 DEF TaskTypes
<1>4. TaskTypes' /\ OneCompletion' /\ completion'[t] = "push"
  BY Zenon, <1>1, <1>2, <1>3, TurnMoves
<1>5. Transcript!Waiting = text[t]
  BY Zenon, <1>1, <1>2 DEF Transcript!Waiting
<1>6. Transcript!Waiting' = <<>>
  <2>1. completion'[t] # "slot" /\ completionTask' = t
    BY Zenon, <1>1, <1>2, <1>4
  <2> QED
    BY Zenon, <2>1 DEF Transcript!Waiting
<1>7. text[t] \in Seq(Fragment) /\ <<>> \in Seq(Fragment) /\ fragments \in Seq(Fragment)
      /\ created \in Seq(Seq(Fragment)) /\ routed \in Seq(Seq(Fragment))
  BY DEF TextTypes
<1>8. /\ routed' \o created' = Append(routed \o created, text[t])
      /\ routed \o created # Append(routed \o created, text[t])
      /\ created' \in Seq(Seq(Fragment))
  BY SMTT(30), <1>1, <1>7
<1>9. text[t] \o fragments = text[t] \o (<<>> \o fragments)
  BY <1>7
<1>10. Transcript!Heard' = Transcript!Heard
  BY Zenon, <1>1, <1>5, <1>6, <1>7, <1>8, <1>9, HeardKept
<1>11. TextTypes'
  BY Zenon, <1>1, <1>8 DEF TextTypes, Transcript!Tasks
<1> QED
  BY Zenon, <1>1, <1>4, <1>10, <1>11 DEF CharsCounted, AllInLine, Numbered

\* The grace of the current completion is over.
LEMMA GraceFacts ==
  ASSUME TaskTypes, OneCompletion, NEW t \in Transcript!Tasks, Transcript!GraceOver(t)
  PROVE  /\ completion[t] = "grace" /\ t \notin dropped /\ completionTask = t /\ t # 0 /\ ~committed /\ lane = 0
         /\ UNCHANGED <<spoken, heard, routed, dropped, lane>>
         /\ Transcript!Waiting = <<>>
<1>1. completion[t] = "grace" /\ t \notin dropped /\ UNCHANGED <<spoken, heard, routed, dropped, lane>>
  BY Zenon DEF Transcript!GraceOver, Transcript!input, Transcript!slots, Transcript!Dispatch
<1>2. completionTask = t /\ ~committed /\ t # 0
  BY Zenon, <1>1, TurnConstants DEF OneCompletion
<1>3. lane = 0
  BY Zenon, <1>2 DEF OneCompletion
<1> QED
  BY Zenon, <1>1, <1>2, <1>3, NothingWaits

\* Nothing was collected: the completion is over.
LEMMA EmptyGraceStep ==
  ASSUME TextTypes, TaskTypes, OneCompletion, CharsCounted, AllInLine, NEW t \in Transcript!Tasks,
         Transcript!GraceOver(t), fragments = <<>>
  PROVE  TextTypes' /\ TaskTypes' /\ OneCompletion' /\ CharsCounted' /\ AllInLine'
<1>1. /\ completion' = [completion EXCEPT ![t] = "done"] /\ completionTask' = 0
      /\ UNCHANGED <<spoken, heard, chars, fragments, text, committed, created, routed, dropped, lane>>
  BY Zenon DEF Transcript!GraceOver, Transcript!input, Transcript!buffer, Transcript!slots
<1>2. completion[t] = "grace" /\ completionTask = t /\ t # 0 /\ ~committed /\ lane = 0
  BY Zenon, GraceFacts
<1>3. /\ completion'[t] = "done"
      /\ \A u \in Transcript!Tasks \ {t} : completion'[u] = completion[u]
      /\ completion' \in [Transcript!Tasks -> {"none", "grace", "slot", "push", "done"}]
  BY Zenon, <1>1 DEF TaskTypes
<1>4. TaskTypes'
  BY Zenon, <1>1, <1>3 DEF TaskTypes, Transcript!Tasks
<1>5. ASSUME NEW u \in Transcript!Tasks
      PROVE  /\ completion'[u] = "grace" /\ u \notin dropped' => completionTask' = u /\ ~committed'
             /\ completion'[u] \in {"slot", "push"} => completionTask' = u /\ committed'
             /\ u \in dropped' => completion'[u] \in {"grace", "done"} /\ completionTask' # u
  <2>1. CASE u = t
    <3>1. "done" # "grace" /\ "done" \notin {"slot", "push"} /\ u # 0
      BY Zenon, TurnConstants
    <3> QED
      BY Zenon, <1>1, <1>3, <2>1, <3>1
  <2>2. CASE u # t
    <3>1. completion'[u] = completion[u] /\ u # 0
      BY Zenon, <1>3, <2>2, TurnConstants
    <3>2. /\ completion[u] = "grace" /\ u \notin dropped => completionTask = u
          /\ completion[u] \in {"slot", "push"} => completionTask = u
          /\ u \in dropped => completion[u] \in {"grace", "done"} /\ completionTask # u
      BY Zenon DEF OneCompletion
    <3> QED
      BY Zenon, <1>1, <1>2, <2>2, <3>1, <3>2
  <2> QED
    BY Zenon, <2>1, <2>2
<1>6. OneCompletion'
  BY Zenon, <1>1, <1>2, <1>5 DEF OneCompletion, Transcript!Tasks
<1>7. Transcript!Waiting' = Transcript!Waiting
  <2>1. Transcript!Waiting = <<>>
    BY Zenon, <1>2, NothingWaits
  <2> QED
    BY Zenon, <1>1, <2>1 DEF Transcript!Waiting
<1> QED
  BY Zenon, <1>1, <1>4, <1>6, <1>7, UntextedStep DEF Untexted

\* The fragments become a turn, which is dispatched or waits for a slot.
LEMMA TakenStep ==
  ASSUME TextTypes, TaskTypes, OneCompletion, CharsCounted, AllInLine, NEW t \in Transcript!Tasks,
         Transcript!GraceOver(t), fragments # <<>>
  PROVE  TextTypes' /\ TaskTypes' /\ OneCompletion' /\ CharsCounted' /\ AllInLine'
<1>1. /\ completion[t] = "grace" /\ t \notin dropped /\ completionTask = t /\ t # 0 /\ ~committed /\ lane = 0
      /\ UNCHANGED <<spoken, heard, routed, dropped, lane>>
      /\ Transcript!Waiting = <<>>
  BY Zenon, GraceFacts
<1>2. /\ fragments' = <<>> /\ chars' = 0 /\ committed' = TRUE /\ completionTask' = completionTask
      /\ text' = [text EXCEPT ![t] = fragments]
      /\ \/ completion' = [completion EXCEPT ![t] = "push"] /\ created' = Append(created, fragments)
         \/ completion' = [completion EXCEPT ![t] = "slot"] /\ created' = created
  BY Zenon DEF Transcript!GraceOver, Transcript!Taken, Transcript!Dispatch, Transcript!slots
<1>3. /\ text' \in [Transcript!Tasks -> Seq(Fragment)] /\ text'[t] = fragments
      /\ fragments \in Seq(Fragment) /\ <<>> \in Seq(Fragment)
      /\ created \in Seq(Seq(Fragment)) /\ routed \in Seq(Seq(Fragment))
  BY <1>2 DEF TextTypes
<1>4. created' \in Seq(Seq(Fragment))
  <2>1. Append(created, fragments) \in Seq(Seq(Fragment))
    BY <1>3
  <2> QED
    BY Zenon, <1>2, <1>3, <2>1
<1>5. TextTypes'
  <2>1. chars' \in Int
    BY <1>2
  <2> QED
    BY Zenon, <1>1, <1>2, <1>3, <1>4, <2>1 DEF TextTypes, Transcript!Tasks
<1>6. CharsCounted'
  <2>1. heard \in Nat /\ heard' = heard
    BY Zenon, <1>1 DEF TextTypes
  <2> QED
    BY <1>2, <2>1 DEF CharsCounted
<1>7. <<>> \o fragments = fragments /\ <<>> \o <<>> = <<>> /\ fragments \o <<>> = fragments
  BY <1>3
<1>8. TaskTypes' /\ OneCompletion' /\ Transcript!Heard' = Transcript!Heard
  <2>1. CASE completion' = [completion EXCEPT ![t] = "push"] /\ created' = Append(created, fragments)
    <3>1. "push" \in {"slot", "push"} /\ "grace" \in {"grace", "slot"} /\ "push" # "slot"
      BY Zenon
    <3>2. TaskTypes' /\ OneCompletion' /\ completion'[t] = "push"
      BY Zenon, <1>1, <1>2, <2>1, <3>1, TurnMoves
    <3>3. Transcript!Waiting' = <<>>
      BY Zenon, <1>1, <1>2, <3>1, <3>2 DEF Transcript!Waiting
    <3>4. /\ routed' \o created' = Append(routed \o created, fragments)
          /\ routed \o created # Append(routed \o created, fragments)
      BY <1>1, <1>3, <2>1
    <3>5. <<>> \o fragments = fragments \o (<<>> \o <<>>)
      BY Zenon, <1>7
    <3> QED
      BY Zenon, <1>1, <1>2, <1>3, <3>2, <3>3, <3>4, <3>5, HeardKept
  <2>2. CASE completion' = [completion EXCEPT ![t] = "slot"] /\ created' = created
    <3>1. "slot" \in {"slot", "push"} /\ "grace" \in {"grace", "slot"}
      BY Zenon
    <3>2. TaskTypes' /\ OneCompletion' /\ completion'[t] = "slot"
      BY Zenon, <1>1, <1>2, <2>2, <3>1, TurnMoves
    <3>3. Transcript!Waiting' = fragments
      BY Zenon, <1>1, <1>2, <1>3, <3>2 DEF Transcript!Waiting
    <3>4. routed' \o created' = routed \o created
      BY Zenon, <1>1, <2>2
    <3>5. <<>> \o fragments = fragments \o <<>>
      BY Zenon, <1>7
    <3> QED
      BY Zenon, <1>1, <1>2, <1>3, <3>2, <3>3, <3>4, <3>5, HeardKept
  <2> QED
    BY Zenon, <1>2, <2>1, <2>2
<1> QED
  BY Zenon, <1>1, <1>5, <1>6, <1>8 DEF AllInLine, Numbered

\* Nothing was said.
LEMMA TranscriptInit == Transcript!Init => TranscriptInv
<1> SUFFICES ASSUME Transcript!Init PROVE TextTypes /\ TaskTypes /\ OneCompletion /\ CharsCounted /\ AllInLine
  BY Zenon DEF TranscriptInv
<1>1. /\ spoken = 0 /\ heard = 0 /\ fragments = <<>> /\ chars = 0
      /\ completion = [t \in Transcript!Tasks |-> "none"] /\ text = [t \in Transcript!Tasks |-> <<>>]
      /\ dropped = {} /\ completionTask = 0 /\ committed = FALSE /\ lane = 0
      /\ created = <<>> /\ routed = <<>>
  BY Zenon DEF Transcript!Init
<1>2. TextTypes /\ CharsCounted
  BY <1>1, TurnConstants DEF TextTypes, CharsCounted
<1>3. TaskTypes
  BY Zenon, <1>1 DEF TaskTypes
<1>4. OneCompletion
  BY Zenon, <1>1 DEF OneCompletion
<1>5. Transcript!Waiting = <<>>
  BY Zenon, <1>3, <1>4, <1>1, NothingWaits
<1>6. Transcript!Said(<<>>) = <<>>
  BY Zenon DEF Transcript!Said
<1>7. routed \o created = <<>> /\ <<>> \o <<>> = <<>>
  BY <1>1
<1>8. Transcript!Heard = <<>>
  BY Zenon, <1>1, <1>5, <1>6, <1>7 DEF Transcript!Heard
<1>9. Numbered(<<>>, 0)
  BY DEF Numbered
<1> QED
  BY Zenon, <1>1, <1>2, <1>3, <1>4, <1>8, <1>9 DEF AllInLine

\* Once the pipeline ended or cleanup began, that stays so.
LEMMA ServiceEnds ==
  ASSUME Transcript!Next, InService' PROVE InService /\ ~Transcript!End /\ ~Transcript!Cleanup
<1>1. (MaxChars >= 3 * MaxSegments)' <=> MaxChars >= 3 * MaxSegments
  BY Zenon
<1>2. "no" # "yes" /\ "no" # "done"
  BY Zenon
<1>3. pipelineEnded' # TRUE /\ closing' = "no"
  BY Zenon DEF InService
<1> QED
  BY Zenon, <1>1, <1>2, <1>3 DEF InService, Transcript!Next, Transcript!Speak, Transcript!Transcription,
     Transcript!Started, Transcript!Stopped, Transcript!Joined, Transcript!End, Transcript!GraceOver,
     Transcript!Completion, Transcript!SlotGranted, Transcript!Pushed, Transcript!Cancelled,
     Transcript!DispatchStarts, Transcript!DispatchEnds, Transcript!DispatchDropped, Transcript!Cleanup,
     Transcript!CleanupEnds

\* A step of the transcript processor keeps its invariant.
LEMMA TranscriptStep == TranscriptInv /\ Transcript!Next => TranscriptInv'
<1> SUFFICES ASSUME TranscriptInv, Transcript!Next, InService'
             PROVE  TextTypes' /\ TaskTypes' /\ OneCompletion' /\ CharsCounted' /\ AllInLine'
  BY Zenon DEF TranscriptInv
<1>1. InService /\ ~Transcript!End /\ ~Transcript!Cleanup
  BY Zenon, ServiceEnds
<1>2. TextTypes /\ TaskTypes /\ OneCompletion /\ CharsCounted /\ AllInLine
  BY Zenon, <1>1 DEF TranscriptInv
<1>3. ~Transcript!DispatchDropped /\ ~Transcript!CleanupEnds
  <2>1. closing # "yes"
    BY Zenon, <1>1 DEF InService
  <2> QED
    BY Zenon, <2>1 DEF Transcript!DispatchDropped, Transcript!CleanupEnds
<1>4. ASSUME NEW t \in Transcript!Tasks, Transcript!GraceOver(t) \/ Transcript!Completion(t)
      PROVE  TextTypes' /\ TaskTypes' /\ OneCompletion' /\ CharsCounted' /\ AllInLine'
  <2>1. CASE Transcript!GraceOver(t)
    BY Zenon, <1>2, <2>1, EmptyGraceStep, TakenStep
  <2>2. CASE Transcript!SlotGranted(t)
    BY Zenon, <1>2, <2>2, SlotStep
  <2>3. CASE Transcript!Pushed(t) \/ Transcript!Cancelled(t)
    BY Zenon, <1>2, <2>3, OverStep
  <2> QED
    BY Zenon, <1>4, <2>1, <2>2, <2>3 DEF Transcript!Completion
<1>5. CASE Transcript!Speak
  BY Zenon, <1>1, <1>2, <1>5, SpeakStep
<1>6. CASE Transcript!Transcription
  BY Zenon, <1>1, <1>2, <1>6, TranscriptionStep
<1>7. CASE Transcript!Started
  BY Zenon, <1>2, <1>7, StartedStep
<1>8. CASE Transcript!Stopped
  BY Zenon, <1>2, <1>8, StoppedStep
<1>9. CASE Transcript!Joined
  BY Zenon, <1>1, <1>2, <1>9, JoinedStep
<1>10. CASE Transcript!DispatchStarts \/ Transcript!DispatchEnds
  BY Zenon, <1>1, <1>2, <1>10, DispatchStep
<1> QED
  BY Zenon, <1>1, <1>3, <1>4, <1>5, <1>6, <1>7, <1>8, <1>9, <1>10 DEF Transcript!Next

\* So does a step of the other parts.
LEMMA TranscriptRests == TranscriptInv /\ UNCHANGED transcriptVars => TranscriptInv'
<1> SUFFICES ASSUME TranscriptInv, UNCHANGED transcriptVars, InService'
             PROVE  TextTypes' /\ TaskTypes' /\ OneCompletion' /\ CharsCounted' /\ AllInLine'
  BY Zenon DEF TranscriptInv
<1>1. /\ UNCHANGED <<spoken, heard, fragments, chars, completion, text, dropped, completionTask, committed, lane>>
      /\ UNCHANGED <<created, routed, pipelineEnded, closing>>
  BY Zenon DEF transcriptVars
<1>2. TextTypes /\ TaskTypes /\ OneCompletion /\ CharsCounted /\ AllInLine
  BY Zenon, <1>1 DEF TranscriptInv, InService
<1>3. TaskTypes' /\ OneCompletion'
  BY Zenon, <1>1, <1>2 DEF TaskTypes, OneCompletion, Transcript!Tasks
<1>4. Transcript!Waiting' = Transcript!Waiting
  BY Zenon, <1>1 DEF Transcript!Waiting
<1> QED
  BY Zenon, <1>1, <1>2, <1>3, <1>4, UntextedStep DEF Untexted

\* What was transcribed is in line, from the turns routed to the fragments.
LEMMA InLineIsRouted == TranscriptInv => RoutedOnceInOrder
<1> SUFFICES ASSUME TranscriptInv, InService
             PROVE  [i \in 1..Len(Transcript!Heard) |-> Transcript!Heard[i].of] = [i \in 1..heard |-> i]
  BY Zenon DEF RoutedOnceInOrder, Transcript!RoutedOnceInOrder, InService
<1>1. Len(Transcript!Heard) = heard /\ \A i \in 1..heard : Transcript!Heard[i].of = i
  BY Zenon DEF TranscriptInv, AllInLine, Numbered
<1> QED
  BY Zenon, <1>1

\* FinalTurnTranscriptProcessor: until the pipeline ends, what was transcribed is
\* routed exactly once and in the order it was said, for any number of segments,
\* stops and dispatch slots: nothing is lost or doubled between the fragments, a
\* completion that committed, its wait for a slot and the dispatch.
THEOREM RoutedOnceInOrderAlways == WorkSpec => []RoutedOnceInOrder
<1>1. WorkInit => TranscriptInv
  BY Zenon, TranscriptInit DEF WorkInit
<1>2. TranscriptInv /\ [WorkNext]_all => TranscriptInv'
  <2> SUFFICES ASSUME TranscriptInv, [WorkNext]_all PROVE TranscriptInv'
    BY Zenon
  <2>1. CASE Transcript!Next
    BY Zenon, <2>1, TranscriptStep
  <2>2. CASE UNCHANGED transcriptVars
    BY Zenon, <2>2, TranscriptRests
  <2>3. UNCHANGED all => UNCHANGED transcriptVars
    BY Zenon DEF all
  <2> QED
    BY Zenon, <2>1, <2>2, <2>3 DEF WorkNext
<1>3. QED
  BY <1>1, <1>2, InLineIsRouted, PTL DEF WorkSpec
=============================================================================
